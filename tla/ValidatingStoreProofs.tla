------------------------ MODULE ValidatingStoreProofs ------------------------
(***************************************************************************)
(* Proofs about ValidatingStore, for any universe of blocks and any set of *)
(* goroutines.                                                             *)
(*                                                                         *)
(* Most steps have one of three shapes: Decide and Continue change only    *)
(* what one goroutine knows, and Leave is how an admission ends.  The      *)
(* lemmas treat the shapes once; the actions instantiate them.             *)
(*                                                                         *)
(* The second part proves that acceptances are well founded however        *)
(* goroutines interleave: AcceptedChain, NoAncestorGap,                    *)
(* VerdictsAreOfHeldBlocks, FiledUntilArrival and OneDirection.  None of   *)
(* them is inductive alone.  What carries them is CallInv, which says what *)
(* a goroutine has established at each of its steps.  It speaks of blocks  *)
(* and accepted positively only, so it survives the steps of the other     *)
(* goroutines because both sets only grow (Grows, CallsStable).            *)
(*                                                                         *)
(* The third part proves AcceptedRefs: Checked says which entries of refs  *)
(* a validation has looked at, and that it noted those it could not.       *)
(*                                                                         *)
(* The fourth part proves that the decisions are right, whatever arrives   *)
(* while a block is validated: a block is accepted only where the blocks   *)
(* held define what it references (ImplementsReception), and rejected only *)
(* if no store, however complete, could accept it (RejectionIsDefinitive). *)
(* Trace is what carries both.  It says that the traversal has reached     *)
(* nothing the block does not lead to, that what it passed is sound, and   *)
(* that it has left nothing out unless it recorded a gap.  The first two   *)
(* justify an acceptance, the last a rejection.                            *)
(*                                                                         *)
(* The last part is about a store with one caller: no block arrives while  *)
(* another is validated, so the count of the scan limit stays right        *)
(* (ScanCount).                                                            *)
(***************************************************************************)
EXTENDS ValidatingStore, MemStoreProofs

\* The validation of no block, and a fresh one, are validations.
LEMMA NoValidationType == NoValidation \in Validation
  BY DEF NoValidation, Validation

\* A validation begins well typed.
LEMMA NewValidationType ==
    ASSUME NEW d \in Digest
    PROVE  NewValidation(d) \in Validation
  BY NoValidationType, RefsType, ContentType DEF NewValidation, NoValidation, Validation

\* One entry of refs is checked.
LEMMA CheckRefType ==
    ASSUME NEW v \in Validation, NEW held \in SUBSET Digest, v.toCheck # <<>>
    PROVE  CheckRef(v, held) \in Validation
<1>1. Head(v.toCheck) \in Digest /\ Tail(v.toCheck) \in Seq(Digest)
  BY DEF Validation
<1> QED
  BY <1>1 DEF CheckRef, Validation

\* One ancestor is read, or found missing.
LEMMA ExtendAncestorsType ==
    ASSUME NEW v \in Validation, NEW held \in SUBSET Digest,
           v.nextAncestor # NoDigest
    PROVE  ExtendAncestors(v, held) \in Validation
<1> DEFINE d == v.nextAncestor
<1>1. d \in Digest
  BY DEF Validation
<1>2. CASE d \notin held
  BY <1>1, <1>2 DEF ExtendAncestors, Validation
<1>3. CASE d \in held
  <2>1. content[d].prev \in Digest \cup {NoDigest} /\ Definitions(d) \in SUBSET Entity
    BY <1>1, ContentType, DefinitionsType
  <2>2. Gap(v.keyGap, d) \in Digest \cup {NoDigest}
    BY <1>1 DEF Gap, Validation
  <2> QED
    BY <1>1, <1>3, <2>1, <2>2 DEF ExtendAncestors, Validation
<1> QED
  BY <1>2, <1>3

\* One block of the refs graph is scanned.
LEMMA ScanType ==
    ASSUME NEW v \in Validation, NEW d \in Digest
    PROVE  Scan(v, d) \in Validation
<1>1. /\ Definitions(d) \in SUBSET Entity
      /\ content[d].refs \in Seq(Digest)
  BY ContentType, DefinitionsType
<1>2. v.queue \o content[d].refs \in Seq(Digest)
  BY <1>1 DEF Validation
<1>3. Gap(v.keyGap, d) \in Digest \cup {NoDigest}
  BY DEF Gap, Validation
<1>4. v.scanned + 1 \in Nat /\ v.defs \cup Definitions(d) \in SUBSET Entity
  BY <1>1 DEF Validation
<1>5. [v EXCEPT !.scanned = v.scanned + 1,
                !.defs = v.defs \cup Definitions(d),
                !.queue = v.queue \o content[d].refs] \in Validation
  BY <1>2, <1>4 DEF Validation
<1>6. [v EXCEPT !.scanned = v.scanned + 1, !.keyGap = Gap(v.keyGap, d)] \in Validation
  BY <1>3, <1>4 DEF Validation
<1> QED
  BY <1>5, <1>6 DEF Scan

\* One entry of the queue is taken.
LEMMA ExtendRefsType ==
    ASSUME NEW v \in Validation, NEW held \in SUBSET Digest, v.queue # <<>>
    PROVE  ExtendRefs(v, held) \in Validation
<1> DEFINE d == Head(v.queue)
           w == [v EXCEPT !.queue = Tail(@), !.visited = @ \cup {d}]
<1>1. d \in Digest /\ Tail(v.queue) \in Seq(Digest)
  BY DEF Validation
<1>2. w \in Validation
  BY <1>1 DEF Validation
<1>3. [w EXCEPT !.refsGap = Gap(@, d)] \in Validation
  BY <1>1, <1>2 DEF Gap, Validation
<1>4. Scan(w, d) \in Validation
  BY <1>1, <1>2, ScanType
<1>5. ExtendRefs(v, held) = CASE d \in v.visited -> w
          [] d \notin v.visited /\ d \notin held -> [w EXCEPT !.refsGap = Gap(@, d)]
          [] d \in held \ v.visited -> Scan(w, d)
  BY DEF ExtendRefs
<1> HIDE DEF w
<1> QED
  BY <1>2, <1>3, <1>4, <1>5

\* An operation's entity becomes visible.
LEMMA DefineType ==
    ASSUME NEW v \in Validation, NEW d \in Digest, ~OpsDone(v, d)
    PROVE  Define(v, d) \in Validation
<1>1. content[d].ops \in Seq(Operation)
  BY ContentType
<1>2. v.op \in 1..Len(content[d].ops)
  BY <1>1 DEF OpsDone, Validation
<1>3. content[d].ops[v.op] \in Operation
  BY <1>1, <1>2, ElementOfSeq
<1> DEFINE defs == v.defs \cup ({content[d].ops[v.op].creates} \ {NoEntity})
<1>4. defs \in SUBSET Entity
  BY <1>3 DEF Operation, Validation
<1>5. v.op + 1 \in Nat \ {0} /\ 1 \in Nat \ {0}
  BY DEF Validation
<1>6. Define(v, d) = [v EXCEPT !.defs = defs, !.op = v.op + 1, !.ref = 1]
  BY DEF Define
<1> HIDE DEF defs
<1> QED
  BY <1>4, <1>5, <1>6 DEF Validation
-----------------------------------------------------------------------------

\* The steps at which a goroutine has a block in hand.
Busy == PC \ {"idle", "take", "waiters"}
InHand == \A p \in Proc : pc[p] \in Busy => block[p] \in Digest

\* What is about to be stored or recorded is a fresh decision.
Decided(p) == adm[p].verdict \in {"valid", "unvalidated"} /\ ~adm[p].duplicate
Undelivered == \A p \in Proc : pc[p] \in {"store", "record"} => Decided(p)

TypeInv == TypeOK /\ InHand /\ Undelivered
-----------------------------------------------------------------------------
\* The constant entries and admissions have their types.
LEMMA ConstantsType ==
    /\ NoAdmission \in Admission
    /\ Duplicate \in Admission /\ Duplicate.verdict = "valid" /\ Duplicate.duplicate
    /\ Valid \in Admission /\ Valid.verdict = "valid" /\ ~Valid.duplicate
    /\ \A n \in 0..10 : Invalid(n) \in Admission /\ Invalid(n).verdict = "invalid"
    /\ \A n \in 0..10, a \in Digest \cup {NoDigest} :
          /\ Pending(a, n) \in Admission
          /\ Pending(a, n).verdict = "unvalidated"
          /\ ~Pending(a, n).duplicate
    /\ Unknown \in Entry
<1>1. NoAdmission \in Admission
  BY DEF NoAdmission, Admission
<1>2. Duplicate \in Admission /\ Duplicate.verdict = "valid" /\ Duplicate.duplicate
  BY <1>1 DEF Duplicate, NoAdmission, Admission
<1>3. Valid \in Admission /\ Valid.verdict = "valid" /\ ~Valid.duplicate
  BY <1>1 DEF Valid, NoAdmission, Admission
<1>4. \A n \in 0..10 : Invalid(n) \in Admission /\ Invalid(n).verdict = "invalid"
  BY <1>1 DEF Invalid, NoAdmission, Admission
<1>5. \A n \in 0..10, a \in Digest \cup {NoDigest} :
          /\ Pending(a, n) \in Admission
          /\ Pending(a, n).verdict = "unvalidated"
          /\ ~Pending(a, n).duplicate
  BY <1>1 DEF Pending, NoAdmission, Admission
<1>6. Unknown \in Entry
  BY DEF Unknown, Entry, NoReport, Report, Verdict
<1> QED
  BY <1>1, <1>2, <1>3, <1>4, <1>5, <1>6

\* Before any call the store is empty and every goroutine is idle.
LEMMA InitType == Init => TypeInv
<1> SUFFICES ASSUME Init PROVE TypeInv
  OBVIOUS
<1>1. MemTypeOK
  BY DEF Init, MemInit, MemTypeOK
<1>2. TypeOK
  BY <1>1, ConstantsType, NoValidationType DEF Init, TypeOK, PC
<1>3. InHand /\ Undelivered
  BY DEF Init, InHand, Undelivered, Busy
<1> QED
  BY <1>2, <1>3 DEF TypeInv

\* A decision keeps the types.
LEMMA DecideType ==
    ASSUME TypeInv, NEW p \in Proc, NEW a \in Admission,
           block[p] \in Digest,
           a.verdict # "none", Decide(p, a)
    PROVE  TypeInv'
<1> USE DEF TypeInv, Decide, Goto, storeVars, memVars
<1>1. TypeOK'
  BY DEF TypeOK, MemTypeOK, PC
<1>2. InHand'
  BY DEF TypeOK, InHand, Busy
<1>3. Undelivered'
  BY DEF TypeOK, Undelivered, Decided, Admission
<1> QED
  BY <1>1, <1>2, <1>3

\* A turn of a validation keeps the types.
LEMMA ContinueType ==
    ASSUME TypeInv, NEW p \in Proc, NEW v \in Validation, 
           NEW l \in PC \ {"store", "record"},
           block[p] \in Digest,
           Continue(p, l, v)
    PROVE  TypeInv'
<1> USE DEF TypeInv, Continue, Goto, storeVars, memVars
<1>1. TypeOK'
  BY DEF TypeOK, MemTypeOK
<1>2. InHand'
  BY DEF TypeOK, InHand, Busy
<1>3. Undelivered'
  BY DEF TypeOK, Undelivered, Decided
<1> QED
  BY <1>1, <1>2, <1>3

-----------------------------------------------------------------------------
\* The steps of admit up to the verdict keep the types: each is a Decide or
\* a Continue.
LEMMA ValidateType ==
    ASSUME TypeInv, NEW p \in Proc,
           LookupAccepted(p) \/ Lookup(p) \/ Validate(p)
    PROVE  TypeInv'
<1> DEFINE d == block[p]
           v == val[p]
           prev == content[d].prev
<1>0. /\ pc[p] \in Busy => d \in Digest
      /\ v \in Validation
      /\ blocks \in SUBSET Digest
  BY DEF TypeInv, TypeOK, MemTypeOK, InHand
<1> USE ConstantsType
<1>1. CASE LookupAccepted(p)
  BY <1>0, <1>1, DecideType DEF LookupAccepted, Busy, PC
<1>2. CASE Lookup(p)
  BY <1>0, <1>2, ContinueType, NewValidationType DEF Lookup, Busy, PC
<1>3. CASE Genesis(p)
  BY <1>0, <1>3, ContinueType DEF Genesis, Busy, PC
<1>4. CASE PrevMissing(p)
  <2>1. d \in Digest /\ prev \in Digest \cup {NoDigest}
    BY <1>0, <1>4, ContentType DEF PrevMissing, Busy, PC
  <2> QED
    BY <2>1, <1>4, DecideType DEF PrevMissing
<1>5. CASE PrevHeld(p)
  BY <1>0, <1>5, ContinueType DEF PrevHeld, Busy, PC
<1>6. CASE PrevUnaccepted(p)
  <2>1. d \in Digest /\ prev \in Digest \cup {NoDigest}
    BY <1>0, <1>6, ContentType DEF PrevUnaccepted, Busy, PC
  <2> QED
    BY <2>1, <1>6, DecideType DEF PrevUnaccepted
<1>7. CASE PrevAccepted(p)
  <2>1. d \in Digest
    BY <1>0, <1>7 DEF PrevAccepted, Busy, PC
  <2>2. CASE Continue(p, "siblings", v)
    BY <1>0, <2>1, <2>2, ContinueType DEF PC
  <2>3. CASE Decide(p, Invalid(3))
    BY <2>1, <2>3, DecideType
  <2> QED
    BY <1>7, <2>2, <2>3 DEF PrevAccepted
<1>8. CASE DetectFork(p)
  <2> DEFINE others == Range(BlocksWithPrev(content[d].pub, content[d].prev)) \ {d}
  <2>1. d \in Digest /\ pc[p] = "siblings"
    BY <1>0, <1>8 DEF DetectFork, Busy, PC
  <2>2. others \in SUBSET Digest
    <3>1. <<content[d].pub, content[d].prev>> \in Slot
      BY <2>1, ContentType DEF Slot
    <3>2. position[<<content[d].pub, content[d].prev>>] \in Seq(Digest)
      BY <3>1 DEF TypeInv, TypeOK, MemTypeOK
    <3> QED
      BY <3>2, RangeOfSeq DEF BlocksWithPrev
  <2>3. [v EXCEPT !.forks = others] \in Validation
    BY <1>0, <2>2 DEF Validation
  <2>4. /\ val' = [val EXCEPT ![p] = [v EXCEPT !.forks = others]]
        /\ adm' = adm \/ adm' = [adm EXCEPT ![p] = Valid]
        /\ pc' = [pc EXCEPT ![p] = "refs"] \/
             (adm' = [adm EXCEPT ![p] = Valid] /\ pc' = [pc EXCEPT ![p] = "store"])
        /\ UNCHANGED <<storeVars, block, arrived, queue, todo>>
    BY <1>8 DEF DetectFork, Goto, TypeInv, TypeOK
  <2> HIDE DEF others
  <2> USE DEF storeVars, memVars, TypeInv
  <2>5. TypeOK'
    BY ZenonT(60), <2>3, <2>4 DEF TypeOK, MemTypeOK, PC
  <2>6. InHand'
    BY <2>1, <2>4 DEF TypeOK, InHand, Busy
  <2>7. Undelivered'
    BY <2>4 DEF TypeOK, Undelivered, Decided
  <2> QED
    BY <2>5, <2>6, <2>7
<1>9. CASE CheckNextRef(p)
  <2>1. d \in Digest
    BY <1>0, <1>9 DEF CheckNextRef, Busy, PC
  <2>2. CASE Decide(p, Invalid(6)) \/ Decide(p, Invalid(10))
    BY <2>1, <2>2, DecideType
  <2>3. CASE Continue(p, "refs", CheckRef(v, blocks))
    <3>1. v.toCheck # <<>>
      BY <1>9 DEF CheckNextRef, RefsChecked
    <3> QED
      BY <1>0, <2>1, <2>3, <3>1, ContinueType, CheckRefType DEF PC
  <2> QED
    BY <1>9, <2>2, <2>3 DEF CheckNextRef
<1>10. CASE AllRefsChecked(p)
  BY <1>0, <1>10, ContinueType DEF AllRefsChecked, Busy, PC
<1>11. CASE ResolveReference(p)
  <2>1. d \in Digest
    BY <1>0, <1>11 DEF ResolveReference, Busy, PC
  <2>2. CASE Decide(p, Invalid(5))
    BY <2>1, <2>2, DecideType
  <2>3. CASE Continue(p, "resolve", [v EXCEPT !.ref = @ + 1])
    <3>1. [v EXCEPT !.ref = @ + 1] \in Validation
      <4>1. v.ref + 1 \in Nat \ {0}
        BY ONLY SMTT(30), <1>0 DEF Validation
      <4> QED
        BY <1>0, <4>1 DEF Validation
    <3> QED
      BY <2>1, <2>3, <3>1, ContinueType DEF PC
  <2> QED
    BY <1>11, <2>2, <2>3 DEF ResolveReference
<1>12. CASE SearchAncestors(p)
  <2>1. d \in Digest
    BY <1>0, <1>12 DEF SearchAncestors, Searching, Busy, PC
  <2>2. CASE Decide(p, Invalid(4))
    BY <2>1, <2>2, DecideType
  <2>3. CASE Continue(p, "resolve", ExtendAncestors(v, blocks))
    <3>1. ExtendAncestors(v, blocks) \in Validation
      BY <1>0, <1>12, ExtendAncestorsType DEF SearchAncestors
    <3> QED
      BY <2>1, <2>3, <3>1, ContinueType DEF PC
  <2> QED
    BY <1>12, <2>2, <2>3 DEF SearchAncestors
<1>13. CASE SearchRefs(p)
  <2>1. d \in Digest
    BY <1>0, <1>13 DEF SearchRefs, Searching, Busy, PC
  <2>2. CASE Decide(p, Invalid(4))
    BY <2>1, <2>2, DecideType
  <2>3. CASE Continue(p, "resolve", ExtendRefs(v, blocks))
    <3>1. ExtendRefs(v, blocks) \in Validation
      BY <1>0, <1>13, ExtendRefsType DEF SearchRefs
    <3> QED
      BY <2>1, <2>3, <3>1, ContinueType DEF PC
  <2> QED
    BY <1>13, <2>2, <2>3 DEF SearchRefs
<1>14. CASE SearchFails(p)
  <2>1. d \in Digest
    BY <1>0, <1>14 DEF SearchFails, Searching, Busy, PC
  <2>2. AwaitedBlock(v) \in Digest \cup {NoDigest}
    BY <1>0 DEF AwaitedBlock, Gap, Validation
  <2>3. CASE Decide(p, Pending(AwaitedBlock(v), 4))
    BY <2>1, <2>2, <2>3, DecideType
  <2>4. CASE Decide(p, Invalid(4))
    BY <2>1, <2>4, DecideType
  <2> QED
    BY <1>14, <2>3, <2>4 DEF SearchFails
<1>15. CASE DefineOperation(p)
  <2>1. d \in Digest
    BY <1>0, <1>15 DEF DefineOperation, Busy, PC
  <2>2. CASE Decide(p, Invalid(5))
    BY <2>1, <2>2, DecideType
  <2>3. CASE Continue(p, "resolve", Define(v, d))
    <3>1. Define(v, d) \in Validation
      BY <1>0, <1>15, <2>1, DefineType DEF DefineOperation
    <3> QED
      BY <2>1, <2>3, <3>1, ContinueType DEF PC
  <2> QED
    BY <1>15, <2>2, <2>3 DEF DefineOperation
<1>16. CASE AllResolved(p)
  BY <1>0, <1>16, DecideType DEF AllResolved, Busy, PC
<1> QED
  BY <1>1, <1>2, <1>3, <1>4, <1>5, <1>6, <1>7, <1>8, <1>9, <1>10, <1>11, <1>12,
     <1>13, <1>14, <1>15, <1>16 DEF Validate, Linkage, References, Resolve

\* Filing keeps the types of the index of waiters.
LEMMA FileType ==
    ASSUME waiting \in [Digest -> Seq(Digest)], NEW d \in Digest,
           NEW a \in Digest \cup {NoDigest}
    PROVE  File(a, d) \in [Digest -> Seq(Digest)]
  BY DEF File

\* What admit records has the type of an entry.
LEMMA EntryType ==
    ASSUME TypeInv, NEW p \in Proc, pc[p] = "record"
    PROVE  EntryOf(p) \in Entry
<1>1. adm[p] \in Admission /\ adm[p].verdict \in Verdict
  BY DEF TypeInv, TypeOK, Undelivered, Decided, Verdict
<1>2. /\ NoReport \in Report
      /\ [forks |-> val[p].forks, unchecked |-> val[p].unchecked] \in Report
  BY DEF TypeInv, TypeOK, Validation, NoReport, Report
<1> QED
  BY <1>1, <1>2 DEF EntryOf, Entry, Admission

\* The end of an admission keeps the types.
LEMMA LeaveType ==
    ASSUME TypeInv, NEW p \in Proc, NEW l \in {"idle", "take", "waiters"},
           Leave(p, l),
           arrived' \in [Proc -> Digest \cup {NoDigest}],
           queue' \in [Proc -> Seq(Digest)]
    PROVE  TypeInv'
<1> USE DEF TypeInv, Leave, Goto, storeVars, memVars
<1>1. TypeOK'
  BY NoValidationType, ConstantsType DEF TypeOK, MemTypeOK, PC
<1>2. InHand'
  BY DEF TypeOK, InHand, Busy
<1>3. Undelivered'
  BY DEF TypeOK, Undelivered, Decided
<1> QED
  BY <1>1, <1>2, <1>3

\* Every step of every goroutine keeps the types.
LEMMA StepType == TypeInv /\ [Next]_vars => TypeInv'
<1> SUFFICES ASSUME TypeInv, [Next]_vars PROVE TypeInv'
  OBVIOUS
<1>1. CASE UNCHANGED vars
  BY <1>1 DEF vars, storeVars, callVars, memVars, TypeInv, TypeOK, MemTypeOK,
              InHand, Undelivered, Decided
<1>2. ASSUME NEW p \in Proc, Step(p) \/ \E d \in Digest : Offer(p, d)
      PROVE  TypeInv'
  <2>0. TypeOK /\ InHand /\ Undelivered /\ MemTypeOK
    BY DEF TypeInv, TypeOK
  <2>1. CASE LookupAccepted(p) \/ Lookup(p) \/ Validate(p)
    BY <2>1, ValidateType
  <2>2. CASE Store(p)
    <3>1. block[p] \in Digest
      BY <2>0, <2>2 DEF Store, InHand, Busy, PC
    <3>2. MemTypeOK'
      BY <2>0, <2>2, <3>1, AddType DEF Store
    <3>3. TypeOK'
      BY <2>0, <2>2, <3>2 DEF Store, Goto, TypeOK, PC
    <3>4. InHand' /\ Undelivered'
      BY <2>0, <2>2, <3>1 DEF Store, Goto, TypeOK, InHand, Undelivered, Decided, Busy
    <3> QED
      BY <3>3, <3>4 DEF TypeInv
  <2>3. CASE Record(p)
    <3>1. pc[p] = "record" /\ block[p] \in Digest /\ EntryOf(p) \in Entry
      BY <2>0, <2>3, EntryType DEF Record, InHand, Busy, PC
    <3>2. adm[p].awaits \in Digest \cup {NoDigest}
      BY <2>0 DEF TypeOK, Admission
    <3>3. File(adm[p].awaits, block[p]) \in [Digest -> Seq(Digest)]
      BY <2>0, <3>1, <3>2, FileType DEF TypeOK
    <3>4. verdicts' \in [Digest -> Entry] /\ waiting' \in [Digest -> Seq(Digest)]
      BY <2>0, <2>3, <3>1, <3>3 DEF Record, TypeOK
    <3>5. TypeOK'
      BY <2>0, <2>3, <3>4 DEF Record, Goto, TypeOK, MemTypeOK, memVars, PC
    <3>6. InHand' /\ Undelivered'
      BY <2>0, <2>3, <3>1 DEF Record, Goto, TypeOK, InHand, Undelivered, Decided, Busy
    <3> QED
      BY <3>5, <3>6 DEF TypeInv
  <2>4. CASE AddReturns(p)
    BY <2>0, <2>4, LeaveType DEF AddReturns, TypeOK
  <2>5. CASE StartSettle(p) \/ WaiterAdmitted(p)
    <3>1. pc[p] = "done" /\ block[p] \in Digest
      BY <2>0, <2>5 DEF StartSettle, WaiterAdmitted, Leave, InHand, Busy, PC
    <3>2. /\ <<block[p]>> \in Seq(Digest)
          /\ queue[p] \in Seq(Digest)
          /\ Append(queue[p], block[p]) \in Seq(Digest)
      BY <2>0, <3>1 DEF TypeOK
    <3>3. arrived' \in [Proc -> Digest \cup {NoDigest}]
      BY <2>0, <2>5, <3>1 DEF StartSettle, WaiterAdmitted, TypeOK
    <3>4. PICK q \in Seq(Digest) : queue' = [queue EXCEPT ![p] = q]
      BY <2>5, <3>2 DEF StartSettle, WaiterAdmitted
    <3>5. queue' \in [Proc -> Seq(Digest)]
      BY <2>0, <3>4 DEF TypeOK
    <3>6. Leave(p, "take") \/ Leave(p, "waiters")
      BY <2>5 DEF StartSettle, WaiterAdmitted
    <3> QED
      BY <3>3, <3>5, <3>6, LeaveType
  <2>6. CASE Take(p)
    <3>1. queue[p] \in Seq(Digest) /\ queue[p] # <<>>
      BY <2>0, <2>6 DEF Take, TypeOK
    <3>2. Head(queue[p]) \in Digest /\ Tail(queue[p]) \in Seq(Digest)
      BY <3>1
    <3>3. waiting[Head(queue[p])] \in Seq(Digest) /\ <<>> \in Seq(Digest)
      BY <2>0, <3>2 DEF TypeOK
    <3>4. /\ waiting' \in [Digest -> Seq(Digest)]
          /\ queue' \in [Proc -> Seq(Digest)]
          /\ todo' \in [Proc -> Seq(Digest)]
      BY <2>0, <2>6, <3>2, <3>3 DEF Take, TypeOK
    <3>5. TypeOK'
      BY <2>0, <2>6, <3>4 DEF Take, Goto, TypeOK, MemTypeOK, memVars, PC
    <3>6. InHand' /\ Undelivered'
      BY <2>0, <2>6 DEF Take, Goto, TypeOK, InHand, Undelivered, Decided, Busy
    <3> QED
      BY <3>5, <3>6 DEF TypeInv
  <2>7. CASE NextWaiter(p)
    <3>1. todo[p] \in Seq(Digest) /\ todo[p] # <<>>
      BY <2>0, <2>7 DEF NextWaiter, TypeOK
    <3>2. Head(todo[p]) \in Digest /\ Tail(todo[p]) \in Seq(Digest)
      BY <3>1
    <3>3. TypeOK'
      BY <2>0, <2>7, <3>2 DEF NextWaiter, Goto, TypeOK, MemTypeOK, storeVars, memVars, PC
    <3>4. InHand'
      BY <2>0, <2>7, <3>2 DEF NextWaiter, Goto, TypeOK, InHand, Busy
    <3>5. Undelivered'
      BY <2>0, <2>7 DEF NextWaiter, Goto, TypeOK, Undelivered, Decided
    <3> QED
      BY <3>3, <3>4, <3>5 DEF TypeInv
  <2>8. CASE WaitersDone(p) \/ Settled(p)
    <3>1. TypeOK'
      BY <2>0, <2>8 DEF WaitersDone, Settled, Goto, TypeOK, MemTypeOK, storeVars, memVars, PC
    <3>2. InHand' /\ Undelivered'
      BY <2>0, <2>8 DEF WaitersDone, Settled, Goto, TypeOK, InHand, Undelivered, Decided, Busy
    <3> QED
      BY <3>1, <3>2 DEF TypeInv
  <2>9. ASSUME NEW d \in Digest, Offer(p, d) PROVE TypeInv'
    <3>1. TypeOK'
      BY <2>0, <2>9 DEF Offer, Goto, TypeOK, MemTypeOK, storeVars, memVars, PC
    <3>2. InHand' /\ Undelivered'
      BY <2>0, <2>9 DEF Offer, Goto, TypeOK, InHand, Undelivered, Decided, Busy
    <3> QED
      BY <3>1, <3>2 DEF TypeInv
  <2> QED
    BY <1>2, <2>1, <2>2, <2>3, <2>4, <2>5, <2>6, <2>7, <2>8, <2>9
    DEF Step, Admit, Settle
<1> QED
  BY <1>1, <1>2 DEF Next

\* Type correctness of the store and of every call in progress (verdict.go).
THEOREM TypeCorrect == Spec => []TypeOK
<1>1. Init => TypeInv
  BY InitType
<1>2. TypeInv /\ [Next]_vars => TypeInv'
  BY StepType
<1>3. TypeInv => TypeOK
  BY DEF TypeInv
<1> QED
  BY <1>1, <1>2, <1>3, PTL DEF Spec
-----------------------------------------------------------------------------
\* Rule 3 as established by validateLinkage.
Based(d) == PrevSound(d) /\ content[d].prev \in accepted \cup {NoDigest}

Linking == {"linkage", "verdict"}
Checking == {"siblings", "refs", "resolve"}

CallInv(p) ==
    /\ pc[p] \in Linking => val[p].nextAncestor = content[block[p]].prev
    /\ pc[p] \in Checking => /\ Based(block[p])
                             /\ val[p].nextAncestor \in accepted \cup {NoDigest}
    /\ pc[p] \in {"store", "record"} /\ adm[p].verdict = "valid" => Based(block[p])
    /\ pc[p] = "record" => block[p] \in blocks
    /\ pc[p] = "done" /\ adm[p].verdict # "invalid" => block[p] \in blocks
    /\ val[p].ancestorGap = NoDigest
    /\ Range(queue[p]) \subseteq blocks

StoreInv ==
    /\ TypeInv
    /\ AcceptedChain
    /\ VerdictsAreOfHeldBlocks
    /\ FiledUntilArrival
    /\ \A p \in Proc : CallInv(p)
-----------------------------------------------------------------------------
\* The empty store.
LEMMA InitStore == Init => StoreInv
<1> SUFFICES ASSUME Init PROVE StoreInv
  OBVIOUS
<1>1. TypeInv
  BY InitType
<1>2. accepted = {}
  BY DEF Init, accepted, Accepted, Unknown
<1>3. AcceptedChain /\ VerdictsAreOfHeldBlocks /\ FiledUntilArrival
  BY <1>2 DEF AcceptedChain, VerdictsAreOfHeldBlocks, FiledUntilArrival, Init, Unknown, Range
<1>4. \A p \in Proc : CallInv(p)
  BY DEF CallInv, Init, Linking, Checking, NoValidation, Range
<1> QED
  BY <1>1, <1>3, <1>4 DEF StoreInv

\* The steps that leave what the store holds alone.
Quiet(p) == LookupAccepted(p) \/ Lookup(p) \/ Validate(p) \/ AddReturns(p)
            \/ StartSettle(p) \/ WaiterAdmitted(p) \/ NextWaiter(p)
            \/ WaitersDone(p) \/ Settled(p) \/ \E d \in Digest : Offer(p, d)

\* Every step but Store, Record and Take leaves the store as it is.
LEMMA QuietSteps ==
    ASSUME NEW p \in Proc, Quiet(p)
    PROVE  UNCHANGED storeVars
<1>1. ASSUME Validate(p) PROVE UNCHANGED storeVars
  <2>1. CASE Linkage(p)
    BY <2>1 DEF Linkage, Genesis, PrevMissing, PrevHeld, PrevUnaccepted, PrevAccepted,
                Decide, Continue
  <2>2. CASE DetectFork(p)
    BY <2>2 DEF DetectFork
  <2>3. CASE References(p)
    BY <2>3 DEF References, CheckNextRef, AllRefsChecked, Decide, Continue
  <2>4. CASE Resolve(p)
    BY <2>4 DEF Resolve, ResolveReference, SearchAncestors, SearchRefs, SearchFails,
                DefineOperation, AllResolved, Decide, Continue
  <2> QED
    BY <1>1, <2>1, <2>2, <2>3, <2>4 DEF Validate
<1>2. ASSUME LookupAccepted(p) \/ Lookup(p) PROVE UNCHANGED storeVars
  BY <1>2 DEF LookupAccepted, Lookup, Decide, Continue
<1>3. ASSUME AddReturns(p) \/ StartSettle(p) \/ WaiterAdmitted(p) PROVE UNCHANGED storeVars
  BY <1>3 DEF AddReturns, StartSettle, WaiterAdmitted, Leave
<1>4. ASSUME NextWaiter(p) \/ WaitersDone(p) \/ Settled(p) \/ \E d \in Digest : Offer(p, d)
      PROVE UNCHANGED storeVars
  BY <1>4 DEF NextWaiter, WaitersDone, Settled, Offer
<1> QED
  BY <1>1, <1>2, <1>3, <1>4 DEF Quiet

\* A step is quiet, or it is one of the three that write to the store.
LEMMA StepCases ==
    ASSUME NEW p \in Proc, Step(p) \/ \E d \in Digest : Offer(p, d)
    PROVE  Quiet(p) \/ Store(p) \/ Record(p) \/ Take(p)
  BY DEF Step, Admit, Settle, Quiet

\* The store only grows: no block is dropped and no acceptance rewritten.
LEMMA Grows ==
    ASSUME TypeInv, [Next]_vars
    PROVE  /\ blocks \subseteq blocks'
           /\ \A d \in accepted : verdicts'[d] = verdicts[d]
           /\ accepted \subseteq accepted'
<1>1. CASE UNCHANGED storeVars
  BY <1>1 DEF storeVars, memVars, accepted, Accepted
<1>2. ASSUME NEW p \in Proc, Store(p)
      PROVE  /\ blocks \subseteq blocks'
             /\ UNCHANGED verdicts
  BY <1>2 DEF Store, Add, memVars
<1>3. ASSUME NEW p \in Proc, Record(p)
      PROVE  /\ UNCHANGED blocks
             /\ \A d \in accepted : verdicts'[d] = verdicts[d]
  BY <1>3 DEF Record, memVars, accepted, TypeInv, TypeOK
<1>4. ASSUME NEW p \in Proc, Take(p)
      PROVE  UNCHANGED <<blocks, verdicts>>
  BY <1>4 DEF Take, memVars
<1>5. blocks \subseteq blocks' /\ \A d \in accepted : verdicts'[d] = verdicts[d]
  <2>1. CASE UNCHANGED vars
    BY <1>1, <2>1 DEF vars
  <2>2. ASSUME NEW p \in Proc, Step(p) \/ \E d \in Digest : Offer(p, d)
        PROVE  blocks \subseteq blocks' /\ \A d \in accepted : verdicts'[d] = verdicts[d]
    BY <1>1, <1>2, <1>3, <1>4, <2>2, StepCases, QuietSteps
  <2> QED
    BY <2>1, <2>2 DEF Next
<1> QED
  BY <1>5 DEF accepted, Accepted

\* What a goroutine has established survives the growth of the store.
LEMMA CallsStable ==
    ASSUME NEW q \in Proc, CallInv(q),
           blocks \subseteq blocks', accepted \subseteq accepted',
           pc'[q] = pc[q], block'[q] = block[q], val'[q] = val[q],
           adm'[q] = adm[q], queue'[q] = queue[q]
    PROVE  CallInv(q)'
  BY DEF CallInv, Based, PrevSound

\* A step that leaves the store alone needs only its own goroutine looked at.
LEMMA QuietInv ==
    ASSUME StoreInv, TypeInv', NEW p \in Proc, UNCHANGED storeVars,
           \A q \in Proc \ {p} : /\ pc'[q] = pc[q] /\ block'[q] = block[q]
                                 /\ val'[q] = val[q] /\ adm'[q] = adm[q]
                                 /\ queue'[q] = queue[q] /\ todo'[q] = todo[q],
           Range(todo'[p]) \subseteq Range(todo[p]),
           CallInv(p)'
    PROVE  StoreInv'
<1> USE DEF StoreInv
<1>1. /\ UNCHANGED <<blocks, verdicts, waiting>>
      /\ accepted' = accepted
  BY DEF storeVars, memVars, accepted, Accepted
<1>2. AcceptedChain' /\ FiledUntilArrival'
  BY <1>1 DEF AcceptedChain, FiledUntilArrival, PrevSound
<1>3. VerdictsAreOfHeldBlocks'
  BY <1>1 DEF VerdictsAreOfHeldBlocks
<1>4. \A q \in Proc : CallInv(q)'
  BY <1>1, CallsStable
<1> QED
  BY <1>2, <1>3, <1>4

\* A decision is justified by what the goroutine has established.
LEMMA DecideInv ==
    ASSUME StoreInv, TypeInv', NEW p \in Proc, NEW a \in Admission, Decide(p, a),
           a.verdict = "valid" /\ ~a.duplicate => Based(block[p]),
           a.duplicate => block[p] \in blocks
    PROVE  StoreInv'
<1>1. /\ pc' = [pc EXCEPT ![p] = IF a.verdict = "invalid" \/ a.duplicate THEN "done" ELSE "store"]
      /\ adm' = [adm EXCEPT ![p] = a]
      /\ UNCHANGED <<storeVars, block, val, arrived, queue, todo>>
  BY DEF Decide, Goto
<1>2. pc \in [Proc -> PC] /\ adm \in [Proc -> Admission] /\ CallInv(p)
  BY DEF StoreInv, TypeInv, TypeOK
<1>3. UNCHANGED blocks /\ accepted' = accepted
  BY <1>1 DEF storeVars, memVars, accepted, Accepted
<1>4. CallInv(p)'
  BY <1>1, <1>2, <1>3 DEF CallInv, Based, PrevSound, Linking, Checking
<1> QED
  BY <1>1, <1>2, <1>4, QuietInv

\* A validation moves on with what the goroutine has established.
LEMMA ContinueInv ==
    ASSUME StoreInv, TypeInv', NEW p \in Proc, NEW l \in Linking \cup Checking,
           NEW v \in Validation, Continue(p, l, v),
           l \in Linking => v.nextAncestor = content[block[p]].prev,
           l \in Checking => /\ Based(block[p])
                             /\ v.nextAncestor \in accepted \cup {NoDigest},
           v.ancestorGap = NoDigest
    PROVE  StoreInv'
<1>1. /\ pc' = [pc EXCEPT ![p] = l]
      /\ val' = [val EXCEPT ![p] = v]
      /\ UNCHANGED <<storeVars, block, adm, arrived, queue, todo>>
  BY DEF Continue, Goto
<1>2. pc \in [Proc -> PC] /\ val \in [Proc -> Validation] /\ CallInv(p)
  BY DEF StoreInv, TypeInv, TypeOK
<1>3. UNCHANGED blocks /\ accepted' = accepted
  BY <1>1 DEF storeVars, memVars, accepted, Accepted
<1>4. CallInv(p)'
  BY <1>1, <1>2, <1>3 DEF CallInv, Based, PrevSound, Linking, Checking
<1> QED
  BY <1>1, <1>2, <1>4, QuietInv
-----------------------------------------------------------------------------
\* The turns of the resolver open no ancestor gap and stay on the accepted
\* ancestry.
LEMMA TurnsStayOnTheChain ==
    ASSUME StoreInv, NEW v \in Validation,
           v.nextAncestor \in accepted \cup {NoDigest}, v.ancestorGap = NoDigest
    PROVE  /\ v.nextAncestor # NoDigest =>
                 /\ ExtendAncestors(v, blocks).nextAncestor \in accepted \cup {NoDigest}
                 /\ ExtendAncestors(v, blocks).ancestorGap = NoDigest
           /\ v.queue # <<>> =>
                 /\ ExtendRefs(v, blocks).nextAncestor = v.nextAncestor
                 /\ ExtendRefs(v, blocks).ancestorGap = NoDigest
           /\ v.toCheck # <<>> =>
                 /\ CheckRef(v, blocks).nextAncestor = v.nextAncestor
                 /\ CheckRef(v, blocks).ancestorGap = NoDigest
<1>1. ASSUME v.nextAncestor # NoDigest
      PROVE  /\ ExtendAncestors(v, blocks).nextAncestor \in accepted \cup {NoDigest}
             /\ ExtendAncestors(v, blocks).ancestorGap = NoDigest
  <2>1. /\ v.nextAncestor \in blocks
        /\ content[v.nextAncestor].prev \in accepted \cup {NoDigest}
    BY <1>1 DEF StoreInv, AcceptedChain
  <2> QED
    BY <2>1 DEF ExtendAncestors, Validation
<1>2. ASSUME v.queue # <<>>
      PROVE  /\ ExtendRefs(v, blocks).nextAncestor = v.nextAncestor
             /\ ExtendRefs(v, blocks).ancestorGap = NoDigest
  BY DEF ExtendRefs, Scan, Validation
<1>3. /\ CheckRef(v, blocks).nextAncestor = v.nextAncestor
      /\ CheckRef(v, blocks).ancestorGap = NoDigest
  BY DEF CheckRef, Validation
<1> QED
  BY <1>1, <1>2, <1>3

\* The steps of admit up to the verdict.
LEMMA ValidateInv ==
    ASSUME StoreInv, TypeInv', NEW p \in Proc,
           LookupAccepted(p) \/ Lookup(p) \/ Validate(p)
    PROVE  StoreInv'
<1> DEFINE d == block[p]
           v == val[p]
           prev == content[d].prev
<1>0. /\ TypeInv
      /\ pc[p] \in Busy => d \in Digest
      /\ v \in Validation
      /\ blocks \in SUBSET Digest
      /\ CallInv(p)
  BY DEF StoreInv, TypeInv, TypeOK, MemTypeOK, InHand
<1>c. /\ Linking = {"linkage", "verdict"}
      /\ Checking = {"siblings", "refs", "resolve"}
      /\ Linking \cup Checking \subseteq Busy
  BY DEF Linking, Checking, Busy, PC
<1>f. ASSUME NEW n \in 0..10, Decide(p, Invalid(n)) PROVE StoreInv'
  BY <1>f, ConstantsType, DecideInv DEF Invalid, NoAdmission
<1>g. ASSUME NEW a \in Digest \cup {NoDigest}, NEW n \in 0..10, Decide(p, Pending(a, n))
      PROVE  StoreInv'
  BY <1>g, ConstantsType, DecideInv
<1>v. ASSUME NEW w \in Validation, Continue(p, "resolve", w) \/ Continue(p, "refs", w),
             Based(d), w.nextAncestor \in accepted \cup {NoDigest}, w.ancestorGap = NoDigest
      PROVE  StoreInv'
  BY <1>c, <1>v, ContinueInv
<1>1. CASE LookupAccepted(p)
  <2>1. d \in blocks
    BY <1>0, <1>1 DEF LookupAccepted, StoreInv, AcceptedChain, accepted, Busy, PC
  <2> QED
    BY <1>1, <2>1, ConstantsType, DecideInv DEF LookupAccepted
<1>2. CASE Lookup(p)
  <2>1. d \in Digest /\ Continue(p, "linkage", NewValidation(d))
    BY <1>0, <1>2 DEF Lookup, Busy, PC
  <2>2. NewValidation(d).nextAncestor = prev /\ NewValidation(d).ancestorGap = NoDigest
    BY DEF NewValidation, NoValidation
  <2> QED
    BY <1>c, <2>1, <2>2, NewValidationType, ContinueInv
<1>3. CASE Genesis(p)
  <2>1. Based(d) /\ prev = NoDigest
    BY <1>3 DEF Genesis, IsGenesis, Based, PrevSound
  <2> QED
    BY <1>0, <1>c, <1>3, <2>1, ContinueInv DEF Genesis, CallInv
<1>4. CASE PrevMissing(p)
  BY <1>0, <1>c, <1>g, <1>4, ContentType DEF PrevMissing
<1>5. CASE PrevHeld(p)
  BY <1>0, <1>c, <1>5, ContinueInv DEF PrevHeld, CallInv
<1>6. CASE PrevUnaccepted(p)
  BY <1>0, <1>c, <1>g, <1>6, ContentType DEF PrevUnaccepted
<1>7. CASE PrevAccepted(p)
  <2>0. pc[p] = "verdict" /\ d \in Digest /\ Accepted(prev)
    BY <1>0, <1>c, <1>7 DEF PrevAccepted
  <2>1. ASSUME SameAuthor(prev, d), content[prev].type # "rotation",
               Continue(p, "siblings", v)
        PROVE  StoreInv'
    <3>1. prev \in Digest \cup {NoDigest}
      BY <2>0, ContentType
    <3>2. Based(d) /\ prev \in accepted \cup {NoDigest}
      BY <2>0, <2>1, <3>1 DEF Based, PrevSound, accepted
    <3>3. v.nextAncestor = prev /\ v.ancestorGap = NoDigest
      BY <1>0, <1>c, <2>0 DEF CallInv
    <3> QED
      BY <1>0, <1>c, <2>1, <3>2, <3>3, ContinueInv
  <2>2. CASE Decide(p, Invalid(3))
    BY <1>f, <2>2
  <2> QED
    BY <1>7, <2>1, <2>2 DEF PrevAccepted
<1>8. CASE DetectFork(p)
  <2>1. PICK F : val' = [val EXCEPT ![p] = [v EXCEPT !.forks = F]]
    BY <1>8 DEF DetectFork
  <2>2. /\ pc[p] = "siblings"
        /\ \/ adm' = adm /\ pc' = [pc EXCEPT ![p] = "refs"]
           \/ adm' = [adm EXCEPT ![p] = Valid] /\ pc' = [pc EXCEPT ![p] = "store"]
        /\ UNCHANGED <<storeVars, block, arrived, queue, todo>>
    BY <1>8 DEF DetectFork, Goto
  <2>3. /\ pc \in [Proc -> PC] /\ adm \in [Proc -> Admission] /\ val \in [Proc -> Validation]
        /\ val'[p].nextAncestor = v.nextAncestor /\ val'[p].ancestorGap = v.ancestorGap
    BY <1>0, <2>1 DEF TypeInv, TypeOK, Validation
  <2>4. UNCHANGED blocks /\ accepted' = accepted
    BY <2>2 DEF storeVars, memVars, accepted, Accepted
  <2>5. CallInv(p)'
    BY <1>0, <1>c, <2>2, <2>3, <2>4, ConstantsType DEF CallInv, Based, PrevSound
  <2> QED
    BY <2>1, <2>2, <2>3, <2>5, QuietInv
<1>e. pc[p] \in Checking => /\ Based(d)
                           /\ v.nextAncestor \in accepted \cup {NoDigest}
                           /\ v.ancestorGap = NoDigest
  BY <1>0 DEF CallInv
<1>9. CASE CheckNextRef(p)
  <2>0. pc[p] \in Checking /\ v.toCheck # <<>>
    BY <1>c, <1>9 DEF CheckNextRef, RefsChecked
  <2>1. ASSUME Continue(p, "refs", CheckRef(v, blocks)) PROVE StoreInv'
    BY <1>0, <1>e, <1>v, <2>0, <2>1, CheckRefType, TurnsStayOnTheChain
  <2> QED
    BY <1>9, <1>f, <2>1 DEF CheckNextRef
<1>10. CASE AllRefsChecked(p)
  BY <1>0, <1>c, <1>e, <1>v, <1>10 DEF AllRefsChecked
<1>11. CASE ResolveReference(p)
  <2>0. pc[p] \in Checking
    BY <1>c, <1>11 DEF ResolveReference
  <2>1. ASSUME Continue(p, "resolve", [v EXCEPT !.ref = @ + 1]) PROVE StoreInv'
    <3>1. [v EXCEPT !.ref = @ + 1] \in Validation
      <4>1. v.ref + 1 \in Nat \ {0}
        BY <1>0 DEF Validation
      <4> QED
        BY <1>0, <4>1 DEF Validation
    <3>2. /\ [v EXCEPT !.ref = @ + 1].nextAncestor = v.nextAncestor
          /\ [v EXCEPT !.ref = @ + 1].ancestorGap = v.ancestorGap
      BY <1>0 DEF Validation
    <3> QED
      BY <1>e, <1>v, <2>0, <2>1, <3>1, <3>2
  <2> QED
    BY <1>11, <1>f, <2>1 DEF ResolveReference
<1>12. CASE SearchAncestors(p)
  <2>0. pc[p] \in Checking /\ v.nextAncestor # NoDigest
    BY <1>c, <1>12 DEF SearchAncestors, Searching
  <2>1. ASSUME Continue(p, "resolve", ExtendAncestors(v, blocks)) PROVE StoreInv'
    BY <1>0, <1>e, <1>v, <2>0, <2>1, ExtendAncestorsType, TurnsStayOnTheChain
  <2> QED
    BY <1>12, <1>f, <2>1 DEF SearchAncestors
<1>13. CASE SearchRefs(p)
  <2>0. pc[p] \in Checking /\ v.queue # <<>>
    BY <1>c, <1>13 DEF SearchRefs, Searching
  <2>1. ASSUME Continue(p, "resolve", ExtendRefs(v, blocks)) PROVE StoreInv'
    BY <1>0, <1>e, <1>v, <2>0, <2>1, ExtendRefsType, TurnsStayOnTheChain
  <2> QED
    BY <1>13, <1>f, <2>1 DEF SearchRefs
<1>14. CASE SearchFails(p)
  <2>1. AwaitedBlock(v) \in Digest \cup {NoDigest}
    BY <1>0 DEF AwaitedBlock, Gap, Validation
  <2> QED
    BY <1>14, <1>f, <1>g, <2>1 DEF SearchFails
<1>15. CASE DefineOperation(p)
  <2>0. pc[p] \in Checking /\ ~OpsDone(v, d) /\ d \in Digest
    BY <1>0, <1>c, <1>15 DEF DefineOperation
  <2>1. ASSUME Continue(p, "resolve", Define(v, d)) PROVE StoreInv'
    <3>1. /\ Define(v, d) \in Validation
          /\ Define(v, d).nextAncestor = v.nextAncestor
          /\ Define(v, d).ancestorGap = v.ancestorGap
      BY <1>0, <2>0, DefineType DEF Define, Validation
    <3> QED
      BY ONLY SMTT(30), <1>e, <1>v, <2>0, <2>1, <3>1
  <2> QED
    BY <1>15, <1>f, <2>1 DEF DefineOperation
<1>16. CASE AllResolved(p)
  BY <1>c, <1>e, <1>16, ConstantsType, DecideInv DEF AllResolved
<1> QED
  BY <1>1, <1>2, <1>3, <1>4, <1>5, <1>6, <1>7, <1>8, <1>9, <1>10, <1>11, <1>12,
     <1>13, <1>14, <1>15, <1>16 DEF Validate, Linkage, References, Resolve

\* The end of an admission, and settle's moves between admissions.
LEMMA SettleInv ==
    ASSUME StoreInv, TypeInv', NEW p \in Proc,
           \/ AddReturns(p) \/ StartSettle(p) \/ WaiterAdmitted(p) \/ NextWaiter(p)
           \/ WaitersDone(p) \/ Settled(p) \/ \E d \in Digest : Offer(p, d)
    PROVE  StoreInv'
<1>0. /\ CallInv(p)
      /\ pc \in [Proc -> PC] /\ block \in [Proc -> Digest \cup {NoDigest}]
      /\ val \in [Proc -> Validation] /\ adm \in [Proc -> Admission]
      /\ arrived \in [Proc -> Digest \cup {NoDigest}]
      /\ queue[p] \in Seq(Digest) /\ queue \in [Proc -> Seq(Digest)]
      /\ todo[p] \in Seq(Digest) /\ todo \in [Proc -> Seq(Digest)]
      /\ pc[p] = "done" => block[p] \in Digest
  BY DEF StoreInv, TypeInv, TypeOK, InHand, Busy, PC
<1>1. ASSUME NEW l \in {"idle", "take", "waiters"}, Leave(p, l),
             Range(queue'[p]) \subseteq blocks,
             \A q \in Proc \ {p} : queue'[q] = queue[q]
      PROVE  StoreInv'
  <2>1. /\ UNCHANGED <<storeVars, todo>> /\ UNCHANGED blocks
        /\ pc'[p] = l /\ val'[p] = NoValidation
        /\ \A q \in Proc \ {p} : /\ pc'[q] = pc[q] /\ block'[q] = block[q]
                                 /\ val'[q] = val[q] /\ adm'[q] = adm[q]
    BY <1>0, <1>1 DEF Leave, Goto, storeVars, memVars
  <2>2. CallInv(p)'
    BY <1>1, <2>1 DEF CallInv, Linking, Checking, NoValidation
  <2> QED
    BY <1>0, <1>1, <2>1, <2>2, QuietInv
<1>2. CASE AddReturns(p)
  BY <1>0, <1>1, <1>2 DEF AddReturns, CallInv
<1>3. CASE StartSettle(p)
  <2>1. block[p] \in blocks /\ pc[p] = "done"
    BY <1>0, <1>3 DEF StartSettle, Leave, CallInv
  <2>2. Range(<<block[p]>>) = {block[p]}
    BY DEF Range
  <2> QED
    BY <1>0, <1>1, <1>3, <2>1, <2>2 DEF StartSettle
<1>4. CASE WaiterAdmitted(p)
  <2>1. pc[p] = "done" /\ Leave(p, "waiters")
    BY <1>4 DEF WaiterAdmitted, Leave
  <2>2. CASE adm[p].verdict = "valid"
    <3>1. block[p] \in blocks /\ block[p] \in Digest
      BY <1>0, <2>1, <2>2 DEF CallInv
    <3>2. queue'[p] = Append(queue[p], block[p])
      BY <1>0, <1>4, <2>2 DEF WaiterAdmitted
    <3>3. Range(queue'[p]) \subseteq blocks
      BY <1>0, <3>1, <3>2, AppendProperties DEF CallInv, Range
    <3> QED
      BY <1>0, <1>1, <1>4, <2>1, <3>3 DEF WaiterAdmitted
  <2>3. CASE adm[p].verdict # "valid"
    BY <1>0, <1>1, <1>4, <2>1, <2>3 DEF WaiterAdmitted, CallInv
  <2> QED
    BY <2>2, <2>3
<1>5. CASE NextWaiter(p)
  <2>1. /\ UNCHANGED <<storeVars, val, adm, arrived, queue>> /\ UNCHANGED blocks
        /\ \A q \in Proc \ {p} : /\ pc'[q] = pc[q] /\ block'[q] = block[q]
                                 /\ todo'[q] = todo[q]
        /\ todo'[p] = Tail(todo[p]) /\ todo[p] # <<>>
        /\ pc'[p] \in {"lookup", "waiters"}
    BY <1>0, <1>5 DEF NextWaiter, Goto, storeVars, memVars
  <2>2. Range(todo'[p]) \subseteq Range(todo[p])
    BY <1>0, <2>1 DEF Range
  <2>3. CallInv(p)'
    BY <1>0, <2>1 DEF CallInv, Linking, Checking
  <2> QED
    BY <2>1, <2>2, <2>3, QuietInv
<1>6. CASE WaitersDone(p) \/ Settled(p) \/ \E d \in Digest : Offer(p, d)
  <2>1. /\ UNCHANGED <<storeVars, val, adm, queue, todo>> /\ UNCHANGED blocks
        /\ \A q \in Proc \ {p} : pc'[q] = pc[q] /\ block'[q] = block[q]
        /\ pc'[p] \in {"take", "idle", "lookup"}
    BY <1>0, <1>6 DEF WaitersDone, Settled, Offer, Goto, storeVars, memVars
  <2>2. CallInv(p)'
    BY <1>0, <2>1 DEF CallInv, Linking, Checking
  <2> QED
    BY <2>1, <2>2, QuietInv
<1> QED
  BY <1>2, <1>3, <1>4, <1>5, <1>6

\* Storing the block at hand.
LEMMA StoreStepInv ==
    ASSUME StoreInv, TypeInv', NEW p \in Proc, Store(p),
           blocks \subseteq blocks', accepted \subseteq accepted'
    PROVE  StoreInv'
<1>1. /\ CallInv(p) /\ MemTypeOK /\ pc[p] = "store" /\ block[p] \in Digest
      /\ pc \in [Proc -> PC] /\ adm[p].verdict # "invalid"
  BY DEF StoreInv, TypeInv, TypeOK, Store, InHand, Undelivered, Decided, Busy, PC
<1>2. /\ pc' = [pc EXCEPT ![p] = "record"]
      /\ UNCHANGED <<verdicts, waiting, block, val, adm, arrived, queue, todo>>
      /\ block[p] \in blocks'
      /\ accepted' = accepted
  BY <1>1, AddType DEF Store, Goto, accepted, Accepted
<1>3. AcceptedChain' /\ VerdictsAreOfHeldBlocks' /\ FiledUntilArrival'
  BY <1>2 DEF StoreInv, AcceptedChain, VerdictsAreOfHeldBlocks, FiledUntilArrival, PrevSound
<1>4. CallInv(p)'
  BY <1>1, <1>2 DEF CallInv, Based, PrevSound, Linking, Checking
<1>5. ASSUME NEW q \in Proc \ {p} PROVE CallInv(q)'
  BY <1>1, <1>2, CallsStable DEF StoreInv
<1> QED
  BY <1>3, <1>4, <1>5 DEF StoreInv

\* Filing adds exactly the block filed, under exactly the block it awaits.
LEMMA FileRange ==
    ASSUME waiting \in [Digest -> Seq(Digest)], NEW d \in Digest,
           NEW a \in Digest \cup {NoDigest}
    PROVE  \A x \in Digest :
             Range(File(a, d)[x]) = Range(waiting[x]) \cup (IF x = a THEN {d} ELSE {})
<1> TAKE x \in Digest
<1>1. CASE a = NoDigest \/ d \in Range(waiting[a])
  BY <1>1, NullsAssumption DEF File
<1>2. CASE ~(a = NoDigest \/ d \in Range(waiting[a]))
  <2>1. a \in Digest /\ waiting[a] \in Seq(Digest)
    BY <1>2
  <2>2. Range(Append(waiting[a], d)) = Range(waiting[a]) \cup {d}
    BY <2>1, RangeAppend
  <2> QED
    BY <1>2, <2>1, <2>2 DEF File
<1> QED
  BY <1>1, <1>2

\* Recording the verdict at hand.
LEMMA RecordStepInv ==
    ASSUME StoreInv, TypeInv', NEW p \in Proc, Record(p),
           blocks \subseteq blocks', accepted \subseteq accepted'
    PROVE  StoreInv'
<1> DEFINE d == block[p]
<1>1. /\ CallInv(p) /\ pc[p] = "record" /\ d \in Digest /\ d \in blocks
      /\ pc \in [Proc -> PC] /\ adm[p] \in Admission
      /\ waiting \in [Digest -> Seq(Digest)] /\ verdicts \in [Digest -> Entry]
  BY DEF StoreInv, TypeInv, TypeOK, Record, InHand, Busy, PC, CallInv
<1>2. /\ pc' = [pc EXCEPT ![p] = "done"]
      /\ UNCHANGED <<blocks, block, val, adm, arrived, queue, todo>>
  BY DEF Record, Goto, memVars
<1>3. CallInv(p)'
  BY <1>1, <1>2 DEF CallInv, Linking, Checking
<1>4. ASSUME NEW q \in Proc \ {p} PROVE CallInv(q)'
  BY <1>1, <1>2, CallsStable DEF StoreInv
<1>5. CASE Accepted(d)
  <2>1. UNCHANGED <<verdicts, waiting>> /\ accepted' = accepted
    BY <1>5 DEF Record, accepted, Accepted
  <2> QED
    BY <1>2, <1>3, <1>4, <2>1
    DEF StoreInv, AcceptedChain, VerdictsAreOfHeldBlocks, FiledUntilArrival, PrevSound
<1>6. CASE ~Accepted(d)
  <2>1. /\ verdicts' = [verdicts EXCEPT ![d] = EntryOf(p)]
        /\ waiting' = File(adm[p].awaits, d)
    BY <1>6 DEF Record
  <2>2. adm[p].awaits \in Digest \cup {NoDigest}
    BY <1>1 DEF Admission
  <2>3. \A x \in Digest : Range(waiting'[x]) =
            Range(waiting[x]) \cup (IF x = adm[p].awaits THEN {d} ELSE {})
    <3> DEFINE a == adm[p].awaits
    <3>1. a \in Digest \cup {NoDigest} /\ d \in Digest
      BY <1>1, <2>2
    <3>2. waiting' = File(a, d)
      BY <2>1
    <3> HIDE DEF a, d
    <3>3. \A x \in Digest :
            Range(File(a, d)[x]) = Range(waiting[x]) \cup (IF x = a THEN {d} ELSE {})
      BY <1>1, <3>1, FileRange
    <3> QED
      BY <3>2, <3>3 DEF a, d
  <2>4. /\ EntryOf(p).verdict = adm[p].verdict /\ EntryOf(p).awaits = adm[p].awaits
        /\ verdicts'[d] = EntryOf(p)
        /\ \A x \in Digest \ {d} : verdicts'[x] = verdicts[x]
    BY <1>1, <2>1 DEF EntryOf
  <2>5. accepted' = IF adm[p].verdict = "valid" THEN accepted \cup {d} ELSE accepted
    BY <1>1, <1>6, <2>4 DEF accepted, Accepted
  <2>6. AcceptedChain'
    <3> SUFFICES ASSUME NEW x \in accepted'
                 PROVE  /\ x \in blocks
                        /\ PrevSound(x)
                        /\ content[x].prev \in accepted \cup {NoDigest}
      BY <1>2, <2>5 DEF AcceptedChain, PrevSound
    <3>1. CASE x \in accepted
      BY <3>1 DEF StoreInv, AcceptedChain
    <3>2. CASE x \notin accepted
      BY <1>1, <2>5, <3>2 DEF CallInv, Based
    <3> QED
      BY <3>1, <3>2
  <2>7. VerdictsAreOfHeldBlocks'
    <3>1. \A x \in Digest : verdicts'[x].verdict # "unknown" => x \in blocks
      BY <1>1, <2>4 DEF StoreInv, VerdictsAreOfHeldBlocks
    <3>2. \A a \in Digest : Range(waiting'[a]) \subseteq blocks
      BY <1>1, <2>3 DEF StoreInv, VerdictsAreOfHeldBlocks
    <3> QED
      BY <1>2, <3>1, <3>2 DEF StoreInv, VerdictsAreOfHeldBlocks
  <2>8. FiledUntilArrival'
    <3> SUFFICES ASSUME NEW x \in Digest,
                        verdicts'[x].awaits # NoDigest, verdicts'[x].awaits \notin blocks
                 PROVE  x \in Range(waiting'[verdicts'[x].awaits])
      BY <1>2 DEF FiledUntilArrival
    <3>1. CASE x = d
      BY <2>2, <2>3, <2>4, <3>1
    <3>2. CASE x # d
      <4>1. verdicts'[x] = verdicts[x] /\ verdicts[x].awaits \in Digest
        BY <1>1, <2>4, <3>2 DEF Entry
      <4>2. x \in Range(waiting[verdicts[x].awaits])
        BY <4>1 DEF StoreInv, FiledUntilArrival
      <4> QED
        BY <2>3, <4>1, <4>2
    <3> QED
      BY <3>1, <3>2
  <2> QED
    BY <1>3, <1>4, <2>6, <2>7, <2>8 DEF StoreInv
<1> QED
  BY <1>5, <1>6

\* Taking the list of waiters: only an arrived block's list is emptied.
LEMMA TakeStepInv ==
    ASSUME StoreInv, TypeInv', NEW p \in Proc, Take(p)
    PROVE  StoreInv'
<1> DEFINE a == Head(queue[p])
<1>1. /\ CallInv(p) /\ pc[p] = "take" /\ queue[p] \in Seq(Digest) /\ queue[p] # <<>>
      /\ pc \in [Proc -> PC] /\ queue \in [Proc -> Seq(Digest)]
      /\ todo \in [Proc -> Seq(Digest)]
      /\ waiting \in [Digest -> Seq(Digest)] /\ verdicts \in [Digest -> Entry]
  BY DEF StoreInv, TypeInv, TypeOK, Take
<1>2. /\ pc' = [pc EXCEPT ![p] = "waiters"]
      /\ queue' = [queue EXCEPT ![p] = Tail(queue[p])]
      /\ todo' = [todo EXCEPT ![p] = waiting[a]]
      /\ waiting' = [waiting EXCEPT ![a] = <<>>]
      /\ UNCHANGED <<blocks, verdicts, block, val, adm, arrived>>
      /\ accepted' = accepted
  BY DEF Take, Goto, memVars, accepted, Accepted
<1>3. a \in Range(queue[p]) /\ Range(Tail(queue[p])) \subseteq Range(queue[p])
  BY <1>1 DEF Range
<1>4. a \in Digest /\ a \in blocks
  BY <1>1, <1>3 DEF CallInv
<1>5. CallInv(p)'
  BY <1>1, <1>2, <1>3 DEF CallInv, Linking, Checking
<1>6. ASSUME NEW q \in Proc \ {p} PROVE CallInv(q)'
  BY <1>1, <1>2, CallsStable DEF StoreInv
<1>7. AcceptedChain'
  BY <1>2 DEF StoreInv, AcceptedChain, PrevSound
<1>8. VerdictsAreOfHeldBlocks'
  <2>1. Range(<<>>) = {}
    BY DEF Range
  <2>2. \A x \in Digest : Range(waiting'[x]) \subseteq blocks
    BY <1>1, <1>2, <2>1 DEF StoreInv, VerdictsAreOfHeldBlocks
  <2>3. \A q \in Proc : Range(todo'[q]) \subseteq blocks
    BY <1>1, <1>2, <1>4 DEF StoreInv, VerdictsAreOfHeldBlocks
  <2> QED
    BY <1>2, <2>2, <2>3 DEF StoreInv, VerdictsAreOfHeldBlocks
<1>9. FiledUntilArrival'
  BY <1>1, <1>2, <1>4 DEF StoreInv, FiledUntilArrival, Entry
<1> QED
  BY <1>5, <1>6, <1>7, <1>8, <1>9 DEF StoreInv
-----------------------------------------------------------------------------
\* The invariant is inductive.
LEMMA StoreStep == StoreInv /\ [Next]_vars => StoreInv'
<1> SUFFICES ASSUME StoreInv, [Next]_vars PROVE StoreInv'
  OBVIOUS
<1>1. TypeInv'
  BY StepType DEF StoreInv
<1>2. blocks \subseteq blocks' /\ accepted \subseteq accepted'
  BY Grows DEF StoreInv
<1>3. CASE UNCHANGED vars
  <2>1. UNCHANGED <<blocks, verdicts, waiting, todo>> /\ accepted' = accepted
    BY <1>3 DEF vars, storeVars, callVars, memVars, accepted, Accepted
  <2>2. \A q \in Proc : CallInv(q)'
    BY <1>2, <1>3, CallsStable DEF StoreInv, vars, callVars
  <2> QED
    BY <1>1, <2>1, <2>2
    DEF StoreInv, AcceptedChain, VerdictsAreOfHeldBlocks, FiledUntilArrival, PrevSound
<1>4. ASSUME NEW p \in Proc, Step(p) \/ \E d \in Digest : Offer(p, d)
      PROVE  StoreInv'
  BY <1>1, <1>2, <1>4, ValidateInv, SettleInv, StoreStepInv, RecordStepInv, TakeStepInv
  DEF Step, Admit, Settle
<1> QED
  BY <1>3, <1>4 DEF Next

\* The inductive invariant holds of every behaviour of the store (verdict.go).
THEOREM StoreInvariant == Spec => []StoreInv
<1> QED
  BY InitStore, StoreStep, PTL DEF Spec

\* Rule 3 is inductive: an accepted block's predecessor is accepted, of the
\* same author and not a rotation (verdict.go, admit; validate.go,
\* validateLinkage).
THEOREM AcceptancesAreWellFounded == Spec => []AcceptedChain
<1>1. StoreInv => AcceptedChain
  BY DEF StoreInv
<1> QED
  BY <1>1, StoreInvariant, PTL

\* The resolver's ancestor gap never opens in a store that carries verdicts
\* (validate.go, extendAncestors).
THEOREM AncestryIsHeld == Spec => []NoAncestorGap
<1>1. StoreInv => NoAncestorGap
  BY DEF StoreInv, CallInv, NoAncestorGap
<1> QED
  BY <1>1, StoreInvariant, PTL

\* The index of waiters loses nothing: until the block a pending block awaits
\* is held, the pending block is filed under it (verdict.go, file and take).
THEOREM PendingIsFiled == Spec => []FiledUntilArrival
<1>1. StoreInv => FiledUntilArrival
  BY DEF StoreInv
<1> QED
  BY <1>1, StoreInvariant, PTL

\* Verdicts, the index and the waiters in hand are of held blocks only
\* (verdict.go, admit and settle).
THEOREM VerdictsHaveBlocks == Spec => []VerdictsAreOfHeldBlocks
<1>1. StoreInv => VerdictsAreOfHeldBlocks
  BY DEF StoreInv
<1> QED
  BY <1>1, StoreInvariant, PTL

\* A verdict moves in one direction: no step rewrites an acceptance
\* (verdict.go, record).
THEOREM VerdictsMoveOneWay == Spec => OneDirection
<1>1. TypeInv /\ [Next]_vars => [\A d \in accepted : verdicts'[d] = verdicts[d]]_vars
  BY Grows
<1>2. Init => TypeInv
  BY InitType
<1>3. TypeInv /\ [Next]_vars => TypeInv'
  BY StepType
<1> QED
  BY <1>1, <1>2, <1>3, PTL DEF Spec, OneDirection
-----------------------------------------------------------------------------
Fine(d, x) == x \in blocks /\ ~BreaksRule6(d, x) /\ ~BreaksRule10(d, x)

Checked(d, v) == \A x \in Range(Refs(d)) \ (v.unchecked \cup Range(v.toCheck)) : Fine(d, x)
AllChecked(d, v) == \A x \in Range(Refs(d)) \ v.unchecked : Fine(d, x)

ChecksInv(p) ==
    /\ pc[p] \in Linking \cup Checking => Checked(block[p], val[p])
    /\ pc[p] = "resolve" => val[p].toCheck = <<>>
    /\ pc[p] \in {"store", "record"} /\ adm[p].verdict = "valid" => AllChecked(block[p], val[p])

RefsInv == TypeInv /\ AcceptedRefs /\ \A p \in Proc : ChecksInv(p)
-----------------------------------------------------------------------------
\* What was checked stays checked, and so does what is of no concern.
LEMMA ChecksStable ==
    ASSUME NEW q \in Proc, ChecksInv(q), blocks \subseteq blocks',
           pc'[q] = pc[q], block'[q] = block[q], val'[q] = val[q], adm'[q] = adm[q]
    PROVE  ChecksInv(q)'
<1>1. \A d, x : Fine(d, x) => Fine(d, x)'
  BY DEF Fine, BreaksRule6, BreaksRule10, SameAuthor
<1> QED
  BY <1>1 DEF ChecksInv, Checked, AllChecked, Refs

\* A step of p that records nothing keeps RefsInv if it keeps p's part of it.
LEMMA OwnStep ==
    ASSUME RefsInv, TypeInv', NEW p \in Proc, blocks \subseteq blocks', UNCHANGED verdicts,
           \A q \in Proc \ {p} : /\ pc'[q] = pc[q] /\ block'[q] = block[q]
                                 /\ val'[q] = val[q] /\ adm'[q] = adm[q],
           ChecksInv(p)'
    PROVE  RefsInv'
<1>1. \A q \in Proc : ChecksInv(q)'
  BY ChecksStable DEF RefsInv
<1>2. AcceptedRefs'
  BY DEF RefsInv, AcceptedRefs, accepted, Accepted, BreaksRule6, BreaksRule10, SameAuthor, Refs
<1> QED
  BY <1>1, <1>2 DEF RefsInv

\* A decision to accept needs every entry checked.
LEMMA DecideChecks ==
    ASSUME RefsInv, TypeInv', NEW p \in Proc, NEW a \in Admission, Decide(p, a),
           a.verdict = "valid" /\ ~a.duplicate => AllChecked(block[p], val[p])
    PROVE  RefsInv'
<1>1. /\ pc' = [pc EXCEPT ![p] = IF a.verdict = "invalid" \/ a.duplicate THEN "done" ELSE "store"]
      /\ adm' = [adm EXCEPT ![p] = a]
      /\ UNCHANGED <<storeVars, block, val>>
  BY DEF Decide, Goto
<1>2. pc \in [Proc -> PC] /\ adm \in [Proc -> Admission] /\ ChecksInv(p)
  BY DEF RefsInv, TypeInv, TypeOK
<1>3. UNCHANGED <<blocks, verdicts>>
  BY <1>1 DEF storeVars, memVars
<1>4. ChecksInv(p)'
  BY <1>1, <1>2, <1>3
     DEF ChecksInv, AllChecked, Fine, BreaksRule6, BreaksRule10, SameAuthor, Refs, Linking, Checking
<1> QED
  BY <1>1, <1>2, <1>3, <1>4, OwnStep

\* A validation moves on with what it has checked.
LEMMA ContinueChecks ==
    ASSUME RefsInv, TypeInv', NEW p \in Proc, NEW l \in Linking \cup Checking,
           NEW v \in Validation, Continue(p, l, v), Checked(block[p], v),
           l = "resolve" => v.toCheck = <<>>
    PROVE  RefsInv'
<1>1. /\ pc' = [pc EXCEPT ![p] = l]
      /\ val' = [val EXCEPT ![p] = v]
      /\ UNCHANGED <<storeVars, block, adm>>
  BY DEF Continue, Goto
<1>2. pc \in [Proc -> PC] /\ val \in [Proc -> Validation]
  BY DEF RefsInv, TypeInv, TypeOK
<1>3. UNCHANGED <<blocks, verdicts>>
  BY <1>1 DEF storeVars, memVars
<1>4. ChecksInv(p)'
  BY <1>1, <1>2, <1>3
     DEF ChecksInv, Checked, Fine, BreaksRule6, BreaksRule10, SameAuthor, Refs, Linking, Checking
<1> QED
  BY <1>1, <1>2, <1>3, <1>4, OwnStep
-----------------------------------------------------------------------------
\* The turn of the pass over refs: its entry is held and fine, or unchecked.
LEMMA CheckRefChecks ==
    ASSUME NEW d, NEW v \in Validation, v.toCheck # <<>>, Checked(d, v),
           Head(v.toCheck) \in blocks => Fine(d, Head(v.toCheck))
    PROVE  Checked(d, CheckRef(v, blocks))
<1> DEFINE w == CheckRef(v, blocks)
           x == Head(v.toCheck)
<1>1. w.toCheck = Tail(v.toCheck) /\ w.unchecked = v.unchecked \cup ({x} \ blocks)
  BY DEF CheckRef, Validation
<1>2. v.toCheck \in Seq(Digest)
  BY DEF Validation
<1>3. ASSUME NEW y \in Range(v.toCheck), y # x PROVE y \in Range(Tail(v.toCheck))
  <2>1. PICK i \in 1..Len(v.toCheck) : v.toCheck[i] = y
    BY <1>2, <1>3 DEF Range
  <2>2. i # 1 /\ i - 1 \in 1..Len(Tail(v.toCheck))
    BY <1>2, <1>3, <2>1, HeadTailProperties
  <2>3. Tail(v.toCheck)[i - 1] = v.toCheck[i] /\ Tail(v.toCheck) \in Seq(Digest)
    BY <1>2, <2>2, HeadTailProperties
  <2> DEFINE t == Tail(v.toCheck)
  <2>4. i - 1 \in DOMAIN t
    BY <2>2, <2>3
  <2>5. t[i - 1] = y
    BY <2>1, <2>3
  <2> HIDE DEF t
  <2>6. y \in Range(t)
    BY <2>4, <2>5 DEF Range
  <2> QED
    BY <2>6 DEF t
<1> HIDE DEF w, x
<1> QED
  BY <1>1, <1>3 DEF Checked, w, x

\* The turns of the resolver touch neither list.
LEMMA TurnsCheckNothing ==
    ASSUME NEW v \in Validation, NEW d
    PROVE  /\ ExtendAncestors(v, blocks).toCheck = v.toCheck
           /\ ExtendAncestors(v, blocks).unchecked = v.unchecked
           /\ ExtendRefs(v, blocks).toCheck = v.toCheck
           /\ ExtendRefs(v, blocks).unchecked = v.unchecked
           /\ Define(v, d).toCheck = v.toCheck
           /\ Define(v, d).unchecked = v.unchecked
<1>1. /\ ExtendAncestors(v, blocks).toCheck = v.toCheck
      /\ ExtendAncestors(v, blocks).unchecked = v.unchecked
  BY DEF ExtendAncestors, Validation
<1>2. /\ ExtendRefs(v, blocks).toCheck = v.toCheck
      /\ ExtendRefs(v, blocks).unchecked = v.unchecked
  BY DEF ExtendRefs, Scan, Validation
<1>3. /\ Define(v, d).toCheck = v.toCheck
      /\ Define(v, d).unchecked = v.unchecked
  BY DEF Define, Validation
<1> QED
  BY <1>1, <1>2, <1>3

-----------------------------------------------------------------------------
\* Nothing is checked or accepted at the start.
LEMMA InitRefs == Init => RefsInv
<1> SUFFICES ASSUME Init PROVE RefsInv
  OBVIOUS
<1>1. TypeInv
  BY InitType
<1>2. accepted = {}
  BY DEF Init, accepted, Accepted, Unknown
<1>3. \A p \in Proc : ChecksInv(p)
  BY DEF Init, ChecksInv, Linking, Checking
<1> QED
  BY <1>1, <1>2, <1>3 DEF RefsInv, AcceptedRefs

\* The steps of admit up to the verdict.
LEMMA ValidateChecks ==
    ASSUME RefsInv, TypeInv', NEW p \in Proc,
           LookupAccepted(p) \/ Lookup(p) \/ Validate(p)
    PROVE  RefsInv'
<1> DEFINE d == block[p]
           v == val[p]
<1>0. /\ pc[p] \in Busy => d \in Digest
      /\ v \in Validation /\ ChecksInv(p) /\ TypeInv
  BY DEF RefsInv, TypeInv, TypeOK, InHand
<1>c. /\ Linking = {"linkage", "verdict"}
      /\ Checking = {"siblings", "refs", "resolve"}
      /\ Linking \cup Checking \subseteq Busy
  BY DEF Linking, Checking, Busy, PC
<1>f. ASSUME NEW n \in 0..10, Decide(p, Invalid(n)) PROVE RefsInv'
  BY <1>f, ConstantsType, DecideChecks DEF Invalid, NoAdmission
<1>g. ASSUME NEW a \in Digest \cup {NoDigest}, NEW n \in 0..10, Decide(p, Pending(a, n))
      PROVE  RefsInv'
  BY <1>g, ConstantsType, DecideChecks DEF Pending, NoAdmission
<1>s. ASSUME NEW l \in {"verdict", "siblings"}, pc[p] \in Linking, Continue(p, l, v)
      PROVE  RefsInv'
  BY <1>0, <1>c, <1>s, ContinueChecks DEF ChecksInv
<1>r. ASSUME NEW w \in Validation, pc[p] = "resolve", Continue(p, "resolve", w),
             w.toCheck = v.toCheck, w.unchecked = v.unchecked
      PROVE  RefsInv'
  <2>1. v.toCheck = <<>> /\ Checked(d, v)
    BY <1>0, <1>c, <1>r DEF ChecksInv
  <2>2. Checked(d, w)
    BY <1>r, <2>1 DEF Checked
  <2> QED
    BY <1>c, <1>r, <2>1, <2>2, ContinueChecks
<1>1. CASE LookupAccepted(p)
  BY <1>1, ConstantsType, DecideChecks DEF LookupAccepted, Duplicate, NoAdmission
<1>2. CASE Lookup(p)
  <2>1. d \in Digest /\ Continue(p, "linkage", NewValidation(d))
    BY <1>0, <1>2 DEF Lookup, Busy, PC
  <2>2. NewValidation(d).toCheck = Refs(d)
    BY DEF NewValidation, NoValidation
  <2>3. Checked(d, NewValidation(d))
    BY <2>2 DEF Checked
  <2> QED
    BY <1>c, <2>1, <2>3, NewValidationType, ContinueChecks
<1>3. CASE Linkage(p)
  <2>1. pc[p] \in Linking /\ d \in Digest /\ content[d].prev \in Digest \cup {NoDigest}
    BY <1>0, <1>c, <1>3, ContentType
       DEF Linkage, Genesis, PrevMissing, PrevHeld, PrevUnaccepted, PrevAccepted
  <2> QED
    BY <1>3, <1>f, <1>g, <1>s, <2>1
       DEF Linkage, Genesis, PrevMissing, PrevHeld, PrevUnaccepted, PrevAccepted
<1>4. CASE DetectFork(p)
  <2>1. PICK F : val' = [val EXCEPT ![p] = [v EXCEPT !.forks = F]]
    BY <1>4 DEF DetectFork
  <2>2. /\ pc[p] = "siblings" /\ d \in Digest
        /\ \/ adm' = adm /\ pc' = [pc EXCEPT ![p] = "refs"]
           \/ /\ content[d].type = "private"
              /\ adm' = [adm EXCEPT ![p] = Valid] /\ pc' = [pc EXCEPT ![p] = "store"]
        /\ UNCHANGED <<storeVars, block>>
    BY <1>0, <1>c, <1>4 DEF DetectFork, Goto
  <2>3. /\ pc \in [Proc -> PC] /\ adm \in [Proc -> Admission] /\ val \in [Proc -> Validation]
        /\ val'[p].toCheck = v.toCheck /\ val'[p].unchecked = v.unchecked
    BY <1>0, <2>1 DEF TypeInv, TypeOK, Validation
  <2>4. UNCHANGED <<blocks, verdicts>>
    BY <2>2 DEF storeVars, memVars
  <2>5. Checked(d, v)
    BY <1>0, <1>c, <2>2 DEF ChecksInv
  <2>6. Checked(d, v)'
    BY <2>1, <2>2, <2>3, <2>4, <2>5
       DEF Checked, Fine, BreaksRule6, BreaksRule10, SameAuthor, Refs
  <2>7. content[d].type = "private" => AllChecked(d, v)'
    BY <2>2 DEF AllChecked, Refs, Range
  <2>8. ChecksInv(p)'
    BY <1>c, <2>2, <2>3, <2>6, <2>7 DEF ChecksInv
  <2> QED
    BY <2>1, <2>2, <2>3, <2>4, <2>8, OwnStep
<1>5. CASE CheckNextRef(p)
  <2>1. pc[p] = "refs" /\ v.toCheck # <<>> /\ Checked(d, v)
    BY <1>0, <1>c, <1>5 DEF CheckNextRef, RefsChecked, ChecksInv
  <2>2. ASSUME Continue(p, "refs", CheckRef(v, blocks)),
               Head(v.toCheck) \in blocks => Fine(d, Head(v.toCheck))
        PROVE  RefsInv'
    BY <1>0, <1>c, <2>1, <2>2, CheckRefType, CheckRefChecks, ContinueChecks
       DEF TypeInv, TypeOK, MemTypeOK
  <2> QED
    BY <1>5, <1>f, <2>2 DEF CheckNextRef, Fine
<1>6. CASE AllRefsChecked(p)
  <2>1. Continue(p, "resolve", v) /\ v.toCheck = <<>> /\ Checked(d, v)
    BY <1>0, <1>c, <1>6 DEF AllRefsChecked, RefsChecked, ChecksInv
  <2> QED
    BY <1>0, <1>c, <2>1, ContinueChecks
<1>7. CASE Resolve(p)
  <2>0. /\ pc[p] = "resolve" /\ d \in Digest
        /\ v.toCheck = <<>> /\ Checked(d, v) /\ blocks \in SUBSET Digest
    BY <1>0, <1>c, <1>7
       DEF Resolve, ResolveReference, SearchAncestors, SearchRefs, SearchFails, Searching,
           DefineOperation, AllResolved, ChecksInv, TypeInv, TypeOK, MemTypeOK
  <2>1. CASE ResolveReference(p)
    <3> DEFINE w == [v EXCEPT !.ref = @ + 1]
    <3>1. w \in Validation /\ w.toCheck = v.toCheck /\ w.unchecked = v.unchecked
      <4>1. v.ref + 1 \in Nat \ {0}
        BY <1>0 DEF Validation
      <4> QED
        BY <1>0, <4>1 DEF Validation
    <3>2. Continue(p, "resolve", w) \/ Decide(p, Invalid(5))
      BY <2>1 DEF ResolveReference
    <3> HIDE DEF w
    <3> QED
      BY <1>f, <1>r, <2>0, <3>1, <3>2
  <2>2. CASE SearchAncestors(p)
    <3>1. v.nextAncestor # NoDigest
      BY <2>2 DEF SearchAncestors
    <3> QED
      BY <1>0, <1>f, <1>r, <2>0, <2>2, <3>1, ExtendAncestorsType, TurnsCheckNothing
         DEF SearchAncestors
  <2>3. CASE SearchRefs(p)
    <3>1. v.queue # <<>>
      BY <2>3 DEF SearchRefs
    <3> QED
      BY <1>0, <1>f, <1>r, <2>0, <2>3, <3>1, ExtendRefsType, TurnsCheckNothing DEF SearchRefs
  <2>4. CASE SearchFails(p)
    <3>1. AwaitedBlock(v) \in Digest \cup {NoDigest}
      BY <1>0 DEF AwaitedBlock, Gap, Validation
    <3> QED
      BY <1>f, <1>g, <2>4, <3>1 DEF SearchFails
  <2>5. CASE DefineOperation(p)
    <3>1. ~OpsDone(v, d)
      BY <2>5 DEF DefineOperation
    <3> QED
      BY <1>0, <1>f, <1>r, <2>0, <2>5, <3>1, DefineType, TurnsCheckNothing DEF DefineOperation
  <2>6. CASE AllResolved(p)
    <3>1. AllChecked(d, v)
      BY <2>0 DEF Checked, AllChecked, Range
    <3> QED
      BY <2>6, <3>1, ConstantsType, DecideChecks DEF AllResolved
  <2> QED
    BY <1>7, <2>1, <2>2, <2>3, <2>4, <2>5, <2>6 DEF Resolve
<1> QED
  BY <1>1, <1>2, <1>3, <1>4, <1>5, <1>6, <1>7 DEF Validate, References

\* Storing adds a block; recording an acceptance records what was checked.
LEMMA StoreChecks ==
    ASSUME RefsInv, TypeInv', NEW p \in Proc, Store(p)
    PROVE  RefsInv'
<1>1. /\ pc \in [Proc -> PC] /\ ChecksInv(p) /\ pc[p] = "store"
      /\ pc' = [pc EXCEPT ![p] = "record"]
      /\ UNCHANGED <<verdicts, block, val, adm>>
      /\ blocks \subseteq blocks'
  BY DEF RefsInv, TypeInv, TypeOK, Store, Goto, Add, memVars
<1>2. ChecksInv(p)'
  BY <1>1 DEF ChecksInv, AllChecked, Fine, BreaksRule6, BreaksRule10, SameAuthor, Refs,
              Linking, Checking
<1> QED
  BY <1>1, <1>2, OwnStep

\* Recording gives the accepted block the report of its own checks.
LEMMA RecordChecks ==
    ASSUME RefsInv, TypeInv', NEW p \in Proc, Record(p)
    PROVE  RefsInv'
<1> DEFINE d == block[p]
<1>1. /\ pc \in [Proc -> PC] /\ ChecksInv(p) /\ pc[p] = "record" /\ d \in Digest
      /\ verdicts \in [Digest -> Entry]
      /\ pc' = [pc EXCEPT ![p] = "done"]
      /\ UNCHANGED <<blocks, block, val, adm>>
  BY DEF RefsInv, TypeInv, TypeOK, InHand, Busy, PC, Record, Goto, memVars
<1>2. \A q \in Proc : ChecksInv(q)'
  <2>1. ChecksInv(p)'
    BY <1>1 DEF ChecksInv, Linking, Checking
  <2>2. ASSUME NEW q \in Proc \ {p} PROVE ChecksInv(q)'
    BY <1>1, ChecksStable DEF RefsInv
  <2> QED
    BY <2>1, <2>2
<1>3. AcceptedRefs'
  <2> SUFFICES ASSUME NEW e \in accepted',
                      NEW x \in Range(Refs(e)) \ verdicts'[e].report.unchecked
               PROVE  Fine(e, x)
    BY <1>1 DEF AcceptedRefs, Fine, BreaksRule6, BreaksRule10, SameAuthor, Refs
  <2>0. e \in Digest /\ verdicts'[e].verdict = "valid"
    BY DEF accepted, Accepted
  <2>1. CASE e \in accepted
    <3>1. verdicts'[e] = verdicts[e]
      BY <2>1, Grows DEF RefsInv, Next, Step, Admit
    <3> QED
      BY <2>1, <3>1 DEF RefsInv, AcceptedRefs, Fine
  <2>2. CASE e \notin accepted
    <3>1. e = d /\ verdicts'[e] = EntryOf(p)
      BY <1>1, <2>0, <2>2 DEF Record, accepted, Accepted
    <3>2. adm[p].verdict = "valid"
      BY <2>0, <3>1 DEF EntryOf
    <3>3. verdicts'[e].report.unchecked = val[p].unchecked
      BY <3>1, <3>2 DEF EntryOf
    <3> QED
      BY <1>1, <3>1, <3>2, <3>3 DEF ChecksInv, AllChecked
  <2> QED
    BY <2>1, <2>2
<1> QED
  BY <1>2, <1>3 DEF RefsInv

\* The steps after an admission begin no check and hold no acceptance back.
LEMMA SettleChecks ==
    ASSUME RefsInv, TypeInv', NEW p \in Proc,
           \/ AddReturns(p) \/ StartSettle(p) \/ WaiterAdmitted(p) \/ NextWaiter(p)
           \/ WaitersDone(p) \/ Settled(p) \/ Take(p) \/ \E d \in Digest : Offer(p, d)
    PROVE  RefsInv'
<1>0. /\ pc \in [Proc -> PC] /\ block \in [Proc -> Digest \cup {NoDigest}]
      /\ val \in [Proc -> Validation] /\ adm \in [Proc -> Admission]
  BY DEF RefsInv, TypeInv, TypeOK
<1>1. /\ UNCHANGED <<blocks, verdicts>>
      /\ \A q \in Proc \ {p} : /\ pc'[q] = pc[q] /\ block'[q] = block[q]
                               /\ val'[q] = val[q] /\ adm'[q] = adm[q]
      /\ pc'[p] \in {"idle", "take", "waiters", "lookup"}
  <2>1. CASE AddReturns(p) \/ StartSettle(p) \/ WaiterAdmitted(p)
    BY <1>0, <2>1 DEF AddReturns, StartSettle, WaiterAdmitted, Leave, Goto, storeVars, memVars
  <2>2. CASE NextWaiter(p)
    BY <1>0, <2>2 DEF NextWaiter, Goto, storeVars, memVars
  <2>3. CASE WaitersDone(p) \/ Settled(p) \/ \E d \in Digest : Offer(p, d)
    BY <1>0, <2>3 DEF WaitersDone, Settled, Offer, Goto, storeVars, memVars
  <2>4. CASE Take(p)
    BY <1>0, <2>4 DEF Take, Goto, memVars
  <2> QED
    BY <2>1, <2>2, <2>3, <2>4
<1>2. ChecksInv(p)'
  BY <1>1 DEF ChecksInv, Linking, Checking
<1> QED
  BY <1>1, <1>2, OwnStep

\* RefsInv is inductive.
LEMMA RefsStep == RefsInv /\ [Next]_vars => RefsInv'
<1> SUFFICES ASSUME RefsInv, [Next]_vars PROVE RefsInv'
  OBVIOUS
<1>1. TypeInv'
  BY StepType DEF RefsInv
<1>2. CASE UNCHANGED vars
  <2>1. UNCHANGED <<blocks, verdicts, pc, block, val, adm>>
    BY <1>2 DEF vars, storeVars, memVars, callVars
  <2>2. \A q \in Proc : ChecksInv(q)'
    BY <2>1, ChecksStable DEF RefsInv
  <2> QED
    BY <1>1, <2>1, <2>2 DEF RefsInv, AcceptedRefs, accepted, Accepted, BreaksRule6,
                            BreaksRule10, SameAuthor, Refs
<1>3. ASSUME NEW p \in Proc, Step(p) \/ \E d \in Digest : Offer(p, d) PROVE RefsInv'
  BY <1>1, <1>3, ValidateChecks, StoreChecks, RecordChecks, SettleChecks DEF Step, Admit, Settle
<1> QED
  BY <1>2, <1>3 DEF Next

\* In every reachable store, whatever arrived while blocks were validated, an
\* entry of an accepted block's refs was held and broke neither rule 6 nor
\* rule 10, or the report names it (validateReferences, record).
THEOREM RefsAreChecked == Spec => []AcceptedRefs
<1>1. RefsInv => AcceptedRefs
  BY DEF RefsInv
<1> QED
  BY <1>1, InitRefs, RefsStep, PTL DEF Spec
-----------------------------------------------------------------------------

Digests == SUBSET Digest

\* A closure is the least set that contains first and is closed under step.
LEMMA ClosureLeast ==
    ASSUME NEW first \in Digests, NEW step \in [Digests -> Digests],
           \A X \in Digests : X \subseteq step[X]
    PROVE  /\ Closure(first, step) \in Digests
           /\ first \subseteq Closure(first, step)
           /\ step[Closure(first, step)] = Closure(first, step)
           /\ \A S \in Digests :
                 first \subseteq S /\ (\A X \in Digests : X \subseteq S => step[X] \subseteq S)
                     => Closure(first, step) \subseteq S
<1> DEFINE Shape(f) == [n \in Nat |-> IF n = 0 THEN first ELSE step[f[n - 1]]]
           Within == CHOOSE f : f = Shape(f)
<1>1. PICK f \in [Nat -> Digests] : f[0] = first /\ \A n \in Nat : f[n + 1] = step[f[n]]
  <2> HIDE DEF Shape, Within
  <2> QED
    BY RecursionExists
<1>2. f = Shape(f)
  <2>1. f = [n \in Nat |-> f[n]]
    OBVIOUS
  <2>2. ASSUME NEW n \in Nat PROVE f[n] = IF n = 0 THEN first ELSE step[f[n - 1]]
    <3>1. CASE n = 0
      BY <1>1, <3>1
    <3>2. CASE n # 0
      <4>1. n - 1 \in Nat /\ (n - 1) + 1 = n
        BY <3>2
      <4>2. f[(n - 1) + 1] = step[f[n - 1]]
        BY <1>1, <4>1
      <4> QED
        BY <3>2, <4>1, <4>2
    <3> QED
      BY <3>1, <3>2
  <2>3. Shape(f) = [n \in Nat |-> f[n]]
    BY <2>2
  <2> QED
    BY <2>1, <2>3
<1>3. Within = Shape(Within)
  BY <1>2
<1>4. Closure(first, step) = Within[Cardinality(Digest)]
  BY DEF Closure
<1> HIDE DEF Within
<1>5. \A n \in Nat : Within[n] = IF n = 0 THEN first ELSE step[Within[n - 1]]
  BY <1>3
<1>6. Within[0] = first
  BY <1>5
<1>7. ASSUME NEW n \in Nat PROVE Within[n + 1] = step[Within[n]]
  <2>1. n + 1 \in Nat /\ n + 1 # 0 /\ (n + 1) - 1 = n
    OBVIOUS
  <2> QED
    BY <1>5, <2>1
<1>8. Within \in [Nat -> Digests]
  <2> DEFINE R == {n \in Nat : Within[n] \in Digests}
  <2>1. 0 \in R
    BY <1>6
  <2>2. ASSUME NEW n \in R PROVE n + 1 \in R
    BY <1>7
  <2> HIDE DEF R
  <2>3. R = Nat
    BY <2>1, <2>2, Induction DEF R
  <2>4. \A n \in Nat : Within[n] \in Digests
    BY <2>3 DEF R
  <2>5. Within = [n \in Nat |-> Within[n]]
    BY <1>3
  <2> QED
    BY <2>4, <2>5
<1> HIDE DEF Shape
<1>9. /\ first \subseteq Within[Cardinality(Digest)]
      /\ Within[Cardinality(Digest)] \in Digests
      /\ step[Within[Cardinality(Digest)]] = Within[Cardinality(Digest)]
      /\ \A S \in Digests :
            first \subseteq S /\ (\A X \in Digests : X \subseteq S => step[X] \subseteq S)
                => Within[Cardinality(Digest)] \subseteq S
  <2>1. Digest \in Digests /\ \A X \in Digests : X \subseteq Digest
    BY DEF Digests
  <2>2. \A n \in Nat : Within[n + 1] = step[Within[n]]
    BY <1>7
  <2> HIDE DEF Within
  <2> QED
    BY ONLY SMTT(30), <1>6, <1>8, <2>1, <2>2, Saturation, DigestsAreFinite,
            first \in Digests, step \in [Digests -> Digests], \A X \in Digests : X \subseteq step[X]
<1> QED
  BY <1>4, <1>9

\* What a block names in prev is a block, if it is not null.
LEMMA ContentPrev == \A d \in Digest : content[d].prev \in Digest \cup {NoDigest}
  BY ContentAssumption DEF Content

\* And so are the members of its refs.
LEMMA ContentRefs ==
    \A d \in Digest : Range(content[d].refs) \subseteq Digest /\ Range(Refs(d)) \subseteq Digest
  BY ContentAssumption, RangeOfSeq DEF Content, Refs, Range

\* The ancestors of d are the least set of blocks closed under prev.
LEMMA AncestorsLeast ==
    ASSUME NEW d \in Digest, NEW held
    PROVE  /\ Ancestors(d, held) \in SUBSET Digest
           /\ content[d].prev \in Ancestors(d, held) \cup {NoDigest}
           /\ \A y \in Ancestors(d, held) \cap held :
                 content[y].prev \in Ancestors(d, held) \cup {NoDigest}
           /\ \A S \in SUBSET Digest :
                 /\ content[d].prev \in S \cup {NoDigest}
                 /\ \A y \in S \cap held : content[y].prev \in S \cup {NoDigest}
                 => Ancestors(d, held) \subseteq S
<1> DEFINE first == {content[d].prev} \ {NoDigest}
           step == [S \in SUBSET Digest |->
                       S \cup ({content[y].prev : y \in S \cap held} \ {NoDigest})]
           all == Ancestors(d, held)
<1>1. all = Closure(first, step)
  BY DEF Ancestors
<1>2. /\ first \in Digests
      /\ step \in [Digests -> Digests]
      /\ \A X \in Digests : X \subseteq step[X]
  BY ContentPrev DEF Digests
<1>3. /\ all \in Digests
      /\ first \subseteq all
      /\ step[all] = all
      /\ \A S \in Digests :
            first \subseteq S /\ (\A X \in Digests : X \subseteq S => step[X] \subseteq S) => all \subseteq S
  <2> HIDE DEF first, step, all
  <2> QED
    BY ONLY <1>1, <1>2, ClosureLeast
<1>4. \A S \in SUBSET Digest :
         /\ content[d].prev \in S \cup {NoDigest}
         /\ \A y \in S \cap held : content[y].prev \in S \cup {NoDigest}
         => first \subseteq S /\ \A X \in Digests : X \subseteq S => step[X] \subseteq S
  BY DEF Digests
<1>5. \A y \in all \cap held : content[y].prev \in all \cup {NoDigest}
  BY <1>3 DEF Digests
<1>6. content[d].prev \in all \cup {NoDigest}
  BY <1>3
<1> HIDE DEF first, step
<1> QED
  BY <1>3, <1>4, <1>5, <1>6 DEF Digests

\* The foreign blocks of d are the least set of blocks closed under refs.
LEMMA ForeignLeast ==
    ASSUME NEW d \in Digest, NEW held, NEW open
    PROVE  /\ Foreign(d, held, open) \in SUBSET Digest
           /\ Range(Refs(d)) \subseteq Foreign(d, held, open)
           /\ \A y \in Foreign(d, held, open) \cap held :
                 Legible(y, open) => Range(content[y].refs) \subseteq Foreign(d, held, open)
           /\ \A S \in SUBSET Digest :
                 /\ Range(Refs(d)) \subseteq S
                 /\ \A y \in S \cap held : Legible(y, open) => Range(content[y].refs) \subseteq S
                 => Foreign(d, held, open) \subseteq S
<1> DEFINE first == Range(Refs(d))
           step == [S \in SUBSET Digest |->
                       S \cup UNION {Range(content[y].refs) :
                                       y \in {x \in S \cap held : Legible(x, open)}}]
           all == Foreign(d, held, open)
<1>1. all = Closure(first, step)
  BY DEF Foreign
<1>2. /\ first \in Digests
      /\ step \in [Digests -> Digests]
      /\ \A X \in Digests : X \subseteq step[X]
  BY ContentRefs DEF Digests
<1>3. /\ all \in Digests
      /\ first \subseteq all
      /\ step[all] = all
      /\ \A S \in Digests :
            first \subseteq S /\ (\A X \in Digests : X \subseteq S => step[X] \subseteq S) => all \subseteq S
  <2> HIDE DEF first, step, all
  <2> QED
    BY ONLY <1>1, <1>2, ClosureLeast
<1>4. \A S \in SUBSET Digest :
         /\ Range(Refs(d)) \subseteq S
         /\ \A y \in S \cap held : Legible(y, open) => Range(content[y].refs) \subseteq S
         => first \subseteq S /\ \A X \in Digests : X \subseteq S => step[X] \subseteq S
  BY DEF Digests
<1>5. \A y \in all \cap held : Legible(y, open) => Range(content[y].refs) \subseteq all
  BY <1>3 DEF Digests
<1> HIDE DEF step
<1> QED
  BY <1>3, <1>4, <1>5 DEF Digests

\* More held, and more open, leads to no fewer blocks.
LEMMA ReachGrows ==
    ASSUME NEW d \in Digest, NEW held, NEW more, held \subseteq more,
           NEW open, NEW wider, open \subseteq wider
    PROVE  /\ Ancestors(d, held) \subseteq Ancestors(d, more)
           /\ Foreign(d, held, open) \subseteq Foreign(d, more, wider)
           /\ Sources(d, held, open) \subseteq Sources(d, more, wider)
<1>1. Ancestors(d, held) \subseteq Ancestors(d, more)
  BY AncestorsLeast
<1>2. Foreign(d, held, open) \subseteq Foreign(d, more, wider)
  <2>1. \A y : Legible(y, open) => Legible(y, wider)
    BY DEF Legible
  <2> QED
    BY <2>1, ForeignLeast
<1> QED
  BY <1>1, <1>2 DEF Sources, Legible
-----------------------------------------------------------------------------

\* What d's sources define, and what its first n - 1 operations create.
Below(d, held, open) == UNION {Definitions(x) : x \in Sources(d, held, open)}
Created(d, n) == {content[d].ops[i].creates : i \in 1..(n - 1)}

\* The j-th reference of d's n-th operation names something, of its kind.
ReferenceSound(d, n, j, held) ==
    LET r == content[d].ops[n].references[j] IN
    /\ r.entity \in Below(d, held, Keyed) \cup Created(d, n)
    /\ r.kind = kind[r.entity]

PassedSound(d, n, held) ==
    /\ content[d].ops[n].fits
    /\ \A j \in DOMAIN content[d].ops[n].references : ReferenceSound(d, n, j, held)

\* The traversal holds nothing that d does not reach, and what it passed is sound.
Reached(d, v, held) ==
    /\ v.nextAncestor \in Ancestors(d, held) \cup {NoDigest}
    /\ Range(v.queue) \subseteq Foreign(d, held, Keyed)
    /\ v.defs \subseteq Below(d, held, Keyed) \cup Created(d, v.op)

Passed(d, v, held) ==
    /\ v.op <= Len(content[d].ops) + 1
    /\ \A n \in 1..(v.op - 1) : PassedSound(d, n, held)
    /\ ~OpsDone(v, d) => \A j \in 1..(v.ref - 1) : ReferenceSound(d, v.op, j, held)

\* Where no block was missing, the traversal has left out only what is sealed,
\* and nothing if it noted no key.
Opened(v, x) == Readable(x) \/ v.keyGap # NoDigest

AncestorsFollowed(d, v, A) ==
    /\ content[d].prev \in A \cup {v.nextAncestor, NoDigest}
    /\ \A x \in A : /\ content[x].prev \in A \cup {v.nextAncestor, NoDigest}
                    /\ Opened(v, x)
                    /\ Readable(x) => Definitions(x) \subseteq v.defs

RefsFollowed(d, v) ==
    /\ Range(Refs(d)) \subseteq v.visited \cup Range(v.queue)
    /\ \A x \in v.visited :
          /\ Opened(v, x)
          /\ Readable(x) => /\ Range(content[x].refs) \subseteq v.visited \cup Range(v.queue)
                            /\ Definitions(x) \subseteq v.defs

Followed(d, v) ==
    /\ v.ancestorGap = NoDigest => \E A \in SUBSET Digest : AncestorsFollowed(d, v, A)
    /\ v.refsGap = NoDigest => RefsFollowed(d, v)
    /\ Created(d, v.op) \subseteq v.defs \cup {NoEntity}

Trace(d, v, held) ==
    /\ Range(v.toCheck) \subseteq Range(Refs(d))
    /\ Reached(d, v, held)
    /\ Passed(d, v, held)
    /\ Followed(d, v)

\* No store that holds these blocks, however complete, could accept d with keys
\* to the blocks in open.
Hopeless(d, held, open) ==
    \/ ~PrevSound(d)
    \/ /\ content[d].type # "private"
       /\ ~RefsSound(d, held) \/ ~OperationsSound(d, Digest, open)

Definitive(d, v, held) ==
    LET limited == scanLimit >= 0 /\ v.scanned >= scanLimit
        garbled == Garbled \cap (Ancestors(d, Digest) \cup Foreign(d, Digest, Digest)) # {}
    IN  ~limited /\ ~garbled => Hopeless(d, held, Digest)
-----------------------------------------------------------------------------
\* More blocks held take nothing back.
LEMMA BelowGrows ==
    ASSUME NEW d \in Digest, NEW held, NEW more, held \subseteq more,
           NEW open, NEW wider, open \subseteq wider
    PROVE  Below(d, held, open) \subseteq Below(d, more, wider)
  BY ReachGrows DEF Below

\* More blocks held leave a trace a trace.
LEMMA TraceGrows ==
    ASSUME NEW d \in Digest, NEW v, NEW held, NEW more, held \subseteq more, Trace(d, v, held)
    PROVE  Trace(d, v, more)
<1>1. Below(d, held, Keyed) \subseteq Below(d, more, Keyed)
  BY BelowGrows
<1>2. \A n, j : ReferenceSound(d, n, j, held) => ReferenceSound(d, n, j, more)
  BY <1>1 DEF ReferenceSound
<1>3. Reached(d, v, more)
  BY <1>1, ReachGrows DEF Trace, Reached
<1>4. Passed(d, v, more)
  BY <1>2 DEF Trace, Passed, PassedSound
<1> QED
  BY <1>3, <1>4 DEF Trace

\* A validation that differs only in what the traversal does not use.
LEMMA TraceCarries ==
    ASSUME NEW d, NEW v, NEW w, NEW held, Trace(d, v, held),
           Range(w.toCheck) \subseteq Range(Refs(d)),
           w.nextAncestor = v.nextAncestor, w.queue = v.queue, w.defs = v.defs,
           w.op = v.op, w.ref = v.ref, w.ancestorGap = v.ancestorGap,
           w.refsGap = v.refsGap, w.keyGap = v.keyGap, w.visited = v.visited
    PROVE  Trace(d, w, held)
<1>1. Reached(d, w, held)
  BY DEF Trace, Reached
<1>2. Passed(d, w, held)
  BY DEF Trace, Passed, OpsDone
<1>3. Followed(d, w)
  BY DEF Trace, Followed, AncestorsFollowed, RefsFollowed, Opened
<1> QED
  BY <1>1, <1>2, <1>3 DEF Trace

\* The traversal sets out from d's prev and refs.
LEMMA TraceBegins ==
    ASSUME NEW d \in Digest, NEW held
    PROVE  Trace(d, NewValidation(d), held)
<1> DEFINE v == NewValidation(d)
<1>1. /\ v.toCheck = Refs(d) /\ v.queue = Refs(d) /\ v.nextAncestor = content[d].prev
      /\ v.defs = {} /\ v.visited = {} /\ v.op = 1 /\ v.ref = 1
  BY DEF NewValidation, NoValidation
<1>2. Reached(d, v, held)
  BY <1>1, AncestorsLeast, ForeignLeast DEF Reached
<1>3. Len(content[d].ops) \in Nat /\ 1..(v.op - 1) = {} /\ 1..(v.ref - 1) = {}
  BY <1>1, ContentType
<1>4. Passed(d, v, held)
  BY <1>1, <1>3 DEF Passed
<1>5. Followed(d, v)
  <2>1. AncestorsFollowed(d, v, {})
    BY <1>1 DEF AncestorsFollowed
  <2>2. RefsFollowed(d, v)
    BY <1>1 DEF RefsFollowed
  <2>3. Created(d, v.op) = {}
    BY <1>3 DEF Created
  <2> QED
    BY <2>1, <2>2, <2>3 DEF Followed
<1> HIDE DEF v
<1> QED
  BY <1>1, <1>2, <1>4, <1>5 DEF Trace, v

\* One more ancestor is followed, or a gap is met.
LEMMA AncestorTraced ==
    ASSUME NEW d \in Digest, NEW v \in Validation, NEW held \in SUBSET Digest,
           Trace(d, v, held), v.nextAncestor # NoDigest
    PROVE  Trace(d, ExtendAncestors(v, held), held)
<1> DEFINE x == v.nextAncestor
           w == ExtendAncestors(v, held)
<1>0. x \in Digest /\ x # NoDigest /\ x \in Ancestors(d, held)
  BY DEF Validation, Trace, Reached
<1>1. /\ w.toCheck = v.toCheck /\ w.queue = v.queue /\ w.op = v.op /\ w.ref = v.ref
      /\ w.refsGap = v.refsGap /\ w.visited = v.visited
  BY DEF ExtendAncestors, Validation
<1>2. \/ /\ x \notin held
         /\ w.ancestorGap = x /\ w.nextAncestor = NoDigest
         /\ w.defs = v.defs /\ w.keyGap = v.keyGap
      \/ /\ x \in held /\ Readable(x)
         /\ w.ancestorGap = v.ancestorGap /\ w.nextAncestor = content[x].prev
         /\ w.defs = v.defs \cup Definitions(x) /\ w.keyGap = v.keyGap
      \/ /\ x \in held
         /\ w.ancestorGap = v.ancestorGap /\ w.nextAncestor = content[x].prev
         /\ w.defs = v.defs /\ w.keyGap # NoDigest /\ ~Readable(x)
  BY <1>0 DEF ExtendAncestors, Validation, Gap
<1> HIDE DEF w, x
<1>3. Reached(d, w, held)
  <2>1. x \in held /\ Readable(x) => Definitions(x) \subseteq Below(d, held, Keyed)
    BY <1>0 DEF Below, Sources, Legible, Readable
  <2>2. x \in held => content[x].prev \in Ancestors(d, held) \cup {NoDigest}
    BY <1>0, AncestorsLeast
  <2> QED
    BY <1>1, <1>2, <2>1, <2>2 DEF Trace, Reached
<1>4. Passed(d, w, held)
  BY <1>1 DEF Trace, Passed, OpsDone
<1>5. Followed(d, w)
  <2>0. v.defs \subseteq w.defs /\ (v.keyGap # NoDigest => w.keyGap # NoDigest)
    BY <1>2
  <2>1. ASSUME w.ancestorGap = NoDigest
        PROVE  \E A \in SUBSET Digest : AncestorsFollowed(d, w, A)
    <3>1. /\ w.nextAncestor = content[x].prev /\ v.ancestorGap = NoDigest
          /\ Opened(w, x)
          /\ Readable(x) => Definitions(x) \subseteq w.defs
      BY <1>0, <1>2, <2>1 DEF Opened
    <3>2. PICK A \in SUBSET Digest : AncestorsFollowed(d, v, A)
      BY <3>1 DEF Trace, Followed
    <3>3. AncestorsFollowed(d, w, A \cup {x})
      BY <2>0, <3>1, <3>2 DEF AncestorsFollowed, Opened, x
    <3> QED
      BY <1>0, <3>3
  <2>2. ASSUME w.refsGap = NoDigest PROVE RefsFollowed(d, w)
    BY <1>1, <2>0, <2>2 DEF Trace, Followed, RefsFollowed, Opened
  <2>3. Created(d, w.op) \subseteq w.defs \cup {NoEntity}
    BY <1>1, <1>2 DEF Trace, Followed
  <2> QED
    BY <2>1, <2>2, <2>3 DEF Followed
<1> QED
  BY <1>1, <1>3, <1>4, <1>5 DEF Trace, w

\* One more entry of the queue is followed, or a gap is met.
LEMMA RefTraced ==
    ASSUME NEW d \in Digest, NEW v \in Validation, NEW held \in SUBSET Digest,
           Trace(d, v, held), v.queue # <<>>
    PROVE  Trace(d, ExtendRefs(v, held), held)
<1> DEFINE x == Head(v.queue)
           rest == Tail(v.queue)
           w == ExtendRefs(v, held)
<1>0. /\ x \in Digest /\ x # NoDigest
      /\ rest \in Seq(Digest)
      /\ Range(v.queue) = {x} \cup Range(rest)
      /\ x \in Foreign(d, held, Keyed) /\ Range(rest) \subseteq Foreign(d, held, Keyed)
      /\ content[x].refs \in Seq(Digest)
  <2>1. v.queue \in Seq(Digest)
    BY DEF Validation
  <2>2. x \in Digest /\ rest \in Seq(Digest) /\ Range(v.queue) = {x} \cup Range(rest)
    BY <2>1, RangeHeadTail
  <2> QED
    BY <2>2, ContentType, NullsAssumption DEF Trace, Reached
<1>1. /\ w.toCheck = v.toCheck /\ w.nextAncestor = v.nextAncestor /\ w.op = v.op
      /\ w.ref = v.ref /\ w.ancestorGap = v.ancestorGap /\ w.visited = v.visited \cup {x}
  BY DEF ExtendRefs, Scan, Validation
<1>2. \/ /\ x \in v.visited
         /\ w.queue = rest /\ w.defs = v.defs
         /\ w.refsGap = v.refsGap /\ w.keyGap = v.keyGap
      \/ /\ x \in held /\ Readable(x)
         /\ w.queue = rest \o content[x].refs /\ w.defs = v.defs \cup Definitions(x)
         /\ w.refsGap = v.refsGap /\ w.keyGap = v.keyGap
      \/ /\ w.queue = rest /\ w.defs = v.defs
         /\ w.refsGap # NoDigest /\ w.keyGap = v.keyGap
      \/ /\ ~Readable(x)
         /\ w.queue = rest /\ w.defs = v.defs
         /\ w.refsGap = v.refsGap /\ w.keyGap # NoDigest
  <2>1. CASE x \in v.visited
    BY <2>1 DEF ExtendRefs, Validation
  <2>2. CASE x \notin v.visited /\ x \notin held
    BY <1>0, <2>2 DEF ExtendRefs, Validation, Gap
  <2>3. CASE x \notin v.visited /\ x \in held /\ Readable(x)
    BY <2>3 DEF ExtendRefs, Scan, Validation
  <2>4. CASE x \notin v.visited /\ x \in held /\ ~Readable(x)
    BY <1>0, <2>4 DEF ExtendRefs, Scan, Validation, Gap
  <2> QED
    BY <2>1, <2>2, <2>3, <2>4
<1> HIDE DEF w, x, rest
<1>3. Range(rest \o content[x].refs) = Range(rest) \cup Range(content[x].refs)
  BY <1>0, RangeConcatenation
<1>4. Reached(d, w, held)
  <2>1. x \in held /\ Readable(x) => /\ Definitions(x) \subseteq Below(d, held, Keyed)
                                    /\ Range(content[x].refs) \subseteq Foreign(d, held, Keyed)
    BY <1>0, ForeignLeast DEF Below, Sources, Legible, Readable
  <2> QED
    BY <1>0, <1>1, <1>2, <1>3, <2>1 DEF Trace, Reached
<1>5. Passed(d, w, held)
  BY <1>1 DEF Trace, Passed, OpsDone
<1>6. Followed(d, w)
  <2>0. v.defs \subseteq w.defs /\ (v.keyGap # NoDigest => w.keyGap # NoDigest)
    BY <1>2
  <2>1. ASSUME w.ancestorGap = NoDigest
        PROVE  \E A \in SUBSET Digest : AncestorsFollowed(d, w, A)
    BY <1>1, <2>0, <2>1 DEF Trace, Followed, AncestorsFollowed, Opened
  <2>2. ASSUME w.refsGap = NoDigest PROVE RefsFollowed(d, w)
    <3>1. RefsFollowed(d, v)
      BY <1>2, <2>2 DEF Trace, Followed
    <3>2. Range(v.queue) \subseteq {x} \cup Range(w.queue)
      BY <1>0, <1>2, <1>3
    <3>3. \/ x \in v.visited
          \/ ~Readable(x) /\ w.keyGap # NoDigest
          \/ /\ Readable(x) /\ Definitions(x) \subseteq w.defs
             /\ Range(content[x].refs) \subseteq Range(w.queue)
      BY <1>2, <1>3, <2>2
    <3> QED
      BY <1>1, <2>0, <3>1, <3>2, <3>3 DEF RefsFollowed, Opened
  <2>3. Created(d, w.op) \subseteq w.defs \cup {NoEntity}
    BY <1>1, <1>2 DEF Trace, Followed
  <2> QED
    BY <2>1, <2>2, <2>3 DEF Followed
<1> QED
  BY <1>1, <1>4, <1>5, <1>6 DEF Trace, w

\* The reference at hand resolved to an entity of its kind.
LEMMA ReferenceTraced ==
    ASSUME NEW d \in Digest, NEW v \in Validation, NEW held, Trace(d, v, held),
           ~OpsDone(v, d), ~OpResolved(v, d), Resolved(v, d),
           kind[Wanted(v, d).entity] = Wanted(v, d).kind,
           NEW w \in Validation, w = [v EXCEPT !.ref = @ + 1]
    PROVE  Trace(d, w, held)
<1>1. /\ w.toCheck = v.toCheck /\ w.nextAncestor = v.nextAncestor /\ w.queue = v.queue
      /\ w.defs = v.defs /\ w.op = v.op /\ w.ref = v.ref + 1 /\ w.ancestorGap = v.ancestorGap
      /\ w.refsGap = v.refsGap /\ w.keyGap = v.keyGap /\ w.visited = v.visited
  BY SMTT(30) DEF Validation
<1>2. ReferenceSound(d, v.op, v.ref, held)
  BY DEF Trace, Reached, ReferenceSound, Resolved, Wanted, Op
<1>3. \A j \in 1..(w.ref - 1) : j = v.ref \/ j \in 1..(v.ref - 1)
  BY <1>1 DEF Validation
<1>4. Passed(d, w, held)
  BY <1>1, <1>2, <1>3 DEF Trace, Passed, OpsDone
<1>5. Reached(d, w, held) /\ Followed(d, w)
  BY <1>1 DEF Trace, Reached, Followed, AncestorsFollowed, RefsFollowed, Opened
<1> QED
  BY <1>1, <1>4, <1>5 DEF Trace

\* An operation whose references resolved becomes visible to the next ones.
LEMMA OperationTraced ==
    ASSUME NEW d \in Digest, NEW v \in Validation, NEW held, Trace(d, v, held),
           ~OpsDone(v, d), OpResolved(v, d), Op(v, d).fits
    PROVE  Trace(d, Define(v, d), held)
<1> DEFINE w == Define(v, d)
           n == v.op
           op == content[d].ops[n]
<1>0. /\ n \in 1..Len(content[d].ops) /\ n \in Nat /\ Len(content[d].ops) \in Nat
      /\ op \in Operation
  <2>1. n \in Nat \ {0} /\ content[d].ops \in Seq(Operation)
    BY ContentType DEF Validation
  <2>2. n \in 1..Len(content[d].ops) /\ Len(content[d].ops) \in Nat
    BY <2>1 DEF OpsDone
  <2> QED
    BY <2>1, <2>2
<1>1. /\ w.toCheck = v.toCheck /\ w.nextAncestor = v.nextAncestor /\ w.queue = v.queue
      /\ w.defs = v.defs \cup ({op.creates} \ {NoEntity}) /\ w.op = n + 1 /\ w.ref = 1
      /\ w.ancestorGap = v.ancestorGap
      /\ w.refsGap = v.refsGap /\ w.keyGap = v.keyGap /\ w.visited = v.visited
  BY DEF Define, Validation
<1>2. Created(d, n + 1) = Created(d, n) \cup {op.creates}
  <2>1. 1..((n + 1) - 1) = 1..(n - 1) \cup {n}
    BY <1>0
  <2> QED
    BY <2>1 DEF Created
<1>3. PassedSound(d, n, held)
  <2>1. op.references \in Seq(Reference)
    BY <1>0 DEF Operation
  <2>2. v.ref \in Nat /\ v.ref > Len(op.references) /\ Len(op.references) \in Nat
    BY <2>1 DEF OpResolved, Op, Validation
  <2>3. DOMAIN op.references = 1..Len(op.references)
    BY <2>1
  <2>4. 1..Len(op.references) \subseteq 1..(v.ref - 1)
    BY <2>2
  <2> QED
    BY <2>3, <2>4 DEF PassedSound, Trace, Passed, Op
<1> HIDE DEF w
<1>4. Passed(d, w, held)
  <2>1. /\ 1..(w.op - 1) = 1..(n - 1) \cup {n} /\ 1..(w.ref - 1) = {}
        /\ w.op <= Len(content[d].ops) + 1
    BY <1>0, <1>1
  <2> QED
    BY <1>3, <2>1 DEF Passed, Trace
<1>5. Reached(d, w, held)
  BY <1>1, <1>2 DEF Trace, Reached
<1>6. Followed(d, w)
  BY SMTT(30), <1>1, <1>2 DEF Trace, Followed, AncestorsFollowed, RefsFollowed, Opened
<1> QED
  BY <1>1, <1>4, <1>5, <1>6 DEF Trace, w
-----------------------------------------------------------------------------
\* A verdict "valid" is justified by what the traversal passed.
LEMMA AcceptanceJustified ==
    ASSUME NEW d \in Digest, NEW v \in Validation, NEW held, Trace(d, v, held), OpsDone(v, d)
    PROVE  OperationsSound(d, held, Keyed)
<1>1. DOMAIN content[d].ops \subseteq 1..(v.op - 1)
  <2>1. content[d].ops \in Seq(Operation) /\ v.op \in Nat
    BY ContentType DEF Validation
  <2>2. DOMAIN content[d].ops = 1..Len(content[d].ops) /\ Len(content[d].ops) \in Nat
    BY <2>1
  <2> QED
    BY <2>1, <2>2 DEF OpsDone
<1>2. \A n \in DOMAIN content[d].ops : PassedSound(d, n, held)
  BY SMTT(30), <1>1 DEF Trace, Passed
<1> QED
  BY <1>2 DEF OperationsSound, PassedSound, ReferenceSound, Below, Created

\* The soundness of operations survives the arrival of more blocks and keys.
LEMMA OperationsStaySound ==
    ASSUME NEW d \in Digest, NEW held, NEW more, held \subseteq more,
           NEW open, NEW wider, open \subseteq wider, OperationsSound(d, held, open)
    PROVE  OperationsSound(d, more, wider)
<1>1. Sources(d, held, open) \subseteq Sources(d, more, wider)
  BY Zenon, ReachGrows
<1> QED
  BY <1>1 DEF OperationsSound

\* A block whose predecessor is another author's, or ends the chain.
LEMMA BadPrevIsDefinitive ==
    ASSUME NEW d, NEW v, NEW held, content[d].prev # NoDigest,
           ~(SameAuthor(content[d].prev, d) /\ content[content[d].prev].type # "rotation")
    PROVE  Definitive(d, v, held)
  BY DEF Definitive, Hopeless, PrevSound

\* An entry of refs that is held and breaks rule 6 or 10.
LEMMA BadRefIsDefinitive ==
    ASSUME NEW d, NEW v, NEW held, NEW x \in held, x \in Range(Refs(d)),
           content[d].type # "private", BreaksRule6(d, x) \/ BreaksRule10(d, x)
    PROVE  Definitive(d, v, held)
  BY DEF Definitive, Hopeless, RefsSound

\* An operation that breaks rule 5.
LEMMA BadOperationIsDefinitive ==
    ASSUME NEW d \in Digest, NEW v \in Validation, NEW held, ~OpsDone(v, d),
           content[d].type # "private",
           \/ ~Op(v, d).fits
           \/ ~OpResolved(v, d) /\ kind[Wanted(v, d).entity] # Wanted(v, d).kind
    PROVE  Definitive(d, v, held)
<1>1. v.op \in DOMAIN content[d].ops /\ Op(v, d) \in Operation
  <2>1. content[d].ops \in Seq(Operation) /\ v.op \in Nat \ {0}
    BY ContentType DEF Validation
  <2> QED
    BY <2>1 DEF OpsDone, Op
<1>2. ~OpResolved(v, d) => v.ref \in DOMAIN Op(v, d).references
  <2>1. Op(v, d).references \in Seq(Reference) /\ v.ref \in Nat \ {0}
    BY <1>1 DEF Operation, Validation
  <2> QED
    BY <2>1 DEF OpResolved
<1>3. ~OperationsSound(d, Digest, Digest)
  BY <1>1, <1>2, Zenon DEF OperationsSound, Op, Wanted
<1> QED
  BY <1>3 DEF Definitive, Hopeless

\* A search that ended at the scan limit or on a garbled block claims nothing.
LEMMA LimitIsDefinitive ==
    ASSUME NEW d, NEW v, NEW held, AtScanLimit(v, held)
    PROVE  Definitive(d, v, held)
  BY DEF AtScanLimit, Definitive

\* A search stopped by a garbled block has reached one.
LEMMA GarbledIsDefinitive ==
    ASSUME NEW d \in Digest, NEW v \in Validation, NEW held \in SUBSET Digest, Trace(d, v, held)
    PROVE  /\ v.nextAncestor # NoDigest /\ DecryptFails(v.nextAncestor) => Definitive(d, v, held)
           /\ v.queue # <<>> /\ DecryptFails(Head(v.queue)) => Definitive(d, v, held)
<1>1. ASSUME NEW x \in Ancestors(d, held) \cup Foreign(d, held, Keyed), DecryptFails(x)
      PROVE  Definitive(d, v, held)
  <2>1. x \in Ancestors(d, Digest) \cup Foreign(d, Digest, Digest)
    BY ReachGrows, OptionsAssumption
  <2> QED
    BY <1>1, <2>1 DEF DecryptFails, Definitive
<1>2. v.nextAncestor \in Ancestors(d, held) \cup {NoDigest}
  BY DEF Trace, Reached
<1>3. v.queue # <<>> => Head(v.queue) \in Foreign(d, held, Keyed)
  <2>1. v.queue \in Seq(Digest)
    BY DEF Validation
  <2>2. v.queue # <<>> => Head(v.queue) \in Range(v.queue)
    BY <2>1, RangeHeadTail
  <2> QED
    BY <2>2 DEF Trace, Reached
<1> QED
  BY <1>1, <1>2, <1>3

\* A search that missed no block has seen all that any store could show it
\* with its keys, and with any keys if it missed none.
LEMMA ExhaustedIsUnsound ==
    ASSUME NEW d \in Digest, NEW v \in Validation, NEW held, Trace(d, v, held), Exhausted(v),
           v.ancestorGap = NoDigest, v.refsGap = NoDigest,
           NEW open, v.keyGap = NoDigest \/ open = Keyed,
           ~OpsDone(v, d), ~OpResolved(v, d), ~Resolved(v, d)
    PROVE  ~OperationsSound(d, Digest, open)
<1>1. \A x : Opened(v, x) /\ Legible(x, open) => Readable(x)
  BY DEF Opened, Legible, Readable
<1>2. \A x \in Ancestors(d, Digest) : Legible(x, open) => Definitions(x) \subseteq v.defs
  <2>1. PICK A \in SUBSET Digest : AncestorsFollowed(d, v, A)
    BY DEF Trace, Followed
  <2>2. /\ content[d].prev \in A \cup {NoDigest}
        /\ \A y \in A \cap Digest : content[y].prev \in A \cup {NoDigest}
    BY <2>1 DEF AncestorsFollowed, Exhausted
  <2>3. Ancestors(d, Digest) \subseteq A
    BY <2>2, AncestorsLeast
  <2> QED
    BY <1>1, <2>1, <2>3 DEF AncestorsFollowed
<1>3. \A x \in Foreign(d, Digest, open) : Legible(x, open) => Definitions(x) \subseteq v.defs
  <2>1. RefsFollowed(d, v) /\ Range(v.queue) = {} /\ v.visited \in SUBSET Digest
    BY DEF Trace, Followed, Exhausted, Range, Validation
  <2>2. /\ Range(Refs(d)) \subseteq v.visited
        /\ \A y \in v.visited \cap Digest :
              Legible(y, open) => Range(content[y].refs) \subseteq v.visited
    BY <1>1, <2>1 DEF RefsFollowed
  <2>3. Foreign(d, Digest, open) \subseteq v.visited
    BY <2>1, <2>2, ForeignLeast
  <2> QED
    BY <1>1, <2>1, <2>3 DEF RefsFollowed
<1>4. Below(d, Digest, open) \subseteq v.defs
  BY <1>2, <1>3 DEF Below, Sources
<1>5. v.op \in DOMAIN content[d].ops /\ Op(v, d) \in Operation
  <2>1. content[d].ops \in Seq(Operation) /\ v.op \in Nat \ {0}
    BY ContentType DEF Validation
  <2> QED
    BY <2>1 DEF OpsDone, Op
<1>6. v.ref \in DOMAIN Op(v, d).references /\ Wanted(v, d).entity \in Entity
  <2>1. Op(v, d).references \in Seq(Reference) /\ v.ref \in Nat \ {0}
    BY <1>5 DEF Operation, Validation
  <2>2. v.ref \in DOMAIN Op(v, d).references
    BY <2>1 DEF OpResolved
  <2>3. Wanted(v, d) \in Reference
    BY <2>1, <2>2 DEF Wanted
  <2> QED
    BY <2>2, <2>3 DEF Reference
<1>7. Wanted(v, d).entity \notin Below(d, Digest, open) \cup Created(d, v.op)
  <2>1. Wanted(v, d).entity \notin v.defs
    BY DEF Resolved
  <2>2. Created(d, v.op) \subseteq v.defs \cup {NoEntity}
    BY DEF Trace, Followed
  <2>3. Wanted(v, d).entity # NoEntity
    <3>1. \A x \in Entity : x # NoEntity
      BY ONLY NullsAssumption, Zenon
    <3> QED
      BY ONLY <1>6, <3>1, Zenon
  <2> QED
    BY <1>4, <2>1, <2>2, <2>3
<1> QED
  BY <1>5, <1>6, <1>7, Zenon DEF OperationsSound, Below, Created, Op, Wanted

\* A search that found no gap is final.
LEMMA ExhaustedIsDefinitive ==
    ASSUME NEW d \in Digest, NEW v \in Validation, NEW held, Trace(d, v, held),
           content[d].type # "private",
           Exhausted(v), ~Undecided(v), ~OpsDone(v, d), ~OpResolved(v, d), ~Resolved(v, d)
    PROVE  Definitive(d, v, held)
<1>1. v.ancestorGap = NoDigest /\ v.refsGap = NoDigest /\ v.keyGap = NoDigest
  BY DEF Undecided
<1>2. ~OperationsSound(d, Digest, Digest)
  BY <1>1, ExhaustedIsUnsound
<1> QED
  BY <1>2 DEF Definitive, Hopeless

\* What is hopeless stays so.
LEMMA HopelessStays ==
    ASSUME NEW d, NEW held, NEW more, held \subseteq more, NEW open, Hopeless(d, held, open)
    PROVE  Hopeless(d, more, open)
  BY DEF Hopeless, RefsSound

\* No complete store would accept it.
LEMMA HopelessIsUnsound ==
    ASSUME NEW d, NEW held \in SUBSET Digest, Hopeless(d, held, Digest)
    PROVE  ~Sound(d)
  BY DEF Hopeless, Sound, RefsSound

\* No rejection is due to the scan limit or to a garbled payload.
Plain == scanLimit < 0 /\ Garbled = {}
-----------------------------------------------------------------------------
\* What a goroutine can justify at each of its steps.
Justified(p) ==
    /\ pc[p] = "verdict" => content[block[p]].prev # NoDigest
    /\ pc[p] \in Linking \cup Checking => Trace(block[p], val[p], blocks)
    /\ pc[p] \in {"refs", "resolve"} => content[block[p]].type # "private"
    /\ pc[p] \in {"store", "record"} /\ adm[p].verdict = "valid" =>
            \/ content[block[p]].type = "private"
            \/ OperationsSound(block[p], blocks, Keyed)
    /\ pc[p] = "done" /\ adm[p].verdict = "invalid" => Definitive(block[p], val[p], blocks)

DecisionInv == TypeInv /\ \A p \in Proc : Justified(p)

\* It survives the growth of the store.
LEMMA JustifiedStable ==
    ASSUME TypeInv, NEW q \in Proc, Justified(q), blocks \subseteq blocks',
           pc'[q] = pc[q], block'[q] = block[q], val'[q] = val[q], adm'[q] = adm[q]
    PROVE  Justified(q)'
<1>1. pc[q] \in Linking \cup Checking \cup {"store", "record"} => block[q] \in Digest
  BY DEF TypeInv, InHand, Busy, PC, Linking, Checking
<1>2. pc[q] \in Linking \cup Checking => Trace(block[q], val[q], blocks')
  BY <1>1, TraceGrows DEF Justified
<1>3. pc[q] \in {"store", "record"} /\ adm[q].verdict = "valid" =>
            \/ content[block[q]].type = "private"
            \/ OperationsSound(block[q], blocks', Keyed)
  BY <1>1, OperationsStaySound DEF Justified
<1>4. Definitive(block[q], val[q], blocks) => Definitive(block[q], val[q], blocks')
  BY HopelessStays DEF Definitive
<1> QED
  BY <1>1, <1>2, <1>3, <1>4 DEF Justified

\* A step of p keeps DecisionInv if it keeps p's part of it.
LEMMA OwnDecision ==
    ASSUME DecisionInv, TypeInv', NEW p \in Proc, blocks \subseteq blocks',
           \A q \in Proc \ {p} : /\ pc'[q] = pc[q] /\ block'[q] = block[q]
                                 /\ val'[q] = val[q] /\ adm'[q] = adm[q],
           Justified(p)'
    PROVE  DecisionInv'
<1>1. \A q \in Proc : Justified(q)'
  BY JustifiedStable DEF DecisionInv
<1> QED
  BY <1>1 DEF DecisionInv

\* A decision needs its justification.
LEMMA DecideJustified ==
    ASSUME DecisionInv, TypeInv', NEW p \in Proc, NEW a \in Admission, Decide(p, a),
           a.verdict = "valid" /\ ~a.duplicate => OperationsSound(block[p], blocks, Keyed),
           a.verdict = "invalid" => Definitive(block[p], val[p], blocks)
    PROVE  DecisionInv'
<1>1. /\ pc' = [pc EXCEPT ![p] = IF a.verdict = "invalid" \/ a.duplicate THEN "done" ELSE "store"]
      /\ adm' = [adm EXCEPT ![p] = a]
      /\ UNCHANGED <<storeVars, block, val>>
  BY DEF Decide, Goto
<1>2. pc \in [Proc -> PC] /\ adm \in [Proc -> Admission]
  BY DEF DecisionInv, TypeInv, TypeOK
<1>3. UNCHANGED blocks
  BY <1>1 DEF storeVars, memVars
<1>4. Justified(p)'
  BY <1>1, <1>2, <1>3 DEF Justified, Linking, Checking
<1> QED
  BY <1>1, <1>2, <1>3, <1>4, OwnDecision

\* A validation moves on with its trace.
LEMMA ContinueJustified ==
    ASSUME DecisionInv, TypeInv', NEW p \in Proc, NEW l \in Linking \cup Checking,
           NEW v \in Validation, Continue(p, l, v), Trace(block[p], v, blocks),
           l = "verdict" => content[block[p]].prev # NoDigest,
           l \in {"refs", "resolve"} => content[block[p]].type # "private"
    PROVE  DecisionInv'
<1>1. /\ pc' = [pc EXCEPT ![p] = l]
      /\ val' = [val EXCEPT ![p] = v]
      /\ UNCHANGED <<storeVars, block, adm>>
  BY DEF Continue, Goto
<1>2. pc \in [Proc -> PC] /\ val \in [Proc -> Validation]
  BY DEF DecisionInv, TypeInv, TypeOK
<1>3. UNCHANGED blocks
  BY <1>1 DEF storeVars, memVars
<1>4. Justified(p)'
  BY <1>1, <1>2, <1>3 DEF Justified, Linking, Checking
<1> QED
  BY <1>1, <1>2, <1>3, <1>4, OwnDecision

\* Nothing is decided at the start.
LEMMA InitDecision == Init => DecisionInv
  BY InitType DEF Init, DecisionInv, Justified, Linking, Checking

\* The steps of admit up to the verdict.
LEMMA ValidateJustified ==
    ASSUME DecisionInv, TypeInv', NEW p \in Proc,
           LookupAccepted(p) \/ Lookup(p) \/ Validate(p)
    PROVE  DecisionInv'
<1> DEFINE d == block[p]
           v == val[p]
           prev == content[d].prev
<1>0. /\ pc[p] \in Busy => d \in Digest
      /\ v \in Validation /\ Justified(p) /\ TypeInv /\ blocks \in SUBSET Digest
  BY DEF DecisionInv, TypeInv, TypeOK, MemTypeOK, InHand
<1>c. /\ Linking = {"linkage", "verdict"}
      /\ Checking = {"siblings", "refs", "resolve"}
      /\ Linking \cup Checking \subseteq Busy
  BY DEF Linking, Checking, Busy, PC
<1>t. pc[p] \in Linking \cup Checking => d \in Digest /\ Trace(d, v, blocks)
  BY <1>0, <1>c DEF Justified
<1>f. ASSUME NEW n \in 0..10, Decide(p, Invalid(n)), Definitive(d, v, blocks)
      PROVE  DecisionInv'
  BY <1>f, ConstantsType, DecideJustified DEF Invalid, NoAdmission
<1>g. ASSUME NEW a \in Digest \cup {NoDigest}, NEW n \in 0..10, Decide(p, Pending(a, n))
      PROVE  DecisionInv'
  BY <1>g, ConstantsType, DecideJustified DEF Pending, NoAdmission
<1>v. ASSUME NEW l \in Linking \cup Checking, NEW w \in Validation, Continue(p, l, w),
             Trace(d, w, blocks), l = "verdict" => prev # NoDigest,
             l \in {"refs", "resolve"} => content[d].type # "private"
      PROVE  DecisionInv'
  BY <1>v, ContinueJustified
<1>1. CASE LookupAccepted(p)
  BY <1>1, ConstantsType, DecideJustified DEF LookupAccepted, Duplicate, NoAdmission
<1>2. CASE Lookup(p)
  <2>1. d \in Digest /\ Continue(p, "linkage", NewValidation(d))
    BY <1>0, <1>2 DEF Lookup, Busy, PC
  <2> QED
    BY <1>c, <1>v, <2>1, NewValidationType, TraceBegins
<1>3. CASE Linkage(p)
  <2>1. pc[p] \in Linking /\ d \in Digest /\ prev \in Digest \cup {NoDigest}
    BY <1>0, <1>c, <1>3, ContentType
       DEF Linkage, Genesis, PrevMissing, PrevHeld, PrevUnaccepted, PrevAccepted
  <2>2. CASE Genesis(p) \/ PrevHeld(p)
    <3>1. PrevHeld(p) => prev # NoDigest
      BY <1>0, NullsAssumption DEF PrevHeld
    <3> QED
      BY <1>0, <1>c, <1>t, <1>v, <2>1, <2>2, <3>1 DEF Genesis, PrevHeld
  <2>3. CASE PrevMissing(p) \/ PrevUnaccepted(p)
    BY <1>g, <2>1, <2>3 DEF PrevMissing, PrevUnaccepted
  <2>4. CASE PrevAccepted(p)
    <3>1. CASE Continue(p, "siblings", v)
      BY <1>0, <1>c, <1>t, <1>v, <2>1, <3>1
    <3>2. CASE /\ Decide(p, Invalid(3))
               /\ ~(SameAuthor(prev, d) /\ content[prev].type # "rotation")
      <4>1. prev # NoDigest
        BY <1>0, <2>4 DEF PrevAccepted, Justified
      <4> QED
        BY <1>f, <3>2, <4>1, BadPrevIsDefinitive
    <3> QED
      BY <2>4, <3>1, <3>2 DEF PrevAccepted
  <2> QED
    BY <1>3, <2>2, <2>3, <2>4 DEF Linkage
<1>4. CASE DetectFork(p)
  <2>1. PICK F : val' = [val EXCEPT ![p] = [v EXCEPT !.forks = F]]
    BY <1>4 DEF DetectFork
  <2>2. /\ pc[p] = "siblings" /\ d \in Digest
        /\ \/ /\ content[d].type # "private"
              /\ adm' = adm /\ pc' = [pc EXCEPT ![p] = "refs"]
           \/ /\ content[d].type = "private"
              /\ adm' = [adm EXCEPT ![p] = Valid] /\ pc' = [pc EXCEPT ![p] = "store"]
        /\ UNCHANGED <<storeVars, block>>
    BY <1>0, <1>c, <1>4 DEF DetectFork, Goto
  <2>3. pc \in [Proc -> PC] /\ adm \in [Proc -> Admission] /\ val \in [Proc -> Validation]
    BY <1>0 DEF TypeInv, TypeOK
  <2>4. UNCHANGED blocks
    BY <2>2 DEF storeVars, memVars
  <2>5. Trace(d, v, blocks)
    BY <1>c, <1>t, <2>2
  <2> DEFINE w == [v EXCEPT !.forks = F]
  <2>6. val'[p] = w
    BY <2>1, <2>3
  <2>7. /\ w.toCheck = v.toCheck /\ w.nextAncestor = v.nextAncestor /\ w.queue = v.queue
        /\ w.defs = v.defs /\ w.op = v.op /\ w.ref = v.ref /\ w.ancestorGap = v.ancestorGap
        /\ w.refsGap = v.refsGap /\ w.keyGap = v.keyGap /\ w.visited = v.visited
    BY <1>0 DEF Validation
  <2> HIDE DEF w
  <2>8. Trace(d, w, blocks)
    BY <2>5, <2>7, TraceCarries DEF Trace
  <2>9. Justified(p)'
    BY <1>c, <2>2, <2>3, <2>4, <2>6, <2>8, ConstantsType DEF Justified
  <2> QED
    BY <2>1, <2>2, <2>3, <2>4, <2>9, OwnDecision
<1>5. CASE References(p)
  <2>1. pc[p] = "refs" /\ d \in Digest /\ Trace(d, v, blocks) /\ content[d].type # "private"
    BY <1>0, <1>c, <1>t, <1>5 DEF Justified, References, CheckNextRef, AllRefsChecked
  <2>2. CASE CheckNextRef(p)
    <3> DEFINE x == Head(v.toCheck)
               w == CheckRef(v, blocks)
    <3>1. v.toCheck # <<>> /\ v.toCheck \in Seq(Digest)
      BY <1>0, <2>2 DEF CheckNextRef, RefsChecked, Validation
    <3>2. x \in Digest /\ x \in Range(v.toCheck) /\ Range(Tail(v.toCheck)) \subseteq Range(v.toCheck)
      BY <3>1, RangeHeadTail
    <3>3. x \in Range(Refs(d))
      BY <2>1, <3>2 DEF Trace
    <3>4. w \in Validation
      BY <1>0, <3>1, CheckRefType
    <3>5. /\ w.toCheck = Tail(v.toCheck) /\ w.nextAncestor = v.nextAncestor /\ w.queue = v.queue
          /\ w.defs = v.defs /\ w.op = v.op /\ w.ref = v.ref /\ w.ancestorGap = v.ancestorGap
          /\ w.refsGap = v.refsGap /\ w.keyGap = v.keyGap /\ w.visited = v.visited
      BY <1>0 DEF CheckRef, Validation
    <3>6. \/ Continue(p, "refs", w)
          \/ /\ x \in blocks /\ (BreaksRule6(d, x) \/ BreaksRule10(d, x))
             /\ \E n \in 0..10 : Decide(p, Invalid(n))
      BY <2>2 DEF CheckNextRef
    <3> HIDE DEF w, x
    <3>7. Trace(d, w, blocks)
      BY <2>1, <3>2, <3>5, TraceCarries DEF Trace
    <3> QED
      BY <1>c, <1>f, <1>v, <2>1, <3>2, <3>3, <3>4, <3>6, <3>7, BadRefIsDefinitive
  <2>3. CASE AllRefsChecked(p)
    BY <1>0, <1>c, <1>v, <2>1, <2>3 DEF AllRefsChecked
  <2> QED
    BY <1>5, <2>2, <2>3 DEF References
<1>6. CASE Resolve(p)
  <2>0. pc[p] = "resolve" /\ d \in Digest /\ Trace(d, v, blocks) /\ content[d].type # "private"
    BY <1>0, <1>c, <1>t, <1>6
       DEF Justified, Resolve, ResolveReference, SearchAncestors, SearchRefs, SearchFails, Searching,
           DefineOperation, AllResolved
  <2>v. ASSUME NEW w \in Validation, Continue(p, "resolve", w), Trace(d, w, blocks)
        PROVE  DecisionInv'
    BY <1>c, <1>v, <2>0, <2>v
  <2>1. CASE ResolveReference(p)
    <3> DEFINE w == [v EXCEPT !.ref = @ + 1]
    <3>1. w \in Validation
      <4>1. v.ref + 1 \in Nat \ {0}
        BY <1>0 DEF Validation
      <4> QED
        BY <1>0, <4>1 DEF Validation
    <3>2. /\ ~OpsDone(v, d) /\ ~OpResolved(v, d) /\ Resolved(v, d)
          /\ \/ kind[Wanted(v, d).entity] = Wanted(v, d).kind /\ Continue(p, "resolve", w)
             \/ kind[Wanted(v, d).entity] # Wanted(v, d).kind /\ Decide(p, Invalid(5))
      BY <2>1 DEF ResolveReference
    <3>3. w = [v EXCEPT !.ref = @ + 1]
      OBVIOUS
    <3> HIDE DEF w
    <3> QED
      BY <1>0, <1>f, <2>0, <2>v, <3>1, <3>2, <3>3, ReferenceTraced, BadOperationIsDefinitive
  <2>2. CASE SearchAncestors(p)
    <3> DEFINE x == v.nextAncestor
               w == ExtendAncestors(v, blocks)
    <3>1. /\ x # NoDigest
          /\ \/ DecryptFails(x) /\ Decide(p, Invalid(4))
             \/ Continue(p, "resolve", w)
      BY <2>2 DEF SearchAncestors
    <3>2. w \in Validation /\ Trace(d, w, blocks)
      BY <1>0, <2>0, <3>1, ExtendAncestorsType, AncestorTraced
    <3> HIDE DEF w
    <3>3. DecryptFails(x) => Definitive(d, v, blocks)
      BY <1>0, <2>0, <3>1, GarbledIsDefinitive
    <3> HIDE DEF x
    <3> QED
      BY <1>f, <2>v, <3>1, <3>2, <3>3
  <2>3. CASE SearchRefs(p)
    <3> DEFINE x == Head(v.queue)
               w == ExtendRefs(v, blocks)
    <3>1. /\ v.queue # <<>>
          /\ \/ AtScanLimit(v, blocks) /\ Decide(p, Invalid(4))
             \/ DecryptFails(x) /\ Decide(p, Invalid(4))
             \/ Continue(p, "resolve", w)
      BY <2>3 DEF SearchRefs
    <3>2. w \in Validation /\ Trace(d, w, blocks)
      BY <1>0, <2>0, <3>1, ExtendRefsType, RefTraced
    <3>3. DecryptFails(x) \/ AtScanLimit(v, blocks) => Definitive(d, v, blocks)
      BY <1>0, <2>0, <3>1, GarbledIsDefinitive, LimitIsDefinitive
    <3> HIDE DEF w, x
    <3> QED
      BY <1>f, <2>v, <3>1, <3>2, <3>3
  <2>4. CASE SearchFails(p)
    <3>1. AwaitedBlock(v) \in Digest \cup {NoDigest}
      BY <1>0 DEF AwaitedBlock, Gap, Validation
    <3>2. /\ Exhausted(v) /\ ~OpsDone(v, d) /\ ~OpResolved(v, d) /\ ~Resolved(v, d)
          /\ \/ Undecided(v) /\ Decide(p, Pending(AwaitedBlock(v), 4))
             \/ ~Undecided(v) /\ Decide(p, Invalid(4))
      BY <2>4 DEF SearchFails, Searching
    <3>3. ~Undecided(v) => Definitive(d, v, blocks)
      BY <1>0, <2>0, <3>2, ExhaustedIsDefinitive
    <3> QED
      BY <1>f, <1>g, <3>1, <3>2, <3>3
  <2>5. CASE DefineOperation(p)
    <3>1. /\ ~OpsDone(v, d) /\ OpResolved(v, d)
          /\ \/ Op(v, d).fits /\ Continue(p, "resolve", Define(v, d))
             \/ ~Op(v, d).fits /\ Decide(p, Invalid(5))
      BY <2>5 DEF DefineOperation
    <3>2. Define(v, d) \in Validation
      BY <1>0, <2>0, <3>1, DefineType
    <3> QED
      BY <1>0, <1>f, <2>0, <2>v, <3>1, <3>2, OperationTraced, BadOperationIsDefinitive
  <2>6. CASE AllResolved(p)
    <3>1. OperationsSound(d, blocks, Keyed)
      BY <1>0, <2>0, <2>6, AcceptanceJustified DEF AllResolved
    <3> QED
      BY <2>6, <3>1, ConstantsType, DecideJustified DEF AllResolved
  <2> QED
    BY <1>6, <2>1, <2>2, <2>3, <2>4, <2>5, <2>6 DEF Resolve
<1> QED
  BY <1>1, <1>2, <1>3, <1>4, <1>5, <1>6 DEF Validate

\* Storing adds a block, and keeps what justified the decision.
LEMMA StoreJustified ==
    ASSUME DecisionInv, TypeInv', NEW p \in Proc, Store(p)
    PROVE  DecisionInv'
<1>1. /\ pc \in [Proc -> PC] /\ Justified(p) /\ pc[p] = "store"
      /\ pc' = [pc EXCEPT ![p] = "record"]
      /\ UNCHANGED <<block, val, adm>>
      /\ blocks \subseteq blocks' /\ block[p] \in Digest
  BY DEF DecisionInv, TypeInv, TypeOK, InHand, Busy, PC, Store, Goto, Add, memVars
<1>2. OperationsSound(block[p], blocks, Keyed) => OperationsSound(block[p], blocks', Keyed)
  BY <1>1, OperationsStaySound
<1>3. Justified(p)'
  BY <1>1, <1>2 DEF Justified, Linking, Checking
<1> QED
  BY <1>1, <1>3, OwnDecision

\* Recording justifies nothing anew: no rejected block gets this far.
LEMMA RecordJustified ==
    ASSUME DecisionInv, TypeInv', NEW p \in Proc, Record(p)
    PROVE  DecisionInv'
<1>1. /\ pc \in [Proc -> PC] /\ pc[p] = "record" /\ adm[p].verdict # "invalid"
      /\ pc' = [pc EXCEPT ![p] = "done"]
      /\ UNCHANGED <<blocks, block, val, adm>>
  BY DEF DecisionInv, TypeInv, TypeOK, Undelivered, Decided, Record, Goto, memVars
<1>2. Justified(p)'
  BY <1>1 DEF Justified, Linking, Checking
<1> QED
  BY <1>1, <1>2, OwnDecision

\* The steps after an admission have nothing to justify.
LEMMA SettleJustified ==
    ASSUME DecisionInv, TypeInv', NEW p \in Proc,
           \/ AddReturns(p) \/ StartSettle(p) \/ WaiterAdmitted(p) \/ NextWaiter(p)
           \/ WaitersDone(p) \/ Settled(p) \/ Take(p) \/ \E d \in Digest : Offer(p, d)
    PROVE  DecisionInv'
<1>0. /\ pc \in [Proc -> PC] /\ block \in [Proc -> Digest \cup {NoDigest}]
      /\ val \in [Proc -> Validation] /\ adm \in [Proc -> Admission]
  BY DEF DecisionInv, TypeInv, TypeOK
<1>1. /\ UNCHANGED blocks
      /\ \A q \in Proc \ {p} : /\ pc'[q] = pc[q] /\ block'[q] = block[q]
                               /\ val'[q] = val[q] /\ adm'[q] = adm[q]
      /\ pc'[p] \in {"idle", "take", "waiters", "lookup"}
  <2>1. CASE AddReturns(p) \/ StartSettle(p) \/ WaiterAdmitted(p)
    BY <1>0, <2>1 DEF AddReturns, StartSettle, WaiterAdmitted, Leave, Goto, storeVars, memVars
  <2>2. CASE NextWaiter(p)
    BY <1>0, <2>2 DEF NextWaiter, Goto, storeVars, memVars
  <2>3. CASE WaitersDone(p) \/ Settled(p) \/ \E d \in Digest : Offer(p, d)
    BY <1>0, <2>3 DEF WaitersDone, Settled, Offer, Goto, storeVars, memVars
  <2>4. CASE Take(p)
    BY <1>0, <2>4 DEF Take, Goto, memVars
  <2> QED
    BY <2>1, <2>2, <2>3, <2>4
<1>2. Justified(p)'
  BY <1>1 DEF Justified, Linking, Checking
<1> QED
  BY <1>1, <1>2, OwnDecision

\* DecisionInv is inductive.
LEMMA DecisionStep == DecisionInv /\ [Next]_vars => DecisionInv'
<1> SUFFICES ASSUME DecisionInv, [Next]_vars PROVE DecisionInv'
  OBVIOUS
<1>1. TypeInv'
  BY StepType DEF DecisionInv
<1>2. CASE UNCHANGED vars
  <2>1. UNCHANGED <<blocks, pc, block, val, adm>>
    BY <1>2 DEF vars, storeVars, memVars, callVars
  <2>2. \A q \in Proc : Justified(q)'
    BY <2>1, JustifiedStable DEF DecisionInv
  <2> QED
    BY <1>1, <2>2 DEF DecisionInv
<1>3. ASSUME NEW p \in Proc, Step(p) \/ \E d \in Digest : Offer(p, d) PROVE DecisionInv'
  BY <1>1, <1>3, ValidateJustified, StoreJustified, RecordJustified, SettleJustified
     DEF Step, Admit, Settle
<1> QED
  BY <1>2, <1>3 DEF Next

\* Absence is not evidence, nor is a missing key: a validation (validate.go)
\* that overlaps any number of others returns a *RuleError only for a block
\* that no store could accept, whatever arrives later.
THEOREM RejectionsAreDefinitive == Spec => []RejectionIsDefinitive
<1>1. DecisionInv => RejectionIsDefinitive
  <2> SUFFICES ASSUME DecisionInv, NEW p \in Proc, pc[p] = "done", adm[p].verdict = "invalid",
                      Hopeless(block[p], blocks, Digest)
               PROVE  ~Sound(block[p])
    BY DEF RejectionIsDefinitive, DecisionInv, Justified, Definitive
  <2>1. blocks \in SUBSET Digest
    BY SMTT(30) DEF DecisionInv, TypeInv, TypeOK, MemTypeOK
  <2> QED
    BY <2>1, HopelessIsUnsound
<1> QED
  BY <1>1, InitDecision, DecisionStep, PTL DEF Spec

\* BlockReception's account of sound operations is the store's own.
LEMMA SameSoundness ==
    \A d, held : Reception!OperationsSound(d, held, Keyed) <=> OperationsSound(d, held, Keyed)
<1>1. \A first, step : Reception!Closure(first, step) = Closure(first, step)
  <2>1. \A S : Reception!Cardinality(S) = Cardinality(S)
    BY DEF Reception!Cardinality, Cardinality, Reception!IsFiniteSet, IsFiniteSet
  <2> QED
    BY <2>1 DEF Reception!Closure, Closure
<1>2. \A d, held : Reception!Ancestors(d, held) = Ancestors(d, held)
  BY <1>1 DEF Reception!Ancestors, Ancestors
<1>3. \A d, held : Reception!Foreign(d, held, Keyed) = Foreign(d, held, Keyed)
  BY <1>1 DEF Reception!Foreign, Foreign, Reception!Legible, Legible, Reception!Refs, Refs,
              Reception!Range, Range
<1>4. \A d, held : Reception!Sources(d, held, Keyed) = Sources(d, held, Keyed)
  BY <1>2, <1>3 DEF Reception!Sources, Sources, Reception!Legible, Legible
<1>5. \A x : Reception!Definitions(x) = Definitions(x)
  BY DEF Reception!Definitions, Definitions
<1> QED
  BY <1>4, <1>5 DEF Reception!OperationsSound, OperationsSound

\* A step of the store is a step of the two-set account, or stutters.
LEMMA ReceptionStep ==
    StoreInv /\ DecisionInv /\ [Next]_vars =>
        [\E d \in Digest : Reception!Keep(d) \/ Reception!Accept(d)]_<<blocks, accepted>>
<1> SUFFICES ASSUME StoreInv, DecisionInv, [Next]_vars
             PROVE  \/ \E d \in Digest : Reception!Keep(d) \/ Reception!Accept(d)
                    \/ UNCHANGED <<blocks, accepted>>
  OBVIOUS
<1>0. TypeInv
  BY DEF StoreInv
<1>1. ASSUME UNCHANGED storeVars PROVE UNCHANGED <<blocks, accepted>>
  BY <1>1 DEF storeVars, memVars, accepted, Accepted
<1>2. CASE UNCHANGED vars
  BY <1>1, <1>2 DEF vars
<1>3. ASSUME NEW p \in Proc, Quiet(p) PROVE UNCHANGED <<blocks, accepted>>
  BY <1>1, <1>3, QuietSteps
<1>4. ASSUME NEW p \in Proc, Store(p)
      PROVE  \/ \E d \in Digest : Reception!Keep(d)
             \/ UNCHANGED <<blocks, accepted>>
  <2>1. /\ block[p] \in Digest /\ UNCHANGED verdicts
        /\ blocks' = blocks \cup {block[p]} \/ UNCHANGED blocks
    BY <1>0, <1>4 DEF TypeInv, InHand, Busy, PC, Store, Add, memVars
  <2> QED
    BY <2>1 DEF Reception!Keep, accepted, Accepted
<1>5. ASSUME NEW p \in Proc, Record(p)
      PROVE  \/ \E d \in Digest : Reception!Accept(d)
             \/ UNCHANGED <<blocks, accepted>>
  <2> DEFINE d == block[p]
  <2>1. /\ d \in Digest /\ pc[p] = "record" /\ UNCHANGED blocks
        /\ verdicts \in [Digest -> Entry] /\ CallInv(p) /\ Justified(p)
    BY <1>0, <1>5 DEF TypeInv, TypeOK, InHand, Busy, PC, Record, memVars, StoreInv, DecisionInv
  <2>2. accepted' = accepted \/ (adm[p].verdict = "valid" /\ accepted' = accepted \cup {d})
    <3>1. CASE UNCHANGED verdicts
      BY <3>1 DEF accepted, Accepted
    <3>2. CASE verdicts' = [verdicts EXCEPT ![d] = EntryOf(p)] /\ ~Accepted(d)
      BY <2>1, <3>2 DEF accepted, Accepted, EntryOf
    <3> QED
      BY <1>5, <3>1, <3>2 DEF Record
  <2>3. ASSUME adm[p].verdict = "valid" PROVE Reception!MayBecomeValid(d)
    <3>1. d \in blocks /\ Based(d)
      BY <2>1, <2>3 DEF CallInv
    <3>2. content[d].type # "private" => OperationsSound(d, blocks, Keyed)
      BY <2>1, <2>3 DEF Justified
    <3>3. content[d].type # "private" => Reception!OperationsSound(d, blocks, Keyed)
      BY <3>2, SameSoundness
    <3> QED
      BY <3>1, <3>3 DEF Reception!MayBecomeValid, Based, Reception!PrevSound, PrevSound,
                        SameAuthor, Reception!SameAuthor
  <2> QED
    BY <2>1, <2>2, <2>3 DEF Reception!Accept
<1>6. ASSUME NEW p \in Proc, Take(p) PROVE UNCHANGED <<blocks, accepted>>
  BY <1>6 DEF Take, memVars, accepted, Accepted
<1>7. ASSUME NEW p \in Proc, Step(p) \/ \E d \in Digest : Offer(p, d)
      PROVE  \/ \E d \in Digest : Reception!Keep(d) \/ Reception!Accept(d)
             \/ UNCHANGED <<blocks, accepted>>
  BY <1>3, <1>4, <1>5, <1>6, <1>7, StepCases
<1> QED
  BY <1>2, <1>7 DEF Next

\* The concurrent store implements the two-set account of reception: admit
\* (verdict.go) accepts a block only when its predecessor is accepted and the
\* blocks held define all it references, and gives nothing back.
THEOREM StoreImplementsReception == Spec => ImplementsReception
<1>1. Init => Reception!ReceptionInit
  BY DEF Init, MemInit, Reception!ReceptionInit, accepted, Accepted, Unknown
<1> QED
  BY <1>1, InitStore, StoreStep, InitDecision, DecisionStep, ReceptionStep, PTL
     DEF Spec, ImplementsReception, Reception!Spec, Reception!receptionVars
-----------------------------------------------------------------------------
\* The blocks that refs lead to from x, readable or not.
Named(x) ==
    Closure(Range(content[x].refs),
            [S \in SUBSET Digest |-> S \cup UNION {Range(content[y].refs) : y \in S}])

\* They are the least set closed under refs.
LEMMA NamedLeast ==
    ASSUME NEW d \in Digest
    PROVE  /\ Named(d) \in SUBSET Digest
           /\ Range(content[d].refs) \subseteq Named(d)
           /\ \A y \in Named(d) : Range(content[y].refs) \subseteq Named(d)
           /\ \A S \in SUBSET Digest :
                 /\ Range(content[d].refs) \subseteq S
                 /\ \A y \in S : Range(content[y].refs) \subseteq S
                 => Named(d) \subseteq S
<1> DEFINE first == Range(content[d].refs)
           step == [S \in SUBSET Digest |-> S \cup UNION {Range(content[y].refs) : y \in S}]
           all == Named(d)
<1>1. all = Closure(first, step)
  BY DEF Named
<1>2. /\ first \in Digests
      /\ step \in [Digests -> Digests]
      /\ \A X \in Digests : X \subseteq step[X]
  BY ContentRefs DEF Digests
<1>3. /\ all \in Digests
      /\ first \subseteq all
      /\ step[all] = all
      /\ \A S \in Digests :
            first \subseteq S /\ (\A X \in Digests : X \subseteq S => step[X] \subseteq S) => all \subseteq S
  <2> HIDE DEF first, step, all
  <2> QED
    BY <1>1, <1>2, ClosureLeast
<1>4. \A S \in SUBSET Digest :
         /\ Range(content[d].refs) \subseteq S
         /\ \A y \in S : Range(content[y].refs) \subseteq S
         => first \subseteq S /\ \A X \in Digests : X \subseteq S => step[X] \subseteq S
  BY DEF Digests
<1>5. \A y \in all : Range(content[y].refs) \subseteq all
  BY <1>3 DEF Digests
<1> HIDE DEF step
<1> QED
  BY <1>3, <1>4, <1>5 DEF Digests

\* No block leads to itself: a digest is computed from the digests it names.
LEMMA NothingNamesItself ==
    ASSUME NEW d \in Digest
    PROVE  d \notin Named(d)
<1> SUFFICES ASSUME d \in Named(d) PROVE FALSE
  OBVIOUS
<1> DEFINE S == {y \in Named(d) : d \in Named(y)}
<1>1. S \in SUBSET Digest /\ d \in S
  BY NamedLeast
<1>2. PICK x \in S : Range(content[x].refs) \cap S = {}
  BY <1>1, HashesAreAcyclic
<1> DEFINE next == Range(content[x].refs)
           C == next \cup UNION {Named(y) : y \in next}
<1>3. x \in Digest /\ x \in Named(d) /\ d \in Named(x)
  BY <1>1
<1>4. next \subseteq Digest /\ next \subseteq Named(d) /\ next \cap S = {}
  BY <1>2, <1>3, ContentRefs, NamedLeast
<1>5. \A y \in next : d \notin Named(y)
  BY <1>4
<1>6. d \notin next
  BY <1>1, <1>4
<1>7. C \in SUBSET Digest /\ Range(content[x].refs) \subseteq C
  BY <1>4, NamedLeast
<1>8. ASSUME NEW z \in C PROVE Range(content[z].refs) \subseteq C
  <2>1. CASE z \in next
    BY <1>4, <2>1, NamedLeast
  <2>2. ASSUME NEW y \in next, z \in Named(y) PROVE Range(content[z].refs) \subseteq C
    BY <1>4, <2>2, NamedLeast
  <2> QED
    BY <2>1, <2>2
<1> HIDE DEF C
<1>9. Named(x) \subseteq C
  BY <1>3, <1>7, <1>8, NamedLeast
<1> QED
  BY <1>3, <1>5, <1>6, <1>9 DEF C

\* What the search of refs can reach is among them.
LEMMA ForeignIsNamed ==
    ASSUME NEW d \in Digest, NEW held, NEW open
    PROVE  Foreign(d, held, open) \subseteq Named(d)
<1>1. Range(Refs(d)) \subseteq Named(d)
  BY NamedLeast DEF Refs, Range
<1> QED
  BY <1>1, NamedLeast, ForeignLeast
-----------------------------------------------------------------------------
\* The count of the scan limit is right, and within the limit.
CountRight(v, held) ==
    /\ v.scanned = Cardinality(v.visited \cap held)
    /\ scanLimit >= 0 => v.scanned <= scanLimit

\* With one caller: its count is right and has not met the block at hand.
Alone(p) ==
    /\ CountRight(val[p], blocks)
    /\ pc[p] \in Linking \cup Checking \cup {"store"} => val[p].visited \subseteq Named(block[p])

OneInv == \A p \in Proc : Alone(p)
-----------------------------------------------------------------------------
\* The entry of the queue at hand is counted if it is held and new.
LEMMA RefCounted ==
    ASSUME NEW d \in Digest, NEW v \in Validation, NEW held \in SUBSET Digest,
           v.queue # <<>>, Range(v.queue) \subseteq Named(d), v.visited \subseteq Named(d),
           CountRight(v, held), ~AtScanLimit(v, held)
    PROVE  /\ ExtendRefs(v, held).visited \subseteq Named(d)
           /\ CountRight(ExtendRefs(v, held), held)
<1> DEFINE x == Head(v.queue)
           w == ExtendRefs(v, held)
           old == v.visited \cap held
           new == w.visited \cap held
<1>1. x \in Digest /\ x \in Range(v.queue)
  <2>1. v.queue \in Seq(Digest)
    BY DEF Validation
  <2> QED
    BY <2>1, RangeHeadTail
<1>2. w.visited = v.visited \cup {x}
  BY DEF ExtendRefs, Scan, Validation
<1>3. \/ x \in old /\ w.scanned = v.scanned
      \/ x \notin held /\ w.scanned = v.scanned
      \/ x \notin v.visited /\ x \in held /\ w.scanned = v.scanned + 1
  <2>1. CASE x \in v.visited
    BY <2>1 DEF ExtendRefs, Validation
  <2>2. CASE x \notin v.visited /\ x \notin held
    BY <2>2 DEF ExtendRefs, Validation
  <2>3. CASE x \notin v.visited /\ x \in held
    BY <2>3 DEF ExtendRefs, Scan, Validation
  <2> QED
    BY <2>1, <2>2, <2>3
<1>4. IsFiniteSet(old) /\ Cardinality(old) \in Nat
  BY DigestsAreFinite, FS_Subset, FS_CardinalityType
<1>5. scanLimit \in Int /\ v.scanned \in Nat
  BY OptionsAssumption DEF scanLimit, DefaultScanLimit, Validation
<1>6. w.visited \subseteq Named(d)
  BY <1>1, <1>2
<1> HIDE DEF w, x
<1>7. CASE w.scanned = v.scanned /\ new = old
  BY <1>6, <1>7 DEF CountRight, w
<1>8. CASE x \notin v.visited /\ x \in held /\ w.scanned = v.scanned + 1
  <2>1. new = old \cup {x} /\ x \notin old
    BY <1>2, <1>8
  <2>2. Cardinality(new) = Cardinality(old) + 1
    BY <1>4, <2>1, FS_AddElement
  <2>3. scanLimit >= 0 => v.scanned < scanLimit
    BY <1>5, <1>8 DEF AtScanLimit, x
  <2>4. w.scanned = Cardinality(new) /\ (scanLimit >= 0 => w.scanned <= scanLimit)
    BY <1>4, <1>5, <1>8, <2>2, <2>3 DEF CountRight
  <2> QED
    BY <1>6, <2>4 DEF CountRight, w
<1> QED
  BY <1>2, <1>3, <1>7, <1>8

\* The other turns count nothing.
LEMMA TurnsCountNothing ==
    ASSUME NEW v \in Validation, NEW d, NEW held
    PROVE  \A w \in {CheckRef(v, held), ExtendAncestors(v, held), Define(v, d),
                       [v EXCEPT !.ref = @ + 1]} :
                w.visited = v.visited /\ w.scanned = v.scanned
<1>1. CheckRef(v, held).visited = v.visited /\ CheckRef(v, held).scanned = v.scanned
  BY DEF CheckRef, Validation
<1>2. /\ ExtendAncestors(v, held).visited = v.visited
      /\ ExtendAncestors(v, held).scanned = v.scanned
  BY DEF ExtendAncestors, Validation
<1>3. Define(v, d).visited = v.visited /\ Define(v, d).scanned = v.scanned
  BY DEF Define, Validation
<1>4. /\ [v EXCEPT !.ref = @ + 1].visited = v.visited
      /\ [v EXCEPT !.ref = @ + 1].scanned = v.scanned
  BY DEF Validation
<1> QED
  BY <1>1, <1>2, <1>3, <1>4

\* A decision counts nothing.
LEMMA DecideAlone ==
    ASSUME TypeInv, NEW p \in Proc, Alone(p), NEW a \in Admission, Decide(p, a),
           pc[p] \in Linking \cup Checking \/ a.duplicate
    PROVE  Alone(p)'
<1>1. /\ pc' = [pc EXCEPT ![p] = IF a.verdict = "invalid" \/ a.duplicate THEN "done" ELSE "store"]
      /\ UNCHANGED <<storeVars, block, val>>
  BY DEF Decide, Goto
<1>2. pc \in [Proc -> PC]
  BY DEF TypeInv, TypeOK
<1>3. UNCHANGED blocks
  BY <1>1 DEF storeVars, memVars
<1> QED
  BY <1>1, <1>2, <1>3 DEF Alone, Linking, Checking

\* A validation moves on with its count.
LEMMA ContinueAlone ==
    ASSUME TypeInv, NEW p \in Proc, NEW l \in Linking \cup Checking,
           NEW v \in Validation, Continue(p, l, v),
           CountRight(v, blocks), v.visited \subseteq Named(block[p])
    PROVE  Alone(p)'
<1>1. /\ pc' = [pc EXCEPT ![p] = l]
      /\ val' = [val EXCEPT ![p] = v]
      /\ UNCHANGED <<storeVars, block>>
  BY DEF Continue, Goto
<1>2. pc \in [Proc -> PC] /\ val \in [Proc -> Validation]
  BY DEF TypeInv, TypeOK
<1>3. UNCHANGED blocks
  BY <1>1 DEF storeVars, memVars
<1> QED
  BY <1>1, <1>2, <1>3 DEF Alone, Linking, Checking

\* Nothing is held or counted at the start.
LEMMA InitOne == Init => OneInv
<1> SUFFICES ASSUME Init, NEW p \in Proc PROVE Alone(p)
  BY DEF OneInv
<1>1. pc[p] = "idle" /\ val[p].visited = {} /\ val[p].scanned = 0
  BY DEF Init, NoValidation
<1>2. Cardinality(val[p].visited \cap blocks) = 0
  BY <1>1, FS_EmptySet
<1>3. scanLimit \in Int
  BY OptionsAssumption DEF scanLimit, DefaultScanLimit
<1> QED
  BY <1>1, <1>2, <1>3 DEF Alone, CountRight, Linking, Checking

\* The steps of admit up to the verdict.
LEMMA ValidateAlone ==
    ASSUME StoreInv, DecisionInv, OneInv, NEW p \in Proc,
           LookupAccepted(p) \/ Lookup(p) \/ Validate(p)
    PROVE  Alone(p)'
<1> DEFINE d == block[p]
           v == val[p]
           prev == content[d].prev
<1>0. /\ pc[p] \in Busy => d \in Digest
      /\ v \in Validation /\ Alone(p) /\ Justified(p) /\ TypeInv /\ blocks \in SUBSET Digest
  BY DEF StoreInv, DecisionInv, OneInv, TypeInv, TypeOK, MemTypeOK, InHand
<1>c. /\ Linking = {"linkage", "verdict"}
      /\ Checking = {"siblings", "refs", "resolve"}
      /\ Linking \cup Checking \subseteq Busy
  BY DEF Linking, Checking, Busy, PC
<1>t. /\ CountRight(v, blocks)
      /\ pc[p] \in Linking \cup Checking => d \in Digest /\ v.visited \subseteq Named(d)
  BY <1>0, <1>c DEF Alone
<1>f. ASSUME NEW n \in 0..10, Decide(p, Invalid(n)), pc[p] \in Linking \cup Checking
      PROVE  Alone(p)'
  BY <1>0, <1>f, ConstantsType, DecideAlone DEF Invalid, NoAdmission
<1>g. ASSUME NEW a \in Digest \cup {NoDigest}, NEW n \in 0..10, Decide(p, Pending(a, n)),
             pc[p] \in Linking \cup Checking
      PROVE  Alone(p)'
  BY <1>0, <1>g, ConstantsType, DecideAlone DEF Pending, NoAdmission
<1>v. ASSUME NEW l \in Linking \cup Checking, NEW w \in Validation, Continue(p, l, w),
             pc[p] \in Linking \cup Checking,
             w.visited = v.visited, w.scanned = v.scanned
      PROVE  Alone(p)'
  BY <1>0, <1>t, <1>v, ContinueAlone DEF CountRight
<1>1. CASE LookupAccepted(p)
  BY <1>0, <1>1, ConstantsType, DecideAlone DEF LookupAccepted, Duplicate, NoAdmission
<1>2. CASE Lookup(p)
  <2> DEFINE w == NewValidation(d)
  <2>1. d \in Digest /\ Continue(p, "linkage", w) /\ w \in Validation
    BY <1>0, <1>2, NewValidationType DEF Lookup, Busy, PC
  <2>2. w.visited = {} /\ w.scanned = 0
    BY DEF NewValidation, NoValidation
  <2>3. CountRight(w, blocks)
    <3>1. Cardinality(w.visited \cap blocks) = 0
      BY <2>2, FS_EmptySet
    <3>2. scanLimit \in Int
      BY OptionsAssumption DEF scanLimit, DefaultScanLimit
    <3> QED
      BY <2>2, <3>1, <3>2 DEF CountRight
  <2> HIDE DEF w
  <2> QED
    BY <1>0, <1>c, <2>1, <2>2, <2>3, ContinueAlone
<1>3. CASE Linkage(p)
  <2>1. pc[p] \in Linking /\ d \in Digest /\ prev \in Digest \cup {NoDigest}
    BY <1>0, <1>c, <1>3, ContentType
       DEF Linkage, Genesis, PrevMissing, PrevHeld, PrevUnaccepted, PrevAccepted
  <2> QED
    BY <1>0, <1>c, <1>3, <1>f, <1>g, <1>v, <2>1
       DEF Linkage, Genesis, PrevMissing, PrevHeld, PrevUnaccepted, PrevAccepted
<1>4. CASE DetectFork(p)
  <2> DEFINE F == Range(BlocksWithPrev(content[d].pub, content[d].prev)) \ {d}
  <2>1. val' = [val EXCEPT ![p] = [v EXCEPT !.forks = F]]
    BY <1>4 DEF DetectFork
  <2>2. /\ pc[p] = "siblings" /\ d \in Digest
        /\ pc' = [pc EXCEPT ![p] = "refs"] \/ pc' = [pc EXCEPT ![p] = "store"]
        /\ UNCHANGED <<blocks, block>>
    BY <1>0, <1>c, <1>4 DEF DetectFork, Goto, storeVars, memVars
  <2>3. pc \in [Proc -> PC] /\ val \in [Proc -> Validation]
    BY <1>0 DEF TypeInv, TypeOK
  <2> HIDE DEF F
  <2>4. val'[p].visited = v.visited /\ val'[p].scanned = v.scanned
    BY <1>0, <2>1, <2>3 DEF Validation
  <2>5. v.visited \subseteq Named(d)
    BY <1>c, <1>t, <2>2
  <2> QED
    BY <1>c, <1>t, <2>2, <2>3, <2>4, <2>5 DEF Alone, CountRight
<1>5. CASE References(p)
  <2>1. pc[p] = "refs"
    BY <1>5 DEF References, CheckNextRef, AllRefsChecked
  <2>2. CASE CheckNextRef(p)
    <3> DEFINE w == CheckRef(v, blocks)
    <3>1. v.toCheck # <<>> /\ w \in Validation
      BY <1>0, <2>2, CheckRefType DEF CheckNextRef, RefsChecked
    <3>2. w.visited = v.visited /\ w.scanned = v.scanned
      BY <1>0, TurnsCountNothing
    <3>3. Continue(p, "refs", w) \/ \E n \in 0..10 : Decide(p, Invalid(n))
      BY <2>2 DEF CheckNextRef
    <3> HIDE DEF w
    <3> QED
      BY <1>c, <1>f, <1>v, <2>1, <3>1, <3>2, <3>3
  <2>3. CASE AllRefsChecked(p)
    BY <1>0, <1>c, <1>v, <2>1, <2>3 DEF AllRefsChecked
  <2> QED
    BY <1>5, <2>2, <2>3 DEF References
<1>6. CASE Resolve(p)
  <2>0. pc[p] = "resolve" /\ d \in Digest
    BY <1>c, <1>t, <1>6
       DEF Resolve, ResolveReference, SearchAncestors, SearchRefs, SearchFails, Searching,
           DefineOperation, AllResolved
  <2>1. CASE ResolveReference(p)
    <3> DEFINE w == [v EXCEPT !.ref = @ + 1]
    <3>1. w \in Validation
      <4>1. v.ref + 1 \in Nat \ {0}
        BY <1>0 DEF Validation
      <4> QED
        BY <1>0, <4>1 DEF Validation
    <3>2. w.visited = v.visited /\ w.scanned = v.scanned
      BY <1>0, TurnsCountNothing
    <3>3. Continue(p, "resolve", w) \/ Decide(p, Invalid(5))
      BY <2>1 DEF ResolveReference
    <3> HIDE DEF w
    <3> QED
      BY <1>c, <1>f, <1>v, <2>0, <3>1, <3>2, <3>3
  <2>2. CASE SearchAncestors(p)
    <3> DEFINE w == ExtendAncestors(v, blocks)
    <3>1. w \in Validation
      BY <1>0, <2>2, ExtendAncestorsType DEF SearchAncestors
    <3>2. w.visited = v.visited /\ w.scanned = v.scanned
      BY <1>0, TurnsCountNothing
    <3>3. Continue(p, "resolve", w) \/ Decide(p, Invalid(4))
      BY <2>2 DEF SearchAncestors
    <3> HIDE DEF w
    <3> QED
      BY <1>c, <1>f, <1>v, <2>0, <3>1, <3>2, <3>3
  <2>3. CASE SearchRefs(p)
    <3> DEFINE w == ExtendRefs(v, blocks)
    <3>1. /\ v.queue # <<>>
          /\ \/ Decide(p, Invalid(4))
             \/ Continue(p, "resolve", w) /\ ~AtScanLimit(v, blocks)
      BY <2>3 DEF SearchRefs
    <3>2. w \in Validation
      BY <1>0, <3>1, ExtendRefsType
    <3>3. Range(v.queue) \subseteq Named(d)
      BY <1>0, <1>c, <2>0, ForeignIsNamed DEF Justified, Trace, Reached
    <3>4. ~AtScanLimit(v, blocks) => w.visited \subseteq Named(d) /\ CountRight(w, blocks)
      BY <1>0, <1>c, <1>t, <2>0, <3>1, <3>3, RefCounted
    <3> HIDE DEF w
    <3> QED
      BY <1>0, <1>c, <1>f, <1>t, <2>0, <3>1, <3>2, <3>4, ContinueAlone
  <2>4. CASE SearchFails(p)
    <3>1. AwaitedBlock(v) \in Digest \cup {NoDigest}
      BY <1>0 DEF AwaitedBlock, Gap, Validation
    <3> QED
      BY <1>c, <1>f, <1>g, <2>0, <2>4, <3>1 DEF SearchFails
  <2>5. CASE DefineOperation(p)
    <3> DEFINE w == Define(v, d)
    <3>1. w \in Validation
      BY <1>0, <2>0, <2>5, DefineType DEF DefineOperation
    <3>2. w.visited = v.visited /\ w.scanned = v.scanned
      BY <1>0, TurnsCountNothing
    <3>3. Continue(p, "resolve", w) \/ Decide(p, Invalid(5))
      BY <2>5 DEF DefineOperation
    <3> HIDE DEF w
    <3> QED
      BY <1>c, <1>f, <1>v, <2>0, <3>1, <3>2, <3>3
  <2>6. CASE AllResolved(p)
    BY <1>0, <1>c, <1>t, <2>0, <2>6, ConstantsType, DecideAlone DEF AllResolved
  <2> QED
    BY <1>6, <2>1, <2>2, <2>3, <2>4, <2>5, <2>6 DEF Resolve
<1> QED
  BY <1>1, <1>2, <1>3, <1>4, <1>5, <1>6 DEF Validate

\* The block stored is none of those its own validation counted.
LEMMA StoreAlone ==
    ASSUME StoreInv, OneInv, NEW p \in Proc, Store(p)
    PROVE  Alone(p)'
<1> DEFINE d == block[p]
           v == val[p]
<1>0. /\ pc[p] = "store" /\ d \in Digest /\ MemTypeOK /\ Alone(p)
      /\ pc' = [pc EXCEPT ![p] = "record"] /\ pc \in [Proc -> PC]
      /\ Add(d) /\ UNCHANGED <<block, val>>
  BY DEF StoreInv, OneInv, TypeInv, TypeOK, InHand, Busy, PC, Store, Goto
<1>1. blocks' = blocks \cup {d}
  BY <1>0, AddType
<1>2. d \notin v.visited
  BY <1>0, NothingNamesItself DEF Alone
<1>3. v.visited \cap blocks' = v.visited \cap blocks
  BY <1>1, <1>2
<1> QED
  BY <1>0, <1>1, <1>3 DEF Alone, CountRight, Linking, Checking

\* Recording a verdict counts nothing.
LEMMA RecordAlone ==
    ASSUME StoreInv, OneInv, NEW p \in Proc, Record(p)
    PROVE  Alone(p)'
<1>0. /\ pc[p] = "record" /\ Alone(p)
      /\ pc' = [pc EXCEPT ![p] = "done"] /\ pc \in [Proc -> PC]
      /\ UNCHANGED <<blocks, block, val>>
  BY DEF StoreInv, OneInv, TypeInv, TypeOK, Record, Goto, memVars
<1> QED
  BY <1>0 DEF Alone, CountRight, Linking, Checking

\* After an admission the counts are kept, or cleared with the validation.
LEMMA SettleAlone ==
    ASSUME StoreInv, OneInv, NEW p \in Proc,
           \/ AddReturns(p) \/ StartSettle(p) \/ WaiterAdmitted(p) \/ NextWaiter(p)
           \/ WaitersDone(p) \/ Settled(p) \/ Take(p) \/ \E d \in Digest : Offer(p, d)
    PROVE  Alone(p)'
<1>0. /\ pc \in [Proc -> PC] /\ val \in [Proc -> Validation] /\ Alone(p)
  BY DEF StoreInv, OneInv, TypeInv, TypeOK
<1>1. /\ UNCHANGED blocks
      /\ val'[p] = val[p] \/ val'[p] = NoValidation
      /\ pc'[p] \in {"idle", "take", "waiters", "lookup"}
  <2>1. CASE AddReturns(p) \/ StartSettle(p) \/ WaiterAdmitted(p)
    BY <1>0, <2>1 DEF AddReturns, StartSettle, WaiterAdmitted, Leave, Goto, storeVars, memVars
  <2>2. CASE NextWaiter(p)
    BY <1>0, <2>2 DEF NextWaiter, Goto, storeVars, memVars
  <2>3. CASE WaitersDone(p) \/ Settled(p) \/ \E d \in Digest : Offer(p, d)
    BY <1>0, <2>3 DEF WaitersDone, Settled, Offer, Goto, storeVars, memVars
  <2>4. CASE Take(p)
    BY <1>0, <2>4 DEF Take, Goto, memVars
  <2> QED
    BY <2>1, <2>2, <2>3, <2>4
<1>2. CountRight(NoValidation, blocks)
  <2>1. Cardinality(NoValidation.visited \cap blocks) = 0 /\ NoValidation.scanned = 0
    BY FS_EmptySet DEF NoValidation
  <2>2. scanLimit \in Int
    BY OptionsAssumption DEF scanLimit, DefaultScanLimit
  <2> QED
    BY <2>1, <2>2 DEF CountRight
<1> QED
  BY <1>0, <1>1, <1>2 DEF Alone, CountRight, Linking, Checking

\* OneInv is inductive when there is one caller.
LEMMA OneStep ==
    ASSUME \A p, q \in Proc : p = q
    PROVE  StoreInv /\ DecisionInv /\ OneInv /\ [Next]_vars => OneInv'
<1> SUFFICES ASSUME StoreInv, DecisionInv, OneInv, [Next]_vars PROVE OneInv'
  OBVIOUS
<1>1. CASE UNCHANGED vars
  <2>1. UNCHANGED <<blocks, pc, block, val>>
    BY <1>1 DEF vars, storeVars, memVars, callVars
  <2> QED
    BY <2>1 DEF OneInv, Alone, CountRight, Linking, Checking
<1>2. ASSUME NEW p \in Proc, Step(p) \/ \E d \in Digest : Offer(p, d) PROVE OneInv'
  <2>1. Alone(p)'
    BY <1>2, ValidateAlone, StoreAlone, RecordAlone, SettleAlone DEF Step, Admit, Settle
  <2> QED
    BY <2>1 DEF OneInv
<1> QED
  BY <1>1, <1>2 DEF Next

\* With one caller, the limit on the search of foreign blocks (resolver.go)
\* counts each held block once and is never exceeded.
THEOREM ScansAreCounted ==
    ASSUME \A p, q \in Proc : p = q
    PROVE  Spec => []ScanCount
<1>1. OneInv => ScanCount
  BY DEF OneInv, Alone, CountRight, ScanCount
<1> QED
  BY <1>1, InitStore, StoreStep, InitDecision, DecisionStep, InitOne, OneStep, PTL DEF Spec
=============================================================================
