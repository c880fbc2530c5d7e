------------------------------ MODULE SyncProofs ------------------------------
(***************************************************************************)
(* Proofs that a sync reports no more than it did: a tip it says it        *)
(* reached is held (TipIsReached), a block it says was rejected was shown  *)
(* wrong (RejectedIsUnsound), and the position it keeps for a source has   *)
(* no gap behind it (ResumeCoversTheChain).                                *)
(*                                                                         *)
(* The call hands blocks to the store and the store answers later, while   *)
(* other goroutines use it.  So SyncInv speaks of the store through two    *)
(* sets only, Answered and Covered, and both only grow (AnswersGrow).  What *)
(* remains is about the call alone: CallOk says what it has established    *)
(* at each of its steps, and each step is looked at once.                  *)
(*                                                                         *)
(* That every fork the sources expose is found (ExposedForksAreFound) is   *)
(* not true of any sources and any caller; it is proved for those that can *)
(* be relied on (Dependable).  A fork may lie anywhere on a chain, so the  *)
(* invariant is that no held block of a synced author has a gap behind it  *)
(* (NoGaps): blocks reach the store oldest first (InSequence), and where   *)
(* the call is cut short it does not hand over the rest.                   *)
(***************************************************************************)
EXTENDS Sync, ValidatingStoreProofs

LOCAL INSTANCE SequencesExt

\* The last of a run of blocks is one of them.
LEMMA LastOf ==
    ASSUME NEW T, NEW s \in Seq(T), s # <<>>
    PROVE  Last(s) = s[Len(s)] /\ Last(s) \in T /\ Last(s) \in Range(s) /\ Len(s) \in Nat \ {0}
  BY DEF Last, Range

\* A sequence turned round lists the same.
LEMMA ReverseOf ==
    ASSUME NEW T, NEW s \in Seq(T)
    PROVE  Reverse(s) \in Seq(T) /\ Len(Reverse(s)) = Len(s) /\ Range(Reverse(s)) = Range(s)
<1> DEFINE r == Reverse(s)
<1>1. Len(s) \in Nat /\ DOMAIN s = 1..Len(s) /\ \A i \in 1..Len(s) : s[i] \in T
  OBVIOUS
<1>2. r = [i \in 1..Len(s) |-> s[(Len(s) - i) + 1]]
  BY DEF Reverse
<1>3. \A i \in 1..Len(s) : (Len(s) - i) + 1 \in 1..Len(s) /\ (Len(s) - ((Len(s) - i) + 1)) + 1 = i
  BY <1>1
<1>4. r \in Seq(T) /\ Len(r) = Len(s)
  BY <1>1, <1>2, <1>3
<1>5. Range(r) \subseteq Range(s)
  BY <1>1, <1>2, <1>3 DEF Range
<1>6. Range(s) \subseteq Range(r)
  <2>1. ASSUME NEW i \in 1..Len(s) PROVE \E j \in DOMAIN r : s[i] = r[j]
    <3> DEFINE j == (Len(s) - i) + 1
    <3>1. j \in 1..Len(s) /\ (Len(s) - j) + 1 = i
      BY <1>1, <1>3
    <3>2. r[j] = s[(Len(s) - j) + 1] /\ DOMAIN r = 1..Len(s)
      BY <1>2, <3>1
    <3> QED
      BY <3>1, <3>2
  <2> QED
    BY <1>1, <2>1 DEF Range
<1> QED
  BY <1>4, <1>5, <1>6

\* Rows laid end to end are a sequence, empty only if the rows are.
LEMMA FlattenType ==
    ASSUME NEW T, NEW rows \in Seq(Seq(T)), rows # <<>>
    PROVE  /\ FlattenSeq(rows) \in Seq(T)
           /\ rows[1] # <<>> => FlattenSeq(rows) # <<>>
<1> DEFINE k == Len(rows)
           U == Seq(T)
           Shape(f) == [i \in 1..k |-> IF i = 1 THEN rows[i] ELSE f[i - 1] \o rows[i]]
           flatten == CHOOSE f : f = Shape(f)
           none == <<>>
           step == [n \in 1..k |-> [t \in U |-> IF n = 1 THEN rows[n] ELSE t \o rows[n]]]
<1>1. k \in Nat /\ k # 0 /\ \A n \in 1..k : rows[n] \in U
  OBVIOUS
<1>2. step \in Turns(k, U)
  <2>1. ASSUME NEW n \in 1..k, NEW t \in U
        PROVE  (IF n = 1 THEN rows[n] ELSE t \o rows[n]) \in U
    BY <1>1
  <2> HIDE DEF U, k
  <2> QED
    BY <2>1 DEF Turns
<1>3. none \in U
  OBVIOUS
<1>4. PICK f \in [0..k -> U] : f[0] = none /\ \A n \in 1..k : f[n] = step[n][f[n - 1]]
  <2>1. k \in Nat
    BY <1>1
  <2> HIDE DEF U, step, k, none
  <2> QED
    BY ONLY <2>1, <1>2, <1>3, RecursionTo
<1>5. \A n \in 1..k : f[n] = IF n = 1 THEN rows[n] ELSE f[n - 1] \o rows[n]
  <2>1. \A n \in 1..k : n - 1 \in 0..k
    BY <1>1
  <2>2. \A n \in 1..k, t \in U : step[n][t] = IF n = 1 THEN rows[n] ELSE t \o rows[n]
    OBVIOUS
  <2> HIDE DEF U, k, step
  <2> QED
    BY <1>4, <2>1, <2>2
<1> DEFINE g == [i \in 1..k |-> f[i]]
<1>6. g = Shape(g)
  <2>1. \A n \in 1..k : n # 1 => n - 1 \in 1..k
    BY <1>1
  <2> HIDE DEF U, step, k
  <2> QED
    BY <1>5, <2>1
<1>7. flatten = Shape(flatten)
  <2> HIDE DEF g, Shape
  <2> QED
    BY <1>6
<1>8. FlattenSeq(rows) = flatten[k]
  BY <1>1 DEF FlattenSeq
<1> HIDE DEF flatten
<1>9. \A i \in 1..k : flatten[i] = IF i = 1 THEN rows[i] ELSE flatten[i - 1] \o rows[i]
  BY <1>7
<1> DEFINE R == {0} \cup {n \in 1..k : flatten[n] \in U /\ (rows[1] # <<>> => flatten[n] # <<>>)}
<1>10. 0 \in R
  OBVIOUS
<1>11. ASSUME NEW n \in 1..k, n - 1 \in R PROVE n \in R
  <2>1. CASE n = 1
    BY <1>1, <1>9, <2>1
  <2>2. CASE n # 1
    <3>1. n - 1 \in 1..k
      BY <1>1, <2>2
    <3>2. flatten[n - 1] \in U /\ (rows[1] # <<>> => flatten[n - 1] # <<>>) /\ rows[n] \in U
      BY <1>1, <1>11, <3>1
    <3>3. flatten[n] = flatten[n - 1] \o rows[n]
      BY <1>9, <2>2
    <3>4. \A a \in Seq(T), b \in Seq(T) : a \o b \in Seq(T) /\ (a # <<>> => a \o b # <<>>)
      OBVIOUS
    <3> QED
      BY <3>2, <3>3, <3>4
  <2> QED
    BY <2>1, <2>2
<1> HIDE DEF R, k
<1>12. 0..k \subseteq R
  BY <1>1, <1>10, <1>11, InductionTo
<1>13. k \in R /\ k # 0
  BY <1>1, <1>12
<1> QED
  BY <1>8, <1>13 DEF R

\* A run of blocks along prev covers the chain of its last block, from where
\* it began.
LEMMA RunCovers ==
    ASSUME NEW s \in Seq(Digest), s # <<>>, NEW after \in Digest \cup {NoDigest},
           \A i \in 1..Len(s) : content[s[i]].prev = Before(s, i, after),
           NEW C, after # NoDigest => Chain(after) \subseteq C
    PROVE  Chain(Last(s)) \subseteq C \cup Range(s)
<1> DEFINE old == IF after = NoDigest THEN {} ELSE Chain(after)
           S == old \cup Range(s)
<1>1. Last(s) \in Digest /\ Last(s) \in Range(s) /\ Len(s) \in Nat
  BY LastOf
<1>2. old \in SUBSET Digest /\ after \in old \cup {NoDigest}
      /\ \A x \in old : content[x].prev \in old \cup {NoDigest}
  <2>1. CASE after = NoDigest
    BY <2>1
  <2>2. CASE after # NoDigest
    <3>1. after \in Digest /\ old = {after} \cup Ancestors(after, Digest)
      BY <2>2 DEF Chain
    <3>2. /\ Ancestors(after, Digest) \in SUBSET Digest
          /\ content[after].prev \in Ancestors(after, Digest) \cup {NoDigest}
          /\ \A y \in Ancestors(after, Digest) \cap Digest :
                 content[y].prev \in Ancestors(after, Digest) \cup {NoDigest}
      BY <3>1, AncestorsLeast
    <3> QED
      BY <3>1, <3>2
  <2> QED
    BY <2>1, <2>2
<1> HIDE DEF old
<1>3. S \in SUBSET Digest
  BY <1>2 DEF Range
<1>4. \A x \in S : content[x].prev \in S \cup {NoDigest}
  <2>1. ASSUME NEW i \in 1..Len(s) PROVE content[s[i]].prev \in S \cup {NoDigest}
    <3>1. CASE i = 1
      BY <1>2, <3>1 DEF Before
    <3>2. CASE i # 1
      <4>1. i - 1 \in DOMAIN s
        BY <3>2
      <4> QED
        BY <3>2, <4>1 DEF Before, Range
    <3> QED
      BY <3>1, <3>2
  <2> QED
    BY <1>2, <2>1 DEF Range
<1>5. Last(s) \in S
  BY <1>1
<1> HIDE DEF S
<1>6. Ancestors(Last(s), Digest) \subseteq S
  BY <1>1, <1>3, <1>4, <1>5, AncestorsLeast
<1>7. Chain(Last(s)) \subseteq S
  BY <1>5, <1>6 DEF Chain
<1> QED
  BY <1>7 DEF S, old

\* The chain of a set of held blocks' tip is held, and is the author's.
LEMMA HeldTipIsCovered ==
    ASSUME NEW held \in SUBSET Digest, NEW pub, TipOf(held, pub) # NoDigest
    PROVE  /\ TipOf(held, pub) \in Digest
           /\ Chain(TipOf(held, pub)) \subseteq held
           /\ \A x \in Chain(TipOf(held, pub)) : content[x].pub = pub
<1> DEFINE t == TipOf(held, pub)
<1>1. PICK S \in SUBSET held : /\ t \in S
                               /\ \A x \in S : content[x].prev \in S \cup {NoDigest}
                               /\ \A x \in S : content[x].pub = pub
  BY TipIsHeld
<1>2. t \in Digest /\ S \in SUBSET Digest
  BY <1>1
<1> HIDE DEF t
<1>3. Ancestors(t, Digest) \subseteq S
  BY <1>1, <1>2, AncestorsLeast
<1> QED
  BY <1>1, <1>2, <1>3 DEF t, Chain
-----------------------------------------------------------------------------
\* The store has recorded a verdict on d.
Known(d) == verdicts[d].verdict # "unknown"

\* What an Add in progress comes to: admit returns with a verdict recorded,
\* or with an error.
AddPart(p) ==
    /\ pc[p] = "idle" => arrived[p] = NoDigest
    /\ pc[p] = "done" /\ adm[p].verdict # "invalid" => Known(block[p])

AddInv == StoreInv /\ DecisionInv /\ \A p \in Proc : AddPart(p)

\* Validation stays inside admit and ends with an error if it ends there.
LEMMA ValidationGoesOn ==
    ASSUME TypeInv, NEW p \in Proc, Lookup(p) \/ Validate(p)
    PROVE  /\ UNCHANGED <<block, arrived, verdicts>>
           /\ pc[p] \in Busy \ {"done"}
           /\ pc'[p] \in Busy
           /\ pc'[p] = "done" => adm'[p].verdict = "invalid"
           /\ \A q \in Proc \ {p} : pc'[q] = pc[q] /\ adm'[q] = adm[q]
<1>0. pc \in [Proc -> PC] /\ adm \in [Proc -> Admission]
  BY DEF TypeInv, TypeOK
<1> DEFINE Concl == /\ UNCHANGED <<block, arrived, verdicts>>
                    /\ pc'[p] \in Busy
                    /\ pc'[p] = "done" => adm'[p].verdict = "invalid"
                    /\ \A q \in Proc \ {p} : pc'[q] = pc[q] /\ adm'[q] = adm[q]
<1>1. ASSUME NEW a, Decide(p, a), ~a.duplicate PROVE Concl
  BY <1>0, <1>1 DEF Decide, Goto, storeVars, Busy, PC
<1>2. ASSUME NEW l \in Busy \ {"done"}, NEW v, Continue(p, l, v) PROVE Concl
  BY <1>0, <1>2 DEF Continue, Goto, storeVars, Busy, PC
<1>3. \A n, a : ~Pending(a, n).duplicate /\ ~Invalid(n).duplicate /\ ~Valid.duplicate
  BY DEF Pending, Invalid, Valid, NoAdmission
<1>4. {"linkage", "verdict", "siblings", "refs", "resolve"} \subseteq Busy \ {"done"}
  BY DEF Busy, PC
<1>5. ASSUME DetectFork(p) PROVE Concl
  BY <1>0, <1>5 DEF DetectFork, Goto, storeVars, Busy, PC
<1> HIDE DEF Concl
<1>6. CASE Lookup(p)
  BY <1>2, <1>4, <1>6 DEF Lookup, Busy, PC, Concl
<1>7. CASE Linkage(p)
  <2>1. Concl
    BY <1>1, <1>2, <1>3, <1>4, <1>7
       DEF Linkage, Genesis, PrevMissing, PrevHeld, PrevUnaccepted, PrevAccepted
  <2>2. pc[p] \in Busy \ {"done"}
    BY <1>7 DEF Linkage, Genesis, PrevMissing, PrevHeld, PrevUnaccepted, PrevAccepted, Busy, PC
  <2> QED
    BY <2>1, <2>2 DEF Concl
<1>8. CASE DetectFork(p)
  BY <1>5, <1>8 DEF DetectFork, Busy, PC, Concl
<1>9. CASE References(p)
  <2>1. Concl
    BY <1>1, <1>2, <1>3, <1>4, <1>9 DEF References, CheckNextRef, AllRefsChecked
  <2>2. pc[p] \in Busy \ {"done"}
    BY <1>9 DEF References, CheckNextRef, AllRefsChecked, Busy, PC
  <2> QED
    BY <2>1, <2>2 DEF Concl
<1>10. CASE Resolve(p)
  <2>1. Concl
    <3>1. CASE ResolveReference(p)
      BY <1>1, <1>2, <1>3, <1>4, <3>1 DEF ResolveReference
    <3>2. CASE SearchAncestors(p)
      BY <1>1, <1>2, <1>3, <1>4, <3>2 DEF SearchAncestors
    <3>3. CASE SearchRefs(p)
      BY <1>1, <1>2, <1>3, <1>4, <3>3 DEF SearchRefs
    <3>4. CASE SearchFails(p)
      BY <1>1, <1>3, <3>4 DEF SearchFails
    <3>5. CASE DefineOperation(p)
      BY <1>1, <1>2, <1>3, <1>4, <3>5 DEF DefineOperation
    <3>6. CASE AllResolved(p)
      BY <1>1, <1>3, <3>6 DEF AllResolved
    <3> QED
      BY <1>10, <3>1, <3>2, <3>3, <3>4, <3>5, <3>6 DEF Resolve
  <2>2. pc[p] = "resolve"
    BY <1>10 DEF Resolve, ResolveReference, SearchAncestors, SearchRefs, SearchFails,
                 DefineOperation, AllResolved, Searching
  <2> QED
    BY <2>1, <2>2 DEF Concl, Busy, PC
<1> QED
  BY <1>6, <1>7, <1>8, <1>9, <1>10 DEF Validate

\* What one step of Add, or the call of it, does to the part of its goroutine.
LEMMA AddGoesOn ==
    ASSUME AddInv, NEW p \in Proc, Step(p) \/ \E d \in Digest : Offer(p, d)
    PROVE  /\ \A d \in Digest : Known(d) => Known(d)'
           /\ AddPart(p)'
           /\ \A q \in Proc \ {p} : /\ pc'[q] = pc[q] /\ block'[q] = block[q]
                                    /\ arrived'[q] = arrived[q] /\ adm'[q] = adm[q]
           /\ pc[p] \in Busy /\ arrived[p] = NoDigest =>
                \/ pc'[p] \in Busy /\ block'[p] = block[p] /\ arrived'[p] = arrived[p]
                \/ verdicts'[block[p]].verdict # "unknown"
                \/ pc[p] = "done" /\ adm[p].verdict = "invalid"
<1>0. /\ TypeInv /\ AddPart(p)
      /\ pc \in [Proc -> PC] /\ adm \in [Proc -> Admission]
      /\ block \in [Proc -> Digest \cup {NoDigest}] /\ arrived \in [Proc -> Digest \cup {NoDigest}]
      /\ verdicts \in [Digest -> Entry]
      /\ pc[p] \in Busy => block[p] \in Digest
  BY DEF AddInv, StoreInv, TypeInv, TypeOK, InHand
<1> USE DEF AddPart, Known
<1>1. CASE Lookup(p) \/ Validate(p)
  BY <1>0, <1>1, ValidationGoesOn DEF Busy
<1>2. CASE LookupAccepted(p)
  BY <1>0, <1>2 DEF LookupAccepted, Decide, Goto, storeVars, Accepted, Duplicate, NoAdmission, Busy, PC
<1>3. CASE Store(p)
  BY <1>0, <1>3 DEF Store, Goto, Busy, PC
<1>4. CASE Record(p)
  <2>1. adm[p].verdict \in {"valid", "unvalidated"}
    BY <1>0, <1>4 DEF Record, TypeInv, Undelivered, Decided
  <2>2. \A d \in Digest : verdicts'[d].verdict = verdicts[d].verdict \/
                          (d = block[p] /\ verdicts'[d].verdict = adm[p].verdict)
    BY <1>0, <1>4 DEF Record, EntryOf
  <2>3. verdicts'[block[p]].verdict # "unknown"
    BY <1>0, <1>4, <2>1 DEF Record, EntryOf, Accepted, Busy, PC
  <2> QED
    BY <1>0, <1>4, <2>1, <2>2, <2>3 DEF Record, Goto, Busy, PC
<1>5. CASE AddReturns(p) \/ StartSettle(p) \/ WaiterAdmitted(p)
  <2>1. UNCHANGED verdicts
    BY <1>5 DEF AddReturns, StartSettle, WaiterAdmitted, Leave, storeVars
  <2>2. pc[p] = "done" /\ \A q \in Proc \ {p} : pc'[q] = pc[q] /\ block'[q] = block[q] /\ adm'[q] = adm[q]
    BY <1>0, <1>5 DEF AddReturns, StartSettle, WaiterAdmitted, Leave, Goto
  <2>3. \A q \in Proc \ {p} : arrived'[q] = arrived[q]
    BY <1>0, <1>5 DEF AddReturns, StartSettle, WaiterAdmitted
  <2>4. pc'[p] # "done" /\ (pc'[p] = "idle" => arrived'[p] = NoDigest)
    BY <1>0, <1>5 DEF AddReturns, StartSettle, WaiterAdmitted, Leave, Goto
  <2>5. Known(block[p]) \/ adm[p].verdict = "invalid" \/ ~(pc[p] \in Busy /\ arrived[p] = NoDigest)
    BY <1>0, <1>5, <2>1, <2>2
  <2>6. \A d \in Digest : Known(d) => Known(d)'
    BY <2>1
  <2>7. AddPart(p)'
    BY <2>4
  <2> QED
    BY <2>1, <2>2, <2>3, <2>5, <2>6, <2>7
<1>6. CASE Take(p) \/ WaitersDone(p) \/ Settled(p)
  BY <1>0, <1>6 DEF Take, WaitersDone, Settled, Goto, storeVars, Busy, PC
<1>7. CASE NextWaiter(p)
  BY <1>0, <1>7 DEF NextWaiter, Goto, storeVars, Busy, PC
<1>8. CASE \E d \in Digest : Offer(p, d)
  BY <1>0, <1>8 DEF Offer, Goto, storeVars, Busy, PC
<1> QED
  BY <1>1, <1>2, <1>3, <1>4, <1>5, <1>6, <1>7, <1>8 DEF Step, Admit, Settle

\* AddInv is inductive.
LEMMA AddStepInv == AddInv /\ [Next]_vars => AddInv'
<1> SUFFICES ASSUME AddInv, [Next]_vars PROVE AddInv'
  OBVIOUS
<1>1. StoreInv' /\ DecisionInv'
  BY StoreStep, DecisionStep DEF AddInv
<1>2. CASE UNCHANGED vars
  BY <1>1, <1>2 DEF vars, storeVars, callVars, AddInv, AddPart, Known
<1>3. ASSUME NEW p \in Proc, Step(p) \/ \E d \in Digest : Offer(p, d)
      PROVE  AddInv'
  <2>1. /\ \A d \in Digest : Known(d) => Known(d)'
        /\ AddPart(p)'
        /\ \A q \in Proc \ {p} : /\ pc'[q] = pc[q] /\ block'[q] = block[q]
                                 /\ arrived'[q] = arrived[q] /\ adm'[q] = adm[q]
    BY <1>3, AddGoesOn
  <2>2. ASSUME NEW q \in Proc \ {p} PROVE AddPart(q)'
    <3>1. pc[q] = "done" => block[q] \in Digest
      BY DEF AddInv, StoreInv, TypeInv, InHand, Busy, PC
    <3> QED
      BY <2>1, <3>1 DEF AddInv, AddPart, Known
  <2> QED
    BY <1>1, <2>1, <2>2 DEF AddInv
<1> QED
  BY <1>2, <1>3 DEF Next

\* It holds of the empty store.
LEMMA InitAdd == Init => AddInv
  BY InitStore, InitDecision DEF AddInv, AddPart, Init
-----------------------------------------------------------------------------
\* How the store stands to a block the call has handed over: Add runs on it,
\* has recorded a verdict, or has shown it wrong.
Adding == {d \in {block[syncer]} : arrived[syncer] = NoDigest /\ pc[syncer] \in Busy}
Answered == {d \in Digest : Known(d) \/ ~Sound(d) \/ d \in Adding}
Covered == {d \in Digest : HeldOrUnsound(d) \/ d \in Adding}

\* What the call has handed over stays so while the store goes on.
LEMMA AnswersGrow ==
    ASSUME Plain, AddInv, [Next]_vars
    PROVE  Answered \subseteq Answered' /\ Covered \subseteq Covered'
<1>0. syncer \in Proc
  BY SyncAssumption
<1>1. blocks \subseteq blocks'
  BY Grows DEF AddInv, StoreInv
<1>2. \A d \in Digest : Known(d)' => d \in blocks'
  BY AddStepInv DEF AddInv, StoreInv, VerdictsAreOfHeldBlocks, Known
<1>3. ASSUME NEW d \in Adding, d \in Digest PROVE d \in Adding' \/ Known(d)' \/ ~Sound(d)
  <2>1. d = block[syncer] /\ arrived[syncer] = NoDigest /\ pc[syncer] \in Busy
    BY <1>3 DEF Adding
  <2>2. CASE UNCHANGED vars
    BY <2>1, <2>2 DEF vars, callVars, Adding
  <2>3. ASSUME NEW p \in Proc, Step(p) \/ \E e \in Digest : Offer(p, e)
        PROVE  d \in Adding' \/ Known(d)' \/ ~Sound(d)
    <3>1. CASE p = syncer
      <4>1. CASE pc'[p] \in Busy /\ block'[p] = block[p] /\ arrived'[p] = arrived[p]
        BY <2>1, <3>1, <4>1 DEF Adding
      <4>2. CASE verdicts'[block[p]].verdict # "unknown"
        BY <2>1, <3>1, <4>2 DEF Known
      <4>3. CASE pc[p] = "done" /\ adm[p].verdict = "invalid"
        <5>1. Definitive(d, val[p], blocks) /\ blocks \in SUBSET Digest
          BY <2>1, <3>1, <4>3 DEF AddInv, DecisionInv, Justified, TypeInv, TypeOK, MemTypeOK
        <5>2. scanLimit \in Int
          BY OptionsAssumption DEF scanLimit, DefaultScanLimit
        <5> QED
          BY <5>1, <5>2, HopelessIsUnsound DEF Definitive, Plain
      <4> QED
        BY <2>1, <2>3, <3>1, <4>1, <4>2, <4>3, AddGoesOn
    <3>2. CASE p # syncer
      BY <1>0, <2>1, <2>3, <3>2, AddGoesOn DEF Adding
    <3> QED
      BY <3>1, <3>2
  <2> QED
    BY <2>2, <2>3 DEF Next
<1>4. \A d \in Digest : Known(d) => Known(d)'
  <2>1. CASE UNCHANGED vars
    BY <2>1 DEF vars, storeVars, Known
  <2>2. ASSUME NEW p \in Proc, Step(p) \/ \E e \in Digest : Offer(p, e)
        PROVE  \A d \in Digest : Known(d) => Known(d)'
    BY <2>2, AddGoesOn
  <2> QED
    BY <2>1, <2>2 DEF Next
<1>5. Answered \subseteq Answered'
  BY <1>3, <1>4 DEF Answered
<1>6. Covered \subseteq Covered'
  BY <1>1, <1>2, <1>3 DEF Covered, HeldOrUnsound
<1> QED
  BY <1>5, <1>6
-----------------------------------------------------------------------------
\* A sibling query: a position and the source it is put to.
Query == (Digest \cup {NoDigest}) \X Source

Call == [at : {"idle", "source", "tip", "range", "offer", "add", "check",
               "pursue", "siblings", "sibling", "added"},
         pub : Author \cup {NoAuthor}, kept : BOOLEAN,
         all : Seq(Source), sources : Seq(Source),
         after : Digest \cup {NoDigest}, page : 0..MaxPages,
         hand : Seq(Digest), foreign : Seq(Digest), then : {"none", "page", "walk"},
         target : Digest \cup {NoDigest}, walked : Seq(Digest), queries : Seq(Query),
         received : SUBSET Digest, reports : [Source -> SourceSync]]

\* The steps of syncFrom, and those of them that follow the source's answer.
Asking == {"tip", "range", "offer", "add", "check", "pursue"}
Following == Asking \ {"tip"}
Offering == {"offer", "add"}

ClaimOf(c) == c.reports[Head(c.sources)].tip

Shape(c) ==
    /\ c.at # "idle" => c.pub \in Authors
    /\ c.sources # <<>> => c.all # <<>>
    /\ c.at \in Asking => c.sources # <<>>
    /\ c.at \in Following => ClaimOf(c) \in Digest
    /\ c.at \in Offering => c.then # "none"
    /\ c.then = "walk" => c.at \in Offering /\ Len(c.hand) <= MaxPursuit
    /\ c.at \in Offering /\ c.then = "page" => c.page < MaxPages /\ c.after \in Digest
    /\ c.at \in {"add", "added"} => c.hand # <<>>
    /\ c.at = "pursue" => c.target \in Digest
    /\ Len(c.walked) <= MaxPursuit

\* A report that claims no more than the store has.
Good(r, C) == r.tip = NoDigest \/ r.err \/ r.end = "failed" \/ r.tip \in C

\* The context is done and the call will see it before it returns.
Doomed(c, cut) ==
    /\ cut
    /\ c.all # <<>>
    /\ c.at = "source" \/ (c.at = "siblings" /\ c.queries # <<>>)

Reported(c, C, cut) ==
    \A i \in Source : \/ c.at \in Asking /\ i = Head(c.sources)
                      \/ Good(c.reports[i], C)
                      \/ Doomed(c, cut)

\* The tip pursued is among the blocks walked, or still ahead; then it is among
\* the blocks to hand over, or was.
Pursued(c, C) ==
    /\ c.at = "pursue" => ClaimOf(c) \in Range(c.walked) \cup {c.target}
    /\ c.then = "walk" => \/ c.reports[Head(c.sources)].end = "failed"
                          \/ ClaimOf(c) \in Range(c.hand) \cup C

\* Everything up to the position is handed over, or in hand.
Paged(c, C) ==
    /\ c.at = "range" /\ c.after # NoDigest => Chain(c.after) \subseteq C
    /\ c.at \in Offering /\ c.then = "page" => Chain(c.after) \subseteq C \cup Range(c.hand)

HandedOver(c, H) ==
    /\ c.received \subseteq H
    /\ c.at = "added" => Head(c.hand) \in H

CallOk(c, H, C, cut) ==
    /\ c \in Call
    /\ Shape(c)
    /\ Reported(c, C, cut)
    /\ Pursued(c, C)
    /\ Paged(c, C)
    /\ HandedOver(c, H)

SyncVarsOk ==
    /\ serves \in [Source -> SUBSET Digest]
    /\ fromHeld \in BOOLEAN
    /\ resume \in [Source -> [Authors -> Digest \cup {NoDigest}]]
    /\ cancelled \in BOOLEAN
    /\ refused \in SUBSET Digest

Promises == ResumeCoversTheChain /\ TipIsReached /\ RejectedIsUnsound

SyncInv ==
    /\ AddInv
    /\ SyncVarsOk
    /\ CallOk(call, Answered, Covered, cancelled)
    /\ Promises
-----------------------------------------------------------------------------
\* What a call has established survives the growth of the store.
LEMMA CallGrows ==
    ASSUME NEW c, NEW H, NEW C, NEW cut, CallOk(c, H, C, cut),
           NEW more, H \subseteq more, NEW wider, C \subseteq wider, NEW now, cut => now
    PROVE  CallOk(c, more, wider, now)
<1>1. Reported(c, wider, now)
  BY DEF CallOk, Reported, Good, Doomed
<1>2. Pursued(c, wider) /\ Paged(c, wider) /\ HandedOver(c, more)
  BY DEF CallOk, Pursued, Paged, HandedOver
<1> QED
  BY <1>1, <1>2 DEF CallOk

\* What was promised of the store stays true as it grows.
LEMMA PromisesGrow ==
    ASSUME Promises, blocks \subseteq blocks', UNCHANGED <<resume, result>>
    PROVE  Promises'
<1>1. \A x : HeldOrUnsound(x) => HeldOrUnsound(x)'
  BY DEF HeldOrUnsound
<1>2. ResumeCoversTheChain'
  BY <1>1 DEF Promises, ResumeCoversTheChain
<1>3. TipIsReached'
  BY <1>1 DEF Promises, TipIsReached, Finished
<1>4. RejectedIsUnsound'
  BY DEF Promises, RejectedIsUnsound
<1> QED
  BY <1>2, <1>3, <1>4 DEF Promises

\* A step of the call that leaves the store alone.
LEMMA ProceedKeeps ==
    ASSUME SyncInv, NEW c, Proceed(c), CallOk(c, Answered, Covered, cancelled)
    PROVE  SyncInv'
<1>1. call' = c /\ UNCHANGED <<vars, serves, fromHeld, resume, cancelled, refused, result>>
  BY DEF Proceed
<1>2. AddInv'
  BY <1>1, AddStepInv DEF SyncInv
<1>3. UNCHANGED <<blocks, verdicts, block, arrived, pc>>
  BY <1>1 DEF vars, storeVars, memVars, callVars
<1>4. Answered' = Answered /\ Covered' = Covered
  BY <1>3 DEF Answered, Covered, Adding, Known, HeldOrUnsound
<1>5. SyncVarsOk'
  BY <1>1 DEF SyncInv, SyncVarsOk
<1>6. Promises'
  BY <1>1, <1>3, PromisesGrow DEF SyncInv
<1> QED
  BY <1>1, <1>2, <1>4, <1>5, <1>6 DEF SyncInv

\* A block is handed to the store.
LEMMA HandKeeps ==
    ASSUME Plain, SyncInv, NEW d \in Digest, NEW c, Hand(d, c),
           CallOk(c, Answered \cup {d}, Covered \cup {d}, cancelled)
    PROVE  SyncInv'
<1>0. syncer \in Proc
  BY SyncAssumption
<1>1. /\ Offer(syncer, d) /\ call' = c /\ refused' = refused \ {d}
      /\ UNCHANGED <<serves, fromHeld, resume, cancelled, result>>
  BY DEF Hand
<1>2. [Next]_vars
  BY <1>0, <1>1 DEF Next
<1>3. AddInv' /\ blocks \subseteq blocks' /\ Answered \subseteq Answered' /\ Covered \subseteq Covered'
  BY <1>2, AddStepInv, AnswersGrow, Grows DEF SyncInv, AddInv, StoreInv
<1>4. d \in Adding'
  <2>1. pc[syncer] = "idle" /\ arrived[syncer] = NoDigest /\ arrived' = arrived
    BY <1>0, <1>1 DEF Offer, SyncInv, AddInv, AddPart
  <2>2. block'[syncer] = d /\ pc'[syncer] = "lookup"
    BY <1>0, <1>1 DEF Offer, Goto, SyncInv, AddInv, StoreInv, TypeInv, TypeOK
  <2> QED
    BY <2>1, <2>2 DEF Adding, Busy, PC
<1>5. d \in Answered' /\ d \in Covered'
  BY <1>4 DEF Answered, Covered
<1>6. CallOk(c, Answered', Covered', cancelled)
  BY <1>3, <1>5, CallGrows
<1>7. SyncVarsOk'
  BY <1>1 DEF SyncInv, SyncVarsOk
<1>8. Promises'
  BY <1>1, <1>3, PromisesGrow DEF SyncInv
<1> QED
  BY <1>1, <1>3, <1>6, <1>7, <1>8 DEF SyncInv
-----------------------------------------------------------------------------
\* The parts of a call have their types.
LEMMA CallFields ==
    ASSUME NEW c \in Call
    PROVE  /\ c.pub \in Author \cup {NoAuthor} /\ c.kept \in BOOLEAN
           /\ c.all \in Seq(Source) /\ c.sources \in Seq(Source)
           /\ c.after \in Digest \cup {NoDigest} /\ c.page \in 0..MaxPages
           /\ c.hand \in Seq(Digest) /\ c.foreign \in Seq(Digest)
           /\ c.target \in Digest \cup {NoDigest} /\ c.walked \in Seq(Digest)
           /\ c.queries \in Seq(Query) /\ c.received \in SUBSET Digest
           /\ c.reports \in [Source -> SourceSync]
  BY DEF Call

\* A source is asked only where there is one, and its report has its type.
LEMMA AskedSource ==
    ASSUME call \in Call, call.sources # <<>>
    PROVE  /\ asked \in Source /\ Tail(call.sources) \in Seq(Source)
           /\ call.reports[asked] \in SourceSync
           /\ claimed \in Digest \cup {NoDigest}
           /\ ClaimOf(call) = claimed
<1>1. call.sources \in Seq(Source) /\ call.reports \in [Source -> SourceSync]
  BY CallFields
<1>2. Head(call.sources) \in Source /\ Tail(call.sources) \in Seq(Source)
  BY <1>1, RangeHeadTail
<1> QED
  BY <1>1, <1>2 DEF asked, claimed, ClaimOf, SourceSync

\* The bounds are positive numbers.
LEMMA Bounds == PageLimit \in Nat \ {0} /\ MaxPages \in Nat \ {0} /\ MaxPursuit \in Nat \ {0}
  BY SyncAssumption
-----------------------------------------------------------------------------
\* syncFrom returns: with an error, a failed pursuit or a tip the store covers,
\* unless the context is done.
LEMMA SourceDoneOk ==
    ASSUME NEW H, NEW C, CallOk(call, H, C, cancelled), call.at \in Asking,
           NEW end \in PursuitEnd, NEW err \in BOOLEAN,
           err \/ end = "failed" \/ claimed \in C \/ cancelled
    PROVE  CallOk(SourceDone(call, end, err), H, C, cancelled)
<1> DEFINE n == SourceDone(call, end, err)
           rest == Tail(call.sources)
           r == [call.reports[asked] EXCEPT !.end = end, !.err = err]
<1>1. call \in Call /\ call.sources # <<>> /\ call.all # <<>> /\ call.pub \in Authors
  BY DEF CallOk, Shape, Asking
<1>2. asked \in Source /\ rest \in Seq(Source) /\ call.reports[asked] \in SourceSync
      /\ call.reports \in [Source -> SourceSync]
  BY <1>1, AskedSource, CallFields
<1>3. r \in SourceSync /\ r.tip = claimed /\ r.end = end /\ r.err = err
  BY <1>2 DEF SourceSync, claimed
<1>4. n.reports = [call.reports EXCEPT ![asked] = r]
  BY <1>1, <1>2 DEF SourceDone, Call, SourceSync
<1>5. n \in Call
  <2> DEFINE t == [call.reports EXCEPT ![asked] = r]
             m == [call EXCEPT !.at = "source", !.sources = rest, !.hand = <<>>, !.walked = <<>>,
                               !.then = "none", !.page = 0, !.after = NoDigest, !.target = NoDigest]
  <2>1. t \in [Source -> SourceSync]
    BY <1>2, <1>3
  <2>2. 0 \in 0..MaxPages
    BY Bounds
  <2>3. n = [m EXCEPT !.reports = t]
    BY <1>1, <1>4, ZenonT(120) DEF SourceDone, Call
  <2>4. call \in Call /\ rest \in Seq(Source) /\ <<>> \in Seq(Digest)
    BY <1>1, <1>2
  <2> HIDE DEF r, rest, n, t
  <2>5. m \in Call
    BY ONLY <2>2, <2>4 DEF Call
  <2> HIDE DEF m
  <2> QED
    BY ONLY <2>1, <2>3, <2>5 DEF Call
<1>6. /\ n.at = "source" /\ n.pub = call.pub /\ n.all = call.all /\ n.then = "none"
      /\ n.walked = <<>> /\ n.received = call.received
  BY <1>1 DEF SourceDone, Call
<1>7. Shape(n)
  BY <1>1, <1>6, Bounds DEF Shape, Asking, Following, Offering
<1>8. Reported(n, C, cancelled)
  <2>1. ASSUME NEW i \in Source, i # asked PROVE Good(n.reports[i], C)
    <3>1. n.reports[i] = call.reports[i]
      BY <1>2, <1>4, <2>1
    <3> QED
      BY <2>1, <3>1 DEF CallOk, Reported, Doomed, Asking, asked
  <2>2. n.reports[asked] = r
    BY <1>2, <1>4
  <2>3. Good(n.reports[asked], C) \/ Doomed(n, cancelled)
    BY <1>1, <1>3, <1>6, <2>2 DEF Good, Doomed
  <2> QED
    BY <2>1, <2>3 DEF Reported
<1>9. Pursued(n, C) /\ Paged(n, C)
  BY <1>6 DEF Pursued, Paged, Offering
<1>10. HandedOver(n, H)
  BY <1>6 DEF HandedOver, CallOk
<1> HIDE DEF n
<1> QED
  BY <1>5, <1>7, <1>8, <1>9, <1>10 DEF CallOk, n

\* The call turns to the next source.
LEMMA NextSourceKeeps ==
    ASSUME SyncInv, NextSource
    PROVE  SyncInv'
<1> DEFINE n == [call EXCEPT !.at = "tip"]
<1>1. CallOk(call, Answered, Covered, cancelled) /\ call.at = "source" /\ call.sources # <<>>
      /\ ~cancelled /\ Proceed(n)
  BY DEF NextSource, SyncInv
<1>2. call \in Call /\ n \in Call /\ n = [call EXCEPT !.at = "tip"]
  BY <1>1 DEF CallOk, Call
<1>3. /\ n.at = "tip" /\ n.pub = call.pub /\ n.all = call.all /\ n.sources = call.sources
      /\ n.then = call.then /\ n.walked = call.walked /\ n.received = call.received
      /\ n.reports = call.reports
  BY <1>2 DEF Call
<1> HIDE DEF n
<1>4. Shape(n)
  BY <1>1, <1>3 DEF CallOk, Shape, Asking, Following, Offering
<1>5. Reported(n, Covered, cancelled)
  BY <1>1, <1>3 DEF CallOk, Reported, Doomed, Asking
<1>6. Pursued(n, Covered) /\ Paged(n, Covered) /\ HandedOver(n, Answered)
  BY <1>1, <1>3 DEF CallOk, Shape, Offering, Pursued, Paged, HandedOver
<1>7. CallOk(n, Answered, Covered, cancelled)
  BY <1>2, <1>4, <1>5, <1>6 DEF CallOk
<1> QED
  BY <1>1, <1>7, ProceedKeeps

\* The chain of a block is made of blocks.
LEMMA ChainType ==
    ASSUME NEW d \in Digest
    PROVE  Chain(d) \in SUBSET Digest /\ d \in Chain(d)
  BY AncestorsLeast DEF Chain

\* The position a range starts after has no gap behind it.
LEMMA PositionIsCovered ==
    ASSUME SyncInv, call.at = "tip"
    PROVE  LET from == Position(call.pub) IN
           /\ from \in Digest \cup {NoDigest}
           /\ from # NoDigest => Chain(from) \subseteq Covered
<1> DEFINE kept == resume[asked][call.pub]
           held == TipOf(blocks, call.pub)
<1>1. asked \in Source /\ call.pub \in Authors
  BY AskedSource DEF SyncInv, CallOk, Shape, Asking
<1>2. kept \in Digest \cup {NoDigest} /\ (kept # NoDigest => Chain(kept) \subseteq Covered)
  <2>1. kept \in Digest \cup {NoDigest}
    BY <1>1 DEF SyncInv, SyncVarsOk
  <2>2. kept # NoDigest => \A x \in Chain(kept) : HeldOrUnsound(x)
    BY <1>1 DEF SyncInv, Promises, ResumeCoversTheChain
  <2> QED
    BY <2>1, <2>2, ChainType DEF Covered
<1>3. held \in Digest \cup {NoDigest} /\ (held # NoDigest => Chain(held) \subseteq Covered)
  <2>1. blocks \in SUBSET Digest
    BY DEF SyncInv, AddInv, StoreInv, TypeInv, TypeOK, MemTypeOK
  <2> QED
    BY <2>1, HeldTipIsCovered DEF Covered, HeldOrUnsound
<1> QED
  BY <1>2, <1>3 DEF Position

\* The source is asked for its tip.
LEMMA AskTipKeeps ==
    ASSUME SyncInv, AskTip
    PROVE  SyncInv'
<1>1. CallOk(call, Answered, Covered, cancelled) /\ call.at = "tip" /\ call.at \in Asking
  BY DEF SyncInv, AskTip, Asking
<1>2. CASE Proceed(SourceDone(call, "none", TRUE))
  BY <1>1, <1>2, SourceDoneOk, ProceedKeeps DEF PursuitEnd
<1>3. ASSUME NEW t \in TipAnswers(asked, call.pub),
             Proceed([call EXCEPT !.at = "range", !.reports[asked].tip = t,
                                  !.after = Position(call.pub)])
      PROVE  SyncInv'
  <2> DEFINE from == Position(call.pub)
             r == [call.reports[asked] EXCEPT !.tip = t]
             rs == [call.reports EXCEPT ![asked] = r]
             n == [call EXCEPT !.at = "range", !.reports = rs, !.after = from]
  <2>1. call \in Call /\ call.sources # <<>> /\ asked \in Source
        /\ call.reports[asked] \in SourceSync /\ call.reports \in [Source -> SourceSync]
    BY <1>1, AskedSource, CallFields DEF CallOk, Shape, Asking
  <2>2. t \in Digest
    <3>1. serves[asked] \in SUBSET Digest
      BY <2>1 DEF SyncInv, SyncVarsOk
    <3> QED
      BY <1>3, <3>1, HeldTipIsCovered DEF TipAnswers
  <2>3. r \in SourceSync /\ r.tip = t
    BY <2>1, <2>2 DEF SourceSync
  <2>4. rs \in [Source -> SourceSync] /\ rs[asked] = r
        /\ \A i \in Source : i # asked => rs[i] = call.reports[i]
    BY <2>1, <2>3
  <2>5. from \in Digest \cup {NoDigest} /\ (from # NoDigest => Chain(from) \subseteq Covered)
    BY <1>1, PositionIsCovered
  <2>6. Proceed(n)
    BY <1>3, <2>1 DEF Call, SourceSync
  <2> HIDE DEF from, r, rs
  <2>7. n \in Call
    BY <2>1, <2>4, <2>5 DEF Call
  <2>8. /\ n.at = "range" /\ n.pub = call.pub /\ n.all = call.all /\ n.sources = call.sources
        /\ n.then = call.then /\ n.walked = call.walked /\ n.received = call.received
        /\ n.reports = rs /\ n.after = from
    BY <2>1 DEF Call
  <2> HIDE DEF n
  <2>9. ClaimOf(n) = t
    BY <2>3, <2>4, <2>8 DEF ClaimOf, asked
  <2>10. Shape(n)
    BY <1>1, <2>2, <2>8, <2>9 DEF CallOk, Shape, Asking, Following, Offering
  <2>11. Reported(n, Covered, cancelled)
    BY <1>1, <2>4, <2>8 DEF CallOk, Reported, Doomed, Asking, asked
  <2>12. Pursued(n, Covered) /\ Paged(n, Covered) /\ HandedOver(n, Answered)
    BY <1>1, <2>5, <2>8 DEF CallOk, Shape, Offering, Pursued, Paged, HandedOver
  <2>13. CallOk(n, Answered, Covered, cancelled)
    BY <2>7, <2>10, <2>11, <2>12 DEF CallOk
  <2> QED
    BY <2>6, <2>13, ProceedKeeps
<1> QED
  BY <1>2, <1>3 DEF AskTip

\* A range a source answers with is a run of blocks along prev from the
\* position, however it came by them.
LEMMA RangeIsRun ==
    ASSUME SyncVarsOk, NEW i \in Source, NEW pub, NEW after, NEW s \in RangeAnswers(i, pub, after)
    PROVE  s \in Seq(Digest) /\ \A n \in 1..Len(s) : content[s[n]].prev = Before(s, n, after)
<1>1. CASE i \in Honest
  <2> DEFINE held == serves[i]
  <2>1. held \in SUBSET Digest /\ PageLimit \in Nat
    BY Bounds DEF SyncVarsOk
  <2>2. s = Walk(held, pub, after, PageLimit)
    BY <1>1 DEF RangeAnswers
  <2> HIDE DEF held
  <2>3. s \in Paths(held, pub, after)
    BY <2>1, <2>2, WalkIsPath
  <2>4. s \in Seq(held)
    BY <2>3 DEF Paths
  <2>5. ASSUME NEW n \in 1..Len(s) PROVE content[s[n]].prev = Before(s, n, after)
    <3> DEFINE here == At(held, pub, Before(s, n, after))
    <3>1. here # {} /\ s[n] = branch(here)
      BY <2>3 DEF Paths
    <3>2. here \in SUBSET Digest /\ \A d \in here : content[d].prev = Before(s, n, after)
      BY <2>1 DEF At, Claims
    <3> HIDE DEF here
    <3> QED
      BY <3>1, <3>2, BranchLowest
  <2> QED
    BY <2>1, <2>4, <2>5
<1>2. CASE i \notin Honest
  <2>1. s \in Runs /\ CheckRange(s, pub, after)
    BY <1>2 DEF RangeAnswers
  <2>2. PICK m \in 0..Cardinality(Digest) : s \in [1..m -> Digest]
    BY <2>1 DEF Runs, BoundedSeq, SeqOf
  <2>3. m \in Nat
    BY <2>2, SetsOfDigests
  <2>4. s \in Seq(Digest) /\ DOMAIN s = 1..Len(s)
    BY <2>2, <2>3
  <2> QED
    BY <2>1, <2>4 DEF CheckRange, Claims, Before
<1> QED
  BY <1>1, <1>2

\* The source is asked for a range.
LEMMA AskRangeKeeps ==
    ASSUME SyncInv, AskRange
    PROVE  SyncInv'
<1>1. CallOk(call, Answered, Covered, cancelled) /\ call.at = "range" /\ call.at \in Asking
      /\ call.page < MaxPages /\ SyncVarsOk
  BY DEF SyncInv, AskRange, Asking
<1>2. call \in Call /\ call.sources # <<>> /\ asked \in Source /\ claimed \in Digest /\ ClaimOf(call) = claimed
  BY <1>1, AskedSource DEF CallOk, Shape, Asking, Following
<1>3. CASE Proceed(SourceDone(call, "none", TRUE))
  BY <1>1, <1>3, SourceDoneOk, ProceedKeeps DEF PursuitEnd
<1>4. CASE Proceed([call EXCEPT !.at = "check"])
  <2> DEFINE n == [call EXCEPT !.at = "check"]
  <2>1. n \in Call /\ Proceed(n)
    BY <1>2, <1>4 DEF Call
  <2>2. /\ n.at = "check" /\ n.pub = call.pub /\ n.all = call.all /\ n.sources = call.sources
        /\ n.then = call.then /\ n.walked = call.walked /\ n.received = call.received
        /\ n.reports = call.reports
    BY <1>2 DEF Call
  <2> HIDE DEF n
  <2>3. Shape(n)
    BY <1>1, <1>2, <2>2 DEF CallOk, Shape, Asking, Following, Offering, ClaimOf
  <2>4. Reported(n, Covered, cancelled)
    BY <1>1, <2>2 DEF CallOk, Reported, Doomed, Asking
  <2>5. Pursued(n, Covered) /\ Paged(n, Covered) /\ HandedOver(n, Answered)
    BY <1>1, <2>2 DEF CallOk, Shape, Offering, Pursued, Paged, HandedOver
  <2> QED
    BY <2>1, <2>3, <2>4, <2>5, ProceedKeeps DEF CallOk
<1>5. ASSUME NEW s \in RangeAnswers(asked, call.pub, call.after), s # <<>>,
             Proceed([call EXCEPT !.at = "offer", !.hand = s, !.after = Last(s), !.then = "page"])
      PROVE  SyncInv'
  <2> DEFINE last == Last(s)
             n == [call EXCEPT !.at = "offer", !.hand = s, !.after = last, !.then = "page"]
  <2>1. s \in Seq(Digest) /\ \A i \in 1..Len(s) : content[s[i]].prev = Before(s, i, call.after)
    BY <1>1, <1>2, <1>5, RangeIsRun
  <2>2. call.after \in Digest \cup {NoDigest}
        /\ (call.after # NoDigest => Chain(call.after) \subseteq Covered)
    BY <1>1, <1>2, CallFields DEF CallOk, Paged
  <2>3. last \in Digest /\ Chain(last) \subseteq Covered \cup Range(s)
    BY <1>5, <2>1, <2>2, LastOf, RunCovers
  <2> HIDE DEF last
  <2>4. n \in Call
    BY <1>2, <2>1, <2>3 DEF Call
  <2>5. Proceed(n)
    BY <1>5 DEF last
  <2>6. /\ n.at = "offer" /\ n.pub = call.pub /\ n.all = call.all /\ n.sources = call.sources
        /\ n.then = "page" /\ n.walked = call.walked /\ n.received = call.received
        /\ n.reports = call.reports /\ n.page = call.page /\ n.after = last /\ n.hand = s
    BY <1>2 DEF Call
  <2> HIDE DEF n
  <2>7. Shape(n)
    BY <1>1, <1>2, <2>3, <2>6 DEF CallOk, Shape, Asking, Following, Offering, ClaimOf
  <2>8. Reported(n, Covered, cancelled)
    BY <1>1, <2>6 DEF CallOk, Reported, Doomed, Asking
  <2>9. Pursued(n, Covered) /\ Paged(n, Covered) /\ HandedOver(n, Answered)
    BY <1>1, <2>3, <2>6 DEF CallOk, Shape, Offering, Pursued, Paged, HandedOver
  <2> QED
    BY <2>4, <2>5, <2>7, <2>8, <2>9, ProceedKeeps DEF CallOk
<1> QED
  BY <1>3, <1>4, <1>5 DEF AskRange

\* The loop over pages ends at its bound.
LEMMA PagesDoneKeeps ==
    ASSUME SyncInv, PagesDone
    PROVE  SyncInv'
<1> DEFINE n == [call EXCEPT !.at = "check"]
<1>1. CallOk(call, Answered, Covered, cancelled) /\ call.at = "range" /\ Proceed(n)
  BY DEF SyncInv, PagesDone
<1>2. call \in Call /\ n \in Call
  BY <1>1 DEF CallOk, Call
<1>3. /\ n.at = "check" /\ n.pub = call.pub /\ n.all = call.all /\ n.sources = call.sources
      /\ n.then = call.then /\ n.walked = call.walked /\ n.received = call.received
      /\ n.reports = call.reports
  BY <1>2 DEF Call
<1> HIDE DEF n
<1>4. Shape(n)
  BY <1>1, <1>3 DEF CallOk, Shape, Asking, Following, Offering, ClaimOf
<1>5. Reported(n, Covered, cancelled)
  BY <1>1, <1>3 DEF CallOk, Reported, Doomed, Asking
<1>6. Pursued(n, Covered) /\ Paged(n, Covered) /\ HandedOver(n, Answered)
  BY <1>1, <1>3 DEF CallOk, Shape, Offering, Pursued, Paged, HandedOver
<1> QED
  BY <1>1, <1>2, <1>4, <1>5, <1>6, ProceedKeeps DEF CallOk

\* Between two Adds of the call, what is covered is held or unsound.
LEMMA NothingInHand ==
    ASSUME SyncInv, pc[syncer] = "idle"
    PROVE  /\ \A d \in Covered : HeldOrUnsound(d)
           /\ \A d \in Answered : Known(d) \/ ~Sound(d)
  BY DEF Covered, Answered, Adding, Busy, PC

\* A page has been offered: the position moves, and nothing is missing up to it.
LEMMA PageOfferedKeeps ==
    ASSUME SyncInv, PageOffered
    PROVE  SyncInv'
<1> DEFINE next == IF call.after = claimed THEN "check" ELSE "range"
           p == call.page + 1
           n == [call EXCEPT !.at = next, !.page = p]
<1>1. /\ CallOk(call, Answered, Covered, cancelled) /\ call.at = "offer" /\ call.then = "page"
      /\ call.hand = <<>> /\ pc[syncer] = "idle"
  BY DEF SyncInv, PageOffered
<1>2. call \in Call /\ call.page \in 0..MaxPages /\ call.page < MaxPages /\ call.after \in Digest
      /\ call.sources # <<>> /\ asked \in Source /\ ClaimOf(call) = claimed /\ call.pub \in Authors
  BY <1>1, AskedSource, CallFields DEF CallOk, Shape, Asking, Offering
<1>3. Chain(call.after) \subseteq Covered
  BY <1>1 DEF CallOk, Paged, Offering, Range
<1>4. call' = n /\ UNCHANGED <<vars, serves, fromHeld, cancelled, refused, result>>
  <2>1. [call EXCEPT !.at = IF call.after = claimed THEN "check" ELSE "range", !.page = @ + 1] = n
    BY <1>2 DEF Call
  <2> QED
    BY <2>1 DEF PageOffered
<1>5. p \in 0..MaxPages
  BY <1>2, Bounds
<1> HIDE DEF p
<1>6. next \in {"check", "range"}
  OBVIOUS
<1> HIDE DEF next
<1>7. n \in Call
  BY <1>2, <1>5, <1>6 DEF Call
<1>8. /\ n.at = next /\ n.pub = call.pub /\ n.all = call.all /\ n.sources = call.sources
      /\ n.then = "page" /\ n.walked = call.walked /\ n.received = call.received
      /\ n.reports = call.reports /\ n.after = call.after
  BY <1>1, <1>2 DEF Call
<1> HIDE DEF n
<1>9. Shape(n)
  BY <1>1, <1>2, <1>6, <1>8 DEF CallOk, Shape, Asking, Following, Offering, ClaimOf
<1>10. Reported(n, Covered, cancelled)
  BY <1>1, <1>6, <1>8 DEF CallOk, Reported, Doomed, Asking
<1>11. Pursued(n, Covered) /\ Paged(n, Covered) /\ HandedOver(n, Answered)
  BY <1>1, <1>3, <1>6, <1>8 DEF CallOk, Shape, Offering, Pursued, Paged, HandedOver
<1>12. CallOk(n, Answered, Covered, cancelled)
  BY <1>7, <1>9, <1>10, <1>11 DEF CallOk
<1>13. /\ resume \in [Source -> [Authors -> Digest \cup {NoDigest}]]
       /\ resume' = IF call.kept THEN [resume EXCEPT ![asked][call.pub] = call.after] ELSE resume
  BY DEF SyncInv, SyncVarsOk, PageOffered
<1>14. resume' \in [Source -> [Authors -> Digest \cup {NoDigest}]]
  BY <1>2, <1>13
<1>15. UNCHANGED <<blocks, verdicts, block, arrived, pc>>
  BY <1>4 DEF vars, storeVars, memVars, callVars
<1>16. Answered' = Answered /\ Covered' = Covered
  BY <1>15 DEF Answered, Covered, Adding, Known, HeldOrUnsound
<1>17. ResumeCoversTheChain'
  <2>1. ASSUME NEW i \in Source, NEW a \in Authors, resume'[i][a] # NoDigest,
               NEW x \in Chain(resume'[i][a])
        PROVE  HeldOrUnsound(x)
    <3>1. resume'[i][a] = resume[i][a] \/ resume'[i][a] = call.after
      BY <1>2, <1>13
    <3>2. CASE resume'[i][a] = resume[i][a]
      BY <2>1, <3>2 DEF SyncInv, Promises, ResumeCoversTheChain
    <3>3. CASE resume'[i][a] = call.after
      BY <1>1, <1>3, <2>1, <3>3, NothingInHand
    <3> QED
      BY <3>1, <3>2, <3>3
  <2> QED
    BY <1>15, <2>1 DEF ResumeCoversTheChain, HeldOrUnsound
<1>18. TipIsReached' /\ RejectedIsUnsound'
  BY <1>4, <1>15 DEF SyncInv, Promises, TipIsReached, Finished, HeldOrUnsound, RejectedIsUnsound
<1>19. AddInv'
  BY <1>4, AddStepInv DEF SyncInv
<1>20. SyncVarsOk'
  BY <1>4, <1>14 DEF SyncInv, SyncVarsOk
<1> QED
  BY <1>4, <1>12, <1>16, <1>17, <1>18, <1>19, <1>20 DEF SyncInv, Promises

\* The ranges are over, and the claim is compared with the store.
LEMMA CheckKeeps ==
    ASSUME SyncInv, Check
    PROVE  SyncInv'
<1>1. CallOk(call, Answered, Covered, cancelled) /\ call.at = "check" /\ call.at \in Asking
  BY DEF SyncInv, Check, Asking
<1>2. call \in Call /\ call.sources # <<>> /\ asked \in Source /\ claimed \in Digest /\ ClaimOf(call) = claimed
  BY <1>1, AskedSource DEF CallOk, Shape, Asking, Following
<1>3. CASE claimed \in blocks
  <2>1. claimed \in Covered
    BY <1>2, <1>3 DEF Covered, HeldOrUnsound
  <2>2. Proceed(SourceDone(call, "none", FALSE))
    BY <1>3 DEF Check
  <2> QED
    BY <1>1, <2>1, <2>2, SourceDoneOk, ProceedKeeps DEF PursuitEnd
<1>4. CASE claimed \notin blocks
  <2> DEFINE t == claimed
             n == [call EXCEPT !.at = "pursue", !.target = t]
  <2>1. Proceed(n)
    BY <1>4 DEF Check
  <2> HIDE DEF t
  <2>2. n \in Call
    BY <1>2 DEF Call, t
  <2>3. /\ n.at = "pursue" /\ n.pub = call.pub /\ n.all = call.all /\ n.sources = call.sources
        /\ n.then = call.then /\ n.walked = call.walked /\ n.received = call.received
        /\ n.reports = call.reports /\ n.target = t
    BY <1>2 DEF Call
  <2> HIDE DEF n
  <2>4. Shape(n)
    BY <1>1, <1>2, <2>3 DEF CallOk, Shape, Asking, Following, Offering, ClaimOf, t
  <2>5. Reported(n, Covered, cancelled)
    BY <1>1, <2>3 DEF CallOk, Reported, Doomed, Asking
  <2>6. ClaimOf(n) = claimed
    BY <1>2, <2>3 DEF ClaimOf
  <2>7. Pursued(n, Covered) /\ Paged(n, Covered) /\ HandedOver(n, Answered)
    BY <1>1, <2>3, <2>6 DEF CallOk, Shape, Offering, Pursued, Paged, HandedOver, t
  <2> QED
    BY <2>1, <2>2, <2>4, <2>5, <2>7, ProceedKeeps DEF CallOk
<1> QED
  BY <1>3, <1>4

\* What a pursuit walked is handed over: the claim is in it, unless it failed.
LEMMA OfferWalkOk ==
    ASSUME NEW H, NEW C, CallOk(call, H, C, cancelled), call.at = "pursue",
           NEW end \in PursuitEnd, NEW walked \in Seq(Digest), Len(walked) <= MaxPursuit,
           end = "failed" \/ claimed \in Range(walked) \cup C
    PROVE  CallOk(OfferWalk(end, walked), H, C, cancelled)
<1> DEFINE n == OfferWalk(end, walked)
           back == Reverse(walked)
           r == [call.reports[asked] EXCEPT !.end = end]
           rs == [call.reports EXCEPT ![asked] = r]
<1>1. call \in Call /\ call.sources # <<>> /\ call.all # <<>> /\ call.pub \in Authors
      /\ claimed \in Digest
  BY AskedSource DEF CallOk, Shape, Asking, Following
<1>2. asked \in Source /\ call.reports[asked] \in SourceSync /\ call.reports \in [Source -> SourceSync]
  BY <1>1, AskedSource, CallFields
<1>3. r \in SourceSync /\ r.tip = claimed /\ r.end = end
  BY <1>2 DEF SourceSync, claimed
<1>4. rs \in [Source -> SourceSync] /\ rs[asked] = r
      /\ \A i \in Source : i # asked => rs[i] = call.reports[i]
  BY <1>2, <1>3
<1>5. back \in Seq(Digest) /\ Len(back) = Len(walked) /\ Range(back) = Range(walked)
  BY ReverseOf
<1>6. n = [call EXCEPT !.at = "offer", !.then = "walk", !.hand = back, !.walked = <<>>, !.reports = rs]
  BY <1>1, <1>2 DEF OfferWalk, Call, SourceSync
<1> HIDE DEF n, back, r, rs
<1>7. <<>> \in Seq(Digest)
  OBVIOUS
<1>8. n \in Call
  BY ONLY <1>1, <1>4, <1>5, <1>6, <1>7 DEF Call
<1>9. /\ n.at = "offer" /\ n.pub = call.pub /\ n.all = call.all /\ n.sources = call.sources
      /\ n.then = "walk" /\ n.walked = <<>> /\ n.received = call.received
      /\ n.reports = rs /\ n.hand = back
  BY ONLY <1>1, <1>6 DEF Call
<1>10. ClaimOf(n) = claimed /\ n.reports[Head(n.sources)].end = end
  BY <1>3, <1>4, <1>9 DEF ClaimOf, asked
<1>11. Shape(n)
  BY <1>1, <1>5, <1>9, <1>10, Bounds DEF Shape, Asking, Following, Offering
<1>12. Reported(n, C, cancelled)
  BY <1>4, <1>9 DEF CallOk, Reported, Doomed, Asking, asked
<1>13. Pursued(n, C) /\ Paged(n, C) /\ HandedOver(n, H)
  BY <1>5, <1>9, <1>10 DEF CallOk, Offering, Pursued, Paged, HandedOver
<1> QED
  BY <1>8, <1>11, <1>12, <1>13 DEF CallOk, n

\* The pursuit ends at a held block: what it set out from was walked, or is
\* that block.
LEMMA PursuitMeetsKeeps ==
    ASSUME SyncInv, PursuitMeets
    PROVE  SyncInv'
<1>1. CallOk(call, Answered, Covered, cancelled) /\ call.at = "pursue" /\ call.target \in blocks
      /\ Proceed(OfferWalk("held", call.walked))
  BY DEF SyncInv, PursuitMeets
<1>2. call.walked \in Seq(Digest) /\ Len(call.walked) <= MaxPursuit /\ call.target \in Digest
      /\ ClaimOf(call) = claimed
  BY <1>1, CallFields, AskedSource DEF CallOk, Shape, Asking
<1>3. claimed \in Range(call.walked) \cup Covered
  BY <1>1, <1>2 DEF CallOk, Pursued, Covered, HeldOrUnsound
<1>4. CallOk(OfferWalk("held", call.walked), Answered, Covered, cancelled)
  BY <1>1, <1>2, <1>3, OfferWalkOk DEF PursuitEnd
<1> QED
  BY <1>1, <1>4, ProceedKeeps

\* The pursuit fails: what was walked is handed over all the same.
LEMMA PursuitFailsKeeps ==
    ASSUME SyncInv, PursuitFails
    PROVE  SyncInv'
<1>1. CallOk(call, Answered, Covered, cancelled) /\ call.at = "pursue"
      /\ Proceed(OfferWalk("failed", call.walked))
  BY DEF SyncInv, PursuitFails
<1>2. call.walked \in Seq(Digest) /\ Len(call.walked) <= MaxPursuit
  BY <1>1, CallFields DEF CallOk, Shape
<1>3. CallOk(OfferWalk("failed", call.walked), Answered, Covered, cancelled)
  BY <1>1, <1>2, OfferWalkOk DEF PursuitEnd
<1> QED
  BY <1>1, <1>3, ProceedKeeps

\* The pursuit goes one block back, or ends at a genesis block.
LEMMA PursuitStepsKeeps ==
    ASSUME SyncInv, PursuitSteps
    PROVE  SyncInv'
<1> DEFINE d == call.target
           walked == Append(call.walked, d)
           prev == content[d].prev
           n == [call EXCEPT !.walked = walked, !.target = prev]
<1>1. CallOk(call, Answered, Covered, cancelled) /\ call.at = "pursue" /\ Len(call.walked) < MaxPursuit
  BY DEF SyncInv, PursuitSteps
<1>2. call \in Call /\ call.walked \in Seq(Digest) /\ d \in Digest /\ call.sources # <<>>
      /\ ClaimOf(call) = claimed /\ claimed \in Digest /\ Len(call.walked) \in Nat
  BY <1>1, CallFields, AskedSource DEF CallOk, Shape, Asking, Following
<1>3. walked \in Seq(Digest) /\ Range(walked) = Range(call.walked) \cup {d}
      /\ Len(walked) = Len(call.walked) + 1
  BY <1>2, RangeAppend
<1>4. Len(walked) <= MaxPursuit
  BY <1>1, <1>2, <1>3, Bounds
<1>5. claimed \in Range(walked)
  BY <1>1, <1>2, <1>3 DEF CallOk, Pursued
<1>6. prev \in Digest \cup {NoDigest}
  BY <1>2, ContentType
<1>7. IF IsGenesis(d) THEN Proceed(OfferWalk("genesis", walked)) ELSE Proceed(n)
  BY DEF PursuitSteps
<1> HIDE DEF walked
<1>8. CASE IsGenesis(d)
  <2>1. CallOk(OfferWalk("genesis", walked), Answered, Covered, cancelled)
    BY <1>1, <1>3, <1>4, <1>5, OfferWalkOk DEF PursuitEnd
  <2> QED
    BY <1>7, <1>8, <2>1, ProceedKeeps
<1>9. CASE ~IsGenesis(d)
  <2>1. prev \in Digest
    BY <1>6, <1>9 DEF IsGenesis
  <2> HIDE DEF prev
  <2>2. n \in Call
    BY <1>2, <1>3, <1>6 DEF Call
  <2>3. /\ n.at = "pursue" /\ n.pub = call.pub /\ n.all = call.all /\ n.sources = call.sources
        /\ n.then = call.then /\ n.walked = walked /\ n.received = call.received
        /\ n.reports = call.reports /\ n.target = prev
    BY <1>1, <1>2 DEF Call
  <2>4. Proceed(n)
    BY <1>7, <1>9
  <2> HIDE DEF n
  <2>5. ClaimOf(n) = claimed
    BY <1>2, <2>3 DEF ClaimOf
  <2>6. Shape(n)
    BY <1>1, <1>2, <1>4, <2>1, <2>3, <2>5 DEF CallOk, Shape, Asking, Following, Offering
  <2>7. Reported(n, Covered, cancelled)
    BY <1>1, <2>3 DEF CallOk, Reported, Doomed, Asking
  <2>8. Pursued(n, Covered) /\ Paged(n, Covered) /\ HandedOver(n, Answered)
    BY <1>1, <1>5, <2>3, <2>5 DEF CallOk, Shape, Offering, Pursued, Paged, HandedOver
  <2> QED
    BY <2>2, <2>4, <2>6, <2>7, <2>8, ProceedKeeps DEF CallOk
<1> QED
  BY <1>8, <1>9

\* The walk has been handed over: the claim was in it, or the pursuit failed.
LEMMA WalkOfferedKeeps ==
    ASSUME SyncInv, WalkOffered
    PROVE  SyncInv'
<1> DEFINE end == call.reports[asked].end
<1>1. CallOk(call, Answered, Covered, cancelled) /\ call.at = "offer" /\ call.then = "walk"
      /\ call.hand = <<>> /\ call.at \in Asking /\ Proceed(SourceDone(call, end, FALSE))
  BY DEF SyncInv, WalkOffered, Asking
<1>2. call.reports[asked] \in SourceSync /\ ClaimOf(call) = claimed
  BY <1>1, AskedSource DEF CallOk, Shape
<1>3. end \in PursuitEnd
  BY <1>2 DEF SourceSync
<1>4. end = "failed" \/ claimed \in Covered
  BY <1>1, <1>2 DEF CallOk, Pursued, Range, asked
<1> HIDE DEF end
<1> QED
  BY <1>1, <1>3, <1>4, SourceDoneOk, ProceedKeeps

\* The context is done in the middle of an offer.
LEMMA OfferCancelledKeeps ==
    ASSUME SyncInv, OfferCancelled
    PROVE  SyncInv'
<1> DEFINE end == call.reports[asked].end
           err == call.then = "page"
<1>1. CallOk(call, Answered, Covered, cancelled) /\ call.at = "offer" /\ cancelled
      /\ call.at \in Asking /\ Proceed(SourceDone(call, end, err))
  BY DEF SyncInv, OfferCancelled, Asking
<1>2. end \in PursuitEnd
  BY <1>1, AskedSource DEF CallOk, Shape, SourceSync
<1>3. err \in BOOLEAN
  OBVIOUS
<1> HIDE DEF end, err
<1> QED
  BY <1>1, <1>2, <1>3, SourceDoneOk, ProceedKeeps

\* What a source sends when asked for blocks is a sequence of blocks.
LEMMA BlocksAnswersType ==
    ASSUME SyncVarsOk, NEW i \in Source, NEW wanted \in Seq(Digest), NEW s \in BlocksAnswers(i, wanted)
    PROVE  s \in Seq(Digest)
<1>1. CASE i \in Honest
  <2>1. serves[i] \in SUBSET Digest
    BY DEF SyncVarsOk
  <2>2. s \in Seq(Digest \cap serves[i])
    BY <1>1, OnlyType DEF BlocksAnswers
  <2> QED
    BY <2>2
<1>2. CASE i \notin Honest
  <2>1. PICK S \in SUBSET Range(wanted) : s \in Listings(S)
    BY <1>2 DEF BlocksAnswers
  <2>2. S \in SUBSET Digest
    BY <2>1 DEF Range
  <2>3. s \in Seq(S)
    BY <2>1, <2>2, SetsOfDigests, ListingType
  <2> QED
    BY <2>2, <2>3
<1> QED
  BY <1>1, <1>2

\* The blocks the next one refers to are asked for, or not.
LEMMA ResolveRefsKeeps ==
    ASSUME SyncInv, ResolveRefs
    PROVE  SyncInv'
<1> DEFINE wanted == Only(Refs(Head(call.hand)), Digest \ blocks)
           n(s) == [call EXCEPT !.at = "add", !.foreign = s]
<1>1. CallOk(call, Answered, Covered, cancelled) /\ call.at = "offer" /\ call.hand # <<>> /\ SyncVarsOk
  BY DEF SyncInv, ResolveRefs
<1>2. call \in Call /\ call.hand \in Seq(Digest) /\ call.foreign \in Seq(Digest)
      /\ call.sources # <<>> /\ asked \in Source
  BY <1>1, CallFields, AskedSource DEF CallOk, Shape, Asking
<1>3. wanted \in Seq(Digest)
  <2>1. Head(call.hand) \in Digest
    BY <1>1, <1>2, RangeHeadTail
  <2>2. Refs(Head(call.hand)) \in Seq(Digest)
    BY <2>1, RefsType
  <2>3. wanted \in Seq(Digest \cap (Digest \ blocks))
    BY <2>2, OnlyType
  <2> QED
    BY <2>3
<1>4. ASSUME NEW s \in Seq(Digest), Proceed(n(s)) PROVE SyncInv'
  <2> DEFINE m == n(s)
  <2>1. m \in Call /\ Proceed(m)
    BY <1>2, <1>4 DEF Call
  <2>2. /\ m.at = "add" /\ m.pub = call.pub /\ m.all = call.all /\ m.sources = call.sources
        /\ m.then = call.then /\ m.walked = call.walked /\ m.received = call.received
        /\ m.reports = call.reports /\ m.hand = call.hand /\ m.page = call.page
        /\ m.after = call.after
    BY <1>2 DEF Call
  <2> HIDE DEF m, n
  <2>3. Shape(m)
    BY <1>1, <2>2 DEF CallOk, Shape, Asking, Following, Offering, ClaimOf
  <2>4. Reported(m, Covered, cancelled)
    BY <1>1, <2>2 DEF CallOk, Reported, Doomed, Asking
  <2>5. Pursued(m, Covered) /\ Paged(m, Covered) /\ HandedOver(m, Answered)
    BY <1>1, <2>2 DEF CallOk, Offering, Pursued, Paged, HandedOver, ClaimOf
  <2> QED
    BY <2>1, <2>3, <2>4, <2>5, ProceedKeeps DEF CallOk
<1>5. CASE Proceed([call EXCEPT !.at = "add"])
  <2>1. [call EXCEPT !.at = "add"] = n(call.foreign)
    BY <1>2 DEF Call
  <2> QED
    BY <1>2, <1>4, <1>5, <2>1
<1>6. CASE \E s \in BlocksAnswers(asked, wanted) :
             Proceed([[call EXCEPT !.at = "add"] EXCEPT !.foreign = s])
  <2>1. PICK s \in BlocksAnswers(asked, wanted) :
             Proceed([[call EXCEPT !.at = "add"] EXCEPT !.foreign = s])
    BY <1>6
  <2>2. [[call EXCEPT !.at = "add"] EXCEPT !.foreign = s] = n(s)
    BY <1>2 DEF Call
  <2>3. s \in Seq(Digest)
    BY <1>1, <1>2, <1>3, <2>1, BlocksAnswersType
  <2> QED
    BY <1>4, <2>1, <2>2, <2>3
<1> HIDE DEF n
<1> QED
  BY <1>5, <1>6 DEF ResolveRefs

\* A block that was asked for is handed over.
LEMMA AddForeignKeeps ==
    ASSUME Plain, SyncInv, AddForeign
    PROVE  SyncInv'
<1> DEFINE d == Head(call.foreign)
           rest == Tail(call.foreign)
           n == [call EXCEPT !.foreign = rest]
<1>1. CallOk(call, Answered, Covered, cancelled) /\ call.at = "add" /\ call.foreign # <<>> /\ Hand(d, n)
  BY DEF SyncInv, AddForeign
<1>2. call \in Call /\ d \in Digest /\ rest \in Seq(Digest)
  BY <1>1, CallFields, RangeHeadTail DEF CallOk
<1> HIDE DEF d, rest
<1>3. n \in Call
  BY <1>2 DEF Call
<1>4. /\ n.at = "add" /\ n.pub = call.pub /\ n.all = call.all /\ n.sources = call.sources
      /\ n.then = call.then /\ n.walked = call.walked /\ n.received = call.received
      /\ n.reports = call.reports /\ n.hand = call.hand /\ n.page = call.page
      /\ n.after = call.after
  BY <1>1, <1>2 DEF Call
<1> HIDE DEF n
<1>5. Shape(n)
  BY <1>1, <1>4 DEF CallOk, Shape, Asking, Following, Offering, ClaimOf
<1>6. Reported(n, Covered \cup {d}, cancelled)
  BY <1>1, <1>4 DEF CallOk, Reported, Good, Doomed, Asking
<1>7. Pursued(n, Covered \cup {d}) /\ Paged(n, Covered \cup {d}) /\ HandedOver(n, Answered \cup {d})
  BY <1>1, <1>4 DEF CallOk, Offering, Pursued, Paged, HandedOver, ClaimOf
<1> QED
  BY <1>1, <1>2, <1>3, <1>5, <1>6, <1>7, HandKeeps DEF CallOk

\* The block in hand is handed over.
LEMMA AddOfferedKeeps ==
    ASSUME Plain, SyncInv, AddOffered
    PROVE  SyncInv'
<1> DEFINE d == Head(call.hand)
           rest == Tail(call.hand)
           all == call.received \cup {d}
           n == [call EXCEPT !.at = "offer", !.hand = rest, !.received = all]
<1>1. CallOk(call, Answered, Covered, cancelled) /\ call.at = "add" /\ call.hand # <<>>
  BY DEF SyncInv, AddOffered, CallOk, Shape
<1>2. call \in Call /\ d \in Digest /\ rest \in Seq(Digest) /\ Range(call.hand) = {d} \cup Range(rest)
      /\ Len(rest) <= Len(call.hand) /\ call.received \subseteq Digest
  BY <1>1, CallFields, RangeHeadTail DEF CallOk
<1>3. Hand(d, n)
  BY <1>2 DEF AddOffered, Call
<1>4. all \in SUBSET Digest
  BY <1>2
<1>5. call.received \subseteq Answered
  BY <1>1 DEF CallOk, HandedOver
<1>l. call.then = "walk" => Len(rest) <= MaxPursuit
  <2>1. call.then = "walk" => Len(call.hand) <= MaxPursuit
    BY <1>1 DEF CallOk, Shape
  <2>2. Len(call.hand) \in Nat /\ Len(rest) \in Nat
    BY <1>1, <1>2, CallFields DEF CallOk
  <2> QED
    BY <1>2, <2>1, <2>2, Bounds
<1> HIDE DEF d, rest
<1>6. all \subseteq Answered \cup {d}
  BY <1>5
<1> HIDE DEF all
<1>7. n \in Call
  BY <1>2, <1>4 DEF Call
<1>8. /\ n.at = "offer" /\ n.pub = call.pub /\ n.all = call.all /\ n.sources = call.sources
      /\ n.then = call.then /\ n.walked = call.walked /\ n.received = all
      /\ n.reports = call.reports /\ n.hand = rest /\ n.page = call.page
      /\ n.after = call.after
  BY <1>1, <1>2 DEF Call
<1> HIDE DEF n
<1>9. Shape(n)
  BY <1>1, <1>8, <1>l DEF CallOk, Shape, Asking, Following, Offering, ClaimOf
<1>10. Reported(n, Covered \cup {d}, cancelled)
  BY <1>1, <1>8 DEF CallOk, Reported, Good, Doomed, Asking
<1>11. Pursued(n, Covered \cup {d}) /\ Paged(n, Covered \cup {d})
  BY <1>1, <1>2, <1>8 DEF CallOk, Offering, Pursued, Paged, ClaimOf
<1>12. HandedOver(n, Answered \cup {d})
  BY <1>6, <1>8 DEF HandedOver
<1> QED
  BY <1>2, <1>3, <1>7, <1>9, <1>10, <1>11, <1>12, HandKeeps DEF CallOk

\* The positions of forks are a finite set.
LEMMA ForkPositions ==
    ASSUME NEW a
    PROVE  LET forked == {f.prev : f \in {g \in Forks : g.pub = a}} IN
           forked \in SUBSET (Digest \cup {NoDigest}) /\ IsFiniteSet(forked)
<1> DEFINE forked == {f.prev : f \in {g \in Forks : g.pub = a}}
<1>1. forked \in SUBSET (Digest \cup {NoDigest})
  BY DEF Forks, Slot
<1> HIDE DEF forked
<1> QED
  BY <1>1, SetsOfPositions DEF forked

\* The sources are done: their siblings are asked for at every position.
LEMMA SourcesDoneKeeps ==
    ASSUME SyncInv, SourcesDone
    PROVE  SyncInv'
<1> DEFINE forked == {f.prev : f \in {g \in Forks : g.pub = call.pub}}
           listed == CHOOSE s \in Listings(forked) : TRUE
           positions == <<NoDigest>> \o listed
           queries == [k \in DOMAIN positions |->
                           [i \in DOMAIN call.all |-> <<positions[k], call.all[i]>>]]
           flat == FlattenSeq(queries)
           n == [call EXCEPT !.at = "siblings", !.queries = flat]
<1>1. CallOk(call, Answered, Covered, cancelled) /\ call.at = "source" /\ call.sources = <<>>
      /\ Proceed(n)
  BY DEF SyncInv, SourcesDone
<1>2. call \in Call /\ call.all \in Seq(Source)
  BY <1>1, CallFields DEF CallOk
<1>3. listed \in Seq(Digest \cup {NoDigest})
  <2>1. forked \in SUBSET (Digest \cup {NoDigest}) /\ IsFiniteSet(forked)
    BY ForkPositions
  <2> HIDE DEF forked
  <2>2. listed \in Seq(forked)
    BY <2>1, ListingType
  <2> HIDE DEF listed
  <2> QED
    BY <2>1, <2>2
<1> HIDE DEF listed
<1>4. positions \in Seq(Digest \cup {NoDigest}) /\ positions # <<>> /\ 1 \in DOMAIN positions
  BY <1>3
<1> HIDE DEF positions
<1>5. queries \in Seq(Seq(Query)) /\ queries # <<>>
      /\ (call.all # <<>> => queries[1] # <<>>)
  <2>1. ASSUME NEW k \in DOMAIN positions
        PROVE  LET q == [i \in DOMAIN call.all |-> <<positions[k], call.all[i]>>] IN
               q \in Seq(Query) /\ (call.all # <<>> => q # <<>>)
    <3> DEFINE q == [i \in DOMAIN call.all |-> <<positions[k], call.all[i]>>]
    <3>1. positions[k] \in Digest \cup {NoDigest}
      BY <1>4, <2>1
    <3>2. DOMAIN call.all = 1..Len(call.all) /\ Len(call.all) \in Nat
          /\ \A i \in 1..Len(call.all) : call.all[i] \in Source
      BY <1>2
    <3>3. \A i \in 1..Len(call.all) : <<positions[k], call.all[i]>> \in Query
      BY <3>1, <3>2 DEF Query
    <3>4. q \in [1..Len(call.all) -> Query]
      BY <3>2, <3>3
    <3>5. q \in Seq(Query) /\ Len(q) = Len(call.all)
      BY <3>2, <3>4
    <3> QED
      BY <1>2, <3>5
  <2> DEFINE row(k) == [i \in DOMAIN call.all |-> <<positions[k], call.all[i]>>]
  <2>2. DOMAIN positions = 1..Len(positions) /\ Len(positions) \in Nat
    BY <1>4
  <2>3. \A k \in 1..Len(positions) : row(k) \in Seq(Query) /\ (call.all # <<>> => row(k) # <<>>)
    BY <2>1, <2>2
  <2>4. queries = [k \in 1..Len(positions) |-> row(k)]
    BY <2>2
  <2> HIDE DEF row, queries
  <2>5. queries \in [1..Len(positions) -> Seq(Query)]
    BY <2>3, <2>4
  <2>6. queries \in Seq(Seq(Query)) /\ Len(queries) = Len(positions)
    BY <2>2, <2>5
  <2>7. 1 \in 1..Len(positions)
    BY <1>4, <2>2
  <2> QED
    BY <2>3, <2>4, <2>6, <2>7
<1> HIDE DEF queries
<1>6. flat \in Seq(Query) /\ (call.all # <<>> => flat # <<>>)
  BY <1>5, FlattenType
<1> HIDE DEF flat
<1>7. n \in Call
  BY <1>2, <1>6 DEF Call
<1>8. /\ n.at = "siblings" /\ n.pub = call.pub /\ n.all = call.all /\ n.sources = call.sources
      /\ n.then = call.then /\ n.walked = call.walked /\ n.received = call.received
      /\ n.reports = call.reports /\ n.queries = flat
  BY <1>2 DEF Call
<1> HIDE DEF n
<1>9. Shape(n)
  BY <1>1, <1>8 DEF CallOk, Shape, Asking, Following, Offering
<1>10. Reported(n, Covered, cancelled)
  BY <1>1, <1>6, <1>8 DEF CallOk, Reported, Doomed, Asking
<1>11. Pursued(n, Covered) /\ Paged(n, Covered) /\ HandedOver(n, Answered)
  BY <1>1, <1>8 DEF CallOk, Shape, Offering, Pursued, Paged, HandedOver
<1> QED
  BY <1>1, <1>7, <1>9, <1>10, <1>11, ProceedKeeps DEF CallOk

\* A query taken off the list: what AskSiblings leaves of the call, when the source has no
\* siblings to offer and when it has.
LEMMA QueryTaken ==
    ASSUME NEW c \in Call, c.at = "siblings", NEW q
    PROVE  [c EXCEPT !.queries = q] = [c EXCEPT !.at = "siblings", !.queries = q, !.hand = c.hand]
BY DEF Call

LEMMA QueryAnswered ==
    ASSUME NEW c \in Call, NEW q, NEW s
    PROVE  [[c EXCEPT !.queries = q] EXCEPT !.at = "sibling", !.hand = s]
                 = [c EXCEPT !.at = "sibling", !.queries = q, !.hand = s]
BY DEF Call

\* A source is asked for the siblings at a position, which only a call that
\* was not cancelled does.
LEMMA AskSiblingsKeeps ==
    ASSUME SyncInv, AskSiblings
    PROVE  SyncInv'
<1> DEFINE prev == Head(call.queries)[1]
           i == Head(call.queries)[2]
           rest == Tail(call.queries)
           n(at, s) == [call EXCEPT !.at = at, !.queries = rest, !.hand = s]
<1>1. CallOk(call, Answered, Covered, cancelled) /\ call.at = "siblings" /\ call.queries # <<>>
      /\ ~cancelled /\ SyncVarsOk
  BY DEF SyncInv, AskSiblings
<1>2. call \in Call /\ rest \in Seq(Query) /\ call.hand \in Seq(Digest) /\ i \in Source
  <2>1. call \in Call /\ call.queries \in Seq(Query) /\ call.hand \in Seq(Digest)
    BY <1>1, CallFields DEF CallOk
  <2>2. Head(call.queries) \in Query /\ rest \in Seq(Query)
    BY <1>1, <2>1, RangeHeadTail
  <2> QED
    BY <2>1, <2>2 DEF Query
<1>3. \A k \in Source : Good(call.reports[k], Covered)
  BY <1>1 DEF CallOk, Reported, Doomed, Asking
<1> HIDE DEF rest
<1>4. ASSUME NEW at \in {"siblings", "sibling"}, NEW s \in Seq(Digest), Proceed(n(at, s))
      PROVE  SyncInv'
  <2> DEFINE m == n(at, s)
  <2>1. m \in Call /\ Proceed(m)
    BY <1>2, <1>4 DEF Call
  <2>2. /\ m.at = at /\ m.pub = call.pub /\ m.all = call.all /\ m.sources = call.sources
        /\ m.then = call.then /\ m.walked = call.walked /\ m.received = call.received
        /\ m.reports = call.reports
    BY <1>2 DEF Call
  <2> HIDE DEF m, n
  <2>3. Shape(m)
    BY <1>1, <1>4, <2>2 DEF CallOk, Shape, Asking, Following, Offering
  <2>4. Reported(m, Covered, cancelled)
    BY <1>3, <2>2 DEF Reported
  <2>5. Pursued(m, Covered) /\ Paged(m, Covered) /\ HandedOver(m, Answered)
    BY <1>1, <1>4, <2>2 DEF CallOk, Shape, Offering, Pursued, Paged, HandedOver
  <2> QED
    BY <2>1, <2>3, <2>4, <2>5, ProceedKeeps DEF CallOk
<1>5. CASE Proceed([call EXCEPT !.queries = Tail(@)])
  <2>1. [call EXCEPT !.queries = Tail(@)] = n("siblings", call.hand)
    BY ONLY <1>1, <1>2, QueryTaken DEF rest
  <2> QED
    BY <1>2, <1>4, <1>5, <2>1
<1>6. ASSUME NEW S \in SiblingsAnswers(i, call.pub, prev),
             Proceed([[call EXCEPT !.queries = Tail(@)] EXCEPT !.at = "sibling", !.hand = Ascending(S)])
      PROVE  SyncInv'
  <2>1. S \in SUBSET Digest
    BY <1>1, <1>2, <1>6 DEF SiblingsAnswers, At, SyncVarsOk
  <2>2. Ascending(S) \in Seq(Digest)
    BY ONLY SMTT(30), <2>1, AscendingType
  <2>3. [[call EXCEPT !.queries = Tail(@)] EXCEPT !.at = "sibling", !.hand = Ascending(S)]
            = n("sibling", Ascending(S))
    BY ONLY <1>2, QueryAnswered DEF rest
  <2> QED
    BY <1>4, <1>6, <2>2, <2>3
<1> HIDE DEF n
<1> QED
  BY <1>5, <1>6 DEF AskSiblings

\* A sibling that is not held is handed over, and the call waits for Add.
LEMMA AddSiblingKeeps ==
    ASSUME Plain, SyncInv, AddSibling
    PROVE  SyncInv'
<1> DEFINE d == Head(call.hand)
           rest == Tail(call.hand)
<1>1. CallOk(call, Answered, Covered, cancelled) /\ call.at = "sibling" /\ call.hand # <<>>
  BY DEF SyncInv, AddSibling
<1>2. call \in Call /\ d \in Digest /\ rest \in Seq(Digest)
  BY <1>1, CallFields, RangeHeadTail DEF CallOk
<1>3. \A k \in Source : Good(call.reports[k], Covered)
  BY <1>1 DEF CallOk, Reported, Doomed, Asking
<1>4. CASE Proceed([call EXCEPT !.hand = Tail(@)])
  <2> DEFINE n == [call EXCEPT !.hand = rest]
  <2>1. Proceed(n)
    BY <1>2, <1>4 DEF Call
  <2> HIDE DEF d, rest
  <2>2. n \in Call
    BY <1>2 DEF Call
  <2>3. /\ n.at = "sibling" /\ n.pub = call.pub /\ n.all = call.all /\ n.sources = call.sources
        /\ n.then = call.then /\ n.walked = call.walked /\ n.received = call.received
        /\ n.reports = call.reports
    BY <1>1, <1>2 DEF Call
  <2> HIDE DEF n
  <2>4. Shape(n)
    BY <1>1, <2>3 DEF CallOk, Shape, Asking, Following, Offering
  <2>5. Reported(n, Covered, cancelled)
    BY <1>3, <2>3 DEF Reported
  <2>6. Pursued(n, Covered) /\ Paged(n, Covered) /\ HandedOver(n, Answered)
    BY <1>1, <2>3 DEF CallOk, Shape, Offering, Pursued, Paged, HandedOver
  <2> QED
    BY <2>1, <2>2, <2>4, <2>5, <2>6, ProceedKeeps DEF CallOk
<1>5. CASE Hand(d, [call EXCEPT !.at = "added"])
  <2> DEFINE n == [call EXCEPT !.at = "added"]
  <2>1. Hand(d, n)
    BY <1>5
  <2>2. n \in Call
    BY <1>2 DEF Call
  <2>3. /\ n.at = "added" /\ n.pub = call.pub /\ n.all = call.all /\ n.sources = call.sources
        /\ n.then = call.then /\ n.walked = call.walked /\ n.received = call.received
        /\ n.reports = call.reports /\ n.hand = call.hand
    BY <1>1, <1>2 DEF Call
  <2>d. d = Head(call.hand)
    OBVIOUS
  <2> HIDE DEF n, d
  <2>4. Shape(n)
    BY <1>1, <2>3 DEF CallOk, Shape, Asking, Following, Offering
  <2>5. Reported(n, Covered \cup {d}, cancelled)
    BY <1>3, <2>3 DEF Reported, Good
  <2>6. Pursued(n, Covered \cup {d}) /\ Paged(n, Covered \cup {d})
    BY <1>1, <2>3 DEF CallOk, Shape, Offering, Pursued, Paged
  <2>7. HandedOver(n, Answered \cup {d})
    BY <1>1, <2>3, <2>d DEF CallOk, HandedOver
  <2> QED
    BY <1>2, <2>1, <2>2, <2>4, <2>5, <2>6, <2>7, HandKeeps DEF CallOk
<1> QED
  BY <1>4, <1>5 DEF AddSibling

\* Add has returned, and the sibling is received unless it was refused.
LEMMA SiblingAddedKeeps ==
    ASSUME SyncInv, SiblingAdded
    PROVE  SyncInv'
<1> DEFINE d == Head(call.hand)
           rest == Tail(call.hand)
           all == IF d \in refused THEN call.received ELSE call.received \cup {d}
           n == [call EXCEPT !.at = "sibling", !.hand = rest, !.received = all]
<1>1. CallOk(call, Answered, Covered, cancelled) /\ call.at = "added" /\ call.hand # <<>>
  BY DEF SyncInv, SiblingAdded, CallOk, Shape
<1>2. call \in Call /\ d \in Digest /\ rest \in Seq(Digest) /\ call.received \in SUBSET Digest
  BY <1>1, CallFields, RangeHeadTail DEF CallOk
<1>3. \A k \in Source : Good(call.reports[k], Covered)
  BY <1>1 DEF CallOk, Reported, Doomed, Asking
<1>4. all \in SUBSET Digest /\ all \subseteq Answered
  BY <1>1, <1>2 DEF CallOk, HandedOver
<1>5. Proceed(n)
  BY <1>2 DEF SiblingAdded, Call
<1> HIDE DEF all, rest
<1>6. n \in Call
  BY <1>2, <1>4 DEF Call
<1>7. /\ n.at = "sibling" /\ n.pub = call.pub /\ n.all = call.all /\ n.sources = call.sources
      /\ n.then = call.then /\ n.walked = call.walked /\ n.received = all
      /\ n.reports = call.reports
  BY <1>2 DEF Call
<1> HIDE DEF n
<1>8. Shape(n)
  BY <1>1, <1>7 DEF CallOk, Shape, Asking, Following, Offering
<1>9. Reported(n, Covered, cancelled)
  BY <1>3, <1>7 DEF Reported
<1>10. Pursued(n, Covered) /\ Paged(n, Covered) /\ HandedOver(n, Answered)
  BY <1>1, <1>4, <1>7 DEF CallOk, Shape, Offering, Pursued, Paged, HandedOver
<1> QED
  BY <1>5, <1>6, <1>8, <1>9, <1>10, ProceedKeeps DEF CallOk

\* The siblings of one answer are done.
LEMMA SiblingsDoneKeeps ==
    ASSUME SyncInv, SiblingsDone
    PROVE  SyncInv'
<1> DEFINE n == [call EXCEPT !.at = "siblings"]
<1>1. CallOk(call, Answered, Covered, cancelled) /\ call.at = "sibling" /\ Proceed(n)
  BY DEF SyncInv, SiblingsDone
<1>2. call \in Call /\ n \in Call
  BY <1>1 DEF CallOk, Call
<1>3. /\ n.at = "siblings" /\ n.pub = call.pub /\ n.all = call.all /\ n.sources = call.sources
      /\ n.then = call.then /\ n.walked = call.walked /\ n.received = call.received
      /\ n.reports = call.reports
  BY <1>2 DEF Call
<1> HIDE DEF n
<1>4. Shape(n)
  BY <1>1, <1>3 DEF CallOk, Shape, Asking, Following, Offering
<1>5. Reported(n, Covered, cancelled)
  BY <1>1, <1>3 DEF CallOk, Reported, Doomed, Asking
<1>6. Pursued(n, Covered) /\ Paged(n, Covered) /\ HandedOver(n, Answered)
  BY <1>1, <1>3 DEF CallOk, Shape, Offering, Pursued, Paged, HandedOver
<1> QED
  BY <1>1, <1>2, <1>4, <1>5, <1>6, ProceedKeeps DEF CallOk
-----------------------------------------------------------------------------
\* Between two calls nothing is claimed.
LEMMA NoCallOk ==
    ASSUME NEW H, NEW C, NEW cut
    PROVE  CallOk(NoCall, H, C, cut)
<1> DEFINE none == [i \in Source |-> NoSourceSync]
<1>1. none \in [Source -> SourceSync] /\ \A i \in Source : none[i].tip = NoDigest
  BY DEF NoSourceSync, SourceSync, PursuitEnd
<1>2. 0 \in 0..MaxPages /\ 0 <= MaxPursuit
  BY Bounds
<1> HIDE DEF none
<1>3. NoCall \in Call
  BY <1>1, <1>2 DEF NoCall, Call, none
<1>4. NoCall.reports = none
  BY DEF NoCall, none
<1>5. Reported(NoCall, C, cut)
  BY <1>1, <1>4 DEF Reported, Good
<1>6. Shape(NoCall)
  BY <1>2 DEF Shape, NoCall, Asking, Following, Offering
<1>7. Pursued(NoCall, C) /\ Paged(NoCall, C) /\ HandedOver(NoCall, H)
  BY DEF Pursued, Paged, HandedOver, NoCall, Offering
<1> QED
  BY <1>3, <1>5, <1>6, <1>7 DEF CallOk

\* No result promises nothing.
LEMMA NoResultPromises ==
    /\ \A r \in Range(NoResult.reports) : r.tip = NoDigest
    /\ NoResult.rejected = {}
  BY DEF NoResult, NoSourceSync, Range

\* A step of the environment of the store: the store and what was promised of
\* it stay as they are.
LEMMA StoreStays ==
    ASSUME SyncInv, UNCHANGED vars
    PROVE  /\ AddInv' /\ blocks' = blocks
           /\ Answered' = Answered /\ Covered' = Covered
           /\ \A x : HeldOrUnsound(x)' <=> HeldOrUnsound(x)
<1>1. UNCHANGED <<blocks, verdicts, block, arrived, pc>>
  BY DEF vars, storeVars, memVars, callVars
<1>2. AddInv'
  BY AddStepInv DEF SyncInv
<1> QED
  BY <1>1, <1>2 DEF Answered, Covered, Adding, Known, HeldOrUnsound

\* A call begins.
LEMMA StartKeeps ==
    ASSUME SyncInv, NEW pub \in Authors, NEW sources \in Seq(Source), NEW kept \in BOOLEAN,
           Start(pub, sources, kept)
    PROVE  SyncInv'
<1> DEFINE n == [NoCall EXCEPT !.at = "source", !.pub = pub, !.all = sources,
                               !.sources = sources, !.kept = kept]
<1>1. /\ call' = n /\ cancelled' = FALSE /\ refused' = {} /\ result' = NoResult
      /\ UNCHANGED <<vars, serves, fromHeld, resume>>
  BY DEF Start
<1>2. CallOk(NoCall, Answered, Covered, FALSE) /\ pub \in Author
  BY NoCallOk, SyncAssumption
<1>3. n \in Call
  <2>1. NoCall \in Call
    BY <1>2 DEF CallOk
  <2> QED
    BY ONLY <1>2, <2>1, sources \in Seq(Source), kept \in BOOLEAN DEF Call
<1>4. /\ n.at = "source" /\ n.pub = pub /\ n.all = sources /\ n.sources = sources
      /\ n.then = "none" /\ n.walked = <<>> /\ n.received = {}
      /\ n.reports = NoCall.reports
  BY DEF NoCall
<1> HIDE DEF n
<1>5. Shape(n)
  BY <1>4, Bounds DEF Shape, Asking, Following, Offering
<1>6. Reported(n, Covered, FALSE)
  <2>1. \A i \in Source : Good(NoCall.reports[i], Covered)
    BY <1>2 DEF CallOk, Reported, Doomed, Asking, NoCall
  <2> QED
    BY <1>4, <2>1 DEF Reported
<1>7. Pursued(n, Covered) /\ Paged(n, Covered) /\ HandedOver(n, Answered)
  BY <1>4 DEF Offering, Pursued, Paged, HandedOver
<1>8. CallOk(n, Answered, Covered, FALSE)
  BY <1>3, <1>5, <1>6, <1>7 DEF CallOk
<1>9. Promises'
  BY <1>1, StoreStays, NoResultPromises
     DEF SyncInv, Promises, ResumeCoversTheChain, TipIsReached, Finished, RejectedIsUnsound
<1>10. SyncVarsOk'
  BY <1>1 DEF SyncInv, SyncVarsOk
<1> QED
  BY <1>1, <1>8, <1>9, <1>10, StoreStays DEF SyncInv

\* A call gives up.
LEMMA GiveUpKeeps ==
    ASSUME SyncInv, GiveUp
    PROVE  SyncInv'
  BY NoCallOk, ProceedKeeps DEF GiveUp

\* A call returns: nothing is in hand any more, so what it established of its
\* blocks and its sources holds of the store alone.
LEMMA ReturnKeeps ==
    ASSUME SyncInv, Return
    PROVE  SyncInv'
<1>1. /\ CallOk(call, Answered, Covered, cancelled)
      /\ call.at = "siblings" /\ call.queries = <<>> /\ pc[syncer] = "idle" /\ call' = NoCall
      /\ UNCHANGED <<vars, serves, fromHeld, resume, cancelled, refused>>
  BY DEF SyncInv, Return
<1>2. result'.reports = call.reports
      /\ result'.rejected = {d \in call.received : verdicts[d].verdict = "unknown"}
  BY DEF Return
<1>3. \A i \in Source : Good(call.reports[i], Covered)
  BY <1>1 DEF CallOk, Reported, Doomed, Asking
<1>4. call.reports \in [Source -> SourceSync] /\ call.received \subseteq Answered
  BY <1>1, CallFields DEF CallOk, HandedOver
<1>5. TipIsReached'
  <2>1. ASSUME NEW r \in Finished' PROVE HeldOrUnsound(r.tip)
    <3>1. PICK i \in Source : r = call.reports[i]
      BY <1>2, <1>4, <2>1 DEF Finished, Range
    <3>2. r.tip # NoDigest /\ ~r.err /\ r.end # "failed"
      BY <2>1 DEF Finished
    <3>3. r.tip \in Covered
      BY <1>3, <3>1, <3>2 DEF Good
    <3> QED
      BY <1>1, <3>3, NothingInHand
  <2> QED
    BY <1>1, <2>1, StoreStays DEF TipIsReached
<1>6. RejectedIsUnsound'
  <2>1. ASSUME NEW d \in result'.rejected PROVE ~Sound(d)
    <3>1. d \in Answered /\ ~Known(d)
      BY <1>2, <1>4, <2>1 DEF Known
    <3> QED
      BY <1>1, <3>1, NothingInHand
  <2> QED
    BY <2>1 DEF RejectedIsUnsound
<1>7. ResumeCoversTheChain'
  BY <1>1, StoreStays DEF SyncInv, Promises, ResumeCoversTheChain
<1>8. SyncVarsOk'
  BY <1>1 DEF SyncInv, SyncVarsOk
<1> QED
  BY <1>1, <1>5, <1>6, <1>7, <1>8, NoCallOk, StoreStays DEF SyncInv, Promises

\* A source gains a block.
LEMMA GainKeeps ==
    ASSUME SyncInv, NEW i \in Source, NEW d \in Digest, Gain(i, d)
    PROVE  SyncInv'
<1>1. /\ serves' = [serves EXCEPT ![i] = @ \cup {d}]
      /\ UNCHANGED <<vars, fromHeld, resume, cancelled, refused, call, result>>
  BY DEF Gain
<1>2. SyncVarsOk'
  BY <1>1 DEF SyncInv, SyncVarsOk
<1>3. Promises'
  BY <1>1, StoreStays, PromisesGrow DEF SyncInv
<1> QED
  BY <1>1, <1>2, <1>3, StoreStays DEF SyncInv

\* The caller gives up: the call may still end in an error.
LEMMA CancelKeeps ==
    ASSUME SyncInv, Cancel
    PROVE  SyncInv'
<1>1. /\ cancelled' = TRUE
      /\ UNCHANGED <<vars, serves, fromHeld, resume, refused, call, result>>
  BY DEF Cancel
<1>2. CallOk(call, Answered, Covered, TRUE)
  BY CallGrows DEF SyncInv
<1>3. SyncVarsOk'
  BY <1>1 DEF SyncInv, SyncVarsOk
<1>4. Promises'
  BY <1>1, StoreStays, PromisesGrow DEF SyncInv
<1> QED
  BY <1>1, <1>2, <1>3, <1>4, StoreStays DEF SyncInv

\* The store goes on, for the call or for another goroutine.
LEMMA StoreGoesOn ==
    ASSUME Plain, SyncInv, [Next]_vars, refused' \in SUBSET Digest,
           UNCHANGED <<serves, fromHeld, resume, cancelled, call, result>>
    PROVE  SyncInv'
<1>1. AddInv' /\ blocks \subseteq blocks' /\ Answered \subseteq Answered' /\ Covered \subseteq Covered'
  BY AddStepInv, AnswersGrow, Grows DEF SyncInv, AddInv, StoreInv
<1>2. CallOk(call, Answered', Covered', cancelled)
  BY <1>1, CallGrows DEF SyncInv
<1>3. SyncVarsOk'
  BY DEF SyncInv, SyncVarsOk
<1>4. Promises'
  BY <1>1, PromisesGrow DEF SyncInv
<1> QED
  BY <1>1, <1>2, <1>3, <1>4 DEF SyncInv

\* A goroutine goes on inside Add.
LEMMA AddStepKeeps ==
    ASSUME Plain, SyncInv, NEW p \in Proc, AddStep(p)
    PROVE  SyncInv'
<1>1. [Next]_vars
  BY DEF AddStep, Next
<1>2. refused' \in SUBSET Digest
  <2>1. pc[p] = "done" => block[p] \in Digest
    BY DEF SyncInv, AddInv, StoreInv, TypeInv, InHand, Busy, PC
  <2>2. refused \in SUBSET Digest
    BY DEF SyncInv, SyncVarsOk
  <2> QED
    BY <2>1, <2>2 DEF AddStep
<1> QED
  BY <1>1, <1>2, StoreGoesOn DEF AddStep

\* Another goroutine offers a block.
LEMMA OthersOfferKeeps ==
    ASSUME Plain, SyncInv, OthersOffer
    PROVE  SyncInv'
<1>1. [Next]_vars
  BY SyncAssumption DEF OthersOffer, Next
<1>2. refused' \in SUBSET Digest
  BY DEF SyncInv, SyncVarsOk, OthersOffer, syncVars
<1> QED
  BY <1>1, <1>2, StoreGoesOn DEF OthersOffer, syncVars
-----------------------------------------------------------------------------
\* It holds at first.
LEMMA InitSyncInv == InitSync => SyncInv
<1> SUFFICES ASSUME InitSync PROVE SyncInv
  OBVIOUS
<1>1. AddInv
  BY InitAdd DEF InitSync
<1>2. SyncVarsOk
  BY DEF InitSync, SyncVarsOk
<1>3. CallOk(call, Answered, Covered, cancelled)
  BY NoCallOk DEF InitSync
<1>4. Promises
  BY NoResultPromises
     DEF InitSync, Promises, ResumeCoversTheChain, TipIsReached, Finished, RejectedIsUnsound
<1> QED
  BY <1>1, <1>2, <1>3, <1>4 DEF SyncInv

\* The steps of the call keep it.
LEMMA CallStepKeeps ==
    ASSUME Plain, SyncInv, CallStep
    PROVE  SyncInv'
<1>1. CASE GiveUp \/ NextSource \/ Return
  BY <1>1, GiveUpKeeps, NextSourceKeeps, ReturnKeeps
<1>2. CASE SyncFrom
  <2>1. CASE AskTip \/ AskRange \/ PageOffered \/ PagesDone \/ Check
    BY <2>1, AskTipKeeps, AskRangeKeeps, PageOfferedKeeps, PagesDoneKeeps, CheckKeeps
  <2>2. CASE PursuitMeets \/ PursuitFails \/ PursuitSteps \/ WalkOffered
    BY <2>2, PursuitMeetsKeeps, PursuitFailsKeeps, PursuitStepsKeeps, WalkOfferedKeeps
  <2> QED
    BY <1>2, <2>1, <2>2 DEF SyncFrom
<1>3. CASE OfferBlock
  BY <1>3, OfferCancelledKeeps, ResolveRefsKeeps, AddForeignKeeps, AddOfferedKeeps DEF OfferBlock
<1>4. CASE QuerySiblings
  BY <1>4, SourcesDoneKeeps, AskSiblingsKeeps, AddSiblingKeeps, SiblingAddedKeeps, SiblingsDoneKeeps
     DEF QuerySiblings
<1> QED
  BY <1>1, <1>2, <1>3, <1>4 DEF CallStep

\* SyncInv is inductive.
LEMMA SyncStep ==
    ASSUME Plain, SyncInv, [SyncNext]_allVars
    PROVE  SyncInv'
<1>1. CASE \E i \in Source, d \in Digest : Gain(i, d)
  BY <1>1, GainKeeps
<1>2. CASE Cancel
  BY <1>2, CancelKeeps
<1>3. ASSUME NEW a \in Authors, SyncChain(a) \/ \E i \in Source : SyncChainFrom(i, a)
      PROVE  SyncInv'
  <2>1. SourceList \in Seq(Source) /\ \A i \in Source : <<i>> \in Seq(Source)
    BY SyncAssumption
  <2>2. CASE SyncChain(a)
    BY <2>1, <2>2, StartKeeps DEF SyncChain
  <2>3. ASSUME NEW i \in Source, SyncChainFrom(i, a) PROVE SyncInv'
    BY <2>1, <2>3, StartKeeps DEF SyncChainFrom
  <2> QED
    BY <1>3, <2>2, <2>3
<1>4. CASE CallStep
  BY <1>4, CallStepKeeps
<1>5. CASE \E p \in Proc : AddStep(p)
  BY <1>5, AddStepKeeps
<1>6. CASE OthersOffer
  BY <1>6, OthersOfferKeeps
<1>7. CASE UNCHANGED allVars
  <2>1. UNCHANGED <<vars, serves, fromHeld, resume, cancelled, refused, call, result>>
    BY <1>7 DEF allVars, syncVars
  <2>2. [Next]_vars /\ refused' \in SUBSET Digest
    BY <2>1 DEF SyncInv, SyncVarsOk
  <2> QED
    BY <2>1, <2>2, StoreGoesOn
<1> QED
  BY <1>1, <1>2, <1>3, <1>4, <1>5, <1>6, <1>7 DEF SyncNext

\* It holds throughout.
LEMMA SyncInvHolds ==
    ASSUME Plain
    PROVE  SyncSpec => []SyncInv
<1>1. InitSync => SyncInv
  BY InitSyncInv
<1>2. SyncInv /\ [SyncNext]_allVars => SyncInv'
  BY SyncStep
<1> QED
  BY <1>1, <1>2, PTL DEF SyncSpec

\* The syncer's state and its call have their types, and the bounds on pages
\* and pursuits are kept.
THEOREM SyncTypeCorrect ==
    ASSUME Plain
    PROVE  SyncSpec => []SyncTypeOK
<1>1. SyncInv => SyncTypeOK
  <2> SUFFICES ASSUME SyncInv PROVE SyncTypeOK
    OBVIOUS
  <2>1. TypeOK /\ SyncVarsOk
    BY DEF SyncInv, AddInv, StoreInv, TypeInv
  <2>2. call \in Call /\ Shape(call)
    BY DEF SyncInv, CallOk
  <2>3. /\ call.page \in 0..MaxPages /\ Len(call.walked) <= MaxPursuit
        /\ (call.then = "walk" => Len(call.hand) <= MaxPursuit)
        /\ call.reports \in [Source -> SourceSync]
        /\ call.at \in {"idle", "source", "tip", "range", "offer", "add", "check",
                        "pursue", "siblings", "sibling", "added"}
    BY <2>2 DEF Call, Shape
  <2> QED
    BY <2>1, <2>3 DEF SyncTypeOK, SyncVarsOk
<1> QED
  BY <1>1, SyncInvHolds, PTL

\* Whatever the sources answer, wherever a call is cut short, and whatever the
\* other goroutines offer: every block up to a kept position is held, or no
\* store could hold it (sync.go, syncFrom and setResume).
THEOREM ResumeHasNoGap ==
    ASSUME Plain
    PROVE  SyncSpec => []ResumeCoversTheChain
<1>1. SyncInv => ResumeCoversTheChain
  BY DEF SyncInv, Promises
<1> QED
  BY <1>1, SyncInvHolds, PTL

\* A source that ended without an error has handed over the tip it claimed, by
\* its ranges or by the pursuit (sync.go, syncFrom, pursue and offerWalk).
THEOREM TipsAreReached ==
    ASSUME Plain
    PROVE  SyncSpec => []TipIsReached
<1>1. SyncInv => TipIsReached
  BY DEF SyncInv, Promises
<1> QED
  BY <1>1, SyncInvHolds, PTL

\* A block a sync reports as rejected breaks a rule, whatever the store was
\* missing when it was offered (sync.go, ChainSync.Rejected).
THEOREM RejectedIsAlwaysUnsound ==
    ASSUME Plain
    PROVE  SyncSpec => []RejectedIsUnsound
<1>1. SyncInv => RejectedIsUnsound
  BY DEF SyncInv, Promises
<1> QED
  BY <1>1, SyncInvHolds, PTL
-----------------------------------------------------------------------------
\* What is behind a block is the chain of its predecessor.
LEMMA BehindIs ==
    ASSUME NEW d \in Digest
    PROVE  /\ Behind(d) \in SUBSET Digest /\ Chain(d) \in SUBSET Digest
           /\ Chain(d) = {d} \cup Behind(d)
           /\ \A y \in Behind(d) : content[y].prev \in Behind(d) \cup {NoDigest}
           /\ content[d].prev = NoDigest => Behind(d) = {}
           /\ content[d].prev # NoDigest => /\ content[d].prev \in Digest
                                            /\ Behind(d) = Chain(content[d].prev)
<1> DEFINE prev == content[d].prev
<1>1. /\ Behind(d) \in SUBSET Digest
      /\ prev \in Behind(d) \cup {NoDigest}
      /\ \A y \in Behind(d) \cap Digest : content[y].prev \in Behind(d) \cup {NoDigest}
      /\ \A S \in SUBSET Digest :
            prev \in S \cup {NoDigest} /\ (\A y \in S \cap Digest : content[y].prev \in S \cup {NoDigest})
            => Behind(d) \subseteq S
  BY AncestorsLeast DEF Behind
<1>2. prev \in Digest \cup {NoDigest} /\ NoDigest \notin Digest
  BY ContentType, NullsAssumption
<1>3. CASE prev = NoDigest
  <2> DEFINE none == {}
  <2>1. none \in SUBSET Digest /\ \A y \in none \cap Digest : content[y].prev \in none \cup {NoDigest}
    OBVIOUS
  <2> HIDE DEF none
  <2>2. Behind(d) \subseteq none
    BY <1>1, <1>3, <2>1
  <2> QED
    BY <1>1, <1>3, <2>2 DEF Chain, Behind, none
<1>4. CASE prev # NoDigest
  <2>1. prev \in Digest
    BY <1>2, <1>4
  <2>2. /\ Behind(prev) \in SUBSET Digest
        /\ content[prev].prev \in Behind(prev) \cup {NoDigest}
        /\ \A y \in Behind(prev) \cap Digest : content[y].prev \in Behind(prev) \cup {NoDigest}
        /\ \A S \in SUBSET Digest :
              content[prev].prev \in S \cup {NoDigest} /\ (\A y \in S \cap Digest : content[y].prev \in S \cup {NoDigest})
              => Behind(prev) \subseteq S
    BY <2>1, AncestorsLeast DEF Behind
  <2> DEFINE C == {prev} \cup Behind(prev)
  <2>3. C \in SUBSET Digest /\ \A y \in C \cap Digest : content[y].prev \in C \cup {NoDigest}
    BY <2>1, <2>2
  <2>4. Behind(d) \subseteq C
    BY <1>1, <2>3
  <2>5. prev \in Behind(d)
    BY <1>1, <1>4
  <2>6. Behind(prev) \subseteq Behind(d)
    BY <1>1, <2>1, <2>2, <2>5
  <2>7. Behind(d) = Chain(prev)
    BY <2>4, <2>5, <2>6 DEF Chain, Behind
  <2> QED
    BY <1>1, <1>4, <2>1, <2>7 DEF Chain, Behind
<1> QED
  BY <1>3, <1>4

\* A set that goes back with its members holds their chains.
LEMMA ClosedHoldsChains ==
    ASSUME NEW S \in SUBSET Digest, \A y \in S : content[y].prev \in S \cup {NoDigest},
           NEW d \in Digest, content[d].prev \in S \cup {NoDigest}
    PROVE  Behind(d) \subseteq S
  BY AncestorsLeast DEF Behind

\* What is behind a block of a chain is in the chain.
LEMMA ChainsNest ==
    ASSUME NEW d \in Digest, NEW x \in Chain(d)
    PROVE  x \in Digest /\ Behind(x) \subseteq Behind(d) /\ Chain(x) \subseteq Chain(d)
<1>1. x \in Digest /\ (x = d \/ x \in Behind(d))
  BY BehindIs
<1>2. CASE x = d
  BY <1>1, <1>2
<1>3. CASE x \in Behind(d)
  <2>1. Behind(x) \subseteq Behind(d)
    BY <1>1, <1>3, BehindIs, ClosedHoldsChains
  <2> QED
    BY <1>1, <1>3, <2>1, BehindIs
<1> QED
  BY <1>1, <1>2, <1>3

\* No block is behind itself, since digests are acyclic.
LEMMA NotBehindItself ==
    ASSUME NEW d \in Digest
    PROVE  d \notin Behind(d)
<1> DEFINE S == {x \in Digest : x \in Behind(x)}
<1>1. \A x \in S : content[x].prev \in S
  <2> SUFFICES ASSUME NEW x \in S PROVE content[x].prev \in S
    OBVIOUS
  <2> DEFINE y == content[x].prev
  <2>1. y \in Digest /\ Behind(x) = Chain(y) /\ Chain(y) = {y} \cup Behind(y)
    <3>1. y # NoDigest
      BY BehindIs
    <3> QED
      BY <3>1, BehindIs
  <2>2. CASE x = y
    BY <2>1, <2>2
  <2>3. CASE x # y
    <3>1. x \in Behind(y) /\ x \in Chain(y)
      BY <2>1, <2>3
    <3>2. Behind(x) \subseteq Behind(y)
      BY <2>1, <3>1, ChainsNest
    <3> QED
      BY <2>1, <3>2
  <2> QED
    BY <2>2, <2>3
<1>2. S = {}
  <2>1. S \in SUBSET Digest
    OBVIOUS
  <2> HIDE DEF S
  <2> QED
    BY <1>1, <2>1, HashesAreAcyclic
<1> QED
  BY <1>2

\* A chain has one block more than what is behind its end.
LEMMA ChainCounts ==
    ASSUME NEW d \in Digest
    PROVE  /\ Cardinality(Chain(d)) \in Nat \ {0}
           /\ content[d].prev # NoDigest =>
                 Cardinality(Chain(d)) = Cardinality(Chain(content[d].prev)) + 1
<1>1. IsFiniteSet(Behind(d)) /\ Cardinality(Behind(d)) \in Nat
  BY BehindIs, SetsOfDigests
<1>2. Cardinality(Behind(d) \cup {d}) = Cardinality(Behind(d)) + 1
  BY <1>1, NotBehindItself, FS_AddElement
<1>3. Chain(d) = Behind(d) \cup {d}
  BY BehindIs
<1>4. Cardinality(Chain(d)) = Cardinality(Behind(d)) + 1
  BY <1>2, <1>3
<1>5. content[d].prev # NoDigest => Behind(d) = Chain(content[d].prev)
  BY BehindIs
<1> QED
  BY <1>1, <1>4, <1>5

\* In a sequence of blocks, what is behind each is in C or comes before it.
InSequence(s, C) ==
    \A k \in DOMAIN s : Behind(s[k]) \subseteq C \cup {s[j] : j \in 1..(k - 1)}

\* A run of blocks along prev is such a sequence, if what it starts after and
\* all behind that is in C.
LEMMA RunInSequence ==
    ASSUME NEW s \in Seq(Digest), NEW after \in Digest \cup {NoDigest},
           \A i \in 1..Len(s) : content[s[i]].prev = Before(s, i, after),
           NEW C, after # NoDigest => Chain(after) \subseteq C
    PROVE  InSequence(s, C)
<1> DEFINE old == IF after = NoDigest THEN {} ELSE Chain(after)
           Earlier(k) == {s[j] : j \in 1..(k - 1)}
<1>1. Len(s) \in Nat /\ DOMAIN s = 1..Len(s) /\ \A i \in 1..Len(s) : s[i] \in Digest
  OBVIOUS
<1>2. /\ old \in SUBSET Digest /\ old \subseteq C /\ after \in old \cup {NoDigest}
      /\ \A x \in old : content[x].prev \in old \cup {NoDigest}
  <2>1. CASE after = NoDigest
    BY <2>1
  <2>2. CASE after # NoDigest
    <3>1. after \in Digest /\ old = Chain(after)
      BY <2>2
    <3> HIDE DEF old
    <3>2. /\ old = {after} \cup Behind(after) /\ old \in SUBSET Digest
          /\ \A y \in Behind(after) : content[y].prev \in Behind(after) \cup {NoDigest}
      BY <3>1, BehindIs
    <3>3. content[after].prev \in Behind(after) \cup {NoDigest}
      BY <3>1, AncestorsLeast DEF Behind
    <3> QED
      BY <2>2, <3>1, <3>2, <3>3
  <2> QED
    BY <2>1, <2>2
<1> HIDE DEF old
<1> SUFFICES ASSUME NEW k \in 1..Len(s) PROVE Behind(s[k]) \subseteq C \cup Earlier(k)
  BY <1>1 DEF InSequence
<1> DEFINE S == old \cup Earlier(k)
<1>3. \A j \in 1..Len(s) : j <= k => content[s[j]].prev \in S \cup {NoDigest}
  <2> SUFFICES ASSUME NEW j \in 1..Len(s), j <= k PROVE content[s[j]].prev \in S \cup {NoDigest}
    OBVIOUS
  <2>1. CASE j = 1
    BY <1>2, <2>1 DEF Before
  <2>2. CASE j # 1
    <3>1. j - 1 \in 1..(k - 1) /\ content[s[j]].prev = s[j - 1]
      BY <1>1, <2>2 DEF Before
    <3> QED
      BY <3>1
  <2> QED
    BY <2>1, <2>2
<1>4. \A j \in 1..(k - 1) : j \in 1..Len(s) /\ j <= k
  BY <1>1
<1>5. S \in SUBSET Digest /\ \A y \in S : content[y].prev \in S \cup {NoDigest}
  BY <1>1, <1>2, <1>3, <1>4
<1>6. s[k] \in Digest /\ content[s[k]].prev \in S \cup {NoDigest}
  BY <1>1, <1>3
<1> HIDE DEF S
<1>7. Behind(s[k]) \subseteq S
  BY <1>5, <1>6, ClosedHoldsChains
<1> QED
  BY <1>2, <1>7 DEF S

\* The first of such a sequence is handed over: the rest still is one.
LEMMA TailInSequence ==
    ASSUME NEW s \in Seq(Digest), s # <<>>, NEW C, InSequence(s, C)
    PROVE  /\ Behind(Head(s)) \subseteq C
           /\ InSequence(Tail(s), C \cup {Head(s)})
<1> DEFINE t == Tail(s)
           d == Head(s)
<1>1. /\ Len(s) \in Nat \ {0} /\ DOMAIN s = 1..Len(s) /\ Len(t) = Len(s) - 1 /\ DOMAIN t = 1..Len(t)
      /\ d = s[1] /\ \A i \in 1..Len(t) : t[i] = s[i + 1]
  BY HeadTailProperties
<1> HIDE DEF t, d
<1>2. Behind(s[1]) \subseteq C \cup {s[j] : j \in 1..(1 - 1)}
  BY <1>1 DEF InSequence
<1>3. ASSUME NEW k \in 1..Len(t) PROVE Behind(t[k]) \subseteq C \cup {d} \cup {t[j] : j \in 1..(k - 1)}
  <2>1. k + 1 \in DOMAIN s /\ t[k] = s[k + 1] /\ (k + 1) - 1 = k
    BY <1>1
  <2>2. Behind(t[k]) \subseteq C \cup {s[j] : j \in 1..((k + 1) - 1)}
    BY <2>1 DEF InSequence
  <2>3. ASSUME NEW j \in 1..((k + 1) - 1) PROVE s[j] \in {d} \cup {t[i] : i \in 1..(k - 1)}
    <3>1. CASE j = 1
      BY <1>1, <3>1
    <3>2. CASE j # 1
      <4>1. j - 1 \in 1..(k - 1) /\ j - 1 \in 1..Len(t) /\ (j - 1) + 1 = j
        BY <1>1, <3>2
      <4> QED
        BY ZenonT(60), <1>1, <4>1
    <3> QED
      BY <3>1, <3>2
  <2> QED
    BY <2>2, <2>3
<1>4. 1..(1 - 1) = {}
  OBVIOUS
<1> QED
  BY <1>1, <1>2, <1>3, <1>4 DEF InSequence, t, d
-----------------------------------------------------------------------------
\* The block Add of the syncer is at work on.
InAdd == {d \in {block[syncer]} : pc[syncer] \in Busy}

\* What is behind the blocks of S that are of a synced chain is in C.
Whole(S, C) == \A d \in S : content[d].pub \in Authors => Behind(d) \subseteq C

OnlySyncer == \A p \in Proc \ {syncer} : pc[p] = "idle"
PositionsHeld == \A s \in Slot : \A d \in Range(position[s]) : d \in blocks /\ SlotOf(d) = s

\* A store nobody else writes to, without a gap in a synced chain.
NoGaps == OnlySyncer /\ PositionsHeld /\ Whole(blocks \cup InAdd, Covered)

\* A goroutine that is not in Add takes no step of it.
LEMMA IdleTakesNoStep ==
    ASSUME NEW p \in Proc, Step(p)
    PROVE  pc[p] # "idle"
<1>1. Lookup(p) \/ LookupAccepted(p) \/ Store(p) \/ Record(p) => pc[p] # "idle"
  BY DEF Lookup, LookupAccepted, Store, Record
<1>2. Linkage(p) \/ DetectFork(p) \/ References(p) => pc[p] # "idle"
  BY DEF Linkage, Genesis, PrevMissing, PrevHeld, PrevUnaccepted, PrevAccepted,
         DetectFork, References, CheckNextRef, AllRefsChecked
<1>3. Resolve(p) => pc[p] # "idle"
  BY DEF Resolve, ResolveReference, SearchAncestors, SearchRefs, SearchFails,
         DefineOperation, AllResolved, Searching
<1>4. AddReturns(p) \/ StartSettle(p) \/ WaiterAdmitted(p) => pc[p] # "idle"
  BY DEF AddReturns, StartSettle, WaiterAdmitted, Leave
<1>5. Take(p) \/ NextWaiter(p) \/ WaitersDone(p) \/ Settled(p) => pc[p] # "idle"
  BY DEF Take, NextWaiter, WaitersDone, Settled
<1> QED
  BY <1>1, <1>2, <1>3, <1>4, <1>5 DEF Step, Admit, Validate, Settle

\* Where Add of the syncer goes from one block to another, the next one is
\* held already; and it stores only the block it is at work on.
LEMMA AddStays ==
    ASSUME AddInv, Step(syncer)
    PROVE  /\ blocks' \subseteq blocks \cup InAdd
           /\ InAdd' \subseteq InAdd \cup blocks
           /\ \A p \in Proc \ {syncer} : pc'[p] = pc[p]
<1> DEFINE p == syncer
<1>0. /\ p \in Proc /\ MemTypeOK
      /\ pc \in [Proc -> PC] /\ block \in [Proc -> Digest \cup {NoDigest}]
      /\ VerdictsAreOfHeldBlocks /\ todo \in [Proc -> Seq(Digest)]
  BY SyncAssumption DEF AddInv, StoreInv, TypeInv, TypeOK
<1>1. \A q \in Proc \ {syncer} : pc'[q] = pc[q]
  BY <1>0, AddGoesOn
<1> DEFINE Stays == UNCHANGED <<blocks, block>> /\ pc[p] \in Busy
           Concl == blocks' \subseteq blocks \cup InAdd /\ InAdd' \subseteq InAdd \cup blocks
<1>s. Stays => Concl
  BY DEF InAdd
<1>2. ASSUME Lookup(p) \/ Validate(p) PROVE Concl
  <2>1. TypeInv
    BY DEF AddInv, StoreInv
  <2>2. UNCHANGED block /\ pc[p] \in Busy
    BY <1>0, <1>2, <2>1, ValidationGoesOn
  <2>3. UNCHANGED blocks
    BY <1>0, <1>2, QuietSteps DEF Quiet, storeVars, memVars
  <2> QED
    BY <1>s, <2>2, <2>3
<1>3. ASSUME LookupAccepted(p) PROVE Concl
  BY <1>s, <1>3 DEF LookupAccepted, Decide, storeVars, memVars, Busy, PC
<1>4. ASSUME Store(p) PROVE Concl
  <2>1. pc[p] = "store" /\ UNCHANGED block /\ Add(block[p])
    BY <1>4 DEF Store
  <2>2. blocks' \subseteq blocks \cup {block[p]}
    BY <2>1 DEF Add, memVars
  <2>3. block[p] \in InAdd
    BY <2>1 DEF InAdd, Busy, PC
  <2> QED
    BY <2>1, <2>2, <2>3 DEF InAdd
<1>5. ASSUME Record(p) PROVE Concl
  BY <1>s, <1>5 DEF Record, memVars, Busy, PC
<1>6. ASSUME AddReturns(p) \/ StartSettle(p) \/ WaiterAdmitted(p) PROVE Concl
  <2>1. UNCHANGED blocks /\ pc'[p] \in {"idle", "take", "waiters"}
    BY <1>0, <1>6 DEF AddReturns, StartSettle, WaiterAdmitted, Leave, Goto, storeVars, memVars
  <2> QED
    BY <2>1 DEF InAdd, Busy
<1>7. ASSUME Take(p) \/ WaitersDone(p) \/ Settled(p) PROVE Concl
  <2>1. UNCHANGED blocks /\ pc'[p] \in {"idle", "take", "waiters"}
    BY <1>0, <1>7 DEF Take, WaitersDone, Settled, Goto, storeVars, memVars
  <2> QED
    BY <2>1 DEF InAdd, Busy
<1>8. ASSUME NextWaiter(p) PROVE Concl
  <2>1. UNCHANGED blocks
    BY <1>8 DEF NextWaiter, storeVars, memVars
  <2>2. CASE Head(todo[p]) \in blocks
    <3>1. block'[p] \in blocks
      BY <1>0, <1>8, <2>2 DEF NextWaiter
    <3> QED
      BY <2>1, <3>1 DEF InAdd
  <2>3. CASE Head(todo[p]) \notin blocks
    BY <1>8, <2>1, <2>3 DEF NextWaiter, InAdd
  <2> QED
    BY <2>2, <2>3
<1> HIDE DEF Concl
<1>9. Concl
  BY <1>2, <1>3, <1>4, <1>5, <1>6, <1>7, <1>8 DEF Step, Admit, Settle
<1> QED
  BY <1>1, <1>9 DEF Concl

\* A step of Add leaves every index entry a held block of its slot.
LEMMA PositionsStayHeld ==
    ASSUME AddInv, PositionsHeld, NEW p \in Proc, Step(p) \/ \E d \in Digest : Offer(p, d)
    PROVE  PositionsHeld'
<1>0. MemTypeOK /\ block \in [Proc -> Digest \cup {NoDigest}] /\ (pc[p] \in Busy => block[p] \in Digest)
  BY DEF AddInv, StoreInv, TypeInv, TypeOK, InHand
<1>1. CASE UNCHANGED memVars
  BY <1>1 DEF memVars, PositionsHeld
<1>2. CASE Store(p) /\ block[p] \notin blocks
  <2> DEFINE d == block[p]
  <2>1. d \in Digest \ blocks /\ Add(d)
    BY <1>0, <1>2 DEF Store, Busy, PC
  <2>2. blocks' = blocks \cup {d}
    BY <1>0, <2>1, AddType
  <2> HIDE DEF d
  <2> SUFFICES ASSUME NEW s \in Slot, NEW e \in Range(position'[s])
               PROVE  e \in blocks' /\ SlotOf(e) = s
    BY DEF PositionsHeld
  <2>3. position'[s] = IF s = SlotOf(d) THEN Append(position[s], d) ELSE position[s]
    BY <1>0, <2>1, AddedToIndexes
  <2>4. Range(Append(position[s], d)) = Range(position[s]) \cup {d}
    <3>1. position[s] \in Seq(Digest)
      BY <1>0 DEF MemTypeOK
    <3> QED
      BY <2>1, <3>1, RangeAppend
  <2>5. e \in Range(position[s]) \/ (e = d /\ s = SlotOf(d))
    BY <2>3, <2>4
  <2> QED
    BY <2>2, <2>5 DEF PositionsHeld
<1>3. CASE Store(p) /\ block[p] \in blocks
  BY <1>1, <1>3 DEF Store, Add
<1>4. CASE Quiet(p) \/ Record(p) \/ Take(p)
  BY <1>1, <1>4, QuietSteps DEF Record, Take, storeVars
<1> QED
  BY <1>2, <1>3, <1>4, StepCases

\* The store stays without a gap as Add goes on.
LEMMA NoGapsStay ==
    ASSUME Plain, AddInv, NoGaps, NEW p \in Proc, Step(p)
    PROVE  NoGaps'
<1>1. p = syncer
  BY IdleTakesNoStep DEF NoGaps, OnlySyncer
<1>2. [Next]_vars
  BY DEF Next
<1>3. Covered \subseteq Covered'
  BY <1>2, AnswersGrow
<1>4. /\ blocks' \subseteq blocks \cup InAdd /\ InAdd' \subseteq InAdd \cup blocks
      /\ \A q \in Proc \ {syncer} : pc'[q] = pc[q]
  BY <1>1, AddStays
<1>5. Whole(blocks \cup InAdd, Covered')
  BY <1>3 DEF NoGaps, Whole
<1>6. Whole(blocks' \cup InAdd', Covered')
  BY <1>4, <1>5 DEF Whole
<1>7. Whole(blocks \cup InAdd, Covered)'
  BY <1>6 DEF Whole, Behind
<1>8. OnlySyncer' /\ PositionsHeld'
  BY <1>4, PositionsStayHeld DEF NoGaps, OnlySyncer
<1> QED
  BY <1>7, <1>8 DEF NoGaps

\* It stays so when a block is handed over with nothing missing behind it.
LEMMA NoGapsWithMore ==
    ASSUME Plain, AddInv, NoGaps, NEW d \in Digest, Offer(syncer, d), Whole({d}, Covered)
    PROVE  NoGaps'
<1>0. syncer \in Proc /\ pc \in [Proc -> PC] /\ block \in [Proc -> Digest \cup {NoDigest}]
  BY SyncAssumption DEF AddInv, StoreInv, TypeInv, TypeOK
<1>1. /\ UNCHANGED <<blocks, position>> /\ block' = [block EXCEPT ![syncer] = d]
      /\ pc' = [pc EXCEPT ![syncer] = "lookup"]
  BY DEF Offer, Goto, storeVars, memVars
<1>2. [Next]_vars
  BY <1>0 DEF Next
<1>3. Covered \subseteq Covered'
  BY <1>2, AnswersGrow
<1>4. InAdd' \subseteq {d}
  BY <1>0, <1>1 DEF InAdd
<1>5. Whole(blocks' \cup InAdd', Covered')
  BY <1>1, <1>3, <1>4 DEF NoGaps, Whole
<1>6. Whole(blocks \cup InAdd, Covered)'
  BY <1>5 DEF Whole, Behind
<1>7. OnlySyncer' /\ PositionsHeld'
  BY <1>0, <1>1 DEF NoGaps, OnlySyncer, PositionsHeld
<1> QED
  BY <1>6, <1>7 DEF NoGaps
-----------------------------------------------------------------------------
\* The source holds the chain of the tip it claimed, which is the author's.
Served(c, held) ==
    c.at \in Following =>
        Chain(ClaimOf(c)) \subseteq {d \in held[Head(c.sources)] : content[d].pub = c.pub}

\* What is handed over next has nothing missing behind it.
Handing(c, C, cut) ==
    /\ c.at \in Offering => \A d \in Range(c.hand) : content[d].pub = c.pub
    /\ c.at = "add" \/ (c.at = "offer" /\ ~cut) => InSequence(c.hand, C)
    /\ IF c.at = "add" THEN Whole(Range(c.foreign), C) ELSE c.foreign = <<>>
    /\ c.at \in {"sibling", "added"} => Whole(Range(c.hand), C)

\* Siblings are asked for only after blocks with nothing missing behind them.
Querying(c, C) ==
    c.at \in {"siblings", "sibling", "added"} =>
        \A q \in Range(c.queries) : q[1] # NoDigest => Chain(q[1]) \subseteq C

\* The pursuit goes down the chain of the claim, and its bound suffices.
Descending(c) ==
    /\ \A k \in DOMAIN c.walked :
          /\ content[c.walked[k]].pub = c.pub
          /\ Behind(c.walked[k]) \subseteq Chain(c.target) \cup {c.walked[j] : j \in (k + 1)..Len(c.walked)}
    /\ Chain(c.target) \subseteq Chain(ClaimOf(c))
    /\ Chain(ClaimOf(c)) \subseteq Chain(c.target) \cup Range(c.walked)
    /\ Len(c.walked) + Cardinality(Chain(c.target)) <= MaxPursuit

Walking(c, C) ==
    /\ c.at # "pursue" => c.walked = <<>>
    /\ c.at = "pursue" => Descending(c)
    /\ c.then = "walk" => \/ c.reports[Head(c.sources)].end = "failed"
                          \/ Chain(ClaimOf(c)) \subseteq C \cup Range(c.hand)

WholeReport(r, C) == r.tip = NoDigest \/ r.err \/ r.end = "failed" \/ Chain(r.tip) \subseteq C

ReportedWhole(c, C, cut) ==
    \A i \in Source : \/ c.at \in Asking /\ i = Head(c.sources)
                      \/ WholeReport(c.reports[i], C)
                      \/ Doomed(c, cut)

CallWhole(c, C, cut, held) ==
    Served(c, held) /\ Handing(c, C, cut) /\ Querying(c, C) /\ Walking(c, C) /\ ReportedWhole(c, C, cut)

FinishedAreWhole == \A r \in Finished : \A x \in Chain(r.tip) : HeldOrUnsound(x)

WholeInv == NoGaps /\ CallWhole(call, Covered, cancelled, serves) /\ FinishedAreWhole
-----------------------------------------------------------------------------
\* What a call has left whole stays so as the store and the sources grow.
LEMMA WholeGrows ==
    ASSUME NEW c, c \in Call, c.at \in Asking => c.sources # <<>>,
           NEW C, NEW cut, NEW held, CallWhole(c, C, cut, held),
           NEW wider, C \subseteq wider, NEW now, cut => now,
           NEW more, \A i \in Source : held[i] \subseteq more[i]
    PROVE  CallWhole(c, wider, now, more)
<1>1. Served(c, more)
  <2> SUFFICES ASSUME c.at \in Following
               PROVE  Chain(ClaimOf(c)) \subseteq {d \in more[Head(c.sources)] : content[d].pub = c.pub}
    BY DEF Served
  <2>1. c.sources \in Seq(Source) /\ c.sources # <<>>
    BY CallFields DEF Following
  <2>2. Head(c.sources) \in Source
    BY <2>1, RangeHeadTail
  <2>3. Chain(ClaimOf(c)) \subseteq {d \in held[Head(c.sources)] : content[d].pub = c.pub}
    BY DEF CallWhole, Served
  <2> QED
    BY <2>2, <2>3
<1>2. Handing(c, wider, now)
  BY DEF CallWhole, Handing, InSequence, Whole
<1>3. Querying(c, wider)
  BY DEF CallWhole, Querying
<1>4. Walking(c, wider)
  BY DEF CallWhole, Walking
<1>5. ReportedWhole(c, wider, now)
  BY DEF CallWhole, ReportedWhole, WholeReport, Doomed
<1> QED
  BY <1>1, <1>2, <1>3, <1>4, <1>5 DEF CallWhole

\* A finished report stays whole as the store grows.
LEMMA FinishedGrow ==
    ASSUME FinishedAreWhole, blocks \subseteq blocks', UNCHANGED result
    PROVE  FinishedAreWhole'
<1>1. \A x : HeldOrUnsound(x) => HeldOrUnsound(x)'
  BY DEF HeldOrUnsound
<1>2. Finished' = Finished
  BY DEF Finished
<1> QED
  BY <1>1, <1>2 DEF FinishedAreWhole

\* Without a step of the store there is no new gap.
LEMMA NoGapsStill ==
    ASSUME NoGaps, UNCHANGED vars
    PROVE  NoGaps'
<1>1. UNCHANGED <<blocks, position, block, arrived, pc>>
  BY DEF vars, storeVars, memVars, callVars
<1>2. Covered' = Covered /\ InAdd' = InAdd
  BY <1>1 DEF Covered, Adding, HeldOrUnsound, InAdd
<1> QED
  BY <1>1, <1>2 DEF NoGaps, OnlySyncer, PositionsHeld, Whole, Behind

\* A step of the call that leaves the store alone.
LEMMA ProceedWhole ==
    ASSUME SyncInv, WholeInv, NEW c, Proceed(c), CallWhole(c, Covered, cancelled, serves)
    PROVE  WholeInv'
<1>1. call' = c /\ UNCHANGED <<vars, serves, fromHeld, resume, cancelled, refused, result>>
  BY DEF Proceed
<1>2. blocks' = blocks /\ Covered' = Covered
  BY <1>1, StoreStays
<1>3. NoGaps'
  BY <1>1, NoGapsStill DEF WholeInv
<1>4. FinishedAreWhole'
  BY <1>1, <1>2, FinishedGrow DEF WholeInv
<1>5. CallWhole(call', Covered', cancelled', serves')
  BY <1>1, <1>2
<1>6. CallWhole(call, Covered, cancelled, serves)'
  BY <1>5 DEF CallWhole, Served, Handing, Querying, Walking, Descending, ReportedWhole,
              WholeReport, InSequence, Whole, Behind, Chain
<1> QED
  BY <1>3, <1>4, <1>6 DEF WholeInv

\* A block is handed to the store, with nothing missing behind it.
LEMMA HandWhole ==
    ASSUME Plain, SyncInv, WholeInv, NEW d \in Digest, NEW c, Hand(d, c),
           c \in Call, c.at \in Asking => c.sources # <<>>,
           Whole({d}, Covered), CallWhole(c, Covered \cup {d}, cancelled, serves)
    PROVE  WholeInv'
<1>0. syncer \in Proc
  BY SyncAssumption
<1>1. /\ Offer(syncer, d) /\ call' = c
      /\ UNCHANGED <<serves, fromHeld, resume, cancelled, result>>
  BY DEF Hand
<1>2. [Next]_vars
  BY <1>0, <1>1 DEF Next
<1>3. blocks \subseteq blocks' /\ Covered \subseteq Covered'
  BY <1>2, AnswersGrow, Grows DEF SyncInv, AddInv, StoreInv
<1>4. d \in Covered'
  <2>1. pc[syncer] = "idle" /\ arrived[syncer] = NoDigest /\ arrived' = arrived
    BY <1>0, <1>1 DEF Offer, SyncInv, AddInv, AddPart
  <2>2. block'[syncer] = d /\ pc'[syncer] = "lookup"
    BY <1>0, <1>1 DEF Offer, Goto, SyncInv, AddInv, StoreInv, TypeInv, TypeOK
  <2> QED
    BY <2>1, <2>2 DEF Covered, Adding, Busy, PC
<1>5. NoGaps'
  BY <1>1, NoGapsWithMore DEF WholeInv, SyncInv
<1>6. FinishedAreWhole'
  BY <1>1, <1>3, FinishedGrow DEF WholeInv
<1>7. Covered \cup {d} \subseteq Covered'
  BY <1>3, <1>4
<1>8. CallWhole(c, Covered', cancelled, serves)
  BY <1>7, WholeGrows
<1>9. CallWhole(call', Covered', cancelled', serves')
  BY <1>1, <1>8
<1>10. CallWhole(call, Covered, cancelled, serves)'
  BY <1>9 DEF CallWhole, Served, Handing, Querying, Walking, Descending, ReportedWhole,
              WholeReport, InSequence, Whole, Behind, Chain
<1> QED
  BY <1>5, <1>6, <1>10 DEF WholeInv

\* The call is whole, as it stands.
LEMMA CallIs ==
    ASSUME SyncInv, WholeInv
    PROVE  /\ CallOk(call, Answered, Covered, cancelled)
           /\ CallWhole(call, Covered, cancelled, serves)
           /\ NoGaps /\ SyncVarsOk /\ call \in Call
  BY DEF SyncInv, WholeInv, CallOk
-----------------------------------------------------------------------------
\* syncFrom returns: with an error, a failed pursuit or a chain the store
\* covers, unless the context is done.
LEMMA SourceDoneWhole ==
    ASSUME SyncInv, WholeInv, call.at \in Asking, call.at # "add",
           NEW end \in PursuitEnd, NEW err \in BOOLEAN,
           Proceed(SourceDone(call, end, err)),
           err \/ end = "failed" \/ Chain(claimed) \subseteq Covered \/ cancelled
    PROVE  WholeInv'
<1> DEFINE n == SourceDone(call, end, err)
           r == [call.reports[asked] EXCEPT !.end = end, !.err = err]
<1>1. /\ call \in Call /\ call.sources # <<>> /\ call.all # <<>>
      /\ CallWhole(call, Covered, cancelled, serves)
  BY CallIs DEF CallOk, Shape, Asking
<1>2. asked \in Source /\ call.reports[asked] \in SourceSync
      /\ call.reports \in [Source -> SourceSync]
  BY <1>1, AskedSource, CallFields
<1>3. r.tip = claimed /\ r.end = end /\ r.err = err
  BY <1>2 DEF SourceSync, claimed
<1>4. n.reports = [call.reports EXCEPT ![asked] = r]
  BY <1>1, <1>2 DEF SourceDone, Call, SourceSync
<1>5. /\ n.at = "source" /\ n.pub = call.pub /\ n.all = call.all /\ n.then = "none"
      /\ n.walked = <<>> /\ n.hand = <<>> /\ n.foreign = call.foreign
  BY <1>1 DEF SourceDone, Call
<1> HIDE DEF n, r
<1>6. ReportedWhole(n, Covered, cancelled)
  <2>1. ASSUME NEW i \in Source, i # asked PROVE WholeReport(n.reports[i], Covered)
    <3>1. n.reports[i] = call.reports[i]
      BY <1>2, <1>4, <2>1
    <3> QED
      BY <1>1, <2>1, <3>1 DEF CallWhole, ReportedWhole, Doomed, Asking, asked
  <2>2. n.reports[asked] = r
    BY <1>2, <1>4
  <2>3. WholeReport(n.reports[asked], Covered) \/ Doomed(n, cancelled)
    BY <1>1, <1>3, <1>5, <2>2 DEF WholeReport, Doomed
  <2> QED
    BY <2>1, <2>3 DEF ReportedWhole
<1>7. Served(n, serves) /\ Querying(n, Covered) /\ Walking(n, Covered)
  BY <1>5 DEF Served, Querying, Walking, Following, Asking
<1>8. Handing(n, Covered, cancelled)
  BY <1>1, <1>5 DEF CallWhole, Handing, Offering
<1>9. CallWhole(n, Covered, cancelled, serves)
  BY <1>6, <1>7, <1>8 DEF CallWhole
<1> QED
  BY <1>9, ProceedWhole DEF n

\* The call turns to the next source.
LEMMA NextSourceWhole ==
    ASSUME SyncInv, WholeInv, NextSource
    PROVE  WholeInv'
<1> DEFINE n == [call EXCEPT !.at = "tip"]
<1>1. CallWhole(call, Covered, cancelled, serves) /\ call.at = "source" /\ call \in Call
      /\ ~cancelled /\ Proceed(n)
  BY CallIs DEF NextSource
<1>2. /\ n.at = "tip" /\ n.sources = call.sources /\ n.then = call.then
      /\ n.walked = call.walked /\ n.reports = call.reports /\ n.foreign = call.foreign
  BY <1>1 DEF Call
<1>t. call.then # "walk"
  BY <1>1, CallIs DEF CallOk, Shape, Offering
<1> HIDE DEF n
<1>3. Served(n, serves) /\ Querying(n, Covered)
  BY <1>2 DEF Served, Following, Querying
<1>4. Handing(n, Covered, cancelled) /\ Walking(n, Covered)
  BY <1>1, <1>2, <1>t DEF CallWhole, Handing, Walking, Offering
<1>5. ReportedWhole(n, Covered, cancelled)
  BY <1>1, <1>2 DEF CallWhole, ReportedWhole, Doomed, Asking
<1> QED
  BY <1>1, <1>3, <1>4, <1>5, ProceedWhole DEF CallWhole

\* The source is asked for its tip: it holds the chain.
LEMMA AskTipWhole ==
    ASSUME Dependable, SyncInv, WholeInv, AskTip
    PROVE  WholeInv'
<1>1. /\ CallWhole(call, Covered, cancelled, serves) /\ call.at = "tip" /\ call.at \in Asking
      /\ call \in Call /\ call.sources # <<>> /\ SyncVarsOk
  BY CallIs DEF AskTip, Asking, CallOk, Shape
<1>2. CASE Proceed(SourceDone(call, "none", TRUE))
  BY <1>1, <1>2, SourceDoneWhole DEF PursuitEnd
<1>3. ASSUME NEW t \in TipAnswers(asked, call.pub),
             Proceed([call EXCEPT !.at = "range", !.reports[asked].tip = t,
                                  !.after = Position(call.pub)])
      PROVE  WholeInv'
  <2> DEFINE from == Position(call.pub)
             r == [call.reports[asked] EXCEPT !.tip = t]
             rs == [call.reports EXCEPT ![asked] = r]
             n == [call EXCEPT !.at = "range", !.reports = rs, !.after = from]
  <2>1. asked \in Source /\ call.reports[asked] \in SourceSync /\ call.reports \in [Source -> SourceSync]
    BY <1>1, AskedSource, CallFields
  <2>2. Chain(t) \subseteq {d \in serves[asked] : content[d].pub = call.pub}
    <3>1. serves[asked] \in SUBSET Digest
      BY <1>1, <2>1 DEF SyncVarsOk
    <3>2. asked \in Honest
      BY <2>1 DEF Dependable
    <3>3. t = TipOf(serves[asked], call.pub) /\ t # NoDigest
      BY <1>3, <3>2 DEF TipAnswers
    <3>4. /\ Chain(TipOf(serves[asked], call.pub)) \subseteq serves[asked]
          /\ \A x \in Chain(TipOf(serves[asked], call.pub)) : content[x].pub = call.pub
      BY <3>1, <3>3, HeldTipIsCovered
    <3> QED
      BY <3>3, <3>4
  <2>3. r.tip = t
    BY <2>1 DEF SourceSync
  <2>4. rs[asked] = r /\ \A i \in Source : i # asked => rs[i] = call.reports[i]
    BY <2>1
  <2>5. Proceed(n)
    BY <1>1, <1>3, <2>1 DEF Call, SourceSync
  <2> HIDE DEF from, r, rs
  <2>6. /\ n.at = "range" /\ n.sources = call.sources /\ n.then = call.then /\ n.pub = call.pub
        /\ n.walked = call.walked /\ n.reports = rs /\ n.foreign = call.foreign
    BY <1>1 DEF Call
  <2>t. call.then # "walk"
    BY <1>1, CallIs DEF CallOk, Shape, Offering
  <2> HIDE DEF n
  <2>7. ClaimOf(n) = t /\ Head(n.sources) = asked
    BY <2>3, <2>4, <2>6 DEF ClaimOf, asked
  <2>8. Served(n, serves) /\ Querying(n, Covered)
    BY <2>2, <2>6, <2>7 DEF Served, Querying
  <2>9. Handing(n, Covered, cancelled) /\ Walking(n, Covered)
    BY <1>1, <2>6, <2>t DEF CallWhole, Handing, Walking, Offering
  <2>10. ReportedWhole(n, Covered, cancelled)
    BY <1>1, <2>4, <2>6, <2>7 DEF CallWhole, ReportedWhole, Doomed, Asking, asked
  <2> QED
    BY <2>5, <2>8, <2>9, <2>10, ProceedWhole DEF CallWhole
<1> QED
  BY <1>2, <1>3 DEF AskTip

\* A range from an honest source is of blocks of the author.
LEMMA RangeIsOfAuthor ==
    ASSUME SyncVarsOk, NEW i \in Source \cap Honest, NEW pub, NEW after,
           NEW s \in RangeAnswers(i, pub, after)
    PROVE  \A d \in Range(s) : content[d].pub = pub
<1> DEFINE held == serves[i]
<1>1. held \in SUBSET Digest /\ PageLimit \in Nat
  BY Bounds DEF SyncVarsOk
<1>2. s = Walk(held, pub, after, PageLimit)
  BY DEF RangeAnswers
<1> HIDE DEF held
<1>3. s \in Paths(held, pub, after)
  BY <1>1, <1>2, WalkIsPath
<1>4. s \in Seq(held)
  BY <1>3 DEF Paths
<1>5. ASSUME NEW n \in 1..Len(s) PROVE content[s[n]].pub = pub
  <2> DEFINE here == At(held, pub, Before(s, n, after))
  <2>1. here # {} /\ s[n] = branch(here)
    BY <1>3 DEF Paths
  <2>2. here \in SUBSET Digest /\ \A d \in here : content[d].pub = pub
    BY <1>1 DEF At, Claims
  <2> HIDE DEF here
  <2> QED
    BY <2>1, <2>2, BranchLowest
<1> QED
  BY <1>4, <1>5 DEF Range

\* The ranges are over, by their bound or by an empty answer.
LEMMA RangesEndWhole ==
    ASSUME SyncInv, WholeInv, call.at = "range", Proceed([call EXCEPT !.at = "check"])
    PROVE  WholeInv'
<1> DEFINE n == [call EXCEPT !.at = "check"]
<1>1. CallWhole(call, Covered, cancelled, serves) /\ call \in Call
  BY CallIs
<1>2. /\ n.at = "check" /\ n.sources = call.sources /\ n.then = call.then /\ n.pub = call.pub
      /\ n.walked = call.walked /\ n.reports = call.reports /\ n.foreign = call.foreign
  BY <1>1 DEF Call
<1>t. call.then # "walk"
  BY CallIs DEF CallOk, Shape, Offering
<1>p. Proceed(n)
  OBVIOUS
<1> HIDE DEF n
<1>3. Served(n, serves) /\ Querying(n, Covered)
  BY <1>1, <1>2 DEF CallWhole, Served, Following, Asking, Querying, ClaimOf
<1>4. Handing(n, Covered, cancelled) /\ Walking(n, Covered)
  BY <1>1, <1>2, <1>t DEF CallWhole, Handing, Walking, Offering
<1>5. ReportedWhole(n, Covered, cancelled)
  BY <1>1, <1>2 DEF CallWhole, ReportedWhole, Doomed, Asking
<1> QED
  BY <1>p, <1>3, <1>4, <1>5, ProceedWhole DEF CallWhole

\* The source is asked for a range, which goes on from what is covered.
LEMMA AskRangeWhole ==
    ASSUME Dependable, SyncInv, WholeInv, AskRange
    PROVE  WholeInv'
<1>1. /\ CallWhole(call, Covered, cancelled, serves) /\ call.at = "range" /\ call.at \in Asking
      /\ call \in Call /\ call.sources # <<>> /\ SyncVarsOk /\ Paged(call, Covered)
  BY CallIs DEF AskRange, Asking, CallOk, Shape
<1>2. asked \in Source \cap Honest
  BY <1>1, AskedSource DEF Dependable
<1>3. CASE Proceed(SourceDone(call, "none", TRUE))
  BY <1>1, <1>3, SourceDoneWhole DEF PursuitEnd
<1>4. CASE Proceed([call EXCEPT !.at = "check"])
  BY <1>1, <1>4, RangesEndWhole
<1>5. ASSUME NEW s \in RangeAnswers(asked, call.pub, call.after), s # <<>>,
             Proceed([call EXCEPT !.at = "offer", !.hand = s, !.after = Last(s), !.then = "page"])
      PROVE  WholeInv'
  <2> DEFINE last == Last(s)
             n == [call EXCEPT !.at = "offer", !.hand = s, !.after = last, !.then = "page"]
  <2>1. s \in Seq(Digest) /\ \A i \in 1..Len(s) : content[s[i]].prev = Before(s, i, call.after)
    BY <1>1, <1>2, <1>5, RangeIsRun
  <2>2. call.after \in Digest \cup {NoDigest}
        /\ (call.after # NoDigest => Chain(call.after) \subseteq Covered)
    BY <1>1, CallFields DEF Paged
  <2>3. InSequence(s, Covered)
    BY <2>1, <2>2, RunInSequence
  <2>4. \A d \in Range(s) : content[d].pub = call.pub
    BY <1>1, <1>2, <1>5, RangeIsOfAuthor
  <2> HIDE DEF last
  <2>5. Proceed(n)
    BY <1>5 DEF last
  <2>6. /\ n.at = "offer" /\ n.sources = call.sources /\ n.then = "page" /\ n.pub = call.pub
        /\ n.walked = call.walked /\ n.reports = call.reports /\ n.foreign = call.foreign
        /\ n.hand = s
    BY <1>1 DEF Call
  <2> HIDE DEF n
  <2>7. Served(n, serves) /\ Querying(n, Covered)
    BY <1>1, <2>6 DEF CallWhole, Served, Following, Asking, Querying, ClaimOf
  <2>8. Handing(n, Covered, cancelled) /\ Walking(n, Covered)
    BY <1>1, <2>3, <2>4, <2>6 DEF CallWhole, Handing, Walking, Offering
  <2>9. ReportedWhole(n, Covered, cancelled)
    BY <1>1, <2>6 DEF CallWhole, ReportedWhole, Doomed, Asking
  <2> QED
    BY <2>5, <2>7, <2>8, <2>9, ProceedWhole DEF CallWhole
<1> QED
  BY <1>3, <1>4, <1>5 DEF AskRange

\* A page has been offered.
LEMMA PageOfferedWhole ==
    ASSUME SyncInv, WholeInv, PageOffered
    PROVE  WholeInv'
<1> DEFINE next == IF call.after = claimed THEN "check" ELSE "range"
           n == [call EXCEPT !.at = next, !.page = @ + 1]
<1>1. /\ CallWhole(call, Covered, cancelled, serves) /\ call.at = "offer" /\ call.then = "page"
      /\ call \in Call
  BY CallIs DEF PageOffered
<1>2. call' = n /\ UNCHANGED <<vars, serves, fromHeld, cancelled, refused, result>>
  BY DEF PageOffered
<1>3. next \in {"check", "range"}
  OBVIOUS
<1> HIDE DEF next
<1>4. /\ n.at = next /\ n.sources = call.sources /\ n.then = "page" /\ n.pub = call.pub
      /\ n.walked = call.walked /\ n.reports = call.reports /\ n.foreign = call.foreign
  BY <1>1 DEF Call
<1> HIDE DEF n
<1>5. Served(n, serves) /\ Querying(n, Covered)
  BY <1>1, <1>3, <1>4 DEF CallWhole, Served, Following, Asking, Querying, ClaimOf
<1>6. Handing(n, Covered, cancelled) /\ Walking(n, Covered)
  BY <1>1, <1>3, <1>4 DEF CallWhole, Handing, Walking, Offering
<1>7. ReportedWhole(n, Covered, cancelled)
  BY <1>1, <1>3, <1>4 DEF CallWhole, ReportedWhole, Doomed, Asking
<1>8. CallWhole(n, Covered, cancelled, serves)
  BY <1>5, <1>6, <1>7 DEF CallWhole
<1>9. blocks' = blocks /\ Covered' = Covered
  BY <1>2, StoreStays
<1>10. NoGaps' /\ FinishedAreWhole'
  BY <1>2, <1>9, NoGapsStill, FinishedGrow DEF WholeInv
<1>11. CallWhole(call', Covered', cancelled', serves')
  BY <1>2, <1>8, <1>9
<1>12. CallWhole(call, Covered, cancelled, serves)'
  BY <1>11 DEF CallWhole, Served, Handing, Querying, Walking, Descending, ReportedWhole,
              WholeReport, InSequence, Whole, Behind, Chain
<1> QED
  BY <1>10, <1>12 DEF WholeInv
-----------------------------------------------------------------------------
\* While a pursuit lasts, the source holds what is ahead of it.
LEMMA TargetIsServed ==
    ASSUME SyncInv, WholeInv, call.at = "pursue"
    PROVE  /\ call.target \in Digest /\ claimed \in Digest /\ asked \in Source
           /\ call.walked \in Seq(Digest)
           /\ ClaimOf(call) = claimed /\ Descending(call) /\ call.pub \in Authors
           /\ Chain(claimed) \subseteq serves[asked]
           /\ \A x \in Chain(claimed) : content[x].pub = call.pub
           /\ call.target \in serves[asked] /\ content[call.target].pub = call.pub
<1>1. /\ CallWhole(call, Covered, cancelled, serves) /\ call \in Call /\ call.at \in Asking
      /\ call.sources # <<>> /\ call.pub \in Authors /\ call.target \in Digest
      /\ ClaimOf(call) \in Digest
  BY CallIs DEF CallOk, Shape, Asking, Following
<1>2. ClaimOf(call) = claimed /\ asked \in Source /\ call.walked \in Seq(Digest)
  BY <1>1, AskedSource, CallFields
<1>3. Chain(claimed) \subseteq {x \in serves[asked] : content[x].pub = call.pub}
  BY <1>1, <1>2 DEF CallWhole, Served, Following, Asking, asked
<1>4. Descending(call)
  BY <1>1 DEF CallWhole, Walking
<1>5. call.target \in Chain(claimed)
  BY <1>1, <1>2, <1>4, ChainType DEF Descending
<1> QED
  BY <1>1, <1>2, <1>3, <1>4, <1>5

\* Blocks listed from the newest down, turned round, are in sequence.
LEMMA ReverseInSequence ==
    ASSUME NEW s \in Seq(Digest), NEW C, NEW B \in SUBSET C,
           \A k \in DOMAIN s : Behind(s[k]) \subseteq B \cup {s[j] : j \in (k + 1)..Len(s)}
    PROVE  InSequence(Reverse(s), C)
<1> DEFINE r == Reverse(s)
           len == Len(s)
<1>1. len \in Nat /\ DOMAIN s = 1..len
  OBVIOUS
<1>2. r = [i \in 1..len |-> s[(len - i) + 1]]
  BY DEF Reverse
<1>3. DOMAIN r = 1..len /\ \A i \in 1..len : r[i] = s[(len - i) + 1]
  BY <1>2
<1> HIDE DEF r, len
<1>4. ASSUME NEW k \in 1..len PROVE Behind(r[k]) \subseteq C \cup {r[j] : j \in 1..(k - 1)}
  <2> DEFINE m == (len - k) + 1
  <2>1. m \in 1..len /\ r[k] = s[m]
    BY <1>1, <1>3
  <2>2. \A j \in (m + 1)..len : (len - j) + 1 \in 1..(k - 1) /\ (len - j) + 1 \in 1..len
                                /\ (len - ((len - j) + 1)) + 1 = j
    BY <1>1
  <2> HIDE DEF m
  <2>3. Behind(s[m]) \subseteq B \cup {s[j] : j \in (m + 1)..len}
    BY <1>1, <2>1 DEF len
  <2>4. ASSUME NEW j \in (m + 1)..len PROVE s[j] \in {r[i] : i \in 1..(k - 1)}
    <3> DEFINE i == (len - j) + 1
    <3>1. i \in 1..(k - 1) /\ i \in 1..len /\ (len - i) + 1 = j
      BY <2>2
    <3>2. r[i] = s[j]
      BY <1>3, <3>1
    <3> QED
      BY <3>1, <3>2
  <2> QED
    BY <2>1, <2>3, <2>4
<1> QED
  BY <1>3, <1>4 DEF InSequence, r

\* One more block at the end of what was walked.
LEMMA WalkedFurther ==
    ASSUME NEW s \in Seq(Digest), NEW d \in Digest,
           \A k \in DOMAIN s : Behind(s[k]) \subseteq Chain(d) \cup {s[j] : j \in (k + 1)..Len(s)}
    PROVE  LET t == Append(s, d) IN
           \A k \in DOMAIN t : Behind(t[k]) \subseteq Behind(d) \cup {t[j] : j \in (k + 1)..Len(t)}
<1> DEFINE t == Append(s, d)
           len == Len(s)
<1>1. /\ len \in Nat /\ DOMAIN s = 1..len /\ DOMAIN t = 1..(len + 1) /\ Len(t) = len + 1
      /\ t[len + 1] = d /\ \A i \in 1..len : t[i] = s[i]
  BY AppendProperties
<1>4a. Chain(d) = {d} \cup Behind(d)
  BY BehindIs
<1> HIDE DEF t
<1>2. ASSUME NEW k \in 1..(len + 1) PROVE Behind(t[k]) \subseteq Behind(d) \cup {t[j] : j \in (k + 1)..Len(t)}
  <2>1. CASE k = len + 1
    BY <1>1, <2>1
  <2>2. CASE k \in 1..len
    <3>1. Behind(s[k]) \subseteq Chain(d) \cup {s[j] : j \in (k + 1)..len}
      BY <1>1, <2>2
    <3>2. d \in {t[j] : j \in (k + 1)..Len(t)}
      <4>1. len + 1 \in (k + 1)..Len(t)
        BY <1>1, <2>2
      <4> QED
        BY <1>1, <4>1
    <3>3. ASSUME NEW j \in (k + 1)..len PROVE s[j] \in {t[i] : i \in (k + 1)..Len(t)}
      <4>1. j \in 1..len /\ j \in (k + 1)..Len(t)
        BY <1>1, <2>2
      <4> QED
        BY <1>1, <4>1
    <3>4. t[k] = s[k]
      BY <1>1, <2>2
    <3> QED
      BY <1>4a, <3>1, <3>2, <3>3, <3>4
  <2>3. k = len + 1 \/ k \in 1..len
    BY <1>1
  <2> QED
    BY <2>1, <2>2, <2>3
<1> QED
  BY <1>1, <1>2 DEF t

\* What a pursuit walked is handed over, oldest first.
LEMMA OfferWalkWhole ==
    ASSUME SyncInv, WholeInv, call.at = "pursue",
           NEW end \in PursuitEnd, NEW walked \in Seq(Digest),
           Proceed(OfferWalk(end, walked)),
           \A d \in Range(walked) : content[d].pub = call.pub,
           cancelled \/ InSequence(Reverse(walked), Covered),
           end = "failed" \/ Chain(claimed) \subseteq Covered \cup Range(walked)
    PROVE  WholeInv'
<1> DEFINE n == OfferWalk(end, walked)
           back == Reverse(walked)
           r == [call.reports[asked] EXCEPT !.end = end]
           rs == [call.reports EXCEPT ![asked] = r]
<1>1. /\ CallWhole(call, Covered, cancelled, serves) /\ call \in Call /\ call.sources # <<>>
  BY CallIs DEF CallOk, Shape, Asking
<1>2. asked \in Source /\ call.reports[asked] \in SourceSync /\ call.reports \in [Source -> SourceSync]
      /\ ClaimOf(call) = claimed
  BY <1>1, AskedSource, CallFields
<1>3. r.tip = claimed /\ r.end = end
  BY <1>2 DEF SourceSync, claimed
<1>4. rs[asked] = r /\ \A i \in Source : i # asked => rs[i] = call.reports[i]
  BY <1>2
<1>5. Range(back) = Range(walked)
  BY ReverseOf
<1>6. n = [call EXCEPT !.at = "offer", !.then = "walk", !.hand = back, !.walked = <<>>, !.reports = rs]
  BY <1>1, <1>2 DEF OfferWalk, Call, SourceSync
<1>p. Proceed(n) /\ (cancelled \/ InSequence(back, Covered))
  OBVIOUS
<1> HIDE DEF n, back, r, rs
<1>7. /\ n.at = "offer" /\ n.sources = call.sources /\ n.then = "walk" /\ n.pub = call.pub
      /\ n.walked = <<>> /\ n.reports = rs /\ n.hand = back /\ n.foreign = call.foreign
  BY ONLY <1>1, <1>6 DEF Call
<1>8. ClaimOf(n) = claimed /\ Head(n.sources) = asked /\ n.reports[Head(n.sources)].end = end
  BY <1>3, <1>4, <1>7 DEF ClaimOf, asked
<1>9. Served(n, serves) /\ Querying(n, Covered)
  BY <1>1, <1>2, <1>7, <1>8 DEF CallWhole, Served, Following, Asking, Querying, asked
<1>10. Handing(n, Covered, cancelled)
  BY <1>1, <1>p, <1>5, <1>7 DEF CallWhole, Handing
<1>11. Walking(n, Covered)
  BY <1>5, <1>7, <1>8 DEF Walking
<1>12. ReportedWhole(n, Covered, cancelled)
  BY <1>1, <1>4, <1>7, <1>8 DEF CallWhole, ReportedWhole, Doomed, Asking, asked
<1> QED
  BY <1>p, <1>9, <1>10, <1>11, <1>12, ProceedWhole DEF CallWhole

\* A claimed tip that is held has its chain behind it; another is pursued.
LEMMA CheckWhole ==
    ASSUME Dependable, SyncInv, WholeInv, Check
    PROVE  WholeInv'
<1>1. /\ CallWhole(call, Covered, cancelled, serves) /\ call.at = "check" /\ call.at \in Asking
      /\ call \in Call /\ call.sources # <<>> /\ NoGaps /\ call.pub \in Authors
      /\ ClaimOf(call) \in Digest /\ call.then # "walk"
  BY CallIs DEF Check, Asking, Following, Offering, CallOk, Shape
<1>2. ClaimOf(call) = claimed /\ asked \in Source
  BY <1>1, AskedSource
<1>3. \A x \in Chain(claimed) : content[x].pub = call.pub
  BY <1>1, <1>2 DEF CallWhole, Served, Following, Asking
<1>4. CASE claimed \in blocks
  <2>1. content[claimed].pub \in Authors
    BY <1>1, <1>2, <1>3, ChainType
  <2>2. Behind(claimed) \subseteq Covered
    BY <1>1, <1>4, <2>1 DEF NoGaps, Whole
  <2>3. claimed \in Covered
    BY <1>1, <1>2, <1>4 DEF Covered, HeldOrUnsound
  <2>4. Chain(claimed) \subseteq Covered
    BY <1>1, <1>2, <2>2, <2>3, BehindIs
  <2>5. Proceed(SourceDone(call, "none", FALSE))
    BY <1>4 DEF Check
  <2> QED
    BY <1>1, <2>4, <2>5, SourceDoneWhole DEF PursuitEnd
<1>5. CASE claimed \notin blocks
  <2> DEFINE t == claimed
             n == [call EXCEPT !.at = "pursue", !.target = t]
  <2>1. Proceed(n)
    BY <1>5 DEF Check
  <2>2. /\ n.at = "pursue" /\ n.sources = call.sources /\ n.then = call.then /\ n.pub = call.pub
        /\ n.walked = call.walked /\ n.reports = call.reports /\ n.foreign = call.foreign
        /\ n.target = t
    BY <1>1 DEF Call
  <2> HIDE DEF n
  <2>3. ClaimOf(n) = claimed /\ n.walked = <<>>
    BY <1>1, <1>2, <2>2 DEF ClaimOf, CallWhole, Walking
  <2>4. Len(n.walked) = 0 /\ DOMAIN n.walked = {}
    BY <2>3
  <2>5. Cardinality(Chain(t)) \in Nat /\ Cardinality(Chain(t)) <= MaxPursuit
    <3>1. content[t].pub \in Authors
      BY <1>1, <1>2, <1>3, ChainType
    <3> QED
      BY <1>1, <1>2, <3>1, ChainCounts DEF Dependable
  <2> HIDE DEF t
  <2>6. Len(n.walked) + Cardinality(Chain(n.target)) <= MaxPursuit
    BY <2>2, <2>4, <2>5
  <2>7. Descending(n)
    BY <2>2, <2>3, <2>4, <2>6 DEF Descending, t
  <2>8. Served(n, serves) /\ Querying(n, Covered)
    BY <1>1, <2>2 DEF CallWhole, Served, Following, Asking, Querying, ClaimOf
  <2>9. Handing(n, Covered, cancelled) /\ Walking(n, Covered)
    BY <1>1, <2>2, <2>7 DEF CallWhole, Handing, Walking, Offering
  <2>10. ReportedWhole(n, Covered, cancelled)
    BY <1>1, <2>2 DEF CallWhole, ReportedWhole, Doomed, Asking
  <2> QED
    BY <2>1, <2>8, <2>9, <2>10, ProceedWhole DEF CallWhole
<1> QED
  BY <1>4, <1>5

\* The pursuit meets a held block, which has nothing missing behind it.
LEMMA PursuitMeetsWhole ==
    ASSUME SyncInv, WholeInv, PursuitMeets
    PROVE  WholeInv'
<1>1. call.at = "pursue" /\ call.target \in blocks /\ Proceed(OfferWalk("held", call.walked))
  BY DEF PursuitMeets
<1>2. /\ call.target \in Digest /\ claimed \in Digest /\ call.walked \in Seq(Digest)
      /\ ClaimOf(call) = claimed /\ Descending(call) /\ call.pub \in Authors
      /\ content[call.target].pub = call.pub
  BY <1>1, TargetIsServed
<1>3. Behind(call.target) \subseteq Covered
  BY <1>1, <1>2, CallIs DEF NoGaps, Whole
<1>4. Chain(call.target) \subseteq Covered
  BY <1>1, <1>2, <1>3, BehindIs DEF Covered, HeldOrUnsound
<1>5. InSequence(Reverse(call.walked), Covered)
  BY <1>2, <1>4, ReverseInSequence DEF Descending
<1>6. \A d \in Range(call.walked) : content[d].pub = call.pub
  BY <1>2 DEF Descending, Range
<1>7. Chain(claimed) \subseteq Covered \cup Range(call.walked)
  BY <1>2, <1>4 DEF Descending
<1> QED
  BY <1>1, <1>2, <1>5, <1>6, <1>7, OfferWalkWhole DEF PursuitEnd

\* A pursuit fails only when the call is cancelled.
LEMMA PursuitFailsWhole ==
    ASSUME Dependable, SyncInv, WholeInv, PursuitFails
    PROVE  WholeInv'
<1>1. call.at = "pursue" /\ Proceed(OfferWalk("failed", call.walked))
  BY DEF PursuitFails
<1>2. /\ call.target \in Digest /\ asked \in Source /\ call.walked \in Seq(Digest)
      /\ Descending(call) /\ content[call.target].pub = call.pub
      /\ call.target \in serves[asked]
  BY <1>1, TargetIsServed
<1>3. cancelled
  <2>1. Len(call.walked) < MaxPursuit
    <3>1. Len(call.walked) \in Nat /\ Cardinality(Chain(call.target)) \in Nat \ {0}
      BY <1>2, ChainCounts
    <3>2. Len(call.walked) + Cardinality(Chain(call.target)) <= MaxPursuit
      BY <1>2 DEF Descending
    <3> QED
      BY <3>1, <3>2, Bounds
  <2>2. Len(call.walked) \in Nat /\ ~(Len(call.walked) >= MaxPursuit)
    BY <1>2, <2>1, Bounds
  <2>3. call.target \in BlockAnswers(asked, call.target) /\ asked \notin Flaky
    BY <1>2 DEF BlockAnswers, Dependable
  <2> QED
    BY <1>2, <2>2, <2>3 DEF PursuitFails, MayFail
<1>4. \A d \in Range(call.walked) : content[d].pub = call.pub
  BY <1>2 DEF Descending, Range
<1> QED
  BY <1>1, <1>2, <1>3, <1>4, OfferWalkWhole DEF PursuitEnd

\* The pursuit goes one block back, or ends at a genesis block.
LEMMA PursuitStepsWhole ==
    ASSUME SyncInv, WholeInv, PursuitSteps
    PROVE  WholeInv'
<1> DEFINE d == call.target
           walked == Append(call.walked, d)
           prev == content[d].prev
           n == [call EXCEPT !.walked = walked, !.target = prev]
<1>1. /\ CallWhole(call, Covered, cancelled, serves) /\ call \in Call /\ call.at = "pursue"
      /\ call.then # "walk"
  BY CallIs DEF PursuitSteps, CallOk, Shape, Offering
<1>2. /\ d \in Digest /\ claimed \in Digest /\ call.walked \in Seq(Digest)
      /\ ClaimOf(call) = claimed /\ Descending(call) /\ content[d].pub = call.pub
  BY <1>1, TargetIsServed
<1>3. /\ walked \in Seq(Digest) /\ Range(walked) = Range(call.walked) \cup {d}
      /\ Len(walked) = Len(call.walked) + 1 /\ Len(call.walked) \in Nat
  BY <1>2, RangeAppend
<1>4. \A k \in DOMAIN walked : Behind(walked[k]) \subseteq Behind(d) \cup {walked[j] : j \in (k + 1)..Len(walked)}
  <2> HIDE DEF d
  <2>1. \A k \in DOMAIN call.walked :
           Behind(call.walked[k]) \subseteq Chain(d) \cup {call.walked[j] : j \in (k + 1)..Len(call.walked)}
    BY <1>2 DEF Descending, d
  <2> QED
    BY <1>2, <2>1, WalkedFurther
<1>5. \A x \in Range(walked) : content[x].pub = call.pub
  BY <1>2, <1>3 DEF Descending, Range
<1>6. IF IsGenesis(d) THEN Proceed(OfferWalk("genesis", walked)) ELSE Proceed(n)
  BY DEF PursuitSteps
<1>7. Chain(d) = {d} \cup Behind(d) /\ Chain(claimed) \subseteq Chain(d) \cup Range(call.walked)
      /\ Chain(d) \subseteq Chain(claimed)
  BY <1>2, BehindIs DEF Descending
<1>8. CASE IsGenesis(d)
  <2>1. Behind(d) = {}
    BY <1>2, <1>8, BehindIs DEF IsGenesis
  <2> DEFINE none == {}
  <2>2. none \in SUBSET Covered
    OBVIOUS
  <2>3. \A k \in DOMAIN walked : Behind(walked[k]) \subseteq none \cup {walked[j] : j \in (k + 1)..Len(walked)}
    BY <1>4, <2>1
  <2> HIDE DEF none, walked, d
  <2>4. InSequence(Reverse(walked), Covered)
    BY <1>3, <2>2, <2>3, ReverseInSequence
  <2>5. Chain(claimed) \subseteq Covered \cup Range(walked)
    BY <1>3, <1>7, <2>1
  <2>6. Proceed(OfferWalk("genesis", walked))
    BY <1>6, <1>8
  <2> QED
    BY <1>1, <1>3, <1>5, <2>4, <2>5, <2>6, OfferWalkWhole DEF PursuitEnd
<1>9. CASE ~IsGenesis(d)
  <2>1. /\ prev \in Digest /\ Behind(d) = Chain(prev)
        /\ Cardinality(Chain(d)) = Cardinality(Chain(prev)) + 1
        /\ Cardinality(Chain(prev)) \in Nat
    BY <1>2, <1>9, BehindIs, ChainCounts DEF IsGenesis
  <2>2. Proceed(n)
    BY <1>6, <1>9
  <2>l. Len(call.walked) + Cardinality(Chain(d)) <= MaxPursuit
    BY <1>2 DEF Descending
  <2> HIDE DEF prev, walked, d
  <2>3. /\ n.at = "pursue" /\ n.sources = call.sources /\ n.then = call.then /\ n.pub = call.pub
        /\ n.walked = walked /\ n.reports = call.reports /\ n.foreign = call.foreign
        /\ n.target = prev
    BY <1>1 DEF Call
  <2> HIDE DEF n
  <2>4. ClaimOf(n) = claimed
    BY <1>2, <2>3 DEF ClaimOf
  <2>5. Chain(prev) \subseteq Chain(claimed) /\ Chain(claimed) \subseteq Chain(prev) \cup Range(walked)
    BY <1>3, <1>7, <2>1
  <2>6. Len(walked) + Cardinality(Chain(prev)) <= MaxPursuit
    <3> DEFINE a == Len(call.walked)
               b == Cardinality(Chain(prev))
    <3>1. a \in Nat /\ b \in Nat /\ Len(walked) = a + 1 /\ Cardinality(Chain(d)) = b + 1
      BY <1>3, <2>1
    <3>2. a + (b + 1) <= MaxPursuit
      BY <2>l, <3>1
    <3> HIDE DEF a, b
    <3>3. (a + 1) + b <= MaxPursuit
      BY <3>1, <3>2, Bounds
    <3> QED
      BY <3>1, <3>3 DEF b
  <2>7. Descending(n)
    <3>1. ASSUME NEW k \in DOMAIN walked
          PROVE  /\ content[walked[k]].pub = call.pub
                 /\ Behind(walked[k]) \subseteq Chain(prev) \cup {walked[j] : j \in (k + 1)..Len(walked)}
      BY <1>4, <1>5, <2>1 DEF Range
    <3> QED
      BY <2>3, <2>4, <2>5, <2>6, <3>1 DEF Descending
  <2>8. Served(n, serves) /\ Querying(n, Covered)
    BY <1>1, <2>3 DEF CallWhole, Served, Following, Asking, Querying, ClaimOf
  <2>9. Handing(n, Covered, cancelled) /\ Walking(n, Covered)
    BY <1>1, <2>3, <2>7 DEF CallWhole, Handing, Walking, Offering
  <2>10. ReportedWhole(n, Covered, cancelled)
    BY <1>1, <2>3 DEF CallWhole, ReportedWhole, Doomed, Asking
  <2> QED
    BY <2>2, <2>8, <2>9, <2>10, ProceedWhole DEF CallWhole
<1> QED
  BY <1>8, <1>9

\* The walk has been handed over.
LEMMA WalkOfferedWhole ==
    ASSUME SyncInv, WholeInv, WalkOffered
    PROVE  WholeInv'
<1> DEFINE end == call.reports[asked].end
<1>1. /\ CallWhole(call, Covered, cancelled, serves) /\ call.at = "offer" /\ call.then = "walk"
      /\ call.hand = <<>> /\ call.at \in Asking /\ Proceed(SourceDone(call, end, FALSE))
      /\ call \in Call /\ call.sources # <<>>
  BY CallIs DEF WalkOffered, Asking, CallOk, Shape
<1>2. call.reports[asked] \in SourceSync /\ ClaimOf(call) = claimed
  BY <1>1, AskedSource
<1>3. end \in PursuitEnd
  BY <1>2 DEF SourceSync
<1>4. end = "failed" \/ Chain(claimed) \subseteq Covered
  <2>1. Range(call.hand) = {}
    BY <1>1 DEF Range
  <2> QED
    BY <1>1, <1>2, <2>1 DEF CallWhole, Walking, asked
<1> HIDE DEF end
<1> QED
  BY <1>1, <1>3, <1>4, SourceDoneWhole
-----------------------------------------------------------------------------
\* The context is done in the middle of an offer.
LEMMA OfferCancelledWhole ==
    ASSUME SyncInv, WholeInv, OfferCancelled
    PROVE  WholeInv'
<1> DEFINE end == call.reports[asked].end
           err == call.then = "page"
<1>1. /\ call.at = "offer" /\ cancelled /\ call.at \in Asking /\ Proceed(SourceDone(call, end, err))
      /\ call \in Call /\ call.sources # <<>>
  BY CallIs DEF OfferCancelled, Asking, CallOk, Shape
<1>2. end \in PursuitEnd
  BY <1>1, AskedSource DEF SourceSync
<1>3. err \in BOOLEAN
  OBVIOUS
<1> HIDE DEF end, err
<1> QED
  BY <1>1, <1>2, <1>3, SourceDoneWhole

\* The blocks the next one refers to are asked for: nothing is missing behind
\* those of them that are of a synced author.
LEMMA ResolveRefsWhole ==
    ASSUME Dependable, SyncInv, WholeInv, ResolveRefs
    PROVE  WholeInv'
<1> DEFINE d == Head(call.hand)
           wanted == Only(Refs(d), Digest \ blocks)
           n(s) == [call EXCEPT !.at = "add", !.foreign = s]
<1>1. /\ CallWhole(call, Covered, cancelled, serves) /\ call.at = "offer" /\ call.hand # <<>>
      /\ ~cancelled /\ SyncVarsOk /\ call \in Call /\ call.sources # <<>> /\ call.pub \in Authors
  BY CallIs DEF ResolveRefs, CallOk, Shape, Asking
<1>2. call.hand \in Seq(Digest) /\ asked \in Source /\ d \in Digest /\ d \in Range(call.hand)
  BY <1>1, CallFields, AskedSource, RangeHeadTail
<1>3. InSequence(call.hand, Covered) /\ call.foreign = <<>> /\ content[d].pub = call.pub
  BY <1>1, <1>2 DEF CallWhole, Handing, Offering
<1>4. Behind(d) \subseteq Covered
  BY <1>1, <1>2, <1>3, TailInSequence
<1> HIDE DEF d
<1>5. Resolving => \A r \in Range(Refs(d)) : content[r].pub \in Authors => Behind(r) \subseteq Covered
  BY <1>1, <1>2, <1>3, <1>4 DEF Dependable
<1>6. ASSUME NEW s \in Seq(Digest), s = <<>> \/ (Resolving /\ Range(s) \subseteq Range(Refs(d))),
             Proceed(n(s))
      PROVE  WholeInv'
  <2> DEFINE m == n(s)
  <2>1. Proceed(m)
    BY <1>6
  <2>2. /\ m.at = "add" /\ m.sources = call.sources /\ m.then = call.then /\ m.pub = call.pub
        /\ m.walked = call.walked /\ m.reports = call.reports /\ m.foreign = s /\ m.hand = call.hand
    BY <1>1 DEF Call
  <2> HIDE DEF m, n
  <2>3. Served(m, serves) /\ Querying(m, Covered)
    BY <1>1, <2>2 DEF CallWhole, Served, Following, Asking, Querying, ClaimOf
  <2>4. Whole(Range(s), Covered)
    <3>1. s = <<>> => Range(s) = {}
      BY DEF Range
    <3> QED
      BY <1>5, <1>6, <3>1 DEF Whole
  <2>5. Handing(m, Covered, cancelled)
    BY <1>1, <1>3, <2>2, <2>4 DEF CallWhole, Handing, Offering
  <2>6. Walking(m, Covered)
    BY <1>1, <2>2 DEF CallWhole, Walking, ClaimOf
  <2>7. ReportedWhole(m, Covered, cancelled)
    BY <1>1, <2>2 DEF CallWhole, ReportedWhole, Doomed, Asking
  <2> QED
    BY <2>1, <2>3, <2>5, <2>6, <2>7, ProceedWhole DEF CallWhole
<1>7. CASE Proceed([call EXCEPT !.at = "add"])
  <2>1. [call EXCEPT !.at = "add"] = n(<<>>)
    BY <1>1, <1>3 DEF Call
  <2>2. <<>> \in Seq(Digest)
    OBVIOUS
  <2> QED
    BY <1>6, <1>7, <2>1, <2>2
<1>8. ASSUME Resolving, NEW s \in BlocksAnswers(asked, wanted),
             Proceed([[call EXCEPT !.at = "add"] EXCEPT !.foreign = s])
      PROVE  WholeInv'
  <2>1. Refs(d) \in Seq(Range(Refs(d))) /\ Range(Refs(d)) \subseteq Digest
    <3>1. Refs(d) \in Seq(Digest)
      BY <1>2, RefsType
    <3> QED
      BY <1>2, <3>1, RefsType DEF Range
  <2>2. wanted \in Seq(Range(Refs(d)) \cap (Digest \ blocks))
    BY <2>1, OnlyType
  <2>3. wanted \in Seq(Range(Refs(d)))
    BY <2>2
  <2> HIDE DEF wanted
  <2>4. s = Only(wanted, serves[asked])
    BY <1>2, <1>8 DEF BlocksAnswers, Dependable
  <2>5. s \in Seq(Range(Refs(d)) \cap serves[asked])
    BY <2>3, <2>4, OnlyType
  <2>6. s \in Seq(Digest) /\ Range(s) \subseteq Range(Refs(d))
    <3>1. s \in Seq(Range(Refs(d)))
      BY <2>5
    <3>2. Range(s) \subseteq Range(Refs(d))
      BY <3>1 DEF Range
    <3> QED
      BY <2>1, <3>1, <3>2
  <2>7. [[call EXCEPT !.at = "add"] EXCEPT !.foreign = s] = n(s)
    BY <1>1 DEF Call
  <2> QED
    BY <1>6, <1>8, <2>6, <2>7
<1> HIDE DEF n
<1> QED
  BY <1>7, <1>8 DEF ResolveRefs, d

\* A block that was asked for is handed over.
LEMMA AddForeignWhole ==
    ASSUME Plain, SyncInv, WholeInv, AddForeign
    PROVE  WholeInv'
<1> DEFINE d == Head(call.foreign)
           rest == Tail(call.foreign)
           C == Covered \cup {d}
           n == [call EXCEPT !.foreign = rest]
<1>1. /\ CallWhole(call, Covered, cancelled, serves) /\ call.at = "add" /\ call.foreign # <<>>
      /\ Hand(d, n) /\ call \in Call /\ call.sources # <<>>
  BY CallIs DEF AddForeign, CallOk, Shape, Asking
<1>2. d \in Digest /\ rest \in Seq(Digest) /\ Range(call.foreign) = {d} \cup Range(rest)
  BY <1>1, CallFields, RangeHeadTail
<1>3. Whole({d}, Covered) /\ Whole(Range(rest), Covered)
  BY <1>1, <1>2 DEF CallWhole, Handing, Whole
<1>w. CallWhole(call, C, cancelled, serves)
  BY <1>1, WholeGrows
<1>4. Whole(Range(rest), C)
  BY <1>3 DEF Whole
<1> HIDE DEF d, rest, C
<1>5. n \in Call
  BY <1>1, <1>2 DEF Call
<1>6. /\ n.at = "add" /\ n.sources = call.sources /\ n.then = call.then /\ n.pub = call.pub
      /\ n.walked = call.walked /\ n.reports = call.reports /\ n.foreign = rest /\ n.hand = call.hand
  BY <1>1 DEF Call
<1> HIDE DEF n
<1>7. Served(n, serves) /\ Querying(n, C)
  BY <1>1, <1>w, <1>6 DEF CallWhole, Served, Following, Asking, Querying, ClaimOf
<1>8. Handing(n, C, cancelled)
  BY <1>1, <1>w, <1>4, <1>6 DEF CallWhole, Handing, Offering
<1>9. Walking(n, C)
  BY <1>1, <1>w, <1>6 DEF CallWhole, Walking, ClaimOf
<1>10. ReportedWhole(n, C, cancelled)
  BY <1>1, <1>w, <1>6 DEF CallWhole, ReportedWhole, Doomed, Asking
<1>11. CallWhole(n, Covered \cup {d}, cancelled, serves)
  BY <1>7, <1>8, <1>9, <1>10 DEF CallWhole, C
<1> QED
  BY <1>1, <1>2, <1>3, <1>5, <1>6, <1>11, HandWhole

\* The block in hand is handed over: all that is behind it has been.
LEMMA AddOfferedWhole ==
    ASSUME Plain, SyncInv, WholeInv, AddOffered
    PROVE  WholeInv'
<1> DEFINE d == Head(call.hand)
           rest == Tail(call.hand)
           all == call.received \cup {d}
           C == Covered \cup {d}
           n == [call EXCEPT !.at = "offer", !.hand = rest, !.received = all]
<1>1. /\ CallWhole(call, Covered, cancelled, serves) /\ call.at = "add" /\ call.hand # <<>>
      /\ call.foreign = <<>> /\ call \in Call /\ call.sources # <<>>
  BY CallIs DEF AddOffered, CallOk, Shape, Asking
<1>2. /\ d \in Digest /\ rest \in Seq(Digest) /\ Range(call.hand) = {d} \cup Range(rest)
      /\ call.hand \in Seq(Digest) /\ all \in SUBSET Digest
  BY <1>1, CallFields, RangeHeadTail
<1>3. Hand(d, n)
  BY <1>1 DEF AddOffered, Call
<1>4. InSequence(call.hand, Covered) /\ \A x \in Range(call.hand) : content[x].pub = call.pub
  BY <1>1 DEF CallWhole, Handing, Offering
<1>5. Behind(d) \subseteq Covered /\ InSequence(rest, C)
  BY <1>1, <1>2, <1>4, TailInSequence
<1>w. CallWhole(call, C, cancelled, serves)
  BY <1>1, WholeGrows
<1>6. d \in C /\ Whole({d}, Covered)
  BY <1>5 DEF Whole
<1> HIDE DEF d, rest, C, all
<1>7. n \in Call
  BY <1>1, <1>2 DEF Call
<1>8. /\ n.at = "offer" /\ n.sources = call.sources /\ n.then = call.then /\ n.pub = call.pub
      /\ n.walked = call.walked /\ n.reports = call.reports /\ n.foreign = <<>> /\ n.hand = rest
  BY <1>1 DEF Call
<1> HIDE DEF n
<1>9. Served(n, serves) /\ Querying(n, C)
  BY <1>1, <1>w, <1>8 DEF CallWhole, Served, Following, Asking, Querying, ClaimOf
<1>10. Handing(n, C, cancelled)
  BY <1>2, <1>4, <1>5, <1>8 DEF Handing
<1>11. Walking(n, C)
  BY <1>1, <1>w, <1>2, <1>6, <1>8 DEF CallWhole, Walking, ClaimOf
<1>12. ReportedWhole(n, C, cancelled)
  BY <1>1, <1>w, <1>8 DEF CallWhole, ReportedWhole, Doomed, Asking
<1>13. CallWhole(n, Covered \cup {d}, cancelled, serves)
  BY <1>9, <1>10, <1>11, <1>12 DEF CallWhole, C
<1> QED
  BY <1>1, <1>2, <1>3, <1>6, <1>7, <1>8, <1>13, HandWhole
-----------------------------------------------------------------------------
\* A block held at a position has nothing missing behind it, so neither has
\* the position.
LEMMA ForksAreWhole ==
    ASSUME SyncInv, NoGaps, NEW f \in Forks, f.pub \in Authors
    PROVE  f.prev # NoDigest => Chain(f.prev) \subseteq Covered
<1>1. PICK s \in Slot : Len(position[s]) >= 2 /\ f.pub = s[1] /\ f.prev = s[2]
  BY DEF Forks
<1>2. position[s] \in Seq(Digest) /\ blocks \in SUBSET Digest
  BY DEF SyncInv, AddInv, StoreInv, TypeInv, TypeOK, MemTypeOK
<1>3. PICK d : d \in Range(position[s])
  <2>1. 1 \in DOMAIN position[s]
    BY <1>1, <1>2
  <2> QED
    BY <2>1 DEF Range
<1>4. d \in blocks /\ d \in Digest /\ SlotOf(d) = s
  BY <1>2, <1>3 DEF NoGaps, PositionsHeld
<1>5. content[d].pub = f.pub /\ content[d].prev = f.prev
  BY <1>1, <1>4 DEF SlotOf
<1>6. Behind(d) \subseteq Covered
  BY <1>4, <1>5 DEF NoGaps, Whole
<1> QED
  BY <1>4, <1>5, <1>6, BehindIs

\* The sources are done: there is nothing missing behind the positions asked.
LEMMA SourcesDoneWhole ==
    ASSUME SyncInv, WholeInv, SourcesDone
    PROVE  WholeInv'
<1> DEFINE forked == {f.prev : f \in {g \in Forks : g.pub = call.pub}}
           listed == CHOOSE s \in Listings(forked) : TRUE
           positions == <<NoDigest>> \o listed
           queries == [k \in DOMAIN positions |->
                           [i \in DOMAIN call.all |-> <<positions[k], call.all[i]>>]]
           flat == FlattenSeq(queries)
           Covers(p) == p # NoDigest => Chain(p) \subseteq Covered
           T == {q \in Query : Covers(q[1])}
           n == [call EXCEPT !.at = "siblings", !.queries = flat]
<1>1. /\ CallWhole(call, Covered, cancelled, serves) /\ call.at = "source" /\ Proceed(n)
      /\ call \in Call /\ call.all \in Seq(Source) /\ NoGaps /\ call.pub \in Authors
      /\ call.then # "walk"
  BY CallIs, CallFields DEF SourcesDone, CallOk, Shape, Offering
<1>2. \A p \in forked : Covers(p)
  BY <1>1, ForksAreWhole
<1>3. listed \in Seq({p \in Digest \cup {NoDigest} : Covers(p)})
  <2>1. forked \in SUBSET (Digest \cup {NoDigest}) /\ IsFiniteSet(forked)
    BY ForkPositions
  <2> HIDE DEF forked, Covers
  <2>2. listed \in Seq(forked)
    BY <2>1, ListingType
  <2>3. forked \subseteq {p \in Digest \cup {NoDigest} : Covers(p)}
    BY <1>2, <2>1
  <2> HIDE DEF listed
  <2> QED
    BY <2>2, <2>3
<1> HIDE DEF listed
<1>4. /\ positions \in Seq(Digest \cup {NoDigest}) /\ positions # <<>>
      /\ \A k \in DOMAIN positions : Covers(positions[k])
  <2> DEFINE P == {p \in Digest \cup {NoDigest} : Covers(p)}
  <2>1. NoDigest \in P
    OBVIOUS
  <2>p. P \subseteq Digest \cup {NoDigest} /\ \A p \in P : Covers(p)
    OBVIOUS
  <2> HIDE DEF P
  <2>2. listed \in Seq(P)
    BY <1>3 DEF P
  <2>3. positions \in Seq(P) /\ positions # <<>>
    BY <2>1, <2>2
  <2> HIDE DEF positions, Covers
  <2>4. \A k \in DOMAIN positions : positions[k] \in P
    BY <2>3
  <2> QED
    BY <2>3, <2>4, <2>p
<1> HIDE DEF positions, Covers
<1>5. /\ queries \in Seq(Seq(T)) /\ queries # <<>>
      /\ call.all # <<>> => queries[1] # <<>>
  <2> DEFINE row(k) == [i \in DOMAIN call.all |-> <<positions[k], call.all[i]>>]
  <2>1. ASSUME NEW k \in DOMAIN positions
        PROVE  row(k) \in Seq(T) /\ (call.all # <<>> => row(k) # <<>>)
    <3>1. positions[k] \in Digest \cup {NoDigest} /\ Covers(positions[k])
      BY <1>4, <2>1
    <3>2. DOMAIN call.all = 1..Len(call.all) /\ Len(call.all) \in Nat
          /\ \A i \in 1..Len(call.all) : call.all[i] \in Source
      BY <1>1
    <3>3. \A i \in 1..Len(call.all) : <<positions[k], call.all[i]>> \in T
      BY <3>1, <3>2 DEF Query
    <3> HIDE DEF T
    <3>4. row(k) \in [1..Len(call.all) -> T]
      BY <3>2, <3>3
    <3>5. row(k) \in Seq(T) /\ Len(row(k)) = Len(call.all)
      BY <3>2, <3>4
    <3> QED
      BY <1>1, <3>5
  <2>2. DOMAIN positions = 1..Len(positions) /\ Len(positions) \in Nat /\ Len(positions) # 0
    BY <1>4
  <2>3. queries = [k \in 1..Len(positions) |-> row(k)]
    BY <2>2
  <2> HIDE DEF row, queries, T
  <2>4. queries \in [1..Len(positions) -> Seq(T)]
    BY <2>1, <2>2, <2>3
  <2>5. queries \in Seq(Seq(T)) /\ Len(queries) = Len(positions)
    BY <2>2, <2>4
  <2>6. queries[1] = row(1) /\ 1 \in DOMAIN positions
    BY <2>2, <2>3
  <2> QED
    BY <2>1, <2>2, <2>5, <2>6
<1> HIDE DEF queries, T
<1>6. flat \in Seq(T) /\ (call.all # <<>> => flat # <<>>)
  BY <1>5, FlattenType
<1> HIDE DEF flat
<1>7. /\ n.at = "siblings" /\ n.sources = call.sources /\ n.then = call.then /\ n.pub = call.pub
      /\ n.walked = call.walked /\ n.reports = call.reports /\ n.foreign = call.foreign
      /\ n.queries = flat /\ n.all = call.all
  BY <1>1 DEF Call
<1> HIDE DEF n
<1>8. \A q \in Range(flat) : q[1] # NoDigest => Chain(q[1]) \subseteq Covered
  BY <1>6 DEF Range, T, Covers
<1>9. Served(n, serves) /\ Querying(n, Covered)
  BY <1>7, <1>8 DEF Served, Following, Asking, Querying
<1>10. Handing(n, Covered, cancelled) /\ Walking(n, Covered)
  BY <1>1, <1>7 DEF CallWhole, Handing, Walking, Offering
<1>11. ReportedWhole(n, Covered, cancelled)
  BY <1>1, <1>6, <1>7 DEF CallWhole, ReportedWhole, Doomed, Asking
<1> QED
  BY <1>1, <1>9, <1>10, <1>11, ProceedWhole DEF CallWhole
-----------------------------------------------------------------------------
\* The blocks at a position have behind them what the position has.
LEMMA AtIsWhole ==
    ASSUME NEW held \in SUBSET Digest, NEW pub, NEW prev, NEW C,
           prev # NoDigest => Chain(prev) \subseteq C
    PROVE  Whole(At(held, pub, prev), C)
<1> SUFFICES ASSUME NEW d \in At(held, pub, prev) PROVE Behind(d) \subseteq C
  BY DEF Whole
<1>1. d \in Digest /\ content[d].prev = prev
  BY ONLY SMTT(30) DEF At, Claims
<1> QED
  BY <1>1, BehindIs

\* A source is asked for the siblings at a position.
LEMMA AskSiblingsWhole ==
    ASSUME Dependable, SyncInv, WholeInv, AskSiblings
    PROVE  WholeInv'
<1> DEFINE prev == Head(call.queries)[1]
           i == Head(call.queries)[2]
           rest == Tail(call.queries)
           n(at, s) == [call EXCEPT !.at = at, !.queries = rest, !.hand = s]
<1>1. /\ CallWhole(call, Covered, cancelled, serves) /\ call.at = "siblings" /\ call.queries # <<>>
      /\ ~cancelled /\ SyncVarsOk /\ call \in Call /\ call.queries \in Seq(Query)
      /\ call.then # "walk"
  BY CallIs, CallFields DEF AskSiblings, CallOk, Shape, Offering
<1>2. /\ i \in Source /\ Range(call.queries) = {Head(call.queries)} \cup Range(rest)
  <2>1. Head(call.queries) \in Query /\ Range(call.queries) = {Head(call.queries)} \cup Range(rest)
    BY <1>1, RangeHeadTail
  <2> QED
    BY <2>1 DEF Query
<1>3. /\ prev # NoDigest => Chain(prev) \subseteq Covered
      /\ \A q \in Range(rest) : q[1] # NoDigest => Chain(q[1]) \subseteq Covered
  BY <1>1, <1>2 DEF CallWhole, Querying
<1> HIDE DEF rest
<1>4. ASSUME NEW at \in {"siblings", "sibling"}, NEW s,
             at = "sibling" => Whole(Range(s), Covered), Proceed(n(at, s))
      PROVE  WholeInv'
  <2> DEFINE m == n(at, s)
  <2>1. Proceed(m)
    BY <1>4
  <2>2. /\ m.at = at /\ m.sources = call.sources /\ m.then = call.then /\ m.pub = call.pub
        /\ m.walked = call.walked /\ m.reports = call.reports /\ m.foreign = call.foreign
        /\ m.queries = rest /\ m.hand = s
    BY <1>1 DEF Call
  <2> HIDE DEF m, n
  <2>3. Served(m, serves) /\ Querying(m, Covered)
    BY <1>3, <1>4, <2>2 DEF Served, Following, Asking, Querying
  <2>4. Handing(m, Covered, cancelled) /\ Walking(m, Covered)
    BY <1>1, <1>4, <2>2 DEF CallWhole, Handing, Walking, Offering
  <2>5. ReportedWhole(m, Covered, cancelled)
    BY <1>1, <2>2 DEF CallWhole, ReportedWhole, Doomed, Asking
  <2> QED
    BY <2>1, <2>3, <2>4, <2>5, ProceedWhole DEF CallWhole
<1>4a. call \in Call /\ call.at = "siblings"
  BY <1>1
<1>5. CASE Proceed([call EXCEPT !.queries = Tail(@)])
  <2>1. [call EXCEPT !.queries = Tail(@)] = n("siblings", call.hand)
    BY ONLY <1>4a, QueryTaken DEF rest
  <2> HIDE DEF n
  <2>2. Proceed(n("siblings", call.hand))
    BY <1>5, <2>1
  <2> QED
    BY <1>4, <2>2
<1>6. ASSUME NEW S \in SiblingsAnswers(i, call.pub, prev),
             Proceed([[call EXCEPT !.queries = Tail(@)] EXCEPT !.at = "sibling", !.hand = Ascending(S)])
      PROVE  WholeInv'
  <2>1. S = At(serves[i], call.pub, prev) /\ serves[i] \in SUBSET Digest
    BY <1>1, <1>2, <1>6 DEF SiblingsAnswers, SyncVarsOk, Dependable
  <2>2. S \in SUBSET Digest /\ Whole(S, Covered)
    <3>1. S \in SUBSET Digest
      BY <2>1 DEF At
    <3> HIDE DEF prev, i
    <3> QED
      BY <1>3, <2>1, <3>1, AtIsWhole
  <2>3. Range(Ascending(S)) = S
    BY ONLY SMTT(30), <2>2, AscendingType
  <2>4. [[call EXCEPT !.queries = Tail(@)] EXCEPT !.at = "sibling", !.hand = Ascending(S)]
            = n("sibling", Ascending(S))
    BY ONLY <1>4a, QueryAnswered DEF rest
  <2>5. Whole(Range(Ascending(S)), Covered)
    BY <2>2, <2>3
  <2> HIDE DEF n
  <2>6. Proceed(n("sibling", Ascending(S)))
    BY <1>6, <2>4
  <2> QED
    BY <1>4, <2>5, <2>6
<1> HIDE DEF n
<1> QED
  BY <1>5, <1>6 DEF AskSiblings

\* A sibling goes, to the store or because it is there.
LEMMA SiblingGone ==
    ASSUME SyncInv, WholeInv, call.at \in {"sibling", "added"}, call.hand # <<>>, NEW c,
           Proceed(c), c.at = "sibling", c.pub = call.pub, c.all = call.all,
           c.sources = call.sources, c.then = call.then, c.walked = call.walked,
           c.reports = call.reports, c.foreign = call.foreign, c.queries = call.queries,
           c.hand = Tail(call.hand)
    PROVE  WholeInv'
<1>1. /\ CallWhole(call, Covered, cancelled, serves) /\ call \in Call /\ call.then # "walk"
      /\ call.hand \in Seq(Digest)
  BY CallIs, CallFields DEF CallOk, Shape, Offering
<1>2. Range(c.hand) \subseteq Range(call.hand)
  BY <1>1, RangeHeadTail
<1>3. Whole(Range(c.hand), Covered)
  BY <1>1, <1>2 DEF CallWhole, Handing, Whole
<1>4. Served(c, serves) /\ Querying(c, Covered)
  BY <1>1 DEF CallWhole, Served, Following, Asking, Querying
<1>5. Handing(c, Covered, cancelled) /\ Walking(c, Covered)
  BY <1>1, <1>3 DEF CallWhole, Handing, Walking, Offering
<1>6. ReportedWhole(c, Covered, cancelled)
  BY <1>1 DEF CallWhole, ReportedWhole, Doomed, Asking
<1> QED
  BY <1>4, <1>5, <1>6, ProceedWhole DEF CallWhole

\* A sibling that is not held is handed over.
LEMMA AddSiblingWhole ==
    ASSUME Plain, SyncInv, WholeInv, AddSibling
    PROVE  WholeInv'
<1> DEFINE d == Head(call.hand)
           rest == Tail(call.hand)
<1>1. /\ CallWhole(call, Covered, cancelled, serves) /\ call.at = "sibling" /\ call.hand # <<>>
      /\ call \in Call /\ call.then # "walk" /\ call.hand \in Seq(Digest)
  BY CallIs, CallFields DEF AddSibling, CallOk, Shape, Offering
<1>2. CASE Proceed([call EXCEPT !.hand = Tail(@)])
  <2> DEFINE n == [call EXCEPT !.hand = rest]
  <2>1. Proceed(n)
    BY <1>2
  <2>2. /\ n.at = "sibling" /\ n.sources = call.sources /\ n.then = call.then /\ n.pub = call.pub
        /\ n.walked = call.walked /\ n.reports = call.reports /\ n.foreign = call.foreign
        /\ n.queries = call.queries /\ n.hand = rest /\ n.all = call.all
    BY <1>1 DEF Call
  <2> HIDE DEF n
  <2> QED
    BY <1>1, <2>1, <2>2, SiblingGone
<1>3. CASE Hand(d, [call EXCEPT !.at = "added"])
  <2> DEFINE n == [call EXCEPT !.at = "added"]
             C == Covered \cup {d}
  <2>1. Hand(d, n)
    BY <1>3
  <2>2. d \in Digest /\ d \in Range(call.hand)
    BY <1>1, RangeHeadTail
  <2>3. Whole({d}, Covered)
    BY <1>1, <2>2 DEF CallWhole, Handing, Whole
  <2>w. CallWhole(call, C, cancelled, serves)
    BY <1>1, WholeGrows DEF Asking
  <2> HIDE DEF d, C
  <2>4. n \in Call
    BY <1>1 DEF Call
  <2>5. /\ n.at = "added" /\ n.sources = call.sources /\ n.then = call.then /\ n.pub = call.pub
        /\ n.walked = call.walked /\ n.reports = call.reports /\ n.foreign = call.foreign
        /\ n.queries = call.queries /\ n.hand = call.hand
    BY <1>1 DEF Call
  <2> HIDE DEF n
  <2>6. Served(n, serves) /\ Querying(n, C)
    BY <1>1, <2>w, <2>5 DEF CallWhole, Served, Following, Asking, Querying
  <2>7. Handing(n, C, cancelled) /\ Walking(n, C)
    BY <1>1, <2>w, <2>5 DEF CallWhole, Handing, Walking, Offering
  <2>8. ReportedWhole(n, C, cancelled)
    BY <1>1, <2>w, <2>5 DEF CallWhole, ReportedWhole, Doomed, Asking
  <2>9. CallWhole(n, Covered \cup {d}, cancelled, serves)
    BY <2>6, <2>7, <2>8 DEF CallWhole, C
  <2> QED
    BY <2>1, <2>2, <2>3, <2>4, <2>5, <2>9, HandWhole DEF Asking
<1> QED
  BY <1>2, <1>3 DEF AddSibling

\* Add has returned.
LEMMA SiblingAddedWhole ==
    ASSUME SyncInv, WholeInv, SiblingAdded
    PROVE  WholeInv'
<1> DEFINE d == Head(call.hand)
           all == IF d \in refused THEN call.received ELSE call.received \cup {d}
           n == [call EXCEPT !.at = "sibling", !.hand = Tail(@), !.received = all]
<1>1. call.at = "added" /\ call.hand # <<>> /\ call \in Call
  BY CallIs DEF SiblingAdded, CallOk, Shape
<1>2. Proceed(n)
  BY <1>1 DEF SiblingAdded, Call
<1> HIDE DEF all
<1>3. /\ n.at = "sibling" /\ n.sources = call.sources /\ n.then = call.then /\ n.pub = call.pub
      /\ n.walked = call.walked /\ n.reports = call.reports /\ n.foreign = call.foreign
      /\ n.queries = call.queries /\ n.hand = Tail(call.hand) /\ n.all = call.all
  BY <1>1 DEF Call
<1> HIDE DEF n
<1> QED
  BY <1>1, <1>2, <1>3, SiblingGone

\* The siblings of one answer are done.
LEMMA SiblingsDoneWhole ==
    ASSUME SyncInv, WholeInv, SiblingsDone
    PROVE  WholeInv'
<1> DEFINE n == [call EXCEPT !.at = "siblings"]
<1>1. /\ CallWhole(call, Covered, cancelled, serves) /\ call.at = "sibling" /\ Proceed(n)
      /\ call \in Call /\ call.then # "walk"
  BY CallIs DEF SiblingsDone, CallOk, Shape, Offering
<1>2. /\ n.at = "siblings" /\ n.sources = call.sources /\ n.then = call.then /\ n.pub = call.pub
      /\ n.walked = call.walked /\ n.reports = call.reports /\ n.foreign = call.foreign
      /\ n.queries = call.queries
  BY <1>1 DEF Call
<1> HIDE DEF n
<1>3. Served(n, serves) /\ Querying(n, Covered)
  BY <1>1, <1>2 DEF CallWhole, Served, Following, Asking, Querying
<1>4. Handing(n, Covered, cancelled) /\ Walking(n, Covered)
  BY <1>1, <1>2 DEF CallWhole, Handing, Walking, Offering
<1>5. ReportedWhole(n, Covered, cancelled)
  BY <1>1, <1>2 DEF CallWhole, ReportedWhole, Doomed, Asking
<1> QED
  BY <1>1, <1>3, <1>4, <1>5, ProceedWhole DEF CallWhole
-----------------------------------------------------------------------------
\* Where no source has been asked, nothing is claimed.
LEMMA NothingClaimed ==
    ASSUME NEW c, c.at \in {"idle", "source"}, c.then = "none", c.walked = <<>>,
           c.foreign = <<>>, c.reports = NoCall.reports, NEW C, NEW cut, NEW held
    PROVE  CallWhole(c, C, cut, held)
<1>1. Served(c, held) /\ Querying(c, C)
  BY DEF Served, Following, Asking, Querying
<1>2. Handing(c, C, cut) /\ Walking(c, C)
  BY DEF Handing, Walking, Offering
<1>3. \A i \in Source : c.reports[i].tip = NoDigest
  BY DEF NoCall, NoSourceSync
<1>4. ReportedWhole(c, C, cut)
  BY <1>3 DEF ReportedWhole, WholeReport
<1> QED
  BY <1>1, <1>2, <1>4 DEF CallWhole

\* Where the store and its goroutines stay as they are, so does the rest.
LEMMA WholeStays ==
    ASSUME SyncInv, WholeInv, UNCHANGED vars, FinishedAreWhole',
           CallWhole(call', Covered, cancelled', serves')
    PROVE  WholeInv'
<1>1. Covered' = Covered
  BY StoreStays
<1>2. NoGaps'
  BY NoGapsStill DEF WholeInv
<1>3. CallWhole(call', Covered', cancelled', serves')
  BY <1>1
<1>4. CallWhole(call, Covered, cancelled, serves)'
  BY <1>3 DEF CallWhole, Served, Handing, Querying, Walking, Descending, ReportedWhole,
              WholeReport, InSequence, Whole, Behind, Chain
<1> QED
  BY <1>2, <1>4 DEF WholeInv

\* A call begins.
LEMMA StartWhole ==
    ASSUME SyncInv, WholeInv, NEW pub, NEW sources, NEW kept, Start(pub, sources, kept)
    PROVE  WholeInv'
<1> DEFINE n == [NoCall EXCEPT !.at = "source", !.pub = pub, !.all = sources,
                               !.sources = sources, !.kept = kept]
<1>1. call' = n /\ result' = NoResult /\ UNCHANGED vars
  BY DEF Start
<1>2. /\ n.at = "source" /\ n.then = "none" /\ n.walked = <<>> /\ n.foreign = <<>>
      /\ n.reports = NoCall.reports
  BY DEF NoCall
<1> HIDE DEF n
<1>3. CallWhole(n, Covered, cancelled', serves')
  BY <1>2, NothingClaimed
<1>4. FinishedAreWhole'
  BY <1>1, NoResultPromises DEF FinishedAreWhole, Finished
<1> QED
  BY <1>1, <1>3, <1>4, WholeStays

\* A call gives up.
LEMMA GiveUpWhole ==
    ASSUME SyncInv, WholeInv, GiveUp
    PROVE  WholeInv'
<1>1. NoCall.at = "idle" /\ NoCall.then = "none" /\ NoCall.walked = <<>> /\ NoCall.foreign = <<>>
  BY DEF NoCall
<1>2. CallWhole(NoCall, Covered, cancelled, serves)
  BY <1>1, NothingClaimed
<1> QED
  BY <1>2, ProceedWhole DEF GiveUp

\* A call returns: the chains of the tips it reached are in the store.
LEMMA ReturnWhole ==
    ASSUME SyncInv, WholeInv, Return
    PROVE  WholeInv'
<1>1. /\ CallWhole(call, Covered, cancelled, serves) /\ call \in Call
      /\ call.at = "siblings" /\ call.queries = <<>> /\ pc[syncer] = "idle" /\ call' = NoCall
      /\ UNCHANGED <<vars, serves, fromHeld, resume, cancelled, refused>>
  BY CallIs DEF Return
<1>2. result'.reports = call.reports
  BY DEF Return
<1>3. \A i \in Source : WholeReport(call.reports[i], Covered)
  BY <1>1 DEF CallWhole, ReportedWhole, Doomed, Asking
<1>4. call.reports \in [Source -> SourceSync]
  BY <1>1, CallFields
<1>5. FinishedAreWhole'
  <2>1. ASSUME NEW r \in Finished', NEW x \in Chain(r.tip) PROVE HeldOrUnsound(x)
    <3>1. PICK i \in Source : r = call.reports[i]
      BY <1>2, <1>4, <2>1 DEF Finished, Range
    <3>2. r.tip # NoDigest /\ ~r.err /\ r.end # "failed"
      BY <2>1 DEF Finished
    <3>3. x \in Covered
      BY <1>3, <2>1, <3>1, <3>2 DEF WholeReport
    <3> QED
      BY <1>1, <3>3, NothingInHand
  <2>2. UNCHANGED blocks
    BY <1>1 DEF vars, storeVars, memVars
  <2> QED
    BY <2>1, <2>2 DEF FinishedAreWhole, HeldOrUnsound, Chain
<1>6. NoCall.at = "idle" /\ NoCall.then = "none" /\ NoCall.walked = <<>> /\ NoCall.foreign = <<>>
  BY DEF NoCall
<1>7. CallWhole(NoCall, Covered, cancelled', serves')
  BY <1>6, NothingClaimed
<1> QED
  BY <1>1, <1>5, <1>7, WholeStays

\* A source gains a block, or the caller gives up.
LEMMA OutsideWhole ==
    ASSUME SyncInv, WholeInv, UNCHANGED <<vars, call, result>>, cancelled => cancelled',
           \A i \in Source : serves[i] \subseteq serves'[i]
    PROVE  WholeInv'
<1>1. CallWhole(call, Covered, cancelled, serves) /\ call \in Call
      /\ (call.at \in Asking => call.sources # <<>>)
  BY CallIs DEF CallOk, Shape
<1>2. CallWhole(call, Covered, cancelled', serves')
  BY <1>1, WholeGrows
<1>3. FinishedAreWhole'
  <2>1. blocks \subseteq blocks'
    BY DEF vars, storeVars, memVars
  <2> QED
    BY <2>1, FinishedGrow DEF WholeInv
<1> QED
  BY <1>2, <1>3, WholeStays

\* Add goes on.
LEMMA AddStepWhole ==
    ASSUME Plain, SyncInv, WholeInv, NEW p \in Proc, AddStep(p)
    PROVE  WholeInv'
<1>1. Step(p) /\ [Next]_vars /\ UNCHANGED <<serves, cancelled, call, result>>
  BY DEF AddStep, Next
<1>2. blocks \subseteq blocks' /\ Covered \subseteq Covered'
  BY <1>1, AnswersGrow, Grows DEF SyncInv, AddInv, StoreInv
<1>3. NoGaps'
  BY <1>1, NoGapsStay DEF SyncInv, WholeInv
<1>4. FinishedAreWhole'
  BY <1>1, <1>2, FinishedGrow DEF WholeInv
<1>5. CallWhole(call, Covered, cancelled, serves) /\ call \in Call
      /\ (call.at \in Asking => call.sources # <<>>)
  BY CallIs DEF CallOk, Shape
<1>6. CallWhole(call, Covered', cancelled, serves)
  BY <1>2, <1>5, WholeGrows
<1>7. CallWhole(call', Covered', cancelled', serves')
  BY <1>1, <1>6
<1>8. CallWhole(call, Covered, cancelled, serves)'
  BY <1>7 DEF CallWhole, Served, Handing, Querying, Walking, Descending, ReportedWhole,
              WholeReport, InSequence, Whole, Behind, Chain
<1> QED
  BY <1>3, <1>4, <1>8 DEF WholeInv
-----------------------------------------------------------------------------
\* WholeInv holds of the empty store.
LEMMA InitWhole == InitSync => WholeInv
<1> SUFFICES ASSUME InitSync PROVE WholeInv
  OBVIOUS
<1>1. blocks = {} /\ pc = [p \in Proc |-> "idle"] /\ position = [s \in Slot |-> <<>>]
  BY DEF InitSync, Init, MemInit
<1>2. OnlySyncer /\ PositionsHeld
  BY <1>1 DEF OnlySyncer, PositionsHeld, Range
<1>3. InAdd = {}
  BY <1>1, SyncAssumption DEF InAdd, Busy
<1>4. NoGaps
  BY <1>1, <1>2, <1>3 DEF NoGaps, Whole
<1>5. NoCall.at = "idle" /\ NoCall.then = "none" /\ NoCall.walked = <<>> /\ NoCall.foreign = <<>>
  BY DEF NoCall
<1>6. CallWhole(NoCall, Covered, cancelled, serves)
  BY <1>5, NothingClaimed
<1>7. FinishedAreWhole
  BY NoResultPromises DEF InitSync, FinishedAreWhole, Finished
<1> QED
  BY <1>4, <1>6, <1>7 DEF InitSync, WholeInv

\* The steps of the call keep it.
LEMMA CallStepWhole ==
    ASSUME Plain, Dependable, SyncInv, WholeInv, CallStep
    PROVE  WholeInv'
<1>1. CASE GiveUp \/ NextSource \/ Return
  BY <1>1, GiveUpWhole, NextSourceWhole, ReturnWhole
<1>2. CASE SyncFrom
  <2>1. CASE AskTip \/ AskRange \/ PageOffered \/ Check
    BY <2>1, AskTipWhole, AskRangeWhole, PageOfferedWhole, CheckWhole
  <2>2. CASE PagesDone
    BY <2>2, RangesEndWhole DEF PagesDone
  <2>3. CASE PursuitMeets \/ PursuitFails \/ PursuitSteps \/ WalkOffered
    BY <2>3, PursuitMeetsWhole, PursuitFailsWhole, PursuitStepsWhole, WalkOfferedWhole
  <2> QED
    BY <1>2, <2>1, <2>2, <2>3 DEF SyncFrom
<1>3. CASE OfferBlock
  BY <1>3, OfferCancelledWhole, ResolveRefsWhole, AddForeignWhole, AddOfferedWhole DEF OfferBlock
<1>4. CASE QuerySiblings
  BY <1>4, SourcesDoneWhole, AskSiblingsWhole, AddSiblingWhole, SiblingAddedWhole, SiblingsDoneWhole
     DEF QuerySiblings
<1> QED
  BY <1>1, <1>2, <1>3, <1>4 DEF CallStep

\* With sources that can be relied on, it is inductive.
LEMMA WholeStep ==
    ASSUME Plain, Dependable, SyncInv, WholeInv, [SyncNext]_allVars
    PROVE  WholeInv'
<1>1. CASE \E i \in Source, d \in Digest : Gain(i, d)
  <2>1. PICK i \in Source, d \in Digest : Gain(i, d)
    BY <1>1
  <2>2. /\ serves' = [serves EXCEPT ![i] = @ \cup {d}]
        /\ UNCHANGED <<vars, cancelled, call, result>>
    BY <2>1 DEF Gain
  <2>3. serves \in [Source -> SUBSET Digest]
    BY DEF SyncInv, SyncVarsOk
  <2>4. \A j \in Source : serves[j] \subseteq serves'[j]
    BY <2>2, <2>3
  <2> QED
    BY <2>2, <2>4, OutsideWhole
<1>2. CASE Cancel
  BY <1>2, OutsideWhole DEF Cancel
<1>3. CASE \E a \in Authors : SyncChain(a) \/ \E i \in Source : SyncChainFrom(i, a)
  BY <1>3, StartWhole DEF SyncChain, SyncChainFrom
<1>4. CASE CallStep
  BY <1>4, CallStepWhole
<1>5. CASE \E p \in Proc : AddStep(p)
  BY <1>5, AddStepWhole
<1>6. CASE OthersOffer
  BY <1>6 DEF OthersOffer, Dependable
<1>7. CASE UNCHANGED allVars
  BY <1>7, OutsideWhole DEF allVars, syncVars
<1> QED
  BY <1>1, <1>2, <1>3, <1>4, <1>5, <1>6, <1>7 DEF SyncNext

\* A sync from dependable sources that ends without an error has the whole
\* chain of every tip it reached, however it came by them and wherever an
\* earlier call was cut short; so every block of an advertised chain that
\* forks with a held block is in the store, unless no store could hold it
\* (sync.go, SyncChain; spec/07-transport.md, "First contact with a source").
THEOREM DependableSyncFindsForks ==
    ASSUME Plain, Dependable
    PROVE  SyncSpec => []ExposedForksAreFound
<1>1. InitSync => SyncInv /\ WholeInv
  BY InitSyncInv, InitWhole
<1>2. SyncInv /\ WholeInv /\ [SyncNext]_allVars => SyncInv' /\ WholeInv'
  BY SyncStep, WholeStep
<1>3. WholeInv => ExposedForksAreFound
  BY DEF WholeInv, FinishedAreWhole, ExposedForksAreFound
<1> QED
  BY <1>1, <1>2, <1>3, PTL DEF SyncSpec
=============================================================================
