---------------------------- MODULE AnnounceProofs ----------------------------
(***************************************************************************)
(* Proofs about a store whose callers take turns, and about the announce   *)
(* requests that are such callers.                                         *)
(*                                                                         *)
(* The index of waiters (LeftBehindStillWaits): WakeInv says of every      *)
(* undecided block either that it is well kept (Kept: the block it is      *)
(* filed under is missing, or is its predecessor and undecided itself, or  *)
(* the block is hopeless) or that the caller still has it to decide        *)
(* (Ahead).                                                                *)
(*                                                                         *)
(* Chains (AcceptedChainsStayValid): walk never leaves the accepted        *)
(* blocks, since an accepted block's predecessor is accepted.              *)
(*                                                                         *)
(* Receipts (ReceiptIsFinal): FreshInv says that the block in hand is not  *)
(* accepted while it is judged, so that what a call rejects is rejected    *)
(* for good; ReceiptsInv relates a receipt under way to the verdicts.      *)
(***************************************************************************)
EXTENDS Announce, ValidatingStoreProofs

Awaited(d) == verdicts[d].awaits

\* The steps of admit before its answer is recorded.
Admitting == {"lookup", "linkage", "verdict", "siblings", "refs", "resolve", "store", "record"}

\* An undecided block that need not be decided again yet.
Kept(d) ==
    \/ Hopeless(d, blocks, Keyed)
    \/ Awaited(d) \in Digest \ blocks
    \/ /\ Awaited(d) \in Digest \ accepted
       /\ Awaited(d) = content[d].prev
       /\ d \in Range(waiting[Awaited(d)])

\* The admission in hand will put its block in settle's queue.
Queues(p) ==
    /\ pc[p] \in {"record", "done"}
    /\ adm[p].verdict # "invalid"
    /\ IF arrived[p] = NoDigest THEN ~adm[p].duplicate ELSE adm[p].verdict = "valid"

Coming(p) == Range(queue[p]) \cup {a \in {block[p]} : Queues(p)}

\* A block the caller has in hand, or still to take up.
Ahead(p, d) ==
    \/ pc[p] \in Admitting /\ block[p] = d
    \/ d \in Range(todo[p])
    \/ \E a \in Coming(p) \cap Digest : d \in Range(waiting[a])

\* What an answer "undecided" rests on until it is recorded.
Basis(d, a) ==
    \/ a \in Digest \ (blocks \cup {d})
    \/ a \in Digest \ accepted /\ a = content[d].prev
    \/ Hopeless(d, blocks, Keyed)

Tidy(p) ==
    /\ pc[p] = "idle" => arrived[p] = NoDigest
    /\ arrived[p] = NoDigest => queue[p] = <<>> /\ todo[p] = <<>>
    /\ pc[p] = "take" => todo[p] = <<>>
    /\ pc[p] \in Admitting /\ arrived[p] # NoDigest => block[p] \in blocks
    /\ pc[p] \in Linking \cup Checking =>
           val[p].refsGap \notin blocks /\ val[p].refsGap \in Named(block[p]) \cup {NoDigest}
    /\ pc[p] \in {"store", "record"} /\ adm[p].verdict = "unvalidated" =>
           Basis(block[p], adm[p].awaits)

WakeInv ==
    /\ \A p \in Proc : Tidy(p)
    /\ \A d \in blocks \ accepted : Kept(d) \/ \E p \in Proc : Ahead(p, d)

-----------------------------------------------------------------------------
\* The empty store.
LEMMA InitWake == Init => WakeInv
  BY DEF Init, MemInit, WakeInv, Tidy, Admitting, Linking, Checking

\* A step that leaves the store alone must not lose a block it still has ahead.
LEMMA QuietWakes ==
    ASSUME WakeInv, NEW p \in Proc, \A q \in Proc : q = p, UNCHANGED storeVars, Tidy(p)',
           \A d \in blocks \ accepted : Ahead(p, d) => Ahead(p, d)' \/ Kept(d)
    PROVE  WakeInv'
<1>1. UNCHANGED <<blocks, verdicts, waiting>> /\ accepted' = accepted
  BY DEF storeVars, memVars, accepted, Accepted
<1>2. \A d : Kept(d)' <=> Kept(d)
  BY <1>1 DEF Kept, Awaited, Hopeless
<1>3. \A q \in Proc : Tidy(q)'
  OBVIOUS
<1> QED
  BY <1>1, <1>2, <1>3 DEF WakeInv

\* What is rejected is hopeless, with the keys there are.
LEMMA RejectedIsHopeless ==
    ASSUME Plain, TypeInv, DecisionInv', NEW p \in Proc, NEW a \in Admission, Decide(p, a),
           a.verdict = "invalid", block[p] \in Digest
    PROVE  Hopeless(block[p], blocks, Keyed)
<1>1. /\ pc' = [pc EXCEPT ![p] = "done"]
      /\ adm' = [adm EXCEPT ![p] = a]
      /\ UNCHANGED <<storeVars, block, val>>
  BY DEF Decide, Goto
<1>2. pc \in [Proc -> PC] /\ adm \in [Proc -> Admission]
  BY DEF TypeInv, TypeOK
<1>3. Definitive(block[p], val[p], blocks)
  BY <1>1, <1>2 DEF DecisionInv, Justified, storeVars, memVars
<1>4. Hopeless(block[p], blocks, Digest)
  <2>1. ~(scanLimit >= 0) /\ Garbled = {}
    BY OptionsAssumption DEF Plain, scanLimit, DefaultScanLimit
  <2> QED
    BY <1>3, <2>1 DEF Definitive
<1> QED
  BY <1>4, OperationsStaySound, OptionsAssumption DEF Hopeless

\* A decision keeps the block in hand, unless it is accepted or hopeless.
LEMMA DecideWakes ==
    ASSUME Plain, TypeInv, DecisionInv', WakeInv, NEW p \in Proc, \A q \in Proc : q = p,
           NEW a \in Admission, Decide(p, a), block[p] \in Digest,
           pc[p] \in {"lookup"} \cup Linking \cup Checking,
           a.duplicate => block[p] \in accepted,
           a.verdict = "unvalidated" => Basis(block[p], a.awaits)
    PROVE  WakeInv'
<1>1. /\ pc' = [pc EXCEPT ![p] = IF a.verdict = "invalid" \/ a.duplicate THEN "done" ELSE "store"]
      /\ adm' = [adm EXCEPT ![p] = a]
      /\ UNCHANGED <<storeVars, block, val, arrived, queue, todo>>
  BY DEF Decide, Goto
<1>2. pc \in [Proc -> PC] /\ adm \in [Proc -> Admission] /\ Tidy(p)
  BY DEF TypeInv, TypeOK, WakeInv
<1>3. UNCHANGED <<blocks, verdicts, waiting>> /\ accepted' = accepted
  BY <1>1 DEF storeVars, memVars, accepted, Accepted
<1>4. pc[p] \in Admitting \ {"record"}
  BY DEF Admitting, Linking, Checking
<1>5. \A d, b : Basis(d, b) => Basis(d, b)'
  BY <1>3 DEF Basis, Hopeless
<1>6. Tidy(p)'
  BY <1>1, <1>2, <1>3, <1>4, <1>5 DEF Tidy, Admitting, Linking, Checking
<1>7. ASSUME NEW d \in blocks \ accepted, Ahead(p, d) PROVE Ahead(p, d)' \/ Kept(d)
  <2>1. CASE block[p] = d
    <3>1. CASE a.verdict = "invalid"
      BY <2>1, <3>1, RejectedIsHopeless DEF Kept
    <3>2. CASE a.verdict # "invalid"
      BY <1>1, <1>2, <1>7, <2>1, <3>2 DEF Ahead, Admitting
    <3> QED
      BY <3>1, <3>2
  <2>2. CASE d \in Range(todo[p])
    BY <1>1, <2>2 DEF Ahead
  <2>3. ASSUME NEW b \in Coming(p) \cap Digest, d \in Range(waiting[b]) PROVE Ahead(p, d)'
    <3>1. b \in Range(queue[p])
      BY <1>4, <2>3 DEF Coming, Queues, Admitting
    <3> QED
      BY <1>1, <1>3, <2>3, <3>1 DEF Ahead, Coming
  <2> QED
    BY <1>7, <2>1, <2>2, <2>3 DEF Ahead
<1> QED
  BY <1>1, <1>6, <1>7, QuietWakes

\* A validation goes on: the gap it noted is of a block its block leads to.
LEMMA ContinueWakes ==
    ASSUME TypeInv, WakeInv, NEW p \in Proc, \A q \in Proc : q = p,
           NEW l \in Linking \cup Checking, NEW v \in Validation, Continue(p, l, v),
           pc[p] \in {"lookup"} \cup Linking \cup Checking,
           v.refsGap \notin blocks, v.refsGap \in Named(block[p]) \cup {NoDigest}
    PROVE  WakeInv'
<1>1. /\ pc' = [pc EXCEPT ![p] = l]
      /\ val' = [val EXCEPT ![p] = v]
      /\ UNCHANGED <<storeVars, block, adm, arrived, queue, todo>>
  BY DEF Continue, Goto
<1>2. pc \in [Proc -> PC] /\ val \in [Proc -> Validation] /\ Tidy(p)
  BY DEF TypeInv, TypeOK, WakeInv
<1>3. UNCHANGED <<blocks, waiting>>
  BY <1>1 DEF storeVars, memVars
<1>4. pc[p] \in Admitting \ {"record"} /\ l \in Admitting \ {"store", "record"}
  BY DEF Admitting, Linking, Checking
<1>5. Tidy(p)'
  BY <1>1, <1>2, <1>3, <1>4 DEF Tidy, Admitting, Linking, Checking
<1>6. ASSUME NEW d \in blocks \ accepted, Ahead(p, d) PROVE Ahead(p, d)'
  BY <1>1, <1>2, <1>3, <1>4, <1>6 DEF Ahead, Coming, Queues, Admitting
<1> QED
  BY <1>1, <1>5, <1>6, QuietWakes
-----------------------------------------------------------------------------
\* A turn of the search of refs notes only a block that is missing and that
\* the block at hand leads to; the other turns do not touch the gap.
LEMMA GapsAreNamed ==
    ASSUME NEW d \in Digest, NEW v \in Validation, NEW held,
           v.refsGap \notin held, v.refsGap \in Named(d) \cup {NoDigest}
    PROVE  /\ \A w \in {CheckRef(v, held), ExtendAncestors(v, held), Define(v, d),
                       [v EXCEPT !.ref = @ + 1]} : w.refsGap = v.refsGap
           /\ v.queue # <<>> /\ Range(v.queue) \subseteq Named(d) =>
                 /\ ExtendRefs(v, held).refsGap \notin held
                 /\ ExtendRefs(v, held).refsGap \in Named(d) \cup {NoDigest}
<1>1. /\ CheckRef(v, held).refsGap = v.refsGap
      /\ ExtendAncestors(v, held).refsGap = v.refsGap
  BY DEF CheckRef, ExtendAncestors, Validation
<1>2. /\ Define(v, d).refsGap = v.refsGap
      /\ [v EXCEPT !.ref = @ + 1].refsGap = v.refsGap
  BY DEF Define, Validation
<1>3. ASSUME v.queue # <<>>, Range(v.queue) \subseteq Named(d)
      PROVE  /\ ExtendRefs(v, held).refsGap \notin held
             /\ ExtendRefs(v, held).refsGap \in Named(d) \cup {NoDigest}
  <2> DEFINE x == Head(v.queue)
  <2>1. x \in Named(d)
    <3>1. v.queue \in Seq(Digest)
      BY DEF Validation
    <3> QED
      BY <1>3, <3>1, RangeHeadTail
  <2>2. \/ ExtendRefs(v, held).refsGap = v.refsGap
        \/ x \notin held /\ ExtendRefs(v, held).refsGap = Gap(v.refsGap, x)
    BY DEF ExtendRefs, Scan, Validation
  <2> HIDE DEF x
  <2> QED
    BY <2>1, <2>2 DEF Gap
<1> QED
  BY <1>1, <1>2, <1>3

\* A search that fails without an answer awaits a block that is missing, and
\* another than the block at hand, or no block that arrives can help.
LEMMA FailedSearchAwaits ==
    ASSUME StoreInv, DecisionInv, NEW p \in Proc, Tidy(p), Searching(p), Exhausted(val[p])
    PROVE  Basis(block[p], AwaitedBlock(val[p]))
<1> DEFINE d == block[p]
           v == val[p]
<1>1. /\ pc[p] = "resolve" /\ d \in Digest /\ v \in Validation
      /\ ~OpsDone(v, d) /\ ~OpResolved(v, d) /\ ~Resolved(v, d)
  BY DEF StoreInv, TypeInv, TypeOK, InHand, Busy, PC, Searching
<1>2. /\ v.ancestorGap = NoDigest /\ Trace(d, v, blocks) /\ content[d].type # "private"
      /\ v.refsGap \notin blocks /\ v.refsGap \in Named(d) \cup {NoDigest}
  BY <1>1 DEF StoreInv, CallInv, DecisionInv, Justified, Tidy, Checking
<1>3. AwaitedBlock(v) = v.refsGap
  BY <1>2 DEF AwaitedBlock, Gap
<1>4. CASE v.refsGap = NoDigest
  <2>1. ~OperationsSound(d, Digest, Keyed)
    BY <1>1, <1>2, <1>4, ExhaustedIsUnsound
  <2> QED
    BY <1>2, <2>1 DEF Basis, Hopeless
<1>5. CASE v.refsGap # NoDigest
  <2>1. v.refsGap \in Named(d) /\ Named(d) \in SUBSET Digest /\ d \notin Named(d)
    BY <1>1, <1>2, <1>5, NamedLeast, NothingNamesItself
  <2> QED
    BY <1>2, <1>3, <2>1 DEF Basis
<1> QED
  BY <1>4, <1>5

\* The steps of admit up to the verdict.
LEMMA ValidateWakes ==
    ASSUME Plain, StoreInv, DecisionInv, DecisionInv', WakeInv,
           NEW p \in Proc, \A q \in Proc : q = p,
           LookupAccepted(p) \/ Lookup(p) \/ Validate(p)
    PROVE  WakeInv'
<1> DEFINE d == block[p]
           v == val[p]
           prev == content[d].prev
<1>0. /\ pc[p] \in Busy => d \in Digest
      /\ v \in Validation /\ Justified(p) /\ Tidy(p) /\ TypeInv /\ blocks \in SUBSET Digest
  BY DEF StoreInv, DecisionInv, WakeInv, TypeInv, TypeOK, MemTypeOK, InHand
<1>c. /\ Linking = {"linkage", "verdict"}
      /\ Checking = {"siblings", "refs", "resolve"}
      /\ Linking \cup Checking \subseteq Busy
  BY DEF Linking, Checking, Busy, PC
<1>n. NoDigest \notin blocks
  BY <1>0, NullsAssumption
<1>t. pc[p] \in Linking \cup Checking =>
         d \in Digest /\ v.refsGap \notin blocks /\ v.refsGap \in Named(d) \cup {NoDigest}
  BY <1>0, <1>c DEF Tidy
<1>f. ASSUME NEW n \in 0..10, Decide(p, Invalid(n)), pc[p] \in Linking \cup Checking
      PROVE  WakeInv'
  BY <1>0, <1>t, <1>f, ConstantsType, DecideWakes DEF Invalid, NoAdmission
<1>g. ASSUME NEW a \in Digest \cup {NoDigest}, NEW n \in 0..10, Decide(p, Pending(a, n)),
             pc[p] \in Linking \cup Checking, Basis(d, a)
      PROVE  WakeInv'
  BY <1>0, <1>t, <1>g, ConstantsType, DecideWakes DEF Pending, NoAdmission
<1>v. ASSUME NEW l \in Linking \cup Checking, NEW w \in Validation, Continue(p, l, w),
             pc[p] \in Linking \cup Checking, w.refsGap = v.refsGap
      PROVE  WakeInv'
  BY <1>0, <1>t, <1>v, ContinueWakes
<1>1. CASE LookupAccepted(p)
  <2>1. pc[p] = "lookup" /\ d \in accepted /\ Decide(p, Duplicate)
    BY <1>0, <1>1 DEF LookupAccepted, accepted, Busy, PC
  <2> QED
    BY <1>0, <2>1, ConstantsType, DecideWakes DEF Duplicate, NoAdmission, accepted
<1>2. CASE Lookup(p)
  <2> DEFINE w == NewValidation(d)
  <2>1. pc[p] = "lookup" /\ Continue(p, "linkage", w) /\ w \in Validation
    BY <1>0, <1>2, NewValidationType DEF Lookup, Busy, PC
  <2>2. w.refsGap = NoDigest
    BY DEF NewValidation, NoValidation
  <2> HIDE DEF w
  <2> QED
    BY <1>0, <1>c, <1>n, <2>1, <2>2, ContinueWakes
<1>3. CASE Linkage(p)
  <2>1. pc[p] \in Linking /\ d \in Digest /\ prev \in Digest \cup {NoDigest}
    BY <1>0, <1>c, <1>3, ContentType
       DEF Linkage, Genesis, PrevMissing, PrevHeld, PrevUnaccepted, PrevAccepted
  <2>2. CASE PrevMissing(p) \/ PrevUnaccepted(p)
    <3>1. prev \in Digest \ accepted
      <4>1. accepted \subseteq blocks
        BY DEF StoreInv, AcceptedChain
      <4> QED
        BY <1>0, <2>1, <2>2, <4>1 DEF PrevMissing, PrevUnaccepted, Justified, accepted
    <3>2. Basis(d, prev)
      BY <3>1 DEF Basis
    <3> QED
      BY <1>g, <2>1, <2>2, <3>2 DEF PrevMissing, PrevUnaccepted
  <2>3. CASE Genesis(p) \/ PrevHeld(p)
    BY <1>0, <1>c, <1>v, <2>1, <2>3 DEF Genesis, PrevHeld
  <2>4. CASE PrevAccepted(p)
    BY <1>0, <1>c, <1>f, <1>v, <2>1, <2>4 DEF PrevAccepted
  <2> QED
    BY <1>3, <2>2, <2>3, <2>4 DEF Linkage
<1>4. CASE DetectFork(p)
  <2> DEFINE F == Range(BlocksWithPrev(content[d].pub, content[d].prev)) \ {d}
  <2>1. val' = [val EXCEPT ![p] = [v EXCEPT !.forks = F]]
    BY <1>4 DEF DetectFork
  <2>2. /\ pc[p] = "siblings" /\ d \in Digest
        /\ \/ pc' = [pc EXCEPT ![p] = "refs"]
           \/ pc' = [pc EXCEPT ![p] = "store"] /\ adm' = [adm EXCEPT ![p] = Valid]
        /\ UNCHANGED <<storeVars, block, arrived, queue, todo>>
        /\ UNCHANGED <<blocks, waiting>>
    BY <1>0, <1>c, <1>4 DEF DetectFork, Goto, storeVars, memVars
  <2>3. pc \in [Proc -> PC] /\ val \in [Proc -> Validation] /\ adm \in [Proc -> Admission]
    BY <1>0 DEF TypeInv, TypeOK
  <2> HIDE DEF F
  <2>4. val'[p].refsGap = v.refsGap
    BY <1>0, <2>1, <2>3 DEF Validation
  <2>5. Tidy(p)'
    BY <1>0, <1>c, <1>t, <2>2, <2>3, <2>4 DEF Tidy, Admitting, Valid, NoAdmission
  <2>6. ASSUME NEW x \in blocks \ accepted, Ahead(p, x) PROVE Ahead(p, x)'
    BY <2>2, <2>3, <2>6 DEF Ahead, Coming, Queues, Admitting
  <2> QED
    BY <2>2, <2>5, <2>6, QuietWakes
<1>5. CASE References(p)
  <2>1. pc[p] = "refs"
    BY <1>5 DEF References, CheckNextRef, AllRefsChecked
  <2>2. CASE CheckNextRef(p)
    <3> DEFINE w == CheckRef(v, blocks)
    <3>1. w \in Validation /\ w.refsGap = v.refsGap
      BY <1>0, <1>c, <1>t, <2>1, <2>2, CheckRefType, GapsAreNamed DEF CheckNextRef, RefsChecked
    <3>2. Continue(p, "refs", w) \/ \E n \in 0..10 : Decide(p, Invalid(n))
      BY <2>2 DEF CheckNextRef
    <3> HIDE DEF w
    <3> QED
      BY <1>c, <1>f, <1>v, <2>1, <3>1, <3>2
  <2>3. CASE AllRefsChecked(p)
    BY <1>0, <1>c, <1>v, <2>1, <2>3 DEF AllRefsChecked
  <2> QED
    BY <1>5, <2>2, <2>3 DEF References
<1>6. CASE Resolve(p)
  <2>0. pc[p] = "resolve" /\ d \in Digest
    BY <1>c, <1>t, <1>6
       DEF Resolve, ResolveReference, SearchAncestors, SearchRefs, SearchFails, Searching,
           DefineOperation, AllResolved
  <2>1. CASE ResolveReference(p)
    <3> DEFINE w == [v EXCEPT !.ref = @ + 1]
    <3>1. w \in Validation
      <4>1. v.ref + 1 \in Nat \ {0}
        BY <1>0 DEF Validation
      <4> QED
        BY <1>0, <4>1 DEF Validation
    <3>2. w.refsGap = v.refsGap
      BY <1>0 DEF Validation
    <3>3. Continue(p, "resolve", w) \/ Decide(p, Invalid(5))
      BY <2>1 DEF ResolveReference
    <3> HIDE DEF w
    <3> QED
      BY <1>c, <1>f, <1>v, <2>0, <3>1, <3>2, <3>3
  <2>2. CASE SearchAncestors(p)
    <3> DEFINE w == ExtendAncestors(v, blocks)
    <3>1. w \in Validation /\ w.refsGap = v.refsGap
      BY <1>0, <1>c, <1>t, <2>0, <2>2, ExtendAncestorsType, GapsAreNamed DEF SearchAncestors
    <3>2. Continue(p, "resolve", w) \/ Decide(p, Invalid(4))
      BY <2>2 DEF SearchAncestors
    <3> HIDE DEF w
    <3> QED
      BY <1>c, <1>f, <1>v, <2>0, <3>1, <3>2
  <2>3. CASE SearchRefs(p)
    <3> DEFINE w == ExtendRefs(v, blocks)
    <3>1. v.queue # <<>> /\ (Decide(p, Invalid(4)) \/ Continue(p, "resolve", w))
      BY <2>3 DEF SearchRefs
    <3>2. w \in Validation
      BY <1>0, <3>1, ExtendRefsType
    <3>3. Range(v.queue) \subseteq Named(d)
      BY <1>0, <1>c, <2>0, ForeignIsNamed DEF Justified, Trace, Reached
    <3>4. w.refsGap \notin blocks /\ w.refsGap \in Named(d) \cup {NoDigest}
      BY <1>0, <1>c, <1>t, <2>0, <3>1, <3>3, GapsAreNamed
    <3> HIDE DEF w
    <3> QED
      BY <1>0, <1>c, <1>f, <2>0, <3>1, <3>2, <3>4, ContinueWakes
  <2>4. CASE SearchFails(p)
    <3>1. AwaitedBlock(v) \in Digest \cup {NoDigest}
      BY <1>0 DEF AwaitedBlock, Gap, Validation
    <3>2. Basis(d, AwaitedBlock(v))
      BY <1>0, <2>4, FailedSearchAwaits DEF SearchFails
    <3> QED
      BY <1>c, <1>f, <1>g, <2>0, <2>4, <3>1, <3>2 DEF SearchFails
  <2>5. CASE DefineOperation(p)
    <3> DEFINE w == Define(v, d)
    <3>1. w \in Validation
      BY <1>0, <2>0, <2>5, DefineType DEF DefineOperation
    <3>2. w.refsGap = v.refsGap
      BY <1>0 DEF Define, Validation
    <3>3. Continue(p, "resolve", w) \/ Decide(p, Invalid(5))
      BY <2>5 DEF DefineOperation
    <3> HIDE DEF w
    <3> QED
      BY <1>c, <1>f, <1>v, <2>0, <3>1, <3>2, <3>3
  <2>6. CASE AllResolved(p)
    BY <1>0, <1>c, <2>0, <2>6, ConstantsType, DecideWakes DEF AllResolved, Valid, NoAdmission
  <2> QED
    BY <1>6, <2>1, <2>2, <2>3, <2>4, <2>5, <2>6 DEF Resolve
<1> QED
  BY <1>1, <1>2, <1>3, <1>4, <1>5, <1>6 DEF Validate

\* A block that arrives wakes those filed under it.
LEMMA StoreWakes ==
    ASSUME StoreInv, WakeInv, NEW p \in Proc, \A q \in Proc : q = p, Store(p)
    PROVE  WakeInv'
<1> DEFINE d == block[p]
<1>0. /\ pc[p] = "store" /\ d \in Digest /\ pc \in [Proc -> PC] /\ Tidy(p)
      /\ pc' = [pc EXCEPT ![p] = "record"]
      /\ UNCHANGED <<verdicts, waiting, block, val, adm, arrived, queue, todo>>
      /\ Decided(p)
  BY DEF StoreInv, WakeInv, TypeInv, TypeOK, InHand, Undelivered, Busy, PC, Store, Goto
<1>1. blocks' = blocks \cup {d} /\ accepted' = accepted
  BY <1>0, AddType DEF StoreInv, TypeInv, TypeOK, Store, accepted, Accepted
<1>2. \A x : Hopeless(x, blocks, Keyed) => Hopeless(x, blocks', Keyed)
  BY <1>1, HopelessStays
<1>3. Basis(d, adm[p].awaits) => Basis(d, adm[p].awaits)'
  BY <1>0, <1>1, <1>2 DEF Basis
<1>4. Tidy(p)'
  BY <1>0, <1>1, <1>3 DEF Tidy, Admitting, Linking, Checking
<1>5. Ahead(p, d)'
  BY <1>0 DEF Ahead, Admitting
<1>6. ASSUME NEW x \in blocks \ accepted PROVE Kept(x)' \/ Ahead(p, x)'
  <2>1. CASE Ahead(p, x)
    BY <1>0, <2>1 DEF Ahead, Coming, Queues, Admitting
  <2>2. CASE Awaited(x) = d /\ d \notin blocks
    <3>1. x \in Digest /\ d # NoDigest
      BY <1>0, NullsAssumption DEF StoreInv, TypeInv, TypeOK, MemTypeOK
    <3>2. x \in Range(waiting[d])
      BY <2>2, <3>1 DEF StoreInv, FiledUntilArrival, Awaited
    <3>3. Queues(p)'
      BY <1>0, <2>2 DEF Queues, Decided, Tidy, Admitting
    <3> QED
      BY <1>0, <3>2, <3>3 DEF Ahead, Coming
  <2>3. CASE Kept(x) /\ ~(Awaited(x) = d /\ d \notin blocks)
    BY <1>0, <1>1, <1>2, <2>3 DEF Kept, Awaited
  <2> QED
    BY <2>1, <2>2, <2>3 DEF WakeInv
<1>7. \A x \in (blocks \ accepted)' : Kept(x)' \/ Ahead(p, x)'
  BY <1>0, <1>1, <1>5, <1>6
<1> QED
  BY <1>4, <1>7 DEF WakeInv

\* An answer "undecided" is recorded with what it rests on; a block that
\* becomes accepted wakes those that wait for it as their predecessor.
LEMMA RecordWakes ==
    ASSUME StoreInv, WakeInv, NEW p \in Proc, \A q \in Proc : q = p, Record(p)
    PROVE  WakeInv'
<1> DEFINE d == block[p]
           a == adm[p].awaits
<1>0. /\ pc[p] = "record" /\ d \in Digest /\ d \in blocks
      /\ pc \in [Proc -> PC] /\ Tidy(p) /\ adm[p] \in Admission
      /\ waiting \in [Digest -> Seq(Digest)] /\ verdicts \in [Digest -> Entry]
      /\ pc' = [pc EXCEPT ![p] = "done"]
      /\ UNCHANGED <<blocks, block, val, adm, arrived, queue, todo>>
      /\ Decided(p)
  BY DEF StoreInv, CallInv, WakeInv, TypeInv, TypeOK, InHand, Undelivered, Busy, PC, Record,
         Goto, memVars
<1>1. Tidy(p)'
  BY <1>0 DEF Tidy, Admitting, Linking, Checking
<1>2. Queues(p) => Queues(p)'
  BY <1>0 DEF Queues
<1>3. CASE Accepted(d)
  <2>1. UNCHANGED <<verdicts, waiting>> /\ accepted' = accepted
    BY <1>3 DEF Record, accepted, Accepted
  <2>2. ASSUME NEW x \in blocks \ accepted PROVE Kept(x)' \/ Ahead(p, x)'
    <3>1. x # d
      BY <1>3 DEF accepted, StoreInv, TypeInv, TypeOK, MemTypeOK
    <3>2. CASE Ahead(p, x)
      BY <1>0, <1>2, <2>1, <3>1, <3>2 DEF Ahead, Coming
    <3>3. CASE Kept(x)
      BY <1>0, <2>1, <3>3 DEF Kept, Awaited
    <3> QED
      BY <3>2, <3>3 DEF WakeInv
  <2> QED
    BY <1>0, <1>1, <2>1, <2>2 DEF WakeInv
<1>4. CASE ~Accepted(d)
  <2>1. /\ verdicts' = [verdicts EXCEPT ![d] = EntryOf(p)]
        /\ waiting' = File(a, d)
        /\ a \in Digest \cup {NoDigest}
    BY <1>0, <1>4 DEF Record, Admission
  <2>2. \A y \in Digest : Range(waiting'[y]) =
            Range(waiting[y]) \cup (IF y = a THEN {d} ELSE {})
    <3>1. /\ waiting \in [Digest -> Seq(Digest)] /\ d \in Digest
          /\ waiting' = File(a, d) /\ a \in Digest \cup {NoDigest}
      BY <1>0, <2>1
    <3> HIDE DEF a, d
    <3>2. \A y \in Digest :
            Range(File(a, d)[y]) = Range(waiting[y]) \cup (IF y = a THEN {d} ELSE {})
      BY <3>1, FileRange
    <3> QED
      BY <3>1, <3>2
  <2>3. /\ verdicts'[d].verdict = adm[p].verdict /\ verdicts'[d].awaits = a
        /\ \A x \in Digest \ {d} : verdicts'[x] = verdicts[x]
    BY <1>0, <2>1 DEF EntryOf
  <2>4. accepted' = IF adm[p].verdict = "valid" THEN accepted \cup {d} ELSE accepted
    BY <1>0, <1>4, <2>3 DEF accepted, Accepted
  <2>5. adm[p].verdict = "valid" => Queues(p)'
    BY <1>0 DEF Queues, Decided
  <2>6. ASSUME NEW x \in blocks \ accepted, x # d PROVE Kept(x)' \/ Ahead(p, x)'
    <3>0. x \in Digest /\ Awaited(x)' = Awaited(x)
      BY <2>3, <2>6 DEF StoreInv, TypeInv, TypeOK, MemTypeOK, Awaited
    <3>1. CASE Ahead(p, x)
      BY <1>0, <1>2, <2>2, <2>6, <3>1 DEF Ahead, Coming
    <3>2. CASE Hopeless(x, blocks, Keyed) \/ Awaited(x) \in Digest \ blocks
      BY <1>0, <3>0, <3>2 DEF Kept
    <3>3. ASSUME Awaited(x) \in Digest \ accepted, Awaited(x) = content[x].prev,
                 x \in Range(waiting[Awaited(x)])
          PROVE  Kept(x)' \/ Ahead(p, x)'
      <4>1. x \in Range(waiting'[Awaited(x)])
        BY <2>2, <3>3
      <4>2. CASE Awaited(x) \in accepted'
        <5>1. Awaited(x) = d /\ Queues(p)'
          BY <2>4, <2>5, <3>3, <4>2
        <5> QED
          BY <1>0, <4>1, <5>1 DEF Ahead, Coming
      <4>3. CASE Awaited(x) \notin accepted'
        BY <3>0, <3>3, <4>1, <4>3 DEF Kept
      <4> QED
        BY <4>2, <4>3
    <3> QED
      BY <3>1, <3>2, <3>3 DEF WakeInv, Kept
  <2>7. ASSUME d \notin accepted' PROVE Kept(d)'
    <3>1. adm[p].verdict = "unvalidated" /\ accepted' = accepted
      BY <1>0, <2>4, <2>7 DEF Decided
    <3>2. Basis(d, a) /\ Awaited(d)' = a
      BY <1>0, <2>3, <3>1 DEF Tidy, Awaited
    <3>3. a \in Digest => d \in Range(waiting'[a])
      BY <2>2
    <3> QED
      BY <1>0, <3>1, <3>2, <3>3 DEF Basis, Kept
  <2>8. \A x \in (blocks \ accepted)' : Kept(x)' \/ Ahead(p, x)'
    BY <1>0, <2>4, <2>6, <2>7
  <2> QED
    BY <1>1, <2>8 DEF WakeInv
<1> QED
  BY <1>3, <1>4

\* Taking a list of waiters passes them on to the caller.
LEMMA TakeWakes ==
    ASSUME StoreInv, WakeInv, NEW p \in Proc, \A q \in Proc : q = p, Take(p)
    PROVE  WakeInv'
<1> DEFINE h == Head(queue[p])
<1>0. /\ pc[p] = "take" /\ pc \in [Proc -> PC] /\ Tidy(p)
      /\ queue[p] \in Seq(Digest) /\ queue[p] # <<>> /\ queue \in [Proc -> Seq(Digest)]
      /\ todo \in [Proc -> Seq(Digest)] /\ waiting \in [Digest -> Seq(Digest)]
  BY DEF StoreInv, WakeInv, TypeInv, TypeOK, Take
<1>1. /\ pc' = [pc EXCEPT ![p] = "waiters"]
      /\ queue' = [queue EXCEPT ![p] = Tail(queue[p])]
      /\ todo' = [todo EXCEPT ![p] = waiting[h]]
      /\ waiting' = [waiting EXCEPT ![h] = <<>>]
      /\ UNCHANGED <<blocks, verdicts, block, val, adm, arrived>>
      /\ accepted' = accepted
  BY DEF Take, Goto, memVars, accepted, Accepted
<1>2. h \in Digest /\ Range(queue[p]) \subseteq {h} \cup Range(Tail(queue[p]))
  BY <1>0, RangeHeadTail
<1>3. Tidy(p)'
  BY <1>0, <1>1 DEF Tidy, Admitting, Linking, Checking
<1>4. /\ todo'[p] = waiting[h] /\ queue'[p] = Tail(queue[p])
      /\ \A a \in Digest \ {h} : waiting'[a] = waiting[a]
  BY <1>0, <1>1
<1>5. ASSUME NEW x, NEW a \in Digest, x \in Range(waiting[a]), a \in Range(queue[p])
      PROVE  Ahead(p, x)'
  BY <1>2, <1>4, <1>5 DEF Ahead, Coming
<1>6. ASSUME NEW x \in blocks \ accepted PROVE Kept(x)' \/ Ahead(p, x)'
  <2>1. CASE Ahead(p, x)
    <3>1. \E a \in Coming(p) \cap Digest : x \in Range(waiting[a])
      BY <1>0, <2>1 DEF Ahead, Admitting, Tidy, Range
    <3>2. Coming(p) = Range(queue[p])
      BY <1>0 DEF Coming, Queues
    <3> QED
      BY <1>5, <3>1, <3>2
  <2>2. CASE Kept(x)
    <3>1. CASE Awaited(x) = h /\ x \in Range(waiting[h])
      BY <1>4, <3>1 DEF Ahead
    <3>2. CASE ~(Awaited(x) = h /\ x \in Range(waiting[h]))
      BY <1>1, <1>4, <2>2, <3>2 DEF Kept, Awaited
    <3> QED
      BY <3>1, <3>2
  <2> QED
    BY <2>1, <2>2 DEF WakeInv
<1> QED
  BY <1>1, <1>3, <1>6 DEF WakeInv

\* After an admission the caller keeps what it has still to take up.
LEMMA SettleWakes ==
    ASSUME StoreInv, WakeInv, NEW p \in Proc, \A q \in Proc : q = p,
           \/ AddReturns(p) \/ StartSettle(p) \/ WaiterAdmitted(p) \/ NextWaiter(p)
           \/ WaitersDone(p) \/ Settled(p) \/ \E d \in Digest : Offer(p, d)
    PROVE  WakeInv'
<1>0. /\ Tidy(p) /\ CallInv(p)
      /\ pc \in [Proc -> PC] /\ block \in [Proc -> Digest \cup {NoDigest}]
      /\ arrived \in [Proc -> Digest \cup {NoDigest}]
      /\ queue[p] \in Seq(Digest) /\ queue \in [Proc -> Seq(Digest)]
      /\ todo[p] \in Seq(Digest) /\ todo \in [Proc -> Seq(Digest)]
      /\ pc[p] = "done" => block[p] \in Digest
      /\ Range(todo[p]) \subseteq blocks
  BY DEF StoreInv, WakeInv, TypeInv, TypeOK, InHand, Busy, PC, VerdictsAreOfHeldBlocks
<1>n. \A x : x \notin Range(<<>>)
  BY DEF Range
<1>1. UNCHANGED storeVars /\ UNCHANGED <<blocks, waiting>>
  BY DEF AddReturns, StartSettle, WaiterAdmitted, Leave, NextWaiter, WaitersDone, Settled, Offer,
         storeVars, memVars
<1>2. Tidy(p)' /\ \A d \in blocks \ accepted : Ahead(p, d) => Ahead(p, d)'
  <2>1. CASE AddReturns(p)
    <3>1. /\ pc[p] = "done" /\ pc'[p] = "idle" /\ arrived[p] = NoDigest
          /\ queue[p] = <<>> /\ todo[p] = <<>>
          /\ UNCHANGED <<todo, arrived, queue>>
          /\ ~Queues(p)
      BY <1>0, <2>1 DEF AddReturns, Leave, Goto, Tidy, Queues
    <3>2. Tidy(p)'
      BY <1>1, <3>1 DEF Tidy, Admitting, Linking, Checking
    <3>3. \A d : ~Ahead(p, d)
      BY <1>n, <3>1 DEF Ahead, Admitting, Coming
    <3> QED
      BY <3>2, <3>3
  <2>2. CASE StartSettle(p)
    <3>1. /\ pc[p] = "done" /\ pc'[p] = "take" /\ arrived[p] = NoDigest
          /\ arrived'[p] = block[p] /\ block[p] \in Digest
          /\ queue[p] = <<>> /\ todo[p] = <<>> /\ queue'[p] = <<block[p]>>
          /\ UNCHANGED todo
      BY <1>0, <2>2 DEF StartSettle, Leave, Goto, Tidy
    <3>2. Tidy(p)'
      BY <1>1, <3>1, NullsAssumption DEF Tidy, Admitting, Linking, Checking
    <3>3. Range(<<block[p]>>) = {block[p]}
      BY DEF Range
    <3>4. \A d : Ahead(p, d) => d \in Range(waiting[block[p]])
      BY <1>n, <3>1 DEF Ahead, Admitting, Coming
    <3>5. \A d : d \in Range(waiting[block[p]]) => Ahead(p, d)'
      BY <1>1, <3>1, <3>3 DEF Ahead, Coming
    <3> QED
      BY <3>2, <3>4, <3>5
  <2>3. CASE WaiterAdmitted(p)
    <3>1. /\ pc[p] = "done" /\ pc'[p] = "waiters" /\ arrived[p] # NoDigest
          /\ UNCHANGED <<todo, arrived>> /\ block[p] \in Digest
          /\ queue'[p] = IF adm[p].verdict = "valid" THEN Append(queue[p], block[p]) ELSE queue[p]
      BY <1>0, <2>3 DEF WaiterAdmitted, Leave, Goto
    <3>2. Tidy(p)'
      BY <1>1, <3>1 DEF Tidy, Admitting, Linking, Checking
    <3>3. Range(Append(queue[p], block[p])) = Range(queue[p]) \cup {block[p]}
      BY <1>0, <3>1, RangeAppend
    <3>4. Coming(p) \subseteq Range(queue'[p])
      BY <3>1, <3>3 DEF Coming, Queues
    <3>5. \A d : Ahead(p, d) => Ahead(p, d)'
      BY <1>1, <3>1, <3>4 DEF Ahead, Admitting, Coming
    <3> QED
      BY <3>2, <3>5
  <2>4. CASE NextWaiter(p)
    <3> DEFINE h == Head(todo[p])
    <3>1. h \in Digest /\ h \in Range(todo[p]) /\ Range(todo[p]) \subseteq {h} \cup Range(Tail(todo[p]))
      BY <1>0, <2>4, RangeHeadTail DEF NextWaiter
    <3>2. /\ pc[p] = "waiters" /\ pc'[p] = "lookup" /\ block'[p] = h /\ h \in blocks
          /\ todo[p] # <<>> /\ todo'[p] = Tail(todo[p])
          /\ UNCHANGED <<adm, arrived, queue>>
      BY <1>0, <2>4, <3>1 DEF NextWaiter, Goto
    <3> HIDE DEF h
    <3>3. Tidy(p)'
      BY <1>0, <1>1, <3>2 DEF Tidy, Admitting, Linking, Checking
    <3>4. \A d : Ahead(p, d) => Ahead(p, d)'
      BY <1>1, <3>1, <3>2 DEF Ahead, Admitting, Coming, Queues
    <3> QED
      BY <3>3, <3>4
  <2>5. CASE WaitersDone(p)
    <3>1. /\ pc[p] = "waiters" /\ pc'[p] = "take" /\ todo[p] = <<>>
          /\ UNCHANGED <<block, adm, arrived, queue, todo>>
      BY <1>0, <2>5 DEF WaitersDone, Goto
    <3>2. Tidy(p)'
      BY <1>0, <1>1, <3>1 DEF Tidy, Admitting, Linking, Checking
    <3>3. \A d : Ahead(p, d) => Ahead(p, d)'
      BY <1>1, <3>1 DEF Ahead, Admitting, Coming, Queues
    <3> QED
      BY <3>2, <3>3
  <2>6. CASE Settled(p)
    <3>1. /\ pc[p] = "take" /\ pc'[p] = "idle" /\ arrived'[p] = NoDigest
          /\ queue[p] = <<>> /\ todo[p] = <<>>
          /\ UNCHANGED <<queue, todo>>
      BY <1>0, <2>6 DEF Settled, Goto, Tidy
    <3>2. Tidy(p)'
      BY <3>1 DEF Tidy, Admitting, Linking, Checking
    <3>3. \A d : ~Ahead(p, d)
      BY <1>n, <3>1 DEF Ahead, Admitting, Coming, Queues
    <3> QED
      BY <3>2, <3>3
  <2>7. CASE \E d \in Digest : Offer(p, d)
    <3>1. /\ pc[p] = "idle" /\ pc'[p] = "lookup" /\ arrived[p] = NoDigest
          /\ queue[p] = <<>> /\ todo[p] = <<>>
          /\ UNCHANGED <<arrived, queue, todo>>
      BY <1>0, <2>7 DEF Offer, Goto, Tidy
    <3>2. Tidy(p)'
      BY <3>1 DEF Tidy, Admitting, Linking, Checking
    <3>3. \A d : ~Ahead(p, d)
      BY <1>n, <3>1 DEF Ahead, Admitting, Coming, Queues
    <3> QED
      BY <3>2, <3>3
  <2> QED
    BY <2>1, <2>2, <2>3, <2>4, <2>5, <2>6, <2>7
<1> QED
  BY <1>1, <1>2, QuietWakes

\* WakeInv is inductive when there is one caller.
LEMMA WakeStep ==
    ASSUME Plain, \A p, q \in Proc : p = q
    PROVE  StoreInv /\ DecisionInv /\ DecisionInv' /\ WakeInv /\ [Next]_vars => WakeInv'
<1> SUFFICES ASSUME StoreInv, DecisionInv, DecisionInv', WakeInv, [Next]_vars PROVE WakeInv'
  OBVIOUS
<1>1. CASE UNCHANGED vars
  <2>1. /\ UNCHANGED <<blocks, verdicts, waiting, pc, block, val, adm, arrived, queue, todo>>
        /\ accepted' = accepted
    BY <1>1 DEF vars, storeVars, memVars, callVars, accepted, Accepted
  <2> QED
    BY <2>1 DEF WakeInv, Tidy, Basis, Hopeless, Kept, Awaited, Ahead, Coming, Queues
<1>2. ASSUME NEW p \in Proc, Step(p) \/ \E d \in Digest : Offer(p, d) PROVE WakeInv'
  <2>1. \A q \in Proc : q = p
    OBVIOUS
  <2> QED
    BY <1>2, <2>1, ValidateWakes, StoreWakes, RecordWakes, TakeWakes, SettleWakes
       DEF Step, Admit, Settle
<1> QED
  BY <1>1, <1>2 DEF Next
-----------------------------------------------------------------------------
\* With nothing ahead, every undecided block is well kept.
LEMMA WokenOrWaiting == StoreInv /\ WakeInv => LeftBehindStillWaits
<1> SUFFICES ASSUME StoreInv, WakeInv, Quiescent, NEW d \in blocks \ accepted, Acceptable(d)
             PROVE  Awaited(d) \in Digest \ blocks
  BY DEF LeftBehindStillWaits, StillWaits, Awaited
<1>1. d \in Digest
  BY DEF StoreInv, TypeInv, TypeOK, MemTypeOK
<1>2. \A p \in Proc : ~Ahead(p, d)
  BY DEF WakeInv, Quiescent, Ahead, Admitting, Coming, Queues, Tidy, Range
<1>3. ~Hopeless(d, blocks, Keyed)
  <3>1. OperationsSound(d, blocks, Keyed) => OperationsSound(d, Digest, Keyed)
    BY <1>1, OperationsStaySound DEF StoreInv, TypeInv, TypeOK, MemTypeOK
  <3> QED
    BY <3>1 DEF Hopeless, Acceptable
<1>4. ~(Awaited(d) \in Digest \ accepted /\ Awaited(d) = content[d].prev)
  BY NullsAssumption DEF Acceptable
<1> QED
  BY <1>2, <1>3, <1>4 DEF WakeInv, Kept

\* With one caller at rest, a block is left undecided only if the store could
\* not accept it, or if the block it is filed under is not held: each arrival
\* and each acceptance wakes its waiters (verdict.go, settle and take).  The
\* scan limit and garbled payloads, which reject for reasons of their own, are
\* left aside.
THEOREM WaitersAreWoken ==
    ASSUME Plain, \A p, q \in Proc : p = q
    PROVE  Spec => []LeftBehindStillWaits
  BY InitStore, StoreStep, InitDecision, DecisionStep, InitWake, WakeStep, WokenOrWaiting, PTL
     DEF Spec
-----------------------------------------------------------------------------
\* Every step of an announce request is a step of the store, or leaves it be.
LEMMA RequestSteps ==
    ASSUME AnnounceTypeOK, [AnnounceNext]_announceVars
    PROVE  [Next]_vars
<1>1. CASE UNCHANGED announceVars
  BY <1>1 DEF announceVars
<1>2. ASSUME NEW p \in Proc, OfferNext(p) PROVE Next
  <2>1. Head(offers[p]) \in Digest
    BY <1>2, RangeHeadTail DEF OfferNext, AnnounceTypeOK
  <2> QED
    BY <1>2, <2>1 DEF OfferNext, Next
<1>3. ASSUME NEW p \in Proc, AddStep(p) PROVE Next
  BY <1>3 DEF AddStep, Next
<1>4. ASSUME NEW p \in Proc,
             ReadNext(p) \/ Respond(p) \/ Cancel(p) \/ \E s \in offered : Announce(p, s)
      PROVE  UNCHANGED vars
  BY <1>4 DEF ReadNext, Respond, Cancel, Over, Announce
<1> QED
  BY <1>1, <1>2, <1>3, <1>4 DEF AnnounceNext, Request

\* A disposition is filed in one of the three members of a receipt.
LEMMA WithType ==
    ASSUME NEW r \in Receipt, NEW refusals, NEW d \in Digest
    PROVE  With(r, refusals, d) \in Receipt
  BY DEF With, Receipt

\* Requests keep their types.
LEMMA AnnounceTypeStep ==
    AnnounceTypeOK /\ TypeInv /\ TypeInv' /\ [AnnounceNext]_announceVars => AnnounceTypeOK'
<1> SUFFICES ASSUME AnnounceTypeOK, TypeInv, TypeInv', [AnnounceNext]_announceVars PROVE AnnounceTypeOK'
  OBVIOUS
<1>0. /\ offered \in Announces /\ offered \subseteq Seq(Digest)
      /\ asked \in [Proc -> offered \cup {<<>>}]
      /\ offers \in [Proc -> Seq(Digest)] /\ readings \in [Proc -> Seq(Digest)]
      /\ refused \in [Proc -> SUBSET Digest] /\ receipt \in [Proc -> Receipt]
      /\ answered \in [asked : offered \cup {<<>>}, receipt : Receipt]
      /\ TypeOK'
  BY AnnouncesAssumption DEF AnnounceTypeOK, TypeInv
<1>n. NoReceipt \in Receipt /\ NoAnswer \in [asked : offered \cup {<<>>}, receipt : Receipt]
  BY DEF NoReceipt, Receipt, NoAnswer
<1>1. CASE UNCHANGED announceVars
  BY <1>0, <1>1 DEF announceVars, passVars, AnnounceTypeOK
<1>2. ASSUME NEW p \in Proc, OfferNext(p) PROVE AnnounceTypeOK'
  <2>1. Tail(offers[p]) \in Seq(Digest)
    BY <1>0, <1>2, RangeHeadTail DEF OfferNext
  <2> QED
    BY <1>0, <1>2, <2>1 DEF OfferNext, AnnounceTypeOK
<1>3. ASSUME NEW p \in Proc, AddStep(p) PROVE AnnounceTypeOK'
  <2>1. refused' \in [Proc -> SUBSET Digest]
    <3>1. pc[p] = "done" => block[p] \in Digest
      BY DEF TypeInv, InHand, Busy, PC
    <3> QED
      BY <1>0, <1>3, <3>1 DEF AddStep
  <2> QED
    BY <1>0, <1>3, <2>1 DEF AddStep, AnnounceTypeOK
<1>4. ASSUME NEW p \in Proc, ReadNext(p) PROVE AnnounceTypeOK'
  <2>1. Head(readings[p]) \in Digest /\ Tail(readings[p]) \in Seq(Digest)
    BY <1>0, <1>4, RangeHeadTail DEF ReadNext
  <2>2. With(receipt[p], refused[p], Head(readings[p])) \in Receipt
    BY <1>0, <2>1, WithType
  <2> QED
    BY <1>0, <1>4, <2>1, <2>2 DEF ReadNext, AnnounceTypeOK
<1>5. ASSUME NEW p \in Proc, Respond(p) \/ Cancel(p) PROVE AnnounceTypeOK'
  <2>1. <<>> \in Seq(Digest) /\ {} \in SUBSET Digest
    OBVIOUS
  <2>2. answered' \in [asked : offered \cup {<<>>}, receipt : Receipt]
    BY <1>0, <1>n, <1>5 DEF Respond, Cancel
  <2>3. /\ asked' = [asked EXCEPT ![p] = <<>>]
        /\ offers' = [offers EXCEPT ![p] = <<>>]
        /\ readings' = [readings EXCEPT ![p] = <<>>]
        /\ refused' = [refused EXCEPT ![p] = {}]
        /\ receipt' = [receipt EXCEPT ![p] = NoReceipt]
        /\ UNCHANGED offered
    BY <1>5 DEF Respond, Cancel, Over
  <2>4. offers' \in [Proc -> Seq(Digest)] /\ readings' \in [Proc -> Seq(Digest)]
    BY <1>0, <2>1, <2>3
  <2>5. asked' \in [Proc -> offered' \cup {<<>>}] /\ refused' \in [Proc -> SUBSET Digest]
    BY <1>0, <2>1, <2>3
  <2>6. receipt' \in [Proc -> Receipt]
    BY <1>0, <1>n, <2>3
  <2> QED
    BY <1>0, <2>2, <2>3, <2>4, <2>5, <2>6 DEF AnnounceTypeOK
<1>6. ASSUME NEW p \in Proc, NEW s \in offered, Announce(p, s) PROVE AnnounceTypeOK'
  <2>1. s \in Seq(Digest)
    BY <1>0
  <2>2. answered' \in [asked : offered \cup {<<>>}, receipt : Receipt]
    BY <1>0, <1>n, <1>6 DEF Announce
  <2> QED
    BY <1>0, <1>6, <2>1, <2>2 DEF Announce, AnnounceTypeOK
<1> QED
  BY <1>1, <1>2, <1>3, <1>4, <1>5, <1>6 DEF AnnounceNext, Request

\* The steps of the store's invariants, taken by requests.
LEMMA RequestInv ==
    AnnounceSpec => [](AnnounceTypeOK /\ StoreInv /\ DecisionInv /\ RefsInv)
<1>1. AnnounceInit => AnnounceTypeOK /\ Init
  <2>1. NoReceipt \in Receipt /\ <<>> \in Seq(Digest)
    BY DEF NoReceipt, Receipt
  <2> QED
    BY <2>1, InitType DEF AnnounceInit, AnnounceTypeOK, TypeInv, NoAnswer
<1>2. AnnounceTypeOK /\ TypeInv /\ [AnnounceNext]_announceVars => [Next]_vars /\ TypeInv'
  BY RequestSteps, StepType
<1>3. StoreInv => TypeInv
  BY DEF StoreInv
<1> QED
  BY <1>1, <1>2, <1>3, InitStore, InitDecision, InitRefs, StoreStep, DecisionStep, RefsStep,
     AnnounceTypeStep, PTL
     DEF AnnounceSpec

\* An announcer's state is always well typed (announce.go).
THEOREM AnnounceTypeCorrect == AnnounceSpec => []AnnounceTypeOK
  BY RequestInv, PTL
-----------------------------------------------------------------------------
\* From an accepted block, walk passes accepted blocks only.
LEMMA AcceptedWalk ==
    ASSUME StoreInv, NEW tip \in accepted
    PROVE  Range(walk(tip)) \subseteq accepted
<1> DEFINE T == Seq(accepted) \ {<<>>}
           Onward(s) == IF Head(s) \notin blocks \/ IsGenesis(Head(s))
                        THEN s ELSE <<content[Head(s)].prev>> \o s
           Shape(f) == [n \in Nat |-> IF n = 0 THEN <<tip>> ELSE Onward(f[n - 1])]
           Back == CHOOSE f : f = Shape(f)
           step == [s \in T |-> Onward(s)]
<1>1. <<tip>> \in T
  OBVIOUS
<1>2. ASSUME NEW s \in T PROVE Onward(s) \in T
  <2>1. s \in Seq(accepted) /\ s # <<>> /\ Head(s) \in accepted
    BY HeadTailProperties
  <2>2. CASE Onward(s) = s
    BY <2>2
  <2>3. CASE Onward(s) = <<content[Head(s)].prev>> \o s /\ ~IsGenesis(Head(s))
    <3>1. content[Head(s)].prev \in accepted
      BY <2>1, <2>3 DEF StoreInv, AcceptedChain, IsGenesis
    <3> DEFINE h == <<content[Head(s)].prev>>
    <3>2. h \in Seq(accepted) /\ Len(h) = 1
      BY <3>1
    <3> HIDE DEF h
    <3>3. h \o s \in Seq(accepted) /\ Len(h \o s) = 1 + Len(s) /\ Len(s) \in Nat
      BY <2>1, <3>2, ConcatProperties
    <3>4. h \o s # <<>>
      BY <3>3
    <3> QED
      BY <2>3, <3>3, <3>4 DEF h
  <2> QED
    BY <2>2, <2>3
<1>3. step \in [T -> T]
  BY <1>2
<1>4. PICK f \in [Nat -> T] : f[0] = <<tip>> /\ \A n \in Nat : f[n + 1] = step[f[n]]
  <2> DEFINE first == <<tip>>
  <2>1. first \in T
    BY <1>1
  <2> HIDE DEF T, step, first
  <2>2. \E f \in [Nat -> T] : f[0] = first /\ \A n \in Nat : f[n + 1] = step[f[n]]
    BY <1>3, <2>1, RecursionExists
  <2> QED
    BY <2>2 DEF first
<1>5. f = Shape(f)
  <2>1. f = [n \in Nat |-> f[n]]
    OBVIOUS
  <2>2. ASSUME NEW n \in Nat PROVE f[n] = IF n = 0 THEN <<tip>> ELSE Onward(f[n - 1])
    <3>1. CASE n = 0
      BY <1>4, <3>1
    <3>2. CASE n # 0
      <4>1. n - 1 \in Nat /\ (n - 1) + 1 = n
        BY <3>2
      <4>2. f[(n - 1) + 1] = step[f[n - 1]] /\ f[n - 1] \in T
        BY <1>4, <4>1
      <4> HIDE DEF T, Onward
      <4> QED
        BY <3>2, <4>1, <4>2
    <3> QED
      BY <3>1, <3>2
  <2> HIDE DEF Onward
  <2>3. Shape(f) = [n \in Nat |-> f[n]]
    BY <2>2
  <2> QED
    BY <2>1, <2>3
<1>6. Back = Shape(Back)
  BY <1>5
<1>7. walk(tip) = Back[Cardinality(blocks)]
  BY DEF walk
<1> HIDE DEF Back, T, Onward
<1>8. \A n \in Nat : Back[n] = IF n = 0 THEN <<tip>> ELSE Onward(Back[n - 1])
  BY <1>6
<1>9. \A n \in Nat : Back[n] \in T
  <2> DEFINE R == {n \in Nat : Back[n] \in T}
  <2>1. 0 \in R
    BY <1>1, <1>8
  <2>2. ASSUME NEW n \in R PROVE n + 1 \in R
    <3>1. n + 1 \in Nat /\ n + 1 # 0 /\ (n + 1) - 1 = n
      BY <2>2
    <3> QED
      BY <1>2, <1>8, <3>1
  <2> HIDE DEF R
  <2>3. R = Nat
    BY <2>1, <2>2, Induction DEF R
  <2> QED
    BY <2>3 DEF R
<1>10. Cardinality(blocks) \in Nat
  BY DigestsAreFinite, FS_Subset, FS_CardinalityType
     DEF StoreInv, TypeInv, TypeOK, MemTypeOK
<1>11. walk(tip) \in Seq(accepted)
  BY <1>7, <1>9, <1>10 DEF T
<1> QED
  BY <1>11 DEF Range

\* A chain that was accepted is not refused later (chain.go, ValidateChain
\* over a source that carries verdicts), with any number of callers.
THEOREM AcceptedChainsAlwaysValid == AnnounceSpec => []AcceptedChainsStayValid
<1>1. StoreInv => AcceptedChainsStayValid
  <2>1. StoreInv => accepted \subseteq blocks \cap chainValid
    BY DEF StoreInv, AcceptedChain, chainValid, accepted
  <2> QED
    BY <2>1, AcceptedWalk DEF AcceptedChainsStayValid, ValidateChain
<1> QED
  BY <1>1, RequestInv, PTL
-----------------------------------------------------------------------------
\* The steps of admit between the look at the verdict and its record.
Judging == Linking \cup Checking \cup {"store", "record"}

\* With one caller, a block being judged is not accepted meanwhile, and what
\* its validation left unchecked is still not held.
Fresh(p) ==
    /\ pc[p] \in Judging \/ (pc[p] = "done" /\ adm[p].verdict = "invalid") => block[p] \notin accepted
    /\ pc[p] \in Judging => val[p].unchecked \subseteq Range(Refs(block[p])) \ blocks

FreshInv == \A p \in Proc : Fresh(p)

\* Nothing is being judged at first.
LEMMA InitFresh == Init => FreshInv
  BY DEF Init, FreshInv, Fresh, Judging, Linking, Checking

\* A decision changes neither the store nor the report.
LEMMA DecideFresh ==
    ASSUME TypeInv, NEW p \in Proc, Fresh(p), NEW a \in Admission, Decide(p, a),
           pc[p] \in Linking \cup Checking \/ a = Duplicate
    PROVE  Fresh(p)'
<1>1. /\ pc' = [pc EXCEPT ![p] = IF a.verdict = "invalid" \/ a.duplicate THEN "done" ELSE "store"]
      /\ adm' = [adm EXCEPT ![p] = a]
      /\ UNCHANGED <<storeVars, block, val>>
  BY DEF Decide, Goto
<1>2. pc \in [Proc -> PC] /\ adm \in [Proc -> Admission]
  BY DEF TypeInv, TypeOK
<1>3. UNCHANGED blocks /\ accepted' = accepted
  BY <1>1 DEF storeVars, memVars, accepted, Accepted
<1>4. CASE a = Duplicate
  BY <1>1, <1>2, <1>4 DEF Fresh, Judging, Linking, Checking, Duplicate, NoAdmission
<1>5. CASE pc[p] \in Linking \cup Checking
  BY <1>1, <1>2, <1>3, <1>5 DEF Fresh, Judging, Linking, Checking
<1> QED
  BY <1>4, <1>5

\* A validation moves on.
LEMMA ContinueFresh ==
    ASSUME TypeInv, NEW p \in Proc, NEW l \in Linking \cup Checking, NEW v \in Validation,
           Continue(p, l, v), block[p] \notin accepted,
           v.unchecked \subseteq Range(Refs(block[p])) \ blocks
    PROVE  Fresh(p)'
<1>1. /\ pc' = [pc EXCEPT ![p] = l]
      /\ val' = [val EXCEPT ![p] = v]
      /\ UNCHANGED <<storeVars, block, adm>>
  BY DEF Continue, Goto
<1>2. pc \in [Proc -> PC] /\ val \in [Proc -> Validation]
  BY DEF TypeInv, TypeOK
<1>3. UNCHANGED blocks /\ accepted' = accepted
  BY <1>1 DEF storeVars, memVars, accepted, Accepted
<1> QED
  BY <1>1, <1>2, <1>3 DEF Fresh, Linking, Checking

\* The steps of admit up to the verdict.
LEMMA ValidateFresh ==
    ASSUME StoreInv, DecisionInv, FreshInv, NEW p \in Proc,
           LookupAccepted(p) \/ Lookup(p) \/ Validate(p)
    PROVE  Fresh(p)'
<1> DEFINE d == block[p]
           v == val[p]
<1>0. /\ pc[p] \in Busy => d \in Digest
      /\ v \in Validation /\ Fresh(p) /\ Justified(p) /\ TypeInv /\ blocks \in SUBSET Digest
  BY DEF StoreInv, DecisionInv, FreshInv, TypeInv, TypeOK, MemTypeOK, InHand
<1>c. /\ Linking = {"linkage", "verdict"}
      /\ Checking = {"siblings", "refs", "resolve"}
      /\ Linking \cup Checking \subseteq Busy /\ Linking \cup Checking \subseteq Judging
  BY DEF Linking, Checking, Busy, PC, Judging
<1>t. pc[p] \in Linking \cup Checking =>
         d \in Digest /\ d \notin accepted /\ v.unchecked \subseteq Range(Refs(d)) \ blocks
  BY <1>0, <1>c DEF Fresh
<1>f. ASSUME NEW n \in 0..10, Decide(p, Invalid(n)), pc[p] \in Linking \cup Checking
      PROVE  Fresh(p)'
  BY <1>0, <1>f, ConstantsType, DecideFresh
<1>g. ASSUME NEW a \in Digest \cup {NoDigest}, NEW n \in 0..10, Decide(p, Pending(a, n)),
             pc[p] \in Linking \cup Checking
      PROVE  Fresh(p)'
  BY <1>0, <1>g, ConstantsType, DecideFresh
<1>v. ASSUME NEW l \in Linking \cup Checking, NEW w \in Validation, Continue(p, l, w),
             pc[p] \in Linking \cup Checking, w.unchecked = v.unchecked
      PROVE  Fresh(p)'
  BY <1>0, <1>t, <1>v, ContinueFresh
<1>1. CASE LookupAccepted(p)
  BY <1>0, <1>1, ConstantsType, DecideFresh DEF LookupAccepted
<1>2. CASE Lookup(p)
  <2>1. /\ Continue(p, "linkage", NewValidation(d)) /\ NewValidation(d) \in Validation
        /\ d \notin accepted
    BY <1>0, <1>2, NewValidationType DEF Lookup, Busy, PC, accepted
  <2>2. NewValidation(d).unchecked = {}
    BY DEF NewValidation, NoValidation
  <2> QED
    BY <1>0, <1>c, <2>1, <2>2, ContinueFresh
<1>3. CASE Linkage(p)
  <2>1. pc[p] \in Linking /\ d \in Digest /\ content[d].prev \in Digest \cup {NoDigest}
    BY <1>0, <1>c, <1>3, ContentType
       DEF Linkage, Genesis, PrevMissing, PrevHeld, PrevUnaccepted, PrevAccepted
  <2> QED
    BY <1>0, <1>c, <1>3, <1>f, <1>g, <1>v, <2>1
       DEF Linkage, Genesis, PrevMissing, PrevHeld, PrevUnaccepted, PrevAccepted
<1>4. CASE DetectFork(p)
  <2>1. PICK F : val' = [val EXCEPT ![p] = [v EXCEPT !.forks = F]]
    BY <1>4 DEF DetectFork
  <2>2. /\ pc[p] = "siblings"
        /\ pc' = [pc EXCEPT ![p] = "refs"] \/ pc' = [pc EXCEPT ![p] = "store"]
        /\ UNCHANGED <<storeVars, block>> /\ UNCHANGED blocks /\ accepted' = accepted
    BY <1>4 DEF DetectFork, Goto, storeVars, memVars, accepted, Accepted
  <2>3. pc \in [Proc -> PC] /\ val \in [Proc -> Validation]
    BY <1>0 DEF TypeInv, TypeOK
  <2>4. val'[p].unchecked = v.unchecked
    BY <1>0, <2>1, <2>3 DEF Validation
  <2> QED
    BY <1>c, <1>t, <2>2, <2>3, <2>4 DEF Fresh
<1>5. CASE References(p)
  <2>1. pc[p] = "refs"
    BY <1>5 DEF References, CheckNextRef, AllRefsChecked
  <2>2. CASE CheckNextRef(p)
    <3> DEFINE w == CheckRef(v, blocks)
    <3>1. v.toCheck # <<>> /\ w \in Validation
      BY <1>0, <2>2, CheckRefType DEF CheckNextRef, RefsChecked
    <3>2. w.unchecked = v.unchecked \cup ({Head(v.toCheck)} \ blocks)
      BY <1>0 DEF CheckRef, Validation
    <3>3. Head(v.toCheck) \in Range(Refs(d))
      <4>1. v.toCheck \in Seq(Digest) /\ Range(v.toCheck) \subseteq Range(Refs(d))
        BY <1>0, <1>c, <2>1 DEF Justified, Trace, Validation
      <4> QED
        BY <3>1, <4>1, RangeHeadTail
    <3>4. Continue(p, "refs", w) \/ \E n \in 0..10 : Decide(p, Invalid(n))
      BY <2>2 DEF CheckNextRef
    <3> HIDE DEF w
    <3> QED
      BY <1>0, <1>c, <1>f, <1>t, <2>1, <3>1, <3>2, <3>3, <3>4, ContinueFresh
  <2>3. CASE AllRefsChecked(p)
    BY <1>0, <1>c, <1>v, <2>1, <2>3 DEF AllRefsChecked
  <2> QED
    BY <1>5, <2>2, <2>3 DEF References
<1>6. CASE Resolve(p)
  <2>0. pc[p] = "resolve" /\ d \in Digest
    BY <1>c, <1>t, <1>6
       DEF Resolve, ResolveReference, SearchAncestors, SearchRefs, SearchFails, Searching,
           DefineOperation, AllResolved
  <2>1. CASE ResolveReference(p)
    <3> DEFINE w == [v EXCEPT !.ref = @ + 1]
    <3>1. w \in Validation /\ w.unchecked = v.unchecked
      <4>1. v.ref + 1 \in Nat \ {0}
        BY <1>0 DEF Validation
      <4> QED
        BY <1>0, <4>1 DEF Validation
    <3>2. Continue(p, "resolve", w) \/ Decide(p, Invalid(5))
      BY <2>1 DEF ResolveReference
    <3> HIDE DEF w
    <3> QED
      BY <1>c, <1>f, <1>v, <2>0, <3>1, <3>2
  <2>2. CASE SearchAncestors(p)
    <3> DEFINE w == ExtendAncestors(v, blocks)
    <3>1. w \in Validation /\ w.unchecked = v.unchecked
      BY <1>0, <2>2, ExtendAncestorsType, TurnsCheckNothing DEF SearchAncestors
    <3>2. Continue(p, "resolve", w) \/ Decide(p, Invalid(4))
      BY <2>2 DEF SearchAncestors
    <3> HIDE DEF w
    <3> QED
      BY <1>c, <1>f, <1>v, <2>0, <3>1, <3>2
  <2>3. CASE SearchRefs(p)
    <3> DEFINE w == ExtendRefs(v, blocks)
    <3>1. w \in Validation /\ w.unchecked = v.unchecked
      BY <1>0, <2>3, ExtendRefsType, TurnsCheckNothing DEF SearchRefs
    <3>2. Continue(p, "resolve", w) \/ Decide(p, Invalid(4))
      BY <2>3 DEF SearchRefs
    <3> HIDE DEF w
    <3> QED
      BY <1>c, <1>f, <1>v, <2>0, <3>1, <3>2
  <2>4. CASE SearchFails(p)
    <3>1. AwaitedBlock(v) \in Digest \cup {NoDigest}
      BY <1>0 DEF AwaitedBlock, Gap, Validation
    <3> QED
      BY <1>c, <1>f, <1>g, <2>0, <2>4, <3>1 DEF SearchFails
  <2>5. CASE DefineOperation(p)
    <3> DEFINE w == Define(v, d)
    <3>1. w \in Validation /\ w.unchecked = v.unchecked
      BY <1>0, <2>0, <2>5, DefineType, TurnsCheckNothing DEF DefineOperation
    <3>2. Continue(p, "resolve", w) \/ Decide(p, Invalid(5))
      BY <2>5 DEF DefineOperation
    <3> HIDE DEF w
    <3> QED
      BY <1>c, <1>f, <1>v, <2>0, <3>1, <3>2
  <2>6. CASE AllResolved(p)
    BY <1>0, <1>c, <2>0, <2>6, ConstantsType, DecideFresh DEF AllResolved
  <2> QED
    BY <1>6, <2>1, <2>2, <2>3, <2>4, <2>5, <2>6 DEF Resolve
<1> QED
  BY <1>1, <1>2, <1>3, <1>4, <1>5, <1>6 DEF Validate

\* FreshInv is inductive when there is one caller.
LEMMA FreshStep ==
    ASSUME \A p, q \in Proc : p = q
    PROVE  StoreInv /\ DecisionInv /\ FreshInv /\ [Next]_vars => FreshInv'
<1> SUFFICES ASSUME StoreInv, DecisionInv, FreshInv, [Next]_vars PROVE FreshInv'
  OBVIOUS
<1>1. CASE UNCHANGED vars
  <2>1. UNCHANGED <<blocks, pc, block, val, adm>> /\ accepted' = accepted
    BY <1>1 DEF vars, storeVars, memVars, callVars, accepted, Accepted
  <2> QED
    BY <2>1 DEF FreshInv, Fresh
<1>2. ASSUME NEW p \in Proc, Step(p) \/ \E d \in Digest : Offer(p, d) PROVE Fresh(p)'
  <2>0. pc \in [Proc -> PC] /\ Fresh(p)
    BY DEF StoreInv, TypeInv, TypeOK, FreshInv
  <2>1. CASE LookupAccepted(p) \/ Lookup(p) \/ Validate(p)
    BY <2>1, ValidateFresh
  <2>2. CASE Store(p)
    <3> DEFINE d == block[p]
    <3>1. /\ pc[p] = "store" /\ d \in Digest
          /\ pc' = [pc EXCEPT ![p] = "record"] /\ UNCHANGED <<block, val, adm>>
          /\ blocks' = blocks \cup {d} /\ accepted' = accepted
      BY <2>2, AddType
         DEF StoreInv, TypeInv, TypeOK, InHand, Busy, PC, Store, Goto, accepted, Accepted
    <3>2. d \notin Range(Refs(d))
      BY <3>1, NothingNamesItself, NamedLeast DEF Refs, Range
    <3> QED
      BY <2>0, <3>1, <3>2 DEF Fresh, Judging
  <2>3. CASE Record(p)
    BY <2>0, <2>3 DEF Record, Goto, Fresh, Judging, Linking, Checking, StoreInv, TypeInv,
                      Undelivered, Decided
  <2>4. CASE AddReturns(p) \/ StartSettle(p) \/ WaiterAdmitted(p)
    BY <2>0, <2>4 DEF AddReturns, StartSettle, WaiterAdmitted, Leave, Goto, Fresh, Judging,
                      Linking, Checking
  <2>5. CASE NextWaiter(p) \/ WaitersDone(p) \/ Settled(p) \/ Take(p) \/ \E d \in Digest : Offer(p, d)
    BY <2>0, <2>5 DEF NextWaiter, WaitersDone, Settled, Take, Offer, Goto, Fresh, Judging,
                      Linking, Checking
  <2> QED
    BY <1>2, <2>1, <2>2, <2>3, <2>4, <2>5 DEF Step, Admit, Settle
<1> QED
  BY <1>1, <1>2 DEF Next, FreshInv

\* What is hopeless, whatever the keys, does not become accepted.
LEMMA HopelessIsNotAccepted ==
    ASSUME \A p, q \in Proc : p = q, StoreInv, DecisionInv, RefsInv, FreshInv, [Next]_vars,
           NEW d \in Digest \ accepted, Hopeless(d, blocks, Digest)
    PROVE  d \notin accepted' /\ Hopeless(d, blocks', Digest)
<1>1. Hopeless(d, blocks', Digest)
  BY Grows, HopelessStays DEF StoreInv
<1>2. CASE UNCHANGED verdicts
  BY <1>1, <1>2 DEF accepted, Accepted
<1>3. ASSUME NEW p \in Proc, Record(p), d \in accepted' PROVE FALSE
  <2>1. /\ d = block[p] /\ adm[p].verdict = "valid" /\ pc[p] = "record"
    BY <1>3 DEF Record, accepted, Accepted, EntryOf, StoreInv, TypeInv, TypeOK
  <2>2. PrevSound(d)
    BY <2>1 DEF StoreInv, CallInv, Based
  <2>3. RefsSound(d, blocks)
    <3>1. \A x \in Range(Refs(d)) \ val[p].unchecked : Fine(d, x)
      BY <2>1 DEF RefsInv, ChecksInv, AllChecked
    <3>2. val[p].unchecked \cap blocks = {}
      BY <2>1 DEF FreshInv, Fresh, Judging
    <3> QED
      BY <3>1, <3>2 DEF RefsSound, Fine
  <2>4. content[d].type # "private" => OperationsSound(d, Digest, Digest)
    <3>1. content[d].type # "private" => OperationsSound(d, blocks, Keyed)
      BY <2>1 DEF DecisionInv, Justified
    <3>2. blocks \subseteq Digest /\ Keyed \subseteq Digest
      BY OptionsAssumption DEF StoreInv, TypeInv, TypeOK, MemTypeOK
    <3> QED
      BY <3>1, <3>2, OperationsStaySound
  <2> QED
    BY <2>2, <2>3, <2>4 DEF Hopeless
<1>4. ASSUME NEW p \in Proc, Quiet(p) \/ Store(p) \/ Take(p) PROVE UNCHANGED verdicts
  BY <1>4, QuietSteps DEF Store, Take, storeVars
<1> QED
  BY <1>1, <1>2, <1>3, <1>4, StepCases DEF Next, vars, storeVars
-----------------------------------------------------------------------------
\* What a receipt says of the blocks read so far, which nothing changes before
\* the request is over; and what was refused can never be accepted.
ReceiptInv(p) ==
    LET r == receipt[p] IN
    /\ Range(asked[p]) = r.accepted \cup r.held \cup r.rejected \cup Range(readings[p])
    /\ r # NoReceipt => pc[p] = "idle" /\ offers[p] = <<>> /\ asked[p] # <<>>
    /\ r.accepted \subseteq accepted
    /\ \A d \in r.held : d \notin accepted \cup refused[p] /\ verdicts[d].verdict # "unknown"
    /\ \A d \in r.rejected : d \in refused[p] \/ verdicts[d].verdict = "unknown"
    /\ \A d \in refused[p] : d \notin accepted /\ Hopeless(d, blocks, Digest)

ReceiptsInv == \A p \in Proc : ReceiptInv(p)

\* No call of Add is in progress at "idle".
LEMMA NothingToDo ==
    ASSUME NEW p \in Proc, Step(p)
    PROVE  pc[p] # "idle"
  BY DEF Step, Admit, LookupAccepted, Lookup, Validate, Linkage, Genesis, PrevMissing, PrevHeld,
         PrevUnaccepted, PrevAccepted, DetectFork, References, CheckNextRef, AllRefsChecked,
         Resolve, ResolveReference, SearchAncestors, SearchRefs, SearchFails, Searching,
         DefineOperation, AllResolved, Store, Record, AddReturns, Settle, StartSettle,
         WaiterAdmitted, Leave, Take, NextWaiter, WaitersDone, Settled

\* A request in its first pass has nothing in its receipt.
LEMMA InitReceipts == AnnounceInit => ReceiptsInv
  BY DEF AnnounceInit, ReceiptsInv, ReceiptInv, NoReceipt, Range

\* One more disposition is read.
LEMMA ReadKeeps ==
    ASSUME AnnounceTypeOK, NEW p \in Proc, ReceiptInv(p), ReadNext(p)
    PROVE  ReceiptInv(p)'
<1> DEFINE r == receipt[p]
           d == Head(readings[p])
           w == With(r, refused[p], d)
<1>1. /\ readings[p] \in Seq(Digest) /\ readings[p] # <<>> /\ r \in Receipt
      /\ readings \in [Proc -> Seq(Digest)] /\ receipt \in [Proc -> Receipt]
      /\ pc[p] = "idle" /\ offers[p] = <<>>
      /\ receipt' = [receipt EXCEPT ![p] = w]
      /\ readings' = [readings EXCEPT ![p] = Tail(@)]
      /\ UNCHANGED <<blocks, verdicts, pc, asked, offers, refused>>
      /\ accepted' = accepted
  BY DEF AnnounceTypeOK, ReadNext, vars, storeVars, memVars, callVars, accepted, Accepted
<1>2. d \in Digest /\ Range(readings[p]) = {d} \cup Range(Tail(readings[p]))
  BY <1>1, RangeHeadTail
<1>3. \/ /\ d \in refused[p] \/ verdicts[d].verdict = "unknown"
         /\ w.accepted = r.accepted /\ w.held = r.held /\ w.rejected = r.rejected \cup {d}
      \/ /\ d \in accepted
         /\ w.accepted = r.accepted \cup {d} /\ w.held = r.held /\ w.rejected = r.rejected
      \/ /\ d \notin accepted \cup refused[p] /\ verdicts[d].verdict # "unknown"
         /\ w.accepted = r.accepted /\ w.held = r.held \cup {d} /\ w.rejected = r.rejected
  BY <1>1, <1>2 DEF With, Receipt, accepted
<1>4. receipt'[p] = w /\ readings'[p] = Tail(readings[p])
  BY <1>1
<1>5. asked[p] # <<>>
  <2>1. d \in Range(asked[p])
    BY <1>2 DEF ReceiptInv
  <2> QED
    BY <2>1 DEF Range
<1> HIDE DEF w, d
<1>6. /\ Range(asked[p]) = w.accepted \cup w.held \cup w.rejected \cup Range(Tail(readings[p]))
      /\ w.accepted \subseteq accepted
  BY <1>2, <1>3 DEF ReceiptInv
<1>7. /\ \A x \in w.held : x \notin accepted \cup refused[p] /\ verdicts[x].verdict # "unknown"
      /\ \A x \in w.rejected : x \in refused[p] \/ verdicts[x].verdict = "unknown"
  BY <1>3 DEF ReceiptInv
<1>8. \A x \in refused[p] : x \notin accepted /\ Hopeless(x, blocks, Digest)
  BY DEF ReceiptInv
<1> QED
  BY <1>1, <1>4, <1>5, <1>6, <1>7, <1>8 DEF ReceiptInv

\* ReceiptsInv is inductive when there is one caller.
LEMMA ReceiptStep ==
    ASSUME Plain, \A p, q \in Proc : p = q
    PROVE  /\ AnnounceTypeOK /\ StoreInv /\ DecisionInv /\ RefsInv /\ FreshInv /\ ReceiptsInv
           /\ [AnnounceNext]_announceVars
           => ReceiptsInv'
<1> SUFFICES ASSUME AnnounceTypeOK, StoreInv, DecisionInv, RefsInv, FreshInv, ReceiptsInv,
                    [AnnounceNext]_announceVars
             PROVE  ReceiptsInv'
  OBVIOUS
<1>0. [Next]_vars
  BY RequestSteps
<1>1. CASE UNCHANGED announceVars
  <2>1. /\ UNCHANGED <<blocks, verdicts, pc, asked, offers, readings, refused, receipt>>
        /\ accepted' = accepted
    BY <1>1 DEF announceVars, passVars, vars, storeVars, memVars, callVars, accepted, Accepted
  <2> QED
    BY <2>1 DEF ReceiptsInv, ReceiptInv
<1>2. ASSUME NEW p \in Proc,
             OfferNext(p) \/ AddStep(p) \/ ReadNext(p) \/ Respond(p) \/ Cancel(p)
             \/ \E s \in offered : Announce(p, s)
      PROVE  ReceiptInv(p)'
  <2>0. /\ ReceiptInv(p) /\ pc \in [Proc -> PC]
        /\ asked \in [Proc -> offered \cup {<<>>}] /\ receipt \in [Proc -> Receipt]
        /\ offers \in [Proc -> Seq(Digest)] /\ readings \in [Proc -> Seq(Digest)]
        /\ refused \in [Proc -> SUBSET Digest]
    BY DEF ReceiptsInv, AnnounceTypeOK, TypeOK
  <2>n. /\ Range(<<>>) = {}
        /\ NoReceipt.accepted = {} /\ NoReceipt.held = {} /\ NoReceipt.rejected = {}
    BY DEF Range, NoReceipt
  <2>1. CASE OfferNext(p)
    <3>1. /\ UNCHANGED <<blocks, verdicts, asked, readings, refused, receipt>>
          /\ accepted' = accepted /\ offers[p] # <<>>
      BY <2>1 DEF OfferNext, Offer, storeVars, memVars, accepted, Accepted
    <3> QED
      BY <2>0, <3>1 DEF ReceiptInv
  <2>2. CASE AddStep(p)
    <3>1. /\ UNCHANGED <<asked, offers, readings, receipt>> /\ receipt[p] = NoReceipt
      BY <2>0, <2>2, NothingToDo DEF AddStep, ReceiptInv
    <3>2. ASSUME NEW d \in refused'[p] PROVE d \in Digest \ accepted /\ Hopeless(d, blocks, Digest)
      <4>1. CASE d \in refused[p]
        BY <2>0, <4>1 DEF ReceiptInv
      <4>2. CASE d \notin refused[p]
        <5>1. d = block[p] /\ pc[p] = "done" /\ adm[p].verdict = "invalid"
          BY <2>0, <2>2, <3>2, <4>2 DEF AddStep
        <5>2. d \in Digest \ accepted
          BY <5>1 DEF FreshInv, Fresh, StoreInv, TypeInv, InHand, Busy, PC
        <5>3. Definitive(d, val[p], blocks)
          BY <5>1 DEF DecisionInv, Justified
        <5>4. ~(scanLimit >= 0) /\ Garbled = {}
          BY OptionsAssumption DEF Plain, scanLimit, DefaultScanLimit
        <5> QED
          BY <5>2, <5>3, <5>4 DEF Definitive
      <4> QED
        BY <4>1, <4>2
    <3>3. \A d \in refused'[p] : d \notin accepted' /\ Hopeless(d, blocks', Digest)
      BY <1>0, <3>2, HopelessIsNotAccepted
    <3> QED
      BY <2>0, <2>n, <3>1, <3>3 DEF ReceiptInv
  <2>3. CASE ReadNext(p)
    BY <2>0, <2>3, ReadKeeps
  <2>4. CASE Respond(p) \/ Cancel(p)
    <3>1. /\ asked'[p] = <<>> /\ offers'[p] = <<>> /\ readings'[p] = <<>>
          /\ refused'[p] = {} /\ receipt'[p] = NoReceipt
      BY <2>0, <2>4 DEF Respond, Cancel, Over
    <3> QED
      BY <2>n, <3>1 DEF ReceiptInv
  <2>5. ASSUME NEW s \in offered, Announce(p, s) PROVE ReceiptInv(p)'
    <3>1. /\ asked'[p] = s /\ readings'[p] = s /\ receipt[p] = NoReceipt
          /\ UNCHANGED <<blocks, verdicts, receipt, refused>> /\ accepted' = accepted
      BY <2>0, <2>5 DEF Announce, ReceiptInv, vars, storeVars, memVars, accepted, Accepted
    <3> QED
      BY <2>0, <2>n, <3>1 DEF ReceiptInv
  <2> QED
    BY <1>2, <2>1, <2>2, <2>3, <2>4, <2>5
<1> QED
  BY <1>1, <1>2 DEF AnnounceNext, Request, ReceiptsInv

\* With one request at a time, a receipt puts every block asked for in exactly
\* one of its three members, and by what the store knows when the request
\* ends, not when the block was offered (announce.go): what is accepted then,
\* what is refused for good, and what is held and still waits.  The scan limit
\* and garbled payloads are left aside.
THEOREM ReceiptsAreFinal ==
    ASSUME Plain, \A p, q \in Proc : p = q
    PROVE  AnnounceSpec => [](LeftBehindStillWaits /\ ReceiptIsFinal)
<1>1. AnnounceInit => Init
  BY DEF AnnounceInit
<1>2. AnnounceTypeOK /\ [AnnounceNext]_announceVars => [Next]_vars
  BY RequestSteps
<1>3. AnnounceTypeOK /\ StoreInv /\ ReceiptsInv /\ LeftBehindStillWaits => ReceiptIsFinal
  <2> SUFFICES ASSUME AnnounceTypeOK, StoreInv, ReceiptsInv, LeftBehindStillWaits, NEW p \in Proc, Complete(p)
               PROVE  LET r == receipt[p] IN
                      /\ r.accepted \cup r.held \cup r.rejected = Range(asked[p])
                      /\ r.accepted \cap (r.held \cup r.rejected) = {}
                      /\ r.held \cap r.rejected = {}
                      /\ r.accepted = Range(asked[p]) \cap accepted
                      /\ \A d \in r.held : d \in blocks /\ StillWaits(d)
    BY DEF ReceiptIsFinal
  <2> DEFINE r == receipt[p]
  <2>1. /\ Range(asked[p]) = r.accepted \cup r.held \cup r.rejected
        /\ r.accepted \subseteq accepted
    BY DEF ReceiptsInv, ReceiptInv, Complete, Range
  <2>2. \A d \in r.held : d \notin accepted \cup refused[p] /\ verdicts[d].verdict # "unknown"
    BY DEF ReceiptsInv, ReceiptInv
  <2>3. \A d \in r.rejected : d \notin accepted /\ (d \in refused[p] \/ verdicts[d].verdict = "unknown")
    BY DEF ReceiptsInv, ReceiptInv, accepted, Accepted
  <2>4. ASSUME NEW d \in r.held PROVE d \in blocks /\ StillWaits(d)
    <3>1. Quiescent
      BY DEF Quiescent, Complete
    <3>2. d \in blocks
      <4>1. d \in Digest
        BY DEF AnnounceTypeOK, Receipt
      <4> QED
        BY <2>2, <4>1 DEF StoreInv, VerdictsAreOfHeldBlocks
    <3> QED
      BY <2>2, <2>4, <3>1, <3>2 DEF LeftBehindStillWaits
  <2> QED
    BY <2>1, <2>2, <2>3, <2>4
<1> QED
  BY <1>1, <1>2, <1>3, RequestInv, InitReceipts, ReceiptStep, InitFresh, FreshStep, InitWake,
     WakeStep, WokenOrWaiting, PTL
     DEF AnnounceSpec
=============================================================================
