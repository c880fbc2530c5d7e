-------------------------- MODULE ValidatingStore --------------------------
(***************************************************************************)
(* block.ValidatingStore: a node's Layer 1 storage, which validates each   *)
(* block as it arrives and records the verdict, shared by goroutines that  *)
(* call Add.                                                               *)
(*                                                                         *)
(* admit holds no lock across Validate.  So a call of Add is a sequence of *)
(* steps, one for every time the code takes the MemStore's lock or mu, and *)
(* the steps of different goroutines interleave freely.  pc names the next *)
(* step of a goroutine:                                                    *)
(*                                                                         *)
(*   idle -> lookup -> linkage -> verdict -> siblings -> refs -> resolve   *)
(*        -> store -> record -> done -> take -> waiters -> lookup ... idle *)
(*                                                                         *)
(* A goroutine that settles admits the waiting blocks through the same     *)
(* steps; arrived tells the two uses of admit apart.                       *)
(***************************************************************************)
EXTENDS MemStore, Validity

CONSTANT Proc   \* goroutines that call Add

VARIABLES
    verdicts,   \* verdicts[d]: the recorded entry
    waiting,    \* waiting[a]: blocks filed as waiting for a
    pc,         \* pc[p]: the next step of p
    block,      \* block[p]: the block p is admitting
    val,        \* val[p]: p's validation in progress
    adm,        \* adm[p]: what p's admission will return
    arrived,    \* arrived[p]: the block whose arrival p settles, if it does
    queue,      \* queue[p]: settle's queue
    todo        \* todo[p]: what is left of the list take returned

storeVars == <<memVars, verdicts, waiting>>
callVars == <<pc, block, val, adm, arrived, queue, todo>>
vars == <<storeVars, callVars>>

Verdict == {"unknown", "valid", "unvalidated"}
Report == [forks : SUBSET Digest, unchecked : SUBSET Digest]
NoReport == [forks |-> {}, unchecked |-> {}]

\* awaits is NoDigest in the pending error of a block that wants a key.
Entry == [verdict : Verdict, report : Report, awaits : Digest \cup {NoDigest}]
Unknown == [verdict |-> "unknown", report |-> NoReport, awaits |-> NoDigest]

\* An Admission, or the *RuleError (rule) that rejects the block.
Admission == [verdict : {"none", "valid", "unvalidated", "invalid"},
              duplicate : BOOLEAN, rule : 0..10,
              awaits : Digest \cup {NoDigest}]
NoAdmission == [verdict |-> "none", duplicate |-> FALSE, rule |-> 0,
                awaits |-> NoDigest]
Duplicate == [NoAdmission EXCEPT !.verdict = "valid", !.duplicate = TRUE]
Valid == [NoAdmission EXCEPT !.verdict = "valid"]
Pending(a, n) == [NoAdmission EXCEPT !.verdict = "unvalidated", !.awaits = a,
                                     !.rule = n]
Invalid(n) == [NoAdmission EXCEPT !.verdict = "invalid", !.rule = n]

PC == {"idle", "lookup", "linkage", "verdict", "siblings", "refs", "resolve",
       "store", "record", "done", "take", "waiters"}

TypeOK ==
    /\ MemTypeOK
    /\ verdicts \in [Digest -> Entry]
    /\ waiting \in [Digest -> Seq(Digest)]
    /\ pc \in [Proc -> PC]
    /\ block \in [Proc -> Digest \cup {NoDigest}]
    /\ val \in [Proc -> Validation]
    /\ adm \in [Proc -> Admission]
    /\ arrived \in [Proc -> Digest \cup {NoDigest}]
    /\ queue \in [Proc -> Seq(Digest)]
    /\ todo \in [Proc -> Seq(Digest)]

Init ==
    /\ MemInit
    /\ verdicts = [d \in Digest |-> Unknown]
    /\ waiting = [d \in Digest |-> <<>>]
    /\ pc = [p \in Proc |-> "idle"]
    /\ block = [p \in Proc |-> NoDigest]
    /\ val = [p \in Proc |-> NoValidation]
    /\ adm = [p \in Proc |-> NoAdmission]
    /\ arrived = [p \in Proc |-> NoDigest]
    /\ queue = [p \in Proc |-> <<>>]
    /\ todo = [p \in Proc |-> <<>>]

Accepted(d) == verdicts[d].verdict = "valid"
accepted == {d \in Digest : Accepted(d)}
-----------------------------------------------------------------------------
Goto(p, l) == pc' = [pc EXCEPT ![p] = l]

\* admit has its answer for block[p]: an undecided or valid block goes on to
\* be stored, an invalid one or a duplicate returns at once.
Decide(p, a) ==
    /\ adm' = [adm EXCEPT ![p] = a]
    /\ Goto(p, IF a.verdict = "invalid" \/ a.duplicate THEN "done" ELSE "store")
    /\ UNCHANGED <<storeVars, block, val, arrived, queue, todo>>

\* A step inside Validate that reads the store and decides nothing.
Continue(p, l, v) ==
    /\ val' = [val EXCEPT ![p] = v]
    /\ Goto(p, l)
    /\ UNCHANGED <<storeVars, block, adm, arrived, queue, todo>>

\* A caller offers a block.
Offer(p, d) ==
    /\ pc[p] = "idle"
    /\ block' = [block EXCEPT ![p] = d]
    /\ Goto(p, "lookup")
    /\ UNCHANGED <<storeVars, val, adm, arrived, queue, todo>>

\* admit: an accepted block is never validated again.
LookupAccepted(p) ==
    /\ pc[p] = "lookup"
    /\ Accepted(block[p])
    /\ Decide(p, Duplicate)

Lookup(p) ==
    /\ pc[p] = "lookup"
    /\ ~Accepted(block[p])
    /\ Continue(p, "linkage", NewValidation(block[p]))

\* validateLinkage, as far as reading the predecessor.
Genesis(p) ==
    /\ pc[p] = "linkage"
    /\ IsGenesis(block[p])
    /\ Continue(p, "siblings", val[p])

PrevMissing(p) ==
    LET prev == content[block[p]].prev IN
    /\ pc[p] = "linkage"
    /\ prev \notin blocks \cup {NoDigest}
    /\ Decide(p, Pending(prev, 3))

PrevHeld(p) ==
    /\ pc[p] = "linkage"
    /\ content[block[p]].prev \in blocks
    /\ Continue(p, "verdict", val[p])

\* validateLinkage, from reading the predecessor's verdict to the end.
PrevUnaccepted(p) ==
    LET prev == content[block[p]].prev IN
    /\ pc[p] = "verdict"
    /\ ~Accepted(prev)
    /\ Decide(p, Pending(prev, 3))

\* Mutant: a rotation block does not end the chain.
PrevAcceptedRotated(p) ==
    LET prev == content[block[p]].prev IN
    /\ pc[p] = "verdict"
    /\ Accepted(prev)
    /\ IF SameAuthor(prev, block[p])
       THEN Continue(p, "siblings", val[p])
       ELSE Decide(p, Invalid(3))

PrevAccepted(p) ==
    LET prev == content[block[p]].prev IN
    /\ pc[p] = "verdict"
    /\ Accepted(prev)
    /\ IF SameAuthor(prev, block[p]) /\ content[prev].type # "rotation"
       THEN Continue(p, "siblings", val[p])
       ELSE Decide(p, Invalid(3))

\* detectFork; then a private block has nothing more that can be checked.
DetectFork(p) ==
    LET d == block[p]
        others == Range(BlocksWithPrev(content[d].pub, content[d].prev)) \ {d}
        private == content[d].type = "private"
    IN  /\ pc[p] = "siblings"
        /\ val' = [val EXCEPT ![p].forks = others]
        /\ adm' = IF private THEN [adm EXCEPT ![p] = Valid] ELSE adm
        /\ Goto(p, IF private THEN "store" ELSE "refs")
        /\ UNCHANGED <<storeVars, block, arrived, queue, todo>>

\* validateReferences, the pass over refs: rules 6 and 10.
CheckNextRef(p) ==
    LET d == block[p]
        x == Head(val[p].toCheck)
    IN  /\ pc[p] = "refs"
        /\ ~RefsChecked(val[p])
        /\ CASE x \in blocks /\ BreaksRule6(d, x) -> Decide(p, Invalid(6))
             [] x \in blocks /\ ~BreaksRule6(d, x) /\ BreaksRule10(d, x) ->
                    Decide(p, Invalid(10))
             [] OTHER -> Continue(p, "refs", CheckRef(val[p], blocks))

AllRefsChecked(p) ==
    /\ pc[p] = "refs"
    /\ RefsChecked(val[p])
    /\ Continue(p, "resolve", val[p])

\* validateReferences, the loop over operations: the reference at hand names
\* an entity already defined, of the right kind or not (rule 5).
ResolveReference(p) ==
    LET d == block[p]
        v == val[p]
    IN  /\ pc[p] = "resolve"
        /\ ~OpsDone(v, d) /\ ~OpResolved(v, d) /\ Resolved(v, d)
        /\ IF kind[Wanted(v, d).entity] = Wanted(v, d).kind
           THEN Continue(p, "resolve", [v EXCEPT !.ref = @ + 1])
           ELSE Decide(p, Invalid(5))

\* resolve: the reference at hand names nothing defined so far.
Searching(p) ==
    /\ pc[p] = "resolve"
    /\ ~OpsDone(val[p], block[p])
    /\ ~OpResolved(val[p], block[p])
    /\ ~Resolved(val[p], block[p])

SearchAncestors(p) ==
    LET v == val[p] IN
    /\ Searching(p)
    /\ v.nextAncestor # NoDigest
    /\ IF v.nextAncestor \in blocks /\ DecryptFails(v.nextAncestor)
       THEN Decide(p, Invalid(4))
       ELSE Continue(p, "resolve", ExtendAncestors(v, blocks))

SearchRefs(p) ==
    LET v == val[p] IN
    /\ Searching(p)
    /\ v.nextAncestor = NoDigest
    /\ v.queue # <<>>
    /\ IF \/ AtScanLimit(v, blocks)
          \/ Head(v.queue) \in blocks \ v.visited /\ DecryptFails(Head(v.queue))
       THEN Decide(p, Invalid(4))
       ELSE Continue(p, "resolve", ExtendRefs(v, blocks))

\* Mutant: what could not be found is taken not to exist.
SearchFailsAlways(p) ==
    /\ Searching(p)
    /\ Exhausted(val[p])
    /\ Decide(p, Invalid(4))

\* Nothing left to search.  A gap leaves rule 4 undecided.
SearchFails(p) ==
    LET v == val[p] IN
    /\ Searching(p)
    /\ Exhausted(v)
    /\ Decide(p, IF Undecided(v) THEN Pending(AwaitedBlock(v), 4) ELSE Invalid(4))

\* An operation's references have resolved: rule 5's filler count, then the
\* operation's own entity becomes visible to the operations after it.
DefineOperation(p) ==
    LET d == block[p]
        v == val[p]
    IN  /\ pc[p] = "resolve"
        /\ ~OpsDone(v, d) /\ OpResolved(v, d)
        /\ IF Op(v, d).fits
           THEN Continue(p, "resolve", Define(v, d))
           ELSE Decide(p, Invalid(5))

AllResolved(p) ==
    /\ pc[p] = "resolve"
    /\ OpsDone(val[p], block[p])
    /\ Decide(p, Valid)
-----------------------------------------------------------------------------
\* admit, after Validate: store, which swallows a ForkError, then record.
Store(p) ==
    /\ pc[p] = "store"
    /\ Add(block[p])
    /\ Goto(p, "record")
    /\ UNCHANGED <<verdicts, waiting, block, val, adm, arrived, queue, todo>>

EntryOf(p) ==
    [verdict |-> adm[p].verdict,
     report |-> IF adm[p].verdict = "valid"
                THEN [forks |-> val[p].forks, unchecked |-> val[p].unchecked]
                ELSE NoReport,
     awaits |-> adm[p].awaits]

\* Mutant: the last block to wait replaces the others.
FileLast(a, d) == IF a = NoDigest \/ d \in Range(waiting[a])
                  THEN waiting
                  ELSE [waiting EXCEPT ![a] = <<d>>]

\* file: d waits for a, once.
File(a, d) == IF a = NoDigest \/ d \in Range(waiting[a])
              THEN waiting
              ELSE [waiting EXCEPT ![a] = Append(@, d)]

\* Mutant: the last validation to finish wins.
RecordLast(p) ==
    /\ pc[p] = "record"
    /\ verdicts' = [verdicts EXCEPT ![block[p]] = EntryOf(p)]
    /\ waiting' = File(adm[p].awaits, block[p])
    /\ Goto(p, "done")
    /\ UNCHANGED <<memVars, block, val, adm, arrived, queue, todo>>

\* record: an accepted verdict is never written over, and then nothing is
\* filed either.
Record(p) ==
    /\ pc[p] = "record"
    /\ IF Accepted(block[p])
       THEN UNCHANGED <<verdicts, waiting>>
       ELSE /\ verdicts' = [verdicts EXCEPT ![block[p]] = EntryOf(p)]
            /\ waiting' = File(adm[p].awaits, block[p])
    /\ Goto(p, "done")
    /\ UNCHANGED <<memVars, block, val, adm, arrived, queue, todo>>
-----------------------------------------------------------------------------
\* admit has returned; the goroutine drops the validation and the admission.
Leave(p, l) ==
    /\ pc[p] = "done"
    /\ Goto(p, l)
    /\ val' = [val EXCEPT ![p] = NoValidation]
    /\ adm' = [adm EXCEPT ![p] = NoAdmission]
    /\ block' = [block EXCEPT ![p] = NoDigest]
    /\ UNCHANGED <<storeVars, todo>>

\* Add returns at once on a rejection or a duplicate.
AddReturns(p) ==
    /\ arrived[p] = NoDigest
    /\ adm[p].verdict = "invalid" \/ adm[p].duplicate
    /\ Leave(p, "idle")
    /\ UNCHANGED <<arrived, queue>>

\* Mutant: only a block that was accepted wakes the blocks waiting for it.
StartSettleIfValid(p) ==
    /\ arrived[p] = NoDigest
    /\ adm[p].verdict \in {"valid", "unvalidated"} /\ ~adm[p].duplicate
    /\ Leave(p, "take")
    /\ arrived' = [arrived EXCEPT ![p] = block[p]]
    /\ queue' = [queue EXCEPT ![p] = IF adm[p].verdict = "valid"
                                     THEN <<block[p]>> ELSE <<>>]

\* Mutant: settles the previous arrival.
StartSettleStale(p) ==
    /\ arrived[p] = NoDigest
    /\ adm[p].verdict \in {"valid", "unvalidated"} /\ ~adm[p].duplicate
    /\ Leave(p, "take")
    /\ arrived' = [arrived EXCEPT ![p] = block[p]]
    /\ queue' = [queue EXCEPT ![p] = <<arrived[p]>>]

\* Otherwise the block has arrived, whatever its verdict.
StartSettle(p) ==
    /\ arrived[p] = NoDigest
    /\ adm[p].verdict \in {"valid", "unvalidated"} /\ ~adm[p].duplicate
    /\ Leave(p, "take")
    /\ arrived' = [arrived EXCEPT ![p] = block[p]]
    /\ queue' = [queue EXCEPT ![p] = <<block[p]>>]

\* settle: a waiter that is (or already was) accepted settles others in turn.
WaiterAdmitted(p) ==
    /\ arrived[p] # NoDigest
    /\ Leave(p, "waiters")
    /\ queue' = [queue EXCEPT ![p] = IF adm[p].verdict = "valid"
                                     THEN Append(@, block[p]) ELSE @]
    /\ UNCHANGED arrived

\* Mutant: the block stays at the head of settle's queue.
TakeForever(p) ==
    /\ pc[p] = "take"
    /\ queue[p] # <<>>
    /\ todo' = [todo EXCEPT ![p] = waiting[Head(queue[p])]]
    /\ waiting' = [waiting EXCEPT ![Head(queue[p])] = <<>>]
    /\ Goto(p, "waiters")
    /\ UNCHANGED <<memVars, verdicts, block, val, adm, arrived, queue>>

\* take removes the list of waiters from the index.
Take(p) ==
    /\ pc[p] = "take"
    /\ queue[p] # <<>>
    /\ todo' = [todo EXCEPT ![p] = waiting[Head(queue[p])]]
    /\ waiting' = [waiting EXCEPT ![Head(queue[p])] = <<>>]
    /\ queue' = [queue EXCEPT ![p] = Tail(@)]
    /\ Goto(p, "waiters")
    /\ UNCHANGED <<memVars, verdicts, block, val, adm, arrived>>

NextWaiter(p) ==
    /\ pc[p] = "waiters"
    /\ todo[p] # <<>>
    /\ todo' = [todo EXCEPT ![p] = Tail(@)]
    /\ IF Head(todo[p]) \in blocks
       THEN /\ block' = [block EXCEPT ![p] = Head(todo[p])]
            /\ Goto(p, "lookup")
       ELSE UNCHANGED <<block, pc>>
    /\ UNCHANGED <<storeVars, val, adm, arrived, queue>>

WaitersDone(p) ==
    /\ pc[p] = "waiters"
    /\ todo[p] = <<>>
    /\ Goto(p, "take")
    /\ UNCHANGED <<storeVars, block, val, adm, arrived, queue, todo>>

\* settle's queue is empty: Add returns its admission.
Settled(p) ==
    /\ pc[p] = "take"
    /\ queue[p] = <<>>
    /\ arrived' = [arrived EXCEPT ![p] = NoDigest]
    /\ Goto(p, "idle")
    /\ UNCHANGED <<storeVars, block, val, adm, queue, todo>>
-----------------------------------------------------------------------------
Linkage(p) ==
    Genesis(p) \/ PrevMissing(p) \/ PrevHeld(p) \/ PrevUnaccepted(p) \/ PrevAccepted(p)
References(p) == CheckNextRef(p) \/ AllRefsChecked(p)
Resolve(p) ==
    \/ ResolveReference(p) \/ SearchAncestors(p) \/ SearchRefs(p)
    \/ SearchFails(p) \/ DefineOperation(p) \/ AllResolved(p)
Validate(p) == Linkage(p) \/ DetectFork(p) \/ References(p) \/ Resolve(p)
Admit(p) == LookupAccepted(p) \/ Lookup(p) \/ Validate(p) \/ Store(p) \/ Record(p)
Settle(p) ==
    \/ StartSettle(p) \/ WaiterAdmitted(p) \/ Take(p) \/ NextWaiter(p)
    \/ WaitersDone(p) \/ Settled(p)

\* A call of Add that has begun takes its next step.
Step(p) == Admit(p) \/ AddReturns(p) \/ Settle(p)

Next == \E p \in Proc : Step(p) \/ \E d \in Digest : Offer(p, d)

Spec == Init /\ [][Next]_vars
-----------------------------------------------------------------------------
\* Validation, run on this store without interruption, would accept d.
Acceptable(d) ==
    /\ PrevSound(d)
    /\ content[d].prev \in accepted \cup {NoDigest}
    /\ content[d].type # "private" => /\ RefsSound(d, blocks)
                                      /\ OperationsSound(d, blocks, Keyed)

Quiescent == \A p \in Proc : pc[p] = "idle"
-----------------------------------------------------------------------------
\* Rule 3 is inductive: the predecessor of an accepted block is accepted, is
\* the same author's and does not end the chain.  Checked at record time only
\* through a verdict read several steps earlier (verdict.go, admit).
AcceptedChain ==
    \A d \in accepted :
        /\ d \in blocks
        /\ PrevSound(d)
        /\ content[d].prev \in accepted \cup {NoDigest}

\* Rules 6 and 10 bind for the entries a validation resolved, and the report
\* of the acceptance names all the others (validate.go, validateReferences).
AcceptedRefs ==
    \A d \in accepted :
        \A x \in Range(Refs(d)) \ verdicts[d].report.unchecked :
            x \in blocks /\ ~BreaksRule6(d, x) /\ ~BreaksRule10(d, x)

\* "A verdict moves in one direction": no step, of whichever goroutine and
\* however stale its validation, takes back or rewrites an acceptance.
OneDirection ==
    [][\A d \in accepted : verdicts'[d] = verdicts[d]]_vars

\* "Absence is not evidence", nor is a missing key: a block is rejected only
\* if no store could accept it, however complete and whatever keys it holds
\* (the scan limit, and blocks that reach a garbled one, apart).
RejectionIsDefinitive ==
    \A p \in Proc :
        LET d == block[p]
            rejected == pc[p] = "done" /\ adm[p].verdict = "invalid"
            limited == scanLimit >= 0 /\ val[p].scanned >= scanLimit
            garbled == Garbled \cap (Ancestors(d, Digest) \cup Foreign(d, Digest, Digest)) # {}
        IN  rejected /\ ~limited /\ ~garbled => ~Sound(d)

\* In a store that carries verdicts the ancestor gap of the resolver never
\* opens: rule 3 accepted the predecessor, so all of the ancestry is held.
NoAncestorGap == \A p \in Proc : val[p].ancestorGap = NoDigest

\* A held block whose awaited block has not arrived is filed under it, so
\* the arrival finds it: filing and taking lose nothing between them.
FiledUntilArrival ==
    \A d \in Digest :
        LET a == verdicts[d].awaits IN
        a # NoDigest /\ a \notin blocks => d \in Range(waiting[a])

\* Every verdict belongs to a block that is held, and so does every entry of
\* the index of waiters and every waiter a goroutine still has to admit.
VerdictsAreOfHeldBlocks ==
    /\ \A d \in Digest : verdicts[d].verdict # "unknown" => d \in blocks
    /\ \A a \in Digest : Range(waiting[a]) \subseteq blocks
    /\ \A p \in Proc : Range(todo[p]) \subseteq blocks

\* "An undecided block is revalidated when what it awaits arrives": with no
\* call of Add in progress, no undecided block is one the store would accept.
NothingLeftBehind ==
    Quiescent => \A d \in blocks \ accepted : ~Acceptable(d)

\* What the index of waiters does promise where calls of Add do not overlap: a
\* block the store would accept by now is left undecided only while the block
\* it is filed under, the first of those it missed, is still not held.
StillWaits(d) == Acceptable(d) => verdicts[d].awaits \in Digest \ blocks
LeftBehindStillWaits == Quiescent => \A d \in blocks \ accepted : StillWaits(d)

\* The scan limit counts each held foreign block once, however many refs
\* lists name it, and is never exceeded (with one caller the store does not
\* grow while it validates).
ScanCount ==
    \A p \in Proc : /\ val[p].scanned = Cardinality(val[p].visited \cap blocks)
                     /\ scanLimit >= 0 => val[p].scanned <= scanLimit

\* A fork between two accepted blocks is in the report of at least one: store
\* drops the ForkError because "Validate has already detected it and put it in the
\* report".  It has not where both blocks are validated before either is stored.
ForksAreReported ==
    \A a, b \in accepted :
        IsFork(a, b) => \/ b \in verdicts[a].report.forks
                        \/ a \in verdicts[b].report.forks

\* The concurrent store implements the two-set account of block reception.
Reception == INSTANCE BlockReception WITH held <- blocks, valid <- accepted
ImplementsReception == Reception!Spec
=============================================================================
