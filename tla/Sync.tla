-------------------------------- MODULE Sync --------------------------------
(***************************************************************************)
(* transport.Syncer over a ValidatingStore: one goroutine obtains one      *)
(* author's chain from several sources and offers every block to the       *)
(* store, while other goroutines may offer blocks of their own.            *)
(*                                                                         *)
(* The sources are the environment.  An honest one answers as server.go    *)
(* does, from the blocks it holds by then; any other answers whatever the  *)
(* client's own checks let through.  Either may gain blocks between two    *)
(* requests, and a request to a flaky one may fail.                        *)
(*                                                                         *)
(* call is the progress of one call of SyncChain.  call.at names its next  *)
(* step:                                                                   *)
(*                                                                         *)
(*   idle -> source -> tip -> range <-> offer -> check -> pursue -> offer  *)
(*              ^                                  |          ... -> source*)
(*              +----------------------------------+                       *)
(*   source -> siblings <-> sibling -> report -> idle                      *)
(*                                                                         *)
(* offer and sibling wait while the store runs the Add they began.         *)
(***************************************************************************)
EXTENDS ValidatingStore, Branch

LOCAL INSTANCE SequencesExt

CONSTANTS
    syncer,         \* the goroutine that calls SyncChain
    SourceList,     \* Syncer.Sources: a sequence of sources
    Honest, Flaky,  \* sources that answer as server.go does; that may fail
    Gains,          \* Gains[i]: the blocks source i may come to hold
    Announced,      \* the blocks other goroutines offer
    Authors,        \* the authors whose chains are synced
    PageLimit, MaxPages, MaxPursuit,
    Resolving       \* Syncer.Resolve

Source == Range(SourceList)

ASSUME SyncAssumption ==
    /\ syncer \in Proc
    /\ SourceList \in Seq(Source)
    /\ Honest \subseteq Source /\ Flaky \subseteq Source
    /\ Gains \in [Source -> SUBSET Digest]
    /\ Announced \subseteq Digest
    /\ Authors \subseteq Author
    /\ {PageLimit, MaxPages, MaxPursuit} \subseteq Nat \ {0}
    /\ Resolving \in BOOLEAN

VARIABLES
    serves,     \* serves[i]: the blocks source i holds
    fromHeld,   \* Syncer.AskFromHeldPosition
    resume,     \* resume[i][pub]: where the next range of source i starts
    cancelled,  \* the call's context is done
    refused,    \* blocks whose last Add by the call returned an error
    call,       \* the call in progress
    result      \* the ChainSync the last call returned

syncVars == <<serves, fromHeld, resume, cancelled, refused, call, result>>
allVars == <<vars, syncVars>>

PursuitEnd == {"none", "held", "genesis", "failed"}

\* A SourceSync: the tip claimed, how the pursuit ended, whether Err is set.
SourceSync == [tip : Digest \cup {NoDigest}, end : PursuitEnd, err : BOOLEAN]
NoSourceSync == [tip |-> NoDigest, end |-> "none", err |-> FALSE]

NoCall == [at |-> "idle", pub |-> NoAuthor, kept |-> FALSE, all |-> <<>>,
           sources |-> <<>>, after |-> NoDigest, page |-> 0,
           hand |-> <<>>, foreign |-> <<>>, then |-> "none",
           target |-> NoDigest, walked |-> <<>>, queries |-> <<>>,
           received |-> {},
           reports |-> [i \in Source |-> NoSourceSync]]

NoResult == [pub |-> NoAuthor, received |-> {}, accepted |-> {},
             unvalidated |-> {}, rejected |-> {}, forks |-> {},
             reports |-> [i \in Source |-> NoSourceSync]]

InitSync ==
    /\ Init
    /\ serves = [i \in Source |-> {}]
    /\ fromHeld \in BOOLEAN
    /\ resume = [i \in Source |-> [a \in Authors |-> NoDigest]]
    /\ cancelled = FALSE
    /\ refused = {}
    /\ call = NoCall
    /\ result = NoResult
-----------------------------------------------------------------------------
\* The environment: sources gain blocks, and the caller gives up.
Gain(i, d) ==
    /\ d \in Gains[i] \ serves[i]
    /\ serves' = [serves EXCEPT ![i] = @ \cup {d}]
    /\ UNCHANGED <<vars, fromHeld, resume, cancelled, refused, call, result>>

Cancel ==
    /\ call.at # "idle"
    /\ ~cancelled
    /\ cancelled' = TRUE
    /\ UNCHANGED <<vars, serves, fromHeld, resume, refused, call, result>>

TipAnswers(i, pub) ==
    IF i \in Honest THEN {TipOf(serves[i], pub)} \ {NoDigest}
                    ELSE {d \in Digest : content[d].pub = pub}

\* The runs of blocks along prev, of any length: a client does not hold a
\* source to the limit it asked for.
Runs == {s \in BoundedSeq(Digest, Cardinality(Digest)) :
            \A n \in 2..Len(s) : content[s[n]].prev = s[n - 1]}

RangeAnswers(i, pub, after) ==
    IF i \in Honest
    THEN {Walk(serves[i], pub, after, PageLimit)}
    ELSE {s \in Runs : CheckRange(s, pub, after)}

BlockAnswers(i, d) ==
    IF i \in Honest THEN {d} \cap serves[i] ELSE {d}

BlocksAnswers(i, wanted) ==
    IF i \in Honest
    THEN {Only(wanted, serves[i])}
    ELSE UNION {Listings(S) : S \in SUBSET Range(wanted)}

SiblingsAnswers(i, pub, prev) ==
    IF i \in Honest THEN {At(serves[i], pub, prev)}
                    ELSE SUBSET At(Digest, pub, prev)

\* A request fails if the source has no answer, for reasons of its own, or
\* because its context is done.
MayFail(i, answers) == i \in Flaky \/ answers = {} \/ cancelled
-----------------------------------------------------------------------------
\* The call goes on as c; the goroutine is not inside Add.
Proceed(c) ==
    /\ pc[syncer] = "idle"
    /\ call' = c
    /\ UNCHANGED <<vars, serves, fromHeld, resume, cancelled, refused, result>>

\* The call hands d to the store and goes on as c when Add returns.
Hand(d, c) ==
    /\ Offer(syncer, d)
    /\ call' = c
    /\ refused' = refused \ {d}
    /\ UNCHANGED <<serves, fromHeld, resume, cancelled, result>>

\* SyncChain over all sources, or SyncChainFrom over one, which is a syncer
\* of its own and keeps neither resume nor AskFromHeldPosition.
Start(pub, sources, kept) ==
    /\ call.at = "idle"
    /\ call' = [NoCall EXCEPT !.at = "source", !.pub = pub, !.all = sources,
                              !.sources = sources, !.kept = kept]
    /\ cancelled' = FALSE
    /\ refused' = {}
    /\ result' = NoResult
    /\ UNCHANGED <<vars, serves, fromHeld, resume>>

SyncChain(pub) == Start(pub, SourceList, TRUE)
SyncChainFrom(i, pub) == Start(pub, <<i>>, FALSE)

\* A cancelled context: SyncChain returns nil and the error.
GiveUp ==
    /\ call.at \in {"source", "siblings"}
    /\ call.sources # <<>> \/ call.queries # <<>>
    /\ cancelled
    /\ Proceed(NoCall)

asked == Head(call.sources)

NextSource ==
    /\ call.at = "source"
    /\ call.sources # <<>>
    /\ ~cancelled
    /\ Proceed([call EXCEPT !.at = "tip"])

\* syncFrom returns.
SourceDone(c, end, err) ==
    [c EXCEPT !.at = "source", !.sources = Tail(@),
              !.reports[asked].end = end, !.reports[asked].err = err,
              !.hand = <<>>, !.walked = <<>>, !.then = "none", !.page = 0,
              !.after = NoDigest, !.target = NoDigest]

\* heldTip, in the store as it is then.
Position(pub) ==
    LET kept == resume[asked][pub]
        held == TipOf(blocks, pub)
    IN  IF ~call.kept THEN NoDigest
        ELSE IF kept = NoDigest /\ fromHeld THEN held ELSE kept

\* Mutant: a source that gives no tip is asked again until it does.
AskTipAgain ==
    LET answers == TipAnswers(asked, call.pub) IN
    /\ call.at = "tip"
    /\ \/ /\ MayFail(asked, answers)
          /\ Proceed([call EXCEPT !.at = "source"])
       \/ \E t \in answers :
            Proceed([call EXCEPT !.at = "range", !.reports[asked].tip = t,
                                 !.after = Position(call.pub)])

AskTip ==
    LET answers == TipAnswers(asked, call.pub) IN
    /\ call.at = "tip"
    /\ \/ /\ MayFail(asked, answers)
          /\ Proceed(SourceDone(call, "none", TRUE))
       \/ \E t \in answers :
            Proceed([call EXCEPT !.at = "range", !.reports[asked].tip = t,
                                 !.after = Position(call.pub)])

claimed == call.reports[asked].tip

\* One turn of the loop over pages.
PagesDone ==
    /\ call.at = "range"
    /\ call.page = MaxPages
    /\ Proceed([call EXCEPT !.at = "check"])

AskRange ==
    LET answers == RangeAnswers(asked, call.pub, call.after) IN
    /\ call.at = "range"
    /\ call.page < MaxPages
    /\ \/ /\ MayFail(asked, answers)
          /\ Proceed(SourceDone(call, "none", TRUE))
       \/ /\ ~cancelled
          /\ \E s \in answers :
                Proceed(IF s = <<>>
                        THEN [call EXCEPT !.at = "check"]
                        ELSE [call EXCEPT !.at = "offer", !.hand = s,
                                          !.after = Last(s), !.then = "page"])

\* Mutant: the position moves to the tip the source claimed.
PageOfferedToTip ==
    /\ call.at = "offer"
    /\ call.then = "page"
    /\ call.hand = <<>>
    /\ pc[syncer] = "idle"
    /\ call' = [call EXCEPT !.at = IF call.after = claimed THEN "check" ELSE "range",
                            !.page = @ + 1]
    /\ resume' = IF call.kept THEN [resume EXCEPT ![asked][call.pub] = claimed]
                              ELSE resume
    /\ UNCHANGED <<vars, serves, fromHeld, cancelled, refused, result>>

\* Every block of the page was offered: only now does the position move.
PageOffered ==
    /\ call.at = "offer"
    /\ call.then = "page"
    /\ call.hand = <<>>
    /\ pc[syncer] = "idle"
    /\ call' = [call EXCEPT !.at = IF call.after = claimed THEN "check" ELSE "range",
                            !.page = @ + 1]
    /\ resume' = IF call.kept THEN [resume EXCEPT ![asked][call.pub] = call.after]
                              ELSE resume
    /\ UNCHANGED <<vars, serves, fromHeld, cancelled, refused, result>>
-----------------------------------------------------------------------------
\* offer: a block of a page, or of a pursuit's walk.
OfferCancelled ==
    /\ call.at = "offer"
    /\ call.hand # <<>>
    /\ cancelled
    /\ Proceed(SourceDone(call, call.reports[asked].end, call.then = "page"))

\* Mutant: what was asked for counts as received.
ResolveRefsReceived ==
    LET wanted == Only(Refs(Head(call.hand)), Digest \ blocks)
        answers == BlocksAnswers(asked, wanted)
        add == [call EXCEPT !.at = "add", !.received = @ \cup Range(wanted)]
    IN  /\ call.at = "offer"
        /\ call.hand # <<>>
        /\ ~cancelled
        /\ IF ~Resolving \/ wanted = <<>>
           THEN Proceed(add)
           ELSE \/ MayFail(asked, answers) /\ Proceed(add)
                \/ \E s \in answers : Proceed([add EXCEPT !.foreign = s])

\* resolveRefs: one request for the refs that are not held.  A failed one
\* changes nothing.
ResolveRefs ==
    LET wanted == Only(Refs(Head(call.hand)), Digest \ blocks)
        answers == BlocksAnswers(asked, wanted)
        add == [call EXCEPT !.at = "add"]
    IN  /\ call.at = "offer"
        /\ call.hand # <<>>
        /\ ~cancelled
        /\ IF ~Resolving \/ wanted = <<>>
           THEN Proceed(add)
           ELSE \/ MayFail(asked, answers) /\ Proceed(add)
                \/ \E s \in answers : Proceed([add EXCEPT !.foreign = s])

AddForeign ==
    /\ call.at = "add"
    /\ call.foreign # <<>>
    /\ Hand(Head(call.foreign), [call EXCEPT !.foreign = Tail(@)])

AddOffered ==
    LET d == Head(call.hand) IN
    /\ call.at = "add"
    /\ call.foreign = <<>>
    /\ Hand(d, [call EXCEPT !.at = "offer", !.hand = Tail(@),
                            !.received = @ \cup {d}])
-----------------------------------------------------------------------------
\* Mutant: an empty range means no new blocks.
CheckNever ==
    /\ call.at = "check"
    /\ Proceed(SourceDone(call, "none", FALSE))

\* The ranges are over.  A claimed tip that is not held is pursued.
Check ==
    /\ call.at = "check"
    /\ Proceed(IF claimed \in blocks
               THEN SourceDone(call, "none", FALSE)
               ELSE [call EXCEPT !.at = "pursue", !.target = claimed])

\* pursue returns: offerWalk hands over what was walked, oldest first.
OfferWalk(end, walked) ==
    [call EXCEPT !.at = "offer", !.then = "walk", !.hand = Reverse(walked),
                 !.walked = <<>>, !.reports[asked].end = end]

PursuitMeets ==
    /\ call.at = "pursue"
    /\ call.target \in blocks
    /\ Proceed(OfferWalk("held", call.walked))

\* The context is done, the bound is reached, the fetch fails, or the source
\* answers with another author's block.
PursuitFails ==
    LET answers == BlockAnswers(asked, call.target) IN
    /\ call.at = "pursue"
    /\ call.target \notin blocks
    /\ \/ cancelled
       \/ Len(call.walked) >= MaxPursuit
       \/ MayFail(asked, answers)
       \/ content[call.target].pub # call.pub
    /\ Proceed(OfferWalk("failed", call.walked))

\* Mutant: the loop ends before the genesis block is appended.
PursuitStepsToGenesis ==
    LET d == call.target
        walked == Append(call.walked, d)
    IN  /\ call.at = "pursue"
        /\ d \notin blocks
        /\ ~cancelled
        /\ Len(call.walked) < MaxPursuit
        /\ d \in BlockAnswers(asked, d)
        /\ content[d].pub = call.pub
        /\ Proceed(IF IsGenesis(d)
                   THEN OfferWalk("genesis", call.walked)
                   ELSE [call EXCEPT !.walked = walked, !.target = content[d].prev])

PursuitSteps ==
    LET d == call.target
        walked == Append(call.walked, d)
    IN  /\ call.at = "pursue"
        /\ d \notin blocks
        /\ ~cancelled
        /\ Len(call.walked) < MaxPursuit
        /\ d \in BlockAnswers(asked, d)
        /\ content[d].pub = call.pub
        /\ Proceed(IF IsGenesis(d)
                   THEN OfferWalk("genesis", walked)
                   ELSE [call EXCEPT !.walked = walked, !.target = content[d].prev])

WalkOffered ==
    /\ call.at = "offer"
    /\ call.then = "walk"
    /\ call.hand = <<>>
    /\ Proceed(SourceDone(call, call.reports[asked].end, FALSE))
-----------------------------------------------------------------------------
\* querySiblings: the genesis position and every forked one, at every source.
SourcesDone ==
    LET forked == {f.prev : f \in {g \in Forks : g.pub = call.pub}}
        positions == <<NoDigest>> \o (CHOOSE s \in Listings(forked) : TRUE)
        queries == [n \in DOMAIN positions |->
                        [i \in DOMAIN call.all |-> <<positions[n], call.all[i]>>]]
    IN  /\ call.at = "source"
        /\ call.sources = <<>>
        /\ Proceed([call EXCEPT !.at = "siblings", !.queries = FlattenSeq(queries)])

AskSiblings ==
    LET prev == Head(call.queries)[1]
        i == Head(call.queries)[2]
        answers == SiblingsAnswers(i, call.pub, prev)
        next == [call EXCEPT !.queries = Tail(@)]
    IN  /\ call.at = "siblings"
        /\ call.queries # <<>>
        /\ ~cancelled
        /\ \/ MayFail(i, answers) /\ Proceed(next)
           \/ \E S \in answers :
                Proceed([next EXCEPT !.at = "sibling", !.hand = Ascending(S)])

AddSibling ==
    LET d == Head(call.hand) IN
    /\ call.at = "sibling"
    /\ call.hand # <<>>
    /\ IF d \in call.received \cup blocks
       THEN Proceed([call EXCEPT !.hand = Tail(@)])
       ELSE Hand(d, [call EXCEPT !.at = "added"])

\* Add has returned: an error leaves the block out of received.
SiblingAdded ==
    LET d == Head(call.hand) IN
    /\ call.at = "added"
    /\ Proceed([call EXCEPT !.at = "sibling", !.hand = Tail(@),
                            !.received = IF d \in refused THEN @ ELSE @ \cup {d}])

SiblingsDone ==
    /\ call.at = "sibling"
    /\ call.hand = <<>>
    /\ Proceed([call EXCEPT !.at = "siblings"])

\* SyncChain returns: the verdicts are read back at the end.
Return ==
    /\ call.at = "siblings"
    /\ call.queries = <<>>
    /\ pc[syncer] = "idle"
    /\ result' = [pub |-> call.pub,
                  received |-> call.received,
                  accepted |-> {d \in call.received : verdicts[d].verdict = "valid"},
                  unvalidated |-> {d \in call.received : verdicts[d].verdict = "unvalidated"},
                  rejected |-> {d \in call.received : verdicts[d].verdict = "unknown"},
                  forks |-> {f \in Forks : f.pub = call.pub},
                  reports |-> call.reports]
    /\ call' = NoCall
    /\ UNCHANGED <<vars, serves, fromHeld, resume, cancelled, refused>>
-----------------------------------------------------------------------------
SyncFrom ==
    \/ AskTip \/ AskRange \/ PageOffered \/ PagesDone \/ Check
    \/ PursuitMeets \/ PursuitFails \/ PursuitSteps \/ WalkOffered
OfferBlock == OfferCancelled \/ ResolveRefs \/ AddForeign \/ AddOffered
QuerySiblings ==
    SourcesDone \/ AskSiblings \/ AddSibling \/ SiblingAdded \/ SiblingsDone

CallStep == GiveUp \/ NextSource \/ SyncFrom \/ OfferBlock \/ QuerySiblings \/ Return

\* A goroutine goes on inside Add; the syncer learns of an error.
AddStep(p) ==
    /\ Step(p)
    /\ refused' = IF p = syncer /\ pc[p] = "done" /\ arrived[p] = NoDigest
                     /\ adm[p].verdict = "invalid"
                  THEN refused \cup {block[p]}
                  ELSE refused
    /\ UNCHANGED <<serves, fromHeld, resume, cancelled, call, result>>

OthersOffer ==
    /\ \E p \in Proc \ {syncer}, d \in Announced : Offer(p, d)
    /\ UNCHANGED syncVars

SyncNext ==
    \/ \E i \in Source, d \in Digest : Gain(i, d)
    \/ Cancel
    \/ \E a \in Authors : SyncChain(a) \/ \E i \in Source : SyncChainFrom(i, a)
    \/ CallStep
    \/ \E p \in Proc : AddStep(p)
    \/ OthersOffer

SyncSpec == InitSync /\ [][SyncNext]_allVars

\* A call that has begun goes on: requests are answered or fail (the client's
\* transport has timeouts), and the scheduler runs the goroutines.
FairSyncSpec ==
    /\ SyncSpec
    /\ WF_allVars(CallStep)
    /\ \A p \in Proc : WF_allVars(AddStep(p))
-----------------------------------------------------------------------------
SyncTypeOK ==
    /\ TypeOK
    /\ serves \in [Source -> SUBSET Digest]
    /\ fromHeld \in BOOLEAN
    /\ resume \in [Source -> [Authors -> Digest \cup {NoDigest}]]
    /\ cancelled \in BOOLEAN
    /\ refused \in SUBSET Digest
    /\ call.at \in {"idle", "source", "tip", "range", "offer", "add", "check",
                    "pursue", "siblings", "sibling", "added"}
    /\ call.page \in 0..MaxPages
    /\ Len(call.walked) <= MaxPursuit
    /\ call.then = "walk" => Len(call.hand) <= MaxPursuit
    /\ call.reports \in [Source -> SourceSync]

Behind(d) == Ancestors(d, Digest)
Chain(d) == {d} \cup Ancestors(d, Digest)
HeldOrUnsound(d) == d \in blocks \/ ~Sound(d)

\* The reports of the last call that reached the end of their source.
Finished == {r \in Range(result.reports) :
               r.tip # NoDigest /\ ~r.err /\ r.end # "failed"}

\* The position a source's next range starts after is never ahead of the
\* store: every block up to it is held, unless no store could hold it.  Pages
\* cut short, pursuits and one-off syncs in between do not move it
\* (sync.go, syncFrom and setResume).
ResumeCoversTheChain ==
    \A i \in Source, a \in Authors :
        resume[i][a] # NoDigest => \A x \in Chain(resume[i][a]) : HeldOrUnsound(x)

\* A sync of a source that ends without an error has closed the distance to
\* the tip the source claimed: by ranges, or by the pursuit.
TipIsReached == \A r \in Finished : HeldOrUnsound(r.tip)

\* "Both find every fork the sources between them expose" (spec/07-transport.md,
\* "First contact with a source"): a block of an advertised chain that forks
\* with a block of the store is in the store as well.
ExposedForksAreFound ==
    \A r \in Finished :
        \A x \in Chain(r.tip), y \in blocks : IsFork(x, y) => HeldOrUnsound(x)

\* What a caller must be able to rely on for a sync to leave no gap: sources
\* that answer as server.go does and do not fail, nobody else who writes to
\* the store, and a bound on pursuits that no synced chain is longer than.  If
\* references are resolved, one to a synced author's block must point at
\* nothing whose past is not behind the block that refers already: a block
\* fetched by itself comes without its chain.
Dependable ==
    /\ Honest = Source /\ Flaky = {} /\ Announced = {}
    /\ \A d \in Digest : content[d].pub \in Authors =>
          /\ Cardinality(Chain(d)) <= MaxPursuit
          /\ Resolving => \A r \in Range(Refs(d)) :
                content[r].pub \in Authors => Behind(r) \subseteq Behind(d)

\* A received block that has no verdict at the end was shown wrong, by a rule
\* and not by what happened to be missing (sync.go, ChainSync.Rejected).
RejectedIsUnsound == \A d \in result.rejected : ~Sound(d)

\* Every call of SyncChain returns.
SyncTerminates == call.at # "idle" ~> call.at = "idle"
=============================================================================
