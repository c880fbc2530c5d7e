------------------------------ MODULE Serving ------------------------------
(***************************************************************************)
(* transport.Server's reading handlers over a store that other requests    *)
(* keep adding to.  A handler takes the store's lock once for every        *)
(* position it looks at, so what it answers was never, as a whole, the     *)
(* content of the store.  Parsing a request and framing an answer are      *)
(* left out: a request is its operation and its parameters.                *)
(*                                                                         *)
(* Branch states the same walk over a set of blocks, as one step.          *)
(***************************************************************************)
EXTENDS MemStoreCalls, Branch

CONSTANTS
    Reader,     \* goroutines that serve a reading request each
    Limits,     \* bound: the limits of range requests
    Wanted      \* bound: the digests of blocks requests, in order

ASSUME ServingAssumption == Limits \subseteq Nat \ {0} /\ Wanted \subseteq Seq(Digest)

VARIABLES
    request,    \* request[r]: what r was asked
    progress    \* progress[r]: how far r has got

servingVars == <<request, progress>>

Position == Digest \cup {NoDigest}
Request == [op : {"none", "tip", "range", "siblings", "blocks"}, pub : Author \cup {NoAuthor},
            at : Position, limit : Nat, wanted : Seq(Digest), began : SUBSET Digest]
NoRequest == [op |-> "none", pub |-> NoAuthor, at |-> NoDigest, limit |-> 0,
              wanted |-> <<>>, began |-> {}]

\* pos: where a walk stands; out, tip: what it has found.
Progress == [phase : {"idle", "at", "walk", "tip", "fetch", "reply"},
             pos : Position, out : Seq(Digest), tip : Position, todo : Seq(Digest)]
NoProgress == [phase |-> "idle", pos |-> NoDigest, out |-> <<>>, tip |-> NoDigest,
               todo |-> <<>>]

ServingTypeOK ==
    /\ TypeOK
    /\ request \in [Reader -> Request]
    /\ progress \in [Reader -> Progress]

ServingInit ==
    /\ Init
    /\ request = [r \in Reader |-> NoRequest]
    /\ progress = [r \in Reader |-> NoProgress]
-----------------------------------------------------------------------------
Goto(r, p) == progress' = [progress EXCEPT ![r] = p]

\* began, the blocks held now, is what the properties remember.
Begin(r, asks, p) ==
    /\ progress[r].phase = "idle"
    /\ request' = [request EXCEPT ![r] = [asks EXCEPT !.began = blocks]]
    /\ Goto(r, p)
    /\ UNCHANGED vars

handleTip(r, a) ==
    Begin(r, [NoRequest EXCEPT !.op = "tip", !.pub = a], [NoProgress EXCEPT !.phase = "tip"])

handleRange(r, a, after, limit) ==
    Begin(r, [NoRequest EXCEPT !.op = "range", !.pub = a, !.at = after, !.limit = limit],
          [NoProgress EXCEPT !.phase = "walk", !.pos = after])

handleSiblings(r, a, prev) ==
    Begin(r, [NoRequest EXCEPT !.op = "siblings", !.pub = a, !.at = prev],
          [NoProgress EXCEPT !.phase = "at", !.pos = prev])

\* handleFetch; handleBlock answers for a single digest.
handleFetch(r, s) ==
    Begin(r, [NoRequest EXCEPT !.op = "blocks", !.wanted = s],
          [NoProgress EXCEPT !.phase = "fetch", !.todo = s])

\* at: one reading of the position index; a block it lists is held for good.
at(r) == Range(BlocksWithPrev(request[r].pub, progress[r].pos))

\* Mutant: serves the block that came first, not the lowest.
WalkOnFirst(r) ==
    LET p == progress[r]
        s == BlocksWithPrev(request[r].pub, p.pos)
    IN  /\ p.phase = "walk"
        /\ Goto(r, IF s = <<>> \/ Len(p.out) = request[r].limit
                   THEN [p EXCEPT !.phase = "tip", !.pos = NoDigest]
                   ELSE [p EXCEPT !.out = Append(@, Head(s)), !.pos = Head(s)])
        /\ UNCHANGED <<vars, request>>

\* Mutant: looks for the tip from where the range ended.
WalkOnForTip(r) ==
    LET p == progress[r] IN
    /\ p.phase = "walk"
    /\ Goto(r, IF at(r) = {} \/ Len(p.out) = request[r].limit
               THEN [p EXCEPT !.phase = "tip"]
               ELSE [p EXCEPT !.out = Append(@, branch(at(r))), !.pos = branch(at(r))])
    /\ UNCHANGED <<vars, request>>

\* One turn of walk; where the range ends, the walk for the tip header begins.
WalkOn(r) ==
    LET p == progress[r] IN
    /\ p.phase = "walk"
    /\ Goto(r, IF at(r) = {} \/ Len(p.out) = request[r].limit
               THEN [p EXCEPT !.phase = "tip", !.pos = NoDigest]
               ELSE [p EXCEPT !.out = Append(@, branch(at(r))), !.pos = branch(at(r))])
    /\ UNCHANGED <<vars, request>>

\* One turn of tipOf.
TipOn(r) ==
    LET p == progress[r] IN
    /\ p.phase = "tip"
    /\ Goto(r, IF at(r) = {} THEN [p EXCEPT !.phase = "reply"]
                             ELSE [p EXCEPT !.tip = branch(at(r)), !.pos = branch(at(r))])
    /\ UNCHANGED <<vars, request>>

ReadSiblings(r) ==
    /\ progress[r].phase = "at"
    /\ Goto(r, [progress[r] EXCEPT !.phase = "reply", !.out = Ascending(at(r))])
    /\ UNCHANGED <<vars, request>>

FetchNext(r) ==
    LET p == progress[r] IN
    /\ p.phase = "fetch"
    /\ Goto(r, CASE p.todo = <<>> -> [p EXCEPT !.phase = "reply"]
                 [] p.todo # <<>> /\ Head(p.todo) \in blocks ->
                        [p EXCEPT !.todo = Tail(@), !.out = Append(@, Head(p.todo))]
                 [] OTHER -> [p EXCEPT !.todo = Tail(@)])
    /\ UNCHANGED <<vars, request>>

\* The answer is written.
Reply(r) ==
    /\ progress[r].phase = "reply"
    /\ request' = [request EXCEPT ![r] = NoRequest]
    /\ Goto(r, NoProgress)
    /\ UNCHANGED vars

Handle(r) == WalkOn(r) \/ TipOn(r) \/ ReadSiblings(r) \/ FetchNext(r) \/ Reply(r)

Arrive(r) ==
    \/ \E a \in Author :
          \/ handleTip(r, a)
          \/ \E d \in Position : handleSiblings(r, a, d) \/ \E n \in Limits : handleRange(r, a, d, n)
    \/ \E s \in Wanted : handleFetch(r, s)

ServingNext ==
    \/ Next /\ UNCHANGED servingVars
    \/ \E r \in Reader : Arrive(r) \/ Handle(r)

ServingSpec == ServingInit /\ [][ServingNext]_<<vars, servingVars>>
-----------------------------------------------------------------------------
Replying == {r \in Reader : progress[r].phase = "reply"}

\* However the store grew meanwhile, an answer hides nothing that was held when
\* the request arrived: at each position it serves the lowest block or a lower
\* one that came since, and it ends only where nothing followed.
AnswersHideNothing ==
    \A r \in Replying :
        LET q == request[r]
            p == progress[r]
            follows(d) == At(q.began, q.pub, d)
        IN  CASE q.op = "range" ->
                     /\ CheckRange(p.out, q.pub, q.at)
                     /\ \A i \in DOMAIN p.out :
                           \A d \in follows(IF i = 1 THEN q.at ELSE p.out[i - 1]) :
                               rank[p.out[i]] <= rank[d]
                     /\ Len(p.out) < q.limit =>
                           follows(IF p.out = <<>> THEN q.at ELSE p.out[Len(p.out)]) = {}
              [] q.op = "tip" -> follows(p.tip) = {}
              [] q.op = "siblings" -> follows(q.at) \subseteq Range(p.out)
              [] q.op = "blocks" -> Range(q.wanted) \cap q.began \subseteq Range(p.out)

\* "For as long as a source holds the same blocks of a chain, every tip and
\* every range it answers follows the same branch, and the two agree": if
\* nothing came while the request was served, its answers are those of Branch.
QuietAnswersAgree ==
    \A r \in Replying :
        LET q == request[r]
            p == progress[r]
        IN  q.began = blocks /\ q.op \in {"range", "tip"} =>
                /\ p.tip = TipOf(blocks, q.pub)
                /\ q.op = "range" => p.out = Walk(blocks, q.pub, q.at, q.limit)
=============================================================================
