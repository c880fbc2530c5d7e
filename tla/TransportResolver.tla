------------------------- MODULE TransportResolver -------------------------
(***************************************************************************)
(* transport.Resolver: a block.Source that reads a local store first and   *)
(* then asks sources over the network, keeping what it got and remembering *)
(* what it could not get.  Goroutines share it; mu is held for each look   *)
(* at the two maps and for each write, never across an exchange.           *)
(*                                                                         *)
(* The local store gains blocks meanwhile, and so do the sources; any read *)
(* of the local store may end in an error.  That a block is the one asked  *)
(* for is the Client's to check; so a source either hands it over or does  *)
(* not, because it lacks it, withholds it or cannot be reached, and may do *)
(* otherwise when asked again.                                             *)
(***************************************************************************)
EXTENDS Blocks

CONSTANTS
    Proc,       \* goroutines that read through the resolver
    Sources,    \* how many sources there are; they are asked in order
    Prefetches, \* bound: the lists of digests somebody prefetches
    MaxCalls    \* bound: calls of Block and Prefetch

ASSUME ResolverAssumption ==
    /\ Sources \in Nat /\ MaxCalls \in Nat
    /\ Prefetches \subseteq Seq(Digest)

VARIABLES
    local,      \* what the local store holds
    cancelled,  \* the resolver's context is done
    fetched,    \* the digests kept
    failed,     \* those given up on, unless kept since
    order,      \* Failures: in the order given up on
    call,       \* call[p]: what p is doing
    given,      \* the digests Block has returned a block for
    calls       \* how many calls were made

cache == <<fetched, failed, order>>
world == <<local, cancelled>>
resolverVars == <<world, cache, call, given, calls>>

Phase == {"idle", "local", "cache", "context", "ask", "keep", "fail", "found", "missing",
          "look", "exchange"}

\* todo, missing: what Prefetch has to look at and to ask for.  obtained and
\* decided are for the properties: what had been obtained when the call began,
\* and what the resolver had an answer to.
Call == [phase : Phase, d : Digest \cup {NoDigest}, source : Nat, todo : Seq(Digest),
         missing : SUBSET Digest, obtained : SUBSET Digest, decided : SUBSET Digest]
NoCall == [phase |-> "idle", d |-> NoDigest, source |-> 1, todo |-> <<>>, missing |-> {},
           obtained |-> {}, decided |-> {}]

ResolverTypeOK ==
    /\ local \in SUBSET Digest
    /\ cancelled \in BOOLEAN
    /\ fetched \in SUBSET Digest
    /\ failed \in SUBSET Digest
    /\ order \in Seq(Digest)
    /\ call \in [Proc -> Call]
    /\ given \in SUBSET Digest
    /\ calls \in 0..MaxCalls

ResolverInit ==
    /\ local = {}
    /\ cancelled = FALSE
    /\ fetched = {}
    /\ failed = {}
    /\ order = <<>>
    /\ call = [p \in Proc |-> NoCall]
    /\ given = {}
    /\ calls = 0
-----------------------------------------------------------------------------
\* External: a block arrives at the local store.
Arrives(d) ==
    /\ local' = local \cup {d}
    /\ UNCHANGED <<cancelled, cache, call, given, calls>>

\* External: the caller cancels the context the fetches run under.
Cancel ==
    /\ ~cancelled
    /\ cancelled' = TRUE
    /\ UNCHANGED <<local, cache, call, given, calls>>

Enter(p, c) ==
    /\ call[p] = NoCall
    /\ calls < MaxCalls
    /\ calls' = calls + 1
    /\ call' = [call EXCEPT ![p] = [c EXCEPT !.obtained = given \cup local,
                                            !.decided = fetched \cup failed]]
    /\ UNCHANGED <<world, cache, given>>

Block(p, d) == Enter(p, [NoCall EXCEPT !.phase = "local", !.d = d])
Prefetch(p, s) == Enter(p, [NoCall EXCEPT !.phase = "look", !.todo = s])

\* p goes on, having written nothing.
Turn(p, from, to) ==
    /\ call[p].phase = from
    /\ call' = [call EXCEPT ![p] = [to EXCEPT !.obtained = call[p].obtained,
                                             !.decided = call[p].decided]]
    /\ UNCHANGED <<world, cache, given, calls>>
Into(p, phase) == [call[p] EXCEPT !.phase = phase]

Done(p) ==
    /\ call' = [call EXCEPT ![p] = NoCall]
    /\ UNCHANGED <<world, given, calls>>

\* An error of the local store other than ErrNotFound is the answer at once.
ReadLocal(p) ==
    \/ Turn(p, "local", Into(p, IF call[p].d \in local THEN "found" ELSE "cache"))
    \/ call[p].phase = "local" /\ Done(p) /\ UNCHANGED cache

\* Mutant: what failed once has failed, whatever came since.
ReadCacheFailures(p) ==
    Turn(p, "cache", Into(p, CASE call[p].d \in failed -> "missing"
                              [] call[p].d \in fetched \ failed -> "found"
                              [] OTHER -> "context"))

\* cached: a block kept goes before a failure remembered.
ReadCache(p) ==
    Turn(p, "cache", Into(p, CASE call[p].d \in fetched -> "found"
                              [] call[p].d \in failed \ fetched -> "missing"
                              [] OTHER -> "context"))

ReadContext(p) == Turn(p, "context", Into(p, IF cancelled THEN "fail" ELSE "ask"))

\* The next source is asked, and hands the block over or does not.
Ask(p) ==
    LET c == call[p] IN
    \/ c.source <= Sources /\ Turn(p, "ask", Into(p, "keep"))
    \/ c.source <= Sources /\ Turn(p, "ask", [c EXCEPT !.source = @ + 1])
    \/ c.source > Sources /\ Turn(p, "ask", Into(p, "fail"))

keep(D) == fetched' = fetched \cup D /\ failed' = failed \ D /\ UNCHANGED order

Keep(p) ==
    /\ call[p].phase = "keep"
    /\ keep({call[p].d})
    /\ call' = [call EXCEPT ![p].phase = "found"]
    /\ UNCHANGED <<world, given, calls>>

Fail(p) ==
    /\ call[p].phase = "fail"
    /\ order' = IF call[p].d \in failed THEN order ELSE Append(order, call[p].d)
    /\ failed' = failed \cup {call[p].d}
    /\ call' = [call EXCEPT ![p].phase = "missing"]
    /\ UNCHANGED <<world, fetched, given, calls>>

\* Block returns a block, or ErrNotFound.
Return(p) ==
    /\ call[p].phase \in {"found", "missing"}
    /\ given' = IF call[p].phase = "found" THEN given \cup {call[p].d} ELSE given
    /\ call' = [call EXCEPT ![p] = NoCall]
    /\ UNCHANGED <<world, cache, calls>>
-----------------------------------------------------------------------------
\* held: Prefetch looks whether the next digest needs fetching at all.  A local
\* store that cannot be read counts as one without the block.
Look(p) ==
    LET c == call[p]
        d == Head(c.todo)
    IN  /\ c.todo # <<>>
        /\ \E readable \in {local, {}} :
              LET needed == d \notin readable \cup fetched \cup failed IN
              Turn(p, "look", [c EXCEPT !.todo = Tail(@),
                                        !.missing = IF needed THEN @ \cup {d} ELSE @])

Looked(p) ==
    /\ call[p].phase = "look" /\ call[p].todo = <<>>
    /\ IF call[p].missing = {} \/ cancelled
       THEN Done(p) /\ UNCHANGED cache
       ELSE Turn(p, "look", Into(p, "exchange"))

\* One exchange for all that is missing; what anybody kept in between is not
\* missing any more.
Exchange(p) ==
    LET c == call[p] IN
    /\ c.phase = "exchange" /\ c.source <= Sources /\ c.missing # {}
    /\ \/ Turn(p, "exchange", [c EXCEPT !.source = @ + 1])
       \/ \E got \in SUBSET c.missing :
             /\ keep(got)
             /\ call' = [call EXCEPT ![p].source = @ + 1,
                                     ![p].missing = @ \ (fetched \cup got)]
             /\ UNCHANGED <<world, given, calls>>

Exchanged(p) ==
    /\ call[p].phase = "exchange"
    /\ call[p].source > Sources \/ call[p].missing = {}
    /\ Done(p)
    /\ UNCHANGED cache

Go(p) ==
    \/ ReadLocal(p) \/ ReadCache(p) \/ ReadContext(p) \/ Ask(p) \/ Keep(p) \/ Fail(p)
    \/ Return(p) \/ Look(p) \/ Looked(p) \/ Exchange(p) \/ Exchanged(p)

ResolverNext ==
    \/ Cancel \/ \E d \in Digest : Arrives(d)
    \/ \E p \in Proc : \/ Go(p)
                        \/ \E d \in Digest : Block(p, d)
                        \/ \E s \in Prefetches : Prefetch(p, s)

ResolverSpec == ResolverInit /\ [][ResolverNext]_resolverVars
-----------------------------------------------------------------------------
\* A block is said to be missing only if it was neither in the local store nor
\* obtained by anybody when the call began: a failure remembered never hides
\* what came later, even when the fetch that failed ended after the one that
\* did not (resolver.go, keep and fail).
MissingIsNotObtained ==
    \A p \in Proc : call[p].phase = "missing" => call[p].d \notin call[p].obtained

\* "A digest that could not be obtained is not asked for again": no call asks
\* the sources for what the resolver could already answer when it began.
AskedOnce ==
    \A p \in Proc :
        /\ call[p].phase = "ask" => call[p].d \notin call[p].decided
        /\ call[p].phase = "exchange" => call[p].missing \cap call[p].decided = {}

\* What validation was told is missing is in the list of failures.
FailuresAreListed == failed \subseteq {order[i] : i \in DOMAIN order}
=============================================================================
