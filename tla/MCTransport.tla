---------------------------- MODULE MCTransport ----------------------------
(***************************************************************************)
(* One MemStore that goroutines add to, that a server answers from, and    *)
(* that a Resolver reads before it asks other sources.  A behaviour keeps  *)
(* to one family: which of these take part, and which blocks.              *)
(***************************************************************************)
EXTENDS Serving, TransportResolver, MCUniverse, TLC

\* A chain with two branches of two blocks; s, on the one, refers to the
\* other.  a3 comes before a2, which leaves a hole.
MCContent ==
    [d \in {"a1", "a2", "a3", "b2"} |-> SyncContent[d]]
        @@ [s |-> Public("A", "b2", <<"a2">>, <<AtomOp("e")>>)]

MCNames == <<"a1", "a2", "a3", "b2", "s">>
MCRank == [d \in DOMAIN MCContent |-> CHOOSE i \in DOMAIN MCNames : MCNames[i] = d]

MCBatches == {<<"a1">>, <<"b2", "s">>, <<"a3", "a2">>}
MCWanted == {<<"s", "a1">>}
MCPrefetches == {<<"a2", "a3">>}

Served == [callers |-> Caller, readers |-> Reader, procs |-> {},
           added |-> Batches, asked |-> {}]
Resolved == [callers |-> {"x1"}, readers |-> {}, procs |-> Proc,
             added |-> {<<"a3", "a2">>}, asked |-> {"a2", "a3"}]

VARIABLE family

allVars == <<vars, servingVars, resolverVars, family>>

MCInit == ServingInit /\ ResolverInit /\ family \in {Served, Resolved}

\* What arrives at the store arrives at what the Resolver calls local.
Stores(c) ==
    /\ AddNext(c) \/ \E s \in family.added : AddAll(c, s)
    /\ UNCHANGED servingVars
    /\ IF blocks' = blocks THEN UNCHANGED resolverVars
                           ELSE \E d \in blocks' \ blocks : Arrives(d)

Serves(r) == (Arrive(r) \/ Handle(r)) /\ UNCHANGED resolverVars

Resolves(p) ==
    /\ \/ Cancel
       \/ Go(p)
       \/ \E d \in family.asked : Block(p, d)
       \/ \E s \in Prefetches : Prefetch(p, s)
    /\ UNCHANGED <<vars, servingVars>>

MCNext ==
    /\ \/ \E c \in family.callers : Stores(c)
       \/ \E r \in family.readers : Serves(r)
       \/ \E p \in family.procs : Resolves(p)
    /\ UNCHANGED family

MCSpec == MCInit /\ [][MCNext]_allVars
=============================================================================
