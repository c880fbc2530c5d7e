----------------------------- MODULE Acceptance -----------------------------
(***************************************************************************)
(* The way of a block through the three layers: it is added to a MemStore, *)
(* validated as part of its chain, ingested into the graph, and read by    *)
(* whoever builds a view for a set of authors.  Blocks arrive in any order *)
(* that brings their ancestors and refs first, and may wait in the store   *)
(* before they are ingested.                                               *)
(***************************************************************************)
EXTENDS View

CONSTANTS
    SubscriptionSets,   \* the sets of authors somebody subscribes to
    Backlog             \* bound: blocks held and not ingested

ASSUME BoundsAssumption == Backlog \in Nat /\ SubscriptionSets \subseteq SUBSET Author

VARIABLE subscribed

vars == <<memVars, graphVars, subscribed>>

Init ==
    /\ MemInit
    /\ GraphInit
    /\ subscribed \in SubscriptionSets

Waiting == blocks \ DOMAIN payloads

Store(d) ==
    /\ d \notin blocks
    /\ Cardinality(Waiting) < Backlog
    /\ {content[d].prev} \cup Range(Refs(d)) \subseteq blocks \cup {NoDigest}
    /\ Add(d)
    /\ UNCHANGED <<graphVars, subscribed>>

\* What Ingest asks of its caller: the block has been validated, before this
\* call or before an earlier one.
MayIngest(d) == d \in blocks /\ (HasBlock(d) \/ ValidateChain(d, Validated))

IngestPlain(d) ==
    /\ content[d].type # "private"
    /\ MayIngest(d)
    /\ Ingest(d)
    /\ UNCHANGED <<memVars, subscribed>>

\* A private block comes with the payload decrypting it gave; once it has
\* been ingested, a caller may hand it over again with another.
IngestOpened(d, p) ==
    /\ d \in Keyed
    /\ p = PayloadOf(d) \/ HasBlock(d)
    /\ MayIngest(d)
    /\ IngestPayload(d, p)
    /\ UNCHANGED <<memVars, subscribed>>

Next == \E d \in Digest : \/ Store(d)
                          \/ IngestPlain(d)
                          \/ \E p \in Payloads : IngestOpened(d, p)

Spec == Init /\ [][Next]_vars

TypeOK == MemTypeOK /\ GraphTypeOK /\ subscribed \in SUBSET Author
-----------------------------------------------------------------------------
\* Accounts of the same things without traversals or memory.

\* What the pairs reach from X.
ReachedFrom(pairs, X) ==
    LET Within[n \in Nat] ==
            IF n = 0 THEN X
            ELSE LET C == Within[n - 1] IN C \cup {p[2] : p \in {q \in pairs : q[1] \in C}}
    IN  Within[Cardinality(pairs)]

\* g carries on the chain that r ended, and nothing casts doubt on it.
Joined(r, g) ==
    /\ r \in blocks /\ Continues(r, g)
    /\ \A x \in blocks : Continues(r, x) => x = g
    /\ \A x \in blocks : Continues(x, g) => x = r

\* Each block held with the block its logical author published before it.
Follows == {p \in blocks \X blocks : content[p[1]].prev = p[2] \/ Joined(p[2], p[1])}

\* Every block held with the blocks its logical author published up to it.
Histories == LET follows == Follows IN [d \in blocks |-> ReachedFrom(follows, {d})]
Origin(history, d) == CHOOSE o \in history[d] : history[o] = {o}

\* The truth claims of subscribed authors on any of the molecules of M.
Words(M) ==
    LET truths == {e \in DOMAIN molecule :
                      /\ molecule[e].bond \in {"assertion", "retraction"}
                      /\ FitsTemplate(e)
                      /\ molecule[e].fillers[1].ref \in M}
    IN  {w \in [block : DOMAIN payloads, said : truths] :
            /\ content[w.block].pub \in subscribed
            /\ w.said \in creations(IngestedOps(w.block))}
IsLast(history, w, W) ==
    \A u \in W : Origin(history, u.block) = Origin(history, w.block)
                    => Cardinality(history[u.block]) <= Cardinality(history[w.block])

\* What the user sees by now, and the claims behind it.
Views == {Build(entities, subscribed)}
StandingClaims ==
    {Standing(read(entities, InView(entities, subscribed), subscribed), OrderOf(entities, subscribed))}
-----------------------------------------------------------------------------
\* A block's position is how many blocks its logical author published before
\* it, across prev and across the successions that are beyond doubt; whatever
\* else was placed first, and memoised (order.go, of). A succession in doubt
\* is joined by nobody and reported to everybody who places one of its
\* claimants: "the node MUST surface the conflict".
OrderFollowsHistory ==
    \A v \in Views :
    LET told == {c.blocks : c \in {x \in v.conflicts : x.kind = "succession"}}
        history == Histories
    IN  \A d \in DOMAIN v.positions :
            /\ v.positions[d].lineage = Origin(history, d)
            /\ v.positions[d].height = Cardinality(history[d]) - 1
            /\ \A g \in history[d], r \in {x \in blocks : IsRotation(x)} :
                  Continues(r, g) /\ ~Joined(r, g) => \E B \in told : {r, g} \subseteq B

\* The order and ValidateHistory, which reads the same blocks for itself,
\* agree on which chain continues a rotation block.
HistoriesAgree ==
    \A r, g \in blocks :
        IsRotation(r) /\ IsGenesis(g) /\ Cardinality(ClaimedBy(g)) = 1
        /\ g \in Validated /\ ValidateChain(r, Validated)
            => (ValidateHistory(<<r, g>>, Validated)
                    <=> of(newBlockOrder, g).pos[g].index > 0 /\ r \in ClaimedBy(g))

\* Two entities are equivalent exactly when standing declarations link them,
\* directly or through others, and each class is told apart by its name.
EquivalenceIsTheClosure ==
    \A v \in Views, standing \in StandingClaims :
    LET claims == On(standing, "equivalence")
        links == {<<c.a, c.b>> : c \in claims} \cup {<<c.b, c.a>> : c \in claims}
    IN  \A a, b \in v.entries : Equivalent(v, a, b) <=> b \in ReachedFrom(links, {a})

\* Nobody's last word is dropped: a molecule is conflicted exactly when the
\* last words of subscribed authors on its class oppose, and then one record
\* names the authors of both sides.
DisagreementsAreSurfaced ==
    \A v \in Views :
    LET history == Histories
    IN  \A m \in {e \in v.entries : kind[e] = "molecule"} :
        LET W == Words(EquivalenceClass(v, m))
            last == {w \in W : IsLast(history, w, W)}
            who(bond) == {content[w.block].pub : w \in {u \in last : molecule[u.said].bond = bond}}
            opposed == who("assertion") # {} /\ who("retraction") # {}
        IN  /\ Truth(v, m) = "conflicted" <=> opposed
            /\ opposed => \E c \in v.conflicts :
                              /\ c.kind = "truth"
                              /\ m \in c.molecules
                              /\ c.isTrue = who("assertion")
                              /\ c.isUntrue = who("retraction")

\* "Surfaced, never resolved": a loop of supersessions is reported as the
\* whole set of classes that replace each other, however they are entered.
LoopsAreReported ==
    \A v \in Views :
    LET newer == {<<e[2], e[1]>> : e \in v.supersedes}
        above(c) == ReachedFrom(newer, Newer(v, {c}))
        loop(c) == {d \in above(c) : c \in above(d)}
    IN  {c.molecules : c \in {x \in v.conflicts : x.kind = "loop"}} =
            {MembersOf(v.class, loop(c)) : c \in {x \in Range(v.class) : x \in above(x)}}

\* The molecules that the conflicts report to be in a loop of supersessions.
Looping(v) == UNION {c.molecules : c \in {x \in v.conflicts : x.kind = "loop"}}

\* The current versions are those that nothing replaces, reached from the molecule
\* by replacing.  There is none only where it leads into a loop that the conflicts
\* report; a molecule in a loop with a way out of it has one, which the comment on
\* View.Current denies ("caught in a supersession cycle has no current version").
CurrentIsReached ==
    \A v \in Views :
    LET newer == {<<e[2], e[1]>> : e \in v.supersedes}
    IN  \A m \in v.entries :
            LET up == MembersOf(v.class, ReachedFrom(newer, {v.class[m]})) IN
            /\ Current(v, m) = {x \in up : ~IsSuperseded(v, x)}
            /\ Current(v, m) = {} => up \cap Looping(v) # {}

\* "Nobody has a veto": a claim is withdrawn only by a block of an author who
\* published it.
NobodyHasAVeto ==
    [][\A d \in DOMAIN payloads' \ DOMAIN payloads :
          \A v \in Views, w \in {Build(entities', subscribed)} :
              \A m \in (w.withdrawn \ v.withdrawn) \cap v.entries :
                  content[d].pub \in {t.author : t \in Provenance(m)}]_vars

\* Someone the user does not subscribe to changes nothing of the view but the
\* places of blocks, and which of them are told to be in doubt.
OthersChangeNothing ==
    [][\A d \in DOMAIN payloads' \ DOMAIN payloads :
          content[d].pub \notin subscribed =>
              \A v \in Views, w \in {Build(entities', subscribed)} :
              LET told(x) == {c \in x.conflicts : c.kind # "succession"}
              IN  /\ w.entries = v.entries /\ w.class = v.class
                  /\ w.assertions = v.assertions
                  /\ w.supersedes = v.supersedes /\ w.contradicts = v.contradicts
                  /\ w.withdrawn = v.withdrawn /\ w.malformed = v.malformed
                  /\ told(w) = told(v)]_vars
=============================================================================
