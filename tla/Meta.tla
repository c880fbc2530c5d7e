------------------------------- MODULE Meta -------------------------------
(***************************************************************************)
(* What the meta-molecules of a view say (go/accept/meta.go, standing.go): *)
(* reading them, deciding which of them still stand, and the equivalence   *)
(* classes of those that do.  S is the set of subscribed authors, g the    *)
(* graph's entries when the view was built, o the view's block order.      *)
(***************************************************************************)
EXTENDS Lineage, Graph

CONSTANTS
    molecule,   \* molecule[m]: the meta-bond m is built on and its fillers
    entityRank  \* entityRank[e]: the place of e in the order of digests

MetaBond == {"equivalence", "assertion", "retraction", "contradiction", "supersession"}
RefType == {"atom", "bond", "molecule"}

\* A filler's type is bound to the value it takes: a digest if it is a ref.
Filler == [type : RefType, ref : Entity] \cup [type : {"literal"}, ref : {NoEntity}]

\* "none": no meta-bond.
Molecule == [bond : MetaBond \cup {"none"}, fillers : Seq(Filler)]

ASSUME MoleculeAssumption ==
    /\ molecule \in [{e \in Entity : kind[e] = "molecule"} -> Molecule]
    /\ entityRank \in [Entity -> Nat]
    /\ \A a, b \in Entity : entityRank[a] = entityRank[b] => a = b

Least(E) == CHOOSE a \in E : \A b \in E : entityRank[a] <= entityRank[b]

\* Mutant: whoever published an entity, it is in the view.
anyProvenance(g, e, S) == g[e].authors

subscribedProvenance(g, e, S) == {t \in g[e].authors : t.author \in S}

\* Build's filter.
InView(g, S) == {e \in DOMAIN g : subscribedProvenance(g, e, S) # {}}

\* authorsOfAll: who published an entity of a view, of the authors subscribed to.
Who(g, E, S) == [e \in E |-> {t.author : t \in subscribedProvenance(g, e, S)}]
-----------------------------------------------------------------------------
\* readOne: whether the fillers of a meta-molecule fit its template.
FitsTemplate(m) ==
    LET f == molecule[m].fillers
        molecules(n) == Len(f) = n /\ \A i \in DOMAIN f : f[i].type = "molecule"
    IN  CASE molecule[m].bond = "equivalence" ->
                 Len(f) = 2 /\ f[1].type = f[2].type /\ f[1].type \in RefType
          [] molecule[m].bond \in {"assertion", "retraction"} -> molecules(1)
          [] OTHER -> molecules(2)

\* A one-filler claim has no b of its own; backing is filled by Standing.
Claim(g, m, S) ==
    LET f == molecule[m].fillers IN
    [meta |-> m, bond |-> molecule[m].bond, a |-> f[1].ref, b |-> f[Len(f)].ref,
     prov |-> subscribedProvenance(g, m, S), backing |-> {}]

\* read: the claims of a view, and the meta-molecules that make none.
MetaIn(E) == {m \in E : kind[m] = "molecule" /\ molecule[m].bond # "none"}
read(g, E, S) == {Claim(g, m, S) : m \in {x \in MetaIn(E) : FitsTemplate(x)}}
Malformed(E) == {m \in MetaIn(E) : ~FitsTemplate(m)}

On(claims, bond) == {cl \in claims : cl.bond = bond}
Truths(claims) == On(claims, "assertion") \cup On(claims, "retraction")
Gated(claims) == claims \ Truths(claims)
-----------------------------------------------------------------------------
\* standing: publishing a claim backs it, and a truth claim about it backs it
\* or takes that back, if the same key published the claim as well.
Statements(cl, claims, o) ==
    LET publishers == {t.author : t \in cl.prov}
        statement(t, backs) == [author |-> t.author, pos |-> o.pos[t.block], backs |-> backs]
    IN  {statement(t, TRUE) : t \in cl.prov}
            \cup UNION {{statement(t, x.bond = "assertion") :
                            t \in {u \in x.prov : u.author \in publishers}} :
                        x \in {y \in Truths(claims) : y.a = cl.meta}}

\* The statements at the last point of their author's lineage.
LastOf(R) ==
    {r \in R : \A q \in R : /\ q.author = r.author
                            /\ q.pos.lineage = r.pos.lineage
                            => q.pos.index <= r.pos.index}

\* Mutant: a retraction withdraws a claim, whoever published it.
backersUnopposed(cl, claims, o) ==
    {t.author : t \in {u \in cl.prov :
        ~\E x \in On(claims, "retraction") : x.a = cl.meta}}

\* An author backs a claim unless the last point takes it back and says
\* nothing else.
backers(cl, claims, o) ==
    {r.author : r \in {q \in LastOf(Statements(cl, claims, o)) : q.backs}}

\* applyStanding.  The truth claims are not gated.
Standing(claims, o) ==
    {[cl EXCEPT !.backing = {t \in cl.prov : t.author \in backers(cl, claims, o)}] :
        cl \in {x \in Gated(claims) : backers(x, claims, o) # {}}}
Withdrawn(claims, o) == {cl.meta : cl \in {x \in Gated(claims) : backers(x, claims, o) = {}}}
-----------------------------------------------------------------------------
\* unionFind: parent maps every entity it knows to one nearer its root.
PathToRoot(parent, e) ==
    LET Up[n \in Nat] ==
            IF n = 0
            THEN <<e>>
            ELSE LET s == Up[n - 1]
                     x == s[Len(s)]
                 IN  IF parent[x] = x THEN s ELSE Append(s, parent[x])
    IN  Up[Cardinality(DOMAIN parent)]
RootOf(parent, e) == LET path == PathToRoot(parent, e) IN path[Len(path)]

\* f, where g does not say otherwise.
Updated(f, g) == [x \in DOMAIN f \cup DOMAIN g |-> IF x \in DOMAIN g THEN g[x] ELSE f[x]]

\* find: an entity it does not know becomes a root, and the path it walks is
\* compressed.
Knowing(parent, e) == IF e \in DOMAIN parent THEN parent ELSE Updated(parent, [x \in {e} |-> e])
find(parent, e) ==
    LET p == Knowing(parent, e)
        path == PathToRoot(p, e)
    IN  Updated(p, [x \in Range(path) |-> path[Len(path)]])

\* Mutant: hangs b under a without looking for their roots.
unionUnrooted(parent, a, b) ==
    LET p == find(find(parent, a), b) IN [p EXCEPT ![b] = Least({a, b})]

\* union: the smaller of the two roots becomes the root of both.
union(parent, a, b) ==
    LET p == find(find(parent, a), b)
        roots == {RootOf(p, a), RootOf(p, b)}
    IN  Updated(p, [x \in roots |-> Least(roots)])

\* The n-th of a set of claims in ascending order of digest.
NthClaim(claims, n) ==
    CHOOSE cl \in claims :
        Cardinality({x \in claims : entityRank[x.meta] < entityRank[cl.meta]}) = n - 1

Unite(claims) ==
    LET After[n \in 0..Cardinality(claims)] ==
            IF n = 0 THEN [x \in {} |-> x]
                     ELSE LET cl == NthClaim(claims, n) IN union(After[n - 1], cl.a, cl.b)
    IN  After[Cardinality(claims)]

\* closeEquivalences: the class of each entity of the view, named by its root,
\* which need not be in the view.
ClassOf(E, equivalences) ==
    LET parent == Unite(equivalences) IN
    [e \in E |-> IF e \in DOMAIN parent THEN RootOf(parent, e) ELSE e]
=============================================================================
