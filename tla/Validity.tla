------------------------------ MODULE Validity ------------------------------
(***************************************************************************)
(* What makes a block valid, stated without the resolver: what a digest    *)
(* may resolve through is the least set of blocks closed under prev, or    *)
(* under refs.  The resolver's traversal is checked against this.          *)
(*                                                                         *)
(* held is the set of blocks that can be had, open the set of private      *)
(* blocks that can be read.                                                *)
(***************************************************************************)
EXTENDS Resolution

Legible(x, open) == content[x].type = "private" => x \in open

\* The least set of digests that contains first and that step does not
\* enlarge: as many steps as there are digests reach it.
Closure(first, step) ==
    LET Within[n \in Nat] == IF n = 0 THEN first ELSE step[Within[n - 1]]
    IN  Within[Cardinality(Digest)]

\* The blocks prev leads to from d, and the blocks refs lead to.
Ancestors(d, held) ==
    Closure({content[d].prev} \ {NoDigest},
            [S \in SUBSET Digest |->
                S \cup ({content[y].prev : y \in S \cap held} \ {NoDigest})])

Foreign(d, held, open) ==
    Closure(Range(Refs(d)),
            [S \in SUBSET Digest |->
                S \cup UNION {Range(content[y].refs) :
                                y \in {x \in S \cap held : Legible(x, open)}}])

Sources(d, held, open) ==
    {x \in held \cap (Ancestors(d, held) \cup Foreign(d, held, open)) : Legible(x, open)}

\* Every reference names an entity of its kind that one of d's sources, or an
\* operation of d before it, defines.
OperationsSound(d, held, open) ==
    LET below == UNION {Definitions(x) : x \in Sources(d, held, open)}
        known(n) == below \cup {content[d].ops[i].creates : i \in 1..(n - 1)}
    IN  \A n \in DOMAIN content[d].ops :
            LET op == content[d].ops[n] IN
            /\ op.fits
            /\ \A j \in DOMAIN op.references :
                  /\ op.references[j].entity \in known(n)
                  /\ op.references[j].kind = kind[op.references[j].entity]

RefsSound(d, held) ==
    \A x \in Range(Refs(d)) \cap held : ~BreaksRule6(d, x) /\ ~BreaksRule10(d, x)

PrevSound(d) ==
    LET prev == content[d].prev IN
    prev # NoDigest => SameAuthor(prev, d) /\ content[prev].type # "rotation"

\* A store that held every block and every key could accept d.
Sound(d) ==
    PrevSound(d) /\ RefsSound(d, Digest) /\ OperationsSound(d, Digest, Digest)
=============================================================================
