----------------------------- MODULE MCUniverse -----------------------------
(***************************************************************************)
(* Small universes of blocks for TLC.  Digests, keys and entities are      *)
(* strings; the nulls are strings of their own.                            *)
(***************************************************************************)
EXTENDS Integers, Sequences

None == "none"

AtomOp(e) == [creates |-> e, references |-> <<>>, fits |-> TRUE]
MoleculeOp(e, refs) == [creates |-> e, references |-> refs, fits |-> TRUE]
Ref(e, k) == [entity |-> e, kind |-> k]

Public(a, prev, refs, ops) ==
    [type |-> "public", pub |-> a, prev |-> prev, refs |-> refs, ops |-> ops,
     newPub |-> None]
Private(a, prev, refs, ops) ==
    [Public(a, prev, refs, ops) EXCEPT !.type = "private"]
Rotation(a, prev, refs, new) ==
    [type |-> "rotation", pub |-> a, prev |-> prev, refs |-> refs,
     ops |-> <<[creates |-> None, references |-> <<>>, fits |-> TRUE]>>,
     newPub |-> new]

AllAuthors == {"A", "B", "C", "D"}
Entities == {"e", "f", "m", "n"}
Kinds == [e |-> "atom", f |-> "atom", m |-> "molecule", n |-> "molecule"]

\* One chain that forks at g into a block and a rotation, and two blocks that
\* break rule 3: z follows the rotation, x follows another author's block.
ChainContent ==
    [g |-> Public("A", None, <<>>, <<AtomOp("e")>>),
     p |-> Public("A", "g", <<>>, <<MoleculeOp("m", <<Ref("e", "atom")>>)>>),
     r |-> Rotation("A", "g", <<>>, "B"),
     z |-> Public("A", "r", <<>>, <<AtomOp("f")>>),
     x |-> Public("B", "p", <<>>, <<MoleculeOp("n", <<Ref("e", "atom")>>)>>)]

\* References across chains.  t and u wait for s and t in turn; v breaks rule
\* 5; y breaks rule 10 if u is held when y is validated, and not otherwise.
RefsContent ==
    [s |-> Public("B", None, <<>>, <<AtomOp("e")>>),
     t |-> Public("C", None, <<"s">>, <<AtomOp("f"), MoleculeOp("m", <<Ref("e", "atom")>>)>>),
     u |-> Public("A", None, <<"t">>, <<AtomOp("f"), MoleculeOp("n", <<Ref("f", "atom"), Ref("m", "molecule")>>)>>),
     v |-> Public("A", "u", <<"s">>, <<MoleculeOp("m", <<Ref("e", "bond")>>)>>),
     y |-> Public("A", None, <<"u">>, <<AtomOp("f")>>)]

\* Private blocks: k stays sealed, q is opened, w is garbled.  j and h wait
\* for k's key, as an ancestor and through the rotation block o; i resolves
\* through the rotation block z and the opened q; x is rejected over w; l
\* breaks rule 6 if k is held when l is validated.  i names q twice, itself and
\* through z; h reaches a third foreign block, k, if z is held.
PrivateContent ==
    [k |-> Private("B", None, <<>>, <<AtomOp("e")>>),
     j |-> Public("B", "k", <<>>, <<MoleculeOp("m", <<Ref("e", "atom")>>)>>),
     q |-> Private("C", None, <<>>, <<AtomOp("f")>>),
     o |-> Rotation("C", "q", <<"k">>, "A"),
     w |-> Private("D", None, <<>>, <<AtomOp("e")>>),
     x |-> Public("D", "w", <<>>, <<MoleculeOp("m", <<Ref("e", "atom")>>)>>),
     z |-> Rotation("D", "w", <<"q">>, "A"),
     i |-> Public("A", None, <<"z", "q">>, <<MoleculeOp("m", <<Ref("f", "atom")>>)>>),
     h |-> Public("A", None, <<"o", "z">>, <<MoleculeOp("n", <<Ref("e", "atom")>>)>>),
     l |-> Public("A", "i", <<"k">>, <<AtomOp("f")>>)]

\* Everything one goroutine can meet: both families of blocks together, and b,
\* whose refs name a block of each: it needs s, and is filed under p.
WholeContent ==
    [d \in {"g", "p", "r", "s", "t", "u", "v", "y", "b"} |->
        CASE d \in DOMAIN RefsContent -> RefsContent[d]
          [] d \in DOMAIN ChainContent -> ChainContent[d]
          [] d = "b" -> Public("D", None, <<"p", "s">>,
                               <<MoleculeOp("n", <<Ref("e", "atom")>>)>>)]

\* For the syncer: a chain of A with two branches, a2 and a3 or b2, and a
\* second genesis block c1.
SyncContent ==
    [c1 |-> Public("A", None, <<>>, <<AtomOp("f")>>),
     a1 |-> Public("A", None, <<>>, <<AtomOp("e")>>),
     a2 |-> Public("A", "a1", <<>>, <<AtomOp("f")>>),
     a3 |-> Public("A", "a2", <<>>, <<AtomOp("e")>>),
     b2 |-> Public("A", "a1", <<>>, <<AtomOp("e")>>)]

\* x defines a molecule of the wrong kind, and no store accepts it; v and u
\* follow g as well, and u needs what s defines.
LiarContent ==
    [g |-> Public("A", None, <<>>, <<AtomOp("e")>>),
     x |-> Public("A", "g", <<>>, <<MoleculeOp("m", <<Ref("e", "bond")>>)>>),
     v |-> Public("A", "g", <<>>, <<AtomOp("f")>>),
     s |-> Public("B", None, <<>>, <<AtomOp("f")>>),
     u |-> Public("A", "g", <<"s">>, <<MoleculeOp("n", <<Ref("f", "atom")>>)>>)]
=============================================================================
