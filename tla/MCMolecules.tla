----------------------------- MODULE MCMolecules -----------------------------
(***************************************************************************)
(* A universe in which the five meta-bonds meet: two molecules declared    *)
(* the same, others linked through molecules of a stranger, a loop of      *)
(* supersessions with an exit, truth disputed within one history and       *)
(* between two, a withdrawal by the author and one by a stranger, and a    *)
(* rotation block that two chains claim to continue.                       *)
(***************************************************************************)
EXTENDS MCUniverse

\* The bond of each molecule and what fills it; None is a literal.
Rows ==
    [m |-> <<"none", "e">>, n |-> <<"none", "e", None>>, k |-> <<"none", None>>,
     o |-> <<"none", None>>, w |-> <<"none", None>>, z |-> <<"none", None>>,
     tm |-> <<"assertion", "m">>, um |-> <<"retraction", "m">>,
     un |-> <<"retraction", "n">>, uq |-> <<"retraction", "q">>,
     q |-> <<"equivalence", "n", "m">>, nw |-> <<"equivalence", "n", "w">>,
     wz |-> <<"equivalence", "w", "z">>, zo |-> <<"equivalence", "z", "o">>,
     nm |-> <<"supersession", "n", "m">>, mk |-> <<"supersession", "m", "k">>,
     kn |-> <<"supersession", "k", "n">>, wk |-> <<"supersession", "w", "k">>,
     ko |-> <<"supersession", "k", "o">>, c |-> <<"contradiction", "m", "k">>,
     bad |-> <<"equivalence", "m", None>>]

Fill(e) == [type |-> CASE e = "e" -> "atom" [] e = None -> "literal" [] OTHER -> "molecule",
            ref |-> e]
Molecules(rows) ==
    [e \in DOMAIN rows |->
        [bond |-> Head(rows[e]), fillers |-> [i \in 1..Len(Tail(rows[e])) |-> Fill(rows[e][i + 1])]]]
MCMolecule == Molecules(Rows)

MCNames == <<"e", "k", "m", "n", "o", "q", "w", "z", "tm", "um", "un", "uq",
             "nm", "mk", "kn", "wk", "ko", "nw", "wz", "zo", "c", "bad">>
MCEntity == {MCNames[i] : i \in DOMAIN MCNames}
MCKind == [e \in MCEntity |-> IF e = "e" THEN "atom" ELSE "molecule"]
MCEntityRank == [e \in MCEntity |-> CHOOSE i \in DOMAIN MCNames : MCNames[i] = e]

\* The operations that create the entities of a sequence.
Creates(e, row) ==
    IF e = "e"
    THEN AtomOp(e)
    ELSE LET filled == SelectSeq(Tail(row), LAMBDA x : x # None)
         IN  MoleculeOp(e, [i \in DOMAIN filled |-> Ref(filled[i], Fill(filled[i]).type)])
Create(s, rows) ==
    [i \in DOMAIN s |-> Creates(s[i], IF s[i] = "e" THEN <<>> ELSE rows[s[i]])]

\* A's chain, ended by a3; b1 and b2 claim to continue it; C's chain holds
\* the loop; d1 is a stranger's; d2 and c3 are private.  Each names the
\* entities it creates.
Chains ==
    [a1 |-> Public("A", None, <<>>, <<"e", "m", "n", "tm">>),
     a2 |-> Public("A", "a1", <<>>, <<"q", "nm">>),
     a3 |-> Rotation("A", "a2", <<>>, "B"),
     b1 |-> Public("B", None, <<"a1", "a2", "a3">>, <<"um", "uq">>),
     b2 |-> Public("B", None, <<"a1", "a3">>, <<"un">>),
     c1 |-> Public("C", None, <<"a1">>, <<"k", "o", "tm", "mk", "kn", "ko">>),
     c2 |-> Public("C", "c1", <<"a1">>, <<"un", "q", "nm">>),
     c3 |-> Private("C", "c2", <<"d2">>, <<"nw", "wz", "zo">>),
     d1 |-> Public("D", None, <<"a1", "a2", "c1">>, <<"uq", "bad">>),
     d2 |-> Private("D", "d1", <<"c1">>, <<"w", "z", "wk", "c">>)]

Written(chains, rows) ==
    [d \in DOMAIN chains |->
        IF chains[d].type = "rotation" THEN chains[d]
        ELSE [chains[d] EXCEPT !.ops = Create(@, rows)]]
MCContent == Written(Chains, Rows)

MCDigests == <<"a1", "a2", "a3", "b1", "b2", "c1", "c2", "c3", "d1", "d2">>
MCRank == [d \in {MCDigests[i] : i \in DOMAIN MCDigests} |->
              CHOOSE i \in DOMAIN MCDigests : MCDigests[i] = d]
=============================================================================
