------------------------------- MODULE MCNode -------------------------------
EXTENDS Node, MCMolecules

\* The universe of MCMolecules, and c4, which continues c2 as c3 does.
NodeDigests == Append(MCDigests, "c4")
NodeRank == [d \in {NodeDigests[i] : i \in DOMAIN NodeDigests} |->
                CHOOSE i \in DOMAIN NodeDigests : NodeDigests[i] = d]
NodeContent ==
    [d \in DOMAIN NodeRank |->
        IF d = "c4" THEN [Public("C", "c2", <<>>, <<"k">>) EXCEPT !.ops = Create(@, Rows)]
                    ELSE MCContent[d]]

\* c1 and c2 are of one second, and c4 is dated before both.
NodeTs == [d \in DOMAIN NodeRank |->
              CASE d = "c4" -> -1 [] d \in {"c1", "c2"} -> 0 [] OTHER -> NodeRank[d]]
NodeSize == [d \in DOMAIN NodeRank |-> 100 + NodeRank[d]]

Listing(a, s) == [pub |-> a, blocks |-> [i \in DOMAIN s |-> BuildEntry(s[i], i, s[i])]]

\* The files an index lists, each holding its block.
Filed(index) ==
    LET names == UNION {{b.file : b \in Range(index[i].blocks)} : i \in DOMAIN index}
    IN  [parses |-> TRUE, format |-> Format, index |-> index, files |-> [f \in names |-> f]]

A == Listing("A", <<"a1", "a2", "a3">>)
B == Listing("B", <<"b1">>)
C == Listing("C", <<"c1", "c2">>)
D == Listing("D", <<"d1">>)

Whole == Filed(<<C, D, A, B>>)

\* The chains of A and C, with an entry in the place of the one for c2.
Claimed(entry) == Filed(<<A, [C EXCEPT !.blocks[2] = entry]>>)
c2 == C.blocks[2]

\* Directories that load, in two orders and in part; chains out of order, in
\* two pieces, without a block in the middle, without what they refer to, or
\* empty; a fork; a private block; a block dated back; files that are missing,
\* stray, under the wrong name or the wrong key; an index that does not parse or
\* has another format, a key or a digest that does not parse; and a false
\* number, size or count of operations.
MCDirectories ==
    {Whole, Filed(<<A, B, C>>), Filed(<<Listing("A", <<"a1">>), C>>),
     Filed(<<Listing("A", <<"a2", "a1", "a3">>)>>),
     Filed(<<Listing("A", <<"a1", "a2">>), Listing("A", <<"a3">>)>>),
     Filed(<<Listing("A", <<"a1", "a3">>)>>),
     Filed(<<C>>), Filed(<<A, Listing("D", <<>>)>>),
     Filed(<<A, Listing("B", <<"b1", "b2">>)>>),
     Filed(<<A, C, Listing("D", <<"d1", "d2">>)>>),
     [Whole EXCEPT !.files = [f \in DOMAIN @ \ {"b1"} |-> f]],
     [Whole EXCEPT !.files = [f \in DOMAIN @ \cup {"b2"} |-> f]],
     [Whole EXCEPT !.files["b1"] = "none"], [Whole EXCEPT !.files["b1"] = "b2"],
     Filed(<<A, Listing("C", <<"b1">>)>>),
     Filed(<<A, Listing("C", <<"c1", "c2", "c4">>)>>),
     [Whole EXCEPT !.parses = FALSE], [Whole EXCEPT !.format = "none"],
     Filed(<<A, [C EXCEPT !.pub = NoAuthor]>>),
     Claimed([c2 EXCEPT !.index = 2]), Claimed([c2 EXCEPT !.size = @ - 1]),
     Claimed([c2 EXCEPT !.ops = @ + 1]),
     [Claimed(c2) EXCEPT !.index[2].blocks[2].digest = NoDigest,
                         !.files["c2"] = NoDigest]}

\* E has no chain.
MCRequests == {{"A", "B"}, {"A", "C"}, {"B", "C"}, {"E"}}
=============================================================================
