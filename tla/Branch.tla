------------------------------- MODULE Branch -------------------------------
(***************************************************************************)
(* The branch of a chain that a source serves (go/transport/server.go):    *)
(* the walk forward through the blocks it holds, which takes the lowest    *)
(* digest where more than one block claims a position.  The syncer walks   *)
(* its own store the same way (sync.go, heldTip).                          *)
(***************************************************************************)
EXTENDS Blocks

CONSTANT rank   \* rank[d]: the place of d in the bytewise order of digests

ASSUME RankAssumption ==
    /\ rank \in [Digest -> Nat]
    /\ \A a, b \in Digest : rank[a] = rank[b] => a = b

Claims(d, pub, prev) == content[d].pub = pub /\ content[d].prev = prev
At(held, pub, prev) == {d \in held : Claims(d, pub, prev)}

branch(S) == CHOOSE d \in S : \A e \in S : rank[d] <= rank[e]

\* The sequences that list S, each member once.
Listings(S) == {s \in [1..Cardinality(S) -> S] : Range(s) = S}

\* The digests of S in order, as a source lists them.
Ascending(S) ==
    CHOOSE s \in [1..Cardinality(S) -> S] :
        \A i, j \in DOMAIN s : i < j => rank[s[i]] < rank[s[j]]

\* What is left of s when only the members of S are kept.
Only(s, S) ==
    LET kept[n \in 0..Len(s)] ==
            IF n = 0 THEN <<>>
            ELSE IF s[n] \in S THEN Append(kept[n - 1], s[n]) ELSE kept[n - 1]
    IN  kept[Len(s)]

\* At most limit blocks, from the one after the given position; it ends at a
\* hole and never skips one.
Walk(held, pub, after, limit) ==
    LET Walked[n \in 0..limit] ==
            IF n = 0
            THEN <<>>
            ELSE LET s == Walked[n - 1]
                     here == At(held, pub, IF s = <<>> THEN after ELSE s[Len(s)])
                 IN  IF Len(s) < n - 1 \/ here = {} THEN s ELSE Append(s, branch(here))
    IN  Walked[limit]

\* The end of the walk from the genesis position; NoDigest if it is empty.
TipOf(held, pub) ==
    LET whole == Walk(held, pub, NoDigest, Cardinality(held))
    IN  IF whole = <<>> THEN NoDigest ELSE whole[Len(whole)]

\* What a client checks of a range for itself.
CheckRange(s, pub, after) ==
    \A i \in DOMAIN s : Claims(s[i], pub, IF i = 1 THEN after ELSE s[i - 1])
=============================================================================
