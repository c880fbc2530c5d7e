------------------------------ MODULE Lineage ------------------------------
(***************************************************************************)
(* Block order (go/accept/order.go): where a block stands in the history   *)
(* of its logical author, which follows prev back to a genesis block and   *)
(* from there, if that block continues exactly one rotation and is the     *)
(* only one to, into the chain before it.                                  *)
(*                                                                         *)
(* A blockOrder is made for one view and remembers what it has placed, so  *)
(* placing a block gives the order it leaves behind.                             *)
(***************************************************************************)
EXTENDS Chain, Branch

\* failed: a block the order needed was not held.
newBlockOrder == [pos |-> [d \in {} |-> [lineage |-> d, index |-> 0]],
                  conflicts |-> {}, failed |-> FALSE]

\* The rotation blocks held that genesis block g claims to continue.
ClaimedBy(g) ==
    IF content[g].type # "public"
    THEN {}
    ELSE {r \in Range(Refs(g)) \cap blocks : IsRotation(r) /\ content[r].newPub = content[g].pub}

\* The blocks an ambiguous succession of g is between: g and its claims, if it
\* claims two chains; otherwise the rotation block and all who claim it.
Doubts(g) ==
    LET claims == ClaimedBy(g) IN
    IF Cardinality(claims) > 1
    THEN {claims \cup {g}}
    ELSE {Successors(r) \cup {r} : r \in {x \in claims : Ambiguous(x)}}

\* reportAmbiguity: once for each block it is found at, which gives the rest.
reportAmbiguity(involved) ==
    [kind |-> "succession", blocks |-> involved,
     declarers |-> {content[d].pub : d \in involved}]

\* Mutant: the block's own claim settles the succession.
rotationBehindAnyway(g) ==
    LET claims == ClaimedBy(g) IN
    IF claims = {} THEN NoDigest
                   ELSE CHOOSE r \in claims : \A x \in claims : rank[r] <= rank[x]

\* rotationBehind: the one rotation block g continues, if there is one and
\* nobody else continues it.
rotationBehind(g) ==
    IF ClaimedBy(g) = {} \/ Doubts(g) # {} THEN NoDigest ELSE CHOOSE r \in ClaimedBy(g) : TRUE

\* The block d follows; NoDigest if it begins its lineage.
anchor(d) == IF IsGenesis(d) THEN rotationBehind(d) ELSE content[d].prev

\* From d back to the first block placed, to the start of the lineage, or to
\* a block that is not held; in the order of publication.
PathTo(o, d) ==
    LET Back[n \in Nat] ==
            IF n = 0
            THEN <<d>>
            ELSE LET s == Back[n - 1]
                     x == Head(s)
                 IN  IF x \in DOMAIN o.pos \/ x \notin blocks \/ anchor(x) = NoDigest
                     THEN s
                     ELSE <<anchor(x)>> \o s
    IN  Back[Cardinality(blocks)]

\* Every block of a path counts on from the first.
Placed(o, path) ==
    LET first == Head(path)
        base == IF first \in DOMAIN o.pos THEN o.pos[first] ELSE [lineage |-> first, index |-> 0]
        place(x) == CHOOSE i \in DOMAIN path : path[i] = x
    IN  [x \in DOMAIN o.pos \cup Range(path) |->
            IF x \in DOMAIN o.pos THEN o.pos[x]
                                  ELSE [base EXCEPT !.index = @ + place(x) - 1]]

\* What placing the blocks of a path makes of an order.
Along(o, path) ==
    LET found == UNION {Doubts(g) : g \in {x \in Range(path) \cap blocks : IsGenesis(x)}}
        told == [o EXCEPT !.conflicts = @ \cup {reportAmbiguity(B) : B \in found}]
    IN  IF Head(path) \in blocks THEN [told EXCEPT !.pos = Placed(o, path)]
                                 ELSE [told EXCEPT !.failed = TRUE]

\* of: places d, after what it follows.
of(o, d) == CHOOSE p \in {Along(o, path) : path \in {PathTo(o, d)}} : TRUE

\* The n-th block of D in ascending order of digest.
Nth(D, n) == CHOOSE d \in D : Cardinality({x \in D : rank[x] < rank[d]}) = n - 1

\* The order after placing each block of D, in ascending order of digest.
PlaceAll(o, D) ==
    LET After[n \in 0..Cardinality(D)] ==
            IF n = 0 THEN o
            ELSE LET p == After[n - 1] IN IF p.failed THEN p ELSE of(p, Nth(D, n))
    IN  After[Cardinality(D)]

\* placeBlocks: what a view says of each of the blocks it places.
Positions(o, D) ==
    [d \in D |->
        LET p == o.pos[d]
            heights == {o.pos[x].index : x \in {y \in D : o.pos[y].lineage = p.lineage}}
        IN  [author |-> content[d].pub, lineage |-> p.lineage, height |-> p.index,
             length |-> 1 + CHOOSE n \in heights : \A k \in heights : n >= k]]
=============================================================================
