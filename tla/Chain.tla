------------------------------- MODULE Chain -------------------------------
(***************************************************************************)
(* Chains, successions and histories (go/block/chain.go): questions asked  *)
(* of a store, each answered from what the store holds at that moment.     *)
(*                                                                         *)
(* A source may carry verdicts or not, so ValidateChain and                *)
(* ValidateHistory take the set valid: of the blocks the source has        *)
(* accepted, and of those whose validation against it succeeds.            *)
(***************************************************************************)
EXTENDS MemStore, Validity

IsRotation(d) == content[d].type = "rotation"

\* walk, as far as the store goes: from the tip back, in publication order.
walk(tip) ==
    LET Back[n \in Nat] ==
            IF n = 0
            THEN <<tip>>
            ELSE LET s == Back[n - 1]
                     d == Head(s)
                 IN  IF d \notin blocks \/ IsGenesis(d) THEN s
                                                        ELSE <<content[d].prev>> \o s
    IN  Back[Cardinality(blocks)]

\* Validate, of a source without verdicts that does not change meanwhile.
Validates(d) ==
    /\ content[d].prev \in blocks \cup {NoDigest}
    /\ PrevSound(d)
    /\ content[d].type # "private" =>
          RefsSound(d, blocks) /\ OperationsSound(d, blocks, Keyed)
Validated == {d \in blocks : Validates(d)}

ValidateChain(tip, valid) == Range(walk(tip)) \subseteq blocks \cap valid

\* ValidateSuccession: g is a public genesis block of the key the rotation
\* block r appoints, and lists r in its refs.
Continues(r, g) ==
    /\ IsRotation(r)
    /\ IsGenesis(g)
    /\ content[g].type = "public"
    /\ content[g].pub = content[r].newPub
    /\ r \in Range(Refs(g))

\* Successors, through the store's index of references: more than one is an
\* ambiguous succession.
Successors(r) ==
    {d \in Range(BlocksReferencing(r)) :
        /\ IsGenesis(d)
        /\ content[d].type = "public"
        /\ content[d].pub = content[r].newPub}
Ambiguous(r) == Cardinality(Successors(r)) > 1

\* Mutant: the claimants of a rotation are not counted.
ValidateHistoryAsNamed(tips, valid) ==
    \A i \in DOMAIN tips :
        /\ ValidateChain(tips[i], valid)
        /\ i > 1 => Continues(tips[i - 1], Head(walk(tips[i])))

\* ValidateHistory: every chain but the last ends in a rotation block, and
\* the next one is the only chain that continues it.
ValidateHistory(tips, valid) ==
    /\ tips # <<>>
    /\ \A i \in DOMAIN tips :
          /\ ValidateChain(tips[i], valid)
          /\ i > 1 => /\ Continues(tips[i - 1], Head(walk(tips[i])))
                      /\ ~Ambiguous(tips[i - 1])
=============================================================================
