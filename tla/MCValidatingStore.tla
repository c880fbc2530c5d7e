-------------------------- MODULE MCValidatingStore --------------------------
(***************************************************************************)
(* Two goroutines over a ValidatingStore.  A behaviour keeps to one of two *)
(* families of blocks, which do not refer to each other.                   *)
(***************************************************************************)
EXTENDS ValidatingStore, MCUniverse, TLC

CONSTANTS p1, p2    \* model values: the goroutines

VARIABLE family

Families == {{"g", "p", "r", "z", "x"}, {"s", "t", "u", "y"}}
MCContent == [d \in Digest |-> IF d \in DOMAIN RefsContent THEN RefsContent[d]
                                                           ELSE ChainContent[d]]

MCInit == Init /\ family \in Families
MCNext ==
    /\ Next
    /\ \A p \in Proc : block'[p] \in family \cup {NoDigest}
    /\ UNCHANGED family
MCSpec == MCInit /\ [][MCNext]_<<vars, family>>

\* The goroutines run the same code, and no definition singles one out.
Symmetry == Permutations(Proc)
=============================================================================
