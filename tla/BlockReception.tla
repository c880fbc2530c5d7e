--------------------------- MODULE BlockReception ---------------------------
(***************************************************************************)
(* What Layer 1 promises (the doc comments of ValidatingStore and of       *)
(* validateLinkage): a node keeps blocks, and some of the blocks it keeps  *)
(* become valid.  A block becomes valid only on top of a valid             *)
(* predecessor and only when the kept blocks define what it references;    *)
(* nothing is ever given up.  There are no goroutines, no waiting blocks   *)
(* and no traversal here: only the two sets.                               *)
(***************************************************************************)
EXTENDS Validity

VARIABLES held, valid

receptionVars == <<held, valid>>

ReceptionInit == held = {} /\ valid = {}

Keep(d) ==
    /\ held' = held \cup {d}
    /\ UNCHANGED valid

MayBecomeValid(d) ==
    /\ d \in held
    /\ PrevSound(d)
    /\ content[d].prev \in valid \cup {NoDigest}
    /\ content[d].type # "private" => OperationsSound(d, held, Keyed)

Accept(d) ==
    /\ MayBecomeValid(d)
    /\ valid' = valid \cup {d}
    /\ UNCHANGED held

Spec == ReceptionInit /\ [][\E d \in Digest : Keep(d) \/ Accept(d)]_receptionVars
=============================================================================
