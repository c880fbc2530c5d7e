---------------------------- MODULE MCAcceptance ----------------------------
EXTENDS Acceptance, MCMolecules

MCSubscriptions == {{"A", "B", "C", "D"}, {"A", "C"}, {"B", "C", "D"}}
=============================================================================
