---------------------------- MODULE MCCaseBilling ----------------------------
(* Instances of CaseBilling for TLC.                                       *)
EXTENDS CaseBilling, TLC

Symmetry == Permutations(Requests)

=============================================================================
