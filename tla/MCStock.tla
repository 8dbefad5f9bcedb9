------------------------------- MODULE MCStock -------------------------------
(* Instances of Stock for TLC.                                             *)
EXTENDS Stock, TLC

Symmetry == Permutations(Requests) \cup Permutations(Locations)

=============================================================================
