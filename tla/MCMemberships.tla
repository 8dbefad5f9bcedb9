---------------------------- MODULE MCMemberships ----------------------------
(* Instances of Memberships for TLC.                                       *)
EXTENDS Memberships, TLC

Symmetry == Permutations(Requests)

=============================================================================
