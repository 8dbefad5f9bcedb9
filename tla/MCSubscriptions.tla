--------------------------- MODULE MCSubscriptions ---------------------------
(* Instances of Subscriptions for TLC.                                     *)
EXTENDS Subscriptions, TLC

Symmetry == Permutations(Subs) \cup Permutations(Handlers)

=============================================================================
