------------------------------ MODULE MCCaseWork ------------------------------
(* Instances of CaseWork for TLC.                                          *)
EXTENDS CaseWork, TLC

Symmetry == Permutations(Requests) \cup Permutations(Todos)

===============================================================================
