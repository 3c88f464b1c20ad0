------------------------------ MODULE MCGroups ------------------------------
(* Instances of Groups for TLC.                                            *)
EXTENDS Groups, TLC

Symmetry == Permutations(Call)
============================================================================
