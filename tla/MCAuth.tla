------------------------------- MODULE MCAuth -------------------------------
(* Instances of Auth for TLC.                                              *)
EXTENDS Auth, TLC

CONSTANT u

\* A token for the claim route, dated ahead of the clock.
MCToken == {[by |-> u, at |-> 3, path |-> "claim", payload |-> TRUE]}

Symmetry == Permutations(Req)
============================================================================
