---------------------------- MODULE MCTransport ----------------------------
(* Instances of Transport for TLC.                                         *)
EXTENDS Transport, TLC

\* Tasks, locks and subscription ids are interchangeable.
Symmetry == Permutations(Lock) \cup Permutations(Sub) \cup Permutations(Task)
============================================================================
