------------------------------ MODULE MCTopics ------------------------------
(* Instances of Topics for TLC.                                            *)
EXTENDS Topics, TLC

\* Tasks, locks, subscription ids and connections are interchangeable.
Symmetry == Permutations(Lock) \cup Permutations(Sub) \cup Permutations(Task) \cup Permutations(Conn)

\* The bound on leaked forwarders.
IdLeft == \E s \in Sub : NewSub(s)
============================================================================
