------------------------------ MODULE MCClaims ------------------------------
(* Instances of Claims for TLC.                                            *)
EXTENDS Claims

CONSTANTS A, B, v1

MCBridge == {A, B}
MCCode == {[cid |-> A, aid |-> A, exp |-> 1]}
MCCodes == {[cid |-> A, aid |-> A, exp |-> e] : e \in {1, 2}}
NoPolicy == [b \in MCBridge |-> {None}]
OnePolicy == [NoPolicy EXCEPT ![A] = {None, [version |-> v1, age |-> TRUE]}]

\* Commands act on the other channel of the authority.
OtherList == {<<A, "other">>}

\* The bound on codes: one of them is signed, the receipts may bind any.
OneSigned == Cardinality(minted) <= 1
============================================================================
