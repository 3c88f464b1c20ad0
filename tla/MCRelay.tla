------------------------------ MODULE MCRelay -------------------------------
(* Instances of Relay for TLC.                                             *)
EXTENDS Relay

\* A REQ has two filters, for the stored events and for the summaries; both have
\* a limit of one, their own or that of the store.
Stored == [match |-> Event, limit |-> None]
Summed == [match |-> {Overlay}, limit |-> 1]

MCFilter == {Stored, Summed}
MCLists == {MCFilter}
============================================================================
