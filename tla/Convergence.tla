---------------------------- MODULE Convergence ----------------------------
(***************************************************************************)
(* The history store of one bridge among several: the events come by its   *)
(* doors in any order and any number of times (src/src/ingest.rs and the   *)
(* local door over HistoryStore), transactions are rolled back by crashes, *)
(* and orphans are reaped.  `got' is the history of what was committed.    *)
(*                                                                         *)
(* Whatever a bridge shows is what Replica says it must show for what it   *)
(* has had, so bridges that have had the same events, and soft-deleted the *)
(* same ones, agree.  State events the relay signs itself are its own and  *)
(* are left out.                                                           *)
(***************************************************************************)
EXTENDS History

VARIABLE got     \* the ids of the events that were committed and not forgotten

\* Events for which ancestry does not depend on the order of arrival: a root
\* marker comes with a reply marker, markers are carried by thread-scoped
\* events, nothing replies to a replaceable event, and, ids being hashes, no
\* event is its own ancestor.
Clean(m) ==
    /\ \A i \in Id : m[i].root # NoId => m[i].reply # NoId
    /\ \A i \in Id : m[i].reply # NoId => /\ m[i].kind = "thread"
                                          /\ m[m[i].reply].kind # "replaceable"
    /\ \A T \in SUBSET Id : T # {} => \E i \in T : m[i].reply \notin T

ConvInit == Init /\ Clean(msg) /\ got = {}

Receive(e, door) == Ingest(e, door) /\ UNCHANGED got

Inside == (DeleteTarget \/ DrainOrphan \/ DrainPop) /\ UNCHANGED got

\* What a bridge has had is what it answered for: the local door rejects what
\* the mesh door would park or quarantine, and keeps nothing of it.
Record == Commit /\ got' = IF tx.out = "rejected" THEN got ELSE got \cup {tx.id}

Lose == (DrainStubMissing \/ Crash) /\ UNCHANGED got

Reap == ReapOrphans /\ got' = {i \in got : ~Expired(db, i)}

ConvNext == \/ \E e \in Id, door \in Doors : Receive(e, door)
            \/ Inside
            \/ Record
            \/ Lose
            \/ Reap
            \/ Tick /\ UNCHANGED got

ConvSpec == ConvInit /\ [][ConvNext]_<<vars, got>>

----------------------------------------------------------------------------

Struck(d) == {i \in Id : d.event[i] = "deleted"}

\* What the store shows of its tables.
Shown(d) ==
    [holding |-> [event       |-> d.event,
                  rows        |-> d.rows,
                  parent      |-> d.parent,
                  root        |-> d.root,
                  depth       |-> d.depth,
                  replies     |-> d.replies,
                  descendants |-> d.descendants,
                  last        |-> [m \in Id |-> IF "local" \in Doors THEN Null ELSE d.last[m]],
                  addr        |-> d.addr],
     waiting |-> {i \in Id : d.parked[i] # Null},
     refused |-> d.quarantine]

R == INSTANCE Replica WITH struck <- Struck(db), view <- Shown(db)

\* "raw events converge" (docs/design/m1a.md, D1), and with them the threads:
\* after every commit the events table, the thread metadata with its exact
\* counters, the replaceable winners, the parked orphans and the quarantine are
\* a function of the set of events the bridge has had and of the ones it has
\* soft-deleted.
BridgesConverge == R!Spec
============================================================================
