------------------------------ MODULE History ------------------------------
(***************************************************************************)
(* The history store of the bridge: the ingest transaction of the thread   *)
(* engine (src/src/history/engine.rs) run by the two doors of              *)
(* src/src/history/mod.rs over one SQLite connection behind a mutex.       *)
(*                                                                         *)
(* `db' is the committed database.  `work' is what the open transaction    *)
(* has written so far and equals `db' when none is open: the code's `?'    *)
(* drops the transaction and so rolls it back, and a crash does the same.  *)
(* Because the mutex is held from BEGIN to COMMIT, no reader and no other  *)
(* writer runs while it is open; the steps of one transaction (the loop    *)
(* over a deletion's targets, the loop that drains parked orphans) are     *)
(* steps of the model, so that a failure in the middle of the loop and the *)
(* rollback that follows are behaviours of the specification.              *)
(*                                                                         *)
(* Events are numbers: id order is the order of the hexadecimal ids, and   *)
(* what an event says (its kind, channel, markers, targets, replaceable    *)
(* address and created_at) is fixed by `msg', chosen initially out of      *)
(* Universes.                                                              *)
(***************************************************************************)
EXTENDS Naturals, Sequences, FiniteSets

CONSTANTS Id,         \* event ids, a finite set of positive numbers
          Chan,       \* #h channels, positive numbers
          Slot,       \* replaceable addresses (pubkey, kind, d-tag)
          Universes,  \* what the events of the network may look like
          Doors,      \* the doors in use, a subset of {"local", "mesh"}
          DepthCap,   \* DEPTH_CAP, 100 in the code
          Ttl,        \* age after which a parked orphan is reaped
          MaxNow      \* bound on the clock

NoId == 0
NoChan == 0
NoSlot == 0
Null == 0             \* SQL NULL in a timestamp column

Kinds == {"relay", "deletion", "reaction", "thread", "opaque", "replaceable"}

\* An event as the engine sees it: `root' and `reply' are its marked e-tags,
\* `targets' its e-tags when it is a deletion.
Message == [kind    : Kinds,
            chan    : Chan \cup {NoChan},
            root    : Id \cup {NoId},
            reply   : Id \cup {NoId},
            targets : Seq(Id),
            slot    : Slot \cup {NoSlot},
            at      : Nat \ {0}]

\* Relay-authored kinds (39000-39003, 39005, 39006, 13534) are all replaceable.
WellFormed(m) == \A i \in Id : m[i].slot # NoSlot <=> m[i].kind \in {"relay", "replaceable"}

ASSUME IdAssumption == IsFiniteSet(Id) /\ Id \subseteq Nat \ {0}
ASSUME ChanAssumption == Chan \subseteq Nat \ {0}
ASSUME SlotAssumption == Slot \subseteq Nat \ {0}
ASSUME UniverseAssumption == \A m \in Universes : m \in [Id -> Message] /\ WellFormed(m)
ASSUME DoorAssumption == Doors \subseteq {"local", "mesh"}
ASSUME CapAssumption == DepthCap \in Nat /\ DepthCap >= 2
ASSUME TimeAssumption == Ttl \in Nat /\ MaxNow \in Nat \ {0}

VARIABLES msg,   \* the events of the network; never changes
          now,   \* wall-clock seconds
          db,    \* the committed database
          work,  \* the database as the open transaction sees it
          tx     \* the open transaction, or the outcome of the last one

vars == <<msg, now, db, work, tx>>

\* The tables: events (with the soft-delete flag), thread_metadata (the ids
\* that have a row, and its columns, zero where there is no row),
\* pending_orphans (received_at, Null when not parked), quarantine and
\* replaceable_addrs.
Database == [event       : [Id -> {"absent", "live", "deleted"}],
             rows        : SUBSET Id,
             parent      : [Id -> Id \cup {NoId}],
             root        : [Id -> Id \cup {NoId}],
             depth       : [Id -> Nat],
             replies     : [Id -> Nat],
             descendants : [Id -> Nat],
             last        : [Id -> Nat],
             parked      : [Id -> Nat],
             quarantine  : SUBSET Id,
             addr        : [Slot -> Id \cup {NoId}]]

Outcomes == {"none", "accepted", "duplicate", "stale", "parked", "quarantined",
             "rejected", "error"}

Transaction == [status  : {"open", "closed"},
                id      : Id \cup {NoId},
                door    : {"none", "local", "mesh", "relay"},
                out     : Outcomes,
                targets : Seq(Id),
                stack   : Seq(Id),
                emits   : SUBSET Id]

Closed(e, door, out) == [status |-> "closed", id |-> e, door |-> door, out |-> out,
                         targets |-> <<>>, stack |-> <<>>, emits |-> {}]

EmptyDb == [event       |-> [i \in Id |-> "absent"],
            rows        |-> {},
            parent      |-> [i \in Id |-> NoId],
            root        |-> [i \in Id |-> NoId],
            depth       |-> [i \in Id |-> 0],
            replies     |-> [i \in Id |-> 0],
            descendants |-> [i \in Id |-> 0],
            last        |-> [i \in Id |-> Null],
            parked      |-> [i \in Id |-> Null],
            quarantine  |-> {},
            addr        |-> [s \in Slot |-> NoId]]

Init == /\ msg \in Universes
        /\ now = 1
        /\ db = EmptyDb
        /\ work = EmptyDb
        /\ tx = Closed(NoId, "none", "none")

----------------------------------------------------------------------------
(* Reading the tables.                                                     *)

\* Fault variants: each operator named ..._faulty is the definition after it
\* with one plausible mistake, for mutation checks; nothing else uses them.

\* A soft-deleted row no longer counts as present.
Present_faulty(d, i) == i \in Id /\ d.event[i] = "live"

Present(d, i) == i \in Id /\ d.event[i] # "absent"

Orphans(d, p) == {c \in Id : d.parked[c] # Null /\ msg[c].reply = p}

\* The marker table: a thread-scoped event is a reply exactly when it carries
\* a reply marker; only-root is top-level.
IsReply(e) == msg[e].kind = "thread" /\ msg[e].reply # NoId

RootHint(e) == IF msg[e].root # NoId THEN msg[e].root ELSE msg[e].reply

\* root marker, else reply marker, else the event itself.
DeriveOwnRoot(p) == IF msg[p].root # NoId THEN msg[p].root
                    ELSE IF msg[p].reply # NoId THEN msg[p].reply ELSE p

EffectiveRoot(d, p) == IF p \notin d.rows THEN DeriveOwnRoot(p)
                       ELSE IF d.root[p] # NoId THEN d.root[p] ELSE p

\* The depth of a reply is the depth of its parent.
ReplyDepth_faulty(d, p) == IF p \in d.rows THEN d.depth[p]
                           ELSE IF DeriveOwnRoot(p) = p THEN 1 ELSE 2

ReplyDepth(d, p) == IF p \in d.rows THEN d.depth[p] + 1
                    ELSE IF DeriveOwnRoot(p) = p THEN 1 ELSE 2

SameChannel(p, e) == msg[p].chan # NoChan /\ msg[p].chan = msg[e].chan

\* The depth cap is not enforced.
ResolveReply_faulty(d, e) ==
    LET p == msg[e].reply IN
    CASE ~Present(d, p)                      -> "missing"
      [] Present(d, p) /\ SameChannel(p, e)
           /\ RootHint(e) = EffectiveRoot(d, p) -> "ok"
      [] OTHER                               -> "mismatch"

ResolveReply(d, e) ==
    LET p == msg[e].reply IN
    CASE ~Present(d, p)                      -> "missing"
      [] Present(d, p) /\ SameChannel(p, e)
           /\ (p \in d.rows => ReplyDepth(d, p) <= DepthCap)
           /\ RootHint(e) = EffectiveRoot(d, p) -> "ok"
      [] OTHER                               -> "mismatch"

\* What resolve_reply hands to insert_reply.
ResolvedReply(d, e) == [parent |-> msg[e].reply,
                        root   |-> EffectiveRoot(d, msg[e].reply),
                        depth  |-> ReplyDepth(d, msg[e].reply)]

\* insert_stub fails the transaction when the event it is for has no row.
StubsPresent(d, e) == Present(d, EffectiveRoot(d, msg[e].reply))

\* Ties between versions are not broken by id.
Stale_faulty(d, e) ==
    LET w == d.addr[msg[e].slot] IN w # NoId /\ msg[w].at > msg[e].at

\* The stored winner of e's address is newer, or as new with a lower id.
Stale(d, e) ==
    LET w == d.addr[msg[e].slot] IN
    /\ w # NoId
    /\ \/ msg[w].at > msg[e].at
       \/ msg[w].at = msg[e].at /\ w < e

----------------------------------------------------------------------------
(* Writing the tables.  Each operator is one helper of engine.rs on the    *)
(* transaction's view d of the database.                                   *)

InsertEvent(d, e) == [d EXCEPT !.event = [@ EXCEPT ![e] = "live"]]

\* The mesh door takes the newest arrival, not the maximum.
LastReply_faulty(door, old, e) == IF door = "local" THEN now ELSE msg[e].at

\* last_reply_at: wall clock on the local door, maximum of created_at on the
\* mesh door.
LastReply(door, old, e) == IF door = "local" THEN now
                           ELSE IF old > msg[e].at THEN old ELSE msg[e].at

\* The updates of a counter column f: + 1, and MAX(n - 1, 0), on the row i.
Plus1(f, i) == [f EXCEPT ![i] = @ + 1]
Less1(f, i) == [k \in Id |-> IF k = i /\ f[k] > 0 THEN f[k] - 1 ELSE f[k]]

\* The direct reply is counted on the root instead of the parent.
InsertReply_faulty(d, e, rr, door) ==
    [d EXCEPT !.event = [@ EXCEPT ![e] = "live"],
              !.rows = @ \cup {e, rr.parent, rr.root},
              !.parent = [@ EXCEPT ![e] = rr.parent],
              !.root = [@ EXCEPT ![e] = rr.root],
              !.depth = [@ EXCEPT ![e] = rr.depth],
              !.replies = Plus1(@, rr.root),
              !.descendants = Plus1(@, rr.root),
              !.last = [@ EXCEPT ![rr.parent] = LastReply(door, d.last[rr.parent], e)]]

\* The reply's own row, the lazily created stubs of its parent and root (all
\* columns zero), and the two counter bumps.
InsertReply(d, e, rr, door) ==
    [d EXCEPT !.event = [@ EXCEPT ![e] = "live"],
              !.rows = @ \cup {e, rr.parent, rr.root},
              !.parent = [@ EXCEPT ![e] = rr.parent],
              !.root = [@ EXCEPT ![e] = rr.root],
              !.depth = [@ EXCEPT ![e] = rr.depth],
              !.replies = Plus1(@, rr.parent),
              !.descendants = Plus1(@, rr.root),
              !.last = [@ EXCEPT ![rr.parent] = LastReply(door, d.last[rr.parent], e)]]

\* Soft-delete t if its row is live, and take it out of the counters of the
\* thread it replied to.
SoftDelete(d, t) ==
    IF d.event[t] = "live"
    THEN [d EXCEPT !.event = [@ EXCEPT ![t] = "deleted"],
                   !.replies = Less1(@, d.parent[t]),
                   !.descendants = Less1(@, d.root[t])]
    ELSE d

\* The summary of the parent is emitted instead of the root's.
DeleteEmits_faulty(d, t) == IF d.event[t] = "live" /\ d.parent[t] # NoId
                            THEN {d.parent[t]} ELSE {}

DeleteEmits(d, t) == IF d.event[t] = "live" /\ d.root[t] # NoId
                     THEN {d.root[t]} ELSE {}

Park(d, e) == [d EXCEPT !.parked = [@ EXCEPT ![e] = now]]

Unpark(d, e) == [d EXCEPT !.parked = [@ EXCEPT ![e] = Null]]

Quarantine(d, e) == [d EXCEPT !.quarantine = @ \cup {e}]

\* The superseded row is left behind.
Supersede_faulty(d, e) == [d EXCEPT !.event = [@ EXCEPT ![e] = "live"], !.addr = [@ EXCEPT ![msg[e].slot] = e]]

\* The superseded winner's row is deleted, not soft-deleted.
Supersede(d, e) ==
    LET s == msg[e].slot
        w == d.addr[s]
    IN  [d EXCEPT !.event = [i \in Id |-> IF i = e THEN "live"
                                          ELSE IF i = w THEN "absent" ELSE d.event[i]],
                  !.addr = [@ EXCEPT ![s] = e]]

----------------------------------------------------------------------------
(* Transactions.  Begin takes the mutex, writes d and leaves the targets   *)
(* to delete and the ids to drain; the transaction goes on until both are  *)
(* used up and then commits.                                               *)

Idle == tx.status = "closed"
Busy == tx.status = "open"

Begin(e, door, out, d, targets, stack, emits) ==
    /\ work' = d
    /\ tx' = [status |-> "open", id |-> e, door |-> door, out |-> out,
              targets |-> targets, stack |-> stack, emits |-> emits]
    /\ UNCHANGED <<msg, now, db>>

\* `?' on an error drops the transaction: nothing of it survives.
Rollback(out) ==
    /\ work' = db
    /\ tx' = Closed(tx.id, tx.door, out)
    /\ UNCHANGED <<msg, now, db>>

IngestDuplicate(e, door) ==
    /\ Idle /\ Present(db, e)
    /\ Begin(e, door, "duplicate", db, <<>>, <<>>, {})

IngestRelayAuthored(e, door) ==
    /\ Idle /\ ~Present(db, e)
    /\ msg[e].kind = "relay"
    /\ \/ door = "local" /\ Begin(e, door, "rejected", db, <<>>, <<>>, {})
       \/ door = "mesh" /\ Begin(e, door, "quarantined", Quarantine(db, e), <<>>, <<>>, {})

IngestDeletion(e, door) ==
    /\ Idle /\ ~Present(db, e)
    /\ msg[e].kind = "deletion"
    /\ Begin(e, door, "accepted", InsertEvent(db, e), msg[e].targets, <<e>>, {})

\* A top-level arrival does not drain the orphans that wait for it.
IngestPlain_faulty(e, door) ==
    /\ Idle /\ ~Present(db, e)
    /\ \/ msg[e].kind \in {"reaction", "opaque"}
       \/ msg[e].kind = "thread" /\ ~IsReply(e)
    /\ Begin(e, door, "accepted", InsertEvent(db, e), <<>>, <<>>, {})

\* Reactions, top-level thread events and opaque kinds.
IngestPlain(e, door) ==
    /\ Idle /\ ~Present(db, e)
    /\ \/ msg[e].kind \in {"reaction", "opaque"}
       \/ msg[e].kind = "thread" /\ ~IsReply(e)
    /\ Begin(e, door, "accepted", InsertEvent(db, e), <<>>, <<e>>, {})

\* A stale version is reported as stored.
IngestReplaceable_faulty(e, door) ==
    /\ Idle /\ ~Present(db, e)
    /\ msg[e].kind = "replaceable"
    /\ \/ Stale(db, e) /\ Begin(e, door, "accepted", db, <<>>, <<>>, {})
       \/ ~Stale(db, e) /\ Begin(e, door, "accepted", Supersede(db, e), <<>>, <<e>>, {})

IngestReplaceable(e, door) ==
    /\ Idle /\ ~Present(db, e)
    /\ msg[e].kind = "replaceable"
    /\ \/ Stale(db, e) /\ Begin(e, door, "stale", db, <<>>, <<>>, {})
       \/ ~Stale(db, e) /\ Begin(e, door, "accepted", Supersede(db, e), <<>>, <<e>>, {})

\* A reply without its parent is refused locally and parked from the mesh.
IngestOrphan(e, door) ==
    /\ Idle /\ ~Present(db, e)
    /\ IsReply(e) /\ ResolveReply(db, e) = "missing"
    /\ \/ door = "local" /\ Begin(e, door, "rejected", db, <<>>, <<>>, {})
       \/ door = "mesh" /\ Begin(e, door, "parked", Park(db, e), <<>>, <<>>, {})

\* A reply whose ancestry does not check out is refused locally and
\* quarantined from the mesh.
IngestMismatch(e, door) ==
    /\ Idle /\ ~Present(db, e)
    /\ IsReply(e) /\ ResolveReply(db, e) = "mismatch"
    /\ \/ door = "local" /\ Begin(e, door, "rejected", db, <<>>, <<>>, {})
       \/ door = "mesh" /\ Begin(e, door, "quarantined", Quarantine(db, e), <<>>, <<>>, {})

IngestReply(e, door) ==
    /\ Idle /\ ~Present(db, e)
    /\ IsReply(e) /\ ResolveReply(db, e) = "ok" /\ StubsPresent(db, e)
    /\ Begin(e, door, "accepted", InsertReply(db, e, ResolvedReply(db, e), door), <<>>, <<e>>,
             {EffectiveRoot(db, msg[e].reply)})

\* insert_stub finds no event for the verified root: the ingest is an error.
IngestStubMissing(e, door) ==
    /\ Idle /\ ~Present(db, e)
    /\ IsReply(e) /\ ResolveReply(db, e) = "ok" /\ ~StubsPresent(db, e)
    /\ work' = db
    /\ tx' = Closed(e, door, "error")
    /\ UNCHANGED <<msg, now, db>>

\* The relay stores the state event it has just signed; no orphan is drained.
\* Its id is the hash of an event nobody has seen, so no orphan waits for it.
StoreRelayAuthored(e) ==
    /\ Idle /\ msg[e].kind = "relay" /\ Orphans(db, e) = {}
    /\ \/ Present(db, e) /\ Begin(e, "relay", "duplicate", db, <<>>, <<>>, {})
       \/ /\ ~Present(db, e) /\ Stale(db, e)
          /\ Begin(e, "relay", "stale", db, <<>>, <<>>, {})
       \/ /\ ~Present(db, e) /\ ~Stale(db, e)
          /\ Begin(e, "relay", "accepted", Supersede(db, e), <<>>, <<>>, {})

\* One turn of the loop over a deletion's targets.
DeleteTarget ==
    /\ Busy /\ tx.targets # <<>>
    /\ work' = SoftDelete(work, Head(tx.targets))
    /\ tx' = [tx EXCEPT !.targets = Tail(@),
                        !.emits = @ \cup DeleteEmits(work, Head(tx.targets))]
    /\ UNCHANGED <<msg, now, db>>

Draining == Busy /\ tx.targets = <<>> /\ tx.stack # <<>>

\* An orphan with bad ancestry is quarantined but stays parked.
Attach_faulty(d, c) ==
    IF ~Present(d, c) /\ ResolveReply(d, c) = "ok" THEN InsertReply(Unpark(d, c), c, ResolvedReply(d, c), "mesh")
    ELSE Quarantine(d, c)

\* What draining the parked orphan c writes.  The first case, "missing" and the
\* last one are the code's defensive branches.
Attach(d, c) ==
    CASE Present(d, c)                                     -> Unpark(d, c)
      [] ~Present(d, c) /\ IsReply(c) /\ ResolveReply(d, c) = "ok"
                                                           -> InsertReply(Unpark(d, c), c, ResolvedReply(d, c), "mesh")
      [] ~Present(d, c) /\ IsReply(c) /\ ResolveReply(d, c) = "mismatch"
                                                           -> Quarantine(Unpark(d, c), c)
      [] ~Present(d, c) /\ IsReply(c) /\ ResolveReply(d, c) = "missing"
                                                           -> Park(d, c)
      [] OTHER                                             -> InsertEvent(Unpark(d, c), c)

Attaches(d, c) == ~Present(d, c) /\ IsReply(c) /\ ResolveReply(d, c) = "ok"

DrainEmits(d, c) == IF Attaches(d, c) THEN {EffectiveRoot(d, msg[c].reply)} ELSE {}

\* A stored orphan is pushed, to be drained after its siblings.
DrainStack(d, c, stack) ==
    IF Attaches(d, c) \/ (~Present(d, c) /\ ~IsReply(c))
    THEN <<Head(stack), c>> \o Tail(stack) ELSE stack

\* An attached orphan's own orphans are not drained.
DrainOrphan_faulty ==
    /\ Draining
    /\ \E c \in Orphans(work, Head(tx.stack)) :
        /\ Attaches(work, c) => StubsPresent(work, c)
        /\ work' = Attach(work, c)
        /\ tx' = [tx EXCEPT !.emits = @ \cup DrainEmits(work, c)]
    /\ UNCHANGED <<msg, now, db>>

\* One orphan of the id being drained: attached, it is drained in its turn.
\* The SELECT has no ORDER BY: the orphans come in any order.
DrainOrphan ==
    /\ Draining
    /\ \E c \in Orphans(work, Head(tx.stack)) :
        /\ Attaches(work, c) => StubsPresent(work, c)
        /\ work' = Attach(work, c)
        /\ tx' = [tx EXCEPT !.stack = DrainStack(work, c, @),
                            !.emits = @ \cup DrainEmits(work, c)]
    /\ UNCHANGED <<msg, now, db>>

\* The stub of an orphan's verified root is missing: the whole transaction,
\* with the event that started it, is rolled back.
DrainStubMissing ==
    /\ Draining
    /\ \E c \in Orphans(work, Head(tx.stack)) : Attaches(work, c) /\ ~StubsPresent(work, c)
    /\ Rollback("error")

DrainPop ==
    /\ Draining /\ Orphans(work, Head(tx.stack)) = {}
    /\ tx' = [tx EXCEPT !.stack = Tail(@)]
    /\ UNCHANGED <<msg, now, db, work>>

Commit ==
    /\ Busy /\ tx.targets = <<>> /\ tx.stack = <<>>
    /\ db' = work
    /\ tx' = [tx EXCEPT !.status = "closed"]
    /\ UNCHANGED <<msg, now, work>>

\* The process dies inside a transaction and is started again on the same file,
\* or one of its statements fails (a full disk, a created_at beyond i64) and
\* `?' drops the transaction: either way it is rolled back.
Crash == Busy /\ Rollback("none")

Expired(d, i) == d.parked[i] # Null /\ d.parked[i] + Ttl < now

ReapOrphans ==
    /\ Idle
    /\ \E i \in Id : Expired(db, i)
    /\ db' = [db EXCEPT !.parked = [i \in Id |-> IF Expired(db, i) THEN Null ELSE db.parked[i]]]
    /\ work' = db'
    /\ tx' = Closed(NoId, "none", "none")
    /\ UNCHANGED <<msg, now>>

Tick ==
    /\ Idle /\ now < MaxNow
    /\ now' = now + 1
    /\ UNCHANGED <<msg, db, work, tx>>

Ingest(e, door) ==
    \/ IngestDuplicate(e, door) \/ IngestRelayAuthored(e, door)
    \/ IngestDeletion(e, door) \/ IngestPlain(e, door) \/ IngestReplaceable(e, door)
    \/ IngestOrphan(e, door) \/ IngestMismatch(e, door)
    \/ IngestReply(e, door) \/ IngestStubMissing(e, door)

TxStep == DeleteTarget \/ DrainOrphan \/ DrainStubMissing \/ DrainPop \/ Commit

Next == \/ \E e \in Id, door \in Doors : Ingest(e, door)
        \/ \E e \in Id : StoreRelayAuthored(e)
        \/ TxStep
        \/ Crash
        \/ ReapOrphans
        \/ Tick

Spec == Init /\ [][Next]_vars

----------------------------------------------------------------------------
(* Properties.                                                             *)

\* Every variable keeps its type; a thread is never deeper than DEPTH_CAP.
TypeOK == /\ msg \in [Id -> Message] /\ WellFormed(msg)
          /\ now \in 1..MaxNow
          /\ db \in Database
          /\ work \in Database
          /\ tx \in Transaction
          /\ \A i \in Id : db.depth[i] <= DepthCap

\* The live events whose row says they reply to m, and the live events whose
\* row says they are in the thread of r.
Children(d, m) == {c \in Id : d.parent[c] = m /\ d.event[c] = "live"}
Descendants(d, r) == {c \in Id : d.root[c] = r /\ d.event[c] = "live"}

\* The two counters the ingest and delete transactions maintain by +1 and
\* MAX(-1, 0) are exact: reply_count is the number of live direct replies,
\* descendant_count the number of live events of the thread, after every
\* interleaving of the doors, redeliveries, deletions, drains and crashes.
CountersExact(d) ==
    \A m \in Id : /\ d.replies[m] = Cardinality(Children(d, m))
                  /\ d.descendants[m] = Cardinality(Descendants(d, m))
CountersExactInv == CountersExact(db)

\* The reply rows are a forest: a reply is in its parent's channel, both its
\* parent and its root have the row that its counters live on, and it is
\* strictly deeper than its parent (resolve_reply, insert_reply).
Forest(d) ==
    \A c \in Id : d.parent[c] # NoId =>
        /\ d.root[c] # NoId
        /\ {d.parent[c], d.root[c]} \subseteq d.rows
        /\ d.depth[d.parent[c]] < d.depth[c]
        /\ SameChannel(d.parent[c], c)
ForestInv == Forest(db)

\* drain_pending leaves nothing behind: an event is parked only while it is
\* itself not stored and its parent is not stored.
OrphansWait(d) ==
    \A c \in Id : d.parked[c] # Null =>
        IsReply(c) /\ ~Present(d, c) /\ ~Present(d, msg[c].reply)
OrphansWaitInv == OrphansWait(db)

\* A replaceable address points at the one stored event of that address.
OneWinner(d) ==
    \A i \in Id : msg[i].slot # NoSlot /\ Present(d, i) => d.addr[msg[i].slot] = i
OneWinnerInv ==
    OneWinner(db) /\ \A s \in Slot : db.addr[s] # NoId => Present(db, db.addr[s])

\* Whatever order the versions of an address arrive in, the winner is only
\* ever replaced by a newer one, or an equally new one with a lower id.
Beats(a, b) == msg[a].at > msg[b].at \/ (msg[a].at = msg[b].at /\ a < b)
SlotOnlyImproves ==
    [][\A s \in Slot : db'.addr[s] # db.addr[s] =>
           db.addr[s] = NoId \/ Beats(db'.addr[s], db.addr[s])]_db

\* An event that was soft-deleted is never served again, however often it is
\* redelivered and whatever supersedes it.
NoResurrection ==
    \A i \in Id : [](db.event[i] = "deleted" => [](db.event[i] # "live"))

\* A transaction that changes the counters of a thread asks for a new
\* kind-39005 summary: of every row whose descendant count moves, and of every
\* message without markers whose reply count moves.  (The reply count of a
\* message that carries only a root marker moves with the summary of its root.)
EmitsCoverChange ==
    [][\A m \in Id :
           \/ db'.descendants[m] # db.descendants[m]
           \/ db'.replies[m] # db.replies[m] /\ DeriveOwnRoot(m) = m
           => m \in tx'.emits]_db

\* The caller is told "accepted" or "duplicate" exactly when the event is in
\* the events table: it publishes and fans out on that answer.
OutcomeHonest ==
    Idle /\ tx.id # NoId /\ tx.out # "none" =>
        (tx.out \in {"accepted", "duplicate"} <=> Present(db, tx.id))

\* With the mesh door alone, last_reply_at is the maximum of created_at over
\* all replies ever attached, whatever order they came in.
LastReplyIsMax ==
    \A m \in Id :
        LET ats == {msg[c].at : c \in {k \in Id : db.parent[k] = m}} IN
        IF ats = {} THEN db.last[m] = Null
        ELSE db.last[m] \in ats /\ \A a \in ats : a <= db.last[m]

\* A transaction that is not interrupted comes to an end: the drain loop
\* cannot go round for ever.
FairSpec == Spec /\ WF_vars(TxStep)
TxTerminates == Busy ~> Idle

============================================================================
