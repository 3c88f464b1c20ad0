----------------------------- MODULE Transport -----------------------------
(***************************************************************************)
(* The gossip transport of the bridge (src/src/transport.rs): which daemon *)
(* subscriptions (`forwarders') the bridge holds while callers ensure and  *)
(* remove topics concurrently and the supervisor reconnects the event      *)
(* stream and re-subscribes.                                               *)
(*                                                                         *)
(* A task is one call of ensure_topic or remove_topic on the multi-thread  *)
(* runtime; a step is what it does between two points where another thread *)
(* can run: one operation on a concurrent map, taking the flight lock, or  *)
(* one HTTP request and its answer.  The daemon is not part of the         *)
(* repository; it is modelled from how the bridge uses it: POST creates a  *)
(* forwarder under a new id, DELETE removes it and is harmless when it is  *)
(* gone, a stream that ends leaves the forwarders alive, and a daemon that *)
(* stops loses them.                                                       *)
(*                                                                         *)
(* A lock or subscription id that nobody remembers any more stands for a   *)
(* new one, so that the model needs no counters.                           *)
(***************************************************************************)
CONSTANTS Topic,   \* gossip topics
          Task,    \* calls that may be in flight at once
          Lock,    \* flight locks
          Sub,     \* daemon subscription ids
          Ops,     \* the calls made, a subset of {"ensure", "remove"}
          Faults,  \* what goes wrong, a subset of AllFaults
          None

\* drop: the stream ends with the daemon up.  restart: the daemon stops.
\* post, delete: the request fails and has no effect.  lost: the daemon
\* serves a POST whose answer never reaches the caller, or whose caller's
\* future has been dropped with the HTTP request that made the call.
AllFaults == {"drop", "restart", "post", "delete", "lost"}

ASSUME NoneAssumption == None \notin Topic \cup Task \cup Lock \cup Sub
ASSUME OpsAssumption == Ops \subseteq {"ensure", "remove"}
ASSUME FaultAssumption == Faults \subseteq AllFaults

VARIABLES topics,    \* Shared.topics: the recorded subscription id of a topic
          inflight,  \* Shared.inflight: the flight lock of a topic
          holder,    \* the task that holds a lock
          task,      \* the calls in flight
          sup,       \* the SSE supervisor
          fwd,       \* the daemon's forwarders
          stray,     \* those the bridge lost for an answer that failed to come
          up,        \* whether the daemon runs
          crossed    \* topics removed under a call or a re-subscription at work on
                     \* them; no part of the code, only read by the properties

daemon == <<fwd, stray>>
vars == <<topics, inflight, holder, task, sup, daemon, up, crossed>>

TaskPc == {"free", "ensure", "lock", "wait", "post", "insert",
           "remove", "unlock", "delete"}

Call == [pc : TaskPc, topic : Topic \cup {None}, lock : Lock \cup {None}, id : Sub \cup {None}]

SupPc == {"connect", "stream", "resub", "next", "post", "insert"}

Supervisor == [pc : SupPc, todo : SUBSET (Topic \X Sub), topic : Topic \cup {None},
               id : Sub \cup {None}]

Free == [pc |-> "free", topic |-> None, lock |-> None, id |-> None]

\* X0xTransport::connect: the daemon answered GET /health.
Init == /\ topics = [t \in Topic |-> None]
        /\ inflight = [t \in Topic |-> None]
        /\ holder = [l \in Lock |-> None]
        /\ task = [k \in Task |-> Free]
        /\ sup = [pc |-> "connect", todo |-> {}, topic |-> None, id |-> None]
        /\ fwd = [s \in Sub |-> None]
        /\ stray = {}
        /\ up = TRUE
        /\ crossed = {}

NewLock(l) == /\ \A t \in Topic : inflight[t] # l
              /\ \A k \in Task : task[k].lock # l

NewSub(s) == /\ fwd[s] = None
             /\ \A t \in Topic : topics[t] # s
             /\ \A k \in Task : task[k].id # s
             /\ sup.id # s /\ \A p \in sup.todo : p[2] # s

----------------------------------------------------------------------------
(* The daemon's answers.                                                   *)

\* The forwarder of a topic is created under id s and the caller hears of it.
PostServed(t, s) ==
    up /\ NewSub(s) /\ fwd' = [fwd EXCEPT ![s] = t] /\ UNCHANGED stray

\* The caller gets an error and there is no new forwarder.
PostFailed == (~up \/ "post" \in Faults) /\ UNCHANGED daemon

\* The caller gets an error but the forwarder is there.
PostLost(t) ==
    /\ up /\ "lost" \in Faults
    /\ \E s \in Sub : NewSub(s) /\ fwd' = [fwd EXCEPT ![s] = t] /\ stray' = stray \cup {s}

\* 404 counts as success.
DeleteServed(s) == up /\ fwd' = [fwd EXCEPT ![s] = None] /\ stray' = stray \ {s}

DeleteFailed(s) ==
    /\ ~up \/ "delete" \in Faults
    /\ stray' = IF fwd[s] = None THEN stray ELSE stray \cup {s}
    /\ UNCHANGED fwd

----------------------------------------------------------------------------
(* ensure_topic.                                                           *)

Goto(k, pc) == task' = [task EXCEPT ![k].pc = pc]
Return(k) == task' = [task EXCEPT ![k] = Free]

Release(k) == holder' = [l \in Lock |-> IF holder[l] = k THEN None ELSE holder[l]]

Spawn(k, op, t) ==
    /\ task[k].pc = "free"
    /\ task' = [task EXCEPT ![k] = [Free EXCEPT !.pc = op, !.topic = t]]
    /\ UNCHANGED <<topics, inflight, holder, sup, daemon, up, crossed>>

\* The fast path: the topic is already recorded.
EnsureCheck(k) ==
    /\ task[k].pc = "ensure"
    /\ IF topics[task[k].topic] # None THEN Return(k) ELSE Goto(k, "lock")
    /\ UNCHANGED <<topics, inflight, holder, sup, daemon, up, crossed>>

\* Get or create the topic's flight lock.
EnsureLock(k) ==
    LET t == task[k].topic IN
    /\ task[k].pc = "lock"
    /\ \E l \in Lock :
        /\ IF inflight[t] # None THEN l = inflight[t] ELSE NewLock(l)
        /\ inflight' = [inflight EXCEPT ![t] = l]
        /\ task' = [task EXCEPT ![k].pc = "wait", ![k].lock = l]
    /\ UNCHANGED <<topics, holder, sup, daemon, up, crossed>>

\* The second check is left out: whoever gets the lock subscribes.
EnsureEnter_faulty(k) ==
    /\ task[k].pc = "wait" /\ holder[task[k].lock] = None
    /\ holder' = [holder EXCEPT ![task[k].lock] = k] /\ Goto(k, "post")
    /\ UNCHANGED <<topics, inflight, sup, daemon, up, crossed>>

\* The lock is taken and the topic looked up again.
EnsureEnter(k) ==
    /\ task[k].pc = "wait" /\ holder[task[k].lock] = None
    /\ \/ topics[task[k].topic] # None /\ Return(k) /\ UNCHANGED holder
       \/ /\ topics[task[k].topic] = None
          /\ holder' = [holder EXCEPT ![task[k].lock] = k] /\ Goto(k, "post")
    /\ UNCHANGED <<topics, inflight, sup, daemon, up, crossed>>

\* A failed POST returns without releasing the flight lock.
EnsurePost_faulty(k) ==
    /\ task[k].pc = "post"
    /\ \/ \E s \in Sub : /\ PostServed(task[k].topic, s)
                         /\ task' = [task EXCEPT ![k].pc = "insert", ![k].id = s]
                         /\ UNCHANGED holder
       \/ (PostFailed \/ PostLost(task[k].topic)) /\ Return(k) /\ UNCHANGED holder
    /\ UNCHANGED <<topics, inflight, sup, up, crossed>>

EnsurePost(k) ==
    /\ task[k].pc = "post"
    /\ \/ \E s \in Sub : /\ PostServed(task[k].topic, s)
                         /\ task' = [task EXCEPT ![k].pc = "insert", ![k].id = s]
                         /\ UNCHANGED holder
       \/ (PostFailed \/ PostLost(task[k].topic)) /\ Return(k) /\ Release(k)
    /\ UNCHANGED <<topics, inflight, sup, up, crossed>>

EnsureInsert(k) ==
    /\ task[k].pc = "insert"
    /\ topics' = [topics EXCEPT ![task[k].topic] = task[k].id]
    /\ Return(k) /\ Release(k)
    /\ UNCHANGED <<inflight, sup, daemon, up, crossed>>

----------------------------------------------------------------------------
(* remove_topic.                                                           *)

\* The supervisor is about to re-subscribe t; a call has t's flight lock in hand.
Snapshot(t) == sup.topic = t \/ \E p \in sup.todo : p[1] = t
Locking(t) == \E k \in Task : task[k].topic = t /\ task[k].lock # None

\* The topic is forgotten only after its forwarder is gone.
RemoveTake_faulty(k) ==
    /\ task[k].pc = "remove"
    /\ task' = [task EXCEPT ![k].pc = "unlock", ![k].id = topics[task[k].topic]]
    /\ UNCHANGED <<topics, inflight, holder, sup, daemon, up, crossed>>

RemoveTake(k) ==
    /\ task[k].pc = "remove"
    /\ topics' = [topics EXCEPT ![task[k].topic] = None]
    /\ task' = [task EXCEPT ![k].pc = "unlock", ![k].id = topics[task[k].topic]]
    /\ crossed' = IF Snapshot(task[k].topic) THEN crossed \cup {task[k].topic} ELSE crossed
    /\ UNCHANGED <<inflight, holder, sup, daemon, up>>

\* The flight lock is forgotten, held or not.
RemoveUnlock(k) ==
    /\ task[k].pc = "unlock"
    /\ crossed' = IF Locking(task[k].topic) THEN crossed \cup {task[k].topic} ELSE crossed
    /\ inflight' = [inflight EXCEPT ![task[k].topic] = None]
    /\ IF task[k].id = None THEN Return(k) ELSE Goto(k, "delete")
    /\ UNCHANGED <<topics, holder, sup, daemon, up>>

RemoveDelete(k) ==
    /\ task[k].pc = "delete"
    /\ DeleteServed(task[k].id) \/ DeleteFailed(task[k].id)
    /\ Return(k)
    /\ UNCHANGED <<topics, inflight, holder, sup, up, crossed>>

----------------------------------------------------------------------------
(* The SSE supervisor: stream until it ends, re-subscribe every topic,     *)
(* connect again.                                                          *)

SseConnect ==
    /\ sup.pc = "connect"
    /\ \/ up /\ sup' = [sup EXCEPT !.pc = "stream"]
       \/ ~up /\ sup' = [sup EXCEPT !.pc = "resub"]
    /\ UNCHANGED <<topics, inflight, holder, task, daemon, up, crossed>>

SseEnd ==
    /\ sup.pc = "stream" /\ "drop" \in Faults
    /\ sup' = [sup EXCEPT !.pc = "resub"]
    /\ UNCHANGED <<topics, inflight, holder, task, daemon, up, crossed>>

\* The snapshot of resubscribe_all.
Resubscribe ==
    /\ sup.pc = "resub"
    /\ sup' = [sup EXCEPT !.pc = "next",
                          !.todo = {<<t, topics[t]>> : t \in {u \in Topic : topics[u] # None}}]
    /\ UNCHANGED <<topics, inflight, holder, task, daemon, up, crossed>>

\* The stale forwarder is not deleted before the new POST.
ResubDelete_faulty ==
    /\ sup.pc = "next"
    /\ \E p \in sup.todo :
        sup' = [sup EXCEPT !.pc = "post", !.topic = p[1], !.todo = @ \ {p}]
    /\ UNCHANGED <<topics, inflight, holder, task, daemon, up, crossed>>

ResubDelete ==
    /\ sup.pc = "next"
    /\ \E p \in sup.todo :
        /\ DeleteServed(p[2]) \/ DeleteFailed(p[2])
        /\ sup' = [sup EXCEPT !.pc = "post", !.topic = p[1], !.todo = @ \ {p}]
    /\ UNCHANGED <<topics, inflight, holder, task, up, crossed>>

ResubPost ==
    /\ sup.pc = "post"
    /\ \/ \E s \in Sub : PostServed(sup.topic, s) /\ sup' = [sup EXCEPT !.pc = "insert", !.id = s]
       \/ (PostFailed \/ PostLost(sup.topic)) /\ sup' = [sup EXCEPT !.pc = "next", !.topic = None]
    /\ UNCHANGED <<topics, inflight, holder, task, up, crossed>>

ResubInsert ==
    /\ sup.pc = "insert"
    /\ topics' = [topics EXCEPT ![sup.topic] = sup.id]
    /\ sup' = [sup EXCEPT !.pc = "next", !.topic = None, !.id = None]
    /\ UNCHANGED <<inflight, holder, task, daemon, up, crossed>>

ResubDone ==
    /\ sup.pc = "next" /\ sup.todo = {}
    /\ sup' = [sup EXCEPT !.pc = "connect"]
    /\ UNCHANGED <<topics, inflight, holder, task, daemon, up, crossed>>

----------------------------------------------------------------------------
(* The daemon's own steps.                                                 *)

\* Its forwarders and its end of the event stream go with it.
DaemonStop ==
    /\ up /\ "restart" \in Faults
    /\ up' = FALSE
    /\ fwd' = [s \in Sub |-> None] /\ stray' = {}
    /\ sup' = [sup EXCEPT !.pc = IF @ = "stream" THEN "resub" ELSE @]
    /\ UNCHANGED <<topics, inflight, holder, task, crossed>>

DaemonStart == ~up /\ up' = TRUE /\ UNCHANGED <<topics, inflight, holder, task, sup, daemon, crossed>>

TaskStep(k) ==
    \/ EnsureCheck(k) \/ EnsureLock(k) \/ EnsureEnter(k) \/ EnsurePost(k) \/ EnsureInsert(k)
    \/ RemoveTake(k) \/ RemoveUnlock(k) \/ RemoveDelete(k)

SupStep == SseConnect \/ SseEnd \/ Resubscribe \/ ResubDelete \/ ResubPost \/ ResubInsert \/ ResubDone

DaemonStep == DaemonStop \/ DaemonStart

Next == \/ \E k \in Task, op \in Ops, t \in Topic : Spawn(k, op, t)
        \/ \E k \in Task : TaskStep(k)
        \/ SupStep
        \/ DaemonStep

Spec == Init /\ [][Next]_vars

\* Tasks are scheduled, the daemon answers what it is sent, and tokio's mutex
\* is first come, first served.
FairSpec == Spec /\ \A k \in Task : WF_vars(TaskStep(k)) /\ SF_vars(EnsureEnter(k))

----------------------------------------------------------------------------
(* Properties.                                                             *)

\* However many callers ensure a topic and however often the supervisor
\* re-subscribes it, the daemon has one forwarder for it, beside what a request
\* without an answer left behind and those a remove_topic is still to delete:
\* nothing is delivered twice (ensure_topic's flight lock, resubscribe_all's
\* DELETE before POST).  Nothing is said of a topic that was removed under an
\* ensure_topic that has its lock, or out of the supervisor's snapshot.
Removing(s) == \E k \in Task : task[k].id = s /\ task[k].pc \in {"unlock", "delete"}
OneForwarder ==
    \A r, s \in {i \in Sub \ stray : fwd[i] # None /\ ~Removing(i)} :
        fwd[r] = fwd[s] => r = s \/ fwd[r] \in crossed

\* "leak-free" and "`ensure_topic` is race-free" (README.md): only a POST whose
\* answer is lost or a DELETE that fails leaves a forwarder at the daemon that
\* the bridge has no id of; every other one is recorded, or a call that will
\* record or delete it is in flight.  The exception is that of OneForwarder.
NoLeak ==
    \A s \in Sub \ stray : fwd[s] # None =>
        \/ topics[fwd[s]] = s
        \/ \E k \in Task : task[k].id = s
        \/ sup.id = s
        \/ fwd[s] \in crossed

\* A recorded topic has a live forwarder, unless the supervisor is just
\* replacing it: ensure_topic's fast path never answers Ok for a topic the
\* bridge cannot hear.
TrackedIsLive ==
    \A t \in Topic : topics[t] # None =>
        fwd[topics[t]] = t \/ (sup.pc \in {"post", "insert"} /\ sup.topic = t)

\* Every call comes back: no task waits for ever on a flight lock.
CallsReturn == \A k \in Task : task[k].pc # "free" ~> task[k].pc = "free"

============================================================================
