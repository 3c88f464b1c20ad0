------------------------------- MODULE Topics -------------------------------
(***************************************************************************)
(* The relay's topic bookkeeping (src/src/relay.rs) over the transport: a  *)
(* REQ counts its subscription on every channel topic it names and spawns  *)
(* a call of ensure_topic for each; CLOSE and disconnect count it off and  *)
(* spawn remove_topic when a count reaches zero; publishing an event       *)
(* ensures its topics without counting.                                    *)
(*                                                                         *)
(* A connection handles one frame at a time, and the connections run on    *)
(* different threads.  The count of a topic is one entry of a concurrent   *)
(* map, taken down in one step and removed, when it is zero, in another.   *)
(***************************************************************************)
EXTENDS Transport, Naturals, FiniteSets

CONSTANTS Conn,     \* connections; one that has left stands for a new one
          SubName,  \* subscription ids a client may use
          Publishes, \* whether events are published while clients come and go
          MaxRefs    \* bound on a count

ASSUME FiniteAssumption == IsFiniteSet(SubName) /\ IsFiniteSet(Conn)
ASSUME BoundAssumption == MaxRefs \in Nat \ {0} /\ Publishes \in BOOLEAN

VARIABLES refs,    \* AppState.topic_refs, zero where there is no entry
          subs,    \* AppState.sub_topics, empty where there is no entry
          conn,    \* what each connection's handler is doing
          strayed  \* for the properties: topics the count of which has gone astray

relay == <<refs, subs, conn, strayed>>
transport == vars
relayVars == <<relay, transport>>

\* In conn[c], `todo' are the topics a CLOSE or disconnect still has to count
\* off, `zero' is the one whose count it has just seen reach zero.
Ready(c) == conn[c] = [todo |-> {}, zero |-> None, leaving |-> FALSE]

RelayInit == /\ refs = [t \in Topic |-> 0]
             /\ subs = [c \in Conn |-> [n \in SubName |-> {}]]
             /\ conn = [c \in Conn |-> [todo |-> {}, zero |-> None, leaving |-> FALSE]]
             /\ strayed = {}
             /\ Init

\* One task for each topic of S.
SpawnEach(op, S) ==
    \E f \in [S -> Task] :
        /\ \A t, u \in S : f[t] = f[u] => t = u
        /\ \A t \in S : task[f[t]].pc = "free"
        /\ task' = [k \in Task |-> IF \E t \in S : f[t] = k
                                   THEN [Free EXCEPT !.pc = op, !.topic = CHOOSE t \in S : f[t] = k]
                                   ELSE task[k]]
        /\ UNCHANGED <<topics, inflight, holder, sup, daemon, up, crossed>>

\* A connection counts once on a topic, however many subscriptions it has there.
AcquireTopics_faulty(c, n, S) ==
    /\ refs' = [t \in Topic |-> IF t \in S /\ \A o \in SubName : t \notin subs[c][o]
                               THEN refs[t] + 1 ELSE refs[t]]
    /\ subs' = [subs EXCEPT ![c][n] = S]
    /\ strayed' = strayed \cup subs[c][n]

\* An entry of the same subscription id is overwritten, not released: what it was
\* counted for stays counted.
AcquireTopics(c, n, S) ==
    /\ refs' = [t \in Topic |-> IF t \in S THEN refs[t] + 1 ELSE refs[t]]
    /\ subs' = [subs EXCEPT ![c][n] = S]
    /\ strayed' = strayed \cup subs[c][n]

\* handle_req, from acquire_topics on.
Req(c, n, S) ==
    /\ Ready(c) /\ \A t \in S : refs[t] < MaxRefs
    /\ AcquireTopics(c, n, S)
    /\ SpawnEach("ensure", S)
    /\ UNCHANGED conn

\* release_sub_topics, up to decrement_topics.
ReleaseSub(c, n) ==
    /\ conn' = [conn EXCEPT ![c].todo = subs[c][n]]
    /\ subs' = [subs EXCEPT ![c][n] = {}]
    /\ UNCHANGED <<refs, strayed, transport>>

Close(c, n) == Ready(c) /\ ReleaseSub(c, n)

Disconnect(c) ==
    /\ Ready(c)
    /\ conn' = [conn EXCEPT ![c].leaving = TRUE]
    /\ UNCHANGED <<refs, subs, strayed, transport>>

\* release_conn_topics: one subscription after the other.
LeaveSub(c, n) ==
    /\ conn[c].leaving /\ conn[c].todo = {} /\ conn[c].zero = None
    /\ subs[c][n] # {}
    /\ ReleaseSub(c, n)

Left(c) ==
    /\ conn[c].leaving /\ conn[c].todo = {} /\ conn[c].zero = None
    /\ \A n \in SubName : subs[c][n] = {}
    /\ conn' = [conn EXCEPT ![c].leaving = FALSE]
    /\ UNCHANGED <<refs, subs, strayed, transport>>

\* decrement_topics under the entry's guard.
Decrement(c) ==
    /\ conn[c].zero = None
    /\ \E t \in conn[c].todo :
        LET left == IF refs[t] > 0 THEN refs[t] - 1 ELSE 0 IN
        /\ refs' = [refs EXCEPT ![t] = left]
        /\ conn' = [conn EXCEPT ![c].todo = @ \ {t},
                                ![c].zero = IF left = 0 THEN t ELSE None]
    /\ UNCHANGED <<subs, strayed, transport>>

\* After the guard is dropped: the entry is removed, with what others have counted
\* on it meanwhile, and remove_topic spawned.
Prune(c) ==
    /\ conn[c].zero # None
    /\ refs' = [refs EXCEPT ![conn[c].zero] = 0]
    /\ strayed' = IF refs[conn[c].zero] > 0 THEN strayed \cup {conn[c].zero} ELSE strayed
    /\ SpawnEach("remove", {conn[c].zero})
    /\ conn' = [conn EXCEPT ![c].zero = None]
    /\ UNCHANGED subs

\* publish_to_topics.
Publish(t) == SpawnEach("ensure", {t}) /\ UNCHANGED relay

TransportStep ==
    /\ (\E k \in Task : TaskStep(k)) \/ SupStep \/ DaemonStep
    /\ UNCHANGED relay

RelayNext == \/ \E c \in Conn, n \in SubName, S \in SUBSET Topic : Req(c, n, S)
             \/ \E c \in Conn, n \in SubName : Close(c, n) \/ LeaveSub(c, n)
             \/ \E c \in Conn : Disconnect(c) \/ Left(c) \/ Decrement(c) \/ Prune(c)
             \/ Publishes /\ \E t \in Topic : Publish(t)
             \/ TransportStep

RelaySpec == RelayInit /\ [][RelayNext]_relayVars

----------------------------------------------------------------------------
(* Properties.                                                             *)

\* The subscriptions on t, and the handlers that have yet to count t off.
Wanted(t) == {p \in Conn \X SubName : t \in subs[p[1]][p[2]]}
Owing(t) == {c \in Conn : t \in conn[c].todo}

\* While connections subscribe, close and leave at once, the count of a topic is
\* exactly the number of its subscriptions and of handlers that are about to count
\* it off, unless an entry of it was overwritten by a subscription id used again,
\* or removed with a count on it (relay.rs:300-345).
RefsExact ==
    \A t \in Topic \ strayed : refs[t] = Cardinality(Wanted(t)) + Cardinality(Owing(t))
============================================================================
