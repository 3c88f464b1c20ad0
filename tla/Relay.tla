------------------------------- MODULE Relay --------------------------------
(***************************************************************************)
(* The relay (src/src/relay.rs): WebSocket connections, their send queues  *)
(* and writers, the hub that fans events out to live subscriptions, and    *)
(* the doors events come in by (WebSocket, HTTP, gossip).                  *)
(*                                                                         *)
(* A connection's handler treats one frame at a time and waits for room in *)
(* its own send queue; the hub never waits.  The hub's entries hold        *)
(* clones of the queue's sender, so the writer ends only when they are     *)
(* gone too.  A filter is the set of events it matches and the limit it    *)
(* asks for.  Topic counts are the matter of Topics, the store's own       *)
(* decisions that of History.                                              *)
(***************************************************************************)
EXTENDS Integers, FiniteSets, FiniteSetsExt

CONSTANTS Conn,       \* connection ids; one that has ended stands for a new one
          SubName,    \* subscription ids
          Event,      \* events clients and peers publish, all replies to one root
          Ephemeral,  \* those of an ephemeral kind
          Overlay,    \* the relay-signed summary (kind 39005) of that root
          Filter,     \* filters clients use
          Lists,      \* the lists of filters their REQs come with
          QueryMax,   \* QUERY_MAX_LIMIT
          MaxConns,   \* permits of conn_sem
          MaxSubs,    \* MAX_SUBS_PER_CONN
          QueueCap,   \* SEND_QUEUE
          Grace,      \* SLOW_CLIENT_GRACE
          None

ASSUME CapAssumption == /\ MaxConns \in Nat \ {0} /\ MaxSubs \in Nat \ {0}
                        /\ QueueCap \in Nat \ {0} /\ Grace \in Nat \ {0} /\ QueryMax \in Nat
ASSUME EventAssumption == Ephemeral \subseteq Event
ASSUME FilterAssumption ==
    /\ Filter \subseteq [match : SUBSET (Event \cup {Overlay}), limit : Nat \cup {None}]
    /\ Lists \subseteq SUBSET Filter
ASSUME FiniteAssumption == IsFiniteSet(SubName)

\* What a handler is in the middle of: a REQ, with the filters that are yet to be
\* read and the events yet to be sent, or an EVENT.
Job == [op : {"req", "event"}, sub : SubName \cup Event,
        todo : SUBSET Filter, left : SUBSET Event]

\* The doors that are not a connection.
OtherDoor == {"http", "gossip"}

ASSUME NoneAssumption == None \notin Nat \cup Job /\ OtherDoor \cap Conn = {}

VARIABLES conn,      \* the handler of each connection
          writer,    \* its writer task: select, sending, last (the close frame), ended
          queue,     \* how many messages its send queue holds
          hub,       \* hub[c]: None, or the entries of c by subscription id
          permits,   \* free permits of conn_sem
          store,     \* events stored
          pub,       \* pub[e]: where the publication of e stands
          overlay,   \* overlay[e]: the summary task spawned for e
          summaries, \* thread summaries dispatched
          down,      \* shutting_down
          got, lost, \* events queued for, or refused by, each subscription since its REQ
          cut        \* events its queries matched and did not answer with

vars == <<conn, writer, queue, hub, permits, store, pub, overlay, summaries, down, got, lost, cut>>
doors == <<store, pub, overlay, summaries>>
owed == <<got, lost, cut>>

Closed == [pc |-> "closed", authed |-> FALSE, job |-> None]
NoSubs == [s \in SubName |-> None]
Nothing == [s \in SubName |-> {}]

Init == /\ conn = [c \in Conn |-> Closed]
        /\ writer = [c \in Conn |-> "ended"]
        /\ queue = [c \in Conn |-> 0]
        /\ hub = [c \in Conn |-> None]
        /\ permits = MaxConns
        /\ store = {} /\ summaries = {}
        /\ pub = [e \in Event |-> "new"]
        /\ overlay = [e \in Event |-> [pc |-> "none", count |-> 0]]
        /\ down = FALSE
        /\ got = [c \in Conn |-> Nothing]
        /\ lost = [c \in Conn |-> Nothing]
        /\ cut = [c \in Conn |-> Nothing]

----------------------------------------------------------------------------
(* The send queue and its writer.                                          *)

Room(c) == queue[c] < QueueCap

\* tx.send(..).await of the handler: it waits for room, and goes on as well
\* when the writer has ended.
CanSend(c) == Room(c) \/ writer[c] = "ended"
Send(c) == queue' = IF writer[c] = "ended" THEN queue ELSE [queue EXCEPT ![c] = @ + 1]

\* The writer takes a message and is busy until the socket has taken it.
WriterTakes(c) ==
    /\ writer[c] = "select" /\ queue[c] > 0
    /\ writer' = [writer EXCEPT ![c] = "sending"]
    /\ queue' = [queue EXCEPT ![c] = @ - 1]
    /\ UNCHANGED <<conn, hub, permits, doors, down, owed>>

\* The socket takes the message; or it has failed, or has taken the close frame,
\* and the writer ends.  Neither need ever happen: sink.send has no time limit.
SocketTakes(c) ==
    /\ writer[c] = "sending"
    /\ writer' = [writer EXCEPT ![c] = "select"]
    /\ UNCHANGED <<conn, queue, hub, permits, doors, down, owed>>

SocketFails(c) ==
    /\ writer[c] \in {"sending", "last"}
    /\ writer' = [writer EXCEPT ![c] = "ended"]
    /\ queue' = [queue EXCEPT ![c] = 0]
    /\ UNCHANGED <<conn, hub, permits, doors, down, owed>>

\* recv() answers None once every sender is gone.
WriterEnds(c) ==
    /\ writer[c] = "select" /\ queue[c] = 0
    /\ conn[c].pc = "closing" /\ hub[c] = None
    /\ writer' = [writer EXCEPT ![c] = "ended"]
    /\ UNCHANGED <<conn, queue, hub, permits, doors, down, owed>>

----------------------------------------------------------------------------
(* root_handler and handle_connection.                                     *)

\* A permit, a writer and the challenge.
Connect(c) ==
    /\ conn[c].pc = "closed" /\ ~down /\ permits > 0
    /\ permits' = permits - 1
    /\ conn' = [conn EXCEPT ![c].pc = "up"]
    /\ writer' = [writer EXCEPT ![c] = "select"]
    /\ queue' = [queue EXCEPT ![c] = 1]
    /\ UNCHANGED <<hub, doors, down, owed>>

Idle(c) == conn[c].pc = "up" /\ conn[c].job = None

\* AUTH: accepted, or refused; either is answered.
Auth(c) ==
    /\ Idle(c) /\ ~conn[c].authed /\ CanSend(c)
    /\ Send(c)
    /\ \E b \in BOOLEAN : conn' = [conn EXCEPT ![c].authed = b]
    /\ UNCHANGED <<writer, hub, permits, doors, down, owed>>

\* The deadline of an unauthenticated client, a close frame, a dead socket: the
\* sender is dropped and the connection taken out of the hub.
Leave_faulty(c) ==
    /\ Idle(c)
    /\ conn' = [conn EXCEPT ![c].pc = "closing"]
    /\ UNCHANGED <<hub, writer, queue, permits, doors, down, owed>>

Leave(c) ==
    /\ Idle(c)
    /\ conn' = [conn EXCEPT ![c].pc = "closing"]
    /\ hub' = [hub EXCEPT ![c] = None]
    /\ got' = [got EXCEPT ![c] = Nothing] /\ lost' = [lost EXCEPT ![c] = Nothing]
    /\ cut' = [cut EXCEPT ![c] = Nothing]
    /\ UNCHANGED <<writer, queue, permits, doors, down>>

\* writer.await, then the permit goes back.
Gone_faulty(c) ==
    /\ conn[c].pc = "closing"
    /\ conn' = [conn EXCEPT ![c] = Closed]
    /\ permits' = permits + 1
    /\ UNCHANGED <<writer, queue, hub, doors, down, owed>>

Gone(c) ==
    /\ conn[c].pc = "closing" /\ writer[c] = "ended"
    /\ conn' = [conn EXCEPT ![c] = Closed]
    /\ permits' = permits + 1
    /\ UNCHANGED <<writer, queue, hub, doors, down, owed>>

\* SIGTERM: new connections are refused, and the writers that wait in their
\* select at that moment send the close frame.
Shutdown ==
    /\ ~down /\ down' = TRUE
    /\ writer' = [c \in Conn |-> IF writer[c] = "select" THEN "last" ELSE writer[c]]
    /\ UNCHANGED <<conn, queue, hub, permits, doors, owed>>

----------------------------------------------------------------------------
(* Subscriptions.                                                          *)

Subs(c) == IF hub[c] = None THEN NoSubs ELSE hub[c]

\* Hub::register: a new id is refused at the limit, a known one replaced.
MayRegister(c, s) ==
    Subs(c)[s] # None \/ Cardinality({t \in SubName : Subs(c)[t] # None}) < MaxSubs

\* handle_req up to its first query: unauthenticated and refused subscriptions
\* are answered with CLOSED; else the subscription is live from here on.
Req(c, s, L) ==
    /\ Idle(c)
    /\ IF conn[c].authed /\ MayRegister(c, s)
       THEN /\ hub' = [hub EXCEPT ![c] = [Subs(c) EXCEPT
                                            ![s] = [match |-> UNION {f.match : f \in L}, strikes |-> 0]]]
            /\ conn' = [conn EXCEPT ![c].job = [op |-> "req", sub |-> s, todo |-> L, left |-> {}]]
            /\ got' = [got EXCEPT ![c][s] = {}] /\ lost' = [lost EXCEPT ![c][s] = {}]
            /\ cut' = [cut EXCEPT ![c][s] = {}]
            /\ UNCHANGED queue
       ELSE /\ CanSend(c) /\ Send(c)
            /\ UNCHANGED <<conn, hub, owed>>
    /\ UNCHANGED <<writer, permits, doors, down>>

InReq(c) == conn[c].job # None /\ conn[c].job.op = "req"

\* How many events the store answers a filter with.
Cap(f) == IF f.limit = None THEN QueryMax ELSE Min({f.limit, QueryMax})

\* store.query of the next filter: of what is stored now and matches, as many as
\* the filter's limit allows (the newest; which ones is left open), or nothing at
\* all when the read fails.
Query(c) ==
    /\ InReq(c) /\ conn[c].job.left = {}
    /\ LET j == conn[c].job IN
       \E f \in j.todo :
         LET hits == store \cap f.match IN
         \E page \in SUBSET hits :
           /\ page = {} \/ Cardinality(page) = Min({Cardinality(hits), Cap(f)})
           /\ conn' = [conn EXCEPT ![c].job = [j EXCEPT !.todo = @ \ {f}, !.left = page]]
           /\ cut' = [cut EXCEPT ![c][j.sub] = @ \cup (hits \ page)]
    /\ UNCHANGED <<writer, queue, hub, permits, doors, down, got, lost>>

\* The events that were read, one by one.
Backfill_faulty(c) ==
    /\ InReq(c)
    /\ LET j == conn[c].job IN
       \E e \in j.left :
         /\ queue' = IF Room(c) THEN [queue EXCEPT ![c] = @ + 1] ELSE queue
         /\ conn' = [conn EXCEPT ![c].job = [j EXCEPT !.left = @ \ {e}]]
         /\ got' = IF Room(c) THEN [got EXCEPT ![c][j.sub] = @ \cup {e}] ELSE got
    /\ UNCHANGED <<writer, hub, permits, doors, down, lost, cut>>

Backfill(c) ==
    /\ InReq(c) /\ CanSend(c)
    /\ LET j == conn[c].job IN
       \E e \in j.left :
         /\ Send(c)
         /\ conn' = [conn EXCEPT ![c].job = [j EXCEPT !.left = @ \ {e}]]
         /\ got' = [got EXCEPT ![c][j.sub] = @ \cup {e}]
    /\ UNCHANGED <<writer, hub, permits, doors, down, lost, cut>>

\* EOSE after the last filter.
Eose(c) ==
    /\ InReq(c) /\ conn[c].job.todo = {} /\ conn[c].job.left = {} /\ CanSend(c)
    /\ Send(c)
    /\ conn' = [conn EXCEPT ![c].job = None]
    /\ UNCHANGED <<writer, hub, permits, doors, down, owed>>

\* CLOSE: unregister_sub; the entry of the connection stays.
CloseSub(c, s) ==
    /\ Idle(c) /\ hub[c] # None
    /\ hub' = [hub EXCEPT ![c][s] = None]
    /\ UNCHANGED <<conn, writer, queue, permits, doors, down, owed>>

----------------------------------------------------------------------------
(* Hub::dispatch.                                                          *)

Matching(c, e) == {s \in SubName : Subs(c)[s] # None /\ e \in Subs(c)[s].match}

\* How many of the subscriptions in S still find room; which ones is a matter
\* of the map's order.
Taken(c, S) == {R \in SUBSET S : Cardinality(R) = Min({Cardinality(S), QueueCap - queue[c]})}

\* try_send to every matching subscription: success clears its strikes, a full
\* queue is a strike, a closed one or the last strike takes the connection out.
Dispatch(e) ==
    \E took \in [Conn -> SUBSET SubName] :
      LET open(c) == writer[c] # "ended"
          strikes(c, s) == IF s \in took[c] THEN 0
                           ELSE IF s \in Matching(c, e) THEN Subs(c)[s].strikes + 1
                           ELSE Subs(c)[s].strikes
          slow(c) == \E s \in Matching(c, e) : ~open(c) \/ strikes(c, s) >= Grace
      IN /\ \A c \in Conn : IF open(c) THEN took[c] \in Taken(c, Matching(c, e)) ELSE took[c] = {}
         /\ queue' = [c \in Conn |-> queue[c] + Cardinality(took[c])]
         /\ hub' = [c \in Conn |-> IF hub[c] = None \/ slow(c) THEN None
                                   ELSE [s \in SubName |-> IF hub[c][s] = None THEN None
                                                           ELSE [hub[c][s] EXCEPT !.strikes = strikes(c, s)]]]
         /\ got' = [c \in Conn |-> [s \in SubName |-> IF s \in took[c] THEN got[c][s] \cup {e} ELSE got[c][s]]]
         /\ lost' = [c \in Conn |-> [s \in SubName |-> IF s \in Matching(c, e) \ took[c]
                                                       THEN lost[c][s] \cup {e} ELSE lost[c][s]]]
         /\ UNCHANGED cut

----------------------------------------------------------------------------
(* The doors: handle_event, post_events, ingest_one.                       *)

\* An event is handed in by a connection that is authenticated, or by HTTP or
\* gossip.  Only HTTP stores an ephemeral one; a duplicate, or one the store
\* refuses, goes no further.
Submit(e, d) ==
    /\ pub[e] = "new"
    /\ d \in Conn => Idle(d) /\ conn[d].authed
    /\ \/ /\ pub' = [pub EXCEPT ![e] = "accepted"]
          /\ store' = IF e \in Ephemeral /\ d # "http" THEN store ELSE store \cup {e}
       \/ pub' = [pub EXCEPT ![e] = "refused"] /\ UNCHANGED store
    /\ conn' = IF d \in Conn
               THEN [conn EXCEPT ![d].job = [op |-> "event", sub |-> e, todo |-> {}, left |-> {}]]
               ELSE conn
    /\ UNCHANGED <<writer, queue, hub, permits, overlay, summaries, down, owed>>

\* After publish_to_topics: dispatch, and one task for the thread's summary.
Publish(e) ==
    /\ pub[e] = "accepted"
    /\ Dispatch(e)
    /\ pub' = [pub EXCEPT ![e] = "sent"]
    /\ overlay' = IF e \in Ephemeral THEN overlay ELSE [overlay EXCEPT ![e].pc = "spawned"]
    /\ UNCHANGED <<conn, writer, permits, store, summaries, down>>

\* The door of the WebSocket answers OK in the end.
Ok(c) ==
    /\ conn[c].job # None /\ conn[c].job.op = "event"
    /\ pub[conn[c].job.sub] \in {"sent", "refused"} /\ CanSend(c)
    /\ Send(c)
    /\ conn' = [conn EXCEPT ![c].job = None]
    /\ UNCHANGED <<writer, hub, permits, doors, down, owed>>

\* fan_out_emits: the task reads the summary and, later, dispatches it to the
\* subscriptions that ask for summaries.  A read or a signature that fails ends
\* the task; the count it should have carried is kept for the properties.
TrueCount == Cardinality(store \ Ephemeral)

ReadSummary_faulty(e) ==
    /\ overlay[e].pc = "spawned"
    /\ \E pc \in {"read", "failed"} :
         overlay' = [overlay EXCEPT ![e] = [pc |-> pc, count |-> Cardinality((store \ Ephemeral) \ {e})]]
    /\ UNCHANGED <<conn, writer, queue, hub, permits, store, pub, summaries, down, owed>>

ReadSummary(e) ==
    /\ overlay[e].pc = "spawned"
    /\ \E pc \in {"read", "failed"} :
         overlay' = [overlay EXCEPT ![e] = [pc |-> pc, count |-> TrueCount]]
    /\ UNCHANGED <<conn, writer, queue, hub, permits, store, pub, summaries, down, owed>>

DispatchSummary(e) ==
    /\ overlay[e].pc = "read"
    /\ Dispatch(Overlay)
    /\ summaries' = summaries \cup {overlay[e].count}
    /\ overlay' = [overlay EXCEPT ![e] = [pc |-> "done", count |-> 0]]
    /\ UNCHANGED <<conn, writer, permits, store, pub, down>>

HandlerStep(c) == Query(c) \/ Backfill(c) \/ Eose(c) \/ Ok(c)

WriterStep(c) == WriterTakes(c) \/ WriterEnds(c) \/ Gone(c)

Next ==
    \/ \E c \in Conn : Connect(c) \/ Auth(c) \/ Leave(c) \/ HandlerStep(c)
    \/ \E c \in Conn : WriterStep(c) \/ SocketTakes(c) \/ SocketFails(c)
    \/ \E c \in Conn, s \in SubName, L \in Lists : Req(c, s, L)
    \/ \E c \in Conn, s \in SubName : CloseSub(c, s)
    \/ \E e \in Event : (\E d \in Conn \cup OtherDoor : Submit(e, d)) \/ Publish(e)
    \/ \E e \in Event : ReadSummary(e) \/ DispatchSummary(e)
    \/ Shutdown

Spec == Init /\ [][Next]_vars

\* Writers run when they can.  Nothing is asked of sockets, which may stall for
\* ever, nor of clients.
Fairness == \A c \in Conn : WF_vars(WriterStep(c))

FairSpec == Spec /\ Fairness

----------------------------------------------------------------------------
(* Properties.                                                             *)

\* No gap between backfill and live: once a REQ has been answered, every event
\* that was stored and fanned out, before, during or after its queries, has been
\* queued for the subscription, unless the queue was full when it was dispatched,
\* or a query of the REQ found it and left it out, for the limit or for an error
\* (relay.rs:725-783, 119-159).
NoGap ==
    \A c \in Conn, s \in SubName :
        Subs(c)[s] # None /\ writer[c] # "ended" /\ conn[c].job = None =>
            \A e \in Subs(c)[s].match \cap store :
                pub[e] = "sent" => e \in got[c][s] \cup lost[c][s] \cup cut[c][s]

\* The hub speaks only to connections that are up and authenticated, holds fewer
\* strikes against a subscription than would end it, and a connection has its
\* permit until its writer has ended (relay.rs:76-159, 427-537).
HubInv ==
    /\ permits + Cardinality({c \in Conn : conn[c].pc # "closed"}) = MaxConns
    /\ \A c \in Conn : /\ hub[c] # None => conn[c].pc = "up" /\ conn[c].authed
                       /\ conn[c].pc = "closed" => writer[c] = "ended"
                       /\ \A s \in SubName : Subs(c)[s] # None => Subs(c)[s].strikes < Grace
                       /\ queue[c] <= QueueCap

\* When every task has run, a summary with the thread's true reply count has been
\* dispatched, however the tasks overtook one another, unless the very task that
\* was to carry that count failed (http.rs:263-291).
LatestSummarySent ==
    /\ \A e \in Event \ Ephemeral : pub[e] # "accepted"
    /\ \A e \in Event : overlay[e].pc \in {"none", "done", "failed"}
    /\ store \ Ephemeral # {}
    => \/ TrueCount \in summaries
       \/ \E e \in Event : overlay[e].pc = "failed" /\ overlay[e].count = TrueCount

\* A connection that is closing gives its permit back, whatever is still queued,
\* unless its writer waits for a socket that takes nothing: the hub must let go of
\* its sender for that, or the writer waits for ever (relay.rs:485-509, 533-537).
ClosesCleanUp ==
    \A c \in Conn :
        <>[](conn[c].pc = "closing") => <>[](writer[c] \in {"sending", "last"})
============================================================================
