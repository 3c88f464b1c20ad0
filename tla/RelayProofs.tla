----------------------------- MODULE RelayProofs ------------------------------
(***************************************************************************)
(* Proofs about Relay, for any connections, subscriptions, events, filters *)
(* and limits.  The inductive invariant IInv says                          *)
(*   - that permits and connections add up, and that the hub has entries   *)
(*     only of connections that are up;                                    *)
(*   - that an event which was fanned out is queued for, refused by, left  *)
(*     out by a query of, or still to be backfilled to every subscription  *)
(*     it matches;                                                         *)
(*   - that whenever the thread has a reply, its true count was dispatched,*)
(*     or a task is still to read it, carries it, or failed with it.       *)
(***************************************************************************)
EXTENDS Relay, FiniteSetTheorems, TLAPS

Seen == Event \cup {Overlay}

Handler == [pc : {"closed", "up", "closing"}, authed : BOOLEAN, job : Job \cup {None}]
Entry == [match : SUBSET Seen, strikes : Nat]
Writers == {"select", "sending", "last", "ended"}
Counts == {0} \cup {Cardinality(S) : S \in SUBSET Event}
Task == [pc : {"none", "spawned", "read", "failed", "done"}, count : Counts]

TypeOK ==
    /\ conn \in [Conn -> Handler]
    /\ writer \in [Conn -> Writers]
    /\ queue \in [Conn -> Nat]
    /\ hub \in [Conn -> [SubName -> Entry \cup {None}] \cup {None}]
    /\ permits \in Nat
    /\ store \subseteq Event
    /\ pub \in [Event -> {"new", "accepted", "refused", "sent"}]
    /\ overlay \in [Event -> Task]
    /\ got \in [Conn -> [SubName -> SUBSET Seen]]
    /\ lost \in [Conn -> [SubName -> SUBSET Seen]]
    /\ cut \in [Conn -> [SubName -> SUBSET Seen]]

PermitInv ==
    /\ IsFiniteSet({c \in Conn : conn[c].pc # "closed"})
    /\ permits + Cardinality({c \in Conn : conn[c].pc # "closed"}) = MaxConns

LineInv ==
    \A c \in Conn : /\ hub[c] # None => conn[c].pc = "up" /\ conn[c].authed
                    /\ conn[c].pc = "closed" => writer[c] = "ended"
                    /\ conn[c].job # None => conn[c].pc = "up"
                    /\ \A s \in SubName : hub[c] # None /\ hub[c][s] # None => hub[c][s].strikes < Grace
                    /\ queue[c] <= QueueCap

\* Event e is yet to be read, or sent, by the handler for subscription s.
Pending(job, s, e) ==
    /\ job # None /\ job.op = "req" /\ job.sub = s
    /\ e \in job.left \/ \E f \in job.todo : e \in f.match

GapInv ==
    \A c \in Conn, s \in SubName :
        hub[c] # None /\ hub[c][s] # None /\ writer[c] # "ended" =>
            \A e \in hub[c][s].match \cap store :
                pub[e] = "sent" => \/ e \in got[c][s] \/ e \in lost[c][s] \/ e \in cut[c][s]
                                   \/ Pending(conn[c].job, s, e)

SumInv ==
    store \ Ephemeral # {} =>
        \/ \E e \in Event \ Ephemeral : pub[e] = "accepted"
        \/ \E e \in Event : overlay[e].pc = "spawned"
        \/ \E e \in Event : overlay[e].pc \in {"read", "failed"} /\ overlay[e].count = TrueCount
        \/ TrueCount \in summaries

IInv == TypeOK /\ PermitInv /\ LineInv /\ GapInv /\ SumInv

----------------------------------------------------------------------------
(* The send queue.                                                         *)

\* The handler waits for room, so the queue stays within its bound.
LEMMA SendEffect ==
    ASSUME TypeOK, LineInv, NEW c \in Conn, CanSend(c), Send(c)
    PROVE  /\ queue' \in [Conn -> Nat]
           /\ \A d \in Conn : queue'[d] <= QueueCap
BY CapAssumption DEF TypeOK, LineInv, CanSend, Send, Room

\* A step that opens or closes no connection.
LEMMA SamePermits ==
    ASSUME PermitInv, permits' = permits,
           \A c \in Conn : conn'[c].pc # "closed" <=> conn[c].pc # "closed"
    PROVE  PermitInv'
<1>1. {c \in Conn : conn'[c].pc # "closed"} = {c \in Conn : conn[c].pc # "closed"}
    OBVIOUS
<1> QED BY <1>1 DEF PermitInv

\* A step of none of the doors.
LEMMA SameDoors ==
    ASSUME SumInv, UNCHANGED doors
    PROVE  SumInv'
BY DEF SumInv, doors, TrueCount

\* A step of a writer and its socket.
LEMMA WriterInv ==
    ASSUME IInv, UNCHANGED <<conn, hub, permits, doors, owed>>,
           writer' \in [Conn -> Writers],
           \A c \in Conn : writer[c] = "ended" => writer'[c] = "ended",
           queue' \in [Conn -> Nat], \A c \in Conn : queue'[c] <= queue[c]
    PROVE  IInv'
<1>1. TypeOK' /\ SumInv'
    BY SameDoors DEF IInv, TypeOK, doors, owed
<1>2. PermitInv'
    BY DEF IInv, PermitInv
<1>3. LineInv'
    <2>1. \A c \in Conn : queue'[c] <= QueueCap
        BY CapAssumption DEF IInv, LineInv, TypeOK
    <2> QED BY <2>1 DEF IInv, LineInv
<1>4. GapInv'
    BY DEF IInv, GapInv, doors, owed, Pending
<1> QED BY <1>1, <1>2, <1>3, <1>4 DEF IInv

\* Writers take messages and end.
LEMMA WriterTaskInv ==
    ASSUME IInv, NEW c \in Conn, WriterTakes(c) \/ SocketTakes(c) \/ SocketFails(c) \/ WriterEnds(c)
    PROVE  IInv'
<1>1. UNCHANGED <<conn, hub, permits, doors, owed>>
    BY DEF WriterTakes, SocketTakes, SocketFails, WriterEnds
<1>2. /\ writer' \in [Conn -> Writers]
      /\ \A d \in Conn : writer[d] = "ended" => writer'[d] = "ended"
    BY DEF IInv, TypeOK, Writers, WriterTakes, SocketTakes, SocketFails, WriterEnds
<1>3. queue' \in [Conn -> Nat] /\ \A d \in Conn : queue'[d] <= queue[d]
    <2>0. queue \in [Conn -> Nat]
        BY DEF IInv, TypeOK
    <2>1. CASE WriterTakes(c)
        BY <2>0, <2>1 DEF WriterTakes
    <2>2. CASE SocketFails(c)
        BY <2>0, <2>2 DEF SocketFails
    <2>3. CASE SocketTakes(c) \/ WriterEnds(c)
        BY <2>0, <2>3 DEF SocketTakes, WriterEnds
    <2> QED BY <2>1, <2>2, <2>3
<1> QED BY <1>1, <1>2, <1>3, WriterInv

\* A shutdown has the writers that wait send their last frame.
LEMMA ShutdownInv ==
    ASSUME IInv, Shutdown
    PROVE  IInv'
<1>1. UNCHANGED <<conn, hub, permits, doors, owed>>
    BY DEF Shutdown
<1>2. /\ writer' \in [Conn -> Writers]
      /\ \A d \in Conn : writer[d] = "ended" => writer'[d] = "ended"
    BY DEF IInv, TypeOK, Writers, Shutdown
<1>3. queue' \in [Conn -> Nat] /\ \A d \in Conn : queue'[d] <= queue[d]
    BY DEF Shutdown, IInv, TypeOK
<1> QED BY <1>1, <1>2, <1>3, WriterInv

----------------------------------------------------------------------------
(* Connections.                                                            *)

\* A connection takes a permit.
LEMMA ConnectInv ==
    ASSUME IInv, NEW c \in Conn, Connect(c)
    PROVE  IInv'
<1>0. PICK d \in Handler : d = conn[c]
    BY DEF IInv, TypeOK
<1> DEFINE e == [d EXCEPT !.pc = "up"]
<1>1. e \in Handler /\ e.pc = "up" /\ e.authed = d.authed /\ e.job = d.job
    BY DEF Handler
<1>2. conn' = [conn EXCEPT ![c] = e] /\ d.pc = "closed"
    BY <1>0 DEF Connect, IInv, TypeOK
<1> HIDE DEF e
<1>3. /\ conn' \in [Conn -> Handler] /\ conn'[c] = e /\ \A b \in Conn : b # c => conn'[b] = conn[b]
      /\ writer' \in [Conn -> Writers] /\ \A b \in Conn : b # c => writer'[b] = writer[b]
      /\ queue' \in [Conn -> Nat] /\ queue'[c] = 1 /\ \A b \in Conn : b # c => queue'[b] = queue[b]
      /\ UNCHANGED <<hub, doors, owed>> /\ permits' = permits - 1 /\ permits > 0
    BY <1>1, <1>2 DEF Connect, IInv, TypeOK, Writers
<1>4. hub[c] = None /\ d.job = None
    BY <1>0, <1>2 DEF IInv, LineInv
<1>5. TypeOK' /\ SumInv'
    BY <1>3, SameDoors DEF IInv, TypeOK, doors, owed
<1>6. PermitInv'
    <2> DEFINE K == {b \in Conn : conn[b].pc # "closed"}
    <2> DEFINE L == {b \in Conn : conn'[b].pc # "closed"}
    <2>1. L = K \cup {c} /\ c \notin K
        BY <1>0, <1>1, <1>2, <1>3
    <2>2. IsFiniteSet(K) /\ permits + Cardinality(K) = MaxConns
        BY DEF IInv, PermitInv
    <2> HIDE DEF K, L
    <2>3. IsFiniteSet(L) /\ Cardinality(L) = Cardinality(K) + 1 /\ Cardinality(K) \in Nat
        BY <2>1, <2>2, FS_AddElement, FS_CardinalityType
    <2>4. permits' + Cardinality(L) = MaxConns
        BY <1>3, <2>2, <2>3 DEF IInv, TypeOK
    <2> QED BY <2>3, <2>4 DEF PermitInv, L
<1>7. LineInv'
    BY <1>1, <1>3, <1>4, CapAssumption DEF IInv, LineInv
<1>8. GapInv'
    BY <1>1, <1>3, <1>4 DEF IInv, GapInv, doors, owed, Pending
<1> QED BY <1>5, <1>6, <1>7, <1>8 DEF IInv

\* One handler goes on, within the connection's life.
HandlerMoves(c, d) ==
    /\ d \in Handler /\ conn' \in [Conn -> Handler] /\ conn'[c] = d
    /\ \A b \in Conn : b # c => conn'[b] = conn[b]

\* A connection of which the hub knows nothing, or nothing any more.
LEMMA QuietInv ==
    ASSUME IInv, NEW c \in Conn, NEW d, HandlerMoves(c, d),
           UNCHANGED <<writer, doors, permits>>, conn[c].pc # "closed", d.pc # "closed", d.job = None,
           hub' \in [Conn -> [SubName -> Entry \cup {None}] \cup {None}],
           hub'[c] = None, \A b \in Conn : b # c => hub'[b] = hub[b],
           queue' \in [Conn -> Nat], \A b \in Conn : queue'[b] <= QueueCap,
           got' \in [Conn -> [SubName -> SUBSET Seen]], lost' \in [Conn -> [SubName -> SUBSET Seen]],
           cut' \in [Conn -> [SubName -> SUBSET Seen]],
           \A b \in Conn : b # c => got'[b] = got[b] /\ lost'[b] = lost[b] /\ cut'[b] = cut[b]
    PROVE  IInv'
<1>1. TypeOK' /\ SumInv'
    BY SameDoors DEF IInv, TypeOK, HandlerMoves, doors
<1>2. PermitInv'
    <2>1. \A b \in Conn : conn'[b].pc # "closed" <=> conn[b].pc # "closed"
        BY DEF HandlerMoves
    <2> QED BY <2>1, SamePermits DEF IInv
<1>3. LineInv'
    <2> SUFFICES ASSUME NEW b \in Conn
                 PROVE  /\ hub'[b] # None => conn'[b].pc = "up" /\ conn'[b].authed
                        /\ conn'[b].pc = "closed" => writer'[b] = "ended"
                        /\ conn'[b].job # None => conn'[b].pc = "up"
                        /\ \A s \in SubName : hub'[b] # None /\ hub'[b][s] # None => hub'[b][s].strikes < Grace
                        /\ queue'[b] <= QueueCap
        BY DEF LineInv
    <2>1. CASE b = c
        BY <2>1 DEF HandlerMoves
    <2>2. CASE b # c
        <3>1. conn'[b] = conn[b] /\ hub'[b] = hub[b] /\ writer' = writer /\ queue'[b] <= QueueCap
            BY <2>2 DEF HandlerMoves
        <3> QED BY <3>1 DEF IInv, LineInv
    <2> QED BY <2>1, <2>2
<1>4. GapInv'
    <2> SUFFICES ASSUME NEW b \in Conn, NEW s \in SubName,
                        hub'[b] # None, hub'[b][s] # None, writer'[b] # "ended",
                        NEW e \in hub'[b][s].match \cap store', pub'[e] = "sent"
                 PROVE  \/ e \in got'[b][s] \/ e \in lost'[b][s] \/ e \in cut'[b][s]
                        \/ Pending(conn'[b].job, s, e)
        BY DEF GapInv
    <2>1. /\ b # c /\ hub'[b] = hub[b] /\ writer'[b] = writer[b] /\ got'[b] = got[b]
          /\ lost'[b] = lost[b] /\ cut'[b] = cut[b] /\ conn'[b] = conn[b] /\ store' = store /\ pub' = pub
        BY DEF HandlerMoves, doors
    <2> QED BY <2>1 DEF IInv, GapInv
<1> QED BY <1>1, <1>2, <1>3, <1>4 DEF IInv

\* Authentication, before which there are no subscriptions.
LEMMA AuthInv ==
    ASSUME IInv, NEW c \in Conn, Auth(c)
    PROVE  IInv'
<1>0. PICK d \in Handler : d = conn[c] /\ d.pc = "up" /\ d.job = None
    BY DEF IInv, TypeOK, Auth, Idle
<1>1. PICK b \in BOOLEAN : conn' = [conn EXCEPT ![c].authed = b]
    BY DEF Auth
<1> DEFINE e == [d EXCEPT !.authed = b]
<1>2. e \in Handler /\ e.pc = "up" /\ e.job = None
    BY <1>0 DEF Handler
<1>3. conn' = [conn EXCEPT ![c] = e]
    BY <1>0, <1>1 DEF IInv, TypeOK
<1> HIDE DEF e
<1>4. HandlerMoves(c, e)
    BY <1>2, <1>3 DEF IInv, TypeOK, HandlerMoves
<1>5. queue' \in [Conn -> Nat] /\ \A a \in Conn : queue'[a] <= QueueCap
    BY SendEffect DEF IInv, Auth
<1>6. hub[c] = None
    BY DEF IInv, LineInv, Auth
<1>7. UNCHANGED <<writer, doors, permits, hub, got, lost, cut>>
    BY DEF Auth, owed
<1> QED BY <1>0, <1>2, <1>4, <1>5, <1>6, <1>7, QuietInv DEF IInv, TypeOK

\* A connection that leaves is taken out of the hub.
LEMMA LeaveInv ==
    ASSUME IInv, NEW c \in Conn, Leave(c)
    PROVE  IInv'
<1>0. PICK d \in Handler : d = conn[c] /\ d.pc = "up" /\ d.job = None
    BY DEF IInv, TypeOK, Leave, Idle
<1> DEFINE e == [d EXCEPT !.pc = "closing"]
<1>2. e \in Handler /\ e.pc = "closing" /\ e.job = None
    BY <1>0 DEF Handler
<1>3. conn' = [conn EXCEPT ![c] = e]
    BY <1>0 DEF Leave, IInv, TypeOK
<1> HIDE DEF e
<1>4. HandlerMoves(c, e)
    BY <1>2, <1>3 DEF IInv, TypeOK, HandlerMoves
<1>5. UNCHANGED <<writer, doors, permits, queue>>
    BY DEF Leave
<1>6. /\ hub' \in [Conn -> [SubName -> Entry \cup {None}] \cup {None}]
      /\ hub'[c] = None /\ \A b \in Conn : b # c => hub'[b] = hub[b]
    BY DEF Leave, IInv, TypeOK
<1>7. /\ got' \in [Conn -> [SubName -> SUBSET Seen]] /\ lost' \in [Conn -> [SubName -> SUBSET Seen]]
      /\ cut' \in [Conn -> [SubName -> SUBSET Seen]]
      /\ \A b \in Conn : b # c => got'[b] = got[b] /\ lost'[b] = lost[b] /\ cut'[b] = cut[b]
    BY DEF Leave, IInv, TypeOK, Nothing
<1>8. queue' \in [Conn -> Nat] /\ \A b \in Conn : queue'[b] <= QueueCap
    BY <1>5 DEF IInv, TypeOK, LineInv
<1> QED BY <1>0, <1>2, <1>4, <1>5, <1>6, <1>7, <1>8, QuietInv

\* Its permit goes back when its writer has ended.
LEMMA GoneInv ==
    ASSUME IInv, NEW c \in Conn, Gone(c)
    PROVE  IInv'
<1> DEFINE e == Closed
<1>1. e \in Handler /\ e.pc = "closed" /\ e.job = None
    BY DEF Closed, Handler
<1>0. conn' = [conn EXCEPT ![c] = e]
    BY DEF Gone
<1> HIDE DEF e
<1>2. /\ conn' \in [Conn -> Handler] /\ conn'[c] = e /\ \A b \in Conn : b # c => conn'[b] = conn[b]
      /\ permits' = permits + 1 /\ UNCHANGED <<writer, queue, hub, doors, owed>>
      /\ conn[c].pc = "closing" /\ writer[c] = "ended"
    BY <1>0, <1>1 DEF Gone, IInv, TypeOK
<1>3. hub[c] = None
    BY <1>2 DEF IInv, LineInv
<1>4. TypeOK' /\ SumInv'
    BY <1>2, SameDoors DEF IInv, TypeOK, doors, owed
<1>5. PermitInv'
    <2> DEFINE K == {b \in Conn : conn[b].pc # "closed"}
    <2> DEFINE L == {b \in Conn : conn'[b].pc # "closed"}
    <2>1. L = K \ {c} /\ c \in K
        BY <1>1, <1>2
    <2>2. IsFiniteSet(K) /\ permits + Cardinality(K) = MaxConns
        BY DEF IInv, PermitInv
    <2> HIDE DEF K, L
    <2>3. IsFiniteSet(L) /\ Cardinality(L) = Cardinality(K) - 1 /\ Cardinality(K) \in Nat
        BY <2>1, <2>2, FS_RemoveElement, FS_CardinalityType
    <2>4. permits' + Cardinality(L) = MaxConns
        BY <1>2, <2>2, <2>3 DEF IInv, TypeOK
    <2> QED BY <2>3, <2>4 DEF PermitInv, L
<1>6. LineInv'
    BY <1>1, <1>2, <1>3 DEF IInv, LineInv
<1>7. GapInv'
    BY <1>1, <1>2, <1>3 DEF IInv, GapInv, doors, owed, Pending
<1> QED BY <1>4, <1>5, <1>6, <1>7 DEF IInv

----------------------------------------------------------------------------
(* Subscriptions.                                                          *)

\* One handler answers its client and does nothing else.
LEMMA AnswerInv ==
    ASSUME IInv, NEW c \in Conn, UNCHANGED <<conn, writer, hub, permits, doors, owed>>,
           CanSend(c), Send(c)
    PROVE  IInv'
<1>1. queue' \in [Conn -> Nat] /\ \A d \in Conn : queue'[d] <= QueueCap
    BY SendEffect DEF IInv
<1>2. TypeOK' /\ SumInv'
    BY <1>1, SameDoors DEF IInv, TypeOK, doors, owed
<1>3. PermitInv' /\ LineInv'
    BY <1>1 DEF IInv, PermitInv, LineInv
<1>4. GapInv'
    BY DEF IInv, GapInv, doors, owed, Pending
<1> QED BY <1>2, <1>3, <1>4 DEF IInv

\* A REQ is live before its first query.
LEMMA ReqInv ==
    ASSUME IInv, NEW c \in Conn, NEW s \in SubName, NEW L \in Lists, Req(c, s, L)
    PROVE  IInv'
<1>0. PICK d \in Handler : d = conn[c] /\ d.pc = "up" /\ d.job = None
    BY DEF IInv, TypeOK, Req, Idle
<1>1. CASE UNCHANGED <<conn, hub, owed>> /\ CanSend(c) /\ Send(c)
    BY <1>1, AnswerInv DEF Req
<1> DEFINE M == UNION {f.match : f \in L}
<1>m. M \subseteq Seen /\ L \subseteq Filter
    BY FilterAssumption DEF Seen
<1>2. CASE /\ conn[c].authed
           /\ hub' = [hub EXCEPT ![c] = [Subs(c) EXCEPT ![s] = [match |-> M, strikes |-> 0]]]
           /\ conn' = [conn EXCEPT ![c].job = [op |-> "req", sub |-> s, todo |-> L, left |-> {}]]
           /\ got' = [got EXCEPT ![c][s] = {}] /\ lost' = [lost EXCEPT ![c][s] = {}]
           /\ cut' = [cut EXCEPT ![c][s] = {}]
           /\ UNCHANGED queue
    <2> DEFINE j == [op |-> "req", sub |-> s, todo |-> L, left |-> {}]
    <2>1. j \in Job /\ j.op = "req" /\ j.sub = s /\ j.todo = L /\ j # None
        BY <1>m, NoneAssumption DEF Job
    <2>a. \A x \in M : \E f \in j.todo : x \in f.match
        BY <2>1
    <2> HIDE DEF M
    <2> DEFINE e == [d EXCEPT !.job = j]
    <2>2. conn' = [conn EXCEPT ![c] = e]
        BY <1>0, <1>2 DEF IInv, TypeOK
    <2> HIDE DEF j
    <2>3. e \in Handler /\ e.pc = "up" /\ e.authed = d.authed /\ e.job = j
        BY <1>0, <2>1 DEF Handler
    <2> HIDE DEF e
    <2>4. /\ conn' \in [Conn -> Handler] /\ conn'[c] = e /\ \A b \in Conn : b # c => conn'[b] = conn[b]
        BY <2>2, <2>3 DEF IInv, TypeOK
    <2> DEFINE n == [match |-> M, strikes |-> 0]
    <2>5. n \in Entry /\ n.match = M /\ n.strikes = 0
        BY <1>m DEF Entry
    <2>6. hub' = [hub EXCEPT ![c] = [Subs(c) EXCEPT ![s] = n]]
        BY <1>2
    <2> HIDE DEF n
    <2>7. Subs(c) \in [SubName -> Entry \cup {None}] /\ \A t \in SubName : Subs(c)[t] # None => hub[c] # None /\ Subs(c)[t] = hub[c][t]
        BY DEF IInv, TypeOK, Subs, NoSubs
    <2>8. /\ hub' \in [Conn -> [SubName -> Entry \cup {None}] \cup {None}]
          /\ \A b \in Conn : b # c => hub'[b] = hub[b]
          /\ hub'[c][s] = n
          /\ \A t \in SubName : t # s /\ hub'[c][t] # None => hub[c] # None /\ hub[c][t] # None /\ hub'[c][t] = hub[c][t]
        <3>1. hub'[c] = [Subs(c) EXCEPT ![s] = n]
            BY <2>6 DEF IInv, TypeOK
        <3>2. hub'[c] \in [SubName -> Entry \cup {None}] /\ hub'[c][s] = n
            BY <2>5, <2>7, <3>1
        <3>3. \A t \in SubName : t # s => hub'[c][t] = Subs(c)[t]
            BY <2>7, <3>1
        <3>4. \A b \in Conn : b # c => hub'[b] = hub[b]
            BY <2>6 DEF IInv, TypeOK
        <3>5. hub' \in [Conn -> [SubName -> Entry \cup {None}] \cup {None}]
            BY <2>6, <3>1, <3>2 DEF IInv, TypeOK
        <3> QED BY <2>7, <3>2, <3>3, <3>4, <3>5
    <2>9. /\ got' \in [Conn -> [SubName -> SUBSET Seen]] /\ lost' \in [Conn -> [SubName -> SUBSET Seen]]
          /\ cut' \in [Conn -> [SubName -> SUBSET Seen]]
          /\ \A b \in Conn, t \in SubName : b # c \/ t # s =>
                 got'[b][t] = got[b][t] /\ lost'[b][t] = lost[b][t] /\ cut'[b][t] = cut[b][t]
        BY <1>2 DEF IInv, TypeOK
    <2>10. UNCHANGED <<writer, permits, doors, queue>>
        BY <1>2 DEF Req
    <2>11. TypeOK' /\ SumInv'
        BY <2>4, <2>8, <2>9, <2>10, SameDoors DEF IInv, TypeOK, doors
    <2>12. PermitInv'
        BY <1>0, <2>3, <2>4, <2>10, SamePermits DEF IInv
    <2>13. LineInv'
        BY <1>0, <1>2, <2>3, <2>4, <2>5, <2>8, <2>10, CapAssumption DEF IInv, LineInv
    <2>15. GapInv'
        <3> SUFFICES ASSUME NEW b \in Conn, NEW t \in SubName,
                            hub'[b] # None, hub'[b][t] # None, writer'[b] # "ended",
                            NEW x \in hub'[b][t].match \cap store', pub'[x] = "sent"
                     PROVE  \/ x \in got'[b][t] \/ x \in lost'[b][t] \/ x \in cut'[b][t]
                            \/ Pending(conn'[b].job, t, x)
            BY DEF GapInv
        <3>1. CASE b = c /\ t = s
            <4>1. x \in M /\ conn'[c].job = j
                BY <2>3, <2>4, <2>5, <2>8, <3>1
            <4> QED BY <2>1, <2>a, <3>1, <4>1 DEF Pending
        <3>2. CASE ~(b = c /\ t = s)
            <4>1. /\ hub[b] # None /\ hub[b][t] # None /\ hub'[b][t] = hub[b][t] /\ writer'[b] = writer[b]
                  /\ store' = store /\ pub' = pub /\ got'[b][t] = got[b][t] /\ lost'[b][t] = lost[b][t]
                  /\ cut'[b][t] = cut[b][t]
                BY <2>8, <2>9, <2>10, <3>2 DEF doors
            <4>2. x \in got[b][t] \/ x \in lost[b][t] \/ x \in cut[b][t] \/ Pending(conn[b].job, t, x)
                BY <4>1 DEF IInv, GapInv
            <4>3. b = c => ~Pending(conn[b].job, t, x)
                BY <1>0 DEF Pending
            <4> QED BY <2>4, <4>1, <4>2, <4>3
        <3> QED BY <3>1, <3>2
    <2> QED BY <2>11, <2>12, <2>13, <2>15 DEF IInv
<1> QED BY <1>1, <1>2 DEF Req

\* A handler goes on with its REQ: what it no longer has to send was sent, or left
\* out by a query.
LEMMA JobStepInv ==
    ASSUME IInv, NEW c \in Conn, NEW d, HandlerMoves(c, d), d.authed = conn[c].authed,
           conn[c].pc = "up", d.pc = "up", UNCHANGED <<writer, hub, permits, doors, lost>>,
           queue' \in [Conn -> Nat], \A b \in Conn : queue'[b] <= QueueCap,
           got' \in [Conn -> [SubName -> SUBSET Seen]], cut' \in [Conn -> [SubName -> SUBSET Seen]],
           \A b \in Conn, s \in SubName : got[b][s] \subseteq got'[b][s] /\ cut[b][s] \subseteq cut'[b][s],
           \A s \in SubName, e \in store : Pending(conn[c].job, s, e) =>
               e \in got'[c][s] \/ e \in cut'[c][s] \/ Pending(d.job, s, e)
    PROVE  IInv'
<1>1. TypeOK' /\ SumInv'
    BY SameDoors DEF IInv, TypeOK, HandlerMoves, doors
<1>2. PermitInv'
    <2>1. \A b \in Conn : conn'[b].pc # "closed" <=> conn[b].pc # "closed"
        BY DEF HandlerMoves
    <2> QED BY <2>1, SamePermits DEF IInv
<1>3. LineInv'
    BY DEF IInv, LineInv, HandlerMoves
<1>4. GapInv'
    <2> SUFFICES ASSUME NEW b \in Conn, NEW s \in SubName,
                        hub[b] # None, hub[b][s] # None, writer[b] # "ended",
                        NEW e \in hub[b][s].match \cap store, pub[e] = "sent"
                 PROVE  \/ e \in got'[b][s] \/ e \in lost[b][s] \/ e \in cut'[b][s]
                        \/ Pending(conn'[b].job, s, e)
        BY DEF GapInv, doors
    <2>1. e \in got[b][s] \/ e \in lost[b][s] \/ e \in cut[b][s] \/ Pending(conn[b].job, s, e)
        BY DEF IInv, GapInv
    <2>2. CASE b = c
        BY <2>1, <2>2 DEF HandlerMoves
    <2>3. CASE b # c
        BY <2>1, <2>3 DEF HandlerMoves
    <2> QED BY <2>2, <2>3
<1> QED BY <1>1, <1>2, <1>3, <1>4 DEF IInv

\* A record of events per subscription that grows at one of them.
GrowsBy(g, h, c, s, X) == h = [g EXCEPT ![c][s] = @ \cup X]

LEMMA Grows ==
    ASSUME NEW g \in [Conn -> [SubName -> SUBSET Seen]], NEW c \in Conn, NEW s, NEW X \in SUBSET Seen,
           NEW h, GrowsBy(g, h, c, s, X)
    PROVE  /\ h \in [Conn -> [SubName -> SUBSET Seen]]
           /\ \A b \in Conn, t \in SubName : g[b][t] \subseteq h[b][t]
           /\ s \in SubName => X \subseteq h[c][s]
<1>1. PICK k \in [SubName -> SUBSET Seen] : k = g[c]
    OBVIOUS
<1>2. PICK i : i = [k EXCEPT ![s] = @ \cup X]
    OBVIOUS
<1>3. /\ i \in [SubName -> SUBSET Seen] /\ \A t \in SubName : k[t] \subseteq i[t]
      /\ s \in SubName => X \subseteq i[s]
    BY <1>2
<1>4. h = [g EXCEPT ![c] = i]
    BY <1>1, <1>2 DEF GrowsBy
<1>5. h \in [Conn -> [SubName -> SUBSET Seen]] /\ h[c] = i
    BY <1>3, <1>4
<1>6. \A b \in Conn : b # c => h[b] = g[b]
    BY <1>4
<1> QED BY <1>1, <1>3, <1>5, <1>6

\* Of the events a query finds, those it does not answer with are cut.
LEMMA QueryInv ==
    ASSUME IInv, NEW c \in Conn, Query(c)
    PROVE  IInv'
<1>0. PICK d \in Handler : d = conn[c]
    BY DEF IInv, TypeOK
<1>1. PICK j \in Job : j = d.job /\ j.op = "req" /\ j # None /\ j.left = {}
    BY <1>0 DEF Query, InReq, Handler
<1>2. d.pc = "up"
    BY <1>0, <1>1 DEF IInv, LineInv
<1>a. PICK f \in j.todo : \E page \in SUBSET (store \cap f.match) :
          /\ conn' = [conn EXCEPT ![c].job = [j EXCEPT !.todo = @ \ {f}, !.left = page]]
          /\ cut' = [cut EXCEPT ![c][j.sub] = @ \cup ((store \cap f.match) \ page)]
    <2>1. \E f \in conn[c].job.todo : \E page \in SUBSET (store \cap f.match) :
              /\ conn' = [conn EXCEPT ![c].job = [conn[c].job EXCEPT !.todo = @ \ {f}, !.left = page]]
              /\ cut' = [cut EXCEPT ![c][conn[c].job.sub] = @ \cup ((store \cap f.match) \ page)]
        BY Zenon DEF Query
    <2>2. conn[c].job = j
        BY <1>0, <1>1
    <2> QED BY <2>1, <2>2, Zenon
<1>3. PICK page \in SUBSET (store \cap f.match) :
          /\ conn' = [conn EXCEPT ![c].job = [j EXCEPT !.todo = @ \ {f}, !.left = page]]
          /\ cut' = [cut EXCEPT ![c][j.sub] = @ \cup ((store \cap f.match) \ page)]
    BY <1>a, Zenon
<1> DEFINE k == [j EXCEPT !.todo = @ \ {f}, !.left = page]
<1>4. k \in Job /\ k.op = "req" /\ k.sub = j.sub /\ k.todo = j.todo \ {f} /\ k.left = page /\ k # None
    <2>1. page \in SUBSET Event
        BY DEF IInv, TypeOK
    <2>2. PICK T \in SUBSET Filter : T = j.todo \ {f}
        BY DEF Job
    <2>3. k = [j EXCEPT !.todo = T, !.left = page]
        BY <2>2
    <2>4. [j EXCEPT !.todo = T, !.left = page] \in Job
        BY <2>1 DEF Job
    <2>5. k.op = j.op /\ k.sub = j.sub /\ k.todo = T /\ k.left = page
        BY <2>3 DEF Job
    <2> QED BY <1>1, <2>2, <2>3, <2>4, <2>5, NoneAssumption
<1> DEFINE e == [d EXCEPT !.job = k]
<1>5. conn' = [conn EXCEPT ![c] = e]
    BY <1>0, <1>3 DEF IInv, TypeOK
<1> HIDE DEF k
<1>6. e \in Handler /\ e.pc = d.pc /\ e.authed = d.authed /\ e.job = k
    BY <1>4 DEF Handler
<1> HIDE DEF e
<1>7. HandlerMoves(c, e)
    BY <1>5, <1>6 DEF IInv, TypeOK, HandlerMoves
<1>8. UNCHANGED <<writer, hub, permits, doors, lost>> /\ UNCHANGED <<queue, got>>
    BY DEF Query
<1>9. queue' \in [Conn -> Nat] /\ \A b \in Conn : queue'[b] <= QueueCap
    BY <1>8 DEF IInv, TypeOK, LineInv
<1> DEFINE X == (store \cap f.match) \ page
<1>10. X \in SUBSET Seen
    BY DEF Seen, IInv, TypeOK
<1>11. \A x \in store \cap f.match : x \in page \/ x \in X
    OBVIOUS
<1>12. cut \in [Conn -> [SubName -> SUBSET Seen]] /\ GrowsBy(cut, cut', c, j.sub, X)
    BY <1>3 DEF IInv, TypeOK, GrowsBy
<1> HIDE DEF X
<1>13. /\ cut' \in [Conn -> [SubName -> SUBSET Seen]]
       /\ \A b \in Conn, t \in SubName : cut[b][t] \subseteq cut'[b][t]
       /\ j.sub \in SubName => X \subseteq cut'[c][j.sub]
    BY <1>10, <1>12, Grows, Zenon
<1>14. /\ got' \in [Conn -> [SubName -> SUBSET Seen]]
       /\ \A b \in Conn, s \in SubName : got[b][s] \subseteq got'[b][s] /\ cut[b][s] \subseteq cut'[b][s]
    BY <1>8, <1>13 DEF IInv, TypeOK
<1>15. \A s \in SubName, x \in store : Pending(conn[c].job, s, x) =>
          x \in got'[c][s] \/ x \in cut'[c][s] \/ Pending(e.job, s, x)
    <2> SUFFICES ASSUME NEW s \in SubName, NEW x \in store, Pending(j, s, x)
                 PROVE  x \in cut'[c][s] \/ Pending(k, s, x)
        BY <1>0, <1>1, <1>6
    <2>1. s = j.sub
        BY DEF Pending
    <2>2. PICK g \in j.todo : x \in g.match
        BY <1>1 DEF Pending
    <2>3. CASE g = f
        BY <1>1, <1>4, <1>11, <1>13, <2>1, <2>2, <2>3 DEF Pending
    <2>4. CASE g # f
        BY <1>4, <2>1, <2>2, <2>4 DEF Pending
    <2> QED BY <2>3, <2>4
<1>16. e.authed = conn[c].authed /\ conn[c].pc = "up" /\ e.pc = "up"
    BY <1>0, <1>2, <1>6
<1>17. UNCHANGED <<writer, hub, permits, doors, lost>>
    BY <1>8
<1> HIDE DEF IInv, HandlerMoves, Pending
<1> QED BY ONLY IInv, <1>7, <1>9, <1>13, <1>14, <1>15, <1>16, <1>17, JobStepInv, ZenonT(30)

\* An event that was read is sent.
LEMMA BackfillInv ==
    ASSUME IInv, NEW c \in Conn, Backfill(c)
    PROVE  IInv'
<1>0. PICK d \in Handler : d = conn[c]
    BY DEF IInv, TypeOK
<1>1. PICK j \in Job : j = d.job /\ j.op = "req" /\ j # None
    BY <1>0 DEF Backfill, InReq, Handler
<1>2. d.pc = "up"
    BY <1>0, <1>1 DEF IInv, LineInv
<1>3. UNCHANGED <<writer, hub, permits, doors, lost>> /\ cut' = cut /\ CanSend(c) /\ Send(c)
    BY DEF Backfill
<1>4. queue' \in [Conn -> Nat] /\ \A b \in Conn : queue'[b] <= QueueCap
    BY <1>3, SendEffect DEF IInv
<1>5. PICK x \in j.left : /\ conn' = [conn EXCEPT ![c].job = [j EXCEPT !.left = @ \ {x}]]
                          /\ got' = [got EXCEPT ![c][j.sub] = @ \cup {x}]
    BY <1>0, <1>1 DEF Backfill
<1> DEFINE k == [j EXCEPT !.left = @ \ {x}]
<1>6. /\ k \in Job /\ k.op = "req" /\ k.sub = j.sub /\ k.todo = j.todo /\ k.left = j.left \ {x}
      /\ k # None /\ {x} \in SUBSET Seen
    BY <1>1, NoneAssumption DEF Job, Seen
<1> DEFINE e == [d EXCEPT !.job = k]
<1>7. conn' = [conn EXCEPT ![c] = e]
    BY <1>0, <1>5 DEF IInv, TypeOK
<1> HIDE DEF k
<1>8. e \in Handler /\ e.pc = d.pc /\ e.authed = d.authed /\ e.job = k
    BY <1>6 DEF Handler
<1> HIDE DEF e
<1>9. HandlerMoves(c, e)
    BY <1>7, <1>8 DEF IInv, TypeOK, HandlerMoves
<1> DEFINE X == {x}
<1>10. got \in [Conn -> [SubName -> SUBSET Seen]] /\ GrowsBy(got, got', c, j.sub, X) /\ X \in SUBSET Seen
    BY <1>5, <1>6 DEF IInv, TypeOK, GrowsBy
<1>x. x \in X
    OBVIOUS
<1> HIDE DEF X
<1>11. /\ got' \in [Conn -> [SubName -> SUBSET Seen]]
       /\ \A b \in Conn, t \in SubName : got[b][t] \subseteq got'[b][t]
       /\ j.sub \in SubName => X \subseteq got'[c][j.sub]
    BY <1>10, Grows, Zenon
<1>12. /\ cut' \in [Conn -> [SubName -> SUBSET Seen]]
       /\ \A b \in Conn, s \in SubName : got[b][s] \subseteq got'[b][s] /\ cut[b][s] \subseteq cut'[b][s]
    BY <1>3, <1>11 DEF IInv, TypeOK
<1>13. \A s \in SubName, y \in store : Pending(conn[c].job, s, y) =>
          y \in got'[c][s] \/ y \in cut'[c][s] \/ Pending(e.job, s, y)
    <2>1. \A s \in SubName, y \in store : Pending(j, s, y) => y \in got'[c][s] \/ Pending(k, s, y)
        BY <1>6, <1>11, <1>x DEF Pending
    <2> QED BY <1>0, <1>1, <1>8, <2>1
<1>14. e.authed = conn[c].authed /\ conn[c].pc = "up" /\ e.pc = "up"
    BY <1>0, <1>2, <1>8
<1>15. UNCHANGED <<writer, hub, permits, doors, lost>>
    BY <1>3
<1> HIDE DEF IInv, HandlerMoves, Pending
<1> QED BY ONLY IInv, <1>4, <1>9, <1>11, <1>12, <1>13, <1>14, <1>15, JobStepInv, ZenonT(30)

\* The EOSE of a REQ that has nothing left, or the OK of an EVENT.
LEMMA AnsweredInv ==
    ASSUME IInv, NEW c \in Conn, conn[c].job # None,
           \A s \in SubName, x \in store : ~Pending(conn[c].job, s, x),
           conn' = [conn EXCEPT ![c].job = None], CanSend(c), Send(c),
           UNCHANGED <<writer, hub, permits, doors, owed>>
    PROVE  IInv'
<1>0. PICK d \in Handler : d = conn[c]
    BY DEF IInv, TypeOK
<1>1. d.pc = "up"
    BY <1>0 DEF IInv, LineInv
<1>2. queue' \in [Conn -> Nat] /\ \A b \in Conn : queue'[b] <= QueueCap
    BY SendEffect DEF IInv
<1> DEFINE e == [d EXCEPT !.job = None]
<1>3. e \in Handler /\ e.pc = d.pc /\ e.authed = d.authed /\ e.job = None
    BY DEF Handler
<1>4. conn' = [conn EXCEPT ![c] = e]
    BY <1>0 DEF IInv, TypeOK
<1> HIDE DEF e
<1>5. HandlerMoves(c, e)
    BY <1>3, <1>4 DEF IInv, TypeOK, HandlerMoves
<1>6. /\ got' \in [Conn -> [SubName -> SUBSET Seen]] /\ cut' \in [Conn -> [SubName -> SUBSET Seen]]
      /\ \A b \in Conn, s \in SubName : got[b][s] \subseteq got'[b][s] /\ cut[b][s] \subseteq cut'[b][s]
      /\ UNCHANGED <<writer, hub, permits, doors, lost>>
    BY DEF IInv, TypeOK, owed
<1> QED BY <1>0, <1>1, <1>2, <1>3, <1>5, <1>6, JobStepInv

LEMMA EoseInv ==
    ASSUME IInv, NEW c \in Conn, Eose(c)
    PROVE  IInv'
<1>1. \A s \in SubName, x \in store : ~Pending(conn[c].job, s, x)
    BY DEF Eose, Pending
<1> QED BY <1>1, AnsweredInv DEF Eose, InReq

LEMMA OkInv ==
    ASSUME IInv, NEW c \in Conn, Ok(c)
    PROVE  IInv'
<1>1. \A s \in SubName, x \in store : ~Pending(conn[c].job, s, x)
    BY DEF Ok, Pending
<1> QED BY <1>1, AnsweredInv DEF Ok

\* A subscription that is closed is owed nothing.
LEMMA CloseSubInv ==
    ASSUME IInv, NEW c \in Conn, NEW s \in SubName, CloseSub(c, s)
    PROVE  IInv'
<1>1. UNCHANGED <<conn, writer, queue, permits, doors, got, lost, cut>>
    BY DEF CloseSub, owed
<1>2. /\ hub' \in [Conn -> [SubName -> Entry \cup {None}] \cup {None}]
      /\ \A b \in Conn : hub'[b] # None => hub[b] # None
      /\ \A b \in Conn, t \in SubName :
             hub'[b] # None /\ hub'[b][t] # None => hub[b] # None /\ hub'[b][t] = hub[b][t]
    <2>1. PICK h \in [SubName -> Entry \cup {None}] : h = hub[c] /\ hub[c] # None
        BY DEF CloseSub, IInv, TypeOK
    <2>2. /\ hub'[c] = [h EXCEPT ![s] = None] /\ \A b \in Conn : b # c => hub'[b] = hub[b]
          /\ hub' = [hub EXCEPT ![c] = [h EXCEPT ![s] = None]]
        BY <2>1 DEF CloseSub, IInv, TypeOK
    <2>3. hub'[c] \in [SubName -> Entry \cup {None}] /\ \A t \in SubName : hub'[c][t] = h[t] \/ hub'[c][t] = None
        BY <2>2
    <2> QED BY <2>1, <2>2, <2>3 DEF IInv, TypeOK
<1>3. TypeOK' /\ SumInv'
    BY <1>1, <1>2, SameDoors DEF IInv, TypeOK, doors
<1>4. PermitInv'
    BY <1>1, <1>2 DEF IInv, PermitInv
<1>5. LineInv'
    BY <1>1, <1>2 DEF IInv, LineInv
<1>6. GapInv'
    BY <1>1, <1>2 DEF IInv, GapInv, doors, Pending
<1> QED BY <1>3, <1>4, <1>5, <1>6 DEF IInv

----------------------------------------------------------------------------
(* The doors.                                                              *)

\* An event that has just been stored is not fanned out yet.
LEMMA SubmitInv ==
    ASSUME IInv, NEW e \in Event, NEW c \in Conn \cup OtherDoor, Submit(e, c)
    PROVE  IInv'
<1>1. UNCHANGED <<writer, queue, hub, permits, overlay, summaries, down, got, lost, cut>>
    BY DEF Submit, owed
<1>2. /\ pub[e] = "new" /\ pub' \in [Event -> {"new", "accepted", "refused", "sent"}]
      /\ \A x \in Event : x # e => pub'[x] = pub[x]
      /\ store' \subseteq Event /\ store' \subseteq store \cup {e} /\ pub'[e] # "sent"
      /\ store' \ Ephemeral = store \ Ephemeral \/ (e \notin Ephemeral /\ pub'[e] = "accepted")
    BY DEF Submit, IInv, TypeOK
<1>3. /\ conn' \in [Conn -> Handler]
      /\ \A b \in Conn : \/ conn'[b] = conn[b]
                         \/ /\ conn[b].job = None /\ conn[b].pc = "up" /\ conn'[b].pc = "up"
                            /\ conn'[b].authed = conn[b].authed /\ conn'[b].job.op = "event"
    <2>1. CASE c \notin Conn
        BY <2>1 DEF Submit, IInv, TypeOK
    <2>2. CASE c \in Conn
        <3>1. PICK d \in Handler : d = conn[c] /\ c \in Conn /\ d.job = None /\ d.pc = "up"
            BY <2>2 DEF Submit, Idle, IInv, TypeOK
        <3> DEFINE j == [op |-> "event", sub |-> e, todo |-> {}, left |-> {}]
        <3>2. j \in Job /\ j.op = "event"
            BY DEF Job
        <3>3. conn' = [conn EXCEPT ![c].job = j]
            BY <2>2 DEF Submit
        <3> HIDE DEF j
        <3> DEFINE k == [d EXCEPT !.job = j]
        <3>4. k \in Handler /\ k.pc = "up" /\ k.authed = d.authed /\ k.job = j
            BY <3>1, <3>2 DEF Handler
        <3>5. conn' = [conn EXCEPT ![c] = k]
            BY <3>1, <3>3 DEF IInv, TypeOK
        <3> HIDE DEF k
        <3> QED BY <3>1, <3>2, <3>4, <3>5 DEF IInv, TypeOK
    <2> QED BY <2>1, <2>2
<1>4. TypeOK'
    BY <1>1, <1>2, <1>3 DEF IInv, TypeOK
<1>5. PermitInv'
    BY <1>1, <1>3, SamePermits DEF IInv
<1>6. LineInv'
    BY <1>1, <1>3 DEF IInv, LineInv
<1>8. GapInv'
    <2> SUFFICES ASSUME NEW b \in Conn, NEW s \in SubName,
                        hub[b] # None, hub[b][s] # None, writer[b] # "ended",
                        NEW x \in hub[b][s].match \cap store', pub'[x] = "sent"
                 PROVE  x \in got[b][s] \/ x \in lost[b][s] \/ x \in cut[b][s] \/ Pending(conn'[b].job, s, x)
        BY <1>1 DEF GapInv
    <2>1. x # e /\ x \in store /\ pub[x] = "sent"
        BY <1>2
    <2>2. x \in got[b][s] \/ x \in lost[b][s] \/ x \in cut[b][s] \/ Pending(conn[b].job, s, x)
        BY <2>1 DEF IInv, GapInv
    <2> QED BY <1>3, <2>2 DEF Pending
<1>9. SumInv'
    <2>1. CASE store' \ Ephemeral = store \ Ephemeral
        BY <1>1, <1>2, <2>1 DEF IInv, SumInv, TrueCount
    <2>2. CASE e \notin Ephemeral /\ pub'[e] = "accepted"
        BY <2>2 DEF SumInv
    <2> QED BY <1>2, <2>1, <2>2
<1> QED BY <1>4, <1>5, <1>6, <1>8, <1>9 DEF IInv

----------------------------------------------------------------------------
(* Hub::dispatch.                                                          *)

\* The strikes a subscription has after an event, and the connections that go.
Struck(took, e, c, s) == IF s \in took[c] THEN 0
                         ELSE IF s \in Matching(c, e) THEN Subs(c)[s].strikes + 1
                         ELSE Subs(c)[s].strikes
Slow(took, e, c) == \E s \in Matching(c, e) : writer[c] = "ended" \/ Struck(took, e, c, s) >= Grace

\* Only as many subscriptions take the event as there is room for.
LEMMA TakenFits ==
    ASSUME NEW c \in Conn, NEW S \in SUBSET SubName, NEW R \in Taken(c, S), queue[c] \in Nat,
           queue[c] <= QueueCap
    PROVE  R \subseteq S /\ Cardinality(R) \in Nat /\ queue[c] + Cardinality(R) <= QueueCap
<1>1. IsFiniteSet(S) /\ IsFiniteSet(R) /\ R \subseteq S
    BY FiniteAssumption, FS_Subset DEF Taken
<1>2. Cardinality(S) \in Nat /\ Cardinality(R) \in Nat
    BY <1>1, FS_CardinalityType
<1> DEFINE room == QueueCap - queue[c]
<1>3. room \in Nat
    BY CapAssumption
<1>4. Cardinality(R) = Min({Cardinality(S), room})
    BY DEF Taken
<1> DEFINE m == Cardinality(S)
<1> HIDE DEF room, m
<1>5. Cardinality(R) = Min({m, room}) /\ m \in Nat
    BY <1>2, <1>4 DEF m
<1>6. Min({m, room}) <= room
    <2>1. CASE m <= room
        BY <1>3, <1>5, <2>1 DEF Min
    <2>2. CASE room <= m
        BY <1>3, <1>5, <2>2 DEF Min
    <2> QED BY <1>3, <1>5, <2>1, <2>2
<1>7. Cardinality(R) <= room
    BY <1>5, <1>6
<1> QED BY <1>1, <1>2, <1>3, <1>7, CapAssumption DEF room

\* A dispatch offers the event to every subscription that matches it, and stays
\* within every queue.
LEMMA DispatchEffect ==
    ASSUME TypeOK, LineInv, NEW e \in Seen, Dispatch(e)
    PROVE  /\ queue' \in [Conn -> Nat] /\ \A c \in Conn : queue'[c] <= QueueCap
           /\ hub' \in [Conn -> [SubName -> Entry \cup {None}] \cup {None}]
           /\ \A c \in Conn : hub'[c] # None => hub[c] # None
           /\ \A c \in Conn, s \in SubName : hub'[c] # None /\ hub'[c][s] # None =>
                  /\ hub[c][s] # None /\ hub'[c][s].match = hub[c][s].match
                  /\ hub'[c][s].strikes < Grace
           /\ got' \in [Conn -> [SubName -> SUBSET Seen]] /\ lost' \in [Conn -> [SubName -> SUBSET Seen]]
           /\ cut' = cut
           /\ \A c \in Conn, s \in SubName : got[c][s] \subseteq got'[c][s] /\ lost[c][s] \subseteq lost'[c][s]
           /\ \A c \in Conn, s \in SubName :
                  hub[c] # None /\ hub[c][s] # None /\ e \in hub[c][s].match =>
                      e \in got'[c][s] \/ e \in lost'[c][s]
<1>1. PICK took \in [Conn -> SUBSET SubName] :
         /\ \A c \in Conn : IF writer[c] # "ended" THEN took[c] \in Taken(c, Matching(c, e)) ELSE took[c] = {}
         /\ queue' = [c \in Conn |-> queue[c] + Cardinality(took[c])]
         /\ hub' = [c \in Conn |->
                      IF hub[c] = None \/ (\E s \in Matching(c, e) :
                            ~(writer[c] # "ended") \/ (IF s \in took[c] THEN 0
                                                      ELSE IF s \in Matching(c, e) THEN Subs(c)[s].strikes + 1
                                                      ELSE Subs(c)[s].strikes) >= Grace)
                      THEN None
                      ELSE [s \in SubName |->
                              IF hub[c][s] = None THEN None
                              ELSE [hub[c][s] EXCEPT !.strikes = IF s \in took[c] THEN 0
                                                      ELSE IF s \in Matching(c, e) THEN Subs(c)[s].strikes + 1
                                                      ELSE Subs(c)[s].strikes]]]
         /\ got' = [c \in Conn |-> [s \in SubName |-> IF s \in took[c] THEN got[c][s] \cup {e} ELSE got[c][s]]]
         /\ lost' = [c \in Conn |-> [s \in SubName |-> IF s \in Matching(c, e) \ took[c]
                                                       THEN lost[c][s] \cup {e} ELSE lost[c][s]]]
         /\ UNCHANGED cut
    BY Zenon DEF Dispatch
<1>2. \A c \in Conn : Matching(c, e) \in SUBSET SubName
    BY DEF Matching
<1>3. \A c \in Conn : /\ took[c] \subseteq SubName /\ Cardinality(took[c]) \in Nat
                      /\ queue[c] \in Nat /\ queue[c] + Cardinality(took[c]) <= QueueCap
    <2> TAKE c \in Conn
    <2>1. queue[c] \in Nat /\ queue[c] <= QueueCap
        BY DEF TypeOK, LineInv
    <2>2. CASE writer[c] # "ended"
        BY <1>1, <1>2, <2>1, <2>2, TakenFits
    <2>3. CASE writer[c] = "ended"
        <3>1. took[c] = {} /\ Cardinality({}) = 0
            BY <1>1, <2>3, FS_EmptySet
        <3> QED BY <2>1, <3>1
    <2> QED BY <2>2, <2>3
<1>4. queue' \in [Conn -> Nat] /\ \A c \in Conn : queue'[c] <= QueueCap
    BY <1>1, <1>3
<1>5. /\ got' \in [Conn -> [SubName -> SUBSET Seen]] /\ lost' \in [Conn -> [SubName -> SUBSET Seen]]
      /\ \A c \in Conn, s \in SubName : got[c][s] \subseteq got'[c][s] /\ lost[c][s] \subseteq lost'[c][s]
    BY <1>1 DEF TypeOK
<1>6. ASSUME NEW c \in Conn, NEW s \in SubName, hub[c] # None, hub[c][s] # None, e \in hub[c][s].match
      PROVE  e \in got'[c][s] \/ e \in lost'[c][s]
    <2>1. s \in Matching(c, e)
        BY <1>6 DEF Matching, Subs
    <2> QED BY <1>1, <2>1
<1>7. ASSUME NEW c \in Conn, hub[c] # None, ~Slow(took, e, c)
      PROVE  /\ hub'[c] \in [SubName -> Entry \cup {None}]
             /\ \A s \in SubName : hub'[c][s] # None =>
                    /\ hub[c][s] # None /\ hub'[c][s].match = hub[c][s].match
                    /\ hub'[c][s].strikes < Grace
    <2>0. ~(\E s \in Matching(c, e) :
                ~(writer[c] # "ended") \/ (IF s \in took[c] THEN 0
                                          ELSE IF s \in Matching(c, e) THEN Subs(c)[s].strikes + 1
                                          ELSE Subs(c)[s].strikes) >= Grace)
        BY <1>7 DEF Slow, Struck
    <2>1. /\ hub'[c] = [s \in SubName |-> hub'[c][s]]
          /\ \A s \in SubName : hub'[c][s] = IF hub[c][s] = None THEN None
                                            ELSE [hub[c][s] EXCEPT !.strikes = Struck(took, e, c, s)]
        <3>1. hub'[c] = [s \in SubName |->
                           IF hub[c][s] = None THEN None
                           ELSE [hub[c][s] EXCEPT !.strikes = IF s \in took[c] THEN 0
                                                   ELSE IF s \in Matching(c, e) THEN Subs(c)[s].strikes + 1
                                                   ELSE Subs(c)[s].strikes]]
            BY <1>1, <1>7, <2>0
        <3> QED BY <3>1 DEF Struck
    <2>2. ASSUME NEW s \in SubName, hub[c][s] # None
          PROVE  /\ hub'[c][s] \in Entry /\ hub'[c][s].match = hub[c][s].match
                 /\ hub'[c][s].strikes < Grace
        <3>1. PICK n \in Entry : n = hub[c][s]
            BY <1>7, <2>2 DEF TypeOK
        <3>2. Subs(c)[s] = n /\ n.strikes \in Nat /\ n.strikes < Grace
            BY <1>7, <2>2, <3>1 DEF Subs, LineInv, Entry
        <3>3. Struck(took, e, c, s) \in Nat /\ Struck(took, e, c, s) < Grace
            <4>1. CASE s \in took[c]
                BY <4>1, CapAssumption DEF Struck
            <4>2. CASE s \notin took[c] /\ s \in Matching(c, e)
                BY <1>7, <3>2, <4>2, CapAssumption DEF Struck, Slow
            <4>3. CASE s \notin took[c] /\ s \notin Matching(c, e)
                BY <3>2, <4>3 DEF Struck
            <4> QED BY <4>1, <4>2, <4>3
        <3>4. hub'[c][s] = [n EXCEPT !.strikes = Struck(took, e, c, s)]
            BY <2>1, <2>2, <3>1
        <3> QED BY <3>1, <3>3, <3>4 DEF Entry
    <2>3. \A s \in SubName : hub[c][s] = None => hub'[c][s] = None
        BY <2>1
    <2>4. hub'[c] \in [SubName -> Entry \cup {None}]
        <3>1. \A s \in SubName : hub'[c][s] \in Entry \cup {None}
            BY <2>2, <2>3
        <3> QED BY <2>1, <3>1
    <2> QED BY <2>2, <2>3, <2>4
<1>8. \A c \in Conn : hub[c] = None \/ Slow(took, e, c) => hub'[c] = None
    BY <1>1 DEF Slow, Struck
<1>9. hub' \in [Conn -> [SubName -> Entry \cup {None}] \cup {None}]
    <2>1. \A c \in Conn : hub'[c] \in [SubName -> Entry \cup {None}] \cup {None}
        BY <1>7, <1>8
    <2>2. hub' = [c \in Conn |-> hub'[c]]
        BY <1>1
    <2> QED BY <2>1, <2>2
<1>10. cut' = cut
    BY <1>1
<1> QED BY <1>4, <1>5, <1>6, <1>7, <1>8, <1>9, <1>10

\* What a dispatch leaves of the invariant, whatever the doors do in that step.
LEMMA DispatchKeeps ==
    ASSUME IInv, NEW e \in Seen, Dispatch(e), UNCHANGED <<conn, writer, permits, store>>,
           pub' \in [Event -> {"new", "accepted", "refused", "sent"}], overlay' \in [Event -> Task],
           \A x \in Event : pub'[x] = "sent" => pub[x] = "sent" \/ x = e
    PROVE  TypeOK' /\ PermitInv' /\ LineInv' /\ GapInv'
<1>1. /\ queue' \in [Conn -> Nat] /\ \A c \in Conn : queue'[c] <= QueueCap
      /\ hub' \in [Conn -> [SubName -> Entry \cup {None}] \cup {None}]
      /\ \A c \in Conn : hub'[c] # None => hub[c] # None
      /\ \A c \in Conn, s \in SubName : hub'[c] # None /\ hub'[c][s] # None =>
             /\ hub[c][s] # None /\ hub'[c][s].match = hub[c][s].match
             /\ hub'[c][s].strikes < Grace
    BY DispatchEffect DEF IInv
<1>2. /\ got' \in [Conn -> [SubName -> SUBSET Seen]] /\ lost' \in [Conn -> [SubName -> SUBSET Seen]]
      /\ cut' = cut
      /\ \A c \in Conn, s \in SubName : got[c][s] \subseteq got'[c][s] /\ lost[c][s] \subseteq lost'[c][s]
      /\ \A c \in Conn, s \in SubName :
             hub[c] # None /\ hub[c][s] # None /\ e \in hub[c][s].match =>
                 e \in got'[c][s] \/ e \in lost'[c][s]
    BY DispatchEffect DEF IInv
<1>3. TypeOK'
    BY <1>1, <1>2 DEF IInv, TypeOK
<1>4. PermitInv'
    BY SamePermits DEF IInv
<1>5. LineInv'
    BY <1>1 DEF IInv, LineInv
<1>7. GapInv'
    <2> SUFFICES ASSUME NEW b \in Conn, NEW s \in SubName,
                        hub'[b] # None, hub'[b][s] # None, writer[b] # "ended",
                        NEW x \in hub'[b][s].match \cap store, pub'[x] = "sent"
                 PROVE  x \in got'[b][s] \/ x \in lost'[b][s] \/ x \in cut'[b][s] \/ Pending(conn[b].job, s, x)
        BY DEF GapInv
    <2>1. hub[b] # None /\ hub[b][s] # None /\ x \in hub[b][s].match /\ x \in Event
        BY <1>1 DEF IInv, TypeOK
    <2>2. CASE x = e
        BY <1>2, <2>1, <2>2
    <2>3. CASE pub[x] = "sent"
        BY <1>2, <2>1, <2>3 DEF IInv, GapInv
    <2> QED BY <2>1, <2>2, <2>3
<1> QED BY <1>3, <1>4, <1>5, <1>7

\* An event that is fanned out hands the thread's summary to a task of its own.
LEMMA PublishInv ==
    ASSUME IInv, NEW e \in Event, Publish(e)
    PROVE  IInv'
<1>1. /\ pub[e] = "accepted" /\ pub' \in [Event -> {"new", "accepted", "refused", "sent"}]
      /\ pub'[e] = "sent" /\ \A x \in Event : x # e => pub'[x] = pub[x]
    BY DEF Publish, IInv, TypeOK
<1>2. PICK t \in Task : t = overlay[e]
    BY DEF IInv, TypeOK
<1> DEFINE u == [t EXCEPT !.pc = "spawned"]
<1>3. u \in Task /\ u.pc = "spawned"
    BY DEF Task
<1>4. overlay' = IF e \in Ephemeral THEN overlay ELSE [overlay EXCEPT ![e] = u]
    BY <1>2 DEF Publish, IInv, TypeOK
<1> HIDE DEF u
<1>5. /\ overlay' \in [Event -> Task]
      /\ e \notin Ephemeral => overlay'[e].pc = "spawned"
      /\ \A x \in Event : overlay'[x] = overlay[x] \/ overlay'[x].pc = "spawned"
    BY <1>3, <1>4 DEF IInv, TypeOK
<1>6. e \in Seen /\ Dispatch(e) /\ UNCHANGED <<conn, writer, permits, store, summaries>>
    BY DEF Publish, Seen
<1>7. TypeOK' /\ PermitInv' /\ LineInv' /\ GapInv'
    <2>1. \A x \in Event : pub'[x] = "sent" => pub[x] = "sent" \/ x = e
        BY <1>1
    <2> QED BY <1>1, <1>5, <1>6, <2>1, DispatchKeeps
<1>8. SumInv'
    <2>0. store' = store /\ TrueCount' = TrueCount /\ summaries' = summaries
        BY <1>6 DEF TrueCount
    <2> SUFFICES ASSUME store \ Ephemeral # {}
                 PROVE  \/ \E x \in Event \ Ephemeral : pub'[x] = "accepted"
                        \/ \E x \in Event : overlay'[x].pc = "spawned"
                        \/ \E x \in Event : overlay'[x].pc \in {"read", "failed"} /\ overlay'[x].count = TrueCount
                        \/ TrueCount \in summaries
        BY <2>0 DEF SumInv
    <2>1. CASE \E x \in Event \ Ephemeral : pub[x] = "accepted"
        BY <1>1, <1>5, <2>1
    <2>2. CASE \E x \in Event : overlay[x].pc = "spawned"
        BY <1>5, <2>2
    <2>3. CASE \E x \in Event : overlay[x].pc \in {"read", "failed"} /\ overlay[x].count = TrueCount
        BY <1>5, <2>3
    <2> QED BY <2>1, <2>2, <2>3 DEF IInv, SumInv
<1> QED BY <1>7, <1>8 DEF IInv

\* A task that reads reads the true count of that moment, or fails with it.
LEMMA ReadSummaryInv ==
    ASSUME IInv, NEW e \in Event, ReadSummary(e)
    PROVE  IInv'
<1>1. TrueCount \in Counts
    BY EventAssumption DEF Counts, IInv, TypeOK, TrueCount
<1>2. PICK pc \in {"read", "failed"} : overlay' = [overlay EXCEPT ![e] = [pc |-> pc, count |-> TrueCount]]
    BY DEF ReadSummary
<1> DEFINE u == [pc |-> pc, count |-> TrueCount]
<1>3. u \in Task /\ u.pc \in {"read", "failed"} /\ u.count = TrueCount
    BY <1>1 DEF Task
<1>4. overlay' = [overlay EXCEPT ![e] = u] /\ overlay[e].pc = "spawned"
    BY <1>2 DEF ReadSummary
<1> HIDE DEF u
<1>5. overlay' \in [Event -> Task] /\ overlay'[e] = u /\ \A x \in Event : x # e => overlay'[x] = overlay[x]
    BY <1>3, <1>4 DEF IInv, TypeOK
<1>6. UNCHANGED <<conn, writer, queue, hub, permits, store, pub, summaries, got, lost, cut>>
    BY DEF ReadSummary, owed
<1>7. TypeOK' /\ PermitInv' /\ LineInv'
    BY <1>5, <1>6 DEF IInv, TypeOK, PermitInv, LineInv
<1>8. GapInv'
    BY <1>6 DEF IInv, GapInv, Pending
<1>9. SumInv'
    <2>1. TrueCount' = TrueCount /\ store' = store /\ summaries' = summaries /\ pub' = pub
        BY <1>6 DEF TrueCount
    <2> QED BY <1>3, <1>5, <2>1 DEF IInv, SumInv
<1> QED BY <1>7, <1>8, <1>9 DEF IInv

\* A task that dispatches the true count is no longer needed.
LEMMA DispatchSummaryInv ==
    ASSUME IInv, NEW e \in Event, DispatchSummary(e)
    PROVE  IInv'
<1> DEFINE u == [pc |-> "done", count |-> 0]
<1>1. u \in Task /\ u.pc = "done"
    BY DEF Task, Counts
<1>2. overlay' = [overlay EXCEPT ![e] = u]
    BY DEF DispatchSummary
<1> HIDE DEF u
<1>3. /\ overlay' \in [Event -> Task] /\ overlay[e].pc = "read"
      /\ \A x \in Event : x # e => overlay'[x] = overlay[x]
    BY <1>1, <1>2 DEF DispatchSummary, IInv, TypeOK
<1>4. /\ Overlay \in Seen /\ Dispatch(Overlay) /\ UNCHANGED <<conn, writer, permits, store, pub>>
      /\ summaries' = summaries \cup {overlay[e].count}
    BY DEF DispatchSummary, Seen
<1>5. TypeOK' /\ PermitInv' /\ LineInv' /\ GapInv'
    BY <1>3, <1>4, DispatchKeeps DEF IInv, TypeOK
<1>6. SumInv'
    BY <1>3, <1>4 DEF IInv, SumInv, TrueCount
<1> QED BY <1>5, <1>6 DEF IInv

----------------------------------------------------------------------------
(* The theorems.                                                           *)

\* The relay starts with no connection and nothing stored.
LEMMA InitInv ==
    ASSUME Init
    PROVE  IInv
<1>1. Closed \in Handler /\ Closed.pc = "closed" /\ Closed.job = None
    BY DEF Closed, Handler
<1>2. TypeOK
    <2>1. conn \in [Conn -> Handler]
        BY <1>1 DEF Init
    <2>2. overlay \in [Event -> Task]
        BY DEF Init, Task, Counts
    <2>3. /\ got \in [Conn -> [SubName -> SUBSET Seen]] /\ lost \in [Conn -> [SubName -> SUBSET Seen]]
          /\ cut \in [Conn -> [SubName -> SUBSET Seen]]
        BY DEF Init, Nothing
    <2>4. permits \in Nat
        BY CapAssumption DEF Init
    <2> QED BY <2>1, <2>2, <2>3, <2>4 DEF Init, TypeOK, Writers
<1>3. PermitInv
    <2>1. {c \in Conn : conn[c].pc # "closed"} = {}
        BY <1>1 DEF Init
    <2>2. IsFiniteSet({c \in Conn : conn[c].pc # "closed"}) /\ Cardinality({c \in Conn : conn[c].pc # "closed"}) = 0
        BY <2>1, FS_EmptySet
    <2>3. permits = MaxConns /\ MaxConns \in Nat
        BY CapAssumption DEF Init
    <2>4. permits + Cardinality({c \in Conn : conn[c].pc # "closed"}) = MaxConns
        BY <2>2, <2>3
    <2> QED BY <2>2, <2>4 DEF PermitInv
<1>4. LineInv /\ GapInv /\ SumInv
    BY <1>1, CapAssumption DEF Init, LineInv, GapInv, SumInv
<1> QED BY <1>2, <1>3, <1>4 DEF IInv

\* Every step of the relay keeps the invariant.
LEMMA NextInv ==
    ASSUME IInv, [Next]_vars
    PROVE  IInv'
<1>1. CASE \E c \in Conn : Connect(c) \/ Auth(c) \/ Leave(c) \/ HandlerStep(c)
    BY <1>1, ConnectInv, AuthInv, LeaveInv, QueryInv, BackfillInv, EoseInv, OkInv DEF HandlerStep
<1>2. CASE \E c \in Conn : WriterStep(c) \/ SocketTakes(c) \/ SocketFails(c)
    BY <1>2, WriterTaskInv, GoneInv DEF WriterStep
<1>3. CASE \E c \in Conn, s \in SubName, L \in Lists : Req(c, s, L)
    BY <1>3, ReqInv
<1>4. CASE \E c \in Conn, s \in SubName : CloseSub(c, s)
    BY <1>4, CloseSubInv
<1>5. CASE \E e \in Event : (\E d \in Conn \cup OtherDoor : Submit(e, d)) \/ Publish(e)
    BY <1>5, SubmitInv, PublishInv
<1>6. CASE \E e \in Event : ReadSummary(e) \/ DispatchSummary(e)
    BY <1>6, ReadSummaryInv, DispatchSummaryInv
<1>7. CASE Shutdown
    BY <1>7, ShutdownInv
<1>8. CASE UNCHANGED vars
    <2>1. TypeOK' /\ PermitInv' /\ SumInv'
        BY <1>8 DEF vars, IInv, TypeOK, PermitInv, SumInv, TrueCount
    <2>2. LineInv'
        BY <1>8 DEF vars, IInv, LineInv
    <2>3. GapInv'
        BY <1>8 DEF vars, IInv, GapInv
    <2> QED BY <2>1, <2>2, <2>3 DEF IInv
<1> QED BY <1>1, <1>2, <1>3, <1>4, <1>5, <1>6, <1>7, <1>8 DEF Next

\* The invariant of the relay: its permits, its live subscriptions, and what was
\* queued for them.
THEOREM Invariance == Spec => []IInv
<1> QED BY InitInv, NextInv, PTL DEF Spec

\* However connections come and go, permits and connections add up, the hub has
\* entries only of connections that are up and authenticated, none has reached
\* its last strike, and no queue outgrows SEND_QUEUE (relay.rs:76-159, 427-537).
THEOREM HubCorrect == Spec => []HubInv
<1>1. IInv => HubInv
    <2> SUFFICES ASSUME IInv
                 PROVE  HubInv
        OBVIOUS
    <2>1. \A c \in Conn, s \in SubName : Subs(c)[s] # None => Subs(c)[s].strikes < Grace
        BY DEF IInv, LineInv, Subs, NoSubs
    <2> QED BY <2>1 DEF IInv, PermitInv, LineInv, HubInv
<1> QED BY <1>1, Invariance, PTL

\* Whenever a stored event's fan-out overtakes or meets a REQ, its queries or its
\* backfill, the subscription is offered the event, unless a query that found it
\* was at its limit or failed (relay.rs:725-783, 119-159).
THEOREM GapFree == Spec => []NoGap
<1>1. IInv => NoGap
    BY DEF IInv, GapInv, NoGap, Subs, NoSubs, Pending
<1> QED BY <1>1, Invariance, PTL

\* In whatever order the tasks of a thread's events read and dispatch, its true
\* reply count has gone out when they are done, or a task failed on reading that
\* very count (http.rs:263-291).
THEOREM SummaryCorrect == Spec => []LatestSummarySent
<1>1. IInv => LatestSummarySent
    BY DEF IInv, SumInv, LatestSummarySent
<1> QED BY <1>1, Invariance, PTL
=============================================================================
