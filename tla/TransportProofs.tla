--------------------------- MODULE TransportProofs ---------------------------
(***************************************************************************)
(* Proofs about Transport, for any topics, calls, locks and daemon ids and *)
(* any faults.  Of a topic nobody removed under a call or a                *)
(* re-subscription at work on it, the inductive invariant IInv says        *)
(*   - that at most one call is between its POST and its insert, the one   *)
(*     that holds the topic's flight lock, and that the topic is not on    *)
(*     record meanwhile;                                                   *)
(*   - that what the supervisor has in its snapshot is what is on record,  *)
(*     and that the forwarder it is replacing is gone or was given up.     *)
(* Topics adds the relay's steps to those of the transport: whatever it    *)
(* asks for, the transport keeps its invariant, so what is shown of single *)
(* calls holds when clients subscribe, close and leave.                    *)
(***************************************************************************)
EXTENDS Topics, FiniteSetTheorems, TLAPS

TypeOK ==
    /\ topics \in [Topic -> Sub \cup {None}]
    /\ inflight \in [Topic -> Lock \cup {None}]
    /\ holder \in [Lock -> Task \cup {None}]
    /\ task \in [Task -> Call]
    /\ sup \in Supervisor
    /\ fwd \in [Sub -> Topic \cup {None}]
    /\ stray \subseteq Sub
    /\ up \in BOOLEAN
    /\ crossed \subseteq Topic

\* What a call has in hand at each of its steps.
CallShape(c) ==
    /\ c.pc # "free" => c.topic \in Topic
    /\ c.pc \in {"wait", "post", "insert"} <=> c.lock # None
    /\ c.pc \in {"insert", "delete"} => c.id # None
    /\ c.id # None => c.pc \in {"insert", "unlock", "delete"}

SupShape ==
    /\ sup.pc \in {"post", "insert"} <=> sup.topic # None
    /\ sup.pc = "insert" <=> sup.id # None
    /\ sup.todo # {} => sup.pc \in {"next", "post", "insert"}

Shapes == SupShape /\ \A k \in Task : CallShape(task[k])

\* An id is used for the topic it was given for, as long as it is alive.
SameTopic ==
    /\ \A t \in Topic : topics[t] # None => fwd[topics[t]] \in {t, None}
    /\ \A k \in Task : task[k].id # None => fwd[task[k].id] \in {task[k].topic, None}
    /\ sup.id # None => fwd[sup.id] \in {sup.topic, None}

Subscribing(k, t) == task[k].topic = t /\ task[k].pc \in {"post", "insert"}

\* The flight lock.
LockInv ==
    /\ \A k \in Task : task[k].pc \in {"post", "insert"} => holder[task[k].lock] = k
    /\ \A k \in Task : task[k].lock # None /\ task[k].topic \notin crossed =>
           inflight[task[k].topic] = task[k].lock
    /\ \A k \in Task, t \in Topic \ crossed : Subscribing(k, t) => topics[t] = None

\* The supervisor's snapshot.
SnapshotInv ==
    /\ \A p \in sup.todo : p[1] \notin crossed => topics[p[1]] = p[2] /\ sup.topic # p[1]
    /\ sup.topic # None /\ sup.topic \notin crossed =>
           LET s == topics[sup.topic] IN s # None /\ (fwd[s] = None \/ s \in stray)

IInv == TypeOK /\ Shapes /\ SameTopic /\ LockInv /\ SnapshotInv /\ NoLeak

\* Every request is answered: streams end and DELETEs fail, but the daemon
\* stays up and no POST fails or loses its answer.
Answered == Faults \subseteq {"drop", "delete"}

\* An id is on record, with a call or with the supervisor, and only once.
OneOwner ==
    /\ \A t, u \in Topic : topics[t] # None /\ topics[t] = topics[u] => t = u
    /\ \A j, k \in Task : task[j].id # None /\ task[j].id = task[k].id => j = k
    /\ \A k \in Task, t \in Topic : task[k].id # None => task[k].id # topics[t]
    /\ sup.id # None => /\ \A t \in Topic : topics[t] # sup.id
                        /\ \A k \in Task : task[k].id # sup.id

LiveInv ==
    /\ up
    /\ OneOwner
    /\ \A t \in Topic : topics[t] # None => fwd[topics[t]] = t \/ sup.topic = t
    /\ \A k \in Task : task[k].pc = "insert" => fwd[task[k].id] = task[k].topic
    /\ sup.pc = "insert" => fwd[sup.id] = sup.topic
    /\ \A p \in sup.todo : /\ fwd[p[2]] \in {p[1], None}
                           /\ \A k \in Task : task[k].pc = "insert" => task[k].id # p[2]

\* What every step has to keep.
Kept == IInv' /\ (Answered /\ LiveInv => LiveInv')

----------------------------------------------------------------------------
(* What the shared operators write.                                        *)

\* A call moves on and keeps what it has in hand.
LEMMA GotoEffect ==
    ASSUME TypeOK, NEW k \in Task, NEW pc \in TaskPc, Goto(k, pc)
    PROVE  /\ task' \in [Task -> Call]
           /\ task'[k] = [pc |-> pc, topic |-> task[k].topic, lock |-> task[k].lock, id |-> task[k].id]
           /\ \A j \in Task : j # k => task'[j] = task[j]
<1>1. task' = [task EXCEPT ![k] = [task[k] EXCEPT !.pc = pc]] /\ task[k] \in Call
    BY DEF Goto, TypeOK
<1>2. [task[k] EXCEPT !.pc = pc] = [pc |-> pc, topic |-> task[k].topic, lock |-> task[k].lock, id |-> task[k].id]
    BY <1>1 DEF Call
<1> QED BY <1>1, <1>2 DEF TypeOK, Call

\* A call that returns has nothing in hand.
LEMMA ReturnEffect ==
    ASSUME TypeOK, NEW k \in Task, Return(k)
    PROVE  /\ task' \in [Task -> Call] /\ task'[k] = Free
           /\ \A j \in Task : j # k => task'[j] = task[j]
BY DEF Return, TypeOK, Call, Free, TaskPc

\* The locks of other calls stay held.
LEMMA ReleaseEffect ==
    ASSUME TypeOK, NEW k \in Task, Release(k)
    PROVE  /\ holder' \in [Lock -> Task \cup {None}]
           /\ \A l \in Lock : holder[l] # k => holder'[l] = holder[l]
BY DEF Release, TypeOK

\* A POST that is served, fails or loses its answer: only new ids come to life.
LEMMA PostEffect ==
    ASSUME TypeOK, NEW t \in Topic, (\E s \in Sub : PostServed(t, s)) \/ PostFailed \/ PostLost(t)
    PROVE  /\ fwd' \in [Sub -> Topic \cup {None}] /\ stray \subseteq stray' /\ stray' \subseteq Sub
           /\ \A s \in Sub : ~NewSub(s) => fwd'[s] = fwd[s]
           /\ \A s \in Sub : fwd'[s] = fwd[s] \/ NewSub(s)
BY DEF TypeOK, PostServed, PostFailed, PostLost, daemon

\* A DELETE that is served or fails: the id is gone or given up.
LEMMA DeleteEffect ==
    ASSUME TypeOK, NEW s \in Sub, DeleteServed(s) \/ DeleteFailed(s)
    PROVE  /\ fwd' \in [Sub -> Topic \cup {None}] /\ stray' \subseteq Sub
           /\ \A r \in Sub : fwd'[r] = fwd[r] \/ fwd'[r] = None
           /\ \A r \in stray : r \in stray' \/ fwd'[r] = None
           /\ fwd'[s] = None \/ s \in stray'
BY DEF TypeOK, DeleteServed, DeleteFailed

\* An id that somebody remembers is not new.
LEMMA Remembered ==
    ASSUME NEW s \in Sub, NewSub(s)
    PROVE  /\ \A t \in Topic : topics[t] # s
           /\ \A k \in Task : task[k].id # s
           /\ sup.id # s /\ \A p \in sup.todo : p[2] # s
           /\ fwd[s] = None
BY DEF NewSub

----------------------------------------------------------------------------
(* The calls.                                                              *)

\* A step that gives no call a new id and leaves the records alone.
LEMMA QuietLive ==
    ASSUME LiveInv, UNCHANGED <<topics, fwd, up>>,
           sup'.topic = sup.topic, sup'.id = sup.id, sup'.todo = sup.todo,
           sup'.pc = "insert" => sup.pc = "insert",
           \A k \in Task : /\ task'[k].id # None => task'[k].id = task[k].id
                           /\ task'[k].pc = "insert" => task[k] = task'[k]
    PROVE  LiveInv'
<1>1. OneOwner'
    BY DEF LiveInv, OneOwner
<1>2. /\ \A k \in Task : task'[k].pc = "insert" => fwd'[task'[k].id] = task'[k].topic
      /\ \A p \in sup'.todo : /\ fwd'[p[2]] \in {p[1], None}
                              /\ \A k \in Task : task'[k].pc = "insert" => task'[k].id # p[2]
    BY DEF LiveInv
<1> QED BY <1>1, <1>2 DEF LiveInv

\* Calls are made where none is in flight.
SpawnSome ==
    /\ task' \in [Task -> Call]
    /\ \A k \in Task : \/ task'[k] = task[k]
                       \/ /\ task[k].pc = "free" /\ task'[k].pc \in {"ensure", "remove"}
                          /\ task'[k].topic \in Topic /\ task'[k].lock = None /\ task'[k].id = None
    /\ UNCHANGED <<topics, inflight, holder, sup, fwd, stray, up, crossed>>

\* Calls that start, one or several at once, have nothing in hand.
LEMMA SpawnSomeInv ==
    ASSUME IInv, SpawnSome
    PROVE  Kept
<1>0. \A k \in Task : task[k].pc = "free" => task[k].lock = None /\ task[k].id = None
    BY DEF IInv, Shapes, CallShape
<1>1. TypeOK' /\ Shapes'
    BY NoneAssumption DEF IInv, TypeOK, Shapes, SupShape, CallShape, SpawnSome
<1>2. SameTopic' /\ SnapshotInv'
    BY DEF IInv, SameTopic, SnapshotInv, SpawnSome
<1>3. LockInv'
    BY DEF IInv, LockInv, Subscribing, SpawnSome
<1>4. NoLeak'
    <2> SUFFICES ASSUME NEW s \in Sub \ stray, fwd[s] # None, fwd[s] \notin crossed
                 PROVE  topics[fwd[s]] = s \/ sup.id = s \/ \E k \in Task : task'[k].id = s
        BY DEF NoLeak, SpawnSome
    <2>1. \A k \in Task : task[k].id = s => task'[k].id = s
        BY <1>0, NoneAssumption DEF SpawnSome
    <2> QED BY <2>1 DEF IInv, NoLeak
<1>5. LiveInv => LiveInv'
    BY QuietLive DEF SpawnSome
<1> QED BY <1>1, <1>2, <1>3, <1>4, <1>5 DEF IInv, Kept

\* One call of ensure_topic or remove_topic.
LEMMA SpawnInv ==
    ASSUME IInv, NEW k \in Task, NEW op \in {"ensure", "remove"}, NEW t \in Topic, Spawn(k, op, t)
    PROVE  Kept
<1>1. /\ task'[k] = [pc |-> op, topic |-> t, lock |-> None, id |-> None] /\ task[k].pc = "free"
      /\ task' \in [Task -> Call]
      /\ \A j \in Task : j # k => task'[j] = task[j]
    BY DEF IInv, TypeOK, Spawn, Free, Call, TaskPc
<1>2. UNCHANGED <<topics, inflight, holder, sup, fwd, stray, up, crossed>>
    BY DEF Spawn, daemon
<1>3. SpawnSome
    BY <1>1, <1>2 DEF SpawnSome
<1> QED BY <1>3, SpawnSomeInv

\* ensure_topic's fast path.
LEMMA EnsureCheckInv ==
    ASSUME IInv, NEW k \in Task, EnsureCheck(k)
    PROVE  Kept
<1>0. task[k] \in Call /\ task[k].pc = "ensure" /\ CallShape(task[k]) /\ TypeOK
    BY DEF IInv, TypeOK, EnsureCheck, Shapes
<1>1. task[k].lock = None /\ task[k].id = None /\ task[k].topic \in Topic
    BY <1>0 DEF CallShape
<1>2. /\ task'[k].lock = None /\ task'[k].id = None /\ task'[k].pc \in {"free", "lock"}
      /\ task'[k].topic \in Topic \/ task'[k].pc = "free"
      /\ task' \in [Task -> Call]
      /\ \A j \in Task : j # k => task'[j] = task[j]
    <2>1. CASE Return(k)
        BY <1>0, <2>1, ReturnEffect DEF Free
    <2>2. CASE Goto(k, "lock")
        <3>1. /\ task' \in [Task -> Call]
              /\ task'[k] = [pc |-> "lock", topic |-> task[k].topic, lock |-> task[k].lock, id |-> task[k].id]
              /\ \A j \in Task : j # k => task'[j] = task[j]
            BY <1>0, <2>2, GotoEffect DEF TaskPc
        <3> QED BY <1>1, <3>1
    <2> QED BY <2>1, <2>2 DEF EnsureCheck
<1>3. UNCHANGED <<topics, inflight, holder, sup, fwd, stray, up, crossed>>
    BY DEF EnsureCheck, daemon
<1>4. TypeOK' /\ Shapes'
    BY <1>2, <1>3, NoneAssumption DEF IInv, TypeOK, Shapes, SupShape, CallShape
<1>5. SameTopic' /\ SnapshotInv'
    BY <1>2, <1>3 DEF IInv, SameTopic, SnapshotInv
<1>6. LockInv'
    BY <1>2, <1>3 DEF IInv, LockInv, Subscribing
<1>7. NoLeak'
    BY <1>1, <1>2, <1>3, NoneAssumption DEF IInv, NoLeak
<1>8. LiveInv => LiveInv'
    BY <1>2, <1>3, QuietLive
<1> QED BY <1>4, <1>5, <1>6, <1>7, <1>8 DEF IInv, Kept

\* The topic's flight lock is the one every call on the topic waits for.
LEMMA EnsureLockInv ==
    ASSUME IInv, NEW k \in Task, EnsureLock(k)
    PROVE  Kept
<1>0. task[k] \in Call /\ task[k].pc = "lock" /\ CallShape(task[k]) /\ TypeOK
    BY DEF IInv, TypeOK, EnsureLock, Shapes
<1> DEFINE t == task[k].topic
<1>1. task[k].id = None /\ t \in Topic
    BY <1>0 DEF CallShape
<1>2. PICK l \in Lock :
        /\ IF inflight[t] # None THEN l = inflight[t] ELSE NewLock(l)
        /\ inflight' = [inflight EXCEPT ![t] = l]
        /\ task' = [task EXCEPT ![k] = [task[k] EXCEPT !.pc = "wait", !.lock = l]]
    BY <1>0 DEF EnsureLock, TypeOK
<1>3. /\ task'[k].pc = "wait" /\ task'[k].topic = t /\ task'[k].lock = l /\ task'[k].id = None
      /\ task' \in [Task -> Call]
      /\ \A j \in Task : j # k => task'[j] = task[j]
    <2>1. PICK c \in Call : /\ c = [task[k] EXCEPT !.pc = "wait", !.lock = l]
                            /\ c.pc = "wait" /\ c.topic = task[k].topic /\ c.lock = l /\ c.id = task[k].id
        <3>1. PICK d \in Call : d = task[k]
            BY <1>0
        <3> DEFINE e == [d EXCEPT !.pc = "wait", !.lock = l]
        <3>2. e \in Call /\ e.pc = "wait" /\ e.topic = d.topic /\ e.lock = l /\ e.id = d.id
            BY DEF Call, TaskPc
        <3>3. e = [task[k] EXCEPT !.pc = "wait", !.lock = l]
            BY <3>1, Zenon
        <3> HIDE DEF e
        <3> QED BY <3>1, <3>2, <3>3
    <2> QED BY <1>0, <1>1, <1>2, <2>1 DEF TypeOK
<1>4. /\ inflight' \in [Topic -> Lock \cup {None}] /\ inflight'[t] = l
      /\ \A u \in Topic : u # t => inflight'[u] = inflight[u]
    BY <1>0, <1>1, <1>2 DEF TypeOK
<1>5. UNCHANGED <<topics, holder, sup, fwd, stray, up, crossed>>
    BY DEF EnsureLock, daemon
<1> HIDE DEF t
<1>6. TypeOK' /\ Shapes'
    BY <1>1, <1>3, <1>4, <1>5, NoneAssumption DEF IInv, TypeOK, Shapes, SupShape, CallShape
<1>7. SameTopic' /\ SnapshotInv'
    BY <1>3, <1>5 DEF IInv, SameTopic, SnapshotInv
<1>8. LockInv'
    <2>1. \A j \in Task : task'[j].pc \in {"post", "insert"} => holder'[task'[j].lock] = j
        BY <1>3, <1>5 DEF IInv, LockInv
    <2>2. ASSUME NEW j \in Task, task'[j].lock # None, task'[j].topic \notin crossed'
          PROVE  inflight'[task'[j].topic] = task'[j].lock
        <3>1. CASE j = k
            BY <1>3, <1>4, <3>1
        <3>2. CASE j # k
            <4>1. /\ task'[j] = task[j] /\ task[j].topic \in Topic
                  /\ inflight[task[j].topic] = task[j].lock /\ task[j].lock # None
                BY <1>3, <1>5, <2>2, <3>2 DEF IInv, LockInv, Shapes, CallShape
            <4>2. task[j].topic = t => inflight'[task[j].topic] = inflight[task[j].topic]
                BY <1>2, <1>4, <4>1
            <4> QED BY <1>4, <4>1, <4>2
        <3> QED BY <3>1, <3>2
    <2>3. \A j \in Task, u \in Topic \ crossed' : Subscribing(j, u)' => topics'[u] = None
        BY <1>3, <1>5 DEF IInv, LockInv, Subscribing
    <2> QED BY <2>1, <2>2, <2>3 DEF LockInv
<1>9. NoLeak'
    BY <1>0, <1>1, <1>3, <1>5, NoneAssumption DEF IInv, NoLeak
<1>10. LiveInv => LiveInv'
    BY <1>3, <1>5, QuietLive
<1> QED BY <1>6, <1>7, <1>8, <1>9, <1>10 DEF IInv, Kept

\* Whoever enters the flight lock finds the topic on record, or is the only
\* one to subscribe it.
LEMMA EnsureEnterInv ==
    ASSUME IInv, NEW k \in Task, EnsureEnter(k)
    PROVE  Kept
<1>0. task[k] \in Call /\ task[k].pc = "wait" /\ CallShape(task[k]) /\ TypeOK
    BY DEF IInv, TypeOK, EnsureEnter, Shapes
<1>1. task[k].id = None /\ task[k].topic \in Topic /\ task[k].lock \in Lock
    BY <1>0 DEF CallShape, Call
<1>2. UNCHANGED <<topics, inflight, sup, fwd, stray, up, crossed>>
    BY DEF EnsureEnter, daemon
<1>3. CASE Return(k) /\ UNCHANGED holder
    <2>1. /\ task' \in [Task -> Call] /\ task'[k] = Free
          /\ \A j \in Task : j # k => task'[j] = task[j]
        BY <1>0, <1>3, ReturnEffect
    <2>2. TypeOK' /\ Shapes'
        BY <1>2, <1>3, <2>1, NoneAssumption DEF IInv, TypeOK, Shapes, SupShape, CallShape, Free
    <2>3. SameTopic' /\ SnapshotInv'
        BY <1>2, <2>1 DEF IInv, SameTopic, SnapshotInv, Free
    <2>4. LockInv'
        BY <1>2, <1>3, <2>1 DEF IInv, LockInv, Subscribing, Free
    <2>5. NoLeak'
        BY <1>0, <1>1, <1>2, <2>1, NoneAssumption DEF IInv, NoLeak
    <2>6. LiveInv => LiveInv'
        BY <1>2, <2>1, QuietLive DEF Free
    <2> QED BY <2>2, <2>3, <2>4, <2>5, <2>6 DEF IInv, Kept
<1>4. CASE /\ topics[task[k].topic] = None /\ holder[task[k].lock] = None
           /\ holder' = [holder EXCEPT ![task[k].lock] = k] /\ Goto(k, "post")
    <2>1. /\ task' \in [Task -> Call]
          /\ task'[k] = [pc |-> "post", topic |-> task[k].topic, lock |-> task[k].lock, id |-> None]
          /\ \A j \in Task : j # k => task'[j] = task[j]
        BY <1>0, <1>1, <1>4, GotoEffect DEF TaskPc
    <2>2. /\ holder' \in [Lock -> Task \cup {None}] /\ holder'[task[k].lock] = k
          /\ \A l \in Lock : l # task[k].lock => holder'[l] = holder[l]
        BY <1>0, <1>1, <1>4 DEF TypeOK
    <2>3. TypeOK' /\ Shapes'
        BY <1>1, <1>2, <2>1, <2>2, NoneAssumption DEF IInv, TypeOK, Shapes, SupShape, CallShape
    <2>4. SameTopic' /\ SnapshotInv'
        BY <1>2, <2>1 DEF IInv, SameTopic, SnapshotInv
    <2>5. LockInv'
        <3>1. ASSUME NEW j \in Task, task'[j].pc \in {"post", "insert"}
              PROVE  holder'[task'[j].lock] = j
            <4>1. CASE j = k
                BY <2>1, <2>2, <4>1
            <4>2. CASE j # k
                <5>1. task'[j] = task[j] /\ holder[task[j].lock] = j
                    BY <2>1, <3>1, <4>2 DEF IInv, LockInv
                <5>2. task[j].lock \in Lock /\ j # None
                    BY <3>1, <5>1, NoneAssumption DEF IInv, TypeOK, Shapes, CallShape, Call
                <5> QED BY <1>4, <2>2, <5>1, <5>2
            <4> QED BY <4>1, <4>2
        <3>2. /\ \A j \in Task : task'[j].lock # None /\ task'[j].topic \notin crossed' =>
                     inflight'[task'[j].topic] = task'[j].lock
              /\ \A j \in Task, t \in Topic \ crossed' : Subscribing(j, t)' => topics'[t] = None
            BY <1>0, <1>2, <1>4, <2>1 DEF IInv, LockInv, Subscribing
        <3> QED BY <3>1, <3>2 DEF LockInv
    <2>6. NoLeak'
        BY <1>0, <1>1, <1>2, <2>1, NoneAssumption DEF IInv, NoLeak
    <2>7. LiveInv => LiveInv'
        BY <1>2, <2>1, QuietLive
    <2> QED BY <2>3, <2>4, <2>5, <2>6, <2>7 DEF IInv, Kept
<1> QED BY <1>3, <1>4 DEF EnsureEnter

\* A call that ends gives its flight lock back and no other.
LEMMA ReleaseInv ==
    ASSUME IInv, NEW k \in Task, Release(k),
           \A j \in Task : j # k => task'[j] = task[j], task'[k] = Free,
           UNCHANGED inflight, crossed \subseteq crossed',
           \A t \in Topic \ crossed' : topics'[t] # topics[t] =>
               \A j \in Task : j # k => ~Subscribing(j, t)
    PROVE  LockInv'
<1>0. TypeOK /\ LockInv /\ Shapes
    BY DEF IInv
<1>1. ASSUME NEW j \in Task, task'[j].pc \in {"post", "insert"}
      PROVE  holder'[task'[j].lock] = j
    <2>1. j # k /\ task'[j] = task[j]
        BY <1>1 DEF Free
    <2>2. task[j].lock \in Lock /\ holder[task[j].lock] = j
        BY <1>0, <1>1, <2>1 DEF TypeOK, Shapes, CallShape, Call, LockInv
    <2> QED BY <1>0, <2>1, <2>2, ReleaseEffect
<1>2. \A j \in Task : task'[j].lock # None /\ task'[j].topic \notin crossed' =>
          inflight'[task'[j].topic] = task'[j].lock
    BY <1>0 DEF LockInv, Free
<1>3. \A j \in Task, t \in Topic \ crossed' : Subscribing(j, t)' => topics'[t] = None
    <2> SUFFICES ASSUME NEW j \in Task, NEW t \in Topic \ crossed', Subscribing(j, t)'
                 PROVE  topics'[t] = None
        OBVIOUS
    <2>1. j # k /\ Subscribing(j, t)
        BY DEF Subscribing, Free
    <2> QED BY <1>0, <2>1 DEF LockInv
<1> QED BY <1>1, <1>2, <1>3 DEF LockInv

\* The POST of ensure_topic: the id of a new forwarder is in the call's hands,
\* unless the answer is lost.
LEMMA EnsurePostInv ==
    ASSUME IInv, NEW k \in Task, EnsurePost(k)
    PROVE  Kept
<1>0. task[k] \in Call /\ task[k].pc = "post" /\ CallShape(task[k]) /\ TypeOK
    BY DEF IInv, TypeOK, EnsurePost, Shapes
<1>1. PICK t \in Topic : task[k].topic = t /\ task[k].id = None /\ task[k].lock \in Lock
    BY <1>0 DEF CallShape, Call
<1>2. UNCHANGED <<topics, inflight, sup, up, crossed>>
    BY DEF EnsurePost
<1>3. (\E s \in Sub : PostServed(t, s)) \/ PostFailed \/ PostLost(t)
    BY <1>1 DEF EnsurePost
<1>4. /\ fwd' \in [Sub -> Topic \cup {None}] /\ stray \subseteq stray' /\ stray' \subseteq Sub
      /\ \A s \in Sub : ~NewSub(s) => fwd'[s] = fwd[s]
    BY <1>0, <1>3, PostEffect
<1>5. SnapshotInv'
    <2>1. \A u \in Topic : topics[u] # None => topics[u] \in Sub /\ ~NewSub(topics[u])
        BY <1>0 DEF NewSub, TypeOK
    <2>2. sup.topic # None => sup.topic \in Topic
        BY <1>0 DEF TypeOK, Supervisor
    <2> QED BY <1>2, <1>4, <2>1, <2>2 DEF IInv, SnapshotInv
<1>6. /\ \A u \in Topic : topics'[u] # None => fwd'[topics'[u]] \in {u, None}
      /\ sup'.id # None => fwd'[sup'.id] \in {sup'.topic, None}
      /\ \A j \in Task : task[j].id # None => fwd'[task[j].id] \in {task[j].topic, None}
    <2>1. \A u \in Topic : topics[u] # None => topics[u] \in Sub /\ ~NewSub(topics[u])
        BY <1>0 DEF NewSub, TypeOK
    <2>2. sup.id # None => sup.id \in Sub /\ ~NewSub(sup.id)
        BY <1>0 DEF NewSub, TypeOK, Supervisor
    <2>3. \A j \in Task : task[j].id # None => task[j].id \in Sub /\ ~NewSub(task[j].id)
        BY <1>0 DEF NewSub, TypeOK, Call
    <2> QED BY <1>2, <1>4, <2>1, <2>2, <2>3 DEF IInv, SameTopic
<1>7. CASE \E s \in Sub : /\ PostServed(t, s)
                          /\ task' = [task EXCEPT ![k].pc = "insert", ![k].id = s]
                          /\ UNCHANGED holder
    <2>1. PICK s \in Sub : /\ PostServed(t, s) /\ UNCHANGED holder
                           /\ task' = [task EXCEPT ![k] = [task[k] EXCEPT !.pc = "insert", !.id = s]]
        BY <1>0, <1>7 DEF TypeOK
    <2>2. PICK c \in Call : /\ c = [task[k] EXCEPT !.pc = "insert", !.id = s]
                            /\ c.pc = "insert" /\ c.topic = task[k].topic /\ c.lock = task[k].lock /\ c.id = s
        <3>1. PICK d \in Call : d = task[k]
            BY <1>0
        <3> DEFINE e == [d EXCEPT !.pc = "insert", !.id = s]
        <3>2. e \in Call /\ e.pc = "insert" /\ e.topic = d.topic /\ e.lock = d.lock /\ e.id = s
            BY DEF Call, TaskPc
        <3>3. e = [task[k] EXCEPT !.pc = "insert", !.id = s]
            BY <3>1, Zenon
        <3> HIDE DEF e
        <3> QED BY <3>1, <3>2, <3>3
    <2>3. /\ task' \in [Task -> Call] /\ task'[k] = c
          /\ \A j \in Task : j # k => task'[j] = task[j]
        BY <1>0, <2>1, <2>2 DEF TypeOK
    <2>4. fwd'[s] = t /\ stray' = stray /\ \A r \in Sub : r # s => fwd'[r] = fwd[r]
        BY <1>0, <2>1 DEF PostServed, TypeOK
    <2>5. TypeOK' /\ Shapes'
        BY <1>1, <1>2, <1>4, <2>1, <2>2, <2>3, NoneAssumption DEF IInv, TypeOK, Shapes, SupShape, CallShape
    <2>6. SameTopic'
        <3>1. task'[k].id = s /\ task'[k].topic = t
            BY <1>1, <2>2, <2>3
        <3>2. \A j \in Task : task'[j].id # None => fwd'[task'[j].id] \in {task'[j].topic, None}
            BY <1>6, <2>3, <2>4, <3>1
        <3> QED BY <1>6, <3>2 DEF SameTopic
    <2>7. LockInv'
        BY <1>0, <1>1, <1>2, <2>1, <2>2, <2>3 DEF IInv, LockInv, Subscribing
    <2>8. NoLeak'
        <3> SUFFICES ASSUME NEW r \in Sub \ stray, fwd'[r] # None, fwd'[r] \notin crossed
                     PROVE  \/ topics[fwd'[r]] = r \/ sup.id = r \/ \E j \in Task : task'[j].id = r
            BY <1>2, <2>4 DEF NoLeak
        <3>1. CASE r = s
            BY <2>2, <2>3, <3>1
        <3>2. CASE r # s
            <4>1. fwd'[r] = fwd[r] /\ task[k].id # r
                BY <1>1, <2>4, <3>2, NoneAssumption
            <4> QED BY <2>3, <4>1 DEF IInv, NoLeak
        <3> QED BY <3>1, <3>2
    <2>9. LiveInv => LiveInv'
        <3> SUFFICES ASSUME LiveInv PROVE LiveInv'
            OBVIOUS
        <3>0. c.id = s /\ c.topic = t /\ c.pc = "insert" /\ task'[k] = c /\ s # None
            BY <1>1, <2>2, <2>3, NoneAssumption
        <3>1. /\ \A u \in Topic : topics[u] # s
              /\ \A j \in Task : task[j].id # s
              /\ sup.id # s /\ \A p \in sup.todo : p[2] # s
            BY <2>1, Remembered DEF PostServed
        <3>2. OneOwner'
            BY <1>2, <2>3, <3>0, <3>1 DEF LiveInv, OneOwner
        <3>3. \A u \in Topic : topics[u] # None => fwd'[topics[u]] = u \/ sup.topic = u
            BY <1>0, <2>4, <3>1 DEF LiveInv, TypeOK
        <3>4. \A j \in Task : task'[j].pc = "insert" => fwd'[task'[j].id] = task'[j].topic
            BY <1>0, <2>3, <2>4, <3>0, <3>1 DEF IInv, LiveInv, TypeOK, Call, Shapes, CallShape
        <3>5. sup.pc = "insert" => fwd'[sup.id] = sup.topic
            BY <1>0, <2>4, <3>1 DEF IInv, LiveInv, TypeOK, Supervisor, Shapes, SupShape
        <3>6. \A p \in sup.todo : /\ fwd'[p[2]] \in {p[1], None}
                                  /\ \A j \in Task : task'[j].pc = "insert" => task'[j].id # p[2]
            BY <1>0, <2>3, <2>4, <3>0, <3>1 DEF LiveInv, TypeOK, Supervisor
        <3> QED BY <1>2, <3>2, <3>3, <3>4, <3>5, <3>6 DEF LiveInv
    <2> QED BY <1>5, <2>5, <2>6, <2>7, <2>8, <2>9 DEF IInv, Kept
<1>8. CASE (PostFailed \/ PostLost(t)) /\ Return(k) /\ Release(k)
    <2>1. /\ task' \in [Task -> Call] /\ task'[k] = Free
          /\ \A j \in Task : j # k => task'[j] = task[j]
        BY <1>0, <1>8, ReturnEffect
    <2>2. holder' \in [Lock -> Task \cup {None}]
        BY <1>0, <1>8, ReleaseEffect
    <2>3. TypeOK' /\ Shapes'
        BY <1>2, <1>4, <2>1, <2>2, NoneAssumption DEF IInv, TypeOK, Shapes, SupShape, CallShape, Free
    <2>4. SameTopic'
        BY <1>6, <2>1 DEF SameTopic, Free
    <2>5. LockInv'
        BY <1>2, <1>8, <2>1, ReleaseInv
    <2>6. NoLeak'
        <3>1. \A s \in Sub \ stray' : fwd'[s] = fwd[s] /\ s \notin stray
            BY <1>0, <1>4, <1>8 DEF PostFailed, PostLost, daemon, TypeOK
        <3> QED BY <1>1, <1>2, <2>1, <3>1, NoneAssumption DEF IInv, NoLeak, Free
    <2>7. Answered /\ LiveInv => FALSE
        BY <1>8 DEF Answered, LiveInv, PostFailed, PostLost
    <2> QED BY <1>5, <2>3, <2>4, <2>5, <2>6, <2>7 DEF IInv, Kept
<1> QED BY <1>1, <1>7, <1>8 DEF EnsurePost

\* The new forwarder goes on record: the topic had none.
LEMMA EnsureInsertInv ==
    ASSUME IInv, NEW k \in Task, EnsureInsert(k)
    PROVE  Kept
<1>0. task[k] \in Call /\ task[k].pc = "insert" /\ CallShape(task[k]) /\ TypeOK
    BY DEF IInv, TypeOK, EnsureInsert, Shapes
<1>1. PICK t \in Topic, s \in Sub : task[k].topic = t /\ task[k].id = s /\ task[k].lock \in Lock
    BY <1>0 DEF CallShape, Call
<1>2. UNCHANGED <<inflight, sup, fwd, stray, up, crossed>> /\ Release(k)
    BY DEF EnsureInsert, daemon
<1>3. /\ task' \in [Task -> Call] /\ task'[k] = Free
      /\ \A j \in Task : j # k => task'[j] = task[j]
    BY <1>0, ReturnEffect DEF EnsureInsert
<1>4. /\ topics' \in [Topic -> Sub \cup {None}] /\ topics'[t] = s
      /\ \A u \in Topic : u # t => topics'[u] = topics[u]
    BY <1>0, <1>1 DEF EnsureInsert, TypeOK
<1>5. holder' \in [Lock -> Task \cup {None}]
    BY <1>0, <1>2, ReleaseEffect
<1>6. fwd[s] \in {t, None} /\ (t \notin crossed => topics[t] = None)
    BY <1>0, <1>1, NoneAssumption DEF IInv, SameTopic, LockInv, Subscribing
<1>7. TypeOK' /\ Shapes'
    BY <1>2, <1>3, <1>4, <1>5, NoneAssumption DEF IInv, TypeOK, Shapes, SupShape, CallShape, Free
<1>8. SameTopic'
    BY <1>2, <1>3, <1>4, <1>6 DEF IInv, SameTopic, Free
<1>9. LockInv'
    <2>1. ASSUME NEW j \in Task, j # k, Subscribing(j, t), t \notin crossed PROVE FALSE
        <3>1. /\ holder[task[j].lock] = j /\ holder[task[k].lock] = k
              /\ task[j].lock # None /\ task[k].lock # None
            BY <1>0, <2>1 DEF IInv, LockInv, Subscribing, Shapes, CallShape
        <3>2. inflight[t] = task[j].lock /\ inflight[t] = task[k].lock
            BY <1>1, <2>1, <3>1 DEF IInv, LockInv, Subscribing
        <3> QED BY <2>1, <3>1, <3>2
    <2>2. \A u \in Topic \ crossed' : topics'[u] # topics[u] =>
              \A j \in Task : j # k => ~Subscribing(j, u)
        BY <1>2, <1>4, <2>1
    <2> QED BY <1>2, <1>3, <2>2, ReleaseInv
<1>10. SnapshotInv'
    <2>1. sup \in Supervisor /\ sup' = sup /\ crossed' = crossed
        BY <1>0, <1>2 DEF TypeOK
    <2>2. \A p \in sup.todo : p[1] \in Topic /\ p[2] \in Sub
        BY <2>1 DEF Supervisor
    <2>3. \A p \in sup.todo : p[1] \notin crossed => topics'[p[1]] = p[2] /\ sup.topic # p[1]
        BY <1>4, <1>6, <2>2, NoneAssumption DEF IInv, SnapshotInv
    <2>4. sup.topic # None /\ sup.topic \notin crossed => sup.topic # t /\ sup.topic \in Topic
        BY <1>6, <2>1 DEF IInv, SnapshotInv, Supervisor
    <2> QED BY <1>2, <1>4, <2>1, <2>3, <2>4 DEF IInv, SnapshotInv
<1>11. NoLeak'
    <2> SUFFICES ASSUME NEW r \in Sub \ stray, fwd[r] # None, fwd[r] \notin crossed
                 PROVE  topics'[fwd[r]] = r \/ (\E j \in Task : task'[j].id = r) \/ sup'.id = r
        BY <1>2 DEF NoLeak
    <2>0. fwd[r] \in Topic
        BY <1>0 DEF TypeOK
    <2>1. CASE topics[fwd[r]] = r
        BY <1>4, <1>6, <2>0, <2>1, NoneAssumption
    <2>2. CASE \E j \in Task : task[j].id = r
        BY <1>1, <1>3, <1>4, <1>6, <2>2
    <2>3. CASE sup.id = r
        BY <1>2, <2>3
    <2> QED BY <2>1, <2>2, <2>3 DEF IInv, NoLeak
<1>12. LiveInv => LiveInv'
    <2> SUFFICES ASSUME LiveInv PROVE LiveInv'
        OBVIOUS
    <2>0. fwd[s] = t /\ s # None /\ task[k].pc = "insert"
        BY <1>0, <1>1, NoneAssumption DEF LiveInv
    <2>1. /\ \A u \in Topic : topics[u] # s
          /\ \A j \in Task : j # k => task[j].id # s
          /\ sup.id # s
        BY <1>1, <2>0 DEF LiveInv, OneOwner
    <2>2. OneOwner'
        BY <1>2, <1>3, <1>4, <2>0, <2>1 DEF LiveInv, OneOwner, Free
    <2>3. \A u \in Topic : topics'[u] # None => fwd[topics'[u]] = u \/ sup.topic = u
        BY <1>4, <2>0 DEF LiveInv
    <2>4. /\ \A j \in Task : task'[j].pc = "insert" => fwd[task'[j].id] = task'[j].topic
          /\ \A p \in sup.todo : \A j \in Task : task'[j].pc = "insert" => task'[j].id # p[2]
        BY <1>3 DEF LiveInv, Free
    <2> QED BY <1>2, <2>2, <2>3, <2>4 DEF LiveInv
<1> QED BY <1>7, <1>8, <1>9, <1>10, <1>11, <1>12 DEF IInv, Kept

----------------------------------------------------------------------------
(* Removal.                                                                *)

\* A call that holds nothing moves on: locks and subscribers stay as they are.
LEMMA QuietLockInv ==
    ASSUME IInv, NEW k \in Task, task[k].lock = None, task'[k].lock = None,
           task'[k].pc \notin {"post", "insert"},
           \A j \in Task : j # k => task'[j] = task[j],
           UNCHANGED holder, crossed \subseteq crossed',
           \A t \in Topic \ crossed' : inflight'[t] = inflight[t] \/ ~Locking(t),
           \A t \in Topic : topics'[t] = topics[t] \/ topics'[t] = None
    PROVE  LockInv'
<1>0. LockInv /\ Shapes
    BY DEF IInv
<1>1. \A j \in Task : task'[j].pc \in {"post", "insert"} => holder'[task'[j].lock] = j
    BY <1>0 DEF LockInv
<1>2. ASSUME NEW j \in Task, task'[j].lock # None, task'[j].topic \notin crossed'
      PROVE  inflight'[task'[j].topic] = task'[j].lock
    <2>1. j # k /\ task'[j] = task[j]
        BY <1>2
    <2>2. task[j].topic \in Topic /\ Locking(task[j].topic)
        BY <1>0, <1>2, <2>1 DEF Shapes, CallShape, Locking
    <2> QED BY <1>0, <1>2, <2>1, <2>2 DEF LockInv
<1>3. \A j \in Task, t \in Topic \ crossed' : Subscribing(j, t)' => topics'[t] = None
    <2> SUFFICES ASSUME NEW j \in Task, NEW t \in Topic \ crossed', Subscribing(j, t)'
                 PROVE  topics'[t] = None
        OBVIOUS
    <2>1. j # k /\ Subscribing(j, t)
        BY DEF Subscribing
    <2> QED BY <1>0, <2>1 DEF LockInv
<1> QED BY <1>1, <1>2, <1>3 DEF LockInv

\* The topic is forgotten; a topic in the supervisor's snapshot is marked.
LEMMA RemoveTakeInv ==
    ASSUME IInv, NEW k \in Task, RemoveTake(k)
    PROVE  Kept
<1>0. task[k] \in Call /\ task[k].pc = "remove" /\ CallShape(task[k]) /\ TypeOK
    BY DEF IInv, TypeOK, RemoveTake, Shapes
<1>1. PICK t \in Topic : task[k].topic = t /\ task[k].lock = None /\ task[k].id = None
    BY <1>0 DEF CallShape
<1>2. UNCHANGED <<inflight, holder, sup, fwd, stray, up>>
    BY DEF RemoveTake, daemon
<1>3. PICK s \in Sub \cup {None} : s = topics[t]
    BY <1>0 DEF TypeOK
<1>4. PICK c \in Call : /\ task' = [task EXCEPT ![k] = c]
                        /\ c.pc = "unlock" /\ c.topic = t /\ c.lock = None /\ c.id = s
    <2>1. PICK d \in Call : d = task[k]
        BY <1>0
    <2> DEFINE e == [d EXCEPT !.pc = "unlock", !.id = s]
    <2>2. e \in Call /\ e.pc = "unlock" /\ e.topic = d.topic /\ e.lock = d.lock /\ e.id = s
        BY DEF Call, TaskPc
    <2>3. task' = [task EXCEPT ![k] = e]
        BY <1>0, <1>1, <1>3, <2>1 DEF RemoveTake, TypeOK
    <2> HIDE DEF e
    <2> QED BY <1>1, <2>1, <2>2, <2>3
<1>5. /\ task' \in [Task -> Call] /\ task'[k] = c
      /\ \A j \in Task : j # k => task'[j] = task[j]
    BY <1>0, <1>4 DEF TypeOK
<1>6. /\ topics' \in [Topic -> Sub \cup {None}] /\ topics'[t] = None
      /\ \A u \in Topic : u # t => topics'[u] = topics[u]
    BY <1>0, <1>1 DEF RemoveTake, TypeOK
<1>7. /\ crossed' \subseteq Topic /\ crossed \subseteq crossed'
      /\ Snapshot(t) => t \in crossed'
    BY <1>0, <1>1 DEF RemoveTake, TypeOK
<1>8. TypeOK' /\ Shapes'
    BY <1>2, <1>4, <1>5, <1>6, <1>7, NoneAssumption DEF IInv, TypeOK, Shapes, SupShape, CallShape
<1>9. SameTopic'
    BY <1>2, <1>3, <1>4, <1>5, <1>6 DEF IInv, SameTopic
<1>10. LockInv'
    BY <1>1, <1>2, <1>4, <1>5, <1>6, <1>7, QuietLockInv
<1>11. SnapshotInv'
    <2>1. sup \in Supervisor
        BY <1>0 DEF TypeOK
    <2>2. \A p \in sup.todo : p[1] \notin crossed' => p[1] \in Topic /\ p[1] # t
        BY <1>7, <2>1 DEF Supervisor, Snapshot
    <2>3. sup.topic # None /\ sup.topic \notin crossed' => sup.topic \in Topic /\ sup.topic # t
        BY <1>7, <2>1 DEF Supervisor, Snapshot
    <2> QED BY <1>2, <1>6, <1>7, <2>2, <2>3 DEF IInv, SnapshotInv
<1>12. NoLeak'
    <2> SUFFICES ASSUME NEW r \in Sub \ stray, fwd[r] # None, fwd[r] \notin crossed
                 PROVE  \/ topics'[fwd[r]] = r \/ sup.id = r \/ \E j \in Task : task'[j].id = r
        BY <1>2, <1>7 DEF NoLeak
    <2>0. fwd[r] \in Topic /\ task[k].id # r
        BY <1>0, <1>1, NoneAssumption DEF TypeOK
    <2>1. CASE topics[fwd[r]] = r
        BY <1>3, <1>4, <1>5, <1>6, <2>0, <2>1
    <2>2. CASE sup.id = r \/ \E j \in Task : task[j].id = r
        BY <1>5, <2>0, <2>2
    <2> QED BY <2>1, <2>2 DEF IInv, NoLeak
<1>13. LiveInv => LiveInv'
    <2> SUFFICES ASSUME LiveInv PROVE LiveInv'
        OBVIOUS
    <2>0. task'[k].id = topics[t] /\ task'[k].pc = "unlock"
        BY <1>3, <1>4, <1>5
    <2>1. OneOwner'
        BY <1>2, <1>5, <1>6, <2>0 DEF LiveInv, OneOwner
    <2>2. \A u \in Topic : topics'[u] # None => fwd[topics'[u]] = u \/ sup.topic = u
        BY <1>6 DEF LiveInv
    <2>3. /\ \A j \in Task : task'[j].pc = "insert" => fwd[task'[j].id] = task'[j].topic
          /\ \A p \in sup.todo : \A j \in Task : task'[j].pc = "insert" => task'[j].id # p[2]
        BY <1>5, <2>0 DEF LiveInv
    <2> QED BY <1>2, <2>1, <2>2, <2>3 DEF LiveInv
<1> QED BY <1>8, <1>9, <1>10, <1>11, <1>12, <1>13 DEF IInv, Kept

\* The flight lock is forgotten; a topic some call has locked is marked.
LEMMA RemoveUnlockInv ==
    ASSUME IInv, NEW k \in Task, RemoveUnlock(k)
    PROVE  Kept
<1>0. task[k] \in Call /\ task[k].pc = "unlock" /\ CallShape(task[k]) /\ TypeOK
    BY DEF IInv, TypeOK, RemoveUnlock, Shapes
<1>1. PICK t \in Topic : task[k].topic = t /\ task[k].lock = None
    BY <1>0 DEF CallShape
<1>2. UNCHANGED <<topics, holder, sup, fwd, stray, up>>
    BY DEF RemoveUnlock, daemon
<1>3. PICK c \in Call : /\ task' \in [Task -> Call] /\ task'[k] = c
                        /\ \A j \in Task : j # k => task'[j] = task[j]
                        /\ c.lock = None /\ c.id = task[k].id
                        /\ \/ c.id = None /\ c.pc = "free" /\ c.topic = None
                           \/ c.id # None /\ c.pc = "delete" /\ c.topic = t
    <2>1. CASE task[k].id = None /\ Return(k)
        <3>1. Free \in Call
            BY DEF Free, Call, TaskPc
        <3> QED BY <1>0, <2>1, <3>1, ReturnEffect DEF Free
    <2>2. CASE task[k].id # None /\ Goto(k, "delete")
        <3>1. /\ task' \in [Task -> Call]
              /\ task'[k] = [pc |-> "delete", topic |-> task[k].topic, lock |-> task[k].lock, id |-> task[k].id]
              /\ \A j \in Task : j # k => task'[j] = task[j]
            BY <1>0, <2>2, GotoEffect DEF TaskPc
        <3>2. task'[k] \in Call
            BY <3>1
        <3> QED BY <1>1, <2>2, <3>1, <3>2
    <2> QED BY <2>1, <2>2 DEF RemoveUnlock
<1>4. /\ inflight' \in [Topic -> Lock \cup {None}]
      /\ \A u \in Topic : u # t => inflight'[u] = inflight[u]
    BY <1>0, <1>1 DEF RemoveUnlock, TypeOK
<1>5. /\ crossed' \subseteq Topic /\ crossed \subseteq crossed'
      /\ Locking(t) => t \in crossed'
    BY <1>0, <1>1 DEF RemoveUnlock, TypeOK
<1>6. TypeOK' /\ Shapes'
    BY <1>2, <1>3, <1>4, <1>5, NoneAssumption DEF IInv, TypeOK, Shapes, SupShape, CallShape
<1>7. SameTopic'
    BY <1>1, <1>2, <1>3 DEF IInv, SameTopic
<1>8. LockInv'
    BY <1>1, <1>2, <1>3, <1>4, <1>5, QuietLockInv
<1>9. SnapshotInv'
    BY <1>2, <1>5 DEF IInv, SnapshotInv
<1>10. NoLeak'
    BY <1>2, <1>3, <1>5 DEF IInv, NoLeak
<1>11. LiveInv => LiveInv'
    BY <1>2, <1>3, QuietLive
<1> QED BY <1>6, <1>7, <1>8, <1>9, <1>10, <1>11 DEF IInv, Kept

\* What is deleted is gone, or given up when the DELETE fails.
LEMMA RemoveDeleteInv ==
    ASSUME IInv, NEW k \in Task, RemoveDelete(k)
    PROVE  Kept
<1>0. task[k] \in Call /\ task[k].pc = "delete" /\ CallShape(task[k]) /\ TypeOK
    BY DEF IInv, TypeOK, RemoveDelete, Shapes
<1>1. PICK s \in Sub : task[k].id = s /\ task[k].lock = None
    BY <1>0 DEF CallShape, Call
<1>2. UNCHANGED <<topics, inflight, holder, sup, up, crossed>>
    BY DEF RemoveDelete
<1>3. /\ task' \in [Task -> Call] /\ task'[k] = Free
      /\ \A j \in Task : j # k => task'[j] = task[j]
    BY <1>0, ReturnEffect DEF RemoveDelete
<1>4. /\ fwd' \in [Sub -> Topic \cup {None}] /\ stray' \subseteq Sub
      /\ \A r \in Sub : fwd'[r] = fwd[r] \/ fwd'[r] = None
      /\ \A r \in stray : r \in stray' \/ fwd'[r] = None
      /\ fwd'[s] = None \/ s \in stray'
    BY <1>0, <1>1, DeleteEffect DEF RemoveDelete
<1>5. TypeOK' /\ Shapes'
    BY <1>2, <1>3, <1>4, NoneAssumption DEF IInv, TypeOK, Shapes, SupShape, CallShape, Free
<1>6. SameTopic'
    BY <1>0, <1>2, <1>3, <1>4 DEF IInv, SameTopic, TypeOK, Call, Supervisor, Free
<1>7. LockInv'
    BY <1>1, <1>2, <1>3, QuietLockInv DEF Free
<1>8. SnapshotInv'
    <2>1. \A u \in Topic : topics[u] # None => topics[u] \in Sub
        BY <1>0 DEF TypeOK
    <2>2. sup.topic # None => sup.topic \in Topic
        BY <1>0 DEF TypeOK, Supervisor
    <2> QED BY <1>2, <1>4, <2>1, <2>2 DEF IInv, SnapshotInv
<1>9. NoLeak'
    <2> SUFFICES ASSUME NEW r \in Sub \ stray', fwd'[r] # None, fwd'[r] \notin crossed
                 PROVE  \/ topics[fwd'[r]] = r \/ sup.id = r \/ \E j \in Task : task'[j].id = r
        BY <1>2 DEF NoLeak
    <2>1. r \notin stray /\ fwd'[r] = fwd[r] /\ r # s
        BY <1>4
    <2> QED BY <1>1, <1>3, <2>1 DEF IInv, NoLeak
<1>10. LiveInv => LiveInv'
    <2> SUFFICES ASSUME LiveInv PROVE LiveInv'
        OBVIOUS
    <2>0. s # None /\ \A r \in Sub : r # s => fwd'[r] = fwd[r]
        BY <1>0, <1>1, NoneAssumption DEF RemoveDelete, DeleteServed, DeleteFailed, TypeOK
    <2>1. /\ \A u \in Topic : topics[u] # s
          /\ \A j \in Task : j # k => task[j].id # s
          /\ sup.id # s
        BY <1>1, <2>0 DEF LiveInv, OneOwner
    <2>2. OneOwner'
        BY <1>2, <1>3 DEF LiveInv, OneOwner, Free
    <2>3. \A u \in Topic : topics[u] # None => fwd'[topics[u]] = u \/ sup.topic = u
        BY <1>0, <2>0, <2>1 DEF LiveInv, TypeOK
    <2>4. \A j \in Task : task'[j].pc = "insert" => fwd'[task'[j].id] = task'[j].topic
        BY <1>0, <1>3, <2>0, <2>1 DEF IInv, LiveInv, TypeOK, Call, Shapes, CallShape, Free
    <2>5. sup.pc = "insert" => fwd'[sup.id] = sup.topic
        BY <1>0, <2>0, <2>1 DEF IInv, LiveInv, TypeOK, Supervisor, Shapes, SupShape
    <2>6. \A p \in sup.todo : /\ fwd'[p[2]] \in {p[1], None}
                              /\ \A j \in Task : task'[j].pc = "insert" => task'[j].id # p[2]
        BY <1>0, <1>3, <1>4 DEF LiveInv, TypeOK, Supervisor, Free
    <2> QED BY <1>2, <2>2, <2>3, <2>4, <2>5, <2>6 DEF LiveInv
<1> QED BY <1>5, <1>6, <1>7, <1>8, <1>9, <1>10 DEF IInv, Kept

----------------------------------------------------------------------------
(* The supervisor and the daemon.                                          *)

\* A step of the supervisor leaves calls, locks and records alone.
LEMMA SupLockInv ==
    ASSUME LockInv, UNCHANGED <<inflight, holder, task, crossed, topics>>
    PROVE  LockInv'
BY DEF LockInv, Subscribing

\* connect_sse, the end of a stream, and the end of a re-subscription.
LEMMA SupIdleInv ==
    ASSUME IInv, SseConnect \/ SseEnd \/ ResubDone \/ DaemonStart
    PROVE  Kept
<1>0. TypeOK /\ Shapes
    BY DEF IInv
<1>1. UNCHANGED <<topics, inflight, holder, task, fwd, stray, crossed>> /\ up' \in BOOLEAN
    BY <1>0 DEF SseConnect, SseEnd, ResubDone, DaemonStart, daemon, TypeOK
<1>2. /\ sup' \in Supervisor
      /\ sup'.todo = sup.todo /\ sup'.topic = sup.topic /\ sup'.id = sup.id
      /\ \/ sup' = sup
         \/ sup.pc \in {"connect", "stream", "next"} /\ sup'.pc \in {"connect", "stream", "resub"}
            /\ sup.todo = {}
    <2>1. PICK d \in Supervisor : d = sup
        BY <1>0 DEF TypeOK
    <2>2. ASSUME NEW pc \in SupPc, sup' = [sup EXCEPT !.pc = pc]
          PROVE  /\ sup' \in Supervisor /\ sup'.pc = pc
                 /\ sup'.todo = sup.todo /\ sup'.topic = sup.topic /\ sup'.id = sup.id
        <3>1. [d EXCEPT !.pc = pc] \in Supervisor /\ [d EXCEPT !.pc = pc].pc = pc
              /\ [d EXCEPT !.pc = pc].todo = d.todo /\ [d EXCEPT !.pc = pc].topic = d.topic
              /\ [d EXCEPT !.pc = pc].id = d.id
            BY DEF Supervisor
        <3> QED BY <2>1, <2>2, <3>1
    <2>3. /\ "stream" \in SupPc /\ "resub" \in SupPc /\ "connect" \in SupPc
          /\ sup.pc \in {"connect", "stream"} => sup.todo = {}
        BY <1>0 DEF SupPc, Shapes, SupShape
    <2> QED BY <2>1, <2>2, <2>3 DEF SseConnect, SseEnd, ResubDone, DaemonStart
<1>3. TypeOK' /\ Shapes'
    BY <1>1, <1>2 DEF IInv, TypeOK, Shapes, SupShape, CallShape
<1>4. SameTopic' /\ NoLeak'
    BY <1>1, <1>2 DEF IInv, SameTopic, NoLeak
<1>5. LockInv'
    BY <1>1, SupLockInv DEF IInv
<1>6. SnapshotInv'
    BY <1>1, <1>2 DEF IInv, SnapshotInv
<1>7. LiveInv => LiveInv'
    BY <1>1, <1>2, QuietLive DEF LiveInv, SseConnect, SseEnd, ResubDone, DaemonStart
<1> QED BY <1>3, <1>4, <1>5, <1>6, <1>7 DEF IInv, Kept

\* The snapshot holds the topics that are on record.
LEMMA ResubscribeInv ==
    ASSUME IInv, Resubscribe
    PROVE  Kept
<1>0. TypeOK /\ Shapes /\ sup.pc = "resub" /\ sup \in Supervisor
    BY DEF IInv, TypeOK, Resubscribe
<1> DEFINE S == {<<t, topics[t]>> : t \in {u \in Topic : topics[u] # None}}
<1>1. S \in SUBSET (Topic \X Sub) /\ \A p \in S : p[1] \in Topic /\ topics[p[1]] = p[2] /\ p[2] # None
    BY <1>0 DEF TypeOK
<1>2. UNCHANGED <<topics, inflight, holder, task, fwd, stray, up, crossed>>
    BY DEF Resubscribe, daemon
<1>3. sup' = [sup EXCEPT !.pc = "next", !.todo = S]
    BY DEF Resubscribe
<1> HIDE DEF S
<1>4. PICK d \in Supervisor : d = sup
    BY <1>0
<1>5. /\ sup' \in Supervisor /\ sup'.pc = "next" /\ sup'.todo = S
      /\ sup'.topic = sup.topic /\ sup'.id = sup.id
    <2> DEFINE e == [d EXCEPT !.pc = "next", !.todo = S]
    <2>1. e \in Supervisor /\ e.pc = "next" /\ e.todo = S /\ e.topic = d.topic /\ e.id = d.id
        BY <1>1 DEF Supervisor, SupPc
    <2>2. sup' = e
        BY <1>3, <1>4, Zenon
    <2> HIDE DEF e
    <2> QED BY <1>4, <2>1, <2>2
<1>6. sup.topic = None /\ sup.id = None
    BY <1>0 DEF Shapes, SupShape
<1>7. TypeOK' /\ Shapes'
    BY <1>2, <1>5, <1>6 DEF IInv, TypeOK, Shapes, SupShape, CallShape
<1>8. SameTopic' /\ NoLeak'
    BY <1>2, <1>5 DEF IInv, SameTopic, NoLeak
<1>9. LockInv'
    BY <1>2, SupLockInv DEF IInv
<1>10. SnapshotInv'
    BY <1>1, <1>2, <1>5, <1>6, NoneAssumption DEF SnapshotInv
<1>11. LiveInv => LiveInv'
    <2> SUFFICES ASSUME LiveInv PROVE LiveInv'
        OBVIOUS
    <2>1. OneOwner'
        BY <1>2, <1>5 DEF LiveInv, OneOwner
    <2>2. \A p \in S : /\ fwd[p[2]] \in {p[1], None}
                       /\ \A k \in Task : task[k].pc = "insert" => task[k].id # p[2]
        BY <1>0, <1>1 DEF IInv, SameTopic, LiveInv, OneOwner, Shapes, CallShape
    <2> QED BY <1>2, <1>5, <2>1, <2>2 DEF LiveInv
<1> QED BY <1>7, <1>8, <1>9, <1>10, <1>11 DEF IInv, Kept

\* The stale forwarder is gone or given up before the new one is asked for.
LEMMA ResubDeleteInv ==
    ASSUME IInv, ResubDelete
    PROVE  Kept
<1>0. TypeOK /\ Shapes /\ sup.pc = "next" /\ sup \in Supervisor
    BY DEF IInv, TypeOK, ResubDelete
<1>1. PICK p \in sup.todo : /\ DeleteServed(p[2]) \/ DeleteFailed(p[2])
                            /\ sup' = [sup EXCEPT !.pc = "post", !.topic = p[1], !.todo = @ \ {p}]
    BY DEF ResubDelete
<1>2. PICK t \in Topic, s \in Sub : p = <<t, s>>
    BY <1>0 DEF Supervisor
<1>3. UNCHANGED <<topics, inflight, holder, task, up, crossed>>
    BY DEF ResubDelete
<1>4. /\ fwd' \in [Sub -> Topic \cup {None}] /\ stray' \subseteq Sub
      /\ \A r \in Sub : fwd'[r] = fwd[r] \/ fwd'[r] = None
      /\ \A r \in stray : r \in stray' \/ fwd'[r] = None
      /\ fwd'[s] = None \/ s \in stray'
    BY <1>0, <1>1, <1>2, DeleteEffect
<1>5. /\ sup' \in Supervisor /\ sup'.pc = "post" /\ sup'.topic = t
      /\ sup'.todo = sup.todo \ {p} /\ sup'.id = sup.id
    <2>1. PICK d \in Supervisor : d = sup
        BY <1>0
    <2> DEFINE e == [d EXCEPT !.pc = "post", !.topic = t, !.todo = d.todo \ {p}]
    <2>2. e \in Supervisor /\ e.pc = "post" /\ e.topic = t /\ e.todo = d.todo \ {p} /\ e.id = d.id
        BY DEF Supervisor, SupPc
    <2>3. sup' = e
        <3>1. p[1] = t
            BY <1>2
        <3> QED BY <1>1, <2>1, <3>1, Zenon
    <2> HIDE DEF e
    <2> QED BY <2>1, <2>2, <2>3
<1>6. sup.topic = None /\ sup.id = None
    BY <1>0 DEF Shapes, SupShape
<1>7. TypeOK' /\ Shapes'
    BY <1>3, <1>4, <1>5, <1>6, NoneAssumption DEF IInv, TypeOK, Shapes, SupShape, CallShape
<1>8. SameTopic'
    BY <1>0, <1>3, <1>4, <1>5, <1>6 DEF IInv, SameTopic, TypeOK, Call
<1>9. LockInv'
    BY <1>3, SupLockInv DEF IInv
<1>10. SnapshotInv'
    <2>1. \A q \in sup.todo : q \in Topic \X Sub /\ (q[1] \notin crossed => topics[q[1]] = q[2])
        BY <1>0 DEF IInv, SnapshotInv, Supervisor
    <2>2. \A q \in sup.todo \ {p} : q[1] \notin crossed => q[1] # t
        BY <1>2, <2>1
    <2>3. t \notin crossed => topics[t] = s /\ s # None
        BY <1>2, <2>1, NoneAssumption
    <2> QED BY <1>3, <1>4, <1>5, <2>1, <2>2, <2>3 DEF SnapshotInv
<1>11. NoLeak'
    <2> SUFFICES ASSUME NEW r \in Sub \ stray', fwd'[r] # None, fwd'[r] \notin crossed
                 PROVE  \/ topics[fwd'[r]] = r \/ sup.id = r \/ \E j \in Task : task[j].id = r
        BY <1>3, <1>5 DEF NoLeak
    <2>1. r \notin stray /\ fwd'[r] = fwd[r]
        BY <1>4
    <2> QED BY <2>1 DEF IInv, NoLeak
<1>12. LiveInv => LiveInv'
    <2> SUFFICES ASSUME LiveInv PROVE LiveInv'
        OBVIOUS
    <2>0. \A r \in Sub : r # s => fwd'[r] = fwd[r]
        BY <1>0, <1>1, <1>2 DEF DeleteServed, DeleteFailed, TypeOK
    <2>1. /\ fwd[s] \in {t, None}
          /\ \A k \in Task : task[k].pc = "insert" => task[k].id # s
        BY <1>1, <1>2 DEF LiveInv
    <2>2. OneOwner'
        BY <1>3, <1>5 DEF LiveInv, OneOwner
    <2>3. \A u \in Topic : topics[u] # None => fwd'[topics[u]] = u \/ u = t
        <3>1. \A u \in Topic : topics[u] # None => topics[u] \in Sub /\ fwd[topics[u]] = u /\ u # None
            BY <1>0, <1>6, NoneAssumption DEF LiveInv, TypeOK
        <3> QED BY <2>0, <2>1, <3>1
    <2>4. \A j \in Task : task[j].pc = "insert" => fwd'[task[j].id] = task[j].topic
        BY <1>0, <2>0, <2>1 DEF LiveInv, TypeOK, Call, Shapes, CallShape
    <2>5. \A q \in sup.todo : fwd'[q[2]] \in {q[1], None}
        BY <1>0, <1>4 DEF LiveInv, Supervisor
    <2> QED BY <1>3, <1>5, <2>2, <2>3, <2>4, <2>5 DEF LiveInv
<1> QED BY <1>7, <1>8, <1>9, <1>10, <1>11, <1>12 DEF IInv, Kept

\* The POST of a re-subscription: the new id is in the supervisor's hands.
LEMMA ResubPostInv ==
    ASSUME IInv, ResubPost
    PROVE  Kept
<1>0. TypeOK /\ Shapes /\ sup.pc = "post" /\ sup \in Supervisor
    BY DEF IInv, TypeOK, ResubPost
<1>1. PICK t \in Topic : sup.topic = t
    BY <1>0 DEF Shapes, SupShape, Supervisor
<1>2. sup.id = None
    BY <1>0 DEF Shapes, SupShape
<1>3. UNCHANGED <<topics, inflight, holder, task, up, crossed>>
    BY DEF ResubPost
<1>4. (\E s \in Sub : PostServed(t, s)) \/ PostFailed \/ PostLost(t)
    BY <1>1 DEF ResubPost
<1>5. /\ fwd' \in [Sub -> Topic \cup {None}] /\ stray \subseteq stray' /\ stray' \subseteq Sub
      /\ \A s \in Sub : ~NewSub(s) => fwd'[s] = fwd[s]
    BY <1>0, <1>4, PostEffect
<1>6. /\ \A u \in Topic : topics[u] # None => topics[u] \in Sub /\ fwd'[topics[u]] = fwd[topics[u]]
      /\ \A j \in Task : task[j].id # None => task[j].id \in Sub /\ fwd'[task[j].id] = fwd[task[j].id]
    <2>1. \A u \in Topic : topics[u] # None => topics[u] \in Sub /\ ~NewSub(topics[u])
        BY <1>0 DEF NewSub, TypeOK
    <2>2. \A j \in Task : task[j].id # None => task[j].id \in Sub /\ ~NewSub(task[j].id)
        BY <1>0 DEF NewSub, TypeOK, Call
    <2> QED BY <1>5, <2>1, <2>2
<1>7. LockInv'
    BY <1>3, SupLockInv DEF IInv
<1>8. CASE \E s \in Sub : PostServed(t, s) /\ sup' = [sup EXCEPT !.pc = "insert", !.id = s]
    <2>1. PICK s \in Sub : PostServed(t, s) /\ sup' = [sup EXCEPT !.pc = "insert", !.id = s]
        BY <1>8
    <2>2. /\ sup' \in Supervisor /\ sup'.pc = "insert" /\ sup'.topic = t
          /\ sup'.todo = sup.todo /\ sup'.id = s
        <3>1. PICK d \in Supervisor : d = sup
            BY <1>0
        <3> DEFINE e == [d EXCEPT !.pc = "insert", !.id = s]
        <3>2. e \in Supervisor /\ e.pc = "insert" /\ e.topic = d.topic /\ e.todo = d.todo /\ e.id = s
            BY DEF Supervisor, SupPc
        <3>3. sup' = e
            BY <2>1, <3>1, Zenon
        <3> HIDE DEF e
        <3> QED BY <1>1, <3>1, <3>2, <3>3
    <2>3. fwd'[s] = t /\ stray' = stray /\ \A r \in Sub : r # s => fwd'[r] = fwd[r]
        BY <1>0, <2>1 DEF PostServed, TypeOK
    <2>4. TypeOK' /\ Shapes'
        BY <1>3, <1>5, <2>2, NoneAssumption DEF IInv, TypeOK, Shapes, SupShape, CallShape
    <2>5. SameTopic'
        BY <1>3, <1>6, <2>2, <2>3 DEF IInv, SameTopic
    <2>6. SnapshotInv'
        BY <1>1, <1>3, <1>5, <1>6, <2>2, NoneAssumption DEF IInv, SnapshotInv
    <2>7. NoLeak'
        <3> SUFFICES ASSUME NEW r \in Sub \ stray, fwd'[r] # None, fwd'[r] \notin crossed
                     PROVE  \/ topics[fwd'[r]] = r \/ r = s \/ \E j \in Task : task[j].id = r
            BY <1>3, <2>2, <2>3 DEF NoLeak
        <3>1. CASE r # s
            <4>1. fwd'[r] = fwd[r] /\ sup.id # r
                BY <1>2, <2>3, <3>1, NoneAssumption
            <4> QED BY <4>1 DEF IInv, NoLeak
        <3> QED BY <3>1
    <2>8. LiveInv => LiveInv'
        <3> SUFFICES ASSUME LiveInv PROVE LiveInv'
            OBVIOUS
        <3>1. /\ \A u \in Topic : topics[u] # s
              /\ \A j \in Task : task[j].id # s
              /\ \A p \in sup.todo : p[2] # s
            BY <2>1, Remembered DEF PostServed
        <3>2. OneOwner'
            BY <1>3, <2>2, <3>1 DEF LiveInv, OneOwner
        <3>3. \A u \in Topic : topics[u] # None => fwd'[topics[u]] = u \/ u = t
            BY <1>1, <1>6 DEF LiveInv
        <3>4. \A j \in Task : task[j].pc = "insert" => fwd'[task[j].id] = task[j].topic
            BY <1>0, <1>6 DEF LiveInv, Shapes, CallShape
        <3>5. \A p \in sup.todo : fwd'[p[2]] \in {p[1], None}
            BY <1>0, <2>3, <3>1 DEF LiveInv, Supervisor
        <3> QED BY <1>3, <2>2, <2>3, <3>2, <3>3, <3>4, <3>5 DEF LiveInv
    <2> QED BY <1>7, <2>4, <2>5, <2>6, <2>7, <2>8 DEF IInv, Kept
<1>9. CASE (PostFailed \/ PostLost(t)) /\ sup' = [sup EXCEPT !.pc = "next", !.topic = None]
    <2>1. /\ sup' \in Supervisor /\ sup'.pc = "next" /\ sup'.topic = None
          /\ sup'.todo = sup.todo /\ sup'.id = None
        <3>1. PICK d \in Supervisor : d = sup
            BY <1>0
        <3> DEFINE e == [d EXCEPT !.pc = "next", !.topic = None]
        <3>2. e \in Supervisor /\ e.pc = "next" /\ e.topic = None /\ e.todo = d.todo /\ e.id = d.id
            BY DEF Supervisor, SupPc
        <3>3. sup' = e
            BY <1>9, <3>1, Zenon
        <3> HIDE DEF e
        <3> QED BY <1>2, <3>1, <3>2, <3>3
    <2>2. TypeOK' /\ Shapes'
        BY <1>3, <1>5, <2>1, NoneAssumption DEF IInv, TypeOK, Shapes, SupShape, CallShape
    <2>3. SameTopic'
        BY <1>3, <1>6, <2>1 DEF IInv, SameTopic
    <2>4. SnapshotInv'
        BY <1>0, <1>3, <2>1, NoneAssumption DEF IInv, SnapshotInv, Supervisor
    <2>5. NoLeak'
        <3>1. \A s \in Sub \ stray' : fwd'[s] = fwd[s] /\ s \notin stray
            BY <1>0, <1>5, <1>9 DEF PostFailed, PostLost, daemon, TypeOK
        <3> QED BY <1>2, <1>3, <2>1, <3>1, NoneAssumption DEF IInv, NoLeak
    <2>6. Answered /\ LiveInv => FALSE
        BY <1>9 DEF Answered, LiveInv, PostFailed, PostLost
    <2> QED BY <1>7, <2>2, <2>3, <2>4, <2>5, <2>6 DEF IInv, Kept
<1> QED BY <1>1, <1>8, <1>9 DEF ResubPost

\* The new id replaces the stale one: nothing is left behind.
LEMMA ResubInsertInv ==
    ASSUME IInv, ResubInsert
    PROVE  Kept
<1>0. TypeOK /\ Shapes /\ sup.pc = "insert" /\ sup \in Supervisor
    BY DEF IInv, TypeOK, ResubInsert
<1>1. PICK t \in Topic, s \in Sub : sup.topic = t /\ sup.id = s
    BY <1>0 DEF Shapes, SupShape, Supervisor
<1>2. UNCHANGED <<inflight, holder, task, fwd, stray, up, crossed>>
    BY DEF ResubInsert, daemon
<1>3. /\ topics' \in [Topic -> Sub \cup {None}] /\ topics'[t] = s
      /\ \A u \in Topic : u # t => topics'[u] = topics[u]
    BY <1>0, <1>1 DEF ResubInsert, TypeOK
<1>4. /\ sup' \in Supervisor /\ sup'.pc = "next" /\ sup'.topic = None
      /\ sup'.todo = sup.todo /\ sup'.id = None
    <2>1. PICK d \in Supervisor : d = sup
        BY <1>0
    <2> DEFINE e == [d EXCEPT !.pc = "next", !.topic = None, !.id = None]
    <2>2. e \in Supervisor /\ e.pc = "next" /\ e.topic = None /\ e.todo = d.todo /\ e.id = None
        BY DEF Supervisor, SupPc
    <2>3. sup' = e
        BY <2>1, Zenon DEF ResubInsert
    <2> HIDE DEF e
    <2> QED BY <2>1, <2>2, <2>3
<1>5. /\ fwd[s] \in {t, None}
      /\ t \notin crossed => /\ topics[t] # None /\ topics[t] \in Sub
                             /\ fwd[topics[t]] = None \/ topics[t] \in stray
      /\ \A p \in sup.todo : p[1] \notin crossed => p[1] # t /\ p[1] \in Topic
    <2>1. fwd[s] \in {t, None}
        BY <1>1, NoneAssumption DEF IInv, SameTopic
    <2>2. t \notin crossed => topics[t] # None /\ (fwd[topics[t]] = None \/ topics[t] \in stray)
        BY <1>1, NoneAssumption DEF IInv, SnapshotInv
    <2>3. \A p \in sup.todo : p[1] \notin crossed => p[1] # t /\ p[1] \in Topic
        BY <1>0, <1>1 DEF IInv, SnapshotInv, Supervisor
    <2> QED BY <1>0, <2>1, <2>2, <2>3 DEF TypeOK
<1>6. TypeOK' /\ Shapes'
    BY <1>2, <1>3, <1>4, NoneAssumption DEF IInv, TypeOK, Shapes, SupShape, CallShape
<1>7. SameTopic'
    BY <1>2, <1>3, <1>4, <1>5 DEF IInv, SameTopic
<1>8. LockInv'
    <2>1. \A j \in Task, u \in Topic \ crossed : Subscribing(j, u) => u # t /\ topics[u] = None
        BY <1>5 DEF IInv, LockInv
    <2> QED BY <1>2, <1>3, <2>1 DEF IInv, LockInv, Subscribing
<1>9. SnapshotInv'
    BY <1>2, <1>3, <1>4, <1>5, NoneAssumption DEF IInv, SnapshotInv
<1>10. NoLeak'
    <2> SUFFICES ASSUME NEW r \in Sub \ stray, fwd[r] # None, fwd[r] \notin crossed
                 PROVE  topics'[fwd[r]] = r \/ \E j \in Task : task[j].id = r
        BY <1>2 DEF NoLeak
    <2>0. fwd[r] \in Topic
        BY <1>0 DEF TypeOK
    <2>1. CASE topics[fwd[r]] = r
        <3>1. fwd[r] # t
            BY <1>5, <2>1
        <3> QED BY <1>3, <2>0, <2>1, <3>1
    <2>2. CASE sup.id = r
        BY <1>1, <1>3, <1>5, <2>2
    <2> QED BY <2>1, <2>2 DEF IInv, NoLeak
<1>11. LiveInv => LiveInv'
    <2> SUFFICES ASSUME LiveInv PROVE LiveInv'
        OBVIOUS
    <2>0. fwd[s] = t /\ s # None
        BY <1>0, <1>1, NoneAssumption DEF LiveInv
    <2>1. /\ \A u \in Topic : topics[u] # s
          /\ \A j \in Task : task[j].id # s
        BY <1>1, <2>0 DEF LiveInv, OneOwner
    <2>2. OneOwner'
        BY <1>2, <1>3, <1>4, <2>0, <2>1 DEF LiveInv, OneOwner
    <2>3. \A u \in Topic : topics'[u] # None => fwd[topics'[u]] = u
        BY <1>1, <1>3, <2>0 DEF LiveInv
    <2> QED BY <1>2, <1>4, <2>2, <2>3 DEF LiveInv
<1> QED BY <1>6, <1>7, <1>8, <1>9, <1>10, <1>11 DEF IInv, Kept

\* A daemon that stops has no forwarders.
LEMMA DaemonStopInv ==
    ASSUME IInv, DaemonStop
    PROVE  Kept
<1>0. TypeOK /\ Shapes /\ sup \in Supervisor
    BY DEF IInv, TypeOK
<1>1. UNCHANGED <<topics, inflight, holder, task, crossed>> /\ up' = FALSE
      /\ stray' = {} /\ fwd' \in [Sub -> Topic \cup {None}] /\ \A s \in Sub : fwd'[s] = None
    BY DEF DaemonStop
<1>2. /\ sup' \in Supervisor
      /\ sup'.todo = sup.todo /\ sup'.topic = sup.topic /\ sup'.id = sup.id
      /\ sup'.pc = sup.pc \/ (sup.pc = "stream" /\ sup'.pc = "resub")
    <2>1. PICK d \in Supervisor : d = sup
        BY <1>0
    <2> DEFINE e == [d EXCEPT !.pc = IF d.pc = "stream" THEN "resub" ELSE d.pc]
    <2>2. /\ e \in Supervisor /\ e.topic = d.topic /\ e.todo = d.todo /\ e.id = d.id
          /\ e.pc = d.pc \/ (d.pc = "stream" /\ e.pc = "resub")
        BY DEF Supervisor, SupPc
    <2>3. sup' = e
        BY <2>1, Zenon DEF DaemonStop
    <2> HIDE DEF e
    <2> QED BY <2>1, <2>2, <2>3
<1>3. TypeOK' /\ Shapes'
    BY <1>1, <1>2 DEF IInv, TypeOK, Shapes, SupShape, CallShape
<1>4. SameTopic' /\ NoLeak'
    BY <1>0, <1>1, <1>2 DEF IInv, SameTopic, NoLeak, TypeOK, Call, Supervisor
<1>5. LockInv'
    BY <1>1, SupLockInv DEF IInv
<1>6. SnapshotInv'
    BY <1>0, <1>1, <1>2 DEF IInv, SnapshotInv, TypeOK, Supervisor
<1>7. ~Answered
    BY DEF DaemonStop, Answered
<1> QED BY <1>3, <1>4, <1>5, <1>6, <1>7 DEF IInv, Kept

----------------------------------------------------------------------------
(* The theorems.                                                           *)

\* X0xTransport::connect starts with no topics and no forwarders.
LEMMA InitInv == Init => IInv /\ LiveInv
<1> SUFFICES ASSUME Init PROVE IInv /\ LiveInv
    OBVIOUS
<1>1. TypeOK
    BY DEF Init, TypeOK, Call, Free, TaskPc, Supervisor, SupPc
<1>2. Shapes
    BY DEF Init, Shapes, SupShape, CallShape, Free
<1>3. SameTopic /\ LockInv /\ SnapshotInv /\ NoLeak
    BY DEF Init, SameTopic, LockInv, Subscribing, SnapshotInv, NoLeak, Free
<1>4. LiveInv
    BY DEF Init, LiveInv, OneOwner, Free
<1> QED BY <1>1, <1>2, <1>3, <1>4 DEF IInv

\* Every step of a call.
LEMMA TaskInv ==
    ASSUME IInv, NEW k \in Task, TaskStep(k)
    PROVE  Kept
BY EnsureCheckInv, EnsureLockInv, EnsureEnterInv, EnsurePostInv, EnsureInsertInv,
   RemoveTakeInv, RemoveUnlockInv, RemoveDeleteInv DEF TaskStep

\* Every step of the supervisor and of the daemon.
LEMMA DaemonInv ==
    ASSUME IInv, SupStep \/ DaemonStep
    PROVE  Kept
BY SupIdleInv, ResubscribeInv, ResubDeleteInv, ResubPostInv, ResubInsertInv, DaemonStopInv
   DEF SupStep, DaemonStep

\* A step that is none of the transport's.
LEMMA StutterInv ==
    ASSUME IInv, UNCHANGED vars
    PROVE  Kept
<1>1. IInv'
    BY DEF vars, daemon, IInv, TypeOK, Shapes, SupShape, CallShape, SameTopic, LockInv, Subscribing,
           SnapshotInv, NoLeak
<1>2. LiveInv => LiveInv'
    BY QuietLive DEF vars, daemon
<1> QED BY <1>1, <1>2 DEF Kept

\* Every step keeps the invariants.
LEMMA NextInv == IInv /\ [Next]_vars => Kept
<1> SUFFICES ASSUME IInv, [Next]_vars PROVE Kept
    OBVIOUS
<1>1. ASSUME NEW k \in Task, NEW op \in Ops, NEW t \in Topic, Spawn(k, op, t) PROVE Kept
    BY <1>1, SpawnInv, OpsAssumption
<1> QED BY <1>1, TaskInv, DaemonInv, StutterInv DEF Next

\* The inductive invariant holds throughout every execution of transport.rs,
\* whatever requests fail or lose their answer and whenever the daemon stops.
THEOREM Invariance == Spec => []IInv
<1>1. IInv /\ [Next]_vars => IInv'
    BY NextInv DEF Kept
<1> QED BY <1>1, InitInv, PTL DEF Spec

\* "leak-free" (README.md), as far as the code goes: a live forwarder that no request
\* lost is on record or in the hands of a call or of the supervisor, for any number
\* of callers, unless its topic is crossed: removed while a call held the flight
\* lock the removal forgets, or while the supervisor had the topic in its snapshot.
THEOREM LeakFree == Spec => []NoLeak
<1>1. IInv => NoLeak
    BY DEF IInv
<1> QED BY <1>1, Invariance, PTL

\* Two forwarders of a topic are the one on record or at hand, twice.
LEMMA OneForwarderHolds == IInv => OneForwarder
<1> SUFFICES ASSUME IInv, NEW r \in Sub \ stray, NEW s \in Sub \ stray,
                    fwd[r] # None, fwd[r] = fwd[s], fwd[r] \notin crossed, ~Removing(r), ~Removing(s)
             PROVE  r = s
    BY DEF OneForwarder
<1>0. TypeOK /\ Shapes /\ SameTopic /\ LockInv /\ SnapshotInv /\ NoLeak
    BY DEF IInv
<1>t. PICK t \in Topic \ crossed : fwd[r] = t /\ fwd[s] = t
    BY <1>0 DEF TypeOK
<1> DEFINE Has(i) == \/ topics[t] = i
                     \/ \E k \in Task : task[k].id = i /\ Subscribing(k, t)
                     \/ sup.id = i /\ sup.topic = t
<1>1. ASSUME NEW i \in Sub \ stray, fwd[i] = t, ~Removing(i) PROVE Has(i)
    <2>1. CASE topics[t] = i
        BY <2>1
    <2>2. ASSUME NEW k \in Task, task[k].id = i PROVE Has(i)
        <3>1. i # None /\ t # None
            BY NoneAssumption
        <3>2. task[k].topic = t
            BY <1>0, <1>1, <2>2, <3>1 DEF SameTopic
        <3>3. task[k].pc = "insert"
            BY <1>0, <1>1, <2>2, <3>1 DEF Shapes, CallShape, Removing
        <3> QED BY <2>2, <3>2, <3>3 DEF Subscribing
    <2>3. CASE sup.id = i
        BY <1>0, <1>1, <2>3, NoneAssumption DEF SameTopic
    <2> QED BY <1>0, <1>1, <2>1, <2>2, <2>3, NoneAssumption DEF NoLeak
<1>2. \A j, k \in Task : Subscribing(j, t) /\ Subscribing(k, t) => j = k
    <2> SUFFICES ASSUME NEW j \in Task, NEW k \in Task, Subscribing(j, t), Subscribing(k, t)
                 PROVE  j = k
        OBVIOUS
    <2>1. holder[task[j].lock] = j /\ holder[task[k].lock] = k
        BY <1>0 DEF LockInv, Subscribing
    <2>2. inflight[t] = task[j].lock /\ inflight[t] = task[k].lock
        BY <1>0 DEF LockInv, Subscribing, Shapes, CallShape
    <2> QED BY <2>1, <2>2
<1>3. \A k \in Task : Subscribing(k, t) => topics[t] = None /\ sup.topic # t
    <2>1. t # None /\ \A k \in Task : Subscribing(k, t) => topics[t] = None
        BY <1>0, NoneAssumption DEF LockInv
    <2> QED BY <1>0, <2>1 DEF SnapshotInv
<1>4. sup.topic = t => topics[t] \notin {r, s}
    <2>1. t # None
        BY NoneAssumption
    <2>2. sup.topic = t => fwd[topics[t]] = None \/ topics[t] \in stray
        BY <1>0, <2>1 DEF SnapshotInv
    <2> QED BY <1>t, <2>1, <2>2
<1>5. Has(r) /\ Has(s)
    BY <1>1, <1>t
<1> QED BY <1>2, <1>3, <1>4, <1>5, NoneAssumption

\* "race-free" (README.md), as far as the code goes: of a topic that is on record or
\* being subscribed, and not crossed by a removal, the daemon has one forwarder, but
\* for those a lost request left, for any number of callers and re-subscriptions.
THEOREM ForwarderCorrect == Spec => []OneForwarder
BY OneForwarderHolds, Invariance, PTL

\* A topic on record is one the bridge hears, as long as the daemon stays up
\* and answers every POST.
THEOREM RecordCorrect == ASSUME Answered PROVE Spec => []TrackedIsLive
<1>1. IInv /\ LiveInv /\ [Next]_vars => IInv' /\ LiveInv'
    BY NextInv DEF Kept
<1>2. IInv /\ LiveInv => TrackedIsLive
    BY NoneAssumption DEF IInv, LiveInv, TrackedIsLive, Shapes, SupShape
<1> QED BY <1>1, <1>2, InitInv, PTL DEF Spec

----------------------------------------------------------------------------
(* The relay's steps, as the transport sees them.                          *)

\* The calls a REQ, a CLOSE or a publication spawns start at once.
LEMMA SpawnEachSome ==
    ASSUME IInv, NEW op \in {"ensure", "remove"}, NEW S \in SUBSET Topic, SpawnEach(op, S)
    PROVE  SpawnSome
<1>1. PICK f \in [S -> Task] :
          /\ \A t \in S : task[f[t]].pc = "free"
          /\ task' = [k \in Task |-> IF \E t \in S : f[t] = k
                                     THEN [Free EXCEPT !.pc = op, !.topic = CHOOSE t \in S : f[t] = k]
                                     ELSE task[k]]
    BY DEF SpawnEach
<1>2. \A k \in Task : task[k] \in Call
    BY DEF IInv, TypeOK
<1>3. ASSUME NEW k \in Task
      PROVE  /\ task'[k] \in Call
             /\ \/ task'[k] = task[k]
                \/ /\ task[k].pc = "free" /\ task'[k].pc = op /\ task'[k].topic \in Topic
                   /\ task'[k].lock = None /\ task'[k].id = None
    <2>1. CASE \E t \in S : f[t] = k
        <3>1. PICK t \in Topic : t = (CHOOSE u \in S : f[u] = k)
            BY <2>1
        <3>2. task[k].pc = "free"
            BY <1>1, <2>1
        <3>3. task'[k] = [pc |-> op, topic |-> t, lock |-> None, id |-> None]
            BY <1>1, <2>1, <3>1 DEF Free
        <3> QED BY <3>2, <3>3 DEF Call, TaskPc
    <2>2. CASE ~ \E t \in S : f[t] = k
        BY <1>1, <1>2, <2>2
    <2> QED BY <2>1, <2>2
<1>4. task' \in [Task -> Call]
    BY <1>1, <1>3
<1> QED BY <1>3, <1>4 DEF SpawnEach, SpawnSome, daemon

Handler == [todo : SUBSET Topic, zero : Topic \cup {None}, leaving : BOOLEAN]

\* What the relay keeps of its connections.
RelayOK ==
    /\ refs \in [Topic -> Nat]
    /\ subs \in [Conn -> [SubName -> SUBSET Topic]]
    /\ conn \in [Conn -> Handler]
    /\ strayed \in SUBSET Topic

\* No handler step writes a value of another kind.
LEMMA RelayKept ==
    ASSUME RelayOK, [RelayNext]_relayVars
    PROVE  RelayOK'
<1>1. CASE UNCHANGED relay
    BY <1>1 DEF relay, RelayOK
<1>2. ASSUME NEW c \in Conn, NEW n \in SubName, NEW S \in SUBSET Topic, Req(c, n, S) PROVE RelayOK'
    <2>1. refs' \in [Topic -> Nat]
        BY <1>2 DEF Req, AcquireTopics, RelayOK
    <2>2. subs' \in [Conn -> [SubName -> SUBSET Topic]]
        BY <1>2 DEF Req, AcquireTopics, RelayOK
    <2>3. strayed' \in SUBSET Topic
        BY <1>2 DEF Req, AcquireTopics, RelayOK
    <2> QED BY <1>2, <2>1, <2>2, <2>3 DEF Req, RelayOK
<1>3. ASSUME NEW c \in Conn, NEW n \in SubName, ReleaseSub(c, n) PROVE RelayOK'
    <2>1. subs[c][n] \in SUBSET Topic
        BY DEF RelayOK
    <2>2. subs' \in [Conn -> [SubName -> SUBSET Topic]]
        BY <1>3 DEF ReleaseSub, RelayOK
    <2>3. conn' \in [Conn -> Handler]
        BY <1>3, <2>1 DEF ReleaseSub, RelayOK, Handler
    <2> QED BY <1>3, <2>2, <2>3 DEF ReleaseSub, RelayOK
<1>4. ASSUME NEW c \in Conn, Disconnect(c) \/ Left(c) PROVE RelayOK'
    <2>1. UNCHANGED <<refs, subs, strayed>>
        BY <1>4 DEF Disconnect, Left
    <2>2. PICK flag \in BOOLEAN : conn' = [conn EXCEPT ![c].leaving = flag]
        BY <1>4 DEF Disconnect, Left
    <2>3. conn' \in [Conn -> Handler]
        BY <2>2 DEF RelayOK, Handler
    <2> QED BY <2>1, <2>3 DEF RelayOK
<1>5. ASSUME NEW c \in Conn, Decrement(c) PROVE RelayOK'
    <2>1. PICK t \in Topic, left \in Nat :
              /\ refs' = [refs EXCEPT ![t] = left]
              /\ conn' = [conn EXCEPT ![c].todo = @ \ {t}, ![c].zero = IF left = 0 THEN t ELSE None]
        <3>1. PICK t \in conn[c].todo :
                  LET left == IF refs[t] > 0 THEN refs[t] - 1 ELSE 0 IN
                  /\ refs' = [refs EXCEPT ![t] = left]
                  /\ conn' = [conn EXCEPT ![c].todo = @ \ {t}, ![c].zero = IF left = 0 THEN t ELSE None]
            BY <1>5 DEF Decrement
        <3>2. t \in Topic /\ refs[t] \in Nat
            BY DEF RelayOK, Handler
        <3> DEFINE left == IF refs[t] > 0 THEN refs[t] - 1 ELSE 0
        <3>3. left \in Nat
            BY <3>2
        <3> QED BY <3>1, <3>2, <3>3
    <2>2. PICK d \in Handler : d = conn[c]
        BY DEF RelayOK
    <2> DEFINE e == [d EXCEPT !.todo = d.todo \ {t}, !.zero = IF left = 0 THEN t ELSE None]
    <2>3. e \in Handler
        BY DEF Handler
    <2>4. conn' = [conn EXCEPT ![c] = e]
        BY <2>1, <2>2 DEF RelayOK
    <2> HIDE DEF e
    <2>5. conn' \in [Conn -> Handler]
        BY <2>3, <2>4 DEF RelayOK
    <2>6. refs' \in [Topic -> Nat]
        BY <2>1 DEF RelayOK
    <2>7. UNCHANGED <<subs, strayed>>
        BY <1>5 DEF Decrement
    <2> QED BY <2>5, <2>6, <2>7 DEF RelayOK
<1>6. ASSUME NEW c \in Conn, Prune(c) PROVE RelayOK'
    <2>1. refs' \in [Topic -> Nat] /\ UNCHANGED subs
        BY <1>6 DEF Prune, RelayOK
    <2>2. conn' \in [Conn -> Handler]
        BY <1>6 DEF Prune, RelayOK, Handler
    <2>3. strayed' \in SUBSET Topic
        <3>1. conn[c].zero \in Topic
            BY <1>6 DEF Prune, RelayOK, Handler
        <3> QED BY <1>6, <3>1 DEF Prune, RelayOK
    <2> QED BY <2>1, <2>2, <2>3 DEF RelayOK
<1> QED BY <1>1, <1>2, <1>3, <1>4, <1>5, <1>6 DEF RelayNext, relayVars, Close, LeaveSub, Publish, TransportStep

\* What every step of the relay or the transport keeps.
LEMMA NextKept ==
    ASSUME RelayOK, IInv, [RelayNext]_relayVars
    PROVE  Kept
<1>1. ASSUME NEW op \in {"ensure", "remove"}, NEW S \in SUBSET Topic, SpawnEach(op, S) PROVE Kept
    BY <1>1, SpawnEachSome, SpawnSomeInv
<1>2. CASE UNCHANGED transport
    BY <1>2, StutterInv DEF transport
<1>3. CASE \E c \in Conn, n \in SubName, S \in SUBSET Topic : Req(c, n, S)
    BY <1>1, <1>3 DEF Req
<1>4. CASE \E c \in Conn : Prune(c)
    BY <1>1, <1>4 DEF Prune, RelayOK, Handler
<1>5. CASE \E t \in Topic : Publish(t)
    BY <1>1, <1>5 DEF Publish
<1>6. CASE TransportStep
    BY <1>6, TaskInv, DaemonInv DEF TransportStep
<1>7. CASE UNCHANGED relayVars
    BY <1>2, <1>7 DEF relayVars
<1>8. ASSUME NEW c \in Conn, NEW n \in SubName, Close(c, n) \/ LeaveSub(c, n) PROVE UNCHANGED transport
    BY <1>8 DEF Close, LeaveSub, ReleaseSub
<1>9. ASSUME NEW c \in Conn, Disconnect(c) \/ Left(c) \/ Decrement(c) PROVE UNCHANGED transport
    BY <1>9 DEF Disconnect, Left, Decrement
<1> QED BY <1>2, <1>3, <1>4, <1>5, <1>6, <1>7, <1>8, <1>9 DEF RelayNext

\* The relay starts with a transport that has no topics.
LEMMA InitKept == RelayInit => RelayOK /\ IInv /\ LiveInv
<1>1. ASSUME RelayInit PROVE RelayOK
    BY <1>1 DEF RelayInit, RelayOK, Handler
<1> QED BY <1>1, InitInv DEF RelayInit

----------------------------------------------------------------------------
(* The theorems.                                                           *)

\* The relay keeps the transport's inductive invariant: nothing clients or
\* publishers make it spawn takes the transport out of it.
THEOREM TransportInvariance == RelaySpec => [](RelayOK /\ IInv)
<1>1. RelayOK /\ IInv /\ [RelayNext]_relayVars => RelayOK' /\ IInv'
    BY RelayKept, NextKept DEF Kept
<1> QED BY <1>1, InitKept, PTL DEF RelaySpec

\* "leak-free" and "race-free" (README.md) of the relay over the transport: CLOSE,
\* disconnect and publication racing each other leave no forwarder behind, and no
\* second one, but those of requests that were lost and of topics that are crossed:
\* removed while a call was at the lock of the topic or the supervisor had it in
\* its snapshot, which the relay's own CLOSE and REQ do bring about.
THEOREM RelayLeakFree == RelaySpec => [](NoLeak /\ OneForwarder)
<1>1. IInv => NoLeak /\ OneForwarder
    BY OneForwarderHolds DEF IInv
<1> QED BY <1>1, TransportInvariance, PTL

\* A topic on record is one the bridge hears, whatever the relay's calls and
\* the supervisor do to each other, as long as the daemon stays up and answers
\* every POST.
THEOREM RelayRecordCorrect == ASSUME Answered PROVE RelaySpec => []TrackedIsLive
<1>1. RelayOK /\ IInv /\ LiveInv /\ [RelayNext]_relayVars => RelayOK' /\ IInv' /\ LiveInv'
    BY RelayKept, NextKept DEF Kept
<1>2. IInv /\ LiveInv => TrackedIsLive
    BY NoneAssumption DEF IInv, LiveInv, TrackedIsLive, Shapes, SupShape
<1> QED BY <1>1, <1>2, InitKept, PTL DEF RelaySpec

----------------------------------------------------------------------------
(* The counts, of any number of connections at work at once.               *)

CountInv ==
    \A t \in Topic \ strayed : refs[t] = Cardinality(Wanted(t)) + Cardinality(Owing(t))

\* Subscriptions and handlers are finitely many.
LEMMA CountFinite ==
    ASSUME NEW t \in Topic
    PROVE  /\ IsFiniteSet(Wanted(t)) /\ Cardinality(Wanted(t)) \in Nat
           /\ IsFiniteSet(Owing(t)) /\ Cardinality(Owing(t)) \in Nat
<1>1. IsFiniteSet(Conn \X SubName)
    BY FS_Product, FiniteAssumption
<1>2. Wanted(t) \subseteq Conn \X SubName /\ Owing(t) \subseteq Conn
    BY DEF Wanted, Owing
<1>3. IsFiniteSet(Wanted(t)) /\ IsFiniteSet(Owing(t))
    BY <1>1, <1>2, FS_Subset, FiniteAssumption
<1> QED BY <1>3, FS_CardinalityType

\* One more, and one less.
LEMMA OneMore ==
    ASSUME NEW S, IsFiniteSet(S), NEW x, x \notin S
    PROVE  Cardinality(S \cup {x}) = Cardinality(S) + 1
BY FS_AddElement

LEMMA OneLess ==
    ASSUME NEW S, IsFiniteSet(S), NEW x \in S
    PROVE  Cardinality(S \ {x}) = Cardinality(S) - 1
BY FS_RemoveElement

\* A REQ counts every topic it names once and adds one subscription to it; what the
\* subscription id was on before has gone astray.
LEMMA ReqCount ==
    ASSUME RelayOK, CountInv, NEW c \in Conn, NEW n \in SubName, NEW S \in SUBSET Topic, Req(c, n, S)
    PROVE  CountInv'
<1>1. /\ refs' = [t \in Topic |-> IF t \in S THEN refs[t] + 1 ELSE refs[t]]
      /\ subs' = [subs EXCEPT ![c][n] = S]
      /\ strayed' = strayed \cup subs[c][n]
      /\ conn' = conn
    BY DEF Req, AcquireTopics
<1>2. \A d \in Conn, o \in SubName : subs'[d][o] = IF d = c /\ o = n THEN S ELSE subs[d][o]
    BY <1>1 DEF RelayOK
<1> SUFFICES ASSUME NEW t \in Topic, t \notin strayed'
             PROVE  refs'[t] = Cardinality(Wanted(t)') + Cardinality(Owing(t)')
    BY DEF CountInv
<1>3. t \notin strayed /\ t \notin subs[c][n]
    BY <1>1
<1>4. PICK w \in Nat, o \in Nat : w = Cardinality(Wanted(t)) /\ o = Cardinality(Owing(t)) /\ refs[t] = w + o
    BY <1>3, CountFinite DEF CountInv
<1>5. Owing(t)' = Owing(t)
    BY <1>1 DEF Owing
<1>6. CASE t \in S
    <2>1. <<c, n>> \notin Wanted(t)
        BY <1>3 DEF Wanted
    <2>2. Wanted(t)' = Wanted(t) \cup {<<c, n>>}
        BY <1>2, <1>6 DEF Wanted
    <2>3. Cardinality(Wanted(t)') = w + 1
        BY <1>4, <2>1, <2>2, CountFinite, OneMore
    <2>4. refs'[t] = refs[t] + 1
        BY <1>1, <1>6
    <2> QED BY <1>4, <1>5, <2>3, <2>4
<1>7. CASE t \notin S
    <2>1. Wanted(t)' = Wanted(t)
        BY <1>2, <1>3, <1>7 DEF Wanted
    <2>2. refs'[t] = refs[t]
        BY <1>1, <1>7
    <2> QED BY <1>4, <1>5, <2>1, <2>2
<1> QED BY <1>6, <1>7

\* What a subscription that ends is on is still counted until it is counted off.
LEMMA ReleaseCount ==
    ASSUME RelayOK, CountInv, NEW c \in Conn, NEW n \in SubName, conn[c].todo = {}, ReleaseSub(c, n)
    PROVE  CountInv'
<1>1. /\ refs' = refs /\ subs' = [subs EXCEPT ![c][n] = {}] /\ strayed' = strayed
      /\ conn' = [conn EXCEPT ![c].todo = subs[c][n]]
    BY DEF ReleaseSub
<1>2. \A d \in Conn, o \in SubName : subs'[d][o] = IF d = c /\ o = n THEN {} ELSE subs[d][o]
    BY <1>1 DEF RelayOK
<1>3. conn'[c].todo = subs[c][n] /\ \A d \in Conn : d # c => conn'[d] = conn[d]
    BY <1>1 DEF RelayOK, Handler
<1> SUFFICES ASSUME NEW t \in Topic, t \notin strayed
             PROVE  refs[t] = Cardinality(Wanted(t)') + Cardinality(Owing(t)')
    BY <1>1 DEF CountInv
<1>4. PICK w \in Nat, o \in Nat : w = Cardinality(Wanted(t)) /\ o = Cardinality(Owing(t)) /\ refs[t] = w + o
    BY CountFinite DEF CountInv
<1>5. CASE t \in subs[c][n]
    <2>1. <<c, n>> \in Wanted(t) /\ Wanted(t)' = Wanted(t) \ {<<c, n>>}
        BY <1>2, <1>5 DEF Wanted
    <2>2. Cardinality(Wanted(t)') = w - 1
        BY <1>4, <2>1, CountFinite, OneLess
    <2>3. c \notin Owing(t) /\ Owing(t)' = Owing(t) \cup {c}
        BY <1>3, <1>5 DEF Owing
    <2>4. Cardinality(Owing(t)') = o + 1
        BY <1>4, <2>3, CountFinite, OneMore
    <2> QED BY <1>4, <2>2, <2>4
<1>6. CASE t \notin subs[c][n]
    <2>1. Wanted(t)' = Wanted(t)
        BY <1>2, <1>6 DEF Wanted
    <2>2. Owing(t)' = Owing(t)
        BY <1>3, <1>6 DEF Owing
    <2> QED BY <1>4, <2>1, <2>2
<1> QED BY <1>5, <1>6

\* A topic is counted off once by each handler that owes it.
LEMMA DecrementCount ==
    ASSUME RelayOK, CountInv, NEW c \in Conn, Decrement(c)
    PROVE  CountInv'
<1>1. PICK t \in conn[c].todo :
          LET left == IF refs[t] > 0 THEN refs[t] - 1 ELSE 0 IN
          /\ refs' = [refs EXCEPT ![t] = left]
          /\ conn' = [conn EXCEPT ![c].todo = @ \ {t}, ![c].zero = IF left = 0 THEN t ELSE None]
    BY DEF Decrement
<1>2. t \in Topic /\ refs[t] \in Nat
    BY DEF RelayOK, Handler
<1>3. PICK left : left = IF refs[t] > 0 THEN refs[t] - 1 ELSE 0
    OBVIOUS
<1>4. /\ refs' = [refs EXCEPT ![t] = left]
      /\ conn' = [conn EXCEPT ![c].todo = @ \ {t}, ![c].zero = IF left = 0 THEN t ELSE None]
    BY <1>1, <1>3
<1>5. PICK d \in Handler : d = conn[c]
    BY DEF RelayOK
<1> DEFINE e == [d EXCEPT !.todo = d.todo \ {t}, !.zero = IF left = 0 THEN t ELSE None]
<1>6. e.todo = d.todo \ {t}
    BY DEF Handler
<1>7. conn'[c] = e /\ \A b \in Conn : b # c => conn'[b] = conn[b]
    BY <1>4, <1>5 DEF RelayOK
<1> HIDE DEF e
<1>8. conn'[c].todo = conn[c].todo \ {t}
    BY <1>5, <1>6, <1>7
<1>9. UNCHANGED <<subs, strayed>>
    BY DEF Decrement
<1> SUFFICES ASSUME NEW u \in Topic, u \notin strayed
             PROVE  refs'[u] = Cardinality(Wanted(u)') + Cardinality(Owing(u)')
    BY <1>9 DEF CountInv
<1>10. PICK w \in Nat, o \in Nat : w = Cardinality(Wanted(u)) /\ o = Cardinality(Owing(u)) /\ refs[u] = w + o
    BY CountFinite DEF CountInv
<1>11. Wanted(u)' = Wanted(u)
    BY <1>9 DEF Wanted
<1>12. CASE u = t
    <2>1. c \in Owing(u) /\ Owing(u)' = Owing(u) \ {c}
        BY <1>7, <1>8, <1>12 DEF Owing
    <2>2. Cardinality(Owing(u)') = o - 1 /\ o # 0
        <3>1. Cardinality(Owing(u)') = o - 1
            BY <1>10, <2>1, CountFinite, OneLess
        <3>2. o # 0
            BY <1>10, <2>1, CountFinite, FS_EmptySet
        <3> QED BY <3>1, <3>2
    <2>3. refs'[u] = left /\ left = refs[u] - 1
        BY <1>2, <1>3, <1>4, <1>10, <1>12, <2>2 DEF RelayOK
    <2> QED BY <1>10, <1>11, <2>2, <2>3
<1>13. CASE u # t
    <2>1. Owing(u)' = Owing(u)
        BY <1>7, <1>8, <1>13 DEF Owing
    <2>2. refs'[u] = refs[u]
        BY <1>2, <1>4, <1>13 DEF RelayOK
    <2> QED BY <1>10, <1>11, <2>1, <2>2
<1> QED BY <1>12, <1>13

\* An entry that is removed is zero, or its topic has gone astray.
LEMMA PruneCount ==
    ASSUME RelayOK, CountInv, NEW c \in Conn, Prune(c)
    PROVE  CountInv'
<1>1. PICK z : z = conn[c].zero
    OBVIOUS
<1>2. /\ refs' = [refs EXCEPT ![z] = 0] /\ UNCHANGED subs
      /\ strayed' = IF refs[z] > 0 THEN strayed \cup {z} ELSE strayed
      /\ conn' = [conn EXCEPT ![c].zero = None]
      /\ z \in Topic
    BY <1>1 DEF Prune, RelayOK, Handler
<1>3. \A d \in Conn : conn'[d].todo = conn[d].todo
    BY <1>2 DEF RelayOK, Handler
<1> SUFFICES ASSUME NEW t \in Topic, t \notin strayed'
             PROVE  refs'[t] = Cardinality(Wanted(t)') + Cardinality(Owing(t)')
    BY DEF CountInv
<1>4. t \notin strayed /\ (t = z => ~(refs[z] > 0))
    BY <1>2
<1>5. refs'[t] = refs[t]
    BY <1>2, <1>4 DEF RelayOK
<1>6. Wanted(t)' = Wanted(t) /\ Owing(t)' = Owing(t)
    BY <1>2, <1>3 DEF Wanted, Owing
<1> QED BY <1>4, <1>5, <1>6 DEF CountInv

\* "Per-topic subscriber refcount" (relay.rs:194): however many clients subscribe,
\* close and leave at once, the count of a topic is the number of its subscriptions
\* and of the handlers about to count it off, unless one of the two losses the code
\* allows has hit the topic: an overwritten subscription, an entry removed with a
\* count on it.
THEOREM CountsExact == RelaySpec => []RefsExact
<1>1. RelayInit => RelayOK /\ CountInv
    <2> SUFFICES ASSUME RelayInit PROVE CountInv
        BY InitKept
    <2>1. \A t \in Topic : Wanted(t) = {} /\ Owing(t) = {}
        BY DEF RelayInit, Wanted, Owing
    <2>2. Cardinality({}) = 0
        BY FS_EmptySet
    <2>3. \A t \in Topic : refs[t] = 0 /\ Cardinality(Wanted(t)) = 0 /\ Cardinality(Owing(t)) = 0
        BY <2>1, <2>2 DEF RelayInit
    <2>4. \A t \in Topic \ strayed : refs[t] = Cardinality(Wanted(t)) + Cardinality(Owing(t))
        <3> SUFFICES ASSUME NEW t \in Topic
                     PROVE  refs[t] = Cardinality(Wanted(t)) + Cardinality(Owing(t))
            OBVIOUS
        <3>1. PICK i, w, o : /\ i = refs[t] /\ w = Cardinality(Wanted(t)) /\ o = Cardinality(Owing(t))
                             /\ i = 0 /\ w = 0 /\ o = 0
            BY <2>3
        <3>2. i = w + o
            BY <3>1
        <3> QED BY <3>1, <3>2
    <2> QED BY <2>4 DEF CountInv
<1>2. RelayOK /\ CountInv /\ [RelayNext]_relayVars => RelayOK' /\ CountInv'
    <2> SUFFICES ASSUME RelayOK, CountInv, [RelayNext]_relayVars PROVE CountInv'
        BY RelayKept
    <2>1. CASE UNCHANGED relay
        BY <2>1 DEF relay, CountInv, Wanted, Owing
    <2>2. ASSUME NEW c \in Conn, NEW n \in SubName, Close(c, n) \/ LeaveSub(c, n) PROVE CountInv'
        BY <2>2, ReleaseCount DEF Close, LeaveSub, Ready
    <2>3. ASSUME NEW c \in Conn, Disconnect(c) \/ Left(c) PROVE CountInv'
        <3>1. UNCHANGED <<refs, subs, strayed>> /\ \A d \in Conn : conn'[d].todo = conn[d].todo
            BY <2>3 DEF Disconnect, Left, RelayOK, Handler
        <3> QED BY <3>1 DEF CountInv, Wanted, Owing
    <2> QED BY <2>1, <2>2, <2>3, ReqCount, DecrementCount, PruneCount
            DEF RelayNext, relayVars, Publish, TransportStep
<1>3. CountInv => RefsExact
    BY DEF CountInv, RefsExact
<1> QED BY <1>1, <1>2, <1>3, PTL DEF RelaySpec
=============================================================================
