--------------------------- MODULE HistoryProofs ---------------------------
(***************************************************************************)
(* Proofs about History, and about Convergence over it, for every set of   *)
(* events, every universe and every depth cap. The inductive invariant     *)
(* IInv says of both the committed database and the open transaction's     *)
(* view what the served properties say of the first, strengthened by       *)
(*   - only thread-scoped events have reply rows, so superseding a         *)
(*     replaceable event never takes a counted reply away;                 *)
(*   - an id without a row has depth 0, so a stub is above its replies;    *)
(*   - a parked orphan whose parent is stored is still on the stack.       *)
(***************************************************************************)
EXTENDS Convergence, FiniteSetTheorems, TLAPS

Rows(d) ==
    \A c \in Id :
        /\ d.depth[c] <= DepthCap
        /\ c \notin d.rows => d.depth[c] = 0
        /\ c \in d.rows /\ msg[c].kind = "thread" => d.event[c] # "absent"
        /\ d.parent[c] = NoId <=> d.root[c] = NoId
        /\ d.parent[c] # NoId =>
            /\ d.event[c] # "absent"
            /\ msg[c].kind = "thread"
            /\ {c, d.parent[c], d.root[c]} \subseteq d.rows
            /\ d.depth[d.parent[c]] < d.depth[c]
            /\ SameChannel(d.parent[c], c)

Slots(d) ==
    /\ \A i \in Id : msg[i].slot # NoSlot /\ d.event[i] # "absent" => d.addr[msg[i].slot] = i
    /\ \A s \in Slot : d.addr[s] # NoId =>
            d.event[d.addr[s]] # "absent" /\ msg[d.addr[s]].slot = s

StoreInv(d) == d \in Database /\ Rows(d) /\ CountersExact(d) /\ Slots(d)

In(stack, i) == \E k \in 1..Len(stack) : stack[k] = i

\* An orphan whose parent is stored will be reached by the drain.
Waiting(d, stack) ==
    \A c \in Id : d.parked[c] # Null =>
        /\ IsReply(c)
        /\ d.event[c] = "absent"
        /\ Present(d, msg[c].reply) => In(stack, msg[c].reply)

TxInv == /\ tx \in Transaction
         /\ Idle => work = db /\ tx.stack = <<>> /\ tx.targets = <<>>

IInv == /\ msg \in Universes
        /\ now \in 1..MaxNow
        /\ StoreInv(db)
        /\ StoreInv(work)
        /\ TxInv
        /\ Waiting(db, <<>>)
        /\ Waiting(work, tx.stack)

\* With the mesh door alone, last_reply_at of d is the maximum over the replies.
LastOK(d) ==
    \A m \in Id :
        /\ \A c \in Id : d.parent[c] = m => msg[c].at <= d.last[m]
        /\ d.last[m] = Null \/ \E c \in Id : d.parent[c] = m /\ msg[c].at = d.last[m]

\* A reply row carries the root of the reply's own markers, which is its parent
\* when the parent is top-level.
RootsOK(d) ==
    \A c \in Id : d.root[c] # NoId =>
        /\ d.root[c] = DeriveOwnRoot(c)
        /\ DeriveOwnRoot(d.parent[c]) = d.parent[c] => d.root[c] = d.parent[c]

Kept(d) == RootsOK(d) /\ (Doors \subseteq {"mesh"} => LastOK(d))

\* A deleted event, or one whose deleted row had to make way for a winner.
Gone(d, i) ==
    \/ d.event[i] = "deleted"
    \/ /\ d.event[i] = "absent" /\ msg[i].slot # NoSlot
       /\ d.addr[msg[i].slot] # NoId /\ Beats(d.addr[msg[i].slot], i)

\* What the summaries of E must cover, when d becomes n.
Covers(d, n, E) ==
    \A m \in Id :
        \/ n.descendants[m] # d.descendants[m]
        \/ n.replies[m] # d.replies[m] /\ DeriveOwnRoot(m) = m
        => m \in E

Better(d, n) == \A s \in Slot : n.addr[s] # d.addr[s] =>
                    d.addr[s] = NoId \/ Beats(n.addr[s], d.addr[s])

StillGone(d, n) == \A i \in Id : Gone(d, i) => Gone(n, i)

\* The answer of the open transaction, and of the last one.
AnswerOK ==
    /\ Busy => /\ tx.id \in Id
               /\ tx.out \in {"accepted", "duplicate"} <=> Present(work, tx.id)
               /\ tx.out = "accepted" => ~Present(db, tx.id)
               /\ tx.stack # <<>> => tx.out = "accepted"
    /\ Idle => OutcomeHonest

\* What the writes of a transaction may do to d, when E are its summaries.
Moves(d, n, E) == Kept(n) /\ Better(d, n) /\ StillGone(d, n) /\ Covers(d, n, E)

\* The open transaction against the committed database.
JInv == Kept(db) /\ Moves(db, work, tx.emits) /\ AnswerOK

\* What resolve_reply has checked of the parent p and the root r of e.
Checked(d, e, p, r) == p = msg[e].reply /\ r = EffectiveRoot(d, p) /\ r = RootHint(e)

\* What the proofs below need of the columns insert_reply writes.
Replied(d, n, e, p, r, door) ==
    /\ n.event = [d.event EXCEPT ![e] = "live"]
    /\ n.parent = [d.parent EXCEPT ![e] = p]
    /\ n.root = [d.root EXCEPT ![e] = r]
    /\ n.replies = Plus1(d.replies, p)
    /\ n.descendants = Plus1(d.descendants, r)
    /\ n.last = [d.last EXCEPT ![p] = LastReply(door, d.last[p], e)]
    /\ n.addr = d.addr

----------------------------------------------------------------------------
(* Cardinality facts.                                                      *)

\* Sets of event ids are finite: the counters compare with their cardinality.
LEMMA CardType ==
    ASSUME NEW S, S \subseteq Id
    PROVE  IsFiniteSet(S) /\ Cardinality(S) \in Nat
BY IdAssumption, FS_Subset, FS_CardinalityType

\* One more live reply is a count one higher (the + 1 of insert_reply).
LEMMA CardAdd ==
    ASSUME NEW S, S \subseteq Id, NEW x \in Id, x \notin S
    PROVE  Cardinality(S \cup {x}) = Cardinality(S) + 1
BY CardType, FS_AddElement

\* One reply less is a count one lower, and the count was not zero: the clamp
\* MAX(n - 1, 0) of delete_flow never bites.
LEMMA CardRemove ==
    ASSUME NEW S, S \subseteq Id, NEW x \in S
    PROVE  Cardinality(S \ {x}) = Cardinality(S) - 1 /\ Cardinality(S) > 0
<1>1. IsFiniteSet(S) /\ IsFiniteSet(S \ {x}) BY CardType
<1>2. Cardinality(S \ {x}) = Cardinality(S) - 1 BY <1>1, FS_RemoveElement
<1>3. Cardinality(S \ {x}) \in Nat /\ Cardinality(S) \in Nat BY CardType
<1> QED BY <1>2, <1>3

----------------------------------------------------------------------------
(* What the writing operators do to a database of the right type.          *)

\* What UniverseAssumption says of the events of the network.
LEMMA MsgType ==
    ASSUME msg \in Universes
    PROVE  /\ msg \in [Id -> Message]
           /\ \A i \in Id : msg[i].slot # NoSlot <=> msg[i].kind \in {"relay", "replaceable"}
BY UniverseAssumption DEF WellFormed

\* The type of each table.
LEMMA DbType ==
    ASSUME NEW d \in Database
    PROVE  /\ d.event \in [Id -> {"absent", "live", "deleted"}]
           /\ d.rows \subseteq Id
           /\ d.parent \in [Id -> Id \cup {NoId}]
           /\ d.root \in [Id -> Id \cup {NoId}]
           /\ d.depth \in [Id -> Nat]
           /\ d.replies \in [Id -> Nat]
           /\ d.descendants \in [Id -> Nat]
           /\ d.last \in [Id -> Nat]
           /\ d.parked \in [Id -> Nat]
           /\ d.quarantine \subseteq Id
           /\ d.addr \in [Slot -> Id \cup {NoId}]
BY DEF Database

\* resolve_reply computes a root that is an event id and a positive depth.
LEMMA RootType ==
    ASSUME msg \in Universes, NEW d \in Database, NEW p \in Id
    PROVE  EffectiveRoot(d, p) \in Id /\ ReplyDepth(d, p) \in Nat \ {0}
<1>1. DeriveOwnRoot(p) \in Id BY MsgType DEF DeriveOwnRoot, Message
<1>2. EffectiveRoot(d, p) \in Id BY <1>1, DbType DEF EffectiveRoot
<1>3. ReplyDepth(d, p) \in Nat \ {0}
   <2>1. d.depth[p] \in Nat BY DbType
   <2> QED BY <2>1 DEF ReplyDepth
<1> QED BY <1>2, <1>3

\* insert_reply, table by table.
ReplyWritten(d, n, e, rr) ==
    /\ n \in Database
    /\ n.event = [d.event EXCEPT ![e] = "live"]
    /\ n.rows = d.rows \cup {e, rr.parent, rr.root}
    /\ n.parent = [d.parent EXCEPT ![e] = rr.parent]
    /\ n.root = [d.root EXCEPT ![e] = rr.root]
    /\ n.depth = [d.depth EXCEPT ![e] = rr.depth]
    /\ n.replies = Plus1(d.replies, rr.parent)
    /\ n.descendants = Plus1(d.descendants, rr.root)
    /\ n.parked = d.parked
    /\ n.addr = d.addr

\* insert_reply writes these columns and no others.
LEMMA InsertReplyEffect ==
    ASSUME msg \in Universes, now \in Nat,
           NEW d \in Database, NEW e \in Id, NEW door,
           NEW rr \in [parent : Id, root : Id, depth : Nat],
           NEW n, n = InsertReply(d, e, rr, door)
    PROVE  ReplyWritten(d, n, e, rr)
<1>1. /\ n.event = [d.event EXCEPT ![e] = "live"]
      /\ n.rows = d.rows \cup {e, rr.parent, rr.root}
      /\ n.parent = [d.parent EXCEPT ![e] = rr.parent]
      /\ n.root = [d.root EXCEPT ![e] = rr.root]
      /\ n.depth = [d.depth EXCEPT ![e] = rr.depth]
      /\ n.replies = Plus1(d.replies, rr.parent)
      /\ n.descendants = Plus1(d.descendants, rr.root)
      /\ n.last = [d.last EXCEPT ![rr.parent] = LastReply(door, d.last[rr.parent], e)]
      /\ n.parked = d.parked
      /\ n.quarantine = d.quarantine
      /\ n.addr = d.addr
    BY DEF InsertReply, Database
<1>2. n \in Database
    <2>1. \A x \in Nat : LastReply(door, x, e) \in Nat
        BY MsgType DEF LastReply, Message
    <2>2. n.last \in [Id -> Nat]
        BY <1>1, <2>1, DbType
    <2>3. n.replies \in [Id -> Nat] /\ n.descendants \in [Id -> Nat]
        BY <1>1, DbType DEF Plus1
    <2>4. /\ n.event \in [Id -> {"absent", "live", "deleted"}]
          /\ n.rows \subseteq Id
          /\ n.parent \in [Id -> Id \cup {NoId}]
          /\ n.root \in [Id -> Id \cup {NoId}]
          /\ n.depth \in [Id -> Nat]
        BY <1>1, DbType
    <2>5. n = [event |-> n.event, rows |-> n.rows, parent |-> n.parent, root |-> n.root,
               depth |-> n.depth, replies |-> n.replies, descendants |-> n.descendants,
               last |-> n.last, parked |-> n.parked, quarantine |-> n.quarantine,
               addr |-> n.addr]
        BY DEF InsertReply, Database
    <2> QED BY <1>1, <2>2, <2>3, <2>4, <2>5, DbType DEF Database
<1> QED BY <1>1, <1>2 DEF ReplyWritten

\* insert_event_row writes the events table alone.
LEMMA InsertEventEffect ==
    ASSUME NEW d \in Database, NEW e \in Id, NEW n, n = InsertEvent(d, e)
    PROVE  /\ n \in Database
           /\ n.event = [d.event EXCEPT ![e] = "live"]
           /\ n.rows = d.rows /\ n.parent = d.parent /\ n.root = d.root
           /\ n.depth = d.depth /\ n.replies = d.replies
           /\ n.descendants = d.descendants /\ n.last = d.last
           /\ n.parked = d.parked /\ n.addr = d.addr
BY DEF InsertEvent, Database

\* A guarded decrement leaves a column of counters.
LEMMA LessType ==
    ASSUME NEW f \in [Id -> Nat], NEW i
    PROVE  Less1(f, i) \in [Id -> Nat]
BY DEF Less1

\* delete_flow's turn on a live target: the flag and the two counters.
LEMMA SoftDeleteEffect ==
    ASSUME NEW d \in Database, NEW t \in Id, d.event[t] = "live",
           NEW n, n = SoftDelete(d, t)
    PROVE  /\ n \in Database
           /\ n.event = [d.event EXCEPT ![t] = "deleted"]
           /\ n.rows = d.rows /\ n.parent = d.parent /\ n.root = d.root
           /\ n.depth = d.depth
           /\ n.replies = Less1(d.replies, d.parent[t])
           /\ n.descendants = Less1(d.descendants, d.root[t]) /\ n.last = d.last
           /\ n.parked = d.parked /\ n.addr = d.addr
<1>1. /\ Less1(d.replies, d.parent[t]) \in [Id -> Nat]
      /\ Less1(d.descendants, d.root[t]) \in [Id -> Nat]
    BY LessType, DbType
<1> QED BY <1>1 DEF SoftDelete, Database

\* Parking, unparking and quarantining touch no other table.
Aside(d, n) ==
    /\ n \in Database
    /\ n.event = d.event /\ n.rows = d.rows /\ n.parent = d.parent
    /\ n.root = d.root /\ n.depth = d.depth /\ n.replies = d.replies
    /\ n.descendants = d.descendants /\ n.last = d.last /\ n.addr = d.addr

\* Parking, unparking and quarantining touch nothing that is served.
LEMMA AsideEffect ==
    ASSUME NEW d \in Database, NEW e \in Id, now \in Nat
    PROVE  /\ Aside(d, Park(d, e)) /\ Park(d, e).parked = [d.parked EXCEPT ![e] = now]
           /\ Aside(d, Unpark(d, e)) /\ Unpark(d, e).parked = [d.parked EXCEPT ![e] = Null]
           /\ Aside(d, Quarantine(d, e)) /\ Quarantine(d, e).parked = d.parked
<1>1. Aside(d, Park(d, e)) /\ Park(d, e).parked = [d.parked EXCEPT ![e] = now]
    BY DEF Park, Aside, Database
<1>2. Aside(d, Unpark(d, e)) /\ Unpark(d, e).parked = [d.parked EXCEPT ![e] = Null]
    BY DEF Unpark, Aside, Database, Null
<1>3. Aside(d, Quarantine(d, e)) /\ Quarantine(d, e).parked = d.parked
    BY DEF Quarantine, Aside, Database
<1> QED BY <1>1, <1>2, <1>3

WinnerWritten(d, n, e) ==
    /\ n \in Database
    /\ n.event = [i \in Id |-> IF i = e THEN "live"
                               ELSE IF i = d.addr[msg[e].slot] THEN "absent"
                               ELSE d.event[i]]
    /\ n.rows = d.rows /\ n.parent = d.parent /\ n.root = d.root
    /\ n.depth = d.depth /\ n.replies = d.replies
    /\ n.descendants = d.descendants /\ n.last = d.last
    /\ n.parked = d.parked
    /\ n.addr = [d.addr EXCEPT ![msg[e].slot] = e]

\* insert_deduped writes the new winner, its address, and removes the old row.
LEMMA SupersedeEffect ==
    ASSUME NEW d \in Database, NEW e \in Id, msg[e].slot \in Slot,
           NEW n, n = Supersede(d, e)
    PROVE  WinnerWritten(d, n, e)
<1> DEFINE ev == [i \in Id |-> IF i = e THEN "live"
                               ELSE IF i = d.addr[msg[e].slot] THEN "absent"
                               ELSE d.event[i]]
<1>1. ev \in [Id -> {"absent", "live", "deleted"}]
    BY DbType
<1>2. n.event = ev
    BY DEF Supersede, Database
<1> HIDE DEF ev
<1>3. /\ n.rows = d.rows /\ n.parent = d.parent /\ n.root = d.root
      /\ n.depth = d.depth /\ n.replies = d.replies
      /\ n.descendants = d.descendants /\ n.last = d.last
      /\ n.parked = d.parked /\ n.quarantine = d.quarantine
      /\ n.addr = [d.addr EXCEPT ![msg[e].slot] = e]
    BY DEF Supersede, Database
<1>4. n = [event |-> n.event, rows |-> n.rows, parent |-> n.parent, root |-> n.root,
           depth |-> n.depth, replies |-> n.replies, descendants |-> n.descendants,
           last |-> n.last, parked |-> n.parked, quarantine |-> n.quarantine,
           addr |-> n.addr]
    BY DEF Supersede, Database
<1>5. n \in Database
    BY <1>1, <1>2, <1>3, <1>4, DbType DEF Database
<1> QED BY <1>2, <1>3, <1>5 DEF ev, WinnerWritten

----------------------------------------------------------------------------
(* What the writing operators do to the invariant of a database.           *)

\* The set behind each counter.
LEMMA CountedType ==
    ASSUME NEW d \in Database, NEW m
    PROVE  Children(d, m) \subseteq Id /\ Descendants(d, m) \subseteq Id
BY DEF Children, Descendants

\* Storing a top-level event of any kind that has no replaceable address.
LEMMA InsertEventStore ==
    ASSUME msg \in Universes, NEW d, StoreInv(d), NEW e \in Id,
           d.event[e] = "absent", msg[e].slot = NoSlot
    PROVE  StoreInv(InsertEvent(d, e))
<1> DEFINE n == InsertEvent(d, e)
<1>1. d \in Database /\ Rows(d) /\ CountersExact(d) /\ Slots(d)
    BY DEF StoreInv
<1>2. /\ n \in Database
      /\ n.event = [d.event EXCEPT ![e] = "live"]
      /\ n.rows = d.rows /\ n.parent = d.parent /\ n.root = d.root
      /\ n.depth = d.depth /\ n.replies = d.replies
      /\ n.descendants = d.descendants
      /\ n.parked = d.parked /\ n.addr = d.addr
    BY <1>1, InsertEventEffect
<1> HIDE DEF n
<1>3. \A i \in Id : n.event[i] = IF i = e THEN "live" ELSE d.event[i]
    BY <1>1, <1>2, DbType
<1>4. Rows(n)
    BY <1>1, <1>2, <1>3 DEF Rows
<1>5. d.parent[e] = NoId /\ d.root[e] = NoId
    BY <1>1 DEF Rows
<1>6. CountersExact(n)
    <2>1. ASSUME NEW m \in Id
          PROVE  Children(n, m) = Children(d, m) /\ Descendants(n, m) = Descendants(d, m)
        BY <1>2, <1>3, <1>5, IdAssumption DEF Children, Descendants, NoId
    <2> QED BY <1>1, <1>2, <2>1 DEF CountersExact
<1>7. Slots(n)
    BY <1>1, <1>2, <1>3, DbType DEF Slots, NoId
<1> QED BY <1>2, <1>4, <1>6, <1>7 DEF StoreInv, n

\* Storing a reply whose ancestry has been checked: its own row, the two stubs
\* and the two counters.
LEMMA InsertReplyStore ==
    ASSUME msg \in Universes, now \in Nat, NEW d, StoreInv(d), NEW e \in Id, NEW door,
           NEW rr \in [parent : Id, root : Id, depth : Nat],
           d.event[e] = "absent", msg[e].kind = "thread",
           d.event[rr.parent] # "absent", d.event[rr.root] # "absent",
           SameChannel(rr.parent, e),
           d.depth[rr.parent] < rr.depth, rr.depth <= DepthCap
    PROVE  StoreInv(InsertReply(d, e, rr, door))
<1> DEFINE n == InsertReply(d, e, rr, door)
           p == rr.parent
           r == rr.root
<1>1. d \in Database /\ Rows(d) /\ CountersExact(d) /\ Slots(d)
    BY DEF StoreInv
<1>2. /\ n \in Database
      /\ n.event = [d.event EXCEPT ![e] = "live"]
      /\ n.rows = d.rows \cup {e, p, r}
      /\ n.parent = [d.parent EXCEPT ![e] = p]
      /\ n.root = [d.root EXCEPT ![e] = r]
      /\ n.depth = [d.depth EXCEPT ![e] = rr.depth]
      /\ n.replies = Plus1(d.replies, p)
      /\ n.descendants = Plus1(d.descendants, r)
      /\ n.addr = d.addr
    BY <1>1, InsertReplyEffect DEF ReplyWritten
<1>3. p \in Id /\ r \in Id /\ rr.depth \in Nat /\ p # NoId /\ r # NoId /\ p # e /\ r # e
    BY IdAssumption DEF NoId
<1> HIDE DEF n, p, r
<1>4. /\ \A i \in Id : n.event[i] = IF i = e THEN "live" ELSE d.event[i]
      /\ \A i \in Id : n.parent[i] = IF i = e THEN p ELSE d.parent[i]
      /\ \A i \in Id : n.root[i] = IF i = e THEN r ELSE d.root[i]
      /\ \A i \in Id : n.depth[i] = IF i = e THEN rr.depth ELSE d.depth[i]
    BY <1>1, <1>2, DbType
<1>5. /\ \A i \in Id : n.replies[i] = IF i = p THEN d.replies[i] + 1 ELSE d.replies[i]
      /\ \A i \in Id : n.descendants[i] = IF i = r THEN d.descendants[i] + 1 ELSE d.descendants[i]
    BY <1>1, <1>2, DbType DEF Plus1
<1>6. e \notin d.rows
    BY <1>1 DEF Rows
<1>7. Rows(n)
    <2> SUFFICES ASSUME NEW c \in Id
                 PROVE  /\ n.depth[c] <= DepthCap
                        /\ c \notin n.rows => n.depth[c] = 0
                        /\ c \in n.rows /\ msg[c].kind = "thread" => n.event[c] # "absent"
                        /\ n.parent[c] = NoId <=> n.root[c] = NoId
                        /\ n.parent[c] # NoId =>
                            /\ n.event[c] # "absent"
                            /\ msg[c].kind = "thread"
                            /\ {c, n.parent[c], n.root[c]} \subseteq n.rows
                            /\ n.depth[n.parent[c]] < n.depth[c]
                            /\ SameChannel(n.parent[c], c)
        BY DEF Rows
    <2>1. CASE c = e
        BY <2>1, <1>2, <1>3, <1>4 DEF p
    <2>2. CASE c # e
        <3>1. /\ n.parent[c] = d.parent[c] /\ n.root[c] = d.root[c]
              /\ n.depth[c] = d.depth[c] /\ n.event[c] = d.event[c]
            BY <2>2, <1>4
        <3>2. c \in n.rows => c \in d.rows \/ c = p \/ c = r
            BY <2>2, <1>2
        <3>3. d.parent[c] # NoId => d.parent[c] \in Id /\ d.parent[c] # e
            BY <1>1, <1>6, DbType DEF Rows
        <3>4. d.parent[c] # NoId => n.depth[d.parent[c]] = d.depth[d.parent[c]]
            BY <3>3, <1>4
        <3> QED BY <1>1, <1>2, <3>1, <3>2, <3>4 DEF Rows, p, r
    <2> QED BY <2>1, <2>2
<1>8. CountersExact(n)
    <2>1. ASSUME NEW m \in Id
          PROVE  n.replies[m] = Cardinality(Children(n, m))
        <3>1. d.replies[m] = Cardinality(Children(d, m)) /\ Children(d, m) \subseteq Id
            BY <1>1, CountedType DEF CountersExact
        <3>2. CASE m = p
            <4>1. Children(n, m) = Children(d, m) \cup {e} /\ e \notin Children(d, m)
                BY <3>2, <1>4 DEF Children
            <4> QED BY <3>1, <3>2, <4>1, <1>5, CardAdd
        <3>3. CASE m # p
            <4>1. Children(n, m) = Children(d, m)
                BY <3>3, <1>4 DEF Children
            <4> QED BY <3>1, <3>3, <4>1, <1>5
        <3> QED BY <3>2, <3>3
    <2>2. ASSUME NEW m \in Id
          PROVE  n.descendants[m] = Cardinality(Descendants(n, m))
        <3>1. d.descendants[m] = Cardinality(Descendants(d, m)) /\ Descendants(d, m) \subseteq Id
            BY <1>1, CountedType DEF CountersExact
        <3>2. CASE m = r
            <4>1. Descendants(n, m) = Descendants(d, m) \cup {e} /\ e \notin Descendants(d, m)
                BY <3>2, <1>4 DEF Descendants
            <4> QED BY <3>1, <3>2, <4>1, <1>5, CardAdd
        <3>3. CASE m # r
            <4>1. Descendants(n, m) = Descendants(d, m)
                BY <3>3, <1>4 DEF Descendants
            <4> QED BY <3>1, <3>3, <4>1, <1>5
        <3> QED BY <3>2, <3>3
    <2> QED BY <2>1, <2>2 DEF CountersExact
<1>9. Slots(n)
    <2>1. msg[e].slot = NoSlot
        BY MsgType
    <2> QED BY <2>1, <1>1, <1>2, <1>4, DbType DEF Slots, NoId
<1> QED BY <1>2, <1>7, <1>8, <1>9 DEF StoreInv, n

\* Soft-deleting one target: a live reply leaves both of its counters, which
\* are positive because they counted it.
LEMMA SoftDeleteStore ==
    ASSUME msg \in Universes, NEW d, StoreInv(d), NEW t \in Id
    PROVE  StoreInv(SoftDelete(d, t))
<1>1. CASE d.event[t] # "live"
    BY <1>1 DEF SoftDelete
<1>2. CASE d.event[t] = "live"
    <2> DEFINE n == SoftDelete(d, t)
    <2>1. d \in Database /\ Rows(d) /\ CountersExact(d) /\ Slots(d)
        BY DEF StoreInv
    <2>2. /\ n \in Database
          /\ n.event = [d.event EXCEPT ![t] = "deleted"]
          /\ n.rows = d.rows /\ n.parent = d.parent /\ n.root = d.root
          /\ n.depth = d.depth
          /\ n.replies = Less1(d.replies, d.parent[t])
          /\ n.descendants = Less1(d.descendants, d.root[t])
          /\ n.addr = d.addr
        BY <1>2, <2>1, SoftDeleteEffect
    <2> HIDE DEF n
    <2>3. \A i \in Id : n.event[i] = IF i = t THEN "deleted" ELSE d.event[i]
        BY <2>1, <2>2, DbType
    <2>4. Rows(n)
        BY <2>1, <2>2, <2>3 DEF Rows
    <2>5. CountersExact(n)
        <3>1. ASSUME NEW m \in Id
              PROVE  n.replies[m] = Cardinality(Children(n, m))
            <4>1. /\ d.replies[m] = Cardinality(Children(d, m))
                  /\ Children(d, m) \subseteq Id
                  /\ d.replies[m] \in Nat
                BY <2>1, CountedType, DbType DEF CountersExact
            <4>2. n.replies[m] = IF m = d.parent[t] /\ d.replies[m] > 0
                                 THEN d.replies[m] - 1 ELSE d.replies[m]
                BY <2>2 DEF Less1
            <4>3. CASE m = d.parent[t]
                <5>1. Children(n, m) = Children(d, m) \ {t} /\ t \in Children(d, m)
                    BY <1>2, <4>3, <2>2, <2>3 DEF Children
                <5> QED BY <4>1, <4>2, <4>3, <5>1, CardRemove
            <4>4. CASE m # d.parent[t]
                <5>1. Children(n, m) = Children(d, m)
                    BY <4>4, <2>2, <2>3 DEF Children
                <5> QED BY <4>1, <4>2, <4>4, <5>1
            <4> QED BY <4>3, <4>4
        <3>2. ASSUME NEW m \in Id
              PROVE  n.descendants[m] = Cardinality(Descendants(n, m))
            <4>1. /\ d.descendants[m] = Cardinality(Descendants(d, m))
                  /\ Descendants(d, m) \subseteq Id
                  /\ d.descendants[m] \in Nat
                BY <2>1, CountedType, DbType DEF CountersExact
            <4>2. n.descendants[m] = IF m = d.root[t] /\ d.descendants[m] > 0
                                     THEN d.descendants[m] - 1 ELSE d.descendants[m]
                BY <2>2 DEF Less1
            <4>3. CASE m = d.root[t]
                <5>1. Descendants(n, m) = Descendants(d, m) \ {t} /\ t \in Descendants(d, m)
                    BY <1>2, <4>3, <2>2, <2>3 DEF Descendants
                <5> QED BY <4>1, <4>2, <4>3, <5>1, CardRemove
            <4>4. CASE m # d.root[t]
                <5>1. Descendants(n, m) = Descendants(d, m)
                    BY <4>4, <2>2, <2>3 DEF Descendants
                <5> QED BY <4>1, <4>2, <4>4, <5>1
            <4> QED BY <4>3, <4>4
        <3> QED BY <3>1, <3>2 DEF CountersExact
    <2>6. Slots(n)
        BY <1>2, <2>1, <2>2, <2>3, DbType DEF Slots, NoId
    <2> QED BY <2>2, <2>4, <2>5, <2>6 DEF StoreInv, n
<1> QED BY <1>1, <1>2

\* Parking, unparking and quarantining.
LEMMA AsideStore ==
    ASSUME NEW d, StoreInv(d), NEW n, Aside(d, n)
    PROVE  StoreInv(n)
<1>1. d \in Database /\ Rows(d) /\ CountersExact(d) /\ Slots(d)
    BY DEF StoreInv
<1>2. Rows(n)
    BY <1>1 DEF Aside, Rows
<1>3. CountersExact(n)
    BY <1>1 DEF Aside, CountersExact, Children, Descendants
<1>4. Slots(n)
    BY <1>1 DEF Aside, Slots
<1> QED BY <1>2, <1>3, <1>4 DEF Aside, StoreInv

\* Storing the new winner of a replaceable address removes the old one, which
\* is no reply and so is counted nowhere.
LEMMA SupersedeStore ==
    ASSUME msg \in Universes, NEW d, StoreInv(d), NEW e \in Id,
           d.event[e] = "absent", msg[e].slot # NoSlot
    PROVE  StoreInv(Supersede(d, e))
<1> DEFINE n == Supersede(d, e)
           s == msg[e].slot
           w == d.addr[s]
<1>1. d \in Database /\ Rows(d) /\ CountersExact(d) /\ Slots(d)
    BY DEF StoreInv
<1>2. s \in Slot
    BY MsgType DEF Message
<1>3. /\ n \in Database
      /\ n.event = [i \in Id |-> IF i = e THEN "live"
                                 ELSE IF i = w THEN "absent" ELSE d.event[i]]
      /\ n.rows = d.rows /\ n.parent = d.parent /\ n.root = d.root
      /\ n.depth = d.depth /\ n.replies = d.replies
      /\ n.descendants = d.descendants
      /\ n.addr = [d.addr EXCEPT ![s] = e]
    BY <1>1, <1>2, SupersedeEffect DEF WinnerWritten
<1> HIDE DEF n
<1>4. \A i \in Id : n.event[i] = IF i = e THEN "live"
                                 ELSE IF i = w THEN "absent" ELSE d.event[i]
    BY <1>3
<1>5. \A i \in Slot : n.addr[i] = IF i = s THEN e ELSE d.addr[i]
    BY <1>1, <1>3, DbType
<1>6. msg[e].kind # "thread" /\ e # NoId
    BY MsgType, IdAssumption DEF NoId
<1>7. w # NoId => w \in Id /\ msg[w].slot = s /\ msg[w].kind # "thread" /\ w # e
    <2>1. w # NoId => w \in Id /\ msg[w].slot = s /\ d.event[w] # "absent"
        BY <1>1, <1>2, DbType DEF Slots
    <2>2. w # NoId => msg[w].kind # "thread"
        BY <2>1, MsgType
    <2> QED BY <2>1, <2>2
<1>8. \A c \in Id : c = e \/ c = w => d.parent[c] = NoId /\ d.root[c] = NoId
    BY <1>1, <1>6, <1>7, IdAssumption DEF Rows, NoId
<1>9. Rows(n)
    BY <1>1, <1>3, <1>4, <1>6, <1>7, IdAssumption DEF Rows, NoId
<1>10. CountersExact(n)
    <2>1. ASSUME NEW m \in Id
          PROVE  Children(n, m) = Children(d, m) /\ Descendants(n, m) = Descendants(d, m)
        <3>1. m # NoId
            BY IdAssumption DEF NoId
        <3>2. ASSUME NEW c \in Id
              PROVE  /\ n.parent[c] = m /\ n.event[c] = "live"
                            <=> d.parent[c] = m /\ d.event[c] = "live"
                     /\ n.root[c] = m /\ n.event[c] = "live"
                            <=> d.root[c] = m /\ d.event[c] = "live"
            BY <3>1, <1>3, <1>4, <1>8
        <3> QED BY <3>2 DEF Children, Descendants
    <2> QED BY <1>1, <1>3, <2>1 DEF CountersExact
<1>11. Slots(n)
    <2>1. ASSUME NEW i \in Id, msg[i].slot # NoSlot, n.event[i] # "absent"
          PROVE  n.addr[msg[i].slot] = i
        <3>1. msg[i].slot \in Slot
            BY <2>1, MsgType DEF Message
        <3> QED BY <2>1, <3>1, <1>1, <1>4, <1>5 DEF Slots
    <2>2. ASSUME NEW x \in Slot, n.addr[x] # NoId
          PROVE  n.event[n.addr[x]] # "absent" /\ msg[n.addr[x]].slot = x
        <3>1. CASE x = s
            BY <3>1, <1>4, <1>5
        <3>2. CASE x # s
            <4>1. n.addr[x] = d.addr[x] /\ d.addr[x] \in Id
                BY <2>2, <3>2, <1>1, <1>5, DbType
            <4>2. d.event[d.addr[x]] # "absent" /\ msg[d.addr[x]].slot = x
                BY <2>2, <4>1, <1>1 DEF Slots
            <4>3. d.addr[x] # w
                BY <3>2, <4>1, <4>2, <1>7, IdAssumption DEF NoId
            <4> QED BY <4>1, <4>2, <4>3, <1>4
        <3> QED BY <3>1, <3>2
    <2> QED BY <2>1, <2>2 DEF Slots
<1> QED BY <1>3, <1>9, <1>10, <1>11 DEF StoreInv, n

----------------------------------------------------------------------------
(* The stack of the drain loop.                                            *)

\* Nothing is on the empty drain stack.
LEMMA InEmpty == \A i : ~In(<<>>, i)
BY DEF In

\* drain_pending starts with the new id on its stack.
LEMMA InSingle == ASSUME NEW e PROVE In(<<e>>, e)
<1>1. 1 \in 1..Len(<<e>>) /\ <<e>>[1] = e
    OBVIOUS
<1> QED BY <1>1 DEF In

\* Popping the stack takes away its head only.
LEMMA InPop ==
    ASSUME NEW s \in Seq(Id), s # <<>>, NEW i, In(s, i), i # Head(s)
    PROVE  In(Tail(s), i)
<1>1. PICK k \in 1..Len(s) : s[k] = i
    BY DEF In
<1>2. k # 1
    BY <1>1
<1>3. k - 1 \in 1..Len(Tail(s)) /\ Tail(s)[k - 1] = i
    BY <1>1, <1>2
<1> QED BY <1>3 DEF In

\* Pushing an attached orphan keeps everything that was on the stack.
LEMMA InPush ==
    ASSUME NEW s \in Seq(Id), s # <<>>, NEW c \in Id,
           NEW t, t = <<Head(s), c>> \o Tail(s)
    PROVE  t \in Seq(Id) /\ In(t, c) /\ \A i : In(s, i) => In(t, i)
<1>1. /\ t \in Seq(Id) /\ Len(t) = Len(s) + 1
      /\ t[1] = s[1] /\ t[2] = c
      /\ \A k \in 2..Len(s) : t[k + 1] = s[k]
    OBVIOUS
<1>2. Len(s) \in Nat /\ Len(s) >= 1
    OBVIOUS
<1>3. In(t, c)
    BY <1>1, <1>2 DEF In
<1>4. ASSUME NEW i, In(s, i)
      PROVE  In(t, i)
    <2>1. PICK k \in 1..Len(s) : s[k] = i
        BY <1>4 DEF In
    <2>2. CASE k = 1
        BY <2>1, <2>2, <1>1, <1>2 DEF In
    <2>3. CASE k # 1
        <3>1. k + 1 \in 1..Len(t) /\ t[k + 1] = i
            BY <2>1, <2>3, <1>1, <1>2
        <3> QED BY <3>1 DEF In
    <2> QED BY <2>2, <2>3
<1> QED BY <1>1, <1>3, <1>4

----------------------------------------------------------------------------
(* The invariant of a state from the invariants of its parts.              *)

\* A database that satisfies StoreInv still does when it is the next state's.
LEMMA StoreFrame ==
    ASSUME NEW d, StoreInv(d), msg' = msg
    PROVE  /\ work' = d => StoreInv(work)'
           /\ db' = d => StoreInv(db)'
<1>1. d \in Database /\ Rows(d) /\ CountersExact(d) /\ Slots(d)
    BY DEF StoreInv
<1>2. ASSUME work' = d
      PROVE  Rows(work)' /\ CountersExact(work)' /\ Slots(work)' /\ (work \in Database)'
    <2>1. Rows(work)' BY <1>1, <1>2 DEF Rows, SameChannel
    <2>2. CountersExact(work)' BY <1>1, <1>2 DEF CountersExact, Children, Descendants
    <2>3. Slots(work)' BY <1>1, <1>2 DEF Slots
    <2>4. (work \in Database)' BY <1>1, <1>2 DEF Database
    <2> QED BY <2>1, <2>2, <2>3, <2>4
<1>3. ASSUME db' = d
      PROVE  Rows(db)' /\ CountersExact(db)' /\ Slots(db)' /\ (db \in Database)'
    <2>1. Rows(db)' BY <1>1, <1>3 DEF Rows, SameChannel
    <2>2. CountersExact(db)' BY <1>1, <1>3 DEF CountersExact, Children, Descendants
    <2>3. Slots(db)' BY <1>1, <1>3 DEF Slots
    <2>4. (db \in Database)' BY <1>1, <1>3 DEF Database
    <2> QED BY <2>1, <2>2, <2>3, <2>4
<1> QED BY <1>2, <1>3 DEF StoreInv

\* So does one whose orphans wait, beside the stack they wait for.
LEMMA WaitingFrame ==
    ASSUME NEW d, NEW stack, Waiting(d, stack), msg' = msg
    PROVE  /\ work' = d /\ tx'.stack = stack => Waiting(work, tx.stack)'
           /\ db' = d /\ stack = <<>> => Waiting(db, <<>>)'
BY DEF Waiting, IsReply, Present, In

\* A transaction begins, or fails at once.
LEMMA BeginStep ==
    ASSUME IInv, NEW e \in Id, NEW door \in {"local", "mesh", "relay"}, NEW out \in Outcomes,
           NEW d, StoreInv(d), NEW targets \in Seq(Id), NEW stack \in Seq(Id),
           Waiting(d, stack), NEW emits \in SUBSET Id,
           Begin(e, door, out, d, targets, stack, emits)
    PROVE  IInv'
<1>1. tx' \in Transaction /\ tx'.status = "open" /\ tx'.stack = stack
    BY DEF Begin, Transaction
<1>2. TxInv'
    BY <1>1 DEF TxInv, Idle
<1>3. StoreInv(work)' /\ StoreInv(db)'
    BY StoreFrame DEF IInv, Begin
<1>4. Waiting(work, tx.stack)' /\ Waiting(db, <<>>)'
    BY <1>1, WaitingFrame DEF IInv, Begin
<1> QED BY <1>2, <1>3, <1>4 DEF IInv, Begin

\* The transaction is rolled back or never wrote anything.
LEMMA RollbackStep ==
    ASSUME IInv, NEW e \in Id \cup {NoId}, NEW door \in {"none", "local", "mesh", "relay"},
           NEW out \in Outcomes,
           work' = db, tx' = Closed(e, door, out), UNCHANGED <<msg, now, db>>
    PROVE  IInv'
<1>1. tx' \in Transaction /\ tx'.stack = <<>> /\ tx'.targets = <<>>
    BY DEF Closed, Transaction
<1>2. TxInv'
    BY <1>1 DEF TxInv, Idle
<1>3. StoreInv(work)' /\ StoreInv(db)'
    BY StoreFrame DEF IInv
<1>4. Waiting(work, tx.stack)' /\ Waiting(db, <<>>)'
    BY <1>1, WaitingFrame DEF IInv
<1> QED BY <1>2, <1>3, <1>4 DEF IInv

\* What the checks of resolve_reply and insert_stub establish.
LEMMA ReplyChecked ==
    ASSUME msg \in Universes, NEW d, StoreInv(d), NEW e \in Id,
           ResolveReply(d, e) = "ok", StubsPresent(d, e),
           NEW rr, rr = ResolvedReply(d, e)
    PROVE  /\ rr \in [parent : Id, root : Id, depth : Nat]
           /\ rr.parent = msg[e].reply /\ rr.root = EffectiveRoot(d, msg[e].reply)
           /\ d.event[rr.parent] # "absent" /\ d.event[rr.root] # "absent"
           /\ SameChannel(rr.parent, e)
           /\ d.depth[rr.parent] < rr.depth /\ rr.depth <= DepthCap
<1> DEFINE p == msg[e].reply
<1>1. /\ Present(d, p) /\ SameChannel(p, e)
      /\ p \in d.rows => ReplyDepth(d, p) <= DepthCap
    BY DEF ResolveReply
<1>2. d \in Database /\ Rows(d)
    BY DEF StoreInv
<1>3. p \in Id /\ d.event[p] # "absent"
    BY <1>1 DEF Present
<1>4. EffectiveRoot(d, p) \in Id /\ ReplyDepth(d, p) \in Nat
    BY <1>2, <1>3, RootType
<1>5. rr.parent = p /\ rr.root = EffectiveRoot(d, p) /\ rr.depth = ReplyDepth(d, p)
      /\ rr \in [parent : Id, root : Id, depth : Nat]
    BY <1>3, <1>4 DEF ResolvedReply
<1>6. d.event[EffectiveRoot(d, p)] # "absent"
    BY DEF StubsPresent, Present
<1>7. d.depth[p] < ReplyDepth(d, p) /\ ReplyDepth(d, p) <= DepthCap
    <2>1. d.depth[p] \in Nat
        BY <1>2, <1>3, DbType
    <2>2. CASE p \in d.rows
        BY <1>1, <2>1, <2>2 DEF ReplyDepth
    <2>3. CASE p \notin d.rows
        BY <1>2, <1>3, <2>3, CapAssumption DEF ReplyDepth, Rows
    <2> QED BY <2>2, <2>3
<1> HIDE DEF p
<1>8. QED BY <1>1, <1>3, <1>5, <1>6, <1>7 DEF p

\* What the stored reply and the new winner change for the parked orphans.
LEMMA InsertReplyReads ==
    ASSUME msg \in Universes, now \in Nat, NEW d \in Database, NEW e \in Id, NEW door,
           NEW rr \in [parent : Id, root : Id, depth : Nat]
    PROVE  /\ InsertReply(d, e, rr, door).parked = d.parked
           /\ \A i \in Id : InsertReply(d, e, rr, door).event[i]
                                = IF i = e THEN "live" ELSE d.event[i]
<1> DEFINE n == InsertReply(d, e, rr, door)
<1>1. ReplyWritten(d, n, e, rr)
    BY InsertReplyEffect
<1> HIDE DEF n
<1>2. \A i \in Id : n.event[i] = IF i = e THEN "live" ELSE d.event[i]
    BY <1>1, DbType DEF ReplyWritten
<1> QED BY <1>1, <1>2 DEF n, ReplyWritten

\* Superseding makes no parked event present but the new winner.
LEMMA SupersedeReads ==
    ASSUME NEW d \in Database, NEW e \in Id, msg[e].slot \in Slot
    PROVE  /\ Supersede(d, e).parked = d.parked
           /\ \A i \in Id : i # e => Supersede(d, e).event[i] \in {d.event[i], "absent"}
<1> DEFINE n == Supersede(d, e)
<1>1. WinnerWritten(d, n, e)
    BY SupersedeEffect
<1> HIDE DEF n
<1>2. \A i \in Id : i # e => n.event[i] \in {d.event[i], "absent"}
    BY <1>1 DEF WinnerWritten
<1> QED BY <1>1, <1>2 DEF n, WinnerWritten

\* Every ingest of an event through a door.
LEMMA IngestStep ==
    ASSUME IInv, NEW e \in Id, NEW door \in Doors, Ingest(e, door)
    PROVE  IInv'
<1>1. /\ msg \in Universes /\ now \in Nat /\ now # 0 /\ StoreInv(db) /\ db \in Database
      /\ Waiting(db, <<>>) /\ door \in {"local", "mesh", "relay"}
    BY DoorAssumption DEF IInv, StoreInv
<1>2. /\ e \in Id /\ <<>> \in Seq(Id) /\ <<e>> \in Seq(Id) /\ {} \in SUBSET Id
      /\ {"duplicate", "rejected", "quarantined", "accepted", "stale", "parked", "error"}
            \subseteq Outcomes
    BY DEF Outcomes
<1>3. ~Present(db, e) => db.event[e] = "absent"
    BY DEF Present
<1>4. \A c \in Id : db.parked[c] # Null =>
          IsReply(c) /\ db.event[c] = "absent" /\ ~Present(db, msg[c].reply)
    BY <1>1, InEmpty DEF Waiting
<1>5. StoreInv(Quarantine(db, e)) /\ Waiting(Quarantine(db, e), <<>>)
    <2>1. Aside(db, Quarantine(db, e)) /\ Quarantine(db, e).parked = db.parked
        BY <1>1, AsideEffect
    <2> QED BY <1>1, <2>1, AsideStore DEF Aside, Waiting, Present
<1>6. CASE IngestDuplicate(e, door)
    BY <1>1, <1>2, <1>6, BeginStep DEF IngestDuplicate
<1>7. CASE IngestRelayAuthored(e, door)
    BY <1>1, <1>2, <1>5, <1>7, BeginStep DEF IngestRelayAuthored
<1>8. ASSUME ~Present(db, e), ~IsReply(e), msg[e].slot = NoSlot
      PROVE  StoreInv(InsertEvent(db, e)) /\ Waiting(InsertEvent(db, e), <<e>>)
    <2> DEFINE n == InsertEvent(db, e)
    <2>1. StoreInv(n)
        BY <1>1, <1>3, <1>8, InsertEventStore
    <2>2. n.event = [db.event EXCEPT ![e] = "live"] /\ n.parked = db.parked
        BY <1>1, InsertEventEffect
    <2> HIDE DEF n
    <2>3. \A i \in Id : n.event[i] = IF i = e THEN "live" ELSE db.event[i]
        BY <1>1, <2>2, DbType
    <2>4. Waiting(n, <<e>>)
        BY <1>4, <1>8, <2>2, <2>3, InSingle DEF Waiting, Present
    <2> QED BY <2>1, <2>4 DEF n
<1>9. CASE IngestDeletion(e, door)
    <2>1. msg[e].targets \in Seq(Id) /\ msg[e].slot = NoSlot /\ ~IsReply(e)
        BY <1>1, <1>9, MsgType DEF IngestDeletion, Message, IsReply
    <2> QED BY <1>1, <1>2, <1>8, <1>9, <2>1, BeginStep DEF IngestDeletion
<1>10. CASE IngestPlain(e, door)
    <2>1. msg[e].slot = NoSlot /\ ~IsReply(e)
        BY <1>1, <1>10, MsgType DEF IngestPlain, IsReply
    <2> QED BY <1>1, <1>2, <1>8, <1>10, <2>1, BeginStep DEF IngestPlain
<1>11. CASE IngestReplaceable(e, door)
    <2>1. msg[e].slot # NoSlot /\ msg[e].slot \in Slot /\ ~IsReply(e) /\ ~Present(db, e)
        BY <1>1, <1>11, MsgType DEF IngestReplaceable, IsReply, Message
    <2> DEFINE n == Supersede(db, e)
    <2>2. StoreInv(n) /\ n = Supersede(db, e)
        BY <1>1, <1>3, <2>1, SupersedeStore
    <2> HIDE DEF n
    <2>3. /\ n.parked = db.parked
          /\ \A i \in Id : i # e => n.event[i] \in {db.event[i], "absent"}
        BY <1>1, <2>1, <2>2, SupersedeReads
    <2>4. Waiting(n, <<e>>)
        BY <1>4, <2>1, <2>3, InSingle DEF Waiting, Present
    <2> QED BY <1>1, <1>2, <1>11, <2>2, <2>4, BeginStep DEF IngestReplaceable, n
<1>12. CASE IngestOrphan(e, door)
    <2>1. StoreInv(Park(db, e)) /\ Waiting(Park(db, e), <<>>)
        <3>1. Aside(db, Park(db, e)) /\ Park(db, e).parked = [db.parked EXCEPT ![e] = now]
            BY <1>1, AsideEffect
        <3>2. IsReply(e) /\ ~Present(db, e) /\ ~Present(db, msg[e].reply)
            BY <1>12 DEF IngestOrphan, ResolveReply
        <3>3. \A c \in Id : c # e => Park(db, e).parked[c] = db.parked[c]
            BY <1>1, <3>1, DbType
        <3>4. StoreInv(Park(db, e))
            BY <1>1, <3>1, AsideStore
        <3> QED BY <1>3, <1>4, <3>1, <3>2, <3>3, <3>4 DEF Aside, Waiting, Present
    <2> QED BY <1>1, <1>2, <1>12, <2>1, BeginStep DEF IngestOrphan
<1>13. CASE IngestMismatch(e, door)
    BY <1>1, <1>2, <1>5, <1>13, BeginStep DEF IngestMismatch
<1>14. CASE IngestReply(e, door)
    <2> DEFINE rr == ResolvedReply(db, e)
               n == InsertReply(db, e, rr, door)
    <2>1. ~Present(db, e) /\ IsReply(e) /\ ResolveReply(db, e) = "ok" /\ StubsPresent(db, e)
        BY <1>14 DEF IngestReply
    <2>2. /\ rr \in [parent : Id, root : Id, depth : Nat]
          /\ rr.parent = msg[e].reply /\ rr.root = EffectiveRoot(db, msg[e].reply)
          /\ db.event[rr.parent] # "absent" /\ db.event[rr.root] # "absent"
          /\ SameChannel(rr.parent, e)
          /\ db.depth[rr.parent] < rr.depth /\ rr.depth <= DepthCap
        BY <1>1, <2>1, ReplyChecked
    <2> HIDE DEF rr
    <2>3. StoreInv(n) /\ n = InsertReply(db, e, rr, door)
        BY <1>1, <1>3, <2>1, <2>2, InsertReplyStore DEF IsReply
    <2> HIDE DEF n
    <2>4. n.parked = db.parked
          /\ \A i \in Id : n.event[i] = IF i = e THEN "live" ELSE db.event[i]
        BY <1>1, <2>2, <2>3, InsertReplyReads
    <2>6. db.parked[e] = Null
        BY <1>4, <2>2 DEF Present
    <2>7. Waiting(n, <<e>>)
        BY <1>4, <2>4, <2>6, InSingle DEF Waiting, Present
    <2>8. {EffectiveRoot(db, msg[e].reply)} \in SUBSET Id
        BY <2>2
    <2> QED BY <1>1, <1>2, <1>14, <2>3, <2>7, <2>8, BeginStep DEF IngestReply, n, rr
<1>15. CASE IngestStubMissing(e, door)
    BY <1>1, <1>2, <1>15, RollbackStep DEF IngestStubMissing
<1> QED BY <1>6, <1>7, <1>9, <1>10, <1>11, <1>12, <1>13, <1>14, <1>15, Zenon DEF Ingest

\* The relay's own state events.
LEMMA StoreRelayStep ==
    ASSUME IInv, NEW e \in Id, StoreRelayAuthored(e)
    PROVE  IInv'
<1>1. msg \in Universes /\ StoreInv(db) /\ db \in Database /\ Waiting(db, <<>>)
    BY DEF IInv, StoreInv
<1>2. <<>> \in Seq(Id) /\ {} \in SUBSET Id /\ {"duplicate", "accepted", "stale"} \subseteq Outcomes
    BY DEF Outcomes
<1>3. msg[e].slot # NoSlot /\ msg[e].slot \in Slot /\ ~IsReply(e)
    BY <1>1, MsgType DEF StoreRelayAuthored, IsReply, Message
<1>4. CASE ~Present(db, e)
    <2> DEFINE n == Supersede(db, e)
    <2>1. StoreInv(n)
        BY <1>1, <1>3, <1>4, SupersedeStore DEF Present
    <2>2. /\ n.parked = db.parked
          /\ \A i \in Id : i # e => n.event[i] \in {db.event[i], "absent"}
        BY <1>1, <1>3, SupersedeReads
    <2> HIDE DEF n
    <2>3. \A c \in Id : db.parked[c] # Null => msg[c].reply # e
        BY DEF StoreRelayAuthored, Orphans
    <2>4. Waiting(n, <<>>)
        BY <1>1, <1>3, <2>2, <2>3 DEF Waiting, Present
    <2> QED BY <1>1, <1>2, <1>4, <2>1, <2>4, BeginStep DEF StoreRelayAuthored, n
<1>5. CASE Present(db, e)
    BY <1>1, <1>2, <1>5, BeginStep DEF StoreRelayAuthored
<1> QED BY <1>4, <1>5

\* The frame of a step inside a transaction.
LEMMA InsideStep ==
    ASSUME IInv, NEW d, StoreInv(d), NEW s, Waiting(d, s),
           work' = d, tx' \in Transaction, tx'.status = "open", tx'.stack = s,
           UNCHANGED <<msg, now, db>>
    PROVE  IInv'
<1>1. TxInv'
    BY DEF TxInv, Idle
<1>2. StoreInv(work)' /\ StoreInv(db)'
    BY StoreFrame DEF IInv
<1>3. Waiting(work, tx.stack)' /\ Waiting(db, <<>>)'
    BY WaitingFrame DEF IInv
<1> QED BY <1>1, <1>2, <1>3 DEF IInv

\* The rest of a deletion's targets are event ids.
LEMMA TargetsType ==
    ASSUME NEW s \in Seq(Id), s # <<>>
    PROVE  Head(s) \in Id /\ Tail(s) \in Seq(Id)
OBVIOUS

\* A turn of delete_flow's loop over the targets keeps the invariant.
LEMMA DeleteTargetStep ==
    ASSUME IInv, DeleteTarget
    PROVE  IInv'
<1> DEFINE t == Head(tx.targets)
           d == SoftDelete(work, t)
<1>1. /\ msg \in Universes /\ StoreInv(work) /\ work \in Database
      /\ Waiting(work, tx.stack) /\ tx \in Transaction
    BY DEF IInv, StoreInv, TxInv
<1>2. t \in Id /\ Tail(tx.targets) \in Seq(Id)
    BY <1>1, TargetsType DEF DeleteTarget, Transaction
<1>3. StoreInv(d)
    BY <1>1, <1>2, SoftDeleteStore
<1>4. Waiting(d, tx.stack)
    <2>1. CASE work.event[t] # "live"
        BY <1>1, <2>1 DEF SoftDelete
    <2>2. CASE work.event[t] = "live"
        <3> HIDE DEF d, t
        <3>1. d.parked = work.parked /\ d.event = [work.event EXCEPT ![t] = "deleted"]
            BY <1>1, <1>2, <2>2, SoftDeleteEffect DEF d
        <3>2. \A i \in Id : d.event[i] = IF i = t THEN "deleted" ELSE work.event[i]
            BY <1>1, <3>1, DbType
        <3>3. \A i \in Id : d.event[i] = "absent" <=> work.event[i] = "absent"
            BY <2>2, <3>2
        <3> QED BY <1>1, <3>1, <3>3 DEF Waiting, Present
    <2> QED BY <2>1, <2>2
<1>5. tx' \in Transaction /\ tx'.status = "open" /\ tx'.stack = tx.stack
    <2>1. DeleteEmits(work, t) \subseteq Id
        BY <1>1, <1>2, DbType DEF DeleteEmits
    <2> QED BY <1>1, <1>2, <2>1 DEF DeleteTarget, Busy, Transaction
<1> QED BY <1>3, <1>4, <1>5, InsideStep DEF DeleteTarget

\* Draining one orphan.  Attached, it may be what others wait for, and it is
\* on the stack from then on.
LEMMA DrainOrphanStep ==
    ASSUME IInv, DrainOrphan
    PROVE  IInv'
<1>1. /\ msg \in Universes /\ now \in Nat /\ now # 0 /\ StoreInv(work) /\ work \in Database
      /\ Waiting(work, tx.stack) /\ tx \in Transaction
    BY DEF IInv, StoreInv, TxInv
<1>2. /\ Busy /\ tx.stack \in Seq(Id) /\ tx.stack # <<>>
      /\ UNCHANGED <<msg, now, db>>
    BY <1>1 DEF DrainOrphan, Draining, Transaction
<1>3. PICK c \in Orphans(work, Head(tx.stack)) :
        /\ Attaches(work, c) => StubsPresent(work, c)
        /\ work' = Attach(work, c)
        /\ tx' = [tx EXCEPT !.stack = DrainStack(work, c, @),
                            !.emits = @ \cup DrainEmits(work, c)]
    BY DEF DrainOrphan
<1>4. c \in Id /\ work.parked[c] # Null
    BY <1>3 DEF Orphans
<1>5. IsReply(c) /\ ~Present(work, c) /\ work.event[c] = "absent"
    BY <1>1, <1>4 DEF Waiting, Present
<1> DEFINE u == Unpark(work, c)
<1>6. Aside(work, u) /\ u.parked = [work.parked EXCEPT ![c] = Null]
    BY <1>1, <1>4, AsideEffect
<1> HIDE DEF u
<1>7. /\ StoreInv(u) /\ u \in Database /\ u.event = work.event /\ u.depth = work.depth
      /\ \A i \in Id : u.parked[i] = IF i = c THEN Null ELSE work.parked[i]
    BY <1>1, <1>4, <1>6, AsideStore, DbType DEF Aside
<1>8. ResolveReply(work, c) \in {"ok", "mismatch", "missing"}
    BY DEF ResolveReply
<1>9. CASE ResolveReply(work, c) = "ok"
    <2> DEFINE rr == ResolvedReply(work, c)
               n == InsertReply(u, c, rr, "mesh")
    <2>1. Attaches(work, c) /\ StubsPresent(work, c)
        BY <1>3, <1>5, <1>9 DEF Attaches
    <2>2. /\ rr \in [parent : Id, root : Id, depth : Nat]
          /\ rr.parent = msg[c].reply /\ rr.root = EffectiveRoot(work, msg[c].reply)
          /\ work.event[rr.parent] # "absent" /\ work.event[rr.root] # "absent"
          /\ SameChannel(rr.parent, c)
          /\ work.depth[rr.parent] < rr.depth /\ rr.depth <= DepthCap
        BY <1>1, <1>4, <1>9, <2>1, ReplyChecked
    <2>3. work' = n
        BY <1>3, <1>5, <1>9 DEF Attach, u
    <2> HIDE DEF rr
    <2>4. StoreInv(n)
        BY <1>1, <1>4, <1>5, <1>7, <2>2, InsertReplyStore DEF IsReply
    <2>5. n.parked = u.parked
          /\ \A i \in Id : n.event[i] = IF i = c THEN "live" ELSE u.event[i]
        BY <1>1, <1>4, <1>7, <2>2, InsertReplyReads
    <2> HIDE DEF n
    <2>6. tx'.stack = <<Head(tx.stack), c>> \o Tail(tx.stack) /\ tx'.status = "open"
        BY <1>1, <1>2, <1>3, <2>1 DEF Transaction, DrainStack, Busy
    <2>7. tx'.stack \in Seq(Id) /\ In(tx'.stack, c) /\ \A i : In(tx.stack, i) => In(tx'.stack, i)
        BY <1>2, <1>4, <2>6, InPush
    <2>8. Waiting(n, tx'.stack)
        BY <1>1, <1>7, <2>5, <2>7 DEF Waiting, Present
    <2>9. tx' \in Transaction
        <3>1. DrainEmits(work, c) \subseteq Id
            BY <2>2 DEF DrainEmits
        <3>2. DrainStack(work, c, tx.stack) \in Seq(Id)
            BY <1>1, <1>3, <2>7 DEF Transaction
        <3> QED BY <1>1, <1>3, <3>1, <3>2 DEF Transaction
    <2> QED BY <1>2, <2>3, <2>4, <2>6, <2>8, <2>9, InsideStep
<1>10. CASE ResolveReply(work, c) # "ok"
    <2>1. ~Attaches(work, c)
        BY <1>10 DEF Attaches
    <2>2. DrainStack(work, c, tx.stack) = tx.stack /\ DrainEmits(work, c) = {}
        BY <1>5, <2>1 DEF DrainStack, DrainEmits
    <2>3. tx' \in Transaction /\ tx'.stack = tx.stack /\ tx'.status = "open"
        BY <1>1, <1>2, <1>3, <2>2 DEF Transaction, Busy
    <2>4. CASE ResolveReply(work, c) = "mismatch"
        <3> DEFINE n == Quarantine(u, c)
        <3>1. work' = n
            BY <1>3, <1>5, <2>4 DEF Attach, u
        <3>2. Aside(u, n) /\ n.parked = u.parked
            BY <1>1, <1>4, <1>7, AsideEffect
        <3> HIDE DEF n
        <3>3. StoreInv(n)
            BY <1>7, <3>2, AsideStore
        <3>4. Waiting(n, tx.stack)
            BY <1>1, <1>7, <3>2 DEF Aside, Waiting, Present
        <3> QED BY <1>2, <2>3, <3>1, <3>3, <3>4, InsideStep
    <2>5. CASE ResolveReply(work, c) = "missing"
        <3> DEFINE n == Park(work, c)
        <3>1. work' = n
            BY <1>3, <1>5, <2>5 DEF Attach
        <3>2. Aside(work, n) /\ n.parked = [work.parked EXCEPT ![c] = now]
            BY <1>1, <1>4, AsideEffect
        <3> HIDE DEF n
        <3>3. StoreInv(n)
            BY <1>1, <3>2, AsideStore
        <3>4. \A i \in Id : n.parked[i] # Null => work.parked[i] # Null
            BY <1>1, <1>4, <3>2, DbType
        <3>5. Waiting(n, tx.stack)
            BY <1>1, <3>2, <3>4 DEF Aside, Waiting, Present
        <3> QED BY <1>2, <2>3, <3>1, <3>3, <3>5, InsideStep
    <2> QED BY <1>8, <1>10, <2>4, <2>5
<1> QED BY <1>9, <1>10

\* The drain leaves an id only when no orphan of it is left.
LEMMA DrainPopStep ==
    ASSUME IInv, DrainPop
    PROVE  IInv'
<1>1. /\ StoreInv(work) /\ Waiting(work, tx.stack) /\ tx \in Transaction
    BY DEF IInv, TxInv
<1>2. Busy /\ tx.stack \in Seq(Id) /\ tx.stack # <<>> /\ Orphans(work, Head(tx.stack)) = {}
    BY <1>1 DEF DrainPop, Draining, Transaction
<1>3. Waiting(work, Tail(tx.stack))
    <2>1. ASSUME NEW c \in Id, work.parked[c] # Null, Present(work, msg[c].reply)
          PROVE  In(Tail(tx.stack), msg[c].reply)
        <3>1. In(tx.stack, msg[c].reply)
            BY <1>1, <2>1 DEF Waiting
        <3>2. msg[c].reply # Head(tx.stack)
            BY <1>2, <2>1 DEF Orphans
        <3> QED BY <1>2, <3>1, <3>2, InPop
    <2> QED BY <1>1, <2>1 DEF Waiting
<1>4. tx' \in Transaction /\ tx'.status = "open" /\ tx'.stack = Tail(tx.stack)
    BY <1>1, <1>2, TargetsType DEF DrainPop, Busy, Transaction
<1> QED BY <1>1, <1>3, <1>4, InsideStep DEF DrainPop

\* COMMIT: with the stack empty, Waiting says what OrphansWait says.
LEMMA CommitStep ==
    ASSUME IInv, Commit
    PROVE  IInv'
<1>1. StoreInv(work) /\ Waiting(work, <<>>) /\ tx \in Transaction
    BY DEF IInv, TxInv, Commit
<1>2. tx' \in Transaction /\ tx'.stack = <<>> /\ tx'.targets = <<>>
    BY <1>1 DEF Commit, Transaction
<1>3. db' = work /\ work' = work /\ UNCHANGED <<msg, now>>
    BY DEF Commit
<1>4. TxInv'
    BY <1>2, <1>3 DEF TxInv, Idle
<1>5. StoreInv(work)' /\ StoreInv(db)'
    BY <1>1, <1>3, StoreFrame
<1>6. Waiting(work, tx.stack)' /\ Waiting(db, <<>>)'
    BY <1>1, <1>2, <1>3, WaitingFrame
<1> QED BY <1>3, <1>4, <1>5, <1>6 DEF IInv

\* reap_orphans only unparks.
LEMMA ReapStep ==
    ASSUME IInv, ReapOrphans
    PROVE  IInv'
<1> DEFINE pk == [i \in Id |-> IF Expired(db, i) THEN Null ELSE db.parked[i]]
           d == [db EXCEPT !.parked = pk]
<1>1. StoreInv(db) /\ db \in Database /\ Waiting(db, <<>>)
    BY DEF IInv, StoreInv
<1>2. pk \in [Id -> Nat] /\ \A i \in Id : pk[i] # Null => pk[i] = db.parked[i]
    BY <1>1, DbType DEF Null
<1>3. db' = d /\ work' = d /\ tx' = Closed(NoId, "none", "none") /\ UNCHANGED <<msg, now>>
    BY DEF ReapOrphans
<1> HIDE DEF pk
<1>4. Aside(db, d) /\ d.parked = pk
    BY <1>1, <1>2 DEF Aside, Database
<1> HIDE DEF d
<1>5. StoreInv(d)
    BY <1>1, <1>4, AsideStore
<1>6. Waiting(d, <<>>)
    BY <1>1, <1>2, <1>4 DEF Aside, Waiting, Present
<1>7. tx' \in Transaction /\ tx'.stack = <<>> /\ tx'.targets = <<>>
    BY <1>3 DEF Closed, Transaction, Outcomes
<1>8. TxInv'
    BY <1>3, <1>7 DEF TxInv, Idle
<1>9. StoreInv(work)' /\ StoreInv(db)'
    BY <1>3, <1>5, StoreFrame
<1>10. Waiting(work, tx.stack)' /\ Waiting(db, <<>>)'
    BY <1>3, <1>6, <1>7, WaitingFrame
<1> QED BY <1>3, <1>8, <1>9, <1>10 DEF IInv

\* A step that leaves the store alone.
LEMMA QuietStep ==
    ASSUME IInv, now' \in 1..MaxNow, UNCHANGED <<msg, db, work, tx>>
    PROVE  IInv'
<1>1. TxInv'
    BY DEF IInv, TxInv, Idle
<1>2. StoreInv(work)' /\ StoreInv(db)'
    BY StoreFrame DEF IInv
<1>3. Waiting(work, tx.stack)' /\ Waiting(db, <<>>)'
    BY WaitingFrame DEF IInv
<1> QED BY <1>1, <1>2, <1>3 DEF IInv

\* A new database satisfies the invariant.
LEMMA InitInv == Init => IInv
<1> SUFFICES ASSUME Init PROVE IInv
    OBVIOUS
<1>1. EmptyDb \in Database
    BY DEF EmptyDb, Database, Null
<1>2. StoreInv(EmptyDb)
    <2>1. Rows(EmptyDb)
        BY CapAssumption DEF Rows, EmptyDb
    <2>2. CountersExact(EmptyDb)
        <3>1. \A m \in Id : Children(EmptyDb, m) = {} /\ Descendants(EmptyDb, m) = {}
            BY DEF Children, Descendants, EmptyDb
        <3>2. \A m \in Id : EmptyDb.replies[m] = 0 /\ EmptyDb.descendants[m] = 0
            BY DEF EmptyDb
        <3> QED BY <3>1, <3>2, FS_EmptySet DEF CountersExact
    <2>3. Slots(EmptyDb)
        BY DEF Slots, EmptyDb
    <2> QED BY <1>1, <2>1, <2>2, <2>3 DEF StoreInv
<1>3. \A s : Waiting(EmptyDb, s)
    BY DEF Waiting, EmptyDb
<1>4. tx \in Transaction /\ tx.stack = <<>> /\ tx.targets = <<>>
    BY DEF Init, Closed, Transaction, Outcomes
<1>5. now \in 1..MaxNow
    BY TimeAssumption DEF Init
<1> QED BY <1>2, <1>3, <1>4, <1>5 DEF Init, IInv, TxInv

\* Every step keeps the invariant: one case per action of Next.
LEMMA NextInv == IInv /\ [Next]_vars => IInv'
<1> SUFFICES ASSUME IInv, [Next]_vars PROVE IInv'
    OBVIOUS
<1>0. now \in 1..MaxNow /\ MaxNow \in Nat /\ TxInv
    BY TimeAssumption DEF IInv
<1>1. ASSUME NEW e \in Id, NEW door \in Doors, Ingest(e, door) PROVE IInv'
    BY <1>1, IngestStep
<1>2. ASSUME NEW e \in Id, StoreRelayAuthored(e) PROVE IInv'
    BY <1>2, StoreRelayStep
<1>3. CASE DeleteTarget BY <1>3, DeleteTargetStep
<1>4. CASE DrainOrphan BY <1>4, DrainOrphanStep
<1>5. ASSUME NEW out \in {"error", "none"}, Rollback(out) PROVE IInv'
    <2>1. tx.id \in Id \cup {NoId} /\ tx.door \in {"none", "local", "mesh", "relay"}
          /\ out \in Outcomes
        BY <1>0 DEF TxInv, Transaction, Outcomes
    <2> QED BY <1>5, <2>1, RollbackStep DEF Rollback
<1>6. CASE DrainStubMissing BY <1>5, <1>6 DEF DrainStubMissing
<1>7. CASE DrainPop BY <1>7, DrainPopStep
<1>8. CASE Commit BY <1>8, CommitStep
<1>9. CASE Crash BY <1>5, <1>9 DEF Crash
<1>10. CASE ReapOrphans BY <1>10, ReapStep
<1>11. CASE Tick
    <2>1. now' \in 1..MaxNow
        BY <1>0, <1>11 DEF Tick
    <2> QED BY <1>11, <2>1, QuietStep DEF Tick
<1>12. CASE UNCHANGED vars
    BY <1>0, <1>12, QuietStep DEF vars
<1> QED BY <1>1, <1>2, <1>3, <1>4, <1>6, <1>7, <1>8, <1>9, <1>10, <1>11, <1>12
        DEF Next, TxStep

\* The inductive invariant holds throughout every execution of the ingest
\* transactions of engine.rs, crashes and rollbacks included.
THEOREM Invariance == Spec => []IInv
BY InitInv, NextInv, PTL DEF Spec

\* Every variable keeps its type and no thread grows deeper than DEPTH_CAP,
\* whatever the doors deliver and wherever the process crashes.
THEOREM TypeCorrect == Spec => []TypeOK
<1>1. IInv => TypeOK
    BY UniverseAssumption DEF IInv, StoreInv, Rows, TxInv, TypeOK
<1> QED BY <1>1, Invariance, PTL

\* reply_count and descendant_count are exact after every transaction of
\* engine.rs, for any number of events, deletions, redeliveries and crashes.
THEOREM CountersCorrect == Spec => []CountersExactInv
<1>1. IInv => CountersExactInv
    BY DEF IInv, StoreInv, CountersExactInv
<1> QED BY <1>1, Invariance, PTL

\* The reply rows resolve_reply and insert_reply write are a forest of
\* one-channel edges.
THEOREM ForestCorrect == Spec => []ForestInv
<1>1. IInv => ForestInv
    BY DEF IInv, StoreInv, Rows, ForestInv, Forest
<1> QED BY <1>1, Invariance, PTL

\* drain_pending leaves no orphan parked whose parent is stored.
THEOREM OrphansCorrect == Spec => []OrphansWaitInv
<1>1. IInv => OrphansWaitInv
    BY InEmpty DEF IInv, Waiting, OrphansWaitInv, OrphansWait, Present
<1> QED BY <1>1, Invariance, PTL

\* Every replaceable address has one stored event, the one it points at.
THEOREM WinnerCorrect == Spec => []OneWinnerInv
<1>1. IInv => OneWinnerInv
    <2> SUFFICES ASSUME IInv PROVE OneWinnerInv
        OBVIOUS
    <2>1. db \in Database /\ Slots(db)
        BY DEF IInv, StoreInv
    <2> QED BY <2>1, DbType DEF Slots, OneWinnerInv, OneWinner, Present
<1> QED BY <1>1, Invariance, PTL

----------------------------------------------------------------------------
(* What a transaction may do to the committed database.                    *)

\* A version that beats another beats what that one beats.
LEMMA BeatsTransitive ==
    ASSUME msg \in Universes, NEW a \in Id, NEW b \in Id, NEW c \in Id, Beats(a, b), Beats(b, c)
    PROVE  Beats(a, c)
<1>1. PICK x \in Nat, y \in Nat, z \in Nat : x = msg[a].at /\ y = msg[b].at /\ z = msg[c].at
    BY MsgType DEF Message
<1>2. a \in Nat /\ b \in Nat /\ c \in Nat
    BY IdAssumption
<1> QED BY <1>1, <1>2 DEF Beats

\* Tables that are left alone stay as they were.
LEMMA AsideMoves ==
    ASSUME NEW d \in Database, NEW n, Aside(d, n), Kept(d)
    PROVE  Moves(d, n, {}) /\ n.addr = d.addr
<1>1. Kept(n)
    BY DEF Aside, Kept, RootsOK, LastOK
<1>2. Better(d, n) /\ StillGone(d, n) /\ Covers(d, n, {})
    BY DEF Aside, Better, StillGone, Gone, Covers
<1> QED BY <1>1, <1>2 DEF Moves, Aside

\* Nor does a transaction that writes nothing move anything.
LEMMA NothingMoves ==
    ASSUME NEW d, Kept(d), NEW E
    PROVE  Moves(d, d, E)
BY DEF Moves, Better, StillGone, Covers

\* The writes of a transaction add up.
LEMMA MovesOn ==
    ASSUME NEW d, NEW w, NEW n, NEW E, NEW F, Moves(d, w, E), Moves(w, n, F), n.addr = w.addr
    PROVE  Moves(d, n, E \cup F)
<1>1. Better(d, n)
    BY DEF Moves, Better
<1>2. StillGone(d, n)
    BY DEF Moves, StillGone
<1>3. Covers(d, n, E \cup F)
    BY DEF Moves, Covers
<1> QED BY <1>1, <1>2, <1>3 DEF Moves

\* A top-level event is stored.
LEMMA InsertEventMoves ==
    ASSUME msg \in Universes, NEW d \in Database, Kept(d), NEW e \in Id, d.event[e] = "absent",
           msg[e].slot = NoSlot, NEW n, n = InsertEvent(d, e)
    PROVE  Moves(d, n, {}) /\ n.addr = d.addr
<1>1. /\ n.event = [d.event EXCEPT ![e] = "live"]
      /\ n.parent = d.parent /\ n.root = d.root /\ n.replies = d.replies
      /\ n.descendants = d.descendants /\ n.last = d.last /\ n.addr = d.addr
    BY InsertEventEffect
<1>2. \A i \in Id : n.event[i] = IF i = e THEN "live" ELSE d.event[i]
    BY <1>1, DbType
<1>3. Kept(n)
    BY <1>1 DEF Kept, RootsOK, LastOK
<1>4. StillGone(d, n)
    BY <1>1, <1>2 DEF StillGone, Gone
<1>5. Better(d, n) /\ Covers(d, n, {})
    BY <1>1 DEF Better, Covers
<1> QED BY <1>1, <1>3, <1>4, <1>5 DEF Moves

\* A target of a deletion is soft-deleted.
LEMMA SoftDeleteMoves ==
    ASSUME NEW d, StoreInv(d), Kept(d), NEW t \in Id, NEW n, n = SoftDelete(d, t)
    PROVE  /\ Moves(d, n, DeleteEmits(d, t)) /\ n.addr = d.addr
           /\ \A i \in Id : n.event[i] = "absent" <=> d.event[i] = "absent"
<1>1. CASE d.event[t] # "live"
    <2>1. n = d
        BY <1>1 DEF SoftDelete
    <2> QED BY <2>1, NothingMoves
<1>2. CASE d.event[t] = "live"
    <2>0. d \in Database /\ Rows(d) /\ RootsOK(d)
        BY DEF StoreInv, Kept
    <2>1. /\ n.event = [d.event EXCEPT ![t] = "deleted"]
          /\ n.parent = d.parent /\ n.root = d.root
          /\ n.replies = Less1(d.replies, d.parent[t])
          /\ n.descendants = Less1(d.descendants, d.root[t])
          /\ n.last = d.last /\ n.addr = d.addr
        BY <1>2, <2>0, SoftDeleteEffect
    <2>2. \A i \in Id : n.event[i] = IF i = t THEN "deleted" ELSE d.event[i]
        BY <2>0, <2>1, DbType
    <2>3. Kept(n)
        BY <2>1 DEF Kept, RootsOK, LastOK
    <2>4. StillGone(d, n)
        BY <1>2, <2>1, <2>2 DEF StillGone, Gone
    <2>5. /\ \A m \in Id : n.replies[m] # d.replies[m] => m = d.parent[t]
          /\ \A m \in Id : n.descendants[m] # d.descendants[m] => m = d.root[t]
        BY <2>0, <2>1, DbType DEF Less1
    <2>6. Covers(d, n, DeleteEmits(d, t))
        <3>1. SUFFICES ASSUME NEW m \in Id,
                              \/ n.descendants[m] # d.descendants[m]
                              \/ n.replies[m] # d.replies[m] /\ DeriveOwnRoot(m) = m
                       PROVE  m \in DeleteEmits(d, t)
            BY DEF Covers
        <3>2. m # NoId
            BY IdAssumption DEF NoId
        <3>3. d.root[t] = m
            BY <2>0, <2>5, <3>1, <3>2 DEF Rows, RootsOK
        <3> QED BY <1>2, <3>2, <3>3 DEF DeleteEmits
    <2>7. Better(d, n)
        BY <2>1 DEF Better
    <2>8. \A i \in Id : n.event[i] = "absent" <=> d.event[i] = "absent"
        BY <1>2, <2>2
    <2> QED BY <2>1, <2>3, <2>4, <2>6, <2>7, <2>8 DEF Moves
<1> QED BY <1>1, <1>2

\* A new winner is stored, which must beat the old one.
LEMMA SupersedeMoves ==
    ASSUME msg \in Universes, NEW d, StoreInv(d), Kept(d), NEW e \in Id, d.event[e] = "absent",
           msg[e].slot \in Slot, ~Stale(d, e), NEW n, n = Supersede(d, e)
    PROVE  Moves(d, n, {}) /\ n.event[e] = "live"
<1>0. d \in Database /\ Slots(d) /\ e \in Nat
    BY IdAssumption DEF StoreInv
<1>1. /\ n.event = [i \in Id |-> IF i = e THEN "live"
                                 ELSE IF i = d.addr[msg[e].slot] THEN "absent" ELSE d.event[i]]
      /\ n.parent = d.parent /\ n.root = d.root /\ n.replies = d.replies
      /\ n.descendants = d.descendants /\ n.last = d.last
      /\ n.addr = [d.addr EXCEPT ![msg[e].slot] = e]
    BY <1>0, SupersedeEffect DEF WinnerWritten
<1>2. PICK s \in Slot : s = msg[e].slot /\ s # NoSlot
    BY SlotAssumption DEF NoSlot
<1>3. PICK w \in Id \cup {NoId} : w = d.addr[s]
    BY <1>0, DbType
<1>4. w # NoId => w \in Id /\ w # e /\ msg[w].slot = s /\ Beats(e, w)
    <2>1. SUFFICES ASSUME w # NoId
                   PROVE  w \in Id /\ w # e /\ msg[w].slot = s /\ Beats(e, w)
        OBVIOUS
    <2>2. w \in Id /\ w # e /\ msg[w].slot = s /\ w \in Nat
        BY <1>0, <1>3, <2>1, IdAssumption DEF Slots
    <2>3. PICK x \in Nat, y \in Nat : x = msg[w].at /\ y = msg[e].at
        BY <2>2, MsgType DEF Message
    <2>4. ~(x > y) /\ ~(x = y /\ w < e)
        BY <1>2, <1>3, <2>1, <2>3 DEF Stale
    <2> QED BY <1>0, <2>2, <2>3, <2>4 DEF Beats
<1>5. /\ n.addr[s] = e /\ \A q \in Slot : q # s => n.addr[q] = d.addr[q]
      /\ \A i \in Id : n.event[i] = IF i = e THEN "live" ELSE IF i = w THEN "absent" ELSE d.event[i]
    BY <1>0, <1>1, <1>2, <1>3, DbType
<1>6. Kept(n)
    BY <1>1 DEF Kept, RootsOK, LastOK
<1>7. Better(d, n)
    BY <1>3, <1>4, <1>5 DEF Better
<1>8. Covers(d, n, {})
    BY <1>1 DEF Covers
<1>9. ASSUME NEW i \in Id, Gone(d, i)
      PROVE  Gone(n, i)
    <2>1. i # e
        <3>1. SUFFICES ASSUME i = e PROVE FALSE
            OBVIOUS
        <3>2. w # NoId /\ Beats(w, e)
            BY <1>2, <1>3, <1>9, <3>1 DEF Gone
        <3> QED BY <1>2, <1>3, <3>2 DEF Stale, Beats
    <2>2. CASE i = w
        <3>1. n.event[i] = "absent" /\ msg[i].slot = s /\ Beats(e, i)
            BY <1>4, <1>5, <2>1, <2>2, IdAssumption DEF NoId
        <3> QED BY <1>2, <1>5, <3>1, IdAssumption DEF Gone, NoId
    <2>3. CASE i # w /\ d.event[i] = "deleted"
        BY <1>5, <2>1, <2>3 DEF Gone
    <2>4. CASE i # w /\ d.event[i] # "deleted"
        <3>1. /\ n.event[i] = "absent" /\ msg[i].slot # NoSlot
              /\ d.addr[msg[i].slot] # NoId /\ Beats(d.addr[msg[i].slot], i)
            BY <1>5, <1>9, <2>1, <2>4 DEF Gone
        <3>2. msg[i].slot \in Slot
            BY <3>1, MsgType DEF Message
        <3>3. CASE msg[i].slot = s
            <4>1. Beats(e, i)
                BY <1>3, <1>4, <3>1, <3>3, BeatsTransitive
            <4> QED BY <1>5, <3>1, <3>3, <4>1, IdAssumption DEF Gone, NoId
        <3>4. CASE msg[i].slot # s
            BY <1>5, <3>1, <3>2, <3>4 DEF Gone
        <3> QED BY <3>3, <3>4
    <2> QED BY <2>2, <2>3, <2>4
<1>10. n.event[e] = "live"
    BY <1>5
<1> QED BY <1>6, <1>7, <1>8, <1>9, <1>10 DEF Moves, StillGone

\* The column LastReply writes.
LEMMA LastWritten ==
    ASSUME NEW d \in Database, NEW e \in Id, NEW door, NEW rr \in [parent : Id, root : Id, depth : Nat]
    PROVE  InsertReply(d, e, rr, door).last = [d.last EXCEPT ![rr.parent] = LastReply(door, d.last[rr.parent], e)]
BY DEF InsertReply, Database

\* The maximum over the replies stays one when the mesh door stores another.
LEMMA LastStep ==
    ASSUME msg \in Universes, NEW d \in Database, Rows(d), LastOK(d), NEW e \in Id, d.event[e] = "absent",
           NEW p \in Id, NEW n,
           n.parent = [d.parent EXCEPT ![e] = p],
           n.last = [d.last EXCEPT ![p] = LastReply("mesh", d.last[p], e)]
    PROVE  LastOK(n)
<1>1. PICK a \in Nat \ {0} : a = msg[e].at
    BY MsgType DEF Message
<1>2. PICK o \in Nat : o = d.last[p]
    BY DbType
<1>3. PICK l \in Nat : l = LastReply("mesh", o, e) /\ l >= o /\ l >= a /\ (l = a \/ (l = o /\ o # 0))
    <2>1. LastReply("mesh", o, e) = IF o > a THEN o ELSE a
        BY <1>1 DEF LastReply
    <2> QED BY <2>1
<1>4. /\ d.parent[e] = NoId /\ p # NoId /\ NoId \notin Id
      /\ \A c \in Id : n.parent[c] = IF c = e THEN p ELSE d.parent[c]
      /\ \A m \in Id : n.last[m] = IF m = p THEN l ELSE d.last[m]
    BY <1>2, <1>3, DbType, IdAssumption DEF Rows, NoId
<1>5. ASSUME NEW m \in Id, NEW c \in Id, n.parent[c] = m
      PROVE  msg[c].at <= n.last[m]
    <2>1. PICK x \in Nat : x = msg[c].at
        BY MsgType DEF Message
    <2>2. CASE c = e
        BY <1>1, <1>3, <1>4, <1>5, <2>2
    <2>3. CASE c # e /\ m = p
        <3>1. x <= o
            BY <1>2, <1>4, <1>5, <2>1, <2>3 DEF LastOK
        <3>2. n.last[m] = l
            BY <1>4, <2>3
        <3> QED BY <1>3, <2>1, <3>1, <3>2
    <2>4. CASE c # e /\ m # p
        BY <1>4, <1>5, <2>4 DEF LastOK
    <2> QED BY <2>2, <2>3, <2>4
<1>6. ASSUME NEW m \in Id
      PROVE  n.last[m] = Null \/ \E c \in Id : n.parent[c] = m /\ msg[c].at = n.last[m]
    <2>1. CASE m = p /\ l = a
        BY <1>1, <1>4, <2>1
    <2>2. CASE m = p /\ l # a
        <3>1. l = o /\ o # Null
            BY <1>3, <2>2 DEF Null
        <3>2. PICK c \in Id : d.parent[c] = p /\ msg[c].at = o
            BY <1>2, <3>1 DEF LastOK
        <3>3. n.parent[c] = m /\ msg[c].at = n.last[m]
            BY <1>4, <2>2, <3>1, <3>2
        <3> QED BY <3>3
    <2>3. CASE m # p
        BY <1>4, <2>3 DEF LastOK
    <2> QED BY <2>1, <2>2, <2>3
<1> QED BY <1>5, <1>6 DEF LastOK

\* insert_reply stores e as a reply to the parent and in the thread it is given.
LEMMA InsertReplyReplied ==
    ASSUME now \in Nat, msg \in Universes, NEW d \in Database, NEW e \in Id, NEW door,
           NEW rr \in [parent : Id, root : Id, depth : Nat],
           NEW n, n = InsertReply(d, e, rr, door),
           NEW p \in Id, NEW r \in Id, p = rr.parent, r = rr.root
    PROVE  Replied(d, n, e, p, r, door)
<1>1. ReplyWritten(d, n, e, rr)
    BY InsertReplyEffect
<1>2. n.last = [d.last EXCEPT ![rr.parent] = LastReply(door, d.last[rr.parent], e)]
    BY LastWritten
<1> QED BY <1>1, <1>2 DEF ReplyWritten, Replied

\* A reply is stored: the summary of its root covers the counters it moves.
LEMMA ReplyMoves ==
    ASSUME msg \in Universes, NEW d, StoreInv(d), Kept(d), NEW e \in Id,
           d.event[e] = "absent", IsReply(e), NEW door, Doors \subseteq {"mesh"} => door = "mesh",
           NEW p \in Id, NEW r \in Id, Checked(d, e, p, r), NEW n, Replied(d, n, e, p, r, door)
    PROVE  Moves(d, n, {r}) /\ n.addr = d.addr
<1>0. d \in Database /\ Rows(d) /\ RootsOK(d)
    BY DEF StoreInv, Kept
<1>1. /\ n.parent = [d.parent EXCEPT ![e] = p]
      /\ n.last = [d.last EXCEPT ![p] = LastReply(door, d.last[p], e)]
      /\ n.addr = d.addr
    BY DEF Replied
<1>4. /\ \A i \in Id : n.event[i] = IF i = e THEN "live" ELSE d.event[i]
      /\ \A i \in Id : n.parent[i] = IF i = e THEN p ELSE d.parent[i]
      /\ \A i \in Id : n.root[i] = IF i = e THEN r ELSE d.root[i]
      /\ \A m \in Id : n.replies[m] # d.replies[m] => m = p
      /\ \A m \in Id : n.descendants[m] # d.descendants[m] => m = r
    BY <1>0, DbType DEF Plus1, Replied
<1>5. r = DeriveOwnRoot(e)
    BY IdAssumption DEF Checked, IsReply, RootHint, DeriveOwnRoot, NoId
<1>6. DeriveOwnRoot(p) = p => r = p
    BY <1>0 DEF Checked, EffectiveRoot, RootsOK
<1>7. RootsOK(n)
    BY <1>0, <1>4, <1>5, <1>6 DEF RootsOK
<1>8. Doors \subseteq {"mesh"} => LastOK(n)
    <2>1. SUFFICES ASSUME Doors \subseteq {"mesh"}
                   PROVE  LastOK(n)
        OBVIOUS
    <2>2. door = "mesh" /\ LastOK(d)
        BY <2>1 DEF Kept
    <2>3. n.parent = [d.parent EXCEPT ![e] = p] /\ n.last = [d.last EXCEPT ![p] = LastReply("mesh", d.last[p], e)]
        BY <1>1, <2>2
    <2> QED BY <1>0, <2>2, <2>3, LastStep
<1>9. StillGone(d, n)
    <2>1. msg[e].slot = NoSlot
        BY MsgType DEF IsReply
    <2> QED BY <1>1, <1>4, <2>1 DEF StillGone, Gone
<1>10. Covers(d, n, {r})
    BY <1>4, <1>6 DEF Covers
<1>11. Better(d, n)
    BY <1>1 DEF Better
<1> QED BY <1>1, <1>7, <1>8, <1>9, <1>10, <1>11 DEF Moves, Kept

----------------------------------------------------------------------------
(* The steps, for what the open transaction may do.                        *)

\* What holds of two databases holds of them in the next state.
LEMMA MovesFrame ==
    ASSUME msg' = msg, NEW d, NEW w, NEW E, db' = d, work' = w, tx'.emits = E, Kept(d), Moves(d, w, E), AnswerOK'
    PROVE  JInv'
<1>1. Kept(db)'
    <2>1. RootsOK(db)'
        BY DEF Kept, RootsOK, DeriveOwnRoot
    <2>2. (Doors \subseteq {"mesh"} => LastOK(db))'
        BY DEF Kept, LastOK
    <2> QED BY <2>1, <2>2 DEF Kept
<1>2. Kept(work)'
    <2>1. RootsOK(work)'
        BY DEF Moves, Kept, RootsOK, DeriveOwnRoot
    <2>2. (Doors \subseteq {"mesh"} => LastOK(work))'
        BY DEF Moves, Kept, LastOK
    <2> QED BY <2>1, <2>2 DEF Kept
<1>3. Better(db, work)'
    BY DEF Moves, Better, Beats
<1>4. StillGone(db, work)'
    BY DEF Moves, StillGone, Gone, Beats
<1>5. Covers(db, work, tx.emits)'
    BY DEF Moves, Covers, DeriveOwnRoot
<1> QED BY <1>1, <1>2, <1>3, <1>4, <1>5 DEF JInv, Moves

\* A transaction begins.
LEMMA BeginMoves ==
    ASSUME JInv, NEW e \in Id, NEW door, NEW out, NEW n, NEW targets, NEW stack, NEW emits,
           Begin(e, door, out, n, targets, stack, emits), Moves(db, n, emits),
           out \in {"accepted", "duplicate"} <=> n.event[e] # "absent",
           out = "accepted" => db.event[e] = "absent",
           stack # <<>> => out = "accepted"
    PROVE  JInv'
<1>1. /\ tx'.status = "open" /\ tx'.id = e /\ tx'.out = out /\ tx'.stack = stack /\ tx'.emits = emits
      /\ work' = n /\ db' = db /\ msg' = msg
    BY DEF Begin
<1>2. AnswerOK'
    BY <1>1 DEF AnswerOK, Busy, Idle, Present
<1> QED BY <1>1, <1>2, MovesFrame DEF JInv

\* A transaction ends without a trace.
LEMMA RollbackMoves ==
    ASSUME JInv, NEW e, NEW door, NEW out, work' = db, tx' = Closed(e, door, out), UNCHANGED <<msg, now, db>>,
           out = "none" \/ (out = "error" /\ ~Present(db, e))
    PROVE  JInv'
<1>1. tx'.status = "closed" /\ tx'.id = e /\ tx'.out = out /\ tx'.emits = {}
    BY DEF Closed
<1>2. AnswerOK'
    BY <1>1 DEF AnswerOK, Busy, Idle, OutcomeHonest, Present
<1>3. Moves(db, db, {})
    BY NothingMoves DEF JInv
<1> QED BY <1>1, <1>2, <1>3, MovesFrame DEF JInv

\* A transaction goes on.
LEMMA InsideMoves ==
    ASSUME JInv, Busy, NEW n, NEW F, Moves(work, n, F), n.addr = work.addr, work' = n,
           tx'.status = "open", tx'.id = tx.id, tx'.out = tx.out, tx'.emits = tx.emits \cup F,
           tx'.stack # <<>> => tx.stack # <<>>,
           n.event[tx.id] = "absent" <=> work.event[tx.id] = "absent",
           UNCHANGED <<msg, now, db>>
    PROVE  JInv'
<1>1. AnswerOK'
    BY DEF JInv, AnswerOK, Busy, Idle, Present
<1>2. Moves(db, n, tx.emits \cup F)
    BY MovesOn DEF JInv
<1> QED BY <1>1, <1>2, MovesFrame DEF JInv

\* Every ingest of an event through a door.
LEMMA IngestMoves ==
    ASSUME IInv, JInv, NEW e \in Id, NEW door \in Doors, Ingest(e, door)
    PROVE  JInv'
<1>1. /\ msg \in Universes /\ now \in Nat /\ StoreInv(db) /\ db \in Database /\ Kept(db)
      /\ Doors \subseteq {"mesh"} => door = "mesh"
    BY DEF IInv, JInv, StoreInv
<1>2. Present(db, e) <=> db.event[e] # "absent"
    BY DEF Present
<1>3. Moves(db, db, {})
    BY <1>1, NothingMoves
<1>4. Moves(db, Quarantine(db, e), {}) /\ Quarantine(db, e).event = db.event
    BY <1>1, AsideEffect, AsideMoves DEF Aside
<1>5. Moves(db, Park(db, e), {}) /\ Park(db, e).event = db.event
    BY <1>1, AsideEffect, AsideMoves DEF Aside
<1>6. CASE IngestDuplicate(e, door)
    BY <1>2, <1>3, <1>6, BeginMoves DEF IngestDuplicate
<1>7. CASE IngestRelayAuthored(e, door)
    BY <1>2, <1>3, <1>4, <1>7, BeginMoves DEF IngestRelayAuthored
<1>8. ASSUME ~Present(db, e), msg[e].slot = NoSlot
      PROVE  Moves(db, InsertEvent(db, e), {}) /\ InsertEvent(db, e).event[e] = "live"
    <2> DEFINE n == InsertEvent(db, e)
    <2>1. Moves(db, n, {})
        BY <1>1, <1>2, <1>8, InsertEventMoves
    <2>2. n.event = [db.event EXCEPT ![e] = "live"]
        BY <1>1, InsertEventEffect
    <2> HIDE DEF n
    <2>3. n.event[e] = "live"
        BY <1>1, <2>2, DbType
    <2> QED BY <2>1, <2>3 DEF n
<1>9. CASE IngestDeletion(e, door)
    <2>1. msg[e].slot = NoSlot
        BY <1>1, <1>9, MsgType DEF IngestDeletion
    <2> QED BY <1>2, <1>8, <1>9, <2>1, BeginMoves DEF IngestDeletion
<1>10. CASE IngestPlain(e, door)
    <2>1. msg[e].slot = NoSlot
        BY <1>1, <1>10, MsgType DEF IngestPlain
    <2> QED BY <1>2, <1>8, <1>10, <2>1, BeginMoves DEF IngestPlain
<1>11. CASE IngestReplaceable(e, door)
    <2>1. msg[e].slot \in Slot /\ ~Present(db, e)
        BY <1>1, <1>11, MsgType DEF IngestReplaceable, Message
    <2>2. CASE Stale(db, e)
        BY <1>2, <1>3, <1>11, <2>2, BeginMoves DEF IngestReplaceable
    <2>3. CASE ~Stale(db, e)
        <3> DEFINE n == Supersede(db, e)
        <3>1. Moves(db, n, {}) /\ n.event[e] = "live"
            BY <1>1, <1>2, <2>1, <2>3, SupersedeMoves
        <3>2. Begin(e, door, "accepted", n, <<>>, <<e>>, {})
            BY <1>11, <2>3 DEF IngestReplaceable
        <3> HIDE DEF n
        <3> QED BY <1>2, <2>1, <3>1, <3>2, BeginMoves
    <2> QED BY <2>2, <2>3
<1>12. CASE IngestOrphan(e, door)
    BY <1>2, <1>3, <1>5, <1>12, BeginMoves DEF IngestOrphan
<1>13. CASE IngestMismatch(e, door)
    BY <1>2, <1>3, <1>4, <1>13, BeginMoves DEF IngestMismatch
<1>14. CASE IngestReply(e, door)
    <2>0. ~Present(db, e) /\ IsReply(e) /\ ResolveReply(db, e) = "ok" /\ StubsPresent(db, e)
        BY <1>14 DEF IngestReply
    <2>1. PICK rr \in [parent : Id, root : Id, depth : Nat] :
             /\ rr = ResolvedReply(db, e) /\ rr.parent = msg[e].reply
             /\ rr.root = EffectiveRoot(db, msg[e].reply)
        BY <1>1, <2>0, ReplyChecked
    <2>2. PICK p \in Id, r \in Id : p = rr.parent /\ r = rr.root
        BY <2>1
    <2>3. Checked(db, e, p, r)
        BY <2>0, <2>1, <2>2 DEF ResolveReply, Checked
    <2>4. PICK n : n = InsertReply(db, e, rr, door)
        OBVIOUS
    <2>5. Begin(e, door, "accepted", n, <<>>, <<e>>, {r})
        BY <1>14, <2>1, <2>2, <2>4 DEF IngestReply
    <2>6. Replied(db, n, e, p, r, door)
        BY <1>1, <2>1, <2>2, <2>4, InsertReplyReplied
    <2>7. Moves(db, n, {r})
        BY <1>1, <1>2, <2>0, <2>3, <2>6, ReplyMoves
    <2>8. n.event[e] = "live"
        BY <1>1, <2>6, DbType DEF Replied
    <2> QED BY <1>2, <2>0, <2>5, <2>7, <2>8, BeginMoves
<1>15. CASE IngestStubMissing(e, door)
    BY <1>15, RollbackMoves DEF IngestStubMissing
<1> QED BY <1>6, <1>7, <1>9, <1>10, <1>11, <1>12, <1>13, <1>14, <1>15, Zenon DEF Ingest

\* The relay's own state events.
LEMMA StoreRelayMoves ==
    ASSUME IInv, JInv, NEW e \in Id, StoreRelayAuthored(e)
    PROVE  JInv'
<1>1. msg \in Universes /\ StoreInv(db) /\ Kept(db) /\ msg[e].slot \in Slot
    BY MsgType DEF IInv, JInv, StoreRelayAuthored, Message
<1>2. Present(db, e) <=> db.event[e] # "absent"
    BY DEF Present
<1>3. Moves(db, db, {})
    BY <1>1, NothingMoves
<1>4. CASE Present(db, e) \/ Stale(db, e)
    BY <1>2, <1>3, <1>4, BeginMoves DEF StoreRelayAuthored
<1>5. CASE ~Present(db, e) /\ ~Stale(db, e)
    <2> DEFINE n == Supersede(db, e)
    <2>1. Moves(db, n, {}) /\ n.event[e] = "live"
        BY <1>1, <1>2, <1>5, SupersedeMoves
    <2>2. Begin(e, "relay", "accepted", n, <<>>, <<>>, {})
        BY <1>5 DEF StoreRelayAuthored
    <2> HIDE DEF n
    <2> QED BY <1>2, <1>5, <2>1, <2>2, BeginMoves
<1> QED BY <1>4, <1>5

\* A target is deleted.
LEMMA DeleteTargetMoves ==
    ASSUME IInv, JInv, DeleteTarget
    PROVE  JInv'
<1>1. PICK t, n : t \in Id /\ t = Head(tx.targets) /\ n = SoftDelete(work, t)
    <2>1. tx.targets \in Seq(Id) /\ tx.targets # <<>>
        BY DEF DeleteTarget, IInv, TxInv, Transaction
    <2> QED BY <2>1, TargetsType
<1>2. /\ Moves(work, n, DeleteEmits(work, t)) /\ n.addr = work.addr
      /\ \A i \in Id : n.event[i] = "absent" <=> work.event[i] = "absent"
    BY <1>1, SoftDeleteMoves DEF IInv, JInv, Moves
<1>3. /\ work' = n /\ tx'.status = "open" /\ tx'.id = tx.id /\ tx'.out = tx.out
      /\ tx'.emits = tx.emits \cup DeleteEmits(work, t) /\ tx'.stack = tx.stack
      /\ UNCHANGED <<msg, now, db>> /\ Busy /\ tx.id \in Id
    BY <1>1 DEF DeleteTarget, Busy, IInv, TxInv, Transaction, JInv, AnswerOK
<1> QED BY <1>2, <1>3, InsideMoves

\* An orphan is drained.
LEMMA DrainOrphanMoves ==
    ASSUME IInv, JInv, DrainOrphan
    PROVE  JInv'
<1>1. /\ msg \in Universes /\ now \in Nat /\ StoreInv(work) /\ work \in Database /\ Kept(work)
      /\ Waiting(work, tx.stack) /\ tx \in Transaction
    BY DEF IInv, JInv, StoreInv, TxInv, Moves
<1>2. /\ Busy /\ tx.stack # <<>> /\ tx.id \in Id /\ work.event[tx.id] # "absent"
      /\ UNCHANGED <<msg, now, db>>
    BY DEF DrainOrphan, Draining, JInv, AnswerOK, Present
<1>3. PICK c \in Orphans(work, Head(tx.stack)) :
        /\ Attaches(work, c) => StubsPresent(work, c)
        /\ work' = Attach(work, c)
        /\ tx' = [tx EXCEPT !.stack = DrainStack(work, c, @),
                            !.emits = @ \cup DrainEmits(work, c)]
    BY DEF DrainOrphan
<1>4. c \in Id /\ work.parked[c] # Null
    BY <1>3 DEF Orphans
<1>5. IsReply(c) /\ ~Present(work, c) /\ work.event[c] = "absent"
    BY <1>1, <1>4 DEF Waiting, Present
<1>6. PICK E : E = DrainEmits(work, c)
    OBVIOUS
<1>7. tx'.status = "open" /\ tx'.id = tx.id /\ tx'.out = tx.out /\ tx'.emits = tx.emits \cup E
    BY <1>1, <1>2, <1>3, <1>6 DEF Transaction, Busy
<1>8. PICK u : u = Unpark(work, c)
    OBVIOUS
<1>9. /\ Aside(work, u) /\ Moves(work, u, {}) /\ u.addr = work.addr /\ u.event = work.event
      /\ StoreInv(u) /\ u \in Database /\ Kept(u) /\ u.rows = work.rows /\ u.root = work.root
    <2>1. Aside(work, u)
        BY <1>1, <1>4, <1>8, AsideEffect
    <2> QED BY <1>1, <2>1, AsideMoves, AsideStore DEF Aside, Moves
<1>10. CASE ResolveReply(work, c) = "ok"
    <2>1. Attaches(work, c) /\ StubsPresent(work, c)
        BY <1>3, <1>5, <1>10 DEF Attaches
    <2>2. PICK rr \in [parent : Id, root : Id, depth : Nat] :
             /\ rr = ResolvedReply(work, c) /\ rr.parent = msg[c].reply
             /\ rr.root = EffectiveRoot(work, msg[c].reply)
        BY <1>1, <1>4, <1>10, <2>1, ReplyChecked
    <2>3. PICK p \in Id, r \in Id : p = rr.parent /\ r = rr.root
        BY <2>2
    <2>4. Checked(u, c, p, r) /\ E = {r}
        BY <1>6, <1>9, <1>10, <2>1, <2>2, <2>3 DEF ResolveReply, EffectiveRoot, DrainEmits, Checked
    <2>5. PICK n : n = InsertReply(u, c, rr, "mesh") /\ work' = n
        BY <1>3, <1>5, <1>8, <1>10, <2>2 DEF Attach
    <2>6. Replied(u, n, c, p, r, "mesh")
        BY <1>1, <1>4, <1>9, <2>2, <2>3, <2>5, InsertReplyReplied
    <2>7. Moves(u, n, {r}) /\ n.addr = u.addr
        <3>1. PICK door : door = "mesh"
            OBVIOUS
        <3>2. u.event[c] = "absent" /\ Replied(u, n, c, p, r, door)
            BY <1>5, <1>9, <2>6, <3>1
        <3>3. StoreInv(u) /\ Kept(u) /\ c \in Id /\ IsReply(c) /\ msg \in Universes
            BY <1>1, <1>4, <1>5, <1>9
        <3>4. Checked(u, c, p, r) /\ (Doors \subseteq {"mesh"} => door = "mesh")
            BY <2>4, <3>1
        <3> QED BY <3>2, <3>3, <3>4, ReplyMoves
    <2>8. Moves(work, n, E) /\ n.addr = work.addr
        <3>1. {} \cup {r} = E
            BY <2>4
        <3>2. Moves(work, n, {} \cup {r})
            BY <1>9, <2>7, MovesOn
        <3> QED BY <1>9, <2>7, <3>1, <3>2
    <2>9. n.event[tx.id] # "absent"
        BY <1>2, <1>9, <2>6, DbType DEF Replied
    <2> QED BY <1>2, <1>7, <2>5, <2>8, <2>9, InsideMoves
<1>11. CASE ResolveReply(work, c) # "ok"
    <2>1. ~Attaches(work, c) /\ E = {}
        BY <1>6, <1>11 DEF Attaches, DrainEmits
    <2>2. PICK n : work' = n /\ (n = Quarantine(u, c) \/ n = Park(work, c))
        <3>1. ResolveReply(work, c) \in {"mismatch", "missing"}
            BY <1>11 DEF ResolveReply
        <3> QED BY <1>3, <1>5, <1>8, <3>1 DEF Attach
    <2>3. Moves(work, n, E) /\ n.addr = work.addr /\ n.event = work.event
        <3>1. CASE n = Quarantine(u, c)
            <4>1. Aside(u, n)
                BY <1>1, <1>4, <1>9, <3>1, AsideEffect
            <4>2. Moves(u, n, {}) /\ n.addr = u.addr /\ n.event = u.event
                BY <1>9, <4>1, AsideMoves DEF Aside
            <4>3. Moves(work, n, {} \cup {})
                BY <1>9, <4>2, MovesOn
            <4>4. {} \cup {} = E
                BY <2>1
            <4> QED BY <1>9, <4>2, <4>3, <4>4
        <3>2. CASE n = Park(work, c)
            <4>1. Aside(work, n)
                BY <1>1, <1>4, <3>2, AsideEffect
            <4> QED BY <1>1, <2>1, <4>1, AsideMoves DEF Aside
        <3> QED BY <2>2, <3>1, <3>2
    <2> QED BY <1>2, <1>7, <2>2, <2>3, InsideMoves
<1> QED BY <1>10, <1>11

\* The other steps.
LEMMA RestMoves ==
    ASSUME IInv, JInv, DrainStubMissing \/ DrainPop \/ Commit \/ Crash \/ ReapOrphans \/ Tick \/ UNCHANGED vars
    PROVE  JInv'
<1>1. CASE DrainStubMissing
    <2>1. ~Present(db, tx.id)
        BY <1>1 DEF DrainStubMissing, Draining, JInv, AnswerOK
    <2> QED BY <1>1, <2>1, RollbackMoves DEF DrainStubMissing, Rollback
<1>2. CASE Crash
    BY <1>2, RollbackMoves DEF Crash, Rollback
<1>3. CASE DrainPop
    <2>1. /\ tx'.status = "open" /\ tx'.id = tx.id /\ tx'.out = tx.out /\ tx'.emits = tx.emits \cup {}
          /\ tx.stack # <<>> /\ Busy /\ work' = work /\ UNCHANGED <<msg, now, db>>
        BY <1>3 DEF DrainPop, Draining, Busy, IInv, TxInv, Transaction
    <2>2. Moves(work, work, {})
        BY NothingMoves DEF JInv, Moves
    <2> QED BY <2>1, <2>2, InsideMoves
<1>4. CASE Commit
    <2>1. /\ tx'.status = "closed" /\ tx'.id = tx.id /\ tx'.out = tx.out /\ tx'.emits = tx.emits
          /\ db' = work /\ work' = work /\ UNCHANGED <<msg, now>>
        BY <1>4 DEF Commit, IInv, TxInv, Transaction
    <2>2. AnswerOK'
        BY <1>4, <2>1 DEF Commit, JInv, AnswerOK, Busy, Idle, OutcomeHonest, Present
    <2>3. Kept(work) /\ Moves(work, work, tx.emits)
        BY NothingMoves DEF JInv, Moves
    <2> QED BY <2>1, <2>2, <2>3, MovesFrame
<1>5. CASE ReapOrphans
    <2> DEFINE pk == [i \in Id |-> IF Expired(db, i) THEN Null ELSE db.parked[i]]
    <2>1. PICK d : d = [db EXCEPT !.parked = pk]
        OBVIOUS
    <2>2. db \in Database /\ pk \in [Id -> Nat]
        BY DbType DEF IInv, StoreInv, Null
    <2> HIDE DEF pk
    <2>3. Aside(db, d)
        BY <2>1, <2>2 DEF Aside, Database
    <2>4. Kept(d) /\ Moves(d, d, {})
        BY <2>2, <2>3, AsideMoves, NothingMoves DEF JInv, Moves
    <2>5. db' = d /\ work' = d /\ tx' = Closed(NoId, "none", "none") /\ UNCHANGED <<msg, now>>
        BY <1>5, <2>1 DEF ReapOrphans, pk
    <2>6. tx'.emits = {} /\ tx'.status = "closed" /\ tx'.id = NoId
        BY <2>5 DEF Closed
    <2>7. AnswerOK'
        BY <2>6 DEF AnswerOK, Busy, Idle, OutcomeHonest
    <2> QED BY <2>4, <2>5, <2>6, <2>7, MovesFrame
<1>6. CASE Tick \/ UNCHANGED vars
    <2>1. UNCHANGED <<msg, db, work, tx>>
        BY <1>6 DEF Tick, vars
    <2>2. AnswerOK'
        BY <2>1 DEF JInv, AnswerOK, Busy, Idle, OutcomeHonest, Present
    <2> QED BY <2>1, <2>2, MovesFrame DEF JInv
<1> QED BY <1>1, <1>2, <1>3, <1>4, <1>5, <1>6

\* A new database has moved nothing.
LEMMA InitMoves == Init => JInv
<1> SUFFICES ASSUME Init PROVE JInv
    OBVIOUS
<1>1. Kept(EmptyDb)
    BY IdAssumption DEF Kept, RootsOK, LastOK, EmptyDb, NoId, Null
<1>2. AnswerOK
    BY DEF Init, Closed, AnswerOK, Busy, Idle, OutcomeHonest
<1>3. Moves(EmptyDb, EmptyDb, tx.emits)
    BY <1>1, NothingMoves
<1> QED BY <1>1, <1>2, <1>3 DEF Init, JInv

\* Every step keeps it: one case per action of Next.
LEMMA NextMoves == IInv /\ JInv /\ [Next]_vars => JInv'
<1> SUFFICES ASSUME IInv, JInv, [Next]_vars PROVE JInv'
    OBVIOUS
<1>1. ASSUME NEW e \in Id, NEW door \in Doors, Ingest(e, door) PROVE JInv'
    BY <1>1, IngestMoves
<1>2. ASSUME NEW e \in Id, StoreRelayAuthored(e) PROVE JInv'
    BY <1>2, StoreRelayMoves
<1>3. CASE DeleteTarget BY <1>3, DeleteTargetMoves
<1>4. CASE DrainOrphan BY <1>4, DrainOrphanMoves
<1>5. CASE DrainStubMissing \/ DrainPop \/ Commit \/ Crash \/ ReapOrphans \/ Tick \/ UNCHANGED vars
    BY <1>5, RestMoves
<1> QED BY <1>1, <1>2, <1>3, <1>4, <1>5 DEF Next, TxStep

----------------------------------------------------------------------------
(* The theorems about what a transaction may do.                           *)

\* The invariant that ties an open transaction to the committed database, and
\* a closed one to the answer it gave.
THEOREM JInvariance == Spec => [](IInv /\ JInv)
<1>1. Init => IInv /\ JInv
    BY InitInv, InitMoves
<1>2. IInv /\ JInv /\ [Next]_vars => (IInv /\ JInv)'
    BY NextInv, NextMoves
<1> QED BY <1>1, <1>2, PTL DEF Spec

\* A transaction is opened on its own copy of the tables.
LEMMA IngestWrites ==
    ASSUME NEW e \in Id, NEW door, Ingest(e, door)
    PROVE  UNCHANGED <<msg, db>>
<1>1. CASE IngestDuplicate(e, door) \/ IngestDeletion(e, door) \/ IngestPlain(e, door) \/ IngestReply(e, door)
    BY <1>1 DEF IngestDuplicate, IngestDeletion, IngestPlain, IngestReply, Begin
<1>2. CASE IngestRelayAuthored(e, door)
    BY <1>2 DEF IngestRelayAuthored, Begin
<1>3. CASE IngestReplaceable(e, door)
    BY <1>3 DEF IngestReplaceable, Begin
<1>4. CASE IngestOrphan(e, door)
    BY <1>4 DEF IngestOrphan, Begin
<1>5. CASE IngestMismatch(e, door)
    BY <1>5 DEF IngestMismatch, Begin
<1>6. CASE IngestStubMissing(e, door)
    BY <1>6 DEF IngestStubMissing
<1> QED BY <1>1, <1>2, <1>3, <1>4, <1>5, <1>6, Zenon DEF Ingest

LEMMA StoreWrites ==
    ASSUME NEW e \in Id, StoreRelayAuthored(e)
    PROVE  UNCHANGED <<msg, db>>
BY DEF StoreRelayAuthored, Begin

\* It works on that copy, or drops it.
LEMMA InsideWrites ==
    ASSUME DeleteTarget \/ DrainOrphan \/ DrainStubMissing \/ DrainPop \/ Crash
    PROVE  UNCHANGED <<msg, db>>
<1>1. CASE DeleteTarget \/ DrainPop
    BY <1>1 DEF DeleteTarget, DrainPop
<1>2. CASE DrainOrphan
    BY <1>2, Zenon DEF DrainOrphan
<1>3. CASE DrainStubMissing \/ Crash
    BY <1>3 DEF DrainStubMissing, Crash, Rollback
<1> QED BY <1>1, <1>2, <1>3

\* Only COMMIT and the reaper write the tables.
LEMMA DbWrites ==
    ASSUME [Next]_vars
    PROVE  msg' = msg /\ (Commit \/ ReapOrphans \/ UNCHANGED db)
<1>1. CASE \E e \in Id, door \in Doors : Ingest(e, door)
    BY <1>1, IngestWrites
<1>2. CASE \E e \in Id : StoreRelayAuthored(e)
    BY <1>2, StoreWrites
<1>3. CASE DeleteTarget \/ DrainOrphan \/ DrainStubMissing \/ DrainPop \/ Crash
    BY <1>3, InsideWrites
<1>4. CASE Commit
    BY <1>4 DEF Commit
<1>5. CASE ReapOrphans
    BY <1>5 DEF ReapOrphans
<1>6. CASE Tick \/ UNCHANGED vars
    BY <1>6 DEF Tick, vars
<1> QED BY <1>1, <1>2, <1>3, <1>4, <1>5, <1>6, Zenon DEF Next, TxStep

\* A step that changes the committed database commits the open transaction or
\* reaps orphans.
LEMMA DbMoves ==
    ASSUME IInv, JInv, [Next]_vars, db' # db
    PROVE  UNCHANGED msg /\ Moves(db, db', tx'.emits)
<1>1. CASE Commit
    <2>1. db' = work /\ msg' = msg /\ tx'.emits = tx.emits
        BY <1>1 DEF Commit, IInv, TxInv, Transaction
    <2> QED BY <2>1 DEF JInv
<1>2. CASE ReapOrphans
    <2> DEFINE pk == [i \in Id |-> IF Expired(db, i) THEN Null ELSE db.parked[i]]
    <2>1. PICK d : d = [db EXCEPT !.parked = pk]
        OBVIOUS
    <2>2. db \in Database /\ pk \in [Id -> Nat]
        BY DbType DEF IInv, StoreInv, Null
    <2> HIDE DEF pk
    <2>3. Aside(db, d)
        BY <2>1, <2>2 DEF Aside, Database
    <2>4. Moves(db, d, {})
        BY <2>2, <2>3, AsideMoves DEF JInv
    <2>5. db' = d /\ tx' = Closed(NoId, "none", "none") /\ msg' = msg
        BY <1>2, <2>1 DEF ReapOrphans, pk
    <2>6. tx'.emits = {}
        BY <2>5 DEF Closed
    <2> QED BY <2>4, <2>5, <2>6
<1> QED BY <1>1, <1>2, DbWrites

\* The caller is told "accepted" or "duplicate" exactly when the event is in
\* the events table, whatever failed or crashed: ingest's outcome is what
\* publish and fan-out rely on.
THEOREM OutcomeCorrect == Spec => []OutcomeHonest
<1>1. JInv => OutcomeHonest
    BY DEF JInv, AnswerOK, OutcomeHonest
<1> QED BY <1>1, JInvariance, PTL

\* With the mesh door alone, last_reply_at is the maximum of created_at over
\* every reply attached, in whatever order they came.
THEOREM LastReplyCorrect ==
    ASSUME Doors \subseteq {"mesh"}
    PROVE  Spec => []LastReplyIsMax
<1>1. IInv /\ JInv => LastReplyIsMax
    <2> SUFFICES ASSUME IInv, JInv, NEW m \in Id,
                        NEW ats, ats = {msg[c].at : c \in {k \in Id : db.parent[k] = m}}
                 PROVE  IF ats = {} THEN db.last[m] = Null
                        ELSE db.last[m] \in ats /\ \A a \in ats : a <= db.last[m]
        BY DEF LastReplyIsMax
    <2>1. LastOK(db)
        BY DEF JInv, Kept
    <2>2. \A c \in Id : msg[c].at \in Nat \ {0}
        BY MsgType DEF IInv, Message
    <2>3. CASE db.last[m] = Null
        <3>1. \A c \in Id : db.parent[c] # m
            BY <2>1, <2>2, <2>3 DEF LastOK, Null
        <3> QED BY <2>3, <3>1
    <2>4. CASE db.last[m] # Null
        <3>1. db.last[m] \in ats
            BY <2>1, <2>4 DEF LastOK
        <3>2. \A a \in ats : a <= db.last[m]
            BY <2>1 DEF LastOK
        <3> QED BY <3>1, <3>2
    <2> QED BY <2>3, <2>4
<1> QED BY <1>1, JInvariance, PTL

\* supersede_and_insert replaces the winner of an address only by a version that
\* is newer, or as new with a lower id, whatever order the versions arrive in.
THEOREM SlotsImprove == Spec => SlotOnlyImproves
<1>1. IInv /\ JInv /\ [Next]_vars =>
        [\A s \in Slot : db'.addr[s] # db.addr[s] =>
             db.addr[s] = NoId \/ Beats(db'.addr[s], db.addr[s])]_db
    <2> SUFFICES ASSUME IInv, JInv, [Next]_vars, db' # db
                 PROVE  \A s \in Slot : db'.addr[s] # db.addr[s] =>
                            db.addr[s] = NoId \/ Beats(db'.addr[s], db.addr[s])
        OBVIOUS
    <2> QED BY DbMoves DEF Moves, Better
<1> QED BY <1>1, JInvariance, PTL DEF Spec, SlotOnlyImproves

\* Every summary a transaction makes stale is one it asks to be emitted again.
THEOREM EmitsCorrect == Spec => EmitsCoverChange
<1>1. IInv /\ JInv /\ [Next]_vars =>
        [\A m \in Id :
             \/ db'.descendants[m] # db.descendants[m]
             \/ db'.replies[m] # db.replies[m] /\ DeriveOwnRoot(m) = m
             => m \in tx'.emits]_db
    <2> SUFFICES ASSUME IInv, JInv, [Next]_vars, db' # db
                 PROVE  \A m \in Id :
                            \/ db'.descendants[m] # db.descendants[m]
                            \/ db'.replies[m] # db.replies[m] /\ DeriveOwnRoot(m) = m
                            => m \in tx'.emits
        OBVIOUS
    <2> QED BY DbMoves DEF Moves, Covers
<1> QED BY <1>1, JInvariance, PTL DEF Spec, EmitsCoverChange

\* A step keeps what is gone gone.
LEMMA GoneStays == ASSUME NEW i \in Id
                   PROVE  IInv /\ JInv /\ Gone(db, i) /\ [Next]_vars => Gone(db, i)'
<1> SUFFICES ASSUME IInv, JInv, Gone(db, i), [Next]_vars PROVE Gone(db, i)'
    OBVIOUS
<1>1. CASE db' # db
    <2>1. PICK n : n = db'
        OBVIOUS
    <2>2. msg' = msg /\ Gone(n, i)
        BY <1>1, <2>1, DbMoves DEF Moves, StillGone
    <2> QED BY <2>1, <2>2 DEF Gone, Beats
<1>2. CASE db' = db
    <2>1. msg' = msg
        BY DbWrites
    <2> QED BY <1>2, <2>1 DEF Gone, Beats
<1> QED BY <1>1, <1>2

\* An event that was deleted is never stored again: redelivery finds its row,
\* and a superseded version is stale by the time its row is gone.
THEOREM NothingResurrected == Spec => NoResurrection
<1>1. SUFFICES ASSUME NEW i \in Id
               PROVE  Spec => [](db.event[i] = "deleted" => [](db.event[i] # "live"))
    BY DEF NoResurrection
<1>2. IInv /\ JInv /\ Gone(db, i) /\ [Next]_vars => Gone(db, i)'
    BY GoneStays
<1>3. (db.event[i] = "deleted" => Gone(db, i)) /\ (Gone(db, i) => db.event[i] # "live")
    BY DEF Gone
<1> QED BY <1>2, <1>3, JInvariance, PTL DEF Spec

----------------------------------------------------------------------------
(* Convergence.  For clean events the tables are a function of the events  *)
(* that were delivered, `got', but for what deletions have struck; CInv    *)
(* says so of the committed database and, for the events it will have      *)
(* delivered, of the open transaction's view.  The proof that Convergence  *)
(* implements Replica compares the two column by column.                   *)

\* What is stored was delivered, and agrees with its place in its thread.
StoredSound(d, G) ==
    \A i \in Id : d.event[i] # "absent" =>
        /\ i \in G
        /\ msg[i].kind # "replaceable" =>
               R!Sound(i) /\ (msg[i].reply # NoId => Present(d, msg[i].reply))

\* The thread rows are those of the stored replies, their parents and their
\* roots, and say the places the markers say.
Placed(d) ==
    /\ d.rows = {i \in Id : \E c \in Id : /\ d.event[c] # "absent" /\ msg[c].reply # NoId
                                          /\ i \in {c, msg[c].reply, R!Root(c)}}
    /\ \A i \in Id :
           IF d.event[i] # "absent" /\ msg[i].reply # NoId
           THEN d.parent[i] = msg[i].reply /\ d.root[i] = R!Root(i) /\ d.depth[i] = R!Depth(i)
           ELSE d.parent[i] = NoId /\ d.root[i] = NoId /\ d.depth[i] = 0

\* A top-level event that was delivered is stored; a reply is stored, parked or,
\* beside its stored parent, quarantined.
Answered(d, G) ==
    \A i \in Id :
        /\ i \in G /\ msg[i].reply = NoId /\ msg[i].kind \notin {"relay", "replaceable"}
               => d.event[i] # "absent"
        /\ i \in G /\ msg[i].reply # NoId /\ d.event[i] = "absent"
               => d.parked[i] # Null \/ (Present(d, msg[i].reply) /\ ~R!Sound(i))
        /\ d.parked[i] # Null => i \in G
        /\ i \in d.quarantine <=>
               /\ i \in G
               /\ \/ msg[i].kind = "relay"
                  \/ /\ msg[i].reply # NoId /\ Present(d, msg[i].reply)
                     /\ d.event[i] = "absent" /\ d.parked[i] = Null

\* No version that was delivered is better than the winner of its address.
Best(d, G) ==
    \A i \in G : msg[i].kind = "replaceable" =>
        /\ d.addr[msg[i].slot] # NoId
        /\ d.addr[msg[i].slot] = i \/ Beats(d.addr[msg[i].slot], i)

Fits(d, G) == StoredSound(d, G) /\ Placed(d) /\ Answered(d, G) /\ Best(d, G)

\* What the open transaction has delivered, if it commits.
Grown == IF tx.out = "rejected" THEN got ELSE got \cup {tx.id}

\* The targets the deletion e strikes when it is new to d.
Aimed(d, e, i) == msg[e].kind = "deletion" /\ ~Present(d, e) /\ In(msg[e].targets, i)
Hit(d, e, i) == Aimed(d, e, i) /\ (Present(d, i) \/ i = e)

\* What the transaction of e, with the targets ts to come, has struck in w.
Striking(d, w, e, ts) ==
    /\ \A i \in Id :
        /\ w.event[i] = "deleted" => d.event[i] = "deleted" \/ Hit(d, e, i)
        /\ d.event[i] = "deleted" /\ Present(w, i) => w.event[i] = "deleted"
        /\ Hit(d, e, i) /\ Present(w, i) => w.event[i] = "deleted" \/ In(ts, i)
        /\ In(ts, i) => Aimed(d, e, i)
        /\ Present(d, i) /\ msg[i].slot = NoSlot => Present(w, i)
    /\ ts # <<>> => \A i \in Id : Present(w, i) <=> Present(d, i) \/ i = e

\* The inductive invariant of the refinement.
CInv ==
    /\ IInv /\ JInv /\ Clean(msg) /\ got \subseteq Id
    /\ Fits(db, got)
    /\ Busy => /\ Fits(work, Grown) /\ Striking(db, work, tx.id, tx.targets)
               /\ tx.out = "rejected" => work = db /\ tx.targets = <<>>

----------------------------------------------------------------------------
(* The place of an event in its thread.                                    *)

\* The ids of the network are positive numbers, so 0 is none of them.
LEMMA NoneIsNoId == NoId \notin Id
BY IdAssumption DEF NoId

\* Replica counts as the counters do.
LEMMA SameCardinality ==
    ASSUME NEW S
    PROVE  R!Cardinality(S) = Cardinality(S)
BY DEF R!Cardinality, Cardinality, R!IsFiniteSet, IsFiniteSet

\* What Clean says of one event.
LEMMA CleanEvent ==
    ASSUME msg \in Universes, Clean(msg), NEW i \in Id
    PROVE  /\ msg[i].reply \in Id \cup {NoId} /\ msg[i].root \in Id \cup {NoId}
           /\ msg[i].reply = NoId => msg[i].root = NoId
           /\ msg[i].reply # NoId => /\ msg[i].reply \in Id
                                     /\ msg[i].kind = "thread"
                                     /\ msg[msg[i].reply].kind # "replaceable"
BY MsgType DEF Clean, Message

\* A path holds its event and goes up to the top.
LEMMA PathUpward ==
    ASSUME msg \in Universes, NEW i \in Id
    PROVE  i \in R!Path(i) /\ R!Upward(R!Path(i)) /\ R!Path(i) \subseteq Id
<1>1. ASSUME NEW k \in R!Path(i), msg[k].reply # NoId
      PROVE  msg[k].reply \in R!Path(i)
    <2>1. k \in Id /\ msg[k].reply \in Id
        BY <1>1, MsgType DEF R!Path, Message
    <2>2. ASSUME NEW T \in SUBSET Id, i \in T, R!Upward(T)
          PROVE  msg[k].reply \in T
        <3>1. k \in T
            BY <2>2 DEF R!Path
        <3> QED BY <1>1, <2>2, <3>1 DEF R!Upward, R!None, NoId
    <2> QED BY <2>1, <2>2 DEF R!Path
<1> QED BY <1>1 DEF R!Path, R!Upward, R!None, NoId

\* A path is part of every set of events that holds its event and is closed
\* upwards.
LEMMA PathLeast ==
    ASSUME NEW i, NEW T \in SUBSET Id, i \in T, R!Upward(T)
    PROVE  R!Path(i) \subseteq T
BY DEF R!Path

\* A top-level event is alone on its path.
LEMMA PathTop ==
    ASSUME msg \in Universes, NEW i \in Id, msg[i].reply = NoId
    PROVE  R!Path(i) = {i}
<1>1. R!Upward({i})
    BY DEF R!Upward, R!None, NoId
<1> QED BY <1>1, PathLeast, PathUpward

\* The path of a reply is the reply and the path of its parent, which it is not
\* on itself.
LEMMA PathReply ==
    ASSUME msg \in Universes, Clean(msg), NEW i \in Id, NEW p \in Id, msg[i].reply = p
    PROVE  R!Path(i) = {i} \cup R!Path(p) /\ i \notin R!Path(p)
<1>0. p # NoId
    BY NoneIsNoId
<1>1. R!Path(i) \subseteq {i} \cup R!Path(p)
    <2>1. R!Upward({i} \cup R!Path(p))
        BY PathUpward DEF R!Upward
    <2>2. {i} \cup R!Path(p) \in SUBSET Id
        BY PathUpward
    <2> QED BY <2>1, <2>2, PathLeast
<1>2. R!Path(p) \subseteq R!Path(i)
    <2>1. p \in R!Path(i)
        BY <1>0, PathUpward DEF R!Upward, R!None, NoId
    <2> QED BY <2>1, PathLeast, PathUpward
<1>3. i \notin R!Path(p)
    <2> SUFFICES ASSUME i \in R!Path(p) PROVE FALSE
        OBVIOUS
    <2> DEFINE T == {j \in Id : i \in R!Path(j)}
    <2>1. i \in T
        BY PathUpward
    <2>2. ASSUME NEW j \in T PROVE msg[j].reply \in T
        <3>1. CASE j = i
            BY <3>1
        <3>2. CASE j # i
            <4>1. msg[j].reply # NoId
                BY <2>2, <3>2, PathTop
            <4>2. PICK q \in Id : q = msg[j].reply
                BY <2>2, <4>1, CleanEvent
            <4>3. R!Path(j) \subseteq {j} \cup R!Path(q)
                <5>1. R!Upward({j} \cup R!Path(q))
                    BY <4>2, PathUpward DEF R!Upward
                <5>2. {j} \cup R!Path(q) \in SUBSET Id
                    BY PathUpward
                <5> QED BY <5>1, <5>2, PathLeast
            <4> QED BY <2>2, <3>2, <4>2, <4>3
        <3> QED BY <3>1, <3>2
    <2> HIDE DEF T
    <2>3. T \in SUBSET Id /\ T # {}
        BY <2>1 DEF T
    <2> QED BY <2>2, <2>3 DEF Clean
<1> QED BY <1>1, <1>2, <1>3, PathUpward

\* Only a path's own event can be replaceable: nothing replies to such events.
LEMMA PathKinds ==
    ASSUME msg \in Universes, Clean(msg), NEW i \in Id, NEW j \in R!Path(i), j # i
    PROVE  msg[j].kind # "replaceable"
<1> DEFINE T == {k \in Id : k = i \/ msg[k].kind # "replaceable"}
<1>1. R!Upward(T)
    BY CleanEvent DEF R!Upward, R!None, NoId
<1>2. R!Path(i) \subseteq T
    BY <1>1, PathLeast
<1> QED BY <1>2

\* The root of an event is the top of its path.
LEMMA RootOnPath ==
    ASSUME msg \in Universes, Clean(msg), NEW i \in Id
    PROVE  R!Root(i) \in R!Path(i) /\ msg[R!Root(i)].reply = NoId
<1>1. R!Path(i) \in SUBSET Id /\ R!Path(i) # {}
    BY PathUpward
<1>2. PICK k \in R!Path(i) : msg[k].reply \notin R!Path(i)
    BY <1>1 DEF Clean
<1>3. k \in R!Tops(i)
    BY <1>2, PathUpward DEF R!Tops, R!Upward, R!None, NoId
<1>4. R!Root(i) \in R!Tops(i)
    BY <1>3 DEF R!Root
<1> QED BY <1>4 DEF R!Tops, R!None, NoId

\* A top-level event is the root of its thread, at depth 0.
LEMMA PlaceTop ==
    ASSUME msg \in Universes, Clean(msg), NEW i \in Id, msg[i].reply = NoId
    PROVE  /\ R!Root(i) = i /\ R!Depth(i) = 0
           /\ R!Sound(i) <=> msg[i].kind # "relay"
<1>1. R!Path(i) = {i}
    BY PathTop
<1>2. R!Path(i) \ {i} = {}
    BY <1>1
<1>3. R!Depth(i) = 0
    BY <1>2, FS_EmptySet, SameCardinality DEF R!Depth
<1>4. R!Root(i) = i
    BY <1>1, RootOnPath
<1>5. R!Sound(i) <=> msg[i].kind # "relay"
    BY <1>1 DEF R!Sound, R!Agrees, R!None, NoId
<1> QED BY <1>3, <1>4, <1>5

\* A reply is in the thread of its parent, one deeper, and sound if its parent
\* is and it agrees with its place.
LEMMA PlaceReply ==
    ASSUME msg \in Universes, Clean(msg), NEW i \in Id, NEW p \in Id, msg[i].reply = p
    PROVE  /\ R!Root(i) = R!Root(p)
           /\ R!Depth(p) \in Nat /\ R!Depth(i) = R!Depth(p) + 1
           /\ R!Sound(i) <=> R!Sound(p) /\ R!Agrees(i)
<1>0. R!Path(i) = {i} \cup R!Path(p) /\ i \notin R!Path(p) /\ p \in R!Path(p) /\ R!Path(p) \subseteq Id
    BY PathReply, PathUpward
<1>1. R!Root(i) = R!Root(p)
    <2>1. R!Tops(i) = R!Tops(p)
        BY <1>0, NoneIsNoId DEF R!Tops, R!None, NoId
    <2> QED BY <2>1 DEF R!Root
<1>2. R!Depth(p) \in Nat /\ R!Depth(i) = R!Depth(p) + 1
    <2> DEFINE S == R!Path(p) \ {p}
    <2>1. S \subseteq Id /\ p \notin S /\ R!Path(i) \ {i} = S \cup {p}
        BY <1>0
    <2> HIDE DEF S
    <2>2. Cardinality(S) \in Nat /\ Cardinality(S \cup {p}) = Cardinality(S) + 1
        BY <2>1, CardType, CardAdd
    <2>3. R!Depth(p) = Cardinality(S) /\ R!Depth(i) = Cardinality(S \cup {p})
        BY <2>1, SameCardinality DEF R!Depth, S
    <2> QED BY <2>2, <2>3
<1>3. R!Sound(i) <=> R!Sound(p) /\ R!Agrees(i)
    <2>1. msg[i].kind # "relay"
        BY NoneIsNoId, CleanEvent
    <2> QED BY <1>0, <2>1 DEF R!Sound
<1> QED BY <1>1, <1>2, <1>3

----------------------------------------------------------------------------
(* What the ingest does to a database that fits what was delivered.        *)

\* The rows of stored replies and of everything else.
LEMMA PlacedRow ==
    ASSUME msg \in Universes, Clean(msg), NEW d, StoreInv(d), Placed(d), NEW p \in Id,
           d.event[p] # "absent"
    PROVE  EffectiveRoot(d, p) = R!Root(p) /\ ReplyDepth(d, p) = R!Depth(p) + 1
<1>1. d \in Database /\ Rows(d) /\ NoId \notin Id
    BY NoneIsNoId DEF StoreInv
<1>2. CASE msg[p].reply = NoId
    <2>1. d.root[p] = NoId /\ d.depth[p] = 0
        BY <1>2 DEF Placed
    <2>2. DeriveOwnRoot(p) = p
        BY <1>2, CleanEvent DEF DeriveOwnRoot
    <2>3. R!Root(p) = p /\ R!Depth(p) = 0
        BY <1>2, PlaceTop
    <2> QED BY <2>1, <2>2, <2>3 DEF EffectiveRoot, ReplyDepth
<1>3. CASE msg[p].reply # NoId
    <2>1. d.root[p] = R!Root(p) /\ d.depth[p] = R!Depth(p) /\ p \in d.rows
        BY <1>3 DEF Placed
    <2>2. R!Root(p) \in Id
        BY RootOnPath, PathUpward
    <2> QED BY <1>1, <2>1, <2>2 DEF EffectiveRoot, ReplyDepth
<1> QED BY <1>2, <1>3

\* resolve_reply accepts exactly the replies to stored events that are sound,
\* and hands on their place in the thread.
LEMMA Resolves ==
    ASSUME msg \in Universes, Clean(msg), NEW d, StoreInv(d), NEW G, StoredSound(d, G), Placed(d),
           NEW e \in Id, NEW p \in Id, msg[e].reply = p, Present(d, p)
    PROVE  /\ ResolveReply(d, e) = IF R!Sound(e) THEN "ok" ELSE "mismatch"
           /\ EffectiveRoot(d, p) = R!Root(e) /\ ReplyDepth(d, p) = R!Depth(e)
<1>0. d.event[p] # "absent" /\ p # NoId /\ NoId \notin Id
    BY NoneIsNoId DEF Present
<1>1. R!Sound(p)
    BY <1>0, CleanEvent DEF StoredSound
<1>2. /\ R!Root(e) = R!Root(p)
      /\ R!Depth(p) \in Nat /\ R!Depth(e) = R!Depth(p) + 1
      /\ R!Sound(e) <=> R!Agrees(e)
    BY <1>1, PlaceReply
<1>3. EffectiveRoot(d, p) = R!Root(e) /\ ReplyDepth(d, p) = R!Depth(e)
    BY <1>0, <1>2, PlacedRow
<1>4. p \notin d.rows => R!Depth(e) <= DepthCap
    <2>1. SUFFICES ASSUME p \notin d.rows
                   PROVE  R!Depth(e) <= DepthCap
        OBVIOUS
    <2>2. msg[p].reply = NoId
        BY <1>0, <2>1 DEF Placed
    <2>3. R!Depth(p) = 0
        BY <2>2, PlaceTop
    <2> QED BY <1>2, <2>3, CapAssumption
<1>5. R!Agrees(e) <=> /\ SameChannel(p, e)
                      /\ p \in d.rows => ReplyDepth(d, p) <= DepthCap
                      /\ RootHint(e) = EffectiveRoot(d, p)
    BY <1>0, <1>3, <1>4 DEF R!Agrees, SameChannel, RootHint, R!None, NoId, NoChan
<1>6. ResolveReply(d, e) = IF R!Agrees(e) THEN "ok" ELSE "mismatch"
    BY <1>5 DEF ResolveReply
<1> QED BY <1>2, <1>3, <1>6

\* The quarantine is written by Quarantine alone.
LEMMA QuarantineColumn ==
    ASSUME NEW d \in Database, NEW e \in Id, NEW door, NEW rr
    PROVE  /\ InsertReply(d, e, rr, door).quarantine = d.quarantine
           /\ InsertEvent(d, e).quarantine = d.quarantine
           /\ SoftDelete(d, e).quarantine = d.quarantine
           /\ Supersede(d, e).quarantine = d.quarantine
           /\ Park(d, e).quarantine = d.quarantine
           /\ Unpark(d, e).quarantine = d.quarantine
           /\ Quarantine(d, e).quarantine = d.quarantine \cup {e}
BY DEF Database, InsertReply, InsertEvent, SoftDelete, Supersede, Park, Unpark, Quarantine

\* insert_reply as far as Fits reads it; what was parked may have been unparked.
Attached(d, n, e) ==
    /\ \A i \in Id : /\ n.event[i] = IF i = e THEN "live" ELSE d.event[i]
                     /\ n.parent[i] = IF i = e THEN msg[e].reply ELSE d.parent[i]
                     /\ n.root[i] = IF i = e THEN R!Root(e) ELSE d.root[i]
                     /\ n.depth[i] = IF i = e THEN R!Depth(e) ELSE d.depth[i]
                     /\ i # e => n.parked[i] = d.parked[i]
    /\ n.rows = d.rows \cup {e, msg[e].reply, R!Root(e)}
    /\ n.quarantine = d.quarantine
    /\ n.addr = d.addr

\* A sound reply to a stored event is stored.
LEMMA FitsReply ==
    ASSUME msg \in Universes, Clean(msg), NEW d, NEW G \in SUBSET Id, Fits(d, G),
           NEW e \in Id, NEW p \in Id, msg[e].reply = p, Present(d, p), R!Sound(e), d.event[e] = "absent",
           NEW n, Attached(d, n, e)
    PROVE  Fits(n, G \cup {e})
<1>0. /\ StoredSound(d, G) /\ Placed(d) /\ Answered(d, G) /\ Best(d, G)
      /\ msg[e].kind = "thread" /\ p # NoId /\ NoId \notin Id
      /\ R!Root(e) \in Id
    BY NoneIsNoId, CleanEvent, RootOnPath, PathUpward DEF Fits
<1>1. \A i : Present(n, i) <=> Present(d, i) \/ i = e
    BY DEF Attached, Present
<1>2. StoredSound(n, G \cup {e})
    BY <1>0, <1>1 DEF StoredSound, Attached
<1>3. Placed(n)
    <2>1. ASSUME NEW i \in Id
          PROVE  i \in n.rows <=> \E c \in Id : /\ n.event[c] # "absent" /\ msg[c].reply # NoId
                                                /\ i \in {c, msg[c].reply, R!Root(c)}
        <3>1. i \in d.rows <=> \E c \in Id : /\ d.event[c] # "absent" /\ msg[c].reply # NoId
                                             /\ i \in {c, msg[c].reply, R!Root(c)}
            BY <1>0 DEF Placed
        <3>2. i \in n.rows <=> i \in d.rows \/ i \in {e, msg[e].reply, R!Root(e)}
            BY DEF Attached
        <3>3. \A c \in Id : n.event[c] # "absent" <=> d.event[c] # "absent" \/ c = e
            BY DEF Attached
        <3> QED BY <1>0, <3>1, <3>2, <3>3
    <2>2. n.rows \subseteq Id
        BY <1>0 DEF Attached, Placed
    <2>3. \A i \in Id :
           IF n.event[i] # "absent" /\ msg[i].reply # NoId
           THEN n.parent[i] = msg[i].reply /\ n.root[i] = R!Root(i) /\ n.depth[i] = R!Depth(i)
           ELSE n.parent[i] = NoId /\ n.root[i] = NoId /\ n.depth[i] = 0
        BY <1>0 DEF Attached, Placed
    <2> QED BY <2>1, <2>2, <2>3 DEF Placed
<1>4. Answered(n, G \cup {e})
    <2>1. e \notin d.quarantine
        BY <1>0 DEF Answered
    <2>2. ASSUME NEW i \in Id, i # e
          PROVE  i \in n.quarantine <=>
                   /\ i \in G \cup {e}
                   /\ \/ msg[i].kind = "relay"
                      \/ /\ msg[i].reply # NoId /\ Present(n, msg[i].reply)
                         /\ n.event[i] = "absent" /\ n.parked[i] = Null
        BY <1>0, <1>1, <2>2 DEF Answered, Attached, Present
    <2> QED BY <1>0, <1>1, <2>1, <2>2 DEF Answered, Attached
<1>5. Best(n, G \cup {e})
    BY <1>0 DEF Best, Attached
<1> QED BY <1>2, <1>3, <1>4, <1>5 DEF Fits

\* A top-level event that is neither replaceable nor the relay's is stored.
LEMMA FitsInsert ==
    ASSUME msg \in Universes, Clean(msg), NEW d, NEW G \in SUBSET Id, Fits(d, G),
           NEW e \in Id, msg[e].reply = NoId, msg[e].kind \notin {"relay", "replaceable"},
           d.event[e] = "absent",
           NEW n, \A i \in Id : n.event[i] = IF i = e THEN "live" ELSE d.event[i],
           n.rows = d.rows, n.parent = d.parent, n.root = d.root, n.depth = d.depth,
           n.parked = d.parked, n.quarantine = d.quarantine, n.addr = d.addr
    PROVE  Fits(n, G \cup {e})
<1>0. StoredSound(d, G) /\ Placed(d) /\ Answered(d, G) /\ Best(d, G)
    BY DEF Fits
<1>1. \A i : Present(n, i) <=> Present(d, i) \/ i = e
    BY DEF Present
<1>2. StoredSound(n, G \cup {e})
    <2>1. R!Sound(e)
        BY PlaceTop
    <2> QED BY <1>0, <1>1, <2>1 DEF StoredSound
<1>3. Placed(n)
    <2>1. \A c \in Id : n.event[c] # "absent" /\ msg[c].reply # NoId
                            <=> d.event[c] # "absent" /\ msg[c].reply # NoId
        OBVIOUS
    <2> QED BY <1>0, <2>1 DEF Placed
<1>4. Answered(n, G \cup {e})
    <2>1. ASSUME NEW i \in Id, i # e
          PROVE  i \in n.quarantine <=>
                   /\ i \in G \cup {e}
                   /\ \/ msg[i].kind = "relay"
                      \/ /\ msg[i].reply # NoId /\ Present(n, msg[i].reply)
                         /\ n.event[i] = "absent" /\ n.parked[i] = Null
        BY <1>0, <1>1, <2>1 DEF Answered, Present
    <2>2. e \notin d.quarantine
        BY <1>0 DEF Answered
    <2> QED BY <1>0, <1>1, <2>1, <2>2 DEF Answered
<1>5. Best(n, G \cup {e})
    BY <1>0 DEF Best
<1> QED BY <1>2, <1>3, <1>4, <1>5 DEF Fits

\* A version that is not stale takes the place of the winner of its address.
LEMMA FitsWinner ==
    ASSUME msg \in Universes, Clean(msg), NEW d, StoreInv(d), NEW G \in SUBSET Id, Fits(d, G),
           NEW e \in Id, msg[e].kind = "replaceable", d.event[e] = "absent", ~Stale(d, e),
           NEW n, n = Supersede(d, e)
    PROVE  Fits(n, G \cup {e})
<1>0. /\ StoredSound(d, G) /\ Placed(d) /\ Answered(d, G) /\ Best(d, G)
      /\ d \in Database /\ Slots(d)
      /\ msg[e].slot \in Slot /\ msg[e].slot # NoSlot /\ NoId \notin Id
      /\ msg[e].reply = NoId
    BY NoneIsNoId, MsgType, CleanEvent DEF Fits, StoreInv, Message
<1> DEFINE w == d.addr[msg[e].slot]
<1>1. WinnerWritten(d, n, e) /\ n.quarantine = d.quarantine
    BY <1>0, SupersedeEffect, QuarantineColumn
<1>2. /\ \A i \in Id : n.event[i] = IF i = e THEN "live" ELSE IF i = w THEN "absent" ELSE d.event[i]
      /\ n.rows = d.rows /\ n.parent = d.parent /\ n.root = d.root /\ n.depth = d.depth
      /\ n.parked = d.parked
      /\ \A s \in Slot : n.addr[s] = IF s = msg[e].slot THEN e ELSE d.addr[s]
    BY <1>0, <1>1, DbType DEF WinnerWritten
<1>3. w # NoId => /\ w \in Id /\ d.event[w] # "absent" /\ msg[w].slot = msg[e].slot
                  /\ msg[w].kind = "replaceable" /\ w # e
    <2> SUFFICES ASSUME w # NoId
                 PROVE  /\ w \in Id /\ d.event[w] # "absent" /\ msg[w].slot = msg[e].slot
                        /\ msg[w].kind = "replaceable" /\ w # e
        OBVIOUS
    <2>1. w \in Id /\ d.event[w] # "absent" /\ msg[w].slot = msg[e].slot
        BY <1>0, DbType DEF Slots
    <2>2. msg[w].kind \in {"relay", "replaceable"}
        BY <1>0, <2>1, MsgType
    <2>3. msg[w].kind # "relay"
        BY <1>0, <2>1, <2>2, PathUpward DEF StoredSound, R!Sound
    <2> QED BY <2>1, <2>2, <2>3
<1> HIDE DEF w
<1>4. \A i \in Id : msg[i].kind # "replaceable" => (n.event[i] # "absent" <=> d.event[i] # "absent")
    BY <1>0, <1>2, <1>3
<1>5. \A i \in Id : msg[i].reply # NoId => /\ msg[i].reply \in Id
                                           /\ msg[i].kind # "replaceable"
                                           /\ Present(n, msg[i].reply) <=> Present(d, msg[i].reply)
    BY <1>4, CleanEvent DEF Present
<1>6. StoredSound(n, G \cup {e})
    <2>1. \A i \in Id : n.event[i] # "absent" => i = e \/ d.event[i] # "absent"
        BY <1>2
    <2> QED BY <1>0, <1>5, <2>1 DEF StoredSound
<1>7. Placed(n)
    <2>1. \A c \in Id : n.event[c] # "absent" /\ msg[c].reply # NoId
                            <=> d.event[c] # "absent" /\ msg[c].reply # NoId
        BY <1>4, <1>5
    <2> QED BY <1>0, <1>2, <2>1 DEF Placed
<1>8. Answered(n, G \cup {e})
    <2>1. \A i \in Id : i \in G \cup {e} /\ msg[i].reply = NoId /\ msg[i].kind \notin {"relay", "replaceable"}
                           => n.event[i] # "absent"
        BY <1>0, <1>4 DEF Answered
    <2>2. \A i \in Id : i \in G \cup {e} /\ msg[i].reply # NoId /\ n.event[i] = "absent"
                           => n.parked[i] # Null \/ (Present(n, msg[i].reply) /\ ~R!Sound(i))
        BY <1>0, <1>2, <1>4, <1>5 DEF Answered
    <2>3. \A i \in Id : n.parked[i] # Null => i \in G \cup {e}
        BY <1>0, <1>2 DEF Answered
    <2>4. ASSUME NEW i \in Id
          PROVE  i \in n.quarantine <=>
                   /\ i \in G \cup {e}
                   /\ \/ msg[i].kind = "relay"
                      \/ /\ msg[i].reply # NoId /\ Present(n, msg[i].reply)
                         /\ n.event[i] = "absent" /\ n.parked[i] = Null
        <3>1. i \in n.quarantine <=> i \in d.quarantine
            BY <1>1
        <3>2. i = e => msg[i].kind # "relay" /\ msg[i].reply = NoId
            BY <1>0
        <3>3. i \in d.quarantine <=>
                   /\ i \in G
                   /\ \/ msg[i].kind = "relay"
                      \/ /\ msg[i].reply # NoId /\ Present(d, msg[i].reply)
                         /\ d.event[i] = "absent" /\ d.parked[i] = Null
            BY <1>0 DEF Answered
        <3> QED BY <1>2, <1>4, <1>5, <3>1, <3>2, <3>3
    <2> QED BY <2>1, <2>2, <2>3, <2>4 DEF Answered
<1>9. Best(n, G \cup {e})
    <2> SUFFICES ASSUME NEW i \in G \cup {e}, msg[i].kind = "replaceable"
                 PROVE  /\ n.addr[msg[i].slot] # NoId
                        /\ n.addr[msg[i].slot] = i \/ Beats(n.addr[msg[i].slot], i)
        BY DEF Best
    <2>1. msg[i].slot \in Slot /\ i \in Id
        BY MsgType DEF Message
    <2>2. CASE i = e
        BY <1>0, <1>2, <2>2
    <2>3. CASE i # e /\ msg[i].slot # msg[e].slot
        BY <1>0, <1>2, <2>1, <2>3 DEF Best
    <2>4. CASE i # e /\ msg[i].slot = msg[e].slot
        <3>1. w # NoId /\ (w = i \/ Beats(w, i))
            BY <1>0, <2>4 DEF Best, w
        <3>2. PICK a \in Nat, b \in Nat : a = msg[e].at /\ b = msg[w].at
            BY <1>3, <3>1, MsgType DEF Message
        <3>3. ~(b > a \/ (b = a /\ w < e))
            BY <3>1, <3>2 DEF Stale, w
        <3>4. e \in Nat /\ w \in Nat /\ w # e
            BY <1>3, <3>1, IdAssumption
        <3>5. a > b \/ (a = b /\ e < w)
            BY <3>2, <3>3, <3>4
        <3>6. Beats(e, w)
            BY <3>2, <3>5 DEF Beats
        <3>7. Beats(e, i)
            BY <1>3, <2>1, <3>1, <3>6, BeatsTransitive
        <3> QED BY <1>0, <1>2, <2>4, <3>7
    <2> QED BY <2>2, <2>3, <2>4
<1> QED BY <1>6, <1>7, <1>8, <1>9 DEF Fits

\* A stale version was delivered, and leaves the store alone.
LEMMA FitsStale ==
    ASSUME msg \in Universes, Clean(msg), NEW d, NEW G \in SUBSET Id, Fits(d, G),
           NEW e \in Id, msg[e].kind = "replaceable", Stale(d, e)
    PROVE  Fits(d, G \cup {e})
<1>0. /\ StoredSound(d, G) /\ Placed(d) /\ Answered(d, G) /\ Best(d, G)
      /\ msg[e].reply = NoId
    BY CleanEvent DEF Fits
<1>1. StoredSound(d, G \cup {e}) /\ Answered(d, G \cup {e})
    BY <1>0 DEF StoredSound, Answered
<1>2. Best(d, G \cup {e})
    BY <1>0 DEF Best, Stale, Beats
<1> QED BY <1>0, <1>1, <1>2 DEF Fits

\* A reply to something that is not stored is parked.
LEMMA FitsPark ==
    ASSUME msg \in Universes, Clean(msg), NEW d, NEW G \in SUBSET Id, Fits(d, G),
           NEW e \in Id, msg[e].reply # NoId, ~Present(d, msg[e].reply), d.event[e] = "absent",
           NEW n, Aside(d, n), \A i \in Id : IF i = e THEN n.parked[i] # Null ELSE n.parked[i] = d.parked[i],
           n.quarantine = d.quarantine
    PROVE  Fits(n, G \cup {e})
<1>0. /\ StoredSound(d, G) /\ Placed(d) /\ Answered(d, G) /\ Best(d, G)
      /\ msg[e].kind = "thread"
    BY CleanEvent DEF Fits
<1>1. \A i : Present(n, i) <=> Present(d, i)
    BY DEF Aside, Present
<1>2. StoredSound(n, G \cup {e}) /\ Placed(n)
    BY <1>0, <1>1 DEF StoredSound, Placed, Aside
<1>3. Answered(n, G \cup {e})
    <2>1. ASSUME NEW i \in Id, i # e
          PROVE  i \in n.quarantine <=>
                   /\ i \in G \cup {e}
                   /\ \/ msg[i].kind = "relay"
                      \/ /\ msg[i].reply # NoId /\ Present(n, msg[i].reply)
                         /\ n.event[i] = "absent" /\ n.parked[i] = Null
        BY <1>0, <1>1, <2>1 DEF Answered, Aside
    <2>2. e \notin d.quarantine
        BY <1>0 DEF Answered
    <2> QED BY <1>0, <1>1, <2>1, <2>2 DEF Answered, Aside
<1>4. Best(n, G \cup {e})
    BY <1>0 DEF Best, Aside
<1> QED BY <1>2, <1>3, <1>4 DEF Fits

\* What only a relay may author, and a reply to a stored event that is not
\* sound, is quarantined.
LEMMA FitsRefuse ==
    ASSUME msg \in Universes, Clean(msg), NEW d, NEW G \in SUBSET Id, Fits(d, G), NEW e \in Id,
           \/ msg[e].kind = "relay"
           \/ msg[e].reply # NoId /\ Present(d, msg[e].reply) /\ ~R!Sound(e),
           NEW n, Aside(d, n), \A i \in Id : n.parked[i] = IF i = e THEN Null ELSE d.parked[i],
           n.quarantine = d.quarantine \cup {e}
    PROVE  Fits(n, G \cup {e})
<1>0. /\ StoredSound(d, G) /\ Placed(d) /\ Answered(d, G) /\ Best(d, G)
      /\ d.event[e] # "absent" => R!Sound(e)
      /\ msg[e].kind = "relay" => ~R!Sound(e) /\ msg[e].reply = NoId
    <2>1. msg[e].kind = "relay" => ~R!Sound(e)
        BY PathUpward DEF R!Sound
    <2>2. msg[e].reply # NoId => msg[e].kind = "thread"
        BY CleanEvent
    <2> QED BY <2>1, <2>2 DEF Fits, StoredSound
<1>1. \A i : Present(n, i) <=> Present(d, i)
    BY DEF Aside, Present
<1>2. d.event[e] = "absent" /\ msg[e].kind # "replaceable"
    BY <1>0, CleanEvent
<1>3. StoredSound(n, G \cup {e}) /\ Placed(n)
    BY <1>0, <1>1 DEF StoredSound, Placed, Aside
<1>4. Answered(n, G \cup {e})
    <2>1. ASSUME NEW i \in Id, i # e
          PROVE  i \in n.quarantine <=>
                   /\ i \in G \cup {e}
                   /\ \/ msg[i].kind = "relay"
                      \/ /\ msg[i].reply # NoId /\ Present(n, msg[i].reply)
                         /\ n.event[i] = "absent" /\ n.parked[i] = Null
        BY <1>0, <1>1, <2>1 DEF Answered, Aside
    <2>2. e \in n.quarantine /\ n.event[e] = "absent" /\ n.parked[e] = Null
        BY <1>2 DEF Aside
    <2> QED BY <1>0, <1>1, <2>1, <2>2 DEF Answered, Aside
<1>5. Best(n, G \cup {e})
    BY <1>0, <1>2 DEF Best, Aside
<1> QED BY <1>3, <1>4, <1>5 DEF Fits

\* Reaped orphans are as good as never delivered.
LEMMA FitsReap ==
    ASSUME NEW d, NEW G \in SUBSET Id, Fits(d, G), Waiting(d, <<>>),
           NEW X \in SUBSET Id, \A i \in X : d.parked[i] # Null,
           NEW n, Aside(d, n), \A i \in Id : n.parked[i] = IF i \in X THEN Null ELSE d.parked[i],
           n.quarantine = d.quarantine
    PROVE  Fits(n, G \ X)
<1>0. StoredSound(d, G) /\ Placed(d) /\ Answered(d, G) /\ Best(d, G)
    BY DEF Fits
<1>1. \A i : Present(n, i) <=> Present(d, i)
    BY DEF Aside, Present
<1>2. \A i \in X : /\ d.event[i] = "absent" /\ msg[i].kind = "thread" /\ msg[i].reply # NoId
                   /\ ~Present(d, msg[i].reply)
    BY InEmpty DEF Waiting, IsReply
<1>3. StoredSound(n, G \ X) /\ Placed(n)
    BY <1>0, <1>1, <1>2 DEF StoredSound, Placed, Aside
<1>4. Answered(n, G \ X)
    <2>1. ASSUME NEW i \in Id
          PROVE  i \in n.quarantine <=>
                   /\ i \in G \ X
                   /\ \/ msg[i].kind = "relay"
                      \/ /\ msg[i].reply # NoId /\ Present(n, msg[i].reply)
                         /\ n.event[i] = "absent" /\ n.parked[i] = Null
        BY <1>0, <1>1, <1>2, <2>1 DEF Answered, Aside
    <2> QED BY <1>0, <1>1, <1>2, <2>1 DEF Answered, Aside
<1>5. Best(n, G \ X)
    BY <1>0 DEF Best, Aside
<1> QED BY <1>3, <1>4, <1>5 DEF Fits

\* Soft-deleting takes no event out of the table.
LEMMA FitsStruck ==
    ASSUME NEW d, NEW G, Fits(d, G),
           NEW n, \A i \in Id : n.event[i] = "absent" <=> d.event[i] = "absent",
           n.rows = d.rows, n.parent = d.parent, n.root = d.root, n.depth = d.depth,
           n.parked = d.parked, n.quarantine = d.quarantine, n.addr = d.addr
    PROVE  Fits(n, G)
<1>0. StoredSound(d, G) /\ Placed(d) /\ Answered(d, G) /\ Best(d, G)
    BY DEF Fits
<1>1. \A i : Present(n, i) <=> Present(d, i)
    BY DEF Present
<1>2. StoredSound(n, G) /\ Answered(n, G) /\ Best(n, G)
    BY <1>0, <1>1 DEF StoredSound, Answered, Best
<1>3. Placed(n)
    BY <1>0 DEF Placed
<1> QED BY <1>2, <1>3 DEF Fits

----------------------------------------------------------------------------
(* A database that fits what was delivered shows what Replica says.        *)

Stored(d) == {i \in Id : d.event[i] # "absent"}

\* Above a stored event of a thread everything is stored.
LEMMA StoredPath ==
    ASSUME msg \in Universes, Clean(msg), NEW d, NEW G, StoredSound(d, G),
           NEW i \in Stored(d), msg[i].kind # "replaceable"
    PROVE  R!Path(i) \subseteq Stored(d)
<1> DEFINE T == {j \in Stored(d) : msg[j].kind # "replaceable"}
<1>1. R!Upward(T)
    BY CleanEvent DEF R!Upward, R!None, NoId, StoredSound, Present, Stored
<1>2. R!Path(i) \subseteq T
    BY <1>1, PathLeast DEF Stored
<1> QED BY <1>2

\* Of the events that were delivered, those are stored that are sound with all
\* their ancestry at hand, and the best versions: the drain leaves none behind.
LEMMA HeldStored ==
    ASSUME msg \in Universes, Clean(msg), NEW d, StoreInv(d), NEW G \in SUBSET Id, Fits(d, G),
           Waiting(d, <<>>)
    PROVE  R!Held(G) = Stored(d)
<1>0. /\ StoredSound(d, G) /\ Placed(d) /\ Answered(d, G) /\ Best(d, G)
      /\ d \in Database /\ Slots(d) /\ NoId \notin Id
    BY NoneIsNoId DEF Fits, StoreInv
<1>1. ASSUME NEW i \in Stored(d), msg[i].kind = "replaceable"
      PROVE  i \in R!Held(G)
    <2>1. i \in Id /\ i \in G /\ msg[i].slot \in Slot /\ msg[i].slot # NoSlot /\ d.addr[msg[i].slot] = i
        BY <1>0, <1>1, MsgType DEF Stored, StoredSound, Slots, Message
    <2>2. ASSUME NEW j \in G, msg[j].kind = "replaceable", msg[j].slot = msg[i].slot, R!Newer(j, i)
          PROVE  FALSE
        <3>1. i = j \/ Beats(i, j)
            BY <1>0, <2>1, <2>2 DEF Best
        <3>2. PICK a \in Nat, b \in Nat : a = msg[i].at /\ b = msg[j].at
            BY <2>1, MsgType DEF Message
        <3>3. i \in Nat /\ j \in Nat
            BY <2>1, IdAssumption
        <3> QED BY <2>2, <3>1, <3>2, <3>3 DEF Beats, R!Newer
    <2> QED BY <1>1, <2>1, <2>2 DEF R!Held, R!Outdated, R!Replaceable
<1>2. ASSUME NEW i \in Stored(d), msg[i].kind # "replaceable"
      PROVE  i \in R!Held(G)
    <2>1. R!Path(i) \subseteq Stored(d)
        BY <1>0, <1>2, StoredPath
    <2>2. Stored(d) \subseteq G /\ R!Sound(i)
        BY <1>0, <1>2 DEF Stored, StoredSound
    <2> QED BY <1>2, <2>1, <2>2 DEF R!Held, R!Replaceable
<1>3. ASSUME NEW i \in R!Held(G), msg[i].kind = "replaceable"
      PROVE  i \in Stored(d)
    <2>1. i \in G /\ i \in Id /\ ~R!Outdated(G, i) /\ msg[i].slot \in Slot
        BY <1>3, MsgType DEF R!Held, R!Replaceable, Message
    <2>2. PICK w : w = d.addr[msg[i].slot]
        OBVIOUS
    <2>3. w # NoId /\ (w = i \/ Beats(w, i))
        BY <1>0, <1>3, <2>1, <2>2 DEF Best
    <2>4. w \in Id /\ d.event[w] # "absent" /\ msg[w].slot = msg[i].slot
        BY <1>0, <2>1, <2>2, <2>3, DbType DEF Slots
    <2>5. w \in G /\ msg[w].kind = "replaceable"
        <3>1. w \in G
            BY <1>0, <2>4 DEF StoredSound
        <3>2. msg[i].slot # NoSlot
            BY <1>3, <2>1, MsgType
        <3>3. msg[w].kind \in {"relay", "replaceable"}
            BY <2>4, <3>2, MsgType
        <3>4. msg[w].kind # "relay"
            BY <1>0, <2>4, <3>3, PathUpward DEF StoredSound, R!Sound
        <3> QED BY <3>1, <3>3, <3>4
    <2>6. w = i
        BY <2>1, <2>3, <2>4, <2>5 DEF R!Outdated, R!Replaceable, R!Newer, Beats
    <2> QED BY <2>4, <2>6 DEF Stored
<1>4. ASSUME NEW i \in R!Held(G), msg[i].kind # "replaceable"
      PROVE  i \in Stored(d)
    <2>0. i \in G /\ i \in Id /\ R!Sound(i) /\ R!Path(i) \subseteq G
        BY <1>4 DEF R!Held, R!Replaceable
    <2> DEFINE T == R!Path(i) \ Stored(d)
    <2> SUFFICES ASSUME T # {} PROVE FALSE
        BY <2>0, PathUpward
    <2>1. T \in SUBSET Id
        BY <2>0
    <2>2. PICK j \in T : msg[j].reply \notin T
        BY <2>1 DEF Clean
    <2>3. j \in R!Path(i) /\ j \in G /\ j \in Id /\ d.event[j] = "absent"
        BY <2>0, <2>2 DEF Stored
    <2>4. R!Sound(j) /\ msg[j].kind \notin {"relay", "replaceable"}
        <3>1. R!Path(j) \subseteq R!Path(i)
            BY <2>0, <2>3, PathUpward, PathLeast
        <3>2. R!Sound(j)
            BY <2>0, <3>1 DEF R!Sound
        <3>3. msg[j].kind # "relay"
            BY <2>0, <2>3 DEF R!Sound
        <3>4. msg[j].kind # "replaceable"
            BY <1>4, <2>0, <2>3, PathKinds
        <3> QED BY <3>2, <3>3, <3>4
    <2>5. msg[j].reply # NoId
        BY <1>0, <2>3, <2>4 DEF Answered
    <2>6. d.parked[j] # Null
        BY <1>0, <2>3, <2>4, <2>5 DEF Answered
    <2>7. ~Present(d, msg[j].reply)
        BY <2>3, <2>6, InEmpty DEF Waiting
    <2>8. msg[j].reply \in R!Path(i)
        BY <2>0, <2>3, <2>5, PathUpward DEF R!Upward, R!None, NoId
    <2>9. msg[j].reply \in T
        BY <2>0, <2>7, <2>8 DEF Present, Stored
    <2> QED BY <2>2, <2>9
<1> QED BY <1>1, <1>2, <1>3, <1>4

\* The counters of a database that fits count what Replica counts.
LEMMA ShownCounts ==
    ASSUME NEW d \in Database, CountersExact(d), Placed(d), NEW m \in Id
    PROVE  /\ Cardinality(R!Kids(Stored(d) \ Struck(d), m)) = d.replies[m]
           /\ Cardinality(R!Thread(Stored(d) \ Struck(d), m)) = d.descendants[m]
<1>0. NoId \notin Id
    BY NoneIsNoId
<1>1. \A c \in Id : c \in Stored(d) \ Struck(d) <=> d.event[c] = "live"
    BY DbType DEF Stored, Struck
<1>2. \A c \in Id : d.event[c] = "live" =>
          IF msg[c].reply # NoId THEN d.parent[c] = msg[c].reply /\ d.root[c] = R!Root(c)
          ELSE d.parent[c] = NoId /\ d.root[c] = NoId
    BY DEF Placed
<1>3. R!Kids(Stored(d) \ Struck(d), m) = Children(d, m)
    <2>1. \A c \in Id : c \in R!Kids(Stored(d) \ Struck(d), m) <=> c \in Children(d, m)
        BY <1>0, <1>1, <1>2 DEF R!Kids, R!Replies, R!None, NoId, Children
    <2> QED BY <2>1 DEF R!Kids, R!Replies, Children, Stored
<1>4. R!Thread(Stored(d) \ Struck(d), m) = Descendants(d, m)
    <2>1. \A c \in Id : c \in R!Thread(Stored(d) \ Struck(d), m) <=> c \in Descendants(d, m)
        BY <1>0, <1>1, <1>2 DEF R!Thread, R!Replies, R!None, NoId, Descendants
    <2> QED BY <2>1 DEF R!Thread, R!Replies, Descendants, Stored
<1> QED BY <1>3, <1>4 DEF CountersExact

\* Where the mesh is the only door, the reply times are the newest ones.
LEMMA ShownLast ==
    ASSUME msg \in Universes, NEW d \in Database, LastOK(d), Placed(d), NEW m \in Id
    PROVE  R!Latest(R!Kids(Stored(d), m)) = d.last[m]
<1>0. NoId \notin Id
    BY NoneIsNoId
<1>1. PICK S : S = R!Kids(Stored(d), m)
    OBVIOUS
<1>2. S = {c \in Id : d.parent[c] = m}
    <2>1. \A c \in Id : c \in S <=> d.parent[c] = m
        BY <1>0, <1>1 DEF R!Kids, R!Replies, R!None, NoId, Placed, Stored
    <2> QED BY <1>1, <2>1 DEF R!Kids, R!Replies, Stored
<1>3. PICK l \in Nat : l = d.last[m]
    BY DbType
<1>4. \A c \in S : msg[c].at <= l
    BY <1>2, <1>3 DEF LastOK
<1>5. CASE l = Null
    <2>1. \A c \in S : msg[c].at \in Nat \ {0}
        BY <1>2, MsgType DEF Message
    <2>2. S = {}
        BY <1>4, <1>5, <2>1 DEF Null
    <2> QED BY <1>1, <1>3, <1>5, <2>2 DEF R!Latest, R!None, Null
<1>6. CASE l # Null
    <2>1. PICK k \in S : msg[k].at = l
        BY <1>2, <1>3, <1>6 DEF LastOK
    <2>2. \E t \in {msg[c].at : c \in S} : \A c \in S : msg[c].at <= t
        BY <1>4, <2>1
    <2>3. PICK t : t = CHOOSE a \in {msg[c].at : c \in S} : \A c \in S : msg[c].at <= a
        OBVIOUS
    <2>4. t \in {msg[c].at : c \in S} /\ \A c \in S : msg[c].at <= t
        BY <2>2, <2>3
    <2>5. t \in Nat /\ t <= l /\ l <= t
        BY <1>2, <1>4, <2>1, <2>4, MsgType DEF Message
    <2>6. t = l
        BY <2>5
    <2> QED BY <1>1, <1>3, <2>1, <2>3, <2>6 DEF R!Latest
<1> QED BY <1>5, <1>6

\* The address of a slot points at the one stored version.
LEMMA ShownAddr ==
    ASSUME msg \in Universes, NEW d, StoreInv(d), NEW G, Fits(d, G), NEW s \in Slot
    PROVE  d.addr[s] = IF R!Versions(Stored(d), s) = {} THEN R!None
                       ELSE CHOOSE i \in R!Versions(Stored(d), s) : TRUE
<1>0. d \in Database /\ Slots(d) /\ StoredSound(d, G) /\ s # NoSlot
    BY SlotAssumption DEF Fits, StoreInv, NoSlot
<1>1. PICK V : V = R!Versions(Stored(d), s)
    OBVIOUS
<1>2. \A i \in V : d.addr[s] = i
    <2>1. \A i \in V : i \in Id /\ d.event[i] # "absent" /\ msg[i].slot = s
        BY <1>1 DEF R!Versions, Stored
    <2> QED BY <1>0, <2>1 DEF Slots
<1>3. ASSUME d.addr[s] # NoId
      PROVE  d.addr[s] \in V
    <2>1. PICK w \in Id : w = d.addr[s]
        BY <1>0, <1>3, DbType
    <2>2. d.event[w] # "absent" /\ msg[w].slot = s
        BY <1>0, <1>3, <2>1 DEF Slots
    <2>3. msg[w].kind \in {"relay", "replaceable"}
        BY <1>0, <2>2, MsgType
    <2>4. msg[w].kind # "relay"
        BY <1>0, <2>2, <2>3, PathUpward DEF StoredSound, R!Sound
    <2> QED BY <1>1, <2>1, <2>2, <2>3, <2>4 DEF R!Versions, R!Replaceable, Stored
<1>4. CASE V = {}
    BY <1>1, <1>3, <1>4 DEF R!None, NoId
<1>5. CASE V # {}
    <2>1. PICK i : i = CHOOSE k \in V : TRUE
        OBVIOUS
    <2>2. i \in V
        BY <1>5, <2>1
    <2> QED BY <1>1, <1>2, <1>5, <2>1, <2>2
<1> QED BY <1>4, <1>5

\* What the store shows of the tables is what Replica says it must show.
LEMMA ShownView ==
    ASSUME msg \in Universes, Clean(msg), NEW d, StoreInv(d), Kept(d),
           NEW G \in SUBSET Id, Fits(d, G), Waiting(d, <<>>)
    PROVE  Shown(d) = R!View(G, Struck(d))
<1>0. /\ StoredSound(d, G) /\ Placed(d) /\ Answered(d, G) /\ CountersExact(d)
      /\ d \in Database /\ NoId \notin Id
    BY NoneIsNoId DEF Fits, StoreInv
<1> DEFINE H == Stored(d)
           K == Struck(d)
           V == R!Holding(H, K)
<1>1. R!Held(G) = H
    BY HeldStored
<1>2. \A i \in Id : i \in R!Replies(H) <=> d.event[i] # "absent" /\ msg[i].reply # NoId
    BY DEF R!Replies, R!None, NoId, Stored
<1>3. /\ d.event \in [Id -> {"absent", "live", "deleted"}] /\ d.rows \subseteq Id
      /\ d.parent \in [Id -> Id \cup {NoId}] /\ d.root \in [Id -> Id \cup {NoId}]
      /\ d.depth \in [Id -> Nat] /\ d.replies \in [Id -> Nat] /\ d.descendants \in [Id -> Nat]
      /\ d.last \in [Id -> Nat] /\ d.addr \in [Slot -> Id \cup {NoId}] /\ d.quarantine \subseteq Id
    BY <1>0, DbType
<1>4. V.event = d.event
    <2>1. V.event = [i \in Id |-> IF i \notin H THEN "absent" ELSE IF i \in K THEN "deleted" ELSE "live"]
        BY DEF R!Holding
    <2> HIDE DEF V
    <2>2. \A i \in Id : V.event[i] = d.event[i]
        BY <1>3, <2>1 DEF Stored, Struck
    <2> QED BY <1>3, <2>1, <2>2
<1>5. V.rows = d.rows
    <2>1. V.rows = {i \in Id : \E c \in R!Replies(H) : i \in {c, msg[c].reply, R!Root(c)}}
        BY DEF R!Holding
    <2>2. \A c : c \in R!Replies(H) => c \in Id
        BY DEF R!Replies, Stored
    <2> HIDE DEF V
    <2>3. \A i \in Id : i \in V.rows <=> i \in d.rows
        BY <1>0, <1>2, <2>1, <2>2 DEF Placed
    <2> QED BY <1>3, <2>1, <2>3
<1>6. V.parent = d.parent /\ V.root = d.root /\ V.depth = d.depth
    <2>1. /\ V.parent = [i \in Id |-> IF i \in R!Replies(H) THEN msg[i].reply ELSE R!None]
          /\ V.root = [i \in Id |-> IF i \in R!Replies(H) THEN R!Root(i) ELSE R!None]
          /\ V.depth = [i \in Id |-> IF i \in R!Replies(H) THEN R!Depth(i) ELSE 0]
        BY DEF R!Holding
    <2> HIDE DEF V
    <2> DEFINE S == R!Replies(H)
    <2> HIDE DEF S, H
    <2>2. ASSUME NEW i \in Id
          PROVE  V.parent[i] = d.parent[i] /\ V.root[i] = d.root[i] /\ V.depth[i] = d.depth[i]
        <3>1. /\ V.parent[i] = IF i \in S THEN msg[i].reply ELSE NoId
              /\ V.root[i] = IF i \in S THEN R!Root(i) ELSE NoId
              /\ V.depth[i] = IF i \in S THEN R!Depth(i) ELSE 0
            BY <2>1 DEF S, R!None, NoId
        <3>2. IF i \in S
              THEN d.parent[i] = msg[i].reply /\ d.root[i] = R!Root(i) /\ d.depth[i] = R!Depth(i)
              ELSE d.parent[i] = NoId /\ d.root[i] = NoId /\ d.depth[i] = 0
            BY <1>0, <1>2 DEF Placed, S
        <3> QED BY <3>1, <3>2
    <2>3. /\ V.parent = [i \in Id |-> V.parent[i]]
          /\ V.root = [i \in Id |-> V.root[i]]
          /\ V.depth = [i \in Id |-> V.depth[i]]
        BY <2>1
    <2> QED BY <1>3, <2>2, <2>3
<1>7. V.replies = d.replies /\ V.descendants = d.descendants
    <2>1. /\ V.replies = [m \in Id |-> R!Cardinality(R!Kids(H \ K, m))]
          /\ V.descendants = [m \in Id |-> R!Cardinality(R!Thread(H \ K, m))]
        BY DEF R!Holding
    <2>2. \A m \in Id : /\ R!Cardinality(R!Kids(H \ K, m)) = d.replies[m]
                        /\ R!Cardinality(R!Thread(H \ K, m)) = d.descendants[m]
        BY <1>0, ShownCounts, SameCardinality
    <2> HIDE DEF V, H, K
    <2> QED BY <1>3, <2>1, <2>2
<1>8. V.last = [m \in Id |-> IF "local" \in Doors THEN Null ELSE d.last[m]]
    <2>1. V.last = [m \in Id |-> IF "local" \in Doors THEN R!None ELSE R!Latest(R!Kids(H, m))]
        BY DEF R!Holding
    <2>2. "local" \notin Doors => LastOK(d)
        BY DoorAssumption DEF Kept
    <2>3. "local" \notin Doors => \A m \in Id : R!Latest(R!Kids(H, m)) = d.last[m]
        BY <1>0, <2>2, ShownLast
    <2> HIDE DEF V, H, K
    <2> QED BY <2>1, <2>3 DEF R!None, Null
<1>9. V.addr = d.addr
    <2>1. V.addr = [s \in Slot |-> IF R!Versions(H, s) = {} THEN R!None
                                   ELSE CHOOSE i \in R!Versions(H, s) : TRUE]
        BY DEF R!Holding
    <2>2. \A s \in Slot : d.addr[s] = IF R!Versions(H, s) = {} THEN R!None
                                      ELSE CHOOSE i \in R!Versions(H, s) : TRUE
        BY ShownAddr
    <2> HIDE DEF V, H, K
    <2> QED BY <1>3, <2>1, <2>2
<1>10. V = Shown(d).holding
    <2>1. V = [event |-> V.event, rows |-> V.rows, parent |-> V.parent, root |-> V.root,
               depth |-> V.depth, replies |-> V.replies, descendants |-> V.descendants,
               last |-> V.last, addr |-> V.addr]
        BY DEF R!Holding
    <2> HIDE DEF V
    <2> QED BY <1>4, <1>5, <1>6, <1>7, <1>8, <1>9, <2>1 DEF Shown
<1>11. R!Waits(G) = {i \in Id : d.parked[i] # Null}
    <2>1. ASSUME NEW i \in Id
          PROVE  i \in R!Waits(G) <=> d.parked[i] # Null
        <3>1. i \in R!Waits(G) <=> i \in G /\ msg[i].reply # NoId /\ msg[i].reply \notin H
            BY <1>1 DEF R!Waits, R!Replies, R!None, NoId
        <3>2. msg[i].reply # NoId => (msg[i].reply \in H <=> Present(d, msg[i].reply))
            BY CleanEvent DEF Stored, Present
        <3>3. d.parked[i] # Null => i \in G /\ msg[i].reply # NoId /\ ~Present(d, msg[i].reply)
            BY <1>0, InEmpty DEF Answered, Waiting, IsReply
        <3>4. i \in G /\ msg[i].reply # NoId /\ ~Present(d, msg[i].reply) => d.parked[i] # Null
            <4>1. d.event[i] # "absent" /\ msg[i].reply # NoId => Present(d, msg[i].reply)
                BY <1>0, CleanEvent DEF StoredSound
            <4> QED BY <1>0, <4>1 DEF Answered
        <3> QED BY <3>1, <3>2, <3>3, <3>4
    <2>2. R!Waits(G) \subseteq Id
        BY DEF R!Waits, R!Replies
    <2> QED BY <2>1, <2>2
<1>12. R!Refused(G) = d.quarantine
    <2>1. ASSUME NEW i \in Id
          PROVE  i \in R!Refused(G) <=> i \in d.quarantine
        <3>1. i \in R!Refused(G) <=> /\ i \in G
                                     /\ \/ msg[i].kind = "relay"
                                        \/ msg[i].reply # NoId /\ msg[i].reply \in H /\ i \notin H
            BY <1>1 DEF R!Refused, R!Replies, R!None, NoId
        <3>2. msg[i].reply # NoId => (msg[i].reply \in H <=> Present(d, msg[i].reply))
            BY CleanEvent DEF Stored, Present
        <3>3. i \in H <=> d.event[i] # "absent"
            BY DEF Stored
        <3>4. Present(d, msg[i].reply) => d.parked[i] = Null
            BY InEmpty DEF Waiting
        <3> QED BY <1>0, <3>1, <3>2, <3>3, <3>4 DEF Answered
    <2>2. R!Refused(G) \subseteq Id
        BY DEF R!Refused, R!Replies
    <2> QED BY <1>3, <2>1, <2>2
<1> HIDE DEF V
<1>13. R!View(G, K) = [holding |-> V, waiting |-> {i \in Id : d.parked[i] # Null},
                       refused |-> d.quarantine]
    BY <1>1, <1>11, <1>12 DEF R!View, V
<1> QED BY <1>10, <1>13 DEF Shown

----------------------------------------------------------------------------
(* The steps, for what was delivered and struck.                           *)

\* The events of the network never change, and so neither do their places.
LEMMA PlaceFrame ==
    ASSUME msg' = msg, NEW i
    PROVE  R!Sound(i)' = R!Sound(i) /\ R!Root(i)' = R!Root(i) /\ R!Depth(i)' = R!Depth(i)
<1>1. \A j : R!Path(j)' = R!Path(j)
    BY DEF R!Path, R!Upward
<1>2. \A j : R!Tops(j)' = R!Tops(j)
    BY <1>1 DEF R!Tops
<1>3. \A j : R!Root(j)' = R!Root(j)
    BY <1>2 DEF R!Root
<1>4. \A j : R!Depth(j)' = R!Depth(j)
    BY <1>1 DEF R!Depth
<1>5. \A j : R!Agrees(j)' <=> R!Agrees(j)
    BY <1>3, <1>4 DEF R!Agrees
<1>6. R!Sound(i)' = R!Sound(i)
    BY <1>1, <1>5 DEF R!Sound
<1> QED BY <1>3, <1>4, <1>6

\* A database that fits still does when it is the next state's.
LEMMA FitsFrame ==
    ASSUME msg' = msg, NEW d, NEW G, Fits(d, G)
    PROVE  /\ db' = d /\ got' = G => Fits(db, got)'
           /\ work' = d /\ Grown' = G => Fits(work, Grown)'
<1>0. StoredSound(d, G) /\ Placed(d) /\ Answered(d, G) /\ Best(d, G)
    BY DEF Fits
<1>1. ASSUME db' = d, got' = G
      PROVE  Fits(db, got)'
    <2>1. StoredSound(db, got)'
        BY <1>0, <1>1, PlaceFrame DEF StoredSound, Present
    <2>2. Placed(db)'
        BY <1>0, <1>1, PlaceFrame DEF Placed
    <2>3. Answered(db, got)'
        BY <1>0, <1>1, PlaceFrame DEF Answered, Present
    <2>4. Best(db, got)'
        BY <1>0, <1>1 DEF Best, Beats
    <2> QED BY <2>1, <2>2, <2>3, <2>4 DEF Fits
<1>2. ASSUME work' = d, Grown' = G
      PROVE  Fits(work, Grown)'
    <2>1. StoredSound(work, Grown)'
        BY <1>0, <1>2, PlaceFrame DEF StoredSound, Present
    <2>2. Placed(work)'
        BY <1>0, <1>2, PlaceFrame DEF Placed
    <2>3. Answered(work, Grown)'
        BY <1>0, <1>2, PlaceFrame DEF Answered, Present
    <2>4. Best(work, Grown)'
        BY <1>0, <1>2 DEF Best, Beats
    <2> QED BY <2>1, <2>2, <2>3, <2>4 DEF Fits
<1> QED BY <1>1, <1>2

\* The invariant of the next state from its parts.
LEMMA CFrame ==
    ASSUME msg' = msg, Clean(msg), IInv', JInv', NEW d, NEW w, NEW G, NEW F, NEW e, NEW ts,
           db' = d, work' = w, got' = G, G \subseteq Id, Fits(d, G), tx'.id = e, tx'.targets = ts,
           tx'.status = "open" => /\ Fits(w, F) /\ Striking(d, w, e, ts)
                                  /\ tx'.out = "rejected" => w = d /\ ts = <<>>
                                  /\ F = IF tx'.out = "rejected" THEN G ELSE G \cup {e}
    PROVE  CInv'
<1>1. Clean(msg)' /\ Fits(db, got)'
    BY FitsFrame DEF Clean
<1>2. ASSUME Busy'
      PROVE  /\ Fits(work, Grown)'
             /\ Striking(db, work, tx.id, tx.targets)'
             /\ tx'.out = "rejected" => work' = db' /\ tx'.targets = <<>>
    <2>1. tx'.status = "open"
        BY <1>2 DEF Busy
    <2>2. Grown' = F
        BY <2>1 DEF Grown
    <2>3. Striking(db, work, tx.id, tx.targets)'
        BY <2>1 DEF Striking, Hit, Aimed, Present, In
    <2> QED BY <2>1, <2>2, <2>3, FitsFrame
<1> QED BY <1>1, <1>2 DEF CInv

\* A transaction begins.
LEMMA CBegin ==
    ASSUME CInv, IInv', JInv', NEW e, NEW door, NEW out, NEW n, NEW targets, NEW stack, NEW emits,
           Begin(e, door, out, n, targets, stack, emits), got' = got,
           Fits(n, IF out = "rejected" THEN got ELSE got \cup {e}),
           Striking(db, n, e, targets), out = "rejected" => n = db /\ targets = <<>>
    PROVE  CInv'
<1>1. /\ tx'.status = "open" /\ tx'.id = e /\ tx'.out = out /\ tx'.targets = targets
      /\ work' = n /\ db' = db /\ msg' = msg
    BY DEF Begin
<1>2. Clean(msg) /\ Fits(db, got) /\ got \subseteq Id
    BY DEF CInv
<1>3. PICK F : F = IF out = "rejected" THEN got ELSE got \cup {e}
    OBVIOUS
<1> QED BY <1>1, <1>2, <1>3, CFrame

\* A transaction ends without a trace, or the store is left alone.
LEMMA CQuiet ==
    ASSUME CInv, IInv', JInv', msg' = msg, db' = db, got' = got, tx'.status = "closed"
    PROVE  CInv'
<1>1. Clean(msg) /\ Fits(db, got) /\ got \subseteq Id
    BY DEF CInv
<1> QED BY <1>1, CFrame

\* A transaction goes on.
LEMMA CInside ==
    ASSUME CInv, IInv', JInv', Busy, NEW n, work' = n, msg' = msg, db' = db, got' = got, NEW ts,
           tx'.id = tx.id, tx'.out = tx.out, tx'.targets = ts, tx'.status = "open",
           Fits(n, Grown), Striking(db, n, tx.id, ts), tx.out # "rejected"
    PROVE  CInv'
<1>1. Clean(msg) /\ Fits(db, got) /\ got \subseteq Id
    BY DEF CInv
<1>2. PICK F : F = Grown
    OBVIOUS
<1>3. F = IF tx.out = "rejected" THEN got ELSE got \cup {tx.id}
    BY <1>2 DEF Grown
<1> QED BY <1>1, <1>2, <1>3, CFrame

\* A transaction that is not that of a new deletion strikes nothing.
LEMMA StrikesNothing ==
    ASSUME NEW d, NEW n, NEW e, msg[e].kind # "deletion" \/ Present(d, e),
           \A i \in Id : /\ n.event[i] = "deleted" => d.event[i] = "deleted"
                         /\ d.event[i] = "deleted" => n.event[i] \in {"deleted", "absent"}
                         /\ d.event[i] # "absent" /\ msg[i].slot = NoSlot => n.event[i] # "absent"
    PROVE  Striking(d, n, e, <<>>)
BY InEmpty DEF Striking, Hit, Aimed, Present

\* insert_reply gives a reply the place its markers say.
LEMMA ReplyAttached ==
    ASSUME msg \in Universes, now \in Nat, Clean(msg), NEW d, StoreInv(d), NEW G, StoredSound(d, G), Placed(d),
           NEW e \in Id, IsReply(e), ResolveReply(d, e) = "ok", StubsPresent(d, e), NEW door,
           NEW u, Aside(d, u), u.quarantine = d.quarantine,
           \A i \in Id : i # e => u.parked[i] = d.parked[i],
           NEW n, n = InsertReply(u, e, ResolvedReply(d, e), door)
    PROVE  /\ Attached(d, n, e) /\ R!Sound(e)
           /\ msg[e].reply \in Id /\ Present(d, msg[e].reply)
<1>0. Present(d, msg[e].reply)
    BY DEF ResolveReply
<1>1. PICK p \in Id : p = msg[e].reply /\ Present(d, p)
    BY <1>0 DEF Present
<1>2. R!Sound(e) /\ EffectiveRoot(d, p) = R!Root(e) /\ ReplyDepth(d, p) = R!Depth(e)
    BY <1>1, Resolves
<1>3. PICK rr \in [parent : Id, root : Id, depth : Nat] : rr = ResolvedReply(d, e)
    BY ReplyChecked
<1>4. rr.parent = p /\ rr.root = R!Root(e) /\ rr.depth = R!Depth(e)
    BY <1>1, <1>2, <1>3 DEF ResolvedReply
<1>5. d \in Database /\ u \in Database /\ n = InsertReply(u, e, rr, door)
    BY <1>3 DEF StoreInv, Aside
<1>6. ReplyWritten(u, n, e, rr) /\ n.quarantine = u.quarantine
    BY <1>5, InsertReplyEffect, QuarantineColumn
<1>7. /\ n.event = [d.event EXCEPT ![e] = "live"]
      /\ n.rows = d.rows \cup {e, p, R!Root(e)}
      /\ n.parent = [d.parent EXCEPT ![e] = p]
      /\ n.root = [d.root EXCEPT ![e] = R!Root(e)]
      /\ n.depth = [d.depth EXCEPT ![e] = R!Depth(e)]
      /\ n.parked = u.parked /\ n.addr = d.addr /\ n.quarantine = d.quarantine
    BY <1>4, <1>6 DEF ReplyWritten, Aside
<1>8. Attached(d, n, e)
    BY <1>1, <1>5, <1>7, DbType DEF Attached
<1> QED BY <1>1, <1>2, <1>8

\* An event comes by a door.
LEMMA CReceive ==
    ASSUME CInv, IInv', JInv', NEW e \in Id, NEW door \in Doors, Receive(e, door)
    PROVE  CInv'
<1>0. /\ msg \in Universes /\ now \in Nat /\ now # 0 /\ Clean(msg) /\ StoreInv(db) /\ db \in Database
      /\ Waiting(db, <<>>) /\ got \in SUBSET Id /\ got' = got /\ Ingest(e, door)
      /\ Fits(db, got) /\ StoredSound(db, got) /\ Placed(db)
    BY DEF CInv, IInv, StoreInv, Receive, Fits
<1>1. \A c \in Id : db.parked[c] # Null =>
          IsReply(c) /\ db.event[c] = "absent" /\ ~Present(db, msg[c].reply)
    BY <1>0, InEmpty DEF Waiting
<1>2. Present(db, e) <=> db.event[e] # "absent"
    BY DEF Present
<1>3. msg[e].kind # "deletion" \/ Present(db, e) => Striking(db, db, e, <<>>)
    BY StrikesNothing
<1>4. CASE IngestDuplicate(e, door)
    <2>1. Begin(e, door, "duplicate", db, <<>>, <<>>, {}) /\ Present(db, e)
        BY <1>4 DEF IngestDuplicate
    <2>2. got \cup {e} = got
        BY <1>0, <1>2, <2>1 DEF StoredSound
    <2> QED BY <1>0, <1>3, <2>1, <2>2, CBegin
<1>5. ASSUME msg[e].kind # "deletion",
             \/ msg[e].kind = "relay"
             \/ msg[e].reply # NoId /\ Present(db, msg[e].reply) /\ ~R!Sound(e)
      PROVE  Fits(Quarantine(db, e), got \cup {e}) /\ Striking(db, Quarantine(db, e), e, <<>>)
    <2>1. PICK n : n = Quarantine(db, e)
        OBVIOUS
    <2>2. Aside(db, n) /\ n.parked = db.parked /\ n.quarantine = db.quarantine \cup {e}
        BY <1>0, <2>1, AsideEffect, QuarantineColumn
    <2>3. db.parked[e] = Null
        BY <1>1, <1>5 DEF IsReply
    <2>4. \A i \in Id : n.parked[i] = IF i = e THEN Null ELSE db.parked[i]
        BY <2>2, <2>3
    <2>5. Fits(n, got \cup {e})
        BY <1>0, <1>5, <2>2, <2>4, FitsRefuse
    <2>6. Striking(db, n, e, <<>>)
        BY <1>5, <2>2, StrikesNothing DEF Aside
    <2> QED BY <2>1, <2>5, <2>6
<1>6. CASE IngestRelayAuthored(e, door)
    <2>1. msg[e].kind = "relay"
        BY <1>6 DEF IngestRelayAuthored
    <2>2. CASE Begin(e, door, "rejected", db, <<>>, <<>>, {})
        BY <1>0, <1>3, <2>1, <2>2, CBegin
    <2>3. CASE Begin(e, door, "quarantined", Quarantine(db, e), <<>>, <<>>, {})
        BY <1>0, <1>5, <2>1, <2>3, CBegin
    <2> QED BY <1>6, <2>2, <2>3 DEF IngestRelayAuthored
<1>7. ASSUME ~Present(db, e), msg[e].reply = NoId, msg[e].kind \notin {"relay", "replaceable"}
      PROVE  /\ Fits(InsertEvent(db, e), got \cup {e})
             /\ \A i \in Id : InsertEvent(db, e).event[i] = IF i = e THEN "live" ELSE db.event[i]
    <2>1. PICK n : n = InsertEvent(db, e)
        OBVIOUS
    <2>2. /\ n.event = [db.event EXCEPT ![e] = "live"]
          /\ n.rows = db.rows /\ n.parent = db.parent /\ n.root = db.root /\ n.depth = db.depth
          /\ n.parked = db.parked /\ n.addr = db.addr /\ n.quarantine = db.quarantine
        BY <1>0, <2>1, InsertEventEffect, QuarantineColumn
    <2>3. \A i \in Id : n.event[i] = IF i = e THEN "live" ELSE db.event[i]
        BY <1>0, <2>2, DbType
    <2>4. Fits(n, got \cup {e})
        BY <1>0, <1>2, <1>7, <2>2, <2>3, FitsInsert
    <2> QED BY <2>1, <2>3, <2>4
<1>8. CASE IngestDeletion(e, door)
    <2>1. /\ msg[e].kind = "deletion" /\ ~Present(db, e) /\ msg[e].reply = NoId
          /\ Begin(e, door, "accepted", InsertEvent(db, e), msg[e].targets, <<e>>, {})
        BY <1>0, <1>8, CleanEvent DEF IngestDeletion
    <2>2. PICK n : n = InsertEvent(db, e)
        OBVIOUS
    <2>3. Fits(n, got \cup {e}) /\ \A i \in Id : n.event[i] = IF i = e THEN "live" ELSE db.event[i]
        BY <1>7, <2>1, <2>2
    <2>4. Striking(db, n, e, msg[e].targets)
        BY <2>1, <2>3 DEF Striking, Hit, Aimed, Present
    <2>5. Begin(e, door, "accepted", n, msg[e].targets, <<e>>, {})
        BY <2>1, <2>2
    <2> QED BY <1>0, <2>3, <2>4, <2>5, CBegin
<1>9. CASE IngestPlain(e, door)
    <2>1. /\ msg[e].kind \in {"reaction", "opaque", "thread"} /\ ~Present(db, e) /\ msg[e].reply = NoId
          /\ Begin(e, door, "accepted", InsertEvent(db, e), <<>>, <<e>>, {})
        BY <1>0, <1>9, CleanEvent DEF IngestPlain, IsReply
    <2>2. PICK n : n = InsertEvent(db, e)
        OBVIOUS
    <2>3. Fits(n, got \cup {e}) /\ \A i \in Id : n.event[i] = IF i = e THEN "live" ELSE db.event[i]
        BY <1>7, <2>1, <2>2
    <2>4. Striking(db, n, e, <<>>)
        BY <1>2, <2>1, <2>3, StrikesNothing
    <2>5. Begin(e, door, "accepted", n, <<>>, <<e>>, {})
        BY <2>1, <2>2
    <2> QED BY <1>0, <2>3, <2>4, <2>5, CBegin
<1>10. CASE IngestReplaceable(e, door)
    <2>1. msg[e].kind = "replaceable" /\ ~Present(db, e) /\ msg[e].slot \in Slot
        BY <1>0, <1>10, MsgType DEF IngestReplaceable, Message
    <2>2. CASE Stale(db, e)
        <3>1. Begin(e, door, "stale", db, <<>>, <<>>, {})
            BY <1>10, <2>2 DEF IngestReplaceable
        <3>2. Fits(db, got \cup {e})
            BY <1>0, <2>1, <2>2, FitsStale
        <3> QED BY <1>0, <1>3, <2>1, <3>1, <3>2, CBegin
    <2>3. CASE ~Stale(db, e)
        <3>1. PICK n : n = Supersede(db, e)
            OBVIOUS
        <3>2. Begin(e, door, "accepted", n, <<>>, <<e>>, {})
            BY <1>10, <2>3, <3>1 DEF IngestReplaceable
        <3>3. Fits(n, got \cup {e})
            BY <1>0, <1>2, <2>1, <2>3, <3>1, FitsWinner
        <3>4. WinnerWritten(db, n, e)
            BY <1>0, <2>1, <3>1, SupersedeEffect
        <3>5. \A i \in Id : n.event[i] \in {db.event[i], "absent"} \/ (i = e /\ n.event[i] = "live")
            BY <3>4 DEF WinnerWritten
        <3>6. \A i \in Id : db.event[i] # "absent" /\ msg[i].slot = NoSlot => n.event[i] # "absent"
            <4>1. \A i \in Id : i = db.addr[msg[e].slot] => msg[i].slot = msg[e].slot
                BY <1>0, <2>1, NoneIsNoId DEF StoreInv, Slots
            <4>2. msg[e].slot # NoSlot
                BY <1>0, <2>1, MsgType
            <4> QED BY <3>4, <4>1, <4>2 DEF WinnerWritten
        <3>7. Striking(db, n, e, <<>>)
            BY <1>2, <2>1, <3>5, <3>6, StrikesNothing
        <3> QED BY <1>0, <3>2, <3>3, <3>7, CBegin
    <2> QED BY <2>2, <2>3
<1>11. CASE IngestOrphan(e, door)
    <2>1. /\ msg[e].kind = "thread" /\ msg[e].reply # NoId /\ ~Present(db, e) /\ ~Present(db, msg[e].reply)
        BY <1>11 DEF IngestOrphan, IsReply, ResolveReply
    <2>2. CASE Begin(e, door, "rejected", db, <<>>, <<>>, {})
        BY <1>0, <1>3, <2>1, <2>2, CBegin
    <2>3. CASE Begin(e, door, "parked", Park(db, e), <<>>, <<>>, {})
        <3>1. PICK n : n = Park(db, e)
            OBVIOUS
        <3>2. Aside(db, n) /\ n.parked = [db.parked EXCEPT ![e] = now] /\ n.quarantine = db.quarantine
            BY <1>0, <3>1, AsideEffect, QuarantineColumn
        <3>3. \A i \in Id : IF i = e THEN n.parked[i] # Null ELSE n.parked[i] = db.parked[i]
            BY <1>0, <3>2, DbType DEF Null
        <3>4. Fits(n, got \cup {e})
            BY <1>0, <1>2, <2>1, <3>2, <3>3, FitsPark
        <3>5. Striking(db, n, e, <<>>)
            BY <2>1, <3>2, StrikesNothing DEF Aside
        <3>6. Begin(e, door, "parked", n, <<>>, <<>>, {})
            BY <2>3, <3>1
        <3> QED BY <1>0, <3>4, <3>5, <3>6, CBegin
    <2> QED BY <1>11, <2>2, <2>3 DEF IngestOrphan
<1>12. CASE IngestMismatch(e, door)
    <2>1. /\ msg[e].kind = "thread" /\ msg[e].reply # NoId /\ ResolveReply(db, e) = "mismatch"
        BY <1>12 DEF IngestMismatch, IsReply
    <2>2. Present(db, msg[e].reply) /\ ~R!Sound(e)
        <3>1. Present(db, msg[e].reply)
            BY <2>1 DEF ResolveReply
        <3>2. PICK p \in Id : p = msg[e].reply
            BY <3>1 DEF Present
        <3> QED BY <1>0, <2>1, <3>1, <3>2, Resolves
    <2>3. CASE Begin(e, door, "rejected", db, <<>>, <<>>, {})
        BY <1>0, <1>3, <2>1, <2>3, CBegin
    <2>4. CASE Begin(e, door, "quarantined", Quarantine(db, e), <<>>, <<>>, {})
        BY <1>0, <1>5, <2>1, <2>2, <2>4, CBegin
    <2> QED BY <1>12, <2>3, <2>4 DEF IngestMismatch
<1>13. CASE IngestReply(e, door)
    <2>1. ~Present(db, e) /\ IsReply(e) /\ ResolveReply(db, e) = "ok" /\ StubsPresent(db, e)
        BY <1>13 DEF IngestReply
    <2>2. PICK n : n = InsertReply(db, e, ResolvedReply(db, e), door)
        OBVIOUS
    <2>3. PICK f : f = {EffectiveRoot(db, msg[e].reply)} /\ Begin(e, door, "accepted", n, <<>>, <<e>>, f)
        BY <1>13, <2>2 DEF IngestReply
    <2>4. Aside(db, db)
        BY <1>0 DEF Aside
    <2>5. /\ Attached(db, n, e) /\ R!Sound(e)
          /\ msg[e].reply \in Id /\ Present(db, msg[e].reply)
        BY <1>0, <2>1, <2>2, <2>4, ReplyAttached
    <2>6. Fits(n, got \cup {e})
        BY <1>0, <1>2, <2>1, <2>5, FitsReply
    <2>7. msg[e].kind # "deletion"
        BY <2>1 DEF IsReply
    <2>8. Striking(db, n, e, <<>>)
        BY <1>2, <2>1, <2>5, <2>7, StrikesNothing DEF Attached
    <2>9. Fits(n, IF "accepted" = "rejected" THEN got ELSE got \cup {e})
        BY <2>6
    <2>10. Begin(e, door, "accepted", n, <<>>, <<e>>, f)
        BY <2>3
    <2> QED BY <1>0, <2>8, <2>9, <2>10, CBegin, Zenon
<1>14. CASE IngestStubMissing(e, door)
    BY <1>0, <1>14, CQuiet DEF IngestStubMissing, Closed
<1> QED BY <1>0, <1>4, <1>6, <1>8, <1>9, <1>10, <1>11, <1>12, <1>13, <1>14, Zenon DEF Ingest

\* What the rest of a list holds, the list holds.
LEMMA InTail ==
    ASSUME NEW s \in Seq(Id), s # <<>>, NEW i
    PROVE  In(s, i) <=> i = Head(s) \/ In(Tail(s), i)
<1>1. ASSUME In(Tail(s), i)
      PROVE  In(s, i)
    <2>1. PICK k \in 1..Len(Tail(s)) : Tail(s)[k] = i
        BY <1>1 DEF In
    <2>2. k + 1 \in 1..Len(s) /\ s[k + 1] = i
        BY <2>1
    <2> QED BY <2>2 DEF In
<1>2. In(s, Head(s))
    <2>1. 1 \in 1..Len(s) /\ s[1] = Head(s)
        OBVIOUS
    <2> QED BY <2>1 DEF In
<1> QED BY <1>1, <1>2, InPop

\* A turn of the loop over a deletion's targets strikes the target.
LEMMA CDeleteTarget ==
    ASSUME CInv, IInv', JInv', DeleteTarget, got' = got
    PROVE  CInv'
<1>0. /\ msg \in Universes /\ work \in Database /\ tx \in Transaction /\ Busy
      /\ Fits(work, Grown) /\ Striking(db, work, tx.id, tx.targets)
      /\ tx.out = "rejected" => tx.targets = <<>>
      /\ tx.targets \in Seq(Id) /\ tx.targets # <<>>
      /\ UNCHANGED <<msg, db>>
    BY DEF CInv, IInv, StoreInv, TxInv, DeleteTarget, Transaction
<1>1. PICK t, ts, n : t = Head(tx.targets) /\ ts = Tail(tx.targets) /\ n = SoftDelete(work, t)
    OBVIOUS
<1>2. t \in Id /\ work' = n /\ tx'.targets = ts /\ tx'.id = tx.id /\ tx'.out = tx.out /\ tx'.status = "open"
    BY <1>0, <1>1, TargetsType DEF DeleteTarget, Transaction, Busy
<1>3. /\ \A i \in Id : n.event[i] = IF i = t /\ work.event[t] = "live" THEN "deleted" ELSE work.event[i]
      /\ n.rows = work.rows /\ n.parent = work.parent /\ n.root = work.root /\ n.depth = work.depth
      /\ n.parked = work.parked /\ n.addr = work.addr /\ n.quarantine = work.quarantine
    <2>0. n.quarantine = work.quarantine
        BY <1>0, <1>1, <1>2, QuarantineColumn
    <2>1. CASE work.event[t] = "live"
        <3>1. /\ n.event = [work.event EXCEPT ![t] = "deleted"]
              /\ n.rows = work.rows /\ n.parent = work.parent /\ n.root = work.root /\ n.depth = work.depth
              /\ n.parked = work.parked /\ n.addr = work.addr
            BY <1>0, <1>1, <1>2, <2>1, SoftDeleteEffect
        <3> QED BY <1>0, <2>0, <2>1, <3>1, DbType
    <2>2. CASE work.event[t] # "live"
        BY <1>1, <2>2 DEF SoftDelete
    <2> QED BY <2>1, <2>2
<1>4. \A i \in Id : n.event[i] = "absent" <=> work.event[i] = "absent"
    BY <1>3
<1>5. Fits(n, Grown)
    BY <1>0, <1>3, <1>4, FitsStruck
<1>6. \A i \in Id : In(tx.targets, i) <=> i = t \/ In(ts, i)
    BY <1>0, <1>1, InTail
<1>7. Striking(db, n, tx.id, ts)
    <2>1. \A i \in Id : Present(n, i) <=> Present(work, i)
        BY <1>4 DEF Present
    <2>2. \A i \in Id : Present(work, i) <=> Present(db, i) \/ i = tx.id
        BY <1>0 DEF Striking
    <2>3. work.event[t] = "live" => Hit(db, tx.id, t)
        BY <1>0, <1>2, <1>6, <2>2 DEF Striking, Hit, Present
    <2>4. \A i \in Id : n.event[i] = "deleted" => db.event[i] = "deleted" \/ Hit(db, tx.id, i)
        BY <1>0, <1>3, <2>3 DEF Striking
    <2>5. \A i \in Id : db.event[i] = "deleted" /\ Present(n, i) => n.event[i] = "deleted"
        BY <1>0, <1>3, <2>1 DEF Striking
    <2>6. ASSUME NEW i \in Id, Hit(db, tx.id, i), Present(n, i)
          PROVE  n.event[i] = "deleted" \/ In(ts, i)
        <3>1. work.event[i] = "deleted" \/ In(tx.targets, i)
            BY <1>0, <2>1, <2>6 DEF Striking
        <3>2. work.event[i] \in {"live", "deleted"}
            BY <1>0, <2>1, <2>6, DbType DEF Present
        <3> QED BY <1>3, <1>6, <3>1, <3>2
    <2>7. \A i \in Id : In(ts, i) => Aimed(db, tx.id, i)
        BY <1>0, <1>6 DEF Striking
    <2>8. \A i \in Id : Present(db, i) /\ msg[i].slot = NoSlot => Present(n, i)
        BY <1>0, <2>1 DEF Striking
    <2> QED BY <2>1, <2>2, <2>4, <2>5, <2>6, <2>7, <2>8 DEF Striking
<1> QED BY <1>0, <1>2, <1>5, <1>7, CInside

\* Storing a drained orphan strikes nothing and spares nothing.
LEMMA StrikingOn ==
    ASSUME NEW d, NEW w, NEW e, Striking(d, w, e, <<>>),
           NEW n, NEW c \in Id, ~Present(w, c), msg[c].slot = NoSlot, c # e,
           \A i \in Id : n.event[i] = w.event[i] \/ (i = c /\ n.event[i] = "live")
    PROVE  Striking(d, n, e, <<>>)
<1>1. ~Present(d, c)
    BY DEF Striking
<1> QED BY <1>1, InEmpty DEF Striking, Hit, Aimed, Present

\* One orphan is drained: attached, quarantined or parked again.
LEMMA CDrainOrphan ==
    ASSUME CInv, IInv', JInv', DrainOrphan, got' = got
    PROVE  CInv'
<1>0. /\ msg \in Universes /\ now \in Nat /\ now # 0 /\ Clean(msg)
      /\ StoreInv(work) /\ work \in Database /\ tx \in Transaction /\ Busy
      /\ Fits(work, Grown) /\ StoredSound(work, Grown) /\ Placed(work) /\ Answered(work, Grown)
      /\ Striking(db, work, tx.id, <<>>) /\ Waiting(work, tx.stack)
      /\ tx.targets = <<>> /\ tx.stack # <<>> /\ tx.stack \in Seq(Id)
      /\ tx.out = "accepted" /\ tx.id \in Id /\ Present(work, tx.id)
      /\ UNCHANGED <<msg, now, db>>
    BY DEF CInv, IInv, JInv, AnswerOK, StoreInv, TxInv, DrainOrphan, Draining, Fits, Transaction
<1>1. PICK c \in Orphans(work, Head(tx.stack)) :
        /\ Attaches(work, c) => StubsPresent(work, c)
        /\ work' = Attach(work, c)
        /\ tx' = [tx EXCEPT !.stack = DrainStack(work, c, @),
                            !.emits = @ \cup DrainEmits(work, c)]
    BY DEF DrainOrphan
<1>2. /\ tx'.targets = <<>> /\ tx'.id = tx.id /\ tx'.out = tx.out /\ tx'.status = "open"
    BY <1>0, <1>1 DEF Transaction, Busy
<1>3. c \in Id /\ work.parked[c] # Null
    BY <1>1 DEF Orphans
<1>4. /\ IsReply(c) /\ ~Present(work, c) /\ work.event[c] = "absent" /\ c # tx.id
      /\ msg[c].kind = "thread" /\ msg[c].reply # NoId /\ msg[c].slot = NoSlot
    BY <1>0, <1>3, MsgType DEF Waiting, Present, IsReply
<1>5. PICK F \in SUBSET Id : F = Grown /\ Fits(work, F) /\ c \in F /\ F \cup {c} = F
    BY <1>0, <1>3 DEF CInv, Grown, Answered
<1>6. ResolveReply(work, c) \in {"ok", "mismatch", "missing"}
    BY DEF ResolveReply
<1>7. PICK u : u = Unpark(work, c)
    OBVIOUS
<1>8. /\ Aside(work, u) /\ u.quarantine = work.quarantine
      /\ \A i \in Id : u.parked[i] = IF i = c THEN Null ELSE work.parked[i]
    <2>1. Aside(work, u) /\ u.parked = [work.parked EXCEPT ![c] = Null] /\ u.quarantine = work.quarantine
        BY <1>0, <1>3, <1>7, AsideEffect, QuarantineColumn
    <2> QED BY <1>0, <1>3, <2>1, DbType
<1>9. PICK n : n = work'
    OBVIOUS
<1>10. ASSUME Fits(n, F \cup {c}),
              \A i \in Id : n.event[i] = work.event[i] \/ (i = c /\ n.event[i] = "live")
       PROVE  CInv'
    <2>1. Striking(db, n, tx.id, <<>>)
        BY <1>0, <1>3, <1>4, <1>10, StrikingOn
    <2>2. Fits(n, Grown) /\ tx.out # "rejected"
        BY <1>0, <1>5, <1>10
    <2> QED BY <1>0, <1>2, <1>9, <2>1, <2>2, CInside
<1>11. CASE ResolveReply(work, c) = "ok"
    <2>1. Attaches(work, c) /\ StubsPresent(work, c)
        BY <1>1, <1>4, <1>11 DEF Attaches
    <2>2. n = InsertReply(u, c, ResolvedReply(work, c), "mesh")
        BY <1>1, <1>4, <1>7, <1>9, <1>11 DEF Attach
    <2>3. /\ Attached(work, n, c) /\ R!Sound(c)
          /\ msg[c].reply \in Id /\ Present(work, msg[c].reply)
        BY <1>0, <1>3, <1>4, <1>8, <1>11, <2>1, <2>2, ReplyAttached
    <2>4. Fits(n, F \cup {c})
        BY <1>0, <1>3, <1>4, <1>5, <2>3, FitsReply
    <2> QED BY <1>10, <2>3, <2>4 DEF Attached
<1>12. CASE ResolveReply(work, c) = "mismatch"
    <2>1. Present(work, msg[c].reply)
        BY <1>12 DEF ResolveReply
    <2>2. PICK p \in Id : p = msg[c].reply
        BY <2>1 DEF Present
    <2>3. ~R!Sound(c)
        BY <1>0, <1>3, <1>12, <2>1, <2>2, Resolves
    <2>4. n = Quarantine(u, c)
        BY <1>1, <1>4, <1>7, <1>9, <1>12 DEF Attach
    <2>5. Aside(u, n) /\ n.parked = u.parked /\ n.quarantine = u.quarantine \cup {c}
        <3>1. u \in Database /\ c \in Id /\ now \in Nat
            BY <1>0, <1>3, <1>8 DEF Aside
        <3>2. Aside(u, Quarantine(u, c)) /\ Quarantine(u, c).parked = u.parked
            BY <3>1, AsideEffect
        <3>3. Quarantine(u, c).quarantine = u.quarantine \cup {c}
            BY <3>1, QuarantineColumn
        <3> QED BY <2>4, <3>2, <3>3, Zenon
    <2>6. /\ Aside(work, n) /\ n.quarantine = work.quarantine \cup {c}
          /\ \A i \in Id : n.parked[i] = IF i = c THEN Null ELSE work.parked[i]
        BY <1>8, <2>5 DEF Aside
    <2>7. Fits(n, F \cup {c})
        BY <1>0, <1>3, <1>4, <1>5, <2>1, <2>3, <2>6, FitsRefuse
    <2> QED BY <1>10, <2>6, <2>7 DEF Aside
<1>13. CASE ResolveReply(work, c) = "missing"
    <2>1. ~Present(work, msg[c].reply)
        BY <1>13 DEF ResolveReply
    <2>2. n = Park(work, c)
        BY <1>1, <1>4, <1>9, <1>13 DEF Attach
    <2>3. Aside(work, n) /\ n.parked = [work.parked EXCEPT ![c] = now] /\ n.quarantine = work.quarantine
        BY <1>0, <1>3, <2>2, AsideEffect, QuarantineColumn
    <2>4. \A i \in Id : IF i = c THEN n.parked[i] # Null ELSE n.parked[i] = work.parked[i]
        BY <1>0, <1>3, <2>3, DbType DEF Null
    <2>5. Fits(n, F \cup {c})
        BY <1>0, <1>3, <1>4, <1>5, <2>1, <2>3, <2>4, FitsPark
    <2> QED BY <1>10, <2>3, <2>5 DEF Aside
<1> QED BY <1>6, <1>11, <1>12, <1>13

\* The drain leaves an id.
LEMMA CDrainPop ==
    ASSUME CInv, IInv', JInv', DrainPop, got' = got
    PROVE  CInv'
<1>0. /\ tx \in Transaction /\ Busy
      /\ Fits(work, Grown) /\ Striking(db, work, tx.id, <<>>)
      /\ tx.targets = <<>> /\ tx.stack # <<>> /\ tx.out = "accepted"
      /\ UNCHANGED <<msg, db, work>>
    BY DEF CInv, IInv, JInv, AnswerOK, TxInv, DrainPop, Draining
<1>1. tx'.targets = <<>> /\ tx'.id = tx.id /\ tx'.out = tx.out /\ tx'.status = "open"
    BY <1>0 DEF DrainPop, Transaction, Busy
<1>2. tx.out # "rejected"
    BY <1>0
<1> QED BY <1>0, <1>1, <1>2, CInside

\* A commit makes the event one that the bridge has had.
LEMMA CRecord ==
    ASSUME CInv, IInv', JInv', Record
    PROVE  CInv'
<1>0. /\ Clean(msg) /\ Fits(work, Grown) /\ got \subseteq Id /\ tx.id \in Id /\ tx \in Transaction
      /\ UNCHANGED <<msg, work>> /\ db' = work /\ got' = Grown
    BY DEF CInv, IInv, TxInv, JInv, AnswerOK, Record, Commit, Grown
<1>1. tx'.status = "closed"
    BY <1>0 DEF Record, Commit, Transaction
<1>2. PICK d, F : d = work /\ F = Grown
    OBVIOUS
<1>3. F \subseteq Id
    BY <1>0, <1>2 DEF Grown
<1>4. Fits(d, F) /\ msg' = msg /\ db' = d /\ work' = d /\ got' = F
    BY <1>0, <1>2
<1>5. tx'.status # "open"
    BY <1>1
<1> QED BY <1>0, <1>3, <1>4, <1>5, CFrame

\* What has been parked too long.
Overdue == {i \in Id : Expired(db, i)}

\* reap_orphans, as far as the proofs read it.
LEMMA Reaped ==
    ASSUME CInv, Reap
    PROVE  \E n : /\ Aside(db, n) /\ n.quarantine = db.quarantine
                  /\ \A i \in Id : n.parked[i] = IF i \in Overdue THEN Null ELSE db.parked[i]
                  /\ db' = n /\ work' = n /\ msg' = msg /\ tx'.status = "closed"
                  /\ Overdue # {} /\ \A i \in Overdue : db.parked[i] # Null
                  /\ got' = got \ Overdue
<1> DEFINE pk == [i \in Id |-> IF Expired(db, i) THEN Null ELSE db.parked[i]]
<1>1. db \in Database /\ got \subseteq Id
    BY DEF CInv, IInv, StoreInv
<1>2. pk \in [Id -> Nat]
    BY <1>1, DbType DEF Null
<1>3. \A i \in Id : pk[i] = IF i \in Overdue THEN Null ELSE db.parked[i]
    BY DEF Overdue
<1>4. db' = [db EXCEPT !.parked = pk] /\ work' = db' /\ msg' = msg
      /\ tx' = Closed(NoId, "none", "none")
    BY DEF Reap, ReapOrphans
<1>5. Overdue # {} /\ \A i \in Overdue : db.parked[i] # Null
    BY DEF Reap, ReapOrphans, Overdue, Expired
<1>6. got' = got \ Overdue
    BY <1>1 DEF Reap, Overdue
<1> HIDE DEF pk
<1>7. PICK n : n = [db EXCEPT !.parked = pk]
    OBVIOUS
<1>8. Aside(db, n) /\ n.parked = pk /\ n.quarantine = db.quarantine
    BY <1>1, <1>2, <1>7 DEF Aside, Database
<1>9. tx'.status = "closed"
    BY <1>4 DEF Closed
<1>10. db' = n /\ work' = n
    BY <1>4, <1>7
<1> QED BY <1>3, <1>4, <1>5, <1>6, <1>8, <1>9, <1>10

\* What reap_orphans takes is as good as never delivered.
LEMMA CReap ==
    ASSUME CInv, IInv', JInv', Reap
    PROVE  CInv'
<1>0. Clean(msg) /\ Fits(db, got) /\ got \in SUBSET Id /\ Waiting(db, <<>>) /\ Overdue \in SUBSET Id
    BY DEF CInv, IInv, Overdue
<1>1. PICK n : /\ Aside(db, n) /\ n.quarantine = db.quarantine
               /\ \A i \in Id : n.parked[i] = IF i \in Overdue THEN Null ELSE db.parked[i]
               /\ db' = n /\ work' = n /\ msg' = msg /\ tx'.status = "closed"
               /\ Overdue # {} /\ \A i \in Overdue : db.parked[i] # Null
               /\ got' = got \ Overdue
    BY Reaped
<1>2. PICK F \in SUBSET Id : F = got \ Overdue
    BY <1>0
<1>3. Fits(n, F)
    BY <1>0, <1>1, <1>2, FitsReap
<1>4. got' = F /\ tx'.status # "open"
    BY <1>1, <1>2
<1> QED BY <1>0, <1>1, <1>3, <1>4, CFrame

\* A step that leaves all but the clock alone.
LEMMA CStill ==
    ASSUME CInv, IInv', JInv', UNCHANGED <<msg, db, work, tx, got>>
    PROVE  CInv'
<1>1. PICK d, w, G, F : d = db /\ w = work /\ G = got /\ F = Grown
    OBVIOUS
<1>2. Clean(msg) /\ Fits(d, G) /\ G \subseteq Id
    BY <1>1 DEF CInv
<1>3. tx'.status = "open" => /\ Fits(w, F) /\ Striking(d, w, tx.id, tx.targets)
                             /\ tx'.out = "rejected" => w = d /\ tx.targets = <<>>
                             /\ F = IF tx'.out = "rejected" THEN G ELSE G \cup {tx.id}
    BY <1>1 DEF CInv, Busy, Grown
<1>4. /\ msg' = msg /\ db' = d /\ work' = w /\ got' = G
      /\ tx'.id = tx.id /\ tx'.targets = tx.targets
    BY <1>1
<1> QED BY <1>2, <1>3, <1>4, CFrame

\* The steps of one bridge among several are steps of the store.
LEMMA ConvNextNext == [ConvNext]_<<vars, got>> => [Next]_vars
<1>1. ASSUME NEW e \in Id, NEW door \in Doors, Receive(e, door) PROVE Next
    BY <1>1 DEF Receive, Next
<1>2. Inside \/ Record \/ Lose \/ Reap \/ Tick => Next
    BY DEF Inside, Record, Lose, Reap, Next, TxStep
<1> QED BY <1>1, <1>2 DEF ConvNext

\* A new bridge satisfies the invariant.
LEMMA InitC == ConvInit => CInv
<1> SUFFICES ASSUME ConvInit PROVE CInv
    OBVIOUS
<1>0. Init /\ IInv /\ JInv /\ Clean(msg) /\ got = {} /\ db = EmptyDb
    BY InitInv, InitMoves DEF ConvInit, Init
<1>1. \A i \in Id : EmptyDb.event[i] = "absent" /\ EmptyDb.parked[i] = Null
    BY DEF EmptyDb
<1>2. StoredSound(EmptyDb, {})
    BY <1>1 DEF StoredSound
<1>3. Placed(EmptyDb)
    <2>1. /\ EmptyDb.rows = {}
          /\ \A i \in Id : EmptyDb.parent[i] = NoId /\ EmptyDb.root[i] = NoId /\ EmptyDb.depth[i] = 0
        BY DEF EmptyDb
    <2> QED BY <1>1, <2>1 DEF Placed
<1>4. Answered(EmptyDb, {})
    <2>1. EmptyDb.quarantine = {}
        BY DEF EmptyDb
    <2> QED BY <1>1, <2>1 DEF Answered
<1>5. Best(EmptyDb, {})
    BY DEF Best
<1>6. Fits(db, got)
    BY <1>0, <1>2, <1>3, <1>4, <1>5 DEF Fits
<1>7. ~Busy
    BY <1>0 DEF Init, Closed, Busy
<1> QED BY <1>0, <1>6, <1>7 DEF CInv

\* Every step keeps it: one case per action of ConvNext.
LEMMA NextC == CInv /\ [ConvNext]_<<vars, got>> => CInv'
<1> SUFFICES ASSUME CInv, [ConvNext]_<<vars, got>> PROVE CInv'
    OBVIOUS
<1>0. IInv' /\ JInv'
    BY ConvNextNext, NextInv, NextMoves DEF CInv
<1>1. ASSUME NEW e \in Id, NEW door \in Doors, Receive(e, door) PROVE CInv'
    BY <1>0, <1>1, CReceive
<1>2. CASE Inside
    <2>1. got' = got
        BY <1>2 DEF Inside
    <2>2. CASE DeleteTarget BY <1>0, <2>1, <2>2, CDeleteTarget
    <2>3. CASE DrainOrphan BY <1>0, <2>1, <2>3, CDrainOrphan
    <2>4. CASE DrainPop BY <1>0, <2>1, <2>4, CDrainPop
    <2> QED BY <1>2, <2>2, <2>3, <2>4 DEF Inside
<1>3. CASE Record BY <1>0, <1>3, CRecord
<1>4. CASE Lose
    <2>1. msg' = msg /\ db' = db /\ got' = got /\ tx'.status = "closed"
        BY <1>4 DEF Lose, DrainStubMissing, Crash, Rollback, Closed
    <2> QED BY <1>0, <2>1, CQuiet
<1>5. CASE Reap BY <1>0, <1>5, CReap
<1>6. CASE Tick /\ UNCHANGED got
    <2>1. UNCHANGED <<msg, db, work, tx, got>>
        BY <1>6 DEF Tick
    <2> QED BY <1>0, <2>1, CStill
<1>7. CASE UNCHANGED <<vars, got>>
    <2>1. UNCHANGED <<msg, db, work, tx, got>>
        BY <1>7 DEF vars
    <2> QED BY <1>0, <2>1, CStill
<1> QED BY <1>1, <1>2, <1>3, <1>4, <1>5, <1>6, <1>7 DEF ConvNext

\* What the tables hold is, throughout, what the events that were delivered say
\* must be there, whatever order they came in, and an open transaction has
\* struck what its deletion aims at.
THEOREM ConvInvariance == ConvSpec => []CInv
<1> QED BY InitC, NextC, PTL DEF ConvSpec

----------------------------------------------------------------------------
(* The refinement.                                                         *)

\* What a deletion strikes is what was struck when its transaction commits.
LEMMA StruckThen ==
    ASSUME msg \in Universes, Clean(msg), NEW d, NEW w, NEW G \in SUBSET Id, NEW F \in SUBSET Id,
           StoreInv(d), Fits(d, G), Waiting(d, <<>>), StoreInv(w), Fits(w, F), Waiting(w, <<>>),
           NEW e \in Id, Striking(d, w, e, <<>>)
    PROVE  /\ e \notin G /\ G = got
                => Struck(w) = (Struck(d) \cup R!Strikes(e)) \cap R!Held(F)
           /\ e \in G /\ F = G => Struck(w) = Struck(d)
<1>1. R!Held(G) = Stored(d) /\ R!Held(F) = Stored(w)
    BY HeldStored
<1>2. \A i \in Id : /\ w.event[i] = "deleted" => d.event[i] = "deleted" \/ Hit(d, e, i)
                    /\ d.event[i] = "deleted" /\ Present(w, i) => w.event[i] = "deleted"
                    /\ Hit(d, e, i) /\ Present(w, i) => w.event[i] = "deleted"
    BY InEmpty DEF Striking
<1>3. \A i \in Id : Present(w, i) <=> i \in Stored(w)
    BY DEF Present, Stored
<1>4. ASSUME e \notin G, G = got
      PROVE  Struck(w) = (Struck(d) \cup R!Strikes(e)) \cap R!Held(F)
    <2>1. ~Present(d, e)
        BY <1>4 DEF Fits, StoredSound, Present
    <2>2. ASSUME NEW i \in Id
          PROVE  Hit(d, e, i) <=> i \in R!Strikes(e)
        BY <1>1, <1>4, <2>1 DEF Hit, Aimed, R!Strikes, In, Stored, Present
    <2>3. \A i \in Id : i \in Struck(w) <=> i \in (Struck(d) \cup R!Strikes(e)) \cap R!Held(F)
        BY <1>1, <1>2, <1>3, <2>2 DEF Struck, Stored
    <2> QED BY <1>1, <2>3 DEF Struck, Stored
<1>5. ASSUME e \in G, F = G
      PROVE  Struck(w) = Struck(d)
    <2>1. \A i \in Id : ~Hit(d, e, i)
        <3>1. msg[e].kind = "deletion" => msg[e].reply = NoId
            BY CleanEvent
        <3>2. msg[e].kind = "deletion" => d.event[e] # "absent"
            BY <1>5, <3>1 DEF Fits, Answered
        <3> QED BY <3>2 DEF Hit, Aimed, Present
    <2>2. Stored(w) = Stored(d)
        BY <1>1, <1>5
    <2>3. \A i \in Id : i \in Struck(w) <=> i \in Struck(d)
        BY <1>2, <1>3, <2>1, <2>2 DEF Struck, Stored
    <2> QED BY <2>3 DEF Struck
<1> QED BY <1>4, <1>5

\* A bridge that has just been set up shows what Replica starts with.
LEMMA InitShown == ConvInit => R!Init
<1> SUFFICES ASSUME ConvInit PROVE R!Init
    OBVIOUS
<1>1. /\ CInv /\ db = EmptyDb /\ got = {}
      /\ msg \in Universes /\ Clean(msg) /\ StoreInv(db) /\ Kept(db) /\ Fits(db, got)
      /\ Waiting(db, <<>>) /\ got \in SUBSET Id
    BY InitC DEF ConvInit, Init, CInv, IInv, JInv
<1>2. Struck(db) = {}
    BY <1>1 DEF Struck, EmptyDb
<1>3. Shown(db) = R!View(got, Struck(db))
    BY <1>1, ShownView
<1> QED BY <1>1, <1>2, <1>3 DEF R!Init

\* A commit delivers its event, or, when the bridge has had it or turns it
\* away, changes nothing that is shown.
LEMMA RecordDelivers ==
    ASSUME CInv, Record
    PROVE  R!Deliver(tx.id) \/ UNCHANGED R!vars
<1>0. /\ msg \in Universes /\ Clean(msg) /\ got \in SUBSET Id /\ Grown \in SUBSET Id /\ tx.id \in Id
      /\ StoreInv(db) /\ Kept(db) /\ Fits(db, got) /\ Waiting(db, <<>>)
      /\ StoreInv(work) /\ Kept(work) /\ Fits(work, Grown) /\ Waiting(work, <<>>)
      /\ Striking(db, work, tx.id, <<>>) /\ (tx.out = "rejected" => work = db)
      /\ msg' = msg /\ db' = work /\ got' = Grown
    BY DEF CInv, IInv, TxInv, JInv, Moves, AnswerOK, Record, Commit, Grown
<1>1. PICK d, w, G, F, e : d = db /\ w = work /\ G = got /\ F = Grown /\ e = tx.id
    OBVIOUS
<1>2. /\ Struck(db)' = Struck(w) /\ Shown(db)' = Shown(w) /\ Struck(db) = Struck(d) /\ Shown(db) = Shown(d)
      /\ got' = F /\ G \in SUBSET Id /\ F \in SUBSET Id /\ e \in Id
    BY <1>0, <1>1 DEF Struck, Shown
<1>3. Shown(d) = R!View(G, Struck(d)) /\ Shown(w) = R!View(F, Struck(w))
    BY <1>0, <1>1, ShownView
<1>4. /\ e \notin G => Struck(w) = (Struck(d) \cup R!Strikes(e)) \cap R!Held(F)
      /\ e \in G /\ F = G => Struck(w) = Struck(d)
    BY <1>0, <1>1, StruckThen
<1>5. CASE tx.out = "rejected"
    <2>1. w = d /\ F = G
        BY <1>0, <1>1, <1>5 DEF Grown
    <2> QED BY <1>0, <1>1, <1>2, <2>1 DEF R!vars
<1>6. CASE tx.out # "rejected" /\ e \in G
    <2>1. F = G
        BY <1>1, <1>6 DEF Grown
    <2>2. Struck(w) = Struck(d) /\ Shown(w) = Shown(d)
        BY <1>3, <1>4, <1>6, <2>1
    <2> QED BY <1>0, <1>1, <1>2, <2>1, <2>2 DEF R!vars
<1>7. CASE tx.out # "rejected" /\ e \notin G
    <2>1. F = G \cup {e}
        BY <1>1, <1>7 DEF Grown
    <2>2. e \notin got /\ got' = got \cup {e} /\ msg' = msg
        BY <1>0, <1>1, <1>2, <1>7, <2>1
    <2>3. Struck(db)' = (Struck(db) \cup R!Strikes(e)) \cap R!Held(got')
        BY <1>2, <1>4, <1>7
    <2>4. Shown(db)' = R!View(got', Struck(db)')
        BY <1>2, <1>3
    <2>5. R!Deliver(e)
        BY <2>2, <2>3, <2>4 DEF R!Deliver
    <2> QED BY <1>1, <2>5
<1> QED BY <1>5, <1>6, <1>7

\* Reaping forgets orphans that wait.
LEMMA ReapForgets ==
    ASSUME CInv, CInv', Reap
    PROVE  R!Forget
<1>0. /\ msg \in Universes /\ Clean(msg) /\ got \in SUBSET Id
      /\ StoreInv(db) /\ Kept(db) /\ Fits(db, got) /\ Waiting(db, <<>>)
    BY DEF CInv, IInv, JInv
<1>1. PICK n : /\ Aside(db, n) /\ n.quarantine = db.quarantine
               /\ \A i \in Id : n.parked[i] = IF i \in Overdue THEN Null ELSE db.parked[i]
               /\ db' = n /\ work' = n /\ msg' = msg /\ tx'.status = "closed"
               /\ Overdue # {} /\ \A i \in Overdue : db.parked[i] # Null
               /\ got' = got \ Overdue
    BY Reaped
<1>2. PICK F \in SUBSET Id : F = got \ Overdue
    BY <1>0
<1>3. Overdue \in SUBSET Id
    BY DEF Overdue
<1>4. Fits(n, F)
    BY <1>0, <1>1, <1>2, <1>3, FitsReap
<1>5. StoreInv(n) /\ Waiting(n, <<>>) /\ Kept(n)
    <2>1. StoreInv(n)
        BY <1>0, <1>1, AsideStore DEF StoreInv
    <2>2. Waiting(n, <<>>)
        BY <1>0, <1>1 DEF Aside, Waiting, Present
    <2>3. Kept(n)
        BY <1>0, <1>1 DEF Aside, Kept, RootsOK, LastOK
    <2> QED BY <2>1, <2>2, <2>3
<1>6. Struck(db)' = Struck(n) /\ Shown(db)' = Shown(n) /\ Struck(n) = Struck(db)
    BY <1>1 DEF Struck, Shown, Aside
<1>7. Shown(db) = R!View(got, Struck(db)) /\ Shown(n) = R!View(F, Struck(n))
    BY <1>0, <1>4, <1>5, ShownView
<1>8. R!Waits(got) = {i \in Id : db.parked[i] # Null}
    BY <1>7 DEF R!View, Shown
<1>9. Overdue \in SUBSET R!Waits(got)
    BY <1>1, <1>3, <1>8
<1>10. Shown(db)' = R!View(got', Struck(db))
    BY <1>1, <1>2, <1>6, <1>7
<1> QED BY <1>1, <1>6, <1>9, <1>10 DEF R!Forget

\* No other step moves what is shown.
LEMMA RestShowNothing ==
    ASSUME \/ \E e \in Id, door \in Doors : Receive(e, door)
           \/ Inside \/ Lose \/ (Tick /\ UNCHANGED got) \/ UNCHANGED <<vars, got>>
    PROVE  UNCHANGED R!vars
<1>1. UNCHANGED <<msg, db, got>>
    <2>1. CASE \E e \in Id, door \in Doors : Receive(e, door)
        BY <2>1, IngestWrites DEF Receive
    <2>2. CASE Inside \/ Lose
        BY <2>2, InsideWrites DEF Inside, Lose
    <2>3. CASE (Tick /\ UNCHANGED got) \/ UNCHANGED <<vars, got>>
        BY <2>3 DEF Tick, vars
    <2> QED BY <2>1, <2>2, <2>3
<1> QED BY <1>1 DEF R!vars, Struck, Shown

\* "raw events converge" (docs/design/m1a.md, D1): what a bridge serves is a
\* function of the events it has had and of those it has soft-deleted, for every
\* network of clean events, whatever order they come in, how often, by which of
\* the two doors of mod.rs, and wherever a crash or the reaper intervenes.
THEOREM BridgesAgree == ConvSpec => BridgesConverge
<1>1. ConvInit => R!Init
    BY InitShown
<1>2. CInv /\ CInv' /\ [ConvNext]_<<vars, got>> => [R!Next]_R!vars
    <2> SUFFICES ASSUME CInv, CInv', [ConvNext]_<<vars, got>>
                 PROVE  R!Next \/ UNCHANGED R!vars
        OBVIOUS
    <2>1. CASE Record
        <3>1. tx.id \in Id
            BY <2>1 DEF CInv, JInv, AnswerOK, Record, Commit
        <3> QED BY <2>1, <3>1, RecordDelivers DEF R!Next
    <2>2. CASE Reap
        BY <2>2, ReapForgets DEF R!Next
    <2> QED BY <2>1, <2>2, RestShowNothing DEF ConvNext
<1> QED BY <1>1, <1>2, ConvInvariance, PTL DEF ConvSpec, BridgesConverge, R!Spec

\* Two bridges that have had the same events and soft-deleted the same ones show
\* the same: after every step, what ingest_mesh and ingest_local have left in the
\* tables is one function of the two sets.
THEOREM ViewDetermined == ConvSpec => [](Shown(db) = R!View(got, Struck(db)))
<1>1. CInv => Shown(db) = R!View(got, Struck(db))
    <2> SUFFICES ASSUME CInv PROVE Shown(db) = R!View(got, Struck(db))
        OBVIOUS
    <2>1. /\ msg \in Universes /\ Clean(msg) /\ StoreInv(db) /\ Kept(db)
          /\ got \in SUBSET Id /\ Fits(db, got) /\ Waiting(db, <<>>)
        BY DEF CInv, IInv, JInv
    <2> QED BY <2>1, ShownView
<1> QED BY <1>1, ConvInvariance, PTL

\* The stub of an accepted reply's root always has an event to stand for.
LEMMA RootStored ==
    ASSUME msg \in Universes, Clean(msg), NEW d, StoreInv(d), NEW G, Fits(d, G),
           NEW e \in Id, ResolveReply(d, e) = "ok"
    PROVE  StubsPresent(d, e)
<1>0. StoredSound(d, G) /\ Placed(d)
    BY DEF Fits
<1>1. Present(d, msg[e].reply)
    BY DEF ResolveReply
<1>2. PICK p \in Id : p = msg[e].reply /\ p \in Stored(d)
    BY <1>1 DEF Present, Stored
<1>3. EffectiveRoot(d, p) = R!Root(e) /\ R!Root(e) = R!Root(p) /\ msg[p].kind # "replaceable"
    BY <1>0, <1>1, <1>2, NoneIsNoId, Resolves, PlaceReply, CleanEvent
<1>4. R!Path(p) \subseteq Stored(d)
    BY <1>0, <1>2, <1>3, StoredPath
<1>5. R!Root(e) \in Stored(d)
    BY <1>3, <1>4, RootOnPath
<1> QED BY <1>2, <1>3, <1>5 DEF StubsPresent, Present, Stored

\* Where ancestry does not depend on the order of arrival, insert_stub always
\* finds its event: no ingest and no drain is rolled back for want of it, and no
\* event is lost with a rolled-back transaction other than to a failure of the
\* database or a crash.
THEOREM NothingDropped == ConvSpec => [](tx.out # "error")
<1>1. ConvInit => tx.out # "error"
    BY DEF ConvInit, Init, Closed
<1>2. CInv /\ tx.out # "error" /\ [ConvNext]_<<vars, got>> => (tx.out # "error")'
    <2> SUFFICES ASSUME CInv, tx.out # "error", [ConvNext]_<<vars, got>>
                 PROVE  tx'.out # "error"
        OBVIOUS
    <2>0. /\ msg \in Universes /\ Clean(msg) /\ tx \in Transaction
          /\ StoreInv(db) /\ Fits(db, got) /\ StoreInv(work) /\ (Busy => Fits(work, Grown))
        BY DEF CInv, IInv, TxInv
    <2>1. ASSUME NEW e \in Id, NEW door \in Doors, Receive(e, door) PROVE tx'.out # "error"
        <3>1. ~IngestStubMissing(e, door)
            BY <2>0, RootStored DEF IngestStubMissing
        <3> QED BY <2>1, <3>1 DEF Receive, Ingest, Begin, IngestDuplicate, IngestRelayAuthored,
                IngestDeletion, IngestPlain, IngestReplaceable, IngestOrphan, IngestMismatch, IngestReply
    <2>2. CASE Inside
        BY <2>0, <2>2 DEF Inside, DeleteTarget, DrainOrphan, DrainPop, Transaction
    <2>3. CASE Record
        BY <2>0, <2>3 DEF Record, Commit, Transaction
    <2>4. CASE Lose
        <3>1. ~DrainStubMissing
            BY <2>0, RootStored DEF DrainStubMissing, Draining, Attaches, Orphans
        <3> QED BY <2>4, <3>1 DEF Lose, Crash, Rollback, Closed
    <2>5. CASE Reap
        BY <2>5 DEF Reap, ReapOrphans, Closed
    <2>6. CASE (Tick /\ UNCHANGED got) \/ UNCHANGED <<vars, got>>
        BY <2>6 DEF Tick, vars
    <2> QED BY <2>1, <2>2, <2>3, <2>4, <2>5, <2>6 DEF ConvNext
<1> QED BY <1>1, <1>2, ConvInvariance, PTL DEF ConvSpec
==============================================================================
