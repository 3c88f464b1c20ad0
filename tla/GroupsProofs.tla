---------------------------- MODULE GroupsProofs -----------------------------
(***************************************************************************)
(* Proofs about Groups, for any channels, users, calls and bounds.  The    *)
(* properties are about steps: who may take a member off a list, what an   *)
(* admission does to the list, and who replaces the admins.  The inductive *)
(* invariant IInv behind them says                                         *)
(*   - what a call that has decided will store, and from which reads;      *)
(*   - that the list of members a call has read is the one that is stored, *)
(*     unless the call is marked as raced;                                 *)
(*   - that an admission between its read and its store holds the lock of  *)
(*     its channel, which is why two of them never race each other.        *)
(***************************************************************************)
EXTENDS Groups, TLAPS

Steps == {"free", "meta", "admins", "members", "decide", "emit_meta", "emit_admins", "emit_members",
          "mirror", "imeta", "lock", "iread", "iemit", "ifan"}
MetaVal == [private : BOOLEAN]
MetaEvent == [at : Nat, val : MetaVal]
ListEvent == [at : Nat, val : SUBSET User]
Plan == [meta : MetaVal \cup {None}, members : (SUBSET User) \cup {None}]

CallRec == [pc : Steps, op : Command \cup {"invite", None}, chan : Channel \cup {None},
            who : User \cup {None}, target : User \cup {None},
            meta : MetaEvent \cup {None}, admins : ListEvent \cup {None},
            members : ListEvent \cup {None}, new : Plan \cup {None}, raced : BOOLEAN]

\* What is stored under the address of a kind.
Stored(kind) == (IF kind = "meta" THEN MetaEvent ELSE ListEvent) \cup {None}

SlotOK == /\ slot \in [Kind -> [Channel -> MetaEvent \cup ListEvent \cup {None}]]
          /\ \A kind \in Kind, c \in Channel : slot[kind][c] \in Stored(kind)

TypeOK ==
    /\ SlotOK
    /\ table \in [Channel -> SUBSET User]
    /\ lock \in [Channel -> Call \cup {None}]
    /\ call \in [Call -> CallRec]
    /\ now \in Nat
    /\ seeded \in BOOLEAN

\* The members a command asks for.
Wanted(x) ==
    CASE x.op \in {"create", "add", "join"} -> Listed(x.members) \cup {x.target}
      [] x.op \in {"remove", "leave"} -> Listed(x.members) \ {x.target}
      [] x.op = "delete" -> {}
      [] OTHER -> None

\* What a call knows at each of its steps.
Shape(x) ==
    /\ x.pc # "free" => x.chan \in Channel /\ x.who \in User /\ x.target \in User
    /\ x.pc \in {"imeta", "lock", "iread", "iemit", "ifan"} => x.op = "invite"
    /\ x.pc \in {"meta", "admins", "members", "decide", "emit_meta", "emit_admins", "emit_members"}
          => x.op \in Command
    /\ x.pc = "emit_meta" => x.op \in {"create", "edit", "delete"} /\ x.new.meta \in MetaVal
    /\ x.pc = "emit_admins" => x.op = "create"
    /\ x.pc = "emit_members" => x.op # "edit"
    /\ x.pc \in {"emit_meta", "emit_admins", "emit_members"} /\ x.op # "edit"
          => x.new.members = Wanted(x) /\ Wanted(x) \in SUBSET User
    /\ x.pc \in {"emit_meta", "emit_admins"} /\ x.op = "create" /\ x.meta # None /\ x.admins # None
          => x.who \in x.admins.val
    /\ x.pc = "iemit" => x.who \notin Listed(x.members)

HasRead == {"decide", "emit_meta", "emit_admins", "emit_members", "iemit"}

\* The members x has read are those of ev, or x was raced, or has no use for them.
Current(x, ev) ==
    x.pc \in HasRead /\ ~x.raced /\ (x.pc = "decide" \/ x.op # "edit") => x.members = ev

CallInv == \A k \in Call : Shape(call[k]) /\ Current(call[k], slot["members"][call[k].chan])

LockInv == \A k \in Call : call[k].pc \in {"iread", "iemit"} => lock[call[k].chan] = k

IInv == TypeOK /\ CallInv /\ LockInv

----------------------------------------------------------------------------
(* The calls that do not move.                                             *)

\* The call y is the call x, perhaps with the mark of a race.
Same(x, y) ==
    /\ y.pc = x.pc /\ y.op = x.op /\ y.chan = x.chan /\ y.who = x.who /\ y.target = x.target
    /\ y.meta = x.meta /\ y.admins = x.admins /\ y.members = x.members /\ y.new = x.new
    /\ y.raced \/ y = x

\* The mark of a race changes nothing else.
LEMMA SameShape ==
    ASSUME NEW x, NEW y, Same(x, y), Shape(x)
    PROVE  Shape(y)
BY DEF Same, Shape, Wanted

\* One call moves to d; whoever read a list that is no longer stored is marked.
LEMMA MoveInv ==
    ASSUME IInv, NEW k \in Call, NEW d \in CallRec, Shape(d), Current(d, slot'["members"][d.chan]),
           call' \in [Call -> CallRec], call'[k] = d,
           \A j \in Call : j # k => Same(call[j], call'[j]),
           \A j \in Call : j # k /\ call[j].pc \in HasRead =>
               call'[j].raced \/ slot'["members"][call[j].chan] = slot["members"][call[j].chan],
           SlotOK', table' \in [Channel -> SUBSET User], lock' \in [Channel -> Call \cup {None}],
           now' \in Nat, seeded' \in BOOLEAN,
           d.pc \in {"iread", "iemit"} => lock'[d.chan] = k,
           \A j \in Call : j # k /\ call[j].pc \in {"iread", "iemit"} => lock'[call[j].chan] = j
    PROVE  IInv'
<1>1. TypeOK'
    BY DEF TypeOK
<1>2. LockInv'
    BY DEF LockInv, Same
<1>3. CallInv'
    <2> SUFFICES ASSUME NEW j \in Call
                 PROVE  Shape(call'[j]) /\ Current(call'[j], slot'["members"][call'[j].chan])
        BY DEF CallInv
    <2>1. CASE j = k
        BY <2>1
    <2>2. CASE j # k
        <3>1. PICK x \in CallRec, y \in CallRec : x = call[j] /\ y = call'[j] /\ Same(x, y)
            BY <2>2 DEF IInv, TypeOK
        <3>2. Shape(x) /\ Current(x, slot["members"][x.chan])
            BY <3>1 DEF IInv, CallInv
        <3>3. Shape(y)
            BY <3>1, <3>2, SameShape
        <3>4. x.pc \in HasRead => y.raced \/ slot'["members"][x.chan] = slot["members"][x.chan]
            BY <2>2, <3>1
        <3>5. Current(y, slot'["members"][y.chan])
            BY <3>1, <3>2, <3>4 DEF Current, Same
        <3> QED BY <3>1, <3>3, <3>5
    <2> QED BY <2>1, <2>2
<1> QED BY <1>1, <1>2, <1>3 DEF IInv

\* One call moves and nothing else does.
LEMMA QuietMove ==
    ASSUME IInv, NEW k \in Call, NEW d \in CallRec, Shape(d), Current(d, slot["members"][d.chan]),
           call' = [call EXCEPT ![k] = d], UNCHANGED <<slot, lock, now, seeded>>,
           table' \in [Channel -> SUBSET User],
           d.pc \in {"iread", "iemit"} => call[k].pc \in {"iread", "iemit"} /\ d.chan = call[k].chan
    PROVE  IInv'
<1>1. call' \in [Call -> CallRec] /\ call'[k] = d /\ \A j \in Call : j # k => call'[j] = call[j]
    BY DEF IInv, TypeOK
<1>2. \A j \in Call : j # k => Same(call[j], call'[j])
    BY <1>1 DEF Same
<1>3. SlotOK' /\ lock' \in [Channel -> Call \cup {None}] /\ now' \in Nat /\ seeded' \in BOOLEAN
    BY DEF IInv, TypeOK, SlotOK
<1>4. d.pc \in {"iread", "iemit"} => lock'[d.chan] = k
    BY DEF IInv, LockInv
<1>5. \A j \in Call : j # k /\ call[j].pc \in {"iread", "iemit"} => lock'[call[j].chan] = j
    BY DEF IInv, LockInv
<1>6. Current(d, slot'["members"][d.chan])
    OBVIOUS
<1>7. \A j \in Call : j # k /\ call[j].pc \in HasRead =>
          call'[j].raced \/ slot'["members"][call[j].chan] = slot["members"][call[j].chan]
    OBVIOUS
<1> QED BY <1>1, <1>2, <1>3, <1>4, <1>5, <1>6, <1>7, MoveInv

\* A free call holds nothing.
LEMMA IdleShape ==
    /\ Idle \in CallRec /\ Idle.pc = "free" /\ Idle.raced = FALSE
    /\ Shape(Idle) /\ \A ev : Current(Idle, ev)
<1>1. Idle \in CallRec /\ Idle.pc = "free" /\ Idle.raced = FALSE
    BY DEF Idle, CallRec, Steps
<1> QED BY <1>1 DEF Shape, Current, HasRead

\* None is no event, no list and no metadata.
LEMMA NoneApart ==
    /\ \A ev \in MetaEvent \cup ListEvent : ev # None
    /\ \A S \in SUBSET User : S # None
    /\ \A m \in MetaVal : m # None
<1>1. \A ev \in MetaEvent \cup ListEvent : ev \in [at : Nat, val : [private : BOOLEAN] \cup SUBSET User]
    BY DEF MetaEvent, ListEvent, MetaVal
<1> QED BY <1>1, NoneAssumption DEF MetaVal

\* The members that are listed are users.
LEMMA ListedUsers ==
    ASSUME NEW ev \in ListEvent \cup {None}
    PROVE  Listed(ev) \in SUBSET User
BY NoneApart DEF Listed, ListEvent

----------------------------------------------------------------------------
(* Commands, up to their decision.                                         *)

\* A command arrives.
LEMMA SubmitInv ==
    ASSUME IInv, NEW k \in Call, NEW op \in Command, NEW c \in Channel, NEW u \in User, NEW v \in User,
           Submit(k, op, c, u, v)
    PROVE  IInv'
<1>1. PICK i \in CallRec : i = Idle
    BY IdleShape
<1> DEFINE d == [i EXCEPT !.pc = "meta", !.op = op, !.chan = c, !.who = u, !.target = v]
<1>2. d \in CallRec /\ d.pc = "meta" /\ d.op = op /\ d.chan = c /\ d.who = u /\ d.target = v
    BY DEF CallRec, Steps
<1>3. call' = [call EXCEPT ![k] = d] /\ UNCHANGED <<slot, table, lock, now, seeded>>
    BY <1>1 DEF Submit
<1> HIDE DEF d
<1>4. Shape(d) /\ Current(d, slot["members"][d.chan])
    BY <1>2 DEF Shape, Current, HasRead
<1> QED BY <1>2, <1>3, <1>4, QuietMove DEF IInv, TypeOK

\* An admission arrives.
LEMMA AdmitInv ==
    ASSUME IInv, NEW k \in Call, NEW c \in Channel, NEW u \in User, Admit(k, c, u)
    PROVE  IInv'
<1>1. PICK i \in CallRec : i = Idle
    BY IdleShape
<1> DEFINE d == [i EXCEPT !.pc = "imeta", !.op = "invite", !.chan = c, !.who = u, !.target = u]
<1>2. d \in CallRec /\ d.pc = "imeta" /\ d.op = "invite" /\ d.chan = c /\ d.who = u /\ d.target = u
    BY DEF CallRec, Steps
<1>3. call' = [call EXCEPT ![k] = d] /\ UNCHANGED <<slot, table, lock, now, seeded>>
    BY <1>1 DEF Admit
<1> HIDE DEF d
<1>4. Shape(d) /\ Current(d, slot["members"][d.chan])
    BY <1>2 DEF Shape, Current, HasRead
<1> QED BY <1>2, <1>3, <1>4, QuietMove DEF IInv, TypeOK

\* A call that goes on to another step.
LEMMA StepWritten ==
    ASSUME NEW x \in CallRec, NEW pc \in Steps, NEW d, d = [x EXCEPT !.pc = pc]
    PROVE  /\ d \in CallRec /\ d.pc = pc /\ d.op = x.op /\ d.chan = x.chan /\ d.who = x.who
           /\ d.target = x.target /\ d.members = x.members
BY DEF CallRec

\* The reads, one query each; the last one is of the members.
LEMMA ReadStateInv ==
    ASSUME IInv, NEW k \in Call, ReadState(k)
    PROVE  IInv'
<1>0. PICK x \in CallRec : x = call[k] /\ Shape(x)
    BY DEF IInv, TypeOK, CallInv
<1>1. UNCHANGED <<slot, table, lock, now, seeded>>
    BY DEF ReadState
<1>2. PICK kind \in Kind :
         /\ x.pc = kind
         /\ call' = [call EXCEPT ![k] = [x EXCEPT ![kind] = slot[kind][x.chan],
                       !.pc = CASE kind = "meta" -> "admins"
                                [] kind = "admins" -> "members"
                                [] kind = "members" -> "decide"]]
    BY <1>0 DEF ReadState, IInv, TypeOK
<1>3. x.chan \in Channel /\ slot[kind][x.chan] \in Stored(kind)
    BY <1>0, <1>2 DEF Shape, Kind, IInv, TypeOK, SlotOK
<1>4. PICK ev \in Stored(kind) : ev = slot[kind][x.chan]
    BY <1>3
<1>5. CASE kind = "meta"
    <2> DEFINE e == [x EXCEPT !.meta = ev]
               d == [x EXCEPT !.meta = ev, !.pc = "admins"]
    <2>1. d \in CallRec /\ d.pc = "admins" /\ d.op = x.op /\ d.chan = x.chan /\ d.who = x.who /\ d.target = x.target
        <3>1. ev \in MetaEvent \cup {None}
            BY <1>5 DEF Stored
        <3>2. e \in CallRec /\ e.op = x.op /\ e.chan = x.chan /\ e.who = x.who /\ e.target = x.target
            BY <3>1 DEF CallRec
        <3>3. d = [e EXCEPT !.pc = "admins"]
            OBVIOUS
        <3> HIDE DEF e, d
        <3>4. "admins" \in Steps
            BY DEF Steps
        <3>5. /\ d \in CallRec /\ d.pc = "admins" /\ d.op = e.op /\ d.chan = e.chan /\ d.who = e.who
              /\ d.target = e.target /\ d.members = e.members
            BY <3>2, <3>3, <3>4, StepWritten
        <3> QED BY <3>2, <3>5
    <2>2. call' = [call EXCEPT ![k] = d]
        BY <1>2, <1>4, <1>5
    <2> HIDE DEF d
    <2>3. Shape(d) /\ Current(d, slot["members"][d.chan])
        BY <1>0, <1>2, <1>5, <2>1 DEF Shape, Current, HasRead
    <2> QED BY <1>1, <2>1, <2>2, <2>3, QuietMove DEF IInv, TypeOK
<1>6. CASE kind = "admins"
    <2> DEFINE e == [x EXCEPT !.admins = ev]
               d == [x EXCEPT !.admins = ev, !.pc = "members"]
    <2>1. d \in CallRec /\ d.pc = "members" /\ d.op = x.op /\ d.chan = x.chan /\ d.who = x.who /\ d.target = x.target
        <3>1. ev \in ListEvent \cup {None}
            BY <1>6 DEF Stored
        <3>2. e \in CallRec /\ e.op = x.op /\ e.chan = x.chan /\ e.who = x.who /\ e.target = x.target
            BY <3>1 DEF CallRec
        <3>3. d = [e EXCEPT !.pc = "members"]
            OBVIOUS
        <3> HIDE DEF e, d
        <3>4. "members" \in Steps
            BY DEF Steps
        <3>5. /\ d \in CallRec /\ d.pc = "members" /\ d.op = e.op /\ d.chan = e.chan /\ d.who = e.who
              /\ d.target = e.target /\ d.members = e.members
            BY <3>2, <3>3, <3>4, StepWritten
        <3> QED BY <3>2, <3>5
    <2>2. call' = [call EXCEPT ![k] = d]
        BY <1>2, <1>4, <1>6
    <2> HIDE DEF d
    <2>3. Shape(d) /\ Current(d, slot["members"][d.chan])
        BY <1>0, <1>2, <1>6, <2>1 DEF Shape, Current, HasRead
    <2> QED BY <1>1, <2>1, <2>2, <2>3, QuietMove DEF IInv, TypeOK
<1>7. CASE kind = "members"
    <2> DEFINE e == [x EXCEPT !.members = ev]
               d == [x EXCEPT !.members = ev, !.pc = "decide"]
    <2>1. /\ d \in CallRec /\ d.pc = "decide" /\ d.op = x.op /\ d.chan = x.chan /\ d.who = x.who /\ d.target = x.target
          /\ d.members = ev
        <3>1. ev \in ListEvent \cup {None}
            BY <1>7 DEF Stored
        <3>2. /\ e \in CallRec /\ e.op = x.op /\ e.chan = x.chan /\ e.who = x.who /\ e.target = x.target
              /\ e.members = ev
            BY <3>1 DEF CallRec
        <3>3. d = [e EXCEPT !.pc = "decide"]
            OBVIOUS
        <3> HIDE DEF e, d
        <3>4. "decide" \in Steps
            BY DEF Steps
        <3>5. /\ d \in CallRec /\ d.pc = "decide" /\ d.op = e.op /\ d.chan = e.chan /\ d.who = e.who
              /\ d.target = e.target /\ d.members = e.members
            BY <3>2, <3>3, <3>4, StepWritten
        <3> QED BY <3>2, <3>5
    <2>2. call' = [call EXCEPT ![k] = d]
        BY <1>2, <1>4, <1>7
    <2> HIDE DEF d
    <2>3. Shape(d) /\ Current(d, slot["members"][d.chan])
        BY <1>0, <1>2, <1>4, <1>7, <2>1 DEF Shape, Current
    <2> QED BY <1>1, <2>1, <2>2, <2>3, QuietMove DEF IInv, TypeOK
<1> QED BY <1>2, <1>5, <1>6, <1>7 DEF Kind

\* The decision settles what will be stored.
LEMMA DecideInv ==
    ASSUME IInv, NEW k \in Call, Decide(k)
    PROVE  IInv'
<1>0. PICK x \in CallRec : x = call[k] /\ Shape(x) /\ Current(x, slot["members"][x.chan]) /\ x.pc = "decide"
    BY DEF IInv, TypeOK, CallInv, Decide
<1>1. UNCHANGED <<slot, table, lock, now, seeded>>
    BY DEF Decide
<1>2. x.op \in Command /\ x.chan \in Channel /\ x.who \in User /\ x.target \in User
    BY <1>0 DEF Shape
<1>3. PICK w : w = NewMembers(k) /\ w = Wanted(x)
    BY <1>0, <1>2 DEF NewMembers, Wanted, Command
<1>4. (x.op # "edit" => w \in SUBSET User) /\ (x.op = "edit" => w = None)
    <2>1. Listed(x.members) \in SUBSET User
        BY ListedUsers DEF CallRec
    <2> QED BY <1>2, <1>3, <2>1 DEF Wanted, Command
<1>5. x.op # "edit" => w # None
    BY <1>4, NoneApart
<1>6. PICK m \in NewMeta(k) :
         call' = [call EXCEPT ![k] = [call[k] EXCEPT
            !.new = [meta |-> m, members |-> NewMembers(k)],
            !.meta = IF m = None THEN None ELSE call[k].meta,
            !.admins = IF call[k].op = "create" THEN call[k].admins ELSE None,
            !.members = IF NewMembers(k) = None THEN None ELSE call[k].members,
            !.pc = IF m # None THEN "emit_meta" ELSE "emit_members"]]
    BY Zenon DEF Decide
<1>7. /\ x.op \in {"create", "edit", "delete"} => m \in MetaVal
      /\ x.op \in {"add", "remove", "join", "leave"} => m = None
    <2>1. x.op \in {"edit", "delete"} => x.meta \in MetaEvent
        BY <1>0 DEF Decide, MayRun, CallRec
    <2>2. \A p \in BOOLEAN : ChannelMeta(p) \in MetaVal
        BY DEF ChannelMeta, MetaVal
    <2>3. x.op = "edit" => \A p \in BOOLEAN : [x.meta.val EXCEPT !.private = p] \in MetaVal
        BY <2>1 DEF MetaEvent, MetaVal
    <2>4. CASE x.op = "create"
        BY <1>0, <1>6, <2>2, <2>4 DEF NewMeta
    <2>5. CASE x.op = "edit"
        BY <1>0, <1>6, <2>3, <2>5 DEF NewMeta
    <2>6. CASE x.op = "delete"
        BY <1>0, <1>6, <2>1, <2>6 DEF NewMeta, MetaEvent
    <2>7. CASE x.op \in {"add", "remove", "join", "leave"}
        BY <1>0, <1>6, <2>7 DEF NewMeta
    <2> QED BY <1>2, <2>4, <2>5, <2>6, <2>7
<1>8. x.op = "create" /\ x.meta # None /\ x.admins # None => x.who \in x.admins.val
    BY <1>0 DEF Decide, MayRun, IsAuthorized
<1> DEFINE n == [meta |-> m, members |-> w]
<1>9. n \in Plan /\ n.meta = m /\ n.members = w
    <2>1. m \in MetaVal \cup {None}
        BY <1>2, <1>7 DEF Command
    <2>2. w \in (SUBSET User) \cup {None}
        BY <1>4
    <2> QED BY <2>1, <2>2 DEF Plan
<1> HIDE DEF n
<1>a. PICK me \in MetaEvent \cup {None}, ad \in ListEvent \cup {None}, mb \in ListEvent \cup {None}, st \in Steps :
         /\ me = (IF m = None THEN None ELSE x.meta)
         /\ ad = (IF x.op = "create" THEN x.admins ELSE None)
         /\ mb = (IF w = None THEN None ELSE x.members)
         /\ st = (IF m # None THEN "emit_meta" ELSE "emit_members")
    BY DEF CallRec, Steps
<1> DEFINE d == [x EXCEPT !.new = n, !.meta = me, !.admins = ad, !.members = mb, !.pc = st]
<1>10. /\ d \in CallRec /\ d.op = x.op /\ d.chan = x.chan /\ d.who = x.who /\ d.target = x.target
       /\ d.new = n /\ d.meta = (IF m = None THEN None ELSE x.meta)
       /\ d.admins = (IF x.op = "create" THEN x.admins ELSE None)
       /\ d.members = (IF w = None THEN None ELSE x.members)
       /\ d.pc = (IF m # None THEN "emit_meta" ELSE "emit_members") /\ d.raced = x.raced
    <2>1. /\ d \in CallRec /\ d.op = x.op /\ d.chan = x.chan /\ d.who = x.who /\ d.target = x.target
          /\ d.raced = x.raced /\ d.new = n /\ d.meta = me /\ d.admins = ad /\ d.members = mb /\ d.pc = st
        <3> DEFINE e == [x EXCEPT !.new = n, !.meta = me]
        <3>1. /\ e \in CallRec /\ e.op = x.op /\ e.chan = x.chan /\ e.who = x.who /\ e.target = x.target
              /\ e.raced = x.raced /\ e.new = n /\ e.meta = me
            <4> DEFINE y == [x EXCEPT !.new = n]
            <4>1. /\ y \in CallRec /\ y.op = x.op /\ y.chan = x.chan /\ y.who = x.who /\ y.target = x.target
                  /\ y.raced = x.raced /\ y.new = n
                BY <1>9 DEF CallRec
            <4>2. e = [y EXCEPT !.meta = me]
                OBVIOUS
            <4> HIDE DEF y, e
            <4> QED BY <4>1, <4>2 DEF CallRec
        <3>2. d = [e EXCEPT !.admins = ad, !.members = mb, !.pc = st]
            BY DEF CallRec
        <3>3. st \in Steps /\ ad \in ListEvent \cup {None} /\ mb \in ListEvent \cup {None}
            BY <1>a
        <3> HIDE DEF e, d
        <3>4. d \in CallRec
            BY <3>1, <3>2, <3>3 DEF CallRec
        <3> QED BY <3>1, <3>2 DEF CallRec
    <2> HIDE DEF d
    <2> QED BY <1>a, <2>1
<1>11. call' = [call EXCEPT ![k] = d]
    BY <1>0, <1>3, <1>6, <1>a DEF n
<1> HIDE DEF d
<1>12. (m # None <=> x.op \in {"create", "edit", "delete"})
    BY <1>2, <1>7, NoneApart DEF Command
<1>13. x.op # "edit" => d.members = x.members /\ Wanted(d) = w
    BY <1>3, <1>5, <1>10 DEF Wanted
<1>14. Shape(d)
    <2>1. d.pc \in {"emit_meta", "emit_members"}
        BY <1>10
    <2>2. d.pc = "emit_meta" => d.op \in {"create", "edit", "delete"} /\ d.new.meta \in MetaVal
        BY <1>7, <1>9, <1>10, <1>12
    <2>3. d.pc = "emit_members" => d.op # "edit"
        BY <1>10, <1>12
    <2>4. d.op # "edit" => d.new.members = Wanted(d) /\ Wanted(d) \in SUBSET User
        BY <1>4, <1>9, <1>10, <1>13
    <2>5. d.op = "create" /\ d.meta # None /\ d.admins # None => d.who \in d.admins.val
        BY <1>8, <1>10
    <2> QED BY <1>2, <1>10, <2>1, <2>2, <2>3, <2>4, <2>5 DEF Shape
<1>15. Current(d, slot["members"][d.chan])
    BY <1>0, <1>10, <1>13 DEF Current, HasRead
<1>16. d.pc \notin {"iread", "iemit"}
    BY <1>10
<1> QED BY <1>1, <1>10, <1>11, <1>14, <1>15, <1>16, QuietMove DEF IInv, TypeOK

\* A command stops.
LEMMA StopInv ==
    ASSUME IInv, NEW k \in Call, Stop(k)
    PROVE  IInv'
<1>1. call' = [call EXCEPT ![k] = Idle] /\ UNCHANGED <<slot, table, lock, now, seeded>>
    BY DEF Stop
<1> QED BY <1>1, IdleShape, QuietMove DEF IInv, TypeOK

\* The table learns of the new member.
LEMMA MirrorInv ==
    ASSUME IInv, NEW k \in Call, Mirror(k)
    PROVE  IInv'
<1>1. call' = [call EXCEPT ![k] = Idle] /\ UNCHANGED <<slot, lock, now, seeded>>
    BY DEF Mirror
<1>2. table' \in [Channel -> SUBSET User]
    <2>1. call[k].target \in User
        BY DEF Mirror, IInv, CallInv, Shape
    <2> QED BY <2>1 DEF Mirror, IInv, TypeOK
<1> QED BY <1>1, <1>2, IdleShape, QuietMove

----------------------------------------------------------------------------
(* Admissions, up to their store.                                          *)

\* An unknown group is refused, a known one is waited for.
LEMMA InviteMetaInv ==
    ASSUME IInv, NEW k \in Call, InviteMeta(k)
    PROVE  IInv'
<1>0. PICK x \in CallRec : x = call[k] /\ Shape(x) /\ x.pc = "imeta"
    BY DEF IInv, TypeOK, CallInv, InviteMeta
<1>1. UNCHANGED <<slot, table, lock, now, seeded>> /\ table' \in [Channel -> SUBSET User]
    BY DEF InviteMeta, IInv, TypeOK
<1>2. CASE slot["meta"][call[k].chan] = None
    <2>1. call' = [call EXCEPT ![k] = Idle]
        BY <1>2 DEF InviteMeta
    <2> QED BY <1>1, <2>1, IdleShape, QuietMove
<1>3. CASE slot["meta"][call[k].chan] # None
    <2> DEFINE d == [x EXCEPT !.pc = "lock"]
    <2>1. d \in CallRec /\ d.pc = "lock" /\ d.op = x.op /\ d.chan = x.chan /\ d.who = x.who /\ d.target = x.target
        BY DEF CallRec, Steps
    <2>2. call' = [call EXCEPT ![k] = d]
        BY <1>0, <1>3 DEF InviteMeta, IInv, TypeOK
    <2> HIDE DEF d
    <2>3. Shape(d) /\ Current(d, slot["members"][d.chan])
        BY <1>0, <2>1 DEF Shape, Current, HasRead
    <2> QED BY <1>1, <2>1, <2>2, <2>3, QuietMove
<1> QED BY <1>2, <1>3

\* The lock of the channel is taken.
LEMMA InviteLockInv ==
    ASSUME IInv, NEW k \in Call, InviteLock(k)
    PROVE  IInv'
<1>0. PICK x \in CallRec : x = call[k] /\ Shape(x) /\ x.pc = "lock"
    BY DEF IInv, TypeOK, CallInv, InviteLock
<1>1. UNCHANGED <<slot, table, now, seeded>> /\ table' \in [Channel -> SUBSET User] /\ now' \in Nat /\ seeded' \in BOOLEAN
    BY DEF InviteLock, IInv, TypeOK
<1> DEFINE d == [x EXCEPT !.pc = "iread"]
<1>2. /\ d \in CallRec /\ d.pc = "iread" /\ d.op = x.op /\ d.chan = x.chan /\ d.who = x.who
      /\ d.target = x.target
    BY DEF CallRec, Steps
<1>3. call' = [call EXCEPT ![k] = d]
    BY <1>0 DEF InviteLock, IInv, TypeOK
<1> HIDE DEF d
<1>4. Shape(d) /\ Current(d, slot'["members"][d.chan])
    BY <1>0, <1>2 DEF Shape, Current, HasRead
<1>5. call' \in [Call -> CallRec] /\ call'[k] = d /\ \A j \in Call : j # k => call'[j] = call[j]
    BY <1>2, <1>3 DEF IInv, TypeOK
<1>6. x.chan \in Channel /\ lock[x.chan] = None /\ lock' = [lock EXCEPT ![x.chan] = k]
    BY <1>0 DEF Shape, InviteLock
<1>7. /\ lock' \in [Channel -> Call \cup {None}] /\ lock'[x.chan] = k
      /\ \A c \in Channel : c # x.chan => lock'[c] = lock[c]
    BY <1>6 DEF IInv, TypeOK
<1>8. ASSUME NEW j \in Call, j # k, call[j].pc \in {"iread", "iemit"}
      PROVE  lock'[call[j].chan] = j
    <2>1. call[j].chan \in Channel /\ lock[call[j].chan] = j
        BY <1>8 DEF IInv, CallInv, Shape, LockInv
    <2>2. j # None
        BY NoneAssumption
    <2> QED BY <1>6, <1>7, <2>1, <2>2
<1>9. SlotOK' /\ \A j \in Call : j # k => Same(call[j], call'[j])
    BY <1>1, <1>5 DEF Same, IInv, TypeOK, SlotOK
<1>10. \A j \in Call : j # k /\ call[j].pc \in HasRead =>
          call'[j].raced \/ slot'["members"][call[j].chan] = slot["members"][call[j].chan]
    BY <1>1
<1>11. d.pc \in {"iread", "iemit"} => lock'[d.chan] = k
    BY <1>2, <1>7
<1> QED BY <1>1, <1>2, <1>4, <1>5, <1>7, <1>8, <1>9, <1>10, <1>11, MoveInv

\* A lock that is dropped is not one that somebody else holds.
LEMMA DropLock ==
    ASSUME IInv, NEW k \in Call, call[k].pc \in {"iread", "iemit"},
           lock' = [lock EXCEPT ![call[k].chan] = None]
    PROVE  /\ lock' \in [Channel -> Call \cup {None}]
           /\ \A j \in Call : j # k /\ call[j].pc \in {"iread", "iemit"} => lock'[call[j].chan] = j
<1>1. call[k].chan \in Channel /\ lock[call[k].chan] = k
    BY DEF IInv, CallInv, Shape, LockInv
<1>2. lock' \in [Channel -> Call \cup {None}]
    BY DEF IInv, TypeOK
<1>3. ASSUME NEW j \in Call, j # k, call[j].pc \in {"iread", "iemit"}
      PROVE  lock'[call[j].chan] = j
    <2>1. call[j].chan \in Channel /\ lock[call[j].chan] = j
        BY <1>3 DEF IInv, CallInv, Shape, LockInv
    <2> QED BY <1>1, <1>3, <2>1 DEF IInv, TypeOK
<1> QED BY <1>2, <1>3

\* A call that ends leaves the others as they were.
LEMMA EndInv ==
    ASSUME IInv, NEW k \in Call, call' = [call EXCEPT ![k] = Idle], UNCHANGED <<slot, table, now, seeded>>,
           lock' \in [Channel -> Call \cup {None}],
           \A j \in Call : j # k /\ call[j].pc \in {"iread", "iemit"} => lock'[call[j].chan] = j
    PROVE  IInv'
<1>1. PICK d \in CallRec : d = Idle /\ d.pc = "free" /\ Shape(d) /\ \A ev : Current(d, ev)
    BY IdleShape
<1>2. call' \in [Call -> CallRec] /\ call'[k] = d /\ \A j \in Call : j # k => Same(call[j], call'[j])
    BY <1>1 DEF IInv, TypeOK, Same
<1>3. /\ SlotOK' /\ table' \in [Channel -> SUBSET User] /\ now' \in Nat /\ seeded' \in BOOLEAN
      /\ \A j \in Call : j # k /\ call[j].pc \in HasRead =>
            call'[j].raced \/ slot'["members"][call[j].chan] = slot["members"][call[j].chan]
    BY DEF IInv, TypeOK, SlotOK
<1>4. Current(d, slot'["members"][d.chan])
    BY <1>1
<1>5. d.pc \in {"iread", "iemit"} => lock'[d.chan] = k
    BY <1>1
<1> QED BY <1>1, <1>2, <1>3, <1>4, <1>5, MoveInv

\* Writing two fields of an entry is writing the entry.
LEMMA TwoFields ==
    ASSUME NEW f, NEW S, NEW R, f \in [S -> R], NEW k \in S, NEW a, NEW b
    PROVE  [f EXCEPT ![k].pc = a, ![k].members = b] = [f EXCEPT ![k] = [f[k] EXCEPT !.pc = a, !.members = b]]
<1>1. PICK x : x = [f[k] EXCEPT !.pc = a]
    OBVIOUS
<1>2. PICK g : g = [f EXCEPT ![k] = x]
    OBVIOUS
<1>3. g[k] = x /\ DOMAIN g = S
    BY <1>2
<1>4. [g EXCEPT ![k].members = b] = [g EXCEPT ![k] = [x EXCEPT !.members = b]]
    BY <1>3
<1>5. [g EXCEPT ![k] = [x EXCEPT !.members = b]] = [f EXCEPT ![k] = [x EXCEPT !.members = b]]
    BY <1>2
<1>6. [x EXCEPT !.members = b] = [f[k] EXCEPT !.pc = a, !.members = b]
    BY <1>1
<1> QED BY <1>1, <1>2, <1>4, <1>5, <1>6

\* The list of members is read under the lock.
LEMMA InviteReadInv ==
    ASSUME IInv, NEW k \in Call, InviteRead(k)
    PROVE  IInv'
<1>0. PICK x \in CallRec : x = call[k] /\ Shape(x) /\ x.pc = "iread"
    BY DEF IInv, TypeOK, CallInv, InviteRead
<1>1. UNCHANGED <<slot, table, now, seeded>> /\ table' \in [Channel -> SUBSET User] /\ x.chan \in Channel
    BY <1>0 DEF InviteRead, IInv, TypeOK, Shape
<1>2. CASE x.who \in Listed(slot["members"][x.chan])
    <2>1. call' = [call EXCEPT ![k] = Idle] /\ lock' = [lock EXCEPT ![call[k].chan] = None]
        BY <1>0, <1>2 DEF InviteRead
    <2> QED BY <1>0, <1>1, <2>1, DropLock, EndInv
<1>3. CASE x.who \notin Listed(slot["members"][x.chan])
    <2>1. PICK ev \in ListEvent \cup {None} : ev = slot["members"][x.chan]
        BY <1>1 DEF IInv, TypeOK, SlotOK, Kind, Stored
    <2> DEFINE e == [x EXCEPT !.pc = "iemit"]
               d == [x EXCEPT !.pc = "iemit", !.members = ev]
    <2>2. /\ d \in CallRec /\ d.pc = "iemit" /\ d.op = x.op /\ d.chan = x.chan /\ d.who = x.who
          /\ d.target = x.target /\ d.members = ev
        <3>1. /\ e \in CallRec /\ e.pc = "iemit" /\ e.op = x.op /\ e.chan = x.chan /\ e.who = x.who
              /\ e.target = x.target
            BY StepWritten DEF Steps
        <3>2. d = [e EXCEPT !.members = ev]
            OBVIOUS
        <3> HIDE DEF e, d
        <3> QED BY <3>1, <3>2 DEF CallRec
    <2>3. call' = [call EXCEPT ![k] = d] /\ UNCHANGED lock
        <3>1. call' = [call EXCEPT ![k].pc = "iemit", ![k].members = ev] /\ UNCHANGED lock
            BY <1>0, <1>3, <2>1 DEF InviteRead
        <3>2. call \in [Call -> CallRec]
            BY DEF IInv, TypeOK
        <3>3. [call EXCEPT ![k].pc = "iemit", ![k].members = ev]
                 = [call EXCEPT ![k] = [call[k] EXCEPT !.pc = "iemit", !.members = ev]]
            BY <3>2, TwoFields
        <3> QED BY <1>0, <3>1, <3>3
    <2> HIDE DEF d
    <2>4. Shape(d) /\ Current(d, slot["members"][d.chan])
        BY <1>0, <1>3, <2>1, <2>2 DEF Shape, Current
    <2>5. d.pc \in {"iread", "iemit"} => call[k].pc \in {"iread", "iemit"} /\ d.chan = call[k].chan
        BY <1>0, <2>2
    <2> QED BY <1>1, <2>2, <2>3, <2>4, <2>5, QuietMove
<1> QED BY <1>2, <1>3

\* The admission is fanned out.
LEMMA InviteFanInv ==
    ASSUME IInv, NEW k \in Call, InviteFan(k)
    PROVE  IInv'
<1>0. PICK x \in CallRec : x = call[k] /\ Shape(x) /\ x.pc = "ifan"
    BY DEF IInv, TypeOK, CallInv, InviteFan
<1>1. UNCHANGED <<slot, table, lock, now, seeded>> /\ table' \in [Channel -> SUBSET User]
    BY DEF InviteFan, IInv, TypeOK
<1> DEFINE d == [x EXCEPT !.pc = "mirror"]
<1>2. /\ d \in CallRec /\ d.pc = "mirror" /\ d.op = x.op /\ d.chan = x.chan /\ d.who = x.who
      /\ d.target = x.target
    BY DEF CallRec, Steps
<1>3. call' = [call EXCEPT ![k] = d]
    BY <1>0 DEF InviteFan, IInv, TypeOK
<1> HIDE DEF d
<1>4. Shape(d) /\ Current(d, slot["members"][d.chan])
    BY <1>0, <1>2 DEF Shape, Current, HasRead
<1> QED BY <1>1, <1>2, <1>3, <1>4, QuietMove

\* An admission that fails drops the lock if it holds one.
LEMMA InviteFailsInv ==
    ASSUME IInv, NEW k \in Call, InviteFails(k)
    PROVE  IInv'
<1>1. call' = [call EXCEPT ![k] = Idle] /\ UNCHANGED <<slot, table, now, seeded>>
    BY DEF InviteFails
<1>2. lock' = [c \in Channel |-> IF lock[c] = k THEN None ELSE lock[c]]
    BY DEF InviteFails
<1>3. lock' \in [Channel -> Call \cup {None}]
    BY <1>2 DEF IInv, TypeOK
<1>4. ASSUME NEW j \in Call, j # k, call[j].pc \in {"iread", "iemit"}
      PROVE  lock'[call[j].chan] = j
    <2>1. call[j].chan \in Channel /\ lock[call[j].chan] = j
        BY <1>4 DEF IInv, CallInv, Shape, LockInv
    <2> QED BY <1>2, <1>4, <2>1
<1> QED BY <1>1, <1>3, <1>4, EndInv

\* A second passes.
LEMMA TickInv ==
    ASSUME IInv, Tick
    PROVE  IInv'
<1>1. now' \in Nat /\ UNCHANGED <<slot, table, lock, call, seeded>>
    BY DEF Tick, IInv, TypeOK
<1>2. TypeOK'
    BY <1>1 DEF IInv, TypeOK, SlotOK
<1>3. CallInv' /\ LockInv'
    BY <1>1 DEF IInv, CallInv, LockInv
<1> QED BY <1>2, <1>3 DEF IInv

----------------------------------------------------------------------------
(* Storing a list.                                                         *)

\* The date of an event is past the event the call read.
LEMMA DateIsNat ==
    ASSUME now \in Nat, NEW prev, prev = None \/ prev.at \in Nat
    PROVE  DateFor(prev) \in Nat /\ (prev # None => DateFor(prev) > prev.at)
<1>1. CASE prev = None
    BY <1>1 DEF DateFor
<1>2. CASE prev # None
    <2>1. PICK a \in Nat, b \in Nat : a = now /\ b = prev.at + 1
        BY <1>2
    <2>2. PICK m \in {a, b} : m >= a /\ m >= b
        OBVIOUS
    <2>3. \E y \in {a, b} : \A z \in {a, b} : y >= z
        BY <2>2
    <2>4. Max({a, b}) \in {a, b} /\ \A z \in {a, b} : Max({a, b}) >= z
        BY <2>3 DEF Max
    <2>5. PICK q : q = Max({a, b})
        OBVIOUS
    <2>6. q \in Nat /\ q >= b
        BY <2>4, <2>5
    <2>7. DateFor(prev) = q
        BY <1>2, <2>1, <2>5 DEF DateFor
    <2> QED BY <1>2, <2>1, <2>6, <2>7
<1> QED BY <1>1, <1>2

\* One of the two events is stored, the new one when it follows the stored one.
LEMMA Outcomes ==
    ASSUME NEW cur, NEW ev, NEW e \in StoreOutcomes(cur, ev)
    PROVE  /\ e = ev \/ (e = cur /\ cur # None)
           /\ cur = None \/ ev.at > cur.at => e = ev
BY DEF StoreOutcomes

\* The mark of a race is put on whoever has read the list that goes.
LEMMA RaceMarks ==
    ASSUME IInv, NEW k \in Call, NEW c
    PROVE  /\ Race(k, c) \in [Call -> CallRec]
           /\ \A j \in Call : Same(call[j], Race(k, c)[j])
           /\ \A j \in Call : /\ j # k /\ call[j].chan = c /\ call[j].pc \in HasRead
                              /\ ~(Admission(j) /\ Admission(k))
                              => Race(k, c)[j].raced
<1>1. ASSUME NEW j \in Call
      PROVE  /\ Race(k, c)[j] \in CallRec /\ Same(call[j], Race(k, c)[j])
             /\ /\ j # k /\ call[j].chan = c /\ call[j].pc \in HasRead
                /\ ~(Admission(j) /\ Admission(k))
                => Race(k, c)[j].raced
    <2>0. PICK x \in CallRec : x = call[j]
        BY DEF IInv, TypeOK
    <2> DEFINE y == [x EXCEPT !.raced = TRUE]
    <2>1. y \in CallRec /\ Same(x, y) /\ y.raced /\ Same(x, x)
        BY DEF CallRec, Same
    <2>2. Race(k, c)[j] = IF /\ j # k /\ x.chan = c /\ ~(Admission(j) /\ Admission(k)) /\ x.pc \in HasRead
                          THEN y ELSE x
        BY <2>0 DEF Race, HasRead
    <2> HIDE DEF y
    <2> QED BY <2>0, <2>1, <2>2
<1>2. Race(k, c) \in [Call -> CallRec]
    BY <1>1 DEF Race
<1> QED BY <1>1, <1>2

\* A call stores a list and moves on to d.
LEMMA EmitInv ==
    ASSUME IInv, NEW k \in Call, NEW kind \in Kind, NEW val, NEW prev, NEW next, NEW d \in CallRec,
           Emit(k, kind, val, prev, next),
           d = IF next = "free" THEN Idle ELSE [call[k] EXCEPT !.pc = next],
           call[k].pc # "free",
           kind = "meta" => val \in MetaVal, kind # "meta" => val \in SUBSET User,
           prev \in MetaEvent \cup ListEvent \cup {None},
           Shape(d), d.pc \notin {"iread", "iemit"},
           kind # "members" => Current(d, slot["members"][d.chan]) /\ d.chan \in Channel \cup {None},
           kind = "members" => d.pc \notin HasRead,
           kind = "members" => call[k].op \in Command \/ call[k].pc = "iemit",
           table' \in [Channel -> SUBSET User], UNCHANGED <<now, seeded>>,
           lock' \in [Channel -> Call \cup {None}],
           \A j \in Call : j # k /\ call[j].pc \in {"iread", "iemit"} => lock'[call[j].chan] = j
    PROVE  IInv'
<1>0. PICK c \in Channel : c = call[k].chan
    BY DEF IInv, CallInv, Shape
<1>1. PICK ev : ev = [at |-> DateFor(prev), val |-> val]
    OBVIOUS
<1>2. PICK cur \in Stored(kind) : cur = slot[kind][c]
    BY DEF IInv, TypeOK, SlotOK
<1>3. PICK e \in StoreOutcomes(cur, ev) :
         /\ slot' = [slot EXCEPT ![kind][c] = e]
         /\ call' = [(IF kind = "members" /\ e = ev THEN Race(k, c) ELSE call) EXCEPT ![k] = d]
    BY <1>0, <1>1, <1>2, Zenon DEF Emit
<1>4. ev \in Stored(kind)
    <2>1. DateFor(prev) \in Nat
        <3>1. prev = None \/ prev.at \in Nat
            BY DEF MetaEvent, ListEvent
        <3> QED BY <3>1, DateIsNat DEF IInv, TypeOK
    <2> QED BY <1>1, <2>1 DEF Stored, MetaEvent, ListEvent
<1>5. e \in Stored(kind) /\ (e = ev \/ e = cur)
    BY <1>2, <1>3, <1>4, Outcomes
<1>6. /\ slot' \in [Kind -> [Channel -> MetaEvent \cup ListEvent \cup {None}]] /\ slot'[kind][c] = e
      /\ \A q \in Kind, b \in Channel : q # kind \/ b # c => slot'[q][b] = slot[q][b]
    <2>1. e \in MetaEvent \cup ListEvent \cup {None}
        BY <1>5 DEF Stored
    <2> QED BY <1>3, <2>1 DEF IInv, TypeOK, SlotOK
<1>7. SlotOK'
    BY <1>5, <1>6 DEF SlotOK, IInv, TypeOK, Stored
<1>8. PICK f \in [Call -> CallRec] : f = (IF kind = "members" /\ e = ev THEN Race(k, c) ELSE call)
    BY RaceMarks DEF IInv, TypeOK
<1>9. \A j \in Call : Same(call[j], f[j])
    BY <1>8, RaceMarks DEF Same
<1>10. call' = [f EXCEPT ![k] = d]
    BY <1>3, <1>8
<1>11. call' \in [Call -> CallRec] /\ call'[k] = d /\ \A j \in Call : j # k => call'[j] = f[j]
    BY <1>10
<1>12. \A j \in Call : j # k => Same(call[j], call'[j])
    BY <1>9, <1>11
<1>13. ASSUME NEW j \in Call, j # k, call[j].pc \in HasRead
       PROVE  call'[j].raced \/ slot'["members"][call[j].chan] = slot["members"][call[j].chan]
    <2>1. call[j].chan \in Channel
        BY <1>13 DEF IInv, CallInv, Shape, HasRead
    <2>2. CASE kind # "members" \/ call[j].chan # c
        BY <1>6, <2>1, <2>2 DEF Kind
    <2>3. CASE kind = "members" /\ call[j].chan = c /\ e # ev
        BY <1>2, <1>5, <1>6, <2>3
    <2>4. CASE kind = "members" /\ call[j].chan = c /\ e = ev
        <3>1. ~(Admission(j) /\ Admission(k))
            <4>1. SUFFICES ASSUME Admission(j), Admission(k)
                           PROVE  FALSE
                OBVIOUS
            <4>2. "invite" \notin Command
                BY DEF Command
            <4>3. call[k].pc = "iemit"
                BY <2>4, <4>1, <4>2 DEF Admission
            <4>4. call[j].pc = "iemit"
                BY <1>13, <4>1, <4>2 DEF Admission, IInv, CallInv, Shape, HasRead
            <4> QED BY <1>0, <1>13, <2>4, <4>3, <4>4 DEF IInv, LockInv
        <3> QED BY <1>8, <1>11, <1>13, <2>4, <3>1, RaceMarks
    <2> QED BY <2>2, <2>3, <2>4
<1>14. Current(d, slot'["members"][d.chan])
    <2>1. CASE kind = "members"
        BY <2>1 DEF Current
    <2>2. CASE kind # "members" /\ d.chan \in Channel
        BY <1>6, <2>2 DEF Kind
    <2>3. CASE kind # "members" /\ d.chan = None
        <3>1. d.pc = "free"
            BY <2>3, NoneAssumption DEF Shape
        <3> QED BY <3>1 DEF Current, HasRead
    <2> QED BY <2>1, <2>2, <2>3
<1>15. now' \in Nat /\ seeded' \in BOOLEAN
    BY DEF IInv, TypeOK
<1> QED BY <1>7, <1>11, <1>12, <1>13, <1>14, <1>15, MoveInv

\* The metadata is stored.
LEMMA EmitMetaInv ==
    ASSUME IInv, NEW k \in Call, EmitMeta(k)
    PROVE  IInv'
<1>0. PICK x \in CallRec : x = call[k] /\ Shape(x) /\ Current(x, slot["members"][x.chan]) /\ x.pc = "emit_meta"
    BY DEF IInv, TypeOK, CallInv, EmitMeta
<1>1. x.op \in {"create", "edit", "delete"} /\ x.new.meta \in MetaVal /\ x.chan \in Channel
    BY <1>0 DEF Shape
<1>2. PICK next \in {"emit_admins", "emit_members", "free"} :
         /\ next = (CASE x.op = "create" -> "emit_admins" [] x.op = "delete" -> "emit_members" [] OTHER -> "free")
         /\ Emit(k, "meta", x.new.meta, x.meta, next)
    <2>1. PICK n : n = (CASE x.op = "create" -> "emit_admins" [] x.op = "delete" -> "emit_members" [] OTHER -> "free")
        OBVIOUS
    <2>2. n \in {"emit_admins", "emit_members", "free"}
        BY <1>1, <2>1
    <2>3. Emit(k, "meta", x.new.meta, x.meta, n)
        BY <1>0, <2>1 DEF EmitMeta
    <2> QED BY <2>1, <2>2, <2>3
<1>3. /\ lock' = lock /\ table' \in [Channel -> SUBSET User] /\ lock' \in [Channel -> Call \cup {None}]
      /\ UNCHANGED <<now, seeded>> /\ x.meta \in MetaEvent \cup ListEvent \cup {None}
    BY DEF EmitMeta, IInv, TypeOK, CallRec
<1>4. \A j \in Call : j # k /\ call[j].pc \in {"iread", "iemit"} => lock'[call[j].chan] = j
    BY <1>3 DEF IInv, LockInv
<1>5. PICK d \in CallRec :
         /\ d = IF next = "free" THEN Idle ELSE [call[k] EXCEPT !.pc = next]
         /\ Shape(d) /\ Current(d, slot["members"][d.chan]) /\ d.pc \notin {"iread", "iemit"}
         /\ d.chan \in Channel \cup {None}
    <2>1. CASE next = "free"
        <3>1. PICK d \in CallRec : d = Idle /\ d.pc = "free" /\ Shape(d) /\ \A ev : Current(d, ev)
            BY IdleShape
        <3> QED BY <2>1, <3>1 DEF CallRec
    <2>2. CASE next # "free"
        <3> DEFINE e == [x EXCEPT !.pc = next]
        <3>1. /\ e \in CallRec /\ e.pc = next /\ e.op = x.op /\ e.chan = x.chan /\ e.who = x.who
              /\ e.target = x.target /\ e.meta = x.meta /\ e.admins = x.admins
              /\ e.members = x.members /\ e.new = x.new /\ e.raced = x.raced
            BY <1>2 DEF CallRec, Steps
        <3>2. e = IF next = "free" THEN Idle ELSE [call[k] EXCEPT !.pc = next]
            BY <1>0, <2>2
        <3> HIDE DEF e
        <3>3. e.op \in {"create", "delete"} /\ (e.pc = "emit_admins" => e.op = "create")
            BY <1>1, <1>2, <2>2, <3>1
        <3>4. Wanted(e) = Wanted(x)
            BY <3>1 DEF Wanted
        <3>5. Shape(e)
            BY <1>0, <1>2, <2>2, <3>1, <3>3, <3>4 DEF Shape
        <3>6. Current(e, slot["members"][e.chan])
            BY <1>0, <3>1, <3>3 DEF Current, HasRead
        <3> QED BY <1>1, <1>2, <3>1, <3>2, <3>5, <3>6
    <2> QED BY <2>1, <2>2
<1>6. "meta" \in Kind /\ "meta" # "members"
    BY DEF Kind
<1>7. call[k].pc # "free"
    BY <1>0
<1> QED BY <1>1, <1>2, <1>3, <1>4, <1>5, <1>6, <1>7, EmitInv

\* The admins are stored, on a create.
LEMMA EmitAdminsInv ==
    ASSUME IInv, NEW k \in Call, EmitAdmins(k)
    PROVE  IInv'
<1>0. PICK x \in CallRec : x = call[k] /\ Shape(x) /\ Current(x, slot["members"][x.chan]) /\ x.pc = "emit_admins"
    BY DEF IInv, TypeOK, CallInv, EmitAdmins
<1>1. x.op = "create" /\ x.chan \in Channel /\ x.who \in User /\ Emit(k, "admins", {x.who}, x.admins, "emit_members")
    BY <1>0 DEF Shape, EmitAdmins
<1>2. /\ lock' = lock /\ table' \in [Channel -> SUBSET User] /\ lock' \in [Channel -> Call \cup {None}]
      /\ UNCHANGED <<now, seeded>> /\ x.admins \in MetaEvent \cup ListEvent \cup {None}
    BY DEF EmitAdmins, IInv, TypeOK, CallRec
<1>3. \A j \in Call : j # k /\ call[j].pc \in {"iread", "iemit"} => lock'[call[j].chan] = j
    BY <1>2 DEF IInv, LockInv
<1> DEFINE d == [x EXCEPT !.pc = "emit_members"]
<1>4. /\ d \in CallRec /\ d.pc = "emit_members" /\ d.op = x.op /\ d.chan = x.chan /\ d.who = x.who
      /\ d.target = x.target /\ d.meta = x.meta /\ d.admins = x.admins
      /\ d.members = x.members /\ d.new = x.new /\ d.raced = x.raced
    BY DEF CallRec, Steps
<1>5. d = IF "emit_members" = "free" THEN Idle ELSE [call[k] EXCEPT !.pc = "emit_members"]
    BY <1>0
<1> HIDE DEF d
<1>6. Wanted(d) = Wanted(x)
    BY <1>4 DEF Wanted
<1>7. Shape(d) /\ Current(d, slot["members"][d.chan])
    BY <1>0, <1>1, <1>4, <1>6 DEF Shape, Current, HasRead, Command
<1>8. "admins" \in Kind /\ "admins" # "members" /\ "admins" # "meta" /\ {x.who} \in SUBSET User
    BY <1>1 DEF Kind
<1>9. call[k].pc # "free" /\ d.pc \notin {"iread", "iemit"} /\ d.chan \in Channel \cup {None}
    BY <1>0, <1>1, <1>4
<1> QED BY <1>1, <1>2, <1>3, <1>4, <1>5, <1>7, <1>8, <1>9, EmitInv

\* The members are stored.
LEMMA EmitMembersInv ==
    ASSUME IInv, NEW k \in Call, EmitMembers(k)
    PROVE  IInv'
<1>0. PICK x \in CallRec : x = call[k] /\ Shape(x) /\ x.pc = "emit_members"
    BY DEF IInv, TypeOK, CallInv, EmitMembers
<1>1. x.op \in Command /\ x.chan \in Channel /\ x.new.members \in SUBSET User
    BY <1>0 DEF Shape
<1>2. PICK next \in {"mirror", "free"} : Emit(k, "members", x.new.members, x.members, next)
    BY <1>0 DEF EmitMembers
<1>3. /\ lock' = lock /\ table' \in [Channel -> SUBSET User] /\ lock' \in [Channel -> Call \cup {None}]
      /\ UNCHANGED <<now, seeded>> /\ x.members \in MetaEvent \cup ListEvent \cup {None}
    BY DEF EmitMembers, IInv, TypeOK, CallRec
<1>4. \A j \in Call : j # k /\ call[j].pc \in {"iread", "iemit"} => lock'[call[j].chan] = j
    BY <1>3 DEF IInv, LockInv
<1>5. PICK d \in CallRec :
         /\ d = IF next = "free" THEN Idle ELSE [call[k] EXCEPT !.pc = next]
         /\ Shape(d) /\ d.pc \notin {"iread", "iemit"} /\ d.pc \notin HasRead
    <2>1. CASE next = "free"
        <3>1. PICK d \in CallRec : d = Idle /\ d.pc = "free" /\ Shape(d)
            BY IdleShape
        <3> QED BY <2>1, <3>1 DEF HasRead
    <2>2. CASE next = "mirror"
        <3> DEFINE e == [x EXCEPT !.pc = "mirror"]
        <3>1. /\ e \in CallRec /\ e.pc = "mirror" /\ e.chan = x.chan /\ e.who = x.who /\ e.target = x.target
            BY DEF CallRec, Steps
        <3>2. e = IF next = "free" THEN Idle ELSE [call[k] EXCEPT !.pc = next]
            BY <1>0, <2>2
        <3> HIDE DEF e
        <3>3. Shape(e) /\ e.pc \notin HasRead
            BY <1>0, <3>1 DEF Shape, HasRead
        <3> QED BY <3>1, <3>2, <3>3
    <2> QED BY <2>1, <2>2
<1>6. "members" \in Kind /\ "members" # "meta" /\ call[k].pc # "free" /\ call[k].op \in Command
    BY <1>0, <1>1 DEF Kind
<1> QED BY <1>1, <1>2, <1>3, <1>4, <1>5, <1>6, EmitInv

\* An admission stores the list with the claimant on it, and drops the lock.
LEMMA InviteEmitInv ==
    ASSUME IInv, NEW k \in Call, InviteEmit(k)
    PROVE  IInv'
<1>0. PICK x \in CallRec : x = call[k] /\ Shape(x) /\ x.pc = "iemit"
    BY DEF IInv, TypeOK, CallInv, InviteEmit
<1>1. /\ x.chan \in Channel /\ x.who \in User
      /\ Emit(k, "members", Listed(x.members) \cup {x.who}, x.members, "ifan")
    BY <1>0 DEF Shape, InviteEmit
<1>2. /\ table' \in [Channel -> SUBSET User] /\ UNCHANGED <<now, seeded>>
      /\ x.members \in ListEvent \cup {None} /\ x.members \in MetaEvent \cup ListEvent \cup {None}
    BY DEF InviteEmit, IInv, TypeOK, CallRec
<1>3. /\ lock' \in [Channel -> Call \cup {None}]
      /\ \A j \in Call : j # k /\ call[j].pc \in {"iread", "iemit"} => lock'[call[j].chan] = j
    <2>1. lock' = [lock EXCEPT ![call[k].chan] = None] /\ call[k].pc \in {"iread", "iemit"}
        BY <1>0 DEF InviteEmit
    <2> QED BY <2>1, DropLock
<1>4. Listed(x.members) \cup {x.who} \in SUBSET User
    BY <1>1, <1>2, ListedUsers
<1> DEFINE d == [x EXCEPT !.pc = "ifan"]
<1>5. /\ d \in CallRec /\ d.pc = "ifan" /\ d.op = x.op /\ d.chan = x.chan /\ d.who = x.who /\ d.target = x.target
    BY DEF CallRec, Steps
<1>6. d = IF "ifan" = "free" THEN Idle ELSE [call[k] EXCEPT !.pc = "ifan"]
    BY <1>0
<1> HIDE DEF d
<1>7. Shape(d) /\ d.pc \notin {"iread", "iemit"} /\ d.pc \notin HasRead
    BY <1>0, <1>5 DEF Shape, HasRead
<1>8. "members" \in Kind /\ "members" # "meta" /\ call[k].pc # "free" /\ call[k].pc = "iemit"
    BY <1>0 DEF Kind
<1> QED BY <1>1, <1>2, <1>3, <1>4, <1>5, <1>6, <1>7, <1>8, EmitInv

----------------------------------------------------------------------------
(* The demo seed, at start-up.                                             *)

\* What the seed stores is an event of its address, and no admin list.
LEMMA SeedTyped ==
    ASSUME NEW kind \in Kind, NEW at \in Nat
    PROVE  /\ SeedEvent(kind, at) \in Stored(kind)
           /\ kind = "admins" => SeedEvent(kind, at) = None
<1>1. ChannelMeta(FALSE) \in MetaVal
    BY DEF ChannelMeta, MetaVal
<1>2. Demo \in SUBSET User
    BY DemoAssumption
<1>3. CASE kind = "meta"
    BY <1>1, <1>3 DEF SeedEvent, Stored, MetaEvent
<1>4. CASE kind = "members"
    BY <1>2, <1>4 DEF SeedEvent, Stored, ListEvent
<1>5. CASE kind = "admins"
    BY <1>5 DEF SeedEvent, Stored
<1> QED BY <1>3, <1>4, <1>5 DEF Kind

\* Each stored list stays or is the one of the seed.
SeededSlot == \A kind \in Kind, c \in Channel :
    slot'[kind][c] = slot[kind][c]
    \/ (slot'[kind][c] = SeedEvent(kind, now) /\ SeedEvent(kind, now) # None /\ seeded)

\* What a restart leaves behind.
LEMMA RestartEffect ==
    ASSUME IInv, Restart
    PROVE  SlotOK' /\ SeededSlot
<1>1. CASE seeded
    <2>1. PICK f \in [{"meta", "members"} \X Channel -> BOOLEAN] :
            slot' = [kind \in Kind |-> [c \in Channel |->
                IF SeedEvent(kind, now) = None
                   \/ (slot[kind][c] # None /\ (slot[kind][c].at > now
                                               \/ (slot[kind][c].at = now /\ f[<<kind, c>>])))
                THEN slot[kind][c] ELSE SeedEvent(kind, now)]]
        BY <1>1, Zenon DEF Restart
    <2>2. SeededSlot
        BY <1>1, <2>1 DEF SeededSlot
    <2>3. ASSUME NEW kind \in Kind, NEW c \in Channel
          PROVE  slot'[kind][c] \in Stored(kind)
        <3>1. SeedEvent(kind, now) \in Stored(kind) /\ slot[kind][c] \in Stored(kind)
            BY SeedTyped DEF IInv, TypeOK, SlotOK
        <3> QED BY <2>2, <3>1 DEF SeededSlot
    <2>4. slot' \in [Kind -> [Channel -> MetaEvent \cup ListEvent \cup {None}]]
        <3>1. \A kind \in Kind : Stored(kind) \subseteq MetaEvent \cup ListEvent \cup {None}
            BY DEF Stored
        <3>2. \A kind \in Kind : slot'[kind] \in [Channel -> MetaEvent \cup ListEvent \cup {None}]
            BY <2>1, <2>3, <3>1
        <3> QED BY <2>1, <3>2
    <2> QED BY <2>2, <2>3, <2>4 DEF SlotOK
<1>2. CASE ~seeded
    BY <1>2 DEF Restart, SeededSlot, IInv, TypeOK, SlotOK
<1> QED BY <1>1, <1>2

\* After a restart every call is free.
LEMMA RestartInv ==
    ASSUME IInv, Restart
    PROVE  IInv'
<1>1. PICK i \in CallRec : i = Idle /\ i.pc = "free" /\ Shape(i) /\ \A ev : Current(i, ev)
    BY IdleShape
<1>2. call' \in [Call -> CallRec] /\ \A k \in Call : call'[k] = i
    BY <1>1 DEF Restart
<1>3. table' \in [Channel -> SUBSET User]
    BY DemoAssumption DEF Restart, IInv, TypeOK
<1>4. lock' \in [Channel -> Call \cup {None}] /\ now' \in Nat /\ seeded' \in BOOLEAN
    BY DEF Restart, IInv, TypeOK
<1>5. TypeOK'
    BY <1>2, <1>3, <1>4, RestartEffect DEF TypeOK
<1>6. CallInv' /\ LockInv'
    BY <1>1, <1>2 DEF CallInv, LockInv
<1> QED BY <1>5, <1>6 DEF IInv

----------------------------------------------------------------------------
(* The invariant.                                                          *)

\* It holds at the start.
LEMMA InitInv == Init => IInv
<1> SUFFICES ASSUME Init
             PROVE  IInv
    OBVIOUS
<1>1. PICK i \in CallRec : i = Idle /\ i.pc = "free" /\ Shape(i) /\ \A ev : Current(i, ev)
    BY IdleShape
<1>2. call \in [Call -> CallRec] /\ \A k \in Call : call[k] = i
    BY <1>1 DEF Init
<1>3. \A kind \in Kind : Stored(kind) \subseteq MetaEvent \cup ListEvent \cup {None} /\ None \in Stored(kind)
    BY DEF Stored
<1>4. \A kind \in Kind : SeedEvent(kind, 0) \in Stored(kind)
    BY SeedTyped
<1>5. \A kind \in Kind, c \in Channel : slot[kind][c] \in Stored(kind)
    BY <1>3, <1>4 DEF Init
<1>6. slot \in [Kind -> [Channel -> MetaEvent \cup ListEvent \cup {None}]]
    <2>1. \A kind \in Kind : slot[kind] \in [Channel -> MetaEvent \cup ListEvent \cup {None}]
        BY <1>3, <1>5 DEF Init
    <2> QED BY <2>1 DEF Init
<1>7. TypeOK
    BY <1>2, <1>5, <1>6, DemoAssumption DEF Init, TypeOK, SlotOK
<1>8. CallInv /\ LockInv
    BY <1>1, <1>2 DEF CallInv, LockInv
<1> QED BY <1>7, <1>8 DEF IInv

\* Every step keeps it.
LEMMA NextInv == IInv /\ [Next]_vars => IInv'
<1> SUFFICES ASSUME IInv, [Next]_vars
             PROVE  IInv'
    OBVIOUS
<1>1. ASSUME NEW k \in Call, NEW op \in Command, NEW c \in Channel, NEW u \in User, NEW v \in User,
             Submit(k, op, c, u, v)
      PROVE  IInv'
    BY <1>1, SubmitInv
<1>2. ASSUME NEW k \in Call, NEW c \in Channel, NEW u \in User, Admit(k, c, u)
      PROVE  IInv'
    BY <1>2, AdmitInv
<1>3. ASSUME NEW k \in Call, CommandStep(k)
      PROVE  IInv'
    BY <1>3, ReadStateInv, DecideInv, EmitMetaInv, EmitAdminsInv, EmitMembersInv DEF CommandStep
<1>4. ASSUME NEW k \in Call, Stop(k) \/ Mirror(k)
      PROVE  IInv'
    BY <1>4, StopInv, MirrorInv
<1>5. ASSUME NEW k \in Call, AdmissionStep(k)
      PROVE  IInv'
    BY <1>5, InviteMetaInv, InviteReadInv, InviteEmitInv, InviteFanInv DEF AdmissionStep
<1>6. ASSUME NEW k \in Call, InviteLock(k) \/ InviteFails(k)
      PROVE  IInv'
    BY <1>6, InviteLockInv, InviteFailsInv
<1>7. CASE Restart
    BY <1>7, RestartInv
<1>8. CASE Tick
    BY <1>8, TickInv
<1>9. CASE UNCHANGED vars
    <2>1. UNCHANGED <<slot, table, lock, call, now, seeded>>
        BY <1>9 DEF vars
    <2>2. TypeOK'
        BY <2>1 DEF IInv, TypeOK, SlotOK
    <2>3. CallInv' /\ LockInv'
        BY <2>1 DEF IInv, CallInv, LockInv
    <2> QED BY <2>2, <2>3 DEF IInv
<1> QED BY <1>1, <1>2, <1>3, <1>4, <1>5, <1>6, <1>7, <1>8, <1>9 DEF Next

\* Every call stores what it decided from what it read, and no two admissions
\* are between read and store on one channel (nip29.rs:95-269, 338-390).
THEOREM Invariance == Spec => []IInv
BY InitInv, NextInv, PTL DEF Spec

----------------------------------------------------------------------------
(* What a step does to the lists.                                          *)

\* Storing a list touches one address, and the other calls at most get a mark.
LEMMA EmitEffect ==
    ASSUME IInv, NEW k \in Call, NEW kind \in Kind, NEW val, NEW prev, NEW next,
           Emit(k, kind, val, prev, next), call[k].pc # "free"
    PROVE  /\ call'[k].pc \in {next, "free"}
           /\ \A j \in Call : j # k => Same(call[j], call'[j])
           /\ \A q \in Kind, c \in Channel :
                 q # kind \/ c # call[k].chan => slot'[q][c] = slot[q][c]
<1>0. PICK c \in Channel : c = call[k].chan
    BY DEF IInv, CallInv, Shape
<1>1. PICK ev : ev = [at |-> DateFor(prev), val |-> val]
    OBVIOUS
<1>2. PICK e \in StoreOutcomes(slot[kind][c], ev) :
         /\ slot' = [slot EXCEPT ![kind][c] = e]
         /\ call' = [(IF kind = "members" /\ e = ev THEN Race(k, c) ELSE call) EXCEPT
                       ![k] = IF next = "free" THEN Idle ELSE [call[k] EXCEPT !.pc = next]]
    BY <1>0, <1>1, Zenon DEF Emit
<1>3. PICK f \in [Call -> CallRec] : f = (IF kind = "members" /\ e = ev THEN Race(k, c) ELSE call)
    BY RaceMarks DEF IInv, TypeOK
<1>4. \A j \in Call : Same(call[j], f[j])
    BY <1>3, RaceMarks DEF Same
<1>5. PICK d : d = IF next = "free" THEN Idle ELSE [call[k] EXCEPT !.pc = next]
    OBVIOUS
<1>6. call' = [f EXCEPT ![k] = d]
    BY <1>2, <1>3, <1>5
<1>7. call'[k] = d /\ \A j \in Call : j # k => call'[j] = f[j]
    BY <1>6
<1>8. \A q \in Kind, b \in Channel : q # kind \/ b # c => slot'[q][b] = slot[q][b]
    BY <1>2 DEF IInv, TypeOK, SlotOK
<1>9. d.pc \in {next, "free"}
    <2>1. PICK x \in CallRec : x = call[k]
        BY DEF IInv, TypeOK
    <2>2. [x EXCEPT !.pc = next].pc = next
        BY DEF CallRec
    <2>3. Idle.pc = "free"
        BY IdleShape
    <2> QED BY <1>5, <2>1, <2>2, <2>3
<1> QED BY <1>0, <1>4, <1>7, <1>8, <1>9

\* The lists of the other kinds stay.
LEMMA OneList ==
    ASSUME IInv, NEW k \in Call, NEW kind \in Kind, NEW val, NEW prev, NEW next,
           Emit(k, kind, val, prev, next), call[k].pc # "free", NEW q \in Kind, q # kind, NEW c \in Channel
    PROVE  slot'[q][c] = slot[q][c]
<1>1. \A r \in Kind, b \in Channel : r # kind \/ b # call[k].chan => slot'[r][b] = slot[r][b]
    BY EmitEffect, Zenon
<1> QED BY <1>1

\* A call that nobody raced read the stored list, and its own is stored.
LEMMA UnracedStore ==
    ASSUME IInv, NEW k \in Call, NEW val \in SUBSET User, NEW next,
           Emit(k, "members", val, call[k].members, next),
           call[k].pc \in {"emit_members", "iemit"}, ~call[k].raced, call[k].op # "edit"
    PROVE  /\ call[k].members = slot["members"][call[k].chan]
           /\ Listed(slot'["members"][call[k].chan]) = val
<1>0. PICK c \in Channel : c = call[k].chan
    BY DEF IInv, CallInv, Shape
<1>1. PICK cur \in ListEvent \cup {None} : cur = slot["members"][c] /\ cur = call[k].members
    BY <1>0 DEF IInv, TypeOK, SlotOK, Stored, Kind, CallInv, Current, HasRead
<1>2. PICK ev : ev = [at |-> DateFor(cur), val |-> val]
    OBVIOUS
<1>3. PICK e \in StoreOutcomes(cur, ev) : slot' = [slot EXCEPT !["members"][c] = e]
    BY <1>0, <1>1, <1>2, Zenon DEF Emit
<1>4. DateFor(cur) \in Nat /\ (cur # None => DateFor(cur) > cur.at)
    <2>1. cur = None \/ cur.at \in Nat
        BY DEF ListEvent
    <2> QED BY <2>1, DateIsNat DEF IInv, TypeOK
<1>5. ev \in ListEvent /\ ev.val = val /\ ev.at = DateFor(cur)
    BY <1>2, <1>4 DEF ListEvent
<1>6. e = ev
    BY <1>3, <1>4, <1>5, Outcomes
<1>7. slot'["members"][c] = ev
    BY <1>3, <1>6 DEF IInv, TypeOK, SlotOK, Kind
<1>8. Listed(ev) = val
    BY <1>5, NoneApart DEF Listed
<1> QED BY <1>0, <1>1, <1>7, <1>8

\* Only four steps of a call store anything.
LEMMA SlotSteps ==
    ASSUME [Next]_vars
    PROVE  \/ UNCHANGED slot \/ Restart
           \/ \E k \in Call : EmitMeta(k) \/ EmitAdmins(k) \/ EmitMembers(k) \/ InviteEmit(k)
<1>1. ASSUME NEW k \in Call, NEW op \in Command, NEW c \in Channel, NEW u \in User, NEW v \in User,
             Submit(k, op, c, u, v)
      PROVE  UNCHANGED slot
    BY <1>1 DEF Submit
<1>2. ASSUME NEW k \in Call, NEW c \in Channel, NEW u \in User, Admit(k, c, u)
      PROVE  UNCHANGED slot
    BY <1>2 DEF Admit
<1>3. ASSUME NEW k \in Call, ReadState(k) \/ Decide(k) \/ Stop(k) \/ Mirror(k)
      PROVE  UNCHANGED slot
    BY <1>3 DEF ReadState, Decide, Stop, Mirror
<1>4. ASSUME NEW k \in Call, InviteMeta(k) \/ InviteRead(k) \/ InviteFan(k) \/ InviteLock(k) \/ InviteFails(k)
      PROVE  UNCHANGED slot
    BY <1>4 DEF InviteMeta, InviteRead, InviteFan, InviteLock, InviteFails
<1>5. Tick \/ UNCHANGED vars => UNCHANGED slot
    BY DEF Tick, vars
<1> QED BY <1>1, <1>2, <1>3, <1>4, <1>5 DEF Next, CommandStep, AdmissionStep

\* Storing metadata or admins leaves the members alone.
LEMMA OtherLists ==
    ASSUME IInv, NEW k \in Call, NEW c \in Channel
    PROVE  /\ EmitMeta(k) => /\ slot'["members"][c] = slot["members"][c]
                             /\ slot'["admins"][c] = slot["admins"][c]
           /\ EmitAdmins(k) => slot'["members"][c] = slot["members"][c]
           /\ EmitMembers(k) \/ InviteEmit(k) => slot'["admins"][c] = slot["admins"][c]
<1>0. "meta" \in Kind /\ "admins" \in Kind /\ "members" \in Kind
    BY DEF Kind
<1>1. ASSUME EmitMeta(k)
      PROVE  slot'["members"][c] = slot["members"][c] /\ slot'["admins"][c] = slot["admins"][c]
    <2>1. PICK val, prev, next : Emit(k, "meta", val, prev, next) /\ call[k].pc # "free"
        BY <1>1 DEF EmitMeta
    <2> QED BY <1>0, <2>1, OneList
<1>2. ASSUME EmitAdmins(k)
      PROVE  slot'["members"][c] = slot["members"][c]
    <2>1. PICK val, prev, next : Emit(k, "admins", val, prev, next) /\ call[k].pc # "free"
        BY <1>2 DEF EmitAdmins
    <2> QED BY <1>0, <2>1, OneList
<1>3. ASSUME EmitMembers(k) \/ InviteEmit(k)
      PROVE  slot'["admins"][c] = slot["admins"][c]
    <2>1. PICK val, prev, next : Emit(k, "members", val, prev, next) /\ call[k].pc # "free"
        BY <1>3 DEF EmitMembers, InviteEmit
    <2> QED BY <1>0, <2>1, OneList
<1> QED BY <1>1, <1>2, <1>3

----------------------------------------------------------------------------
(* What an admission does to the list.                                     *)

\* Only an admission's own store brings it to its fan-out.
LEMMA FanAfterEmit ==
    ASSUME IInv, [Next]_vars, NEW k \in Call, call[k].pc = "iemit", call'[k].pc = "ifan"
    PROVE  InviteEmit(k)
<1>0. call \in [Call -> CallRec] /\ Idle.pc = "free"
    BY IdleShape DEF IInv, TypeOK
<1>1. call[k].op = "invite" /\ call[k].pc # "free"
    BY DEF IInv, CallInv, Shape
<1>2. ASSUME NEW j \in Call, NEW op \in Command, NEW c \in Channel, NEW u \in User, NEW v \in User,
             Submit(j, op, c, u, v)
      PROVE  FALSE
    BY <1>0, <1>2 DEF Submit
<1>3. ASSUME NEW j \in Call, NEW c \in Channel, NEW u \in User, Admit(j, c, u)
      PROVE  FALSE
    BY <1>0, <1>3 DEF Admit
<1>4. ASSUME NEW j \in Call, j # k, NEW d, call' = [call EXCEPT ![j] = d]
      PROVE  FALSE
    BY <1>0, <1>4
<1>5. ASSUME NEW j \in Call, j # k, \A i \in Call : i # j => Same(call[i], call'[i])
      PROVE  FALSE
    BY <1>5 DEF Same
<1>6. ASSUME NEW j \in Call, ReadState(j) \/ Decide(j) \/ Stop(j) \/ Mirror(j)
      PROVE  FALSE
    <2>1. j # k => \E d : call' = [call EXCEPT ![j] = d]
        <3>1. CASE ReadState(j)
            BY <3>1 DEF ReadState
        <3>2. CASE Decide(j)
            BY <3>2, Zenon DEF Decide
        <3>3. CASE Stop(j) \/ Mirror(j)
            BY <3>3 DEF Stop, Mirror
        <3> QED BY <1>6, <3>1, <3>2, <3>3
    <2>2. j = k => FALSE
        BY <1>1, <1>6 DEF ReadState, Decide, Stop, Mirror, Admission, Kind
    <2> QED BY <1>4, <2>1, <2>2
<1>7. ASSUME NEW j \in Call, InviteMeta(j) \/ InviteRead(j) \/ InviteFan(j) \/ InviteLock(j) \/ InviteFails(j)
      PROVE  FALSE
    <2>1. j # k => call'[k] = call[k]
        BY <1>0, <1>7 DEF InviteMeta, InviteRead, InviteFan, InviteLock, InviteFails
    <2>2. j = k => call' = [call EXCEPT ![k] = Idle]
        BY <1>7 DEF InviteMeta, InviteRead, InviteFan, InviteLock, InviteFails
    <2> QED BY <1>0, <2>1, <2>2
<1>8. ASSUME NEW j \in Call, EmitMeta(j) \/ EmitAdmins(j) \/ EmitMembers(j) \/ (InviteEmit(j) /\ j # k)
      PROVE  FALSE
    <2>1. j # k
        BY <1>8 DEF EmitMeta, EmitAdmins, EmitMembers
    <2>2. PICK kind, val, prev, next :
              kind \in Kind /\ Emit(j, kind, val, prev, next) /\ call[j].pc # "free"
        BY <1>8 DEF EmitMeta, EmitAdmins, EmitMembers, InviteEmit, Kind
    <2>3. \A i \in Call : i # j => Same(call[i], call'[i])
        BY <2>2, EmitEffect, Zenon
    <2> QED BY <1>5, <2>1, <2>3
<1>9. ~Restart
    BY <1>0 DEF Restart
<1>10. ~Tick /\ ~UNCHANGED vars
    BY DEF Tick, vars
<1> QED BY <1>2, <1>3, <1>6, <1>7, <1>8, <1>9, <1>10 DEF Next, CommandStep, AdmissionStep

\* What an admission stores, unless it was raced.
LEMMA AdmissionEffect ==
    ASSUME IInv, NEW k \in Call, InviteEmit(k), ~call[k].raced
    PROVE  LET x == call[k]
           IN /\ ~MemberOf(x.chan, x.who)
              /\ Listed(slot'["members"][x.chan]) = Listed(slot["members"][x.chan]) \cup {x.who}
<1>0. PICK x \in CallRec : x = call[k] /\ Shape(x) /\ Current(x, slot["members"][x.chan]) /\ x.pc = "iemit" /\ ~x.raced
    BY DEF IInv, TypeOK, CallInv, InviteEmit
<1>1. x.chan \in Channel /\ x.who \in User /\ x.who \notin Listed(x.members) /\ x.op = "invite"
    BY <1>0 DEF Shape
<1>2. Listed(x.members) \cup {x.who} \in SUBSET User
    <2>1. Listed(x.members) \in SUBSET User
        BY ListedUsers DEF CallRec
    <2> QED BY <1>1, <2>1
<1>3. PICK val \in SUBSET User : val = Listed(x.members) \cup {x.who}
    BY <1>2
<1>4. Emit(k, "members", val, call[k].members, "ifan")
    BY <1>0, <1>3 DEF InviteEmit
<1>5. call[k].members = slot["members"][call[k].chan] /\ Listed(slot'["members"][call[k].chan]) = val
    BY <1>0, <1>1, <1>4, UnracedStore
<1> QED BY <1>0, <1>1, <1>3, <1>5 DEF MemberOf

\* An admission that no command raced stores the list of that moment with the
\* claimant added, and was needed (nip29.rs:371-384).
THEOREM AdmissionsExtend == Spec => AdmissionExtends
<1>1. IInv /\ [Next]_vars =>
        \A k \in Call :
          LET x == call[k] IN
          x.pc = "iemit" /\ ~x.raced /\ call'[k].pc = "ifan" =>
             /\ ~MemberOf(x.chan, x.who)
             /\ Listed(slot'["members"][x.chan]) = Listed(slot["members"][x.chan]) \cup {x.who}
    BY FanAfterEmit, AdmissionEffect
<1> QED BY <1>1, Invariance, PTL DEF Spec, AdmissionExtends

----------------------------------------------------------------------------
(* Who replaces the admins, and who leaves the list.                       *)

\* The admin list is replaced only by a create that may.
LEMMA AdminsStep ==
    ASSUME IInv, [Next]_vars, NEW c \in Channel, slot["admins"][c] # None,
           slot'["admins"][c] # slot["admins"][c]
    PROVE  \E k \in Call : /\ call[k].pc = "emit_admins" /\ call[k].chan = c /\ call'[k] # call[k]
                          /\ \/ call[k].who \in slot["admins"][c].val
                             \/ call[k].meta = None \/ call[k].admins # slot["admins"][c]
<1>1. ~Restart
    <2>1. SeedEvent("admins", now) = None
        BY DEF SeedEvent
    <2>2. SeededSlot => slot'["admins"][c] = slot["admins"][c]
        BY <2>1 DEF SeededSlot, Kind
    <2> QED BY <2>2, RestartEffect
<1>2. PICK k \in Call : EmitAdmins(k)
    BY <1>1, SlotSteps, OtherLists
<1>3. PICK x \in CallRec : x = call[k] /\ Shape(x) /\ x.pc = "emit_admins"
    BY <1>2 DEF IInv, TypeOK, CallInv, EmitAdmins
<1>4. Emit(k, "admins", {x.who}, x.admins, "emit_members")
    BY <1>2, <1>3 DEF EmitAdmins
<1>5. "admins" \in Kind /\ call[k].pc # "free"
    BY <1>3 DEF Kind
<1>6. /\ call'[k].pc \in {"emit_members", "free"}
      /\ \A q \in Kind, b \in Channel : q # "admins" \/ b # call[k].chan => slot'[q][b] = slot[q][b]
    BY <1>4, <1>5, EmitEffect, Zenon
<1>7. call'[k] # call[k]
    BY <1>3, <1>6
<1>8. x.chan = c
    BY <1>3, <1>5, <1>6
<1>9. x.who \in x.admins.val \/ x.meta = None \/ x.admins = None
    BY <1>3 DEF Shape
<1> QED BY <1>3, <1>7, <1>8, <1>9

\* The admin list of a channel is replaced only by somebody on it, or by a
\* create whose reads of the channel came before that list was stored
\* (nip29.rs:103-109).
THEOREM AdminsReplaced == Spec => AdminsHandOver
<1>1. IInv /\ [Next]_vars =>
        \A c \in Channel :
         LET adm == slot["admins"][c] IN
         adm # None /\ slot'["admins"][c] # adm =>
            \E k \in Call : /\ call[k].pc = "emit_admins" /\ call[k].chan = c /\ call'[k] # call[k]
                            /\ \/ call[k].who \in adm.val
                               \/ call[k].meta = None \/ call[k].admins # adm
    BY AdminsStep
<1> QED BY <1>1, Invariance, PTL DEF Spec, AdminsHandOver

\* A call that stores a list of members moves on.
LEMMA StoreMoves ==
    ASSUME IInv, NEW k \in Call, EmitMembers(k) \/ InviteEmit(k)
    PROVE  call'[k] # call[k]
<1>1. call[k].pc \in {"emit_members", "iemit"} /\ call[k].pc # "free" /\ "members" \in Kind
    BY DEF EmitMembers, InviteEmit, Kind
<1>2. PICK next \in {"mirror", "free", "ifan"} : \E val, prev : Emit(k, "members", val, prev, next)
    BY DEF EmitMembers, InviteEmit
<1>3. call'[k].pc \in {next, "free"}
    BY <1>1, <1>2, EmitEffect, Zenon
<1> QED BY <1>1, <1>2, <1>3

\* Whoever is gone was taken off, or the list was computed from an old one.
LEMMA MembersStep ==
    ASSUME IInv, [Next]_vars, NEW c \in Channel, NEW u \in User,
           u \in Listed(slot["members"][c]), u \notin Listed(slot'["members"][c])
    PROVE  \/ seeded /\ call' = [k \in Call |-> Idle]
           \/ \E k \in Call : /\ call[k].pc \in {"emit_members", "iemit"} /\ call[k].chan = c
                              /\ call'[k] # call[k]
                              /\ (TakesOff(call[k], u) \/ call[k].raced)
<1>0. slot'["members"][c] # slot["members"][c] /\ "members" \in Kind
    BY DEF Kind
<1>1. CASE Restart
    <2>1. call' = [k \in Call |-> Idle]
        BY <1>1 DEF Restart
    <2>2. seeded
        BY <1>0, <1>1, RestartEffect DEF SeededSlot
    <2> QED BY <2>1, <2>2
<1>2. CASE ~Restart
    <2>1. PICK k \in Call : EmitMembers(k) \/ InviteEmit(k)
        BY <1>0, <1>2, SlotSteps, OtherLists
    <2>2. PICK x \in CallRec : x = call[k] /\ Shape(x) /\ x.pc \in {"emit_members", "iemit"}
        BY <2>1 DEF IInv, TypeOK, CallInv, EmitMembers, InviteEmit
    <2>3. x.chan = c
        <3>1. PICK val, prev, next : Emit(k, "members", val, prev, next) /\ call[k].pc # "free"
            BY <2>1 DEF EmitMembers, InviteEmit
        <3>2. \A q \in Kind, b \in Channel : q # "members" \/ b # call[k].chan => slot'[q][b] = slot[q][b]
            BY <1>0, <3>1, EmitEffect, Zenon
        <3> QED BY <1>0, <2>2, <3>2
    <2>4. x.raced \/ TakesOff(x, u)
        <3>1. SUFFICES ASSUME ~x.raced
                       PROVE  TakesOff(x, u)
            OBVIOUS
        <3>2. CASE EmitMembers(k)
            <4>1. x.pc = "emit_members"
                BY <2>2, <3>2 DEF EmitMembers
            <4>2. x.op # "edit" /\ x.op \in Command /\ x.new.members = Wanted(x) /\ Wanted(x) \in SUBSET User
                BY <2>2, <4>1 DEF Shape
            <4>3. PICK val \in SUBSET User : val = Wanted(x) /\ val = x.new.members
                BY <4>2
            <4>4. PICK next : Emit(k, "members", val, call[k].members, next)
                BY <2>2, <3>2, <4>3 DEF EmitMembers
            <4>5. x.members = slot["members"][c] /\ Listed(slot'["members"][c]) = val
                BY <2>2, <2>3, <3>1, <4>2, <4>4, UnracedStore
            <4>6. u \in Listed(x.members) /\ u \notin Wanted(x)
                BY <4>3, <4>5
            <4> QED BY <4>2, <4>6 DEF Wanted, TakesOff, Command
        <3>3. CASE InviteEmit(k)
            <4>1. Listed(slot["members"][c]) \subseteq Listed(slot'["members"][c])
                BY <2>2, <2>3, <3>1, <3>3, AdmissionEffect
            <4> QED BY <4>1
        <3> QED BY <2>1, <3>2, <3>3
    <2>5. call'[k] # call[k]
        BY <2>1, StoreMoves
    <2> QED BY <2>2, <2>3, <2>4, <2>5
<1> QED BY <1>1, <1>2

\* A member disappears from a channel's 39002 only in a command that removes
\* them, in a write computed from a list that a command has replaced since, or
\* when the demo seed runs again (nip29.rs:191-269, 436-505, seed.rs:102).
THEOREM MembersLeave == Spec => MembersLeaveByDecision
<1>1. IInv /\ [Next]_vars =>
        \A c \in Channel, u \in User :
         u \in Listed(slot["members"][c]) /\ u \notin Listed(slot'["members"][c]) =>
            \/ seeded /\ call' = [k \in Call |-> Idle]
            \/ \E k \in Call : /\ call[k].pc \in {"emit_members", "iemit"} /\ call[k].chan = c
                               /\ call'[k] # call[k]
                               /\ (TakesOff(call[k], u) \/ call[k].raced)
    BY MembersStep
<1>2. IInv /\ [Next]_vars =>
        \A c \in Channel, u \in User :
         MemberOf(c, u) /\ ~MemberOf(c, u)' =>
            \/ /\ seeded /\ call' = [k \in Call |-> Idle]
            \/ \E k \in Call : /\ call[k].pc \in {"emit_members", "iemit"} /\ call[k].chan = c
                               /\ call'[k] # call[k]
                               /\ (TakesOff(call[k], u) \/ call[k].raced)
    BY <1>1 DEF MemberOf, Listed
<1> QED BY <1>2, Invariance, PTL DEF Spec, MembersLeaveByDecision
=============================================================================
