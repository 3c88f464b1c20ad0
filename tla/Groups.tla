------------------------------- MODULE Groups -------------------------------
(***************************************************************************)
(* NIP-29 group state (src/src/nip29.rs, src/src/seed.rs).                 *)
(*                                                                         *)
(* There is no channel table: the relay's own replaceable events 39000     *)
(* (metadata), 39001 (admins) and 39002 (members) are the state.  A group  *)
(* command reads them back, one query each, applies its change and signs   *)
(* the whole list again; an admission from an invite does the same under a *)
(* lock of its channel.  Commands take no lock, so what one of them read   *)
(* can be replaced before it stores.                                       *)
(*                                                                         *)
(* A call is one HTTP or WebSocket command, or one admission; a step is    *)
(* what it does between two awaits.  An event's id is a hash, so which of  *)
(* two events with one date wins the NIP-01 tie-break is a free choice.    *)
(* Tags are abstracted to what admission depends on: who is listed and     *)
(* whether the channel is open; roles, names and the archived and deleted  *)
(* marks decide nothing here.                                              *)
(***************************************************************************)
EXTENDS Integers, FiniteSets, FiniteSetsExt

CONSTANTS Channel,   \* channel ids
          User,      \* pubkeys
          Call,      \* calls that may be in flight at once
          Demo,      \* the pubkeys the demo seed makes members (TEST_MEMBERS)
          MaxNow,    \* bound: the last second of the clock
          MaxCalls,  \* bound: the number of calls ever made
          None

ASSUME DemoAssumption == Demo \subseteq User
ASSUME BoundAssumption == MaxNow \in Nat /\ MaxCalls \in Nat
ASSUME NoneAssumption ==
    /\ None \notin Channel \cup User \cup Call /\ \A S \in SUBSET User : None # S
    /\ None \notin [private : BOOLEAN] /\ None \notin [at : Nat, val : [private : BOOLEAN] \cup SUBSET User]

VARIABLES slot,    \* slot[kind][c]: the stored event of that address
          table,   \* members table of the history store, per channel
          lock,    \* INVITE_CHANNEL_LOCKS: the admission holding a channel
          call,    \* the calls in flight
          made,    \* how many calls were made
          now,     \* the wall clock, in seconds
          seeded   \* Settings::seed_demo

vars == <<slot, table, lock, call, made, now, seeded>>

Kind == {"meta", "admins", "members"}
Command == {"create", "edit", "add", "remove", "join", "leave", "delete"}

Idle == [pc |-> "free", op |-> None, chan |-> None, who |-> None, target |-> None,
         meta |-> None, admins |-> None, members |-> None, new |-> None,
         raced |-> FALSE]

ChannelMeta(private) == [private |-> private]

\* The event seed_channel stores at start-up for an open channel: it is built
\* with no predecessor.
SeedEvent(kind, at) ==
    CASE kind = "meta" -> [at |-> at, val |-> ChannelMeta(FALSE)]
      [] kind = "members" -> [at |-> at, val |-> Demo]
      [] OTHER -> None

Init == /\ seeded \in BOOLEAN
        /\ now = 0 /\ made = 0
        /\ slot = [kind \in Kind |-> [c \in Channel |-> IF seeded THEN SeedEvent(kind, 0) ELSE None]]
        /\ table = [c \in Channel |-> IF seeded THEN Demo ELSE {}]
        /\ lock = [c \in Channel |-> None]
        /\ call = [k \in Call |-> Idle]

----------------------------------------------------------------------------
(* Storing a relay-authored replaceable.                                   *)

\* MemberSet: the p entries of a list, none when there is no event.
Listed(ev) == IF ev = None THEN {} ELSE ev.val

\* emit forces the date past the event the call read.
DateFor(prev) == IF prev = None THEN now ELSE Max({now, prev.at + 1})

\* store_relay_authored: the newer date wins, a tie goes to the lower id.
StoreOutcomes(cur, ev) ==
    IF cur = None \/ ev.at > cur.at THEN {ev}
    ELSE IF ev.at = cur.at THEN {ev, cur} ELSE {cur}

Admission(k) == call[k].op = "invite"

\* What the other calls on the channel have read is no longer stored.  Two
\* admissions never do this to each other, which AdmissionExtends relies on.
Race(k, c) == [j \in Call |->
    IF /\ j # k /\ call[j].chan = c /\ ~(Admission(j) /\ Admission(k))
       /\ call[j].pc \in {"decide", "emit_meta", "emit_admins", "emit_members", "iemit"}
    THEN [call[j] EXCEPT !.raced = TRUE] ELSE call[j]]

\* Sign and store one list.  Whether it was stored is not reported: the call
\* goes on as if it had been.
Emit(k, kind, val, prev, next) ==
    LET c == call[k].chan
        ev == [at |-> DateFor(prev), val |-> val]
    IN \E e \in StoreOutcomes(slot[kind][c], ev) :
        /\ slot' = [slot EXCEPT ![kind][c] = e]
        /\ call' = [(IF kind = "members" /\ e = ev THEN Race(k, c) ELSE call) EXCEPT
                      ![k] = IF next = "free" THEN Idle
                             ELSE [call[k] EXCEPT !.pc = next]]

----------------------------------------------------------------------------
(* execute: the three reads, the decision, then the lists one by one.      *)

Submit(k, op, c, u, v) ==
    /\ call[k].pc = "free" /\ made < MaxCalls /\ made' = made + 1
    /\ (op \in {"add", "remove"} \/ v = u)
    /\ call' = [call EXCEPT ![k] =
                  [Idle EXCEPT !.pc = "meta", !.op = op, !.chan = c, !.who = u, !.target = v]]
    /\ UNCHANGED <<slot, table, lock, now, seeded>>

\* latest_addressable, once for each kind.
ReadState(k) ==
    \E kind \in Kind :
        /\ call[k].pc = kind
        /\ call' = [call EXCEPT ![k] = [@ EXCEPT ![kind] = slot[kind][call[k].chan],
                      !.pc = CASE kind = "meta" -> "admins"
                               [] kind = "admins" -> "members"
                               [] kind = "members" -> "decide"]]
        /\ UNCHANGED <<slot, table, lock, made, now, seeded>>

\* The admin list decides when there is one, else the members table.
IsAuthorized(k) == LET x == call[k] IN
    IF x.admins # None THEN x.who \in x.admins.val ELSE x.who \in table[x.chan]

\* Re-creating a channel is gated like any other change of it.
MayRun_faulty(k) == LET x == call[k] IN
    CASE x.op = "create" -> TRUE
      [] x.op \in {"edit", "add", "remove", "delete"} -> x.meta # None /\ IsAuthorized(k)
      [] x.op = "join" -> x.meta # None /\ ~x.meta.val.private
      [] x.op = "leave" -> x.meta # None

MayRun(k) == LET x == call[k] IN
    CASE x.op = "create" -> x.meta = None \/ IsAuthorized(k)
      [] x.op \in {"edit", "add", "remove", "delete"} -> x.meta # None /\ IsAuthorized(k)
      [] x.op = "join" -> x.meta # None /\ ~x.meta.val.private
      [] x.op = "leave" -> x.meta # None

\* The lists the command asks for, from what the call has read.
NewMeta(k) == LET x == call[k] IN
    CASE x.op = "create" -> {ChannelMeta(p) : p \in BOOLEAN}
      [] x.op = "edit" -> {[x.meta.val EXCEPT !.private = p] : p \in BOOLEAN}
      [] x.op = "delete" -> {x.meta.val}
      [] OTHER -> {None}

NewMembers_faulty(k) == LET x == call[k]
                            old == Listed(x.members) IN
    CASE x.op \in {"add", "join"} -> old \cup {x.target}
      [] x.op \in {"remove", "leave"} -> old \ {x.target}
      [] x.op = "create" -> {x.who}
      [] x.op = "delete" -> {}
      [] OTHER -> None

NewMembers(k) == LET x == call[k]
                     old == Listed(x.members) IN
    CASE x.op \in {"create", "add", "join"} -> old \cup {x.target}
      [] x.op \in {"remove", "leave"} -> old \ {x.target}
      [] x.op = "delete" -> {}
      [] OTHER -> None

\* What the command does not replace is forgotten.
Decide(k) == LET x == call[k] IN
    /\ x.pc = "decide" /\ MayRun(k)
    /\ \E m \in NewMeta(k) :
        call' = [call EXCEPT ![k] = [x EXCEPT
            !.new = [meta |-> m, members |-> NewMembers(k)],
            !.meta = IF m = None THEN None ELSE x.meta,
            !.admins = IF x.op = "create" THEN x.admins ELSE None,
            !.members = IF NewMembers(k) = None THEN None ELSE x.members,
            !.pc = IF m # None THEN "emit_meta" ELSE "emit_members"]]
    /\ UNCHANGED <<slot, table, lock, made, now, seeded>>

\* emit_metadata.  Its seed_visibility does nothing: the trait's default, which the
\* engine the binary runs with does not override (engine_api.rs, history_adapter.rs).
EmitMeta(k) == LET x == call[k] IN
    /\ x.pc = "emit_meta"
    /\ Emit(k, "meta", x.new.meta, x.meta,
            CASE x.op = "create" -> "emit_admins" [] x.op = "delete" -> "emit_members" [] OTHER -> "free")
    /\ UNCHANGED <<table, lock, made, now, seeded>>

EmitAdmins(k) == LET x == call[k] IN
    /\ x.pc = "emit_admins"
    /\ Emit(k, "admins", {x.who}, x.admins, "emit_members")
    /\ UNCHANGED <<table, lock, made, now, seeded>>

EmitMembers(k) == LET x == call[k] IN
    /\ x.pc = "emit_members"
    /\ Emit(k, "members", x.new.members, x.members,
            IF x.op \in {"create", "add", "join"} THEN "mirror" ELSE "free")
    /\ UNCHANGED <<table, lock, made, now, seeded>>

\* seed_member: the table only grows.
Mirror(k) ==
    /\ call[k].pc = "mirror"
    /\ table' = [table EXCEPT ![call[k].chan] = @ \cup {call[k].target}]
    /\ call' = [call EXCEPT ![k] = Idle]
    /\ UNCHANGED <<slot, lock, made, now, seeded>>

\* A refusal, a tag that is missing, a failing store, or an HTTP client that
\* goes away: the command stops where it is and what it stored stays.
Stop(k) ==
    /\ ~Admission(k) /\ call[k].pc # "free"
    /\ call' = [call EXCEPT ![k] = Idle]
    /\ UNCHANGED <<slot, table, lock, made, now, seeded>>

----------------------------------------------------------------------------
(* add_member_from_invite.                                                 *)

Admit(k, c, u) ==
    /\ call[k].pc = "free" /\ made < MaxCalls /\ made' = made + 1
    /\ call' = [call EXCEPT ![k] = [Idle EXCEPT !.pc = "imeta", !.op = "invite",
                                                !.chan = c, !.who = u, !.target = u]]
    /\ UNCHANGED <<slot, table, lock, now, seeded>>

\* An unknown group is refused before the lock is taken.
InviteMeta(k) ==
    /\ call[k].pc = "imeta"
    /\ call' = [call EXCEPT ![k] = IF slot["meta"][call[k].chan] = None THEN Idle
                                   ELSE [@ EXCEPT !.pc = "lock"]]
    /\ UNCHANGED <<slot, table, lock, made, now, seeded>>

InviteLock_faulty(k) ==
    /\ call[k].pc = "lock"
    /\ call' = [call EXCEPT ![k].pc = "iread"]
    /\ UNCHANGED <<slot, table, lock, made, now, seeded>>

InviteLock(k) ==
    /\ call[k].pc = "lock" /\ lock[call[k].chan] = None
    /\ lock' = [lock EXCEPT ![call[k].chan] = k]
    /\ call' = [call EXCEPT ![k].pc = "iread"]
    /\ UNCHANGED <<slot, table, made, now, seeded>>

\* Existing: somebody already listed is left as they are.
InviteRead(k) == LET c == call[k].chan IN
    /\ call[k].pc = "iread"
    /\ IF call[k].who \in Listed(slot["members"][c])
       THEN /\ call' = [call EXCEPT ![k] = Idle]
            /\ lock' = [lock EXCEPT ![c] = None]
       ELSE /\ call' = [call EXCEPT ![k].pc = "iemit", ![k].members = slot["members"][c]]
            /\ UNCHANGED lock
    /\ UNCHANGED <<slot, table, made, now, seeded>>

\* The lock is dropped before the fan-out.
InviteEmit(k) == LET x == call[k] IN
    /\ x.pc = "iemit"
    /\ Emit(k, "members", Listed(x.members) \cup {x.who}, x.members, "ifan")
    /\ lock' = [lock EXCEPT ![x.chan] = None]
    /\ UNCHANGED <<table, made, now, seeded>>

\* Added: the event is fanned out and mirrored.
InviteFan(k) ==
    /\ call[k].pc = "ifan"
    /\ call' = [call EXCEPT ![k].pc = "mirror"]
    /\ UNCHANGED <<slot, table, lock, made, now, seeded>>

\* A failing read or store: the admission reports an error.
InviteFails(k) ==
    /\ call[k].pc \in {"imeta", "iread", "iemit"}
    /\ call' = [call EXCEPT ![k] = Idle]
    /\ lock' = [c \in Channel |-> IF lock[c] = k THEN None ELSE lock[c]]
    /\ UNCHANGED <<slot, table, made, now, seeded>>

----------------------------------------------------------------------------

\* The process stops and starts again; seed_demo runs before the listener.
Restart ==
    /\ call' = [k \in Call |-> Idle]
    /\ lock' = [c \in Channel |-> None]
    /\ IF seeded
       THEN /\ \E f \in [{"meta", "members"} \X Channel -> BOOLEAN] :
                 slot' = [kind \in Kind |-> [c \in Channel |->
                    LET cur == slot[kind][c]
                        ev == SeedEvent(kind, now)
                    IN IF ev = None \/ (cur # None /\ (cur.at > now \/ (cur.at = now /\ f[<<kind, c>>])))
                       THEN cur ELSE ev]]
            /\ table' = [c \in Channel |-> table[c] \cup Demo]
       ELSE UNCHANGED <<slot, table>>
    /\ UNCHANGED <<made, now, seeded>>

Tick == now < MaxNow /\ now' = now + 1 /\ UNCHANGED <<slot, table, lock, call, made, seeded>>

CommandStep(k) == ReadState(k) \/ Decide(k) \/ EmitMeta(k) \/ EmitAdmins(k) \/ EmitMembers(k)

AdmissionStep(k) == InviteMeta(k) \/ InviteRead(k) \/ InviteEmit(k) \/ InviteFan(k)

Next ==
    \/ \E k \in Call, op \in Command, c \in Channel, u, v \in User : Submit(k, op, c, u, v)
    \/ \E k \in Call, c \in Channel, u \in User : Admit(k, c, u)
    \/ \E k \in Call : \/ CommandStep(k) \/ Stop(k) \/ Mirror(k)
                       \/ AdmissionStep(k) \/ InviteLock(k) \/ InviteFails(k)
    \/ Restart \/ Tick

Spec == Init /\ [][Next]_vars

----------------------------------------------------------------------------
(* Properties.                                                             *)

MemberOf(c, u) == u \in Listed(slot["members"][c])

\* The commands that are meant to take u off the list.
TakesOff(x, u) == (x.op \in {"remove", "leave"} /\ x.target = u) \/ x.op = "delete"

\* A member disappears from a channel's 39002 only in a command that removes
\* them, in a write computed from a list that a command has replaced since, or
\* when the demo seed runs again (nip29.rs:191-269, 436-505, seed.rs:102).
MembersLeaveByDecision ==
    [][\A c \in Channel, u \in User :
         MemberOf(c, u) /\ ~MemberOf(c, u)' =>
            \/ /\ seeded /\ call' = [k \in Call |-> Idle]
            \/ \E k \in Call : /\ call[k].pc \in {"emit_members", "iemit"} /\ call[k].chan = c
                               /\ call'[k] # call[k]
                               /\ (TakesOff(call[k], u) \/ call[k].raced)]_vars

\* An admission that no command raced stores the list of that moment with the
\* claimant added, and was needed: admissions never undo or repeat one another
\* (nip29.rs:371-384).
AdmissionExtends ==
    [][\A k \in Call :
         LET x == call[k] IN
         x.pc = "iemit" /\ ~x.raced /\ call'[k].pc = "ifan" =>
            /\ ~MemberOf(x.chan, x.who)
            /\ Listed(slot'["members"][x.chan])
                 = Listed(slot["members"][x.chan]) \cup {x.who}]_vars

\* The admin list of a channel is replaced only by somebody on it, or by a
\* create whose reads of the channel came before that list was stored
\* (nip29.rs:103-109).
AdminsHandOver ==
    [][\A c \in Channel :
         LET adm == slot["admins"][c] IN
         adm # None /\ slot'["admins"][c] # adm =>
            \E k \in Call : /\ call[k].pc = "emit_admins" /\ call[k].chan = c /\ call'[k] # call[k]
                            /\ \/ call[k].who \in adm.val
                               \/ call[k].meta = None \/ call[k].admins # adm]_vars
============================================================================
