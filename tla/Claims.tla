------------------------------- MODULE Claims -------------------------------
(***************************************************************************)
(* Invite claims (src/src/m1b.rs, src/src/invites.rs) over the direct      *)
(* message transport (src/src/direct_transport.rs).                        *)
(*                                                                         *)
(* A joiner posts an invite code to a bridge.  When the bridge is the      *)
(* authority the code names, the claim goes to its own worker through a    *)
(* bounded queue; otherwise it is sent to the authority as a direct        *)
(* message, whose dispatcher queues it for the worker there, and the       *)
(* decision comes back as another message.  Either way the HTTP request    *)
(* waits on a oneshot with a timeout, and a guard gives back its pending   *)
(* entry and its permit however the request ends.                          *)
(*                                                                         *)
(* A direct message may come late, never, out of order, or again, since    *)
(* the daemon replays stored rows on every reconnect of the event stream:  *)
(* the inbox between the stream and the dispatcher adds nothing to that.   *)
(* A proof of the joiner's key is the request it was made for; it names a  *)
(* second of its own, and the record that it was used lapses after a TTL.  *)
(*                                                                         *)
(* Nothing times the calls on the daemon of a bridge: while it hangs, what *)
(* was sent to it does not return.                                         *)
(***************************************************************************)
EXTENDS Integers, Sequences, FiniteSets, Functions

CONSTANTS Bridge, Joiner, Req,
          Stranger,    \* agents that are no bridge of this model
          Code,        \* invite codes: [cid, aid : Bridge, exp : Nat]
          Policies,    \* Policies[b]: the join policies b may run with (None is off)
          MaxReceipts, \* bound: policy receipts issued
          Ttl,         \* nip98_ttl_secs
          Skew,        \* how far from the clock a proof may be dated
          Edited,      \* bound: the lists <<b, l>> on which group commands act
          Hanging,     \* bound: the bridges whose daemon may hang
          MaxPending,  \* MAX_PENDING_CLAIMS
          QueueCap,    \* capacity of the work channel
          MaxStray,    \* bound: messages no bridge has sent
          MaxNow,      \* bound: the last second of the clock
          MaxBoots,    \* bound: restarts of the bridges together
          None

ASSUME CapAssumption == MaxPending \in Nat \ {0} /\ QueueCap \in Nat \ {0}
ASSUME BoundAssumption == MaxNow \in Nat /\ MaxBoots \in Nat /\ MaxStray \in Nat
ASSUME TtlAssumption == Ttl \in Nat \ {0} /\ Skew \subseteq -Ttl..Ttl
ASSUME StrangerAssumption == Stranger \cap Bridge = {}
ASSUME CodeAssumption == \A c \in Code : c.cid \in Bridge /\ c.aid \in Bridge /\ c.exp \in Nat

VARIABLES req,       \* the claim requests, by request id
          pending,   \* pending[b][bus]: request ids in the pending map
          permits,   \* permits[b][bus]: free permits of its semaphore
          queue,     \* queue[b]: the work channel
          worker,    \* worker[b]: the claim being adjudicated
          held,      \* held[b]: the claim the dispatcher waits to enqueue
          seen,      \* seen[b][r]: when the record of the proof of r expires
          mail,      \* mail[b]: direct messages the daemon of b can deliver
          lists,     \* lists[b][l]: pubkeys on the 39002 of the primary channel, of another
          enlisted,  \* enlisted[b]: who has ever been on one of them
          minted, accepted,   \* codes signed, receipts issued
          policy,    \* policy[b]: the join policy since the last start
          running, boots, now,
          hung,      \* hung[b]: the daemon of b takes calls and answers none
          decided,   \* decided[r]: the decisions taken on the claim so far
          taken,     \* taken[r]: the seconds in which it was taken up, in this
                     \* life of the authority
          rulings    \* rulings[r]: how often it was decided in this life

busState == <<req, pending, permits>>
record == <<enlisted, lists>>
tally == <<taken, rulings>>
authority == <<queue, worker, held, seen, record, decided, tally>>
service == <<minted, accepted, policy>>
process == <<running, boots, now, hung>>
vars == <<busState, authority, mail, service, process>>

Bus == {"local", "direct"}
List == {"primary", "other"}
Refusal == {"invalid_code", "expired", "policy", "write_failed"}
Result == {"joined", "already"} \cup Refusal

ASSUME NoneAssumption == None \notin Bridge \cup Result \cup {"closed"}

NoReq == [pc |-> "new", at |-> None, bus |-> None, joiner |-> None, code |-> None,
          receipt |-> None, date |-> 0, reply |-> None, answer |-> None]

Init == /\ req = [r \in Req |-> NoReq]
        /\ pending = [b \in Bridge |-> [x \in Bus |-> {}]]
        /\ permits = [b \in Bridge |-> [x \in Bus |-> MaxPending]]
        /\ queue = [b \in Bridge |-> <<>>]
        /\ worker = [b \in Bridge |-> None]
        /\ held = [b \in Bridge |-> None]
        /\ seen = [b \in Bridge |-> [r \in Req |-> 0]]
        /\ mail = [b \in Bridge |-> {}]
        /\ lists = [b \in Bridge |-> [l \in List |-> {}]]
        /\ enlisted = [b \in Bridge |-> {}]
        /\ minted = {} /\ accepted = {}
        /\ policy \in {f \in [Bridge -> UNION {Policies[b] : b \in Bridge}] : \A b \in Bridge : f[b] \in Policies[b]}
        /\ running = [b \in Bridge |-> TRUE]
        /\ boots = [b \in Bridge |-> 0]
        /\ now = 0
        /\ hung = [b \in Bridge |-> FALSE]
        /\ decided = [r \in Req |-> {}]
        /\ taken = [r \in Req |-> <<>>]
        /\ rulings = [r \in Req |-> 0]

----------------------------------------------------------------------------
(* Invite service.                                                         *)

\* mint, for a community admin: the lifetime is at least one second.
Mint(b, c) ==
    /\ running[b] /\ c \notin minted
    /\ c.cid = b /\ c.aid = b /\ c.exp > now
    /\ minted' = minted \cup {c}
    /\ UNCHANGED <<busState, authority, mail, accepted, policy, process>>

\* accept_policy: the code is bound, not verified.
AcceptPolicy(b, c, age) ==
    /\ running[b] /\ policy[b] # None /\ Cardinality(accepted) < MaxReceipts
    /\ accepted' = accepted \cup {[by |-> b, code |-> c, version |-> policy[b].version, age |-> age]}
    /\ UNCHANGED <<busState, authority, mail, minted, policy, process>>

----------------------------------------------------------------------------
(* The waiting side: post_claim, claimant_claim and the two buses.         *)

\* PendingEntryGuard: the request ends, its entry and its permit go back.
Finish_faulty(r, answer) ==
    LET b == req[r].at  x == req[r].bus IN
    /\ req' = [req EXCEPT ![r].pc = "done", ![r].reply = None, ![r].answer = answer]
    /\ permits' = [permits EXCEPT ![b][x] = @ + 1]
    /\ UNCHANGED pending

Finish(r, answer) ==
    LET b == req[r].at  x == req[r].bus IN
    /\ req' = [req EXCEPT ![r].pc = "done", ![r].reply = None, ![r].answer = answer]
    /\ permits' = [permits EXCEPT ![b][x] = @ + 1]
    /\ pending' = [pending EXCEPT ![b][x] = @ \ {r}]

\* The code routes the claim; an expired one is refused at once, and so is a
\* claim that finds no free permit.  The door takes a proof that is dated at
\* most a TTL from its clock, before or after.
Claim(r, b, j, c, rc, k) ==
    LET x == IF c.aid = b THEN "local" ELSE "direct"
        q == [NoReq EXCEPT !.at = b, !.bus = x, !.joiner = j, !.code = c, !.receipt = rc,
                           !.date = now + k]
    IN /\ req[r].pc = "new" /\ running[b] /\ c.exp > now
       /\ IF permits[b][x] = 0
          THEN /\ req' = [req EXCEPT ![r] = [q EXCEPT !.pc = "done", !.answer = "unavailable"]]
               /\ UNCHANGED <<pending, permits>>
          ELSE /\ req' = [req EXCEPT ![r] = [q EXCEPT !.pc = "send"]]
               /\ permits' = [permits EXCEPT ![b][x] = @ - 1]
               /\ pending' = [pending EXCEPT ![b][x] = @ \cup {r}]
       /\ UNCHANGED <<authority, mail, service, process>>

Work(r, to) == [rid |-> r, to |-> to, step |-> "queued", result |-> None]

\* The claim is given to the authority for adjudication.
TakeUp(r) == taken' = [taken EXCEPT ![r] = Append(@, now)] /\ UNCHANGED rulings

\* LocalAuthorityBus: wait for room in the work channel, however long.  Once
\* cancelled the worker takes nothing more, and when it has ended the channel
\* is closed.
Enqueue(r) ==
    LET b == req[r].at IN
    /\ req[r].pc = "send" /\ req[r].bus = "local"
    /\ \/ /\ running[b] /\ Len(queue[b]) < QueueCap
          /\ queue' = [queue EXCEPT ![b] = Append(@, Work(r, None))]
          /\ req' = [req EXCEPT ![r].pc = "wait"]
          /\ TakeUp(r)
          /\ UNCHANGED <<pending, permits>>
       \/ /\ ~running[b] /\ worker[b] # None
          /\ req' = [req EXCEPT ![r].pc = "wait"]
          /\ UNCHANGED <<queue, pending, permits, tally>>
       \/ /\ ~running[b] /\ worker[b] = None
          /\ Finish(r, "unavailable")
          /\ UNCHANGED <<queue, tally>>
    /\ UNCHANGED <<worker, held, seen, record, decided, mail, service, process>>

Msg(kind, r, from, result) ==
    [kind |-> kind, rid |-> r, from |-> from, verified |-> TRUE, result |-> result]

\* POST /direct/send: the daemon of the target has the message from now on.
Post(b, m) == mail' = [mail EXCEPT ![b] = @ \cup {m}]

\* DirectAuthorityBus: a receipt is not an answer; an error may come after the
\* message was accepted.
SendClaim(r) ==
    /\ req[r].pc = "send" /\ req[r].bus = "direct" /\ ~hung[req[r].at]
    /\ Post(req[r].code.aid, Msg("claim", r, req[r].at, None)) \/ UNCHANGED mail
    /\ \/ /\ req' = [req EXCEPT ![r].pc = "wait"] /\ UNCHANGED <<pending, permits>>
       \/ Finish(r, "unavailable")
    /\ UNCHANGED <<authority, service, process>>

\* The oneshot delivered, or its sender was dropped.
Answer(r) ==
    /\ req[r].pc = "wait" /\ req[r].reply # None
    /\ Finish(r, IF req[r].reply = "closed" THEN "unavailable" ELSE req[r].reply)
    /\ UNCHANGED <<authority, mail, service, process>>

\* claim_timeout runs out first.
Timeout_faulty(r) ==
    /\ req[r].pc = "wait" /\ req[r].reply = None
    /\ r \in pending[req[r].at]["direct"]
    /\ Finish(r, "unavailable")
    /\ UNCHANGED <<authority, mail, service, process>>

Timeout(r) ==
    /\ req[r].pc = "wait" /\ req[r].reply = None
    /\ Finish(r, "unavailable")
    /\ UNCHANGED <<authority, mail, service, process>>

\* The client goes away and the future is dropped where it waits.
Disconnect(r) ==
    /\ req[r].pc \in {"send", "wait"}
    /\ Finish(r, "unavailable")
    /\ UNCHANGED <<authority, mail, service, process>>

----------------------------------------------------------------------------
(* The authority: worker and adjudication.                                 *)

\* The policy gate: a receipt this authority issued for this code and the
\* version in force, with the age attested when the policy asks for it.
ReceiptOk_faulty(b, c, rc) ==
    \/ policy[b] = None
    \/ /\ rc # None /\ rc \in accepted /\ rc.by = b
       /\ rc.version = policy[b].version /\ (policy[b].age => rc.age)

ReceiptOk(b, c, rc) ==
    \/ policy[b] = None
    \/ /\ rc # None /\ rc \in accepted /\ rc.by = b /\ rc.code = c
       /\ rc.version = policy[b].version /\ (policy[b].age => rc.age)

\* apply_claim up to its write: the first check that fails decides.  A failing
\* membership query counts as "not a member".
ApplyClaim(b, q, known) ==
    CASE q.code \notin minted \/ q.code.cid # b -> "invalid_code"
      [] q.code.exp <= now -> "expired"
      [] ~ReceiptOk(b, q.code, q.receipt) -> "policy"
      [] known -> "already"
      [] OTHER -> "write"

\* One more decision on the claim.
Decide(r, res) ==
    /\ decided' = [decided EXCEPT ![r] = @ \cup {res}]
    /\ rulings' = [rulings EXCEPT ![r] = @ + 1]
    /\ UNCHANGED taken

\* process_claim, up to its first await.  A member of any channel is known.
Adjudicate(b) ==
    /\ running[b] /\ worker[b] = None /\ queue[b] # <<>>
    /\ queue' = [queue EXCEPT ![b] = Tail(@)]
    /\ LET w == Head(queue[b])
           q == req[w.rid]
       IN \E known \in {\E l \in List : q.joiner \in lists[b][l], FALSE} :
            LET res == ApplyClaim(b, q, known) IN
            IF res = "write"
            THEN /\ worker' = [worker EXCEPT ![b] = [w EXCEPT !.step = "write"]]
                 /\ UNCHANGED <<decided, tally>>
            ELSE /\ worker' = [worker EXCEPT ![b] = [w EXCEPT !.step = "reply", !.result = res]]
                 /\ Decide(w.rid, res)
    /\ UNCHANGED <<held, seen, record, busState, mail, service, process>>

\* j is on list l of b from now on.
Enlist(b, l, j) == /\ lists' = [lists EXCEPT ![b][l] = @ \cup {j}]
                   /\ enlisted' = [enlisted EXCEPT ![b] = @ \cup {j}]

\* add_member_from_invite: added, already there, or an error.  An addition is
\* durable before it is published.
AddMember_faulty(b) ==
    /\ worker[b] # None /\ worker[b].step = "write"
    /\ Enlist(b, "primary", req[worker[b].rid].joiner) \/ UNCHANGED record
    /\ worker' = [worker EXCEPT ![b].step = "reply", ![b].result = "joined"]
    /\ Decide(worker[b].rid, "joined")
    /\ UNCHANGED <<queue, held, seen, busState, mail, service, process>>

AddMember(b) ==
    /\ worker[b] # None /\ worker[b].step = "write"
    /\ LET w == worker[b]
           added == req[w.rid].joiner \notin lists[b]["primary"]
           next == IF added THEN "publish" ELSE "reply"
       IN \/ /\ Enlist(b, "primary", req[w.rid].joiner)
             /\ worker' = [worker EXCEPT ![b] = [w EXCEPT !.step = next, !.result = "joined"]]
             /\ Decide(w.rid, "joined")
          \/ /\ UNCHANGED record
             /\ worker' = [worker EXCEPT ![b] = [w EXCEPT !.step = "reply", !.result = "write_failed"]]
             /\ Decide(w.rid, "write_failed")
    /\ UNCHANGED <<queue, held, seen, busState, mail, service, process>>

\* fan_out_group_state: the worker waits for the daemon to take the new list.
Publish(b) ==
    /\ worker[b] # None /\ worker[b].step = "publish" /\ ~hung[b]
    /\ worker' = [worker EXCEPT ![b].step = "reply"]
    /\ UNCHANGED <<queue, held, seen, record, decided, tally, busState, mail, service, process>>

\* complete: the entry, if it is still there, is removed and answered.
Resolve(b, x, r, reply) ==
    IF r \in pending[b][x]
    THEN /\ pending' = [pending EXCEPT ![b][x] = @ \ {r}]
         /\ req' = [req EXCEPT ![r].reply = reply]
         /\ UNCHANGED permits
    ELSE UNCHANGED busState

\* A local claim completes its oneshot; a remote one is answered by a message
\* whose receipt is discarded.
Reply(b) ==
    /\ worker[b] # None /\ worker[b].step = "reply"
    /\ LET w == worker[b] IN
       IF w.to = None
       THEN Resolve(b, "local", w.rid, w.result) /\ UNCHANGED mail
       ELSE /\ ~hung[b]
            /\ Post(w.to, Msg("result", w.rid, b, w.result)) \/ UNCHANGED mail
            /\ UNCHANGED busState
    /\ worker' = [worker EXCEPT ![b] = None]
    /\ UNCHANGED <<queue, held, seen, record, decided, tally, service, process>>

\* nip29::execute: a channel admin adds somebody to a list or takes them off.
GroupCommand(b, l, j) ==
    /\ running[b] /\ <<b, l>> \in Edited
    /\ \/ Enlist(b, l, j)
       \/ lists' = [lists EXCEPT ![b][l] = @ \ {j}] /\ UNCHANGED enlisted
    /\ UNCHANGED <<queue, worker, held, seen, decided, tally, busState, mail, service, process>>

----------------------------------------------------------------------------
(* The direct dispatcher.                                                  *)

\* verify_portable_nip98_claim: the proof is dated at most a TTL from the
\* clock, and no record of it is in force.
InWindow(d) == d - Ttl <= now /\ now <= d + Ttl
Usable(b, r) == InWindow(req[r].date) /\ seen[b][r] <= now

\* handle_incoming_claim: the code must be ours and its proof usable; it is
\* recorded for one TTL.  An expired record is as good as none.
HandleClaim_faulty(b, m) ==
    /\ IF req[m.rid].code.aid # b \/ ~Usable(b, m.rid)
       THEN UNCHANGED <<held, seen, tally>>
       ELSE /\ held' = [held EXCEPT ![b] = Work(m.rid, m.from)]
            /\ seen' = [seen EXCEPT ![b][m.rid] = req[m.rid].date + Ttl]
            /\ TakeUp(m.rid)
    /\ UNCHANGED <<busState, queue, worker, record, decided>>

HandleClaim(b, m) ==
    /\ IF req[m.rid].code.aid # b \/ ~Usable(b, m.rid)
       THEN UNCHANGED <<held, seen, tally>>
       ELSE /\ held' = [held EXCEPT ![b] = Work(m.rid, m.from)]
            /\ seen' = [seen EXCEPT ![b][m.rid] = now + Ttl]
            /\ TakeUp(m.rid)
    /\ UNCHANGED <<busState, queue, worker, record, decided>>

\* handle_incoming_result: only the authority the claim was sent to answers
\* it; a result that does not parse drops the oneshot's sender.
HandleResult_faulty(b, m) ==
    /\ IF req[m.rid].at = b
       THEN Resolve(b, "direct", m.rid, IF m.result = "malformed" THEN "closed" ELSE m.result)
       ELSE UNCHANGED busState
    /\ UNCHANGED authority

HandleResult(b, m) ==
    /\ IF req[m.rid].at = b /\ m.from = req[m.rid].code.aid
       THEN Resolve(b, "direct", m.rid, IF m.result = "malformed" THEN "closed" ELSE m.result)
       ELSE UNCHANGED busState
    /\ UNCHANGED authority

\* One frame of the event stream.  A message stays with the daemon, which
\* replays it when the stream reconnects.
Delivers(b, m) == running[b] /\ m \in mail[b]

\* One frame taken from the inbox; one without a verified sender is dropped.
Dispatch(b, m) ==
    /\ Delivers(b, m) /\ held[b] = None
    /\ CASE ~m.verified -> UNCHANGED <<busState, authority>>
         [] m.verified /\ m.kind = "claim" -> HandleClaim(b, m)
         [] m.verified /\ m.kind = "result" -> HandleResult(b, m)
    /\ UNCHANGED <<mail, service, process>>

\* The dispatcher waits for room in the work channel, or finds it closed.
EnqueueHeld(b) ==
    /\ held[b] # None
    /\ \/ /\ running[b] /\ Len(queue[b]) < QueueCap
          /\ queue' = [queue EXCEPT ![b] = Append(@, held[b])]
       \/ ~running[b] /\ UNCHANGED queue
    /\ held' = [held EXCEPT ![b] = None]
    /\ UNCHANGED <<worker, seen, record, decided, tally, busState, mail, service, process>>

----------------------------------------------------------------------------
(* The other agents.                                                       *)

Strays == {m \in UNION {mail[b] : b \in Bridge} :
             m.from \in Stranger \/ ~m.verified \/ m.result = "malformed"}

\* Messages no bridge sent: a result of another agent, one whose sender the
\* daemon could not verify, and one of a shape this version does not read.
Stray(b, r) ==
    /\ req[r].pc = "wait" /\ req[r].bus = "direct" /\ req[r].at = b
    /\ Cardinality(Strays) < MaxStray
    /\ LET a == req[r].code.aid IN
       \E m \in {Msg("result", r, s, "joined") : s \in Stranger}
                \cup {[Msg("result", r, a, "joined") EXCEPT !.verified = FALSE],
                      Msg("result", r, a, "malformed")} : Post(b, m)
    /\ UNCHANGED <<busState, authority, service, process>>

----------------------------------------------------------------------------
(* Shutdown, crash and start.                                              *)

\* The cancellation token: worker, dispatcher and stream take nothing more.
Shutdown(b) ==
    /\ running[b]
    /\ running' = [running EXCEPT ![b] = FALSE]
    /\ queue' = [queue EXCEPT ![b] = <<>>]
    /\ UNCHANGED <<worker, held, seen, record, decided, tally, mail, busState, service, boots, now, hung>>

\* A claim on a code of b.
ClaimOf(b, r) == req[r].pc # "new" /\ req[r].code.aid = b

\* The process ends, in order or not, and starts again; what is in memory is
\* lost, the join policy is read again.
Restart(b) ==
    /\ FoldFunction(+, 0, boots) < MaxBoots
    /\ boots' = [boots EXCEPT ![b] = @ + 1]
    /\ running' = [running EXCEPT ![b] = TRUE]
    /\ req' = [r \in Req |-> IF req[r].at = b /\ req[r].pc # "done"
                             THEN [req[r] EXCEPT !.pc = "done", !.reply = None, !.answer = "unavailable"] ELSE req[r]]
    /\ pending' = [pending EXCEPT ![b] = [x \in Bus |-> {}]]
    /\ permits' = [permits EXCEPT ![b] = [x \in Bus |-> MaxPending]]
    /\ queue' = [queue EXCEPT ![b] = <<>>]
    /\ worker' = [worker EXCEPT ![b] = None]
    /\ held' = [held EXCEPT ![b] = None]
    /\ seen' = [seen EXCEPT ![b] = [r \in Req |-> 0]]
    /\ taken' = [r \in Req |-> IF ClaimOf(b, r) THEN <<>> ELSE taken[r]]
    /\ rulings' = [r \in Req |-> IF ClaimOf(b, r) THEN 0 ELSE rulings[r]]
    /\ \E p \in Policies[b] : policy' = [policy EXCEPT ![b] = p]
    /\ UNCHANGED <<record, decided, mail, minted, accepted, now, hung>>

Tick == /\ now < MaxNow /\ now' = now + 1
        /\ UNCHANGED <<busState, authority, mail, service, running, boots, hung>>

\* The daemon of b stops answering the calls of its bridge, or answers again.
Hang(b) == /\ b \in Hanging
           /\ hung' = [hung EXCEPT ![b] = ~@]
           /\ UNCHANGED <<busState, authority, mail, service, running, boots, now>>

RequestStep(r) == Enqueue(r) \/ SendClaim(r) \/ Answer(r) \/ Timeout(r)

AuthorityStep(b) == Adjudicate(b) \/ AddMember(b) \/ Publish(b) \/ Reply(b)

Next ==
    \/ \E b \in Bridge, c \in Code : Mint(b, c)
    \/ \E b \in Bridge, c \in Code, age \in BOOLEAN : AcceptPolicy(b, c, age)
    \/ \E r \in Req, b \in Bridge, j \in Joiner, c \in Code, rc \in accepted \cup {None}, k \in Skew :
         Claim(r, b, j, c, rc, k)
    \/ \E r \in Req : RequestStep(r) \/ Disconnect(r)
    \/ \E b \in Bridge : AuthorityStep(b) \/ EnqueueHeld(b) \/ Shutdown(b) \/ Restart(b) \/ Hang(b)
    \/ \E b \in Bridge, l \in List, j \in Joiner : GroupCommand(b, l, j)
    \/ \E b \in Bridge : \E m \in mail[b] : Dispatch(b, m)
    \/ \E b \in Bridge, r \in Req : Stray(b, r)
    \/ Tick

Spec == Init /\ [][Next]_vars

\* The timer of a waiting request fires; a call on a daemon that does not hang
\* returns; the work channel gives its places in the order they were asked for;
\* the worker runs, except while its daemon hangs.
Fairness == /\ \A r \in Req : /\ WF_vars(Answer(r) \/ Timeout(r))
                              /\ WF_vars(SendClaim(r))
                              /\ SF_vars(Enqueue(r))
            /\ \A b \in Bridge : WF_vars(AuthorityStep(b))

FairSpec == Spec /\ Fairness

----------------------------------------------------------------------------
(* Properties.                                                             *)

Live(b, x) == {r \in Req : req[r].at = b /\ req[r].bus = x /\ req[r].pc \in {"send", "wait"}}

\* However a request ends (answer, timeout, failing send, a client that goes
\* away), its permit comes back and its entry is gone: the free permits and the
\* requests in flight always add up to MAX_PENDING_CLAIMS, and every entry
\* belongs to a request in flight (m1b.rs:380-405, 487-533, 722-779).
PermitsExact ==
    \A b \in Bridge, x \in Bus : /\ permits[b][x] + Cardinality(Live(b, x)) = MaxPending
                                 /\ pending[b][x] \subseteq Live(b, x)
                                 /\ Cardinality(pending[b][x]) <= MaxPending

\* A claim answered with success has a joiner who is or was on a member list of
\* the authority, the primary channel's or another one's: no late, repeated,
\* spoofed or misdirected message makes a success, and no failing write or query
\* (m1b.rs:153-171, 579-612, 832-984, invites.rs:349-427, nip29.rs:436-504).
OkIsMember == \A r \in Req : req[r].answer \in {"joined", "already"} =>
                                 req[r].joiner \in enlisted[req[r].code.aid]

\* A request is answered with what its authority decided about this very claim,
\* or with "unavailable" (m1b.rs:641-645, 950-984).
AnswersOwnDecision == \A r \in Req : req[r].answer \in Result => req[r].answer \in decided[r]

\* In one life of the authority's process a claim is decided no oftener than it
\* was taken up, however often its message is delivered, and two takings-up lie a
\* TTL apart: a record lapses after one TTL (auth.rs:91-99) while a proof dated
\* ahead stays usable for up to two (auth.rs:275-279).  So a claim whose proof is
\* dated before the second of its first taking-up is decided at most once, any
\* other at most three times, and one posted at the authority itself once
\* (m1b.rs:487-533, 882-944).
AdjudicatedOnce ==
    \A r \in Req :
        /\ rulings[r] <= Len(taken[r]) /\ Len(taken[r]) <= 3
        /\ \A i, j \in 1..Len(taken[r]) : i < j => taken[r][i] + Ttl <= taken[r][j]
        /\ taken[r] # <<>> /\ (req[r].bus = "local" \/ req[r].date < taken[r][1]) => rulings[r] <= 1

\* Somebody comes on the primary list, but for a group command, only with a code
\* the authority signed and, when a policy was in force, with a receipt it had
\* issued for that code, that version and the attestation it asks for
\* (invites.rs:349-427).
AdmittedByInvite ==
    [][\A b \in Bridge : \A j \in lists'[b]["primary"] \ lists[b]["primary"] :
         \/ GroupCommand(b, "primary", j)
         \/ \E c \in minted :
               /\ c.cid = b
               /\ policy[b] # None => \E rc \in accepted :
                    /\ rc.by = b /\ rc.code = c /\ rc.version = policy[b].version
                    /\ policy[b].age => rc.age
               /\ \E r \in Req : req[r].joiner = j /\ req[r].code = c]_vars

\* A request that waits for its answer returns, whatever the daemons do: that wait
\* has a timer (m1b.rs:526, 772).  The sends before it have none (m1b.rs:520, 637,
\* 766): one that waits for ever has met a daemon of its bridge that hangs.
RequestsReturn ==
    \A r \in Req : /\ req[r].pc = "wait" ~> req[r].pc = "done"
                   /\ req[r].pc = "send" ~> (req[r].pc # "send" \/ hung[req[r].at])
============================================================================
