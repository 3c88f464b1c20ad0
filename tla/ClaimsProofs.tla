---------------------------- MODULE ClaimsProofs ----------------------------
(***************************************************************************)
(* Proofs about Claims, for every set of bridges, joiners, codes, requests *)
(* and strangers and every bound.  The inductive invariant IInv adds to    *)
(* the checked properties where each answer comes from:                    *)
(*   - what a worker, a dispatcher, a work channel or a claim message      *)
(*     carries is a request that was routed to the authority of its code;  *)
(*   - a result under way (in a worker, in a verified message of a bridge, *)
(*     in a oneshot) is one its authority decided;                         *)
(*   - a claim decided or at work was taken up once for each, and the      *)
(*     seconds of its takings-up lie a TTL apart, inside the window of its *)
(*     proof;                                                              *)
(*   - a worker about to write holds the warrant it was decided on.        *)
(***************************************************************************)
EXTENDS Claims, FiniteSetTheorems, TLAPS

Version == {p.version : p \in (UNION {Policies[b] : b \in Bridge}) \ {None}}

Receipt == [by : Bridge, code : Code, version : Version, age : BOOLEAN]

Request == [pc : {"new", "send", "wait", "done"}, at : Bridge \cup {None}, bus : Bus \cup {None},
            joiner : Joiner \cup {None}, code : Code \cup {None}, receipt : Receipt \cup {None}, date : Int,
            reply : Result \cup {"closed", None}, answer : Result \cup {"unavailable", None}]

\* What Claim makes of a request.
Routed(q) ==
    /\ q.at \in Bridge /\ q.bus \in Bus /\ q.joiner \in Joiner /\ q.code \in Code
    /\ q.bus = "local" <=> q.code.aid = q.at

WorkItem == {w \in [rid : Req, to : Bridge \cup Stranger \cup {None},
                    step : {"queued", "write", "publish", "reply"}, result : Result \cup {None}] :
                w.step \in {"publish", "reply"} => w.result \in Result}

Message == {m \in [kind : {"claim", "result"}, rid : Req, from : Bridge \cup Stranger,
                   verified : BOOLEAN, result : Result \cup {"malformed", None}] :
               m.kind = "result" => m.result \in Result \cup {"malformed"}}

RequestOK ==
    /\ req \in [Req -> Request]
    /\ \A r \in Req : IF req[r].pc = "new" THEN req[r] = NoReq ELSE Routed(req[r])

BusOK ==
    /\ pending \in [Bridge -> [Bus -> SUBSET Req]]
    /\ permits \in [Bridge -> [Bus -> Nat]]

AuthorityOK ==
    /\ queue \in [Bridge -> Seq(WorkItem)]
    /\ worker \in [Bridge -> WorkItem \cup {None}]
    /\ held \in [Bridge -> WorkItem \cup {None}]
    /\ seen \in [Bridge -> [Req -> Int]]
    /\ lists \in [Bridge -> [List -> SUBSET Joiner]]
    /\ enlisted \in [Bridge -> SUBSET Joiner]
    /\ decided \in [Req -> SUBSET Result]
    /\ taken \in [Req -> Seq(Int)]
    /\ rulings \in [Req -> Nat]

ServiceOK ==
    /\ minted \subseteq Code /\ accepted \subseteq Receipt
    /\ policy \in [Bridge -> UNION {Policies[b] : b \in Bridge}]

ProcessOK == /\ running \in [Bridge -> BOOLEAN] /\ boots \in [Bridge -> Nat] /\ now \in Nat
             /\ hung \in [Bridge -> BOOLEAN]

TypeOK == /\ RequestOK /\ BusOK /\ AuthorityOK /\ ServiceOK /\ ProcessOK
          /\ mail \in [Bridge -> SUBSET Message]

PermitsInv ==
    \A b \in Bridge, x \in Bus : /\ IsFiniteSet(Live(b, x))
                                 /\ permits[b][x] + Cardinality(Live(b, x)) = MaxPending
                                 /\ pending[b][x] \subseteq Live(b, x)

\* Work of b is a request that names b as its authority.
Owned(b, w) == req[w.rid].pc # "new" /\ req[w.rid].code.aid = b

QueueOwned == \A b \in Bridge : \A i \in 1..Len(queue[b]) : Owned(b, queue[b][i])

WorkerOwned == \A b \in Bridge : worker[b] # None => /\ Owned(b, worker[b])
                                                     /\ worker[b].step \in {"write", "publish", "reply"}

HeldOwned == \A b \in Bridge : held[b] # None => Owned(b, held[b])

MailOwned == \A b \in Bridge : \A m \in mail[b] : m.kind = "claim" =>
                 req[m.rid].pc # "new" /\ req[m.rid].bus = "direct"

OwnedInv == QueueOwned /\ WorkerOwned /\ HeldOwned /\ MailOwned

NewUndecided == \A r \in Req : req[r].pc = "new" => decided[r] = {}

WorkerDecided == \A b \in Bridge : worker[b] # None /\ worker[b].step \in {"publish", "reply"} =>
                     worker[b].result \in decided[worker[b].rid]

MailDecided == \A b \in Bridge : \A m \in mail[b] :
    m.kind = "result" /\ m.verified /\ m.from \in Bridge /\ m.result # "malformed" =>
        m.result \in decided[m.rid]

AnswersDecided == \A r \in Req : /\ req[r].reply \in Result => req[r].reply \in decided[r]
                                 /\ req[r].answer \in Result => req[r].answer \in decided[r]

DecidedMember == \A r \in Req : decided[r] \cap {"joined", "already"} # {} =>
                                    req[r].joiner \in enlisted[req[r].code.aid]

\* Whoever is on a list has been on one.
ListsKnown == \A b \in Bridge, l \in List : lists[b][l] \subseteq enlisted[b]

DecisionInv == /\ ListsKnown /\ NewUndecided /\ WorkerDecided /\ MailDecided
               /\ AnswersDecided /\ DecidedMember

\* A claim in the work channel, with the dispatcher, or being decided: how often.
Positions(q, r) == {i \in 1..Len(q) : q[i].rid = r}
Match(r, s) == IF r = s THEN 1 ELSE 0
HeldLoad(b, r) == IF held[b] # None /\ held[b].rid = r THEN 1 ELSE 0
WriteLoad(b, r) == IF worker[b] # None /\ worker[b].step = "write" /\ worker[b].rid = r THEN 1 ELSE 0
Load(b, r) == Cardinality(Positions(queue[b], r)) + HeldLoad(b, r) + WriteLoad(b, r)

\* A claim that is decided or at work has been taken up, once for each.
Due(a, r) == rulings[r] + Load(a, r) <= Len(taken[r])

CountInv == \A r \in Req : /\ req[r].pc = "new" => taken[r] = <<>> /\ rulings[r] = 0
                           /\ \A a \in Bridge : ClaimOf(a, r) => Due(a, r)

\* What is known of the seconds in which a claim was taken up: those of a local
\* claim are at most one, those of a forwarded claim lie in the window of its
\* proof and before the end of its record.
SpacedAt(a, r) ==
    /\ \A i, j \in 1..Len(taken[r]) : i < j => taken[r][i] + Ttl <= taken[r][j]
    /\ req[r].bus = "direct" =>
          \A i \in 1..Len(taken[r]) : /\ taken[r][i] + Ttl <= seen[a][r]
                                      /\ req[r].date - Ttl <= taken[r][i]
                                      /\ taken[r][i] <= req[r].date + Ttl
    /\ req[r].bus = "local" => /\ Len(taken[r]) <= 1
                               /\ req[r].pc = "send" => taken[r] = <<>>

SpacedInv == \A r \in Req, a \in Bridge : ClaimOf(a, r) => SpacedAt(a, r)

OnceInv == CountInv /\ SpacedInv

\* The code and the receipt the worker of b is about to write on.
Warrant(b, r) ==
    /\ req[r].code \in minted /\ req[r].code.cid = b
    /\ ReceiptOk(b, req[r].code, req[r].receipt)

WarrantInv == \A b \in Bridge : worker[b] # None /\ worker[b].step = "write" =>
                                    Warrant(b, worker[b].rid)

IInv == TypeOK /\ PermitsInv /\ OwnedInv /\ DecisionInv /\ OnceInv /\ WarrantInv

----------------------------------------------------------------------------
(* What the shared operators write.                                        *)

\* One entry of a table indexed by bridge and bus is written.
LEMMA TableUpdate ==
    ASSUME NEW S, NEW f \in [Bridge -> [Bus -> S]], NEW b \in Bridge, NEW x \in Bus, NEW v \in S
    PROVE  /\ [f EXCEPT ![b][x] = v] \in [Bridge -> [Bus -> S]]
           /\ \A c \in Bridge, y \in Bus :
                [f EXCEPT ![b][x] = v][c][y] = IF c = b /\ y = x THEN v ELSE f[c][y]
<1>1. [f[b] EXCEPT ![x] = v] \in [Bus -> S]
    OBVIOUS
<1>2. [f EXCEPT ![b][x] = v] = [f EXCEPT ![b] = [f[b] EXCEPT ![x] = v]]
    OBVIOUS
<1> QED BY <1>1, <1>2

\* A routed request names a bridge, a bus, a joiner and a code.
LEMMA RoutedType ==
    ASSUME TypeOK, NEW r \in Req, req[r].pc # "new"
    PROVE  Routed(req[r])
BY DEF TypeOK, RequestOK

\* The request after PendingEntryGuard: done, answered, otherwise as it was.
Ended(r, answer) ==
    /\ req' \in [Req -> Request]
    /\ req'[r] = [req[r] EXCEPT !.pc = "done", !.reply = None, !.answer = answer]
    /\ \A s \in Req : s # r => req'[s] = req[s]
    /\ \A s \in Req : IF req'[s].pc = "new" THEN req'[s] = NoReq ELSE Routed(req'[s])

\* Finish ends one request and gives back one entry and one permit.
LEMMA FinishEffect ==
    ASSUME TypeOK, NEW r \in Req, req[r].pc \in {"send", "wait"},
           NEW answer \in Result \cup {"unavailable"}, Finish(r, answer)
    PROVE  /\ Ended(r, answer)
           /\ req[r].at \in Bridge /\ req[r].bus \in Bus
           /\ pending' = [pending EXCEPT ![req[r].at][req[r].bus] = @ \ {r}]
           /\ permits' = [permits EXCEPT ![req[r].at][req[r].bus] = @ + 1]
           /\ pending' \in [Bridge -> [Bus -> SUBSET Req]]
           /\ permits' \in [Bridge -> [Bus -> Nat]]
<1>1. Routed(req[r])
    BY RoutedType
<1>2. req[r].at \in Bridge /\ req[r].bus \in Bus
    BY <1>1 DEF Routed
<1>3. /\ pending' = [pending EXCEPT ![req[r].at][req[r].bus] = @ \ {r}]
      /\ permits' = [permits EXCEPT ![req[r].at][req[r].bus] = @ + 1]
    BY DEF Finish
<1>4. pending' \in [Bridge -> [Bus -> SUBSET Req]]
    <2>1. pending \in [Bridge -> [Bus -> SUBSET Req]]
        BY DEF TypeOK, BusOK
    <2>2. pending[req[r].at][req[r].bus] \ {r} \in SUBSET Req
        BY <1>2, <2>1
    <2> QED BY <1>2, <1>3, <2>1, <2>2, TableUpdate
<1>5. permits' \in [Bridge -> [Bus -> Nat]]
    <2>1. permits \in [Bridge -> [Bus -> Nat]]
        BY DEF TypeOK, BusOK
    <2>2. permits[req[r].at][req[r].bus] + 1 \in Nat
        BY <1>2, <2>1
    <2> QED BY <1>2, <1>3, <2>1, <2>2, TableUpdate
<1>6. /\ req' = [req EXCEPT ![r] = [req[r] EXCEPT !.pc = "done", !.reply = None, !.answer = answer]]
      /\ req \in [Req -> Request]
    BY DEF Finish, TypeOK, RequestOK
<1>7. [req[r] EXCEPT !.pc = "done", !.reply = None, !.answer = answer] \in Request
    BY <1>6 DEF Request
<1>8. Ended(r, answer)
    BY <1>1, <1>6, <1>7 DEF Ended, TypeOK, RequestOK, Routed, Request
<1> QED BY <1>2, <1>3, <1>4, <1>5, <1>8

\* A request that is not routed yet has no bridge: a restart leaves it alone.
LEMMA NewHasNoBridge ==
    ASSUME TypeOK, NEW r \in Req, req[r].pc = "new"
    PROVE  req[r].at \notin Bridge
BY NoneAssumption DEF TypeOK, RequestOK, NoReq

\* Resolve gives a oneshot its reply and takes its entry, or does nothing.
LEMMA ResolveEffect ==
    ASSUME TypeOK, NEW b \in Bridge, NEW x \in Bus, NEW r \in Req, req[r].pc # "new",
           NEW reply \in Result \cup {"closed"}, Resolve(b, x, r, reply)
    PROVE  /\ req' \in [Req -> Request]
           /\ \/ req'[r] = [req[r] EXCEPT !.reply = reply]
              \/ req'[r] = req[r]
           /\ \A s \in Req : s # r => req'[s] = req[s]
           /\ \A s \in Req : IF req'[s].pc = "new" THEN req'[s] = NoReq ELSE Routed(req'[s])
           /\ pending' \in [Bridge -> [Bus -> SUBSET Req]]
           /\ \A a \in Bridge, y \in Bus : pending'[a][y] \subseteq pending[a][y]
           /\ permits' = permits
<1>1. CASE r \in pending[b][x]
    <2>1. /\ pending' = [pending EXCEPT ![b][x] = @ \ {r}]
          /\ req' = [req EXCEPT ![r] = [req[r] EXCEPT !.reply = reply]]
          /\ permits' = permits
        BY <1>1 DEF Resolve
    <2>2. req \in [Req -> Request] /\ Routed(req[r])
        BY RoutedType DEF TypeOK, RequestOK
    <2>3. /\ [req[r] EXCEPT !.reply = reply] \in Request
          /\ [req[r] EXCEPT !.reply = reply].pc = req[r].pc
          /\ Routed([req[r] EXCEPT !.reply = reply])
        BY <2>2 DEF Request, Routed
    <2>4. /\ req' \in [Req -> Request]
          /\ req'[r] = [req[r] EXCEPT !.reply = reply]
          /\ \A s \in Req : s # r => req'[s] = req[s]
        BY <2>1, <2>2, <2>3
    <2>5. \A s \in Req : IF req'[s].pc = "new" THEN req'[s] = NoReq ELSE Routed(req'[s])
        BY <2>3, <2>4 DEF TypeOK, RequestOK
    <2>6. /\ pending' \in [Bridge -> [Bus -> SUBSET Req]]
          /\ \A a \in Bridge, y \in Bus : pending'[a][y] \subseteq pending[a][y]
        <3>1. pending \in [Bridge -> [Bus -> SUBSET Req]]
            BY DEF TypeOK, BusOK
        <3>2. pending[b][x] \ {r} \in SUBSET Req
            BY <3>1
        <3> QED BY <2>1, <3>1, <3>2, TableUpdate
    <2> QED BY <2>1, <2>4, <2>5, <2>6
<1>2. CASE r \notin pending[b][x]
    BY <1>2 DEF Resolve, busState, TypeOK, RequestOK, BusOK
<1> QED BY <1>1, <1>2

----------------------------------------------------------------------------
(* Type correctness, one group of variables at a time.                     *)

\* The states Finish and Resolve leave have the right type.
LEMMA BusSteps ==
    ASSUME TypeOK
    PROVE  /\ \A r \in Req, a \in Result \cup {"unavailable"} :
                req[r].pc \in {"send", "wait"} /\ Finish(r, a) => RequestOK' /\ BusOK'
           /\ \A b \in Bridge, x \in Bus, r \in Req, a \in Result \cup {"closed"} :
                req[r].pc # "new" /\ Resolve(b, x, r, a) => RequestOK' /\ BusOK'
           /\ UNCHANGED busState => RequestOK' /\ BusOK'
<1>1. ASSUME NEW r \in Req, NEW a \in Result \cup {"unavailable"},
             req[r].pc \in {"send", "wait"}, Finish(r, a)
      PROVE  RequestOK' /\ BusOK'
    BY <1>1, FinishEffect DEF Ended, RequestOK, BusOK
<1>2. ASSUME NEW b \in Bridge, NEW x \in Bus, NEW r \in Req, NEW a \in Result \cup {"closed"},
             req[r].pc # "new", Resolve(b, x, r, a)
      PROVE  RequestOK' /\ BusOK'
    <2>1. permits \in [Bridge -> [Bus -> Nat]]
        BY DEF TypeOK, BusOK
    <2> QED BY <1>2, <2>1, ResolveEffect DEF RequestOK, BusOK
<1>3. ASSUME UNCHANGED busState PROVE RequestOK' /\ BusOK'
    BY <1>3 DEF busState, TypeOK, RequestOK, BusOK
<1> QED BY <1>1, <1>2, <1>3

\* Claim routes a new request to the local or the direct bus.
LEMMA ClaimType ==
    ASSUME TypeOK, NEW r \in Req, NEW b \in Bridge, NEW j \in Joiner, NEW c \in Code,
           NEW rc \in accepted \cup {None}, NEW k \in Skew, Claim(r, b, j, c, rc, k)
    PROVE  /\ TypeOK' /\ Routed(req'[r]) /\ req'[r].pc \in {"send", "done"}
           /\ req'[r].reply = None /\ req'[r].answer \in {None, "unavailable"}
           /\ \A s \in Req : s # r => req'[s] = req[s]
<1> DEFINE x == IF c.aid = b THEN "local" ELSE "direct"
           q == [NoReq EXCEPT !.at = b, !.bus = x, !.joiner = j, !.code = c, !.receipt = rc,
                            !.date = now + k]
           refused == [q EXCEPT !.pc = "done", !.answer = "unavailable"]
           sent == [q EXCEPT !.pc = "send"]
<1>1. x \in Bus /\ (x = "local" <=> c.aid = b)
    BY DEF Bus
<1>2. rc \in Receipt \cup {None}
    BY DEF TypeOK, ServiceOK
<1>3. /\ refused \in Request /\ Routed(refused) /\ refused.pc = "done"
      /\ sent \in Request /\ Routed(sent) /\ sent.pc = "send"
      /\ refused.reply = None /\ refused.answer = "unavailable"
      /\ sent.reply = None /\ sent.answer = None
    <2> HIDE DEF x
    <2>1. now + k \in Int
        BY TtlAssumption DEF TypeOK, ProcessOK
    <2> QED BY <1>1, <1>2, <2>1 DEF NoReq, Request, Routed
<1>4. \/ req' = [req EXCEPT ![r] = refused] /\ UNCHANGED <<pending, permits>>
      \/ /\ req' = [req EXCEPT ![r] = sent] /\ permits[b][x] # 0
         /\ permits' = [permits EXCEPT ![b][x] = @ - 1]
         /\ pending' = [pending EXCEPT ![b][x] = @ \cup {r}]
    BY DEF Claim
<1> HIDE DEF x, q, refused, sent
<1>5. /\ RequestOK' /\ Routed(req'[r]) /\ req'[r].pc \in {"send", "done"}
      /\ req'[r].reply = None /\ req'[r].answer \in {None, "unavailable"}
      /\ \A s \in Req : s # r => req'[s] = req[s]
    BY <1>3, <1>4 DEF TypeOK, RequestOK
<1>6. BusOK'
    <2>1. permits \in [Bridge -> [Bus -> Nat]] /\ pending \in [Bridge -> [Bus -> SUBSET Req]]
        BY DEF TypeOK, BusOK
    <2>2. pending[b][x] \cup {r} \in SUBSET Req
        BY <1>1, <2>1
    <2>3. permits[b][x] # 0 => permits[b][x] - 1 \in Nat
        <3>1. permits[b] \in [Bus -> Nat] BY <2>1
        <3>2. permits[b][x] \in Nat BY <1>1, <3>1
        <3> QED BY <3>2
    <2>4. [pending EXCEPT ![b][x] = @ \cup {r}] \in [Bridge -> [Bus -> SUBSET Req]]
        BY <1>1, <2>1, <2>2, TableUpdate
    <2>5. permits[b][x] # 0 => [permits EXCEPT ![b][x] = @ - 1] \in [Bridge -> [Bus -> Nat]]
        BY <1>1, <2>1, <2>3, TableUpdate
    <2> QED BY <1>4, <2>1, <2>4, <2>5 DEF BusOK
<1>7. AuthorityOK' /\ ServiceOK' /\ ProcessOK' /\ mail' \in [Bridge -> SUBSET Message]
    BY DEF Claim, TypeOK, authority, record, tally, service, process, AuthorityOK, ServiceOK, ProcessOK
<1> QED BY <1>5, <1>6, <1>7 DEF TypeOK

\* A result for a bridge fits in a message.
LEMMA MessageType ==
    ASSUME NEW kind \in {"claim", "result"}, NEW r \in Req, NEW from \in Bridge \cup Stranger,
           NEW result \in Result \cup {"malformed", None},
           kind = "result" => result \in Result \cup {"malformed"}
    PROVE  /\ Msg(kind, r, from, result) \in Message
           /\ [Msg(kind, r, from, result) EXCEPT !.verified = FALSE] \in Message
BY DEF Msg, Message

\* A posted message is one more in the mailbox of one bridge.
LEMMA PostEffect ==
    ASSUME mail \in [Bridge -> SUBSET Message], NEW b \in Bridge, NEW m \in Message, Post(b, m)
    PROVE  /\ mail' \in [Bridge -> SUBSET Message]
           /\ \A a \in Bridge : mail'[a] = IF a = b THEN mail[a] \cup {m} ELSE mail[a]
BY DEF Post

\* The work channel after Append and after the worker took the head.
LEMMA QueueEffect ==
    ASSUME NEW q \in Seq(WorkItem), NEW w \in WorkItem
    PROVE  /\ Append(q, w) \in Seq(WorkItem)
           /\ Len(Append(q, w)) = Len(q) + 1
           /\ \A i \in 1..Len(q) : Append(q, w)[i] = q[i]
           /\ Append(q, w)[Len(q) + 1] = w
           /\ q # <<>> => /\ Head(q) = q[1] /\ 1 \in 1..Len(q)
                          /\ Tail(q) \in Seq(WorkItem) /\ Len(Tail(q)) = Len(q) - 1
                          /\ \A i \in 1..Len(Tail(q)) : Tail(q)[i] = q[i + 1] /\ i + 1 \in 1..Len(q)
           /\ \A i \in 1..Len(q) : q[i] \in WorkItem
OBVIOUS

\* The work item w once its result is known.
Concluded(w, s, res) == [w EXCEPT !.step = s, !.result = res]

\* The claim under adjudication, and the records that follow its decision.
LEMMA WorkerType ==
    ASSUME NEW w \in WorkItem, NEW s \in {"publish", "reply"}, NEW res \in Result
    PROVE  Concluded(w, s, res) \in WorkItem
BY DEF WorkItem, Concluded

\* A conclusion keeps the claim it is about.
LEMMA ConcludedFields ==
    ASSUME NEW w \in WorkItem, NEW s, NEW res
    PROVE  /\ Concluded(w, s, res).rid = w.rid
           /\ Concluded(w, s, res).result = res
           /\ Concluded(w, s, res).step = s
           /\ w.rid \in Req
BY DEF WorkItem, Concluded

\* What apply_claim returns.
LEMMA ApplyClaimType ==
    ASSUME NEW b, NEW q, NEW known
    PROVE  ApplyClaim(b, q, known) \in Result \cup {"write"}
BY DEF ApplyClaim, Result, Refusal

\* A claim as the bus or the dispatcher queues it.
LEMMA WorkType ==
    ASSUME NEW r \in Req, NEW to \in Bridge \cup Stranger \cup {None}
    PROVE  Work(r, to) \in WorkItem
BY DEF Work, WorkItem

\* The worker of b has concluded its claim with res, and goes on with step s.
AddedAs(b, s, res) ==
    /\ worker' = [worker EXCEPT ![b] = Concluded(worker[b], s, res)]
    /\ Decide(worker[b].rid, res)
    /\ res = "joined" => Enlist(b, "primary", req[worker[b].rid].joiner)
    /\ res # "joined" => UNCHANGED record

\* add_member_from_invite: the worker has its result, one more decision is
\* counted, and a success is on the list before the worker goes on.
LEMMA AddMemberEffect ==
    ASSUME TypeOK, NEW b \in Bridge, AddMember(b)
    PROVE  \E s \in {"publish", "reply"}, res \in {"joined", "write_failed"} : AddedAs(b, s, res)
<1> DEFINE r == worker[b].rid
           s0 == IF req[r].joiner \notin lists[b]["primary"] THEN "publish" ELSE "reply"
<1>1. \/ /\ Enlist(b, "primary", req[r].joiner)
         /\ worker' = [worker EXCEPT ![b] = Concluded(worker[b], s0, "joined")]
         /\ Decide(r, "joined")
      \/ /\ UNCHANGED record
         /\ worker' = [worker EXCEPT ![b] = Concluded(worker[b], "reply", "write_failed")]
         /\ Decide(r, "write_failed")
    BY Zenon DEF AddMember, Concluded
<1>2. s0 \in {"publish", "reply"}
    OBVIOUS
<1> HIDE DEF s0
<1>3. AddedAs(b, s0, "joined") \/ AddedAs(b, "reply", "write_failed")
    BY <1>1 DEF AddedAs
<1> QED BY <1>2, <1>3

\* Taking a claim up appends the second; deciding it adds a decision and counts it.
LEMMA TallyEffect ==
    ASSUME TypeOK, NEW r \in Req
    PROVE  /\ TakeUp(r) => /\ taken' \in [Req -> Seq(Int)] /\ rulings' \in [Req -> Nat]
                           /\ taken'[r] = Append(taken[r], now) /\ rulings' = rulings
                           /\ \A s \in Req : s # r => taken'[s] = taken[s]
           /\ \A res \in Result : Decide(r, res) =>
                /\ decided' \in [Req -> SUBSET Result] /\ rulings' \in [Req -> Nat]
                /\ taken' = taken /\ rulings'[r] = rulings[r] + 1
                /\ \A s \in Req : decided'[s] = IF s = r THEN decided[s] \cup {res} ELSE decided[s]
                /\ \A s \in Req : s # r => rulings'[s] = rulings[s]
<1>0. /\ taken \in [Req -> Seq(Int)] /\ rulings \in [Req -> Nat] /\ now \in Nat
      /\ decided \in [Req -> SUBSET Result]
    BY DEF TypeOK, AuthorityOK, ProcessOK
<1>1. ASSUME TakeUp(r)
      PROVE  /\ taken' \in [Req -> Seq(Int)] /\ rulings' \in [Req -> Nat]
             /\ taken'[r] = Append(taken[r], now) /\ rulings' = rulings
             /\ \A s \in Req : s # r => taken'[s] = taken[s]
    <2>1. PICK q : q = Append(taken[r], now)
        OBVIOUS
    <2>2. q \in Seq(Int)
        <3>1. taken[r] \in Seq(Int) /\ now \in Int
            BY <1>0
        <3> QED BY <2>1, <3>1
    <2>3. taken' = [taken EXCEPT ![r] = q] /\ rulings' = rulings
        BY <1>1, <2>1 DEF TakeUp
    <2> QED BY <1>0, <2>1, <2>2, <2>3
<1>2. ASSUME NEW res \in Result, Decide(r, res)
      PROVE  /\ decided' \in [Req -> SUBSET Result] /\ rulings' \in [Req -> Nat]
             /\ taken' = taken /\ rulings'[r] = rulings[r] + 1
             /\ \A s \in Req : decided'[s] = IF s = r THEN decided[s] \cup {res} ELSE decided[s]
             /\ \A s \in Req : s # r => rulings'[s] = rulings[s]
    <2>1. /\ decided' = [decided EXCEPT ![r] = @ \cup {res}]
          /\ rulings' = [rulings EXCEPT ![r] = @ + 1] /\ taken' = taken
        BY <1>2 DEF Decide
    <2>2. decided[r] \cup {res} \in SUBSET Result /\ rulings[r] + 1 \in Nat
        BY <1>0
    <2> QED BY <1>0, <2>1, <2>2
<1> QED BY <1>1, <1>2

\* An addition to a list is an addition to those who have been on one.
LEMMA EnlistEffect ==
    ASSUME TypeOK, NEW b \in Bridge, NEW l \in List, NEW j \in Joiner, Enlist(b, l, j)
    PROVE  /\ lists' \in [Bridge -> [List -> SUBSET Joiner]]
           /\ enlisted' \in [Bridge -> SUBSET Joiner]
           /\ \A d \in Bridge : enlisted[d] \subseteq enlisted'[d]
           /\ j \in enlisted'[b]
           /\ \A d \in Bridge, y \in List, i \in Joiner :
                i \in lists'[d][y] => i \in lists[d][y] \/ (d = b /\ y = l /\ i = j)
<1>1. lists \in [Bridge -> [List -> SUBSET Joiner]] /\ enlisted \in [Bridge -> SUBSET Joiner]
    BY DEF TypeOK, AuthorityOK
<1>2. PICK L : L = [lists[b] EXCEPT ![l] = @ \cup {j}]
    OBVIOUS
<1>3. /\ L \in [List -> SUBSET Joiner]
      /\ \A y \in List : L[y] = IF y = l THEN lists[b][y] \cup {j} ELSE lists[b][y]
    <2>1. lists[b] \in [List -> SUBSET Joiner]
        BY <1>1
    <2> QED BY <1>2, <2>1
<1>4. lists' = [lists EXCEPT ![b] = L] /\ enlisted' = [enlisted EXCEPT ![b] = @ \cup {j}]
    BY <1>2 DEF Enlist
<1>5. /\ lists' \in [Bridge -> [List -> SUBSET Joiner]]
      /\ \A d \in Bridge : lists'[d] = IF d = b THEN L ELSE lists[d]
    BY <1>1, <1>3, <1>4
<1>6. /\ enlisted' \in [Bridge -> SUBSET Joiner] /\ j \in enlisted'[b]
      /\ \A d \in Bridge : enlisted[d] \subseteq enlisted'[d]
    BY <1>1, <1>4
<1>7. \A d \in Bridge, y \in List, i \in Joiner :
        i \in lists'[d][y] => i \in lists[d][y] \/ (d = b /\ y = l /\ i = j)
    BY <1>3, <1>5
<1> QED BY <1>5, <1>6, <1>7

\* One record of a replay cache is written.
LEMMA SeenEffect ==
    ASSUME TypeOK, NEW b \in Bridge, NEW r \in Req, seen' = [seen EXCEPT ![b][r] = now + Ttl]
    PROVE  /\ seen' \in [Bridge -> [Req -> Int]]
           /\ seen'[b][r] = now + Ttl
           /\ \A d \in Bridge, s \in Req : s # r => seen'[d][s] = seen[d][s]
<1>1. seen \in [Bridge -> [Req -> Int]] /\ now + Ttl \in Int
    BY TtlAssumption DEF TypeOK, AuthorityOK, ProcessOK
<1>2. PICK S : S = [seen[b] EXCEPT ![r] = now + Ttl]
    OBVIOUS
<1>3. /\ S \in [Req -> Int] /\ S[r] = now + Ttl
      /\ \A s \in Req : s # r => S[s] = seen[b][s]
    <2>1. seen[b] \in [Req -> Int]
        BY <1>1
    <2> QED BY <1>1, <1>2, <2>1
<1>4. seen' = [seen EXCEPT ![b] = S]
    BY <1>2
<1> QED BY <1>1, <1>3, <1>4

\* Taking somebody off a list changes nothing but that list.
LEMMA UnlistEffect ==
    ASSUME TypeOK, NEW b \in Bridge, NEW l \in List, NEW j,
           lists' = [lists EXCEPT ![b][l] = @ \ {j}]
    PROVE  /\ lists' \in [Bridge -> [List -> SUBSET Joiner]]
           /\ \A d \in Bridge, y \in List : lists'[d][y] \subseteq lists[d][y]
<1>1. lists \in [Bridge -> [List -> SUBSET Joiner]]
    BY DEF TypeOK, AuthorityOK
<1>2. PICK L : L = [lists[b] EXCEPT ![l] = @ \ {j}]
    OBVIOUS
<1>3. L \in [List -> SUBSET Joiner] /\ \A y \in List : L[y] \subseteq lists[b][y]
    <2>1. lists[b] \in [List -> SUBSET Joiner]
        BY <1>1
    <2> QED BY <1>2, <2>1
<1>4. lists' = [lists EXCEPT ![b] = L]
    BY <1>2
<1> QED BY <1>1, <1>3, <1>4

\* What the worker of b makes of a claim it takes from its channel.
Ruled(b, w, res) ==
    /\ w = Head(queue[b]) /\ res # "joined"
    /\ res = "already" => \E l \in List : req[w.rid].joiner \in lists[b][l]
    /\ res = "write" => \E known \in BOOLEAN : ApplyClaim(b, req[w.rid], known) = "write"
    /\ IF res = "write"
       THEN worker' = [worker EXCEPT ![b] = [w EXCEPT !.step = "write"]] /\ UNCHANGED <<decided, tally>>
       ELSE /\ worker' = [worker EXCEPT ![b] = Concluded(w, "reply", res)]
            /\ Decide(w.rid, res)

\* apply_claim decides the head of the channel or sends it to its write.
LEMMA AdjudicateEffect ==
    ASSUME TypeOK, NEW b \in Bridge, Adjudicate(b)
    PROVE  \E w \in WorkItem, res \in Result \cup {"write"} : Ruled(b, w, res)
<1>1. queue[b] \in Seq(WorkItem) /\ queue[b] # <<>>
    BY DEF TypeOK, AuthorityOK, Adjudicate
<1>2. PICK w \in WorkItem : w = Head(queue[b])
    BY <1>1
<1>3. PICK known \in {\E l \in List : req[w.rid].joiner \in lists[b][l], FALSE} :
        LET res == ApplyClaim(b, req[w.rid], known) IN
        IF res = "write"
        THEN /\ worker' = [worker EXCEPT ![b] = [w EXCEPT !.step = "write"]]
             /\ UNCHANGED <<decided, tally>>
        ELSE /\ worker' = [worker EXCEPT ![b] = Concluded(w, "reply", res)]
             /\ Decide(w.rid, res)
    BY <1>2 DEF Adjudicate, Concluded
<1> DEFINE res == ApplyClaim(b, req[w.rid], known)
<1>4. /\ res \in Result \cup {"write"} /\ res # "joined"
      /\ res = "already" => known
    BY ApplyClaimType DEF ApplyClaim
<1>5. known \in BOOLEAN /\ (known => \E l \in List : req[w.rid].joiner \in lists[b][l])
    OBVIOUS
<1>6. res = "write" => \E k \in BOOLEAN : ApplyClaim(b, req[w.rid], k) = "write"
    BY <1>5
<1>7. IF res = "write"
      THEN worker' = [worker EXCEPT ![b] = [w EXCEPT !.step = "write"]] /\ UNCHANGED <<decided, tally>>
      ELSE /\ worker' = [worker EXCEPT ![b] = Concluded(w, "reply", res)]
           /\ Decide(w.rid, res)
    BY <1>3
<1> HIDE DEF res
<1>8. Ruled(b, w, res)
    BY <1>2, <1>4, <1>5, <1>6, <1>7 DEF Ruled
<1> QED BY <1>4, <1>8

\* A restart ends the requests of its bridge and touches no other.
LEMMA RestartEffect ==
    ASSUME TypeOK, NEW b \in Bridge, Restart(b)
    PROVE  /\ req' \in [Req -> Request]
           /\ \A r \in Req : IF req'[r].pc = "new" THEN req'[r] = NoReq ELSE Routed(req'[r])
           /\ \A r \in Req :
                \/ /\ req[r].pc # "new" /\ req[r].at = b
                   /\ req'[r] = [req[r] EXCEPT !.pc = "done", !.reply = None, !.answer = "unavailable"]
                \/ req'[r] = req[r] /\ (req[r].at = b => req[r].pc = "done")
<1>1. req \in [Req -> Request]
    BY DEF TypeOK, RequestOK
<1>2. req' = [r \in Req |-> IF req[r].at = b /\ req[r].pc # "done"
                            THEN [req[r] EXCEPT !.pc = "done", !.reply = None, !.answer = "unavailable"]
                            ELSE req[r]]
    BY DEF Restart
<1>3. ASSUME NEW r \in Req
      PROVE  /\ req'[r] \in Request
             /\ IF req'[r].pc = "new" THEN req'[r] = NoReq ELSE Routed(req'[r])
             /\ \/ /\ req[r].pc # "new" /\ req[r].at = b
                   /\ req'[r] = [req[r] EXCEPT !.pc = "done", !.reply = None, !.answer = "unavailable"]
                \/ req'[r] = req[r] /\ (req[r].at = b => req[r].pc = "done")
    <2>1. CASE req[r].at = b /\ req[r].pc # "done"
        <3>1. req[r].pc # "new" /\ Routed(req[r]) /\ req[r] \in Request
            BY <1>1, <2>1, NewHasNoBridge, RoutedType
        <3>2. req'[r] = [req[r] EXCEPT !.pc = "done", !.reply = None, !.answer = "unavailable"]
            BY <1>2, <2>1
        <3>3. req'[r] \in Request /\ Routed(req'[r]) /\ req'[r].pc # "new"
            BY <3>1, <3>2 DEF Request, Routed
        <3> QED BY <2>1, <3>1, <3>2, <3>3
    <2>2. CASE ~(req[r].at = b /\ req[r].pc # "done")
        BY <1>1, <1>2, <2>2 DEF TypeOK, RequestOK
    <2> QED BY <2>1, <2>2
<1> QED BY <1>2, <1>3

\* Every variable keeps its type in every step of the bridges.
LEMMA TypeNext == TypeOK /\ OwnedInv /\ [Next]_vars => TypeOK'
<1> SUFFICES ASSUME TypeOK, OwnedInv, [Next]_vars PROVE TypeOK'
    OBVIOUS
<1> USE DEF busState, authority, record, tally, service, process
<1>0. /\ RequestOK /\ BusOK /\ AuthorityOK /\ ServiceOK /\ ProcessOK
      /\ mail \in [Bridge -> SUBSET Message]
    BY DEF TypeOK
<1>a. UNCHANGED authority => AuthorityOK'
    BY <1>0 DEF AuthorityOK
<1>b. UNCHANGED service => ServiceOK'
    BY <1>0 DEF ServiceOK
<1>c. UNCHANGED process => ProcessOK'
    BY <1>0 DEF ProcessOK
<1>d. UNCHANGED busState => RequestOK' /\ BusOK'
    BY BusSteps
<1>1. ASSUME NEW b \in Bridge, NEW c \in Code, Mint(b, c) PROVE TypeOK'
    BY <1>0, <1>a, <1>c, <1>d, <1>1 DEF Mint, TypeOK, ServiceOK
<1>2. ASSUME NEW b \in Bridge, NEW c \in Code, NEW age \in BOOLEAN, AcceptPolicy(b, c, age)
      PROVE  TypeOK'
    <2>1. policy[b] \in (UNION {Policies[a] : a \in Bridge}) \ {None}
        BY <1>0, <1>2 DEF AcceptPolicy, ServiceOK
    <2>2. [by |-> b, code |-> c, version |-> policy[b].version, age |-> age] \in Receipt
        BY <2>1 DEF Receipt, Version
    <2> QED BY <1>0, <1>a, <1>c, <1>d, <1>2, <2>2 DEF AcceptPolicy, TypeOK, ServiceOK
<1>3. ASSUME NEW r \in Req, NEW b \in Bridge, NEW j \in Joiner, NEW c \in Code,
             NEW rc \in accepted \cup {None}, NEW k \in Skew, Claim(r, b, j, c, rc, k)
      PROVE  TypeOK'
    BY <1>3, ClaimType
<1>4. ASSUME NEW r \in Req, Enqueue(r) PROVE TypeOK'
    <2>1. Routed(req[r]) /\ req[r].pc \in {"send", "wait"}
        BY <1>4, RoutedType DEF Enqueue
    <2>2. RequestOK' /\ BusOK'
        <3>1. CASE req' = [req EXCEPT ![r].pc = "wait"] /\ UNCHANGED <<pending, permits>>
            <4>1. req \in [Req -> Request] /\ req' = [req EXCEPT ![r] = [req[r] EXCEPT !.pc = "wait"]]
                BY <1>0, <3>1 DEF RequestOK
            <4>2. /\ [req[r] EXCEPT !.pc = "wait"] \in Request
                  /\ Routed([req[r] EXCEPT !.pc = "wait"])
                  /\ [req[r] EXCEPT !.pc = "wait"].pc # "new"
                BY <2>1, <4>1 DEF Request, Routed
            <4> QED BY <1>0, <3>1, <4>1, <4>2 DEF RequestOK, BusOK
        <3>2. CASE Finish(r, "unavailable")
            BY <2>1, <3>2, BusSteps
        <3> QED BY <1>4, <3>1, <3>2 DEF Enqueue
    <2>3. queue' \in [Bridge -> Seq(WorkItem)]
        <3>1. Work(r, None) \in WorkItem
            BY WorkType
        <3>2. queue \in [Bridge -> Seq(WorkItem)] /\ req[r].at \in Bridge
            BY <1>0, <2>1 DEF AuthorityOK, Routed
        <3>3. Append(queue[req[r].at], Work(r, None)) \in Seq(WorkItem)
            BY <3>1, <3>2, QueueEffect
        <3> QED BY <1>4, <3>2, <3>3 DEF Enqueue
    <2>4. taken' \in [Req -> Seq(Int)] /\ rulings' \in [Req -> Nat]
        <3>1. TakeUp(r) \/ UNCHANGED tally
            BY <1>4 DEF Enqueue
        <3> QED BY <1>0, <3>1, TallyEffect DEF AuthorityOK
    <2>5. AuthorityOK'
        <3>1. UNCHANGED <<worker, held, seen, record, decided>>
            BY <1>4 DEF Enqueue
        <3> QED BY <1>0, <2>3, <2>4, <3>1 DEF AuthorityOK
    <2> QED BY <1>0, <1>4, <1>b, <1>c, <2>2, <2>5 DEF Enqueue, TypeOK
<1>5. ASSUME NEW r \in Req, SendClaim(r) PROVE TypeOK'
    <2>1. Routed(req[r]) /\ req[r].pc \in {"send", "wait"}
        BY <1>5, RoutedType DEF SendClaim
    <2>2. RequestOK' /\ BusOK'
        <3>1. CASE req' = [req EXCEPT ![r].pc = "wait"] /\ UNCHANGED <<pending, permits>>
            <4>1. req \in [Req -> Request] /\ req' = [req EXCEPT ![r] = [req[r] EXCEPT !.pc = "wait"]]
                BY <1>0, <3>1 DEF RequestOK
            <4>2. /\ [req[r] EXCEPT !.pc = "wait"] \in Request
                  /\ Routed([req[r] EXCEPT !.pc = "wait"])
                  /\ [req[r] EXCEPT !.pc = "wait"].pc # "new"
                BY <2>1, <4>1 DEF Request, Routed
            <4> QED BY <1>0, <3>1, <4>1, <4>2 DEF RequestOK, BusOK
        <3>2. CASE Finish(r, "unavailable")
            BY <2>1, <3>2, BusSteps
        <3> QED BY <1>5, <3>1, <3>2 DEF SendClaim
    <2>3. mail' \in [Bridge -> SUBSET Message]
        <3>1. Msg("claim", r, req[r].at, None) \in Message /\ req[r].code.aid \in Bridge
            BY <2>1, MessageType, CodeAssumption DEF Routed
        <3> QED BY <1>0, <1>5, <3>1, PostEffect DEF SendClaim
    <2> QED BY <1>5, <1>0, <1>a, <1>b, <1>c, <2>2, <2>3 DEF SendClaim, TypeOK
<1>6. ASSUME NEW r \in Req, Answer(r) PROVE TypeOK'
    <2>1. (IF req[r].reply = "closed" THEN "unavailable" ELSE req[r].reply)
             \in Result \cup {"unavailable"}
        BY <1>0, <1>6 DEF RequestOK, Request, Answer
    <2>2. RequestOK' /\ BusOK'
        BY <1>6, <2>1, BusSteps DEF Answer
    <2> QED BY <1>6, <1>0, <1>a, <1>b, <1>c, <2>2 DEF Answer, TypeOK
<1>7. ASSUME NEW r \in Req, Timeout(r) \/ Disconnect(r) PROVE TypeOK'
    <2>2. RequestOK' /\ BusOK'
        BY <1>7, BusSteps DEF Timeout, Disconnect
    <2> QED BY <1>7, <1>0, <1>a, <1>b, <1>c, <2>2 DEF Timeout, Disconnect, TypeOK
<1>8. ASSUME NEW b \in Bridge, Adjudicate(b) PROVE TypeOK'
    <2>1. PICK w \in WorkItem, res \in Result \cup {"write"} : Ruled(b, w, res)
        BY <1>8, AdjudicateEffect
    <2>2. queue' \in [Bridge -> Seq(WorkItem)]
        <3>1. queue[b] \in Seq(WorkItem) /\ queue[b] # <<>>
            BY <1>0, <1>8 DEF AuthorityOK, Adjudicate
        <3>2. Tail(queue[b]) \in Seq(WorkItem)
            BY <3>1, QueueEffect, <2>1
        <3> QED BY <1>0, <1>8, <3>2 DEF AuthorityOK, Adjudicate
    <2>3. /\ worker' \in [Bridge -> WorkItem \cup {None}]
          /\ decided' \in [Req -> SUBSET Result]
          /\ taken' \in [Req -> Seq(Int)] /\ rulings' \in [Req -> Nat]
        <3>1. w.rid \in Req /\ [w EXCEPT !.step = "write"] \in WorkItem
            BY <2>1 DEF WorkItem
        <3>2. CASE res = "write"
            BY <1>0, <2>1, <3>1, <3>2 DEF Ruled, AuthorityOK
        <3>3. CASE res # "write"
            <4>1. res \in Result
                BY <2>1, <3>3
            <4>2. Concluded(w, "reply", res) \in WorkItem
                BY <2>1, <4>1, WorkerType
            <4>3. /\ worker' = [worker EXCEPT ![b] = Concluded(w, "reply", res)]
                  /\ Decide(w.rid, res)
                BY <2>1, <3>3 DEF Ruled
            <4>4. worker' \in [Bridge -> WorkItem \cup {None}]
                BY <1>0, <4>2, <4>3 DEF AuthorityOK
            <4> QED BY <1>0, <3>1, <4>1, <4>3, <4>4, TallyEffect DEF AuthorityOK
        <3> QED BY <3>2, <3>3
    <2>4. AuthorityOK'
        BY <1>0, <1>8, <2>2, <2>3 DEF AuthorityOK, Adjudicate
    <2> QED BY <1>0, <1>8, <1>b, <1>c, <1>d, <2>4 DEF Adjudicate, TypeOK
<1>9. ASSUME NEW b \in Bridge, AddMember(b) PROVE TypeOK'
    <2> DEFINE w == worker[b]
    <2>1. w \in WorkItem /\ w.step = "write"
        BY <1>0, <1>9 DEF AuthorityOK, AddMember
    <2>0. PICK s \in {"publish", "reply"}, res \in {"joined", "write_failed"} : AddedAs(b, s, res)
        BY <1>9, AddMemberEffect
    <2>2. /\ worker' = [worker EXCEPT ![b] = Concluded(w, s, res)]
          /\ Decide(w.rid, res)
          /\ res = "joined" => Enlist(b, "primary", req[w.rid].joiner)
          /\ res # "joined" => UNCHANGED record
        BY <2>0 DEF AddedAs
    <2>5. req[w.rid].joiner \in Joiner
        <3>1. w.rid \in Req
            BY <2>1 DEF WorkItem
        <3> QED BY <1>9, <3>1, RoutedType DEF OwnedInv, WorkerOwned, Owned, Routed, AddMember
    <2> HIDE DEF w
    <2>3. res \in Result /\ w.rid \in Req
        BY <2>1 DEF Result, Refusal, WorkItem
    <2>4. worker' \in [Bridge -> WorkItem \cup {None}]
        <3>1. Concluded(w, s, res) \in WorkItem
            BY <2>1, <2>3, WorkerType
        <3> QED BY <1>0, <2>2, <3>1 DEF AuthorityOK
    <2>6. lists' \in [Bridge -> [List -> SUBSET Joiner]] /\ enlisted' \in [Bridge -> SUBSET Joiner]
        <3>1. "primary" \in List
            BY DEF List
        <3> QED BY <1>0, <2>2, <2>5, <3>1, EnlistEffect DEF AuthorityOK
    <2>7. decided' \in [Req -> SUBSET Result] /\ taken' = taken /\ rulings' \in [Req -> Nat]
        BY <2>2, <2>3, TallyEffect
    <2>8. AuthorityOK'
        <3>1. UNCHANGED <<queue, held, seen>>
            BY <1>9 DEF AddMember
        <3> QED BY <1>0, <2>4, <2>6, <2>7, <3>1 DEF AuthorityOK
    <2> QED BY <1>0, <1>9, <1>b, <1>c, <1>d, <2>8 DEF AddMember, TypeOK
<1>p. ASSUME NEW b \in Bridge, Publish(b) PROVE TypeOK'
    <2>1. worker[b] \in WorkItem /\ worker[b].step = "publish"
        BY <1>0, <1>p DEF AuthorityOK, Publish
    <2>2. worker' = [worker EXCEPT ![b] = [worker[b] EXCEPT !.step = "reply"]]
        BY <1>0, <1>p DEF AuthorityOK, Publish
    <2>3. [worker[b] EXCEPT !.step = "reply"] \in WorkItem
        BY <2>1 DEF WorkItem
    <2>4. worker' \in [Bridge -> WorkItem \cup {None}]
        BY <1>0, <2>2, <2>3 DEF AuthorityOK
    <2>5. AuthorityOK'
        BY <1>0, <1>p, <2>4 DEF AuthorityOK, Publish
    <2> QED BY <1>0, <1>p, <1>b, <1>c, <1>d, <2>5 DEF Publish, TypeOK
<1>g. ASSUME NEW b \in Bridge, NEW l \in List, NEW j \in Joiner, GroupCommand(b, l, j)
      PROVE  TypeOK'
    <2>1. lists' \in [Bridge -> [List -> SUBSET Joiner]] /\ enlisted' \in [Bridge -> SUBSET Joiner]
        <3>1. CASE Enlist(b, l, j)
            BY <3>1, EnlistEffect
        <3>2. CASE lists' = [lists EXCEPT ![b][l] = @ \ {j}] /\ UNCHANGED enlisted
            BY <1>0, <3>2, UnlistEffect DEF AuthorityOK
        <3> QED BY <1>g, <3>1, <3>2 DEF GroupCommand
    <2>2. AuthorityOK'
        BY <1>0, <1>g, <2>1 DEF AuthorityOK, GroupCommand
    <2> QED BY <1>0, <1>g, <1>b, <1>c, <1>d, <2>2 DEF GroupCommand, TypeOK
<1>i. ASSUME NEW b \in Bridge, Hang(b) PROVE TypeOK'
    <2>1. hung' = [hung EXCEPT ![b] = ~hung[b]]
        BY <1>i DEF Hang
    <2>2. hung' \in [Bridge -> BOOLEAN]
        BY <1>0, <2>1 DEF ProcessOK
    <2> QED BY <1>0, <1>i, <1>a, <1>b, <1>d, <2>2 DEF Hang, TypeOK, ProcessOK
<1>10. ASSUME NEW b \in Bridge, Reply(b) PROVE TypeOK'
    <2> DEFINE w == worker[b]
    <2>1. w \in WorkItem /\ w.step = "reply"
        BY <1>0, <1>10 DEF AuthorityOK, Reply
    <2>2. w.rid \in Req /\ w.result \in Result /\ w.to \in Bridge \cup Stranger \cup {None}
        BY <2>1 DEF WorkItem
    <2>3. req[w.rid].pc # "new"
        BY <1>10 DEF OwnedInv, WorkerOwned, Owned, Reply
    <2>4. RequestOK' /\ BusOK' /\ mail' \in [Bridge -> SUBSET Message]
        <3>1. CASE Resolve(b, "local", w.rid, w.result) /\ UNCHANGED mail
            BY <1>0, <2>2, <2>3, <3>1, BusSteps DEF Bus
        <3>2. CASE UNCHANGED <<busState, mail>>
            BY <1>0, <1>d, <3>2
        <3>3. CASE Post(w.to, Msg("result", w.rid, b, w.result)) /\ UNCHANGED busState
            <4>1. Msg("result", w.rid, b, w.result) \in Message
                BY <2>2, MessageType
            <4> QED BY <1>0, <1>d, <3>3, <4>1 DEF Post
        <3> QED BY <1>10, <3>1, <3>2, <3>3 DEF Reply
    <2>5. AuthorityOK'
        BY <1>0, <1>10 DEF AuthorityOK, Reply
    <2> QED BY <1>10, <1>0, <1>b, <1>c, <2>4, <2>5 DEF Reply, TypeOK
<1>11. ASSUME NEW b \in Bridge, NEW m \in mail[b], Dispatch(b, m) PROVE TypeOK'
    <2>1. m \in Message
        BY <1>0
    <2>2. /\ m.rid \in Req /\ m.from \in Bridge \cup Stranger /\ m.kind \in {"claim", "result"}
          /\ m.kind = "result" => m.result \in Result \cup {"malformed"}
        BY <2>1 DEF Message
    <2>3. CASE UNCHANGED <<busState, authority>>
        BY <1>0, <1>11, <1>a, <1>b, <1>c, <1>d, <2>3 DEF Dispatch, TypeOK
    <2>4. CASE HandleClaim(b, m)
        <3>1. Work(m.rid, m.from) \in WorkItem
            BY <2>2, WorkType
        <3>2. AuthorityOK'
            <4>1. CASE UNCHANGED <<held, seen, tally>>
                BY <1>0, <2>4, <4>1 DEF AuthorityOK, HandleClaim
            <4>2. CASE /\ held' = [held EXCEPT ![b] = Work(m.rid, m.from)]
                       /\ seen' = [seen EXCEPT ![b][m.rid] = now + Ttl]
                       /\ TakeUp(m.rid)
                <5>1. held' \in [Bridge -> WorkItem \cup {None}]
                    BY <1>0, <3>1, <4>2 DEF AuthorityOK
                <5>2. seen' \in [Bridge -> [Req -> Int]]
                    BY <2>2, <4>2, SeenEffect
                <5>3. taken' \in [Req -> Seq(Int)] /\ rulings' \in [Req -> Nat]
                    BY <2>2, <4>2, TallyEffect
                <5>4. UNCHANGED <<queue, worker, record, decided>>
                    BY <2>4 DEF HandleClaim
                <5> QED BY <1>0, <5>1, <5>2, <5>3, <5>4 DEF AuthorityOK
            <4> QED BY <2>4, <4>1, <4>2 DEF HandleClaim
        <3> QED BY <1>0, <1>11, <1>b, <1>c, <1>d, <2>4, <3>2 DEF Dispatch, HandleClaim, TypeOK
    <2>5. CASE m.kind = "result" /\ HandleResult(b, m)
        <3>1. RequestOK' /\ BusOK'
            <4>1. CASE UNCHANGED busState
                BY <1>d, <4>1
            <4>2. CASE /\ req[m.rid].at = b
                       /\ Resolve(b, "direct", m.rid, IF m.result = "malformed" THEN "closed" ELSE m.result)
                <5>1. req[m.rid].pc # "new"
                    BY <2>2, <4>2, NewHasNoBridge
                <5>2. (IF m.result = "malformed" THEN "closed" ELSE m.result) \in Result \cup {"closed"}
                    BY <2>2, <2>5
                <5> QED BY <2>2, <4>2, <5>1, <5>2, BusSteps DEF Bus
            <4> QED BY <2>5, <4>1, <4>2 DEF HandleResult
        <3> QED BY <1>0, <1>11, <1>a, <1>b, <1>c, <2>5, <3>1 DEF Dispatch, HandleResult, TypeOK
    <2> QED BY <1>11, <2>2, <2>3, <2>4, <2>5 DEF Dispatch
<1>12. ASSUME NEW b \in Bridge, EnqueueHeld(b) PROVE TypeOK'
    <2>1. held[b] \in WorkItem /\ queue[b] \in Seq(WorkItem)
        BY <1>0, <1>12 DEF AuthorityOK, EnqueueHeld
    <2>2. Append(queue[b], held[b]) \in Seq(WorkItem)
        BY <2>1, QueueEffect
    <2>3. AuthorityOK'
        BY <1>0, <1>12, <2>2 DEF AuthorityOK, EnqueueHeld
    <2> QED BY <1>0, <1>12, <1>b, <1>c, <1>d, <2>3 DEF EnqueueHeld, TypeOK
<1>13. ASSUME NEW b \in Bridge, NEW r \in Req, Stray(b, r) PROVE TypeOK'
    <2> DEFINE a == req[r].code.aid
    <2>1. Routed(req[r]) /\ a \in Bridge
        BY <1>13, RoutedType, CodeAssumption DEF Stray, Routed
    <2>2. PICK m \in {Msg("result", r, s, "joined") : s \in Stranger}
                \cup {[Msg("result", r, a, "joined") EXCEPT !.verified = FALSE],
                      Msg("result", r, a, "malformed")} : Post(b, m)
        BY <1>13 DEF Stray
    <2>3. "joined" \in Result
        BY DEF Result
    <2> HIDE DEF a
    <2>4. m \in Message
        <3>1. \A s \in Stranger : Msg("result", r, s, "joined") \in Message
            BY <2>3, MessageType
        <3>2. [Msg("result", r, a, "joined") EXCEPT !.verified = FALSE] \in Message
            BY <2>1, <2>3, MessageType
        <3>3. Msg("result", r, a, "malformed") \in Message
            BY <2>1, MessageType
        <3> QED BY <2>2, <3>1, <3>2, <3>3
    <2>5. mail' \in [Bridge -> SUBSET Message]
        BY <1>0, <2>2, <2>4, PostEffect
    <2> QED BY <1>13, <1>0, <1>a, <1>b, <1>c, <1>d, <2>5 DEF Stray, TypeOK
<1>14. ASSUME NEW b \in Bridge, Shutdown(b) PROVE TypeOK'
    <2>1. AuthorityOK' /\ ProcessOK'
        BY <1>0, <1>14 DEF AuthorityOK, ProcessOK, Shutdown
    <2> QED BY <1>0, <1>14, <1>b, <1>d, <2>1 DEF Shutdown, TypeOK
<1>15. ASSUME NEW b \in Bridge, Restart(b) PROVE TypeOK'
    <2>1. RequestOK'
        BY <1>15, RestartEffect DEF RequestOK
    <2>2. BusOK'
        BY <1>0, <1>15, CapAssumption DEF BusOK, Restart
    <2>3. AuthorityOK' /\ ProcessOK'
        <3>1. queue' \in [Bridge -> Seq(WorkItem)]
            <4>1. <<>> \in Seq(WorkItem)
                OBVIOUS
            <4> QED BY <1>0, <1>15, <4>1 DEF AuthorityOK, Restart
        <3>2. worker' \in [Bridge -> WorkItem \cup {None}] /\ held' \in [Bridge -> WorkItem \cup {None}]
            BY <1>0, <1>15 DEF AuthorityOK, Restart
        <3>3. seen' \in [Bridge -> [Req -> Int]]
            <4>1. [r \in Req |-> 0] \in [Req -> Int]
                OBVIOUS
            <4> QED BY <1>0, <1>15, <4>1 DEF AuthorityOK, Restart
        <3>4. ProcessOK'
            <4>1. /\ boots' = [boots EXCEPT ![b] = @ + 1] /\ hung' = hung
                  /\ running' = [running EXCEPT ![b] = TRUE] /\ now' = now
                BY <1>15 DEF Restart
            <4> QED BY <1>0, <4>1 DEF ProcessOK
        <3>5. taken' \in [Req -> Seq(Int)] /\ rulings' \in [Req -> Nat]
            <4>1. /\ taken' = [r \in Req |-> IF ClaimOf(b, r) THEN <<>> ELSE taken[r]]
                  /\ rulings' = [r \in Req |-> IF ClaimOf(b, r) THEN 0 ELSE rulings[r]]
                BY <1>15 DEF Restart
            <4>2. <<>> \in Seq(Int)
                OBVIOUS
            <4> QED BY <1>0, <4>1, <4>2 DEF AuthorityOK
        <3>6. UNCHANGED <<record, decided>>
            BY <1>15 DEF Restart
        <3> QED BY <1>0, <3>1, <3>2, <3>3, <3>4, <3>5, <3>6 DEF AuthorityOK
    <2>4. ServiceOK'
        <3>1. PICK p \in Policies[b] : policy' = [policy EXCEPT ![b] = p]
            BY <1>15 DEF Restart
        <3>2. p \in UNION {Policies[a] : a \in Bridge}
            OBVIOUS
        <3>3. minted' = minted /\ accepted' = accepted
            BY <1>15 DEF Restart
        <3> QED BY <1>0, <3>1, <3>2, <3>3 DEF ServiceOK
    <2> QED BY <1>0, <1>15, <2>1, <2>2, <2>3, <2>4 DEF Restart, TypeOK
<1>16. CASE Tick
    BY <1>0, <1>16, <1>a, <1>b, <1>d DEF Tick, TypeOK, ProcessOK
<1>17. CASE UNCHANGED vars
    BY <1>0, <1>17, <1>a, <1>b, <1>c, <1>d DEF vars, TypeOK
<1> QED BY <1>1, <1>2, <1>3, <1>4, <1>5, <1>6, <1>7, <1>8, <1>9, <1>p, <1>10, <1>11, <1>12, <1>13,
           <1>14, <1>15, <1>16, <1>17, <1>g, <1>i DEF Next, RequestStep, AuthorityStep

----------------------------------------------------------------------------
(* What no step changes.                                                   *)

Same(r) == /\ req'[r].pc # "new" /\ req'[r].at = req[r].at /\ req'[r].bus = req[r].bus
           /\ req'[r].joiner = req[r].joiner /\ req'[r].code = req[r].code
           /\ req'[r].receipt = req[r].receipt /\ req'[r].date = req[r].date
           /\ req[r].pc \in {"wait", "done"} => req'[r].pc \in {"wait", "done"}

\* A claim request that is routed in this step.
Routes(r) == \E b \in Bridge, j \in Joiner, c \in Code, rc \in accepted \cup {None}, k \in Skew :
                 Claim(r, b, j, c, rc, k)

\* Once a code has been routed, bridge, bus, joiner, code and receipt of the
\* request stay as they are until it is answered and after.
LEMMA Kept ==
    ASSUME TypeOK, OwnedInv, [Next]_vars
    PROVE  /\ \A r \in Req : req[r].pc # "new" => Same(r)
           /\ \A r \in Req : req[r].pc = "new" => req'[r] = req[r] \/ Routes(r)
<1> DEFINE Goal == /\ \A r \in Req : req[r].pc # "new" => Same(r)
                   /\ \A r \in Req : req[r].pc = "new" => req'[r] = req[r] \/ Routes(r)
<1> SUFFICES Goal
    OBVIOUS
<1> USE DEF busState, authority, record, tally, service, process
<1>0. req \in [Req -> Request]
    BY DEF TypeOK, RequestOK
<1>a. ASSUME UNCHANGED req PROVE Goal
    BY <1>a DEF Same
<1>b. ASSUME NEW r \in Req, req[r].pc \in {"send", "wait"},
             NEW a \in Result \cup {"unavailable"}, Finish(r, a)
      PROVE  Goal
    <2>1. Ended(r, a)
        BY <1>b, FinishEffect
    <2>2. req[r] \in Request
        BY <1>0
    <2>3. Same(r)
        BY <2>1, <2>2 DEF Ended, Request, Same
    <2> QED BY <1>b, <2>1, <2>3 DEF Ended, Same
<1>c. ASSUME NEW r \in Req, req[r].pc # "new", req' = [req EXCEPT ![r].pc = "wait"]
      PROVE  Goal
    <2>1. req' = [req EXCEPT ![r] = [req[r] EXCEPT !.pc = "wait"]]
        BY <1>0, <1>c
    <2>2. req[r] \in Request /\ req'[r] = [req[r] EXCEPT !.pc = "wait"]
        BY <1>0, <2>1
    <2>3. Same(r)
        BY <2>2 DEF Request, Same
    <2> QED BY <1>c, <1>0, <2>1, <2>3 DEF Same
<1>d. ASSUME NEW b \in Bridge, NEW x \in Bus, NEW r \in Req, req[r].pc # "new",
             NEW a \in Result \cup {"closed"}, Resolve(b, x, r, a)
      PROVE  Goal
    <2>1. /\ \/ req'[r] = [req[r] EXCEPT !.reply = a]
             \/ req'[r] = req[r]
          /\ \A s \in Req : s # r => req'[s] = req[s]
        BY <1>d, ResolveEffect
    <2>2. req[r] \in Request
        BY <1>0
    <2>3. Same(r)
        BY <1>d, <2>1, <2>2 DEF Request, Same
    <2> QED BY <1>d, <2>1, <2>3 DEF Same
<1>1. ASSUME NEW b \in Bridge, NEW c \in Code, Mint(b, c) PROVE UNCHANGED req
    BY <1>1 DEF Mint
<1>2. ASSUME NEW b \in Bridge, NEW c \in Code, NEW age \in BOOLEAN, AcceptPolicy(b, c, age)
      PROVE  UNCHANGED req
    BY <1>2 DEF AcceptPolicy
<1>3. ASSUME NEW r \in Req, NEW b \in Bridge, NEW j \in Joiner, NEW c \in Code,
             NEW rc \in accepted \cup {None}, NEW k \in Skew, Claim(r, b, j, c, rc, k)
      PROVE  Goal
    <2>1. req[r].pc = "new"
        BY <1>3 DEF Claim
    <2>3. \A s \in Req : s # r => req'[s] = req[s]
        BY <1>3, ClaimType
    <2>2. Routes(r)
        BY <1>3 DEF Routes
    <2> QED BY <2>1, <2>2, <2>3 DEF Same
<1>4. ASSUME NEW r \in Req, Enqueue(r) PROVE Goal
    BY <1>4, <1>b, <1>c DEF Enqueue
<1>5. ASSUME NEW r \in Req, SendClaim(r) PROVE Goal
    BY <1>5, <1>b, <1>c DEF SendClaim
<1>6. ASSUME NEW r \in Req, Answer(r) PROVE Goal
    <2>1. (IF req[r].reply = "closed" THEN "unavailable" ELSE req[r].reply)
             \in Result \cup {"unavailable"}
        BY <1>0, <1>6 DEF Request, Answer
    <2> QED BY <1>6, <2>1, <1>b DEF Answer
<1>7. ASSUME NEW r \in Req, Timeout(r) \/ Disconnect(r)
      PROVE  Goal
    BY <1>7, <1>b DEF Timeout, Disconnect
<1>8. ASSUME NEW b \in Bridge, Adjudicate(b) PROVE UNCHANGED req
    BY <1>8 DEF Adjudicate
<1>9. ASSUME NEW b \in Bridge, AddMember(b) \/ Publish(b) \/ Hang(b) PROVE UNCHANGED req
    BY <1>9 DEF AddMember, Publish, Hang
<1>g. ASSUME NEW b \in Bridge, NEW l \in List, NEW j \in Joiner, GroupCommand(b, l, j)
      PROVE  UNCHANGED req
    BY <1>g DEF GroupCommand
<1>10. ASSUME NEW b \in Bridge, Reply(b) PROVE Goal
    <2>1. worker[b] \in WorkItem /\ worker[b].step = "reply"
        BY <1>10 DEF TypeOK, AuthorityOK, Reply
    <2>2. worker[b].rid \in Req /\ worker[b].result \in Result
        BY <2>1 DEF WorkItem
    <2>3. req[worker[b].rid].pc # "new"
        BY <1>10 DEF OwnedInv, WorkerOwned, Owned, Reply
    <2> QED BY <1>10, <1>a, <1>d, <2>2, <2>3 DEF Reply, Bus
<1>11. ASSUME NEW b \in Bridge, NEW m \in mail[b], Dispatch(b, m)
       PROVE  Goal
    <2>1. /\ m.rid \in Req
          /\ m.kind \in {"claim", "result"}
          /\ m.kind = "result" => m.result \in Result \cup {"malformed"}
        BY DEF TypeOK, Message
    <2>2. CASE UNCHANGED req
        BY <1>a, <2>2
    <2>3. CASE /\ m.kind = "result" /\ req[m.rid].at = b
               /\ Resolve(b, "direct", m.rid, IF m.result = "malformed" THEN "closed" ELSE m.result)
        <3>1. req[m.rid].pc # "new"
            BY <2>1, <2>3, NewHasNoBridge
        <3>2. (IF m.result = "malformed" THEN "closed" ELSE m.result) \in Result \cup {"closed"}
            BY <2>1, <2>3
        <3> QED BY <2>1, <2>3, <3>1, <3>2, <1>d DEF Bus
    <2> QED BY <1>11, <2>1, <2>2, <2>3 DEF Dispatch, HandleClaim, HandleResult
<1>12. ASSUME NEW b \in Bridge, EnqueueHeld(b) PROVE UNCHANGED req
    BY <1>12 DEF EnqueueHeld
<1>13. ASSUME NEW b \in Bridge, NEW r \in Req, Stray(b, r) PROVE UNCHANGED req
    BY <1>13 DEF Stray
<1>14. ASSUME NEW b \in Bridge, Shutdown(b) PROVE UNCHANGED req
    BY <1>14 DEF Shutdown
<1>15. ASSUME NEW b \in Bridge, Restart(b) PROVE Goal
    <2> SUFFICES ASSUME NEW s \in Req
                 PROVE  IF req[s].pc = "new" THEN req'[s] = req[s] ELSE Same(s)
        OBVIOUS
    <2>1. \/ /\ req[s].pc # "new"
             /\ req'[s] = [req[s] EXCEPT !.pc = "done", !.reply = None, !.answer = "unavailable"]
          \/ req'[s] = req[s]
        BY <1>15, RestartEffect
    <2>2. req[s] \in Request
        BY <1>0
    <2> QED BY <2>1, <2>2 DEF Request, Same
<1>16. CASE Tick
    BY <1>16, <1>a DEF Tick
<1>17. CASE UNCHANGED vars
    BY <1>17, <1>a DEF vars
<1> QED BY <1>a, <1>1, <1>2, <1>3, <1>4, <1>5, <1>6, <1>7, <1>8, <1>9, <1>g, <1>10, <1>11, <1>12, <1>13,
           <1>14, <1>15, <1>16, <1>17 DEF Next, RequestStep, AuthorityStep

----------------------------------------------------------------------------
(* Permits and pending entries.                                            *)

\* Nothing but the requests, the pending maps and the semaphores is counted.
LEMMA PermitsFrame ==
    ASSUME PermitsInv, UNCHANGED permits,
           \A b \in Bridge, x \in Bus : Live(b, x)' = Live(b, x),
           \A b \in Bridge, x \in Bus : pending'[b][x] \subseteq pending[b][x]
    PROVE  PermitsInv'
BY DEF PermitsInv

\* PendingEntryGuard: one request in flight less, one permit more.
LEMMA PermitsFinish ==
    ASSUME TypeOK, PermitsInv, NEW r \in Req, req[r].pc \in {"send", "wait"},
           NEW a \in Result \cup {"unavailable"}, Finish(r, a)
    PROVE  PermitsInv'
<1> DEFINE b0 == req[r].at
           x0 == req[r].bus
<1>1. /\ Ended(r, a) /\ b0 \in Bridge /\ x0 \in Bus
      /\ pending' = [pending EXCEPT ![b0][x0] = @ \ {r}]
      /\ permits' = [permits EXCEPT ![b0][x0] = @ + 1]
    BY FinishEffect
<1>2. req[r] \in Request /\ r \in Live(b0, x0)
    BY DEF TypeOK, RequestOK, Live
<1>3. req'[r].pc = "done"
    BY <1>1, <1>2 DEF Ended, Request
<1> HIDE DEF b0, x0
<1>4. ASSUME NEW b \in Bridge, NEW x \in Bus
      PROVE  Live(b, x)' = IF b = b0 /\ x = x0 THEN Live(b, x) \ {r} ELSE Live(b, x)
    <2>1. r \notin Live(b, x)'
        BY <1>3 DEF Live
    <2>2. \A s \in Req : s # r => (s \in Live(b, x)' <=> s \in Live(b, x))
        BY <1>1 DEF Live, Ended
    <2>3. r \in Live(b, x) => b = b0 /\ x = x0
        BY DEF Live, b0, x0
    <2> QED BY <2>1, <2>2, <2>3 DEF Live
<1>5. permits \in [Bridge -> [Bus -> Nat]] /\ pending \in [Bridge -> [Bus -> SUBSET Req]]
    BY DEF TypeOK, BusOK
<1>6. ASSUME NEW b \in Bridge, NEW x \in Bus
      PROVE  /\ permits'[b][x] = IF b = b0 /\ x = x0 THEN permits[b][x] + 1 ELSE permits[b][x]
             /\ pending'[b][x] = IF b = b0 /\ x = x0 THEN pending[b][x] \ {r} ELSE pending[b][x]
    <2>1. permits[b0][x0] + 1 \in Nat
        <3>1. permits[b0] \in [Bus -> Nat] BY <1>1, <1>5
        <3> QED BY <1>1, <3>1
    <2>2. pending[b0][x0] \ {r} \in SUBSET Req
        <3>1. pending[b0] \in [Bus -> SUBSET Req] BY <1>1, <1>5
        <3> QED BY <1>1, <3>1
    <2>3. permits'[b][x] = IF b = b0 /\ x = x0 THEN permits[b][x] + 1 ELSE permits[b][x]
        BY <1>1, <1>5, <2>1, TableUpdate
    <2>4. pending'[b][x] = IF b = b0 /\ x = x0 THEN pending[b][x] \ {r} ELSE pending[b][x]
        <3> DEFINE v == pending[b0][x0] \ {r}
        <3>1. /\ pending' = [pending EXCEPT ![b0][x0] = v] /\ v \in SUBSET Req
              /\ b0 \in Bridge /\ x0 \in Bus /\ pending \in [Bridge -> [Bus -> SUBSET Req]]
            BY <1>1, <1>5, <2>2
        <3> HIDE DEF v
        <3>2. pending'[b][x] = IF b = b0 /\ x = x0 THEN v ELSE pending[b][x]
            BY <3>1, TableUpdate
        <3> QED BY <3>2 DEF v
    <2> QED BY <2>3, <2>4
<1>7. ASSUME NEW b \in Bridge, NEW x \in Bus
      PROVE  /\ IsFiniteSet(Live(b, x)')
             /\ permits'[b][x] + Cardinality(Live(b, x)') = MaxPending
             /\ pending'[b][x] \subseteq Live(b, x)'
    <2>1. /\ IsFiniteSet(Live(b, x)) /\ permits[b][x] + Cardinality(Live(b, x)) = MaxPending
          /\ pending[b][x] \subseteq Live(b, x)
        BY DEF PermitsInv
    <2>2. CASE b = b0 /\ x = x0
        <3>1. /\ IsFiniteSet(Live(b, x)')
              /\ Cardinality(Live(b, x)') = Cardinality(Live(b, x)) - 1
            BY <1>2, <1>4, <2>1, <2>2, FS_RemoveElement
        <3>2. permits[b][x] \in Nat /\ Cardinality(Live(b, x)) \in Nat
            <4>1. permits[b] \in [Bus -> Nat] BY <1>5
            <4> QED BY <2>1, <4>1, FS_CardinalityType
        <3>3. permits'[b][x] = permits[b][x] + 1
            BY <1>6, <2>2
        <3>4. permits'[b][x] + Cardinality(Live(b, x)') = MaxPending
            BY <2>1, <3>1, <3>2, <3>3
        <3> QED BY <1>4, <1>6, <2>1, <2>2, <3>1, <3>4
    <2>3. CASE ~(b = b0 /\ x = x0)
        BY <1>4, <1>6, <2>1, <2>3
    <2> QED BY <2>2, <2>3
<1> QED BY <1>7 DEF PermitsInv

\* Claim takes a permit for the request it puts in flight, or takes none and
\* refuses it.
LEMMA PermitsClaim ==
    ASSUME TypeOK, PermitsInv, NEW r \in Req, NEW b0 \in Bridge, NEW j \in Joiner, NEW c \in Code,
           NEW rc \in accepted \cup {None}, NEW k \in Skew, Claim(r, b0, j, c, rc, k)
    PROVE  PermitsInv'
<1> DEFINE x0 == IF c.aid = b0 THEN "local" ELSE "direct"
           q == [NoReq EXCEPT !.at = b0, !.bus = x0, !.joiner = j, !.code = c, !.receipt = rc,
                            !.date = now + k]
<1>1. x0 \in Bus
    BY DEF Bus
<1>2. /\ req[r].pc = "new" /\ req \in [Req -> Request]
      /\ permits \in [Bridge -> [Bus -> Nat]] /\ pending \in [Bridge -> [Bus -> SUBSET Req]]
    BY DEF Claim, TypeOK, RequestOK, BusOK
<1>3. \A b \in Bridge, x \in Bus : r \notin Live(b, x)
    BY <1>2 DEF Live
<1>4. CASE /\ req' = [req EXCEPT ![r] = [q EXCEPT !.pc = "done", !.answer = "unavailable"]]
           /\ UNCHANGED <<pending, permits>>
    <2>1. req'[r].pc = "done" /\ \A s \in Req : s # r => req'[s] = req[s]
        BY <1>2, <1>4 DEF NoReq
    <2>2. \A b \in Bridge, x \in Bus : Live(b, x)' = Live(b, x)
        BY <1>3, <2>1 DEF Live
    <2> QED BY <1>4, <2>2, PermitsFrame
<1>5. CASE /\ req' = [req EXCEPT ![r] = [q EXCEPT !.pc = "send"]]
           /\ permits[b0][x0] # 0
           /\ permits' = [permits EXCEPT ![b0][x0] = @ - 1]
           /\ pending' = [pending EXCEPT ![b0][x0] = @ \cup {r}]
    <2>1. /\ req'[r].pc = "send" /\ req'[r].at = b0 /\ req'[r].bus = x0
          /\ \A s \in Req : s # r => req'[s] = req[s]
        <3> HIDE DEF x0
        <3> QED BY <1>2, <1>5 DEF NoReq
    <2> HIDE DEF x0, q
    <2>2. ASSUME NEW b \in Bridge, NEW x \in Bus
          PROVE  Live(b, x)' = IF b = b0 /\ x = x0 THEN Live(b, x) \cup {r} ELSE Live(b, x)
        BY <1>3, <2>1 DEF Live
    <2>3. permits[b0][x0] \in Nat /\ permits[b0][x0] - 1 \in Nat
        <3>1. permits[b0] \in [Bus -> Nat] BY <1>2
        <3>2. permits[b0][x0] \in Nat BY <1>1, <3>1
        <3> QED BY <1>5, <3>2
    <2>4. pending[b0][x0] \cup {r} \in SUBSET Req
        <3>1. pending[b0] \in [Bus -> SUBSET Req] BY <1>2
        <3> QED BY <1>1, <3>1
    <2>5. ASSUME NEW b \in Bridge, NEW x \in Bus
          PROVE  /\ IsFiniteSet(Live(b, x)')
                 /\ permits'[b][x] + Cardinality(Live(b, x)') = MaxPending
                 /\ pending'[b][x] \subseteq Live(b, x)'
        <3>1. /\ IsFiniteSet(Live(b, x)) /\ permits[b][x] + Cardinality(Live(b, x)) = MaxPending
              /\ pending[b][x] \subseteq Live(b, x)
            BY DEF PermitsInv
        <3>2. permits'[b][x] = IF b = b0 /\ x = x0 THEN permits[b][x] - 1 ELSE permits[b][x]
            BY <1>1, <1>2, <1>5, <2>3, TableUpdate
        <3>3. pending'[b][x] = IF b = b0 /\ x = x0 THEN pending[b][x] \cup {r} ELSE pending[b][x]
            <4> DEFINE v == pending[b0][x0] \cup {r}
            <4>1. pending' = [pending EXCEPT ![b0][x0] = v] /\ v \in SUBSET Req
                BY <1>5, <2>4
            <4> HIDE DEF v
            <4>2. pending'[b][x] = IF b = b0 /\ x = x0 THEN v ELSE pending[b][x]
                BY <1>1, <1>2, <4>1, TableUpdate
            <4> QED BY <4>2 DEF v
        <3>4. CASE b = b0 /\ x = x0
            <4>1. /\ IsFiniteSet(Live(b, x)')
                  /\ Cardinality(Live(b, x)') = Cardinality(Live(b, x)) + 1
                BY <1>3, <2>2, <3>1, <3>4, FS_AddElement
            <4>2. Cardinality(Live(b, x)) \in Nat
                BY <3>1, FS_CardinalityType
            <4>3. permits'[b][x] = permits[b][x] - 1 /\ permits[b][x] \in Nat
                BY <2>3, <3>2, <3>4
            <4>4. permits'[b][x] + Cardinality(Live(b, x)') = MaxPending
                BY <3>1, <4>1, <4>2, <4>3
            <4> QED BY <2>2, <3>1, <3>3, <3>4, <4>1, <4>4
        <3>5. CASE ~(b = b0 /\ x = x0)
            BY <2>2, <3>1, <3>2, <3>3, <3>5
        <3> QED BY <3>4, <3>5
    <2> QED BY <2>5 DEF PermitsInv
<1> QED BY <1>4, <1>5 DEF Claim

\* A restart ends every request of the bridge and starts with all permits.
LEMMA PermitsRestart ==
    ASSUME TypeOK, PermitsInv, NEW b0 \in Bridge, Restart(b0)
    PROVE  PermitsInv'
<1>1. /\ req \in [Req -> Request]
      /\ permits \in [Bridge -> [Bus -> Nat]] /\ pending \in [Bridge -> [Bus -> SUBSET Req]]
    BY DEF TypeOK, RequestOK, BusOK
<1>2. ASSUME NEW s \in Req
      PROVE  /\ req[s].at = b0 => req'[s].at = b0 /\ req'[s].pc = "done"
             /\ req[s].at # b0 => req'[s] = req[s]
    <2>1. PICK q \in Request : q = req[s]
        BY <1>1
    <2>2. \/ /\ q.at = b0
             /\ req'[s] = [q EXCEPT !.pc = "done", !.reply = None, !.answer = "unavailable"]
          \/ req'[s] = q /\ (q.at = b0 => q.pc = "done")
        BY <2>1, RestartEffect
    <2>3. CASE /\ q.at = b0
               /\ req'[s] = [q EXCEPT !.pc = "done", !.reply = None, !.answer = "unavailable"]
        <3>1. req'[s].at = q.at /\ req'[s].pc = "done"
            BY <2>3 DEF Request
        <3> QED BY <2>1, <2>3, <3>1
    <2>4. CASE req'[s] = q /\ (q.at = b0 => q.pc = "done")
        BY <2>1, <2>4
    <2> QED BY <2>2, <2>3, <2>4
<1>3. ASSUME NEW b \in Bridge, NEW x \in Bus
      PROVE  /\ IsFiniteSet(Live(b, x)')
             /\ permits'[b][x] + Cardinality(Live(b, x)') = MaxPending
             /\ pending'[b][x] \subseteq Live(b, x)'
    <2>1. /\ IsFiniteSet(Live(b, x)) /\ permits[b][x] + Cardinality(Live(b, x)) = MaxPending
          /\ pending[b][x] \subseteq Live(b, x)
        BY DEF PermitsInv
    <2>2. /\ permits' = [permits EXCEPT ![b0] = [y \in Bus |-> MaxPending]]
          /\ pending' = [pending EXCEPT ![b0] = [y \in Bus |-> {}]]
        BY DEF Restart
    <2>3. CASE b = b0
        <3>1. Live(b, x)' = {}
            BY <1>2, <2>3 DEF Live
        <3>2. permits'[b][x] = MaxPending /\ pending'[b][x] = {}
            BY <1>1, <2>2, <2>3
        <3> QED BY <3>1, <3>2, FS_EmptySet, CapAssumption
    <2>4. CASE b # b0
        <3>1. Live(b, x)' = Live(b, x)
            BY <1>2, <2>4 DEF Live
        <3>2. permits'[b] = permits[b] /\ pending'[b] = pending[b]
            BY <1>1, <2>2, <2>4
        <3> QED BY <2>1, <3>1, <3>2
    <2> QED BY <2>3, <2>4
<1> QED BY <1>3 DEF PermitsInv

\* The permits and the requests in flight add up after every step.
LEMMA PermitsNext == TypeOK /\ OwnedInv /\ PermitsInv /\ [Next]_vars => PermitsInv'
<1> SUFFICES ASSUME TypeOK, OwnedInv, PermitsInv, [Next]_vars PROVE PermitsInv'
    OBVIOUS
<1>0. req \in [Req -> Request]
    BY DEF TypeOK, RequestOK
<1>a. UNCHANGED busState => PermitsInv'
    BY PermitsFrame DEF busState, Live
<1>b. ASSUME NEW r \in Req, req[r].pc = "send", req' = [req EXCEPT ![r].pc = "wait"],
             UNCHANGED <<pending, permits>>
      PROVE  PermitsInv'
    <2>1. req' = [req EXCEPT ![r] = [req[r] EXCEPT !.pc = "wait"]] /\ req[r] \in Request
        BY <1>0, <1>b
    <2>2. /\ req'[r].pc = "wait" /\ req'[r].at = req[r].at /\ req'[r].bus = req[r].bus
          /\ \A s \in Req : s # r => req'[s] = req[s]
        BY <1>0, <2>1 DEF Request
    <2>3. \A b \in Bridge, x \in Bus : Live(b, x)' = Live(b, x)
        BY <1>b, <2>2 DEF Live
    <2> QED BY <1>b, <2>3, PermitsFrame
<1>c. ASSUME NEW b \in Bridge, NEW x \in Bus, NEW r \in Req, req[r].pc # "new",
             NEW a \in Result \cup {"closed"}, Resolve(b, x, r, a)
      PROVE  PermitsInv'
    <2>1. /\ \/ req'[r] = [req[r] EXCEPT !.reply = a]
             \/ req'[r] = req[r]
          /\ \A s \in Req : s # r => req'[s] = req[s]
          /\ \A d \in Bridge, y \in Bus : pending'[d][y] \subseteq pending[d][y]
          /\ permits' = permits
        BY <1>c, ResolveEffect
    <2>2. req[r] \in Request
        BY <1>0
    <2>3. \A s \in Req : req'[s].pc = req[s].pc /\ req'[s].at = req[s].at /\ req'[s].bus = req[s].bus
        BY <2>1, <2>2 DEF Request
    <2>4. \A d \in Bridge, y \in Bus : Live(d, y)' = Live(d, y)
        BY <2>3 DEF Live
    <2> QED BY <2>1, <2>4, PermitsFrame
<1>1. ASSUME NEW b \in Bridge, NEW c \in Code, Mint(b, c) PROVE PermitsInv'
    BY <1>1, <1>a DEF Mint
<1>2. ASSUME NEW b \in Bridge, NEW c \in Code, NEW age \in BOOLEAN, AcceptPolicy(b, c, age)
      PROVE  PermitsInv'
    BY <1>2, <1>a DEF AcceptPolicy
<1>3. ASSUME NEW r \in Req, NEW b \in Bridge, NEW j \in Joiner, NEW c \in Code,
             NEW rc \in accepted \cup {None}, NEW k \in Skew, Claim(r, b, j, c, rc, k)
      PROVE  PermitsInv'
    BY <1>3, PermitsClaim
<1>4. ASSUME NEW r \in Req, Enqueue(r) PROVE PermitsInv'
    BY <1>4, <1>b, PermitsFinish DEF Enqueue
<1>5. ASSUME NEW r \in Req, SendClaim(r) PROVE PermitsInv'
    BY <1>5, <1>b, PermitsFinish DEF SendClaim
<1>6. ASSUME NEW r \in Req, Answer(r) PROVE PermitsInv'
    <2>1. (IF req[r].reply = "closed" THEN "unavailable" ELSE req[r].reply)
             \in Result \cup {"unavailable"}
        BY <1>0, <1>6 DEF Request, Answer
    <2> QED BY <1>6, <2>1, PermitsFinish DEF Answer
<1>7. ASSUME NEW r \in Req, Timeout(r) \/ Disconnect(r) PROVE PermitsInv'
    BY <1>7, PermitsFinish DEF Timeout, Disconnect
<1>8. ASSUME NEW b \in Bridge,
             Adjudicate(b) \/ AddMember(b) \/ Publish(b) \/ EnqueueHeld(b) \/ Hang(b)
      PROVE  PermitsInv'
    BY <1>8, <1>a DEF Adjudicate, AddMember, Publish, EnqueueHeld, Hang
<1>g. ASSUME NEW b \in Bridge, NEW l \in List, NEW j \in Joiner, GroupCommand(b, l, j)
      PROVE  PermitsInv'
    BY <1>g, <1>a DEF GroupCommand
<1>9. ASSUME NEW b \in Bridge, Reply(b) PROVE PermitsInv'
    <2>1. worker[b] \in WorkItem /\ worker[b].step = "reply"
        BY <1>9 DEF TypeOK, AuthorityOK, Reply
    <2>2. worker[b].rid \in Req /\ worker[b].result \in Result
        BY <2>1 DEF WorkItem
    <2>3. req[worker[b].rid].pc # "new"
        BY <1>9 DEF OwnedInv, WorkerOwned, Owned, Reply
    <2> QED BY <1>9, <1>a, <1>c, <2>2, <2>3 DEF Reply, Bus
<1>10. ASSUME NEW b \in Bridge, NEW m \in mail[b], Dispatch(b, m) PROVE PermitsInv'
    <2>1. /\ m.rid \in Req
          /\ m.kind \in {"claim", "result"}
          /\ m.kind = "result" => m.result \in Result \cup {"malformed"}
        BY DEF TypeOK, Message
    <2>2. CASE UNCHANGED busState
        BY <1>a, <2>2
    <2>3. CASE /\ m.kind = "result" /\ req[m.rid].at = b
               /\ Resolve(b, "direct", m.rid, IF m.result = "malformed" THEN "closed" ELSE m.result)
        <3>1. req[m.rid].pc # "new"
            BY <2>1, <2>3, NewHasNoBridge
        <3>2. (IF m.result = "malformed" THEN "closed" ELSE m.result) \in Result \cup {"closed"}
            BY <2>1, <2>3
        <3> QED BY <2>1, <2>3, <3>1, <3>2, <1>c DEF Bus
    <2> QED BY <1>10, <2>1, <2>2, <2>3 DEF Dispatch, HandleClaim, HandleResult
<1>11. ASSUME NEW b \in Bridge, NEW r \in Req, Stray(b, r) PROVE PermitsInv'
    BY <1>11, <1>a DEF Stray
<1>12. ASSUME NEW b \in Bridge, Shutdown(b) PROVE PermitsInv'
    BY <1>12, <1>a DEF Shutdown
<1>13. ASSUME NEW b \in Bridge, Restart(b) PROVE PermitsInv'
    BY <1>13, PermitsRestart
<1>14. CASE Tick \/ UNCHANGED vars
    BY <1>14, <1>a DEF Tick, vars, busState
<1> QED BY <1>1, <1>2, <1>3, <1>4, <1>5, <1>6, <1>7, <1>8, <1>9, <1>g, <1>10, <1>11, <1>12, <1>13,
           <1>14 DEF Next, RequestStep, AuthorityStep

----------------------------------------------------------------------------
(* Whose work is under way.                                                *)

\* Worker, dispatcher, work channel and claim messages carry requests routed to
\* the authority of their code: Enqueue and HandleClaim let nothing else in.
LEMMA OwnedNext == TypeOK /\ OwnedInv /\ [Next]_vars => OwnedInv'
<1> SUFFICES ASSUME TypeOK, OwnedInv, [Next]_vars PROVE OwnedInv'
    OBVIOUS
<1> USE DEF busState, authority, record, tally, service, process
<1>0. /\ QueueOwned /\ WorkerOwned /\ HeldOwned /\ MailOwned
      /\ queue \in [Bridge -> Seq(WorkItem)]
      /\ worker \in [Bridge -> WorkItem \cup {None}]
      /\ held \in [Bridge -> WorkItem \cup {None}]
      /\ mail \in [Bridge -> SUBSET Message]
    BY DEF OwnedInv, TypeOK, AuthorityOK
<1>k. /\ \A b \in Bridge, w \in WorkItem : Owned(b, w) => Owned(b, w)'
      /\ \A r \in Req : req[r].pc # "new" => req'[r].pc # "new" /\ req'[r].bus = req[r].bus
    BY Kept DEF Owned, Same, WorkItem
<1>q. UNCHANGED queue => QueueOwned'
    <2>1. \A b \in Bridge : \A i \in 1..Len(queue[b]) : queue[b][i] \in WorkItem
        BY <1>0
    <2> QED BY <1>0, <1>k, <2>1 DEF QueueOwned
<1>w. UNCHANGED worker => WorkerOwned'
    BY <1>0, <1>k DEF WorkerOwned
<1>h. UNCHANGED held => HeldOwned'
    BY <1>0, <1>k DEF HeldOwned
<1>m. (\A b \in Bridge : \A m \in mail'[b] : m \in mail[b] \/ m.kind = "result") => MailOwned'
    <2>1. \A b \in Bridge : \A m \in mail[b] : m.rid \in Req
        BY <1>0 DEF Message
    <2> QED BY <1>0, <1>k, <2>1 DEF MailOwned
<1>n. UNCHANGED mail => MailOwned'
    BY <1>m
<1>a. ASSUME NEW b \in Bridge, NEW w \in WorkItem, Owned(b, w),
             queue' = [queue EXCEPT ![b] = Append(@, w)]
      PROVE  QueueOwned'
    <2> SUFFICES ASSUME NEW d \in Bridge, NEW i \in 1..Len(queue'[d])
                 PROVE  Owned(d, queue[d][i])'
        BY DEF QueueOwned
    <2>1. queue[d] \in Seq(WorkItem) /\ queue[b] \in Seq(WorkItem)
        BY <1>0
    <2>2. CASE d = b
        <3>1. queue'[d] = Append(queue[b], w)
            BY <1>0, <1>a, <2>2
        <3>2. Len(queue'[d]) = Len(queue[b]) + 1 /\ Len(queue[b]) \in Nat
            BY <2>1, <3>1, QueueEffect
        <3>3. CASE i = Len(queue[b]) + 1
            BY <1>a, <1>k, <2>1, <2>2, <3>1, <3>3, QueueEffect
        <3>4. CASE i \in 1..Len(queue[b])
            <4>1. queue'[d][i] = queue[b][i] /\ queue[b][i] \in WorkItem /\ Owned(b, queue[b][i])
                BY <1>0, <2>1, <3>1, <3>4, QueueEffect DEF QueueOwned
            <4> QED BY <1>k, <2>2, <4>1
        <3> QED BY <3>2, <3>3, <3>4
    <2>3. CASE d # b
        <3>1. queue'[d] = queue[d]
            BY <1>0, <1>a, <2>3
        <3>2. queue[d][i] \in WorkItem /\ Owned(d, queue[d][i])
            BY <1>0, <2>1, <3>1 DEF QueueOwned
        <3> QED BY <1>k, <3>1, <3>2
    <2> QED BY <2>2, <2>3
<1>e. ASSUME NEW b \in Bridge, queue' = [queue EXCEPT ![b] = <<>>] PROVE QueueOwned'
    <2> SUFFICES ASSUME NEW d \in Bridge, NEW i \in 1..Len(queue'[d])
                 PROVE  Owned(d, queue[d][i])'
        BY DEF QueueOwned
    <2>1. d # b /\ queue'[d] = queue[d]
        BY <1>0, <1>e
    <2>2. queue[d][i] \in WorkItem /\ Owned(d, queue[d][i])
        <3>1. queue[d] \in Seq(WorkItem) BY <1>0
        <3> QED BY <1>0, <2>1, <3>1 DEF QueueOwned
    <2> QED BY <1>k, <2>1, <2>2
<1>1. ASSUME NEW b \in Bridge, NEW c \in Code, Mint(b, c) PROVE OwnedInv'
    BY <1>1, <1>q, <1>w, <1>h, <1>n DEF Mint, OwnedInv
<1>2. ASSUME NEW b \in Bridge, NEW c \in Code, NEW age \in BOOLEAN, AcceptPolicy(b, c, age)
      PROVE  OwnedInv'
    BY <1>2, <1>q, <1>w, <1>h, <1>n DEF AcceptPolicy, OwnedInv
<1>3. ASSUME NEW r \in Req, NEW b \in Bridge, NEW j \in Joiner, NEW c \in Code,
             NEW rc \in accepted \cup {None}, NEW k \in Skew, Claim(r, b, j, c, rc, k)
      PROVE  OwnedInv'
    BY <1>3, <1>q, <1>w, <1>h, <1>n DEF Claim, OwnedInv
<1>4. ASSUME NEW r \in Req, Enqueue(r) PROVE OwnedInv'
    <2>1. Routed(req[r]) /\ req[r].bus = "local" /\ req[r].pc # "new"
        BY <1>4, RoutedType DEF Enqueue
    <2>2. Work(r, None) \in WorkItem /\ Owned(req[r].at, Work(r, None)) /\ req[r].at \in Bridge
        BY <2>1, WorkType DEF Owned, Work, Routed
    <2>3. QueueOwned'
        BY <1>4, <1>a, <1>q, <2>2 DEF Enqueue
    <2> QED BY <1>4, <2>3, <1>w, <1>h, <1>n DEF Enqueue, OwnedInv
<1>5. ASSUME NEW r \in Req, SendClaim(r) PROVE OwnedInv'
    <2>1. Routed(req[r]) /\ req[r].bus = "direct" /\ req[r].pc # "new"
        BY <1>5, RoutedType DEF SendClaim
    <2>2. Msg("claim", r, req[r].at, None) \in Message /\ req[r].code.aid \in Bridge
        BY <2>1, MessageType, CodeAssumption DEF Routed
    <2>3. PICK m0 : m0 \in Message /\ m0.rid = r /\ (Post(req[r].code.aid, m0) \/ UNCHANGED mail)
        <3>1. Msg("claim", r, req[r].at, None).rid = r
            BY DEF Msg
        <3>2. \/ Post(req[r].code.aid, Msg("claim", r, req[r].at, None))
              \/ UNCHANGED mail
            BY <1>5 DEF SendClaim
        <3> QED BY <2>2, <3>1, <3>2
    <2>4. MailOwned'
        <3>1. \A b \in Bridge : \A m \in mail'[b] : m \in mail[b] \/ m = m0
            <4>1. CASE Post(req[r].code.aid, m0)
                BY <1>0, <2>2, <2>3, <4>1 DEF Post
            <4> QED BY <2>3, <4>1
        <3>3. \A b \in Bridge : \A m \in mail[b] : m.rid \in Req
            BY <1>0 DEF Message
        <3>4. req'[r].pc # "new" /\ req'[r].bus = "direct"
            BY <1>k, <2>1
        <3>5. \A b \in Bridge : \A m \in mail[b] : m.kind = "claim" =>
                req'[m.rid].pc # "new" /\ req'[m.rid].bus = "direct"
            BY <1>0, <1>k, <3>3 DEF MailOwned
        <3> QED BY <2>3, <3>1, <3>4, <3>5 DEF MailOwned
    <2> QED BY <1>5, <2>4, <1>q, <1>w, <1>h DEF SendClaim, OwnedInv
<1>6. ASSUME NEW r \in Req, Answer(r) \/ Timeout(r) \/ Disconnect(r) PROVE OwnedInv'
    BY <1>6, <1>q, <1>w, <1>h, <1>n DEF Answer, Timeout, Disconnect, OwnedInv
<1>8. ASSUME NEW b \in Bridge, Adjudicate(b) PROVE OwnedInv'
    <2> DEFINE w == Head(queue[b])
    <2>1. queue[b] \in Seq(WorkItem) /\ queue[b] # <<>>
        BY <1>0, <1>8 DEF Adjudicate
    <2>2. w = queue[b][1] /\ 1 \in 1..Len(queue[b]) /\ w \in WorkItem
        BY <2>1
    <2>3. Owned(b, w)
        BY <1>0, <2>2 DEF QueueOwned
    <2>4. PICK n : /\ worker' = [worker EXCEPT ![b] = n]
                   /\ n.rid = w.rid /\ n.step \in {"write", "reply"}
        <3>1. PICK v \in WorkItem, res \in Result \cup {"write"} : Ruled(b, v, res)
            BY <1>8, AdjudicateEffect
        <3>2. v = w
            BY <3>1 DEF Ruled
        <3>3. /\ [v EXCEPT !.step = "write"].rid = v.rid
              /\ [v EXCEPT !.step = "write"].step = "write"
              /\ Concluded(v, "reply", res).rid = v.rid
              /\ Concluded(v, "reply", res).step = "reply"
            BY <3>1 DEF WorkItem, Concluded
        <3> HIDE DEF w
        <3> QED BY <3>1, <3>2, <3>3 DEF Ruled
    <2> HIDE DEF w
    <2>5. WorkerOwned'
        <3>1. \A d \in Bridge : worker'[d] = IF d = b THEN n ELSE worker[d]
            BY <1>0, <2>4
        <3>2. Owned(b, n)'
            BY <1>k, <2>2, <2>3, <2>4 DEF Owned
        <3>3. \A d \in Bridge : d # b /\ worker[d] # None => Owned(d, worker[d])'
            BY <1>0, <1>k, <3>1 DEF WorkerOwned
        <3> QED BY <1>0, <2>4, <3>1, <3>2, <3>3 DEF WorkerOwned
    <2>6. QueueOwned'
        <3> SUFFICES ASSUME NEW d \in Bridge, NEW i \in 1..Len(queue'[d])
                     PROVE  Owned(d, queue[d][i])'
            BY DEF QueueOwned
        <3>1. queue' = [queue EXCEPT ![b] = Tail(queue[b])]
            BY <1>8 DEF Adjudicate
        <3>2. \E j \in 1..Len(queue[d]) : queue'[d][i] = queue[d][j]
            <4>1. CASE d = b
                <5>1. queue'[d] = Tail(queue[b])
                    BY <1>0, <3>1, <4>1
                <5>2. queue'[d][i] = queue[b][i + 1] /\ i + 1 \in 1..Len(queue[b])
                    BY <2>1, <2>2, <5>1, QueueEffect
                <5> QED BY <4>1, <5>2
            <4>2. CASE d # b
                BY <1>0, <3>1, <4>2
            <4> QED BY <4>1, <4>2
        <3>3. \A j \in 1..Len(queue[d]) : queue[d][j] \in WorkItem /\ Owned(d, queue[d][j])
            <4>1. queue[d] \in Seq(WorkItem) BY <1>0
            <4> QED BY <1>0, <4>1 DEF QueueOwned
        <3> QED BY <1>k, <3>2, <3>3
    <2> QED BY <1>8, <2>5, <2>6, <1>h, <1>n DEF Adjudicate, OwnedInv
<1>9. ASSUME NEW b \in Bridge, AddMember(b) \/ Publish(b) PROVE OwnedInv'
    <2>1. worker[b] \in WorkItem /\ Owned(b, worker[b])
        BY <1>0, <1>9 DEF AddMember, Publish, WorkerOwned
    <2>2. PICK n : worker' = [worker EXCEPT ![b] = n] /\ n.rid = worker[b].rid /\ n.step \in {"publish", "reply"}
        <3>1. CASE AddMember(b)
            <4>0. PICK s \in {"publish", "reply"}, res \in {"joined", "write_failed"} : AddedAs(b, s, res)
                BY <3>1, AddMemberEffect
            <4>1. worker' = [worker EXCEPT ![b] = Concluded(worker[b], s, res)]
                BY <4>0 DEF AddedAs
            <4>2. res \in Result
                BY DEF Result, Refusal
            <4>3. /\ Concluded(worker[b], s, res).rid = worker[b].rid
                  /\ Concluded(worker[b], s, res).step = s
                BY <2>1, ConcludedFields
            <4> QED BY <4>1, <4>3
        <3>2. CASE Publish(b)
            <4>1. worker' = [worker EXCEPT ![b] = [worker[b] EXCEPT !.step = "reply"]]
                BY <1>0, <3>2 DEF Publish
            <4>2. /\ [worker[b] EXCEPT !.step = "reply"].rid = worker[b].rid
                  /\ [worker[b] EXCEPT !.step = "reply"].step = "reply"
                BY <2>1 DEF WorkItem
            <4> QED BY <4>1, <4>2
        <3> QED BY <1>9, <3>1, <3>2
    <2>3. WorkerOwned'
        <3>1. \A d \in Bridge : worker'[d] = IF d = b THEN n ELSE worker[d]
            BY <1>0, <2>2
        <3>2. Owned(b, n)'
            BY <1>k, <2>1, <2>2 DEF Owned
        <3>3. \A d \in Bridge : d # b /\ worker[d] # None => Owned(d, worker[d])'
            BY <1>0, <1>k, <3>1 DEF WorkerOwned
        <3> QED BY <1>0, <2>2, <3>1, <3>2, <3>3 DEF WorkerOwned
    <2> QED BY <1>9, <2>3, <1>q, <1>h, <1>n DEF AddMember, Publish, OwnedInv
<1>g. ASSUME NEW b \in Bridge, NEW l \in List, NEW j \in Joiner, GroupCommand(b, l, j)
      PROVE  OwnedInv'
    BY <1>g, <1>q, <1>w, <1>h, <1>n DEF GroupCommand, OwnedInv
<1>i. ASSUME NEW b \in Bridge, Hang(b) PROVE OwnedInv'
    BY <1>i, <1>q, <1>w, <1>h, <1>n DEF Hang, OwnedInv
<1>10. ASSUME NEW b \in Bridge, Reply(b) PROVE OwnedInv'
    <2>1. WorkerOwned'
        <3>1. worker' = [worker EXCEPT ![b] = None]
            BY <1>10 DEF Reply
        <3>2. \A d \in Bridge : worker'[d] = worker[d] \/ worker'[d] = None
            BY <1>0, <3>1
        <3> QED BY <1>0, <1>k, <3>2 DEF WorkerOwned
    <2>2. MailOwned'
        <3>1. CASE UNCHANGED mail BY <1>n, <3>1
        <3>2. CASE Post(worker[b].to, Msg("result", worker[b].rid, b, worker[b].result))
            <4>1. Msg("result", worker[b].rid, b, worker[b].result).kind = "result"
                BY DEF Msg
            <4> QED BY <1>0, <1>m, <3>2, <4>1 DEF Post
        <3> QED BY <1>10, <3>1, <3>2 DEF Reply
    <2> QED BY <1>10, <2>1, <2>2, <1>q, <1>h DEF Reply, OwnedInv
<1>11. ASSUME NEW b \in Bridge, NEW m \in mail[b], Dispatch(b, m) PROVE OwnedInv'
    <2>0. m.kind \in {"claim", "result"}
        BY <1>0 DEF Message
    <2>1. HeldOwned'
        <3>1. CASE UNCHANGED held BY <1>h, <3>1
        <3>2. CASE m.kind = "claim" /\ HandleClaim(b, m)
            <4>1. CASE UNCHANGED held BY <1>h, <4>1
            <4>2. CASE req[m.rid].code.aid = b /\ held' = [held EXCEPT ![b] = Work(m.rid, m.from)]
                <5>1. Work(m.rid, m.from).rid = m.rid /\ m.rid \in Req
                    BY <1>0 DEF Work, Message
                <5>2. req[m.rid].pc # "new"
                    BY <1>0, <3>2 DEF MailOwned
                <5>3. Owned(b, Work(m.rid, m.from))'
                    BY <4>2, <5>1, <5>2, Kept DEF Owned, Same
                <5>4. \A d \in Bridge : held'[d] = IF d = b THEN Work(m.rid, m.from) ELSE held[d]
                    BY <1>0, <4>2
                <5>5. \A d \in Bridge : d # b /\ held[d] # None => Owned(d, held[d])'
                    BY <1>0, <1>k, <5>4 DEF HeldOwned
                <5> QED BY <1>0, <5>3, <5>4, <5>5 DEF HeldOwned
            <4>3. UNCHANGED held \/ (req[m.rid].code.aid = b /\ held' = [held EXCEPT ![b] = Work(m.rid, m.from)])
                BY <3>2 DEF HandleClaim
            <4> QED BY <4>1, <4>2, <4>3
        <3>3. UNCHANGED held \/ (m.kind = "claim" /\ HandleClaim(b, m))
            BY <1>11, <2>0 DEF Dispatch, HandleResult
        <3> QED BY <3>1, <3>2, <3>3
    <2>2. UNCHANGED <<queue, worker, mail>>
        BY <1>11, <2>0 DEF Dispatch, HandleClaim, HandleResult
    <2> QED BY <2>1, <2>2, <1>q, <1>w, <1>n DEF OwnedInv
<1>12. ASSUME NEW b \in Bridge, EnqueueHeld(b) PROVE OwnedInv'
    <2>1. held[b] \in WorkItem /\ Owned(b, held[b])
        BY <1>0, <1>12 DEF EnqueueHeld, HeldOwned
    <2>2. QueueOwned'
        BY <1>12, <1>a, <1>q, <2>1 DEF EnqueueHeld
    <2>3. HeldOwned'
        <3>1. held' = [held EXCEPT ![b] = None]
            BY <1>12 DEF EnqueueHeld
        <3>2. \A d \in Bridge : held'[d] = held[d] \/ held'[d] = None
            BY <1>0, <3>1
        <3> QED BY <1>0, <1>k, <3>2 DEF HeldOwned
    <2> QED BY <1>12, <2>2, <2>3, <1>w, <1>n DEF EnqueueHeld, OwnedInv
<1>13. ASSUME NEW b \in Bridge, NEW r \in Req, Stray(b, r) PROVE OwnedInv'
    <2>1. PICK m : Post(b, m) /\ m.kind = "result"
        <3>1. \A f, res : Msg("result", r, f, res).kind = "result"
            BY DEF Msg
        <3>2. \A f, res : [Msg("result", r, f, res) EXCEPT !.verified = FALSE].kind = "result"
            BY DEF Msg
        <3>3. PICK n \in {Msg("result", r, s, "joined") : s \in Stranger}
                    \cup {[Msg("result", r, req[r].code.aid, "joined") EXCEPT !.verified = FALSE],
                          Msg("result", r, req[r].code.aid, "malformed")} : Post(b, n)
            BY <1>13 DEF Stray
        <3>4. n.kind = "result"
            BY <3>1, <3>2, <3>3
        <3> QED BY <3>3, <3>4
    <2>2. MailOwned'
        BY <1>0, <1>m, <2>1 DEF Post
    <2> QED BY <1>13, <2>2, <1>q, <1>w, <1>h DEF Stray, OwnedInv
<1>14. ASSUME NEW b \in Bridge, Shutdown(b) PROVE OwnedInv'
    BY <1>14, <1>e, <1>w, <1>h, <1>n DEF Shutdown, OwnedInv
<1>15. ASSUME NEW b \in Bridge, Restart(b) PROVE OwnedInv'
    <2>1. /\ queue' = [queue EXCEPT ![b] = <<>>] /\ worker' = [worker EXCEPT ![b] = None]
          /\ held' = [held EXCEPT ![b] = None] /\ UNCHANGED mail
        BY <1>15 DEF Restart
    <2>2. \A d \in Bridge : /\ worker'[d] = worker[d] \/ worker'[d] = None
                            /\ held'[d] = held[d] \/ held'[d] = None
        BY <1>0, <2>1
    <2>3. WorkerOwned'
        BY <1>0, <1>k, <2>2 DEF WorkerOwned
    <2>4. HeldOwned'
        BY <1>0, <1>k, <2>2 DEF HeldOwned
    <2> QED BY <2>1, <2>3, <2>4, <1>e, <1>n DEF OwnedInv
<1>16. CASE Tick \/ UNCHANGED vars
    BY <1>16, <1>q, <1>w, <1>h, <1>n DEF Tick, vars, OwnedInv
<1> QED BY <1>1, <1>2, <1>3, <1>4, <1>5, <1>6, <1>8, <1>9, <1>g, <1>i, <1>10, <1>11, <1>12, <1>13,
           <1>14, <1>15, <1>16 DEF Next, RequestStep, AuthorityStep

----------------------------------------------------------------------------
(* Where an answer comes from.                                             *)

\* What each way of writing a request does to its reply and its answer.
LEMMA AnswersNext ==
    ASSUME TypeOK, OwnedInv, DecisionInv, [Next]_vars
    PROVE  \A r \in Req : /\ req'[r].reply \in Result => req'[r].reply \in decided[r]
                          /\ req'[r].answer \in Result => req'[r].answer \in decided[r]
<1> DEFINE Goal == \A r \in Req : /\ req'[r].reply \in Result => req'[r].reply \in decided[r]
                                  /\ req'[r].answer \in Result => req'[r].answer \in decided[r]
<1> SUFFICES Goal
    OBVIOUS
<1> USE DEF busState, authority, record, tally, service, process
<1>0. /\ req \in [Req -> Request] /\ AnswersDecided
      /\ "unavailable" \notin Result /\ "closed" \notin Result /\ None \notin Result
    BY NoneAssumption DEF TypeOK, RequestOK, DecisionInv, Result, Refusal
<1>a. UNCHANGED req => Goal
    BY <1>0 DEF AnswersDecided
<1>b. ASSUME NEW r \in Req, req[r].pc \in {"send", "wait"}, NEW a \in Result \cup {"unavailable"},
             a \in Result => a \in decided[r], Finish(r, a)
      PROVE  Goal
    <2>1. Ended(r, a) /\ req[r] \in Request
        BY <1>0, <1>b, FinishEffect
    <2>2. req'[r].reply = None /\ req'[r].answer = a
        BY <2>1 DEF Ended, Request
    <2>3. \A s \in Req : s # r => req'[s] = req[s]
        BY <2>1 DEF Ended
    <2> QED BY <1>0, <1>b, <2>2, <2>3 DEF AnswersDecided
<1>c. ASSUME NEW r \in Req, req' = [req EXCEPT ![r].pc = "wait"]
      PROVE  Goal
    <2>1. req' = [req EXCEPT ![r] = [req[r] EXCEPT !.pc = "wait"]] /\ req[r] \in Request
        BY <1>0, <1>c
    <2>2. /\ req'[r].reply = req[r].reply /\ req'[r].answer = req[r].answer
          /\ \A s \in Req : s # r => req'[s] = req[s]
        BY <1>0, <2>1 DEF Request
    <2> QED BY <1>0, <2>2 DEF AnswersDecided
<1>d. ASSUME NEW b \in Bridge, NEW x \in Bus, NEW r \in Req, req[r].pc # "new",
             NEW a \in Result \cup {"closed"}, a \in Result => a \in decided[r], Resolve(b, x, r, a)
      PROVE  Goal
    <2>1. /\ \/ req'[r] = [req[r] EXCEPT !.reply = a]
             \/ req'[r] = req[r]
          /\ \A s \in Req : s # r => req'[s] = req[s]
        BY <1>d, ResolveEffect
    <2>2. req[r] \in Request
        BY <1>0
    <2>3. req'[r].reply \in {a, req[r].reply} /\ req'[r].answer = req[r].answer
        BY <2>1, <2>2 DEF Request
    <2> QED BY <1>0, <1>d, <2>1, <2>3 DEF AnswersDecided
<1>1. ASSUME NEW b \in Bridge, NEW c \in Code, Mint(b, c) PROVE Goal
    BY <1>1, <1>a DEF Mint
<1>2. ASSUME NEW b \in Bridge, NEW c \in Code, NEW age \in BOOLEAN, AcceptPolicy(b, c, age)
      PROVE  Goal
    BY <1>2, <1>a DEF AcceptPolicy
<1>3. ASSUME NEW r \in Req, NEW b \in Bridge, NEW j \in Joiner, NEW c \in Code,
             NEW rc \in accepted \cup {None}, NEW k \in Skew, Claim(r, b, j, c, rc, k)
      PROVE  Goal
    <2>1. /\ req'[r].reply = None /\ req'[r].answer \in {None, "unavailable"}
          /\ \A s \in Req : s # r => req'[s] = req[s]
        BY <1>3, ClaimType
    <2> QED BY <1>0, <2>1 DEF AnswersDecided
<1>4. ASSUME NEW r \in Req, Enqueue(r) PROVE Goal
    BY <1>4, <1>0, <1>b, <1>c DEF Enqueue
<1>5. ASSUME NEW r \in Req, SendClaim(r) PROVE Goal
    BY <1>5, <1>0, <1>b, <1>c DEF SendClaim
<1>6. ASSUME NEW r \in Req, Answer(r) PROVE Goal
    <2> DEFINE a == IF req[r].reply = "closed" THEN "unavailable" ELSE req[r].reply
    <2>1. a \in Result \cup {"unavailable"}
        BY <1>0, <1>6 DEF Request, Answer
    <2>2. a \in Result => a \in decided[r]
        BY <1>0 DEF AnswersDecided
    <2>3. Finish(r, a) /\ req[r].pc \in {"send", "wait"}
        BY <1>6 DEF Answer
    <2> HIDE DEF a
    <2> QED BY <1>b, <2>1, <2>2, <2>3
<1>7. ASSUME NEW r \in Req, Timeout(r) \/ Disconnect(r) PROVE Goal
    BY <1>7, <1>0, <1>b DEF Timeout, Disconnect
<1>8. ASSUME NEW b \in Bridge,
             Adjudicate(b) \/ AddMember(b) \/ Publish(b) \/ EnqueueHeld(b) \/ Hang(b)
      PROVE  Goal
    BY <1>8, <1>a DEF Adjudicate, AddMember, Publish, EnqueueHeld, Hang
<1>g. ASSUME NEW b \in Bridge, NEW l \in List, NEW j \in Joiner, GroupCommand(b, l, j) PROVE Goal
    BY <1>g, <1>a DEF GroupCommand
<1>9. ASSUME NEW b \in Bridge, Reply(b) PROVE Goal
    <2>1. worker[b] \in WorkItem /\ worker[b].step = "reply" /\ worker[b] # None
        BY <1>9 DEF TypeOK, AuthorityOK, Reply
    <2>2. worker[b].rid \in Req /\ worker[b].result \in Result
        BY <2>1 DEF WorkItem
    <2>3. req[worker[b].rid].pc # "new"
        BY <1>9 DEF OwnedInv, WorkerOwned, Owned, Reply
    <2>4. worker[b].result \in decided[worker[b].rid]
        BY <2>1 DEF DecisionInv, WorkerDecided
    <2> QED BY <1>9, <1>a, <1>d, <2>2, <2>3, <2>4 DEF Reply, Bus
<1>10. ASSUME NEW b \in Bridge, NEW m \in mail[b], Dispatch(b, m) PROVE Goal
    <2>1. /\ m.rid \in Req /\ m.kind \in {"claim", "result"}
          /\ m.kind = "result" => m.result \in Result \cup {"malformed"}
        BY DEF TypeOK, Message
    <2>2. CASE UNCHANGED req
        BY <1>a, <2>2
    <2> DEFINE a == IF m.result = "malformed" THEN "closed" ELSE m.result
    <2>3. CASE /\ m.kind = "result" /\ m.verified /\ req[m.rid].at = b /\ m.from = req[m.rid].code.aid
               /\ Resolve(b, "direct", m.rid, a)
        <3>1. req[m.rid].pc # "new"
            BY <2>1, <2>3, NewHasNoBridge
        <3>2. a \in Result \cup {"closed"}
            BY <2>1, <2>3
        <3>3. m.from \in Bridge
            BY <2>1, <2>3, <3>1, RoutedType, CodeAssumption DEF Routed
        <3>4. a \in Result => a \in decided[m.rid]
            BY <1>0, <2>3, <3>3 DEF DecisionInv, MailDecided
        <3>5. Resolve(b, "direct", m.rid, a) /\ "direct" \in Bus
            BY <2>3 DEF Bus
        <3> HIDE DEF a
        <3> QED BY <2>1, <3>1, <3>2, <3>4, <3>5, <1>d
    <2>4. \/ UNCHANGED req
          \/ /\ m.kind = "result" /\ m.verified /\ req[m.rid].at = b /\ m.from = req[m.rid].code.aid
             /\ Resolve(b, "direct", m.rid, a)
        BY <1>10, <2>1 DEF Dispatch, HandleClaim, HandleResult
    <2> QED BY <2>2, <2>3, <2>4
<1>11. ASSUME NEW b \in Bridge, NEW r \in Req, Stray(b, r) PROVE Goal
    BY <1>11, <1>a DEF Stray
<1>12. ASSUME NEW b \in Bridge, Shutdown(b) PROVE Goal
    BY <1>12, <1>a DEF Shutdown
<1>13. ASSUME NEW b \in Bridge, Restart(b) PROVE Goal
    <2> SUFFICES ASSUME NEW r \in Req
                 PROVE  /\ req'[r].reply \in Result => req'[r].reply \in decided[r]
                        /\ req'[r].answer \in Result => req'[r].answer \in decided[r]
        OBVIOUS
    <2>1. \/ req'[r] = [req[r] EXCEPT !.pc = "done", !.reply = None, !.answer = "unavailable"]
          \/ req'[r] = req[r]
        BY <1>13, RestartEffect
    <2>2. req[r] \in Request
        BY <1>0
    <2> QED BY <1>0, <2>1, <2>2 DEF Request, AnswersDecided
<1>14. CASE Tick \/ UNCHANGED vars
    BY <1>14, <1>a DEF Tick, vars
<1> QED BY <1>1, <1>2, <1>3, <1>4, <1>5, <1>6, <1>7, <1>8, <1>9, <1>g, <1>10, <1>11, <1>12, <1>13,
           <1>14 DEF Next, RequestStep, AuthorityStep

\* What a decision adds: apply_claim and add_member_from_invite decide one claim
\* of their own authority, and a success has its member.
LEMMA DecidedNext ==
    ASSUME TypeOK, OwnedInv, DecisionInv, [Next]_vars
    PROVE  /\ \A r \in Req : decided[r] \subseteq decided'[r]
           /\ \A b \in Bridge : enlisted[b] \subseteq enlisted'[b]
           /\ \A r \in Req : req[r].pc = "new" => decided'[r] = {}
           /\ \A r \in Req : (decided'[r] \ decided[r]) \cap {"joined", "already"} # {} =>
                req[r].pc # "new" /\ req[r].joiner \in enlisted'[req[r].code.aid]
           /\ \A b \in Bridge : worker'[b] # None /\ worker'[b].step \in {"publish", "reply"} =>
                worker'[b].result \in decided'[worker'[b].rid]
<1> DEFINE Goal == /\ \A r \in Req : decided[r] \subseteq decided'[r]
                   /\ \A b \in Bridge : enlisted[b] \subseteq enlisted'[b]
                   /\ \A r \in Req : req[r].pc = "new" => decided'[r] = {}
                   /\ \A r \in Req : (decided'[r] \ decided[r]) \cap {"joined", "already"} # {} =>
                        req[r].pc # "new" /\ req[r].joiner \in enlisted'[req[r].code.aid]
                   /\ \A b \in Bridge : worker'[b] # None /\ worker'[b].step \in {"publish", "reply"} =>
                        worker'[b].result \in decided'[worker'[b].rid]
<1> SUFFICES Goal
    OBVIOUS
<1> USE DEF busState, authority, record, tally, service, process
<1>0. /\ NewUndecided /\ WorkerDecided /\ WorkerOwned /\ ListsKnown
      /\ worker \in [Bridge -> WorkItem \cup {None}]
      /\ decided \in [Req -> SUBSET Result] /\ enlisted \in [Bridge -> SUBSET Joiner]
      /\ queue \in [Bridge -> Seq(WorkItem)]
    BY DEF TypeOK, AuthorityOK, DecisionInv, OwnedInv
<1>d. UNCHANGED <<decided, worker>> /\ (\A b \in Bridge : enlisted[b] \subseteq enlisted'[b]) => Goal
    BY <1>0 DEF NewUndecided, WorkerDecided
<1>a. UNCHANGED <<decided, enlisted, worker>> => Goal
    BY <1>d
<1>b. ASSUME NEW b \in Bridge, worker' = [worker EXCEPT ![b] = None], UNCHANGED <<decided, enlisted>>
      PROVE  Goal
    <2>1. \A d \in Bridge : worker'[d] = worker[d] \/ worker'[d] = None
        BY <1>0, <1>b
    <2> QED BY <1>0, <1>b, <2>1 DEF NewUndecided, WorkerDecided
<1>c. ASSUME NEW b \in Bridge, NEW w \in WorkItem, Owned(b, w), NEW res \in Result,
             NEW s \in {"publish", "reply"},
             worker' = [worker EXCEPT ![b] = Concluded(w, s, res)],
             Decide(w.rid, res),
             \A d \in Bridge : enlisted[d] \subseteq enlisted'[d],
             res \in {"joined", "already"} => req[w.rid].joiner \in enlisted'[b]
      PROVE  Goal
    <2>1. /\ w.rid \in Req
          /\ Concluded(w, s, res).rid = w.rid
          /\ Concluded(w, s, res).result = res
        BY ConcludedFields
    <2>2. req[w.rid].pc # "new" /\ req[w.rid].code.aid = b
        BY <1>c DEF Owned
    <2>3. \A r \in Req : decided'[r] = IF r = w.rid THEN decided[r] \cup {res} ELSE decided[r]
        BY <1>c, <2>1, TallyEffect
    <2>4. \A d \in Bridge : d # b => worker'[d] = worker[d]
        BY <1>0, <1>c
    <2>5. worker'[b].rid = w.rid /\ worker'[b].result = res
        BY <1>0, <1>c, <2>1
    <2>6. \A d \in Bridge : worker[d] # None => worker[d].rid \in Req
        BY <1>0 DEF WorkItem
    <2>7. \A d \in Bridge : worker'[d] # None /\ worker'[d].step \in {"publish", "reply"} =>
                worker'[d].result \in decided'[worker'[d].rid]
        <3>1. worker'[b].result \in decided'[worker'[b].rid]
            BY <2>1, <2>3, <2>5
        <3>2. ASSUME NEW d \in Bridge, d # b, worker'[d] # None,
                     worker'[d].step \in {"publish", "reply"}
              PROVE  worker'[d].result \in decided'[worker'[d].rid]
            <4>1. worker'[d] = worker[d]
                BY <2>4, <3>2
            <4>2. worker[d].rid \in Req
                BY <2>6, <3>2, <4>1
            <4>3. worker[d].result \in decided[worker[d].rid]
                BY <1>0, <3>2, <4>1 DEF WorkerDecided
            <4>4. decided[worker[d].rid] \subseteq decided'[worker[d].rid]
                BY <2>3, <4>2
            <4> QED BY <4>1, <4>3, <4>4
        <3> QED BY <3>1, <3>2
    <2>8. \A r \in Req : req[r].pc = "new" => decided'[r] = {}
        BY <1>0, <2>2, <2>3 DEF NewUndecided
    <2>9. \A r \in Req : decided[r] \subseteq decided'[r]
        BY <2>3
    <2>10. \A r \in Req : (decided'[r] \ decided[r]) \cap {"joined", "already"} # {} =>
                req[r].pc # "new" /\ req[r].joiner \in enlisted'[req[r].code.aid]
        <3> SUFFICES ASSUME NEW r \in Req, (decided'[r] \ decided[r]) \cap {"joined", "already"} # {}
                     PROVE  req[r].pc # "new" /\ req[r].joiner \in enlisted'[req[r].code.aid]
            OBVIOUS
        <3>1. r = w.rid /\ res \in {"joined", "already"}
            BY <2>3
        <3> QED BY <1>c, <2>2, <3>1
    <2> QED BY <1>c, <2>7, <2>8, <2>9, <2>10
<1>1. ASSUME NEW b \in Bridge, Adjudicate(b) PROVE Goal
    <2>1. PICK w \in WorkItem, res \in Result \cup {"write"} : Ruled(b, w, res)
        BY <1>1, AdjudicateEffect
    <2>2. Owned(b, w)
        <3>1. queue[b] \in Seq(WorkItem) /\ queue[b] # <<>>
            BY <1>0, <1>1 DEF Adjudicate
        <3>2. w = queue[b][1] /\ 1 \in 1..Len(queue[b])
            BY <2>1, <3>1, QueueEffect DEF Ruled
        <3> QED BY <3>2 DEF OwnedInv, QueueOwned
    <2>3. UNCHANGED enlisted
        BY <1>1 DEF Adjudicate
    <2>4. CASE res = "write"
        <3>1. worker' = [worker EXCEPT ![b] = [w EXCEPT !.step = "write"]] /\ UNCHANGED decided
            BY <2>1, <2>4 DEF Ruled
        <3>2. [w EXCEPT !.step = "write"].step = "write"
            BY DEF WorkItem
        <3>3. \A d \in Bridge : worker'[d] = worker[d] \/ worker'[d].step = "write"
            BY <1>0, <3>1, <3>2
        <3> QED BY <1>0, <2>3, <3>1, <3>3 DEF NewUndecided, WorkerDecided
    <2>5. CASE res # "write"
        <3>1. /\ worker' = [worker EXCEPT ![b] = Concluded(w, "reply", res)]
              /\ Decide(w.rid, res) /\ res \in Result
            BY <2>1, <2>5 DEF Ruled
        <3>2. res \in {"joined", "already"} => req[w.rid].joiner \in enlisted'[b]
            BY <1>0, <2>1, <2>3 DEF Ruled, ListsKnown
        <3>3. \A d \in Bridge : enlisted[d] \subseteq enlisted'[d]
            BY <2>3
        <3> QED BY <1>c, <2>2, <3>1, <3>2, <3>3
    <2> QED BY <2>4, <2>5
<1>2. ASSUME NEW b \in Bridge, AddMember(b) PROVE Goal
    <2> DEFINE w == worker[b]
    <2>1. w \in WorkItem /\ Owned(b, w)
        BY <1>0, <1>2 DEF AddMember, WorkerOwned
    <2>0. PICK s \in {"publish", "reply"}, res \in {"joined", "write_failed"} : AddedAs(b, s, res)
        BY <1>2, AddMemberEffect
    <2>2. /\ worker' = [worker EXCEPT ![b] = Concluded(w, s, res)]
          /\ Decide(w.rid, res)
          /\ res = "joined" => Enlist(b, "primary", req[w.rid].joiner)
          /\ res # "joined" => UNCHANGED record
        BY <2>0 DEF AddedAs
    <2>5. req[w.rid].joiner \in Joiner
        <3>1. w.rid \in Req
            BY <2>1 DEF WorkItem
        <3> QED BY <2>1, <3>1, RoutedType DEF Owned, Routed
    <2> HIDE DEF w
    <2>3. /\ \A d \in Bridge : enlisted[d] \subseteq enlisted'[d]
          /\ res \in {"joined", "already"} => req[w.rid].joiner \in enlisted'[b]
        <3>1. CASE res = "joined"
            <4>1. "primary" \in List
                BY DEF List
            <4> QED BY <2>2, <2>5, <3>1, <4>1, EnlistEffect
        <3>2. CASE res = "write_failed"
            BY <2>2, <3>2
        <3> QED BY <3>1, <3>2
    <2>4. res \in Result
        BY <2>2 DEF Result, Refusal
    <2> QED BY <1>c, <2>1, <2>2, <2>3, <2>4
<1>p. ASSUME NEW b \in Bridge, Publish(b) PROVE Goal
    <2>1. /\ worker[b] \in WorkItem /\ worker[b].step = "publish" /\ worker[b] # None
          /\ worker' = [worker EXCEPT ![b] = [worker[b] EXCEPT !.step = "reply"]]
        BY <1>0, <1>p DEF Publish
    <2>2. worker'[b] = [worker[b] EXCEPT !.step = "reply"]
        BY <1>0, <2>1
    <2>3. worker'[b].rid = worker[b].rid /\ worker'[b].result = worker[b].result
        BY <2>1, <2>2 DEF WorkItem
    <2>4. worker[b].result \in decided[worker[b].rid]
        BY <1>0, <2>1 DEF WorkerDecided
    <2>5. \A d \in Bridge : d # b => worker'[d] = worker[d]
        BY <1>0, <2>1
    <2>6. UNCHANGED <<decided, enlisted>>
        BY <1>p DEF Publish
    <2>7. \A d \in Bridge : worker'[d] # None /\ worker'[d].step \in {"publish", "reply"} =>
                worker'[d].result \in decided'[worker'[d].rid]
        BY <1>0, <2>3, <2>4, <2>5, <2>6 DEF WorkerDecided
    <2> QED BY <1>0, <2>6, <2>7 DEF NewUndecided
<1>g. ASSUME NEW b \in Bridge, NEW l \in List, NEW j \in Joiner, GroupCommand(b, l, j) PROVE Goal
    <2>1. UNCHANGED <<decided, worker>>
        BY <1>g DEF GroupCommand
    <2>2. \A d \in Bridge : enlisted[d] \subseteq enlisted'[d]
        BY <1>g, EnlistEffect DEF GroupCommand
    <2> QED BY <1>d, <2>1, <2>2
<1>3. ASSUME NEW b \in Bridge, Reply(b) PROVE Goal
    BY <1>3, <1>b DEF Reply
<1>4. ASSUME NEW b \in Bridge, Restart(b) PROVE Goal
    BY <1>4, <1>b DEF Restart
<1>5. ASSUME NEW r \in Req, RequestStep(r) \/ Disconnect(r) PROVE Goal
    BY <1>5, <1>a DEF RequestStep, Enqueue, SendClaim, Answer, Timeout, Disconnect
<1>6. ASSUME NEW b \in Bridge, EnqueueHeld(b) \/ Shutdown(b) \/ Hang(b) PROVE Goal
    BY <1>6, <1>a DEF EnqueueHeld, Shutdown, Hang
<1>7. ASSUME NEW b \in Bridge, NEW m \in mail[b], Dispatch(b, m) PROVE Goal
    <2>1. m.kind \in {"claim", "result"}
        BY DEF TypeOK, Message
    <2>2. UNCHANGED <<decided, enlisted, worker>>
        BY <1>7, <2>1 DEF Dispatch, HandleClaim, HandleResult
    <2> QED BY <1>a, <2>2
<1>8. ASSUME NEW b \in Bridge, NEW r \in Req, Stray(b, r) PROVE Goal
    BY <1>8, <1>a DEF Stray
<1>9. ASSUME NEW r \in Req, NEW b \in Bridge, NEW j \in Joiner, NEW c \in Code,
             NEW rc \in accepted \cup {None}, NEW k \in Skew, Claim(r, b, j, c, rc, k)
      PROVE  Goal
    BY <1>9, <1>a DEF Claim
<1>10. ASSUME NEW b \in Bridge, NEW c \in Code, NEW age \in BOOLEAN,
              Mint(b, c) \/ AcceptPolicy(b, c, age)
       PROVE  Goal
    BY <1>10, <1>a DEF Mint, AcceptPolicy
<1>11. CASE Tick \/ UNCHANGED vars
    BY <1>11, <1>a DEF Tick, vars
<1>12. BOOLEAN # {}
    OBVIOUS
<1> HIDE DEF Goal
<1> QED BY <1>1, <1>2, <1>p, <1>g, <1>3, <1>4, <1>5, <1>6, <1>7, <1>8, <1>9, <1>10, <1>11, <1>12
        DEF Next, AuthorityStep

\* An addition reaches the record of who has been on a list, a removal does not.
LEMMA ListedNext ==
    ASSUME TypeOK, OwnedInv, ListsKnown, [Next]_vars
    PROVE  ListsKnown'
<1> USE DEF busState, authority, record, tally, service, process
<1>a. UNCHANGED record => ListsKnown'
    BY DEF ListsKnown
<1>b. ASSUME NEW b \in Bridge, NEW l \in List, NEW j \in Joiner, Enlist(b, l, j) PROVE ListsKnown'
    <2>1. /\ lists' \in [Bridge -> [List -> SUBSET Joiner]]
          /\ \A d \in Bridge : enlisted[d] \subseteq enlisted'[d]
          /\ j \in enlisted'[b]
          /\ \A d \in Bridge, y \in List, i \in Joiner :
               i \in lists'[d][y] => i \in lists[d][y] \/ (d = b /\ y = l /\ i = j)
        BY <1>b, EnlistEffect
    <2>2. ASSUME NEW d \in Bridge, NEW y \in List PROVE lists'[d][y] \subseteq enlisted'[d]
        <3>1. lists[d][y] \subseteq enlisted'[d]
            BY <2>1 DEF ListsKnown
        <3>2. lists'[d][y] \subseteq Joiner
            BY <2>1
        <3> QED BY <2>1, <3>1, <3>2
    <2> QED BY <2>2 DEF ListsKnown
<1>1. ASSUME NEW b \in Bridge, AddMember(b) PROVE ListsKnown'
    <2>1. Enlist(b, "primary", req[worker[b].rid].joiner) \/ UNCHANGED record
        BY <1>1 DEF AddMember
    <2>2. worker[b] \in WorkItem /\ Owned(b, worker[b])
        BY <1>1 DEF AddMember, OwnedInv, WorkerOwned, TypeOK, AuthorityOK
    <2>3. req[worker[b].rid].joiner \in Joiner
        <3>1. worker[b].rid \in Req
            BY <2>2 DEF WorkItem
        <3> QED BY <2>2, <3>1, RoutedType DEF Owned, Routed
    <2>4. "primary" \in List
        BY DEF List
    <2> QED BY <1>a, <1>b, <2>1, <2>3, <2>4
<1>2. ASSUME NEW b \in Bridge, NEW l \in List, NEW j \in Joiner, GroupCommand(b, l, j)
      PROVE  ListsKnown'
    <2>1. CASE Enlist(b, l, j)
        BY <1>b, <2>1
    <2>2. CASE lists' = [lists EXCEPT ![b][l] = @ \ {j}] /\ UNCHANGED enlisted
        <3>1. \A d \in Bridge, y \in List : lists'[d][y] \subseteq lists[d][y]
            BY <2>2, UnlistEffect
        <3> QED BY <2>2, <3>1 DEF ListsKnown
    <2> QED BY <1>2, <2>1, <2>2 DEF GroupCommand
<1>3. ASSUME NEW b \in Bridge, Adjudicate(b) \/ Publish(b) \/ Reply(b) \/ EnqueueHeld(b)
                               \/ Shutdown(b) \/ Restart(b) \/ Hang(b)
      PROVE  UNCHANGED record
    BY <1>3 DEF Adjudicate, Publish, Reply, EnqueueHeld, Shutdown, Restart, Hang
<1>4. ASSUME NEW r \in Req, RequestStep(r) \/ Disconnect(r) PROVE UNCHANGED record
    BY <1>4 DEF RequestStep, Enqueue, SendClaim, Answer, Timeout, Disconnect
<1>5. ASSUME NEW b \in Bridge, NEW m \in mail[b], Dispatch(b, m) PROVE UNCHANGED record
    <2>1. m.kind \in {"claim", "result"}
        BY DEF TypeOK, Message
    <2> QED BY <1>5, <2>1 DEF Dispatch, HandleClaim, HandleResult
<1>6. ASSUME NEW b \in Bridge, NEW r \in Req, Stray(b, r) PROVE UNCHANGED record
    BY <1>6 DEF Stray
<1>7. ASSUME NEW r \in Req, NEW b \in Bridge, NEW j \in Joiner, NEW c \in Code,
             NEW rc \in accepted \cup {None}, NEW k \in Skew, Claim(r, b, j, c, rc, k)
      PROVE  UNCHANGED record
    BY <1>7 DEF Claim
<1>8. ASSUME NEW b \in Bridge, NEW c \in Code, Mint(b, c) PROVE UNCHANGED record
    BY <1>8 DEF Mint
<1>9. ASSUME NEW b \in Bridge, NEW c \in Code, NEW age \in BOOLEAN, AcceptPolicy(b, c, age)
      PROVE  UNCHANGED record
    BY <1>9 DEF AcceptPolicy
<1>10. Tick \/ UNCHANGED vars => UNCHANGED record
    BY DEF Tick, vars
<1> QED BY <1>a, <1>1, <1>2, <1>3, <1>4, <1>5, <1>6, <1>7, <1>8, <1>9, <1>10 DEF Next, AuthorityStep

\* Replies, answers, results under way and successes all keep their source.
LEMMA DecisionNext == TypeOK /\ OwnedInv /\ DecisionInv /\ [Next]_vars => DecisionInv'
<1> SUFFICES ASSUME TypeOK, OwnedInv, DecisionInv, [Next]_vars PROVE DecisionInv'
    OBVIOUS
<1> USE DEF busState, authority, record, tally, service, process
<1>0. /\ mail \in [Bridge -> SUBSET Message]
      /\ NewUndecided /\ MailDecided /\ DecidedMember /\ ListsKnown
      /\ \A r \in Req : req[r].pc = "new" \/ Routed(req[r])
    BY DEF TypeOK, RequestOK, DecisionInv
<1>1. NewUndecided'
    <2>1. \A r \in Req : req'[r].pc = "new" => req[r].pc = "new"
        BY Kept DEF Same
    <2> QED BY <2>1, DecidedNext DEF NewUndecided
<1>2. WorkerDecided'
    BY DecidedNext DEF WorkerDecided
<1>3. AnswersDecided'
    BY AnswersNext, DecidedNext DEF AnswersDecided
<1>4. DecidedMember'
    <2> SUFFICES ASSUME NEW r \in Req, decided'[r] \cap {"joined", "already"} # {}
                 PROVE  req'[r].joiner \in enlisted'[req'[r].code.aid]
        BY DEF DecidedMember
    <2>1. req[r].pc # "new"
        BY DecidedNext
    <2>2. req'[r].joiner = req[r].joiner /\ req'[r].code = req[r].code
        BY <2>1, Kept DEF Same
    <2>3. req[r].code.aid \in Bridge
        BY <1>0, <2>1, CodeAssumption DEF Routed
    <2>4. CASE decided[r] \cap {"joined", "already"} # {}
        BY <1>0, <2>2, <2>3, <2>4, DecidedNext DEF DecidedMember
    <2>5. CASE (decided'[r] \ decided[r]) \cap {"joined", "already"} # {}
        BY <2>2, <2>5, DecidedNext
    <2> QED BY <2>4, <2>5
<1>5. MailDecided'
    <2>a. (\A b \in Bridge : \A m \in mail'[b] : m \in mail[b] \/
              (m.kind = "result" /\ m.verified /\ m.from \in Bridge /\ m.result # "malformed" =>
                   m.result \in decided[m.rid] /\ m.rid \in Req)) => MailDecided'
        <3>1. \A b \in Bridge : \A m \in mail[b] : m.rid \in Req
            BY <1>0 DEF Message
        <3> QED BY <1>0, <3>1, DecidedNext DEF MailDecided
    <2>1. ASSUME NEW r \in Req, SendClaim(r) PROVE MailDecided'
        <3>1. Msg("claim", r, req[r].at, None).kind = "claim"
            BY DEF Msg
        <3>2. PICK m0 : m0.kind = "claim" /\ (Post(req[r].code.aid, m0) \/ UNCHANGED mail)
            <4>1. \/ Post(req[r].code.aid, Msg("claim", r, req[r].at, None))
                  \/ UNCHANGED mail
                BY <2>1 DEF SendClaim
            <4> QED BY <3>1, <4>1
        <3>3. \A b \in Bridge : \A m \in mail'[b] : m \in mail[b] \/ m = m0
            <4>1. CASE UNCHANGED mail BY <4>1
            <4>2. CASE Post(req[r].code.aid, m0)
                BY <1>0, <4>2 DEF Post
            <4> QED BY <3>2, <4>1, <4>2
        <3> QED BY <2>a, <3>2, <3>3
    <2>2. ASSUME NEW b \in Bridge, Reply(b) PROVE MailDecided'
        <3>1. worker[b] \in WorkItem /\ worker[b] # None /\ worker[b].step = "reply"
            BY <2>2 DEF TypeOK, AuthorityOK, Reply
        <3>2. worker[b].result \in decided[worker[b].rid] /\ worker[b].rid \in Req
            BY <3>1 DEF DecisionInv, WorkerDecided, WorkItem
        <3>3. CASE UNCHANGED mail BY <2>a, <3>3
        <3>4. CASE Post(worker[b].to, Msg("result", worker[b].rid, b, worker[b].result))
            <4> DEFINE m0 == Msg("result", worker[b].rid, b, worker[b].result)
            <4>1. m0.rid = worker[b].rid /\ m0.result = worker[b].result
                BY DEF Msg
            <4> HIDE DEF m0
            <4>2. \A d \in Bridge : \A m \in mail'[d] : m \in mail[d] \/ m = m0
                BY <1>0, <3>4 DEF Post, m0
            <4> QED BY <2>a, <3>2, <4>1, <4>2
        <3> QED BY <2>2, <3>3, <3>4 DEF Reply
    <2>3. ASSUME NEW b \in Bridge, NEW r \in Req, Stray(b, r) PROVE MailDecided'
        <3>1. PICK m0 : /\ Post(b, m0)
                        /\ m0.from \in Stranger \/ ~m0.verified \/ m0.result = "malformed"
            <4>1. \A s \in Stranger : Msg("result", r, s, "joined").from \in Stranger
                BY DEF Msg
            <4>2. ~[Msg("result", r, req[r].code.aid, "joined") EXCEPT !.verified = FALSE].verified
                BY DEF Msg
            <4>3. Msg("result", r, req[r].code.aid, "malformed").result = "malformed"
                BY DEF Msg
            <4>4. PICK n \in {Msg("result", r, s, "joined") : s \in Stranger}
                        \cup {[Msg("result", r, req[r].code.aid, "joined") EXCEPT !.verified = FALSE],
                              Msg("result", r, req[r].code.aid, "malformed")} : Post(b, n)
                BY <2>3 DEF Stray
            <4>5. n.from \in Stranger \/ ~n.verified \/ n.result = "malformed"
                BY <4>1, <4>2, <4>3
            <4> QED BY <4>4, <4>5
        <3>2. \A d \in Bridge : \A m \in mail'[d] : m \in mail[d] \/ m = m0
            BY <1>0, <3>1 DEF Post
        <3>3. m0.from \in Bridge => ~m0.verified \/ m0.result = "malformed"
            BY <3>1, StrangerAssumption
        <3> QED BY <2>a, <3>2, <3>3
    <2>4. CASE UNCHANGED mail
        BY <2>4, <2>a
    <2>5. ASSUME NEW r \in Req, Enqueue(r) \/ Answer(r) \/ Timeout(r) \/ Disconnect(r)
          PROVE  UNCHANGED mail
        BY <2>5 DEF Enqueue, Answer, Timeout, Disconnect
    <2>6. ASSUME NEW b \in Bridge,
                 \/ Adjudicate(b) \/ AddMember(b) \/ Publish(b) \/ EnqueueHeld(b)
                 \/ Shutdown(b) \/ Restart(b) \/ Hang(b)
          PROVE  UNCHANGED mail
        BY <2>6 DEF Adjudicate, AddMember, Publish, EnqueueHeld, Shutdown, Restart, Hang
    <2>12. ASSUME NEW b \in Bridge, NEW l \in List, NEW j \in Joiner, GroupCommand(b, l, j)
           PROVE  UNCHANGED mail
        BY <2>12 DEF GroupCommand
    <2>7. ASSUME NEW b \in Bridge, NEW m \in mail[b], Dispatch(b, m) PROVE UNCHANGED mail
        BY <2>7 DEF Dispatch
    <2>8. ASSUME NEW r \in Req, NEW b \in Bridge, NEW j \in Joiner, NEW c \in Code,
                 NEW rc \in accepted \cup {None}, NEW k \in Skew, Claim(r, b, j, c, rc, k)
          PROVE  UNCHANGED mail
        BY <2>8 DEF Claim
    <2>9. ASSUME NEW b \in Bridge, NEW c \in Code, Mint(b, c) PROVE UNCHANGED mail
        BY <2>9 DEF Mint
    <2>10. ASSUME NEW b \in Bridge, NEW c \in Code, NEW age \in BOOLEAN, AcceptPolicy(b, c, age)
           PROVE  UNCHANGED mail
        BY <2>10 DEF AcceptPolicy
    <2>11. CASE Tick \/ UNCHANGED vars
        BY <2>4, <2>11 DEF Tick, vars
    <2> QED BY <2>1, <2>2, <2>3, <2>4, <2>5, <2>6, <2>7, <2>8, <2>9, <2>10, <2>11, <2>12
            DEF Next, RequestStep, AuthorityStep
<1>6. ListsKnown'
    BY <1>0, ListedNext
<1> QED BY <1>1, <1>2, <1>3, <1>4, <1>5, <1>6 DEF DecisionInv

----------------------------------------------------------------------------
(* A claim is decided once for each time it is taken up, and taken up once in  *)
(* a TTL.                                                                      *)

\* Append adds one place at most to those of a claim, Tail takes one away.
LEMMA Counted ==
    ASSUME NEW q \in Seq(WorkItem), NEW r
    PROVE  /\ IsFiniteSet(Positions(q, r)) /\ Cardinality(Positions(q, r)) \in Nat
           /\ \A w \in WorkItem : Cardinality(Positions(Append(q, w), r))
                                    <= Cardinality(Positions(q, r)) + Match(w.rid, r)
           /\ q # <<>> => Cardinality(Positions(Tail(q), r)) + Match(Head(q).rid, r)
                            <= Cardinality(Positions(q, r))
<1> DEFINE P == Positions(q, r)
<1>1. IsFiniteSet(P) /\ Cardinality(P) \in Nat
    <2>1. 1..Len(q) \in SUBSET Nat /\ P \in SUBSET (1..Len(q)) /\ Len(q) \in Int
        BY DEF Positions
    <2>2. IsFiniteSet(1..Len(q))
        BY <2>1, FS_Interval
    <2> QED BY <2>1, <2>2, FS_Subset, FS_CardinalityType
<1>2. ASSUME NEW w \in WorkItem
      PROVE  Cardinality(Positions(Append(q, w), r)) <= Cardinality(P) + Match(w.rid, r)
    <2>1. /\ Len(Append(q, w)) = Len(q) + 1 /\ Len(q) \in Nat
          /\ \A i \in 1..Len(q) : Append(q, w)[i] = q[i]
          /\ Append(q, w)[Len(q) + 1] = w
        BY QueueEffect
    <2>2. CASE w.rid = r
        <3>1. Positions(Append(q, w), r) = P \cup {Len(q) + 1}
            BY <2>1, <2>2 DEF Positions
        <3>2. Cardinality(P \cup {Len(q) + 1}) = IF Len(q) + 1 \in P THEN Cardinality(P) ELSE Cardinality(P) + 1
            BY <1>1, FS_AddElement
        <3> HIDE DEF P
        <3> QED BY <1>1, <2>2, <3>1, <3>2 DEF Match
    <2>3. CASE w.rid # r
        <3>1. Positions(Append(q, w), r) = P
            BY <2>1, <2>3 DEF Positions
        <3> HIDE DEF P
        <3> QED BY <1>1, <2>3, <3>1 DEF Match
    <2> QED BY <2>2, <2>3
<1>3. ASSUME q # <<>>
      PROVE  Cardinality(Positions(Tail(q), r)) + Match(Head(q).rid, r) <= Cardinality(P)
    <2> DEFINE T == Positions(Tail(q), r)
               S == P \ {1}
               f == [i \in T |-> i + 1]
    <2>1. /\ Head(q) = q[1] /\ 1 \in 1..Len(q) /\ Len(Tail(q)) = Len(q) - 1 /\ Len(q) \in Nat
          /\ \A i \in 1..Len(Tail(q)) : Tail(q)[i] = q[i + 1] /\ i + 1 \in 1..Len(q)
        BY <1>3, QueueEffect
    <2>2. \A i \in T : i \in Nat \ {0} /\ i + 1 \in S
        BY <2>1 DEF Positions
    <2>3. f \in Injection(T, S)
        BY <2>1, <2>2 DEF Injection, IsInjective, Positions
    <2>4. /\ IsFiniteSet(S)
          /\ Cardinality(S) = IF 1 \in P THEN Cardinality(P) - 1 ELSE Cardinality(P)
        BY <1>1, FS_RemoveElement
    <2>5. IsFiniteSet(T) /\ Cardinality(T) <= Cardinality(S)
        BY <2>3, <2>4, FS_Injection
    <2>6. Cardinality(T) \in Nat /\ Cardinality(S) \in Nat
        BY <2>4, <2>5, FS_CardinalityType
    <2>7. Head(q).rid = r <=> 1 \in P
        BY <2>1 DEF Positions
    <2> HIDE DEF T, S, P
    <2>8. Cardinality(T) + Match(Head(q).rid, r) <= Cardinality(P)
        BY <1>1, <2>4, <2>5, <2>6, <2>7 DEF Match
    <2> QED BY <2>8 DEF T
<1> QED BY <1>1, <1>2, <1>3 DEF P

\* An empty work channel holds no claim, and a claim no work is about is nowhere.
LEMMA NoPositions ==
    ASSUME NEW q, NEW r, \A i \in 1..Len(q) : q[i].rid # r
    PROVE  Cardinality(Positions(q, r)) = 0
<1>1. Positions(q, r) = {}
    BY DEF Positions
<1> QED BY <1>1, FS_EmptySet

\* The seconds of a claim after one more.
LEMMA SecondsEffect ==
    ASSUME NEW q \in Seq(Int), NEW t \in Int
    PROVE  /\ Len(q) \in Nat /\ Len(Append(q, t)) = Len(q) + 1
           /\ \A i \in 1..Len(q) : Append(q, t)[i] = q[i] /\ q[i] \in Int
           /\ Append(q, t)[Len(q) + 1] = t
           /\ q = <<>> <=> Len(q) = 0
OBVIOUS

\* No step adds more to the load and the decisions of a claim than it adds to
\* its takings-up.
Covered(a, r) ==
    rulings'[r] + Load(a, r)' + Len(taken[r]) <= rulings[r] + Load(a, r) + Len(taken'[r])

Numbers(a, r) ==
    /\ Load(a, r) \in Nat /\ Load(a, r)' \in Nat
    /\ rulings[r] \in Nat /\ rulings'[r] \in Nat
    /\ Len(taken[r]) \in Nat /\ Len(taken'[r]) \in Nat

\* The three parts of a load.
Parts(a, r) ==
    /\ Cardinality(Positions(queue[a], r)) \in Nat
    /\ HeldLoad(a, r) \in Nat /\ WriteLoad(a, r) \in Nat

LEMMA CoveredDue ==
    ASSUME NEW a, NEW r, Due(a, r), Covered(a, r), Numbers(a, r)
    PROVE  Due(a, r)'
<1>1. PICK k, l, m \in Nat : k = rulings[r] /\ l = Load(a, r) /\ m = Len(taken[r])
    BY DEF Numbers
<1>2. PICK u, v, w \in Nat : u = rulings'[r] /\ v = Load(a, r)' /\ w = Len(taken'[r])
    BY DEF Numbers
<1>3. k + l <= m /\ u + v + m <= k + l + w
    BY <1>1, <1>2 DEF Due, Covered
<1>4. u + v <= w
    BY <1>3
<1> QED BY <1>2, <1>4 DEF Due

\* Nothing is at work on a claim that has not been posted.
LEMMA NewHasNoLoad ==
    ASSUME TypeOK, OwnedInv, NEW r \in Req, req[r].pc = "new", NEW a \in Bridge
    PROVE  Load(a, r) = 0
<1>1. \A i \in 1..Len(queue[a]) : queue[a][i].rid # r
    BY DEF OwnedInv, QueueOwned, Owned
<1>2. HeldLoad(a, r) = 0 /\ WriteLoad(a, r) = 0
    BY DEF OwnedInv, HeldOwned, WorkerOwned, Owned, HeldLoad, WriteLoad
<1>3. Cardinality(Positions(queue[a], r)) = 0
    BY <1>1, NoPositions
<1> QED BY <1>2, <1>3 DEF Load

\* Whatever happens to a claim, what it has been taken up for covers it.
LEMMA CountNext == TypeOK /\ OwnedInv /\ CountInv /\ [Next]_vars => CountInv'
<1> SUFFICES ASSUME TypeOK, OwnedInv, CountInv, [Next]_vars PROVE CountInv'
    OBVIOUS
<1> USE DEF busState, authority, record, tally, service, process
<1> DEFINE Goal == /\ \A r \in Req, a \in Bridge : ClaimOf(a, r) => Due(a, r)'
                   /\ \A r \in Req : req[r].pc = "new" => taken'[r] = <<>> /\ rulings'[r] = 0
<1>0. /\ queue \in [Bridge -> Seq(WorkItem)] /\ queue' \in [Bridge -> Seq(WorkItem)]
      /\ worker \in [Bridge -> WorkItem \cup {None}]
      /\ held \in [Bridge -> WorkItem \cup {None}]
      /\ mail \in [Bridge -> SUBSET Message] /\ now \in Nat
      /\ taken \in [Req -> Seq(Int)] /\ taken' \in [Req -> Seq(Int)]
      /\ rulings \in [Req -> Nat] /\ rulings' \in [Req -> Nat]
    BY TypeNext DEF TypeOK, AuthorityOK, ProcessOK
<1>1. \A r \in Req : req[r].pc # "new" => req[r].code.aid \in Bridge /\ Routed(req[r])
    BY RoutedType, CodeAssumption DEF Routed
<1>2. \A r \in Req, a \in Bridge : ClaimOf(a, r) => Due(a, r)
    BY DEF CountInv
<1>3. \A r \in Req : req[r].pc = "new" => taken[r] = <<>> /\ rulings[r] = 0
    BY DEF CountInv
<1>4. \A a \in Bridge, r \in Req : Numbers(a, r) /\ Parts(a, r) /\ Parts(a, r)'
    <2> SUFFICES ASSUME NEW a \in Bridge, NEW r \in Req
                 PROVE  Numbers(a, r) /\ Parts(a, r) /\ Parts(a, r)'
        OBVIOUS
    <2>1. Cardinality(Positions(queue[a], r)) \in Nat /\ Cardinality(Positions(queue'[a], r)) \in Nat
        BY <1>0, Counted
    <2>2. /\ HeldLoad(a, r) \in Nat /\ HeldLoad(a, r)' \in Nat
          /\ WriteLoad(a, r) \in Nat /\ WriteLoad(a, r)' \in Nat
        BY DEF HeldLoad, WriteLoad
    <2>3. Parts(a, r) /\ Parts(a, r)'
        BY <2>1, <2>2 DEF Parts
    <2>4. Load(a, r) \in Nat /\ Load(a, r)' \in Nat
        BY <2>1, <2>2 DEF Load
    <2>5. Len(taken[r]) \in Nat /\ Len(taken'[r]) \in Nat
        BY <1>0
    <2> QED BY <1>0, <2>3, <2>4, <2>5 DEF Numbers
<1>5. \A r \in Req : /\ rulings[r] \in Nat /\ rulings'[r] \in Nat
                     /\ Len(taken[r]) \in Nat /\ Len(taken'[r]) \in Nat
    BY <1>0
<1>g. ASSUME Goal PROVE CountInv'
    <2> SUFFICES ASSUME NEW r \in Req
                 PROVE  /\ req'[r].pc = "new" => taken'[r] = <<>> /\ rulings'[r] = 0
                        /\ \A a \in Bridge : ClaimOf(a, r)' => Due(a, r)'
        BY DEF CountInv
    <2>1. CASE req[r].pc # "new"
        <3>1. req'[r].pc # "new" /\ \A a \in Bridge : ClaimOf(a, r)' => ClaimOf(a, r)
            BY <2>1, Kept DEF Same, ClaimOf
        <3> QED BY <1>g, <3>1
    <2>2. CASE req[r].pc = "new"
        <3>1. CASE req'[r] = req[r]
            BY <1>g, <2>2, <3>1 DEF ClaimOf
        <3>2. CASE Routes(r)
            <4>1. UNCHANGED authority
                BY <3>2 DEF Routes, Claim
            <4>2. req'[r].pc # "new"
                BY <3>2, ClaimType DEF Routes
            <4>3. ASSUME NEW a \in Bridge PROVE Due(a, r)'
                <5>1. Load(a, r) = 0
                    BY <2>2, NewHasNoLoad
                <5>2. Load(a, r)' = 0
                    BY <4>1, <5>1 DEF Load, HeldLoad, WriteLoad
                <5>3. rulings'[r] = 0 /\ taken'[r] = <<>>
                    BY <1>3, <2>2, <4>1
                <5> QED BY <5>2, <5>3 DEF Due
            <4> QED BY <4>2, <4>3
        <3> QED BY <2>2, <3>1, <3>2, Kept
    <2> QED BY <2>1, <2>2
\* A step that covers every claim of a bridge.
<1>c. ASSUME \A r \in Req, a \in Bridge : ClaimOf(a, r) => Covered(a, r),
             \A r \in Req : req[r].pc = "new" => taken'[r] = taken[r] /\ rulings'[r] = rulings[r]
      PROVE  CountInv'
    <2>1. \A r \in Req, a \in Bridge : ClaimOf(a, r) => Due(a, r)'
        BY <1>2, <1>4, <1>c, CoveredDue
    <2> QED BY <1>3, <1>c, <1>g, <2>1
\* What a step leaves alone at a bridge.
<1>s. ASSUME NEW r \in Req, NEW a \in Bridge, queue'[a] = queue[a],
             HeldLoad(a, r)' = HeldLoad(a, r), WriteLoad(a, r)' = WriteLoad(a, r),
             taken'[r] = taken[r], rulings'[r] = rulings[r]
      PROVE  Covered(a, r)
    <2>1. Load(a, r)' = Load(a, r) /\ Numbers(a, r)
        BY <1>4, <1>s DEF Load
    <2> QED BY <1>s, <2>1 DEF Covered, Numbers
<1>u. ASSUME UNCHANGED <<queue, held, worker, tally>> PROVE CountInv'
    <2>1. \A r \in Req, a \in Bridge : Covered(a, r)
        <3> TAKE r \in Req, a \in Bridge
        <3> QED BY <1>s, <1>u DEF HeldLoad, WriteLoad
    <2> QED BY <1>c, <1>u, <2>1
<1>e. ASSUME NEW r0 \in Req, Enqueue(r0) PROVE CountInv'
    <2>1. CASE UNCHANGED <<queue, tally>>
        BY <1>e, <1>u, <2>1 DEF Enqueue
    <2>2. CASE ~UNCHANGED <<queue, tally>>
        <3>1. /\ req[r0].pc = "send" /\ req[r0].bus = "local"
              /\ queue' = [queue EXCEPT ![req[r0].at] = Append(@, Work(r0, None))]
              /\ TakeUp(r0) /\ UNCHANGED <<worker, held>>
            <4>1. /\ req[r0].pc = "send" /\ req[r0].bus = "local" /\ UNCHANGED <<worker, held>>
                BY <1>e DEF Enqueue
            <4>2. /\ queue' = [queue EXCEPT ![req[r0].at] = Append(@, Work(r0, None))]
                  /\ TakeUp(r0)
                BY <1>e, <2>2 DEF Enqueue
            <4> QED BY <4>1, <4>2
        <3>2. req[r0].at \in Bridge /\ req[r0].code.aid = req[r0].at
            BY <1>1, <3>1 DEF Routed
        <3>3. PICK w \in WorkItem : w = Work(r0, None) /\ w.rid = r0
            <4>1. Work(r0, None) \in WorkItem
                BY WorkType
            <4>2. Work(r0, None).rid = r0
                BY DEF Work
            <4> QED BY <4>1, <4>2
        <3>4. /\ Len(taken'[r0]) = Len(taken[r0]) + 1 /\ rulings' = rulings
              /\ \A s \in Req : s # r0 => taken'[s] = taken[s]
            BY <1>0, <3>1, TallyEffect, SecondsEffect
        <3>5. ASSUME NEW r \in Req, NEW a \in Bridge, ClaimOf(a, r) PROVE Covered(a, r)
            <4>1. HeldLoad(a, r)' = HeldLoad(a, r) /\ WriteLoad(a, r)' = WriteLoad(a, r)
                BY <3>1 DEF HeldLoad, WriteLoad
            <4>2. CASE a = req[r0].at
                <5>1. queue'[a] = Append(queue[a], w) /\ queue[a] \in Seq(WorkItem)
                    BY <1>0, <3>1, <3>3, <4>2
                <5>2. Cardinality(Positions(queue'[a], r)) <= Cardinality(Positions(queue[a], r)) + Match(r0, r)
                    BY <3>3, <5>1, Counted
                <5>3. Match(r0, r) \in Nat /\ Len(taken[r]) + Match(r0, r) <= Len(taken'[r])
                    <6>1. CASE r0 = r
                        BY <1>5, <3>4, <6>1 DEF Match
                    <6>2. CASE r0 # r
                        BY <1>5, <3>4, <6>2 DEF Match
                    <6> QED BY <6>1, <6>2
                <5>4. Numbers(a, r) /\ Parts(a, r) /\ Parts(a, r)' /\ rulings'[r] = rulings[r]
                    BY <1>4, <3>4
                <5>5. PICK k \in Nat : k = Match(r0, r)
                    BY <5>3
                <5>6. Load(a, r)' <= Load(a, r) + k
                    BY <4>1, <5>2, <5>4, <5>5 DEF Load, Parts
                <5>7. Len(taken[r]) + k <= Len(taken'[r])
                    BY <5>3, <5>5
                <5>8. PICK l, m \in Nat : l = Load(a, r) /\ m = Load(a, r)'
                    BY <5>4 DEF Numbers
                <5>9. PICK u, v, x \in Nat : u = Len(taken[r]) /\ v = Len(taken'[r]) /\ x = rulings[r]
                    BY <5>4 DEF Numbers
                <5>10. m <= l + k /\ u + k <= v
                    BY <5>6, <5>7, <5>8, <5>9
                <5>11. x + m + u <= x + l + v
                    BY <5>10
                <5> QED BY <5>4, <5>8, <5>9, <5>11 DEF Covered
            <4>3. CASE a # req[r0].at
                <5>1. queue'[a] = queue[a] /\ r # r0
                    BY <1>0, <3>1, <3>2, <3>5, <4>3 DEF ClaimOf
                <5> QED BY <1>s, <3>4, <4>1, <5>1
            <4> QED BY <4>2, <4>3
        <3> QED BY <1>c, <3>1, <3>4, <3>5
    <2> QED BY <2>1, <2>2
\* The worker of b takes the claim of r0 in hand, decides it or sets it aside.
<1>w. ASSUME NEW b \in Bridge, NEW w \in WorkItem \cup {None}, NEW r0 \in Req, ClaimOf(b, r0),
             worker' = [worker EXCEPT ![b] = w], UNCHANGED <<held, taken>>,
             \A d \in Bridge : d # b => queue'[d] = queue[d],
             \A s \in Req : s # r0 => rulings'[s] = rulings[s],
             \A r \in Req : Covered(b, r)
      PROVE  CountInv'
    <2>1. ASSUME NEW r \in Req, NEW a \in Bridge, ClaimOf(a, r) PROVE Covered(a, r)
        <3>1. CASE a = b
            BY <1>w, <3>1
        <3>2. CASE a # b
            <4>1. r # r0
                BY <1>w, <2>1, <3>2 DEF ClaimOf
            <4>2. HeldLoad(a, r)' = HeldLoad(a, r) /\ WriteLoad(a, r)' = WriteLoad(a, r)
                BY <1>0, <1>w, <3>2 DEF HeldLoad, WriteLoad
            <4> QED BY <1>s, <1>w, <3>2, <4>1, <4>2
        <3> QED BY <3>1, <3>2
    <2>2. \A r \in Req : req[r].pc = "new" => taken'[r] = taken[r] /\ rulings'[r] = rulings[r]
        BY <1>w DEF ClaimOf
    <2> QED BY <1>c, <2>1, <2>2
<1>7. ASSUME NEW b \in Bridge, Adjudicate(b) PROVE CountInv'
    <2>1. PICK w \in WorkItem, res \in Result \cup {"write"} : Ruled(b, w, res)
        BY <1>7, AdjudicateEffect
    <2>2. /\ queue[b] \in Seq(WorkItem) /\ queue[b] # <<>> /\ worker[b] = None
          /\ queue' = [queue EXCEPT ![b] = Tail(queue[b])] /\ UNCHANGED held
        BY <1>0, <1>7 DEF Adjudicate
    <2>3. w = Head(queue[b]) /\ w = queue[b][1] /\ 1 \in 1..Len(queue[b])
        BY <2>1, <2>2, QueueEffect DEF Ruled
    <2>4. PICK r0 \in Req : r0 = w.rid
        BY DEF WorkItem
    <2>5. ClaimOf(b, r0)
        BY <2>3, <2>4 DEF OwnedInv, QueueOwned, Owned, ClaimOf
    <2>6. PICK v \in WorkItem :
            /\ worker' = [worker EXCEPT ![b] = v] /\ v.rid = r0
            /\ v.step = "write" <=> res = "write"
            /\ rulings'[r0] = rulings[r0] + (IF res = "write" THEN 0 ELSE 1) /\ taken' = taken
            /\ \A s \in Req : s # r0 => rulings'[s] = rulings[s]
        <3>1. CASE res = "write"
            <4>1. /\ [w EXCEPT !.step = "write"] \in WorkItem
                  /\ [w EXCEPT !.step = "write"].rid = w.rid /\ [w EXCEPT !.step = "write"].step = "write"
                BY DEF WorkItem
            <4>2. PICK v \in WorkItem : v = [w EXCEPT !.step = "write"] /\ v.rid = r0 /\ v.step = "write"
                BY <2>4, <4>1
            <4>3. worker' = [worker EXCEPT ![b] = v] /\ UNCHANGED <<taken, rulings>>
                BY <2>1, <3>1, <4>2 DEF Ruled
            <4>4. rulings'[r0] = rulings[r0] + (IF res = "write" THEN 0 ELSE 1)
                BY <1>5, <3>1, <4>3
            <4> QED BY <3>1, <4>2, <4>3, <4>4
        <3>2. CASE res # "write"
            <4>1. /\ worker' = [worker EXCEPT ![b] = Concluded(w, "reply", res)]
                  /\ Decide(r0, res) /\ res \in Result
                BY <2>1, <2>4, <3>2 DEF Ruled
            <4>2. PICK v \in WorkItem : v = Concluded(w, "reply", res) /\ v.rid = r0 /\ v.step = "reply"
                BY <2>4, <4>1, WorkerType, ConcludedFields
            <4>3. /\ taken' = taken /\ rulings'[r0] = rulings[r0] + 1
                  /\ \A s \in Req : s # r0 => rulings'[s] = rulings[s]
                BY <4>1, TallyEffect
            <4> QED BY <3>2, <4>1, <4>2, <4>3
        <3> QED BY <3>1, <3>2
    <2>7. ASSUME NEW r \in Req PROVE Covered(b, r)
        <3>1. queue'[b] = Tail(queue[b])
            BY <1>0, <2>2
        <3>2. Cardinality(Positions(queue'[b], r)) + Match(r0, r) <= Cardinality(Positions(queue[b], r))
            BY <2>2, <2>3, <2>4, <3>1, Counted
        <3>3. HeldLoad(b, r)' = HeldLoad(b, r) /\ WriteLoad(b, r) = 0
            BY <2>2 DEF HeldLoad, WriteLoad
        <3>4. worker'[b] = v
            BY <1>0, <2>6
        <3>5. rulings'[r] + WriteLoad(b, r)' <= rulings[r] + Match(r0, r)
            <4>1. CASE r = r0
                <5>1. WriteLoad(b, r)' <= IF res = "write" THEN 1 ELSE 0
                    BY <2>6, <3>4, <4>1 DEF WriteLoad
                <5> QED BY <1>4, <1>5, <2>6, <4>1, <5>1 DEF Match, Parts
            <4>2. CASE r # r0
                <5>1. WriteLoad(b, r)' = 0
                    BY <2>6, <3>4, <4>2 DEF WriteLoad
                <5> QED BY <1>5, <2>6, <4>2, <5>1 DEF Match
            <4> QED BY <4>1, <4>2
        <3>6. Match(r0, r) \in 0..1
            BY DEF Match
        <3>7. Numbers(b, r) /\ Parts(b, r) /\ Parts(b, r)' /\ taken'[r] = taken[r]
            BY <1>4, <2>6
        <3>8. Load(b, r)' + Match(r0, r) <= Load(b, r) + WriteLoad(b, r)'
            BY <3>2, <3>3, <3>6, <3>7 DEF Load, Parts
        <3>9. PICK k, u \in Nat : k = Match(r0, r) /\ u = WriteLoad(b, r)'
            BY <3>6, <3>7 DEF Parts
        <3>10. rulings'[r] + u <= rulings[r] + k /\ Load(b, r)' + k <= Load(b, r) + u
            BY <3>5, <3>8, <3>9
        <3>11. rulings'[r] + Load(b, r)' <= rulings[r] + Load(b, r)
            BY <3>7, <3>10 DEF Numbers
        <3> QED BY <3>7, <3>11 DEF Covered, Numbers
    <2>8. \A d \in Bridge : d # b => queue'[d] = queue[d]
        BY <1>0, <2>2
    <2> QED BY <1>w, <2>2, <2>5, <2>6, <2>7, <2>8
<1>8. ASSUME NEW b \in Bridge, AddMember(b) PROVE CountInv'
    <2>1. worker[b] \in WorkItem /\ Owned(b, worker[b]) /\ worker[b] # None /\ worker[b].step = "write"
        BY <1>0, <1>8 DEF AddMember, OwnedInv, WorkerOwned
    <2>2. PICK r0 \in Req : r0 = worker[b].rid
        BY <2>1 DEF WorkItem
    <2>3. PICK s \in {"publish", "reply"}, res \in {"joined", "write_failed"} : AddedAs(b, s, res)
        BY <1>8, AddMemberEffect
    <2>4. res \in Result
        BY DEF Result, Refusal
    <2>5. PICK v \in WorkItem : v = Concluded(worker[b], s, res) /\ v.step = s
        BY <2>1, <2>4, WorkerType, ConcludedFields
    <2>6. worker' = [worker EXCEPT ![b] = v] /\ Decide(r0, res) /\ UNCHANGED <<queue, held>>
        BY <1>8, <2>2, <2>3, <2>5 DEF AddedAs, AddMember
    <2>7. /\ taken' = taken /\ rulings'[r0] = rulings[r0] + 1
          /\ \A i \in Req : i # r0 => rulings'[i] = rulings[i]
        BY <2>4, <2>6, TallyEffect
    <2>8. ASSUME NEW r \in Req PROVE Covered(b, r)
        <3>1. WriteLoad(b, r)' = 0 /\ HeldLoad(b, r)' = HeldLoad(b, r)
            BY <1>0, <2>5, <2>6 DEF WriteLoad, HeldLoad
        <3>2. WriteLoad(b, r) = Match(r0, r)
            BY <2>1, <2>2 DEF WriteLoad, Match
        <3>3. rulings'[r] <= rulings[r] + Match(r0, r) /\ Match(r0, r) \in 0..1
            BY <1>5, <2>7 DEF Match
        <3>4. /\ Numbers(b, r) /\ Parts(b, r) /\ Parts(b, r)'
              /\ taken'[r] = taken[r] /\ queue'[b] = queue[b]
            BY <1>4, <2>6, <2>7
        <3>a. PICK h, q \in Nat : h = HeldLoad(b, r) /\ q = Cardinality(Positions(queue[b], r))
            BY <3>4 DEF Parts
        <3>b. Load(b, r) = q + h + Match(r0, r)
            BY <3>2, <3>a DEF Load
        <3>d. Cardinality(Positions(queue[b], r))' = q
            BY <3>4, <3>a DEF Positions
        <3>c. Load(b, r)' = q + h + 0
            BY <3>1, <3>a, <3>d DEF Load
        <3>5. Load(b, r)' + Match(r0, r) = Load(b, r)
            BY <3>3, <3>a, <3>b, <3>c
        <3>6. Load(b, r) \in Nat /\ Load(b, r)' \in Nat
            BY <3>4 DEF Load, Parts
        <3>7. PICK k, l, m \in Nat : k = Match(r0, r) /\ l = Load(b, r) /\ m = Load(b, r)'
            BY <3>3, <3>6
        <3>8. PICK u, x, w \in Nat : u = rulings[r] /\ x = rulings'[r] /\ w = Len(taken[r])
            BY <3>4 DEF Numbers
        <3>9. x <= u + k /\ m + k = l
            BY <3>3, <3>5, <3>7, <3>8
        <3>10. x + m + w <= u + l + w
            BY <3>9
        <3> QED BY <3>4, <3>7, <3>8, <3>10 DEF Covered
    <2>9. ClaimOf(b, r0)
        BY <2>1, <2>2 DEF Owned, ClaimOf
    <2> QED BY <1>w, <2>6, <2>7, <2>8, <2>9
<1>9. ASSUME NEW b \in Bridge, Publish(b) \/ Reply(b) PROVE CountInv'
    <2>1. /\ worker[b] \in WorkItem /\ Owned(b, worker[b]) /\ worker[b].step \in {"publish", "reply"}
          /\ UNCHANGED <<queue, held, tally>>
        BY <1>0, <1>9 DEF Publish, Reply, OwnedInv, WorkerOwned
    <2>2. PICK r0 \in Req : r0 = worker[b].rid
        BY <2>1 DEF WorkItem
    <2>3. PICK v \in WorkItem \cup {None} : worker' = [worker EXCEPT ![b] = v] /\ (v # None => v.step = "reply")
        <3>1. CASE Publish(b)
            <4>1. worker' = [worker EXCEPT ![b] = [worker[b] EXCEPT !.step = "reply"]]
                BY <1>0, <3>1 DEF Publish
            <4>2. [worker[b] EXCEPT !.step = "reply"] \in WorkItem /\ [worker[b] EXCEPT !.step = "reply"].step = "reply"
                BY <1>9, <2>1, <3>1 DEF WorkItem, Publish
            <4> QED BY <4>1, <4>2
        <3>2. CASE Reply(b)
            BY <3>2 DEF Reply
        <3> QED BY <1>9, <3>1, <3>2
    <2>4. ASSUME NEW r \in Req PROVE Covered(b, r)
        <3>1. HeldLoad(b, r)' = HeldLoad(b, r) /\ WriteLoad(b, r) = 0 /\ WriteLoad(b, r)' = 0
            BY <1>0, <2>1, <2>3 DEF WriteLoad, HeldLoad
        <3> QED BY <1>s, <2>1, <3>1
    <2>5. ClaimOf(b, r0)
        BY <2>1, <2>2 DEF Owned, ClaimOf
    <2> QED BY <1>w, <2>1, <2>3, <2>4, <2>5
<1>10. ASSUME NEW b \in Bridge, NEW m \in mail[b], Dispatch(b, m) PROVE CountInv'
    <2>1. m \in Message /\ m.kind \in {"claim", "result"} /\ m.rid \in Req
          /\ m.from \in Bridge \cup Stranger
        BY <1>0 DEF Message
    <2>2. CASE UNCHANGED <<queue, held, worker, tally>>
        BY <1>u, <2>2
    <2>3. CASE m.kind = "claim" /\ HandleClaim(b, m) /\ ~UNCHANGED <<queue, held, worker, tally>>
        <3>1. /\ held' = [held EXCEPT ![b] = Work(m.rid, m.from)] /\ TakeUp(m.rid)
              /\ UNCHANGED <<queue, worker>> /\ req[m.rid].code.aid = b /\ held[b] = None
            BY <1>10, <2>3 DEF HandleClaim, Dispatch
        <3>2. req[m.rid].pc # "new"
            BY <2>3 DEF OwnedInv, MailOwned
        <3>3. Work(m.rid, m.from) \in WorkItem /\ Work(m.rid, m.from).rid = m.rid
            BY <2>1, WorkType DEF Work
        <3>4. /\ Len(taken'[m.rid]) = Len(taken[m.rid]) + 1 /\ rulings' = rulings
              /\ \A s \in Req : s # m.rid => taken'[s] = taken[s]
            BY <1>0, <2>1, <3>1, TallyEffect, SecondsEffect
        <3>5. ASSUME NEW r \in Req, NEW a \in Bridge, ClaimOf(a, r) PROVE Covered(a, r)
            <4>1. WriteLoad(a, r)' = WriteLoad(a, r) /\ queue'[a] = queue[a]
                BY <3>1 DEF WriteLoad
            <4>2. CASE a = b
                <5>1. held'[b] = Work(m.rid, m.from)
                    BY <1>0, <3>1
                <5>2. HeldLoad(b, r) = 0 /\ HeldLoad(b, r)' <= Match(m.rid, r)
                    BY <3>1, <3>3, <5>1 DEF HeldLoad, Match
                <5>3. Match(m.rid, r) \in Nat /\ Len(taken[r]) + Match(m.rid, r) <= Len(taken'[r])
                    <6>1. CASE m.rid = r
                        BY <1>5, <2>1, <3>4, <6>1 DEF Match
                    <6>2. CASE m.rid # r
                        BY <1>5, <2>1, <3>4, <6>2 DEF Match
                    <6> QED BY <6>1, <6>2
                <5>4. Numbers(b, r) /\ Parts(b, r) /\ Parts(b, r)' /\ rulings'[r] = rulings[r]
                    BY <1>4, <3>4
                <5>5. PICK k \in Nat : k = Match(m.rid, r)
                    BY <5>3
                <5>6. queue'[b] = queue[b] /\ WriteLoad(b, r)' = WriteLoad(b, r)
                    BY <4>1, <4>2
                <5>7. Load(b, r)' <= Load(b, r) + k
                    BY <5>2, <5>4, <5>5, <5>6 DEF Load, Parts
                <5>8. Len(taken[r]) + k <= Len(taken'[r])
                    BY <5>3, <5>5
                <5>9. PICK l, n \in Nat : l = Load(b, r) /\ n = Load(b, r)'
                    BY <5>4 DEF Numbers
                <5>10. PICK u, v, w \in Nat : u = Len(taken[r]) /\ v = Len(taken'[r]) /\ w = rulings[r]
                    BY <5>4 DEF Numbers
                <5>11. n <= l + k /\ u + k <= v
                    BY <5>7, <5>8, <5>9, <5>10
                <5>12. w + n + u <= w + l + v
                    BY <5>11
                <5> QED BY <4>2, <5>4, <5>9, <5>10, <5>12 DEF Covered
            <4>3. CASE a # b
                <5>1. r # m.rid /\ HeldLoad(a, r)' = HeldLoad(a, r)
                    BY <1>0, <3>1, <3>5, <4>3 DEF HeldLoad, ClaimOf
                <5> QED BY <1>s, <3>4, <4>1, <5>1
            <4> QED BY <4>2, <4>3
        <3> QED BY <1>c, <3>2, <3>4, <3>5
    <2> QED BY <1>10, <2>1, <2>2, <2>3 DEF Dispatch, HandleClaim, HandleResult
<1>11. ASSUME NEW b \in Bridge, EnqueueHeld(b) PROVE CountInv'
    <2>1. /\ held[b] \in WorkItem /\ held[b] # None /\ held' = [held EXCEPT ![b] = None]
          /\ UNCHANGED <<worker, tally>>
          /\ queue' = [queue EXCEPT ![b] = Append(@, held[b])] \/ UNCHANGED queue
        BY <1>0, <1>11 DEF EnqueueHeld
    <2>2. ASSUME NEW r \in Req, NEW a \in Bridge, ClaimOf(a, r) PROVE Covered(a, r)
        <3>1. WriteLoad(a, r)' = WriteLoad(a, r)
            BY <2>1 DEF WriteLoad
        <3>2. CASE a = b
            <4>1. held'[b] = None
                BY <1>0, <2>1
            <4>2. queue[b] \in Seq(WorkItem) /\ (queue'[b] = Append(queue[b], held[b]) \/ queue'[b] = queue[b])
                BY <1>0, <2>1
            <4>3. Cardinality(Positions(queue'[b], r))
                     <= Cardinality(Positions(queue[b], r)) + Match(held[b].rid, r)
                <5>1. Match(held[b].rid, r) \in Nat
                    BY DEF Match
                <5>2. Cardinality(Positions(queue[b], r)) <= Cardinality(Positions(queue[b], r)) + Match(held[b].rid, r)
                    BY <1>4, <5>1 DEF Parts
                <5> QED BY <2>1, <4>2, <5>2, Counted
            <4>4. HeldLoad(b, r) = Match(held[b].rid, r) /\ HeldLoad(b, r)' = 0
                BY <2>1, <4>1 DEF HeldLoad, Match
            <4>5. WriteLoad(b, r)' = WriteLoad(b, r) /\ Match(held[b].rid, r) \in Nat
                BY <3>1, <3>2 DEF Match
            <4>6. Covered(b, r)
                <5>1. /\ Numbers(b, r) /\ Parts(b, r) /\ Parts(b, r)'
                      /\ rulings'[r] = rulings[r] /\ taken'[r] = taken[r]
                    BY <1>4, <2>1
                <5>2. Load(b, r)' <= Load(b, r)
                    BY <4>3, <4>4, <4>5, <5>1 DEF Load, Parts
                <5> QED BY <5>1, <5>2 DEF Covered, Numbers
            <4> QED BY <3>2, <4>6
        <3>3. CASE a # b
            <4>1. queue'[a] = queue[a] /\ HeldLoad(a, r)' = HeldLoad(a, r)
                BY <1>0, <2>1, <3>3 DEF HeldLoad
            <4> QED BY <1>s, <2>1, <3>1, <4>1
        <3> QED BY <3>2, <3>3
    <2> QED BY <1>c, <2>1, <2>2
<1>12. ASSUME NEW b \in Bridge, Shutdown(b) PROVE CountInv'
    <2>1. queue' = [queue EXCEPT ![b] = <<>>] /\ UNCHANGED <<worker, held, tally>>
        BY <1>12 DEF Shutdown
    <2>2. ASSUME NEW r \in Req, NEW a \in Bridge, ClaimOf(a, r) PROVE Covered(a, r)
        <3>1. WriteLoad(a, r)' = WriteLoad(a, r) /\ HeldLoad(a, r)' = HeldLoad(a, r)
            BY <2>1 DEF HeldLoad, WriteLoad
        <3>2. CASE a = b
            <4>1. queue'[a] = <<>>
                BY <1>0, <2>1, <3>2
            <4>2. Cardinality(Positions(queue'[a], r)) = 0
                BY <4>1, NoPositions
            <4>3. /\ Numbers(b, r) /\ Parts(b, r) /\ Parts(b, r)'
                  /\ rulings'[r] = rulings[r] /\ taken'[r] = taken[r]
                BY <1>4, <2>1
            <4>4. Load(b, r)' <= Load(b, r)
                BY <3>1, <3>2, <4>2, <4>3 DEF Load, Parts
            <4> QED BY <3>2, <4>3, <4>4 DEF Covered, Numbers
        <3>3. CASE a # b
            <4>1. queue'[a] = queue[a]
                BY <1>0, <2>1, <3>3
            <4> QED BY <1>s, <2>1, <3>1, <4>1
        <3> QED BY <3>2, <3>3
    <2> QED BY <1>c, <2>1, <2>2
<1>13. ASSUME NEW b \in Bridge, Restart(b) PROVE CountInv'
    <2>1. /\ queue' = [queue EXCEPT ![b] = <<>>]
          /\ worker' = [worker EXCEPT ![b] = None] /\ held' = [held EXCEPT ![b] = None]
          /\ taken' = [r \in Req |-> IF ClaimOf(b, r) THEN <<>> ELSE taken[r]]
          /\ rulings' = [r \in Req |-> IF ClaimOf(b, r) THEN 0 ELSE rulings[r]]
        BY <1>13 DEF Restart
    <2>2. ASSUME NEW r \in Req, NEW a \in Bridge, ClaimOf(a, r) PROVE Due(a, r)'
        <3>1. CASE a = b
            <4>1. ClaimOf(b, r)
                BY <2>2, <3>1 DEF ClaimOf
            <4>2. taken'[r] = <<>> /\ rulings'[r] = 0 /\ queue'[b] = <<>>
                BY <1>0, <2>1, <4>1
            <4>3. HeldLoad(b, r)' = 0 /\ WriteLoad(b, r)' = 0
                BY <1>0, <2>1 DEF HeldLoad, WriteLoad
            <4>4. Cardinality(Positions(queue'[b], r)) = 0
                BY <4>2, NoPositions
            <4>5. Load(b, r)' = 0
                BY <4>3, <4>4 DEF Load
            <4> QED BY <3>1, <4>2, <4>5 DEF Due
        <3>2. CASE a # b
            <4>1. ~ClaimOf(b, r)
                BY <2>2, <3>2 DEF ClaimOf
            <4>2. taken'[r] = taken[r] /\ rulings'[r] = rulings[r] /\ queue'[a] = queue[a]
                BY <1>0, <2>1, <3>2, <4>1
            <4>3. HeldLoad(a, r)' = HeldLoad(a, r) /\ WriteLoad(a, r)' = WriteLoad(a, r)
                BY <1>0, <2>1, <3>2 DEF HeldLoad, WriteLoad
            <4>4. Covered(a, r)
                BY <1>s, <4>2, <4>3
            <4> QED BY <1>2, <1>4, <2>2, <4>4, CoveredDue
        <3> QED BY <3>1, <3>2
    <2>3. ASSUME NEW r \in Req, req[r].pc = "new" PROVE taken'[r] = <<>> /\ rulings'[r] = 0
        BY <1>3, <2>1, <2>3
    <2> QED BY <1>g, <2>2, <2>3
<1>14. ASSUME NEW r \in Req, SendClaim(r) \/ Answer(r) \/ Timeout(r) \/ Disconnect(r) PROVE CountInv'
    BY <1>14, <1>u DEF SendClaim, Answer, Timeout, Disconnect
<1>15. ASSUME NEW b \in Bridge, Hang(b) PROVE CountInv'
    BY <1>15, <1>u DEF Hang
<1>16. ASSUME NEW b \in Bridge, NEW l \in List, NEW j \in Joiner, GroupCommand(b, l, j) PROVE CountInv'
    BY <1>16, <1>u DEF GroupCommand
<1>17. ASSUME NEW b \in Bridge, NEW r \in Req, Stray(b, r) PROVE CountInv'
    BY <1>17, <1>u DEF Stray
<1>18. ASSUME NEW r \in Req, NEW b \in Bridge, NEW j \in Joiner, NEW c \in Code,
              NEW rc \in accepted \cup {None}, NEW k \in Skew, Claim(r, b, j, c, rc, k)
       PROVE  CountInv'
    BY <1>18, <1>u DEF Claim
<1>19. ASSUME NEW b \in Bridge, NEW c \in Code, Mint(b, c) PROVE CountInv'
    BY <1>19, <1>u DEF Mint
<1>20. ASSUME NEW b \in Bridge, NEW c \in Code, NEW age \in BOOLEAN, AcceptPolicy(b, c, age)
       PROVE  CountInv'
    BY <1>20, <1>u DEF AcceptPolicy
<1>21. CASE Tick \/ UNCHANGED vars
    BY <1>21, <1>u DEF Tick, vars
<1> QED BY <1>e, <1>7, <1>8, <1>9, <1>10, <1>11, <1>12, <1>13, <1>14, <1>15, <1>16, <1>17, <1>18,
           <1>19, <1>20, <1>21
        DEF Next, RequestStep, AuthorityStep

\* The seconds in which a claim is taken up lie a TTL apart: its record holds
\* until a TTL after the last, and the proof is refused outside its window.
LEMMA SpacedNext == TypeOK /\ OwnedInv /\ OnceInv /\ [Next]_vars => SpacedInv'
<1> SUFFICES ASSUME TypeOK, OwnedInv, OnceInv, [Next]_vars PROVE SpacedInv'
    OBVIOUS
<1> USE DEF busState, authority, record, tally, service, process
<1>0. /\ seen \in [Bridge -> [Req -> Int]] /\ now \in Nat /\ Ttl \in Nat
      /\ taken \in [Req -> Seq(Int)] /\ taken' \in [Req -> Seq(Int)]
      /\ mail \in [Bridge -> SUBSET Message] /\ req \in [Req -> Request]
    BY TypeNext, TtlAssumption DEF TypeOK, AuthorityOK, ProcessOK, RequestOK
<1>1. \A r \in Req : req[r].pc # "new" => req[r].code.aid \in Bridge /\ Routed(req[r])
    BY RoutedType, CodeAssumption DEF Routed
<1>2. \A r \in Req, a \in Bridge : ClaimOf(a, r) => SpacedAt(a, r)
    BY DEF OnceInv, SpacedInv
<1>3. \A r \in Req : req[r].pc = "new" => taken[r] = <<>>
    BY DEF OnceInv, CountInv
<1>e. ASSUME NEW r \in Req, NEW a, taken'[r] = <<>> PROVE SpacedAt(a, r)'
    <2>1. Len(taken'[r]) = 0 /\ 1..Len(taken'[r]) = {}
        BY <1>e
    <2> QED BY <1>e, <2>1 DEF SpacedAt
<1>g. ASSUME \A r \in Req, a \in Bridge : ClaimOf(a, r) => SpacedAt(a, r)'
      PROVE  SpacedInv'
    <2> SUFFICES ASSUME NEW r \in Req PROVE \A a \in Bridge : ClaimOf(a, r)' => SpacedAt(a, r)'
        BY DEF SpacedInv
    <2>1. CASE req[r].pc # "new"
        <3>1. \A a \in Bridge : ClaimOf(a, r)' => ClaimOf(a, r)
            BY <2>1, Kept DEF Same, ClaimOf
        <3> QED BY <1>g, <3>1
    <2>2. CASE req[r].pc = "new"
        <3>1. CASE req'[r] = req[r]
            BY <2>2, <3>1 DEF ClaimOf
        <3>2. CASE Routes(r)
            <4>1. taken'[r] = <<>>
                BY <1>3, <2>2, <3>2 DEF Routes, Claim
            <4> QED BY <1>e, <4>1
        <3> QED BY <2>2, <3>1, <3>2, Kept
    <2> QED BY <2>1, <2>2
\* A step that leaves the record and the seconds of a claim alone.
<1>s. ASSUME NEW r \in Req, NEW a \in Bridge, ClaimOf(a, r), taken'[r] = taken[r], seen'[a][r] = seen[a][r]
      PROVE  SpacedAt(a, r)'
    <2>1. /\ req'[r].bus = req[r].bus /\ req'[r].date = req[r].date
          /\ req'[r].pc = "send" => req[r].pc = "send"
        <3>1. Same(r) /\ req[r].pc \in {"send", "wait", "done"}
            BY <1>0, <1>s, Kept DEF ClaimOf, Request
        <3> QED BY <3>1 DEF Same
    <2>2. SpacedAt(a, r)
        BY <1>2, <1>s
    <2> QED BY <1>s, <2>1, <2>2 DEF SpacedAt
<1>u. ASSUME UNCHANGED <<seen, taken>> PROVE SpacedInv'
    BY <1>g, <1>s, <1>u
<1>4. ASSUME NEW r0 \in Req, Enqueue(r0) PROVE SpacedInv'
    <2>1. CASE UNCHANGED taken
        BY <1>4, <1>u, <2>1 DEF Enqueue
    <2>2. CASE ~UNCHANGED taken
        <3>1. /\ req[r0].pc = "send" /\ req[r0].bus = "local" /\ TakeUp(r0) /\ UNCHANGED seen
              /\ req' = [req EXCEPT ![r0].pc = "wait"]
            BY <1>4, <2>2 DEF Enqueue
        <3>2. /\ taken'[r0] = Append(taken[r0], now)
              /\ \A s \in Req : s # r0 => taken'[s] = taken[s]
            BY <3>1, TallyEffect
        <3>3. ASSUME NEW r \in Req, NEW a \in Bridge, ClaimOf(a, r) PROVE SpacedAt(a, r)'
            <4>1. CASE r = r0
                <5>1. taken[r0] = <<>>
                    BY <1>2, <3>1, <3>3, <4>1 DEF SpacedAt
                <5>2. Len(taken'[r0]) = 1
                    BY <1>0, <3>2, <5>1
                <5>3. req'[r0].bus = "local" /\ req'[r0].pc = "wait"
                    <6>1. req' = [req EXCEPT ![r0] = [req[r0] EXCEPT !.pc = "wait"]]
                        BY <1>0, <3>1
                    <6> QED BY <1>0, <3>1, <6>1 DEF Request
                <5> QED BY <4>1, <5>2, <5>3 DEF SpacedAt
            <4>2. CASE r # r0
                BY <1>s, <3>1, <3>2, <3>3, <4>2
            <4> QED BY <4>1, <4>2
        <3> QED BY <1>g, <3>3
    <2> QED BY <2>1, <2>2
<1>5. ASSUME NEW b \in Bridge, NEW m \in mail[b], Dispatch(b, m) PROVE SpacedInv'
    <2>1. m \in Message /\ m.kind \in {"claim", "result"} /\ m.rid \in Req
        BY <1>0 DEF Message
    <2>2. CASE UNCHANGED <<seen, taken>>
        BY <1>u, <2>2
    <2>3. CASE m.kind = "claim" /\ HandleClaim(b, m) /\ ~UNCHANGED <<seen, taken>>
        <3> DEFINE r0 == m.rid
        <3>1. /\ seen' = [seen EXCEPT ![b][r0] = now + Ttl] /\ TakeUp(r0)
              /\ req[r0].code.aid = b /\ Usable(b, r0)
            BY <2>3 DEF HandleClaim
        <3>2. req[r0].pc # "new" /\ req[r0].bus = "direct"
            BY <2>3 DEF OwnedInv, MailOwned
        <3> HIDE DEF r0
        <3>3. r0 \in Req
            BY <2>1 DEF r0
        <3>4. /\ taken'[r0] = Append(taken[r0], now)
              /\ \A s \in Req : s # r0 => taken'[s] = taken[s]
            BY <3>1, <3>3, TallyEffect
        <3>5. /\ seen'[b][r0] = now + Ttl
              /\ \A d \in Bridge, s \in Req : s # r0 => seen'[d][s] = seen[d][s]
            BY <3>1, <3>3, SeenEffect
        <3>6. ASSUME NEW r \in Req, NEW a \in Bridge, ClaimOf(a, r) PROVE SpacedAt(a, r)'
            <4>1. CASE r = r0
                <5>1. a = b /\ SpacedAt(b, r0)
                    BY <1>2, <3>1, <3>6, <4>1 DEF ClaimOf
                <5>2. /\ req'[r0].bus = "direct" /\ req'[r0].date = req[r0].date
                      /\ req[r0].date \in Int
                    BY <1>0, <3>2, <3>3, Kept DEF Same, Request
                <5>3. /\ seen[b][r0] <= now /\ seen[b][r0] \in Int
                      /\ req[r0].date - Ttl <= now /\ now <= req[r0].date + Ttl
                    BY <1>0, <3>1, <3>3 DEF Usable, InWindow
                <5> DEFINE q == taken[r0]  p == taken'[r0]
                <5>4. /\ Len(q) \in Nat /\ Len(p) = Len(q) + 1
                      /\ \A i \in 1..Len(q) : p[i] = q[i] /\ q[i] \in Int
                      /\ p[Len(q) + 1] = now
                    BY <1>0, <3>3, <3>4, SecondsEffect
                <5>5. /\ \A i, j \in 1..Len(q) : i < j => q[i] + Ttl <= q[j]
                      /\ \A i \in 1..Len(q) : /\ q[i] + Ttl <= seen[b][r0]
                                              /\ req[r0].date - Ttl <= q[i]
                                              /\ q[i] <= req[r0].date + Ttl
                    BY <3>2, <5>1 DEF SpacedAt
                <5> HIDE DEF q, p
                <5>6. \A i \in 1..Len(p) : i \in 1..Len(q) \/ i = Len(q) + 1
                    BY <5>4
                <5>7. ASSUME NEW i \in 1..Len(p)
                      PROVE  /\ p[i] + Ttl <= now + Ttl
                             /\ req[r0].date - Ttl <= p[i] /\ p[i] <= req[r0].date + Ttl
                    <6>1. CASE i \in 1..Len(q)
                        <7>1. p[i] = q[i] /\ q[i] \in Int /\ q[i] + Ttl <= seen[b][r0]
                              /\ req[r0].date - Ttl <= q[i] /\ q[i] <= req[r0].date + Ttl
                            BY <5>4, <5>5, <6>1
                        <7>2. PICK w \in Int : w = q[i]
                            BY <7>1
                        <7>3. w + Ttl <= seen[b][r0] /\ seen[b][r0] <= now /\ p[i] = w
                            BY <5>3, <7>1, <7>2
                        <7>4. p[i] + Ttl <= now + Ttl
                            BY <1>0, <5>3, <7>3
                        <7> QED BY <7>1, <7>4
                    <6>2. CASE i = Len(q) + 1
                        <7>1. p[i] = now
                            BY <5>4, <6>2
                        <7>2. now + Ttl <= now + Ttl
                            BY <1>0
                        <7> QED BY <5>3, <7>1, <7>2
                    <6> QED BY <5>6, <6>1, <6>2
                <5>8. ASSUME NEW i \in 1..Len(p), NEW j \in 1..Len(p), i < j
                      PROVE  p[i] + Ttl <= p[j]
                    <6>1. i \in 1..Len(q)
                        BY <5>4, <5>8
                    <6>2. CASE j \in 1..Len(q)
                        BY <5>4, <5>5, <5>8, <6>1, <6>2
                    <6>3. CASE j = Len(q) + 1
                        <7>1. p[i] = q[i] /\ q[i] \in Int /\ q[i] + Ttl <= seen[b][r0] /\ p[j] = now
                            BY <5>4, <5>5, <6>1, <6>3
                        <7> QED BY <1>0, <5>3, <7>1
                    <6> QED BY <5>6, <6>2, <6>3
                <5>9. SpacedAt(b, r0)'
                    BY <3>5, <5>2, <5>7, <5>8 DEF SpacedAt, p
                <5> QED BY <4>1, <5>1, <5>9
            <4>2. CASE r # r0
                BY <1>s, <3>4, <3>5, <3>6, <4>2
            <4> QED BY <4>1, <4>2
        <3> QED BY <1>g, <3>6
    <2> QED BY <1>5, <2>1, <2>2, <2>3 DEF Dispatch, HandleClaim, HandleResult
<1>6. ASSUME NEW b \in Bridge, Restart(b) PROVE SpacedInv'
    <2>1. /\ seen' = [seen EXCEPT ![b] = [r \in Req |-> 0]]
          /\ taken' = [r \in Req |-> IF ClaimOf(b, r) THEN <<>> ELSE taken[r]]
        BY <1>6 DEF Restart
    <2>2. ASSUME NEW r \in Req, NEW a \in Bridge, ClaimOf(a, r) PROVE SpacedAt(a, r)'
        <3>1. CASE a = b
            <4>1. taken'[r] = <<>>
                BY <2>1, <2>2, <3>1 DEF ClaimOf
            <4> QED BY <1>e, <4>1
        <3>2. CASE a # b
            <4>1. taken'[r] = taken[r] /\ seen'[a] = seen[a]
                BY <1>0, <2>1, <2>2, <3>2 DEF ClaimOf
            <4> QED BY <1>s, <2>2, <4>1
        <3> QED BY <3>1, <3>2
    <2> QED BY <1>g, <2>2
<1>7. ASSUME NEW r \in Req, SendClaim(r) \/ Answer(r) \/ Timeout(r) \/ Disconnect(r) PROVE SpacedInv'
    BY <1>7, <1>u DEF SendClaim, Answer, Timeout, Disconnect
<1>8. ASSUME NEW b \in Bridge, Adjudicate(b) PROVE SpacedInv'
    <2>1. UNCHANGED <<seen, taken>>
        BY <1>8 DEF Adjudicate, Decide
    <2> QED BY <1>u, <2>1
<1>9. ASSUME NEW b \in Bridge, AddMember(b) PROVE SpacedInv'
    <2>1. UNCHANGED <<seen, taken>>
        BY <1>9 DEF AddMember, Decide
    <2> QED BY <1>u, <2>1
<1>10. ASSUME NEW b \in Bridge, Publish(b) \/ Reply(b) \/ EnqueueHeld(b) \/ Shutdown(b) \/ Hang(b)
       PROVE  SpacedInv'
    BY <1>10, <1>u DEF Publish, Reply, EnqueueHeld, Shutdown, Hang
<1>11. ASSUME NEW b \in Bridge, NEW l \in List, NEW j \in Joiner, GroupCommand(b, l, j) PROVE SpacedInv'
    BY <1>11, <1>u DEF GroupCommand
<1>12. ASSUME NEW b \in Bridge, NEW r \in Req, Stray(b, r) PROVE SpacedInv'
    BY <1>12, <1>u DEF Stray
<1>13. ASSUME NEW r \in Req, NEW b \in Bridge, NEW j \in Joiner, NEW c \in Code,
              NEW rc \in accepted \cup {None}, NEW k \in Skew, Claim(r, b, j, c, rc, k)
       PROVE  SpacedInv'
    BY <1>13, <1>u DEF Claim
<1>14. ASSUME NEW b \in Bridge, NEW c \in Code, Mint(b, c) PROVE SpacedInv'
    BY <1>14, <1>u DEF Mint
<1>15. ASSUME NEW b \in Bridge, NEW c \in Code, NEW age \in BOOLEAN, AcceptPolicy(b, c, age)
       PROVE  SpacedInv'
    BY <1>15, <1>u DEF AcceptPolicy
<1>16. CASE Tick \/ UNCHANGED vars
    BY <1>16, <1>u DEF Tick, vars
<1> QED BY <1>4, <1>5, <1>6, <1>7, <1>8, <1>9, <1>10, <1>11, <1>12, <1>13, <1>14, <1>15, <1>16
        DEF Next, RequestStep, AuthorityStep

----------------------------------------------------------------------------
(* The warrant a worker writes on.                                         *)

\* Codes stay signed, receipts stay issued; the policy of a bridge changes
\* only when the bridge starts.
LEMMA WarrantKept ==
    ASSUME TypeOK, OwnedInv, [Next]_vars, NEW b \in Bridge, NEW r \in Req, req[r].pc # "new",
           policy'[b] = policy[b], minted \subseteq minted', accepted \subseteq accepted',
           Warrant(b, r)
    PROVE  Warrant(b, r)'
<1>1. req'[r].code = req[r].code /\ req'[r].receipt = req[r].receipt
    BY Kept DEF Same
<1> QED BY <1>1 DEF Warrant, ReceiptOk

\* A worker that is about to write was given its warrant by apply_claim, and
\* nothing it rests on goes away before the write.
LEMMA WarrantNext == TypeOK /\ OwnedInv /\ WarrantInv /\ [Next]_vars => WarrantInv'
<1> SUFFICES ASSUME TypeOK, OwnedInv, WarrantInv, [Next]_vars PROVE WarrantInv'
    OBVIOUS
<1> USE DEF busState, authority, record, tally, service, process
<1>0. /\ worker \in [Bridge -> WorkItem \cup {None}]
      /\ queue \in [Bridge -> Seq(WorkItem)]
      /\ policy \in [Bridge -> UNION {Policies[b] : b \in Bridge}]
      /\ QueueOwned /\ WorkerOwned
    BY DEF TypeOK, AuthorityOK, ServiceOK, OwnedInv
\* A worker whose claim is the one it had.
<1>k. ASSUME NEW b \in Bridge, worker'[b] = worker[b], policy'[b] = policy[b],
             minted \subseteq minted', accepted \subseteq accepted',
             worker'[b] # None, worker'[b].step = "write"
      PROVE  Warrant(b, worker[b].rid)'
    <2>1. PICK r \in Req : r = worker[b].rid
        BY <1>0, <1>k DEF WorkItem
    <2>2. worker'[b].rid = r /\ req[r].pc # "new" /\ Warrant(b, r)
        BY <1>0, <1>k, <2>1 DEF WorkerOwned, Owned, WarrantInv
    <2>3. Warrant(b, r)'
        BY <1>k, <2>2, WarrantKept
    <2> QED BY <2>1, <2>2, <2>3
<1>u. ASSUME UNCHANGED <<worker, policy>>, minted \subseteq minted', accepted \subseteq accepted'
      PROVE  WarrantInv'
    <2> SUFFICES ASSUME NEW b \in Bridge, worker'[b] # None, worker'[b].step = "write"
                 PROVE  Warrant(b, worker[b].rid)'
        BY DEF WarrantInv
    <2> QED BY <1>k, <1>u
<1>1. ASSUME NEW b \in Bridge, Adjudicate(b) PROVE WarrantInv'
    <2>1. UNCHANGED <<req, minted, accepted, policy, now>>
        BY <1>1 DEF Adjudicate
    <2>2. PICK w \in WorkItem, res \in Result \cup {"write"} : Ruled(b, w, res)
        BY <1>1, AdjudicateEffect
    <2>4. res = "write" => Warrant(b, w.rid)
        <3>1. ASSUME NEW known \in BOOLEAN, ApplyClaim(b, req[w.rid], known) = "write"
              PROVE  Warrant(b, w.rid)
            BY <3>1 DEF ApplyClaim, Warrant
        <3> QED BY <2>2, <3>1 DEF Ruled
    <2>5. /\ [w EXCEPT !.step = "write"].rid = w.rid
          /\ Concluded(w, "reply", res).step # "write"
        <3>1. [w EXCEPT !.step = "write"].rid = w.rid
            BY <2>2 DEF WorkItem
        <3> QED BY <2>2, <3>1, ConcludedFields
    <2>3. \/ worker' = [worker EXCEPT ![b] = [w EXCEPT !.step = "write"]] /\ res = "write"
          \/ worker' = [worker EXCEPT ![b] = Concluded(w, "reply", res)]
        BY <2>2 DEF Ruled
    <2>6. \/ worker'[b] = [w EXCEPT !.step = "write"] /\ res = "write"
          \/ worker'[b] = Concluded(w, "reply", res)
        BY <1>0, <2>3
    <2>7. \A d \in Bridge : d # b => worker'[d] = worker[d]
        BY <1>0, <2>3
    <2> SUFFICES ASSUME NEW d \in Bridge, worker'[d] # None, worker'[d].step = "write"
                 PROVE  Warrant(d, worker[d].rid)'
        BY DEF WarrantInv
    <2>8. CASE d = b
        <3>1. worker'[b].rid = w.rid /\ Warrant(b, w.rid)
            BY <2>4, <2>5, <2>6, <2>8
        <3>2. PICK r : r = w.rid
            OBVIOUS
        <3>3. Warrant(b, r)'
            BY <2>1, <3>1, <3>2 DEF Warrant, ReceiptOk
        <3> QED BY <2>8, <3>1, <3>2, <3>3
    <2>9. CASE d # b
        BY <1>k, <2>1, <2>7, <2>9
    <2> QED BY <2>8, <2>9
<1>2. ASSUME NEW b \in Bridge, AddMember(b) \/ Publish(b) \/ Reply(b) \/ Restart(b)
      PROVE  WarrantInv'
    <2>1. UNCHANGED <<minted, accepted>>
        BY <1>2 DEF AddMember, Publish, Reply, Restart
    <2>a. AddMember(b) \/ Publish(b) =>
             UNCHANGED policy /\ \E v : worker' = [worker EXCEPT ![b] = v] /\ v.step # "write"
        <3>1. ASSUME AddMember(b)
              PROVE  UNCHANGED policy /\ \E v : worker' = [worker EXCEPT ![b] = v] /\ v.step # "write"
            <4>1. worker[b] \in WorkItem
                BY <1>0, <3>1 DEF AddMember
            <4>2. PICK s \in {"publish", "reply"}, res \in {"joined", "write_failed"} : AddedAs(b, s, res)
                BY <3>1, AddMemberEffect
            <4>3. Concluded(worker[b], s, res).step = s
                BY <4>1, ConcludedFields
            <4> QED BY <3>1, <4>2, <4>3 DEF AddedAs, AddMember
        <3>2. ASSUME Publish(b)
              PROVE  UNCHANGED policy /\ \E v : worker' = [worker EXCEPT ![b] = v] /\ v.step # "write"
            <4>1. worker[b] \in WorkItem /\ worker' = [worker EXCEPT ![b] = [worker[b] EXCEPT !.step = "reply"]]
                BY <1>0, <3>2 DEF Publish
            <4>2. [worker[b] EXCEPT !.step = "reply"].step = "reply"
                BY <4>1 DEF WorkItem
            <4> QED BY <3>2, <4>1, <4>2 DEF Publish
        <3> QED BY <3>1, <3>2
    <2>2. worker'[b] = None \/ (worker'[b].step # "write" /\ UNCHANGED policy)
        <3>1. CASE AddMember(b) \/ Publish(b)
            BY <1>0, <2>a, <3>1
        <3> QED BY <1>0, <1>2, <3>1 DEF Reply, Restart
    <2>3. \A d \in Bridge : d # b => worker'[d] = worker[d] /\ policy'[d] = policy[d]
        <3>1. CASE AddMember(b) \/ Publish(b)
            BY <1>0, <2>a, <3>1
        <3>2. CASE Reply(b)
            BY <1>0, <3>2 DEF Reply
        <3>3. CASE Restart(b)
            BY <1>0, <3>3 DEF Restart
        <3> QED BY <1>2, <3>1, <3>2, <3>3
    <2> SUFFICES ASSUME NEW d \in Bridge, worker'[d] # None, worker'[d].step = "write"
                 PROVE  Warrant(d, worker[d].rid)'
        BY DEF WarrantInv
    <2>4. d # b
        BY <2>2
    <2> QED BY <1>k, <2>1, <2>3, <2>4
<1>3. ASSUME NEW r \in Req, Enqueue(r) \/ SendClaim(r) \/ Answer(r) \/ Timeout(r) \/ Disconnect(r)
      PROVE  WarrantInv'
    BY <1>3, <1>u DEF Enqueue, SendClaim, Answer, Timeout, Disconnect
<1>4. ASSUME NEW b \in Bridge, EnqueueHeld(b) \/ Shutdown(b) \/ Hang(b) PROVE WarrantInv'
    BY <1>4, <1>u DEF EnqueueHeld, Shutdown, Hang
<1>11. ASSUME NEW b \in Bridge, NEW l \in List, NEW j \in Joiner, GroupCommand(b, l, j)
       PROVE  WarrantInv'
    BY <1>11, <1>u DEF GroupCommand
<1>5. ASSUME NEW b \in Bridge, NEW m \in mail[b], Dispatch(b, m) PROVE WarrantInv'
    <2>1. m.kind \in {"claim", "result"}
        BY DEF TypeOK, Message
    <2> QED BY <1>5, <1>u, <2>1 DEF Dispatch, HandleClaim, HandleResult
<1>6. ASSUME NEW b \in Bridge, NEW r \in Req, Stray(b, r) PROVE WarrantInv'
    BY <1>6, <1>u DEF Stray
<1>7. ASSUME NEW r \in Req, NEW b \in Bridge, NEW j \in Joiner, NEW c \in Code,
             NEW rc \in accepted \cup {None}, NEW k \in Skew, Claim(r, b, j, c, rc, k)
      PROVE  WarrantInv'
    BY <1>7, <1>u DEF Claim
<1>8. ASSUME NEW b \in Bridge, NEW c \in Code, Mint(b, c) PROVE WarrantInv'
    BY <1>8, <1>u DEF Mint
<1>9. ASSUME NEW b \in Bridge, NEW c \in Code, NEW age \in BOOLEAN, AcceptPolicy(b, c, age)
      PROVE  WarrantInv'
    BY <1>9, <1>u DEF AcceptPolicy
<1>10. CASE Tick \/ UNCHANGED vars
    BY <1>10, <1>u DEF Tick, vars
<1> QED BY <1>1, <1>2, <1>3, <1>4, <1>5, <1>6, <1>7, <1>8, <1>9, <1>10, <1>11
        DEF Next, RequestStep, AuthorityStep

----------------------------------------------------------------------------
(* The theorems.                                                           *)

\* Nothing is asked, queued, decided or delivered when the bridges start.
LEMMA InitInv == Init => IInv
<1> SUFFICES ASSUME Init PROVE IInv
    OBVIOUS
<1>0. NoReq \in Request /\ NoReq.pc = "new" /\ NoReq.reply = None /\ NoReq.answer = None
    BY DEF NoReq, Request
<1>n. /\ None \notin Result
      /\ \A q \in Seq(WorkItem) : q = <<>> => 1..Len(q) = {}
    BY NoneAssumption
<1>1. TypeOK
    <2>1. RequestOK /\ BusOK /\ ProcessOK
        BY <1>0, CapAssumption DEF Init, RequestOK, BusOK, ProcessOK
    <2>2. AuthorityOK /\ mail \in [Bridge -> SUBSET Message]
        <3>1. <<>> \in Seq(WorkItem) /\ <<>> \in Seq(Int)
            OBVIOUS
        <3>2. [l \in List |-> {}] \in [List -> SUBSET Joiner] /\ [r \in Req |-> 0] \in [Req -> Int]
            OBVIOUS
        <3> QED BY <3>1, <3>2 DEF Init, AuthorityOK
    <2>3. ServiceOK
        BY DEF Init, ServiceOK
    <2> QED BY <2>1, <2>2, <2>3 DEF TypeOK
<1>2. PermitsInv
    <2>1. \A b \in Bridge, x \in Bus : Live(b, x) = {}
        BY <1>0 DEF Init, Live
    <2>2. \A b \in Bridge, x \in Bus : permits[b][x] = MaxPending /\ pending[b][x] = {}
        BY DEF Init
    <2> QED BY <2>1, <2>2, FS_EmptySet, CapAssumption DEF PermitsInv
<1>3. OwnedInv
    BY DEF Init, OwnedInv, QueueOwned, WorkerOwned, HeldOwned, MailOwned
<1>4. DecisionInv
    <2>1. ListsKnown
        BY DEF Init, ListsKnown
    <2>2. NewUndecided /\ WorkerDecided /\ MailDecided /\ AnswersDecided /\ DecidedMember
        BY <1>0, <1>n DEF Init, NewUndecided, WorkerDecided, MailDecided, AnswersDecided, DecidedMember
    <2> QED BY <2>1, <2>2 DEF DecisionInv
<1>5. OnceInv
    BY <1>0 DEF Init, OnceInv, CountInv, SpacedInv, ClaimOf
<1>6. WarrantInv
    BY DEF Init, WarrantInv
<1> QED BY <1>1, <1>2, <1>3, <1>4, <1>5, <1>6 DEF IInv

\* The inductive invariant holds throughout every execution of m1b.rs,
\* invites.rs and direct_transport.rs, restarts and replays included.
THEOREM Invariance == Spec => []IInv
<1>1. IInv /\ [Next]_vars => IInv'
    BY TypeNext, PermitsNext, OwnedNext, DecisionNext, CountNext, SpacedNext, WarrantNext
       DEF IInv, OnceInv
<1> QED BY <1>1, InitInv, PTL DEF Spec

\* Every variable keeps its type: what reaches a worker, a dispatcher or a
\* mailbox is work or a message of a request that was routed.
THEOREM TypeCorrect == Spec => []TypeOK
<1>1. IInv => TypeOK
    BY DEF IInv
<1> QED BY <1>1, Invariance, PTL

\* PendingEntryGuard is exact on both buses: for any number of requests, free
\* permits and requests in flight add up to MAX_PENDING_CLAIMS, however each
\* request ends and however often a bridge restarts.
THEOREM PermitsCorrect == Spec => []PermitsExact
<1>1. IInv => PermitsExact
    <2> SUFFICES ASSUME IInv, NEW b \in Bridge, NEW x \in Bus
                 PROVE  /\ permits[b][x] + Cardinality(Live(b, x)) = MaxPending
                        /\ pending[b][x] \subseteq Live(b, x)
                        /\ Cardinality(pending[b][x]) <= MaxPending
        BY DEF PermitsExact
    <2>1. /\ IsFiniteSet(Live(b, x)) /\ pending[b][x] \subseteq Live(b, x)
          /\ permits[b][x] + Cardinality(Live(b, x)) = MaxPending
        BY DEF IInv, PermitsInv
    <2>2. permits[b][x] \in Nat
        <3>1. permits \in [Bridge -> [Bus -> Nat]]
            BY DEF IInv, TypeOK, BusOK
        <3> QED BY <3>1
    <2>3. Cardinality(Live(b, x)) \in Nat
        BY <2>1, FS_CardinalityType
    <2>4. /\ Cardinality(pending[b][x]) <= Cardinality(Live(b, x))
          /\ Cardinality(pending[b][x]) \in Nat
        BY <2>1, FS_Subset, FS_CardinalityType
    <2>5. Cardinality(pending[b][x]) <= MaxPending
        BY <2>1, <2>2, <2>3, <2>4, CapAssumption
    <2> QED BY <2>1, <2>5
<1> QED BY <1>1, Invariance, PTL

\* A joiner told "joined" or "already" is or was on a member list of the
\* authority, whatever messages were late, repeated, lost, spoofed or malformed.
THEOREM SuccessCorrect == Spec => []OkIsMember
<1>1. IInv => OkIsMember
    <2> SUFFICES ASSUME IInv, NEW r \in Req, req[r].answer \in {"joined", "already"}
                 PROVE  req[r].joiner \in enlisted[req[r].code.aid]
        BY DEF OkIsMember
    <2>1. req[r].answer \in decided[r]
        BY DEF IInv, DecisionInv, AnswersDecided, Result
    <2> QED BY <2>1 DEF IInv, DecisionInv, DecidedMember
<1> QED BY <1>1, Invariance, PTL

\* What a joiner is answered is what the authority decided about that claim.
THEOREM AnswersCorrect == Spec => []AnswersOwnDecision
<1>1. IInv => AnswersOwnDecision
    BY DEF IInv, DecisionInv, AnswersDecided, AnswersOwnDecision
<1> QED BY <1>1, Invariance, PTL

\* A claim is decided no oftener than it was taken up, and taken up once in a
\* TTL: three times at most in one life of its authority's process, and once
\* when its proof is dated before the first time or the claim is local, though
\* the daemon may deliver its message any number of times.
THEOREM OnceCorrect == Spec => []AdjudicatedOnce
<1>1. IInv => AdjudicatedOnce
    <2> SUFFICES ASSUME IInv, NEW r \in Req
                 PROVE  /\ rulings[r] <= Len(taken[r]) /\ Len(taken[r]) <= 3
                        /\ \A i, j \in 1..Len(taken[r]) : i < j => taken[r][i] + Ttl <= taken[r][j]
                        /\ taken[r] # <<>> /\ (req[r].bus = "local" \/ req[r].date < taken[r][1])
                              => rulings[r] <= 1
        BY DEF AdjudicatedOnce
    <2>0. /\ TypeOK /\ CountInv /\ SpacedInv
          /\ taken[r] \in Seq(Int) /\ rulings[r] \in Nat /\ req[r].date \in Int
          /\ queue \in [Bridge -> Seq(WorkItem)] /\ Ttl \in Nat \ {0}
        BY TtlAssumption DEF IInv, OnceInv, TypeOK, AuthorityOK, RequestOK, Request
    <2> DEFINE q == taken[r]
    <2>1. CASE req[r].pc = "new"
        <3>1. q = <<>> /\ rulings[r] = 0
            BY <2>0, <2>1 DEF CountInv
        <3>2. Len(q) = 0 /\ 1..Len(q) = {}
            BY <3>1
        <3> QED BY <3>1, <3>2
    <2>2. CASE req[r].pc # "new"
        <3>1. PICK a \in Bridge : ClaimOf(a, r)
            BY <2>0, <2>2, RoutedType, CodeAssumption DEF Routed, ClaimOf
        <3>2. req[r].bus \in {"local", "direct"}
            BY <2>0, <2>2, RoutedType DEF Routed, Bus
        <3>3. rulings[r] <= Len(q)
            <4>1. rulings[r] + Load(a, r) <= Len(q)
                BY <2>0, <3>1 DEF CountInv, Due
            <4>2. Load(a, r) \in Nat
                <5>1. Cardinality(Positions(queue[a], r)) \in Nat
                    BY <2>0, Counted
                <5> QED BY <5>1 DEF Load, HeldLoad, WriteLoad
            <4>3. Len(q) \in Nat
                BY <2>0
            <4> QED BY <2>0, <4>1, <4>2, <4>3
        <3>4. SpacedAt(a, r)
            BY <2>0, <3>1 DEF SpacedInv
        <3>5. \A i, j \in 1..Len(q) : i < j => q[i] + Ttl <= q[j]
            BY <3>4 DEF SpacedAt
        <3>6. CASE req[r].bus = "local"
            <4>1. Len(q) <= 1
                BY <3>4, <3>6 DEF SpacedAt
            <4> QED BY <2>0, <3>3, <3>5, <4>1
        <3>7. CASE req[r].bus = "direct"
            <4>1. \A i \in 1..Len(q) : req[r].date - Ttl <= q[i] /\ q[i] <= req[r].date + Ttl
                BY <3>4, <3>7 DEF SpacedAt
            <4>2. \A i \in 1..Len(q) : q[i] \in Int
                BY <2>0
            <4>3. Len(q) \in Nat
                BY <2>0
            <4>a. \A i, j \in 1..Len(q) : i < j => q[i] + Ttl <= q[j]
                BY <3>5
            <4> HIDE DEF q
            <4>4. Len(q) <= 3
                <5> SUFFICES ASSUME Len(q) >= 4 PROVE FALSE
                    BY <4>3
                <5>1. 1 \in 1..Len(q) /\ 2 \in 1..Len(q) /\ 3 \in 1..Len(q) /\ 4 \in 1..Len(q)
                    BY <4>3
                <5>2. q[1] + Ttl <= q[2]
                    BY <4>a, <5>1
                <5>3. q[2] + Ttl <= q[3]
                    BY <4>a, <5>1
                <5>4. q[3] + Ttl <= q[4]
                    BY <4>a, <5>1
                <5>5. req[r].date - Ttl <= q[1] /\ q[4] <= req[r].date + Ttl
                    BY <4>1, <5>1
                <5>6. q[1] \in Int /\ q[2] \in Int /\ q[3] \in Int /\ q[4] \in Int
                    BY <4>2, <5>1
                <5>7. PICK x, y, z, w, d \in Int :
                        x = q[1] /\ y = q[2] /\ z = q[3] /\ w = q[4] /\ d = req[r].date
                    BY <2>0, <5>6
                <5>8. x + Ttl <= y /\ y + Ttl <= z /\ z + Ttl <= w /\ d - Ttl <= x /\ w <= d + Ttl
                    BY <5>2, <5>3, <5>4, <5>5, <5>7
                <5> QED BY <2>0, <5>8
            <4>5. Len(q) >= 1 /\ req[r].date < q[1] => Len(q) <= 1
                <5> SUFFICES ASSUME Len(q) >= 2, req[r].date < q[1] PROVE FALSE
                    BY <4>3
                <5>1. 1 \in 1..Len(q) /\ 2 \in 1..Len(q)
                    BY <4>3
                <5>2. /\ q[1] + Ttl <= q[2] /\ q[2] <= req[r].date + Ttl
                      /\ q[1] \in Int /\ q[2] \in Int
                    BY <4>a, <4>1, <4>2, <5>1
                <5> QED BY <2>0, <5>2
            <4>6. q # <<>> => Len(q) >= 1
                BY <2>0 DEF q
            <4>7. q # <<>> /\ req[r].date < q[1] => rulings[r] <= 1
                BY <2>0, <3>3, <4>3, <4>5, <4>6
            <4> QED BY <3>3, <3>5, <3>7, <4>4, <4>7 DEF q
        <3> QED BY <3>2, <3>6, <3>7
    <2> QED BY <2>1, <2>2
<1> QED BY <1>1, Invariance, PTL

\* What a worker that adds j to the primary list of b rests on.
Invited(b, j) ==
    \E c \in minted :
        /\ c.cid = b
        /\ policy[b] # None => \E rc \in accepted :
             /\ rc.by = b /\ rc.code = c /\ rc.version = policy[b].version
             /\ policy[b].age => rc.age
        /\ \E r \in Req : req[r].joiner = j /\ req[r].code = c

\* add_member_from_invite is only reached on a code this authority signed and
\* on a receipt that satisfies the policy in force, for the joiner of the
\* claim: every addition to the primary list that no group command makes, in
\* every execution, not only those of a small instance.
THEOREM AdmissionCorrect == Spec => AdmittedByInvite
<1> DEFINE Admitted ==
        \A b \in Bridge : \A j \in lists'[b]["primary"] \ lists[b]["primary"] :
            \/ GroupCommand(b, "primary", j)
            \/ \E c \in minted :
                  /\ c.cid = b
                  /\ policy[b] # None => \E rc \in accepted :
                       /\ rc.by = b /\ rc.code = c /\ rc.version = policy[b].version
                       /\ policy[b].age => rc.age
                  /\ \E r \in Req : req[r].joiner = j /\ req[r].code = c
<1>1. ASSUME IInv, [Next]_vars, NEW b \in Bridge, NEW j \in lists'[b]["primary"] \ lists[b]["primary"]
      PROVE  GroupCommand(b, "primary", j) \/ Invited(b, j)
    <2> HIDE DEF Admitted
    <2>0. /\ TypeOK /\ OwnedInv
          /\ lists \in [Bridge -> [List -> SUBSET Joiner]]
          /\ worker \in [Bridge -> WorkItem \cup {None}]
          /\ "primary" \in List
          /\ \A a \in Bridge : \A m \in mail[a] : m.kind \in {"claim", "result"}
        BY <1>1 DEF IInv, TypeOK, AuthorityOK, Message, List
    <2>1. \/ \E a \in Bridge : AddMember(a)
          \/ \E a \in Bridge, l \in List, k \in Joiner : GroupCommand(a, l, k)
        <3> USE DEF authority, record
        <3>1. lists' # lists
            BY <1>1
        <3>2. \A a \in Bridge : \A m \in mail[a] : Dispatch(a, m) => UNCHANGED lists
            BY <2>0 DEF Dispatch, HandleClaim, HandleResult
        <3>3. \A r \in Req : RequestStep(r) \/ Disconnect(r) => UNCHANGED lists
            BY DEF RequestStep, Enqueue, SendClaim, Answer, Timeout, Disconnect
        <3>4. \A a \in Bridge : Adjudicate(a) \/ Publish(a) \/ Reply(a) \/ EnqueueHeld(a) \/ Shutdown(a)
                                   \/ Restart(a) \/ Hang(a) => UNCHANGED lists
            BY DEF Adjudicate, Publish, Reply, EnqueueHeld, Shutdown, Restart, Hang
        <3>5. ASSUME NEW a \in Bridge, NEW c \in Code PROVE Mint(a, c) => UNCHANGED lists
            BY DEF Mint
        <3>6. ASSUME NEW a \in Bridge, NEW c \in Code, NEW age \in BOOLEAN
              PROVE  AcceptPolicy(a, c, age) => UNCHANGED lists
            BY DEF AcceptPolicy
        <3>7. ASSUME NEW r \in Req, NEW a \in Bridge, NEW i \in Joiner, NEW c \in Code,
                     NEW rc \in accepted \cup {None}, NEW k \in Skew
              PROVE  Claim(r, a, i, c, rc, k) => UNCHANGED lists
            BY DEF Claim
        <3>8. /\ \A a \in Bridge, r \in Req : Stray(a, r) => UNCHANGED lists
              /\ Tick => UNCHANGED lists
            BY DEF Stray, Tick
        <3>9. Next
            BY <1>1, <3>1 DEF vars
        <3> HIDE DEF authority, record
        <3> QED BY <3>1, <3>2, <3>3, <3>4, <3>5, <3>6, <3>7, <3>8, <3>9 DEF Next, AuthorityStep
    <2>2. ASSUME NEW a \in Bridge, NEW l \in List, NEW k \in Joiner, GroupCommand(a, l, k)
          PROVE  GroupCommand(b, "primary", j)
        <3>1. Enlist(a, l, k)
            <4>1. CASE lists' = [lists EXCEPT ![a][l] = @ \ {k}]
                <5>1. lists'[b]["primary"] \subseteq lists[b]["primary"]
                    BY <2>0, <4>1, UnlistEffect
                <5> QED BY <1>1, <5>1
            <4> QED BY <2>2, <4>1 DEF GroupCommand
        <3>2. b = a /\ l = "primary" /\ j = k
            <4>1. /\ lists' \in [Bridge -> [List -> SUBSET Joiner]]
                  /\ \A d \in Bridge, y \in List, i \in Joiner :
                       i \in lists'[d][y] => i \in lists[d][y] \/ (d = a /\ y = l /\ i = k)
                BY <2>0, <3>1, EnlistEffect
            <4>2. j \in Joiner /\ j \in lists'[b]["primary"] /\ j \notin lists[b]["primary"]
                BY <1>1, <2>0, <4>1
            <4> QED BY <1>1, <2>0, <4>1, <4>2
        <3> QED BY <2>2, <3>2
    <2>3. ASSUME NEW a \in Bridge, AddMember(a) PROVE Invited(b, j)
        <3>1. /\ worker[a] \in WorkItem /\ Owned(a, worker[a]) /\ worker[a] # None
              /\ worker[a].step = "write"
            BY <2>0, <2>3 DEF AddMember, OwnedInv, WorkerOwned
        <3>2. PICK r \in Req : r = worker[a].rid
            BY <3>1 DEF WorkItem
        <3>3. PICK s \in {"publish", "reply"}, res \in {"joined", "write_failed"} : AddedAs(a, s, res)
            BY <2>0, <2>3, AddMemberEffect
        <3>4. Enlist(a, "primary", req[r].joiner)
            <4>1. res = "joined"
                <5>1. lists' # lists
                    BY <1>1
                <5> QED BY <3>3, <5>1 DEF AddedAs, record
            <4> QED BY <3>2, <3>3, <4>1 DEF AddedAs
        <3>5. req[r].joiner \in Joiner
            BY <2>0, <3>1, <3>2, RoutedType DEF Owned, Routed
        <3>6. a = b /\ j = req[r].joiner
            <4>1. /\ lists' \in [Bridge -> [List -> SUBSET Joiner]]
                  /\ \A d \in Bridge, y \in List, i \in Joiner :
                       i \in lists'[d][y] => i \in lists[d][y] \/ (d = a /\ y = "primary" /\ i = req[r].joiner)
                BY <2>0, <3>4, <3>5, EnlistEffect
            <4>2. j \in Joiner /\ j \in lists'[b]["primary"] /\ j \notin lists[b]["primary"]
                BY <1>1, <2>0, <4>1
            <4> QED BY <1>1, <2>0, <4>1, <4>2
        <3>7. Warrant(b, r)
            BY <1>1, <3>1, <3>2, <3>6 DEF IInv, WarrantInv
        <3>8. req[r].code \in minted /\ req[r].code.cid = b
            BY <3>7 DEF Warrant
        <3>9. policy[b] # None => \E rc \in accepted :
                 /\ rc.by = b /\ rc.code = req[r].code /\ rc.version = policy[b].version
                 /\ policy[b].age => rc.age
            BY <3>7 DEF Warrant, ReceiptOk
        <3> QED BY <3>6, <3>8, <3>9 DEF Invited
    <2> QED BY <2>1, <2>2, <2>3
<1>2. IInv /\ [Next]_vars => Admitted
    BY <1>1 DEF Invited
<1>3. Admitted => [Admitted]_vars
    OBVIOUS
<1>4. IInv /\ [Next]_vars => [Admitted]_vars
    BY <1>2
<1> QED BY <1>4, Invariance, PTL DEF Spec, AdmittedByInvite
============================================================================
