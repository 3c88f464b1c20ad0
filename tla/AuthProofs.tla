----------------------------- MODULE AuthProofs ------------------------------
(***************************************************************************)
(* Proofs about Auth, for any requests, tokens, callers, TTL, window,      *)
(* quota and age of the clock readings.  The inductive invariant IInv says *)
(*   - that a handler's reading of the clock is at most MaxDelay old;      *)
(*   - that a token that was accepted is in the cache for a TTL, or the    *)
(*     clock has passed that time (whoever swept the record read it);      *)
(*   - that what was admitted before a caller's window began is no younger *)
(*     than the window, and what is further back than the quota of the     *)
(*     window before it is a whole window older.                           *)
(***************************************************************************)
EXTENDS Auth, SequenceTheorems, TLAPS

Handler == [pc : {"idle", "auth", "limit"}, path : Path \cup {None}, cred : Credential \cup {None},
            now : Nat, who : Principal \cup {None}]
CacheRecord == [token : Token, exp : Nat]
Frame == [start : Nat, count : Nat]

TypeOK ==
    /\ clock \in Nat
    /\ req \in [Req -> Handler]
    /\ seen \in SUBSET CacheRecord
    /\ replays \in SUBSET Token
    /\ windows \in [Principal -> Frame \cup {None}]
    /\ uses \in [Token -> Seq(Nat)]
    /\ admits \in [Principal -> Seq(Nat)]

\* The handler h was started at most MaxDelay ago and knows what its step needs.
Fresh(h, c) ==
    /\ h.pc # "idle" => h.now <= c /\ c <= h.now + MaxDelay
    /\ h.pc = "auth" => h.cred \in Credential
    /\ h.pc = "limit" => h.who \in Principal

ReqInv == \A r \in Req : Fresh(req[r], clock)

\* What the cache records S, and the uses u, say of token t at second c.
Remembered(t, S, u, c) ==
    /\ Len(u) <= 2
    /\ Len(u) = 2 => u[2] - u[1] >= TTL - MaxDelay
    /\ Len(u) > 0 => \/ \E x \in S : x.token = t /\ x.exp >= u[Len(u)] + TTL - MaxDelay
                     \/ c >= u[Len(u)] + TTL - MaxDelay
    /\ \A x \in S : x.token = t => Len(u) > 0

CacheInv ==
    /\ \A t \in Token : Remembered(t, seen, uses[t], clock)
    /\ \A t \in replays : Len(uses[t]) > 0

\* What the window w says of the admissions a, up to second c.
Paced(w, a, c) ==
    /\ w.count <= Quota /\ w.start <= c
    /\ w.count <= Len(a) /\ Len(a) <= 2 * Quota + 1
    /\ \A i \in 1..Len(a) :
          /\ a[i] <= c
          /\ i > Len(a) - w.count => a[i] >= w.start
          /\ i <= Len(a) - w.count => a[i] <= w.start + MaxDelay
          /\ i <= Len(a) - w.count - Quota => a[i] + Window <= w.start + MaxDelay

LimitInv ==
    \A p \in Principal :
        IF windows[p] = None THEN Len(admits[p]) = 0
        ELSE windows[p].count > 0 /\ Paced(windows[p], admits[p], clock)

IInv == TypeOK /\ ReqInv /\ CacheInv /\ LimitInv

----------------------------------------------------------------------------
(* Records of times.                                                       *)

\* The record l is a with one more time x, of which the latest n are kept.
Extended(a, x, n, l) ==
    /\ l \in Seq(Nat)
    /\ Len(a) = n => Len(l) = n /\ l[n] = x /\ \A i \in 1..(n - 1) : l[i] = a[i + 1]
    /\ Len(a) < n => Len(l) = Len(a) + 1 /\ l[Len(a) + 1] = x /\ \A i \in 1..Len(a) : l[i] = a[i]

\* Latest keeps the last n of a record that grew by one.
LEMMA LatestAppended ==
    ASSUME NEW n \in Nat \ {0}, NEW a \in Seq(Nat), Len(a) <= n, NEW x \in Nat,
           NEW l, l = Latest(n, Append(a, x))
    PROVE  Extended(a, x, n, l)
<1>0. Len(a) \in Nat
    OBVIOUS
<1>1. PICK b \in Seq(Nat) : b = Append(a, x)
    BY AppendProperties
<1>2. Len(b) = Len(a) + 1 /\ b[Len(a) + 1] = x /\ \A i \in 1..Len(a) : b[i] = a[i]
    BY <1>1, AppendProperties
<1>3. CASE Len(a) = n
    <2>1. l = Tail(b)
        BY <1>0, <1>1, <1>2, <1>3 DEF Latest
    <2>2. b # <<>>
        BY <1>0, <1>2
    <2>3. Tail(b) \in Seq(Nat) /\ Len(Tail(b)) = Len(b) - 1 /\ \A i \in 1..Len(Tail(b)) : Tail(b)[i] = b[i + 1]
        BY <2>2, HeadTailProperties
    <2>4. l \in Seq(Nat) /\ Len(l) = n /\ \A i \in 1..n : l[i] = b[i + 1]
        BY <1>2, <1>3, <2>1, <2>3
    <2>5. l[n] = x /\ \A i \in 1..(n - 1) : l[i] = a[i + 1]
        BY <1>2, <1>3, <2>4
    <2> QED BY <1>3, <2>4, <2>5 DEF Extended
<1>4. CASE Len(a) < n
    <2>1. l = b
        BY <1>0, <1>1, <1>2, <1>4 DEF Latest
    <2> QED BY <1>0, <1>1, <1>2, <1>4, <2>1 DEF Extended
<1> QED BY <1>0, <1>3, <1>4

\* A request that is answered has no reading to keep.
LEMMA IdleIsFresh == Idle \in Handler /\ \A c \in Nat : Fresh(Idle, c)
<1>1. Idle \in Handler /\ Idle.pc = "idle"
    BY DEF Idle, Handler
<1> QED BY <1>1 DEF Fresh

\* A request whose caller is known takes its reading on to the limiter.
LEMMA KnownFresh ==
    ASSUME TypeOK, ReqInv, NEW r \in Req, req[r].pc = "auth", NEW p \in Principal, Known(r, p)
    PROVE  req' \in [Req -> Handler] /\ \A q \in Req : Fresh(req'[q], clock)
<1>0. req[r].now \in Nat /\ req[r].now <= clock /\ clock <= req[r].now + MaxDelay
    BY DEF TypeOK, ReqInv, Fresh, Handler
<1>1. PICK n \in Nat : n = req[r].now
    BY <1>0
<1> DEFINE h == [Idle EXCEPT !.pc = "limit", !.now = n, !.who = p]
<1>2. h \in Handler /\ h.pc = "limit" /\ h.now = n /\ h.who = p
    <2>1. PICK i \in Handler : i = Idle
        BY IdleIsFresh
    <2>2. h = [i EXCEPT !.pc = "limit", !.now = n, !.who = p]
        BY <2>1
    <2> QED BY <2>2 DEF Handler
<1>3. req' = [req EXCEPT ![r] = IF req[r].path \in {"events", "query"} THEN h ELSE Idle]
    BY <1>1 DEF Known
<1> HIDE DEF h
<1>4. PICK g \in {h, Idle} : req' = [req EXCEPT ![r] = g]
    BY <1>3
<1>5. g \in Handler /\ Fresh(g, clock)
    <2>1. Fresh(h, clock)
        BY <1>0, <1>1, <1>2 DEF Fresh
    <2>2. clock \in Nat
        BY DEF TypeOK
    <2> QED BY <1>2, <2>1, <2>2, IdleIsFresh
<1> QED BY <1>4, <1>5 DEF TypeOK, ReqInv

\* A request is answered.
LEMMA AnswerFresh ==
    ASSUME TypeOK, ReqInv, NEW r \in Req, Answer(r)
    PROVE  req' \in [Req -> Handler] /\ \A q \in Req : Fresh(req'[q], clock)
BY IdleIsFresh DEF TypeOK, ReqInv, Answer

----------------------------------------------------------------------------
(* The replay cache.                                                       *)

\* A record that is swept was due: the sweeping handler's reading is past it.
LEMMA SweepKeeps ==
    ASSUME TypeOK, CacheInv, NEW now \in Nat, now <= clock, NEW t \in Token
    PROVE  Remembered(t, Kept(now), uses[t], clock)
<1> DEFINE u == uses[t]
<1>1. u \in Seq(Nat) /\ Remembered(t, seen, u, clock) /\ clock \in Nat
    BY DEF TypeOK, CacheInv
<1>2. Kept(now) \subseteq seen /\ seen \subseteq CacheRecord
    BY DEF Kept, TypeOK
<1>3. \A x \in seen : x.exp > now \/ x.exp <= now
    BY <1>2 DEF CacheRecord
<1> HIDE DEF u
<1>4. ASSUME Len(u) > 0
      PROVE  \/ \E x \in Kept(now) : x.token = t /\ x.exp >= u[Len(u)] + TTL - MaxDelay
             \/ clock >= u[Len(u)] + TTL - MaxDelay
    <2>1. CASE \E x \in seen : x.token = t /\ x.exp >= u[Len(u)] + TTL - MaxDelay
        <3>1. PICK x \in seen : x.token = t /\ x.exp >= u[Len(u)] + TTL - MaxDelay
            BY <2>1
        <3>2. CASE x.exp > now
            BY <3>1, <3>2 DEF Kept
        <3>3. CASE x.exp <= now
            <4>1. x.exp \in Nat /\ u[Len(u)] \in Nat
                BY <1>1, <1>2, <1>4 DEF CacheRecord
            <4> QED BY <1>1, <3>1, <3>3, <4>1, NumberAssumption
        <3> QED BY <1>3, <3>2, <3>3
    <2>2. CASE clock >= u[Len(u)] + TTL - MaxDelay
        BY <2>2
    <2> QED BY <1>1, <1>4, <2>1, <2>2 DEF Remembered
<1>5. Remembered(t, Kept(now), u, clock)
    BY <1>1, <1>2, <1>4 DEF Remembered
<1> QED BY <1>5 DEF u

\* A token of which no record is left can be accepted again: its last use is a TTL
\* away, less the age of the reading its record was made with.
LEMMA AcceptKeeps ==
    ASSUME TypeOK, CacheInv, NEW now \in Nat, now <= clock, clock <= now + MaxDelay,
           NEW t \in Token, ~Recorded(t, now)
    PROVE  /\ Remembered(t, Record(t, now), Latest(2, Append(uses[t], clock)), clock)
           /\ Len(Latest(2, Append(uses[t], clock))) > 0
           /\ Latest(2, Append(uses[t], clock)) \in Seq(Nat)
<1> DEFINE u == uses[t]
<1>1. u \in Seq(Nat) /\ clock \in Nat /\ Remembered(t, Kept(now), u, clock)
    BY SweepKeeps DEF TypeOK
<1> HIDE DEF u
<1>2. PICK n \in Nat : n = Len(u) /\ n <= 2
    BY <1>1 DEF Remembered
<1>0. PICK v : v = Latest(2, Append(u, clock))
    OBVIOUS
<1>3. Extended(u, clock, 2, v)
    BY <1>0, <1>1, <1>2, LatestAppended
<1>4. v \in Seq(Nat) /\ v[Len(v)] = clock /\ Len(v) > 0 /\ Len(v) <= 2 /\ (Len(v) = 2 => n > 0 /\ v[2] = clock /\ v[1] = u[n])
    <2>1. CASE n = 2
        <3>1. Len(v) = 2 /\ v[2] = clock /\ \A i \in 1..1 : v[i] = u[i + 1]
            BY <1>2, <1>3, <2>1 DEF Extended
        <3> QED BY <1>2, <1>3, <2>1, <3>1 DEF Extended
    <2>2. CASE n < 2
        <3>1. Len(v) = n + 1 /\ v[n + 1] = clock /\ \A i \in 1..n : v[i] = u[i]
            BY <1>2, <1>3, <2>2 DEF Extended
        <3>2. n = 0 \/ n = 1
            BY <2>2
        <3> QED BY <1>3, <3>1, <3>2 DEF Extended
    <2> QED BY <1>2, <2>1, <2>2
<1>5. Len(u) > 0 => clock >= u[Len(u)] + TTL - MaxDelay
    BY <1>1 DEF Remembered, Recorded
<1>6. Len(v) = 2 => v[2] - v[1] >= TTL - MaxDelay
    <2> SUFFICES ASSUME Len(v) = 2
                 PROVE  v[2] - v[1] >= TTL - MaxDelay
        OBVIOUS
    <2>1. Len(u) > 0 /\ v[1] = u[Len(u)] /\ v[2] = clock
        BY <1>2, <1>4
    <2>2. u[Len(u)] \in Nat
        BY <1>1, <1>2, <2>1
    <2> QED BY <1>1, <1>5, <2>1, <2>2, NumberAssumption
<1>7. \E x \in Record(t, now) : x.token = t /\ x.exp >= clock + TTL - MaxDelay
    <2> DEFINE x == [token |-> t, exp |-> now + TTL]
    <2>1. x \in Record(t, now) /\ x.token = t /\ x.exp = now + TTL
        BY DEF Record
    <2> HIDE DEF x
    <2> QED BY <1>1, <2>1, NumberAssumption
<1>8. Remembered(t, Record(t, now), v, clock)
    BY <1>4, <1>6, <1>7 DEF Remembered
<1> QED BY <1>0, <1>4, <1>8 DEF u

\* The cache and the uses of tokens after one request.
LEMMA AuthenticateInv ==
    ASSUME IInv, NEW r \in Req, Authenticate(r)
    PROVE  IInv'
<1> DEFINE t == req[r].cred.token
<1> DEFINE now == req[r].now
<1>1. /\ req[r].pc = "auth" /\ now \in Nat /\ now <= clock /\ clock <= now + MaxDelay
      /\ req[r].cred \in Credential
    BY DEF Authenticate, IInv, TypeOK, ReqInv, Fresh, Handler
<1>2. req[r].cred.kind = "token" => t \in Token /\ t.by \in Principal
    BY <1>1, TokenAssumption DEF Credential
<1>3. req[r].cred.kind = "pubkey" => req[r].cred.by \in Principal
    BY <1>1 DEF Credential
<1>4. UNCHANGED <<clock, windows, admits>>
    BY DEF Authenticate
<1>5. CASE /\ req[r].cred.kind = "token" /\ ~Recorded(t, now)
           /\ seen' = Record(t, now)
           /\ uses' = [uses EXCEPT ![t] = Latest(2, Append(@, clock))]
           /\ Known(r, t.by)
           /\ UNCHANGED replays
    <2>1. req' \in [Req -> Handler] /\ \A q \in Req : Fresh(req'[q], clock)
        BY <1>1, <1>2, <1>5, KnownFresh DEF IInv
    <2>2. PICK v : v = Latest(2, Append(uses[t], clock))
        OBVIOUS
    <2>3. v \in Seq(Nat) /\ Remembered(t, Record(t, now), v, clock) /\ Len(v) > 0
        BY <1>1, <1>2, <1>5, <2>2, AcceptKeeps DEF IInv
    <2>4. /\ uses' \in [Token -> Seq(Nat)] /\ uses'[t] = v
          /\ \A s \in Token : s # t => uses'[s] = uses[s]
        <3>1. uses' = [uses EXCEPT ![t] = v]
            BY <1>1, <1>2, <1>5, <2>2 DEF IInv, TypeOK
        <3>2. uses \in [Token -> Seq(Nat)] /\ t \in Token
            BY <1>1, <1>2, <1>5 DEF IInv, TypeOK
        <3> HIDE DEF t
        <3> QED BY <2>3, <3>1, <3>2
    <2>5. Record(t, now) \in SUBSET CacheRecord
        BY <1>1, <1>2, <1>5, NumberAssumption DEF Record, Kept, CacheRecord, IInv, TypeOK
    <2>6. seen' \in SUBSET CacheRecord /\ seen' = Record(t, now)
        BY <1>1, <1>5, <2>5 DEF IInv, TypeOK
    <2>7. TypeOK'
        BY <1>4, <1>5, <2>1, <2>4, <2>6 DEF IInv, TypeOK
    <2>8. ReqInv' /\ LimitInv'
        BY <1>4, <2>1 DEF IInv, ReqInv, LimitInv
    <2>9. CacheInv'
        <3>1. ASSUME NEW s \in Token, s # t
              PROVE  Remembered(s, Record(t, now), uses[s], clock)
            <4>1. Remembered(s, Kept(now), uses[s], clock)
                BY <1>1, SweepKeeps DEF IInv
            <4>2. \A x : x \in Record(t, now) /\ x.token = s <=> x \in Kept(now) /\ x.token = s
                BY <3>1 DEF Record
            <4> QED BY <4>1, <4>2 DEF Remembered
        <3>2. \A s \in Token : Remembered(s, seen', uses'[s], clock)
            BY <2>3, <2>4, <2>6, <3>1 DEF IInv, CacheInv
        <3>3. \A s \in replays : Len(uses'[s]) > 0
            BY <2>3, <2>4 DEF IInv, TypeOK, CacheInv
        <3> QED BY <1>4, <1>5, <3>2, <3>3 DEF CacheInv
    <2> QED BY <2>7, <2>8, <2>9 DEF IInv
<1>6. CASE /\ req[r].cred.kind = "token" /\ Recorded(t, now)
           /\ seen' = Kept(now)
           /\ replays' = replays \cup {t}
           /\ Answer(r) /\ UNCHANGED uses
    <2>1. req' \in [Req -> Handler] /\ \A q \in Req : Fresh(req'[q], clock)
        BY <1>6, AnswerFresh DEF IInv
    <2>2. Kept(now) \in SUBSET CacheRecord
        BY <1>1 DEF Kept, IInv, TypeOK
    <2>3. seen' \in SUBSET CacheRecord /\ seen' = Kept(now)
        BY <1>1, <1>6, <2>2 DEF IInv, TypeOK
    <2>4. /\ replays' \in SUBSET Token
          /\ \A s \in replays' : s \in replays \/ s = t
        BY <1>1, <1>2, <1>6 DEF IInv, TypeOK
    <2>5. TypeOK'
        BY <1>4, <1>6, <2>1, <2>3, <2>4 DEF IInv, TypeOK
    <2>6. ReqInv' /\ LimitInv'
        BY <1>4, <2>1 DEF IInv, ReqInv, LimitInv
    <2>7. CacheInv'
        <3>1. \A s \in Token : Remembered(s, Kept(now), uses[s], clock)
            BY <1>1, SweepKeeps DEF IInv
        <3>2. Len(uses[t]) > 0
            <4>1. Remembered(t, Kept(now), uses[t], clock)
                BY <1>2, <1>6, <3>1
            <4> QED BY <1>6, <4>1 DEF Remembered, Recorded
        <3>3. \A s \in Token : Remembered(s, seen', uses[s], clock)
            BY <2>3, <3>1 DEF IInv, CacheInv
        <3>4. \A s \in replays' : Len(uses[s]) > 0
            BY <2>4, <3>2 DEF IInv, CacheInv
        <3> QED BY <1>4, <1>6, <3>3, <3>4 DEF CacheInv
    <2> QED BY <2>5, <2>6, <2>7 DEF IInv
<1>7. CASE UNCHANGED <<seen, replays, uses>> /\ (Answer(r) \/ \E p \in Principal : Known(r, p))
    <2>1. req' \in [Req -> Handler] /\ \A q \in Req : Fresh(req'[q], clock)
        BY <1>1, <1>7, AnswerFresh, KnownFresh DEF IInv
    <2>2. TypeOK' /\ ReqInv'
        BY <1>4, <1>7, <2>1 DEF IInv, TypeOK, ReqInv
    <2>3. CacheInv' /\ LimitInv'
        BY <1>4, <1>7 DEF IInv, CacheInv, LimitInv
    <2> QED BY <2>2, <2>3 DEF IInv
<1> QED BY <1>3, <1>5, <1>6, <1>7 DEF Authenticate

----------------------------------------------------------------------------
(* The rate limiter.                                                       *)

\* A window that begins does so a whole window after the one it replaces.
LEMMA CurrentPaced ==
    ASSUME TypeOK, LimitInv, NEW p \in Principal, NEW now \in Nat, now <= clock, clock <= now + MaxDelay
    PROVE  Current(p, now) \in Frame /\ Paced(Current(p, now), admits[p], clock)
<1> DEFINE new == [start |-> now, count |-> 0]
<1>1. new \in Frame /\ new.start = now /\ new.count = 0
    BY DEF Frame
<1>2. PICK a \in Seq(Nat) : a = admits[p]
    BY DEF TypeOK
<1>3. PICK m \in Nat : m = Len(a)
    OBVIOUS
<1>4. \A i \in 1..m : a[i] \in Nat
    BY <1>3
<1> HIDE DEF new
<1>5. CASE windows[p] = None
    <2>1. Current(p, now) = new /\ m = 0
        BY <1>2, <1>3, <1>5 DEF Current, new, LimitInv
    <2>2. Paced(new, a, clock)
        BY <1>1, <1>3, <2>1, NumberAssumption DEF Paced
    <2> QED BY <1>1, <1>2, <2>1, <2>2
<1>6. CASE windows[p] # None
    <2>1. PICK w \in Frame : w = windows[p]
        BY <1>6 DEF TypeOK
    <2>2. Paced(w, a, clock) /\ w.start \in Nat /\ w.count \in Nat
        BY <1>2, <1>6, <2>1 DEF LimitInv, Frame
    <2>3. CASE Elapsed(w, now) >= Window
        <3>1. Current(p, now) = new
            BY <1>6, <2>1, <2>3 DEF Current, new
        <3>2. now >= w.start + Window
            BY <2>2, <2>3, NumberAssumption DEF Elapsed
        <3>3. m <= 2 * Quota + 1 /\ w.count <= Quota
            BY <1>3, <2>2 DEF Paced
        <3>4. ASSUME NEW i \in 1..m
              PROVE  /\ a[i] <= clock
                     /\ a[i] <= now + MaxDelay
                     /\ i <= m - Quota => a[i] + Window <= now + MaxDelay
            <4>1. PICK x \in Nat, n \in Nat, s \in Nat, c \in Nat : x = a[i] /\ n = w.count /\ s = w.start /\ c = clock
                BY <1>4, <2>2 DEF TypeOK
            <4>2. x <= c /\ (i <= m - n => x <= s + MaxDelay)
                BY <1>3, <2>2, <4>1 DEF Paced
            <4>3. c <= now + MaxDelay /\ now >= s + Window /\ n <= Quota
                BY <3>2, <3>3, <4>1
            <4>4. i <= m - Quota => x + Window <= now + MaxDelay
                BY <4>2, <4>3, NumberAssumption
            <4> QED BY <4>1, <4>2, <4>3, <4>4, NumberAssumption
        <3>5. Paced(new, a, clock)
            BY <1>1, <1>3, <3>3, <3>4, NumberAssumption DEF Paced
        <3> QED BY <1>1, <1>2, <3>1, <3>5
    <2>4. CASE ~(Elapsed(w, now) >= Window)
        BY <1>2, <1>6, <2>1, <2>2, <2>4 DEF Current
    <2> QED BY <2>3, <2>4
<1> QED BY <1>5, <1>6

\* An admission belongs to the window under way.
LEMMA AdmitPaced ==
    ASSUME NEW w \in Frame, NEW a \in Seq(Nat), NEW c \in Nat, Paced(w, a, c), w.count < Quota,
           NEW v \in Frame, v.start = w.start, v.count = w.count + 1,
           NEW l, l = Latest(2 * Quota + 1, Append(a, c))
    PROVE  l \in Seq(Nat) /\ Paced(v, l, c)
<1>1. PICK m \in Nat : m = Len(a)
    OBVIOUS
<1>2. PICK n \in Nat, s \in Nat : n = w.count /\ s = w.start
    BY DEF Frame
<1>3. PICK big \in Nat \ {0} : big = 2 * Quota + 1
    BY NumberAssumption
<1>4. m <= big /\ n <= m /\ n < Quota /\ s <= c
    BY <1>1, <1>2, <1>3 DEF Paced
<1>5. \A i \in 1..m : /\ a[i] \in Nat /\ a[i] <= c
                      /\ i > m - n => a[i] >= s
                      /\ i <= m - n => a[i] <= s + MaxDelay
                      /\ i <= m - n - Quota => a[i] + Window <= s + MaxDelay
    BY <1>1, <1>2 DEF Paced
<1>6. Extended(a, c, big, l)
    BY <1>1, <1>3, <1>4, LatestAppended
<1>7. l \in Seq(Nat)
    BY <1>6 DEF Extended
<1>8. CASE m = big
    <2>1. Len(l) = big /\ l[big] = c /\ \A i \in 1..(big - 1) : l[i] = a[i + 1]
        BY <1>1, <1>6, <1>8 DEF Extended
    <2>2. ASSUME NEW i \in 1..big
          PROVE  /\ l[i] <= c
                 /\ i > big - (n + 1) => l[i] >= s
                 /\ i <= big - (n + 1) => l[i] <= s + MaxDelay
                 /\ i <= big - (n + 1) - Quota => l[i] + Window <= s + MaxDelay
        <3>1. CASE i = big
            BY <1>4, <2>1, <3>1, NumberAssumption
        <3>2. CASE i < big
            <4>1. i + 1 \in 1..m /\ l[i] = a[i + 1]
                BY <1>8, <2>1, <3>2
            <4>2. /\ a[i + 1] <= c
                  /\ i + 1 > m - n => a[i + 1] >= s
                  /\ i + 1 <= m - n => a[i + 1] <= s + MaxDelay
                  /\ i + 1 <= m - n - Quota => a[i + 1] + Window <= s + MaxDelay
                BY <1>5, <4>1
            <4> QED BY <1>8, <4>1, <4>2, NumberAssumption
        <3> QED BY <3>1, <3>2
    <2>3. v.count = n + 1 /\ v.start = s
        BY <1>2
    <2>4. v.count <= Quota /\ v.start <= c /\ v.count <= Len(l) /\ Len(l) <= 2 * Quota + 1
        BY <1>3, <1>4, <1>8, <2>1, <2>3, NumberAssumption
    <2>5. Paced(v, l, c)
        BY <2>1, <2>2, <2>3, <2>4 DEF Paced
    <2> QED BY <1>7, <2>5
<1>9. CASE m < big
    <2>1. Len(l) = m + 1 /\ l[m + 1] = c /\ \A i \in 1..m : l[i] = a[i]
        BY <1>1, <1>6, <1>9 DEF Extended
    <2>2. ASSUME NEW i \in 1..(m + 1)
          PROVE  /\ l[i] <= c
                 /\ i > (m + 1) - (n + 1) => l[i] >= s
                 /\ i <= (m + 1) - (n + 1) => l[i] <= s + MaxDelay
                 /\ i <= (m + 1) - (n + 1) - Quota => l[i] + Window <= s + MaxDelay
        <3>1. CASE i = m + 1
            BY <1>4, <2>1, <3>1, NumberAssumption
        <3>2. CASE i <= m
            <4>1. PICK x \in Nat : x = a[i] /\ x = l[i] /\ i \in 1..m
                BY <1>5, <2>1, <3>2
            <4>2. /\ x <= c
                  /\ i > m - n => x >= s
                  /\ i <= m - n => x <= s + MaxDelay
                  /\ i <= m - n - Quota => x + Window <= s + MaxDelay
                BY <1>5, <4>1
            <4>3. (m + 1) - (n + 1) = m - n
                OBVIOUS
            <4> QED BY <4>1, <4>2, <4>3
        <3> QED BY <3>1, <3>2
    <2>3. v.count = n + 1 /\ v.start = s
        BY <1>2
    <2>4. v.count <= Quota /\ v.start <= c /\ v.count <= Len(l) /\ Len(l) <= 2 * Quota + 1
        BY <1>3, <1>4, <1>9, <2>1, <2>3, NumberAssumption
    <2>5. Paced(v, l, c)
        BY <2>1, <2>2, <2>3, <2>4 DEF Paced
    <2> QED BY <1>7, <2>5
<1> QED BY <1>4, <1>8, <1>9

\* RateLimiter::check.
LEMMA LimitStepInv ==
    ASSUME IInv, NEW r \in Req, Limit(r)
    PROVE  IInv'
<1>1. req' \in [Req -> Handler] /\ \A q \in Req : Fresh(req'[q], clock)
    BY AnswerFresh DEF IInv, Limit
<1>2. UNCHANGED <<clock, seen, replays, uses>>
    BY DEF Limit
<1>3. PICK p \in Principal : p = req[r].who
    BY DEF Limit, IInv, ReqInv, Fresh
<1>4. PICK now \in Nat : now = req[r].now /\ now <= clock /\ clock <= now + MaxDelay
    BY DEF Limit, IInv, TypeOK, ReqInv, Fresh, Handler
<1>5. PICK w \in Frame : w = Current(p, now) /\ Paced(w, admits[p], clock)
    BY <1>4, CurrentPaced DEF IInv
<1>6. PICK a \in Seq(Nat) : a = admits[p]
    BY DEF IInv, TypeOK
<1>7. w.count \in Nat /\ clock \in Nat
    BY DEF Frame, IInv, TypeOK
<1>8. CASE /\ w.count < Quota
           /\ windows' = [windows EXCEPT ![p] = [w EXCEPT !.count = @ + 1]]
           /\ admits' = [admits EXCEPT ![p] = Latest(2 * Quota + 1, Append(@, clock))]
    <2> DEFINE v == [w EXCEPT !.count = w.count + 1]
    <2>1. v \in Frame /\ v.start = w.start /\ v.count = w.count + 1
        BY DEF Frame
    <2>2. windows' = [windows EXCEPT ![p] = v]
        BY <1>8
    <2> HIDE DEF v
    <2>3. PICK l : l = Latest(2 * Quota + 1, Append(a, clock))
        OBVIOUS
    <2>4. l \in Seq(Nat) /\ Paced(v, l, clock)
        BY <1>5, <1>6, <1>7, <1>8, <2>1, <2>3, AdmitPaced
    <2>5. admits' = [admits EXCEPT ![p] = l]
        BY <1>6, <1>8, <2>3 DEF IInv, TypeOK
    <2>6. TypeOK'
        BY <1>1, <1>2, <2>1, <2>2, <2>4, <2>5 DEF IInv, TypeOK
    <2>7. v # None
        BY <2>1, NoneAssumption DEF Frame
    <2>8. v.count > 0
        BY <1>7, <2>1
    <2>9. LimitInv'
        <3>1. /\ windows'[p] = v /\ admits'[p] = l
              /\ \A q \in Principal : q # p => windows'[q] = windows[q] /\ admits'[q] = admits[q]
            BY <2>2, <2>5 DEF IInv, TypeOK
        <3> QED BY <1>2, <2>4, <2>7, <2>8, <3>1 DEF IInv, LimitInv
    <2>10. ReqInv' /\ CacheInv'
        BY <1>1, <1>2 DEF IInv, ReqInv, CacheInv
    <2> QED BY <2>6, <2>9, <2>10 DEF IInv
<1>9. CASE w.count >= Quota /\ windows' = [windows EXCEPT ![p] = w] /\ UNCHANGED admits
    <2>1. TypeOK'
        BY <1>1, <1>2, <1>9 DEF IInv, TypeOK
    <2>2. w # None /\ w.count > 0
        BY <1>7, <1>9, NoneAssumption, NumberAssumption DEF Frame
    <2>3. LimitInv'
        BY <1>2, <1>5, <1>9, <2>2 DEF IInv, TypeOK, LimitInv
    <2>4. ReqInv' /\ CacheInv'
        BY <1>1, <1>2 DEF IInv, ReqInv, CacheInv
    <2> QED BY <2>1, <2>3, <2>4 DEF IInv
<1> QED BY <1>3, <1>4, <1>5, <1>8, <1>9 DEF Limit

----------------------------------------------------------------------------
(* Arrivals and the clock.                                                 *)

\* A handler reads the clock when it starts.
LEMMA ArriveInv ==
    ASSUME IInv, NEW r \in Req, NEW path \in Path, NEW cred \in Credential, Arrive(r, path, cred)
    PROVE  IInv'
<1>0. clock \in Nat
    BY DEF IInv, TypeOK
<1>1. PICK i \in Handler : i = Idle
    BY IdleIsFresh
<1>2. PICK c \in Nat : c = clock
    BY <1>0
<1> DEFINE h == [i EXCEPT !.pc = "auth", !.path = path, !.cred = cred, !.now = c]
<1>3. h \in Handler /\ h.pc = "auth" /\ h.cred = cred /\ h.now = c
    BY DEF Handler
<1>4. req' = [req EXCEPT ![r] = h]
    BY <1>1, <1>2 DEF Arrive
<1> HIDE DEF h
<1>5. UNCHANGED <<clock, seen, replays, windows, uses, admits>>
    BY DEF Arrive
<1>6. Fresh(h, clock)
    BY <1>2, <1>3, NumberAssumption DEF Fresh
<1>7. TypeOK' /\ ReqInv'
    BY <1>3, <1>4, <1>5, <1>6 DEF IInv, TypeOK, ReqInv
<1>8. CacheInv' /\ LimitInv'
    BY <1>5 DEF IInv, CacheInv, LimitInv
<1> QED BY <1>7, <1>8 DEF IInv

\* No handler's reading gets older than MaxDelay, and what is due stays due.
LEMMA TickInv ==
    ASSUME IInv, Tick
    PROVE  IInv'
<1>1. PICK c \in Nat, d \in Nat : c = clock /\ d = c + 1 /\ clock' = d
    BY DEF Tick, IInv, TypeOK
<1>2. UNCHANGED <<req, seen, replays, windows, uses, admits>>
    BY DEF Tick
<1>3. TypeOK'
    BY <1>1, <1>2 DEF IInv, TypeOK
<1>4. ReqInv'
    <2> SUFFICES ASSUME NEW r \in Req
                 PROVE  Fresh(req[r], d)
        BY <1>1, <1>2 DEF ReqInv
    <2>1. Fresh(req[r], c) /\ req[r].now \in Nat
        BY <1>1 DEF IInv, TypeOK, ReqInv, Handler
    <2>2. req[r].pc # "idle" => d - req[r].now <= MaxDelay
        <3>1. req[r].pc # "idle" => clock + 1 - req[r].now <= MaxDelay
            BY DEF Tick
        <3> QED BY <1>1, <2>1, <3>1
    <2> QED BY <1>1, <2>1, <2>2, NumberAssumption DEF Fresh
<1>5. CacheInv'
    <2>1. ASSUME NEW t \in Token
          PROVE  Remembered(t, seen, uses[t], d)
        <3>1. PICK u \in Seq(Nat) : u = uses[t] /\ Remembered(t, seen, u, c)
            BY <1>1 DEF IInv, TypeOK, CacheInv
        <3>2. Len(u) > 0 => u[Len(u)] \in Nat
            BY <3>1
        <3>3. \A n \in Nat : c >= n + TTL - MaxDelay => d >= n + TTL - MaxDelay
            BY <1>1, NumberAssumption
        <3> QED BY <3>1, <3>2, <3>3 DEF Remembered
    <2> QED BY <1>1, <1>2, <2>1 DEF IInv, CacheInv
<1>6. LimitInv'
    <2>1. ASSUME NEW p \in Principal, windows[p] # None
          PROVE  Paced(windows[p], admits[p], d)
        <3>1. PICK a \in Seq(Nat), w \in Frame : a = admits[p] /\ w = windows[p] /\ Paced(w, a, c)
            BY <1>1, <2>1 DEF IInv, TypeOK, LimitInv
        <3>2. \A n \in Nat : n <= c => n <= d
            BY <1>1
        <3>3. w.start <= d
            BY <3>1, <3>2 DEF Paced, Frame
        <3>4. \A i \in 1..Len(a) : a[i] <= d
            <4>1. \A i \in 1..Len(a) : a[i] \in Nat /\ a[i] <= c
                BY <3>1 DEF Paced
            <4> QED BY <3>2, <4>1
        <3> QED BY <3>1, <3>3, <3>4 DEF Paced
    <2> QED BY <1>1, <1>2, <2>1 DEF IInv, LimitInv
<1> QED BY <1>3, <1>4, <1>5, <1>6 DEF IInv

----------------------------------------------------------------------------
(* The theorems.                                                           *)

\* Nothing was accepted, and nobody admitted, when the process starts.
LEMMA InitInv ==
    ASSUME Init
    PROVE  IInv
<1>1. TypeOK
    BY IdleIsFresh DEF Init, TypeOK
<1>2. ReqInv
    BY IdleIsFresh DEF Init, ReqInv
<1>3. CacheInv
    <2>1. \A t \in Token : Remembered(t, {}, <<>>, 0)
        BY DEF Remembered
    <2> QED BY <2>1 DEF Init, CacheInv
<1>4. LimitInv
    BY DEF Init, LimitInv
<1> QED BY <1>1, <1>2, <1>3, <1>4 DEF IInv

\* Every step of a handler and of the clock keeps the invariant.
LEMMA NextInv ==
    ASSUME IInv, [Next]_vars
    PROVE  IInv'
<1>1. CASE \E r \in Req : Authenticate(r) \/ Limit(r)
    BY <1>1, AuthenticateInv, LimitStepInv
<1>2. CASE \E r \in Req, path \in Path, cred \in Credential : Arrive(r, path, cred)
    BY <1>2, ArriveInv
<1>3. CASE Tick
    BY <1>3, TickInv
<1>4. CASE UNCHANGED vars
    BY <1>4 DEF vars, IInv, TypeOK, ReqInv, CacheInv, LimitInv
<1> QED BY <1>1, <1>2, <1>3, <1>4 DEF Next

\* The invariant of the gate: fresh readings, tokens kept for a TTL, and the pace
\* of every caller.
THEOREM Invariance == Spec => []IInv
<1> QED BY InitInv, NextInv, PTL DEF Spec

\* Two acceptances of one token lie a TTL apart, less the age of the
\* clock readings, in whatever order handlers reach the mutex (auth.rs:195-219).
THEOREM ReplaysApart == Spec => []ReplayGap
<1>1. IInv => ReplayGap
    BY DEF IInv, CacheInv, Remembered, ReplayGap
<1> QED BY <1>1, Invariance, PTL

\* A replay is only ever a token that was accepted (auth.rs:310-312).
THEOREM RefusedNotBurnt == Spec => []RefusedIsNotBurnt
<1>1. IInv => RefusedIsNotBurnt
    <2> SUFFICES ASSUME IInv, NEW t \in replays
                 PROVE  uses[t] # <<>>
        BY DEF RefusedIsNotBurnt
    <2>1. Len(uses[t]) > 0
        BY DEF IInv, CacheInv
    <2>2. Len(<<>>) = 0
        OBVIOUS
    <2> QED BY <2>1, <2>2
<1> QED BY <1>1, Invariance, PTL

\* At the boundary of two windows at most twice the quota passes, also when handlers
\* reach the limiter with readings that are out of order (rate_limit.rs:28-44).
THEOREM TwiceTheQuota == Spec => []AtMostTwiceTheQuota
<1>1. IInv => AtMostTwiceTheQuota
    <2> SUFFICES ASSUME IInv, NEW p \in Principal, Len(admits[p]) = 2 * Quota + 1
                 PROVE  admits[p][2 * Quota + 1] - admits[p][1] >= Window - MaxDelay
        BY DEF AtMostTwiceTheQuota
    <2>1. PICK a \in Seq(Nat), m \in Nat \ {0} : a = admits[p] /\ m = 2 * Quota + 1 /\ Len(a) = m
        BY NumberAssumption DEF IInv, TypeOK
    <2>2. windows[p] # None
        BY <2>1 DEF IInv, LimitInv
    <2>3. PICK n \in Nat, s \in Nat : /\ n = windows[p].count /\ s = windows[p].start
        BY <2>2 DEF IInv, TypeOK, Frame
    <2>4. n > 0 /\ n <= Quota /\ Paced(windows[p], a, clock)
        BY <2>1, <2>2, <2>3 DEF IInv, LimitInv, Paced
    <2>5. PICK x \in Nat, y \in Nat : x = a[1] /\ y = a[m]
        BY <2>1
    <2>6. y >= s
        <3>1. m > m - n /\ m \in 1..m
            BY <2>4
        <3> QED BY <2>1, <2>3, <2>4, <2>5, <3>1 DEF Paced
    <2>7. x + Window <= s + MaxDelay
        <3>1. 1 <= m - n - Quota /\ 1 \in 1..m
            BY <2>1, <2>4, NumberAssumption
        <3> QED BY <2>1, <2>3, <2>4, <2>5, <3>1 DEF Paced
    <2>8. y - x >= Window - MaxDelay
        BY <2>6, <2>7, NumberAssumption
    <2> QED BY <2>1, <2>5, <2>8
<1> QED BY <1>1, Invariance, PTL
=============================================================================
