-------------------------------- MODULE Auth --------------------------------
(***************************************************************************)
(* The gate in front of the HTTP routes: the NIP-98 token of a request     *)
(* (src/src/auth.rs), the cache of tokens already used, and the fixed-     *)
(* window rate limiter (src/src/rate_limit.rs).                            *)
(*                                                                         *)
(* A handler reads the clock once, when it starts, and passes that reading *)
(* to the cache and to the limiter, each behind a mutex of its own: two    *)
(* requests may reach a mutex in the other order than they read the clock. *)
(* MaxDelay bounds how old a reading can be when it is used.               *)
(***************************************************************************)
EXTENDS Integers, Sequences, FiniteSets

CONSTANTS Req,        \* requests under way; one that is answered stands for a new one
          Principal,  \* callers
          Token,      \* NIP-98 events: [by, at, path, payload]
          Path,       \* the routes that are called
          TTL,        \* nip98_ttl_secs
          Window,     \* WINDOW_SECS
          Quota,      \* rate_limit_per_min
          DevAuth,    \* ~require_auth_token: X-Pubkey is honoured
          MaxDelay,   \* age of the clock reading a handler uses
          MaxClock,   \* bound: the clock of a run
          None

ASSUME NumberAssumption ==
    /\ TTL \in Nat \ {0} /\ Window \in Nat \ {0} /\ Quota \in Nat \ {0}
    /\ MaxDelay \in Nat /\ MaxClock \in Nat /\ DevAuth \in BOOLEAN
ASSUME TokenAssumption ==
    \A t \in Token : /\ t.by \in Principal /\ t.at \in Nat
                     /\ t.path \in {"events", "query", "count", "claim"}
                     /\ t.payload \in BOOLEAN
ASSUME PathAssumption == Path \subseteq {"events", "query", "count", "claim", "forwarded"}
ASSUME NoneAssumption == None \notin [start : Nat, count : Nat]

\* "forwarded" is a claim that another bridge passes on to this one, the authority,
\* with the token its caller had signed for that bridge's claim route.  A process
\* has one replay cache: routes and forwarded claims record their tokens in it.
Write == {"events", "claim", "forwarded"}

VARIABLES clock,    \* the seconds of the system clock
          req,      \* req[r]: the handler of r
          seen,     \* the records of the replay cache: a token, the second it expires
          windows,  \* windows[p]: None, or the start and the count of p's window
          replays,  \* the tokens the cache has called a replay
          uses,     \* uses[t]: the latest two seconds t was accepted in
          admits    \* admits[p]: the seconds p's latest requests were admitted in

vars == <<clock, req, seen, replays, windows, uses, admits>>

\* The last n of a record of times that is longer by one at the most.
Latest(n, times) == IF Len(times) > n THEN Tail(times) ELSE times

Idle == [pc |-> "idle", path |-> None, cred |-> None, now |-> 0, who |-> None]

Init == /\ clock = 0
        /\ req = [r \in Req |-> Idle]
        /\ seen = {}
        /\ replays = {}
        /\ windows = [p \in Principal |-> None]
        /\ uses = [t \in Token |-> <<>>]
        /\ admits = [p \in Principal |-> <<>>]

----------------------------------------------------------------------------
(* The replay cache.                                                       *)

\* check_and_record: expired records go, a record that is left is a replay, and
\* the token is recorded for one TTL.
Kept(now) == {x \in seen : x.exp > now}
Recorded(t, now) == \E x \in Kept(now) : x.token = t
Record_faulty(t, now) == Kept(now) \cup {[token |-> t, exp |-> t.at]}
Record(t, now) == Kept(now) \cup {[token |-> t, exp |-> now + TTL]}

Distance(a, b) == IF a < b THEN b - a ELSE a - b

\* verify_nip98 up to the cache: within TTL of the clock on either side, signed
\* for this route, and, for a write, for this body.
Fits(t, path, now) ==
    /\ Distance(t.at, now) <= TTL
    /\ t.path = IF path = "forwarded" THEN "claim" ELSE path
    /\ path \in Write => t.payload

Answer(r) == req' = [req EXCEPT ![r] = Idle]

\* The caller is known: post_events and post_query go on to the limiter, the other
\* routes have none.
Known(r, p) ==
    req' = [req EXCEPT ![r] = IF req[r].path \in {"events", "query"}
                              THEN [Idle EXCEPT !.pc = "limit", !.now = req[r].now, !.who = p]
                              ELSE Idle]

\* authenticate: a token goes first, and X-Pubkey counts only where tokens are not
\* required; and verify_portable_nip98_claim, which takes nothing but a token.
Authenticate_faulty(r) ==
    /\ req[r].pc = "auth"
    /\ LET t == req[r].cred.token
           now == req[r].now
       IN CASE req[r].cred.kind = "token" /\ Recorded(t, now) ->
                 /\ seen' = Kept(now)
                 /\ replays' = replays \cup {t}
                 /\ Answer(r) /\ UNCHANGED uses
            [] req[r].cred.kind = "token" /\ ~Recorded(t, now) ->
                 /\ seen' = Record(t, now)
                 /\ IF Fits(t, req[r].path, now)
                    THEN /\ uses' = [uses EXCEPT ![t] = Latest(2, Append(@, clock))]
                         /\ Known(r, t.by)
                    ELSE Answer(r) /\ UNCHANGED uses
                 /\ UNCHANGED replays
            [] req[r].cred.kind = "pubkey" ->
                 /\ Known(r, req[r].cred.by)
                 /\ UNCHANGED <<seen, replays, uses>>
            [] OTHER -> Answer(r) /\ UNCHANGED <<seen, replays, uses>>
    /\ UNCHANGED <<clock, windows, admits>>

Authenticate(r) ==
    /\ req[r].pc = "auth"
    /\ LET t == req[r].cred.token
           now == req[r].now
       IN \/ /\ req[r].cred.kind = "token" /\ Fits(t, req[r].path, now)
             /\ ~Recorded(t, now)
             /\ seen' = Record(t, now)
             /\ uses' = [uses EXCEPT ![t] = Latest(2, Append(@, clock))]
             /\ Known(r, t.by)
             /\ UNCHANGED replays
          \/ /\ req[r].cred.kind = "token" /\ Fits(t, req[r].path, now)
             /\ Recorded(t, now)
             /\ seen' = Kept(now)
             /\ replays' = replays \cup {t}
             /\ Answer(r) /\ UNCHANGED uses
          \/ /\ req[r].cred.kind = "pubkey" /\ DevAuth /\ req[r].path # "forwarded"
             /\ Known(r, req[r].cred.by)
             /\ UNCHANGED <<seen, replays, uses>>
          \/ /\ \/ req[r].cred.kind = "token" /\ ~Fits(t, req[r].path, now)
                \/ req[r].cred.kind = "pubkey" /\ (~DevAuth \/ req[r].path = "forwarded")
             /\ Answer(r) /\ UNCHANGED <<seen, replays, uses>>
    /\ UNCHANGED <<clock, windows, admits>>

----------------------------------------------------------------------------
(* The rate limiter.                                                       *)

\* saturating_sub: a reading older than the window's start counts as its start.
Elapsed(w, now) == IF now < w.start THEN 0 ELSE now - w.start

\* The window a request falls in: the first one, one that has run out is
\* replaced, else the one under way.
Current_faulty(p, now) ==
    IF windows[p] = None THEN [start |-> now, count |-> 0]
    ELSE IF now # windows[p].start THEN [start |-> now, count |-> 0]
    ELSE windows[p]

Current(p, now) ==
    IF windows[p] = None THEN [start |-> now, count |-> 0]
    ELSE IF Elapsed(windows[p], now) >= Window THEN [start |-> now, count |-> 0]
    ELSE windows[p]

\* RateLimiter::check.
Limit(r) ==
    /\ req[r].pc = "limit"
    /\ LET p == req[r].who
           now == req[r].now
           w == Current(p, now)
       IN \/ /\ w.count < Quota
             /\ windows' = [windows EXCEPT ![p] = [w EXCEPT !.count = @ + 1]]
             /\ admits' = [admits EXCEPT ![p] = Latest(2 * Quota + 1, Append(@, clock))]
          \/ /\ w.count >= Quota
             /\ windows' = [windows EXCEPT ![p] = w]
             /\ UNCHANGED admits
    /\ Answer(r)
    /\ UNCHANGED <<clock, seen, replays, uses>>

----------------------------------------------------------------------------

Credential == [kind : {"token"}, token : Token, by : {None}]
              \cup [kind : {"pubkey"}, token : {None}, by : Principal]

\* A request arrives and its handler reads the clock.
Arrive(r, path, cred) ==
    /\ req[r].pc = "idle"
    /\ req' = [req EXCEPT ![r] = [Idle EXCEPT !.pc = "auth", !.path = path,
                                              !.cred = cred, !.now = clock]]
    /\ UNCHANGED <<clock, seen, replays, windows, uses, admits>>

Tick ==
    /\ clock < MaxClock
    /\ \A r \in Req : req[r].pc # "idle" => clock + 1 - req[r].now <= MaxDelay
    /\ clock' = clock + 1
    /\ UNCHANGED <<req, seen, replays, windows, uses, admits>>

Next ==
    \/ \E r \in Req : Authenticate(r) \/ Limit(r)
    \/ \E r \in Req, path \in Path, cred \in Credential :
          Arrive(r, path, cred)
    \/ Tick

Spec == Init /\ [][Next]_vars

----------------------------------------------------------------------------
(* Properties.                                                             *)

\* Two acceptances of one token lie a TTL apart, less the age of the
\* clock readings; a request that reads the clock early and comes late to the
\* mutex, after a younger one has swept the records, does not come closer
\* (auth.rs:91-99, 195-219).
ReplayGap ==
    \A t \in Token :
        Len(uses[t]) = 2 => uses[t][2] - uses[t][1] >= TTL - MaxDelay

\* Only a token that was accepted is ever answered with a replay: one that
\* was first presented for another route, or too early, or with another body, is
\* not burnt by that (auth.rs:195-219, 310-312).
RefusedIsNotBurnt == \A t \in replays : uses[t] # <<>>

\* Of any 2 * Quota + 1 requests of one caller that are admitted in a row, the last
\* comes a whole window after the first, less the age of the clock readings: at most
\* twice the quota passes at the boundary of two windows (rate_limit.rs:28-44).
AtMostTwiceTheQuota ==
    \A p \in Principal :
        Len(admits[p]) = 2 * Quota + 1
          => admits[p][2 * Quota + 1] - admits[p][1] >= Window - MaxDelay
============================================================================
