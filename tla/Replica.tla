------------------------------ MODULE Replica ------------------------------
(***************************************************************************)
(* What a bridge promises of the events it is sent: everything it serves   *)
(* is a function of the set of events it has had, whatever order they came *)
(* in, how often, and by which door ("raw events converge", decision D1 of *)
(* docs/design/m1a.md).  Convergence shows that the history store          *)
(* implements this.                                                        *)
(*                                                                         *)
(* The one thing a bridge remembers of the order is `struck', the events   *)
(* that are soft-deleted: a deletion strikes the targets the bridge holds  *)
(* when it comes, and no later arrival.  Two bridges that have had the     *)
(* same events and struck the same ones show the same view.                *)
(***************************************************************************)
EXTENDS Naturals, Sequences, FiniteSets

CONSTANTS Id, Slot, Doors, DepthCap

VARIABLES msg,      \* the events of the network; never changes
          got,      \* the ids of the events the bridge has had
          struck,   \* those of them that are soft-deleted
          view      \* what the bridge shows

vars == <<msg, got, struck, view>>

None == 0

----------------------------------------------------------------------------
(* The place of an event in its thread, from the markers alone.            *)

Replies(S) == {i \in S : msg[i].reply # None}

\* A set that holds, with an event, the event it replies to.
Upward(T) == \A k \in T : msg[k].reply # None => msg[k].reply \in T

\* The event itself and every event above it.
Path(i) == {j \in Id : \A T \in SUBSET Id : i \in T /\ Upward(T) => j \in T}

Tops(i) == {j \in Path(i) : msg[j].reply = None}
Root(i) == CHOOSE r \in Tops(i) : TRUE
Depth(i) == Cardinality(Path(i) \ {i})

\* What its markers say of a reply agrees with its place: it is in its parent's
\* channel, no deeper than the cap, and names the root of its thread.
Agrees(i) ==
    msg[i].reply # None =>
        /\ msg[msg[i].reply].chan # None
        /\ msg[msg[i].reply].chan = msg[i].chan
        /\ Depth(i) <= DepthCap
        /\ (IF msg[i].root # None THEN msg[i].root ELSE msg[i].reply) = Root(i)

\* The event and everything above it agree with their places; what the relay
\* alone may author is held by nobody else.
Sound(i) == \A j \in Path(i) : msg[j].kind # "relay" /\ Agrees(j)

----------------------------------------------------------------------------
(* What a bridge that has had the events of G serves.                      *)

Replaceable(i) == msg[i].kind = "replaceable"

\* Version a of an address is preferred to version b.
Newer(a, b) == msg[a].at > msg[b].at \/ (msg[a].at = msg[b].at /\ a < b)

Outdated(G, i) == \E j \in G : Replaceable(j) /\ msg[j].slot = msg[i].slot /\ Newer(j, i)

Held(G) == {i \in G : IF Replaceable(i) THEN ~Outdated(G, i)
                      ELSE Sound(i) /\ Path(i) \subseteq G}

\* Replies to something the bridge does not hold wait for it; those to
\* something it holds are refused when they or their ancestry do not agree.
Waits(G) == {i \in Replies(G) : msg[i].reply \notin Held(G)}
Refused(G) == {i \in G : msg[i].kind = "relay"}
              \cup {i \in Replies(G) : msg[i].reply \in Held(G) /\ i \notin Held(G)}

Kids(S, m) == {c \in Replies(S) : msg[c].reply = m}
Thread(S, r) == {c \in Replies(S) : Root(c) = r}

Versions(S, s) == {i \in S : Replaceable(i) /\ msg[i].slot = s}

\* The newest created_at of the events of S, None if there is none.
Latest(S) == IF S = {} THEN None
             ELSE CHOOSE t \in {msg[c].at : c \in S} : \A c \in S : msg[c].at <= t

\* The view of a bridge that holds H and has struck K: events, thread_metadata
\* with its counters, and replaceable_addrs.  A reply that comes by the local
\* door stamps its parent with the wall clock, so reply times are part of the
\* view only where the mesh is the only door.
Holding(H, K) ==
    [event       |-> [i \in Id |-> IF i \notin H THEN "absent"
                                   ELSE IF i \in K THEN "deleted" ELSE "live"],
     rows        |-> {i \in Id : \E c \in Replies(H) : i \in {c, msg[c].reply, Root(c)}},
     parent      |-> [i \in Id |-> IF i \in Replies(H) THEN msg[i].reply ELSE None],
     root        |-> [i \in Id |-> IF i \in Replies(H) THEN Root(i) ELSE None],
     depth       |-> [i \in Id |-> IF i \in Replies(H) THEN Depth(i) ELSE 0],
     replies     |-> [m \in Id |-> Cardinality(Kids(H \ K, m))],
     descendants |-> [r \in Id |-> Cardinality(Thread(H \ K, r))],
     last        |-> [m \in Id |-> IF "local" \in Doors THEN None ELSE Latest(Kids(H, m))],
     addr        |-> [s \in Slot |-> IF Versions(H, s) = {} THEN None
                                     ELSE CHOOSE i \in Versions(H, s) : TRUE]]

View(G, K) == [holding |-> Holding(Held(G), K), waiting |-> Waits(G), refused |-> Refused(G)]

----------------------------------------------------------------------------

Init == /\ got = {}
        /\ struck = {}
        /\ view = View({}, {})

\* The events a deletion strikes: those of its targets that the bridge holds,
\* itself included.
Strikes(e) == IF msg[e].kind = "deletion"
              THEN {t \in Held(got) \cup {e} : \E k \in 1..Len(msg[e].targets) : msg[e].targets[k] = t}
              ELSE {}

\* An event comes; that it may come again changes nothing.  A version that a
\* newer one replaces is gone, struck or not.
Deliver(e) ==
    /\ e \notin got
    /\ got' = got \cup {e}
    /\ struck' = (struck \cup Strikes(e)) \cap Held(got')
    /\ view' = View(got', struck')
    /\ UNCHANGED msg

\* Replies that have waited too long are forgotten as if they had never come.
Forget ==
    /\ \E T \in SUBSET Waits(got) : T # {} /\ got' = got \ T
    /\ view' = View(got', struck)
    /\ UNCHANGED <<msg, struck>>

Next == (\E e \in Id : Deliver(e)) \/ Forget

Spec == Init /\ [][Next]_vars
============================================================================
