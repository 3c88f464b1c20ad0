------------------------------- MODULE Shelf --------------------------------
(***************************************************************************)
(* What the media store promises its clients: a blob that an upload was    *)
(* told is stored can be downloaded from then on, whole, and a blob that   *)
(* is not there is not there in part.  How many uploads of it ran, what    *)
(* is on disk, and where the process died do not show.  Media shows that   *)
(* src/src/media implements this.                                          *)
(***************************************************************************)
EXTENDS Integers

CONSTANTS Upload, Get, Blob, Kind, Size, Cap, Token, RangeHeader, RequireMembership, None

VARIABLES held,     \* the blobs that can be downloaded
          stored,   \* stored[u]: the blob upload u was told is stored
          answer    \* answer[g]: what download g asked for, and its reply

vars == <<held, stored, answer>>

Init == /\ held = {}
        /\ stored = [u \in Upload |-> None]
        /\ answer = [g \in Get |-> None]

\* The token names the blob, and where membership is required a member signed it.
Warrants(t, b) == t.verb = "upload" /\ t.x = b /\ (RequireMembership => t.member)

\* The blob is what its bytes say it is, and within the cap of that type.
Limit(b) == Cap[IF Kind[b] \in DOMAIN Cap THEN Kind[b] ELSE "file"]
Acceptable(b) == Kind[b] # "spoof" /\ Size[b] <= Limit(b)

Store(u) ==
    /\ stored[u] = None
    /\ \E b \in Blob :
        /\ Acceptable(b) /\ \E t \in Token : Warrants(t, b)
        /\ held' = held \cup {b}
        /\ stored' = [stored EXCEPT ![u] = b]
    /\ UNCHANGED answer

\* The bytes of blob b that a range header names; None is no header.
Named(r, b) ==
    {i \in 0..(Size[b] - 1) :
        r # None => IF r.start = None THEN i >= Size[b] - r.end
                    ELSE i >= r.start /\ (r.end # None => i <= r.end)}

Whole(b) == [status |-> 200, bytes |-> 0..(Size[b] - 1)]
Part(r, b) == [status |-> IF Named(r, b) = {} THEN 416 ELSE 206, bytes |-> Named(r, b)]
NotModified == [status |-> 304, bytes |-> {}]
NotFound == [status |-> 404, bytes |-> {}]

Replies(r, b) == IF b \notin held THEN {NotFound}
                 ELSE {NotModified, IF r = None THEN Whole(b) ELSE Part(r, b)}

Serve(g) ==
    /\ answer[g] = None
    /\ \E b \in Blob, r \in RangeHeader \cup {None} : \E reply \in Replies(r, b) :
        answer' = [answer EXCEPT ![g] = [blob |-> b, range |-> r, reply |-> reply]]
    /\ UNCHANGED <<held, stored>>

Next == (\E u \in Upload : Store(u)) \/ (\E g \in Get : Serve(g))

Spec == Init /\ [][Next]_vars
=============================================================================
