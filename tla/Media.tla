------------------------------- MODULE Media --------------------------------
(***************************************************************************)
(* Blossom media (src/src/media): uploads stream into a staging file of    *)
(* their own, are hashed and sniffed on the way, and are installed under   *)
(* the hash of their bytes; a row in the sidecar database is what makes a  *)
(* blob visible.  Downloads look up the row and the file, then open it.    *)
(*                                                                         *)
(* A blob stands for its bytes and their hash.  An upload, or a request    *)
(* for a blob, runs once; a step is what happens between two awaits, or    *)
(* under the store's mutex between two operations a crash can separate.    *)
(* A token is an authorization event: the verb and the hash it names, and  *)
(* whether it is young, too old for all but video, or expired.             *)
(***************************************************************************)
EXTENDS Integers, FiniteSets, FiniteSetsExt

CONSTANTS Upload, Get,   \* requests
          Blob,          \* contents
          Kind,          \* Kind[b]: gif, image, video, file, or spoof
          Size,          \* Size[b]: bytes
          Cap,           \* Cap[kind]: max_*_bytes of the configuration
          Token,         \* [id, verb, x, age, member]
          Sniff,         \* SNIFF_BYTES
          MaxChunk,      \* bound: bytes in one chunk of a body
          RangeHeader,   \* Range headers a client sends
          RequireAuth, RequireMembership,
          MaxCrash,      \* bound: crashes
          None

ASSUME SizeAssumption == Size \in [Blob -> Nat] /\ Sniff \in Nat \ {0} /\ MaxChunk \in Nat \ {0}
ASSUME CapAssumption == /\ Cap \in [{"gif", "image", "video", "file"} -> Nat]
                        /\ \A k \in DOMAIN Cap : Sniff - 1 <= Cap[k] /\ Cap[k] <= Cap["video"]
\* An id is the hash of its event.
ASSUME TokenAssumption == \A t, u \in Token : t.id = u.id => t = u
\* What parse_range makes of a header it understands.
ASSUME RangeAssumption == \A r \in RangeHeader : /\ r.start \in Nat \cup {None} /\ r.end \in Nat \cup {None}
                                                 /\ r.start # None \/ r.end # None
ASSUME NoneAssumption == /\ None \notin Nat \cup Upload \cup Token \cup Blob \cup RangeHeader
                         /\ None \notin [status : Nat, bytes : SUBSET Nat] \cup [size : Nat, by : Upload]
ASSUME FlagAssumption == RequireAuth \in BOOLEAN /\ RequireMembership \in BOOLEAN

VARIABLES up,        \* uploads
          get,       \* downloads
          staging,   \* staging[u]: bytes in its staging file, None when there is none
          file,      \* file[b]: bytes in the blob file, None when there is none
          row,       \* row[b]: the sidecar row
          mutex,     \* the install that holds the database connection
          used,      \* ids in the replay cache
          spent,     \* how often each token was accepted since its record began
          crashes

vars == <<up, get, staging, file, row, mutex, used, spent, crashes>>
disk == <<staging, file, row, mutex>>

Idle == [pc |-> "new", tok |-> None, body |-> None, got |-> 0, size |-> 0]
NoGet == [pc |-> "new", blob |-> None, range |-> None, reply |-> None]

Init == /\ up = [u \in Upload |-> Idle]
        /\ get = [g \in Get |-> NoGet]
        /\ staging = [u \in Upload |-> None]
        /\ file = [b \in Blob |-> None]
        /\ row = [b \in Blob |-> None]
        /\ mutex = None /\ used = {} /\ crashes = 0
        /\ spent = [t \in Token |-> 0]

----------------------------------------------------------------------------
(* Authorization events.                                                   *)

\* verify_common: the verb, the expiry and the age; the window of a video
\* upload is the longer one.
VerifyCommon(t, verb, video) ==
    t.verb = verb /\ (t.age = "young" \/ (t.age = "old" /\ video))

\* check_and_record of the replay cache the doors share.
Fresh_faulty(t) == TRUE

Fresh(t) == t.id \notin used
Record(t) == /\ used' = used \cup {t.id}
             /\ spent' = [spent EXCEPT ![t] = @ + 1]

\* A record lives for one window from the start of the request that made it; a
\* later request sweeps it.  A token dated ahead, or held by an upload that is
\* still streaming, is then accepted again.
Lapse(t) ==
    /\ t.id \in used
    /\ used' = used \ {t.id}
    /\ spent' = [spent EXCEPT ![t] = 0]
    /\ UNCHANGED <<up, get, staging, file, row, mutex, crashes>>

----------------------------------------------------------------------------
(* run_upload.                                                             *)

\* Token, membership, declared length and metadata headers are checked before
\* a byte is read; the file is created empty.
Begin(u, t, b) ==
    /\ up[u].pc = "new"
    /\ VerifyCommon(t, "upload", TRUE) /\ (RequireMembership => t.member)
    /\ up' = [up EXCEPT ![u] = [Idle EXCEPT !.pc = "stream", !.tok = t, !.body = b]]
    /\ staging' = [staging EXCEPT ![u] = 0]
    /\ UNCHANGED <<get, file, row, mutex, used, spent, crashes>>

\* An error after the file was created removes it.
Refuse_faulty(u) ==
    /\ up' = [up EXCEPT ![u] = [Idle EXCEPT !.pc = "refused"]]
    /\ UNCHANGED staging

Refuse(u) ==
    /\ up' = [up EXCEPT ![u] = [Idle EXCEPT !.pc = "refused"]]
    /\ staging' = [staging EXCEPT ![u] = None]

CapForSniff(b) == IF Kind[b] \in DOMAIN Cap THEN Cap[Kind[b]] ELSE Cap["file"]

\* The cap in force once n bytes are read: the type is known from the first
\* SNIFF_BYTES on, and the total is compared after that.
EffectiveCap(u, n) ==
    IF n >= Sniff THEN CapForSniff(up[u].body) ELSE Cap["video"]

Chunk(u) ==
    LET b == up[u].body IN
    /\ up[u].pc = "stream"
    /\ \E n \in 1..MaxChunk :
        LET total == up[u].got + n IN
        /\ total <= Size[b]
        /\ IF total > EffectiveCap(u, total) THEN Refuse(u)
           ELSE /\ up' = [up EXCEPT ![u].got = total]
                /\ staging' = [staging EXCEPT ![u] = total]
    /\ UNCHANGED <<get, file, row, mutex, used, spent, crashes>>

\* The body breaks off, or a write fails.
StreamFails(u) ==
    /\ up[u].pc = "stream" /\ Refuse(u)
    /\ UNCHANGED <<get, file, row, mutex, used, spent, crashes>>

\* The client goes away: the future is dropped and nobody removes the file.
Dropped(u) ==
    /\ up[u].pc = "stream"
    /\ up' = [up EXCEPT ![u] = [Idle EXCEPT !.pc = "gone"]]
    /\ UNCHANGED <<get, disk, used, spent, crashes>>

\* The body is complete: classify, bind the token to the hash, and spend it.
EndBody(u) ==
    LET b == up[u].body  t == up[u].tok IN
    /\ up[u].pc = "stream" /\ up[u].got = Size[b]
    /\ IF Kind[b] # "spoof" /\ t.x = b /\ VerifyCommon(t, "upload", Kind[b] = "video") /\ Fresh(t)
       THEN /\ up' = [up EXCEPT ![u].pc = "install"]
            /\ Record(t)
            /\ UNCHANGED staging
       ELSE Refuse(u) /\ UNCHANGED <<used, spent>>
    /\ UNCHANGED <<get, file, row, mutex, crashes>>

----------------------------------------------------------------------------
(* MediaStore::install, on a blocking thread that runs to its end.         *)

\* A row that is there wins; else the size is read off the staging file.  When
\* either read fails the staging file is left where it is.
InstallCheck(u) ==
    /\ up[u].pc = "install" /\ mutex = None
    /\ \/ /\ row[up[u].body] # None
          /\ staging' = [staging EXCEPT ![u] = None]
          /\ up' = [up EXCEPT ![u].pc = "done"]
          /\ UNCHANGED mutex
       \/ /\ row[up[u].body] = None
          /\ mutex' = u
          /\ up' = [up EXCEPT ![u].pc = "persist", ![u].size = staging[u]]
          /\ UNCHANGED staging
       \/ /\ up' = [up EXCEPT ![u] = [Idle EXCEPT !.pc = "failed"]]
          /\ UNCHANGED <<mutex, staging>>
    /\ UNCHANGED <<get, file, row, used, spent, crashes>>

\* persist_blob: an orphan of an earlier attempt is reused, else one rename.
Persist_faulty(u) ==
    LET b == up[u].body IN
    /\ up[u].pc = "persist"
    /\ up' = [up EXCEPT ![u].pc = "insert"]
    /\ row' = [row EXCEPT ![b] = [size |-> up[u].size, by |-> u]]
    /\ UNCHANGED <<staging, file, mutex, get, used, spent, crashes>>

Persist(u) ==
    LET b == up[u].body IN
    /\ up[u].pc = "persist"
    /\ \/ /\ up' = [up EXCEPT ![u].pc = "insert"]
          /\ file' = [file EXCEPT ![b] = IF @ = None THEN staging[u] ELSE @]
          /\ staging' = [staging EXCEPT ![u] = None]
          /\ UNCHANGED mutex
       \/ Refuse(u) /\ mutex' = None /\ UNCHANGED file
    /\ UNCHANGED <<row, get, used, spent, crashes>>

\* The row goes in last; a database error leaves an orphan nobody can see.
Insert(u) ==
    LET b == up[u].body IN
    /\ up[u].pc = "insert"
    /\ \/ /\ row' = [row EXCEPT ![b] = IF @ = None THEN [size |-> up[u].size, by |-> u] ELSE @]
          /\ up' = [up EXCEPT ![u].pc = "done"]
       \/ up' = [up EXCEPT ![u] = [Idle EXCEPT !.pc = "refused"]] /\ UNCHANGED row
    /\ mutex' = None
    /\ UNCHANGED <<staging, file, get, used, spent, crashes>>

----------------------------------------------------------------------------
(* MediaServe::serve.                                                      *)

\* A range header: the forms "start-end", "start-" and "-suffix", or none.
Full(total) == [status |-> 200, bytes |-> 0..(total - 1)]
Partial(start, end) == [status |-> 206, bytes |-> start..end]
NotSatisfiable == [status |-> 416, bytes |-> {}]

ParseRange_faulty(r, total) ==
    CASE r = None -> Full(total)
      [] r # None /\ total = 0 -> NotSatisfiable
      [] r # None /\ total # 0 ->
           IF r.start = None
           THEN IF r.end = 0 THEN NotSatisfiable ELSE Partial(Max({0, total - r.end}), total - 1)
           ELSE IF r.start > total \/ (r.end # None /\ r.start > r.end) THEN NotSatisfiable
           ELSE Partial(r.start, IF r.end = None THEN total - 1 ELSE Min({r.end, total - 1}))

ParseRange(r, total) ==
    CASE r = None -> Full(total)
      [] r # None /\ total = 0 -> NotSatisfiable
      [] r # None /\ total # 0 ->
           IF r.start = None
           THEN IF r.end = 0 THEN NotSatisfiable ELSE Partial(Max({0, total - r.end}), total - 1)
           ELSE IF r.start >= total \/ (r.end # None /\ r.start > r.end) THEN NotSatisfiable
           ELSE Partial(r.start, IF r.end = None THEN total - 1 ELSE Min({r.end, total - 1}))

\* verify_get: the token names the blob, or the server and no blob.
ScopedTo(t, b) == t.x \in {b, None}

\* Authorization, replay and membership come before the lookup; a refusal at
\* the membership gate has spent the token.
Request(g, b, t, r) ==
    /\ get[g].pc = "new"
    /\ IF RequireAuth \/ RequireMembership
       THEN /\ VerifyCommon(t, "get", FALSE) /\ ScopedTo(t, b) /\ Fresh(t)
            /\ Record(t)
       ELSE UNCHANGED <<used, spent>>
    /\ get' = [get EXCEPT ![g] = [NoGet EXCEPT !.pc = IF RequireMembership /\ ~t.member THEN "end" ELSE "lookup",
                                               !.blob = b, !.range = r]]
    /\ UNCHANGED <<up, disk, crashes>>

\* serve_lookup: both the row and the file, else 404; then the ETag and the
\* range are settled from the row alone.
Lookup(g) ==
    LET b == get[g].blob IN
    /\ get[g].pc = "lookup" /\ mutex = None
    /\ IF row[b] = None \/ file[b] = None
       THEN get' = [get EXCEPT ![g].pc = "end", ![g].reply = [status |-> 404, bytes |-> {}]]
       ELSE LET reply == ParseRange(get[g].range, row[b].size) IN
            \E cond \in BOOLEAN :
              get' = [get EXCEPT
                ![g].pc = IF cond \/ reply.status = 416 THEN "end" ELSE "open",
                ![g].reply = IF cond THEN [status |-> 304, bytes |-> {}] ELSE reply]
    /\ UNCHANGED <<up, disk, used, spent, crashes>>

\* GET opens the file and streams that part of it; HEAD ends at the lookup.
Open(g) ==
    LET b == get[g].blob  reply == get[g].reply IN
    /\ get[g].pc = "open"
    /\ get' = [get EXCEPT ![g].pc = "end",
                          ![g].reply = IF file[b] = None THEN [status |-> 404, bytes |-> {}]
                                       ELSE [reply EXCEPT !.bytes = @ \cap 0..(file[b] - 1)]]
    /\ UNCHANGED <<up, disk, used, spent, crashes>>

----------------------------------------------------------------------------

\* The process dies; the replay cache is in memory.
Crash ==
    /\ crashes < MaxCrash /\ crashes' = crashes + 1
    /\ up' = [u \in Upload |-> IF up[u].pc \in {"new", "done", "refused", "failed"} THEN up[u]
                               ELSE [Idle EXCEPT !.pc = "gone"]]
    /\ get' = [g \in Get |-> IF get[g].pc \in {"new", "end"} THEN get[g] ELSE [NoGet EXCEPT !.pc = "end"]]
    /\ mutex' = None /\ used' = {} /\ spent' = [t \in Token |-> 0]
    /\ UNCHANGED <<staging, file, row>>

Install(u) == InstallCheck(u) \/ Persist(u) \/ Insert(u)

Next ==
    \/ \E u \in Upload, t \in Token, b \in Blob : Begin(u, t, b)
    \/ \E u \in Upload : Chunk(u) \/ StreamFails(u) \/ Dropped(u) \/ EndBody(u) \/ Install(u)
    \/ \E g \in Get, b \in Blob, t \in Token, r \in RangeHeader \cup {None} : Request(g, b, t, r)
    \/ \E g \in Get : Lookup(g) \/ Open(g)
    \/ \E t \in Token : Lapse(t)
    \/ Crash

Spec == Init /\ [][Next]_vars

----------------------------------------------------------------------------
(* Properties.                                                             *)

\* A visible blob is whole: its file is there with every byte of the content the
\* row was made for, whatever uploads of it ran at once and wherever one crashed,
\* and it is within the cap of its true type, although that type is known only
\* after the first SNIFF_BYTES (store.rs:322-402, upload.rs:491-568).
WholeOrHidden ==
    \A b \in Blob : row[b] # None => /\ row[b].size = Size[b] /\ file[b] = Size[b]
                                    /\ Size[b] <= CapForSniff(b)

\* The staging file of an upload that was stored or refused is gone; only a client
\* that went away, a crash, or an install whose first reads fail leaves one behind
\* (upload.rs:570-578, store.rs:322-402).
StagingReclaimed == \A u \in Upload : staging[u] # None => up[u].pc \notin {"done", "refused"}

\* While its replay record lives a token is accepted once, by whichever door it
\* is brought to, also when two requests carry it at once (upload.rs:444-451,
\* serve.rs:237-242).
TokensSpentOnce == \A t \in Token : spent[t] <= 1

\* The bytes a client receives are those its range header selects from the blob,
\* and 416 is the answer exactly when it selects none (serve.rs:357-463).
Selected(r, total) ==
    {i \in 0..(total - 1) : \/ r = None
                            \/ r # None /\ r.start = None /\ i >= total - r.end
                            \/ r # None /\ r.start # None /\ i >= r.start /\ (r.end # None => i <= r.end)}
RangesExact ==
    \A g \in Get : get[g].pc = "end" /\ get[g].reply # None =>
        LET reply == get[g].reply
            sel == Selected(get[g].range, Size[get[g].blob])
        IN /\ reply.status \in {200, 206} => reply.bytes = sel /\ (reply.status = 200 <=> get[g].range = None)
           /\ reply.status = 206 => sel # {}
           /\ reply.status = 416 => sel = {}

\* What the clients see: the blobs with a row, the uploads that were told of
\* theirs, the downloads that were answered.
Held == {b \in Blob : row[b] # None}
Stored == [u \in Upload |-> IF up[u].pc = "done" THEN up[u].body ELSE None]
Answer == [g \in Get |-> IF get[g].pc = "end" /\ get[g].reply # None
                         THEN [blob |-> get[g].blob, range |-> get[g].range, reply |-> get[g].reply]
                         ELSE None]

S == INSTANCE Shelf WITH held <- Held, stored <- Stored, answer <- Answer

\* To its clients the store is a shelf: one step puts a whole blob on it, whatever
\* uploads of it run at once and wherever one crashes, none takes a blob off, and
\* each download is answered from what is on it at one moment between its request
\* and its reply: 404 exactly when the blob is not there, else the bytes its range
\* header names (store.rs:322-402, serve.rs:357-463).
StoreIsShelf == S!Spec
=============================================================================
