-------------------------------- MODULE Reads -------------------------------
(***************************************************************************)
(* The read surfaces of POST /query: the channel window and the thread     *)
(* page, which a client walks page by page, and the plain and search path. *)
(* Sources: src/src/http.rs, history/read.rs, history/query.rs,            *)
(* history_adapter.rs, filter_match.rs.                                    *)
(*                                                                         *)
(* One read of the store is one step, under the store's mutex; a request   *)
(* makes several, and the store changes between them and between the       *)
(* requests of a walk.  An event is a record; its id is a number that      *)
(* orders as the hex id does.  What ingest itself does is the matter of    *)
(* History: here it adds an event and takes out what a deletion names.     *)
(***************************************************************************)
EXTENDS Integers, FiniteSets, Sequences

CONSTANTS Event,        \* [id, at, kind, root, depth, broadcast, target, tagged]
          Reader,       \* callers
          Limit,        \* page sizes clients ask for
          Kinds,        \* sets of kinds clients ask a window for; {} is any
          Query,        \* lists of filters clients ask for: [ids, kinds, tagged, search]
          QueryMax,     \* QUERY_MAX_LIMIT
          PGated, ResultGated, \* kinds of the access classes
          None

ASSUME LimitAssumption == Limit \subseteq Nat \ {0} /\ QueryMax \in Nat \ {0}
ASSUME EventAssumption ==
    \A e, f \in Event : e.id \in Nat \ {0} /\ e.at \in Nat /\ (e.id = f.id => e = f)
ASSUME NoneAssumption == None \notin Event

\* The filters the lists are made of.
Filters == UNION {{q[i] : i \in DOMAIN q} : q \in Query}
ASSUME QueryAssumption == /\ \A q \in Query : q \in Seq(Filters)
                          /\ \A f \in Filters : f.search \in BOOLEAN

VARIABLES stored,   \* events in the store
          deleted,  \* those that are soft-deleted
          client    \* the client: its walk, and the request it waits for

vars == <<stored, deleted, client>>

\* client.mode: what it does; pc: the next step of its request.  must, due, quiet
\* and hollow are for the properties: rows and aux events a walk still owes,
\* whether nothing was deleted since the last page, whether a page that was
\* announced came back empty; and failed names the aux reads that failed.
Idle == [mode |-> None, pc |-> "idle", limit |-> 1, kinds |-> {}, root |-> 0, cursor |-> None,
         more |-> FALSE, page |-> {}, aux |-> {}, struck |-> {}, seen |-> {}, again |-> FALSE,
         must |-> {}, due |-> {}, quiet |-> TRUE, hollow |-> FALSE, failed |-> {},
         reader |-> None, search |-> FALSE, filters |-> <<>>, out |-> {}]

Init == /\ stored = {}
        /\ deleted = {}
        /\ client = Idle

----------------------------------------------------------------------------
(* The store.                                                              *)

Live == stored \ deleted
Deletion == {"delete", "remove"}   \* kind 5 and kind 9005
Aux == Deletion \cup {"reaction"}

\* ingest_local and ingest_mesh once they accept: a reply's thread is there, and a
\* deletion strikes the event it names.
Ingest(e) ==
    LET struck == IF e.kind \in Deletion THEN {t \in Live : t.id = e.target} ELSE {} IN
    /\ e \notin stored
    /\ e.root # 0 => \E r \in stored : r.id = e.root
    /\ stored' = stored \cup {e}
    /\ deleted' = deleted \cup struck
    /\ client' = [client EXCEPT !.must = @ \ struck, !.due = @ \ struck,
                                !.quiet = @ /\ struck = {}]

\* Newest first, then by id; and oldest first.
Newer(e, f) == e.at > f.at \/ (e.at = f.at /\ e.id < f.id)
Older(e, f) == e.at < f.at \/ (e.at = f.at /\ e.id < f.id)

\* The first n of a set in an order.
Newest(S, n) == {e \in S : Cardinality({f \in S : Newer(f, e)}) < n}
Oldest(S, n) == {e \in S : Cardinality({f \in S : Older(f, e)}) < n}

----------------------------------------------------------------------------
(* Walks.  The window goes from new to old, the thread page from old to    *)
(* new; the next page starts behind the last row of this one.              *)

\* A row of the channel's timeline: no aux kind, top level or a reply its author
\* has broadcast.
TopLevel(e) == /\ e.kind \notin Aux
               /\ (e.depth = 0 \/ (e.depth = 1 /\ e.broadcast))

\* A reply in the thread of root r.
InThread(e, r) == e.root = r /\ e.depth >= 1

Behind_faulty(cursor, e) == IF cursor = None THEN TRUE ELSE cursor.at > e.at
Behind(cursor, e) == IF cursor = None THEN TRUE ELSE Newer(cursor, e)
After(cursor, e) == IF cursor = None THEN TRUE ELSE Older(cursor, e)

Wanted(e) == client.kinds = {} \/ e.kind \in client.kinds

\* A client starts a walk and is owed every row that is there now.
StartWindow(limit, kinds) ==
    /\ client.pc = "idle"
    /\ client' = [Idle EXCEPT !.mode = "window", !.pc = "ask", !.limit = limit, !.kinds = kinds,
                              !.must = {e \in Live : TopLevel(e) /\ (kinds = {} \/ e.kind \in kinds)}]
    /\ UNCHANGED <<stored, deleted>>

StartThread(limit, r) ==
    /\ client.pc = "idle"
    /\ client' = [Idle EXCEPT !.mode = "thread", !.pc = "ask", !.limit = limit, !.root = r.id,
                              !.must = {e \in Live : InThread(e, r.id)}]
    /\ UNCHANGED <<stored, deleted>>

\* channel_window: one row more than the limit is fetched to learn whether there
\* is a next page.  The kinds are applied to the page afterwards, so that a page
\* may be short, or empty, and not the last.
WindowRows ==
    /\ client.pc = "ask" /\ client.mode = "window"
    /\ LET rows == {e \in Live : TopLevel(e) /\ Behind(client.cursor, e)}
           page == Newest(rows, client.limit)
           more == Cardinality(rows) > client.limit
           asked == {e \in page : Wanted(e)}
       IN client' = [client EXCEPT
                       !.pc = "hop1", !.page = page, !.more = more,
                       !.cursor = IF more THEN CHOOSE e \in page : \A f \in page : ~Newer(e, f) ELSE @,
                       !.again = @ \/ asked \cap client.seen # {},
                       !.seen = @ \cup asked, !.must = @ \ asked,
                       !.hollow = @ \/ (page = {} /\ client.cursor # None /\ client.quiet),
                       !.quiet = TRUE,
                       !.due = {a \in Live : a.kind \in Aux \ {"remove"} /\ \E e \in page : a.target = e.id}]
    /\ UNCHANGED <<stored, deleted>>

\* aux_closure, first hop: reactions to and deletions of the page's rows, asked for
\* in a read of its own.  A read that fails counts as one that found nothing.
Hop1 ==
    /\ client.pc = "hop1"
    /\ \/ client' = [client EXCEPT
                       !.pc = "hop2",
                       !.aux = Newest({a \in Live : a.kind \in Aux \ {"remove"}
                                                    /\ \E e \in client.page : a.target = e.id}, QueryMax)]
       \/ client' = [client EXCEPT !.pc = "hop2", !.aux = {}, !.failed = @ \cup {"hop1"}]
    /\ UNCHANGED <<stored, deleted>>

\* Second hop: deletions of those, none when the read fails.  Then the answer goes
\* out.
Hop2_faulty ==
    /\ client.pc = "hop2"
    /\ client' = [client EXCEPT
                    !.pc = "answered",
                    !.struck = {a \in client.aux \cap deleted :
                                   \E d \in stored : d.kind = "delete" /\ d.target = a.id}]
    /\ UNCHANGED <<stored, deleted>>

Hop2 ==
    /\ client.pc = "hop2"
    /\ LET found == {d \in Live : d.kind = "delete" /\ \E a \in client.aux : d.target = a.id}
           struck == {a \in client.aux \cap deleted :
                         \E d \in stored : d.kind = "delete" /\ d.target = a.id}
       IN \/ client' = [client EXCEPT !.pc = "answered", !.struck = struck,
                                       !.aux = @ \cup Newest(found, QueryMax)]
          \/ /\ client.aux # {}
             /\ client' = [client EXCEPT !.pc = "answered", !.struck = struck,
                                          !.failed = @ \cup {"hop2"}]
    /\ UNCHANGED <<stored, deleted>>

\* The answer of a window says whether to go on.
NextWindow ==
    /\ client.pc = "answered"
    /\ client' = [client EXCEPT !.pc = IF client.more THEN "ask" ELSE "end",
                                !.page = {}, !.aux = {}, !.struck = {}, !.due = {},
                                !.failed = {}]
    /\ UNCHANGED <<stored, deleted>>

\* thread_replies, which a query reaches only with a cursor (the first one is
\* before every reply), answers the bare rows: the client goes on behind the last one,
\* until a page is short.
ThreadRows ==
    /\ client.pc = "ask" /\ client.mode = "thread"
    /\ LET rows == {e \in Live : InThread(e, client.root) /\ After(client.cursor, e)}
           page == Oldest(rows, client.limit)
       IN client' = [client EXCEPT
                       !.pc = IF Cardinality(page) = client.limit THEN "ask" ELSE "end",
                       !.cursor = IF page = {} THEN @ ELSE CHOOSE e \in page : \A f \in page : ~Older(e, f),
                       !.again = @ \/ page \cap client.seen # {},
                       !.seen = @ \cup page, !.must = @ \ page]
    /\ UNCHANGED <<stored, deleted>>

----------------------------------------------------------------------------
(* The plain and the search path: every filter is a read of its own.  A    *)
(* filter's field is None where it is absent; an empty list matches nothing. *)

\* authorize, before any read: p-gated kinds are only for who asks for its own.
Authorized(q, reader) ==
    \A i \in DOMAIN q :
        IF q[i].kinds = None THEN TRUE
        ELSE q[i].kinds \cap PGated # {} => (IF q[i].tagged = None THEN FALSE ELSE reader \in q[i].tagged)

\* to_filter_spec and build_where: the fields that are there, all of them.
Matches(f, e) ==
    /\ f.ids # None => e.id \in f.ids
    /\ f.kinds # None => e.kind \in f.kinds
    /\ f.tagged # None => e.tagged \cap f.tagged # {}

\* What a search, whose index leaves p-gated kinds out, and the result gate keep back.
Hidden_faulty(f, e, reader) == f.search /\ e.kind \in PGated
Hidden(f, e, reader) ==
    \/ f.search /\ e.kind \in PGated
    \/ e.kind \in ResultGated /\ reader \notin e.tagged

\* Filters with and without a search do not go together.
Mixed(q) == \E i, j \in DOMAIN q : q[i].search # q[j].search

Ask(q, reader) ==
    /\ client.pc = "idle" /\ ~Mixed(q) /\ Authorized(q, reader)
    /\ client' = [Idle EXCEPT !.mode = "plain", !.pc = "read", !.reader = reader,
                              !.search = \E i \in DOMAIN q : q[i].search, !.filters = q]
    /\ UNCHANGED <<stored, deleted>>

Read ==
    /\ client.pc = "read" /\ client.filters # <<>>
    /\ LET f == Head(client.filters)
           found == Newest({e \in Live : Matches(f, e)
                                /\ ~(f.search /\ e.kind \in PGated)}, QueryMax)
       IN client' = [client EXCEPT !.filters = Tail(@),
                                   !.out = @ \cup {e \in found : ~Hidden(f, e, client.reader)}]
    /\ UNCHANGED <<stored, deleted>>

Answered ==
    /\ client.pc = "read" /\ client.filters = <<>>
    /\ client' = [client EXCEPT !.pc = "end"]
    /\ UNCHANGED <<stored, deleted>>

\* The client is done with it.
Done == client.pc = "end" /\ client' = Idle /\ UNCHANGED <<stored, deleted>>

Next ==
    \/ \E e \in Event : Ingest(e)
    \/ \E n \in Limit, k \in Kinds : StartWindow(n, k)
    \/ \E n \in Limit, r \in Event : StartThread(n, r)
    \/ \E q \in Query, u \in Reader : Ask(q, u)
    \/ WindowRows \/ Hop1 \/ Hop2 \/ NextWindow \/ ThreadRows \/ Read \/ Answered \/ Done

Spec == Init /\ [][Next]_vars

----------------------------------------------------------------------------
(* Properties.                                                             *)

\* A walk that has come to its end has returned every row that was there when it
\* started and has not been deleted since, whatever was stored meanwhile, also
\* where rows share a second; no row comes twice; and an announced page is empty
\* only when a row was deleted after the announcement: a last page that is exactly
\* full is not followed by another (read.rs:27-101, 103-161, m1a.md:119-120).
WalkIsExact == /\ client.pc = "end" => client.must = {}
               /\ ~client.again
               /\ ~client.hollow

\* The aux events of a window answer fit together though two later reads collect
\* them.  If the first of them succeeds, what concerned the page's rows when they
\* were read and still stands is there.  If the second does, a reaction that was
\* struck between the two comes with a deletion that struck it, unless such a
\* deletion has itself been deleted.  A read that fails is taken for an empty one
\* and the answer goes out without (history_adapter.rs:181-207).
AuxFitsTogether ==
    client.pc = "answered" =>
        /\ "hop1" \notin client.failed => client.due \subseteq client.aux
        /\ "hop2" \notin client.failed =>
              \A a \in client.struck : \E d \in client.aux \cup deleted :
                  d.kind = "delete" /\ d.target = a.id

\* Of a result-gated kind a plain answer holds only what is tagged with its reader,
\* and a search finds no p-gated kind at all, whatever the filters leave out
\* (http.rs:355-385, filter_match.rs:99-172).
GatesHold ==
    \A e \in client.out : /\ e.kind \in ResultGated => client.reader \in e.tagged
                          /\ client.search => e.kind \notin PGated
============================================================================
