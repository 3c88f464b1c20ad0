# TLA+ models of x0x-nostr-bridge

The bridge is a Nostr relay facade over the x0x gossip fabric. Clients talk to it
over WebSocket and HTTP; events are kept in one SQLite history store and travel
between bridges over gossip topics of a local daemon, `x0xd`. This directory models
the parts of the bridge where concurrency, ordering and failure decide what is
stored, heard, admitted and served, checks them with TLC on small instances, and
proves with TLAPS, for instances of every size, every safety property its passing
runs check and the convergence of bridges as a refinement, some under assumptions
that section 5 names. Paths below are relative to the repository root; the crate is
in `src/`.

## 1. Inventory

| Part | Source | State | Operations | Hard behaviour |
|---|---|---|---|---|
| History store and thread engine | `history/{engine,mod,schema,types}.rs` | `events`, `thread_metadata`, `pending_orphans`, `quarantine`, `replaceable_addrs` | `ingest_local`, `ingest_mesh`, `store_relay_authored`, `reap_orphans` | out-of-order and repeated delivery, orphan drain, deletes, rollback, crash |
| Gossip ingest | `ingest.rs`, loop in `main.rs` | none | `ingest_one` | convergence of bridges that see different orders |
| Gossip transport | `transport.rs` | `topics`, `inflight`, inbox | `ensure_topic`, `remove_topic`, `publish`, SSE supervisor | concurrent callers, reconnect, daemon restart, lost answers |
| Relay topic counts | `relay.rs` `AppState` | `topic_refs`, `sub_topics` | REQ, CLOSE, disconnect, publish | counts taken down in two steps, spawned calls in any order |
| Hub | `relay.rs` `Hub` | `subs`, strikes | `register`, `unregister_*`, `dispatch` | slow consumers, subscription cap |
| WebSocket connection | `relay.rs`, `proto.rs` | auth state, send queue, permit | AUTH, EVENT, REQ, CLOSE, timeout, shutdown | backfill against live events, clean-up, graceful shutdown |
| HTTP dialect | `http.rs`, `engine_api.rs`, `history_adapter.rs` | none | `/events`, `/query`, `/count` | summary fan-out races, reads in several steps |
| Group commands | `nip29.rs`, `kinds.rs` | relay-authored 39000-39002 events, invite locks | `execute`, `add_member_from_invite`, `seed_channel` | read-modify-write across awaits |
| Invite claims | `m1b.rs`, `invites.rs`, `join_policy.rs` | pending maps, permits, work queue | `request_claim`, worker, `handle_direct_message` | timeouts against late results, duplicates, cancellation, a daemon that hangs |
| Direct transport | `direct_transport.rs` | inbox | `send`, `messages`, SSE supervisor with backfill | at-least-once delivery |
| Authentication | `auth.rs`, `rate_limit.rs` | replay cache, windows | `authenticate`, `check_and_record`, `check` | clock skew, window edges |
| Read surfaces | `history/{read,query}.rs`, `filter_match.rs` | none | windows, threads, queries, search | paging against writers |
| Media | `media/*.rs` | rows, blob files, staging, replay cache | upload, install, serve | crash between file and row, concurrent uploads |
| Identity, seed, settings | `relay_identity.rs`, `seed.rs`, `settings.rs`, ... | key file | start-up | re-seeding at restart |
| Legacy store | `store.rs` | its own tables | `SqliteStore::insert` | not constructed by `main.rs` |

How they interact: both doors call the history store, which runs each ingest as
one transaction under one mutex; on "stored" the door publishes (local door),
dispatches through the hub and asks for new thread summaries. A REQ registers
in the hub, counts its topics and spawns `ensure_topic`; the daemon then
forwards gossip into the inbox, from which the ingest loop feeds the mesh door.
Group commands and invite claims write relay-authored events into the same
store. Claims travel between bridges as direct messages of the daemon. Media
keeps a store of its own and asks the history store for membership.

What makes each part correct: the store's counters are exact, its threads a
forest, its orphans never forgotten and its answers honest, whatever the order
of events; bridges with the same events agree; every wanted topic has exactly
one forwarder and no forwarder is lost track of; a subscription has no gap
between what is stored and what is live; nobody leaves a group's lists but by
decision; a claim is answered with its own decision and its slot returned; a
token is used once while its record lives; a page walk sees every event once; a
blob is served only if whole.

`PROJECT.json` lists the hazards behind these statements with the line where
each bites.

## 2. Modules

| Module | Models |
|---|---|
| `History` | the ingest transaction and the tables it writes |
| `Replica` | what a bridge promises: its view is a function of the events it has had |
| `Convergence` | the store of one bridge among several, and how it implements `Replica` |
| `Transport` | `ensure_topic`, `remove_topic`, the SSE supervisor, the daemon |
| `Topics` | the relay's topic counts and spawned calls, which adds to `Transport`'s state |
| `Relay` | connections, send queues and writers, the hub, the doors' fan-out, shutdown |
| `Groups` | NIP-29 commands, invite admissions, seeding, over the versions of three lists |
| `Claims` | invite claims: waiting requests, authority worker, direct messages |
| `Media` | uploads, install, downloads with ranges, crashes |
| `Shelf` | what the media store promises: a blob is there whole or not at all |
| `Reads` | window and thread walks, aux events, plain queries and their gates |
| `Auth` | NIP-98 gate, replay cache, rate limiter |
| `MC...` | the instances of each for TLC |
| `HistoryProofs` | theorems about `History` and about `Convergence` over it |
| `ClaimsProofs`, `MediaProofs`, `RelayProofs`, `ReadsProofs`, `AuthProofs`, `GroupsProofs` | theorems about each |
| `TransportProofs` | theorems about `Transport` and about `Topics` over it |

Operators named `..._faulty` are the definition that follows them with one
plausible mistake; they exist to show that the properties notice it and are
used by nothing else.

### History, Convergence and Replica

`db` is the committed database, `work` the view of the open transaction (equal
to `db` when none is open), `tx` the transaction: the event and door it is for,
the deletion targets and drain stack still to be worked off, the summaries to
emit and the outcome. Each branch of `ingest_event` is an action that begins a
transaction; the loops of `delete_flow` and `drain_pending` take one step per
turn; `Commit` ends it, and `Crash` or a failing statement rolls it back. The
mutex of `HistoryStore` is held from BEGIN to COMMIT, so no second transaction
and no reader runs in between. `pending_children` has no ORDER BY, so the drain
takes orphans in any order.

Abstracted: an event is a number whose order is the order of hexadecimal ids;
its content is reduced to the kind class, channel, root and reply markers,
deletion targets, replaceable address and `created_at`. The FTS index, the
`broadcast` flag and `event_created_at` are not in the model. Bounds: the sets
of events, `MaxNow` on the clock.

`Replica` is the abstract specification. Its state is the set `got` of the events
a bridge has had, the set `struck` of those it has soft-deleted, and the `view`
it shows; `View(got, struck)` gives the view, from the markers alone, with no
order of arrival in it: `Path` is what lies above an event (the least set that is
closed under reply markers, so no recursion is needed), `Held` the events whose
ancestry is at hand and agrees, and the best versions, `Waits` and `Refused` the
orphans and the quarantine. `Deliver` adds an event, `Forget` takes orphans back.

`Convergence` is `History` with `got` recorded at each commit, and maps the rest
of `Replica`'s state to the committed tables (`Struck`, `Shown`): a commit is one
delivery, or nothing when the event had come before or was turned away, and every
other step is invisible. Bridges share nothing but the events, so that one bridge
implements `Replica` says that any two with the same events, soft-deleted alike,
show the same. State events that the relay signs itself are left out: they are
no other bridge's.

### Transport and Topics

A task is one call of `ensure_topic` or `remove_topic` on the multi-thread
runtime. A step is one operation on a concurrent map, taking the flight lock
together with the look-up that follows it (acquiring a lock commutes with what
other tasks do before that look-up), or one HTTP request with its answer. The
supervisor streams, and whenever the stream ends or cannot be opened takes a
snapshot of the topics, DELETEs and POSTs each, and connects again; backoff
times are left out. The daemon is external and modelled from how the bridge
uses it. The faults a run admits are a constant: `drop` (the stream ends),
`restart` (the daemon stops and loses its forwarders), `post` and `delete` (a
request fails without effect), `lost` (a POST is served and its answer lost, or
the caller's future dropped while it waits). `stray` collects the forwarders
that a lost answer or a failed DELETE leaves behind; nothing in the bridge could
find them again, so the properties are about the others. `crossed` collects the
topics that a `remove_topic` took away under a call that has their flight lock
in hand or out of a snapshot the supervisor works on (section 4); it has no
counterpart in the code and only the properties read it. A lock or subscription
id that no map, task or snapshot mentions stands for a new one, so no counter
is needed.

`Topics` extends `Transport` with the counts: a step of `RelayNext` is one of the
transport's tasks, one of a connection's handler, or the start of a call a
handler spawned. A connection handles one frame at a time, so it is a
process; the decrement of a count and the removal of a zero entry are separate
steps because the map's guard is dropped between them, while the increments of
a REQ are one step because they commute with each other and come before the
calls it spawns. Any number of connections does so at once. `strayed` collects the
topics whose count has gone wrong in one of the two ways the code allows (section
4); it has no counterpart in the code and only `RefsExact` reads it.

### Relay

`conn` is the handler task of a connection (one frame at a time; `job` is the
EVENT or REQ it works on), `writer` its writer task, `queue` the number of
messages in the send queue between them. A REQ reads filter after filter, each in
a query of its own that answers with as many events as the filter's limit and
`QUERY_MAX_LIMIT` allow, or with none when it fails, and sends what it has read
before the next query; EOSE comes in either case. The handler waits for room in the
queue; `Hub::dispatch` uses `try_send` and counts strikes. The hub's entries
hold clones of the queue's sender, so the writer ends only when the handler has
dropped its own and `unregister_conn` the hub's. A socket may take what the writer
sends, fail, or stall for ever; the shutdown notice turns a writer that waits in
its `select!` to the close frame (`last`). `got`, `lost` and `cut` record what was
queued for, refused by, or found and left out by a query of, a subscription since
its REQ. Which of several matching subscriptions find the last room depends on the
map's order and is a free choice, and so is which events a capped query answers
with. A filter is the set of events it matches and its limit; the doors
(WebSocket, HTTP, gossip) differ in who submits and in that only HTTP stores
ephemeral events, and share what follows: store, publish, dispatch, then one task
per thread that reads the summary, or fails, and dispatches it. The refusals
before the store are one nondeterministic refusal.

### Groups

`slot` holds the newest stored version of each list, `table` the members table.
A call reads the three lists one await at a time (`latest_addressable`),
decides, and emits list after list; `emit` dates a version past the one the
call has read and the store keeps the newer date, or either of two with one
date, since the ids are hashes. Whether its version won is not reported to the
call. `raced` marks a call whose reads a command of another call has replaced
since; it has no counterpart in the code and only the properties read it.
`Restart` loses the calls and locks and runs the seed again. Lists are reduced
to who is on them and whether the channel is open. `emit_metadata` also calls
`seed_visibility` (`nip29.rs:622-629`), which is left out: with the engine the
binary runs on it is the trait's default and does nothing.

### Claims

`req` are the HTTP requests of joiners with the bus they wait on; `pending` and
`permits` the map and the semaphore of each bus; `queue`, `worker`, `held` the
work channel, the adjudication and the dispatcher of a bridge. `mail` is what
the daemon of a bridge can deliver: a message stays there, because the daemon
replays stored rows at every reconnect, so late, repeated and reordered
delivery are one mechanism and loss is never to deliver. `Stray` adds results of
other agents, of unverified sender and of a shape that does not parse. `seen` holds
the second in which the record of a claim's proof lapses; a proof is dated up to a
TTL from the clock of the door that took it, on either side. `lists` are the
members of the authority's channel and of another one: the membership query looks
at both, an admission writes the first, and group commands put people on them and
take them off. `hung` are the bridges whose daemon takes calls and answers none;
what a request or the worker sends to it waits. `decided`, `taken` and `rulings`
record the decisions on each claim, when it was taken up and how often it was
decided in this life of the authority; only the properties read them. `Restart`
loses everything but the lists, the mail and the codes.

### Media

An upload goes from token to stream to checks to install; `staging`, `file` and
`row` are its temporary file, the blob's file and the sidecar row. `mutex` is
the connection's mutex that `install` holds over its reads, the rename and the
insert; the steps in between exist because a crash can fall there. A failing
step refuses and cleans up as the code does at that place; a dropped future
cleans up nothing. Tokens carry verb, hash, age and membership of their author;
a replay record lives one window from the start of the request that made it
(`Lapse`). A read error while a blob is served is left out: the code answers 500,
or 404 when the file cannot be opened.

`Shelf` is the store as its clients see it: one step puts an acceptable blob, for
which a token vouches, on the shelf and tells the upload so; another answers a
download from what is there. In the mapping a blob is held when it has a row, an
upload is stored when it is `done`, and a download is answered when it has ended
with a reply, which a crash of the server no longer changes. Staging files,
blob files, the mutex, tokens' records and crashes do not show.

### Reads

Each read of the store is one step under its mutex; a window answer makes three
(rows, aux events, deletions of aux events), and a walk makes several requests.
Each of the two aux reads may fail, and the answer goes out without what it would
have found. Events carry the thread data the SQL reads; a deletion may name any of
them, another deletion included. Ghost parts of `client` record what a walk still
owes its caller and which aux reads failed. The plain path reads filter after
filter and applies the gates of `filter_match.rs`.

### Auth

A handler reads the clock once and uses that reading at the replay cache and at
the limiter, each behind a mutex of its own, so readings arrive out of order;
`MaxDelay` bounds their age. A process has one replay cache, for its own routes and
for the claims that another bridge forwards to it. A token is its author, date,
route and payload; whether it fits a request is one predicate.

## 3. Runs

All runs pass; the longest takes under three minutes on two cores. Deadlock is
checked except where a run ends by itself: claims, uploads and requests that are all
answered, a relay that has shut down, events that are all delivered.

| Run | Instance | Shows |
|---|---|---|
| `history_store` | 4 events, both doors, cap 2: all threads; threads with deletions; versions with ties; relay state | types and depth cap, exact counters, forest, no orphan left behind, one winner that only improves, honest answers, summaries asked for |
| `history_clock` | mesh door, clock to 3, orphans reaped; replies out of order, deletions, versions | `last_reply_at` is the maximum; no resurrection; transactions end |
| `convergence_clean` | 4 events, both doors, clock to 2, TTL 0, crashes: threads over 2 channels, replies to relay state, deletions, versions | the store implements `Replica`: what it shows depends on the events had and struck, not on their order |
| `transport_faults` | 2 callers that ensure and remove a topic, every fault | one forwarder per topic and none lost track of, but the strays and what crossed removals leave; every call returns |
| `topics_counts` | 2 connections, 2 subscription ids each, 1 topic, publishing; drop, delete | a count is exactly its subscriptions and those about to be counted off, until one of the two losses of section 4; a topic on record is heard |
| `relay_live` | 1 client, 2 filters with a limit, 3 events (1 ephemeral), failing queries and summary reads, sockets that fail or stall, queue 1, grace 2, shutdown | no gap between backfill and live, but what a query left out; a summary with the last count is sent, but when its task failed; hub and permits match live connections; a closing connection closes unless its socket takes nothing |
| `groups_races` | 2 calls at once, 3 in all, 2 users, restart and clock step | nobody leaves a list but by decision, race of writers or re-seeding; admissions extend the list; admin lists are handed over |
| `claims_bus` | 2 bridges, 2 requests, 1 permit, queue 1, 1 stray message, both daemons hang and come back | permits and entries exact, answers are decisions on that claim; waits for an answer end, and a send that waits for ever has met a hanging daemon |
| `claims_policy` | 1 request, 2 codes, 1 signed, 1 receipt, policy on or off, TTL 1, a proof dated a second ahead, clock to 2, a list that changes, restart | admission only with signed code and receipt; decided once per taking-up, takings-up a TTL apart; success means membership |
| `media_store` | 2 uploads, 1 download, 4 blobs, 5 tokens, 6 ranges, 2 crashes | visible blobs are whole, staging reclaimed, tokens spent once; the store implements `Shelf`, so ranges are exact |
| `reads_walks` | 11 events, page sizes 1 and 2, 3 queries, 2 readers, aux reads that fail | walks exact, aux events consistent as far as they are read, gates hold |
| `auth_gate` | 3 requests, 1 token dated ahead, clock to 5, window and TTL 2, quota 1, delay 1 | token uses a TTL apart, refused tokens usable, at most twice the quota |

Bounds. Four events are the smallest that give a chain of depth three beside a
sibling, which is what the drain's stack and the counters can get wrong; three
versions give a tie and a newer one. Two callers let one hold the flight lock while
the other waits for it or removes the topic, beside a supervisor that re-subscribes;
locks and records are per topic, so one topic is enough. Three ids let a new
forwarder meet an old one and a stray; `Sub` and, over `Topics`, `IdLeft` bound the
forwarders that leak. Two connections and two ids each let one of them subscribe,
close or leave between the two steps of the other's removal. A queue of one and a
grace of two make a subscription full, struck and thrown out within the events of a
run. `relay_live` keeps to one connection, which also stands for the next one on its
permit: what `NoGap` says of a connection no other has a part in, since the hub
never waits. Three events give two summary tasks that overtake each other beside an
event that has none, and a limit of one below them leaves something out. Two calls
at once and three in all give a race, and a command that acts on its outcome. One
permit and two requests make a claim find the semaphore empty; one stray message and
one restart are each independent of the next, and the restart, which clears both
sides' entries, is in the run with the clock. With a TTL of one, a proof dated a
second ahead is usable in three seconds of the clock, so that it is taken up three
times, or late and once. In `claims_bus` a claim from the other bridge and one
posted at the authority compete for the one place in the queue, and the second is
behind a worker that may wait for its daemon for ever. `OneSigned` keeps
`claims_policy` to one signed code; the receipt may bind the other. In `media_store`
two contents are within the cap of their kind, so that files and rows of one could
be taken for the other's; one is above its cap but under the one that holds before
the kind is known, and one has a kind that is refused. Two uploads race or follow
each other, and the second crash comes after the restart. Eleven events hold ties in
one second on both sides of a page's edge, broadcast and plain replies, a gated
event, and deletions of a reaction, a note and a reply.

Fairness. `History`'s `FairSpec` has weak fairness of the steps inside a
transaction: they run to completion on a blocking thread that holds the mutex,
unless the process dies. `Transport`'s has weak fairness of every task (the
runtime schedules tasks, the daemon answers what it is sent) and strong
fairness of taking the flight lock (tokio's mutex is first come, first served).
The HTTP client has no timeout, so "the daemon answers" is an assumption about
the daemon. `Claims` assumes less of the daemon: a call on it returns while it does
not hang, and it may hang for ever. The wait of a request for its answer has a timer
(`m1b.rs:526`, `772`); the send of a claim (`m1b.rs:766`), of a result
(`m1b.rs:637`), the publication of a new list (`nip29.rs:497`) and the wait for room
in the work queue (`m1b.rs:520`) have none, and the client of
`direct_transport.rs:264-267` sets none. So `FairSpec` has weak fairness of answers
and timers together, of sends on a daemon that does not hang and of each
authority's worker, and strong fairness of taking a place in the work queue
(tokio's channel gives them out in the order they were asked for); nothing is asked
of dispatchers, mail or clients. `Relay` has weak fairness of writers that have
something to do; nothing is asked of sockets, which may stall since `sink.send`
(`relay.rs:491`) has no timeout, nor of clients or handlers.

## 4. Limits of the code the models show

These explain the instances above and what the properties except.

Store and threads:

- a mesh reply under an only-root message whose root is not stored fails in
  `insert_stub` and is dropped with an error (`engine.rs:434`), where
  `docs/design/m1a.md:147-149` has "never a hard reject";
- a quarantined event that is delivered again when its ancestry has changed is
  stored, and its quarantine row stays (`engine.rs:174`, against
  `m1a.md:141-143`, "INVISIBLE");
- the root of an only-root message is its marker's until a reply gives it a
  metadata row and itself afterwards, so two bridges can keep different replies
  under it (`engine.rs:342`, against `m1a.md:50`, "raw events converge"); that
  root may also be in another channel. So can replies to a replaceable event,
  which are stored or parked for ever as they come before or after the version
  that replaces it. `Clean` leaves both out of `convergence_clean`;
- a deletion that arrives before its target is spent, so two bridges can serve
  different messages: `struck` is what `Replica` must remember of the order;
- a reply by the local door stamps its parent with the wall clock, so reply times
  are compared only where the mesh is the only door;
- the reply count of an only-root message changes without a summary request of
  its own, only with that of its root.

Topics and transport:

- `remove_topic` forgets a flight lock that is held, so two calls can both
  subscribe and one forwarder is lost track of (`transport.rs:311`, against
  `README.md:68-70`); so they can when the supervisor re-subscribes, from its
  snapshot, a topic that was removed and is ensured again. `OneForwarder` and
  `NoLeak` leave such topics out (`crossed`);
- `decrement_topics` drops the map's guard before it removes the entry, so the
  count of another connection can go with it (`relay.rs:332-340`, against
  `relay.rs:194`), which leaves a live subscription that no count covers; the
  topic is then `strayed`;
- a REQ that uses an id again overwrites its topics without counting them off
  (`relay.rs:304`, against `relay.rs:307-308`), so the count stays too high and the
  forwarder is never pruned: those topics are `strayed` as well. `RefsExact` says
  that these two are all that makes a count wrong;
- a re-subscription that fails after its DELETE, or a daemon that restarts
  between re-subscribing and connecting, leaves topics on record that have no
  forwarder until the stream ends again; `topics_counts` has no failing POST;
- the `remove_topic` of a CLOSE may run after the `ensure_topic` of the next REQ
  has found the topic on record, and leaves that subscriber without a forwarder;
- a POST whose answer is lost, or whose caller's future is dropped, leaves a
  forwarder that nobody has the id of.

Relay and reads:

- the shutdown notice (`notify_waiters`) is missed by a writer that is busy
  sending, so not "every live WS" gets the 1012 close of `main.rs`;
- a peer whose socket takes nothing keeps its writer, and the permit of its
  connection, for as long as it stalls (`relay.rs:491`); `ClosesCleanUp` excepts it;
- a REQ is answered with the newest events of each filter, as many as its limit
  and `QUERY_MAX_LIMIT` allow (`history_adapter.rs:154`), and a query that fails is
  logged and skipped (`relay.rs:778`): EOSE is sent in either case, and nothing tells
  the client what is missing. `NoGap` excepts what a query found and left out (`cut`);
- a summary task whose read or signature fails ends without a word
  (`http.rs:284-285`): when it was the one to carry the newest count, no summary with
  that count is sent until the next reply; `LatestSummarySent` excepts that;
- HTTP stores ephemeral events, which the WebSocket only fans out
  (`http.rs:225-226`; `src/README.md:67-68`, among what it says of gossip payloads,
  has "ephemeral/auth kinds are never persisted");
- an older thread summary may be dispatched after a newer one;
- the window path applies no result gate: `GatesHold` is about the plain path;
- a `#h` filter compares case-sensitively when it matches live events and
  case-insensitively in SQL, though `filter_match.rs:6-8` says that they
  "cannot diverge";
- events inserted behind a cursor, with an older date, are not seen by the walk
  (`m1a.md:228` accepts that); the second aux read returns kind 5 only;
- an aux read that fails counts as an empty one (`history_adapter.rs:193`) or is
  skipped (`:199`), and the window is answered without what it would have found;
  `AuxFitsTogether` says of each read what it gives when it succeeds;
- a deletion may name a deletion: a reaction whose deletion is struck before the
  second aux read is in the answer without it, though it stays deleted
  (`engine.rs:495`); `reads_walks` has such an event and `AuxFitsTogether` says so;
- the aux events of an answer, and the events among which `latest_addressable`
  looks for a channel's list, are the newest `QUERY_MAX_LIMIT` at most.

Groups and seeding:

- two commands that read the same list lose one update; a CREATE stopped after
  its 39000 leaves a channel without admin list; a JOIN by the owner demotes
  their role;
- a version that loses is still fanned out as if it were stored, since
  `seed_event` discards the outcome (`history_adapter.rs:341-346`, against
  `nip29.rs:354-358`, "never sees a maybe added");
- re-seeding at a later second replaces a demo channel's member list, although
  `seed.rs:99-100` says that "re-running stores duplicates as `Duplicate`";
- admissions run one at a time today (one worker), so the invite lock is
  defensive.

Claims and direct messages:

- a local claim waits for room in the work queue, and a remote one for the daemon to
  take it, without a timeout (`m1b.rs:520`, `766`), holding their permits; the worker
  waits so for the daemon to take a result or a new list (`m1b.rs:637`,
  `nip29.rs:497`). While a daemon hangs, its bridge adjudicates nothing;
  `RequestsReturn` says that a request that waits for ever to be sent has met one;
- `already` is the answer for a member of any channel whose 39002 the query finds,
  not of the one the code is for (`m1b.rs:153-171`);
- a forwarded claim whose proof is dated ahead can be adjudicated again when the
  daemon delivers it after its replay record has lapsed; `AdjudicatedOnce` says how
  often and when;
- a full inbox blocks the stream rather than dropping frames as the comment on
  `INBOX_CAPACITY` says (`direct_transport.rs:93-95`); the tail of an oversized
  SSE line is read as a line of its own; an orderly stream end reconnects with
  no backoff.

Tokens and media:

- a replay record expires one TTL after its first use, while a token dated ahead
  is fresh for longer: it can be accepted again, a TTL later (`ReplayGap`);
- a media token's record begins with the upload's first clock reading, so two
  uploads of one token that both stream longer than the window can both pass;
- an install that fails after the replay check has spent its token, where
  `upload.rs:37-40` has "never burns the token";
- staging files are left by a crash, a dropped future, and an install whose
  first reads fail (`store.rs:347-355`); a cross-device copy that is cut short
  leaves a partial blob file that a later install of the same hash would take
  for whole (the model has the rename).

## 5. Proofs

TLAPS checks 54 theorems and 360 lemmas, 16404 obligations. Each theorem is for
every value of the constants the named ASSUMEs of its module allow; those say
what an instance must be to make sense (limits are numbers, `None` is nothing
else, an id belongs to one event) and TLC evaluates them on every run.

Each module goes the same way. The properties are not inductive; `IInv` is their
strengthening, one named conjunct per idea, confirmed by TLC on the runs'
instances before it was proved. Operators that write get a lemma saying what
they write, each action a lemma saying that it keeps `IInv`, and `NextInv` puts
the actions together. Action properties follow from `IInv` in the state before
the step.

**`HistoryProofs`** (types, `CountersExactInv`, `ForestInv`, `OrphansWaitInv`,
`OneWinnerInv`, `OutcomeHonest`, `LastReplyIsMax`, `SlotOnlyImproves`,
`EmitsCoverChange`, `NoResurrection`). For every finite set of events, universe
of contents, depth cap of at least 2 and clock bound. Events that have a
replaceable address are exactly the replaceable kinds (`WellFormed`); nothing is
assumed of markers, so cycles of markers, which hashes rule out, are covered.
`IInv` states the store's properties of both the committed database and the
transaction's view, and adds: only thread-scoped events, which are never
superseded, have parents, so deleting a superseded row takes no counted reply
away; an id without a metadata row has depth 0, so a lazily created stub lies
above its replies; and a parked orphan whose parent is stored has that parent on
the drain stack, so an empty stack at COMMIT means that no orphan was missed.
Counters follow from cardinality lemmas, which also show that the clamp
`MAX(n - 1, 0)` never bites. `JInv` relates the open transaction's view to the
committed database (what has changed in an address is better, what has changed
in a summary is among the emits, what is gone was superseded) and the outcome to
the store; the action properties and `OutcomeHonest` follow from it.
`LastReplyCorrect` is for bridges that hear the mesh door only, as
`history_clock` is: the local door writes the wall clock.

**`HistoryProofs`, convergence** (`BridgesConverge`). `BridgesAgree` proves that
`ConvSpec` implements `Replica`. It is for events that are `Clean`, which is part
of `ConvInit` and assumed of nothing above: a root marker comes with a reply
marker, markers are on thread-scoped events, no event replies to a replaceable
one, and markers have no cycle. `Path`, `Root`, `Depth` and `Sound` of a reply
are those of its parent and one more (`PathReply`, `PlaceReply`), so what
`resolve_reply` reads of the parent's row is what the markers say (`Resolves`).
The invariant `CInv` adds to `IInv` and `JInv` that the tables fit the events
delivered (`Fits`): what is stored is sound and its parent stored, the rows say
the places the markers say, what was delivered and is not stored is parked,
quarantined or outdated. It says so of the committed database and, for the events
it will have delivered, of the open transaction, of which `Striking` tells what
its deletion has struck and has yet to. Then `HeldStored`, by the least event of a
path that is not stored, and `ShownView`, column by column, give that the tables
show `Replica`'s view (`ViewDetermined`); the steps of the refinement follow.
`NothingDropped` is what it means for the first limit of section 4: for clean
events `insert_stub` never fails.

**`TransportProofs`** (`NoLeak`, `OneForwarder`, `TrackedIsLive`, `RefsExact`). For
any number of calls, topics, locks and daemon ids and any faults. Of a topic that
is not `crossed`, at most one call is between its POST and its insert, the one
that holds the flight lock (`LockInv`), and the supervisor's snapshot is what is
on record (`SnapshotInv`); so a forwarder that is not stray has one owner: a
call, the supervisor or the record. `TrackedIsLive` needs that the daemon stays
up and answers every POST (`Answered`), as in `topics_counts`; section 4 says what
happens otherwise. `RelayNext` only adds calls and records nothing in the
transport, so all of it carries over to `RelaySpec` (`TransportInvariance`,
`RelayLeakFree`, `RelayRecordCorrect`). That `crossed` topics are excepted is part of
the first two: a CLOSE and the REQ after it do cross. `CountsExact` is for any number
of connections: of a topic that has not `strayed`, the count is the cardinality of
its subscriptions and of the handlers about to count it off, which each step of a
handler changes by one on both sides.

**`ClaimsProofs`** (`PermitsExact`, `OkIsMember`, `AnswersOwnDecision`,
`AdjudicatedOnce`, `AdmittedByInvite`). For any bridges, joiners, codes,
requests, strangers and bounds. An entry of a pending map belongs to a request
in flight on that bus and every way a request ends gives its permit back
(`PermitsInv`); what a worker, dispatcher, work channel or claim message carries
was routed to the authority of its code (`OwnedInv`); a result under way, in a
worker, a verified message or a oneshot, is one that authority decided
(`DecisionInv`); how often a claim was decided in this life of its authority, and is
at work there, add up to no more than how often it was taken up (`CountInv`), and the
record of its proof outlives each taking-up by a TTL, so that takings-up lie a TTL
apart within the window of the proof (`SpacedInv`): there is room for three, and for
one when the proof is dated before the first; a worker about to write holds the
warrant it was decided on (`WarrantInv`). Records lapse in all of it.

**`MediaProofs`** (`WholeOrHidden`, `StagingReclaimed`, `TokensSpentOnce`,
`StoreIsShelf`). For any uploads, downloads, contents, caps, tokens and crashes.
`UploadInv` says how much of its body a staging file holds at each step, and that
an upload past its body is within the cap of its type; `BlobInv` that a file is
whole from the rename on and a row only there with its file; `SpentInv` that an
accepted token has a replay record; `GetInv` that a reply is cut from a visible
blob. `parse_range` and the slice are lemmas over integers. `StoreRefines` proves
that `Spec` implements `Shelf`, from `IInv` and `WarrantInv`: an upload past its
body has a token for that hash, and a body that is what it claims. The row is the
step that `Shelf` sees of an upload; because a row is only there with its whole
file, 404 means that there is no row, and what `Open` streams is still what
`Lookup` settled on.

**`RelayProofs`** (`HubInv`, `NoGap`, `LatestSummarySent`). For any connections,
subscriptions, events, filters and limits. Permits and connections add up and
hub entries are of connections that are up (`PermitInv`, `LineInv`); a fanned-out
event is queued for, refused by, left out by a query of, or still ahead of the
handler for every subscription it matches: its filter is yet to be read or the
event to be sent (`GapInv`, `Pending`); whenever the thread has a reply, its true
count was dispatched or a task is still to read it, carries it, or failed with it
(`SumInv`).

**`ReadsProofs`** (`WalkIsExact`, `GatesHold`, `AuxFitsTogether`). For any events,
page sizes, kinds, filters and callers. While a walk goes on, what it owes lies
ahead of its cursor and what it has seen does not, and while nothing is deleted
an announced page is not empty (`WalkInv`). It rests on `Orders` (seconds and ids
together order totally) and `PageFacts`: of a finite set in a total order, the
first n come before the rest, are n at most, and are all when there are fewer,
which is how both walks tell their last page. `AuxCorrect` assumes only that one
read holds all aux events (`AuxFits`); reads may fail and deletions be deleted.

**`AuthProofs`** (`ReplayGap`, `RefusedIsNotBurnt`, `AtMostTwiceTheQuota`). For any
requests, tokens, callers, TTL, window, quota and age of clock readings. A
reading is at most `MaxDelay` old; an accepted token is in the cache for a TTL or
the clock has passed that time (`CacheInv`); what was admitted before a window
began is no younger than the window, and what is further back than the quota of
the window before it is a whole window older (`LimitInv`).

**`GroupsProofs`** (`MembersLeaveByDecision`, `AdmissionExtends`,
`AdminsHandOver`). For any channels, users, calls and bounds. What a call that
has decided will store follows from what it read (`CallInv`); the list it read is
the one stored, unless the call is marked raced; an admission between read and
store holds its channel's lock, so two of them never race (`LockInv`).

Only model-checked: the liveness properties (`TxTerminates`, `CallsReturn`,
`ClosesCleanUp`, `RequestsReturn`), which are out of the prover's reach.

## 6. Plan

1. An abstract specification of an invite claim, as `Replica` and `Shelf` are of
   the stores: a claim that waits and is answered with a decision.
2. `TrackedIsLive` between two daemon faults, with failing POSTs.
3. The hazards no property covers yet, where a statement of the code's intent
   can be found.

## 7. Not modelled

- Signatures, MACs, hashing, JSON, SSE and HTTP header syntax, MIME sniffing,
  FTS ranking and SQL text: pure, and where they matter a predicate or a field
  of the data decides what they would.
- `publish` and the inbox of the gossip transport: best effort, no state that a
  property could relate to anything.
- `/count`, the engram, persona and author-only access classes, and the NIP-11
  document.
- The checks of `ingest_one` before the store, and the refusals of
  `handle_event`: they decide which events enter, and the models admit any.
- Environment and settings parsing, the key file, address discovery.
- `store.rs`: a store that the binary does not construct.
