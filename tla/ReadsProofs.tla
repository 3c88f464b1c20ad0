----------------------------- MODULE ReadsProofs -----------------------------
(***************************************************************************)
(* Proofs about Reads, for any events, page sizes, kinds, filters and      *)
(* callers.  The invariant of a walk says what the next page will be taken *)
(* from: everything the client is still owed lies behind the cursor, and   *)
(* nothing it has seen does.  It rests on what the first n rows of an      *)
(* order are: the rest lies behind each of them.                           *)
(***************************************************************************)
EXTENDS Reads, FiniteSetTheorems, WellFoundedInduction, SequenceTheorems, TLAPS

Pcs == {"idle", "ask", "hop1", "hop2", "answered", "read", "end"}

Client == [mode : {None, "window", "thread", "plain"}, pc : Pcs, limit : Nat \ {0},
           kinds : Kinds \cup {{}}, root : Nat, cursor : Event \cup {None}, more : BOOLEAN,
           page : SUBSET Event, aux : SUBSET Event, struck : SUBSET Event, seen : SUBSET Event,
           again : BOOLEAN, must : SUBSET Event, due : SUBSET Event, quiet : BOOLEAN,
           hollow : BOOLEAN, failed : SUBSET {"hop1", "hop2"}, reader : Reader \cup {None}, search : BOOLEAN,
           filters : Seq(Filters), out : SUBSET Event]

StoreOK == /\ stored \subseteq Event /\ IsFiniteSet(stored)
           /\ deleted \subseteq stored

TypeOK == StoreOK /\ client \in Client

\* The rows of L a client still has before it, and those it asked for.
InLine(c, e) == \/ c.mode = "window" /\ TopLevel(e) /\ Behind(c.cursor, e)
                \/ c.mode = "thread" /\ InThread(e, c.root) /\ After(c.cursor, e)

Rows(c, L) == {e \in L : InLine(c, e)}

Asked(c, e) == c.mode = "window" => c.kinds = {} \/ e.kind \in c.kinds

\* A further page will be asked for.
GoesOn(c) == c.pc = "ask" \/ (c.pc \in {"hop1", "hop2", "answered"} /\ c.more)

\* A walk, over the live events L: what is owed is ahead, what was seen is not,
\* and while nothing is deleted an announced page is not empty.
WalkInv(c, L) ==
    /\ c.pc = "ask" => c.mode \in {"window", "thread"}
    /\ c.pc \in {"hop1", "hop2", "answered"} => c.mode = "window"
    /\ ~GoesOn(c) => c.must = {}
    /\ GoesOn(c) => /\ \A e \in c.must : e \in L /\ InLine(c, e) /\ Asked(c, e)
                    /\ \A e \in c.seen : ~InLine(c, e)
                    /\ c.mode = "window" /\ c.cursor # None /\ c.quiet => Rows(c, L) # {}
    /\ ~c.again /\ ~c.hollow

\* A plain or search request: its filters are of one sort.
GateInv(c) ==
    /\ c.pc = "read" => \A i \in DOMAIN c.filters : c.filters[i].search = c.search
    /\ \A e \in c.out : /\ e.kind \in ResultGated => c.reader \in e.tagged
                        /\ c.search => e.kind \notin PGated

IInv == TypeOK /\ WalkInv(client, Live) /\ GateInv(client)

\* A read is large enough for all aux events.
AuxEvents == {a \in Event : a.kind \in Aux \ {"remove"}}
AuxFits == IsFiniteSet(AuxEvents) /\ Cardinality(AuxEvents) <= QueryMax

\* The aux events that concern a page.
About(P) == {a \in AuxEvents : \E e \in P : a.target = e.id}

AuxInv ==
    /\ client.pc = "hop1" => client.due \subseteq Live \cap About(client.page)
    /\ client.pc \in {"hop2", "answered"} /\ "hop1" \notin client.failed => client.due \subseteq client.aux
    /\ client.pc = "answered" /\ "hop2" \notin client.failed =>
           \A a \in client.struck : \E d \in client.aux \cup deleted : d.kind = "delete" /\ d.target = a.id

----------------------------------------------------------------------------
(* The first n of a finite set in a total order.                           *)

First(S, n, R) == {e \in S : Cardinality({f \in S : <<f, e>> \in R}) < n}

\* R orders the events totally.
Order(R) ==
    /\ \A e \in Event : <<e, e>> \notin R
    /\ \A e, f, g \in Event : <<e, f>> \in R /\ <<f, g>> \in R => <<e, g>> \in R
    /\ \A e, f \in Event : e = f \/ <<e, f>> \in R \/ <<f, e>> \in R

NewerThan == {p \in Event \X Event : Newer(p[1], p[2])}
OlderThan == {p \in Event \X Event : Older(p[1], p[2])}

\* The order of the window and the order of the thread page are total: equal
\* seconds are told apart by the id.
LEMMA Orders == Order(NewerThan) /\ Order(OlderThan)
<1>1. \A e, f \in Event : /\ e.at \in Nat /\ e.id \in Nat /\ (e.id = f.id => e = f)
    BY EventAssumption
<1>2. Order(NewerThan)
    BY <1>1 DEF Order, NewerThan, Newer
<1>3. Order(OlderThan)
    BY <1>1 DEF Order, OlderThan, Older
<1> QED BY <1>2, <1>3

\* Newest and Oldest are the first ones in these orders.
LEMMA PagesFirst ==
    ASSUME NEW S \in SUBSET Event, NEW n
    PROVE  Newest(S, n) = First(S, n, NewerThan) /\ Oldest(S, n) = First(S, n, OlderThan)
<1>1. ASSUME NEW e \in S PROVE {f \in S : <<f, e>> \in NewerThan} = {f \in S : Newer(f, e)}
    BY DEF NewerThan
<1>2. ASSUME NEW e \in S PROVE {f \in S : <<f, e>> \in OlderThan} = {f \in S : Older(f, e)}
    BY DEF OlderThan
<1>3. Newest(S, n) = First(S, n, NewerThan)
    BY <1>1 DEF Newest, First
<1>4. Oldest(S, n) = First(S, n, OlderThan)
    BY <1>2 DEF Oldest, First
<1> QED BY <1>3, <1>4

\* A finite set of events that is not empty has a first element.
LEMMA HasFirst ==
    ASSUME NEW R, Order(R), NEW T \in SUBSET Event, IsFiniteSet(T), T # {}
    PROVE  \E m \in T : \A e \in T : e = m \/ <<m, e>> \in R
<1> DEFINE Before(e) == {f \in T : <<f, e>> \in R}
           F == {Before(e) : e \in T}
<1>1. \A e \in T : Before(e) \in SUBSET T /\ IsFiniteSet(Before(e))
    <2>1. ASSUME NEW U \in SUBSET T PROVE IsFiniteSet(U)
        BY <2>1, FS_Subset
    <2> QED BY <2>1
<1>2. F \subseteq FiniteSubsetsOf(T) /\ F # {}
    <2>1. F # {}
        OBVIOUS
    <2>2. ASSUME NEW B \in F PROVE B \in FiniteSubsetsOf(T)
        <3>1. PICK e \in T : B = Before(e)
            OBVIOUS
        <3> HIDE DEF F, Before
        <3> QED BY <1>1, <3>1 DEF FiniteSubsetsOf
    <2> HIDE DEF F
    <2> QED BY <2>1, <2>2
<1>3. PICK B \in F : \A C \in F : <<C, B>> \notin StrictSubsetOrdering(T)
    <2> HIDE DEF F
    <2> QED BY <1>2, FS_StrictSubsetOrderingWellFounded, WFMin
<1>4. PICK m \in T : B = Before(m)
    BY <1>3
<1>5. ASSUME NEW e \in T, <<e, m>> \in R
      PROVE  FALSE
    <2>1. Before(e) \subseteq Before(m) /\ e \in Before(m) /\ e \notin Before(e)
        BY <1>5 DEF Order
    <2>2. <<Before(e), B>> \in StrictSubsetOrdering(T)
        BY <1>4, <2>1 DEF StrictSubsetOrdering
    <2> QED BY <1>3, <2>2
<1> QED BY <1>5 DEF Order

\* And a last one.
LEMMA HasLast ==
    ASSUME NEW R, Order(R), NEW T \in SUBSET Event, IsFiniteSet(T), T # {}
    PROVE  \E m \in T : \A e \in T : e = m \/ <<e, m>> \in R
<1> DEFINE Q == {p \in Event \X Event : <<p[2], p[1]>> \in R}
<1>1. \A e, f \in Event : <<e, f>> \in Q <=> <<f, e>> \in R
    OBVIOUS
<1> HIDE DEF Q
<1>2. Order(Q)
    BY <1>1 DEF Order
<1>3. PICK m \in T : \A e \in T : e = m \/ <<m, e>> \in Q
    BY <1>2, HasFirst
<1> QED BY <1>1, <1>3

\* What the first n are: the rest is behind each of them, there are none only
\* when there is nothing, and they are all there is when there are fewer than n,
\* which is how a reader tells the last page.
LEMMA PageFacts ==
    ASSUME NEW R, Order(R), NEW S \in SUBSET Event, IsFiniteSet(S), NEW n \in Nat \ {0},
           NEW P, P = First(S, n, R)
    PROVE  /\ P \subseteq S /\ IsFiniteSet(P) /\ Cardinality(P) \in Nat
           /\ \A e \in P, f \in S \ P : <<e, f>> \in R
           /\ S # {} => P # {}
           /\ Cardinality(S) <= n => P = S
           /\ Cardinality(S) > n => P # S
           /\ Cardinality(P) < n => P = S
           /\ Cardinality(P) <= n
<1> DEFINE Before(e) == {f \in S : <<f, e>> \in R}
<1>1. \A e \in P : e \in S /\ Cardinality(Before(e)) < n
    BY DEF First
<1>2. \A e \in S : Cardinality(Before(e)) < n => e \in P
    BY DEF First
<1>3. ASSUME NEW U \in SUBSET S
      PROVE  IsFiniteSet(U) /\ Cardinality(U) \in Nat /\ Cardinality(U) <= Cardinality(S)
    BY <1>3, FS_Subset, FS_CardinalityType
<1>4. Cardinality(S) \in Nat
    BY FS_CardinalityType
<1>5. ASSUME NEW U \in SUBSET S, NEW V \in SUBSET U
      PROVE  Cardinality(V) <= Cardinality(U)
    BY <1>3, <1>5, FS_Subset
<1>6. P \subseteq S
    BY <1>1
<1>7. ASSUME NEW e \in P, NEW f \in S \ P
      PROVE  <<e, f>> \in R
    <2>1. SUFFICES ASSUME <<e, f>> \notin R PROVE FALSE
        OBVIOUS
    <2>2. <<f, e>> \in R /\ e \in Event /\ f \in Event
        BY <1>6, <1>7, <2>1 DEF Order
    <2>3. Before(f) \subseteq Before(e)
        BY <2>2 DEF Order
    <2>4. Before(e) \in SUBSET S /\ Before(f) \in SUBSET S
        OBVIOUS
    <2>5. Cardinality(Before(f)) <= Cardinality(Before(e))
        BY <1>5, <2>3, <2>4
    <2>6. PICK a \in Nat, b \in Nat : a = Cardinality(Before(e)) /\ b = Cardinality(Before(f))
        BY <1>3, <2>4
    <2>7. a < n /\ ~(b < n)
        BY <1>1, <1>2, <2>6
    <2> QED BY <2>5, <2>6, <2>7
<1>8. ASSUME S # {} PROVE P # {}
    <2>1. PICK m \in S : \A e \in S : e = m \/ <<m, e>> \in R
        BY <1>8, HasFirst
    <2>2. Before(m) = {}
        BY <2>1 DEF Order
    <2>3. Cardinality(Before(m)) = 0
        BY <2>2, FS_EmptySet
    <2>4. Cardinality(Before(m)) < n
        BY <2>3
    <2> QED BY <1>2, <2>4
<1>9. ASSUME S # {}
      PROVE  \E m \in S : /\ Cardinality(Before(m)) = Cardinality(S) - 1
                          /\ \A e \in S : Cardinality(Before(e)) <= Cardinality(S) - 1
    <2>1. PICK m \in S : \A e \in S : e = m \/ <<e, m>> \in R
        BY <1>9, HasLast
    <2>2. Before(m) = S \ {m}
        BY <2>1 DEF Order
    <2>3. Cardinality(S \ {m}) = Cardinality(S) - 1
        BY FS_RemoveElement
    <2>4. ASSUME NEW e \in S PROVE Cardinality(Before(e)) <= Cardinality(S) - 1
        <3>1. Before(e) \subseteq S \ {e} /\ S \ {e} \in SUBSET S
            BY DEF Order
        <3>2. Cardinality(S \ {e}) = Cardinality(S) - 1
            BY FS_RemoveElement
        <3>3. Cardinality(Before(e)) <= Cardinality(S \ {e})
            BY <1>5, <3>1
        <3> QED BY <3>2, <3>3
    <2>5. Cardinality(Before(m)) = Cardinality(S) - 1
        BY <2>2, <2>3
    <2> QED BY <2>4, <2>5
<1>10. ASSUME Cardinality(S) <= n PROVE P = S
    <2>1. SUFFICES ASSUME NEW e \in S PROVE e \in P
        BY <1>6
    <2>2. Cardinality(Before(e)) <= Cardinality(S) - 1
        BY <1>9, <2>1
    <2>3. PICK b \in Nat : b = Cardinality(Before(e))
        BY <1>3
    <2>4. Cardinality(Before(e)) < n
        BY <1>4, <1>10, <2>2, <2>3
    <2> QED BY <1>2, <2>4
<1>11. ASSUME Cardinality(S) > n PROVE P # S
    <2>1. S # {}
        BY <1>11, FS_EmptySet
    <2>2. PICK m \in S : Cardinality(Before(m)) = Cardinality(S) - 1
        BY <1>9, <2>1
    <2>3. ~(Cardinality(Before(m)) < n)
        BY <1>4, <1>11, <2>2
    <2> QED BY <1>1, <2>3
<1>12. ASSUME Cardinality(P) < n PROVE P = S
    <2>1. SUFFICES ASSUME S \ P # {} PROVE FALSE
        BY <1>6
    <2>2. PICK m \in S \ P : \A e \in S \ P : e = m \/ <<m, e>> \in R
        <3>1. IsFiniteSet(S \ P) /\ S \ P \in SUBSET Event
            BY <1>3
        <3> DEFINE U == S \ P
        <3>2. IsFiniteSet(U) /\ U \in SUBSET Event /\ U # {}
            BY <2>1, <3>1
        <3> HIDE DEF U
        <3>3. \E m \in U : \A e \in U : e = m \/ <<m, e>> \in R
            BY <3>2, HasFirst
        <3> QED BY <3>3 DEF U
    <2>3. Before(m) \subseteq P
        <3>1. SUFFICES ASSUME NEW f \in S, <<f, m>> \in R, f \notin P PROVE FALSE
            OBVIOUS
        <3>2. f = m \/ <<m, f>> \in R
            BY <2>2, <3>1
        <3> QED BY <3>1, <3>2 DEF Order
    <2>4. Cardinality(Before(m)) <= Cardinality(P)
        BY <1>5, <1>6, <2>3
    <2>5. PICK b \in Nat, p \in Nat : b = Cardinality(Before(m)) /\ p = Cardinality(P)
        BY <1>3, <1>6
    <2>6. Cardinality(Before(m)) < n
        BY <1>12, <2>4, <2>5
    <2> QED BY <1>2, <2>6
<1>13. IsFiniteSet(P) /\ Cardinality(P) \in Nat
    BY <1>3, <1>6
<1>14. Cardinality(P) <= n
    <2>1. SUFFICES ASSUME P # {} PROVE Cardinality(P) <= n
        BY FS_EmptySet
    <2>2. P \in SUBSET Event
        BY <1>6
    <2>3. PICK m \in P : \A e \in P : e = m \/ <<e, m>> \in R
        BY <1>13, <2>1, <2>2, HasLast
    <2>4. P \ {m} \subseteq Before(m) /\ Before(m) \in SUBSET S
        BY <1>6, <2>3
    <2>5. Cardinality(P \ {m}) <= Cardinality(Before(m))
        BY <1>5, <2>4
    <2>6. Cardinality(P \ {m}) = Cardinality(P) - 1
        BY <1>13, <2>3, FS_RemoveElement
    <2>7. Cardinality(Before(m)) < n
        BY <1>1, <2>3
    <2>8. PICK b \in Nat, p \in Nat : b = Cardinality(Before(m)) /\ p = Cardinality(P)
        BY <1>3, <1>13, <2>4
    <2> QED BY <2>5, <2>6, <2>7, <2>8
<1> HIDE DEF Before
<1> QED BY <1>6, <1>7, <1>8, <1>10, <1>11, <1>12, <1>13, <1>14

\* The row the cursor is put on: the last one of the page.
LEMMA CursorFacts ==
    ASSUME NEW R, Order(R), NEW P \in SUBSET Event, IsFiniteSet(P), P # {},
           NEW m, m = CHOOSE e \in P : \A f \in P : <<e, f>> \notin R
    PROVE  m \in P /\ \A f \in P : <<m, f>> \notin R
<1>1. PICK l \in P : \A f \in P : f = l \/ <<f, l>> \in R
    BY HasLast
<1>2. \A f \in P : <<l, f>> \notin R
    BY <1>1 DEF Order
<1> QED BY <1>2

----------------------------------------------------------------------------
(* Steps.                                                                  *)

\* An event that is stored while a client reads.
LEMMA IngestKeeps ==
    ASSUME IInv, NEW e \in Event, Ingest(e)
    PROVE  IInv' /\ (AuxInv => AuxInv')
<1>1. PICK K : K = IF e.kind \in Deletion THEN {t \in Live : t.id = e.target} ELSE {}
    OBVIOUS
<1>2. /\ stored' = stored \cup {e} /\ deleted' = deleted \cup K /\ e \notin stored
      /\ client' = [client EXCEPT !.must = @ \ K, !.due = @ \ K, !.quiet = @ /\ K = {}]
    BY <1>1 DEF Ingest
<1>3. K \subseteq Live /\ \A d \in K : e.kind \in Deletion /\ d.id = e.target
    BY <1>1
<1>4. StoreOK'
    BY <1>2, <1>3, FS_AddElement DEF IInv, TypeOK, StoreOK, Live
<1>5. PICK c \in Client : c = client
    BY DEF IInv, TypeOK
<1> DEFINE d == [c EXCEPT !.must = @ \ K, !.due = @ \ K, !.quiet = @ /\ K = {}]
<1>6. /\ d \in Client /\ d.must = c.must \ K /\ d.due = c.due \ K /\ d.quiet = (c.quiet /\ K = {})
      /\ d.mode = c.mode /\ d.pc = c.pc /\ d.kinds = c.kinds /\ d.root = c.root /\ d.cursor = c.cursor
      /\ d.more = c.more /\ d.page = c.page /\ d.aux = c.aux /\ d.struck = c.struck
      /\ d.seen = c.seen /\ d.again = c.again /\ d.hollow = c.hollow /\ d.reader = c.reader
      /\ d.search = c.search /\ d.filters = c.filters /\ d.out = c.out /\ d.failed = c.failed
    BY DEF Client
<1>7. client' = d
    BY <1>2, <1>5
<1> HIDE DEF d
<1>8. TypeOK'
    BY <1>4, <1>6, <1>7 DEF TypeOK
<1>9. /\ Live' = (Live \cup {e}) \ K
    BY <1>2, <1>3 DEF Live, IInv, TypeOK, StoreOK
<1>10. PICK L, N : L = Live /\ N = Live'
    OBVIOUS
<1>11. WalkInv(d, N)
    <2>1. WalkInv(c, L) /\ N = (L \cup {e}) \ K /\ K \subseteq L
        BY <1>3, <1>5, <1>9, <1>10 DEF IInv
    <2>2. GoesOn(d) <=> GoesOn(c)
        BY <1>6 DEF GoesOn
    <2>3. \A f : (InLine(d, f) <=> InLine(c, f)) /\ (Asked(d, f) <=> Asked(c, f))
        BY <1>6 DEF InLine, Asked
    <2>4. GoesOn(d) => /\ \A f \in d.must : f \in N /\ InLine(d, f) /\ Asked(d, f)
                       /\ \A f \in d.seen : ~InLine(d, f)
        BY <1>6, <2>1, <2>2, <2>3 DEF WalkInv
    <2>5. GoesOn(d) /\ d.mode = "window" /\ d.cursor # None /\ d.quiet => Rows(d, N) # {}
        BY <1>6, <2>1, <2>2, <2>3 DEF WalkInv, Rows
    <2> QED BY <1>6, <2>1, <2>2, <2>4, <2>5 DEF WalkInv
<1>12. WalkInv(client, Live)'
    BY <1>7, <1>10, <1>11
<1>13. GateInv(client)'
    BY <1>5, <1>6, <1>7 DEF IInv, GateInv
<1>14. ASSUME AuxInv PROVE AuxInv'
    <2>1. client'.pc = "hop1" => client'.due \subseteq Live' \cap About(client'.page)
        BY <1>5, <1>6, <1>7, <1>9, <1>14 DEF AuxInv
    <2>2. deleted \subseteq deleted'
        BY <1>2
    <2> QED BY <1>5, <1>6, <1>7, <1>14, <2>1, <2>2 DEF AuxInv
<1> QED BY <1>8, <1>12, <1>13, <1>14 DEF IInv

\* Nothing changes in the store.
LEMMA StoreStays ==
    ASSUME IInv, UNCHANGED <<stored, deleted>>
    PROVE  StoreOK' /\ Live' = Live
BY DEF IInv, TypeOK, StoreOK, Live

\* The client before a request.
LEMMA IdleFacts ==
    /\ Idle \in Client
    /\ Idle.mode = None /\ Idle.pc = "idle" /\ Idle.cursor = None /\ Idle.more = FALSE
    /\ Idle.page = {} /\ Idle.seen = {} /\ Idle.must = {} /\ Idle.due = {} /\ Idle.out = {}
    /\ Idle.again = FALSE /\ Idle.hollow = FALSE /\ Idle.quiet = TRUE
BY DEF Idle, Client, Pcs

\* The first page of a channel window is asked for.
LEMMA StartWindowKeeps ==
    ASSUME IInv, NEW n \in Limit, NEW k \in Kinds, StartWindow(n, k)
    PROVE  IInv' /\ (AuxInv => AuxInv')
<1>1. PICK M : M = {e \in Live : TopLevel(e) /\ (k = {} \/ e.kind \in k)}
    OBVIOUS
<1>2. /\ client' = [Idle EXCEPT !.mode = "window", !.pc = "ask", !.limit = n, !.kinds = k, !.must = M]
      /\ UNCHANGED <<stored, deleted>>
    BY <1>1 DEF StartWindow
<1>3. M \subseteq Live /\ M \subseteq Event
    BY <1>1 DEF IInv, TypeOK, StoreOK, Live
<1>4. StoreOK' /\ Live' = Live
    BY <1>2, StoreStays
<1>5. PICK c \in Client : c = Idle
    BY IdleFacts
<1> DEFINE b == [c EXCEPT !.mode = "window", !.pc = "ask", !.limit = n]
           d == [b EXCEPT !.kinds = k, !.must = M]
<1>6. n \in Nat \ {0}
    BY LimitAssumption
<1>7. /\ b \in Client /\ b.mode = "window" /\ b.pc = "ask" /\ b.cursor = c.cursor /\ b.seen = c.seen
      /\ b.again = c.again /\ b.hollow = c.hollow /\ b.out = c.out
    BY <1>6 DEF Client, Pcs
<1>8. client' = d
    BY <1>2, <1>5
<1> HIDE DEF b
<1>9. /\ d \in Client /\ d.kinds = k /\ d.must = M
      /\ d.mode = "window" /\ d.pc = "ask" /\ d.cursor = c.cursor /\ d.seen = c.seen
      /\ d.again = c.again /\ d.hollow = c.hollow /\ d.out = c.out
    BY <1>3, <1>7 DEF Client
<1> HIDE DEF d
<1>10. /\ d.cursor = None /\ d.seen = {} /\ d.again = FALSE /\ d.hollow = FALSE /\ d.out = {}
    BY <1>5, <1>9, IdleFacts
<1>11. PICK L : L = Live
    OBVIOUS
<1>12. WalkInv(d, L)
    <2>1. \A e \in M : e \in L /\ InLine(d, e) /\ Asked(d, e)
        BY <1>1, <1>9, <1>10, <1>11 DEF InLine, Asked, Behind
    <2> QED BY <1>9, <1>10, <2>1 DEF WalkInv, GoesOn
<1>13. WalkInv(client, Live)' /\ TypeOK' /\ GateInv(client)' /\ (AuxInv => AuxInv')
    BY <1>2, <1>4, <1>8, <1>9, <1>10, <1>11, <1>12 DEF TypeOK, GateInv, AuxInv
<1> QED BY <1>13 DEF IInv

\* The first page of a thread is asked for.
LEMMA StartThreadKeeps ==
    ASSUME IInv, NEW n \in Limit, NEW r \in Event, StartThread(n, r)
    PROVE  IInv' /\ (AuxInv => AuxInv')
<1>1. PICK M : M = {e \in Live : InThread(e, r.id)}
    OBVIOUS
<1>2. /\ client' = [Idle EXCEPT !.mode = "thread", !.pc = "ask", !.limit = n, !.root = r.id, !.must = M]
      /\ UNCHANGED <<stored, deleted>>
    BY <1>1 DEF StartThread
<1>3. M \subseteq Live /\ M \subseteq Event
    BY <1>1 DEF IInv, TypeOK, StoreOK, Live
<1>4. StoreOK' /\ Live' = Live
    BY <1>2, StoreStays
<1>5. PICK c \in Client : c = Idle
    BY IdleFacts
<1> DEFINE b == [c EXCEPT !.mode = "thread", !.pc = "ask", !.limit = n]
           d == [b EXCEPT !.root = r.id, !.must = M]
<1>6. n \in Nat \ {0} /\ r.id \in Nat
    BY LimitAssumption, EventAssumption
<1>7. /\ b \in Client /\ b.mode = "thread" /\ b.pc = "ask" /\ b.cursor = c.cursor /\ b.seen = c.seen
      /\ b.again = c.again /\ b.hollow = c.hollow /\ b.out = c.out
    BY <1>6 DEF Client, Pcs
<1>8. client' = d
    BY <1>2, <1>5
<1> HIDE DEF b
<1>9. /\ d \in Client /\ d.root = r.id /\ d.must = M
      /\ d.mode = "thread" /\ d.pc = "ask" /\ d.cursor = c.cursor /\ d.seen = c.seen
      /\ d.again = c.again /\ d.hollow = c.hollow /\ d.out = c.out
    BY <1>3, <1>6, <1>7 DEF Client
<1> HIDE DEF d
<1>10. /\ d.cursor = None /\ d.seen = {} /\ d.again = FALSE /\ d.hollow = FALSE /\ d.out = {}
    BY <1>5, <1>9, IdleFacts
<1>11. PICK L : L = Live
    OBVIOUS
<1>12. WalkInv(d, L)
    <2>1. \A e \in M : e \in L /\ InLine(d, e) /\ Asked(d, e)
        BY <1>1, <1>9, <1>10, <1>11 DEF InLine, Asked, After
    <2> QED BY <1>9, <1>10, <2>1 DEF WalkInv, GoesOn
<1>13. WalkInv(client, Live)' /\ TypeOK' /\ GateInv(client)' /\ (AuxInv => AuxInv')
    BY <1>2, <1>4, <1>8, <1>9, <1>10, <1>11, <1>12 DEF TypeOK, GateInv, AuxInv
<1> QED BY <1>13 DEF IInv

\* A plain or a search request is let in.
LEMMA AskKeeps ==
    ASSUME IInv, NEW q \in Query, NEW u \in Reader, Ask(q, u)
    PROVE  IInv' /\ (AuxInv => AuxInv')
<1>1. PICK s : s = \E i \in DOMAIN q : q[i].search
    OBVIOUS
<1>2. /\ client' = [Idle EXCEPT !.mode = "plain", !.pc = "read", !.reader = u, !.search = s, !.filters = q]
      /\ UNCHANGED <<stored, deleted>> /\ ~Mixed(q)
    BY <1>1 DEF Ask
<1>3. /\ s \in BOOLEAN /\ q \in Seq(Filters)
      /\ \A i \in DOMAIN q : q[i].search = s
    <2>1. q \in Seq(Filters) /\ \A f \in Filters : f.search \in BOOLEAN
        BY QueryAssumption
    <2>2. \A i \in DOMAIN q : q[i] \in Filters
        BY <2>1
    <2>3. \A i \in DOMAIN q : q[i].search \in BOOLEAN
        BY <2>1, <2>2
    <2>4. \A i, j \in DOMAIN q : q[i].search = q[j].search
        BY <1>2 DEF Mixed
    <2> QED BY <1>1, <2>1, <2>3, <2>4, Zenon
<1>4. StoreOK' /\ Live' = Live
    BY <1>2, StoreStays
<1>5. PICK c \in Client : c = Idle
    BY IdleFacts
<1> DEFINE b == [c EXCEPT !.mode = "plain", !.pc = "read", !.reader = u]
           d == [b EXCEPT !.search = s, !.filters = q]
<1>6. /\ b \in Client /\ b.mode = "plain" /\ b.pc = "read" /\ b.must = c.must
      /\ b.again = c.again /\ b.hollow = c.hollow /\ b.out = c.out
    BY DEF Client, Pcs
<1>7. client' = d
    BY <1>2, <1>5
<1> HIDE DEF b
<1>8. /\ d \in Client /\ d.search = s /\ d.filters = q
      /\ d.mode = "plain" /\ d.pc = "read" /\ d.must = c.must
      /\ d.again = c.again /\ d.hollow = c.hollow /\ d.out = c.out
    <2>1. d \in Client
        BY <1>3, <1>6 DEF Client
    <2>2. d.search = s /\ d.filters = q /\ d.mode = b.mode /\ d.pc = b.pc /\ d.must = b.must
        BY <1>6 DEF Client
    <2>3. d.again = b.again /\ d.hollow = b.hollow /\ d.out = b.out
        BY <1>6 DEF Client
    <2> HIDE DEF d
    <2> QED BY <1>6, <2>1, <2>2, <2>3
<1> HIDE DEF d
<1>9. d.must = {} /\ d.again = FALSE /\ d.hollow = FALSE /\ d.out = {}
    BY <1>5, <1>8, IdleFacts
<1>10. \A L : WalkInv(d, L)
    BY <1>8, <1>9 DEF WalkInv, GoesOn
<1>11. GateInv(d)
    BY <1>3, <1>8, <1>9 DEF GateInv
<1>12. WalkInv(client, Live)' /\ TypeOK' /\ GateInv(client)' /\ (AuxInv => AuxInv')
    BY <1>2, <1>4, <1>7, <1>8, <1>9, <1>10, <1>11 DEF TypeOK, AuxInv
<1> QED BY <1>12 DEF IInv

\* One filter of the list is read.
LEMMA ReadKeeps ==
    ASSUME IInv, Read
    PROVE  IInv' /\ (AuxInv => AuxInv')
<1>1. PICK c \in Client : c = client
    BY DEF IInv, TypeOK
<1>2. PICK f : f = Head(c.filters)
    OBVIOUS
<1>3. PICK O : O = {e \in Newest({e \in Live : Matches(f, e)
                                     /\ ~(f.search /\ e.kind \in PGated)}, QueryMax) :
                        ~Hidden(f, e, c.reader)}
    OBVIOUS
<1>4. /\ c.pc = "read" /\ c.filters # <<>> /\ UNCHANGED <<stored, deleted>>
      /\ client' = [c EXCEPT !.filters = Tail(@), !.out = @ \cup O]
    BY <1>1, <1>2, <1>3 DEF Read
<1>5. StoreOK' /\ Live' = Live
    BY <1>4, StoreStays
<1>6. \A e \in O : e \in Event /\ ~Hidden(f, e, c.reader)
    BY <1>3 DEF Newest, Live, IInv, TypeOK, StoreOK
<1>7. c.filters \in Seq(Filters)
    BY DEF Client
<1>8. PICK F : F = c.filters
    OBVIOUS
<1>9. /\ f = F[1] /\ 1 \in DOMAIN F /\ Tail(F) \in Seq(Filters)
      /\ \A i \in DOMAIN Tail(F) : i + 1 \in DOMAIN F /\ Tail(F)[i] = F[i + 1]
    BY <1>2, <1>4, <1>7, <1>8
<1> DEFINE d == [c EXCEPT !.filters = Tail(@), !.out = @ \cup O]
<1>10. /\ d \in Client /\ d.filters = Tail(F) /\ d.out = c.out \cup O
       /\ d.mode = c.mode /\ d.pc = c.pc /\ d.must = c.must /\ d.again = c.again
       /\ d.hollow = c.hollow /\ d.reader = c.reader /\ d.search = c.search
    BY <1>6, <1>8, <1>9 DEF Client
<1>11. client' = d
    BY <1>4
<1> HIDE DEF d
<1>12. \A L : WalkInv(d, L)
    BY <1>1, <1>4, <1>10 DEF IInv, WalkInv, GoesOn
<1>13. GateInv(c) /\ \A i \in DOMAIN F : F[i].search = c.search
    BY <1>1, <1>4, <1>8 DEF IInv, GateInv
<1>14. GateInv(d)
    <2>1. \A i \in DOMAIN Tail(F) : Tail(F)[i].search = c.search
        BY <1>9, <1>13
    <2>2. f.search = c.search
        BY <1>9, <1>13
    <2>3. \A e \in O : /\ e.kind \in ResultGated => c.reader \in e.tagged
                       /\ c.search => e.kind \notin PGated
        BY <1>6, <2>2 DEF Hidden
    <2> QED BY <1>10, <1>13, <2>1, <2>3 DEF GateInv
<1>15. WalkInv(client, Live)' /\ TypeOK' /\ GateInv(client)' /\ (AuxInv => AuxInv')
    BY <1>1, <1>4, <1>5, <1>10, <1>11, <1>12, <1>14 DEF TypeOK, AuxInv
<1> QED BY <1>15 DEF IInv

\* The last filter has been read, and the client is done with its answer.
LEMMA EndKeeps ==
    ASSUME IInv, Answered \/ Done
    PROVE  IInv' /\ (AuxInv => AuxInv')
<1>1. PICK c \in Client : c = client
    BY DEF IInv, TypeOK
<1>2. StoreOK' /\ Live' = Live /\ deleted' = deleted
    BY StoreStays DEF Answered, Done
<1>3. CASE Answered
    <2> DEFINE d == [c EXCEPT !.pc = "end"]
    <2>1. /\ d \in Client /\ d.pc = "end" /\ d.mode = c.mode /\ d.must = c.must
          /\ d.again = c.again /\ d.hollow = c.hollow /\ d.out = c.out
          /\ d.reader = c.reader /\ d.search = c.search
        BY DEF Client, Pcs
    <2>2. client' = d /\ c.pc = "read"
        BY <1>1, <1>3 DEF Answered
    <2> HIDE DEF d
    <2>3. (\A L : WalkInv(d, L)) /\ GateInv(d)
        BY <1>1, <2>1, <2>2 DEF IInv, WalkInv, GateInv, GoesOn
    <2>4. WalkInv(client, Live)' /\ TypeOK' /\ GateInv(client)' /\ (AuxInv => AuxInv')
        BY <1>2, <2>1, <2>2, <2>3 DEF TypeOK, AuxInv
    <2> QED BY <2>4 DEF IInv
<1>4. CASE Done
    <2>1. PICK d : d = Idle
        OBVIOUS
    <2>2. client' = d
        BY <1>4, <2>1 DEF Done
    <2>3. d \in Client /\ d.pc = "idle" /\ d.must = {} /\ d.again = FALSE /\ d.hollow = FALSE /\ d.out = {}
        BY <2>1, IdleFacts
    <2>4. (\A L : WalkInv(d, L)) /\ GateInv(d)
        BY <2>3 DEF WalkInv, GateInv, GoesOn
    <2>5. WalkInv(client, Live)' /\ TypeOK' /\ GateInv(client)' /\ (AuxInv => AuxInv')
        BY <1>2, <2>2, <2>3, <2>4 DEF TypeOK, AuxInv
    <2> QED BY <2>5 DEF IInv
<1> QED BY <1>3, <1>4

\* The client goes on to the next page of a window, or ends.
LEMMA NextWindowKeeps ==
    ASSUME IInv, NextWindow
    PROVE  IInv' /\ (AuxInv => AuxInv')
<1>1. PICK c \in Client : c = client
    BY DEF IInv, TypeOK
<1>2. PICK pc : pc = IF c.more THEN "ask" ELSE "end"
    OBVIOUS
<1>3. /\ client' = [c EXCEPT !.pc = pc, !.page = {}, !.aux = {}, !.struck = {}, !.due = {}, !.failed = {}]
      /\ c.pc = "answered" /\ UNCHANGED <<stored, deleted>>
    BY <1>1, <1>2 DEF NextWindow
<1>4. StoreOK' /\ Live' = Live
    BY <1>3, StoreStays
<1> DEFINE b == [c EXCEPT !.pc = pc, !.page = {}]
           d == [b EXCEPT !.aux = {}, !.struck = {}, !.due = {}, !.failed = {}]
<1>5. client' = d
    BY <1>3
<1>6. /\ b \in Client /\ b.pc = pc /\ b.mode = c.mode /\ b.must = c.must /\ b.seen = c.seen
      /\ b.again = c.again /\ b.hollow = c.hollow /\ b.out = c.out /\ b.cursor = c.cursor
      /\ b.reader = c.reader /\ b.search = c.search /\ b.more = c.more /\ b.quiet = c.quiet
      /\ b.kinds = c.kinds /\ b.root = c.root /\ b.filters = c.filters
    <2>1. pc \in Pcs
        BY <1>2 DEF Pcs
    <2> HIDE DEF d
    <2>2. b \in Client
        BY <2>1 DEF Client
    <2>3. /\ b.pc = pc /\ b.mode = c.mode /\ b.must = c.must /\ b.seen = c.seen
          /\ b.again = c.again /\ b.hollow = c.hollow /\ b.out = c.out /\ b.cursor = c.cursor
        BY DEF Client
    <2>4. /\ b.reader = c.reader /\ b.search = c.search /\ b.more = c.more /\ b.quiet = c.quiet
          /\ b.kinds = c.kinds /\ b.root = c.root /\ b.filters = c.filters
        BY DEF Client
    <2> HIDE DEF b
    <2> QED BY <2>2, <2>3, <2>4
<1> HIDE DEF b
<1>7. /\ d \in Client /\ d.pc = pc /\ d.mode = c.mode /\ d.must = c.must /\ d.seen = c.seen
      /\ d.again = c.again /\ d.hollow = c.hollow /\ d.out = c.out /\ d.cursor = c.cursor
      /\ d.reader = c.reader /\ d.search = c.search /\ d.more = c.more /\ d.quiet = c.quiet
      /\ d.kinds = c.kinds /\ d.root = c.root /\ d.filters = c.filters
    <2>1. d \in Client
        BY <1>6 DEF Client
    <2>2. /\ d.pc = b.pc /\ d.mode = b.mode /\ d.must = b.must /\ d.seen = b.seen
          /\ d.again = b.again /\ d.hollow = b.hollow /\ d.out = b.out /\ d.cursor = b.cursor
        BY <1>6 DEF Client
    <2>3. /\ d.reader = b.reader /\ d.search = b.search /\ d.more = b.more /\ d.quiet = b.quiet
          /\ d.kinds = b.kinds /\ d.root = b.root /\ d.filters = b.filters
        BY <1>6 DEF Client
    <2> HIDE DEF d
    <2> QED BY <1>6, <2>1, <2>2, <2>3
<1> HIDE DEF d
<1>8. PICK L : L = Live
    OBVIOUS
<1>9. WalkInv(d, L)
    <2>1. WalkInv(c, L)
        BY <1>1, <1>8 DEF IInv
    <2>2. c.more \in BOOLEAN /\ (GoesOn(c) <=> c.more) /\ (GoesOn(d) <=> c.more)
        BY <1>2, <1>3, <1>7 DEF GoesOn, Client
    <2>3. \A f : (InLine(d, f) <=> InLine(c, f)) /\ (Asked(d, f) <=> Asked(c, f))
        BY <1>7 DEF InLine, Asked
    <2>4. Rows(d, L) = Rows(c, L)
        BY <2>3 DEF Rows
    <2>5. d.pc = "ask" => d.mode = "window"
        BY <1>3, <1>7, <2>1 DEF WalkInv
    <2> QED BY <1>2, <1>3, <1>7, <2>1, <2>2, <2>3, <2>4, <2>5 DEF WalkInv
<1>10. GateInv(d)
    BY <1>1, <1>2, <1>7 DEF IInv, GateInv
<1>11. WalkInv(client, Live)' /\ TypeOK' /\ GateInv(client)' /\ (AuxInv => AuxInv')
    BY <1>2, <1>3, <1>4, <1>5, <1>7, <1>8, <1>9, <1>10 DEF TypeOK, AuxInv
<1> QED BY <1>11 DEF IInv

\* A read that is large enough for all aux events leaves none out.
LEMMA AllAux ==
    ASSUME AuxFits, NEW S \in SUBSET AuxEvents
    PROVE  Newest(S, QueryMax) = S
<1>1. IsFiniteSet(S) /\ Cardinality(S) <= Cardinality(AuxEvents) /\ S \in SUBSET Event
    BY FS_Subset DEF AuxFits, AuxEvents
<1>2. Cardinality(S) \in Nat /\ Cardinality(AuxEvents) \in Nat
    BY <1>1, FS_CardinalityType DEF AuxFits
<1>3. Cardinality(S) <= QueryMax /\ QueryMax \in Nat \ {0}
    BY <1>1, <1>2, LimitAssumption DEF AuxFits
<1>4. PICK P : P = First(S, QueryMax, NewerThan)
    OBVIOUS
<1>5. P = S
    BY <1>1, <1>3, <1>4, Orders, PageFacts
<1> QED BY <1>1, <1>4, <1>5, PagesFirst

\* The aux events of the page's rows.
LEMMA Hop1Keeps ==
    ASSUME IInv, Hop1
    PROVE  IInv' /\ (AuxInv /\ AuxFits => AuxInv')
<1>1. PICK c \in Client : c = client
    BY DEF IInv, TypeOK
<1>2. PICK S : S = {a \in Live : a.kind \in Aux \ {"remove"} /\ \E e \in c.page : a.target = e.id}
    OBVIOUS
<1>3. PICK Y : Y = Newest(S, QueryMax)
    OBVIOUS
<1> DEFINE Put(X, F) == [c EXCEPT !.pc = "hop2", !.aux = X, !.failed = F]
<1>21. c.pc = "hop1" /\ UNCHANGED <<stored, deleted>>
    BY <1>1 DEF Hop1
<1>22. \/ client' = [c EXCEPT !.pc = "hop2", !.aux = Y]
       \/ client' = [c EXCEPT !.pc = "hop2", !.aux = {}, !.failed = @ \cup {"hop1"}]
    BY <1>1, <1>2, <1>3 DEF Hop1
<1>23. client' = Put(Y, c.failed) \/ client' = Put({}, c.failed \cup {"hop1"})
    <2>1. CASE client' = [c EXCEPT !.pc = "hop2", !.aux = Y]
        <3>1. client' = [c EXCEPT !.pc = "hop2", !.aux = Y, !.failed = c.failed]
            BY <2>1 DEF Client
        <3> QED BY <3>1
    <2>2. CASE client' = [c EXCEPT !.pc = "hop2", !.aux = {}, !.failed = c.failed \cup {"hop1"}]
        BY <2>2
    <2> QED BY <1>22, <2>1, <2>2
<1> HIDE DEF Put
<1>24. PICK X, F : /\ client' = Put(X, F)
                   /\ (X = Y /\ F = c.failed) \/ (X = {} /\ F = c.failed \cup {"hop1"})
    <2>1. CASE client' = Put(Y, c.failed)
        BY <2>1
    <2>2. CASE client' = Put({}, c.failed \cup {"hop1"})
        BY <2>2
    <2> QED BY <1>23, <2>1, <2>2
<1>4. /\ client' = [c EXCEPT !.pc = "hop2", !.aux = X, !.failed = F]
      /\ (X = Y /\ F = c.failed) \/ (X = {} /\ F = c.failed \cup {"hop1"})
      /\ c.pc = "hop1" /\ UNCHANGED <<stored, deleted>>
    BY <1>21, <1>24 DEF Put
<1>5. StoreOK' /\ Live' = Live
    BY <1>4, StoreStays
<1>6. Live \subseteq Event /\ S \subseteq Event /\ X \subseteq Event
    BY <1>2, <1>3, <1>4 DEF Newest, Live, IInv, TypeOK, StoreOK, Client
<1>0. F \in SUBSET {"hop1", "hop2"}
    BY <1>4 DEF Client
<1> DEFINE d == [c EXCEPT !.pc = "hop2", !.aux = X, !.failed = F]
<1>7. client' = d
    BY <1>4
<1>8. /\ d \in Client /\ d.pc = "hop2" /\ d.aux = X
      /\ d.mode = c.mode /\ d.must = c.must /\ d.seen = c.seen
      /\ d.again = c.again /\ d.hollow = c.hollow /\ d.out = c.out /\ d.cursor = c.cursor
      /\ d.reader = c.reader /\ d.search = c.search /\ d.more = c.more /\ d.quiet = c.quiet
      /\ d.kinds = c.kinds /\ d.root = c.root /\ d.filters = c.filters /\ d.due = c.due
      /\ d.failed = F
    BY <1>0, <1>6 DEF Client, Pcs
<1> HIDE DEF d
<1>9. PICK L : L = Live
    OBVIOUS
<1>10. WalkInv(d, L)
    <2>1. WalkInv(c, L)
        BY <1>1, <1>9 DEF IInv
    <2>2. GoesOn(d) <=> GoesOn(c)
        BY <1>4, <1>8 DEF GoesOn
    <2>3. \A f : (InLine(d, f) <=> InLine(c, f)) /\ (Asked(d, f) <=> Asked(c, f))
        BY <1>8 DEF InLine, Asked
    <2>4. Rows(d, L) = Rows(c, L)
        BY <2>3 DEF Rows
    <2> QED BY <1>4, <1>8, <2>1, <2>2, <2>3, <2>4 DEF WalkInv
<1>11. GateInv(d)
    BY <1>1, <1>8 DEF IInv, GateInv
<1>12. WalkInv(client, Live)' /\ TypeOK' /\ GateInv(client)'
    BY <1>5, <1>7, <1>8, <1>9, <1>10, <1>11 DEF TypeOK
<1>13. ASSUME AuxInv, AuxFits PROVE AuxInv'
    <2>1. S = Live \cap About(c.page) /\ S \in SUBSET AuxEvents
        BY <1>2, <1>6 DEF About, AuxEvents
    <2>2. Y = S
        BY <1>3, <1>13, <2>1, AllAux
    <2>3. c.due \subseteq S /\ ("hop1" \notin F => X = S)
        BY <1>1, <1>4, <1>13, <2>1, <2>2 DEF AuxInv
    <2> QED BY <1>4, <1>7, <1>8, <1>13, <2>2, <2>3 DEF AuxInv
<1> QED BY <1>12, <1>13 DEF IInv

\* The deletions of those.
LEMMA Hop2Keeps ==
    ASSUME IInv, Hop2
    PROVE  IInv' /\ (AuxInv /\ AuxFits => AuxInv')
<1>1. PICK c \in Client : c = client
    BY DEF IInv, TypeOK
<1>2. PICK S : S = {d \in Live : d.kind = "delete" /\ \E a \in c.aux : d.target = a.id}
    OBVIOUS
<1>3. PICK Y : Y = c.aux \cup Newest(S, QueryMax)
    OBVIOUS
<1>4. PICK K : K = {a \in c.aux \cap deleted : \E d \in stored : d.kind = "delete" /\ d.target = a.id}
    OBVIOUS
<1> DEFINE Put(X, F) == [c EXCEPT !.pc = "answered", !.aux = X, !.struck = K, !.failed = F]
<1>21. c.pc = "hop2" /\ UNCHANGED <<stored, deleted>>
    BY <1>1 DEF Hop2
<1>22. \/ client' = [c EXCEPT !.pc = "answered", !.struck = K, !.aux = @ \cup Newest(S, QueryMax)]
       \/ client' = [c EXCEPT !.pc = "answered", !.struck = K, !.failed = @ \cup {"hop2"}]
    BY <1>1, <1>2, <1>4 DEF Hop2
<1>23. client' = Put(Y, c.failed) \/ client' = Put(c.aux, c.failed \cup {"hop2"})
    <2>1. CASE client' = [c EXCEPT !.pc = "answered", !.struck = K, !.aux = Y]
        <3>1. client' = [c EXCEPT !.pc = "answered", !.aux = Y, !.struck = K, !.failed = c.failed]
            BY <2>1 DEF Client
        <3> QED BY <3>1
    <2>2. CASE client' = [c EXCEPT !.pc = "answered", !.struck = K, !.failed = c.failed \cup {"hop2"}]
        <3>1. client' = [c EXCEPT !.pc = "answered", !.aux = c.aux, !.struck = K,
                                  !.failed = c.failed \cup {"hop2"}]
            BY <2>2 DEF Client
        <3> QED BY <3>1
    <2> QED BY <1>3, <1>22, <2>1, <2>2
<1> HIDE DEF Put
<1>24. PICK X, F : /\ client' = Put(X, F)
                   /\ (X = Y /\ F = c.failed) \/ (X = c.aux /\ F = c.failed \cup {"hop2"})
    <2>1. CASE client' = Put(Y, c.failed)
        BY <2>1
    <2>2. CASE client' = Put(c.aux, c.failed \cup {"hop2"})
        BY <2>2
    <2> QED BY <1>23, <2>1, <2>2
<1>5. /\ client' = [c EXCEPT !.pc = "answered", !.aux = X, !.struck = K, !.failed = F]
      /\ (X = Y /\ F = c.failed) \/ (X = c.aux /\ F = c.failed \cup {"hop2"})
      /\ c.pc = "hop2" /\ UNCHANGED <<stored, deleted>>
    BY <1>21, <1>24 DEF Put
<1>6. StoreOK' /\ Live' = Live
    BY <1>5, StoreStays
<1>7. S \subseteq Event /\ X \subseteq Event /\ K \subseteq Event /\ c.aux \subseteq Event
    BY <1>2, <1>3, <1>4, <1>5 DEF Newest, Live, IInv, TypeOK, StoreOK, Client
<1>0. F \in SUBSET {"hop1", "hop2"}
    BY <1>5 DEF Client
<1> DEFINE d == [c EXCEPT !.pc = "answered", !.aux = X, !.struck = K, !.failed = F]
<1>8. client' = d
    BY <1>5
<1>9. /\ d \in Client /\ d.pc = "answered" /\ d.aux = X /\ d.struck = K
      /\ d.mode = c.mode /\ d.must = c.must /\ d.seen = c.seen
      /\ d.again = c.again /\ d.hollow = c.hollow /\ d.out = c.out /\ d.cursor = c.cursor
      /\ d.reader = c.reader /\ d.search = c.search /\ d.more = c.more /\ d.quiet = c.quiet
      /\ d.kinds = c.kinds /\ d.root = c.root /\ d.filters = c.filters /\ d.due = c.due
      /\ d.failed = F
    BY <1>0, <1>7 DEF Client, Pcs
<1> HIDE DEF d
<1>10. PICK L : L = Live
    OBVIOUS
<1>11. WalkInv(d, L)
    <2>1. WalkInv(c, L)
        BY <1>1, <1>10 DEF IInv
    <2>2. GoesOn(d) <=> GoesOn(c)
        BY <1>5, <1>9 DEF GoesOn
    <2>3. \A f : (InLine(d, f) <=> InLine(c, f)) /\ (Asked(d, f) <=> Asked(c, f))
        BY <1>9 DEF InLine, Asked
    <2>4. Rows(d, L) = Rows(c, L)
        BY <2>3 DEF Rows
    <2> QED BY <1>5, <1>9, <2>1, <2>2, <2>3, <2>4 DEF WalkInv
<1>12. GateInv(d)
    BY <1>1, <1>9 DEF IInv, GateInv
<1>13. WalkInv(client, Live)' /\ TypeOK' /\ GateInv(client)'
    BY <1>6, <1>8, <1>9, <1>10, <1>11, <1>12 DEF TypeOK
<1>14. ASSUME AuxInv, AuxFits PROVE AuxInv'
    <2>1. S \in SUBSET AuxEvents
        BY <1>2, <1>7 DEF AuxEvents, Aux, Deletion
    <2>2. Y = c.aux \cup S
        BY <1>3, <1>14, <2>1, AllAux
    <2>3. ASSUME NEW a \in K, "hop2" \notin F
          PROVE  \E e \in X \cup deleted : e.kind = "delete" /\ e.target = a.id
        <3>1. PICK e \in stored : e.kind = "delete" /\ e.target = a.id
            BY <1>4
        <3>2. e \notin deleted => e \in S
            BY <1>2, <1>4, <3>1 DEF Live
        <3>3. X = Y
            BY <1>5, <2>3
        <3> QED BY <2>2, <3>1, <3>2, <3>3
    <2>4. "hop1" \notin F => c.due \subseteq X
        BY <1>1, <1>5, <1>14, <2>2 DEF AuxInv
    <2> QED BY <1>5, <1>8, <1>9, <1>14, <2>3, <2>4 DEF AuxInv
<1> QED BY <1>13, <1>14 DEF IInv

\* The rows of a window page.  What is owed and not on the page is behind its last
\* row; what was seen on earlier pages is not, since that row is behind them.
LEMMA WindowRowsKeeps ==
    ASSUME IInv, WindowRows
    PROVE  IInv' /\ (AuxInv => AuxInv')
<1>1. PICK c \in Client : c = client
    BY DEF IInv, TypeOK
<1>2. PICK L : L = Live
    OBVIOUS
<1> DEFINE rows == {e \in Live : TopLevel(e) /\ Behind(client.cursor, e)}
           page == Newest(rows, client.limit)
           more == Cardinality(rows) > client.limit
           asked == {e \in page : Wanted(e)}
           last == IF more THEN CHOOSE e \in page : \A f \in page : ~Newer(e, f) ELSE client.cursor
           again == client.again \/ asked \cap client.seen # {}
           hollow == client.hollow \/ (page = {} /\ client.cursor # None /\ client.quiet)
           due == {a \in Live : a.kind \in Aux \ {"remove"} /\ \E e \in page : a.target = e.id}
<1>3. /\ client.pc = "ask" /\ client.mode = "window" /\ UNCHANGED <<stored, deleted>>
      /\ client' = [client EXCEPT !.pc = "hop1", !.page = page, !.more = more, !.cursor = last,
                                  !.again = again, !.seen = @ \cup asked, !.must = @ \ asked,
                                  !.hollow = hollow, !.quiet = TRUE, !.due = due]
    BY Zenon DEF WindowRows
<1>4. PICK S : S = rows
    OBVIOUS
<1>5. PICK P : P = page
    OBVIOUS
<1>6. PICK M : M = more
    OBVIOUS
<1>7. PICK Q : Q = asked
    OBVIOUS
<1>8. PICK k : k = last
    OBVIOUS
<1>9. PICK A : A = again
    OBVIOUS
<1>10. PICK H : H = hollow
    OBVIOUS
<1>11. PICK D : D = due
    OBVIOUS
<1>12. S = {e \in L : TopLevel(e) /\ Behind(c.cursor, e)} /\ P = Newest(S, c.limit)
    BY <1>1, <1>2, <1>4, <1>5
<1>13. (M => Cardinality(S) > c.limit) /\ (~M => ~(Cardinality(S) > c.limit)) /\ M \in BOOLEAN
    <2>1. M \in BOOLEAN
        <3>1. PICK x : x = Cardinality(rows)
            OBVIOUS
        <3>2. PICK y : y = client.limit
            OBVIOUS
        <3>3. M = (x > y)
            BY <1>6, <3>1, <3>2, Zenon
        <3> QED BY <3>3
    <2>2. (M => Cardinality(rows) > client.limit) /\ (~M => ~(Cardinality(rows) > client.limit))
        BY <1>6, Zenon
    <2> HIDE DEF rows
    <2> QED BY <1>1, <1>4, <2>1, <2>2, Zenon
<1>14. Q = {e \in P : Wanted(e)}
    BY <1>5, <1>7
<1>15. /\ ~M => k = c.cursor
       /\ M => k = CHOOSE e \in page : \A f \in page : ~Newer(e, f)
    <2>1. /\ ~M => last = client.cursor
          /\ M => last = CHOOSE e \in page : \A f \in page : ~Newer(e, f)
        BY <1>6, Zenon
    <2> HIDE DEF page, last
    <2> QED BY <1>1, <1>8, <2>1, Zenon
<1>16. (A => c.again \/ Q \cap c.seen # {}) /\ A \in BOOLEAN
    BY <1>1, <1>7, <1>9
<1>17. (H => c.hollow \/ (P = {} /\ c.cursor # None /\ c.quiet)) /\ H \in BOOLEAN
    BY <1>1, <1>5, <1>10
<1>18. D = {a \in L : a.kind \in Aux \ {"remove"} /\ \E e \in P : a.target = e.id}
    BY <1>2, <1>5, <1>11
<1> HIDE DEF rows, page, more, asked, last, again, hollow, due
<1>19. /\ c.pc = "ask" /\ c.mode = "window" /\ UNCHANGED <<stored, deleted>>
       /\ client' = [c EXCEPT !.pc = "hop1", !.page = P, !.more = M, !.cursor = k, !.again = A,
                              !.seen = @ \cup Q, !.must = @ \ Q, !.hollow = H, !.quiet = TRUE,
                              !.due = D]
    BY <1>1, <1>3, <1>5, <1>6, <1>7, <1>8, <1>9, <1>10, <1>11
<1>20. StoreOK' /\ Live' = L
    BY <1>2, <1>19, StoreStays
<1>21. L \in SUBSET Event /\ IsFiniteSet(L)
    BY <1>2, FS_Subset DEF Live, IInv, TypeOK, StoreOK
<1>22. S \in SUBSET Event /\ IsFiniteSet(S) /\ S \subseteq L
    BY <1>12, <1>21, FS_Subset
<1>23. c.limit \in Nat \ {0} /\ c.cursor \in Event \cup {None} /\ c.must \subseteq Event /\ c.seen \subseteq Event
    BY DEF Client
<1>24. P = First(S, c.limit, NewerThan)
    BY <1>12, <1>22, PagesFirst
<1>25. PICK n \in Nat \ {0} : n = c.limit
    BY <1>23
<1>26. /\ P \subseteq S /\ IsFiniteSet(P)
       /\ \A e \in P, f \in S \ P : <<e, f>> \in NewerThan
       /\ S # {} => P # {}
       /\ ~M => P = S
       /\ M => P # S
    <2>1. /\ P \subseteq S /\ IsFiniteSet(P) /\ Cardinality(P) \in Nat
          /\ \A e \in P, f \in S \ P : <<e, f>> \in NewerThan
          /\ S # {} => P # {}
          /\ Cardinality(S) <= n => P = S
          /\ Cardinality(S) > n => P # S
          /\ Cardinality(P) < n => P = S
        <3>1. Order(NewerThan) /\ P = First(S, n, NewerThan)
            BY Orders, <1>24, <1>25
        <3> QED BY <1>22, <3>1, PageFacts
    <2>2. Cardinality(S) \in Nat
        BY <1>22, FS_CardinalityType
    <2>3. M \/ Cardinality(S) <= n
        BY <1>13, <1>25, <2>2
    <2> QED BY <1>13, <1>25, <2>1, <2>3
<1>27. M => k \in P /\ \A f \in P : ~Newer(k, f)
    <2>1. SUFFICES ASSUME M PROVE k \in P /\ \A f \in P : ~Newer(k, f)
        OBVIOUS
    <2>2. P # {} /\ P \in SUBSET Event
        BY <1>22, <1>26, <2>1
    <2>3. PICK l \in P : \A f \in P : f = l \/ <<f, l>> \in NewerThan
        BY <1>26, <2>2, Orders, HasLast
    <2>4. \A f \in P : <<l, f>> \notin NewerThan
        BY <2>2, <2>3, Orders DEF Order
    <2>5. \A f \in P : ~Newer(l, f)
        BY <2>2, <2>4 DEF NewerThan
    <2>6. k = CHOOSE e \in page : \A f \in page : ~Newer(e, f)
        BY <1>15, <2>1
    <2>7. \E e \in page : \A f \in page : ~Newer(e, f)
        BY <1>5, <2>5
    <2>8. k \in page /\ \A f \in page : ~Newer(k, f)
        BY <2>6, <2>7
    <2> QED BY <1>5, <2>8
<1>28. M \in BOOLEAN /\ k \in Event \cup {None} /\ P \subseteq Event /\ Q \subseteq P /\ D \subseteq Event
    BY <1>13, <1>14, <1>15, <1>18, <1>21, <1>22, <1>23, <1>26, <1>27
<1>29. WalkInv(c, L)
    BY <1>1, <1>2 DEF IInv
<1>30. \A e : (e \in S <=> e \in L /\ InLine(c, e)) /\ (Wanted(e) <=> Asked(c, e))
    BY <1>1, <1>12, <1>19 DEF InLine, Asked, Wanted
<1>31. A = FALSE
    <2>1. \A e \in c.seen : e \notin Q
        BY <1>19, <1>26, <1>28, <1>29, <1>30 DEF WalkInv, GoesOn
    <2>2. c.again = FALSE
        BY <1>29 DEF WalkInv, Client
    <2> QED BY <1>16, <2>1, <2>2
<1>32. H = FALSE
    <2>1. c.cursor # None /\ c.quiet => S # {}
        BY <1>19, <1>29, <1>30 DEF WalkInv, GoesOn, Rows
    <2>2. c.hollow = FALSE
        BY <1>29 DEF WalkInv, Client
    <2> QED BY <1>17, <1>26, <2>1, <2>2
<1> DEFINE a == [c EXCEPT !.pc = "hop1", !.page = P, !.more = M, !.cursor = k]
           b == [a EXCEPT !.again = A, !.seen = @ \cup Q, !.must = @ \ Q]
           d == [b EXCEPT !.hollow = H, !.quiet = TRUE, !.due = D]
<1>33. client' = d
    BY <1>19
<1>34. /\ a \in Client /\ a.pc = "hop1" /\ a.page = P /\ a.more = M /\ a.cursor = k
       /\ a.mode = c.mode /\ a.must = c.must /\ a.seen = c.seen /\ a.out = c.out
       /\ a.reader = c.reader /\ a.search = c.search /\ a.kinds = c.kinds /\ a.root = c.root
    <2>1. "hop1" \in Pcs
        BY DEF Pcs
    <2> HIDE DEF b, d
    <2>2. a \in Client
        BY <1>28, <2>1 DEF Client
    <2>3. /\ a.pc = "hop1" /\ a.page = P /\ a.more = M /\ a.cursor = k
          /\ a.mode = c.mode /\ a.must = c.must /\ a.seen = c.seen /\ a.out = c.out
        BY DEF Client
    <2>4. a.reader = c.reader /\ a.search = c.search /\ a.kinds = c.kinds /\ a.root = c.root
        BY DEF Client
    <2> HIDE DEF a
    <2> QED BY <2>2, <2>3, <2>4
<1> HIDE DEF a
<1>35. /\ b \in Client /\ b.again = A /\ b.seen = c.seen \cup Q /\ b.must = c.must \ Q
       /\ b.pc = "hop1" /\ b.page = P /\ b.more = M /\ b.cursor = k /\ b.mode = c.mode /\ b.out = c.out
       /\ b.reader = c.reader /\ b.search = c.search /\ b.kinds = c.kinds /\ b.root = c.root
    <2>1. PICK se \in SUBSET Event, mu \in SUBSET Event : se = c.seen \cup Q /\ mu = c.must \ Q
        BY <1>28 DEF Client
    <2> DEFINE z == [a EXCEPT !.again = FALSE, !.seen = se, !.must = mu]
    <2>2. b = z
        BY <1>31, <1>34, <2>1
    <2>3. z \in Client
        BY <1>34 DEF Client
    <2>4. /\ z.again = FALSE /\ z.seen = se /\ z.must = mu
          /\ z.pc = a.pc /\ z.page = a.page /\ z.more = a.more /\ z.cursor = a.cursor
        BY <1>34 DEF Client
    <2>5. /\ z.mode = a.mode /\ z.out = a.out
          /\ z.reader = a.reader /\ z.search = a.search /\ z.kinds = a.kinds /\ z.root = a.root
        BY <1>34 DEF Client
    <2> HIDE DEF b, z
    <2> QED BY <1>31, <1>34, <2>1, <2>2, <2>3, <2>4, <2>5
<1> HIDE DEF b
<1>36. /\ d \in Client /\ d.hollow = H /\ d.quiet = TRUE /\ d.due = D
       /\ d.again = A /\ d.seen = c.seen \cup Q /\ d.must = c.must \ Q
       /\ d.pc = "hop1" /\ d.page = P /\ d.more = M /\ d.cursor = k /\ d.mode = c.mode /\ d.out = c.out
       /\ d.reader = c.reader /\ d.search = c.search /\ d.kinds = c.kinds /\ d.root = c.root
    <2> DEFINE z == [b EXCEPT !.hollow = FALSE, !.quiet = TRUE, !.due = D]
    <2>1. d = z
        BY <1>32
    <2>2. z \in Client
        BY <1>28, <1>35 DEF Client
    <2>3. /\ z.hollow = FALSE /\ z.quiet = TRUE /\ z.due = D /\ z.again = b.again /\ z.seen = b.seen
          /\ z.must = b.must /\ z.pc = b.pc /\ z.page = b.page /\ z.more = b.more
        BY <1>35 DEF Client
    <2>4. /\ z.cursor = b.cursor /\ z.mode = b.mode /\ z.out = b.out
          /\ z.reader = b.reader /\ z.search = b.search /\ z.kinds = b.kinds /\ z.root = b.root
        BY <1>35 DEF Client
    <2> HIDE DEF d, z
    <2> QED BY <1>32, <1>35, <2>1, <2>2, <2>3, <2>4
<1> HIDE DEF d
<1>37. \A e \in c.must : e \in S /\ (e \in P => e \in Q)
    BY <1>14, <1>19, <1>29, <1>30 DEF WalkInv, GoesOn
<1>38. ASSUME M
       PROVE  /\ \A e \in c.must \ Q : e \in L /\ InLine(d, e) /\ Asked(d, e)
              /\ \A e \in c.seen \cup Q : ~InLine(d, e)
              /\ Rows(d, L) # {}
    <2>1. k \in P /\ k # None /\ k \in Event
        BY <1>22, <1>26, <1>27, <1>38, NoneAssumption
    <2>2. ASSUME NEW e \in S \ P PROVE InLine(d, e)
        <3>1. Newer(k, e) /\ TopLevel(e)
            BY <1>12, <1>26, <2>1, <2>2 DEF NewerThan
        <3> QED BY <1>19, <1>36, <2>1, <3>1 DEF InLine, Behind
    <2>3. \A e \in c.must \ Q : e \in L /\ InLine(d, e) /\ Asked(d, e)
        BY <1>19, <1>22, <1>29, <1>36, <1>37, <2>2 DEF WalkInv, GoesOn, Asked
    <2>4. ASSUME NEW e \in Q PROVE ~InLine(d, e)
        <3>1. ~Newer(k, e)
            BY <1>27, <1>28, <1>38
        <3> QED BY <1>19, <1>36, <2>1, <3>1 DEF InLine, Behind
    <2>5. ASSUME NEW e \in c.seen PROVE ~InLine(d, e)
        <3>1. ~InLine(c, e) /\ e \in Event
            BY <1>19, <1>23, <1>29 DEF WalkInv, GoesOn
        <3>2. ~TopLevel(e) \/ (c.cursor # None /\ ~Newer(c.cursor, e))
            BY <1>19, <3>1 DEF InLine, Behind
        <3>3. c.cursor # None => c.cursor \in Event /\ Newer(c.cursor, k)
            BY <1>12, <1>23, <1>26, <2>1 DEF Behind
        <3>4. c.cursor # None /\ Newer(k, e) => Newer(c.cursor, e)
            <4>1. SUFFICES ASSUME c.cursor # None, Newer(k, e) PROVE Newer(c.cursor, e)
                OBVIOUS
            <4>2. <<c.cursor, k>> \in NewerThan /\ <<k, e>> \in NewerThan
                BY <2>1, <3>1, <3>3, <4>1 DEF NewerThan
            <4>3. <<c.cursor, e>> \in NewerThan
                BY <2>1, <3>1, <3>3, <4>1, <4>2, Orders DEF Order
            <4> QED BY <4>3 DEF NewerThan
        <3>5. ~TopLevel(e) \/ ~Newer(k, e)
            BY <3>2, <3>4
        <3> QED BY <1>19, <1>36, <2>1, <3>5 DEF InLine, Behind
    <2>6. Rows(d, L) # {}
        BY <1>22, <1>26, <1>38, <2>2 DEF Rows
    <2> QED BY <2>3, <2>4, <2>5, <2>6
<1>39. ~M => c.must \ Q = {}
    BY <1>26, <1>37
<1>40. GoesOn(d) <=> M
    BY <1>36 DEF GoesOn
<1>41. WalkInv(d, L)
    BY <1>19, <1>31, <1>32, <1>36, <1>38, <1>39, <1>40 DEF WalkInv
<1>42. GateInv(d)
    BY <1>1, <1>36 DEF IInv, GateInv
<1>43. WalkInv(client, Live)' /\ TypeOK' /\ GateInv(client)'
    BY <1>20, <1>33, <1>36, <1>41, <1>42 DEF TypeOK
<1>44. ASSUME AuxInv PROVE AuxInv'
    <2>1. D \subseteq L \cap About(P)
        BY <1>18, <1>21 DEF About, AuxEvents
    <2> QED BY <1>19, <1>20, <1>33, <1>36, <1>44, <2>1 DEF AuxInv
<1> QED BY <1>43, <1>44 DEF IInv

\* The rows of a thread page, the same from old to new; a short page is the last.
LEMMA ThreadRowsKeeps ==
    ASSUME IInv, ThreadRows
    PROVE  IInv' /\ (AuxInv => AuxInv')
<1>1. PICK c \in Client : c = client
    BY DEF IInv, TypeOK
<1>2. PICK L : L = Live
    OBVIOUS
<1> DEFINE rows == {e \in Live : InThread(e, client.root) /\ After(client.cursor, e)}
           page == Oldest(rows, client.limit)
           next == IF Cardinality(page) = client.limit THEN "ask" ELSE "end"
           last == IF page = {} THEN client.cursor ELSE CHOOSE e \in page : \A f \in page : ~Older(e, f)
           again == client.again \/ page \cap client.seen # {}
<1>3. /\ client.pc = "ask" /\ client.mode = "thread" /\ UNCHANGED <<stored, deleted>>
      /\ client' = [client EXCEPT !.pc = next, !.cursor = last, !.again = again,
                                  !.seen = @ \cup page, !.must = @ \ page]
    BY Zenon DEF ThreadRows
<1>4. PICK S : S = rows
    OBVIOUS
<1>5. PICK P : P = page
    OBVIOUS
<1>6. PICK pc : pc = next
    OBVIOUS
<1>7. PICK k : k = last
    OBVIOUS
<1>8. PICK A : A = again
    OBVIOUS
<1>9. S = {e \in L : InThread(e, c.root) /\ After(c.cursor, e)} /\ P = Oldest(S, c.limit)
    BY <1>1, <1>2, <1>4, <1>5
<1>10. pc = IF Cardinality(P) = c.limit THEN "ask" ELSE "end"
    <2>1. pc = IF Cardinality(page) = client.limit THEN "ask" ELSE "end"
        BY <1>6
    <2> HIDE DEF page
    <2> QED BY <1>1, <1>5, <2>1
<1>11. /\ P = {} => k = c.cursor
       /\ P # {} => k = CHOOSE e \in page : \A f \in page : ~Older(e, f)
    <2>1. /\ page = {} => last = client.cursor
          /\ page # {} => last = CHOOSE e \in page : \A f \in page : ~Older(e, f)
        BY Zenon
    <2> HIDE DEF page, last
    <2> QED BY <1>1, <1>5, <1>7, <2>1, Zenon
<1>12. (A => c.again \/ P \cap c.seen # {}) /\ A \in BOOLEAN
    BY <1>1, <1>5, <1>8
<1> HIDE DEF rows, page, next, last, again
<1>13. /\ c.pc = "ask" /\ c.mode = "thread" /\ UNCHANGED <<stored, deleted>>
       /\ client' = [c EXCEPT !.pc = pc, !.cursor = k, !.again = A, !.seen = @ \cup P, !.must = @ \ P]
    BY <1>1, <1>3, <1>5, <1>6, <1>7, <1>8
<1>14. StoreOK' /\ Live' = L
    BY <1>2, <1>13, StoreStays
<1>15. L \in SUBSET Event /\ IsFiniteSet(L)
    BY <1>2, FS_Subset DEF Live, IInv, TypeOK, StoreOK
<1>16. S \in SUBSET Event /\ IsFiniteSet(S) /\ S \subseteq L
    BY <1>9, <1>15, FS_Subset
<1>17. c.limit \in Nat \ {0} /\ c.cursor \in Event \cup {None} /\ c.must \subseteq Event /\ c.seen \subseteq Event
    BY DEF Client
<1>18. PICK n \in Nat \ {0} : n = c.limit
    BY <1>17
<1>19. /\ P \subseteq S /\ IsFiniteSet(P)
       /\ \A e \in P, f \in S \ P : <<e, f>> \in OlderThan
       /\ pc = "ask" => P # {}
       /\ pc # "ask" => P = S /\ pc = "end"
    <2>1. /\ P \subseteq S /\ IsFiniteSet(P) /\ Cardinality(P) \in Nat
          /\ \A e \in P, f \in S \ P : <<e, f>> \in OlderThan
          /\ Cardinality(P) < n => P = S
          /\ Cardinality(P) <= n
        <3>1. Order(OlderThan) /\ P = First(S, n, OlderThan)
            BY Orders, PagesFirst, <1>9, <1>16, <1>18
        <3> QED BY <1>16, <3>1, PageFacts
    <2>2. pc = "ask" => P # {}
        <3>1. SUFFICES ASSUME pc = "ask", P = {} PROVE FALSE
            OBVIOUS
        <3>2. Cardinality(P) = n
            BY <1>10, <1>18, <3>1
        <3>3. Cardinality(P) = 0
            BY <3>1, FS_EmptySet
        <3> QED BY <3>2, <3>3
    <2>3. pc # "ask" => P = S /\ pc = "end"
        <3>1. SUFFICES ASSUME pc # "ask" PROVE P = S /\ pc = "end"
            OBVIOUS
        <3>2. Cardinality(P) # n /\ pc = "end"
            BY <1>10, <1>18, <3>1
        <3>3. Cardinality(P) < n
            BY <2>1, <3>2
        <3> QED BY <2>1, <3>2, <3>3
    <2> QED BY <2>1, <2>2, <2>3
<1>20. P # {} => k \in P /\ \A f \in P : ~Older(k, f)
    <2>1. SUFFICES ASSUME P # {} PROVE k \in P /\ \A f \in P : ~Older(k, f)
        OBVIOUS
    <2>2. P \in SUBSET Event
        BY <1>16, <1>19
    <2>3. PICK l \in P : \A f \in P : f = l \/ <<f, l>> \in OlderThan
        BY <1>19, <2>1, <2>2, Orders, HasLast
    <2>4. \A f \in P : <<l, f>> \notin OlderThan
        BY <2>2, <2>3, Orders DEF Order
    <2>5. \A f \in P : ~Older(l, f)
        BY <2>2, <2>4 DEF OlderThan
    <2>6. k = CHOOSE e \in page : \A f \in page : ~Older(e, f)
        BY <1>11, <2>1
    <2>7. \E e \in page : \A f \in page : ~Older(e, f)
        BY <1>5, <2>5
    <2>8. k \in page /\ \A f \in page : ~Older(k, f)
        BY <2>6, <2>7
    <2> QED BY <1>5, <2>8
<1>21. k \in Event \cup {None} /\ P \subseteq Event
    BY <1>11, <1>16, <1>17, <1>19, <1>20
<1>22. WalkInv(c, L)
    BY <1>1, <1>2 DEF IInv
<1>23. \A e : e \in S <=> e \in L /\ InLine(c, e)
    BY <1>9, <1>13 DEF InLine
<1>24. A = FALSE
    <2>1. \A e \in c.seen : e \notin P
        BY <1>13, <1>19, <1>22, <1>23 DEF WalkInv, GoesOn
    <2>2. c.again = FALSE
        BY <1>22 DEF WalkInv, Client
    <2> QED BY <1>12, <2>1, <2>2
<1> DEFINE b == [c EXCEPT !.pc = pc, !.cursor = k]
           d == [b EXCEPT !.again = A, !.seen = @ \cup P, !.must = @ \ P]
<1>25. client' = d
    BY <1>13
<1>26. /\ b \in Client /\ b.pc = pc /\ b.cursor = k
       /\ b.mode = c.mode /\ b.must = c.must /\ b.seen = c.seen /\ b.out = c.out /\ b.hollow = c.hollow
       /\ b.reader = c.reader /\ b.search = c.search /\ b.kinds = c.kinds /\ b.root = c.root
    <2>1. pc \in Pcs
        BY <1>10 DEF Pcs
    <2> HIDE DEF d
    <2>2. b \in Client
        BY <1>21, <2>1 DEF Client
    <2>3. /\ b.pc = pc /\ b.cursor = k
          /\ b.mode = c.mode /\ b.must = c.must /\ b.seen = c.seen /\ b.out = c.out
        BY DEF Client
    <2>4. /\ b.hollow = c.hollow
          /\ b.reader = c.reader /\ b.search = c.search /\ b.kinds = c.kinds /\ b.root = c.root
        BY DEF Client
    <2> HIDE DEF b
    <2> QED BY <2>2, <2>3, <2>4
<1> HIDE DEF b
<1>27. /\ d \in Client /\ d.again = A /\ d.seen = c.seen \cup P /\ d.must = c.must \ P
       /\ d.pc = pc /\ d.cursor = k /\ d.mode = c.mode /\ d.out = c.out /\ d.hollow = c.hollow
       /\ d.reader = c.reader /\ d.search = c.search /\ d.kinds = c.kinds /\ d.root = c.root
    <2>1. PICK se \in SUBSET Event, mu \in SUBSET Event : se = c.seen \cup P /\ mu = c.must \ P
        BY <1>21 DEF Client
    <2> DEFINE z == [b EXCEPT !.again = FALSE, !.seen = se, !.must = mu]
    <2>2. d = z
        BY <1>24, <1>26, <2>1
    <2>3. z \in Client
        BY <1>26 DEF Client
    <2>4. /\ z.again = FALSE /\ z.seen = se /\ z.must = mu
          /\ z.pc = b.pc /\ z.cursor = b.cursor /\ z.mode = b.mode /\ z.out = b.out /\ z.hollow = b.hollow
        BY <1>26 DEF Client
    <2>5. z.reader = b.reader /\ z.search = b.search /\ z.kinds = b.kinds /\ z.root = b.root
        BY <1>26 DEF Client
    <2> HIDE DEF d, z
    <2> QED BY <1>24, <1>26, <2>1, <2>2, <2>3, <2>4, <2>5
<1> HIDE DEF d
<1>28. \A e \in c.must : e \in S /\ e \in L
    BY <1>13, <1>22, <1>23 DEF WalkInv, GoesOn
<1>29. ASSUME pc = "ask"
       PROVE  /\ \A e \in c.must \ P : e \in L /\ InLine(d, e) /\ Asked(d, e)
              /\ \A e \in c.seen \cup P : ~InLine(d, e)
    <2>1. k \in P /\ k # None /\ k \in Event
        BY <1>19, <1>20, <1>21, <1>29, NoneAssumption
    <2>2. ASSUME NEW e \in S \ P PROVE InLine(d, e)
        <3>1. Older(k, e) /\ InThread(e, c.root)
            BY <1>9, <1>19, <2>1, <2>2 DEF OlderThan
        <3> QED BY <1>13, <1>27, <2>1, <3>1 DEF InLine, After
    <2>3. \A e \in c.must \ P : e \in L /\ InLine(d, e) /\ Asked(d, e)
        BY <1>13, <1>27, <1>28, <2>2 DEF Asked
    <2>4. ASSUME NEW e \in P PROVE ~InLine(d, e)
        <3>1. ~Older(k, e)
            BY <1>20, <2>1
        <3> QED BY <1>13, <1>27, <2>1, <3>1 DEF InLine, After
    <2>5. ASSUME NEW e \in c.seen PROVE ~InLine(d, e)
        <3>1. ~InLine(c, e) /\ e \in Event
            BY <1>13, <1>17, <1>22 DEF WalkInv, GoesOn
        <3>2. ~InThread(e, c.root) \/ (c.cursor # None /\ ~Older(c.cursor, e))
            BY <1>13, <3>1 DEF InLine, After
        <3>3. c.cursor # None => c.cursor \in Event /\ Older(c.cursor, k)
            BY <1>9, <1>17, <1>19, <2>1 DEF After
        <3>4. c.cursor # None /\ Older(k, e) => Older(c.cursor, e)
            <4>1. SUFFICES ASSUME c.cursor # None, Older(k, e) PROVE Older(c.cursor, e)
                OBVIOUS
            <4>2. <<c.cursor, k>> \in OlderThan /\ <<k, e>> \in OlderThan
                BY <2>1, <3>1, <3>3, <4>1 DEF OlderThan
            <4>3. <<c.cursor, e>> \in OlderThan
                BY <2>1, <3>1, <3>3, <4>1, <4>2, Orders DEF Order
            <4> QED BY <4>3 DEF OlderThan
        <3>5. ~InThread(e, c.root) \/ ~Older(k, e)
            BY <3>2, <3>4
        <3> QED BY <1>13, <1>27, <2>1, <3>5 DEF InLine, After
    <2> QED BY <2>3, <2>4, <2>5
<1>30. pc = "end" => c.must \ P = {}
    BY <1>19, <1>28
<1>31. (GoesOn(d) <=> pc = "ask") /\ pc \in {"ask", "end"}
    BY <1>10, <1>27 DEF GoesOn
<1>32. WalkInv(d, L)
    BY <1>13, <1>22, <1>24, <1>27, <1>29, <1>30, <1>31 DEF WalkInv
<1>33. GateInv(d)
    BY <1>1, <1>27, <1>31 DEF IInv, GateInv
<1>34. WalkInv(client, Live)' /\ TypeOK' /\ GateInv(client)'
    BY <1>14, <1>25, <1>27, <1>32, <1>33 DEF TypeOK
<1>35. AuxInv => AuxInv'
    BY <1>13, <1>25, <1>27, <1>31 DEF AuxInv
<1> QED BY <1>34, <1>35 DEF IInv

\* Nothing at all happens.
LEMMA StutterKeeps ==
    ASSUME IInv, UNCHANGED vars
    PROVE  IInv' /\ (AuxInv => AuxInv')
<1>1. StoreOK' /\ Live' = Live /\ client' = client /\ deleted' = deleted
    BY StoreStays DEF vars
<1>2. PICK c, L : c = client /\ L = Live
    OBVIOUS
<1>3. client' = c /\ Live' = L /\ WalkInv(c, L) /\ GateInv(c) /\ c \in Client
    BY <1>1, <1>2 DEF IInv, TypeOK
<1>4. WalkInv(client, Live)' /\ GateInv(client)' /\ TypeOK'
    BY <1>1, <1>3 DEF TypeOK
<1>5. AuxInv => AuxInv'
    BY <1>1 DEF AuxInv
<1> QED BY <1>4, <1>5 DEF IInv

\* The invariant holds when the bridge starts.
LEMMA InitInv == Init => IInv /\ AuxInv
<1>1. SUFFICES ASSUME Init PROVE IInv /\ AuxInv
    OBVIOUS
<1>2. stored = {} /\ deleted = {} /\ Live = {}
    BY <1>1 DEF Init, Live
<1>3. PICK c : c = client
    OBVIOUS
<1>4. c \in Client /\ c.pc = "idle" /\ c.must = {} /\ c.again = FALSE /\ c.hollow = FALSE /\ c.out = {}
    BY <1>1, <1>3, IdleFacts DEF Init
<1>5. (\A L : WalkInv(c, L)) /\ GateInv(c)
    BY <1>4 DEF WalkInv, GateInv, GoesOn
<1>6. StoreOK
    BY <1>2, FS_EmptySet DEF StoreOK
<1> QED BY <1>2, <1>3, <1>4, <1>5, <1>6 DEF IInv, TypeOK, AuxInv

\* And every step keeps it.
LEMMA NextInv ==
    ASSUME IInv, [Next]_vars
    PROVE  IInv' /\ (AuxInv /\ AuxFits => AuxInv')
<1>1. ASSUME NEW e \in Event, Ingest(e) PROVE IInv' /\ (AuxInv /\ AuxFits => AuxInv')
    BY <1>1, IngestKeeps
<1>2. ASSUME NEW n \in Limit, NEW k \in Kinds, StartWindow(n, k)
      PROVE  IInv' /\ (AuxInv /\ AuxFits => AuxInv')
    BY <1>2, StartWindowKeeps
<1>3. ASSUME NEW n \in Limit, NEW r \in Event, StartThread(n, r)
      PROVE  IInv' /\ (AuxInv /\ AuxFits => AuxInv')
    BY <1>3, StartThreadKeeps
<1>4. ASSUME NEW q \in Query, NEW u \in Reader, Ask(q, u)
      PROVE  IInv' /\ (AuxInv /\ AuxFits => AuxInv')
    BY <1>4, AskKeeps
<1>5. CASE WindowRows
    BY <1>5, WindowRowsKeeps
<1>6. CASE Hop1
    BY <1>6, Hop1Keeps
<1>7. CASE Hop2
    BY <1>7, Hop2Keeps
<1>8. CASE NextWindow
    BY <1>8, NextWindowKeeps
<1>9. CASE ThreadRows
    BY <1>9, ThreadRowsKeeps
<1>10. CASE Read
    BY <1>10, ReadKeeps
<1>11. CASE Answered \/ Done
    BY <1>11, EndKeeps
<1>12. CASE UNCHANGED vars
    BY <1>12, StutterKeeps
<1> QED BY <1>1, <1>2, <1>3, <1>4, <1>5, <1>6, <1>7, <1>8, <1>9, <1>10, <1>11, <1>12 DEF Next

----------------------------------------------------------------------------
(* Theorems.                                                               *)

\* The inductive invariant holds in every state of every client and store.
THEOREM Invariance == Spec => []IInv
<1>1. Init => IInv
    BY InitInv
<1>2. IInv /\ [Next]_vars => IInv'
    BY NextInv
<1> QED BY <1>1, <1>2, PTL DEF Spec

\* A walk of the window or of a thread returns every row that was there and is
\* still there, each of them once, and an announced page is empty only after a
\* deletion, for every set of events, page size and choice of kinds
\* (read.rs:27-101, 103-161).
THEOREM WalkCorrect == Spec => []WalkIsExact
<1>1. IInv => WalkIsExact
    BY DEF IInv, WalkInv, WalkIsExact, GoesOn
<1> QED BY <1>1, Invariance, PTL

\* What a reader is not to see is in no answer (http.rs:355-385,
\* filter_match.rs:99-172).
THEOREM GatesCorrect == Spec => []GatesHold
<1>1. IInv => GatesHold
    BY DEF IInv, GateInv, GatesHold
<1> QED BY <1>1, Invariance, PTL

\* The two hops fit together as long as one read holds all aux events, whichever of
\* the reads fail and whatever is deleted, deletions included
\* (history_adapter.rs:181-207, http.rs QUERY_MAX_LIMIT).
THEOREM AuxCorrect ==
    ASSUME AuxFits
    PROVE  Spec => []AuxFitsTogether
<1>1. Init => AuxInv
    BY InitInv
<1>2. IInv /\ AuxInv /\ [Next]_vars => AuxInv'
    BY NextInv
<1>3. AuxInv => AuxFitsTogether
    BY DEF AuxInv, AuxFitsTogether
<1> QED BY <1>1, <1>2, <1>3, Invariance, PTL DEF Spec
==============================================================================
