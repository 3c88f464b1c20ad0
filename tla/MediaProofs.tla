----------------------------- MODULE MediaProofs ------------------------------
(***************************************************************************)
(* Proofs about Media, for any uploads, requests, contents, caps, tokens   *)
(* and crashes.  The inductive invariant IInv says                         *)
(*   - how much of its body the staging file of an upload holds at each    *)
(*     step, and that an upload past its body is within the cap of its     *)
(*     type;                                                               *)
(*   - that a blob file is whole from the rename on, and a row is only     *)
(*     there with the file;                                                *)
(*   - that a token that was accepted has a replay record;                 *)
(*   - that a reply under way is cut from a visible blob.                  *)
(* With WarrantInv, what an upload was admitted with, it shows that Media  *)
(* implements Shelf.                                                       *)
(***************************************************************************)
EXTENDS Media, TLAPS

UpPc == {"new", "stream", "install", "persist", "insert", "done", "refused", "gone", "failed"}

UpState == [pc : UpPc, tok : Token \cup {None}, body : Blob \cup {None}, got : Nat, size : Nat \cup {None}]

Reply == [status : {200, 206, 304, 404, 416}, bytes : SUBSET Nat]

GetState == [pc : {"new", "lookup", "open", "end"}, blob : Blob \cup {None},
             range : RangeHeader \cup {None}, reply : Reply \cup {None}]

TypeOK ==
    /\ up \in [Upload -> UpState]
    /\ get \in [Get -> GetState]
    /\ staging \in [Upload -> Nat \cup {None}]
    /\ file \in [Blob -> Nat \cup {None}]
    /\ row \in [Blob -> [size : Nat \cup {None}, by : Upload] \cup {None}]
    /\ mutex \in Upload \cup {None}
    /\ spent \in [Token -> Nat]

\* An upload and its staging file.
UpShape(s, st) ==
    /\ s.pc \in {"stream", "install", "persist", "insert"} => s.tok \in Token /\ s.body \in Blob
    /\ s.pc = "stream" => /\ st = s.got /\ s.got <= Size[s.body]
                          /\ s.got >= Sniff => s.got <= CapForSniff(s.body)
    /\ s.pc \in {"install", "persist"} => st = Size[s.body]
    /\ s.pc \in {"install", "persist", "insert"} => Size[s.body] <= CapForSniff(s.body)
    /\ s.pc \in {"persist", "insert"} => s.size = Size[s.body]
    /\ s.pc \in {"insert", "done", "refused"} => st = None

UploadInv == \A u \in Upload : UpShape(up[u], staging[u])

BlobInv ==
    /\ \A b \in Blob : file[b] # None => file[b] = Size[b]
    /\ \A u \in Upload : up[u].pc = "insert" => file[up[u].body] = Size[up[u].body]
    /\ WholeOrHidden

SpentInv == \A t \in Token : spent[t] = 0 \/ (spent[t] = 1 /\ t.id \in used)

\* A reply has the bytes its range header selects.
Exact(reply, r, total) ==
    /\ reply.status \in {200, 206} => /\ reply.bytes = Selected(r, total)
                                      /\ reply.status = 200 <=> r = None
    /\ reply.status = 206 => Selected(r, total) # {}
    /\ reply.status = 416 => r # None /\ Selected(r, total) = {} /\ reply.bytes = {}

GetShape(s) ==
    /\ s.pc \in {"lookup", "open"} => s.blob \in Blob
    /\ s.pc = "open" => /\ row[s.blob] # None /\ s.reply \in Reply /\ s.reply.status \in {200, 206}
                        /\ Exact(s.reply, s.range, Size[s.blob])
    /\ s.pc = "end" /\ s.reply # None => Exact(s.reply, s.range, Size[s.blob])

GetInv == \A g \in Get : GetShape(get[g])

IInv == TypeOK /\ UploadInv /\ BlobInv /\ SpentInv /\ GetInv

----------------------------------------------------------------------------
(* parse_range.                                                            *)

\* Max and Min of FiniteSetsExt, of a pair.
LEMMA MaxPair ==
    ASSUME NEW m \in Int, NEW n \in Int
    PROVE  Max({m, n}) = IF m >= n THEN m ELSE n
<1>1. PICK x \in {m, n} : x >= m /\ x >= n
    OBVIOUS
<1>2. /\ Max({m, n}) \in {m, n} /\ Max({m, n}) >= m /\ Max({m, n}) >= n
    BY <1>1 DEF Max
<1> QED BY <1>2

LEMMA MinPair ==
    ASSUME NEW m \in Int, NEW n \in Int
    PROVE  Min({m, n}) = IF m <= n THEN m ELSE n
<1>1. PICK x \in {m, n} : x <= m /\ x <= n
    OBVIOUS
<1>2. /\ Min({m, n}) \in {m, n} /\ Min({m, n}) <= m /\ Min({m, n}) <= n
    BY <1>1 DEF Min
<1> QED BY <1>2

\* parse_range selects the bytes its header names, for every header and size,
\* also of an empty file and beyond its end.
LEMMA ParseRangeExact ==
    ASSUME NEW r \in RangeHeader \cup {None}, NEW total \in Nat
    PROVE  /\ ParseRange(r, total) \in Reply /\ ParseRange(r, total).status \in {200, 206, 416}
           /\ Exact(ParseRange(r, total), r, total)
<1>1. CASE r = None
    <2>1. ParseRange(r, total) = [status |-> 200, bytes |-> 0..(total - 1)]
        BY <1>1 DEF ParseRange, Full
    <2>2. Selected(r, total) = 0..(total - 1)
        BY <1>1 DEF Selected
    <2> QED BY <1>1, <2>1, <2>2 DEF Exact, Reply
<1>2. CASE r # None
    <2>0. /\ r.start \in Nat \cup {None} /\ r.end \in Nat \cup {None} /\ (r.start # None \/ r.end # None)
          /\ r \in RangeHeader /\ None \notin Nat
        BY <1>2, RangeAssumption, NoneAssumption
    <2>1. CASE total = 0
        <3>1. ParseRange(r, total) = NotSatisfiable
            BY <1>2, <2>1 DEF ParseRange
        <3>2. Selected(r, total) = {}
            BY <2>1 DEF Selected
        <3> QED BY <1>2, <3>1, <3>2 DEF NotSatisfiable, Exact, Reply
    <2>2. CASE total # 0 /\ r.start = None
        <3>1. PICK e \in Nat : e = r.end
            BY <2>0, <2>2
        <3>2. \A i \in 0..(total - 1) : i \in Selected(r, total) <=> i >= total - e
            BY <1>2, <2>2, <3>1 DEF Selected
        <3>3. CASE e = 0
            <4>1. ParseRange(r, total) = NotSatisfiable
                BY <1>2, <2>2, <3>1, <3>3 DEF ParseRange
            <4>2. Selected(r, total) = {}
                BY <3>2, <3>3 DEF Selected
            <4> QED BY <1>2, <4>1, <4>2 DEF NotSatisfiable, Exact, Reply
        <3>4. CASE e # 0
            <4>1. ParseRange(r, total) = Partial(Max({0, total - e}), total - 1)
                BY <1>2, <2>2, <3>1, <3>4 DEF ParseRange
            <4>2. PICK m \in Nat : m = Max({0, total - e}) /\ m = IF 0 >= total - e THEN 0 ELSE total - e
                BY MaxPair
            <4>0. m <= total - 1 /\ \A i \in Nat : i >= m <=> i >= total - e
                <5>1. m = IF 0 >= total - e THEN 0 ELSE total - e
                    BY <4>2
                <5>2. total >= 1 /\ e >= 1
                    BY <2>2, <3>4
                <5> QED BY <5>1, <5>2
            <4>3. Selected(r, total) = m..(total - 1) /\ total - 1 \in m..(total - 1)
                <5>1. Selected(r, total) \subseteq 0..(total - 1)
                    BY DEF Selected
                <5>2. \A i \in 0..(total - 1) : i \in m..(total - 1) <=> i >= total - e
                    BY <4>0
                <5>3. total - 1 \in m..(total - 1) /\ m..(total - 1) \subseteq 0..(total - 1)
                    BY <4>0
                <5>4. \A i : i \in Selected(r, total) <=> i \in m..(total - 1)
                    BY <3>2, <5>1, <5>2, <5>3
                <5> QED BY <5>3, <5>4
            <4>4. ParseRange(r, total) = [status |-> 206, bytes |-> m..(total - 1)]
                BY <4>1, <4>2 DEF Partial
            <4>5. m..(total - 1) \subseteq Nat /\ total - 1 \in m..(total - 1)
                BY <4>3
            <4>6. PICK B : /\ B \subseteq Nat /\ B # {} /\ Selected(r, total) = B
                           /\ ParseRange(r, total) = [status |-> 206, bytes |-> B]
                BY <4>3, <4>4, <4>5
            <4>7. PICK reply : reply = ParseRange(r, total)
                OBVIOUS
            <4>8. reply = [status |-> 206, bytes |-> B]
                BY <4>6, <4>7
            <4>9. reply \in Reply /\ reply.status \in {200, 206, 416} /\ Exact(reply, r, total)
                <5>1. B \in SUBSET Nat
                    BY <4>6
                <5>2. reply \in Reply /\ reply.status = 206
                    BY <4>8, <5>1 DEF Reply
                <5>3. reply.bytes = B
                    BY <4>8
                <5>4. Exact(reply, r, total)
                    BY <1>2, <4>6, <5>2, <5>3 DEF Exact
                <5> QED BY <5>2, <5>4
            <4> QED BY <4>7, <4>9
        <3> QED BY <3>3, <3>4
    <2>3. CASE total # 0 /\ r.start # None
        <3>1. PICK m \in Nat : m = r.start
            BY <2>0, <2>3
        <3>2. \A i \in 0..(total - 1) : i \in Selected(r, total) <=> i >= m /\ (r.end # None => i <= r.end)
            BY <1>2, <2>3, <3>1 DEF Selected
        <3>3. CASE m >= total \/ (r.end # None /\ m > r.end)
            <4>1. ParseRange(r, total) = NotSatisfiable
                BY <1>2, <2>3, <3>1, <3>3 DEF ParseRange
            <4>2. Selected(r, total) = {}
                BY <2>0, <3>2, <3>3 DEF Selected
            <4> QED BY <1>2, <4>1, <4>2 DEF NotSatisfiable, Exact, Reply
        <3>4. CASE ~(m >= total \/ (r.end # None /\ m > r.end))
            <4>1. PICK n \in Nat : /\ ParseRange(r, total) = Partial(m, n) /\ m <= n /\ n <= total - 1
                                   /\ r.end = None => n = total - 1
                                   /\ r.end # None => n = IF r.end <= total - 1 THEN r.end ELSE total - 1
                <5>1. CASE r.end = None
                    <6>1. ParseRange(r, total) = Partial(m, total - 1)
                        BY <1>2, <2>3, <3>1, <3>4, <5>1 DEF ParseRange
                    <6> QED BY <2>3, <3>4, <5>1, <6>1
                <5>2. CASE r.end # None
                    <6>1. PICK e \in Nat : e = r.end
                        BY <2>0, <5>2
                    <6>2. ParseRange(r, total) = Partial(m, Min({e, total - 1}))
                        BY <1>2, <2>3, <3>1, <3>4, <5>2, <6>1 DEF ParseRange
                    <6>3. Min({e, total - 1}) = IF e <= total - 1 THEN e ELSE total - 1
                        BY MinPair
                    <6> QED BY <2>3, <3>4, <5>2, <6>1, <6>2, <6>3
                <5> QED BY <5>1, <5>2
            <4>2. Selected(r, total) = m..n /\ m \in m..n
                <5>1. Selected(r, total) \subseteq 0..(total - 1)
                    BY DEF Selected
                <5>2. \A i \in 0..(total - 1) : i \in m..n <=> i >= m /\ (r.end # None => i <= r.end)
                    <6>1. CASE r.end = None
                        BY <4>1, <6>1
                    <6>2. CASE r.end # None
                        <7>1. PICK e \in Nat : e = r.end
                            BY <2>0, <6>2
                        <7>2. n = IF e <= total - 1 THEN e ELSE total - 1
                            BY <4>1, <6>2, <7>1
                        <7> QED BY <6>2, <7>1, <7>2
                    <6> QED BY <6>1, <6>2
                <5>3. m \in m..n /\ m..n \subseteq 0..(total - 1)
                    BY <4>1
                <5>4. \A i : i \in Selected(r, total) <=> i \in m..n
                    BY <3>2, <5>1, <5>2, <5>3
                <5> QED BY <5>3, <5>4
            <4>3. ParseRange(r, total) = [status |-> 206, bytes |-> m..n]
                BY <4>1 DEF Partial
            <4>4. m..n \subseteq Nat /\ m \in m..n
                BY <4>2
            <4>5. PICK B : /\ B \subseteq Nat /\ B # {} /\ Selected(r, total) = B
                           /\ ParseRange(r, total) = [status |-> 206, bytes |-> B]
                BY <4>2, <4>3, <4>4
            <4>7. PICK reply : reply = ParseRange(r, total)
                OBVIOUS
            <4>8. reply = [status |-> 206, bytes |-> B]
                BY <4>5, <4>7
            <4>9. reply \in Reply /\ reply.status \in {200, 206, 416} /\ Exact(reply, r, total)
                <5>1. B \in SUBSET Nat
                    BY <4>5
                <5>2. reply \in Reply /\ reply.status = 206
                    BY <4>8, <5>1 DEF Reply
                <5>3. reply.bytes = B
                    BY <4>8
                <5>4. Exact(reply, r, total)
                    BY <1>2, <4>5, <5>2, <5>3 DEF Exact
                <5> QED BY <5>2, <5>4
            <4> QED BY <4>7, <4>9
        <3> QED BY <3>3, <3>4
    <2> QED BY <2>1, <2>2, <2>3
<1> QED BY <1>1, <1>2

----------------------------------------------------------------------------
(* Uploads.                                                                *)

\* Every type has a cap, and a body shorter than the sniffed prefix is within it.
LEMMA CapFacts ==
    ASSUME NEW b \in Blob
    PROVE  /\ Size[b] \in Nat /\ CapForSniff(b) \in Nat
           /\ Size[b] < Sniff => Size[b] <= CapForSniff(b)
<1>1. PICK k \in DOMAIN Cap : CapForSniff(b) = Cap[k] /\ Cap[k] \in Nat
    BY CapAssumption DEF CapForSniff
<1> QED BY <1>1, SizeAssumption, CapAssumption

\* One upload goes on; the others are as they were.
Moves(u, s, st) ==
    /\ s \in UpState /\ UpShape(s, st) /\ st \in Nat \cup {None}
    /\ up' \in [Upload -> UpState] /\ up'[u] = s /\ \A v \in Upload : v # u => up'[v] = up[v]
    /\ staging' \in [Upload -> Nat \cup {None}] /\ staging'[u] = st
    /\ \A v \in Upload : v # u => staging'[v] = staging[v]

\* An upload that moves within its shape, and neither writes nor claims a file.
LEMMA UploadStep ==
    ASSUME IInv, NEW u \in Upload, NEW s, NEW st, Moves(u, s, st), s.pc # "insert",
           UNCHANGED <<get, file, row>>, mutex' \in Upload \cup {None}
    PROVE  /\ UploadInv' /\ BlobInv' /\ GetInv'
           /\ spent' = spent => TypeOK'
<1>1. UploadInv'
    BY DEF IInv, UploadInv, Moves
<1>2. BlobInv'
    BY DEF IInv, BlobInv, WholeOrHidden, Moves
<1>3. GetInv'
    BY DEF IInv, GetInv, GetShape
<1> QED BY <1>1, <1>2, <1>3 DEF IInv, TypeOK, Moves

\* Begin, with an empty staging file.
LEMMA BeginInv ==
    ASSUME IInv, NEW u \in Upload, NEW t \in Token, NEW b \in Blob, Begin(u, t, b)
    PROVE  IInv'
<1>0. PICK i \in UpState : i = Idle
    BY DEF Idle, UpState, UpPc
<1> DEFINE s == [i EXCEPT !.pc = "stream", !.tok = t, !.body = b]
<1>1. up' = [up EXCEPT ![u] = s] /\ staging' = [staging EXCEPT ![u] = 0]
    BY <1>0, Zenon DEF Begin
<1>2. s \in UpState /\ s.pc = "stream" /\ s.tok = t /\ s.body = b /\ s.got = 0
    <2>1. i.got = 0
        BY <1>0 DEF Idle
    <2> QED BY <2>1 DEF UpState, UpPc
<1> HIDE DEF s
<1>3. UpShape(s, 0)
    BY <1>2, SizeAssumption, CapFacts DEF UpShape
<1>4. Moves(u, s, 0)
    BY <1>1, <1>2, <1>3 DEF IInv, TypeOK, Moves
<1>5. SpentInv'
    BY DEF Begin, IInv, SpentInv
<1> QED BY <1>2, <1>4, <1>5, UploadStep DEF Begin, IInv, TypeOK

\* An upload that is refused has no staging file.
LEMMA RefuseMoves ==
    ASSUME IInv, NEW u \in Upload, Refuse(u)
    PROVE  \E s : Moves(u, s, None) /\ s.pc = "refused"
<1> DEFINE s == [pc |-> "refused", tok |-> None, body |-> None, got |-> 0, size |-> 0]
<1>1. up' = [up EXCEPT ![u] = s] /\ staging' = [staging EXCEPT ![u] = None]
    <2>1. [Idle EXCEPT !.pc = "refused"] = s
        BY DEF Idle
    <2> QED BY <2>1, Zenon DEF Refuse
<1>2. s \in UpState /\ UpShape(s, None) /\ s.pc = "refused"
    BY DEF UpState, UpPc, UpShape
<1> HIDE DEF s
<1> QED BY <1>1, <1>2 DEF IInv, TypeOK, Moves

\* A chunk that is kept is within the cap in force.
LEMMA ChunkInv ==
    ASSUME IInv, NEW u \in Upload, Chunk(u)
    PROVE  IInv'
<1>1. UNCHANGED <<get, file, row, mutex, used, spent>>
    BY DEF Chunk
<1>2. SpentInv'
    BY <1>1 DEF IInv, SpentInv
<1>3. CASE Refuse(u)
    BY <1>1, <1>2, <1>3, RefuseMoves, UploadStep DEF IInv, TypeOK
<1>4. CASE ~Refuse(u)
    <2>0. PICK d \in UpState : d = up[u]
        BY DEF IInv, TypeOK
    <2>1. d.pc = "stream" /\ d.tok \in Token /\ d.body \in Blob /\ d.got \in Nat
        BY <2>0 DEF Chunk, IInv, UploadInv, UpShape, UpState
    <2>2. PICK total \in Nat :
              /\ total <= Size[d.body] /\ ~(total > EffectiveCap(u, total))
              /\ up' = [up EXCEPT ![u].got = total] /\ staging' = [staging EXCEPT ![u] = total]
        <3>1. PICK n \in 1..MaxChunk :
                  /\ d.got + n <= Size[d.body] /\ ~(d.got + n > EffectiveCap(u, d.got + n))
                  /\ up' = [up EXCEPT ![u].got = d.got + n] /\ staging' = [staging EXCEPT ![u] = d.got + n]
            BY <1>4, <2>0 DEF Chunk
        <3>2. d.got + n \in Nat
            BY <2>1, SizeAssumption
        <3> QED BY <3>1, <3>2
    <2>3. total >= Sniff => total <= CapForSniff(d.body)
        BY <2>0, <2>1, <2>2, CapFacts, SizeAssumption DEF EffectiveCap
    <2> DEFINE s == [d EXCEPT !.got = total]
    <2>4. s \in UpState /\ UpShape(s, total) /\ s.pc = "stream"
        BY <2>1, <2>2, <2>3 DEF UpState, UpShape
    <2>5. up' = [up EXCEPT ![u] = s]
        BY <2>0, <2>2 DEF IInv, TypeOK
    <2> HIDE DEF s
    <2>6. Moves(u, s, total)
        BY <2>2, <2>4, <2>5 DEF IInv, TypeOK, Moves
    <2> QED BY <1>1, <1>2, <2>4, <2>6, UploadStep DEF IInv, TypeOK
<1> QED BY <1>3, <1>4

\* The other steps of a body that is still streaming, or ends there.
LEMMA EndInv ==
    ASSUME IInv, NEW u \in Upload, StreamFails(u) \/ Dropped(u) \/ EndBody(u)
    PROVE  IInv'
<1>1. UNCHANGED <<get, file, row, mutex>>
    BY DEF StreamFails, Dropped, EndBody, disk
<1>2. CASE Refuse(u) /\ UNCHANGED <<used, spent>>
    BY <1>1, <1>2, RefuseMoves, UploadStep DEF IInv, TypeOK, SpentInv
<1>3. CASE Dropped(u)
    <2> DEFINE s == [pc |-> "gone", tok |-> None, body |-> None, got |-> 0, size |-> 0]
    <2>1. up' = [up EXCEPT ![u] = s] /\ UNCHANGED <<staging, used, spent>>
        <3>1. [Idle EXCEPT !.pc = "gone"] = s
            BY DEF Idle
        <3> QED BY <1>3, <3>1, Zenon DEF Dropped, disk
    <2>2. s \in UpState /\ UpShape(s, staging[u]) /\ s.pc = "gone"
        BY DEF UpState, UpPc, UpShape
    <2> HIDE DEF s
    <2>3. Moves(u, s, staging[u])
        BY <2>1, <2>2 DEF IInv, TypeOK, Moves
    <2> QED BY <1>1, <2>1, <2>2, <2>3, UploadStep DEF IInv, TypeOK, SpentInv
<1>4. CASE /\ EndBody(u) /\ Fresh(up[u].tok) /\ Record(up[u].tok)
           /\ up' = [up EXCEPT ![u].pc = "install"] /\ UNCHANGED staging
    <2>0. PICK d \in UpState : d = up[u]
        BY DEF IInv, TypeOK
    <2>1. /\ d.pc = "stream" /\ d.tok \in Token /\ d.body \in Blob /\ d.got = Size[d.body]
          /\ Fresh(d.tok) /\ Record(d.tok)
          /\ up' = [up EXCEPT ![u].pc = "install"] /\ UNCHANGED staging
        BY <1>4, <2>0 DEF EndBody, IInv, UploadInv, UpShape, UpState
    <2>2. staging[u] = Size[d.body] /\ Size[d.body] <= CapForSniff(d.body) /\ Size[d.body] \in Nat
        BY <2>0, <2>1, CapFacts, SizeAssumption DEF IInv, UploadInv, UpShape
    <2> DEFINE s == [d EXCEPT !.pc = "install"]
    <2>3. s \in UpState /\ UpShape(s, staging[u]) /\ s.pc = "install"
        BY <2>1, <2>2 DEF UpState, UpPc, UpShape
    <2>4. up' = [up EXCEPT ![u] = s]
        BY <2>0, <2>1 DEF IInv, TypeOK
    <2> HIDE DEF s
    <2>5. Moves(u, s, staging[u])
        BY <2>1, <2>2, <2>3, <2>4 DEF IInv, TypeOK, Moves
    <2>6. SpentInv' /\ spent' \in [Token -> Nat]
        BY <2>1, TokenAssumption DEF IInv, TypeOK, SpentInv, Fresh, Record
    <2>7. TypeOK'
        BY <1>1, <2>5, <2>6 DEF IInv, TypeOK, Moves
    <2>8. mutex' \in Upload \cup {None}
        BY <1>1 DEF IInv, TypeOK
    <2>9. UploadInv' /\ BlobInv' /\ GetInv'
        BY <1>1, <2>3, <2>5, <2>8, UploadStep
    <2> QED BY <2>6, <2>7, <2>9 DEF IInv
<1> QED BY <1>2, <1>3, <1>4 DEF StreamFails, EndBody

----------------------------------------------------------------------------
(* MediaStore::install.                                                    *)

\* The first reads.
LEMMA InstallCheckInv ==
    ASSUME IInv, NEW u \in Upload, InstallCheck(u)
    PROVE  IInv'
<1>0. PICK d \in UpState : d = up[u]
    BY DEF IInv, TypeOK
<1>1. /\ UNCHANGED <<get, file, row, used, spent>>
      /\ mutex' \in Upload \cup {None}
    BY DEF InstallCheck, IInv, TypeOK
<1>2. SpentInv'
    BY <1>1 DEF IInv, SpentInv
<1>3. /\ d.pc = "install" /\ d.tok \in Token /\ d.body \in Blob
      /\ staging[u] = Size[d.body] /\ Size[d.body] \in Nat /\ Size[d.body] <= CapForSniff(d.body)
    BY <1>0, SizeAssumption DEF InstallCheck, IInv, UploadInv, UpShape, UpState
<1>4. CASE staging' = [staging EXCEPT ![u] = None] /\ up' = [up EXCEPT ![u].pc = "done"]
    <2> DEFINE s == [d EXCEPT !.pc = "done"]
    <2>1. s \in UpState /\ UpShape(s, None) /\ s.pc = "done"
        BY <1>3 DEF UpState, UpPc, UpShape
    <2>2. up' = [up EXCEPT ![u] = s]
        BY <1>0, <1>4 DEF IInv, TypeOK
    <2> HIDE DEF s
    <2>3. Moves(u, s, None)
        BY <1>4, <2>1, <2>2 DEF IInv, TypeOK, Moves
    <2> QED BY <1>1, <1>2, <2>1, <2>3, UploadStep DEF IInv
<1>5. CASE up' = [up EXCEPT ![u].pc = "persist", ![u].size = staging[u]] /\ UNCHANGED staging
    <2> DEFINE s == [d EXCEPT !.pc = "persist", !.size = Size[d.body]]
    <2>1. s \in UpState /\ UpShape(s, staging[u]) /\ s.pc = "persist"
        BY <1>3 DEF UpState, UpPc, UpShape
    <2>2. up' = [up EXCEPT ![u] = s]
        BY <1>0, <1>3, <1>5 DEF IInv, TypeOK
    <2> HIDE DEF s
    <2>3. Moves(u, s, staging[u])
        BY <1>3, <1>5, <2>1, <2>2 DEF IInv, TypeOK, Moves
    <2> QED BY <1>1, <1>2, <2>1, <2>3, UploadStep DEF IInv
<1>6. CASE up' = [up EXCEPT ![u] = [Idle EXCEPT !.pc = "failed"]] /\ UNCHANGED staging
    <2> DEFINE s == [pc |-> "failed", tok |-> None, body |-> None, got |-> 0, size |-> 0]
    <2>1. up' = [up EXCEPT ![u] = s]
        <3>1. [Idle EXCEPT !.pc = "failed"] = s
            BY DEF Idle
        <3> QED BY <1>6, <3>1, Zenon
    <2>2. s \in UpState /\ UpShape(s, staging[u]) /\ s.pc = "failed"
        BY DEF UpState, UpPc, UpShape
    <2> HIDE DEF s
    <2>3. Moves(u, s, staging[u])
        BY <1>3, <1>6, <2>1, <2>2 DEF IInv, TypeOK, Moves
    <2> QED BY <1>1, <1>2, <2>2, <2>3, UploadStep DEF IInv
<1> QED BY <1>4, <1>5, <1>6 DEF InstallCheck

\* The rename: the file is whole, or was whole already.
LEMMA PersistInv ==
    ASSUME IInv, NEW u \in Upload, Persist(u)
    PROVE  IInv'
<1>0. PICK d \in UpState : d = up[u]
    BY DEF IInv, TypeOK
<1>1. UNCHANGED <<row, get, used, spent>>
    BY DEF Persist
<1>2. SpentInv' /\ mutex' \in Upload \cup {None}
    BY <1>1 DEF IInv, SpentInv, TypeOK, Persist
<1>3. /\ d.pc = "persist" /\ d.tok \in Token /\ d.body \in Blob /\ d.size = Size[d.body]
      /\ staging[u] = Size[d.body] /\ Size[d.body] \in Nat /\ Size[d.body] <= CapForSniff(d.body)
    BY <1>0, SizeAssumption DEF Persist, IInv, UploadInv, UpShape, UpState
<1>4. CASE Refuse(u) /\ UNCHANGED file
    BY <1>1, <1>2, <1>4, RefuseMoves, UploadStep DEF IInv
<1>5. CASE /\ up' = [up EXCEPT ![u].pc = "insert"] /\ staging' = [staging EXCEPT ![u] = None]
           /\ file' = [file EXCEPT ![d.body] = IF @ = None THEN staging[u] ELSE @] /\ UNCHANGED mutex
    <2> DEFINE s == [d EXCEPT !.pc = "insert"]
    <2>1. s \in UpState /\ UpShape(s, None) /\ s.pc = "insert" /\ s.body = d.body
        BY <1>3 DEF UpState, UpPc, UpShape
    <2>2. up' = [up EXCEPT ![u] = s]
        BY <1>0, <1>5 DEF IInv, TypeOK
    <2> HIDE DEF s
    <2>3. Moves(u, s, None)
        BY <1>5, <2>1, <2>2 DEF IInv, TypeOK, Moves
    <2>4. /\ file' \in [Blob -> Nat \cup {None}] /\ file'[d.body] = Size[d.body]
          /\ \A b \in Blob : b # d.body => file'[b] = file[b]
        BY <1>3, <1>5 DEF IInv, TypeOK, BlobInv
    <2>5. UploadInv'
        BY <2>3 DEF IInv, UploadInv, Moves
    <2>6. BlobInv'
        <3>1. \A b \in Blob : file'[b] # None => file'[b] = Size[b]
            BY <2>4 DEF IInv, BlobInv
        <3>2. \A v \in Upload : up'[v].pc = "insert" => file'[up'[v].body] = Size[up'[v].body]
            BY <2>1, <2>3, <2>4 DEF IInv, BlobInv, UploadInv, UpShape, Moves
        <3>3. WholeOrHidden'
            BY <1>1, <2>4 DEF IInv, BlobInv, WholeOrHidden
        <3> QED BY <3>1, <3>2, <3>3 DEF BlobInv
    <2>7. GetInv'
        BY <1>1 DEF IInv, GetInv, GetShape
    <2>8. TypeOK'
        BY <1>1, <1>5, <2>3, <2>4 DEF IInv, TypeOK, Moves
    <2> QED BY <1>2, <2>5, <2>6, <2>7, <2>8 DEF IInv
<1> QED BY <1>0, <1>4, <1>5 DEF Persist

\* The row, of a file that is whole.
LEMMA InsertInv ==
    ASSUME IInv, NEW u \in Upload, Insert(u)
    PROVE  IInv'
<1>0. PICK d \in UpState : d = up[u]
    BY DEF IInv, TypeOK
<1>1. UNCHANGED <<staging, file, get, used, spent>> /\ mutex' = None
    BY DEF Insert
<1>2. SpentInv' /\ mutex' \in Upload \cup {None}
    BY <1>1 DEF IInv, SpentInv
<1>3. /\ d.pc = "insert" /\ d.tok \in Token /\ d.body \in Blob /\ d.size = Size[d.body]
      /\ staging[u] = None /\ Size[d.body] \in Nat /\ Size[d.body] <= CapForSniff(d.body)
      /\ file[d.body] = Size[d.body]
    BY <1>0, SizeAssumption DEF Insert, IInv, UploadInv, UpShape, UpState, BlobInv
<1>4. CASE up' = [up EXCEPT ![u] = [Idle EXCEPT !.pc = "refused"]] /\ UNCHANGED row
    <2>1. Refuse(u)
        <3>1. staging' = [staging EXCEPT ![u] = None]
            BY <1>1, <1>3 DEF IInv, TypeOK
        <3> QED BY <1>4, <3>1 DEF Refuse
    <2> QED BY <1>1, <1>2, <1>4, <2>1, RefuseMoves, UploadStep DEF IInv
<1>5. CASE /\ row' = [row EXCEPT ![d.body] = IF @ = None THEN [size |-> d.size, by |-> u] ELSE @]
           /\ up' = [up EXCEPT ![u].pc = "done"]
    <2> DEFINE s == [d EXCEPT !.pc = "done"]
    <2>1. s \in UpState /\ UpShape(s, None) /\ s.pc = "done"
        BY <1>3 DEF UpState, UpPc, UpShape
    <2>2. up' = [up EXCEPT ![u] = s]
        BY <1>0, <1>5 DEF IInv, TypeOK
    <2> HIDE DEF s
    <2>3. Moves(u, s, None)
        BY <1>1, <1>3, <2>1, <2>2 DEF IInv, TypeOK, Moves
    <2> DEFINE e == [size |-> d.size, by |-> u]
    <2>4. e \in [size : Nat, by : Upload] /\ e.size = Size[d.body]
        BY <1>3
    <2>5. /\ row' \in [Blob -> [size : Nat \cup {None}, by : Upload] \cup {None}]
          /\ row[d.body] = None => row'[d.body] = e
          /\ row[d.body] # None => row'[d.body] = row[d.body]
          /\ \A b \in Blob : b # d.body => row'[b] = row[b]
        <3>1. row' = [row EXCEPT ![d.body] = IF row[d.body] = None THEN e ELSE row[d.body]]
            BY <1>5, Zenon
        <3> HIDE DEF e
        <3> QED BY <1>3, <2>4, <3>1 DEF IInv, TypeOK
    <2> HIDE DEF e
    <2>6. UploadInv'
        BY <2>3 DEF IInv, UploadInv, Moves
    <2>7. BlobInv'
        <3>1. \A v \in Upload : up'[v].pc = "insert" => file[up'[v].body] = Size[up'[v].body]
            BY <2>1, <2>3 DEF IInv, BlobInv, Moves
        <3>2. WholeOrHidden'
            BY <1>1, <1>3, <2>4, <2>5 DEF IInv, BlobInv, WholeOrHidden
        <3> QED BY <1>1, <3>1, <3>2 DEF IInv, BlobInv
    <2>8. GetInv'
        <3>1. \A b \in Blob : row[b] # None => row'[b] # None
            <4>1. row[d.body] # None => row'[d.body] # None
                BY <2>5
            <4> QED BY <2>5, <4>1
        <3> QED BY <1>1, <3>1 DEF IInv, GetInv, GetShape
    <2>9. TypeOK'
        BY <1>1, <2>3, <2>5 DEF IInv, TypeOK, Moves
    <2> QED BY <1>2, <2>6, <2>7, <2>8, <2>9 DEF IInv
<1> QED BY <1>0, <1>4, <1>5 DEF Insert

----------------------------------------------------------------------------
(* Requests, the replay cache and the process.                             *)

\* One request goes on, with a reply of that shape.
LEMMA GetStep ==
    ASSUME IInv, NEW g \in Get, NEW s \in GetState, GetShape(s), get' = [get EXCEPT ![g] = s],
           UNCHANGED <<up, staging, file, row, mutex>>
    PROVE  /\ UploadInv' /\ BlobInv' /\ GetInv'
           /\ SpentInv' /\ spent' \in [Token -> Nat] => IInv'
<1>1. UploadInv' /\ BlobInv'
    BY DEF IInv, UploadInv, BlobInv, WholeOrHidden
<1>2. get' \in [Get -> GetState] /\ get'[g] = s /\ \A h \in Get : h # g => get'[h] = get[h]
    BY DEF IInv, TypeOK
<1>3. GetInv'
    BY <1>2 DEF IInv, GetInv, GetShape
<1> QED BY <1>1, <1>2, <1>3 DEF IInv, TypeOK

\* The token, when one is required, is spent before the blob is looked up.
LEMMA RequestInv ==
    ASSUME IInv, NEW g \in Get, NEW b \in Blob, NEW t \in Token, NEW r \in RangeHeader \cup {None},
           Request(g, b, t, r)
    PROVE  IInv'
<1>0. PICK i \in GetState : i = NoGet
    BY DEF NoGet, GetState
<1>1. PICK pc \in {"lookup", "end"} :
          get' = [get EXCEPT ![g] = [i EXCEPT !.pc = pc, !.blob = b, !.range = r]]
    <2>1. PICK pc \in {"lookup", "end"} : pc = IF RequireMembership /\ ~t.member THEN "end" ELSE "lookup"
        OBVIOUS
    <2> QED BY <1>0, <2>1, Zenon DEF Request
<1> DEFINE s == [i EXCEPT !.pc = pc, !.blob = b, !.range = r]
<1>2. s \in GetState /\ s.pc = pc /\ s.blob = b /\ s.reply = None
    <2>1. i.reply = None
        BY <1>0 DEF NoGet
    <2> QED BY <2>1 DEF GetState
<1> HIDE DEF s
<1>3. GetShape(s)
    BY <1>2 DEF GetShape
<1>4. UNCHANGED <<up, staging, file, row, mutex>>
    BY DEF Request, disk
<1>5. SpentInv' /\ spent' \in [Token -> Nat]
    <2>1. CASE UNCHANGED <<used, spent>>
        BY <2>1 DEF IInv, TypeOK, SpentInv
    <2>2. CASE Fresh(t) /\ Record(t)
        BY <2>2, TokenAssumption DEF IInv, TypeOK, SpentInv, Fresh, Record
    <2> QED BY <2>1, <2>2 DEF Request
<1>6. get' = [get EXCEPT ![g] = s]
    BY <1>1 DEF s
<1> QED BY <1>2, <1>3, <1>4, <1>5, <1>6, GetStep

\* The two fields Lookup and Open write.
LEMMA ReplyWritten ==
    ASSUME TypeOK, NEW g \in Get, NEW x, NEW y, get' = [get EXCEPT ![g].pc = x, ![g].reply = y]
    PROVE  get' = [get EXCEPT ![g] = [get[g] EXCEPT !.pc = x, !.reply = y]]
BY DEF TypeOK

\* The reply is settled from the row.
LEMMA LookupInv ==
    ASSUME IInv, NEW g \in Get, Lookup(g)
    PROVE  IInv'
<1>0. PICK d \in GetState : d = get[g]
    BY DEF IInv, TypeOK
<1>1. UNCHANGED <<up, staging, file, row, mutex, used, spent>> /\ d.pc = "lookup" /\ d.blob \in Blob
    BY <1>0 DEF Lookup, disk, IInv, GetInv, GetShape
<1>2. SpentInv' /\ spent' \in [Token -> Nat]
    BY <1>1 DEF IInv, TypeOK, SpentInv
<1>3. ASSUME NEW pc \in {"open", "end"}, NEW reply \in Reply,
             get' = [get EXCEPT ![g].pc = pc, ![g].reply = reply],
             pc = "open" => row[d.blob] # None /\ reply.status \in {200, 206},
             Exact(reply, d.range, Size[d.blob])
      PROVE  IInv'
    <2> DEFINE s == [d EXCEPT !.pc = pc, !.reply = reply]
    <2>1. s \in GetState /\ s.pc = pc /\ s.blob = d.blob /\ s.range = d.range /\ s.reply = reply
        BY DEF GetState
    <2>2. get' = [get EXCEPT ![g] = s]
        <3>1. get' = [get EXCEPT ![g] = [get[g] EXCEPT !.pc = pc, !.reply = reply]]
            <4>1. TypeOK /\ get' = [get EXCEPT ![g].pc = pc, ![g].reply = reply]
                BY <1>3 DEF IInv
            <4> QED BY <4>1, ReplyWritten
        <3> QED BY <1>0, <3>1, Zenon
    <2> HIDE DEF s
    <2>3. GetShape(s)
        BY <1>1, <1>3, <2>1 DEF GetShape
    <2> QED BY <1>1, <1>2, <2>1, <2>2, <2>3, GetStep
<1>4. CASE row[d.blob] = None \/ file[d.blob] = None
    <2> DEFINE reply == [status |-> 404, bytes |-> {}]
    <2>1. reply \in Reply /\ Exact(reply, d.range, Size[d.blob])
        BY DEF Reply, Exact
    <2>2. get' = [get EXCEPT ![g].pc = "end", ![g].reply = reply]
        BY <1>0, <1>4 DEF Lookup
    <2> HIDE DEF reply
    <2> QED BY <1>3, <2>1, <2>2
<1>5. CASE row[d.blob] # None /\ file[d.blob] # None
    <2>1. row[d.blob].size = Size[d.blob] /\ Size[d.blob] \in Nat
        BY <1>1, <1>5, SizeAssumption DEF IInv, BlobInv, WholeOrHidden
    <2>2. PICK spec \in Reply : /\ spec = ParseRange(d.range, Size[d.blob]) /\ spec.status \in {200, 206, 416}
                                /\ Exact(spec, d.range, Size[d.blob])
        BY <2>1, ParseRangeExact DEF GetState
    <2>3. PICK cond \in BOOLEAN :
              get' = [get EXCEPT
                ![g].pc = IF cond \/ spec.status = 416 THEN "end" ELSE "open",
                ![g].reply = IF cond THEN [status |-> 304, bytes |-> {}] ELSE spec]
        BY <1>0, <1>5, <2>1, <2>2 DEF Lookup
    <2>4. CASE cond
        <3> DEFINE reply == [status |-> 304, bytes |-> {}]
        <3>1. reply \in Reply /\ Exact(reply, d.range, Size[d.blob])
            BY DEF Reply, Exact
        <3>2. get' = [get EXCEPT ![g].pc = "end", ![g].reply = reply]
            BY <2>3, <2>4, Zenon
        <3> HIDE DEF reply
        <3> QED BY <1>3, <3>1, <3>2
    <2>5. CASE ~cond /\ spec.status = 416
        <3> DEFINE reply == spec
        <3>1. get' = [get EXCEPT ![g].pc = "end", ![g].reply = reply]
            BY <2>3, <2>5, Zenon
        <3>2. reply \in Reply /\ Exact(reply, d.range, Size[d.blob])
            BY <2>2
        <3> HIDE DEF reply
        <3> QED BY <1>3, <3>1, <3>2
    <2>6. CASE ~cond /\ spec.status # 416
        <3>1. get' = [get EXCEPT ![g].pc = "open", ![g].reply = spec]
            BY <2>3, <2>6, Zenon
        <3>2. spec.status \in {200, 206}
            BY <2>2, <2>6
        <3> QED BY <1>3, <1>5, <2>2, <3>1, <3>2, Zenon
    <2> QED BY <2>4, <2>5, <2>6
<1> QED BY <1>4, <1>5

\* The file behind a visible blob is whole: what is streamed is what was settled.
LEMMA OpenInv ==
    ASSUME IInv, NEW g \in Get, Open(g)
    PROVE  IInv'
<1>0. PICK d \in GetState : d = get[g]
    BY DEF IInv, TypeOK
<1>1. /\ UNCHANGED <<up, staging, file, row, mutex, used, spent>>
      /\ d.pc = "open" /\ d.blob \in Blob /\ d.reply \in Reply /\ row[d.blob] # None
    BY <1>0 DEF Open, disk, IInv, GetInv, GetShape
<1>2. SpentInv' /\ spent' \in [Token -> Nat]
    BY <1>1 DEF IInv, TypeOK, SpentInv
<1>3. PICK e \in Reply : e = d.reply /\ Exact(e, d.range, Size[d.blob]) /\ e.status \in {200, 206}
    BY <1>0, <1>1 DEF IInv, GetInv, GetShape
<1>4. file[d.blob] = Size[d.blob] /\ Size[d.blob] \in Nat /\ file[d.blob] # None
    BY <1>1, SizeAssumption, NoneAssumption DEF IInv, BlobInv, WholeOrHidden
<1>5. e.bytes \cap 0..(file[d.blob] - 1) = e.bytes
    BY <1>3, <1>4 DEF Exact, Selected
<1> DEFINE reply == [e EXCEPT !.bytes = e.bytes \cap 0..(file[d.blob] - 1)]
<1>6. reply = e
    BY <1>5 DEF Reply
<1>7. get' = [get EXCEPT ![g].pc = "end", ![g].reply = reply]
    BY <1>0, <1>3, <1>4 DEF Open
<1>8. get' = [get EXCEPT ![g] = [d EXCEPT !.pc = "end", !.reply = e]]
    <2>1. TypeOK /\ get' = [get EXCEPT ![g].pc = "end", ![g].reply = e]
        BY <1>6, <1>7, Zenon DEF IInv
    <2>2. get' = [get EXCEPT ![g] = [get[g] EXCEPT !.pc = "end", !.reply = e]]
        BY <2>1, ReplyWritten
    <2> QED BY <1>0, <2>2, Zenon
<1> DEFINE s == [d EXCEPT !.pc = "end", !.reply = e]
<1>9. s \in GetState /\ s.pc = "end" /\ s.blob = d.blob /\ s.range = d.range /\ s.reply = e
    BY DEF GetState
<1> HIDE DEF s
<1>10. GetShape(s)
    BY <1>1, <1>3, <1>9 DEF GetShape
<1> QED BY <1>1, <1>2, <1>8, <1>9, <1>10, GetStep DEF s

\* A record that lapses takes the count of its token with it.
LEMMA LapseInv ==
    ASSUME IInv, NEW t \in Token, Lapse(t)
    PROVE  IInv'
<1>1. UNCHANGED <<up, get, staging, file, row, mutex>>
    BY DEF Lapse
<1>2. SpentInv' /\ spent' \in [Token -> Nat]
    BY TokenAssumption DEF Lapse, IInv, TypeOK, SpentInv
<1> QED BY <1>1, <1>2 DEF IInv, TypeOK, UploadInv, BlobInv, WholeOrHidden, GetInv, GetShape

\* What is on disk outlives the process, and so does a reply that was sent.
LEMMA CrashInv ==
    ASSUME IInv, Crash
    PROVE  IInv'
<1>1. UNCHANGED <<staging, file, row>> /\ mutex' = None
    BY DEF Crash
<1>2. /\ up' \in [Upload -> UpState]
      /\ \A u \in Upload : up'[u] = up[u] \/ up'[u].pc = "gone"
    BY DEF Crash, IInv, TypeOK, Idle, UpState, UpPc
<1>3. /\ get' \in [Get -> GetState]
      /\ \A g \in Get : get'[g] = get[g] \/ (get'[g].pc = "end" /\ get'[g].reply = None)
    BY DEF Crash, IInv, TypeOK, NoGet, GetState
<1>4. SpentInv' /\ spent' \in [Token -> Nat]
    BY DEF Crash, SpentInv
<1>5. TypeOK'
    BY <1>1, <1>2, <1>3, <1>4 DEF IInv, TypeOK
<1>6. UploadInv'
    BY <1>1, <1>2 DEF IInv, UploadInv, UpShape
<1>7. BlobInv'
    BY <1>1, <1>2 DEF IInv, BlobInv, WholeOrHidden
<1>8. GetInv'
    BY <1>1, <1>3 DEF IInv, GetInv, GetShape
<1> QED BY <1>4, <1>5, <1>6, <1>7, <1>8 DEF IInv

----------------------------------------------------------------------------
(* The theorems.                                                           *)

\* An empty store.
LEMMA InitInv == Init => IInv
<1> SUFFICES ASSUME Init PROVE IInv
    OBVIOUS
<1>1. TypeOK
    BY DEF Init, TypeOK, Idle, NoGet, UpState, UpPc, GetState
<1>2. UploadInv /\ SpentInv /\ GetInv
    BY DEF Init, UploadInv, UpShape, SpentInv, GetInv, GetShape, Idle, NoGet
<1>3. BlobInv
    BY DEF Init, BlobInv, WholeOrHidden, Idle
<1> QED BY <1>1, <1>2, <1>3 DEF IInv

\* Every step keeps the invariant.
LEMMA NextInv == IInv /\ [Next]_vars => IInv'
<1> SUFFICES ASSUME IInv, [Next]_vars PROVE IInv'
    OBVIOUS
<1>1. CASE UNCHANGED vars
    BY <1>1 DEF vars, IInv, TypeOK, UploadInv, UpShape, BlobInv, WholeOrHidden, SpentInv, GetInv, GetShape
<1>2. ASSUME NEW u \in Upload, Chunk(u) \/ StreamFails(u) \/ Dropped(u) \/ EndBody(u) \/ Install(u)
      PROVE  IInv'
    BY <1>2, ChunkInv, EndInv, InstallCheckInv, PersistInv, InsertInv DEF Install
<1> QED BY <1>1, <1>2, BeginInv, RequestInv, LookupInv, OpenInv, LapseInv, CrashInv DEF Next

\* The inductive invariant holds throughout every execution.
THEOREM Invariance == Spec => []IInv
BY InitInv, NextInv, PTL DEF Spec

\* Every visible blob is whole and within the cap of its type, whatever uploads
\* of it run at once and wherever the process dies (store.rs:322-402).
THEOREM BlobsWhole == Spec => []WholeOrHidden
<1>1. IInv => WholeOrHidden
    BY DEF IInv, BlobInv
<1> QED BY <1>1, Invariance, PTL

\* An upload that was stored or refused has no staging file.
THEOREM StagingGone == Spec => []StagingReclaimed
<1>1. IInv => StagingReclaimed
    BY DEF IInv, UploadInv, UpShape, StagingReclaimed
<1> QED BY <1>1, Invariance, PTL

\* A token is accepted once while its record lives, at the upload door and the
\* download door together.
THEOREM SpentCorrect == Spec => []TokensSpentOnce
<1>1. IInv => TokensSpentOnce
    BY DEF IInv, SpentInv, TokensSpentOnce
<1> QED BY <1>1, Invariance, PTL

\* A client receives the bytes its range header selects, for every header and
\* size, although the reply is settled before the file is opened.
THEOREM RangesCorrect == Spec => []RangesExact
<1>1. IInv => RangesExact
    BY DEF IInv, GetInv, GetShape, Exact, RangesExact
<1> QED BY <1>1, Invariance, PTL

----------------------------------------------------------------------------
(* The store is a shelf.                                                   *)

\* What an upload under way was admitted with: the verb and the member from the
\* door on, the hash and the type once the body is complete.
Warranted(s) ==
    /\ s.pc = "stream" => s.tok.verb = "upload" /\ (RequireMembership => s.tok.member)
    /\ s.pc \in {"install", "persist", "insert"} => S!Warrants(s.tok, s.body) /\ Kind[s.body] # "spoof"

WarrantInv == \A u \in Upload : Warranted(up[u])

\* One upload goes on, still warranted.
LEMMA WarrantStep ==
    ASSUME TypeOK, WarrantInv, NEW u \in Upload, NEW s, up' = [up EXCEPT ![u] = s], Warranted(s)
    PROVE  WarrantInv'
<1>1. up'[u] = s /\ \A v \in Upload : v # u => up'[v] = up[v]
    BY DEF TypeOK
<1> QED BY <1>1 DEF WarrantInv, Warranted

\* One that ends, or is put back, needs no warrant.
LEMMA WarrantEnd ==
    ASSUME TypeOK, WarrantInv, NEW u \in Upload, NEW pc \in {"refused", "gone", "failed"},
           up' = [up EXCEPT ![u] = [Idle EXCEPT !.pc = pc]]
    PROVE  WarrantInv'
<1> DEFINE s == [Idle EXCEPT !.pc = pc]
<1>1. Warranted(s)
    BY DEF Warranted, Idle
<1> HIDE DEF s
<1>2. up' = [up EXCEPT ![u] = s]
    BY DEF s
<1> QED BY <1>1, <1>2, WarrantStep

LEMMA WarrantRefuse ==
    ASSUME TypeOK, WarrantInv, NEW u \in Upload, Refuse(u)
    PROVE  WarrantInv'
<1>1. PICK pc \in {"refused", "gone", "failed"} : pc = "refused"
    OBVIOUS
<1>2. up' = [up EXCEPT ![u] = [Idle EXCEPT !.pc = pc]]
    BY <1>1, Zenon DEF Refuse
<1> QED BY <1>2, WarrantEnd

\* The upload keeps its token and its body and takes the next step of its install.
LEMMA WarrantOn ==
    ASSUME TypeOK, WarrantInv, NEW u \in Upload, NEW s \in UpState, up' = [up EXCEPT ![u] = s],
           s.tok = up[u].tok, s.body = up[u].body,
           \/ s.pc = "done" \/ s.pc = up[u].pc
           \/ s.pc \in {"persist", "insert"} /\ up[u].pc \in {"install", "persist", "insert"}
    PROVE  WarrantInv'
<1>1. Warranted(s)
    BY DEF WarrantInv, Warranted
<1> QED BY <1>1, WarrantStep

\* Every step keeps the warrants: an upload past its body bound its token to it.
LEMMA WarrantNext ==
    ASSUME IInv, WarrantInv, [Next]_vars
    PROVE  WarrantInv'
<1>0. TypeOK
    BY DEF IInv
<1>1. CASE UNCHANGED up
    BY <1>1 DEF WarrantInv, Warranted
<1>2. ASSUME NEW u \in Upload, NEW t \in Token, NEW b \in Blob, Begin(u, t, b) PROVE WarrantInv'
    <2> DEFINE s == [Idle EXCEPT !.pc = "stream", !.tok = t, !.body = b]
    <2>1. s.pc = "stream" /\ s.tok = t
        BY DEF Idle
    <2>2. up' = [up EXCEPT ![u] = s]
        BY <1>2, Zenon DEF Begin
    <2>3. t.verb = "upload" /\ (RequireMembership => t.member)
        BY <1>2 DEF Begin, VerifyCommon
    <2> HIDE DEF s
    <2>4. Warranted(s)
        BY <2>1, <2>3 DEF Warranted
    <2> QED BY <1>0, <2>2, <2>4, WarrantStep
<1>3. ASSUME NEW u \in Upload, Chunk(u) PROVE WarrantInv'
    <2>1. CASE Refuse(u)
        BY <1>0, <2>1, WarrantRefuse
    <2>2. CASE ~Refuse(u)
        <3>0. PICK d \in UpState : d = up[u]
            BY <1>0 DEF TypeOK
        <3>1. PICK n \in 1..MaxChunk : up' = [up EXCEPT ![u].got = d.got + n]
            BY <1>3, <2>2, <3>0 DEF Chunk
        <3>2. d.got + n \in Nat
            BY SizeAssumption DEF UpState
        <3> DEFINE s == [d EXCEPT !.got = d.got + n]
        <3>3. s \in UpState /\ s.pc = d.pc /\ s.tok = d.tok /\ s.body = d.body
            BY <3>2 DEF UpState
        <3>4. up' = [up EXCEPT ![u] = s]
            BY <1>0, <3>0, <3>1 DEF TypeOK
        <3> HIDE DEF s
        <3> QED BY <1>0, <3>0, <3>3, <3>4, WarrantOn
    <2> QED BY <2>1, <2>2
<1>4. ASSUME NEW u \in Upload, EndBody(u) PROVE WarrantInv'
    <2>1. CASE Refuse(u)
        BY <1>0, <2>1, WarrantRefuse
    <2>2. CASE ~Refuse(u)
        <3>0. PICK d \in UpState : d = up[u]
            BY <1>0 DEF TypeOK
        <3>1. /\ d.pc = "stream" /\ Kind[d.body] # "spoof" /\ d.tok.x = d.body
              /\ up' = [up EXCEPT ![u].pc = "install"]
            BY <1>4, <2>2, <3>0 DEF EndBody
        <3>2. d.tok.verb = "upload" /\ (RequireMembership => d.tok.member)
            BY <3>0, <3>1 DEF WarrantInv, Warranted
        <3> DEFINE s == [d EXCEPT !.pc = "install"]
        <3>3. s.pc = "install" /\ s.tok = d.tok /\ s.body = d.body
            BY DEF UpState
        <3>4. up' = [up EXCEPT ![u] = s]
            BY <1>0, <3>0, <3>1 DEF TypeOK
        <3> HIDE DEF s
        <3>5. Warranted(s)
            BY <3>1, <3>2, <3>3 DEF Warranted, S!Warrants
        <3> QED BY <1>0, <3>4, <3>5, WarrantStep
    <2> QED BY <2>1, <2>2
<1>5. ASSUME NEW u \in Upload, Install(u) PROVE WarrantInv'
    <2>0. PICK d \in UpState : d = up[u]
        BY <1>0 DEF TypeOK
    <2>1. CASE Refuse(u)
        BY <1>0, <2>1, WarrantRefuse
    <2>2. CASE \/ up' = [up EXCEPT ![u] = [Idle EXCEPT !.pc = "failed"]]
               \/ up' = [up EXCEPT ![u] = [Idle EXCEPT !.pc = "refused"]]
        <3>1. PICK pc \in {"refused", "gone", "failed"} : up' = [up EXCEPT ![u] = [Idle EXCEPT !.pc = pc]]
            BY <2>2
        <3> QED BY <1>0, <3>1, WarrantEnd
    <2>3. CASE up' = [up EXCEPT ![u].pc = "done"]
        <3> DEFINE s == [d EXCEPT !.pc = "done"]
        <3>1. s \in UpState /\ s.pc = "done" /\ s.tok = d.tok /\ s.body = d.body
            BY DEF UpState, UpPc
        <3>2. up' = [up EXCEPT ![u] = s]
            BY <1>0, <2>0, <2>3 DEF TypeOK
        <3> HIDE DEF s
        <3> QED BY <1>0, <2>0, <3>1, <3>2, WarrantOn
    <2>4. CASE up' = [up EXCEPT ![u].pc = "persist", ![u].size = staging[u]] /\ d.pc = "install"
        <3> DEFINE s == [d EXCEPT !.pc = "persist", !.size = staging[u]]
        <3>1. s \in UpState /\ s.pc = "persist" /\ s.tok = d.tok /\ s.body = d.body
            BY <1>0 DEF TypeOK, UpState, UpPc
        <3>2. up' = [up EXCEPT ![u] = s]
            BY <1>0, <2>0, <2>4 DEF TypeOK
        <3> HIDE DEF s
        <3> QED BY <1>0, <2>0, <2>4, <3>1, <3>2, WarrantOn
    <2>5. CASE up' = [up EXCEPT ![u].pc = "insert"] /\ d.pc = "persist"
        <3> DEFINE s == [d EXCEPT !.pc = "insert"]
        <3>1. s \in UpState /\ s.pc = "insert" /\ s.tok = d.tok /\ s.body = d.body
            BY DEF UpState, UpPc
        <3>2. up' = [up EXCEPT ![u] = s]
            BY <1>0, <2>0, <2>5 DEF TypeOK
        <3> HIDE DEF s
        <3> QED BY <1>0, <2>0, <2>5, <3>1, <3>2, WarrantOn
    <2> QED BY <1>5, <2>0, <2>1, <2>2, <2>3, <2>4, <2>5 DEF Install, InstallCheck, Persist, Insert
<1>6. ASSUME NEW u \in Upload, StreamFails(u) \/ Dropped(u) PROVE WarrantInv'
    <2>1. CASE StreamFails(u)
        BY <1>0, <2>1, WarrantRefuse DEF StreamFails
    <2>2. CASE Dropped(u)
        <3>1. PICK pc \in {"refused", "gone", "failed"} : up' = [up EXCEPT ![u] = [Idle EXCEPT !.pc = pc]]
            BY <2>2 DEF Dropped
        <3> QED BY <1>0, <3>1, WarrantEnd
    <2> QED BY <1>6, <2>1, <2>2
<1>7. CASE Crash
    <2>1. \A u \in Upload : up'[u] = up[u] \/ up'[u].pc = "gone"
        BY <1>7 DEF Crash, Idle
    <2> QED BY <2>1 DEF WarrantInv, Warranted
<1> QED BY <1>1, <1>2, <1>3, <1>4, <1>5, <1>6, <1>7 DEF Next, vars, Request, Lookup, Open, Lapse

\* Nothing is admitted before it is warranted.
THEOREM WarrantInvariance == Spec => []WarrantInv
<1>1. Init => WarrantInv
    BY DEF Init, WarrantInv, Warranted, Idle
<1> QED BY <1>1, WarrantNext, Invariance, PTL DEF Spec

----------------------------------------------------------------------------
(* What the clients see of a step.                                         *)

\* A reply and a row are there or not.
LEMMA NoneIsNoRecord ==
    /\ None \notin Reply
    /\ None \notin [size : Nat, by : Upload]
BY NoneAssumption DEF Reply

LEMMA StoredStays ==
    ASSUME \A u \in Upload : up'[u] = up[u] \/ (up[u].pc # "done" /\ up'[u].pc # "done")
    PROVE  Stored' = Stored
BY DEF Stored

LEMMA AnswerStays ==
    ASSUME \A g \in Get : \/ get'[g] = get[g]
                          \/ /\ get[g].pc # "end" \/ get[g].reply = None
                             /\ get'[g].pc # "end" \/ get'[g].reply = None
    PROVE  Answer' = Answer
BY DEF Answer

\* An upload that is done put its blob on the shelf, or found it there.
LEMMA ShelfStore ==
    ASSUME TypeOK, TypeOK', NEW u \in Upload, NEW b \in Blob, up[u].pc # "done", up[u].body = b,
           Kind[b] # "spoof", Size[b] <= CapForSniff(b), up[u].tok \in Token, S!Warrants(up[u].tok, b),
           up' = [up EXCEPT ![u].pc = "done"], row'[b] # None, \A c \in Blob : c # b => row'[c] = row[c],
           UNCHANGED get
    PROVE  S!Store(u)
<1>1. S!Acceptable(b)
    BY DEF S!Acceptable, S!Limit, CapForSniff
<1>2. Held' = Held \cup {b}
    BY DEF Held
<1>3. /\ up'[u].pc = "done" /\ up'[u].body = b /\ \A v \in Upload : v # u => up'[v] = up[v]
    BY DEF TypeOK, UpState
<1>4. Stored' = [Stored EXCEPT ![u] = b] /\ Stored[u] = None
    <2>1. /\ Stored'[u] = b /\ Stored[u] = None
          /\ \A v \in Upload : v # u => Stored'[v] = Stored[v]
        BY <1>3 DEF Stored
    <2>2. Stored = [v \in Upload |-> Stored[v]] /\ Stored' = [v \in Upload |-> Stored'[v]]
        BY DEF Stored
    <2> QED BY <2>1, <2>2
<1>5. Answer' = Answer
    BY DEF Answer
<1> QED BY <1>1, <1>2, <1>4, <1>5 DEF S!Store

\* A download that ends is answered from the shelf.
LEMMA ShelfServe ==
    ASSUME NEW g \in Get, NEW b \in Blob, NEW r \in RangeHeader \cup {None}, NEW reply \in S!Replies(r, b),
           reply # None, get[g].pc # "end", get'[g].pc = "end", get'[g].blob = b, get'[g].range = r,
           get'[g].reply = reply, \A h \in Get : h # g => get'[h] = get[h], UNCHANGED <<up, row>>
    PROVE  S!Serve(g)
<1>1. Answer[g] = None /\ Answer' = [Answer EXCEPT ![g] = [blob |-> b, range |-> r, reply |-> reply]]
    BY DEF Answer
<1>2. Held' = Held /\ Stored' = Stored
    BY DEF Held, Stored
<1> QED BY <1>1, <1>2 DEF S!Serve

\* The replies Lookup and Open settle on are those of the shelf.
LEMMA ExactReplies ==
    ASSUME NEW b \in Blob, NEW r \in RangeHeader \cup {None}, NEW reply \in Reply, b \in Held,
           Exact(reply, r, Size[b]), reply.status \in {200, 206, 416}
    PROVE  reply \in S!Replies(r, b)
<1>1. S!Named(r, b) = Selected(r, Size[b])
    <2>1. ASSUME NEW i \in 0..(Size[b] - 1) PROVE i \in S!Named(r, b) <=> i \in Selected(r, Size[b])
        <3>1. CASE r = None
            BY <3>1 DEF S!Named, Selected
        <3>2. CASE r # None /\ r.start = None
            BY <3>2 DEF S!Named, Selected
        <3>3. CASE r # None /\ r.start # None
            BY <3>3 DEF S!Named, Selected
        <3> QED BY <3>1, <3>2, <3>3
    <2>2. S!Named(r, b) \subseteq 0..(Size[b] - 1) /\ Selected(r, Size[b]) \subseteq 0..(Size[b] - 1)
        BY DEF S!Named, Selected
    <2> QED BY <2>1, <2>2
<1>2. reply = [status |-> reply.status, bytes |-> reply.bytes]
    BY DEF Reply
<1>3. CASE r = None
    <2>1. reply.status = 200 /\ reply.bytes = 0..(Size[b] - 1)
        <3>1. Selected(r, Size[b]) = 0..(Size[b] - 1)
            BY <1>3 DEF Selected
        <3>2. reply.status = 200
            BY <1>3 DEF Exact
        <3> QED BY <3>1, <3>2 DEF Exact
    <2>2. reply = S!Whole(b)
        BY <1>2, <2>1 DEF S!Whole
    <2> QED BY <1>3, <2>2 DEF S!Replies
<1>4. CASE r # None
    <2>1. /\ reply.bytes = S!Named(r, b)
          /\ reply.status = IF S!Named(r, b) = {} THEN 416 ELSE 206
        BY <1>1, <1>4 DEF Exact
    <2>2. reply = S!Part(r, b)
        BY <1>2, <2>1 DEF S!Part
    <2> QED BY <1>4, <2>2 DEF S!Replies
<1> QED BY <1>3, <1>4

\* A download is answered when it ends; 404 exactly when there is no row.
LEMMA LookupServes ==
    ASSUME IInv, NEW g \in Get, Lookup(g)
    PROVE  S!Serve(g) \/ UNCHANGED S!vars
<1>0. PICK d \in GetState : d = get[g]
    BY DEF IInv, TypeOK
<1>1. /\ UNCHANGED <<up, row>> /\ d.pc = "lookup" /\ d.blob \in Blob
      /\ d.range \in RangeHeader \cup {None}
    BY <1>0 DEF Lookup, disk, IInv, GetInv, GetShape, GetState
<1>2. Held' = Held /\ Stored' = Stored
    BY <1>1 DEF Held, Stored
<1>3. ASSUME NEW pc \in {"open", "end"}, NEW reply \in Reply,
             get' = [get EXCEPT ![g].pc = pc, ![g].reply = reply]
      PROVE  /\ get'[g].pc = pc /\ get'[g].blob = d.blob /\ get'[g].range = d.range /\ get'[g].reply = reply
             /\ \A h \in Get : h # g => get'[h] = get[h]
    BY <1>0, <1>3 DEF IInv, TypeOK, GetState
<1>4. ASSUME NEW reply \in Reply, get' = [get EXCEPT ![g].pc = "end", ![g].reply = reply],
             reply \in S!Replies(d.range, d.blob)
      PROVE  S!Serve(g)
    <2>1. reply # None
        BY NoneIsNoRecord
    <2>2. PICK pc \in {"open", "end"} : pc = "end"
        OBVIOUS
    <2>3. get' = [get EXCEPT ![g].pc = pc, ![g].reply = reply]
        BY <1>4, <2>2
    <2>4. /\ get'[g].pc = "end" /\ get'[g].blob = d.blob /\ get'[g].range = d.range /\ get'[g].reply = reply
          /\ \A h \in Get : h # g => get'[h] = get[h]
        BY <1>3, <2>2, <2>3
    <2> QED BY <1>0, <1>1, <1>4, <2>1, <2>4, ShelfServe
<1>5. CASE row[d.blob] = None \/ file[d.blob] = None
    <2>1. row[d.blob] = None
        BY <1>1, <1>5, SizeAssumption, NoneAssumption DEF IInv, BlobInv, WholeOrHidden
    <2> DEFINE reply == [status |-> 404, bytes |-> {}]
    <2>2. reply \in Reply /\ reply \in S!Replies(d.range, d.blob)
        BY <2>1 DEF Reply, S!Replies, S!NotFound, Held
    <2>3. get' = [get EXCEPT ![g].pc = "end", ![g].reply = reply]
        BY <1>0, <1>5 DEF Lookup
    <2> HIDE DEF reply
    <2> QED BY <1>4, <2>2, <2>3
<1>6. CASE row[d.blob] # None /\ file[d.blob] # None
    <2>1. row[d.blob].size = Size[d.blob] /\ Size[d.blob] \in Nat /\ d.blob \in Held
        BY <1>1, <1>6, SizeAssumption DEF IInv, BlobInv, WholeOrHidden, Held
    <2>2. PICK spec \in Reply : /\ spec = ParseRange(d.range, Size[d.blob]) /\ spec.status \in {200, 206, 416}
                                /\ Exact(spec, d.range, Size[d.blob])
        BY <1>1, <2>1, ParseRangeExact
    <2>3. PICK cond \in BOOLEAN :
              get' = [get EXCEPT
                ![g].pc = IF cond \/ spec.status = 416 THEN "end" ELSE "open",
                ![g].reply = IF cond THEN [status |-> 304, bytes |-> {}] ELSE spec]
        BY <1>0, <1>6, <2>1, <2>2 DEF Lookup
    <2>4. CASE cond
        <3> DEFINE reply == [status |-> 304, bytes |-> {}]
        <3>1. reply \in Reply /\ reply \in S!Replies(d.range, d.blob)
            BY <2>1 DEF Reply, S!Replies, S!NotModified
        <3>2. get' = [get EXCEPT ![g].pc = "end", ![g].reply = reply]
            BY <2>3, <2>4, Zenon
        <3> HIDE DEF reply
        <3> QED BY <1>4, <3>1, <3>2
    <2>5. CASE ~cond /\ spec.status = 416
        <3>1. get' = [get EXCEPT ![g].pc = "end", ![g].reply = spec]
            BY <2>3, <2>5, Zenon
        <3>2. spec \in S!Replies(d.range, d.blob)
            BY <1>1, <2>1, <2>2, ExactReplies
        <3> QED BY <1>4, <3>1, <3>2
    <2>6. CASE ~cond /\ spec.status # 416
        <3>1. get' = [get EXCEPT ![g].pc = "open", ![g].reply = spec]
            BY <2>3, <2>6, Zenon
        <3>2. PICK pc \in {"open", "end"} : pc = "open"
            OBVIOUS
        <3>3. get' = [get EXCEPT ![g].pc = pc, ![g].reply = spec]
            BY <3>1, <3>2
        <3>4. get'[g].pc = "open" /\ \A h \in Get : h # g => get'[h] = get[h]
            BY <1>3, <3>2, <3>3
        <3>5. Answer' = Answer
            BY <1>0, <1>1, <3>4, AnswerStays
        <3> QED BY <1>2, <3>5 DEF S!vars
    <2> QED BY <2>4, <2>5, <2>6
<1> QED BY <1>5, <1>6

\* What is streamed is the whole of what was settled, and the blob is still there.
LEMMA OpenServes ==
    ASSUME IInv, NEW g \in Get, Open(g)
    PROVE  S!Serve(g)
<1>0. PICK d \in GetState : d = get[g]
    BY DEF IInv, TypeOK
<1>1. /\ UNCHANGED <<up, row>> /\ d.pc = "open" /\ d.blob \in Blob /\ row[d.blob] # None
      /\ d.range \in RangeHeader \cup {None}
    BY <1>0 DEF Open, disk, IInv, GetInv, GetShape, GetState
<1>2. PICK e \in Reply : e = d.reply /\ Exact(e, d.range, Size[d.blob]) /\ e.status \in {200, 206}
    BY <1>0, <1>1 DEF IInv, GetInv, GetShape
<1>3. file[d.blob] = Size[d.blob] /\ Size[d.blob] \in Nat /\ file[d.blob] # None
    BY <1>1, SizeAssumption, NoneAssumption DEF IInv, BlobInv, WholeOrHidden
<1>4. e.bytes \cap 0..(file[d.blob] - 1) = e.bytes
    BY <1>2, <1>3 DEF Exact, Selected
<1> DEFINE reply == [e EXCEPT !.bytes = e.bytes \cap 0..(file[d.blob] - 1)]
<1>5. reply = e
    BY <1>4 DEF Reply
<1>6. get' = [get EXCEPT ![g].pc = "end", ![g].reply = reply]
    BY <1>0, <1>2, <1>3 DEF Open
<1> HIDE DEF reply
<1>7. /\ get'[g].pc = "end" /\ get'[g].blob = d.blob /\ get'[g].range = d.range /\ get'[g].reply = e
      /\ \A h \in Get : h # g => get'[h] = get[h]
    BY <1>0, <1>5, <1>6 DEF IInv, TypeOK, GetState
<1>8. e \in S!Replies(d.range, d.blob) /\ e # None
    <2>1. d.blob \in Held
        BY <1>1 DEF Held
    <2>2. e \in S!Replies(d.range, d.blob)
        BY <1>1, <1>2, <2>1, ExactReplies
    <2> QED BY <2>2, NoneIsNoRecord
<1> QED BY <1>0, <1>1, <1>7, <1>8, ShelfServe

\* The steps of an upload: a blob appears whole at its row, and stays.
LEMMA UploadStores ==
    ASSUME IInv, IInv', WarrantInv, NEW u \in Upload, Install(u)
    PROVE  S!Store(u) \/ UNCHANGED S!vars
<1>0. PICK d \in UpState : d = up[u]
    BY DEF IInv, TypeOK
<1>1. UNCHANGED get /\ d.pc \in {"install", "persist", "insert"} /\ d.body \in Blob /\ d.tok \in Token
    BY <1>0 DEF Install, InstallCheck, Persist, Insert, IInv, UploadInv, UpShape
<1>2. /\ Kind[d.body] # "spoof" /\ Size[d.body] <= CapForSniff(d.body) /\ S!Warrants(d.tok, d.body)
    BY <1>0, <1>1 DEF IInv, UploadInv, UpShape, WarrantInv, Warranted
<1>3. ASSUME NEW s, up' = [up EXCEPT ![u] = s], s.pc # "done", UNCHANGED row
      PROVE  UNCHANGED S!vars
    <2>1. Stored' = Stored
        BY <1>0, <1>1, <1>3, StoredStays DEF IInv, TypeOK
    <2> QED BY <1>1, <1>3, <2>1 DEF Held, Answer, S!vars
<1>4. ASSUME up' = [up EXCEPT ![u].pc = "done"], row'[d.body] # None,
             \A c \in Blob : c # d.body => row'[c] = row[c]
      PROVE  S!Store(u)
    <2>1. TypeOK /\ TypeOK' /\ up[u].pc # "done" /\ up[u].body = d.body /\ up[u].tok = d.tok
        BY <1>0, <1>1 DEF IInv
    <2> QED BY <1>1, <1>2, <1>4, <2>1, ShelfStore
<1>5. ASSUME NEW pc \in {"refused", "failed"}, up' = [up EXCEPT ![u] = [Idle EXCEPT !.pc = pc]], UNCHANGED row
      PROVE  UNCHANGED S!vars
    <2> DEFINE s == [Idle EXCEPT !.pc = pc]
    <2>1. s.pc = pc
        BY DEF Idle
    <2>2. up' = [up EXCEPT ![u] = s]
        BY <1>5
    <2> HIDE DEF s
    <2>3. s.pc # "done"
        BY <2>1
    <2> QED BY <1>3, <1>5, <2>2, <2>3
<1>6. CASE InstallCheck(u)
    <2>1. CASE row[d.body] # None /\ up' = [up EXCEPT ![u].pc = "done"]
        BY <1>4, <1>6, <2>1 DEF InstallCheck
    <2>2. CASE up' = [up EXCEPT ![u].pc = "persist", ![u].size = staging[u]]
        <3> DEFINE s == [d EXCEPT !.pc = "persist", !.size = staging[u]]
        <3>1. up' = [up EXCEPT ![u] = s] /\ s.pc # "done"
            BY <1>0, <2>2 DEF IInv, TypeOK, UpState
        <3> HIDE DEF s
        <3> QED BY <1>3, <1>6, <3>1 DEF InstallCheck
    <2>3. CASE up' = [up EXCEPT ![u] = [Idle EXCEPT !.pc = "failed"]]
        BY <1>5, <1>6, <2>3 DEF InstallCheck
    <2> QED BY <1>0, <1>6, <2>1, <2>2, <2>3 DEF InstallCheck
<1>7. CASE Persist(u)
    <2>1. CASE up' = [up EXCEPT ![u].pc = "insert"]
        <3> DEFINE s == [d EXCEPT !.pc = "insert"]
        <3>1. up' = [up EXCEPT ![u] = s] /\ s.pc # "done"
            BY <1>0, <2>1 DEF IInv, TypeOK, UpState
        <3> HIDE DEF s
        <3> QED BY <1>3, <1>7, <3>1 DEF Persist
    <2>2. CASE Refuse(u)
        BY <1>5, <1>7, <2>2 DEF Persist, Refuse
    <2> QED BY <1>7, <2>1, <2>2 DEF Persist
<1>8. CASE Insert(u)
    <2>1. CASE /\ row' = [row EXCEPT ![d.body] = IF @ = None THEN [size |-> d.size, by |-> u] ELSE @]
               /\ up' = [up EXCEPT ![u].pc = "done"]
        <3> DEFINE e == [size |-> d.size, by |-> u]
        <3>1. e # None
            <4>1. d.size = Size[d.body] /\ Size[d.body] \in Nat
                BY <1>0, <1>1, <1>8, SizeAssumption DEF Insert, IInv, UploadInv, UpShape
            <4>2. e \in [size : Nat, by : Upload]
                BY <4>1
            <4> QED BY <4>2, NoneIsNoRecord
        <3>2. row' = [row EXCEPT ![d.body] = IF row[d.body] = None THEN e ELSE row[d.body]]
            BY <2>1, Zenon
        <3> HIDE DEF e
        <3>3. row'[d.body] # None /\ \A c \in Blob : c # d.body => row'[c] = row[c]
            BY <1>1, <3>1, <3>2 DEF IInv, TypeOK
        <3> QED BY <1>4, <2>1, <3>3
    <2>2. CASE up' = [up EXCEPT ![u] = [Idle EXCEPT !.pc = "refused"]] /\ UNCHANGED row
        BY <1>5, <2>2
    <2> QED BY <1>0, <1>8, <2>1, <2>2 DEF Insert
<1> QED BY <1>6, <1>7, <1>8 DEF Install

\* The other steps show nothing.
LEMMA OthersStutter ==
    ASSUME IInv,
           \/ \E u \in Upload, t \in Token, b \in Blob : Begin(u, t, b)
           \/ \E u \in Upload : Chunk(u) \/ StreamFails(u) \/ Dropped(u) \/ EndBody(u)
           \/ \E g \in Get, b \in Blob, t \in Token, r \in RangeHeader \cup {None} : Request(g, b, t, r)
           \/ \E t \in Token : Lapse(t)
           \/ Crash
    PROVE  UNCHANGED S!vars
<1>0. UNCHANGED row
    BY DEF Begin, Chunk, StreamFails, Dropped, EndBody, Request, Lapse, Crash, disk
<1>1. ASSUME NEW u \in Upload, NEW s, up' = [up EXCEPT ![u] = s], up[u].pc # "done", s.pc # "done"
      PROVE  Stored' = Stored
    BY <1>1, StoredStays DEF IInv, TypeOK
<1>2. ASSUME NEW u \in Upload, NEW pc \in {"refused", "gone", "stream"}, NEW t, NEW b,
             \/ up' = [up EXCEPT ![u] = [Idle EXCEPT !.pc = pc]]
             \/ up' = [up EXCEPT ![u] = [Idle EXCEPT !.pc = pc, !.tok = t, !.body = b]],
             up[u].pc # "done"
      PROVE  Stored' = Stored
    <2>1. PICK s : up' = [up EXCEPT ![u] = s] /\ s.pc = pc
        <3>1. CASE up' = [up EXCEPT ![u] = [Idle EXCEPT !.pc = pc]]
            <4>1. [Idle EXCEPT !.pc = pc].pc = pc
                BY DEF Idle
            <4> QED BY <3>1, <4>1, Zenon
        <3>2. CASE up' = [up EXCEPT ![u] = [Idle EXCEPT !.pc = pc, !.tok = t, !.body = b]]
            <4>1. [Idle EXCEPT !.pc = pc, !.tok = t, !.body = b].pc = pc
                BY DEF Idle
            <4> QED BY <3>2, <4>1, Zenon
        <3> QED BY <1>2, <3>1, <3>2
    <2>2. s.pc # "done"
        BY <2>1
    <2> QED BY <1>1, <1>2, <2>1, <2>2
<1>3. Stored' = Stored
    <2>1. CASE UNCHANGED up
        BY <2>1 DEF Stored
    <2>2. ASSUME NEW u \in Upload, up[u].pc = "stream", Refuse(u) PROVE Stored' = Stored
        <3>1. PICK pc \in {"refused", "gone", "stream"} : pc = "refused"
            OBVIOUS
        <3>2. up' = [up EXCEPT ![u] = [Idle EXCEPT !.pc = pc]] /\ up[u].pc # "done"
            BY <2>2, <3>1, Zenon DEF Refuse
        <3> QED BY <1>2, <3>2
    <2>3. ASSUME NEW u \in Upload, NEW t \in Token, NEW b \in Blob, Begin(u, t, b) PROVE Stored' = Stored
        <3>1. PICK pc \in {"refused", "gone", "stream"} : pc = "stream"
            OBVIOUS
        <3>2. up' = [up EXCEPT ![u] = [Idle EXCEPT !.pc = pc, !.tok = t, !.body = b]]
            BY <2>3, <3>1, Zenon DEF Begin
        <3>3. up[u].pc # "done"
            BY <2>3 DEF Begin
        <3> QED BY <1>2, <3>2, <3>3
    <2>4. ASSUME NEW u \in Upload, Chunk(u) PROVE Stored' = Stored
        <3>1. up[u].pc = "stream"
            BY <2>4 DEF Chunk
        <3>2. CASE Refuse(u)
            BY <2>2, <3>1, <3>2
        <3>3. CASE ~Refuse(u)
            <4>0. PICK d \in UpState : d = up[u]
                BY DEF IInv, TypeOK
            <4>1. PICK n \in 1..MaxChunk : up' = [up EXCEPT ![u].got = d.got + n]
                BY <2>4, <3>3, <4>0 DEF Chunk
            <4> DEFINE s == [d EXCEPT !.got = d.got + n]
            <4>2. up' = [up EXCEPT ![u] = s] /\ s.pc = d.pc
                BY <4>0, <4>1 DEF IInv, TypeOK, UpState
            <4> HIDE DEF s
            <4> QED BY <1>1, <3>1, <4>0, <4>2
        <3> QED BY <3>2, <3>3
    <2>5. ASSUME NEW u \in Upload, EndBody(u) PROVE Stored' = Stored
        <3>1. up[u].pc = "stream"
            BY <2>5 DEF EndBody
        <3>2. CASE Refuse(u)
            BY <2>2, <3>1, <3>2
        <3>3. CASE ~Refuse(u)
            <4>0. PICK d \in UpState : d = up[u]
                BY DEF IInv, TypeOK
            <4> DEFINE s == [d EXCEPT !.pc = "install"]
            <4>1. up' = [up EXCEPT ![u].pc = "install"]
                BY <2>5, <3>3 DEF EndBody
            <4>2. up' = [up EXCEPT ![u] = s] /\ s.pc = "install"
                BY <4>0, <4>1 DEF IInv, TypeOK, UpState
            <4> HIDE DEF s
            <4> QED BY <1>1, <3>1, <4>2
        <3> QED BY <3>2, <3>3
    <2>6. ASSUME NEW u \in Upload, Dropped(u) PROVE Stored' = Stored
        <3>1. PICK pc \in {"refused", "gone", "stream"} : pc = "gone"
            OBVIOUS
        <3>2. up' = [up EXCEPT ![u] = [Idle EXCEPT !.pc = pc]] /\ up[u].pc # "done"
            BY <2>6, <3>1 DEF Dropped
        <3> QED BY <1>2, <3>2
    <2>7. CASE Crash
        <3>1. \A u \in Upload : \/ up'[u] = up[u]
                                \/ up[u].pc # "done" /\ up'[u].pc # "done"
            BY <2>7 DEF Crash, Idle
        <3> QED BY <3>1, StoredStays
    <2> QED BY <2>1, <2>2, <2>3, <2>4, <2>5, <2>6, <2>7 DEF Request, Lapse, StreamFails
<1>4. Answer' = Answer
    <2>1. CASE UNCHANGED get
        BY <2>1 DEF Answer
    <2>2. ASSUME NEW g \in Get, NEW b \in Blob, NEW t \in Token, NEW r \in RangeHeader \cup {None},
                 Request(g, b, t, r)
          PROVE  Answer' = Answer
        <3>1. PICK pc \in {"lookup", "end"} : pc = IF RequireMembership /\ ~t.member THEN "end" ELSE "lookup"
            OBVIOUS
        <3> DEFINE s == [NoGet EXCEPT !.pc = pc, !.blob = b, !.range = r]
        <3>2. get' = [get EXCEPT ![g] = s]
            BY <2>2, <3>1, Zenon DEF Request
        <3>3. s.reply = None
            BY DEF NoGet
        <3> HIDE DEF s
        <3>4. get'[g].reply = None /\ get[g].pc # "end" /\ \A h \in Get : h # g => get'[h] = get[h]
            BY <2>2, <3>2, <3>3 DEF IInv, TypeOK, Request
        <3> QED BY <3>4, AnswerStays
    <2>3. CASE Crash
        <3>1. \A g \in Get : \/ get'[g] = get[g]
                             \/ get[g].pc # "end" /\ get'[g].reply = None
            BY <2>3 DEF Crash, NoGet
        <3> QED BY <3>1, AnswerStays
    <2> QED BY <2>1, <2>2, <2>3 DEF Begin, Chunk, StreamFails, Dropped, EndBody, Lapse
<1> QED BY <1>0, <1>3, <1>4 DEF Held, S!vars

LEMMA InitShelf == Init => S!Init
<1> SUFFICES ASSUME Init PROVE S!Init
    OBVIOUS
<1>1. Held = {}
    BY DEF Init, Held
<1>2. Stored = [u \in Upload |-> None] /\ Answer = [g \in Get |-> None]
    BY DEF Init, Stored, Answer, Idle, NoGet
<1> QED BY <1>1, <1>2 DEF S!Init

LEMMA NextShelf == IInv /\ IInv' /\ WarrantInv /\ [Next]_vars => [S!Next]_S!vars
<1> SUFFICES ASSUME IInv, IInv', WarrantInv, [Next]_vars PROVE S!Next \/ UNCHANGED S!vars
    OBVIOUS
<1>1. CASE UNCHANGED vars
    BY <1>1 DEF vars, S!vars, Held, Stored, Answer
<1>2. CASE \E u \in Upload : Install(u)
    BY <1>2, UploadStores DEF S!Next
<1>3. CASE \E g \in Get : Lookup(g) \/ Open(g)
    BY <1>3, LookupServes, OpenServes DEF S!Next
<1> QED BY <1>1, <1>2, <1>3, OthersStutter DEF Next

\* For any uploads, downloads, contents, caps, tokens and crashes the media store
\* is a shelf: one step puts a whole blob there, none takes one off, and a download
\* is answered from what is there (store.rs:322-402, serve.rs:357-463).
THEOREM StoreRefines == Spec => StoreIsShelf
<1>1. Init => S!Init
    BY InitShelf
<1>2. IInv /\ IInv' /\ WarrantInv /\ [Next]_vars => [S!Next]_S!vars
    BY NextShelf
<1> QED BY <1>1, <1>2, Invariance, WarrantInvariance, PTL DEF Spec, StoreIsShelf, S!Spec
=============================================================================
