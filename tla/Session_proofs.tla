--------------------------- MODULE Session_proofs ---------------------------
(***************************************************************************)
(* Proofs about Session: whatever clients send and whatever the socket     *)
(* accepts, in any interleaving of the two.                                *)
(***************************************************************************)
EXTENDS Session, DataLemmas

RP == INSTANCE Response_proofs
          WITH ret <- TRUE, fate <- "live", MaxRoom <- SndBuf

USE SizeAssumption

-----------------------------------------------------------------------------
(***************************************************************************)
(* What Response_proofs shows, about the instance which Session uses.      *)
(***************************************************************************)
LEMMA SameEntity == \A x : R!IsEntity(x) <=> RP!IsEntity(x)
  BY DEF R!IsEntity, RP!IsEntity, R!Kinds, RP!Kinds

LEMMA SameResponse ==
    /\ \A r : R!IsResponse(r) <=> RP!IsResponse(r)
    /\ \A r : R!AssertFails(r) <=> RP!AssertFails(r)
    /\ \A r, rm : R!EntityFails(r, rm) <=> RP!EntityFails(r, rm)
    /\ \A x : R!New(x) = RP!New(x) /\ R!Total(x) = RP!Total(x)
<1>1. \A r : R!IsResponse(r) <=> RP!IsResponse(r)
  BY SameEntity, Zenon
     DEF R!IsResponse, RP!IsResponse, R!HeadersDone, RP!HeadersDone, R!Kinds, RP!Kinds
<1>2. \A r : R!AssertFails(r) <=> RP!AssertFails(r)
  BY Zenon DEF R!AssertFails, RP!AssertFails, R!InBody, RP!InBody, R!IsDone,
               RP!IsDone, R!HeadersDone, RP!HeadersDone, R!BodyDone, RP!BodyDone
<1>3. \A r, rm : R!EntityFails(r, rm) <=> RP!EntityFails(r, rm)
  BY Zenon DEF R!EntityFails, RP!EntityFails, R!InBody, RP!InBody, R!IsDone,
               RP!IsDone, R!HeadersDone, RP!HeadersDone, R!BodyDone, RP!BodyDone,
               R!Lesser, RP!Lesser
<1>4. \A x : R!New(x) = RP!New(x) /\ R!Total(x) = RP!Total(x)
  BY Zenon DEF R!New, RP!New, R!Total, RP!Total, R!BodyWire, RP!BodyWire
<1> QED
  BY <1>1, <1>2, <1>3, <1>4

LEMMA SameOctets ==
    /\ \A i, j : R!Octets(i, j) = RP!Octets(i, j)
    /\ \A r : R!Produced(r) = RP!Produced(r)
  BY Zenon DEF R!Octets, RP!Octets, R!Produced, RP!Produced, R!BodyWire, RP!BodyWire

LEMMA SameTick ==
    ASSUME NEW r, NEW rm
    PROVE  R!Tick(r, rm) = RP!Tick(r, rm)
<1>1. \A m, n : R!Lesser(m, n) = RP!Lesser(m, n)
  BY Zenon DEF R!Lesser, RP!Lesser
<1>2. \A q, n, rn : R!Write(q, n, rn) = RP!Write(q, n, rn)
  <2>1. \A q, n, k : R!Cut(q, n, k) = RP!Cut(q, n, k)
    BY <1>1, SameOctets, Zenon DEF R!Cut, RP!Cut, R!HeadersDone, RP!HeadersDone
  <2>2. \A q, n : /\ R!Blob1(q, n) = RP!Blob1(q, n)
                  /\ R!Blob2(q, n) = RP!Blob2(q, n)
                  /\ R!Blob3(q, n) = RP!Blob3(q, n)
    BY <2>1, SameOctets, Zenon DEF R!Blob1, RP!Blob1, R!Blob2, RP!Blob2, R!Blob3, RP!Blob3
  <2>3. \A k, b : R!Salvaged(k, b) = RP!Salvaged(k, b) /\ R!Left(k, b) = RP!Left(k, b)
    BY Zenon DEF R!Salvaged, RP!Salvaged, R!Left, RP!Left
  <2> TAKE q, n, rn
  <2> DEFINE new == RP!Octets(RP!Produced(q), RP!Produced(n))
             acc == RP!Lesser(rn, Len(q.v) + Len(new))
             n1 == RP!Left(acc, q.v)
             n2 == RP!Left(n1, RP!Blob1(q, n))
             n3 == RP!Left(n2, RP!Blob2(q, n))
             kept == RP!Salvaged(acc, q.v) \o RP!Salvaged(n1, RP!Blob1(q, n))
                     \o RP!Salvaged(n2, RP!Blob2(q, n)) \o RP!Salvaged(n3, RP!Blob3(q, n))
             w == [resp |-> [n EXCEPT !.v = kept], sent |-> SubSeq(q.v \o new, 1, acc)]
  <2>4. RP!Write(q, n, rn) = w
    BY Zenon DEF RP!Write
  <2>5. R!Octets(R!Produced(q), R!Produced(n)) = new
    BY SameOctets, Zenon
  <2>6. R!Lesser(rn, Len(q.v) + Len(new)) = acc
    BY <1>1, Zenon
  <2>7. /\ R!Left(acc, q.v) = n1
        /\ R!Left(n1, R!Blob1(q, n)) = n2
        /\ R!Left(n2, R!Blob2(q, n)) = n3
    BY <2>2, <2>3, Zenon
  <2>8. R!Salvaged(acc, q.v) \o R!Salvaged(n1, R!Blob1(q, n))
        \o R!Salvaged(n2, R!Blob2(q, n)) \o R!Salvaged(n3, R!Blob3(q, n)) = kept
    BY <2>2, <2>3, Zenon
  <2> HIDE DEF new, acc, n1, n2, n3, kept
  <2>9. R!Write(q, n, rn) = w
    BY <2>5, <2>6, <2>7, <2>8, Zenon DEF R!Write
  <2> QED
    BY <2>4, <2>9
<1>3. \A w : R!Filtered(w) = RP!Filtered(w)
  BY Zenon DEF R!Filtered, RP!Filtered
<1>4. R!DrainTick(r, rm) = RP!DrainTick(r, rm)
  BY <1>2, Zenon DEF R!DrainTick, RP!DrainTick
<1>5. R!HeadersTick(r, rm) = RP!HeadersTick(r, rm)
  BY <1>1, <1>2, <1>3, Zenon DEF R!HeadersTick, RP!HeadersTick
<1>6. R!BodyTick(r, rm) = RP!BodyTick(r, rm)
  BY <1>1, <1>2, <1>3, Zenon DEF R!BodyTick, RP!BodyTick
<1>7. R!SendFileTick(r, rm) = RP!SendFileTick(r, rm)
  BY <1>1, SameOctets, Zenon DEF R!SendFileTick, RP!SendFileTick
<1>8. /\ \A q : R!IsDone(q) = RP!IsDone(q)
      /\ R!HeadersDone(r) = RP!HeadersDone(r)
  BY Zenon DEF R!IsDone, RP!IsDone, R!HeadersDone, RP!HeadersDone, R!BodyDone, RP!BodyDone
<1> QED
  BY <1>4, <1>5, <1>6, <1>7, <1>8, Zenon DEF R!Tick, RP!Tick

LEMMA Entity ==
    /\ \A x \in Entities : RP!IsEntity(x)
    /\ RP!IsEntity(ErrorEntity)
  BY EntityAssumption, SameEntity

(* A response begins whole, and with nothing sent. *)
LEMMA NewResponse ==
    ASSUME NEW x, R!IsEntity(x)
    PROVE  RP!Whole(R!New(x), <<>>)
<1>1. RP!IsEntity(x)
  BY SameEntity
<1>2. RP!Whole(RP!New(x), <<>>)
  BY <1>1, Entity, RP!NewIsWhole
<1> QED
  BY <1>2, SameResponse

(* A tick() keeps it whole, and sends no more than there is room for. *)
LEMMA TickedResponse ==
    ASSUME NEW r, NEW w, RP!Whole(r, w), ~R!AssertFails(r),
           NEW rm \in Nat, ~R!EntityFails(r, rm)
    PROVE  LET o == R!Tick(r, rm) IN
           /\ RP!Whole(o.resp, w \o o.sent)
           /\ o.sent \in Seq(Nat) /\ Len(o.sent) <= rm
           /\ o.ret \in BOOLEAN
<1>1. ~RP!AssertFails(r) /\ ~RP!EntityFails(r, rm)
  BY SameResponse
<1>2. LET o == RP!Tick(r, rm) IN
           /\ RP!Whole(o.resp, w \o o.sent)
           /\ o.sent \in Seq(Nat) /\ Len(o.sent) <= rm
           /\ o.ret \in BOOLEAN
  BY <1>1, Entity, RP!TickKeepsWhole
<1> QED
  BY <1>2, SameTick, Zenon

(* A response which is done is all in the socket or in the backlog. *)
LEMMA DoneResponse ==
    ASSUME NEW r, NEW w, RP!Whole(r, w), r.done
    PROVE  Len(w) + Len(r.v) = R!Total(r.entity)
  BY Entity, SameResponse, RP!DoneIsProduced

LEMMA WholeResponse ==
    ASSUME NEW r, NEW w, RP!Whole(r, w)
    PROVE  /\ R!IsResponse(r) /\ r # NoResponse
           /\ w \in Seq(Nat) /\ r.v \in Seq(Nat) /\ R!Total(r.entity) \in Nat
<1>1. RP!IsResponse(r) /\ w \in Seq(Nat)
  BY DEF RP!Whole
<1>2. R!IsResponse(r)
  BY <1>1, SameResponse
<1>3. r # NoResponse
  <2>1. "blob" \in DOMAIN r
    BY <1>1 DEF RP!IsResponse
  <2>2. DOMAIN NoResponse = {"entity"}
    BY DEF NoResponse
  <2> QED
    BY <2>1, <2>2
<1>4. r.v \in Seq(Nat)
  BY <1>1 DEF RP!IsResponse
<1>5. RP!Total(r.entity) \in Nat
  BY <1>1, Entity, RP!ProducedBounds
<1> QED
  BY <1>1, <1>2, <1>3, <1>4, <1>5, SameResponse

-----------------------------------------------------------------------------
(***************************************************************************)
(* RequestQueue::add(), and the loop which calls it for each line.         *)
(***************************************************************************)
LEMMA FreshType ==
    ASSUME NEW line \in Lines
    PROVE  Fresh(line) \in Requests /\ Fresh(line).id = line.id
<1>1. CASE line.part = "first"
  <2>1. line \in [part : {"first"}, id : Nat, get : BOOLEAN, v10 : BOOLEAN,
                  entity : Entities]
    BY <1>1 DEF Lines
  <2> QED
    BY <1>1, <2>1 DEF Fresh, Requests
<1>2. CASE line.part # "first"
  <2>1. line.id \in Nat
    BY DEF Lines
  <2> QED
    BY <1>2, <2>1, EntityAssumption DEF Fresh, Requests
<1> QED
  BY <1>1, <1>2

LEMMA GrownType ==
    ASSUME NEW req \in Requests, NEW line
    PROVE  Grown(req, line) \in Requests /\ Grown(req, line).id = req.id
<1>1. (line.part = "end") \in BOOLEAN
      /\ (req.broken \/ line.part \in {"bad", "first", "long"}) \in BOOLEAN
  BY DEF Requests
<1> QED
  BY <1>1 DEF Grown, Requests

LEMMA AddType ==
    ASSUME NEW q \in Seq(Requests), NEW line \in Lines
    PROVE  /\ Add(q, line) \in Seq(Requests)
           /\ \/ /\ Len(Add(q, line)) = Len(q) + 1
                 /\ Len(q) = 0 \/ q[Len(q)].complete
                 /\ \A i \in 1..Len(q) : Add(q, line)[i] = q[i]
                 /\ Add(q, line)[Len(q) + 1].id = line.id
              \/ /\ Len(Add(q, line)) = Len(q)
                 /\ Len(q) > 0 /\ ~q[Len(q)].complete
                 /\ \A i \in 1..Len(q) : i < Len(q) => Add(q, line)[i] = q[i]
                 /\ Add(q, line)[Len(q)].id = q[Len(q)].id
<1>1. Len(q) \in Nat /\ (q = <<>> <=> Len(q) = 0)
  BY LenProperties, EmptySeq
<1>2. CASE q = <<>> \/ Last(q).complete
  <2>1. Add(q, line) = Append(q, Fresh(line))
    BY <1>2 DEF Add
  <2>2. Len(q) = 0 \/ q[Len(q)].complete
    BY <1>1, <1>2 DEF Last
  <2> QED
    BY <1>1, <2>1, <2>2, FreshType, AppendProperties
<1>3. CASE ~(q = <<>> \/ Last(q).complete)
  <2>1. Add(q, line) = [q EXCEPT ![Len(q)] = Grown(q[Len(q)], line)]
    BY <1>3 DEF Add
  <2>2. Len(q) > 0 /\ ~q[Len(q)].complete /\ Len(q) \in 1..Len(q)
    BY <1>1, <1>3 DEF Last
  <2>3. q[Len(q)] \in Requests
    BY <2>2, ElementOfSeq
  <2>4. Grown(q[Len(q)], line) \in Requests
        /\ Grown(q[Len(q)], line).id = q[Len(q)].id
    BY <2>3, GrownType
  <2> QED
    BY <1>1, <2>1, <2>2, <2>4, ExceptSeq
<1> QED
  BY <1>2, <1>3

(* The recursive function in Received exists, and begins and goes on so. *)
LEMMA ReceivedStepwise ==
    ASSUME NEW q, NEW lines, Len(lines) \in Nat
    PROVE  \E f : /\ f[0] = q
                  /\ \A k \in 1..Len(lines) : f[k] = Add(f[k - 1], lines[k])
                  /\ Received(q, lines) = f[Len(lines)]
<1> DEFINE N == Len(lines)
           Next1(f, k) == IF k = 0 THEN q ELSE Add(f[k - 1], lines[k])
           T == {n \in Nat : \E f : f = [k \in 0..n |-> Next1(f, k)]}
<1>1. 0 \in T
  <2> DEFINE f == [k \in 0..0 |-> q]
  <2>1. f = [k \in 0..0 |-> Next1(f, k)]
    OBVIOUS
  <2> QED
    BY <2>1
<1>2. ASSUME NEW n \in Nat, n \in T
      PROVE  n + 1 \in T
  <2>1. PICK f : f = [k \in 0..n |-> Next1(f, k)]
    BY <1>2
  <2> DEFINE g == [k \in 0..(n + 1) |-> IF k = n + 1 THEN Add(f[n], lines[n + 1])
                                       ELSE f[k]]
  <2>2. \A k \in 0..(n + 1) : g[k] = Next1(g, k)
    <3> TAKE k \in 0..(n + 1)
    <3>1. CASE k = n + 1
      BY <3>1
    <3>2. CASE k # n + 1
      <4>1. k \in 0..n /\ g[k] = f[k]
        BY <3>2
      <4>2. f[k] = Next1(f, k)
        BY <2>1, <4>1
      <4>3. k # 0 => k - 1 \in 0..n /\ k - 1 # n + 1 /\ g[k - 1] = f[k - 1]
        BY <4>1
      <4> HIDE DEF g
      <4> QED
        BY <4>1, <4>2, <4>3
    <3> QED
      BY <3>1, <3>2
  <2>3. g = [k \in 0..(n + 1) |-> Next1(g, k)]
    <3>1. g = [k \in 0..(n + 1) |-> g[k]]
      OBVIOUS
    <3> HIDE DEF g
    <3> QED
      BY <2>2, <3>1
  <2> HIDE DEF g
  <2>4. \E h : h = [k \in 0..(n + 1) |-> Next1(h, k)]
    BY <2>3, Zenon
  <2> QED
    BY <2>4
<1>3. N \in T
  <2> HIDE DEF T
  <2> QED
    BY <1>1, <1>2, Induction
<1> DEFINE F == CHOOSE f : f = [k \in 0..N |-> Next1(f, k)]
<1>4. F = [k \in 0..N |-> Next1(F, k)]
  BY <1>3
<1>5. Received(q, lines) = F[N]
  BY DEF Received
<1> HIDE DEF F
<1>6. F[0] = q /\ \A k \in 1..N : F[k] = Add(F[k - 1], lines[k])
  BY <1>4
<1> QED
  BY <1>5, <1>6

(***************************************************************************)
(* A queue is in order if its requests are in the order they came, and     *)
(* none but the last is incomplete.                                        *)
(***************************************************************************)
Orderly(q) ==
    /\ \A i \in 1..Len(q) : i < Len(q) => q[i].complete
    /\ \A i, j \in 1..Len(q) : i < j => q[i].id < q[j].id

(* A later state of the queue, with nothing taken from it meanwhile *)
Follows(r, q) ==
    /\ Len(q) <= Len(r)
    /\ \A i \in 1..Len(q) : r[i].id = q[i].id
    /\ \A i \in 1..Len(q) : q[i].complete => r[i] = q[i]

InOrder(lines) == \A i, j \in 1..Len(lines) : i < j => lines[i].id < lines[j].id
AllBefore(q, lines) ==
    \A i \in 1..Len(q) : \A j \in 1..Len(lines) : q[i].id < lines[j].id

(* The queue r has come from q by k of the lines. *)
Reached(q, lines, k, r) ==
    /\ r \in Seq(Requests)
    /\ Follows(r, q)
    /\ \A i \in 1..Len(r) : i > Len(q) => \E j \in 1..k : r[i].id = lines[j].id
    /\ Orderly(q) /\ InOrder(lines) /\ AllBefore(q, lines) => Orderly(r)

LEMMA ReachedByOneMore ==
    ASSUME NEW q \in Seq(Requests), NEW lines \in Seq(Lines), NEW k \in Nat,
           k < Len(lines), NEW r, Reached(q, lines, k, r)
    PROVE  Reached(q, lines, k + 1, Add(r, lines[k + 1]))
<1> DEFINE line == lines[k + 1]
           s == Add(r, line)
<1>1. Len(q) \in Nat /\ Len(r) \in Nat /\ Len(lines) \in Nat /\ Len(q) <= Len(r)
  BY LenProperties DEF Reached, Follows
<1>2. line \in Lines /\ k + 1 \in 1..Len(lines)
  BY <1>1, ElementOfSeq
<1>3. /\ s \in Seq(Requests)
      /\ \/ /\ Len(s) = Len(r) + 1
            /\ Len(r) = 0 \/ r[Len(r)].complete
            /\ \A i \in 1..Len(r) : s[i] = r[i]
            /\ s[Len(r) + 1].id = line.id
         \/ /\ Len(s) = Len(r)
            /\ Len(r) > 0 /\ ~r[Len(r)].complete
            /\ \A i \in 1..Len(r) : i < Len(r) => s[i] = r[i]
            /\ s[Len(r)].id = r[Len(r)].id
  BY <1>2, AddType DEF Reached
<1> HIDE DEF s
<1>4. /\ Len(s) \in {Len(r), Len(r) + 1}
      /\ \A i \in 1..Len(r) : s[i].id = r[i].id
      /\ \A i \in 1..Len(r) : r[i].complete => s[i] = r[i]
  <2>1. Len(s) \in {Len(r), Len(r) + 1}
    BY <1>3
  <2>2. ASSUME NEW i \in 1..Len(r)
        PROVE  s[i].id = r[i].id /\ (r[i].complete => s[i] = r[i])
    <3>1. CASE i < Len(r) \/ Len(s) = Len(r) + 1
      <4>1. s[i] = r[i]
        BY <1>1, <1>3, <3>1
      <4> QED
        BY <4>1
    <3>2. CASE i = Len(r) /\ Len(s) = Len(r)
      <4>1. ~r[Len(r)].complete /\ s[Len(r)].id = r[Len(r)].id
        BY <1>1, <1>3, <3>2
      <4> QED
        BY <3>2, <4>1
    <3> QED
      BY <1>1, <2>1, <3>1, <3>2
  <2> QED
    BY <2>1, <2>2
<1>5. Follows(s, q)
  <2>1. Len(q) <= Len(s)
    BY <1>1, <1>4
  <2>2. ASSUME NEW i \in 1..Len(q)
        PROVE  s[i].id = q[i].id /\ (q[i].complete => s[i] = q[i])
    <3>1. i \in 1..Len(r)
      BY <1>1
    <3>2. r[i].id = q[i].id /\ (q[i].complete => r[i] = q[i])
      BY DEF Reached, Follows
    <3>3. s[i].id = r[i].id /\ (r[i].complete => s[i] = r[i])
      BY <1>4, <3>1
    <3> QED
      BY <3>2, <3>3
  <2> QED
    BY <2>1, <2>2 DEF Follows
<1>6. ASSUME NEW i \in 1..Len(s), i > Len(q)
      PROVE  \E j \in 1..(k + 1) : s[i].id = lines[j].id
  <2>1. CASE i \in 1..Len(r)
    <3>1. PICK j \in 1..k : r[i].id = lines[j].id
      BY <1>6, <2>1 DEF Reached
    <3>2. j \in 1..(k + 1)
      OBVIOUS
    <3> QED
      BY <1>4, <2>1, <3>1, <3>2
  <2>2. CASE i \notin 1..Len(r)
    <3>1. i = Len(r) + 1 /\ s[i].id = lines[k + 1].id
      BY <1>1, <1>3, <2>2
    <3>2. k + 1 \in 1..(k + 1)
      OBVIOUS
    <3> QED
      BY <3>1, <3>2
  <2> QED
    BY <2>1, <2>2
<1>7. ASSUME Orderly(q), InOrder(lines), AllBefore(q, lines)
      PROVE  Orderly(s)
  <2>1. Orderly(r)
    BY <1>7 DEF Reached
  <2>2. ASSUME NEW i \in 1..Len(r)
        PROVE  r[i].id < line.id
    <3>1. CASE i <= Len(q)
      <4>1. i \in 1..Len(q)
        BY <1>1, <3>1
      <4>2. r[i].id = q[i].id
        BY <4>1 DEF Reached, Follows
      <4> QED
        BY <1>2, <1>7, <4>1, <4>2 DEF AllBefore
    <3>2. CASE i > Len(q)
      <4>1. PICK j \in 1..k : r[i].id = lines[j].id
        BY <3>2 DEF Reached
      <4>2. j \in 1..Len(lines) /\ j < k + 1
        BY <1>1
      <4> QED
        BY <1>2, <1>7, <4>1, <4>2 DEF InOrder
    <3> QED
      BY <1>1, <3>1, <3>2
  <2>3. ASSUME NEW i \in 1..Len(s), i < Len(s)
        PROVE  s[i].complete
    <3>1. i \in 1..Len(r)
      BY <1>1, <1>3, <2>3
    <3>2. r[i].complete /\ s[i] = r[i]
      BY <1>1, <1>3, <2>1, <2>3, <3>1 DEF Orderly
    <3> QED
      BY <3>2
  <2>4. ASSUME NEW i \in 1..Len(s), NEW j \in 1..Len(s), i < j
        PROVE  s[i].id < s[j].id
    <3>1. CASE j \in 1..Len(r)
      <4>1. i \in 1..Len(r)
        BY <1>1, <2>4, <3>1
      <4> QED
        BY <1>4, <2>1, <2>4, <3>1, <4>1 DEF Orderly
    <3>2. CASE j \notin 1..Len(r)
      <4>1. j = Len(r) + 1 /\ s[j].id = line.id /\ i \in 1..Len(r)
        BY <1>1, <1>3, <2>4, <3>2
      <4> QED
        BY <1>4, <2>2, <4>1
    <3> QED
      BY <3>1, <3>2
  <2> QED
    BY <2>3, <2>4 DEF Orderly
<1>8. Reached(q, lines, k + 1, s)
  BY <1>3, <1>5, <1>6, <1>7 DEF Reached
<1> QED
  BY <1>8 DEF s

LEMMA ReceivedIsReached ==
    ASSUME NEW q \in Seq(Requests), NEW lines \in Seq(Lines)
    PROVE  Reached(q, lines, Len(lines), Received(q, lines))
<1>1. Len(lines) \in Nat /\ Len(q) \in Nat
  BY LenProperties
<1>2. PICK f : /\ f[0] = q
               /\ \A k \in 1..Len(lines) : f[k] = Add(f[k - 1], lines[k])
               /\ Received(q, lines) = f[Len(lines)]
  BY <1>1, ReceivedStepwise
<1> DEFINE T == {k \in Nat : k <= Len(lines) => Reached(q, lines, k, f[k])}
<1>3. 0 \in T
  <2>1. Reached(q, lines, 0, q)
    BY <1>1 DEF Reached, Follows
  <2> QED
    BY <1>2, <2>1
<1>4. ASSUME NEW k \in Nat, k \in T
      PROVE  k + 1 \in T
  <2> SUFFICES ASSUME k + 1 <= Len(lines)
               PROVE  Reached(q, lines, k + 1, f[k + 1])
    OBVIOUS
  <2>1. k < Len(lines) /\ k <= Len(lines) /\ k + 1 \in 1..Len(lines)
        /\ (k + 1) - 1 = k
    BY <1>1
  <2>2. Reached(q, lines, k, f[k])
    BY <1>4, <2>1
  <2>3. f[k + 1] = Add(f[k], lines[k + 1])
    BY <1>2, <2>1
  <2> QED
    BY <2>1, <2>2, <2>3, ReachedByOneMore
<1>5. Len(lines) \in T
  <2> HIDE DEF T
  <2> QED
    BY <1>1, <1>3, <1>4, Induction
<1> QED
  BY <1>1, <1>2, <1>5

-----------------------------------------------------------------------------
(***************************************************************************)
(* The inductive invariant.  HistoryAgrees rests on the types, since it is *)
(* about resp being NoResponse; LossIsBacklog on the response being whole, *)
(* which only the whole history of its ticks can tell.  That write() finds *)
(* a response, a part of TypeOK, rests on Registered: however wrong ctl()  *)
(* is because of an uninitialised Entry.events, the socket is never        *)
(* registered for writing without a response.                              *)
(***************************************************************************)
IsWhole == resp # NoResponse => RP!Whole(resp, wire)

Registered ==
    interest = "WRITING" =>
        events = "WRITING" /\ (pc = "poll" => resp # NoResponse)

IInv ==
    /\ TypeOK
    /\ IsWhole
    /\ Registered
    /\ LossIsBacklog
    /\ HistoryAgrees
    /\ NothingWaits
    /\ CloseIsLast

(* Content::response_of() gives a response to what is an entity. *)
LEMMA EntityOfType ==
    ASSUME NEW req \in Requests
    PROVE  R!IsEntity(EntityOf(req))
<1>1. CASE ~req.get
  BY <1>1, EntityAssumption DEF EntityOf
<1>2. CASE req.get
  <2> DEFINE x == req.entity
             b == (x.kind = "Page" /\ ~req.v10)
  <2>1. R!IsEntity(x)
    BY EntityAssumption DEF Requests
  <2>2. x \in [kind : R!Kinds, size : Nat, real : Nat, chunked : BOOLEAN]
    BY <2>1 DEF R!IsEntity
  <2>3. EntityOf(req) = [x EXCEPT !.chunked = b] /\ b \in BOOLEAN
    BY <1>2 DEF EntityOf
  <2> HIDE DEF x
  <2> QED
    BY <2>1, <2>2, <2>3 DEF R!IsEntity
<1> QED
  BY <1>1, <1>2

LEMMA PopReqType ==
    ASSUME NEW q \in Seq(Requests), Complete(q), PopReq(q)
    PROVE  /\ queue' = Tail(q) /\ queue' \in Seq(Requests)
           /\ close' \in BOOLEAN /\ current' = q[1].id /\ current' \in Nat
           /\ wire' = <<>> /\ wire' \in Seq(Nat)
           /\ Answerable(q[1]) => RP!Whole(resp', wire') /\ resp' # NoResponse
           /\ ~Answerable(q[1]) => resp' = NoResponse
<1>1. q # <<>> /\ q[1] \in Requests /\ Head(q) = q[1] /\ Tail(q) \in Seq(Requests)
  BY HeadTailProperties, ElementOfSeq, LenProperties, EmptySeq DEF Complete
<1>2. /\ queue' = Tail(q) /\ close' = q[1].v10 /\ current' = q[1].id
      /\ wire' = <<>>
      /\ resp' = IF Answerable(q[1]) THEN R!New(EntityOf(q[1])) ELSE NoResponse
  BY <1>1 DEF PopReq
<1>3. q[1].v10 \in BOOLEAN /\ q[1].id \in Nat
  BY <1>1 DEF Requests
<1>4. CASE Answerable(q[1])
  <2>1. RP!Whole(R!New(EntityOf(q[1])), <<>>)
    BY <1>1, EntityOfType, NewResponse
  <2>2. resp' = R!New(EntityOf(q[1]))
    BY <1>2, <1>4
  <2>3. RP!Whole(resp', wire')
    BY <1>2, <2>1, <2>2
  <2> QED
    BY <1>1, <1>2, <1>3, <1>4, <2>3, EmptySeq, WholeResponse
<1>5. CASE ~Answerable(q[1])
  BY <1>1, <1>2, <1>3, <1>5, EmptySeq
<1> QED
  BY <1>4, <1>5

(* Where the server goes on, and what is registered, after Ctl or Die. *)
LEMMA CtlType ==
    ASSUME TypeOK, Registered, NEW state \in {"READING", "WRITING"}, Ctl(state)
    PROVE  /\ pc' = "poll" /\ pc' \in PCs
           /\ events' \in {"READING", "WRITING"}
           /\ interest' \in {"READING", "WRITING"}
           /\ interest' = "WRITING" => events' = "WRITING" /\ state = "WRITING"
  BY DEF TypeOK, Registered, Ctl, PCs

LEMMA DieType ==
    ASSUME TypeOK, Registered, Die
    PROVE  /\ pc' = "dead" /\ pc' \in PCs
           /\ events' \in {"READING", "WRITING"}
           /\ interest' \in {"READING", "WRITING"}
           /\ interest' = "WRITING" => events' = "WRITING"
  BY DEF TypeOK, Registered, Die, PCs, watched

-----------------------------------------------------------------------------
(* Until the session is dead, no response was the last. *)
LEMMA NoneIsLast ==
    ASSUME CloseIsLast, pc # "dead"
    PROVE  \A i \in DOMAIN log : ~log[i].close
  BY DEF CloseIsLast

LEMMA DecideKeeps ==
    ASSUME IInv, pc = "poll", NEW q \in Seq(Requests), Decide(q),
           inbox' \in Seq(Lines), held' \in Seq(Lines), Len(held') <= 1,
           eof' \in BOOLEAN, UNCHANGED <<client, unread, log>>
    PROVE  IInv'
<1>1. /\ TypeOK /\ IsWhole /\ Registered /\ LossIsBacklog /\ HistoryAgrees /\ CloseIsLast
      /\ script' = script /\ peer' = peer /\ unread' = unread /\ log' = log
      /\ \A i \in DOMAIN log : ~log[i].close
  BY NoneIsLast DEF IInv, client
<1>2. LossIsBacklog' /\ CloseIsLast'
  BY <1>1 DEF LossIsBacklog, CloseIsLast
<1>3. ASSUME queue' = q, UNCHANGED <<answering, e>>,
             \/ Ctl("WRITING") /\ resp # NoResponse
             \/ Ctl("READING") /\ ~Complete(q)
             \/ Die
      PROVE  IInv'
  <2>1. /\ resp' = resp /\ wire' = wire /\ current' = current /\ close' = close
        /\ e' = e
    BY <1>3 DEF answering
  <2>2. /\ events' \in {"READING", "WRITING"} /\ interest' \in {"READING", "WRITING"}
        /\ pc' \in PCs /\ pc' \in {"poll", "dead"}
        /\ pc' = "poll" => resp # NoResponse \/ ~Complete(q)
        /\ interest' = "WRITING" =>
              events' = "WRITING" /\ (pc' = "poll" => resp # NoResponse)
    BY <1>1, <1>3, CtlType, DieType
  <2>3. TypeOK'
    BY <1>1, <1>3, <2>1, <2>2 DEF TypeOK
  <2>4. IsWhole' /\ HistoryAgrees' /\ Registered'
    BY <1>1, <2>1, <2>2 DEF IsWhole, HistoryAgrees, Registered
  <2>5. NothingWaits'
    BY <1>3, <2>1, <2>2 DEF NothingWaits, Complete
  <2> QED
    BY <1>2, <2>3, <2>4, <2>5 DEF IInv
<1>4. ASSUME resp = NoResponse, ~Broken(q), Complete(q), PopReq(q),
             e' = HistoryBegan(e), Ctl("WRITING")
      PROVE  IInv'
  <2>1. q[1] = Head(q) /\ Answerable(q[1])
    BY <1>4 DEF Complete, Broken, Answerable
  <2>2. /\ queue' \in Seq(Requests) /\ close' \in BOOLEAN /\ current' \in Nat
        /\ wire' \in Seq(Nat) /\ RP!Whole(resp', wire') /\ resp' # NoResponse
    BY <1>4, <2>1, PopReqType
  <2>3. R!IsResponse(resp')
    BY <2>2, WholeResponse
  <2>4. /\ events' \in {"READING", "WRITING"} /\ interest' \in {"READING", "WRITING"}
        /\ pc' \in PCs /\ pc' = "poll"
        /\ interest' = "WRITING" => events' = "WRITING"
    BY <1>1, <1>4, CtlType
  <2>5. e \in Nat /\ e' = e + 1 /\ e' \in Nat
    BY <1>1, <1>4 DEF TypeOK, HistoryBegan
  <2>6. TypeOK'
    BY <1>1, <2>2, <2>3, <2>4, <2>5 DEF TypeOK
  <2>7. IsWhole' /\ NothingWaits' /\ Registered'
    BY <2>2, <2>4 DEF IsWhole, NothingWaits, Registered
  <2>8. HistoryAgrees'
    <3>1. e = 2 * Len(log) + 0
      BY <1>1, <1>4 DEF HistoryAgrees
    <3>2. Len(log) \in Nat
      BY <1>1, LenProperties DEF TypeOK
    <3> QED
      BY <1>1, <2>2, <2>5, <3>1, <3>2 DEF HistoryAgrees
  <2> QED
    BY <1>2, <2>6, <2>7, <2>8 DEF IInv
<1>5. CASE resp # NoResponse /\ queue' = q /\ Ctl("WRITING")
           /\ UNCHANGED <<answering, e>>
  BY <1>3, <1>5
<1>6. CASE queue' = q /\ Die /\ UNCHANGED <<answering, e>>
  BY <1>3, <1>6
<1>7. CASE ~Complete(q) /\ queue' = q /\ (IF eof' THEN Die ELSE Ctl("READING"))
           /\ UNCHANGED <<answering, e>>
  <2>1. CASE eof'
    BY <1>3, <1>7, <2>1
  <2>2. CASE ~eof'
    BY <1>3, <1>7, <2>2
  <2> QED
    BY <2>1, <2>2
<1> QED
  BY <1>4, <1>5, <1>6, <1>7 DEF Decide

LEMMA ReceivedType ==
    ASSUME NEW q \in Seq(Requests), NEW lines \in Seq(Lines)
    PROVE  Received(q, lines) \in Seq(Requests)
  BY ReceivedIsReached DEF Reached

LEMMA InvReadLines == IInv /\ ReadLines => IInv'
<1> SUFFICES ASSUME IInv, ReadLines PROVE IInv'
  OBVIOUS
<1>1. PICK k \in 0..Len(inbox) :
          LET long == k > 0 /\ inbox[k].part = "long"
              got  == SubSeq(inbox, 1, IF long THEN k - 1 ELSE k)
          IN  /\ inbox' = SubSeq(inbox, k + 1, Len(inbox))
              /\ held' = IF long THEN <<inbox[k]>> ELSE <<>>
              /\ eof' = long
              /\ Decide(Received(queue, got))
  BY Zenon DEF ReadLines
<1> DEFINE long == k > 0 /\ inbox[k].part = "long"
           m == IF long THEN k - 1 ELSE k
           got == SubSeq(inbox, 1, m)
<1>2. /\ pc = "poll" /\ UNCHANGED <<client, unread, log>>
      /\ inbox \in Seq(Lines) /\ queue \in Seq(Requests)
      /\ Len(inbox) \in Nat
  BY LenProperties DEF ReadLines, IInv, TypeOK
<1>3. m \in 0..Len(inbox) /\ k \in 0..Len(inbox)
  BY <1>2
<1>4. got \in Seq(Lines) /\ inbox' \in Seq(Lines)
  <2> HIDE DEF m
  <2> QED
    BY <1>1, <1>2, <1>3, CutInTwo
<1>5. held' \in Seq(Lines) /\ Len(held') <= 1
  <2>1. CASE long
    <3>1. inbox[k] \in Lines
      BY <1>2, <2>1, ElementOfSeq
    <3>2. held' = <<inbox[k]>>
      BY <1>1, <2>1
    <3> QED
      BY <3>1, <3>2
  <2>2. CASE ~long
    BY <1>1, <2>2, EmptySeq
  <2> QED
    BY <2>1, <2>2
<1>6. eof' = long /\ eof' \in BOOLEAN /\ Decide(Received(queue, got))
  BY <1>1
<1> HIDE DEF got, long
<1>7. Received(queue, got) \in Seq(Requests)
  BY <1>2, <1>4, ReceivedType
<1> QED
  BY <1>2, <1>4, <1>5, <1>6, <1>7, DecideKeeps

LEMMA InvReadEof == IInv /\ ReadEof => IInv'
<1> SUFFICES ASSUME IInv, ReadEof PROVE IInv'
  OBVIOUS
<1>1. /\ pc = "poll" /\ UNCHANGED <<client, unread, log>>
      /\ inbox \in Seq(Lines) /\ held \in Seq(Lines) /\ queue \in Seq(Requests)
      /\ eof' \in BOOLEAN
      /\ held' = <<>> /\ held' \in Seq(Lines) /\ Len(held') <= 1
  BY EmptySeq DEF ReadEof, IInv, TypeOK
<1>2. CASE inbox' = inbox /\ Decide(Received(queue, held))
  BY <1>1, <1>2, ReceivedType, DecideKeeps
<1>3. CASE inbox' = <<>> /\ Decide(Received(queue, inbox))
  BY <1>1, <1>3, EmptySeq, ReceivedType, DecideKeeps
<1> QED
  BY <1>2, <1>3 DEF ReadEof

-----------------------------------------------------------------------------
(* What Conclude adds to the log, when the response was whole. *)
LEMMA EndedType ==
    ASSUME TypeOK, NEW r, NEW w, RP!Whole(r, w), r.done
    PROVE  /\ Ended(r, w) \in Endings
           /\ Ended(r, w).sent + Ended(r, w).lost = Ended(r, w).total
           /\ Ended(r, w).close = close
<1>1. /\ w \in Seq(Nat) /\ r.v \in Seq(Nat) /\ R!Total(r.entity) \in Nat
      /\ Len(w) + Len(r.v) = R!Total(r.entity)
  BY WholeResponse, DoneResponse
<1>2. Len(w) \in Nat /\ Len(r.v) \in Nat /\ current \in Nat /\ close \in BOOLEAN
  BY <1>1, LenProperties DEF TypeOK
<1> QED
  BY <1>1, <1>2 DEF Ended, Endings

LEMMA ConcludeKeeps ==
    ASSUME IInv, pc \in {"write", "again"}, NEW r, NEW w, RP!Whole(r, w), r.done,
           unread' \in 0..SndBuf, UNCHANGED <<client, reading>>, Conclude(r, w)
    PROVE  IInv'
<1> DEFINE x == Ended(r, w)
<1>1. /\ TypeOK /\ Registered /\ LossIsBacklog /\ HistoryAgrees /\ CloseIsLast
      /\ resp # NoResponse
      /\ script' = script /\ peer' = peer
      /\ inbox' = inbox /\ held' = held /\ eof' = eof
      /\ \A i \in DOMAIN log : ~log[i].close
  BY NoneIsLast DEF IInv, TypeOK, client, reading
<1>2. /\ x \in Endings /\ x.sent + x.lost = x.total /\ x.close = close
  BY <1>1, EndedType
<1>3. log' = Append(log, x)
  BY Zenon DEF Conclude
<1> HIDE DEF x
<1>4. log \in Seq(Endings) /\ Len(log) \in Nat /\ DOMAIN log = 1..Len(log)
  BY <1>1, LenProperties DEF TypeOK
<1>5. /\ log' \in Seq(Endings) /\ Len(log') = Len(log) + 1
      /\ DOMAIN log' = 1..(Len(log) + 1)
      /\ \A i \in 1..Len(log) : log'[i] = log[i]
      /\ log'[Len(log) + 1] = x
  BY <1>2, <1>3, <1>4, AppendProperties, LenProperties
<1>6. LossIsBacklog'
  <2> SUFFICES ASSUME NEW i \in DOMAIN log'
               PROVE  log'[i].sent + log'[i].lost = log'[i].total
    BY DEF LossIsBacklog
  <2>1. CASE i \in 1..Len(log)
    BY <1>1, <1>4, <1>5, <2>1 DEF LossIsBacklog
  <2>2. CASE i = Len(log) + 1
    BY <1>2, <1>5, <2>2
  <2> QED
    BY <1>4, <1>5, <2>1, <2>2
<1>7. close => pc' = "dead"
  BY DEF Conclude, Die
<1>8. CloseIsLast'
  <2> SUFFICES ASSUME NEW i \in DOMAIN log', log'[i].close
               PROVE  i = Len(log') /\ pc' = "dead"
    BY DEF CloseIsLast
  <2>1. CASE i \in 1..Len(log)
    BY <1>1, <1>4, <1>5, <2>1
  <2>2. CASE i = Len(log) + 1
    BY <1>2, <1>5, <1>7, <2>2
  <2> QED
    BY <1>4, <1>5, <2>1, <2>2
<1>9. e = 2 * Len(log) + 1 /\ e \in Nat
  BY <1>1 DEF HistoryAgrees, TypeOK
<1>10. ASSUME resp' = NoResponse, e' = HistoryEnded(e), Die \/ Return,
              close \/ ~Complete(queue), close => Die,
              UNCHANGED <<queue, close, current, wire>>
       PROVE  IInv'
  <2>1. /\ events' \in {"READING", "WRITING"} /\ interest' \in {"READING", "WRITING"}
        /\ pc' \in PCs /\ pc' \in {"poll", "dead"}
        /\ interest' = "WRITING" => events' = "WRITING" /\ pc' # "poll"
    <3>1. Die \/ Ctl("READING")
      BY <1>10 DEF Return
    <3> QED
      BY <1>1, <3>1, CtlType, DieType
  <2>2. e' = e + 1 /\ e' \in Nat
    BY <1>9, <1>10 DEF HistoryEnded
  <2>3. TypeOK'
    BY <1>1, <1>5, <1>10, <2>1, <2>2 DEF TypeOK
  <2>4. IsWhole' /\ Registered'
    BY <1>10, <2>1 DEF IsWhole, Registered
  <2>5. HistoryAgrees'
    BY <1>4, <1>5, <1>9, <1>10, <2>2 DEF HistoryAgrees
  <2>6. NothingWaits'
    BY <1>7, <1>10 DEF NothingWaits, Complete
  <2> QED
    BY <1>6, <1>8, <2>3, <2>4, <2>5, <2>6 DEF IInv
<1>11. ASSUME ~close, Complete(queue), PopReq(queue), UNCHANGED watched,
              IF Answerable(Head(queue))
              THEN pc' = "again" /\ e' = HistoryBegan(HistoryEnded(e))
              ELSE pc' = "header_asserts" /\ e' = HistoryEnded(e)
       PROVE  IInv'
  <2>1. queue \in Seq(Requests) /\ queue # <<>> /\ Head(queue) = queue[1]
    BY <1>1, <1>11 DEF TypeOK, Complete
  <2>2. /\ queue' \in Seq(Requests) /\ close' \in BOOLEAN /\ current' \in Nat
        /\ wire' \in Seq(Nat)
        /\ Answerable(queue[1]) => RP!Whole(resp', wire') /\ resp' # NoResponse
        /\ ~Answerable(queue[1]) => resp' = NoResponse
    BY <1>11, <2>1, PopReqType
  <2>3. /\ events' \in {"READING", "WRITING"} /\ interest' \in {"READING", "WRITING"}
        /\ interest' = "WRITING" => events' = "WRITING"
    BY <1>1, <1>11 DEF TypeOK, Registered, watched
  <2>4. CASE Answerable(queue[1])
    <3>1. pc' = "again" /\ e' = e + 2 /\ e' \in Nat
      BY <1>9, <1>11, <2>1, <2>4 DEF HistoryBegan, HistoryEnded
    <3>2. RP!Whole(resp', wire') /\ resp' # NoResponse /\ R!IsResponse(resp')
      BY <2>2, <2>4, WholeResponse
    <3>3. TypeOK'
      BY <1>1, <1>5, <2>2, <2>3, <3>1, <3>2 DEF TypeOK, PCs
    <3>4. IsWhole' /\ NothingWaits' /\ Registered'
      BY <2>3, <3>1, <3>2 DEF IsWhole, NothingWaits, Registered
    <3>5. HistoryAgrees'
      BY <1>4, <1>5, <1>9, <3>1, <3>2 DEF HistoryAgrees
    <3> QED
      BY <1>6, <1>8, <3>3, <3>4, <3>5 DEF IInv
  <2>5. CASE ~Answerable(queue[1])
    <3>1. pc' = "header_asserts" /\ e' = e + 1 /\ e' \in Nat
      BY <1>9, <1>11, <2>1, <2>5 DEF HistoryEnded
    <3>2. resp' = NoResponse
      BY <2>2, <2>5
    <3>3. TypeOK'
      BY <1>1, <1>5, <2>2, <2>3, <3>1, <3>2 DEF TypeOK, PCs
    <3>4. IsWhole' /\ NothingWaits' /\ Registered'
      BY <2>3, <3>1, <3>2 DEF IsWhole, NothingWaits, Registered
    <3>5. HistoryAgrees'
      BY <1>4, <1>5, <1>9, <3>1, <3>2 DEF HistoryAgrees
    <3> QED
      BY <1>6, <1>8, <3>3, <3>4, <3>5 DEF IInv
  <2> QED
    BY <2>4, <2>5
<1> QED
  BY <1>10, <1>11 DEF Conclude

LEMMA InvWriteTick == IInv /\ WriteTick => IInv'
<1> SUFFICES ASSUME IInv, WriteTick PROVE IInv'
  OBVIOUS
<1> DEFINE o == R!Tick(resp, room)
           sent == wire \o o.sent
<1>1. /\ pc \in {"write", "again"}
      /\ ~R!AssertFails(resp) /\ ~R!EntityFails(resp, room)
      /\ UNCHANGED <<client, reading>>
      /\ unread' = unread + Len(o.sent)
      /\ \/ /\ ~o.ret
            /\ resp' = o.resp /\ wire' = sent
            /\ Ctl("WRITING")
            /\ UNCHANGED <<queue, close, current, e, log>>
         \/ /\ o.ret /\ ~o.resp.done
            /\ resp' = o.resp /\ wire' = sent
            /\ pc' = "again"
            /\ UNCHANGED <<queue, close, current, e, watched, log>>
         \/ /\ o.ret /\ o.resp.done
            /\ Conclude(o.resp, sent)
  BY Zenon DEF WriteTick
<1>2. /\ TypeOK /\ Registered /\ LossIsBacklog /\ HistoryAgrees /\ CloseIsLast
      /\ resp # NoResponse /\ RP!Whole(resp, wire)
      /\ unread \in 0..SndBuf /\ room \in Nat /\ room = SndBuf - unread
      /\ \A i \in DOMAIN log : ~log[i].close
  BY <1>1, NoneIsLast DEF IInv, TypeOK, IsWhole, room
<1>3. /\ RP!Whole(o.resp, sent)
      /\ o.sent \in Seq(Nat) /\ Len(o.sent) <= room
  BY <1>1, <1>2, TickedResponse, Zenon
<1> HIDE DEF o, sent
<1>4. unread' \in 0..SndBuf
  <2>1. Len(o.sent) \in Nat
    BY <1>3, LenProperties
  <2> QED
    BY <1>1, <1>2, <1>3, <2>1
<1>5. ASSUME resp' = o.resp, wire' = sent, UNCHANGED <<queue, close, current, e, log>>,
             \/ Ctl("WRITING")
             \/ pc' = "again" /\ UNCHANGED watched
      PROVE  IInv'
  <2>1. RP!Whole(resp', wire') /\ resp' # NoResponse /\ R!IsResponse(resp')
        /\ wire' \in Seq(Nat)
    BY <1>3, <1>5, WholeResponse
  <2>2. /\ events' \in {"READING", "WRITING"} /\ interest' \in {"READING", "WRITING"}
        /\ pc' \in PCs
        /\ interest' = "WRITING" => events' = "WRITING"
    <3>1. CASE Ctl("WRITING")
      BY <1>2, <3>1, CtlType
    <3>2. CASE pc' = "again" /\ UNCHANGED watched
      BY <1>2, <3>2 DEF TypeOK, Registered, watched, PCs
    <3> QED
      BY <1>5, <3>1, <3>2
  <2>3. /\ script' = script /\ peer' = peer
        /\ inbox' = inbox /\ held' = held /\ eof' = eof
    BY <1>1 DEF client, reading
  <2>4. TypeOK'
    BY <1>2, <1>4, <1>5, <2>1, <2>2, <2>3 DEF TypeOK
  <2>5. IsWhole' /\ NothingWaits' /\ Registered'
    BY <2>1, <2>2 DEF IsWhole, NothingWaits, Registered
  <2>6. HistoryAgrees' /\ LossIsBacklog' /\ CloseIsLast'
    BY <1>2, <1>5, <2>1 DEF HistoryAgrees, LossIsBacklog, CloseIsLast
  <2> QED
    BY <2>4, <2>5, <2>6 DEF IInv
<1>6. CASE Conclude(o.resp, sent) /\ o.resp.done
  BY <1>1, <1>3, <1>4, <1>6, ConcludeKeeps
<1> QED
  BY <1>1, <1>5, <1>6

-----------------------------------------------------------------------------
(* Steps after which the session is as it was, but for where it is. *)
LEMMA InvOther ==
    ASSUME IInv, UNCHANGED <<held, eof, queue, answering, e, watched, log>>,
           script' \in Seq(Lines), inbox' \in Seq(Lines),
           peer' \in {"open", "shut", "gone"}, unread' \in 0..SndBuf,
           \/ pc' = pc
           \/ pc # "dead" /\ pc' \in {"dead", "tick_asserts"}
           \/ pc # "dead" /\ pc' = "write" /\ resp # NoResponse
    PROVE  IInv'
<1>1. /\ resp' = resp /\ wire' = wire /\ current' = current /\ close' = close
      /\ events' = events /\ interest' = interest
      /\ held' = held /\ eof' = eof /\ queue' = queue /\ e' = e /\ log' = log
  BY DEF answering, watched
<1>2. TypeOK'
  BY <1>1 DEF IInv, TypeOK, PCs
<1>3. IsWhole' /\ Registered' /\ LossIsBacklog' /\ HistoryAgrees'
  BY <1>1 DEF IInv, IsWhole, Registered, LossIsBacklog, HistoryAgrees
<1>4. NothingWaits'
  BY <1>1 DEF IInv, NothingWaits, Complete
<1>5. CloseIsLast'
  BY <1>1 DEF IInv, CloseIsLast
<1> QED
  BY <1>2, <1>3, <1>4, <1>5 DEF IInv

LEMMA InvInit == Init => IInv
<1> SUFFICES ASSUME Init PROVE IInv
  OBVIOUS
<1>1. /\ script \in Seq(Lines) /\ inbox = <<>> /\ held = <<>> /\ queue = <<>>
      /\ wire = <<>> /\ log = <<>> /\ resp = NoResponse
      /\ events \in {"READING", "WRITING"} /\ interest = "READING" /\ pc = "poll"
      /\ e = 0 /\ unread = 0 /\ current = 0 /\ peer = "open"
      /\ eof = FALSE /\ close = FALSE
  BY ScriptAssumption, GarbageAssumption DEF Init
<1>2. /\ <<>> \in Seq(Lines) /\ <<>> \in Seq(Requests) /\ <<>> \in Seq(Nat)
      /\ <<>> \in Seq(Endings) /\ Len(<<>>) = 0 /\ DOMAIN <<>> = {}
  BY EmptySeq
<1>3. TypeOK
  <2>1. /\ inbox \in Seq(Lines) /\ held \in Seq(Lines) /\ Len(held) <= 1
        /\ queue \in Seq(Requests) /\ wire \in Seq(Nat) /\ log \in Seq(Endings)
    BY <1>1, <1>2
  <2>2. unread \in 0..SndBuf /\ e \in Nat /\ current \in Nat
    BY <1>1
  <2> QED
    BY <1>1, <2>1, <2>2 DEF TypeOK, PCs
<1>4. IsWhole /\ Registered /\ LossIsBacklog /\ HistoryAgrees /\ NothingWaits
      /\ CloseIsLast
  BY <1>1, <1>2 DEF IsWhole, Registered, LossIsBacklog, HistoryAgrees, NothingWaits,
                    CloseIsLast, Complete
<1> QED
  BY <1>3, <1>4 DEF IInv

LEMMA InvNext == IInv /\ [Next]_vars => IInv'
<1> SUFFICES ASSUME IInv, [Next]_vars PROVE IInv'
  OBVIOUS
<1>1. /\ script \in Seq(Lines) /\ inbox \in Seq(Lines)
      /\ peer \in {"open", "shut", "gone"} /\ unread \in 0..SndBuf
      /\ SndBuf \in Nat
  BY DEF IInv, TypeOK
<1>2. CASE ReadLines
  BY <1>2, InvReadLines
<1>3. CASE ReadEof
  BY <1>3, InvReadEof
<1>4. CASE WriteBegins
  <2>1. resp # NoResponse
    BY <1>4 DEF WriteBegins, IInv, Registered
  <2> QED
    BY <1>1, <1>4, <2>1, InvOther DEF WriteBegins, client, reading
<1>5. CASE WriteTick
  BY <1>5, InvWriteTick
<1>6. CASE WriteThrows
  BY <1>1, <1>6, InvOther DEF WriteThrows, Die, client, reading
<1>7. CASE WriteAsserts
  BY <1>1, <1>7, InvOther DEF WriteAsserts, client, reading
<1>8. CASE Reconsider
  BY <1>1, <1>8, InvOther DEF Reconsider, Die, client, reading
<1>9. CASE ClientSends
  <2>1. script # <<>> /\ script' = Tail(script) /\ inbox' = Append(inbox, Head(script))
    BY <1>9 DEF ClientSends
  <2>2. script' \in Seq(Lines) /\ Head(script) \in Lines
    BY <1>1, <2>1, HeadTailProperties
  <2>3. inbox' \in Seq(Lines)
    BY <1>1, <2>1, <2>2, AppendProperties
  <2> QED
    BY <1>1, <1>9, <2>2, <2>3, InvOther DEF ClientSends
<1>10. CASE ClientShuts
  BY <1>1, <1>10, InvOther DEF ClientShuts, reading
<1>11. CASE ClientResets
  BY <1>1, <1>11, InvOther DEF ClientResets, reading
<1>12. CASE ClientReads
  <2>1. PICK k \in 1..unread : unread' = unread - k
    BY <1>12 DEF ClientReads
  <2>2. unread' \in 0..SndBuf
    BY <1>1, <2>1
  <2> QED
    BY <1>1, <1>12, <2>2, InvOther DEF ClientReads, client, reading
<1>13. CASE UNCHANGED vars
  BY <1>1, <1>13, InvOther DEF vars, answering, watched
<1> QED
  BY <1>2, <1>3, <1>4, <1>5, <1>6, <1>7, <1>8, <1>9, <1>10, <1>11, <1>12, <1>13
     DEF Next, Read, Write

THEOREM Inductive == Spec => []IInv
  BY InvInit, InvNext, PTL DEF Spec

-----------------------------------------------------------------------------
(***************************************************************************)
(* In particular, write() is never entered without a response, and what    *)
(* is in the socket's buffer fits there.                                   *)
(***************************************************************************)
THEOREM TypeCorrect == Spec => []TypeOK
<1>1. IInv => TypeOK
  BY DEF IInv
<1> QED
  BY <1>1, Inductive, PTL

(***************************************************************************)
(* Octets of a response reach the socket in order, none twice and none     *)
(* left out, however write(), its loop and the client's reading interleave.*)
(***************************************************************************)
THEOREM ResponsesAreIntact == Spec => []CurrentIntact
<1>1. IInv => CurrentIntact
  <2> SUFFICES ASSUME IInv, resp # NoResponse
               PROVE  R!NothingLost /\ R!SentIsPrefix
    BY DEF CurrentIntact
  <2>1. RP!Whole(resp, wire)
    BY DEF IInv, IsWhole
  <2>2. wire \o resp.v = RP!Octets(0, RP!Produced(resp))
    BY <2>1 DEF RP!Whole
  <2>3. Len(wire) <= RP!Total(resp.entity) /\ wire = RP!Octets(0, Len(wire))
    BY <2>1, Entity, RP!WholeIsPrefix
  <2> QED
    BY <2>2, <2>3, SameResponse, SameOctets DEF R!NothingLost, R!SentIsPrefix
<1> QED
  BY <1>1, Inductive, PTL

(* A response which ended loses no more than its backlog. *)
THEOREM OnlyBacklogsAreLost == Spec => []LossIsBacklog
<1>1. IInv => LossIsBacklog
  BY DEF IInv
<1> QED
  BY <1>1, Inductive, PTL

(* History, by its parity, knows whether there is a response. *)
THEOREM HistoryIsRight == Spec => []HistoryAgrees
<1>1. IInv => HistoryAgrees
  BY DEF IInv
<1> QED
  BY <1>1, Inductive, PTL

(* No complete request is left in the queue for want of an event. *)
THEOREM NoRequestWaits == Spec => []NothingWaits
<1>1. IInv => NothingWaits
  BY DEF IInv
<1> QED
  BY <1>1, Inductive, PTL

(* Nothing follows the response to a HTTP/1.0 request. *)
THEOREM ClosingIsLast == Spec => []CloseIsLast
<1>1. IInv => CloseIsLast
  BY DEF IInv
<1> QED
  BY <1>1, Inductive, PTL

-----------------------------------------------------------------------------
(***************************************************************************)
(* The Pipeline.  Its asked is b \o the complete requests of q, when b are *)
(* the requests begun and q is the queue.                                  *)
(***************************************************************************)
Ids(q) == [i \in 1..CompleteOnes(q) |-> q[i].id]

(***************************************************************************)
(* What keeps the order: all that was begun came before what is queued,    *)
(* and that before the lines which the session has not yet looked at.      *)
(***************************************************************************)
InLine(b, q, lines) ==
    /\ \A i, j \in 1..Len(b) : i < j => b[i] < b[j]
    /\ Orderly(q)
    /\ InOrder(lines)
    /\ AllBefore(q, lines)
    /\ \A i \in 1..Len(b) : \A j \in 1..Len(q) : b[i] < q[j].id
    /\ \A i \in 1..Len(b) : \A j \in 1..Len(lines) : b[i] < lines[j].id

LEMMA CompleteOnesType ==
    ASSUME NEW q \in Seq(Requests)
    PROVE  /\ Len(q) \in Nat
           /\ CompleteOnes(q) \in 0..Len(q)
           /\ CompleteOnes(q) \in {Len(q) - 1, Len(q)}
           /\ Len(q) > 0 => (CompleteOnes(q) = Len(q) <=> q[Len(q)].complete)
           /\ Complete(q) <=> Len(q) > 0 /\ q[1].complete
           /\ Len(q) > 0 => Head(q) = q[1]
<1>1. Len(q) \in Nat /\ (q = <<>> <=> Len(q) = 0)
  BY LenProperties, EmptySeq
<1>2. Len(q) > 0 => Head(q) = q[1]
  BY <1>1, HeadTailProperties
<1>3. CASE q = <<>>
  BY <1>1, <1>3 DEF CompleteOnes, Complete
<1>4. CASE q # <<>>
  <2>1. Complete(q) <=> q[1].complete
    BY <1>1, <1>2, <1>4 DEF Complete
  <2>2. CASE q[Len(q)].complete
    <3>1. CompleteOnes(q) = Len(q)
      BY <1>4, <2>2 DEF CompleteOnes, Last
    <3> QED
      BY <1>1, <1>2, <1>4, <2>1, <2>2, <3>1
  <2>3. CASE ~q[Len(q)].complete
    <3>1. CompleteOnes(q) = Len(q) - 1
      BY <1>4, <2>3 DEF CompleteOnes, Last
    <3> QED
      BY <1>1, <1>2, <1>4, <2>1, <2>3, <3>1
  <2> QED
    BY <2>2, <2>3
<1> QED
  BY <1>3, <1>4

LEMMA IdsType ==
    ASSUME NEW q \in Seq(Requests)
    PROVE  /\ Ids(q) \in Seq(Nat)
           /\ Len(Ids(q)) = CompleteOnes(q)
           /\ \A i \in 1..CompleteOnes(q) : Ids(q)[i] = q[i].id
<1>1. CompleteOnes(q) \in Nat /\ CompleteOnes(q) <= Len(q) /\ Len(q) \in Nat
  BY CompleteOnesType
<1>2. \A i \in 1..CompleteOnes(q) : q[i].id \in Nat
  <2> TAKE i \in 1..CompleteOnes(q)
  <2>1. q[i] \in Requests
    BY <1>1, ElementOfSeq
  <2> QED
    BY <2>1 DEF Requests
<1>3. Ids(q) \in [1..CompleteOnes(q) -> Nat]
  BY <1>2 DEF Ids
<1>4. Ids(q) \in Seq(Nat)
  BY <1>1, <1>3, SeqDef
<1>5. DOMAIN Ids(q) = 1..CompleteOnes(q)
  BY DEF Ids
<1>6. Len(Ids(q)) = CompleteOnes(q)
  BY <1>1, <1>4, <1>5, LenProperties
<1> QED
  BY <1>4, <1>6 DEF Ids

(* asked, one by one *)
LEMMA AskedType ==
    ASSUME NEW b \in Seq(Nat), NEW q \in Seq(Requests)
    PROVE  /\ b \o Ids(q) \in Seq(Nat)
           /\ Len(b) \in Nat /\ CompleteOnes(q) \in Nat
           /\ Len(b \o Ids(q)) = Len(b) + CompleteOnes(q)
           /\ \A i \in 1..Len(b) : (b \o Ids(q))[i] = b[i]
           /\ \A i \in 1..CompleteOnes(q) : (b \o Ids(q))[Len(b) + i] = q[i].id
<1>1. /\ Ids(q) \in Seq(Nat) /\ Len(Ids(q)) = CompleteOnes(q)
      /\ \A i \in 1..CompleteOnes(q) : Ids(q)[i] = q[i].id
      /\ Len(b) \in Nat /\ CompleteOnes(q) \in Nat
  BY IdsType, CompleteOnesType, LenProperties
<1>2. /\ b \o Ids(q) \in Seq(Nat)
      /\ Len(b \o Ids(q)) = Len(b) + Len(Ids(q))
      /\ \A i \in 1..(Len(b) + Len(Ids(q))) :
            (b \o Ids(q))[i] = IF i <= Len(b) THEN b[i] ELSE Ids(q)[i - Len(b)]
  BY <1>1, ConcatProperties
<1>3. \A i \in 1..Len(b) : (b \o Ids(q))[i] = b[i]
  BY <1>1, <1>2
<1>4. ASSUME NEW i \in 1..CompleteOnes(q)
      PROVE  (b \o Ids(q))[Len(b) + i] = q[i].id
  <2>1. /\ Len(b) + i \in 1..(Len(b) + Len(Ids(q))) /\ ~(Len(b) + i <= Len(b))
        /\ (Len(b) + i) - Len(b) = i
    BY <1>1
  <2> QED
    BY <1>1, <1>2, <2>1
<1> QED
  BY <1>1, <1>2, <1>3, <1>4

(* Lines received leave all in line. *)
LEMMA ReceivedInLine ==
    ASSUME NEW b \in Seq(Nat), NEW q \in Seq(Requests), NEW lines \in Seq(Lines),
           NEW rest \in Seq(Lines), InLine(b, q, lines \o rest)
    PROVE  InLine(b, Received(q, lines), rest)
<1> DEFINE r == Received(q, lines)
           all == lines \o rest
<1>1. Reached(q, lines, Len(lines), r)
  BY ReceivedIsReached
<1> HIDE DEF r
<1>2. /\ Len(lines) \in Nat /\ Len(rest) \in Nat /\ Len(q) \in Nat /\ Len(b) \in Nat
      /\ r \in Seq(Requests) /\ Len(r) \in Nat
  BY <1>1, LenProperties DEF Reached
<1>3. /\ Len(all) = Len(lines) + Len(rest)
      /\ \A i \in 1..Len(lines) : i \in 1..Len(all) /\ all[i] = lines[i]
      /\ \A i \in 1..Len(rest) :
            Len(lines) + i \in 1..Len(all) /\ all[Len(lines) + i] = rest[i]
  <2>1. /\ Len(all) = Len(lines) + Len(rest)
        /\ \A i \in 1..(Len(lines) + Len(rest)) :
              all[i] = IF i <= Len(lines) THEN lines[i] ELSE rest[i - Len(lines)]
    BY ConcatProperties
  <2> HIDE DEF all
  <2>2. \A i \in 1..Len(rest) :
            /\ Len(lines) + i \in 1..(Len(lines) + Len(rest))
            /\ ~(Len(lines) + i <= Len(lines)) /\ (Len(lines) + i) - Len(lines) = i
    BY <1>2
  <2> QED
    BY <1>2, <2>1, <2>2
<1>4. InLine(b, q, all)
  OBVIOUS
<1> HIDE DEF all
<1>5. InOrder(lines) /\ AllBefore(q, lines) /\ Orderly(q)
  BY <1>3, <1>4 DEF InLine, InOrder, AllBefore
<1>6. Orderly(r)
  BY <1>1, <1>5 DEF Reached
<1>7. InOrder(rest)
  <2> SUFFICES ASSUME NEW i \in 1..Len(rest), NEW j \in 1..Len(rest), i < j
               PROVE  rest[i].id < rest[j].id
    BY DEF InOrder
  <2>1. Len(lines) + i < Len(lines) + j
    BY <1>2
  <2> QED
    BY <1>3, <1>4, <2>1 DEF InLine, InOrder
<1>8. ASSUME NEW i \in 1..Len(r)
      PROVE  \/ i \in 1..Len(q) /\ r[i].id = q[i].id
             \/ \E j \in 1..Len(lines) : r[i].id = lines[j].id
  <2>1. CASE i <= Len(q)
    BY <1>1, <1>2, <2>1 DEF Reached, Follows
  <2>2. CASE i > Len(q)
    BY <1>1, <2>2 DEF Reached
  <2> QED
    BY <1>2, <2>1, <2>2
<1>9. AllBefore(r, rest)
  <2> SUFFICES ASSUME NEW i \in 1..Len(r), NEW j \in 1..Len(rest)
               PROVE  r[i].id < rest[j].id
    BY DEF AllBefore
  <2>1. Len(lines) + j \in 1..Len(all) /\ all[Len(lines) + j] = rest[j]
    BY <1>3
  <2>2. CASE i \in 1..Len(q) /\ r[i].id = q[i].id
    BY <1>4, <2>1, <2>2 DEF InLine, AllBefore
  <2>3. CASE \E k \in 1..Len(lines) : r[i].id = lines[k].id
    <3>1. PICK k \in 1..Len(lines) : r[i].id = lines[k].id
      BY <2>3
    <3>2. k \in 1..Len(all) /\ all[k] = lines[k] /\ k < Len(lines) + j
      BY <1>2, <1>3
    <3> QED
      BY <1>4, <2>1, <3>1, <3>2 DEF InLine, InOrder
  <2> QED
    BY <1>8, <2>2, <2>3
<1>10. ASSUME NEW i \in 1..Len(b), NEW j \in 1..Len(r)
       PROVE  b[i] < r[j].id
  <2>1. CASE j \in 1..Len(q) /\ r[j].id = q[j].id
    BY <1>4, <2>1 DEF InLine
  <2>2. CASE \E k \in 1..Len(lines) : r[j].id = lines[k].id
    BY <1>3, <1>4, <2>2 DEF InLine
  <2> QED
    BY <1>8, <2>1, <2>2
<1>11. \A i \in 1..Len(b) : \A j \in 1..Len(rest) : b[i] < rest[j].id
  BY <1>3, <1>4 DEF InLine
<1>12. \A i, j \in 1..Len(b) : i < j => b[i] < b[j]
  BY <1>4 DEF InLine
<1>13. InLine(b, r, rest)
  BY <1>6, <1>7, <1>9, <1>10, <1>11, <1>12 DEF InLine
<1> QED
  BY <1>13 DEF r

(* The next in line is the first in the queue. *)
LEMMA PopInLine ==
    ASSUME NEW b \in Seq(Nat), NEW q \in Seq(Requests), NEW lines \in Seq(Lines),
           InLine(b, q, lines), Complete(q)
    PROVE  /\ InLine(Append(b, q[1].id), Tail(q), lines)
           /\ Append(b, q[1].id) \in Seq(Nat) /\ Tail(q) \in Seq(Requests)
           /\ Append(b, q[1].id) \o Ids(Tail(q)) = b \o Ids(q)
           /\ CompleteOnes(q) > 0
<1> DEFINE x == q[1].id
           c == Append(b, x)
           t == Tail(q)
<1>1. /\ Len(q) \in Nat /\ Len(q) > 0 /\ q[1].complete /\ Len(b) \in Nat
      /\ q[1] \in Requests /\ x \in Nat
  <2>1. Len(q) \in Nat /\ Len(q) > 0 /\ q[1].complete /\ Len(b) \in Nat
    BY CompleteOnesType, LenProperties
  <2>2. q[1] \in Requests
    BY <2>1, ElementOfSeq
  <2> QED
    BY <2>1, <2>2 DEF Requests
<1>2. /\ c \in Seq(Nat) /\ Len(c) = Len(b) + 1
      /\ \A i \in 1..Len(b) : c[i] = b[i]
      /\ c[Len(b) + 1] = x
  BY <1>1, AppendProperties
<1>3. /\ t \in Seq(Requests) /\ Len(t) = Len(q) - 1
      /\ \A i \in 1..(Len(q) - 1) : t[i] = q[i + 1]
  BY <1>1, HeadTailProperties, EmptySeq
<1> HIDE DEF c, t, x
<1>4. x = q[1].id
  BY DEF x
<1>5. Orderly(t)
  <2>1. ASSUME NEW i \in 1..Len(t), i < Len(t)
        PROVE  t[i].complete
    <3>1. /\ i + 1 \in 1..Len(q) /\ i + 1 < Len(q)
          /\ t[i] = q[i + 1]
      BY <1>1, <1>3, <2>1
    <3> QED
      BY <3>1 DEF InLine, Orderly
  <2>2. ASSUME NEW i \in 1..Len(t), NEW j \in 1..Len(t), i < j
        PROVE  t[i].id < t[j].id
    <3>1. /\ i + 1 \in 1..Len(q) /\ j + 1 \in 1..Len(q) /\ i + 1 < j + 1
          /\ t[i] = q[i + 1] /\ t[j] = q[j + 1]
      BY <1>1, <1>3, <2>2
    <3> QED
      BY <3>1 DEF InLine, Orderly
  <2> QED
    BY <2>1, <2>2 DEF Orderly
<1>6. AllBefore(t, lines) /\ InOrder(lines)
  BY <1>1, <1>3 DEF InLine, AllBefore
<1>7. ASSUME NEW i \in 1..Len(c), NEW j \in 1..Len(c), i < j
      PROVE  c[i] < c[j]
  <2>1. CASE j \in 1..Len(b)
    <3>1. i \in 1..Len(b)
      BY <1>1, <1>2, <1>7, <2>1
    <3> QED
      BY <1>2, <1>7, <2>1, <3>1 DEF InLine
  <2>2. CASE j \notin 1..Len(b)
    <3>1. i \in 1..Len(b) /\ j = Len(b) + 1 /\ 1 \in 1..Len(q)
      <4>1. Len(c) = Len(b) + 1 /\ Len(b) \in Nat /\ Len(q) \in Nat /\ Len(q) > 0
        BY <1>1, <1>2
      <4>2. i \in 1..(Len(b) + 1) /\ j \in 1..(Len(b) + 1) /\ i < j
        BY <4>1, <1>7
      <4>3. \A n \in Nat : \A k \in 1..(n + 1) : k \notin 1..n => k = n + 1
        BY ONLY TRUE
      <4>4. j = Len(b) + 1
        BY <4>1, <4>2, <4>3, <2>2, Zenon
      <4> QED
        BY <4>1, <4>2, <4>4
    <3>2. c[i] = b[i] /\ c[j] = q[1].id
      BY <1>2, <1>4, <3>1
    <3> QED
      BY <3>1, <3>2 DEF InLine
  <2> QED
    BY <2>1, <2>2
<1>8. ASSUME NEW i \in 1..Len(c), NEW j \in 1..Len(t)
      PROVE  c[i] < t[j].id
  <2>1. j + 1 \in 1..Len(q) /\ t[j] = q[j + 1] /\ 1 \in 1..Len(q) /\ 1 < j + 1
    BY <1>1, <1>3
  <2>2. CASE i \in 1..Len(b)
    BY <1>2, <2>1, <2>2 DEF InLine
  <2>3. CASE i \notin 1..Len(b)
    <3>1. c[i] = q[1].id
      BY <1>1, <1>2, <1>4, <2>3
    <3> QED
      BY <2>1, <3>1 DEF InLine, Orderly
  <2> QED
    BY <2>2, <2>3
<1>9. ASSUME NEW i \in 1..Len(c), NEW j \in 1..Len(lines)
      PROVE  c[i] < lines[j].id
  <2>1. CASE i \in 1..Len(b)
    BY <1>2, <2>1 DEF InLine
  <2>2. CASE i \notin 1..Len(b)
    <3>1. c[i] = q[1].id /\ 1 \in 1..Len(q)
      BY <1>1, <1>2, <1>4, <2>2
    <3> QED
      BY <3>1 DEF InLine, AllBefore
  <2> QED
    BY <2>1, <2>2
<1>10. InLine(c, t, lines)
  BY <1>5, <1>6, <1>7, <1>8, <1>9 DEF InLine
<1>11. CompleteOnes(q) > 0 /\ CompleteOnes(t) = CompleteOnes(q) - 1
  <2>1. CASE Len(q) = 1
    <3>1. CompleteOnes(q) = 1
      BY <1>1, <2>1, CompleteOnesType
    <3>2. Len(t) = 0
      BY <1>3, <2>1
    <3>3. CompleteOnes(t) = 0
      <4>1. CompleteOnes(t) \in 0..Len(t)
        BY <1>3, CompleteOnesType
      <4> QED
        BY <3>2, <4>1
    <3> QED
      BY <3>1, <3>3
  <2>2. CASE Len(q) # 1
    <3>1. Len(t) > 0 /\ t[Len(t)] = q[Len(q)]
      BY <1>1, <1>3, <2>2
    <3>2. CompleteOnes(t) = Len(t) <=> q[Len(q)].complete
      BY <1>3, <3>1, CompleteOnesType
    <3>3. CompleteOnes(q) = Len(q) <=> q[Len(q)].complete
      BY <1>1, CompleteOnesType
    <3>4. CompleteOnes(q) \in {Len(q) - 1, Len(q)}
          /\ CompleteOnes(t) \in {Len(t) - 1, Len(t)}
      BY <1>3, CompleteOnesType
    <3> QED
      BY <1>1, <1>3, <2>2, <3>2, <3>3, <3>4
  <2> QED
    BY <2>1, <2>2
<1>12. c \o Ids(t) = b \o Ids(q)
  <2> DEFINE d == c \o Ids(t)
             a == b \o Ids(q)
             n == CompleteOnes(q)
  <2>1. /\ d \in Seq(Nat) /\ CompleteOnes(t) \in Nat
        /\ Len(d) = Len(c) + CompleteOnes(t)
        /\ \A i \in 1..Len(c) : d[i] = c[i]
        /\ \A i \in 1..CompleteOnes(t) : d[Len(c) + i] = t[i].id
    BY <1>2, <1>3, AskedType
  <2>2. /\ a \in Seq(Nat) /\ n \in Nat
        /\ Len(a) = Len(b) + n
        /\ \A i \in 1..Len(b) : a[i] = b[i]
        /\ \A i \in 1..n : a[Len(b) + i] = q[i].id
    BY AskedType
  <2>3. n > 0 /\ CompleteOnes(t) = n - 1 /\ n <= Len(q)
    BY <1>11, CompleteOnesType
  <2> HIDE DEF d, a, n
  <2>4. Len(d) = Len(a) /\ Len(a) \in Nat
    BY <1>1, <1>2, <2>1, <2>2, <2>3
  <2>5. ASSUME NEW i \in 1..Len(a)
        PROVE  d[i] = a[i]
    <3>1. CASE i <= Len(b)
      BY <1>1, <1>2, <2>1, <2>2, <3>1
    <3>2. CASE i = Len(b) + 1
      <4>1. d[i] = x
        BY <1>1, <1>2, <2>1, <3>2
      <4>2. 1 \in 1..n /\ a[Len(b) + 1] = q[1].id
        BY <2>2, <2>3
      <4> QED
        BY <1>4, <3>2, <4>1, <4>2
    <3>3. CASE i > Len(b) + 1
      <4> DEFINE j == i - (Len(b) + 1)
      <4>1. /\ j \in 1..(n - 1) /\ j + 1 \in 1..n
            /\ i = Len(c) + j /\ i = Len(b) + (j + 1)
        <5>1. /\ i \in Nat /\ i <= Len(b) + n /\ n \in Nat
              /\ Len(b) \in Nat /\ Len(c) = Len(b) + 1
          BY <1>1, <1>2, <2>2, <2>4
        <5> QED
          BY <5>1, <3>3
      <4> HIDE DEF j
      <4>2. d[i] = t[j].id
        BY <2>1, <2>3, <4>1
      <4>3. a[i] = q[j + 1].id
        BY <2>2, <4>1
      <4>4. j \in 1..(Len(q) - 1)
        BY <1>1, <2>2, <2>3, <4>1
      <4> QED
        BY <1>3, <4>2, <4>3, <4>4
    <3> QED
      BY <1>1, <3>1, <3>2, <3>3
  <2>6. d = a
    BY <2>1, <2>2, <2>4, <2>5, SeqEqual
  <2> QED
    BY <2>6 DEF d, a
<1> QED
  BY <1>2, <1>3, <1>10, <1>11, <1>12 DEF c, t, x

(* A queue which has received some lines: Pipeline's Ask. *)
LEMMA FollowsAsk ==
    ASSUME NEW b \in Seq(Nat), NEW q \in Seq(Requests), NEW r \in Seq(Requests),
           NEW lines \in Seq(Lines), Follows(r, q), InLine(b, r, lines)
    PROVE  /\ Len(b \o Ids(q)) <= Len(b \o Ids(r))
           /\ b \o Ids(q) = SubSeq(b \o Ids(r), 1, Len(b \o Ids(q)))
           /\ \A i \in 1..(Len(b \o Ids(r)) - 1) :
                 (b \o Ids(r))[i] < (b \o Ids(r))[i + 1]
<1> DEFINE a == b \o Ids(q)
           d == b \o Ids(r)
           m == CompleteOnes(q)
           n == CompleteOnes(r)
<1>1. /\ a \in Seq(Nat) /\ Len(b) \in Nat /\ m \in Nat
      /\ Len(a) = Len(b) + m
      /\ \A i \in 1..Len(b) : a[i] = b[i]
      /\ \A i \in 1..m : a[Len(b) + i] = q[i].id
  BY AskedType
<1>2. /\ d \in Seq(Nat) /\ n \in Nat
      /\ Len(d) = Len(b) + n
      /\ \A i \in 1..Len(b) : d[i] = b[i]
      /\ \A i \in 1..n : d[Len(b) + i] = r[i].id
  BY AskedType
<1>3. /\ Len(q) \in Nat /\ Len(r) \in Nat /\ Len(q) <= Len(r)
      /\ m \in {Len(q) - 1, Len(q)} /\ n \in {Len(r) - 1, Len(r)}
      /\ m <= Len(q) /\ n <= Len(r)
  BY CompleteOnesType DEF Follows
<1>4. m <= n
  <2>1. CASE Len(q) < Len(r)
    BY <1>3, <2>1
  <2>2. CASE Len(q) = Len(r) /\ m = Len(q) /\ Len(q) > 0
    <3>1. q[Len(q)].complete /\ Len(q) \in 1..Len(q)
      BY <1>3, <2>2, CompleteOnesType
    <3>2. r[Len(r)] = q[Len(q)]
      BY <2>2, <3>1 DEF Follows
    <3>3. n = Len(r)
      BY <2>2, <3>1, <3>2, CompleteOnesType
    <3> QED
      BY <1>3, <2>2, <3>3
  <2>3. CASE Len(q) = Len(r) /\ (m = Len(q) - 1 \/ Len(q) = 0)
    BY <1>1, <1>2, <1>3, <2>3
  <2> QED
    BY <1>3, <2>1, <2>2, <2>3
<1> HIDE DEF a, d, m, n
<1>5. Len(a) <= Len(d) /\ Len(a) \in Nat /\ Len(d) \in Nat
  BY <1>1, <1>2, <1>4
<1>6. a = SubSeq(d, 1, Len(a))
  <2>1. /\ SubSeq(d, 1, Len(a)) \in Seq(Nat)
        /\ Len(SubSeq(d, 1, Len(a))) = Len(a)
        /\ \A i \in 1..Len(a) : SubSeq(d, 1, Len(a))[i] = d[i]
    <3>1. \A i \in 1..Len(a) : d[i] \in Nat
      <4> TAKE i \in 1..Len(a)
      <4>1. i \in 1..Len(d)
        BY <1>5
      <4> QED
        BY <1>2, <4>1, ElementOfSeq
    <3>2. /\ Len(SubSeq(d, 1, Len(a))) = Len(a)
          /\ SubSeq(d, 1, Len(a)) \in Seq(Nat)
          /\ \A i \in 1..Len(a) : SubSeq(d, 1, Len(a))[i] = d[1 + i - 1]
      BY <1>2, <1>5, <3>1, SubSeqProperties
    <3>3. \A i \in 1..Len(a) : 1 + i - 1 = i
      BY <1>5
    <3> QED
      BY <3>2, <3>3
  <2>2. ASSUME NEW i \in 1..Len(a)
        PROVE  a[i] = d[i]
    <3>1. CASE i <= Len(b)
      BY <1>1, <1>2, <3>1
    <3>2. CASE i > Len(b)
      <4> DEFINE j == i - Len(b)
      <4>1. j \in 1..m /\ j \in 1..n /\ j \in 1..Len(q) /\ i = Len(b) + j
        <5>1. /\ i \in Nat /\ i <= Len(b) + m /\ m <= n /\ m <= Len(q)
              /\ Len(b) \in Nat /\ m \in Nat /\ n \in Nat /\ Len(q) \in Nat
          BY <1>1, <1>2, <1>3, <1>4
        <5> QED
          BY <5>1, <3>2
      <4> HIDE DEF j
      <4>2. a[i] = q[j].id /\ d[i] = r[j].id
        BY <1>1, <1>2, <4>1
      <4> QED
        BY <4>1, <4>2 DEF Follows
    <3> QED
      BY <1>1, <3>1, <3>2
  <2> DEFINE s == SubSeq(d, 1, Len(a))
  <2>3. s \in Seq(Nat) /\ Len(s) = Len(a) /\ \A i \in 1..Len(a) : a[i] = s[i]
    BY <2>1, <2>2
  <2> HIDE DEF s
  <2>4. a = s
    BY <1>1, <2>3, SeqEqual
  <2> QED
    BY <2>4 DEF s
<1>7. ASSUME NEW i \in 1..(Len(d) - 1)
      PROVE  d[i] < d[i + 1]
  <2>1. /\ i \in Nat /\ i # 0 /\ Len(b) \in Nat /\ i + 1 <= Len(b) + n
        /\ n \in Nat /\ n <= Len(r) /\ Len(r) \in Nat
    BY <1>1, <1>2, <1>3, <1>5
  <2>2. CASE i < Len(b)
    <3>1. i \in 1..Len(b) /\ i + 1 \in 1..Len(b) /\ i < i + 1
      BY <2>1, <2>2
    <3>2. d[i] = b[i] /\ d[i + 1] = b[i + 1]
      BY <1>2, <3>1
    <3> QED
      BY <3>1, <3>2 DEF InLine
  <2>3. CASE i = Len(b)
    <3>1. i \in 1..Len(b) /\ 1 \in 1..n /\ 1 \in 1..Len(r)
      BY <2>1, <2>3
    <3>2. d[i + 1] = r[1].id
      BY <1>2, <2>3, <3>1
    <3> QED
      BY <1>2, <3>1, <3>2 DEF InLine
  <2>4. CASE i > Len(b)
    <3> DEFINE j == i - Len(b)
    <3>1. /\ j \in 1..n /\ j + 1 \in 1..n /\ j \in 1..Len(r) /\ j + 1 \in 1..Len(r)
          /\ j < j + 1
          /\ i = Len(b) + j /\ i + 1 = Len(b) + (j + 1)
      BY <2>1, <2>4
    <3> HIDE DEF j
    <3>2. d[i] = r[j].id /\ d[i + 1] = r[j + 1].id
      BY <1>2, <3>1
    <3> QED
      BY <3>1, <3>2 DEF InLine, Orderly
  <2> QED
    BY <2>1, <2>2, <2>3, <2>4
<1> QED
  BY <1>5, <1>6, <1>7 DEF a, d

-----------------------------------------------------------------------------
(***************************************************************************)
(* The state as seen from the Pipeline: the lines still to come, in the    *)
(* order the session will see them, and the requests begun.                *)
(***************************************************************************)
Coming == held \o (inbox \o script)

Kept == InLine(Begun, queue, Coming) /\ (held # <<>> => eof)

Active == resp # NoResponse \/ pc = "header_asserts"

BegunOf(lg, act, cur) ==
    [i \in DOMAIN lg |-> lg[i].id] \o (IF act THEN <<cur>> ELSE <<>>)

LEMMA BegunIs ==
    /\ Begun = BegunOf(log, Active, current)
    /\ Begun' = BegunOf(log', Active', current')
    /\ CompleteIds = Ids(queue)
    /\ CompleteIds' = Ids(queue')
  BY DEF Begun, BegunOf, Active, CompleteIds, Ids, CompleteOnes

LEMMA LogIdsType ==
    ASSUME NEW lg \in Seq(Endings)
    PROVE  /\ [i \in DOMAIN lg |-> lg[i].id] \in Seq(Nat)
           /\ Len([i \in DOMAIN lg |-> lg[i].id]) = Len(lg)
           /\ \A i \in 1..Len(lg) : [j \in DOMAIN lg |-> lg[j].id][i] = lg[i].id
           /\ Len(lg) \in Nat
<1> DEFINE f == [i \in DOMAIN lg |-> lg[i].id]
<1>1. DOMAIN lg = 1..Len(lg) /\ Len(lg) \in Nat
  BY LenProperties
<1>2. \A i \in 1..Len(lg) : lg[i].id \in Nat
  <2> TAKE i \in 1..Len(lg)
  <2>1. lg[i] \in Endings
    BY ElementOfSeq
  <2> QED
    BY <2>1 DEF Endings
<1>3. f \in [1..Len(lg) -> Nat] /\ DOMAIN f = 1..Len(lg)
  BY <1>1, <1>2
<1>4. f \in Seq(Nat)
  BY <1>1, <1>3, SeqDef
<1>5. Len(f) = Len(lg)
  BY <1>1, <1>3, <1>4, LenProperties
<1> QED
  BY <1>1, <1>4, <1>5

LEMMA BegunOfType ==
    ASSUME NEW lg \in Seq(Endings), NEW act \in BOOLEAN, NEW cur \in Nat
    PROVE  /\ BegunOf(lg, act, cur) \in Seq(Nat)
           /\ Len(BegunOf(lg, act, cur)) = IF act THEN Len(lg) + 1 ELSE Len(lg)
           /\ Len(lg) \in Nat
           /\ BegunOf(lg, TRUE, cur) = Append(BegunOf(lg, FALSE, 0), cur)
<1> DEFINE f == [i \in DOMAIN lg |-> lg[i].id]
<1>1. f \in Seq(Nat) /\ Len(f) = Len(lg) /\ Len(lg) \in Nat
  BY LogIdsType
<1>2. BegunOf(lg, FALSE, 0) = f \o <<>> /\ BegunOf(lg, TRUE, cur) = f \o <<cur>>
      /\ (~act => BegunOf(lg, act, cur) = f \o <<>>)
      /\ (act => BegunOf(lg, act, cur) = f \o <<cur>>)
  BY DEF BegunOf
<1> HIDE DEF f
<1>3. f \o <<>> = f /\ f \o <<cur>> = Append(f, cur)
  BY <1>1, ConcatEmptySeq, AppendIsConcat
<1>4. Append(f, cur) \in Seq(Nat) /\ Len(Append(f, cur)) = Len(f) + 1
  BY <1>1, AppendProperties
<1> QED
  BY <1>1, <1>2, <1>3, <1>4

(* The response which ends was begun. *)
LEMMA BegunAndEnded ==
    ASSUME NEW lg \in Seq(Endings), NEW x \in Endings
    PROVE  BegunOf(Append(lg, x), FALSE, 0) = BegunOf(lg, TRUE, x.id)
<1> DEFINE f == [i \in DOMAIN lg |-> lg[i].id]
           new == Append(lg, x)
           g == [i \in DOMAIN new |-> new[i].id]
<1>1. /\ f \in Seq(Nat) /\ Len(f) = Len(lg) /\ Len(lg) \in Nat
      /\ \A i \in 1..Len(lg) : f[i] = lg[i].id
  BY LogIdsType
<1>2. /\ new \in Seq(Endings) /\ Len(new) = Len(lg) + 1
      /\ \A i \in 1..Len(lg) : new[i] = lg[i]
      /\ new[Len(lg) + 1] = x
  BY AppendProperties
<1> HIDE DEF new
<1>3. /\ g \in Seq(Nat) /\ Len(g) = Len(new)
      /\ \A i \in 1..Len(new) : g[i] = new[i].id
  BY <1>2, LogIdsType
<1>4. x.id \in Nat
  BY DEF Endings
<1> DEFINE h == Append(f, x.id)
<1>5. /\ h \in Seq(Nat) /\ Len(h) = Len(lg) + 1
      /\ \A i \in 1..Len(lg) : h[i] = f[i]
      /\ h[Len(lg) + 1] = x.id
  BY <1>1, <1>4, AppendProperties
<1>6. f \o <<x.id>> = h
  BY <1>1, <1>4, AppendIsConcat
<1>7. BegunOf(new, FALSE, 0) = g \o <<>> /\ BegunOf(lg, TRUE, x.id) = f \o <<x.id>>
  BY DEF BegunOf
<1> HIDE DEF f, g, h
<1>8. ASSUME NEW i \in 1..(Len(lg) + 1)
      PROVE  g[i] = h[i]
  <2>1. i \in 1..Len(new) /\ g[i] = new[i].id
    BY <1>2, <1>3
  <2>2. CASE i \in 1..Len(lg)
    BY <1>1, <1>2, <1>5, <2>1, <2>2
  <2>3. CASE i = Len(lg) + 1
    BY <1>2, <1>5, <2>1, <2>3
  <2> QED
    BY <1>1, <2>2, <2>3
<1>9. Len(g) = Len(h)
  BY <1>2, <1>3, <1>5
<1>10. g = h
  BY <1>3, <1>5, <1>8, <1>9, SeqEqual
<1>11. g \o <<>> = g
  BY <1>3, ConcatEmptySeq
<1> QED
  BY <1>6, <1>7, <1>10, <1>11 DEF new

(***************************************************************************)
(* A step as the Pipeline sees it: lines are received, which makes the     *)
(* queue r, and the first request may be taken from it.                    *)
(***************************************************************************)
Stepped ==
    \E r \in Seq(Requests) :
        /\ Follows(r, queue)
        /\ InLine(Begun, r, Coming')
        /\ \/ queue' = r /\ Begun' = Begun
           \/ /\ Complete(r)
              /\ queue' = Tail(r)
              /\ Begun' = Append(Begun, r[1].id)
              /\ Len(log') = Len(Begun)
        /\ Len(log') \in Len(log)..Len(Begun)
        /\ Up

LEMMA SteppedIsNext ==
    ASSUME TypeOK, TypeOK', Stepped
    PROVE  InLine(Begun', queue', Coming') /\ P!Next
<1>1. PICK r \in Seq(Requests) :
        /\ Follows(r, queue)
        /\ InLine(Begun, r, Coming')
        /\ \/ queue' = r /\ Begun' = Begun
           \/ /\ Complete(r)
              /\ queue' = Tail(r)
              /\ Begun' = Append(Begun, r[1].id)
              /\ Len(log') = Len(Begun)
        /\ Len(log') \in Len(log)..Len(Begun)
        /\ Up
  BY DEF Stepped
<1>2. /\ queue \in Seq(Requests) /\ log \in Seq(Endings) /\ current \in Nat
      /\ Active \in BOOLEAN
      /\ script' \in Seq(Lines) /\ inbox' \in Seq(Lines) /\ held' \in Seq(Lines)
  BY DEF TypeOK, Active
<1>3. Begun \in Seq(Nat) /\ Len(Begun) \in Nat
  BY <1>2, BegunIs, BegunOfType, LenProperties
<1>4. Coming' \in Seq(Lines)
  BY <1>2, ConcatProperties DEF Coming
<1> DEFINE b == Begun
           rest == Coming'
           asked == b \o Ids(queue)
           later == b \o Ids(r)
<1>5. b \in Seq(Nat) /\ rest \in Seq(Lines) /\ InLine(b, r, rest) /\ Follows(r, queue)
  BY <1>1, <1>3, <1>4
<1> HIDE DEF b, rest
<1>6. /\ Len(asked) <= Len(later)
      /\ asked = SubSeq(later, 1, Len(asked))
      /\ \A i \in 1..(Len(later) - 1) : later[i] < later[i + 1]
  BY <1>2, <1>5, FollowsAsk
<1>7. /\ InLine(Begun', queue', Coming')
      /\ Begun' \o Ids(queue') = later
      /\ \/ Begun' = Begun
         \/ /\ Begun' = Append(Begun, later[Len(Begun) + 1])
            /\ Len(Begun) < Len(later) /\ Len(log') = Len(Begun)
  <2>1. CASE queue' = r /\ Begun' = Begun
    BY <1>5, <2>1 DEF b, rest
  <2>2. CASE /\ Complete(r)
             /\ queue' = Tail(r)
             /\ Begun' = Append(Begun, r[1].id)
             /\ Len(log') = Len(Begun)
    <3>1. /\ InLine(Append(b, r[1].id), Tail(r), rest)
          /\ Append(b, r[1].id) \o Ids(Tail(r)) = later
          /\ CompleteOnes(r) > 0
      BY <1>5, <2>2, PopInLine
    <3>2. /\ Len(b) \in Nat /\ CompleteOnes(r) \in Nat
          /\ Len(later) = Len(b) + CompleteOnes(r)
          /\ \A i \in 1..CompleteOnes(r) : later[Len(b) + i] = r[i].id
      BY <1>5, AskedType
    <3> HIDE DEF later
    <3>3. Len(b) < Len(later) /\ later[Len(b) + 1] = r[1].id
      <4>1. 1 \in 1..CompleteOnes(r)
        BY <3>1, <3>2
      <4> QED
        BY <3>1, <3>2, <4>1
    <3> QED
      BY <2>2, <3>1, <3>3 DEF b, rest
  <2> QED
    BY <1>1, <2>1, <2>2
<1>8. Begun \o CompleteIds = asked /\ (Begun \o CompleteIds)' = later
  BY <1>7, BegunIs DEF b
<1> HIDE DEF asked, later
<1>9. P!Ask
  BY <1>6, <1>8 DEF P!Ask
<1>10. P!Answer
  BY <1>1, <1>7, <1>8 DEF P!Answer
<1>11. Up = TRUE /\ Up' \in BOOLEAN
  BY <1>1 DEF Up
<1> QED
  BY <1>7, <1>9, <1>10, <1>11 DEF P!Next

(* All responses ended have begun. *)
LEMMA BegunType ==
    ASSUME TypeOK
    PROVE  Begun \in Seq(Nat) /\ Len(log) \in Nat /\ Len(log) \in Len(log)..Len(Begun)
<1>1. log \in Seq(Endings) /\ current \in Nat /\ Active \in BOOLEAN
  BY DEF TypeOK, Active
<1>2. Begun = BegunOf(log, Active, current)
  BY BegunIs
<1>3. /\ BegunOf(log, Active, current) \in Seq(Nat)
      /\ Len(BegunOf(log, Active, current)) = IF Active THEN Len(log) + 1 ELSE Len(log)
      /\ Len(log) \in Nat
  BY <1>1, BegunOfType
<1>4. Len(Begun) = Len(log) + 1 \/ Len(Begun) = Len(log)
  BY <1>2, <1>3
<1> QED
  BY <1>2, <1>3, <1>4

(* A step which leaves the requests and the lines to come as they were *)
LEMMA Stays ==
    ASSUME TypeOK, Kept, Up, queue' = queue, log' = log, current' = current,
           Active' = Active, Coming' = Coming
    PROVE  Stepped
<1>1. queue \in Seq(Requests)
  BY DEF TypeOK
<1>2. Begun' = Begun
  BY BegunIs, Zenon
<1>3. Len(log') \in Len(log)..Len(Begun)
  BY BegunType
<1>4. Follows(queue, queue)
  <2>1. Len(queue) \in Nat
    BY <1>1, LenProperties
  <2> QED
    BY <2>1 DEF Follows
<1>5. InLine(Begun, queue, Coming')
  BY DEF Kept
<1> QED
  BY <1>1, <1>2, <1>3, <1>4, <1>5 DEF Stepped

(* A read() which receives the first of the lines to come *)
LEMMA ReadSteps ==
    ASSUME TypeOK, Kept, pc = "poll", NEW got \in Seq(Lines), NEW rest \in Seq(Lines),
           Coming = got \o rest, Coming' = rest,
           Decide(Received(queue, got)), log' = log
    PROVE  Stepped
<1> DEFINE q == Received(queue, got)
<1>1. /\ queue \in Seq(Requests) /\ log \in Seq(Endings) /\ current \in Nat
      /\ Active \in BOOLEAN /\ Up
  BY DEF TypeOK, Active, Up
<1>2. Begun \in Seq(Nat) /\ Len(log) \in Nat /\ Len(log') \in Len(log)..Len(Begun)
  BY BegunType
<1>3. q \in Seq(Requests) /\ Follows(q, queue)
  BY <1>1, ReceivedIsReached DEF Reached
<1>4. InLine(Begun, q, Coming')
  <2>1. InLine(Begun, queue, got \o rest)
    BY DEF Kept
  <2>2. InLine(Begun, q, rest)
    BY <1>1, <1>2, <2>1, ReceivedInLine
  <2> QED
    BY <2>2
<1> HIDE DEF q
<1>5. ASSUME queue' = q, UNCHANGED answering, pc' # "header_asserts"
      PROVE  Stepped
  <2>1. resp' = resp /\ current' = current /\ (Active' <=> Active)
    BY <1>5 DEF answering, Active
  <2>2. Begun' = Begun
    BY <2>1, BegunIs DEF BegunOf
  <2> QED
    BY <1>1, <1>2, <1>3, <1>4, <1>5, <2>2 DEF Stepped
<1>6. ASSUME resp = NoResponse, ~Broken(q), Complete(q), PopReq(q), Ctl("WRITING")
      PROVE  Stepped
  <2>1. Answerable(q[1])
    <3>1. q[1] = Head(q)
      BY <1>3, <1>6, CompleteOnesType DEF Complete
    <3> QED
      BY <1>6, <3>1 DEF Complete, Broken, Answerable
  <2>2. queue' = Tail(q) /\ current' = q[1].id /\ current' \in Nat /\ resp' # NoResponse
    BY <1>3, <1>6, <2>1, PopReqType
  <2>3. Active' = TRUE /\ Active = FALSE
    BY <1>6, <2>2 DEF Active
  <2>4. Begun = BegunOf(log, FALSE, 0) /\ Begun' = BegunOf(log, TRUE, current')
    BY <2>3, BegunIs DEF BegunOf
  <2>5. Begun' = Append(Begun, q[1].id) /\ Len(log') = Len(Begun)
    BY <1>1, <2>2, <2>4, BegunOfType
  <2> QED
    BY <1>1, <1>2, <1>3, <1>4, <1>6, <2>2, <2>5 DEF Stepped
<1> QED
  BY <1>5, <1>6 DEF Decide, Ctl, Die, q

(* A response ends, and perhaps another one begins. *)
LEMMA ConcludeSteps ==
    ASSUME TypeOK, Kept, pc \in {"write", "again"}, NEW r, NEW w, RP!Whole(r, w), r.done,
           Conclude(r, w), Coming' = Coming
    PROVE  Stepped
<1> DEFINE x == Ended(r, w)
<1>1. /\ queue \in Seq(Requests) /\ log \in Seq(Endings) /\ current \in Nat
      /\ resp # NoResponse /\ Active = TRUE /\ Up
  BY DEF TypeOK, Active, Up
<1>2. x \in Endings /\ x.id = current
  <2>1. x.id = current
    BY DEF Ended
  <2> QED
    BY <2>1, EndedType
<1>3. log' = Append(log, x)
  BY Zenon DEF Conclude
<1> HIDE DEF x
<1>4. /\ Begun = BegunOf(log, TRUE, current)
      /\ Begun \in Seq(Nat) /\ Len(Begun) = Len(log) + 1 /\ Len(log) \in Nat
  <2>1. Begun = BegunOf(log, TRUE, current)
    BY <1>1, BegunIs
  <2>2. /\ BegunOf(log, TRUE, current) \in Seq(Nat)
        /\ Len(BegunOf(log, TRUE, current)) = IF TRUE THEN Len(log) + 1 ELSE Len(log)
        /\ Len(log) \in Nat
    BY <1>1, BegunOfType
  <2> QED
    BY <2>1, <2>2
<1>5. log' \in Seq(Endings) /\ Len(log') = Len(Begun)
  <2>1. Append(log, x) \in Seq(Endings) /\ Len(Append(log, x)) = Len(log) + 1
    BY <1>1, <1>2, AppendProperties
  <2> QED
    BY <1>3, <1>4, <2>1
<1>6. BegunOf(log', FALSE, 0) = Begun
  <2>1. BegunOf(Append(log, x), FALSE, 0) = BegunOf(log, TRUE, x.id)
    BY <1>1, <1>2, BegunAndEnded
  <2> QED
    BY <1>2, <1>3, <1>4, <2>1
<1>7. Len(log') \in Len(log)..Len(Begun)
  <2>1. \A n \in Nat : \A m : m = n + 1 => m \in n..m
    OBVIOUS
  <2>2. Len(log) \in Nat /\ Len(Begun) = Len(log) + 1 /\ Len(log') = Len(Begun)
    BY <1>4, <1>5, Zenon
  <2>3. Len(Begun) \in Len(log)..Len(Begun)
    BY <2>1, <2>2, Zenon
  <2> QED
    BY <2>2, <2>3, Zenon
<1>8. Follows(queue, queue)
  <2>1. Len(queue) \in Nat
    BY <1>1, LenProperties
  <2> QED
    BY <2>1 DEF Follows
<1>9. InLine(Begun, queue, Coming')
  BY DEF Kept
<1>10. CASE resp' = NoResponse /\ queue' = queue /\ pc' # "header_asserts"
  <2>1. Active' = FALSE
    BY <1>10 DEF Active
  <2>2. Begun' = Begun
    BY <1>6, <2>1, BegunIs DEF BegunOf
  <2> QED
    BY <1>1, <1>7, <1>8, <1>9, <1>10, <2>2 DEF Stepped
<1>11. ASSUME Complete(queue), PopReq(queue),
              ~Answerable(Head(queue)) => pc' = "header_asserts"
       PROVE  Stepped
  <2>1. Head(queue) = queue[1]
    BY <1>1, <1>11, CompleteOnesType
  <2>2. /\ queue' = Tail(queue) /\ current' = queue[1].id /\ current' \in Nat
        /\ Answerable(queue[1]) => resp' # NoResponse
    BY <1>1, <1>11, PopReqType
  <2>3. Active' = TRUE
    BY <1>11, <2>1, <2>2 DEF Active
  <2>4. Begun' = Append(Begun, queue[1].id)
    BY <1>5, <1>6, <2>2, <2>3, BegunIs, BegunOfType
  <2> QED
    BY <1>1, <1>5, <1>7, <1>8, <1>9, <1>11, <2>2, <2>4 DEF Stepped
<1>12. ASSUME Die \/ Return
       PROVE  pc' # "header_asserts"
  BY <1>12 DEF Die, Return, Ctl
<1> QED
  BY <1>10, <1>11, <1>12 DEF Conclude

LEMMA ReadLinesSteps == IInv /\ Kept /\ ReadLines => Stepped /\ (held' # <<>> => eof')
<1> SUFFICES ASSUME IInv, Kept, ReadLines PROVE Stepped /\ (held' # <<>> => eof')
  OBVIOUS
<1>1. PICK k \in 0..Len(inbox) :
          LET long == k > 0 /\ inbox[k].part = "long"
              got  == SubSeq(inbox, 1, IF long THEN k - 1 ELSE k)
          IN  /\ inbox' = SubSeq(inbox, k + 1, Len(inbox))
              /\ held' = IF long THEN <<inbox[k]>> ELSE <<>>
              /\ eof' = long
              /\ Decide(Received(queue, got))
  BY Zenon DEF ReadLines
<1> DEFINE long == k > 0 /\ inbox[k].part = "long"
           m == IF long THEN k - 1 ELSE k
           got == SubSeq(inbox, 1, m)
<1>2. /\ pc = "poll" /\ script' = script /\ log' = log
      /\ script \in Seq(Lines) /\ inbox \in Seq(Lines) /\ Len(inbox) \in Nat
      /\ held = <<>> /\ TypeOK
  BY LenProperties DEF ReadLines, IInv, TypeOK, Kept, client
<1>3. m \in 0..Len(inbox) /\ k \in 0..Len(inbox)
  BY <1>2
<1>4. got \in Seq(Lines) /\ inbox' \in Seq(Lines) /\ SubSeq(inbox, 1, k) \o inbox' = inbox
  <2> HIDE DEF m
  <2> QED
    BY <1>1, <1>2, <1>3, CutInTwo
<1>5. held' \in Seq(Lines) /\ got \o (held' \o inbox') = inbox
  <2>1. CASE long
    <3>1. k \in 1..Len(inbox) /\ inbox[k] \in Lines
      BY <1>2, <2>1, ElementOfSeq
    <3>2. held' = <<inbox[k]>> /\ got = SubSeq(inbox, 1, k - 1)
      BY <1>1, <2>1
    <3> HIDE DEF got
    <3>3. SubSeq(inbox, 1, k - 1) \o (<<inbox[k]>> \o SubSeq(inbox, k + 1, Len(inbox)))
          = inbox
      BY <1>2, <3>1, CutAround
    <3>4. inbox' = SubSeq(inbox, k + 1, Len(inbox))
      BY <1>1
    <3>5. <<inbox[k]>> \in Seq(Lines)
      BY <3>1
    <3> QED
      BY <3>2, <3>3, <3>4, <3>5
  <2>2. CASE ~long
    <3>1. held' = <<>> /\ got = SubSeq(inbox, 1, k)
      BY <1>1, <2>2
    <3> HIDE DEF got
    <3>2. held' \o inbox' = inbox'
      BY <1>4, <3>1, ConcatEmptySeq
    <3> QED
      BY <1>4, <3>1, <3>2, EmptySeq
  <2> QED
    BY <2>1, <2>2
<1>6. eof' = long /\ Decide(Received(queue, got)) /\ (held' # <<>> => long)
  BY <1>1
<1> HIDE DEF got, long
<1>7. Coming = got \o Coming' /\ Coming' \in Seq(Lines)
  <2>1. Coming = inbox \o script
    <3>1. inbox \o script \in Seq(Lines)
      BY <1>2, ConcatProperties
    <3> QED
      BY <1>2, <3>1, ConcatEmptySeq DEF Coming
  <2>2. /\ (got \o (held' \o inbox')) \o script = got \o (held' \o (inbox' \o script))
        /\ held' \o (inbox' \o script) \in Seq(Lines)
    BY <1>2, <1>4, <1>5, FourParts
  <2>3. Coming' = held' \o (inbox' \o script)
    BY <1>2 DEF Coming
  <2> QED
    BY <1>5, <2>1, <2>2, <2>3
<1>8. Stepped
  BY <1>2, <1>4, <1>6, <1>7, ReadSteps
<1> QED
  BY <1>6, <1>8

LEMMA ReadEofSteps == IInv /\ Kept /\ ReadEof => Stepped /\ (held' # <<>> => eof')
<1> SUFFICES ASSUME IInv, Kept, ReadEof PROVE Stepped /\ (held' # <<>> => eof')
  OBVIOUS
<1>1. /\ pc = "poll" /\ script' = script /\ log' = log
      /\ script \in Seq(Lines) /\ inbox \in Seq(Lines) /\ held \in Seq(Lines)
      /\ held' = <<>> /\ TypeOK /\ (~eof => held = <<>>)
  BY DEF ReadEof, IInv, TypeOK, Kept, client
<1>2. inbox \o script \in Seq(Lines)
  BY <1>1, ConcatProperties
<1>3. CASE inbox' = inbox /\ Decide(Received(queue, held))
  <2>1. Coming = held \o (inbox \o script) /\ Coming' = inbox \o script
    BY <1>1, <1>2, <1>3, ConcatEmptySeq DEF Coming
  <2> QED
    BY <1>1, <1>2, <1>3, <2>1, ReadSteps
<1>4. CASE inbox' = <<>> /\ held = <<>> /\ Decide(Received(queue, inbox))
  <2>1. Coming = inbox \o script /\ Coming' = script
    BY <1>1, <1>2, <1>4, ConcatEmptySeq DEF Coming
  <2> QED
    BY <1>1, <1>4, <2>1, ReadSteps
<1> QED
  BY <1>1, <1>3, <1>4 DEF ReadEof

LEMMA WriteTickSteps == IInv /\ Kept /\ WriteTick => Stepped
<1> SUFFICES ASSUME IInv, Kept, WriteTick PROVE Stepped
  OBVIOUS
<1> DEFINE o == R!Tick(resp, room)
           sent == wire \o o.sent
<1>1. /\ pc \in {"write", "again"}
      /\ ~R!AssertFails(resp) /\ ~R!EntityFails(resp, room)
      /\ UNCHANGED <<client, reading>>
      /\ \/ /\ resp' = o.resp
            /\ Ctl("WRITING")
            /\ UNCHANGED <<queue, current, log>>
         \/ /\ resp' = o.resp
            /\ pc' = "again"
            /\ UNCHANGED <<queue, current, log>>
         \/ /\ o.resp.done
            /\ Conclude(o.resp, sent)
  BY Zenon DEF WriteTick
<1>2. /\ TypeOK /\ Up /\ resp # NoResponse /\ RP!Whole(resp, wire)
      /\ room \in Nat /\ Coming' = Coming
  <2>1. TypeOK /\ Up /\ resp # NoResponse /\ RP!Whole(resp, wire)
    BY <1>1 DEF IInv, TypeOK, IsWhole, Up
  <2>2. room \in Nat
    BY DEF IInv, TypeOK, room
  <2>3. Coming' = Coming
    BY <1>1 DEF Coming, client, reading
  <2> QED
    BY <2>1, <2>2, <2>3
<1>3. RP!Whole(o.resp, sent)
  BY <1>1, <1>2, TickedResponse, Zenon
<1>4. o.resp # NoResponse
  BY <1>3, WholeResponse
<1> HIDE DEF o, sent
<1>5. CASE resp' = o.resp /\ pc' \in {"poll", "again"} /\ UNCHANGED <<queue, current, log>>
  <2>1. Active = TRUE /\ Active' = TRUE
    BY <1>2, <1>4, <1>5 DEF Active
  <2> QED
    BY <1>2, <1>5, <2>1, Stays
<1>6. CASE o.resp.done /\ Conclude(o.resp, sent)
  BY <1>1, <1>2, <1>3, <1>6, ConcludeSteps
<1> QED
  BY <1>1, <1>5, <1>6 DEF Ctl

(* The other steps *)
LEMMA OtherSteps ==
    ASSUME IInv, Kept,
           WriteBegins \/ WriteThrows \/ WriteAsserts \/ Reconsider
              \/ ClientSends \/ ClientShuts \/ ClientResets
    PROVE  Stepped /\ (held' # <<>> => eof')
<1>1. /\ TypeOK /\ Up
      /\ queue' = queue /\ log' = log /\ current' = current /\ resp' = resp
      /\ held' = held /\ eof' = eof
      /\ pc # "header_asserts" /\ pc' # "header_asserts"
  BY DEF IInv, Up, WriteBegins, WriteThrows, WriteAsserts, Reconsider, ClientSends,
         ClientShuts, ClientResets, reading, answering, Die
<1>2. Active' = Active
  BY <1>1 DEF Active
<1>3. Coming' = Coming
  <2>1. CASE ClientSends
    <3>1. /\ script # <<>> /\ inbox' = Append(inbox, Head(script))
          /\ script' = Tail(script) /\ script \in Seq(Lines) /\ inbox \in Seq(Lines)
      BY <1>1, <2>1 DEF ClientSends, TypeOK
    <3>2. inbox' \o script' = inbox \o script
      BY <3>1, MoveOne
    <3> QED
      BY <1>1, <3>2 DEF Coming
  <2>2. CASE inbox' = inbox /\ script' = script
    BY <1>1, <2>2 DEF Coming
  <2> QED
    BY <2>1, <2>2 DEF WriteBegins, WriteThrows, WriteAsserts, Reconsider, ClientShuts,
                      ClientResets, client, reading
<1>4. Stepped
  BY <1>1, <1>2, <1>3, Stays
<1> QED
  BY <1>1, <1>4 DEF Kept

LEMMA KeptInit == Init => Kept /\ P!Init
<1> SUFFICES ASSUME Init PROVE Kept /\ P!Init
  OBVIOUS
<1>1. /\ script \in Scripts /\ inbox = <<>> /\ held = <<>> /\ queue = <<>> /\ log = <<>>
      /\ resp = NoResponse /\ pc = "poll"
  BY DEF Init
<1>2. /\ script \in Seq(Lines) /\ DOMAIN script = 1..Len(script)
      /\ \A i, j \in 1..Len(script) : i < j => script[i].id < script[j].id
  <2>1. /\ script \in Seq(Lines)
        /\ \A i, j \in DOMAIN script : i < j => script[i].id < script[j].id
    BY <1>1, ScriptAssumption
  <2> QED
    BY <2>1, LenProperties
<1>3. Coming = script
  BY <1>1, <1>2, ConcatEmptySeq DEF Coming
<1>4. /\ <<>> \in Seq(Endings) /\ <<>> \in Seq(Requests) /\ <<>> \in Seq(Nat)
      /\ Len(<<>>) = 0
  BY EmptySeq
<1>5. Begun = <<>>
  <2>1. Active = FALSE
    BY <1>1 DEF Active
  <2>2. Begun \in Seq(Nat) /\ Len(Begun) = 0
    <3>1. Begun = BegunOf(<<>>, FALSE, 0)
      BY <1>1, <2>1, BegunIs DEF BegunOf
    <3> QED
      BY <1>4, <3>1, BegunOfType
  <2> QED
    BY <2>2, EmptySeq
<1>6. CompleteIds = <<>>
  <2>1. CompleteIds = Ids(<<>>)
    BY <1>1, BegunIs
  <2>2. CompleteOnes(<<>>) = 0
    BY <1>4 DEF CompleteOnes
  <2>3. Ids(<<>>) \in Seq(Nat) /\ Len(Ids(<<>>)) = 0
    BY <1>4, <2>2, IdsType
  <2> QED
    BY <2>1, <2>3, EmptySeq
<1>7. Kept
  <2>1. 1..0 = {}
    OBVIOUS
  <2>2. InLine(<<>>, <<>>, script)
    BY <1>2, <1>4, <2>1 DEF InLine, Orderly, InOrder, AllBefore
  <2> QED
    BY <1>1, <1>3, <1>5, <2>2 DEF Kept
<1>8. P!Init
  <2>1. Begun \o CompleteIds = <<>>
    BY <1>4, <1>5, <1>6, ConcatEmptySeq
  <2> QED
    BY <1>1, <1>4, <1>5, <2>1 DEF P!Init, Up
<1> QED
  BY <1>7, <1>8

LEMMA KeptNext == IInv /\ Kept /\ [Next]_vars => Kept' /\ [P!Next]_(P!vars)
<1> SUFFICES ASSUME IInv, Kept, [Next]_vars PROVE Kept' /\ [P!Next]_(P!vars)
  OBVIOUS
<1>1. TypeOK /\ TypeOK'
  BY InvNext DEF IInv
<1>2. CASE ClientReads \/ UNCHANGED vars
  <2>1. /\ script' = script /\ inbox' = inbox /\ held' = held /\ eof' = eof
        /\ queue' = queue /\ log' = log /\ current' = current /\ resp' = resp
        /\ pc' = pc
    BY <1>2 DEF ClientReads, vars, client, reading, answering
  <2>2. Active' = Active /\ Coming' = Coming /\ Up' = Up
    BY <2>1 DEF Active, Coming, Up
  <2>3. Begun' = Begun /\ CompleteIds' = CompleteIds
    BY <2>1, <2>2, BegunIs, Zenon
  <2>4. UNCHANGED P!vars
    BY <2>1, <2>2, <2>3 DEF P!vars
  <2> QED
    BY <2>1, <2>2, <2>3, <2>4 DEF Kept
<1>3. CASE Stepped /\ (held' # <<>> => eof')
  BY <1>1, <1>3, SteppedIsNext DEF Kept
<1>4. CASE ReadLines
  BY <1>3, <1>4, ReadLinesSteps
<1>5. CASE ReadEof
  BY <1>3, <1>5, ReadEofSteps
<1>6. CASE WriteTick
  <2>1. held' # <<>> => eof'
    BY <1>6 DEF WriteTick, reading, Kept
  <2> QED
    BY <1>3, <1>6, <2>1, WriteTickSteps
<1>7. CASE WriteBegins \/ WriteThrows \/ WriteAsserts \/ Reconsider
              \/ ClientSends \/ ClientShuts \/ ClientResets
  BY <1>3, <1>7, OtherSteps
<1> QED
  BY <1>2, <1>4, <1>5, <1>6, <1>7 DEF Next, Read, Write

(***************************************************************************)
(* Requests are answered in the order they came, each once and one at a    *)
(* time, however reads, pipelining and partial writes interleave: every    *)
(* behaviour of the session is one of the Pipeline.                        *)
(***************************************************************************)
THEOREM PipelineIsImplemented == Spec => ImplementsPipeline
  BY InvInit, InvNext, KeptInit, KeptNext, PTL DEF Spec, ImplementsPipeline, P!Spec
=============================================================================
