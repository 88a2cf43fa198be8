-------------------------- MODULE Response_proofs ---------------------------
(***************************************************************************)
(* Proofs about Response: for every size of the headers, every entity, all *)
(* chunk sizes and whatever the socket accepts.                            *)
(*                                                                         *)
(* The argument: each of the four things a tick() may do leaves the octets *)
(* sent, followed by the new backlog, equal to the old backlog followed by *)
(* what was produced meanwhile (Conserves).                                *)
(***************************************************************************)
EXTENDS Response, DataLemmas

USE HeaderAssumption, ChunkAssumption, SendAssumption, RoomAssumption

-----------------------------------------------------------------------------
(* Octets(i, j): a sequence, and adjacent ones fit together. *)
LEMMA OctetsType ==
    ASSUME NEW i \in Nat, NEW j \in Nat, i <= j
    PROVE  /\ Octets(i, j) \in Seq(Nat)
           /\ Len(Octets(i, j)) = j - i
           /\ \A k \in 1..(j - i) : Octets(i, j)[k] = i + k
<1>1. j - i \in Nat
  OBVIOUS
<1>2. Octets(i, j) \in [1..(j - i) -> Nat]
  BY DEF Octets
<1>3. Octets(i, j) \in Seq(Nat)
  BY <1>1, <1>2, SeqDef
<1>4. DOMAIN Octets(i, j) = 1..(j - i)
  BY DEF Octets
<1>5. Len(Octets(i, j)) = j - i
  BY <1>1, <1>3, <1>4, LenProperties
<1> QED
  BY <1>3, <1>5 DEF Octets

LEMMA OctetsAdjacent ==
    ASSUME NEW i \in Nat, NEW j \in Nat, NEW k \in Nat, i <= j, j <= k
    PROVE  Octets(i, j) \o Octets(j, k) = Octets(i, k)
<1> DEFINE x == Octets(i, j)
           y == Octets(j, k)
           z == Octets(i, k)
<1>1. /\ x \in Seq(Nat) /\ Len(x) = j - i
      /\ \A m \in 1..(j - i) : x[m] = i + m
  BY OctetsType
<1>2. /\ y \in Seq(Nat) /\ Len(y) = k - j
      /\ \A m \in 1..(k - j) : y[m] = j + m
  BY OctetsType
<1>3. /\ z \in Seq(Nat) /\ Len(z) = k - i
      /\ \A m \in 1..(k - i) : z[m] = i + m
  BY OctetsType
<1> HIDE DEF x, y, z
<1>4. /\ x \o y \in Seq(Nat)
      /\ Len(x \o y) = k - i
      /\ \A m \in 1..(k - i) :
            (x \o y)[m] = IF m <= j - i THEN x[m] ELSE y[m - (j - i)]
  <2>1. /\ x \o y \in Seq(Nat)
        /\ Len(x \o y) = Len(x) + Len(y)
        /\ \A m \in 1..(Len(x) + Len(y)) :
              (x \o y)[m] = IF m <= Len(x) THEN x[m] ELSE y[m - Len(x)]
    BY <1>1, <1>2, ConcatProperties
  <2> QED
    BY <2>1, <1>1, <1>2
<1>5. ASSUME NEW m \in 1..(k - i)
      PROVE  (x \o y)[m] = z[m]
  <2>1. z[m] = i + m
    BY <1>3
  <2>2. CASE m <= j - i
    <3>1. m \in 1..(j - i)
      BY <2>2
    <3>2. x[m] = i + m
      BY <3>1, <1>1
    <3> QED
      BY <2>1, <2>2, <3>2, <1>4
  <2>3. CASE ~(m <= j - i)
    <3>1. m - (j - i) \in 1..(k - j)
      BY <2>3
    <3>2. y[m - (j - i)] = i + m
      BY <3>1, <1>2
    <3> QED
      BY <2>1, <2>3, <3>2, <1>4
  <2> QED
    BY <2>2, <2>3
<1>6. Len(x \o y) = Len(z) /\ \A m \in 1..Len(x \o y) : (x \o y)[m] = z[m]
  BY <1>3, <1>4, <1>5
<1>7. x \o y = z
  BY <1>3, <1>4, <1>6, SeqEqual
<1> QED
  BY <1>7 DEF x, y, z

LEMMA FirstOctets ==
    ASSUME NEW n \in Nat
    PROVE  /\ Octets(0, n) \in Seq(Nat)
           /\ Len(Octets(0, n)) = n
           /\ \A k \in 1..n : Octets(0, n)[k] = k
<1>1. 0 \in Nat /\ 0 <= n /\ n - 0 = n
  OBVIOUS
<1>2. /\ Octets(0, n) \in Seq(Nat)
      /\ Len(Octets(0, n)) = n - 0
      /\ \A k \in 1..(n - 0) : Octets(0, n)[k] = 0 + k
  BY <1>1, OctetsType, Zenon
<1> QED
  BY <1>1, <1>2

(* A part of the octets from 1 on, at the beginning, is the first of them. *)
LEMMA OctetsPrefix ==
    ASSUME NEW s \in Seq(Nat), NEW t \in Seq(Nat), NEW n \in Nat,
           s \o t = Octets(0, n)
    PROVE  Len(s) <= n /\ s = Octets(0, Len(s))
<1> DEFINE o == Octets(0, n)
           p == Octets(0, Len(s))
<1>1. /\ Len(s) \in Nat /\ Len(t) \in Nat
      /\ Len(s \o t) = Len(s) + Len(t)
      /\ \A i \in 1..(Len(s) + Len(t)) :
            (s \o t)[i] = IF i <= Len(s) THEN s[i] ELSE t[i - Len(s)]
  BY LenProperties, ConcatProperties
<1>2. Len(o) = n /\ \A i \in 1..n : o[i] = i
  BY FirstOctets
<1>3. /\ p \in Seq(Nat) /\ Len(p) = Len(s)
      /\ \A i \in 1..Len(s) : p[i] = i
  BY <1>1, FirstOctets
<1>4. s \o t = o
  OBVIOUS
<1> HIDE DEF o, p
<1>5. Len(s) <= n
  BY <1>1, <1>2, <1>4
<1>6. ASSUME NEW i \in 1..Len(s)
      PROVE  s[i] = p[i]
  <2>1. i \in 1..(Len(s) + Len(t)) /\ i \in 1..n
    BY <1>1, <1>5
  <2>2. (s \o t)[i] = s[i]
    BY <2>1, <1>1
  <2> QED
    BY <2>1, <2>2, <1>2, <1>3, <1>4
<1>7. Len(s) = Len(p)
  BY <1>1, <1>3
<1>8. s = p
  BY <1>3, <1>6, <1>7, SeqEqual
<1> QED
  BY <1>5, <1>8 DEF p

-----------------------------------------------------------------------------
(* The record type of a response, taken apart once. *)
LEMMA ResponseFields ==
    ASSUME NEW r, IsResponse(r)
    PROVE  /\ r.blob \in 0..Header /\ r.n \in Nat /\ r.v \in Seq(Nat)
           /\ r.done \in BOOLEAN
           /\ r.entity.kind \in Kinds
           /\ r.entity.size \in Nat /\ r.entity.real \in Nat
           /\ r.entity.chunked \in BOOLEAN
           /\ r.entity.real <= r.entity.size
           /\ r.n <= r.entity.real
           /\ r.entity.kind = "None" => r.entity.size = 0
           /\ r.entity.kind \in {"Text", "Page"} =>
                 r.entity.size > 0 /\ r.entity.real = r.entity.size
           /\ r.entity.chunked => r.entity.kind = "Page"
           /\ r.blob # 0 => r.blob = Header /\ r.n = 0
  BY DEF IsResponse, IsEntity, HeadersDone

(* What has been produced never exceeds the whole, and is all when done. *)
LEMMA ProducedBounds ==
    ASSUME NEW r, IsResponse(r)
    PROVE  /\ Produced(r) \in Nat /\ Total(r.entity) \in Nat
           /\ Produced(r) <= Total(r.entity)
           /\ HeadersDone(r) /\ BodyDone(r) => Produced(r) = Total(r.entity)
           /\ ~HeadersDone(r) => Produced(r) = 0
<1>a. /\ r.blob \in 0..Header /\ r.n \in Nat
      /\ r.entity.size \in Nat /\ r.n <= r.entity.size
      /\ r.entity.chunked => r.entity.size > 0
      /\ r.blob # 0 => r.blob = Header /\ r.n = 0
  BY ResponseFields
<1>1. CASE r.entity.chunked
  <2>1. /\ Produced(r) = (Header - r.blob)
                          + (4 * r.n + (IF r.n = r.entity.size THEN 1 ELSE 0))
        /\ Total(r.entity) = Header + (4 * r.entity.size + 1)
    BY <1>1 DEF Produced, Total, BodyWire
  <2>2. r.entity.size > 0
    BY <1>1, <1>a
  <2>3. CASE r.n = r.entity.size
    <3>1. Produced(r) = (Header - r.blob) + (4 * r.n + 1)
      BY <2>1, <2>3
    <3> QED
      BY <3>1, <2>1, <2>2, <2>3, <1>a DEF HeadersDone, BodyDone
  <2>4. CASE r.n # r.entity.size
    <3>1. Produced(r) = (Header - r.blob) + 4 * r.n
      BY <2>1, <2>4, <1>a
    <3>2. Produced(r) \in Nat /\ Total(r.entity) \in Nat
      BY <3>1, <2>1, <1>a
    <3>3. Produced(r) <= Total(r.entity)
      <4>1. \A h \in Nat, b \in Nat, m \in Nat, z \in Nat :
                b <= h /\ m <= z => (h - b) + 4 * m <= h + (4 * z + 1)
        OBVIOUS
      <4>2. r.blob <= Header /\ r.blob \in Nat /\ Header \in Nat
        BY <1>a, HeaderAssumption
      <4> QED
        BY <3>1, <2>1, <1>a, <4>1, <4>2
    <3>4. r.blob # 0 => Produced(r) = 0
      BY <3>1, <1>a
    <3> QED
      BY <3>2, <3>3, <3>4, <2>4 DEF HeadersDone, BodyDone
  <2> QED
    BY <2>3, <2>4
<1>2. CASE ~r.entity.chunked
  <2>1. /\ Produced(r) = (Header - r.blob) + r.n
        /\ Total(r.entity) = Header + r.entity.size
    BY <1>2 DEF Produced, Total, BodyWire
  <2> QED
    BY <1>a, <2>1 DEF HeadersDone, BodyDone
<1> QED
  BY <1>1, <1>2

(* Only progress in the headers and the entity matters to Produced. *)
LEMMA ProducedSame ==
    ASSUME NEW r, NEW q, q.entity = r.entity, q.blob = r.blob, q.n = r.n
    PROVE  /\ Produced(q) = Produced(r)
           /\ HeadersDone(q) = HeadersDone(r)
           /\ BodyDone(q) = BodyDone(r)
           /\ IsDone(q) = IsDone(r)
  BY DEF Produced, HeadersDone, BodyDone, IsDone

-----------------------------------------------------------------------------
(***************************************************************************)
(* Backlog::write() and salvage().                                         *)
(***************************************************************************)
(* One turn of salvage() and then the others, or all of it at once *)
LEMMA SalvageGoesOn ==
    ASSUME NEW a \in Seq(Nat), NEW b \in Seq(Nat), NEW n \in Nat
    PROVE  /\ Left(n, a) \in Nat /\ Salvaged(n, a) \in Seq(Nat)
           /\ Salvaged(n, a \o b) = Salvaged(n, a) \o Salvaged(Left(n, a), b)
<1> DEFINE la == Len(a)
           lb == Len(b)
           s == Salvaged(n, a \o b)
           x == Salvaged(n, a)
           y == Salvaged(Left(n, a), b)
<1>1. la \in Nat /\ lb \in Nat
  BY LenProperties
<1>2. /\ a \o b \in Seq(Nat) /\ Len(a \o b) = la + lb
      /\ \A i \in 1..(la + lb) : (a \o b)[i] = IF i <= la THEN a[i] ELSE b[i - la]
  BY ConcatProperties
<1>3. \A z \in Seq(Nat) : \A k \in Nat :
          /\ SubSeq(z, k + 1, Len(z)) \in Seq(Nat)
          /\ Len(SubSeq(z, k + 1, Len(z))) = IF k < Len(z) THEN Len(z) - k ELSE 0
          /\ \A i \in 1..(Len(z) - k) : SubSeq(z, k + 1, Len(z))[i] = z[k + i]
  <2> TAKE z \in Seq(Nat)
  <2> TAKE k \in Nat
  <2>1. Len(z) \in Nat /\ \A i \in 1..Len(z) : z[i] \in Nat
    BY LenProperties, ElementOfSeq
  <2>2. \A i \in (k + 1)..Len(z) : z[i] \in Nat
    BY <2>1
  <2> QED
    BY <2>1, <2>2, SubSeqProperties
<1>4. Left(n, a) \in Nat /\ Left(n, a) = IF la <= n THEN n - la ELSE 0
  BY <1>1 DEF Left
<1>5. /\ x \in Seq(Nat) /\ Len(x) = (IF n < la THEN la - n ELSE 0)
      /\ \A i \in 1..(la - n) : x[i] = a[n + i]
  BY <1>3 DEF Salvaged
<1> DEFINE m == Left(n, a)
<1>6. /\ y \in Seq(Nat) /\ Len(y) = (IF m < lb THEN lb - m ELSE 0)
      /\ \A i \in 1..(lb - m) : y[i] = b[m + i]
  BY <1>3, <1>4 DEF Salvaged
<1> DEFINE ab == a \o b
<1>7. /\ s \in Seq(Nat) /\ Len(s) = (IF n < la + lb THEN (la + lb) - n ELSE 0)
      /\ \A i \in 1..((la + lb) - n) : s[i] = ab[n + i]
  <2>1. s = Salvaged(n, ab) /\ ab \in Seq(Nat) /\ Len(ab) = la + lb
    BY <1>2
  <2> HIDE DEF ab, s
  <2> QED
    BY <1>3, <2>1 DEF Salvaged
<1>8. s = x \o y
  <2> HIDE DEF s, x, y, la, lb, m, ab
  <2>1. /\ x \o y \in Seq(Nat) /\ Len(x \o y) = Len(x) + Len(y)
        /\ \A i \in 1..(Len(x) + Len(y)) :
              (x \o y)[i] = IF i <= Len(x) THEN x[i] ELSE y[i - Len(x)]
    BY <1>5, <1>6, ConcatProperties
  <2>2. m \in Nat /\ m = IF la <= n THEN n - la ELSE 0
    BY <1>4 DEF m
  <2>3. Len(s) = Len(x) + Len(y)
    BY <1>1, <1>5, <1>6, <1>7, <2>2
  <2>4. ASSUME NEW i \in 1..Len(s) PROVE s[i] = (x \o y)[i]
    <3>1. i \in 1..((la + lb) - n) /\ n + i \in 1..(la + lb)
      BY <1>1, <1>7
    <3>2. s[i] = IF n + i <= la THEN a[n + i] ELSE b[(n + i) - la]
      BY <1>2, <1>7, <3>1 DEF la, lb, ab
    <3>3. CASE n < la
      <4>1. m = 0 /\ Len(x) = la - n
        BY <1>1, <1>5, <2>2, <3>3
      <4>2. CASE i <= la - n
        <5>1. i \in 1..(la - n) /\ i <= Len(x) /\ i \in 1..(Len(x) + Len(y)) /\ n + i <= la
          BY <1>1, <2>3, <3>1, <4>1, <4>2
        <5>2. (x \o y)[i] = x[i]
          BY <2>1, <5>1
        <5>3. x[i] = a[n + i]
          BY <1>5, <5>1
        <5> QED
          BY <3>2, <5>1, <5>2, <5>3
      <4>3. CASE i > la - n
        <5>1. i - (la - n) \in 1..(lb - m) /\ m + (i - (la - n)) = (n + i) - la
          BY <1>1, <3>1, <4>1, <4>3
        <5>2. (x \o y)[i] = y[i - (la - n)]
          BY <1>1, <2>1, <2>3, <4>1, <4>3
        <5>3. y[i - (la - n)] = b[m + (i - (la - n))]
          BY <1>6, <5>1
        <5>4. s[i] = b[(n + i) - la]
          BY <1>1, <3>1, <3>2, <4>3
        <5> QED
          BY <5>1, <5>2, <5>3, <5>4
      <4>4. i <= la - n \/ i > la - n
        BY <1>1, <3>1
      <4> QED
        BY <4>2, <4>3, <4>4
    <3>4. CASE ~(n < la)
      <4>1. m = n - la /\ Len(x) = 0
        BY <1>1, <1>5, <2>2, <3>4
      <4>2. i \in 1..(lb - m) /\ m + i = (n + i) - la
        BY <1>1, <3>1, <4>1
      <4>3. (x \o y)[i] = y[i]
        BY <2>1, <2>3, <4>1, <3>1
      <4>4. s[i] = b[(n + i) - la]
        BY <1>1, <3>1, <3>2, <3>4
      <4> QED
        BY <1>6, <4>2, <4>3, <4>4
    <3> QED
      BY <3>3, <3>4
  <2> QED
    BY <1>7, <2>1, <2>3, <2>4, SeqEqual
<1> QED
  BY <1>4, <1>5, <1>8

(* The blobs are what is new. *)
LEMMA BlobsAreNew ==
    ASSUME NEW r, IsResponse(r), NEW next, IsResponse(next),
           Produced(r) <= Produced(next)
    PROVE  /\ Blob1(r, next) \in Seq(Nat)
           /\ Blob2(r, next) \in Seq(Nat)
           /\ Blob3(r, next) \in Seq(Nat)
           /\ Blob1(r, next) \o (Blob2(r, next) \o Blob3(r, next))
                 = Octets(Produced(r), Produced(next))
<1> DEFINE p == Produced(r)
           q == Produced(next)
           c1 == Cut(r, next, 2)
           c2 == Cut(r, next, 3)
<1>1. p \in Nat /\ q \in Nat
  BY ProducedBounds
<1>2. c1 \in Nat /\ c2 \in Nat /\ p <= c1 /\ c1 <= c2 /\ c2 <= q
  BY <1>1 DEF Cut, Lesser
<1> HIDE DEF p, q, c1, c2
<1>3. /\ Octets(p, c1) \in Seq(Nat)
      /\ Octets(c1, c2) \in Seq(Nat)
      /\ Octets(c2, q) \in Seq(Nat)
  BY <1>1, <1>2, OctetsType
<1>4. Octets(c1, c2) \o Octets(c2, q) = Octets(c1, q)
  BY <1>1, <1>2, OctetsAdjacent
<1>5. c1 <= q
  BY <1>1, <1>2
<1>6. Octets(p, c1) \o Octets(c1, q) = Octets(p, q)
  BY <1>1, <1>2, <1>5, OctetsAdjacent
<1> QED
  BY <1>3, <1>4, <1>6 DEF Blob1, Blob2, Blob3, p, q, c1, c2

(* The loop keeps exactly what was not written. *)
LEMMA WriteSalvages ==
    ASSUME NEW r, IsResponse(r), NEW next, IsResponse(next),
           Produced(r) <= Produced(next), NEW room \in Nat
    PROVE  LET all == r.v \o Octets(Produced(r), Produced(next))
               acc == Lesser(room, Len(all))
           IN  Write(r, next, room) =
                 [resp |-> [next EXCEPT !.v = SubSeq(all, acc + 1, Len(all))],
                  sent |-> SubSeq(all, 1, acc)]
<1> DEFINE b1 == Blob1(r, next)
           b2 == Blob2(r, next)
           b3 == Blob3(r, next)
           new == Octets(Produced(r), Produced(next))
           all == r.v \o new
           acc == Lesser(room, Len(all))
           n1 == Left(acc, r.v)
           n2 == Left(n1, b1)
           n3 == Left(n2, b2)
<1>1. r.v \in Seq(Nat)
  BY ResponseFields
<1>2. b1 \in Seq(Nat) /\ b2 \in Seq(Nat) /\ b3 \in Seq(Nat) /\ b1 \o (b2 \o b3) = new
  BY BlobsAreNew
<1>3. Len(all) = Len(r.v) + Len(new)
  <2>1. new \in Seq(Nat)
    BY OctetsType, ProducedBounds
  <2> HIDE DEF new
  <2> QED
    BY <1>1, <2>1, ConcatProperties
<1>4. Write(r, next, room) =
        [resp |-> [next EXCEPT !.v = Salvaged(acc, r.v) \o Salvaged(n1, b1)
                                        \o Salvaged(n2, b2) \o Salvaged(n3, b3)],
         sent |-> SubSeq(all, 1, acc)]
  BY <1>3 DEF Write
<1> HIDE DEF new, b1, b2, b3
<1>5. acc \in Nat
  <2>1. Len(all) \in Nat
    <3>1. new \in Seq(Nat)
      BY <1>2, ConcatProperties
    <3> QED
      BY <1>1, <3>1, ConcatProperties, LenProperties
  <2> HIDE DEF all
  <2> QED
    BY <2>1 DEF Lesser
<1> HIDE DEF acc, n1, n2, n3
<1>6. b2 \o b3 \in Seq(Nat) /\ b1 \o (b2 \o b3) \in Seq(Nat)
  BY <1>2, ConcatProperties
<1>7. /\ n1 \in Nat /\ Salvaged(acc, r.v) \in Seq(Nat)
      /\ Salvaged(acc, r.v \o (b1 \o (b2 \o b3)))
            = Salvaged(acc, r.v) \o Salvaged(n1, b1 \o (b2 \o b3))
  BY <1>1, <1>5, <1>6, SalvageGoesOn DEF n1
<1>8. /\ n2 \in Nat /\ Salvaged(n1, b1) \in Seq(Nat)
      /\ Salvaged(n1, b1 \o (b2 \o b3)) = Salvaged(n1, b1) \o Salvaged(n2, b2 \o b3)
  BY <1>2, <1>6, <1>7, SalvageGoesOn DEF n2
<1>9. /\ n3 \in Nat /\ Salvaged(n2, b2) \in Seq(Nat)
      /\ Salvaged(n2, b2 \o b3) = Salvaged(n2, b2) \o Salvaged(n3, b3)
  BY <1>2, <1>8, SalvageGoesOn DEF n3
<1>10. Salvaged(n3, b3) \in Seq(Nat)
  BY <1>2, <1>9, SalvageGoesOn
<1>12. Salvaged(acc, all) = Salvaged(acc, r.v) \o Salvaged(n1, b1)
                             \o Salvaged(n2, b2) \o Salvaged(n3, b3)
  <2>1. all = r.v \o (b1 \o (b2 \o b3))
    BY <1>2 DEF all
  <2> HIDE DEF all
  <2>2. Salvaged(acc, all) = Salvaged(acc, r.v) \o (Salvaged(n1, b1)
                                \o (Salvaged(n2, b2) \o Salvaged(n3, b3)))
    BY <1>7, <1>8, <1>9, <2>1
  <2> DEFINE k0 == Salvaged(acc, r.v)
             k1 == Salvaged(n1, b1)
             k2 == Salvaged(n2, b2)
             k3 == Salvaged(n3, b3)
  <2>3. k0 \in Seq(Nat) /\ k1 \in Seq(Nat) /\ k2 \in Seq(Nat) /\ k3 \in Seq(Nat)
    BY <1>7, <1>8, <1>9, <1>10
  <2>4. Salvaged(acc, all) = k0 \o (k1 \o (k2 \o k3))
    BY <2>2
  <2> DEFINE Join(x, y) == x \o y
  <2> HIDE DEF k0, k1, k2, k3
  <2>5. \A x, y, z \in Seq(Nat) : Join(Join(x, y), z) = Join(x, Join(y, z))
    BY ONLY ConcatAssociative, SMTT(20)
  <2>6. Join(k0, k1) \in Seq(Nat) /\ Join(k2, k3) \in Seq(Nat)
    BY <2>3, ConcatProperties
  <2> HIDE DEF Join
  <2>7. Join(k0, Join(k1, Join(k2, k3))) = Join(Join(Join(k0, k1), k2), k3)
    BY <2>3, <2>5, <2>6
  <2>8. k0 \o (k1 \o (k2 \o k3)) = ((k0 \o k1) \o k2) \o k3
    BY <2>7 DEF Join
  <2> QED
    BY <2>4, <2>8 DEF k0, k1, k2, k3
<1>13. Salvaged(acc, all) = SubSeq(all, acc + 1, Len(all))
  BY DEF Salvaged
<1> QED
  BY <1>4, <1>12, <1>13 DEF acc, all, new

(* What is accepted and what is kept are the backlog and what is new. *)
LEMMA WriteConserves ==
    ASSUME NEW r, IsResponse(r), NEW next, IsResponse(next),
           next.entity = r.entity, Produced(r) <= Produced(next),
           NEW room \in Nat
    PROVE  LET w == Write(r, next, room) IN
           /\ IsResponse(w.resp)
           /\ w.resp.entity = r.entity
           /\ w.resp.blob = next.blob /\ w.resp.n = next.n
           /\ w.sent \in Seq(Nat) /\ Len(w.sent) <= room
           /\ w.sent \o w.resp.v = r.v \o Octets(Produced(r), Produced(next))
<1> DEFINE w == Write(r, next, room)
           all == r.v \o Octets(Produced(r), Produced(next))
           acc == Lesser(room, Len(all))
           rest == SubSeq(all, acc + 1, Len(all))
<1>1. Octets(Produced(r), Produced(next)) \in Seq(Nat)
  BY OctetsType, ProducedBounds
<1>2. all \in Seq(Nat) /\ Len(all) \in Nat
  BY <1>1, ResponseFields, ConcatProperties, LenProperties
<1>3. w.resp = [next EXCEPT !.v = rest] /\ w.sent = SubSeq(all, 1, acc)
  <2>1. w = [resp |-> [next EXCEPT !.v = rest], sent |-> SubSeq(all, 1, acc)]
    BY WriteSalvages
  <2> HIDE DEF w, rest, acc, all
  <2> QED
    BY <2>1
<1> HIDE DEF w
<1> HIDE DEF all
<1>4. acc \in 0..Len(all) /\ acc <= room
  BY <1>2 DEF Lesser
<1> HIDE DEF acc
<1>5. /\ rest \in Seq(Nat) /\ SubSeq(all, 1, acc) \in Seq(Nat)
      /\ Len(SubSeq(all, 1, acc)) = acc
      /\ SubSeq(all, 1, acc) \o rest = all
  BY <1>2, <1>4, CutInTwo
<1> HIDE DEF rest
<1>6. /\ IsResponse(w.resp) /\ w.resp.v = rest
      /\ w.resp.entity = next.entity
      /\ w.resp.blob = next.blob /\ w.resp.n = next.n
  <2>1. next \in [entity : [kind : Kinds, size : Nat, real : Nat, chunked : BOOLEAN],
                  blob : 0..Header, n : Nat, v : Seq(Nat), done : BOOLEAN]
    BY DEF IsResponse
  <2>2. /\ w.resp \in [entity : [kind : Kinds, size : Nat, real : Nat, chunked : BOOLEAN],
                        blob : 0..Header, n : Nat, v : Seq(Nat), done : BOOLEAN]
        /\ w.resp.v = rest
        /\ w.resp.entity = next.entity
        /\ w.resp.blob = next.blob /\ w.resp.n = next.n
    BY <2>1, <1>3, <1>5
  <2> QED
    BY <2>2 DEF IsResponse, HeadersDone
<1>7. w.sent \o w.resp.v = all
  BY <1>3, <1>5, <1>6
<1>8. w.sent \in Seq(Nat) /\ Len(w.sent) <= room
  BY <1>3, <1>4, <1>5
<1> QED
  BY <1>6, <1>7, <1>8 DEF all, w

-----------------------------------------------------------------------------
(***************************************************************************)
(* What every tick() guarantees: o.sent followed by the backlog it leaves  *)
(* is the backlog it found followed by what it produced, and fits in the   *)
(* socket.                                                                 *)
(***************************************************************************)
Conserves(r, room, o) ==
    /\ IsResponse(o.resp)
    /\ o.ret \in BOOLEAN
    /\ o.sent \in Seq(Nat) /\ Len(o.sent) <= room
    /\ o.resp.entity = r.entity
    /\ HeadersDone(o.resp)
    /\ Produced(r) <= Produced(o.resp)
    /\ o.sent \o o.resp.v = r.v \o Octets(Produced(r), Produced(o.resp))

(* Backlog::write() with what is new, and a filter's or the drain's result. *)
LEMMA FilteredConserves ==
    ASSUME NEW r, IsResponse(r), NEW next, IsResponse(next),
           next.entity = r.entity, Produced(r) <= Produced(next),
           HeadersDone(next), NEW room \in Nat
    PROVE  Conserves(r, room, Filtered(Write(r, next, room)))
<1> DEFINE w == Write(r, next, room)
           o == Filtered(w)
<1>1. /\ IsResponse(w.resp)
      /\ w.resp.entity = r.entity
      /\ w.resp.blob = next.blob /\ w.resp.n = next.n
      /\ w.sent \in Seq(Nat) /\ Len(w.sent) <= room
      /\ w.sent \o w.resp.v = r.v \o Octets(Produced(r), Produced(next))
  BY WriteConserves
<1> HIDE DEF w
<1>2. o.resp = w.resp /\ o.sent = w.sent /\ o.ret \in BOOLEAN
  BY DEF Filtered
<1>3. /\ Produced(w.resp) = Produced(next)
      /\ HeadersDone(w.resp) = HeadersDone(next)
  BY <1>1, ProducedSame
<1> HIDE DEF o
<1>4. Conserves(r, room, o)
  BY <1>1, <1>2, <1>3 DEF Conserves
<1> QED
  BY <1>4 DEF o, w

LEMMA DrainConserves ==
    ASSUME NEW r, IsResponse(r), HeadersDone(r), NEW room \in Nat
    PROVE  Conserves(r, room, DrainTick(r, room))
<1> DEFINE w == Write(r, r, room)
           o == DrainTick(r, room)
<1>0. Produced(r) \in Nat
  BY ProducedBounds
<1>1. /\ IsResponse(w.resp)
      /\ w.resp.entity = r.entity
      /\ w.resp.blob = r.blob /\ w.resp.n = r.n
      /\ w.sent \in Seq(Nat) /\ Len(w.sent) <= room
      /\ w.sent \o w.resp.v = r.v \o Octets(Produced(r), Produced(r))
  <2>1. Produced(r) <= Produced(r) /\ r.entity = r.entity
    BY <1>0
  <2> QED
    BY <2>1, WriteConserves, Zenon
<1> HIDE DEF w
<1>2. o.resp = w.resp /\ o.sent = w.sent /\ o.ret \in BOOLEAN
  BY DEF DrainTick, w
<1>3. /\ Produced(w.resp) = Produced(r)
      /\ HeadersDone(w.resp) = HeadersDone(r)
  BY <1>1, ProducedSame
<1> HIDE DEF o
<1>4. o.sent \o o.resp.v = r.v \o Octets(Produced(r), Produced(o.resp))
  BY <1>1, <1>2, <1>3
<1>5. /\ IsResponse(o.resp) /\ o.resp.entity = r.entity
      /\ HeadersDone(o.resp) /\ o.sent \in Seq(Nat) /\ Len(o.sent) <= room
  BY <1>1, <1>2, <1>3
<1>6. Produced(r) <= Produced(o.resp)
  BY <1>0, <1>2, <1>3
<1>7. Conserves(r, room, o)
  BY <1>2, <1>4, <1>5, <1>6 DEF Conserves
<1> QED
  BY <1>7 DEF o

LEMMA HeadersConserve ==
    ASSUME NEW r, IsResponse(r), ~HeadersDone(r), NEW room \in Nat
    PROVE  Conserves(r, room, HeadersTick(r, room))
<1> DEFINE next == [r EXCEPT !.blob = @ - Lesser(MaxChunk, @)]
<1>1. r.blob = Header /\ Lesser(MaxChunk, r.blob) = Header
  BY ResponseFields DEF HeadersDone, Lesser
<1>2. r \in [entity : [kind : Kinds, size : Nat, real : Nat, chunked : BOOLEAN],
             blob : 0..Header, n : Nat, v : Seq(Nat), done : BOOLEAN]
  BY DEF IsResponse
<1>3. next = [r EXCEPT !.blob = 0] /\ 0 \in 0..Header
  BY <1>1
<1> HIDE DEF next
<1>4. /\ next \in [entity : [kind : Kinds, size : Nat, real : Nat, chunked : BOOLEAN],
                   blob : 0..Header, n : Nat, v : Seq(Nat), done : BOOLEAN]
      /\ next.blob = 0 /\ next.n = r.n /\ next.entity = r.entity
  BY <1>2, <1>3
<1>5. IsResponse(next) /\ HeadersDone(next)
  BY <1>4 DEF IsResponse, HeadersDone
<1>6. Produced(r) <= Produced(next)
  BY <1>5, ProducedBounds
<1>7. Conserves(r, room, Filtered(Write(r, next, room)))
  BY <1>4, <1>5, <1>6, FilteredConserves
<1> QED
  BY <1>7 DEF next, HeadersTick

(* Progress of the entity by len, within what is really there. *)
LEMMA Progress ==
    ASSUME NEW r, IsResponse(r), HeadersDone(r), ~BodyDone(r),
           NEW len \in Nat, r.n + len <= r.entity.real,
           NEW next, next = [r EXCEPT !.n = @ + len]
    PROVE  /\ IsResponse(next)
           /\ next.entity = r.entity /\ next.v = r.v
           /\ next.blob = r.blob /\ next.n = r.n + len
           /\ HeadersDone(next)
           /\ Produced(r) <= Produced(next)
<1>1. r \in [entity : [kind : Kinds, size : Nat, real : Nat, chunked : BOOLEAN],
             blob : 0..Header, n : Nat, v : Seq(Nat), done : BOOLEAN]
  BY DEF IsResponse
<1>2. /\ next \in [entity : [kind : Kinds, size : Nat, real : Nat, chunked : BOOLEAN],
                   blob : 0..Header, n : Nat, v : Seq(Nat), done : BOOLEAN]
      /\ next.blob = r.blob /\ next.n = r.n + len
      /\ next.entity = r.entity /\ next.v = r.v
  BY <1>1, SMTT(30)
<1>3. IsResponse(next) /\ HeadersDone(next)
  BY <1>2 DEF IsResponse, HeadersDone
<1>4. /\ r.n \in Nat /\ r.entity.size \in Nat /\ r.n # r.entity.size
      /\ r.blob = 0
  BY ResponseFields DEF BodyDone, HeadersDone
<1>5. CASE r.entity.chunked
  <2>1. Produced(r) = Header + 4 * r.n
    BY <1>4, <1>5 DEF Produced, BodyWire
  <2>2. \/ Produced(next) = Header + 4 * (r.n + len)
        \/ Produced(next) = Header + (4 * (r.n + len) + 1)
    <3>1. Produced(next) = (Header - 0) + BodyWire(r.entity, r.n + len)
      BY <1>2, <1>4, Zenon DEF Produced
    <3>2. BodyWire(r.entity, r.n + len)
            = 4 * (r.n + len) + (IF r.n + len = r.entity.size THEN 1 ELSE 0)
      BY <1>5, Zenon DEF BodyWire
    <3> DEFINE m == r.n + len
    <3>3. m \in Nat
      BY <1>4
    <3>4. CASE m = r.entity.size
      <4>1. BodyWire(r.entity, m) = 4 * m + 1
        BY <3>2, <3>4, Zenon
      <4> HIDE DEF m
      <4>2. Produced(next) = (Header - 0) + (4 * m + 1)
        BY <3>1, <4>1, Zenon DEF m
      <4> QED
        BY <3>3, <4>2 DEF m
    <3>5. CASE m # r.entity.size
      <4>1. BodyWire(r.entity, m) = 4 * m + 0
        BY <3>2, <3>5, Zenon
      <4> HIDE DEF m
      <4>2. Produced(next) = (Header - 0) + (4 * m + 0)
        BY <3>1, <4>1, Zenon DEF m
      <4> QED
        BY <3>3, <4>2 DEF m
    <3> QED
      BY <3>4, <3>5, Zenon
  <2>3. Produced(r) <= Produced(next)
    BY <2>1, <2>2, <1>4
  <2> QED
    BY <2>3, <1>2, <1>3
<1>6. CASE ~r.entity.chunked
  <2>1. Produced(r) = Header + r.n /\ Produced(next) = Header + (r.n + len)
    <3>1. /\ Produced(r) = (Header - 0) + r.n
          /\ Produced(next) = (Header - 0) + (r.n + len)
      BY <1>2, <1>4, <1>6, Zenon DEF Produced, BodyWire
    <3> QED
      BY <3>1, <1>4
  <2>2. Produced(r) <= Produced(next)
    BY <2>1, <1>4
  <2> QED
    BY <2>2, <1>2, <1>3
<1> QED
  BY <1>5, <1>6

LEMMA BodyConserves ==
    ASSUME NEW r, IsResponse(r), InBody(r), ~IsDone(r),
           r.entity.kind # "Image", NEW room \in Nat, ~EntityFails(r, room)
    PROVE  Conserves(r, room, BodyTick(r, room))
<1> DEFINE len == IF r.entity.kind = "Page" THEN 1
                  ELSE Lesser(MaxChunk, r.entity.size - r.n)
           next == [r EXCEPT !.n = @ + len]
<1>1. /\ r.n \in Nat /\ r.entity.size \in Nat /\ r.entity.real \in Nat
      /\ r.n <= r.entity.real /\ r.entity.real <= r.entity.size
      /\ r.entity.kind \in {"Text", "Page"} => r.entity.real = r.entity.size
      /\ r.entity.kind \in Kinds
  BY ResponseFields
<1>2. /\ HeadersDone(r) /\ ~BodyDone(r) /\ r.entity.kind # "None"
  BY DEF InBody, IsDone
<1>3. r.n < r.entity.size
  BY <1>1, <1>2 DEF BodyDone
<1>4. len \in Nat /\ r.n + len <= r.entity.real
  <2>1. CASE r.entity.kind = "Page"
    BY <2>1, <1>1, <1>3
  <2>2. CASE r.entity.kind = "File"
    <3>1. ~(r.entity.real < r.n + Lesser(MaxChunk, r.entity.size - r.n))
      BY <2>2 DEF EntityFails
    <3> QED
      BY <3>1, <2>2, <1>1, <1>3 DEF Lesser
  <2>3. CASE r.entity.kind = "Text"
    BY <2>3, <1>1, <1>3 DEF Lesser
  <2> QED
    BY <2>1, <2>2, <2>3, <1>1, <1>2 DEF Kinds
<1> HIDE DEF len
<1>5. /\ IsResponse(next) /\ next.entity = r.entity
      /\ HeadersDone(next) /\ Produced(r) <= Produced(next)
  BY <1>2, <1>4, Progress
<1> HIDE DEF next
<1>6. Conserves(r, room, Filtered(Write(r, next, room)))
  BY <1>5, FilteredConserves
<1> QED
  BY <1>6 DEF next, len, BodyTick

LEMMA SendFileConserves ==
    ASSUME NEW r, IsResponse(r), InBody(r), ~IsDone(r),
           r.entity.kind = "Image", NEW room \in Nat
    PROVE  Conserves(r, room, SendFileTick(r, room))
<1> DEFINE len == Lesser(MaxSend, r.entity.size - r.n)
           wlen == Lesser(room, Lesser(len, r.entity.real - r.n))
           next == [r EXCEPT !.n = @ + wlen]
           o == SendFileTick(r, room)
<1>1. /\ r.n \in Nat /\ r.entity.size \in Nat /\ r.entity.real \in Nat
      /\ r.n <= r.entity.real /\ r.entity.real <= r.entity.size
  BY ResponseFields
<1>2. /\ HeadersDone(r) /\ ~BodyDone(r) /\ r.v = <<>>
  BY DEF InBody, IsDone
<1>3. wlen \in Nat /\ wlen <= room /\ r.n + wlen <= r.entity.real
  BY <1>1 DEF Lesser
<1>4. o.resp = next /\ o.sent = Octets(Produced(r), Produced(next))
      /\ o.ret \in BOOLEAN
  BY DEF SendFileTick
<1> HIDE DEF wlen
<1>5. /\ IsResponse(next) /\ next.entity = r.entity /\ next.v = <<>>
      /\ next.blob = r.blob /\ next.n = r.n + wlen
      /\ HeadersDone(next) /\ Produced(r) <= Produced(next)
  BY <1>2, <1>3, Progress
<1> HIDE DEF next
<1>6. o.sent \in Seq(Nat) /\ Len(o.sent) <= room
  <2>0. Produced(r) \in Nat /\ Produced(next) \in Nat
    BY <1>5, ProducedBounds
  <2> HIDE DEF o
  <2>1. o.sent \in Seq(Nat) /\ Len(o.sent) = Produced(next) - Produced(r)
    BY <1>4, <1>5, <2>0, OctetsType
  <2>2. ~r.entity.chunked
    BY ResponseFields
  <2>3. Produced(next) = Produced(r) + wlen
    <3>1. r.blob = 0 /\ next.blob = 0
      BY <1>2, <1>5 DEF HeadersDone
    <3>2. Produced(r) = (Header - 0) + r.n /\ Produced(next) = (Header - 0) + next.n
      BY <1>5, <2>2, <3>1 DEF Produced, BodyWire
    <3> QED
      BY <1>1, <1>3, <1>5, <3>2
  <2> QED
    BY <1>3, <2>0, <2>1, <2>3
<1>7. o.sent \o o.resp.v = r.v \o Octets(Produced(r), Produced(o.resp))
  BY <1>2, <1>4, <1>5, <1>6, ConcatEmptySeq
<1> HIDE DEF o
<1>8. Conserves(r, room, o)
  BY <1>4, <1>5, <1>6, <1>7 DEF Conserves
<1> QED
  BY <1>8 DEF o

-----------------------------------------------------------------------------
(* Response::tick(), whichever of the four it comes to. *)
LEMMA TickConserves ==
    ASSUME NEW r, IsResponse(r), r.v # <<>> => HeadersDone(r),
           ~AssertFails(r), NEW room \in Nat, ~EntityFails(r, room)
    PROVE  /\ Conserves(r, room, Tick(r, room))
           /\ Tick(r, room).resp.done = IsDone(Tick(r, room).resp)
<1> DEFINE o == CASE r.v # <<>>               -> DrainTick(r, room)
                  [] r.v = <<>> /\ ~HeadersDone(r) -> HeadersTick(r, room)
                  [] OTHER                    -> IF r.entity.kind = "Image"
                                                 THEN SendFileTick(r, room)
                                                 ELSE BodyTick(r, room)
           t == [o EXCEPT !.resp.done = IsDone(o.resp)]
<1>1. t = Tick(r, room)
  BY DEF Tick
<1>2. Conserves(r, room, o)
  <2>1. CASE r.v # <<>>
    BY <2>1, DrainConserves
  <2>2. CASE r.v = <<>> /\ ~HeadersDone(r)
    BY <2>2, HeadersConserve
  <2>3. CASE r.v = <<>> /\ HeadersDone(r)
    <3>1. InBody(r) /\ ~IsDone(r)
      BY <2>3 DEF InBody, AssertFails
    <3>2. CASE r.entity.kind = "Image"
      BY <2>3, <3>1, <3>2, SendFileConserves
    <3>3. CASE r.entity.kind # "Image"
      BY <2>3, <3>1, <3>3, BodyConserves
    <3> QED
      BY <3>2, <3>3
  <2> QED
    BY <2>1, <2>2, <2>3
<1>3. /\ o = [resp |-> o.resp, sent |-> o.sent, ret |-> o.ret]
  BY DEF DrainTick, HeadersTick, BodyTick, SendFileTick, Filtered
<1> HIDE DEF o
<1>4. /\ t.resp = [o.resp EXCEPT !.done = IsDone(o.resp)]
      /\ t.sent = o.sent /\ t.ret = o.ret
  BY <1>3
<1> HIDE DEF t
<1>5. o.resp \in [entity : [kind : Kinds, size : Nat, real : Nat, chunked : BOOLEAN],
                  blob : 0..Header, n : Nat, v : Seq(Nat), done : BOOLEAN]
  BY <1>2 DEF Conserves, IsResponse
<1>6. IsDone(o.resp) \in BOOLEAN
  BY DEF IsDone, HeadersDone, BodyDone
<1>7. /\ t.resp \in [entity : [kind : Kinds, size : Nat, real : Nat, chunked : BOOLEAN],
                      blob : 0..Header, n : Nat, v : Seq(Nat), done : BOOLEAN]
      /\ t.resp.entity = o.resp.entity /\ t.resp.blob = o.resp.blob
      /\ t.resp.n = o.resp.n /\ t.resp.v = o.resp.v
      /\ t.resp.done = IsDone(o.resp)
  BY <1>4, <1>5, <1>6
<1>8. /\ Produced(t.resp) = Produced(o.resp)
      /\ HeadersDone(t.resp) = HeadersDone(o.resp)
      /\ IsDone(t.resp) = IsDone(o.resp)
  BY <1>7, ProducedSame
<1>9. IsResponse(t.resp)
  BY <1>2, <1>7 DEF Conserves, IsResponse, HeadersDone
<1>10. Conserves(r, room, t)
  BY <1>2, <1>4, <1>7, <1>8, <1>9 DEF Conserves
<1> QED
  BY <1>1, <1>7, <1>8, <1>10

-----------------------------------------------------------------------------
(***************************************************************************)
(* A response and what the socket has accepted of it: together they are    *)
(* what has been produced, and done, which tick() computes, agrees.        *)
(***************************************************************************)
Whole(r, w) ==
    /\ IsResponse(r)
    /\ w \in Seq(Nat)
    /\ w \o r.v = Octets(0, Produced(r))
    /\ r.done => HeadersDone(r) /\ IsDone(r)

LEMMA NewIsWhole ==
    ASSUME NEW x, IsEntity(x)
    PROVE  Whole(New(x), <<>>)
<1> DEFINE r == New(x)
<1>1. /\ x \in [kind : Kinds, size : Nat, real : Nat, chunked : BOOLEAN]
      /\ x.real \in Nat /\ 0 <= x.real
      /\ Header \in 0..Header /\ Header # 0
      /\ <<>> \in Seq(Nat)
  BY EmptySeq DEF IsEntity
<1>2. IsResponse(r)
  BY <1>1 DEF New, IsResponse
<1>3. /\ r.v = <<>> /\ r.done = FALSE /\ ~HeadersDone(r)
  BY <1>1 DEF New, HeadersDone
<1> HIDE DEF r
<1>4. Produced(r) = 0
  BY <1>2, <1>3, ProducedBounds
<1>5. Octets(0, 0) = <<>>
  BY EmptySeq, FirstOctets
<1>6. <<>> \o <<>> = <<>>
  BY <1>1, ConcatEmptySeq
<1>7. Whole(r, <<>>)
  BY <1>1, <1>2, <1>3, <1>4, <1>5, <1>6 DEF Whole
<1> QED
  BY <1>7 DEF r

(* The backlog is used for the body's sake only once the headers are done. *)
LEMMA HeadersFirst ==
    ASSUME NEW r, NEW w, Whole(r, w), r.v # <<>>
    PROVE  HeadersDone(r)
<1> SUFFICES ASSUME ~HeadersDone(r) PROVE FALSE
  OBVIOUS
<1>1. /\ IsResponse(r) /\ w \in Seq(Nat) /\ r.v \in Seq(Nat)
  BY ResponseFields DEF Whole
<1>2. Produced(r) = 0
  BY <1>1, ProducedBounds
<1>3. w \o r.v = Octets(0, 0)
  BY <1>2 DEF Whole
<1>4. Len(w \o r.v) = 0
  BY <1>3, FirstOctets
<1>5. Len(w) \in Nat /\ Len(r.v) \in Nat \ {0}
  BY <1>1, LenProperties, EmptySeq
<1> QED
  BY <1>1, <1>4, <1>5, ConcatProperties

(* What the socket has accepted is a beginning of the response ... *)
LEMMA WholeIsPrefix ==
    ASSUME NEW r, NEW w, Whole(r, w)
    PROVE  Len(w) <= Total(r.entity) /\ w = Octets(0, Len(w))
<1>1. /\ IsResponse(r) /\ w \in Seq(Nat) /\ r.v \in Seq(Nat)
      /\ w \o r.v = Octets(0, Produced(r))
  BY ResponseFields DEF Whole
<1>2. /\ Produced(r) \in Nat /\ Total(r.entity) \in Nat
      /\ Produced(r) <= Total(r.entity)
  BY <1>1, ProducedBounds
<1>3. Len(w) \in Nat
  BY <1>1, LenProperties
<1>4. Len(w) <= Produced(r) /\ w = Octets(0, Len(w))
  BY <1>1, <1>2, OctetsPrefix
<1> QED
  BY <1>2, <1>3, <1>4

(* ... and all of it but the backlog when the response is done. *)
LEMMA DoneIsProduced ==
    ASSUME NEW r, NEW w, Whole(r, w), r.done
    PROVE  Produced(r) = Total(r.entity) /\ Len(w) + Len(r.v) = Total(r.entity)
<1>1. /\ IsResponse(r) /\ w \in Seq(Nat) /\ r.v \in Seq(Nat)
      /\ w \o r.v = Octets(0, Produced(r))
      /\ HeadersDone(r) /\ IsDone(r)
  BY ResponseFields DEF Whole
<1>2. BodyDone(r)
  <2>1. CASE r.entity.kind = "None"
    <3>1. /\ r.n \in Nat /\ r.entity.real \in Nat /\ r.entity.size = 0
          /\ r.n <= r.entity.real /\ r.entity.real <= r.entity.size
      BY <1>1, <2>1, ResponseFields
    <3> QED
      BY <3>1 DEF BodyDone
  <2>2. CASE r.entity.kind # "None"
    BY <1>1, <2>2 DEF IsDone
  <2> QED
    BY <2>1, <2>2
<1>3. Produced(r) = Total(r.entity) /\ Produced(r) \in Nat
  BY <1>1, <1>2, ProducedBounds
<1>4. Len(w \o r.v) = Len(w) + Len(r.v)
  BY <1>1, ConcatProperties
<1>5. Len(Octets(0, Produced(r))) = Produced(r)
  BY <1>3, FirstOctets
<1> QED
  BY <1>1, <1>3, <1>4, <1>5

(* One tick() which returns, after any others. *)
LEMMA TickKeepsWhole ==
    ASSUME NEW r, NEW w, Whole(r, w), ~AssertFails(r),
           NEW room \in Nat, ~EntityFails(r, room)
    PROVE  /\ Whole(Tick(r, room).resp, w \o Tick(r, room).sent)
           /\ Tick(r, room).resp.entity = r.entity
           /\ Tick(r, room).sent \in Seq(Nat) /\ Len(Tick(r, room).sent) <= room
           /\ Tick(r, room).ret \in BOOLEAN
<1> DEFINE o == Tick(r, room)
           q == o.resp
           sent == o.sent
<1>1. IsResponse(r) /\ w \in Seq(Nat) /\ r.v \in Seq(Nat)
      /\ w \o r.v = Octets(0, Produced(r))
  BY ResponseFields DEF Whole
<1>2. Conserves(r, room, o) /\ q.done = IsDone(q)
  BY <1>1, HeadersFirst, TickConserves
<1> HIDE DEF o
<1>3. /\ IsResponse(q) /\ o.ret \in BOOLEAN
      /\ sent \in Seq(Nat) /\ Len(sent) <= room
      /\ q.entity = r.entity /\ HeadersDone(q)
      /\ Produced(r) <= Produced(q)
      /\ sent \o q.v = r.v \o Octets(Produced(r), Produced(q))
  BY <1>2 DEF Conserves
<1>4. /\ Produced(r) \in Nat /\ Produced(q) \in Nat /\ q.v \in Seq(Nat)
  BY <1>1, <1>3, ProducedBounds, ResponseFields
<1>5. w \o sent \in Seq(Nat)
  BY <1>1, <1>3, ConcatProperties
<1>6. (w \o sent) \o q.v = Octets(0, Produced(q))
  <2> DEFINE old == Octets(0, Produced(r))
             new == Octets(Produced(r), Produced(q))
             v == r.v
             rest == q.v
  <2>1. new \in Seq(Nat)
    BY <1>3, <1>4, OctetsType
  <2>2. old \o new = Octets(0, Produced(q))
    <3>1. 0 \in Nat /\ 0 <= Produced(r)
      BY <1>4
    <3> QED
      BY <3>1, <1>3, <1>4, OctetsAdjacent, Zenon
  <2>3. w \o v = old
    BY <1>1
  <2>4. sent \o rest = v \o new
    BY <1>3
  <2>5. /\ w \in Seq(Nat)
        /\ v \in Seq(Nat)
        /\ sent \in Seq(Nat)
        /\ rest \in Seq(Nat)
    BY <1>1, <1>3, <1>4
  <2> HIDE DEF old, new, v, sent, rest
  <2> DEFINE Join(x, y) == x \o y
  <2>6. \A x, y, z \in Seq(Nat) : Join(Join(x, y), z) = Join(x, Join(y, z))
    BY ONLY ConcatAssociative, SMTT(20)
  <2>7. /\ Join(w, v) = old /\ Join(old, new) = Octets(0, Produced(q))
        /\ Join(sent, rest) = Join(v, new)
    BY <2>2, <2>3, <2>4
  <2> HIDE DEF Join
  <2>8. Join(Join(w, sent), rest) = Octets(0, Produced(q))
    BY <2>1, <2>5, <2>6, <2>7
  <2> QED
    BY <2>8 DEF rest, Join
<1>7. Whole(q, w \o sent)
  BY <1>2, <1>3, <1>5, <1>6 DEF Whole
<1> QED
  BY <1>3, <1>7 DEF o

-----------------------------------------------------------------------------
(***************************************************************************)
(* The inductive invariant.  NothingLost needs the types for Produced to   *)
(* mean anything, and implies SentIsPrefix only while the write has not    *)
(* failed, so that the latter has to be kept from before.  DoneIsAll ties  *)
(* done, which tick() computes, to what has been produced.                 *)
(***************************************************************************)
DoneIsAll == resp.done => HeadersDone(resp) /\ IsDone(resp)

IInv == TypeOK /\ NothingLost /\ SentIsPrefix /\ DoneIsAll

(* Until a write has failed, the invariant is that the response is whole. *)
LEMMA InvIsWhole ==
    /\ IInv /\ fate # "write" => Whole(resp, wire)
    /\ /\ Whole(resp, wire)
       /\ ret \in BOOLEAN /\ fate \in {"live", "assert", "entity", "write"}
       => IInv
<1>1. IInv /\ fate # "write" => Whole(resp, wire)
  BY DEF IInv, TypeOK, NothingLost, DoneIsAll, Whole
<1>2. ASSUME Whole(resp, wire), ret \in BOOLEAN,
             fate \in {"live", "assert", "entity", "write"}
      PROVE  IInv
  <2>1. TypeOK /\ NothingLost /\ DoneIsAll
    BY <1>2 DEF TypeOK, NothingLost, DoneIsAll, Whole
  <2>2. SentIsPrefix
    BY <1>2, WholeIsPrefix DEF SentIsPrefix
  <2> QED
    BY <2>1, <2>2 DEF IInv
<1> QED
  BY <1>1, <1>2

LEMMA InvInit == Init => IInv
<1> SUFFICES ASSUME Init PROVE IInv
  OBVIOUS
<1>1. PICK x \in Entities : resp = New(x)
  BY DEF Init
<1>2. Whole(resp, wire)
  BY <1>1, EntityAssumption, NewIsWhole DEF Init
<1>3. ret \in BOOLEAN /\ fate \in {"live", "assert", "entity", "write"}
  BY Zenon DEF Init
<1> QED
  BY <1>2, <1>3, InvIsWhole

LEMMA InvTick == IInv /\ TickReturns => IInv'
<1> SUFFICES ASSUME IInv, TickReturns PROVE IInv'
  OBVIOUS
<1>1. PICK room \in 0..MaxRoom :
          /\ ~EntityFails(resp, room)
          /\ resp' = Tick(resp, room).resp
          /\ wire' = wire \o Tick(resp, room).sent
          /\ ret' = Tick(resp, room).ret
  BY DEF TickReturns
<1>2. fate = "live" /\ fate' = fate /\ ~AssertFails(resp) /\ room \in Nat
  BY DEF TickReturns
<1>3. Whole(resp, wire)
  BY <1>2, InvIsWhole
<1>4. Whole(resp', wire') /\ ret' \in BOOLEAN
  BY <1>1, <1>2, <1>3, TickKeepsWhole
<1>5. TypeOK' /\ NothingLost' /\ DoneIsAll'
  BY <1>2, <1>4 DEF TypeOK, NothingLost, DoneIsAll, Whole
<1>6. SentIsPrefix'
  BY <1>4, WholeIsPrefix DEF SentIsPrefix
<1> QED
  BY <1>5, <1>6 DEF IInv

LEMMA InvNext == IInv /\ [Next]_vars => IInv'
<1> SUFFICES ASSUME IInv, [Next]_vars PROVE IInv'
  OBVIOUS
<1>1. CASE TickReturns
  BY <1>1, InvTick
<1>2. CASE TickAsserts \/ TickThrowsEntity
  <2>1. /\ resp' = resp /\ wire' = wire /\ ret' = ret
        /\ fate = "live" /\ fate' \in {"assert", "entity"}
    BY <1>2 DEF TickAsserts, TickThrowsEntity
  <2> QED
    BY <2>1 DEF IInv, TypeOK, NothingLost, SentIsPrefix, DoneIsAll
<1>3. CASE TickThrowsWrite
  <2>1. /\ resp' = [resp EXCEPT !.v = <<>>] /\ wire' = wire /\ ret' = ret
        /\ fate = "live" /\ fate' \in {"write", "entity"}
        /\ fate' = "entity" => resp.v = <<>>
    BY <1>3 DEF TickThrowsWrite, InBody
  <2>2. resp \in [entity : [kind : Kinds, size : Nat, real : Nat, chunked : BOOLEAN],
                  blob : 0..Header, n : Nat, v : Seq(Nat), done : BOOLEAN]
    BY DEF IInv, TypeOK, IsResponse
  <2>3. <<>> \in Seq(Nat)
    BY EmptySeq
  <2>4. /\ resp' \in [entity : [kind : Kinds, size : Nat, real : Nat, chunked : BOOLEAN],
                       blob : 0..Header, n : Nat, v : Seq(Nat), done : BOOLEAN]
        /\ resp'.entity = resp.entity /\ resp'.blob = resp.blob
        /\ resp'.n = resp.n /\ resp'.v = <<>> /\ resp'.done = resp.done
    BY <2>1, <2>2, <2>3
  <2>5. /\ Produced(resp') = Produced(resp)
        /\ HeadersDone(resp') = HeadersDone(resp)
        /\ IsDone(resp') = IsDone(resp)
    BY <2>4, ProducedSame
  <2>6. IsResponse(resp')
    BY <2>4 DEF IInv, TypeOK, IsResponse, HeadersDone
  <2>7. TypeOK'
    BY <2>1, <2>6 DEF IInv, TypeOK
  <2>8. NothingLost'
    BY <2>1, <2>4, <2>5 DEF IInv, NothingLost
  <2>9. SentIsPrefix'
    BY <2>1, <2>4 DEF IInv, SentIsPrefix
  <2>10. DoneIsAll'
    BY <2>4, <2>5 DEF IInv, DoneIsAll
  <2> QED
    BY <2>7, <2>8, <2>9, <2>10 DEF IInv
<1>4. CASE UNCHANGED vars
  BY <1>4 DEF vars, IInv, TypeOK, NothingLost, SentIsPrefix, DoneIsAll
<1> QED
  BY <1>1, <1>2, <1>3, <1>4 DEF Next

THEOREM Inductive == Spec => []IInv
  BY InvInit, InvNext, PTL DEF Spec

(* A response stays well-formed: it never reads past what the entity has. *)
THEOREM TypeCorrect == Spec => []TypeOK
<1>1. IInv => TypeOK
  BY DEF IInv
<1> QED
  BY <1>1, Inductive, PTL

(***************************************************************************)
(* Two filters over one backlog, partial writes of any size and sendfile() *)
(* going round it all: the wire and the backlog are what was produced.     *)
(***************************************************************************)
THEOREM NoOctetLost == Spec => []NothingLost
<1>1. IInv => NothingLost
  BY DEF IInv
<1> QED
  BY <1>1, Inductive, PTL

(* The client is only ever sent a beginning of the response. *)
THEOREM AlwaysPrefix == Spec => []SentIsPrefix
<1>1. IInv => SentIsPrefix
  BY DEF IInv
<1> QED
  BY <1>1, Inductive, PTL

(* Response::done means that nothing but the backlog is yet to be sent. *)
THEOREM DoneIsComplete == Spec => []DoneButForBacklog
<1>1. IInv => DoneButForBacklog
  <2> SUFFICES ASSUME IInv, resp.done, fate # "write"
               PROVE  wire \o resp.v = Promised(resp)
    BY DEF DoneButForBacklog
  <2>1. Produced(resp) = Total(resp.entity)
    BY InvIsWhole, DoneIsProduced
  <2> QED
    BY <2>1 DEF IInv, NothingLost, Promised
<1> QED
  BY <1>1, Inductive, PTL
=============================================================================
