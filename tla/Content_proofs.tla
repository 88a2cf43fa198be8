--------------------------- MODULE Content_proofs ---------------------------
(***************************************************************************)
(* Proofs about the album, for all files and requests: the index is sorted,*)
(* no two adjacent entries are for the same photo, and therefore the binary*)
(* searches find what they are for; no photo is lost on the way there; the *)
(* pages are whole, the galleries complete; the dates and the hosts of     *)
(* responses are right; the keywords in a text are found; and an URI leads *)
(* where it should.                                                        *)
(***************************************************************************)
EXTENDS Content, DataLemmas

-----------------------------------------------------------------------------
(***************************************************************************)
(* lower_bound().  If the predicate holds of the positions before m and of *)
(* no others, it returns m.                                                *)
(***************************************************************************)
Clamp(x, y, m) == IF x > y THEN 0 ELSE IF m <= x THEN x ELSE IF y <= m THEN y ELSE m

(* The probe of a binary search is in the range, whichever way round that is. *)
LEMMA Halfway ==
    ASSUME NEW x \in Int, NEW y \in Int
    PROVE  LET c == x + (y - x) \div 2
           IN  /\ x < y => c \in x..(y - 1)
               /\ x > y => c \in y..(x - 1)
OBVIOUS

(* What the loop does in one turn *)
Turn(f, x, y, S) ==
    LET c == x + (y - x) \div 2
    IN  IF x = y THEN x
        ELSE IF c \in S THEN f[<<c + 1, y>>]
        ELSE f[<<x, c>>]

Solves(f, a, b, S) == \A x, y \in a..b : f[<<x, y>>] = Turn(f, x, y, S)

(* Of the positions a to b - 1, those before m are in S. *)
Divides(m, a, b, S) == m \in a..b /\ \A i \in a..(b - 1) : i \in S <=> i < m

(* The place where the range is divided, clamped to the range, is what
   lower_bound finds. *)
LEMMA ClampIsSolution ==
    ASSUME NEW a \in Nat, NEW b \in Nat, NEW S, NEW m, Divides(m, a, b, S)
    PROVE  Solves([r \in (a..b) \X (a..b) |-> Clamp(r[1], r[2], m)], a, b, S)
<1> USE DEF Divides
<1> DEFINE f == [r \in (a..b) \X (a..b) |-> Clamp(r[1], r[2], m)]
<1> SUFFICES ASSUME NEW x \in a..b, NEW y \in a..b
             PROVE  f[<<x, y>>] = Turn(f, x, y, S)
  BY DEF Solves
<1> DEFINE c == x + (y - x) \div 2
<1>1. /\ x < y => c \in x..(y - 1)
      /\ x > y => c \in y..(x - 1)
  BY Halfway
<1>2. \A i, j \in a..b : f[<<i, j>>] = Clamp(i, j, m)
  OBVIOUS
<1> HIDE DEF f
<1>3. CASE x = y
  BY <1>2, <1>3 DEF Turn, Clamp
<1>4. CASE x # y
  <2>1. c \in a..b /\ c + 1 \in a..b
    BY <1>1, <1>4
  <2>2. f[<<c + 1, y>>] = Clamp(c + 1, y, m) /\ f[<<x, c>>] = Clamp(x, c, m)
    BY <1>2, <2>1
  <2>3. x < y => (c \in S <=> c < m)
    BY <1>1
  <2>4. Turn(f, x, y, S) = IF c \in S THEN Clamp(c + 1, y, m) ELSE Clamp(x, c, m)
    BY <1>4, <2>2 DEF Turn
  <2> HIDE DEF c
  <2>5. Clamp(x, y, m) = IF c \in S THEN Clamp(c + 1, y, m) ELSE Clamp(x, c, m)
    BY <1>1, <1>4, <2>1, <2>3 DEF Clamp
  <2> QED
    BY <1>2, <2>4, <2>5
<1> QED
  BY <1>3, <1>4

(* What solves the equations is the same as Clamp, for a range that is one. *)
LEMMA SolutionIsClamp ==
    ASSUME NEW a \in Nat, NEW b \in Nat, NEW S, NEW m, Divides(m, a, b, S),
           NEW f, Solves(f, a, b, S)
    PROVE  \A x, y \in a..b : x <= y => f[<<x, y>>] = Clamp(x, y, m)
<1> USE DEF Divides, Solves
<1> DEFINE Solved(x, y) == f[<<x, y>>] = Clamp(x, y, m)
           T == {k \in Nat : \A x, y \in a..b : x <= y /\ y - x <= k => Solved(x, y)}
<1>1. 0 \in T
  <2> SUFFICES ASSUME NEW x \in a..b, NEW y \in a..b, x <= y /\ y - x <= 0
               PROVE  f[<<x, y>>] = Clamp(x, y, m)
    OBVIOUS
  <2>1. x = y
    OBVIOUS
  <2>2. Clamp(x, y, m) = x
    BY <2>1 DEF Clamp
  <2> QED
    BY <2>1, <2>2 DEF Turn
<1>2. ASSUME NEW k \in Nat, k \in T
      PROVE  k + 1 \in T
  <2> SUFFICES ASSUME NEW x \in a..b, NEW y \in a..b, x <= y /\ y - x <= k + 1
               PROVE  Solved(x, y)
    OBVIOUS
  <2>1. CASE x = y
    <3>1. Clamp(x, y, m) = x
      BY <2>1 DEF Clamp
    <3> QED
      BY <2>1, <3>1 DEF Turn
  <2>2. CASE x < y
    <3> DEFINE c == x + (y - x) \div 2
    <3>1. c \in x..(y - 1)
      BY <2>2, Halfway
    <3>2. f[<<x, y>>] = IF c \in S THEN f[<<c + 1, y>>] ELSE f[<<x, c>>]
      BY <2>2 DEF Turn
    <3> HIDE DEF c
    <3>3. /\ c \in a..b /\ c + 1 \in a..b /\ c + 1 <= y /\ x <= c
          /\ y - (c + 1) <= k /\ c - x <= k
      BY <2>2, <3>1
    <3>4. Solved(c + 1, y) /\ Solved(x, c)
      <4> HIDE DEF Solved
      <4> QED
        BY <1>2, <3>3
    <3>5. c \in S <=> c < m
      BY <3>1
    <3>6. Clamp(x, y, m) = IF c \in S THEN Clamp(c + 1, y, m) ELSE Clamp(x, c, m)
      BY <2>2, <3>1, <3>3, <3>5 DEF Clamp
    <3> QED
      BY <3>2, <3>4, <3>6
  <2> QED
    BY <2>1, <2>2
<1>3. Nat \subseteq T
  <2> HIDE DEF T
  <2> QED
    BY <1>1, <1>2, Induction
<1> SUFFICES ASSUME NEW x \in a..b, NEW y \in a..b, x <= y
             PROVE  Solved(x, y)
  OBVIOUS
<1>4. y - x \in Nat /\ y - x <= y - x
  OBVIOUS
<1>5. y - x \in T
  BY <1>3, <1>4
<1> QED
  BY <1>4, <1>5

(***************************************************************************)
(* lower_bound() finds the place where the predicate stops to hold, if     *)
(* there is one (lower_bound.h 12-14).                                     *)
(***************************************************************************)
THEOREM LowerBoundIsExact ==
    ASSUME NEW a \in Nat, NEW b \in Nat, NEW S, NEW m, Divides(m, a, b, S)
    PROVE  LowerBound(a, b, S) = m
<1> DEFINE E(f) == f = [r \in (a..b) \X (a..b) |-> Turn(f, r[1], r[2], S)]
           F == CHOOSE f : E(f)
           G == [r \in (a..b) \X (a..b) |-> Clamp(r[1], r[2], m)]
<1>1. LowerBound(a, b, S) = F[<<a, b>>]
  BY DEF LowerBound, Turn
<1>2. Solves(G, a, b, S)
  BY ClampIsSolution
<1>3. E(G)
  <2>1. G = [r \in (a..b) \X (a..b) |-> G[<<r[1], r[2]>>]]
    OBVIOUS
  <2> HIDE DEF G
  <2> QED
    BY <1>2, <2>1 DEF Solves
<1>4. E(F)
  <2> HIDE DEF E, G
  <2> QED
    BY <1>3
<1>5. Solves(F, a, b, S)
  <2> HIDE DEF F
  <2> QED
    BY <1>4 DEF Solves
<1> HIDE DEF F
<1>6. a \in a..b /\ b \in a..b /\ a <= b /\ m \in a..b
  BY DEF Divides
<1>7. \A x, y \in a..b : x <= y => F[<<x, y>>] = Clamp(x, y, m)
  BY <1>5, SolutionIsClamp
<1>8. F[<<a, b>>] = Clamp(a, b, m)
  BY <1>6, <1>7
<1> QED
  BY <1>1, <1>6, <1>8 DEF Clamp

-----------------------------------------------------------------------------
(***************************************************************************)
(* weed(), entry by entry.                                                 *)
(***************************************************************************)
WeedOne(s, e) ==
    IF s # <<>> /\ SamePhoto(Last(s).photo, e.photo) THEN s ELSE Append(s, e)

(* The fold in Weed, with the function it is of *)
Folded(f, ee, s) ==
    IF s = {} THEN <<>> ELSE WeedOne(f[s \ {Max(s)}], ee[Max(s)])

(* The recursion by which FoldLeft is defined, on sets of positions, has a
   solution. *)
LEMMA FoldExists ==
    ASSUME NEW ee, NEW N \in Nat
    PROVE  \E f : f = [s \in SUBSET (1..N) |-> Folded(f, ee, s)]
<1> DEFINE Good(k, f) == f = [s \in SUBSET (1..k) |-> Folded(f, ee, s)]
           T == {k \in Nat : \E f : Good(k, f)}
<1>1. 0 \in T
  <2> DEFINE f == [s \in {{}} |-> <<>>]
  <2>1. SUBSET (1..0) = {{}}
    OBVIOUS
  <2>2. f = [s \in {{}} |-> Folded(f, ee, s)]
    BY DEF Folded
  <2> QED
    BY <2>1, <2>2
<1>2. ASSUME NEW k \in Nat, k \in T
      PROVE  k + 1 \in T
  <2>1. PICK f : Good(k, f)
    BY <1>2
  <2> DEFINE g == [s \in SUBSET (1..(k + 1)) |->
                      IF k + 1 \in s THEN WeedOne(f[s \ {k + 1}], ee[k + 1]) ELSE f[s]]
  <2>2. \A s \in SUBSET (1..(k + 1)) : k + 1 \notin s => s \in SUBSET (1..k)
    OBVIOUS
  <2>3. \A s \in SUBSET (1..k) : g[s] = f[s]
    OBVIOUS
  <2>4. \A s \in SUBSET (1..k) : f[s] = Folded(f, ee, s)
    BY <2>1
  <2>5. \A s \in SUBSET (1..(k + 1)) :
            g[s] = IF k + 1 \in s THEN WeedOne(f[s \ {k + 1}], ee[k + 1]) ELSE f[s]
    OBVIOUS
  <2>6. g = [s \in SUBSET (1..(k + 1)) |-> g[s]]
    OBVIOUS
  <2> HIDE DEF g
  <2>7. ASSUME NEW s \in SUBSET (1..(k + 1))
        PROVE  g[s] = Folded(g, ee, s)
    <3>1. CASE k + 1 \in s
      <4>1. Max(s) = k + 1
        BY <3>1, MaxOfPrefix
      <4>2. s \ {k + 1} \in SUBSET (1..k)
        OBVIOUS
      <4> QED
        BY <2>3, <2>5, <3>1, <4>1, <4>2 DEF Folded
    <3>2. CASE k + 1 \notin s
      <4>1. s \in SUBSET (1..k) /\ s \ {Max(s)} \in SUBSET (1..k)
        BY <2>2, <3>2
      <4> QED
        BY <2>3, <2>4, <4>1 DEF Folded
    <3> QED
      BY <3>1, <3>2
  <2>8. Good(k + 1, g)
    BY <2>6, <2>7
  <2> HIDE DEF Good
  <2> QED
    BY <2>8
<1>3. N \in T
  <2> HIDE DEF T
  <2> QED
    BY <1>1, <1>2, Induction
<1> QED
  BY <1>3

(* weed() goes through the entries one by one, and looks at the last it has
   kept. *)
LEMMA WeedStepwise ==
    ASSUME NEW ee, NEW N \in Nat, DOMAIN ee = 1..N
    PROVE  \E f : /\ f[0] = <<>>
                  /\ \A k \in 1..N : f[k] = WeedOne(f[k - 1], ee[k])
                  /\ Weed(ee) = f[N]
<1> DEFINE F == CHOOSE f : f = [s \in SUBSET (1..N) |-> Folded(f, ee, s)]
<1>1. Weed(ee) = F[1..N]
  BY DEF Weed, FoldLeft, MapThenFoldSet, Folded, WeedOne
<1>2. F = [s \in SUBSET (1..N) |-> Folded(F, ee, s)]
  BY FoldExists
<1> HIDE DEF F
<1>3. \A s \in SUBSET (1..N) : F[s] = Folded(F, ee, s)
  BY <1>2
<1> DEFINE h == [k \in 0..N |-> F[1..k]]
<1>4. h[0] = <<>>
  <2>1. 1..0 = {}
    OBVIOUS
  <2> QED
    BY <1>3, <2>1 DEF Folded
<1>5. ASSUME NEW k \in 1..N
      PROVE  h[k] = WeedOne(h[k - 1], ee[k])
  <2>1. k - 1 \in Nat /\ (k - 1) + 1 = k /\ k - 1 \in 0..N /\ k \in 0..N
    OBVIOUS
  <2>2. 1..k \in SUBSET (1..((k - 1) + 1)) /\ (k - 1) + 1 \in 1..k
    OBVIOUS
  <2>3. Max(1..k) = k
    BY <2>1, <2>2, MaxOfPrefix
  <2>4. (1..k) \ {k} = 1..(k - 1) /\ 1..k \in SUBSET (1..N) /\ k \in 1..k
    OBVIOUS
  <2>5. F[1..k] = WeedOne(F[1..(k - 1)], ee[k])
    BY <1>3, <2>3, <2>4 DEF Folded
  <2> QED
    BY <2>1, <2>5
<1>6. h[N] = F[1..N]
  OBVIOUS
<1> HIDE DEF h
<1> QED
  BY <1>1, <1>4, <1>5, <1>6

(* Sorted by timestamp; and no two adjacent entries for the same photo *)
Sorted(ee) == \A i, j \in 1..Len(ee) : i < j => ~Earlier(ee[j], ee[i])

NoneTwice(ee) == \A i \in 1..(Len(ee) - 1) : ~SamePhoto(ee[i].photo, ee[i + 1].photo)

(* What s has when the first k entries of ee have been weeded into it *)
Weeded(s, ee, k) ==
    /\ s \in Seq(ToSet(ee))
    /\ \A i \in 1..Len(s) : \E j \in 1..k : s[i] = ee[j]
    /\ \A j \in 1..k : \E i \in 1..Len(s) : SamePhoto(s[i].photo, ee[j].photo)
    /\ NoneTwice(s)
    /\ Sorted(ee) => Sorted(s)

(* One step of weed(): the entries so far have their photos kept, each once
   in a row. *)
LEMMA WeedOneKeeps ==
    ASSUME NEW ee, NEW k \in Nat, Len(ee) \in Nat, DOMAIN ee = 1..Len(ee), k < Len(ee),
           NEW s, Weeded(s, ee, k)
    PROVE  Weeded(WeedOne(s, ee[k + 1]), ee, k + 1)
<1> DEFINE e == ee[k + 1]
           r == Append(s, e)
<1>1. Len(s) \in Nat /\ k + 1 \in 1..Len(ee) /\ e \in ToSet(ee)
  BY LenProperties DEF Weeded, ToSet
<1>2. s # <<>> => Last(s) = s[Len(s)] /\ Len(s) \in 1..Len(s)
  BY <1>1, EmptySeq DEF Last, Weeded
<1>3. CASE s # <<>> /\ SamePhoto(Last(s).photo, e.photo)
  <2>1. WeedOne(s, e) = s
    BY <1>3 DEF WeedOne
  <2>2. \A i \in 1..Len(s) : \E j \in 1..(k + 1) : s[i] = ee[j]
    BY DEF Weeded
  <2>3. ASSUME NEW j \in 1..(k + 1)
        PROVE  \E i \in 1..Len(s) : SamePhoto(s[i].photo, ee[j].photo)
    <3>1. CASE j = k + 1
      BY <1>2, <1>3, <3>1
    <3>2. CASE j # k + 1
      <4>1. j \in 1..k
        BY <3>2
      <4> QED
        BY <4>1 DEF Weeded
    <3> QED
      BY <3>1, <3>2
  <2> QED
    BY <2>1, <2>2, <2>3 DEF Weeded
<1>4. CASE ~(s # <<>> /\ SamePhoto(Last(s).photo, e.photo))
  <2>1. WeedOne(s, e) = r
    BY <1>4 DEF WeedOne
  <2>2. /\ r \in Seq(ToSet(ee))
        /\ Len(r) = Len(s) + 1
        /\ \A i \in 1..Len(s) : r[i] = s[i]
        /\ r[Len(s) + 1] = e
    BY <1>1, AppendProperties DEF Weeded
  <2> HIDE DEF r
  <2>3. \A i \in 1..Len(r) : i \in 1..Len(s) \/ i = Len(s) + 1
    BY <1>1, <2>2
  <2>4. ASSUME NEW i \in 1..Len(r)
        PROVE  \E j \in 1..(k + 1) : r[i] = ee[j]
    <3>1. CASE i \in 1..Len(s)
      BY <2>2, <3>1 DEF Weeded
    <3>2. CASE i = Len(s) + 1
      BY <2>2, <3>2
    <3> QED
      BY <2>3, <3>1, <3>2
  <2>5. ASSUME NEW j \in 1..(k + 1)
        PROVE  \E i \in 1..Len(r) : SamePhoto(r[i].photo, ee[j].photo)
    <3>1. CASE j = k + 1
      BY <1>1, <2>2, <3>1 DEF SamePhoto
    <3>2. CASE j # k + 1
      <4>1. j \in 1..k
        BY <3>2
      <4>2. PICK i \in 1..Len(s) : SamePhoto(s[i].photo, ee[j].photo)
        BY <4>1 DEF Weeded
      <4>3. i \in 1..Len(r)
        BY <1>1, <2>2
      <4> QED
        BY <2>2, <4>2, <4>3
    <3> QED
      BY <3>1, <3>2
  <2>6. NoneTwice(r)
    <3> SUFFICES ASSUME NEW i \in 1..(Len(r) - 1)
                 PROVE  ~SamePhoto(r[i].photo, r[i + 1].photo)
      BY DEF NoneTwice
    <3>1. CASE i = Len(s)
      <4>1. s # <<>>
        BY <3>1
      <4> QED
        BY <1>2, <1>4, <2>2, <3>1, <4>1
    <3>2. CASE i # Len(s)
      <4>1. i \in 1..(Len(s) - 1) /\ i \in 1..Len(s) /\ i + 1 \in 1..Len(s)
        BY <1>1, <2>2, <3>2
      <4> QED
        BY <2>2, <4>1 DEF Weeded, NoneTwice
    <3> QED
      BY <3>1, <3>2
  <2>7. ASSUME Sorted(ee), NEW i \in 1..Len(r), NEW j \in 1..Len(r), i < j
        PROVE  ~Earlier(r[j], r[i])
    <3>1. i \in 1..Len(s)
      BY <1>1, <2>2, <2>7
    <3>2. CASE j \in 1..Len(s)
      BY <2>2, <2>7, <3>1, <3>2 DEF Weeded, Sorted
    <3>3. CASE j = Len(s) + 1
      <4>1. PICK l \in 1..k : s[i] = ee[l]
        BY <3>1 DEF Weeded
      <4>2. l \in 1..Len(ee) /\ l < k + 1
        BY <1>1
      <4> QED
        BY <1>1, <2>2, <2>7, <3>1, <3>3, <4>1, <4>2 DEF Sorted
    <3> QED
      BY <2>3, <3>2, <3>3
  <2>8. Sorted(ee) => Sorted(r)
    BY <2>7 DEF Sorted
  <2> QED
    BY <2>1, <2>2, <2>4, <2>5, <2>6, <2>8 DEF Weeded
<1> QED
  BY <1>3, <1>4

(***************************************************************************)
(* weed() loses no photo, invents none and does not disturb the order; and *)
(* what it leaves has no photo twice in a row.                             *)
(***************************************************************************)
LEMMA WeedWeeds ==
    ASSUME NEW ee, Len(ee) \in Nat, DOMAIN ee = 1..Len(ee)
    PROVE  Weeded(Weed(ee), ee, Len(ee))
<1> DEFINE N == Len(ee)
<1>1. PICK f : /\ f[0] = <<>>
               /\ \A k \in 1..N : f[k] = WeedOne(f[k - 1], ee[k])
               /\ Weed(ee) = f[N]
  BY WeedStepwise
<1> DEFINE T == {k \in Nat : k <= N => Weeded(f[k], ee, k)}
<1>2. 0 \in T
  <2>1. <<>> \in Seq(ToSet(ee)) /\ Len(<<>>) = 0
    BY EmptySeq
  <2>2. Weeded(<<>>, ee, 0)
    BY <2>1 DEF Weeded, NoneTwice, Sorted
  <2> QED
    BY <1>1, <2>2
<1>3. ASSUME NEW k \in Nat, k \in T
      PROVE  k + 1 \in T
  <2> SUFFICES ASSUME k + 1 <= N
               PROVE  Weeded(f[k + 1], ee, k + 1)
    OBVIOUS
  <2>1. k < N /\ k <= N /\ k + 1 \in 1..N /\ (k + 1) - 1 = k
    OBVIOUS
  <2>2. Weeded(f[k], ee, k)
    BY <1>3, <2>1
  <2>3. f[k + 1] = WeedOne(f[k], ee[k + 1])
    BY <1>1, <2>1
  <2> QED
    BY <2>1, <2>2, <2>3, WeedOneKeeps
<1>4. Nat \subseteq T
  <2> HIDE DEF T
  <2> QED
    BY <1>2, <1>3, Induction
<1>5. N \in T /\ N <= N
  BY <1>4
<1> QED
  BY <1>1, <1>5

-----------------------------------------------------------------------------
(***************************************************************************)
(* std::stable_sort().  An entry's place is how many entries belong before *)
(* it or are the entry itself.                                             *)
(***************************************************************************)
Stamped(ee) == \A i \in 1..Len(ee) : ee[i].stamp.day \in Days3 /\ ee[i].stamp.time \in Nat

(* The order which the sort brings about: by time, otherwise as they were *)
Precedes(ee, j, i) ==
    \/ Earlier(ee[j], ee[i])
    \/ ~Earlier(ee[i], ee[j]) /\ j <= i

(* stable_sort's order is total: of entries with one timestamp the first
   comes first. *)
LEMMA PrecedesIsOrder ==
    ASSUME NEW ee, Len(ee) \in Nat, Stamped(ee)
    PROVE  \A i, j, k \in 1..Len(ee) :
               /\ Precedes(ee, i, i)
               /\ Precedes(ee, i, j) \/ Precedes(ee, j, i)
               /\ Precedes(ee, i, j) /\ Precedes(ee, j, i) => i = j
               /\ Precedes(ee, i, j) /\ Precedes(ee, j, k) => Precedes(ee, i, k)
<1> DEFINE E(i, j) == Earlier(ee[i], ee[j])
           D(i) == ee[i].stamp.day
           M(i) == ee[i].stamp.time
           L(i, j) == Lesser2(D(i), M(i), D(j), M(j))
           Same(i, j) == D(i) = D(j) /\ M(i) = M(j)
<1>1. \A i, j \in 1..Len(ee) : E(i, j) = L(i, j)
  BY DEF Earlier, Lesser2
<1>0. \A i \in 1..Len(ee) : D(i) \in Days3 /\ M(i) \in Nat
  BY DEF Stamped
<1> HIDE DEF D, M
<1>2. \A i, j, k \in 1..Len(ee) :
          /\ ~L(i, i)
          /\ L(i, j) => ~L(j, i)
          /\ L(i, j) /\ L(j, k) => L(i, k)
          /\ L(i, j) \/ L(j, i) \/ Same(i, j)
  BY <1>0, LesserIsOrder
<1>3. \A i, j, k \in 1..Len(ee) :
          /\ Same(i, j) /\ L(j, k) => L(i, k)
          /\ L(i, j) /\ Same(j, k) => L(i, k)
          /\ Same(i, j) => Same(j, i)
          /\ Same(i, j) => ~L(i, j)
  <2> TAKE i, j, k \in 1..Len(ee)
  <2>1. /\ Same(i, j) /\ L(j, k) => L(i, k)
        /\ L(i, j) /\ Same(j, k) => L(i, k)
        /\ Same(i, j) => Same(j, i)
    OBVIOUS
  <2>2. Same(i, j) => ~L(i, j)
    BY <1>2
  <2> QED
    BY <2>1, <2>2
<1>4. \A i, j \in 1..Len(ee) : Precedes(ee, i, j) <=> L(i, j) \/ (~L(j, i) /\ i <= j)
  BY <1>1 DEF Precedes
<1> HIDE DEF L, E, Same
<1> QED
  BY <1>2, <1>3, <1>4

Rank(ee, i) == Cardinality({j \in DOMAIN ee : Precedes(ee, j, i)})

(* Each entry has a place of its own when sorted, and no place is empty. *)
LEMMA RankIsBijective ==
    ASSUME NEW ee, Len(ee) \in Nat, DOMAIN ee = 1..Len(ee), Stamped(ee)
    PROVE  /\ \A i \in 1..Len(ee) : Rank(ee, i) \in 1..Len(ee)
           /\ \A i, j \in 1..Len(ee) : Precedes(ee, i, j) /\ i # j => Rank(ee, i) < Rank(ee, j)
           /\ \A k \in 1..Len(ee) : \E i \in 1..Len(ee) : Rank(ee, i) = k
<1> DEFINE N == Len(ee)
           P(i, j) == Precedes(ee, i, j)
           Upto(i) == {j \in 1..N : P(j, i)}
           r == [i \in 1..N |-> Rank(ee, i)]
<1>1. \A i, j, k \in 1..N : /\ P(i, i)
                            /\ P(i, j) \/ P(j, i)
                            /\ P(i, j) /\ P(j, i) => i = j
                            /\ P(i, j) /\ P(j, k) => P(i, k)
  BY PrecedesIsOrder
<1>2. \A i \in 1..N : Rank(ee, i) = Cardinality(Upto(i))
  BY DEF Rank
<1> HIDE DEF P
<1>3. IsFiniteSet(1..N) /\ Cardinality(1..N) = N
  <2>1. 1 \in Int /\ N \in Int
    OBVIOUS
  <2>2. IsFiniteSet(1..N) /\ Cardinality(1..N) = IF 1 > N THEN 0 ELSE N - 1 + 1
    BY <2>1, FS_Interval
  <2>3. (IF 1 > N THEN 0 ELSE N - 1 + 1) = N
    OBVIOUS
  <2> QED
    BY <2>2, <2>3
<1>4. \A i \in 1..N : /\ Upto(i) \in SUBSET (1..N)
                      /\ i \in Upto(i)
  BY <1>1
<1>5. \A i, j \in 1..N : P(i, j) /\ i # j => /\ Upto(i) \in SUBSET Upto(j)
                                             /\ j \in Upto(j) /\ j \notin Upto(i)
  BY <1>1
<1> HIDE DEF Upto
<1>6. \A i \in 1..N : /\ IsFiniteSet(Upto(i))
                      /\ Cardinality(Upto(i)) \in Nat
                      /\ Cardinality(Upto(i)) <= N
                      /\ Cardinality(Upto(i)) # 0
  <2> TAKE i \in 1..N
  <2>1. IsFiniteSet(Upto(i)) /\ Cardinality(Upto(i)) <= N
    BY <1>3, <1>4, FS_Subset
  <2>2. Cardinality(Upto(i)) \in Nat
    BY <2>1, FS_CardinalityType
  <2>3. Upto(i) # {}
    BY <1>4
  <2> QED
    BY <2>1, <2>2, <2>3, FS_EmptySet
<1>7. \A i \in 1..N : Rank(ee, i) \in 1..N
  BY <1>2, <1>6
<1>8. ASSUME NEW i \in 1..N, NEW j \in 1..N, P(i, j), i # j
      PROVE  Rank(ee, i) < Rank(ee, j)
  <2>1. Cardinality(Upto(i)) <= Cardinality(Upto(j)) /\ Cardinality(Upto(i)) # Cardinality(Upto(j))
    BY <1>5, <1>6, <1>8, FS_Subset
  <2> QED
    BY <1>2, <1>6, <2>1
<1>9. r \in Injection(1..N, 1..N)
  <2>1. \A i, j \in 1..N : i # j => Rank(ee, i) # Rank(ee, j)
    BY <1>1, <1>7, <1>8
  <2> QED
    BY <1>7, <2>1 DEF Injection, IsInjective
<1>10. r \in Surjection(1..N, 1..N)
  BY <1>3, <1>9, FS_Injection
<1>11. \A k \in 1..N : \E i \in 1..N : Rank(ee, i) = k
  BY <1>10 DEF Surjection
<1> QED
  BY <1>7, <1>8, <1>11 DEF P

(***************************************************************************)
(* The sort puts the entries in another order, p, which is by time, and    *)
(* leaves those of the same time in the order in which the files had them. *)
(***************************************************************************)
LEMMA StableSortSorts ==
    ASSUME NEW ee, Len(ee) \in Nat, DOMAIN ee = 1..Len(ee), Stamped(ee)
    PROVE  \E p \in Bijection(1..Len(ee), 1..Len(ee)) :
               /\ StableSort(ee) = [k \in 1..Len(ee) |-> ee[p[k]]]
               /\ \A k, l \in 1..Len(ee) : k < l => Precedes(ee, p[k], p[l]) /\ p[k] # p[l]
<1> DEFINE N == Len(ee)
           At(k) == CHOOSE i \in 1..N : Rank(ee, i) = k
           p == [k \in 1..N |-> At(k)]
<1>1. \A k \in 1..N : p[k] \in 1..N /\ Rank(ee, p[k]) = k
  BY RankIsBijective
<1>2. StableSort(ee) = [k \in 1..N |-> ee[p[k]]]
  BY DEF StableSort, Rank, Precedes
<1>3. p \in [1..N -> 1..N]
  BY <1>1
<1> HIDE DEF p
<1>4. ASSUME NEW i \in 1..N
      PROVE  p[Rank(ee, i)] = i
  <2>1. Rank(ee, i) \in 1..N
    BY RankIsBijective
  <2>2. p[Rank(ee, i)] \in 1..N /\ Rank(ee, p[Rank(ee, i)]) = Rank(ee, i)
    BY <1>1, <2>1
  <2> DEFINE j == p[Rank(ee, i)]
  <2>3. j # i => Precedes(ee, i, j) \/ Precedes(ee, j, i)
    BY <2>2, PrecedesIsOrder
  <2>4. j # i => Rank(ee, i) < Rank(ee, j) \/ Rank(ee, j) < Rank(ee, i)
    <3> HIDE DEF j
    <3>1. j \in 1..N
      BY <2>2 DEF j
    <3> QED
      BY <2>3, <3>1, RankIsBijective
  <2> QED
    BY <2>1, <2>2, <2>4
<1>5. p \in Bijection(1..N, 1..N)
  BY <1>1, <1>3, <1>4, RankIsBijective DEF Bijection, Injection, Surjection, IsInjective
<1>6. ASSUME NEW k \in 1..N, NEW l \in 1..N, k < l
      PROVE  Precedes(ee, p[k], p[l]) /\ p[k] # p[l]
  <2>1. p[k] \in 1..N /\ p[l] \in 1..N /\ Rank(ee, p[k]) = k /\ Rank(ee, p[l]) = l
    BY <1>1
  <2>2. p[k] # p[l] /\ ~(Rank(ee, p[l]) < Rank(ee, p[k]))
    BY <1>6, <2>1
  <2> QED
    BY <2>1, <2>2, RankIsBijective, PrecedesIsOrder
<1> QED
  BY <1>2, <1>5, <1>6

(* A sorted index has the entries it had, in the order of their timestamps. *)
LEMMA SortedAfterSort ==
    ASSUME NEW ee, Len(ee) \in Nat, DOMAIN ee = 1..Len(ee), Stamped(ee)
    PROVE  /\ Len(StableSort(ee)) = Len(ee)
           /\ DOMAIN StableSort(ee) = 1..Len(ee)
           /\ Sorted(StableSort(ee))
           /\ \A k \in 1..Len(ee) : \E i \in 1..Len(ee) : StableSort(ee)[k] = ee[i]
           /\ \A i \in 1..Len(ee) : \E k \in 1..Len(ee) : StableSort(ee)[k] = ee[i]
<1> DEFINE N == Len(ee)
           s == StableSort(ee)
<1>1. PICK p \in Bijection(1..N, 1..N) :
          /\ s = [k \in 1..N |-> ee[p[k]]]
          /\ \A k, l \in 1..N : k < l => Precedes(ee, p[k], p[l]) /\ p[k] # p[l]
  BY StableSortSorts
<1> HIDE DEF s
<1>2. Len(s) = N /\ DOMAIN s = 1..N /\ \A k \in 1..N : s[k] = ee[p[k]]
  BY <1>1
<1>3. /\ \A k \in 1..N : p[k] \in 1..N
      /\ \A i \in 1..N : \E k \in 1..N : p[k] = i
  BY DEF Bijection, Injection, Surjection
<1>4. ASSUME NEW k \in 1..N, NEW l \in 1..N, k < l
      PROVE  ~Earlier(s[l], s[k])
  <2>1. Precedes(ee, p[k], p[l]) /\ p[k] # p[l]
    BY <1>1, <1>4
  <2>2. ~Precedes(ee, p[l], p[k])
    BY <1>3, <2>1, PrecedesIsOrder
  <2>3. Earlier(ee[p[l]], ee[p[k]]) => Precedes(ee, p[l], p[k])
    BY DEF Precedes
  <2> QED
    BY <1>2, <2>2, <2>3
<1>5. Sorted(s)
  BY <1>2, <1>4 DEF Sorted
<1>6. \A k \in 1..N : \E i \in 1..N : s[k] = ee[i]
  BY <1>2, <1>3
<1>7. \A i \in 1..N : \E k \in 1..N : s[k] = ee[i]
  BY <1>2, <1>3
<1> QED
  BY <1>2, <1>5, <1>6, <1>7 DEF s

-----------------------------------------------------------------------------
(***************************************************************************)
(* The index.  What entries have, in whatever order they are               *)
(***************************************************************************)
IsEntry(e) ==
    /\ e.photo.day \in Days3 /\ e.photo.serial \in Nat /\ IsPhoto(e.photo)
    /\ e.stamp.day \in Days3 /\ e.stamp.time \in Nat

Index(ee) == ee \in Seq(ToSet(ee)) /\ \A i \in 1..Len(ee) : IsEntry(ee[i])

(* What the rest of the constructor makes of the entries it has read *)
LEMMA IndexIsSorted ==
    ASSUME NEW ee, Index(ee)
    PROVE  /\ Index(Weed(StableSort(ee)))
           /\ Sorted(Weed(StableSort(ee)))
           /\ NoneTwice(Weed(StableSort(ee)))
<1> DEFINE s == StableSort(ee)
           w == Weed(s)
<1>1. Len(ee) \in Nat /\ DOMAIN ee = 1..Len(ee)
  BY LenProperties DEF Index
<1>2. Stamped(ee)
  BY DEF Stamped, Index, IsEntry
<1>3. /\ Len(s) = Len(ee) /\ DOMAIN s = 1..Len(ee) /\ Sorted(s)
      /\ \A k \in 1..Len(ee) : \E i \in 1..Len(ee) : s[k] = ee[i]
  BY <1>1, <1>2, SortedAfterSort
<1> HIDE DEF s
<1>4. Weeded(w, s, Len(s))
  BY <1>1, <1>3, WeedWeeds
<1> HIDE DEF w
<1>5. Len(w) \in Nat /\ DOMAIN w = 1..Len(w)
  BY <1>4, LenProperties DEF Weeded
<1>6. w \in Seq(ToSet(w))
  <2>1. w = [i \in 1..Len(w) |-> w[i]] /\ \A i \in 1..Len(w) : w[i] \in ToSet(w)
    BY <1>4, <1>5 DEF ToSet, Weeded
  <2> QED
    BY <1>5, <2>1
<1>7. \A k \in 1..Len(w) : IsEntry(w[k])
  <2> TAKE k \in 1..Len(w)
  <2>1. PICK j \in 1..Len(s) : w[k] = s[j]
    BY <1>4 DEF Weeded
  <2>2. PICK i \in 1..Len(ee) : s[j] = ee[i]
    BY <1>3, <2>1
  <2> QED
    BY <2>1, <2>2 DEF Index
<1>8. Index(w)
  BY <1>6, <1>7 DEF Index
<1> QED
  BY <1>3, <1>4, <1>8 DEF s, w, Weeded

-----------------------------------------------------------------------------
(***************************************************************************)
(* Looking things up.                                                      *)
(***************************************************************************)
(* Where the predicate stops to hold, if it never begins again *)
LEMMA PlaceExists ==
    ASSUME NEW a \in Nat, NEW b \in Nat, a <= b, NEW S,
           \A i, j \in a..(b - 1) : i < j /\ j \in S => i \in S
    PROVE  /\ Divides(LowerBound(a, b, S), a, b, S)
           /\ LowerBound(a, b, S) \in a..b
<1> DEFINE T == {i \in a..b : i = b \/ i \notin S}
<1>1. b \in T /\ T \in SUBSET Nat
  OBVIOUS
<1>2. PICK m \in T : \A i \in T : m <= i
  <2> HIDE DEF T
  <2> QED
    BY <1>1, LeastElement
<1>3. ASSUME NEW i \in a..(b - 1), i \in S
      PROVE  i < m
  <2>1. SUFFICES ASSUME ~(i < m) PROVE FALSE
    OBVIOUS
  <2>2. m \in a..(b - 1) /\ m \notin S /\ (m = i \/ m < i)
    BY <2>1
  <2> QED
    BY <1>3, <2>2
<1>4. ASSUME NEW i \in a..(b - 1), i < m
      PROVE  i \in S
  <2>1. i \in a..b /\ i # b /\ ~(m <= i)
    BY <1>4
  <2>2. i \notin T
    <3> HIDE DEF T
    <3> QED
      BY <1>2, <2>1
  <2> QED
    BY <2>1, <2>2
<1>5. Divides(m, a, b, S)
  BY <1>3, <1>4 DEF Divides
<1>6. LowerBound(a, b, S) = m
  BY <1>5, LowerBoundIsExact
<1> QED
  BY <1>5, <1>6

(* Photos are ordered by day and serial number, and those are what makes
   them the same. *)
LEMMA PhotoOrder ==
    ASSUME NEW p, p.day \in Days3, p.serial \in Nat,
           NEW q, q.day \in Days3, q.serial \in Nat,
           NEW r, r.day \in Days3, r.serial \in Nat
    PROVE  /\ ~PhotoBefore(p, p)
           /\ PhotoBefore(p, q) => ~PhotoBefore(q, p)
           /\ PhotoBefore(p, q) /\ PhotoBefore(q, r) => PhotoBefore(p, r)
           /\ PhotoBefore(p, q) \/ PhotoBefore(q, p) \/ SamePhoto(p, q)
           /\ SamePhoto(p, q) /\ PhotoBefore(q, r) => PhotoBefore(p, r)
           /\ PhotoBefore(p, q) /\ SamePhoto(q, r) => PhotoBefore(p, r)
<1>1. /\ PhotoBefore(p, p) = Lesser2(p.day, p.serial, p.day, p.serial)
      /\ PhotoBefore(p, q) = Lesser2(p.day, p.serial, q.day, q.serial)
      /\ PhotoBefore(q, p) = Lesser2(q.day, q.serial, p.day, p.serial)
      /\ PhotoBefore(q, r) = Lesser2(q.day, q.serial, r.day, r.serial)
      /\ PhotoBefore(p, r) = Lesser2(p.day, p.serial, r.day, r.serial)
  BY DEF PhotoBefore, Lesser2
<1> QED
  BY <1>1, LesserIsOrder DEF SamePhoto

(* If the photos are in the order of the timestamps, no two of the index are
   the same. *)
LEMMA StrictlyInOrder ==
    ASSUME Index(entries), NoneTwice(entries), PhotosInOrder
    PROVE  \A i, j \in 1..Len(entries) :
               i < j => PhotoBefore(entries[i].photo, entries[j].photo)
<1> DEFINE p(i) == entries[i].photo
           B(i, j) == PhotoBefore(p(i), p(j))
           Same(i, j) == SamePhoto(p(i), p(j))
<1>1. Len(entries) \in Nat /\ DOMAIN entries = 1..Len(entries)
  BY LenProperties DEF Index
<1>2. \A i, j \in 1..Len(entries) : i < j => ~B(j, i)
  BY <1>1 DEF PhotosInOrder
<1>3. \A i \in 1..Len(entries) : p(i).day \in Days3 /\ p(i).serial \in Nat
  BY DEF Index, IsEntry
<1>4. \A i \in 1..(Len(entries) - 1) : ~Same(i, i + 1)
  BY DEF NoneTwice
<1> HIDE DEF p
<1>5. \A i, j, k \in 1..Len(entries) : /\ B(i, j) \/ B(j, i) \/ Same(i, j)
                                       /\ B(i, j) => ~B(j, i)
                                       /\ B(i, j) /\ B(j, k) => B(i, k)
                                       /\ B(i, j) /\ Same(j, k) => B(i, k)
  BY <1>3, PhotoOrder
<1> HIDE DEF B, Same
<1> SUFFICES ASSUME NEW i \in 1..Len(entries), NEW j \in 1..Len(entries), i < j
             PROVE  B(i, j)
  BY DEF B, p
<1>6. i \in 1..(Len(entries) - 1) /\ i + 1 \in 1..Len(entries) /\ i < i + 1
  BY <1>1
<1>7. B(i, i + 1)
  BY <1>2, <1>4, <1>5, <1>6
<1>8. CASE j = i + 1
  BY <1>7, <1>8
<1>9. CASE j # i + 1
  <2>1. i + 1 < j
    BY <1>6, <1>9
  <2>2. B(i + 1, j) \/ Same(i + 1, j)
    BY <1>2, <1>5, <1>6, <2>1
  <2> QED
    BY <1>5, <1>6, <1>7, <2>2
<1> QED
  BY <1>8, <1>9

(* search() finds each photo where it is, and nothing but the photo. *)
LEMMA SearchFinds ==
    ASSUME Index(entries), NoneTwice(entries), PhotosInOrder
    PROVE  \A i \in 1..Len(entries) : Search(entries[i].photo) = i
<1> SUFFICES ASSUME NEW i \in 1..Len(entries)
             PROVE  Search(entries[i].photo) = i
  OBVIOUS
<1> DEFINE p == entries[i].photo
           S == {j \in DOMAIN entries : PhotoBefore(entries[j].photo, p)}
<1>1. Len(entries) \in Nat /\ DOMAIN entries = 1..Len(entries)
  BY LenProperties DEF Index
<1>2. \A j \in 1..Len(entries) : j \in S <=> j < i
  <2>1. \A j \in 1..Len(entries) : j < i => PhotoBefore(entries[j].photo, p)
    BY StrictlyInOrder
  <2>2. \A j \in 1..Len(entries) : i < j => PhotoBefore(p, entries[j].photo)
    BY StrictlyInOrder
  <2>3. \A j \in 1..Len(entries) : PhotoBefore(p, entries[j].photo) => ~PhotoBefore(entries[j].photo, p)
    BY PhotoOrder DEF Index, IsEntry
  <2>4. ~PhotoBefore(p, p)
    BY PhotoOrder DEF Index, IsEntry
  <2> HIDE DEF p
  <2>5. \A j \in 1..Len(entries) : j < i \/ i < j \/ j = i
    BY <1>1
  <2> QED
    BY <1>1, <2>1, <2>2, <2>3, <2>4, <2>5 DEF p
<1> HIDE DEF S, p
<1>3. End = Len(entries) + 1 /\ End \in Nat /\ i \in 1..End /\ i # End /\ 1..(End - 1) = 1..Len(entries)
  BY <1>1 DEF End
<1>4. Divides(i, 1, End, S)
  BY <1>2, <1>3 DEF Divides
<1>5. LowerBound(1, End, S) = i
  BY <1>3, <1>4, LowerBoundIsExact
<1>6. SamePhoto(entries[i].photo, p)
  BY DEF SamePhoto, p
<1>7. Search(p) = i
  BY <1>3, <1>5, <1>6 DEF Search, S
<1> QED
  BY <1>7 DEF p

(* What the search for a photo finds is that photo: one it lacks is not found. *)
LEMMA SearchIsSound ==
    ASSUME Index(entries), NoneTwice(entries), PhotosInOrder,
           NEW p, p.day \in Days3, p.serial \in Nat, Has(p)
    PROVE  \E e \in ToSet(entries) : SamePhoto(e.photo, p)
<1> DEFINE S == {j \in DOMAIN entries : PhotoBefore(entries[j].photo, p)}
           i == LowerBound(1, End, S)
<1>1. Len(entries) \in Nat /\ DOMAIN entries = 1..Len(entries)
  BY LenProperties DEF Index
<1>2. End = Len(entries) + 1 /\ End \in Nat /\ 1 <= End /\ 1..(End - 1) = 1..Len(entries)
  BY <1>1 DEF End
<1>3. ASSUME NEW j \in 1..Len(entries), NEW k \in 1..Len(entries), j < k, k \in S
      PROVE  j \in S
  <2>1. PhotoBefore(entries[j].photo, entries[k].photo)
    BY <1>3, StrictlyInOrder
  <2>2. PhotoBefore(entries[j].photo, p)
    BY <1>3, <2>1, PhotoOrder DEF Index, IsEntry
  <2> QED
    BY <1>1, <2>2
<1> HIDE DEF S
<1>4. i \in 1..End
  BY <1>2, <1>3, PlaceExists
<1> HIDE DEF i
<1>5. i # End /\ SamePhoto(entries[i].photo, p)
  BY DEF Has, Search, i, S
<1>6. i \in 1..Len(entries)
  BY <1>1, <1>2, <1>4, <1>5
<1> QED
  BY <1>1, <1>5, <1>6 DEF ToSet

(* Each photo of a weeded index is found, and so are its neighbours. *)
LEMMA IndexIsLinked ==
    ASSUME Ready => Index(entries) /\ NoneTwice(entries)
    PROVE  PhotosAreLinked
<1> SUFFICES ASSUME Index(entries), NoneTwice(entries), PhotosInOrder
             PROVE  /\ \A i \in DOMAIN entries :
                          LET p == entries[i].photo
                              at(k) == IF k \in DOMAIN entries THEN entries[k].photo ELSE NoPhoto
                          IN  Search(p) = i /\ PrevPhoto(p) = at(i - 1) /\ NextPhoto(p) = at(i + 1)
                    /\ \A p \in Photos :
                          Has(p) => \E e \in ToSet(entries) : SamePhoto(e.photo, p)
  BY DEF PhotosAreLinked
<1>1. Len(entries) \in Nat /\ DOMAIN entries = 1..Len(entries) /\ End = Len(entries) + 1
  BY LenProperties DEF Index, End
<1>2. ASSUME NEW i \in DOMAIN entries
      PROVE  LET p == entries[i].photo
                 at(k) == IF k \in DOMAIN entries THEN entries[k].photo ELSE NoPhoto
             IN  Search(p) = i /\ PrevPhoto(p) = at(i - 1) /\ NextPhoto(p) = at(i + 1)
  <2> DEFINE p == entries[i].photo
             at(k) == IF k \in DOMAIN entries THEN entries[k].photo ELSE NoPhoto
  <2>1. Search(p) = i /\ i \in 1..Len(entries)
    BY <1>1, SearchFinds
  <2> HIDE DEF p
  <2>2. PrevPhoto(p) = at(i - 1)
    BY <1>1, <2>1 DEF PrevPhoto
  <2>3. NextPhoto(p) = at(i + 1)
    BY <1>1, <2>1 DEF NextPhoto
  <2> QED
    BY <2>1, <2>2, <2>3 DEF p
<1>3. ASSUME NEW p \in Photos, Has(p)
      PROVE  \E e \in ToSet(entries) : SamePhoto(e.photo, p)
  <2>1. p.day \in Days3 /\ p.serial \in Nat
    BY PhotoAssumption DEF Days3, Tuples
  <2> QED
    BY <1>3, <2>1, SearchIsSound
<1> QED
  BY <1>2, <1>3

(* Index::in(), Index::on(), whatever the dates are *)
LEMMA RangeIsExact ==
    ASSUME Index(entries), NEW k \in Nat, NEW key \in Tuples(k),
           NEW dates, DOMAIN dates = 1..Len(entries),
           \A i \in 1..Len(entries) : dates[i] \in Tuples(k),
           \A i, j \in 1..Len(entries) : i < j => ~Before(dates[j], dates[i])
    PROVE  AreAt(InRange(dates, key), {i \in DOMAIN entries : dates[i] = key})
<1> DEFINE S1 == {i \in DOMAIN dates : Before(dates[i], key)}
           S2 == {i \in DOMAIN dates : NotAfter(dates[i], key)}
           a == LowerBound(1, End, S1)
           b == LowerBound(a, End, S2)
           B(x, y) == Before(x, y)
<1>1. Len(entries) \in Nat /\ DOMAIN entries = 1..Len(entries) /\ End = Len(entries) + 1
  BY LenProperties DEF Index, End
<1>2. \A x, y, z \in Tuples(k) : /\ ~B(x, x)
                                 /\ x = y \/ B(x, y) \/ B(y, x)
                                 /\ B(x, y) /\ B(y, z) => B(x, z)
  BY BeforeIsStrict, BeforeIsTotal, BeforeIsTransitive
<1>3. \A i \in 1..Len(entries) : /\ i \in S1 <=> B(dates[i], key)
                                 /\ i \in S2 <=> ~B(key, dates[i])
  BY DEF NotAfter
<1>4. \A i, j \in 1..Len(entries) : i < j => ~B(dates[j], dates[i])
  OBVIOUS
<1> HIDE DEF B, S1, S2
<1>5. 1 <= End /\ End \in Nat /\ 1..(End - 1) = 1..Len(entries)
  BY <1>1
<1>6. \A i, j \in 1..(End - 1) : i < j /\ j \in S1 => i \in S1
  BY <1>2, <1>3, <1>4, <1>5
<1>7. Divides(a, 1, End, S1) /\ a \in 1..End
  BY <1>5, <1>6, PlaceExists
<1> HIDE DEF a
<1>8. a \in Nat /\ a <= End /\ \A i \in a..(End - 1) : i \in 1..Len(entries)
  BY <1>1, <1>7
<1>9. \A i, j \in a..(End - 1) : i < j /\ j \in S2 => i \in S2
  <2> SUFFICES ASSUME NEW i \in a..(End - 1), NEW j \in a..(End - 1), i < j, j \in S2
               PROVE  i \in S2
    OBVIOUS
  <2>1. i \in 1..Len(entries) /\ j \in 1..Len(entries) /\ dates[i] \in Tuples(k) /\ dates[j] \in Tuples(k)
    BY <1>8
  <2> QED
    BY <1>2, <1>3, <1>4, <2>1
<1>10. Divides(b, a, End, S2) /\ b \in a..End
  BY <1>5, <1>8, <1>9, PlaceExists
<1> HIDE DEF b
<1>11. \A i \in 1..Len(entries) : dates[i] = key <=> i \in a..(b - 1)
  <2> TAKE i \in 1..Len(entries)
  <2>1. i \in S1 <=> i < a
    BY <1>5, <1>7 DEF Divides
  <2>2. i \in a..(End - 1) => (i \in S2 <=> i < b)
    BY <1>10 DEF Divides
  <2>3. dates[i] = key <=> ~B(dates[i], key) /\ ~B(key, dates[i])
    BY <1>2
  <2> QED
    BY <1>1, <1>3, <1>5, <1>7, <1>10, <2>1, <2>2, <2>3
<1>12. {i \in DOMAIN entries : dates[i] = key} = a..(b - 1)
  BY <1>1, <1>7, <1>10, <1>11
<1>13. b - 1 \in 0..Len(entries)
  BY <1>1, <1>7, <1>10
<1>14. InRange(dates, key) = SubSeq(entries, a, b - 1)
  BY DEF InRange, a, b, S1, S2
<1> QED
  BY <1>7, <1>12, <1>13, <1>14 DEF AreAt

(* prev(day), next(day) *)
LEMMA NeighboursAreNext ==
    ASSUME Index(entries), NEW day \in Days3,
           \A i, j \in 1..Len(entries) :
               i < j => ~Before(entries[j].stamp.day, entries[i].stamp.day),
           NEW e \in ToSet(entries)
    PROVE  /\ Before(day, e.stamp.day) =>
                 /\ NextDayWithPhotos(day) # NoDay
                 /\ ~Before(e.stamp.day, NextDayWithPhotos(day))
           /\ Before(e.stamp.day, day) => ~Before(PrevDay(day), e.stamp.day)
<1> DEFINE d(i) == entries[i].stamp.day
           B(x, y) == Before(x, y)
           S1 == {j \in DOMAIN entries : Before(entries[j].stamp.day, day)}
           S2 == {j \in DOMAIN entries : NotAfter(entries[j].stamp.day, day)}
           a == LowerBound(1, End, S1)
           b == LowerBound(1, End, S2)
<1>1. Len(entries) \in Nat /\ DOMAIN entries = 1..Len(entries) /\ End = Len(entries) + 1
  BY LenProperties DEF Index, End
<1>2. \A x, y, z \in Days3 : /\ ~B(x, x)
                             /\ x = y \/ B(x, y) \/ B(y, x)
                             /\ B(x, y) /\ B(y, z) => B(x, z)
  BY BeforeIsStrict, BeforeIsTotal, BeforeIsTransitive DEF Days3
<1>3. PICK l \in 1..Len(entries) : e = entries[l]
  BY <1>1 DEF ToSet
<1>4. \A i \in 1..Len(entries) : d(i) \in Days3
  BY DEF Index, IsEntry
<1>5. \A i, j \in 1..Len(entries) : i < j => ~B(d(j), d(i))
  OBVIOUS
<1>6. \A i \in 1..Len(entries) : /\ i \in S1 <=> B(d(i), day)
                                 /\ i \in S2 <=> ~B(day, d(i))
  BY <1>1 DEF NotAfter
<1>7. NextDayWithPhotos(day) = IF b = End THEN NoDay ELSE d(b)
  BY DEF NextDayWithPhotos
<1>8. PrevDay(day) = IF a = 1 THEN NoDay ELSE d(a - 1)
  BY DEF PrevDay
<1>9. e.stamp.day = d(l)
  BY <1>3
<1>10. \A x \in Days3 : ~B(x, NoDay)
  BY DEF Before, NoDay, Days3, Tuples
<1> HIDE DEF B, S1, S2, d
<1>11. 1 <= End /\ End \in Nat /\ 1..(End - 1) = 1..Len(entries)
  BY <1>1
<1>12. Divides(a, 1, End, S1) /\ a \in 1..End
  <2>1. \A i, j \in 1..(End - 1) : i < j /\ j \in S1 => i \in S1
    BY <1>2, <1>4, <1>5, <1>6, <1>11
  <2> QED
    BY <1>11, <2>1, PlaceExists
<1>13. Divides(b, 1, End, S2) /\ b \in 1..End
  <2>1. \A i, j \in 1..(End - 1) : i < j /\ j \in S2 => i \in S2
    BY <1>2, <1>4, <1>5, <1>6, <1>11
  <2> QED
    BY <1>11, <2>1, PlaceExists
<1> HIDE DEF a, b
<1>14. \A i \in 1..Len(entries) : /\ i < a <=> B(d(i), day)
                                  /\ i < b <=> ~B(day, d(i))
  BY <1>6, <1>11, <1>12, <1>13 DEF Divides
<1>15. ASSUME B(day, d(l))
       PROVE  NextDayWithPhotos(day) # NoDay /\ ~B(d(l), NextDayWithPhotos(day))
  <2>1. ~(l < b) /\ b \in 1..Len(entries) /\ b # End
    BY <1>1, <1>3, <1>13, <1>14, <1>15
  <2>2. B(day, d(b)) /\ ~B(d(l), d(b))
    <3>1. b < l \/ b = l
      BY <2>1
    <3> QED
      BY <1>2, <1>4, <1>5, <1>14, <2>1, <3>1
  <2> QED
    BY <1>7, <1>10, <2>1, <2>2
<1>16. ASSUME B(d(l), day)
       PROVE  ~B(PrevDay(day), d(l))
  <2>1. l < a
    BY <1>14, <1>16
  <2>2. a # 1 /\ a - 1 \in 1..Len(entries) /\ (l < a - 1 \/ l = a - 1)
    BY <1>1, <1>3, <1>12, <2>1
  <2> QED
    BY <1>2, <1>4, <1>5, <1>8, <2>2
<1> QED
  BY <1>9, <1>15, <1>16 DEF B

(* A sorted index has the photos of a day, a month and a year in one range. *)
LEMMA PartsAreRanges ==
    ASSUME Index(entries), Sorted(entries)
    PROVE  /\ \A i, j \in 1..Len(entries) :
                 i < j => ~Before(entries[j].stamp.day, entries[i].stamp.day)
           /\ \A day \in Days3 :
                 AreAt(OnDay(day), {i \in DOMAIN entries : entries[i].stamp.day = day})
           /\ \A month \in Tuples(2) :
                 AreAt(InMonth(month),
                       {i \in DOMAIN entries : MonthOf(entries[i].stamp.day) = month})
           /\ \A year \in Nat :
                 AreAt(InYear(year),
                       {i \in DOMAIN entries : YearOf(entries[i].stamp.day) = year})
<1> DEFINE d(i) == entries[i].stamp.day
           days == [i \in DOMAIN entries |-> d(i)]
           months == [i \in DOMAIN entries |-> MonthOf(d(i))]
           yy == [i \in DOMAIN entries |-> <<YearOf(d(i))>>]
<1>1. Len(entries) \in Nat /\ DOMAIN entries = 1..Len(entries)
  BY LenProperties DEF Index
<1>3. \A i \in 1..Len(entries) : d(i) \in Days3
  BY DEF Index, IsEntry
<1>4. \A i, j \in 1..Len(entries) : i < j => ~Before(d(j), d(i))
  <2> SUFFICES ASSUME NEW i \in 1..Len(entries), NEW j \in 1..Len(entries), i < j
               PROVE  ~Before(d(j), d(i))
    OBVIOUS
  <2>1. ~Earlier(entries[j], entries[i])
    BY DEF Sorted
  <2>2. d(i) = d(j) => ~Before(d(j), d(i))
    BY <1>3, BeforeIsStrict DEF Days3
  <2> QED
    BY <2>1, <2>2 DEF Earlier
<1>6. ASSUME NEW day \in Days3
      PROVE  AreAt(OnDay(day), {i \in DOMAIN entries : entries[i].stamp.day = day})
  <2>1. DOMAIN days = 1..Len(entries) /\ \A i \in 1..Len(entries) : days[i] = d(i)
    BY <1>1
  <2>2. OnDay(day) = InRange(days, day)
    BY DEF OnDay
  <2>3. {i \in DOMAIN entries : days[i] = day} = {i \in DOMAIN entries : d(i) = day}
    OBVIOUS
  <2> HIDE DEF days, d
  <2>4. AreAt(InRange(days, day), {i \in DOMAIN entries : days[i] = day})
    BY <1>3, <1>4, <2>1, RangeIsExact DEF Days3
  <2> QED
    BY <2>2, <2>3, <2>4 DEF d
<1>7. ASSUME NEW month \in Tuples(2)
      PROVE  AreAt(InMonth(month),
                   {i \in DOMAIN entries : MonthOf(entries[i].stamp.day) = month})
  <2>1. DOMAIN months = 1..Len(entries) /\ \A i \in 1..Len(entries) : months[i] = MonthOf(d(i))
    BY <1>1
  <2>2. InMonth(month) = InRange(months, month)
    BY DEF InMonth
  <2>3. {i \in DOMAIN entries : months[i] = month} = {i \in DOMAIN entries : MonthOf(d(i)) = month}
    OBVIOUS
  <2> HIDE DEF months, d
  <2>4. \A i \in 1..Len(entries) : months[i] \in Tuples(2)
    BY <1>3, <2>1, PartsOfDays
  <2>5. \A i, j \in 1..Len(entries) : i < j => ~Before(months[j], months[i])
    BY <1>3, <1>4, <2>1, PartsOfDays
  <2>6. AreAt(InRange(months, month), {i \in DOMAIN entries : months[i] = month})
    BY <2>1, <2>4, <2>5, RangeIsExact
  <2> QED
    BY <2>2, <2>3, <2>6 DEF d
<1>8. ASSUME NEW year \in Nat
      PROVE  AreAt(InYear(year),
                   {i \in DOMAIN entries : YearOf(entries[i].stamp.day) = year})
  <2>1. DOMAIN yy = 1..Len(entries) /\ \A i \in 1..Len(entries) : yy[i] = <<YearOf(d(i))>>
    BY <1>1
  <2>2. InYear(year) = InRange(yy, <<year>>)
    BY DEF InYear
  <2>3. {i \in DOMAIN entries : yy[i] = <<year>>} = {i \in DOMAIN entries : YearOf(d(i)) = year}
    OBVIOUS
  <2> HIDE DEF yy, d
  <2>4. \A i \in 1..Len(entries) : yy[i] \in Tuples(1)
    BY <1>3, <2>1, PartsOfDays
  <2>5. \A i, j \in 1..Len(entries) : i < j => ~Before(yy[j], yy[i])
    BY <1>3, <1>4, <2>1, PartsOfDays
  <2>6. <<year>> \in Tuples(1)
    BY DEF Tuples
  <2>7. AreAt(InRange(yy, <<year>>), {i \in DOMAIN entries : yy[i] = <<year>>})
    BY <2>1, <2>4, <2>5, <2>6, RangeIsExact
  <2> QED
    BY <2>2, <2>3, <2>7 DEF d
<1> QED
  BY <1>4, <1>6, <1>7, <1>8

(* So RangesAreExact is true of it. *)
LEMMA IndexHasRanges ==
    ASSUME Ready => Index(entries) /\ Sorted(entries)
    PROVE  RangesAreExact
<1> SUFFICES ASSUME Index(entries), Sorted(entries), NEW p \in Photos
             PROVE  LET day == p.day IN
        /\ AreAt(OnDay(day), {i \in DOMAIN entries : entries[i].stamp.day = day})
        /\ AreAt(InMonth(MonthOf(day)),
                 {i \in DOMAIN entries : MonthOf(entries[i].stamp.day) = MonthOf(day)})
        /\ AreAt(InYear(YearOf(day)),
                 {i \in DOMAIN entries : YearOf(entries[i].stamp.day) = YearOf(day)})
        /\ \A e \in ToSet(entries) :
              /\ Before(day, e.stamp.day) => /\ NextDayWithPhotos(day) # NoDay
                                             /\ ~Before(e.stamp.day, NextDayWithPhotos(day))
              /\ Before(e.stamp.day, day) => ~Before(PrevDay(day), e.stamp.day)
        /\ \A i, j \in DOMAIN entries :
              i < j => ~Earlier(entries[j], entries[i])
  BY DEF RangesAreExact
<1> DEFINE day == p.day
<1>1. Len(entries) \in Nat /\ DOMAIN entries = 1..Len(entries)
  BY LenProperties DEF Index
<1>2. day \in Days3
  BY PhotoAssumption DEF Days3, Tuples
<1> HIDE DEF day
<1>3. MonthOf(day) \in Tuples(2) /\ YearOf(day) \in Nat
  <2>1. MonthOf(day) \in Tuples(2)
    BY <1>2, PartsOfDays
  <2>2. YearOf(day) \in Nat
    BY <1>2 DEF Days3, Tuples, YearOf
  <2> QED
    BY <2>1, <2>2
<1>4. \A e \in ToSet(entries) :
          /\ Before(day, e.stamp.day) => /\ NextDayWithPhotos(day) # NoDay
                                         /\ ~Before(e.stamp.day, NextDayWithPhotos(day))
          /\ Before(e.stamp.day, day) => ~Before(PrevDay(day), e.stamp.day)
  BY <1>2, PartsAreRanges, NeighboursAreNext
<1>5. \A i, j \in DOMAIN entries : i < j => ~Earlier(entries[j], entries[i])
  BY <1>1 DEF Sorted
<1> QED
  BY <1>2, <1>3, <1>4, <1>5, PartsAreRanges DEF day

-----------------------------------------------------------------------------
(***************************************************************************)
(* Reading the files.                                                      *)
(***************************************************************************)
(* A file name means a photo with a day and a number, or none. *)
LEMMA PhotoOfType ==
    ASSUME NEW name \in PossibleNames
    PROVE  PhotoOf(name).day \in Days3 /\ PhotoOf(name).serial \in Nat
<1>1. /\ name.date \in [1..3 -> Nat] /\ name.serial \in Nat
      /\ name.date[1] \in Nat /\ name.date[2] \in Nat /\ name.date[3] \in Nat
  BY DEF PossibleNames
<1>2. NoDay \in Days3
  BY TripleType DEF NoDay
<1>3. ShortDate(name.date) \in Days3
  BY <1>1, <1>2, TripleType DEF ShortDate, Day
<1>4. ParsedDay(name.date) \in Days3
  BY <1>1, ParsedDayType
<1>5. Serial(name) \in Nat
  BY <1>1, UnsignedAssumption DEF Serial, Strtou, Limited
<1> QED
  BY <1>2, <1>3, <1>4, <1>5 DEF PhotoOf, NoPhoto

(* The fields of a new entry on which the index depends *)
LEMMA NewEntryHas ==
    ASSUME NEW name, NEW lines, NEW stamp, NEW prev
    PROVE  /\ NewEntry(name, lines, stamp, prev).photo = PhotoOf(name)
           /\ NewEntry(name, lines, stamp, prev).stamp = stamp
BY DEF NewEntry

(* An entry has the photo its first line says, and a timestamp which is a
   day and a time. *)
LEMMA ParseEntryType ==
    ASSUME NEW lines \in Seq(PossibleLines), lines # <<>>, NEW ee
    PROVE  /\ ParseEntry(lines, ee).photo = PhotoOf(lines[1].name)
           /\ ParseEntry(lines, ee).stamp.day \in Days3
           /\ ParseEntry(lines, ee).stamp.time \in Nat
<1>1. Len(lines) \in Nat /\ Len(lines) # 0 /\ Head(lines) = lines[1]
  BY LenProperties, EmptySeq, HeadTailProperties
<1>2. NoStamp.day \in Days3 /\ NoStamp.time \in Nat
  BY TripleType DEF NoStamp, NoDay
<1>3. Len(lines) # 1 => /\ StampOf(lines[2].stamp).day \in Days3
                        /\ StampOf(lines[2].stamp).time \in Nat
  <2> SUFFICES ASSUME Len(lines) # 1
               PROVE  /\ StampOf(lines[2].stamp).day \in Days3
                      /\ StampOf(lines[2].stamp).time \in Nat
    OBVIOUS
  <2> DEFINE length == Len(lines)
  <2>1. 2 \in 1..length
    <3> HIDE DEF length
    <3>1. length \in Nat /\ length > 0 /\ length # 1
      BY <1>1 DEF length
    <3>2. length > 1
      BY <3>1, MoreThanOne
    <3> QED
      BY <3>1, <3>2
  <2>2. lines[2] \in PossibleLines
    BY <2>1, ElementOfSeq
  <2>3. lines[2].stamp \in PossibleStamps
    BY <2>2 DEF PossibleLines
  <2> QED
    BY <2>3, ParsedDayType DEF StampOf, PossibleStamps
<1> QED
  BY <1>1, <1>2, <1>3, NewEntryHas DEF ParseEntry

(* emit() keeps the index one. *)
LEMMA EmitKeeps ==
    ASSUME NEW ee, Index(ee), NEW lines \in Seq(PossibleLines), lines # <<>>
    PROVE  Index(Emit(ee, lines))
<1> DEFINE e == ParseEntry(lines, ee)
           r == Append(ee, e)
<1>1. Len(ee) \in Nat /\ DOMAIN ee = 1..Len(ee)
  BY LenProperties DEF Index
<1>2. lines[1].name \in PossibleNames
  <2>1. 1 \in 1..Len(lines)
    BY LenProperties, EmptySeq
  <2>2. lines[1] \in PossibleLines
    BY <2>1, ElementOfSeq
  <2> QED
    BY <2>2 DEF PossibleLines
<1>3. IsPhoto(e.photo) => IsEntry(e)
  BY <1>2, ParseEntryType, PhotoOfType DEF IsEntry
<1> HIDE DEF e
<1>4. CASE IsPhoto(e.photo)
  <2>1. Emit(ee, lines) = r
    BY <1>4 DEF Emit, e
  <2>2. ee \in Seq(ToSet(ee) \cup {e})
    <3>1. \A i \in 1..Len(ee) : ee[i] \in ToSet(ee) \cup {e}
      BY <1>1 DEF ToSet
    <3>2. ee = [i \in 1..Len(ee) |-> ee[i]]
      BY <1>1 DEF Index
    <3> QED
      BY <1>1, <3>1, <3>2
  <2>3. /\ Len(r) = Len(ee) + 1
        /\ \A i \in 1..Len(ee) : r[i] = ee[i]
        /\ r[Len(ee) + 1] = e
        /\ DOMAIN r = 1..(Len(ee) + 1)
        /\ r \in Seq(ToSet(ee) \cup {e})
    BY <1>1, <2>2, AppendProperties
  <2> HIDE DEF r
  <2>4. \A i \in 1..Len(r) : IsEntry(r[i])
    BY <1>1, <1>3, <1>4, <2>3 DEF Index
  <2>5. r \in Seq(ToSet(r))
    <3>1. r = [i \in 1..Len(r) |-> r[i]] /\ \A i \in 1..Len(r) : r[i] \in ToSet(r)
      BY <2>3 DEF ToSet
    <3> QED
      BY <1>1, <2>3, <3>1
  <2> QED
    BY <2>1, <2>4, <2>5 DEF Index
<1>5. CASE ~IsPhoto(e.photo)
  BY <1>5 DEF Emit, e
<1> QED
  BY <1>4, <1>5

(***************************************************************************)
(* The invariant: whatever has been read so far, the entries are           *)
(* photos, and the index is sorted and weeded when it is ready.            *)
(***************************************************************************)
Reading ==
    /\ rest \in Seq(Seq(PossibleLines))
    /\ v \in Seq(PossibleLines)

IInv ==
    /\ Reading
    /\ Index(entries)
    /\ Ready => Sorted(entries) /\ NoneTwice(entries)

(* The index at the start is one. *)
LEMMA EmptyIndex == Index(<<>>)
BY EmptySeq DEF Index

(* The invariant when nothing has been read *)
LEMMA InvInit == CInit => IInv
<1> SUFFICES ASSUME CInit PROVE IInv
  OBVIOUS
<1>1. rest \in Seq(Seq(PossibleLines))
  BY ScenarioAssumption DEF CInit, PInit, Init
<1>2. v = <<>> /\ entries = <<>> /\ pc = "read"
  BY DEF CInit, PInit, Init
<1>3. v \in Seq(PossibleLines)
  BY <1>2, EmptySeq
<1> QED
  BY <1>1, <1>2, <1>3, EmptyIndex DEF IInv, Reading, Ready

(* There is a file to read from as long as any has lines left. *)
LEMMA CurrentIsThere ==
    ASSUME rest \in Seq(Seq(PossibleLines)), Remaining # {}
    PROVE  Current \in Remaining /\ Current \in 1..Len(rest)
<1>1. Remaining \in SUBSET Nat /\ Remaining \subseteq 1..Len(rest)
  BY LenProperties DEF Remaining
<1>2. \E i \in Remaining : \A j \in Remaining : i <= j
  BY <1>1, LeastElement
<1> QED
  BY <1>1, <1>2 DEF Current

(* The invariant after a line: entries are added, unsorted, and nothing is
   ready yet. *)
LEMMA InvReadLine == IInv /\ ReadLine => IInv'
<1> SUFFICES ASSUME IInv, ReadLine
             PROVE  IInv'
  OBVIOUS
<1> DEFINE i == Current
           l == Head(rest[i])
           first == i # 1 \/ line = 0
           ee == Flush(first)
           lines == IF first THEN <<>> ELSE v
<1>1. i \in 1..Len(rest) /\ rest[i] # <<>> /\ rest[i] \in Seq(PossibleLines)
  <2>1. i \in Remaining /\ i \in 1..Len(rest)
    BY CurrentIsThere DEF ReadLine, IInv, Reading
  <2> QED
    BY <2>1, ElementOfSeq DEF Remaining, IInv, Reading
<1> HIDE DEF i
<1>2. l \in PossibleLines /\ Tail(rest[i]) \in Seq(PossibleLines)
  BY <1>1, HeadTailProperties
<1>3. Index(ee)
  BY EmitKeeps DEF Flush, IInv, Reading
<1>4. lines \in Seq(PossibleLines)
  BY EmptySeq DEF IInv, Reading
<1>5. rest' = <<Tail(rest[i])>> \o SubSeq(rest, i + 1, Len(rest))
  BY DEF ReadLine, i
<1>6. \/ entries' = ee /\ v' = lines
      \/ entries' = (IF lines # <<>> THEN Emit(ee, lines) ELSE ee) /\ v' = <<>>
      \/ entries' = ee /\ v' = Append(lines, l)
  BY DEF ReadLine, i
<1>7. pc' = "read"
  BY DEF ReadLine
<1> HIDE DEF l, ee, lines
<1>8. rest' \in Seq(Seq(PossibleLines))
  <2>1. rest \in Seq(Seq(PossibleLines)) /\ Len(rest) \in Nat
    BY LenProperties DEF IInv, Reading
  <2>2. SubSeq(rest, i + 1, Len(rest)) \in Seq(Seq(PossibleLines))
    <3>1. i \in 0..Len(rest)
      BY <1>1, <2>1
    <3> QED
      BY <2>1, <3>1, CutInTwo
  <2>3. <<Tail(rest[i])>> \in Seq(Seq(PossibleLines))
    BY <1>2
  <2> QED
    BY <1>5, <2>2, <2>3, ConcatProperties
<1>9. v' \in Seq(PossibleLines)
  <2>1. Append(lines, l) \in Seq(PossibleLines) /\ <<>> \in Seq(PossibleLines)
    BY <1>2, <1>4, EmptySeq, AppendProperties
  <2>2. v' \in {lines, <<>>, Append(lines, l)}
    BY <1>6
  <2> QED
    BY <1>4, <2>1, <2>2
<1>10. Index(entries')
  BY <1>3, <1>4, <1>6, EmitKeeps
<1> QED
  BY <1>7, <1>8, <1>9, <1>10 DEF IInv, Reading, Ready, Index, IsEntry, Sorted, NoneTwice

(* The invariant when the last file ends: the last entry is added, then all
   are sorted and weeded. *)
LEMMA InvEndOfFiles == IInv /\ EndOfFiles => IInv'
<1> SUFFICES ASSUME IInv, EndOfFiles
             PROVE  IInv'
  OBVIOUS
<1> DEFINE ee == IF v # <<>> THEN Emit(entries, v) ELSE entries
<1>1. Index(ee)
  BY EmitKeeps DEF IInv, Reading
<1>2. entries' = Weed(StableSort(ee)) /\ v' = <<>> /\ rest' = rest
  BY DEF EndOfFiles
<1> HIDE DEF ee
<1>3. Index(entries') /\ Sorted(entries') /\ NoneTwice(entries')
  BY <1>1, <1>2, IndexIsSorted
<1>4. v' \in Seq(PossibleLines)
  BY <1>2, EmptySeq
<1> QED
  BY <1>2, <1>3, <1>4 DEF IInv, Reading, Index, Sorted, NoneTwice

(* Requests leave the index alone. *)
LEMMA InvSame == IInv /\ UNCHANGED vars => IInv'
BY DEF vars, IInv, Reading, Ready, Index, Sorted, NoneTwice

(* Each step keeps the invariant. *)
LEMMA InvNext == IInv /\ [CNext]_<<vars, served, asked>> => IInv'
<1> SUFFICES ASSUME IInv, [CNext]_<<vars, served, asked>>
             PROVE  IInv'
  OBVIOUS
<1>1. CASE Build
  BY <1>1, InvReadLine, InvEndOfFiles DEF Build, Next
<1>2. CASE Request
  BY <1>2, InvSame DEF Request
<1>3. CASE GenerateMore
  BY <1>3, InvSame DEF GenerateMore, Tick
<1>4. CASE Finish
  BY <1>4, InvSame DEF Finish
<1>5. CASE UNCHANGED <<vars, served, asked>>
  BY <1>5, InvSame
<1> QED
  BY <1>1, <1>2, <1>3, <1>4, <1>5 DEF CNext

(* The invariant holds in every state (index.cc 105-138). *)
THEOREM Inductive == CSpec => []IInv
<1> QED
  BY InvInit, InvNext, PTL DEF CSpec

(***************************************************************************)
(* If the photos are in the order of their timestamps, each photo of the   *)
(* index is found, has the right neighbours, and no other photo is found   *)
(* (has, get, prev and next in index.cc, lines 166-183 and 261-280).       *)
(***************************************************************************)
THEOREM PhotosAreAlwaysLinked == CSpec => []PhotosAreLinked
<1>1. IInv => PhotosAreLinked
  BY IndexIsLinked DEF IInv
<1> QED
  BY <1>1, Inductive, PTL

(***************************************************************************)
(* In an album of which all entries have timestamps (those without are not *)
(* ordered as allergy.5 84 says),                                          *)
(* the galleries of days, months and years have exactly the photos of      *)
(* those, in order of time; and no day with photos is skipped (in, on,     *)
(* prev and next in index.cc, lines 201-259).                              *)
(***************************************************************************)
THEOREM RangesAreAlwaysExact == CSpec => []RangesAreExact
<1>1. IInv => RangesAreExact
  BY IndexHasRanges DEF IInv
<1> QED
  BY <1>1, Inductive, PTL

-----------------------------------------------------------------------------
(***************************************************************************)
(* No photo is lost.  Where the reading is: k files have been read, of the *)
(* files ff, and c lines of the next one; rr is what is left.              *)
(***************************************************************************)
PlaceAt(ff, rr, k, c) ==
    /\ k \in Nat /\ c \in Nat /\ Len(ff) = k + Len(rr)
    /\ \A j \in 2..Len(rr) : rr[j] = ff[k + j]
    /\ rr # <<>> => /\ Len(ff[k + 1]) = c + Len(rr[1])
                    /\ \A h \in 1..Len(rr[1]) : rr[1][h] = ff[k + 1][c + h]

(* Line j of file m has been read. *)
IsRead(k, c, m, j) == m <= k \/ (m = k + 1 /\ j <= c)

(***************************************************************************)
(* getline() reads the first line of what is left, past i - 1 empty files: *)
(* that is the next line, or the first one of a later file.  Afterwards r2 *)
(* is left, and k2 files and c2 lines have been read, that line among them *)
(* and no other which was not before.                                      *)
(***************************************************************************)
Moves(rr, k, c, i, r2, k2, c2) ==
    /\ i \in 1..Len(rr) /\ rr[i] # <<>> /\ \A j \in 1..(i - 1) : rr[j] = <<>>
    /\ r2 = <<Tail(rr[i])>> \o SubSeq(rr, i + 1, Len(rr))
    /\ k2 = k + i - 1
    /\ c2 = IF i = 1 THEN c + 1 ELSE 1

Moved(ff, k, c, l, r2, k2, c2) ==
    /\ PlaceAt(ff, r2, k2, c2)
    /\ r2 # <<>>
    /\ k2 + 1 \in DOMAIN ff /\ c2 \in DOMAIN ff[k2 + 1]
    /\ l = ff[k2 + 1][c2]
    /\ \A m \in DOMAIN ff : \A j \in DOMAIN ff[m] :
          IsRead(k2, c2, m, j) <=> IsRead(k, c, m, j) \/ (m = k2 + 1 /\ j = c2)

(* And so the place is known again. *)
LEMMA PlaceMoves ==
    ASSUME NEW ff \in Seq(Seq(PossibleLines)), NEW rr \in Seq(Seq(PossibleLines)),
           NEW k, NEW c, PlaceAt(ff, rr, k, c),
           NEW i, NEW r2, NEW k2, NEW c2, Moves(rr, k, c, i, r2, k2, c2)
    PROVE  Moved(ff, k, c, Head(rr[i]), r2, k2, c2)
<1> SUFFICES ASSUME i \in 1..Len(rr), rr[i] # <<>>, \A j \in 1..(i - 1) : rr[j] = <<>>,
                    r2 = <<Tail(rr[i])>> \o SubSeq(rr, i + 1, Len(rr)),
                    k2 = k + i - 1,
                    c2 = IF i = 1 THEN c + 1 ELSE 1
             PROVE  Moved(ff, k, c, Head(rr[i]), r2, k2, c2)
  BY DEF Moves
<1>1. /\ Len(rr) \in Nat /\ Len(ff) \in Nat /\ k \in Nat /\ c \in Nat
      /\ Len(ff) = k + Len(rr) /\ DOMAIN ff = 1..Len(ff) /\ rr # <<>>
  BY LenProperties, EmptySeq DEF PlaceAt
<1>2. \A m \in 1..Len(ff) : ff[m] \in Seq(PossibleLines)
  BY ElementOfSeq
<1>3. \A m \in 1..Len(ff) : Len(ff[m]) \in Nat /\ DOMAIN ff[m] = 1..Len(ff[m])
  BY <1>2, LenProperties
<1>4. \A m \in 1..Len(rr) : rr[m] \in Seq(PossibleLines) /\ Len(rr[m]) \in Nat
  BY ElementOfSeq, LenProperties
<1>5. Len(rr[i]) # 0 /\ Len(rr[i]) > 0
  BY <1>4, EmptySeq
<1>6. /\ Tail(rr[i]) \in Seq(PossibleLines)
      /\ Len(Tail(rr[i])) = Len(rr[i]) - 1
      /\ \A h \in 1..Len(Tail(rr[i])) : Tail(rr[i])[h] = rr[i][h + 1]
      /\ Head(rr[i]) = rr[i][1]
  BY <1>4, HeadTailProperties
(* What is left of the file at hand, seen from its start *)
<1>7. /\ k2 \in Nat /\ c2 \in Nat /\ k2 + 1 \in 1..Len(ff) /\ k2 + 1 = k + i
      /\ Len(ff[k2 + 1]) = (c2 - 1) + Len(rr[i])
      /\ \A h \in 1..Len(rr[i]) : rr[i][h] = ff[k2 + 1][(c2 - 1) + h]
  <2>1. CASE i = 1
    BY <1>1, <2>1 DEF PlaceAt
  <2>2. CASE i # 1
    <3>1. i \in 2..Len(rr) /\ k2 \in Nat /\ k + i = k2 + 1 /\ c2 = 1 /\ c2 \in Nat
      BY <1>1, <2>2
    <3>2. rr[i] = ff[k2 + 1]
      BY <3>1 DEF PlaceAt
    <3>3. Len(rr[i]) = 0 + Len(rr[i]) /\ \A h \in 1..Len(rr[i]) : 0 + h = h
      BY <1>4
    <3>4. c2 - 1 = 0 /\ k2 + 1 \in 1..Len(ff)
      BY <1>1, <3>1
    <3>5. Len(ff[k2 + 1]) = (c2 - 1) + Len(rr[i])
      BY ONLY <3>2, <3>3, <3>4
    <3>6. \A h \in 1..Len(rr[i]) : rr[i][h] = ff[k2 + 1][(c2 - 1) + h]
      BY ONLY <3>2, <3>3, <3>4
    <3> QED
      BY <3>1, <3>4, <3>5, <3>6
  <2> QED
    BY <2>1, <2>2
<1>8. c2 \in 1..Len(ff[k2 + 1]) /\ Head(rr[i]) = ff[k2 + 1][c2]
  <2>1. 1 \in 1..Len(rr[i]) /\ (c2 - 1) + 1 = c2
    <3>1. Len(rr[i]) \in Nat /\ Len(rr[i]) > 0 /\ c2 \in Nat
      BY <1>4, <1>5, <1>7
    <3> QED
      BY ONLY <3>1
  <2> DEFINE a == Len(rr[i])
             b == Len(ff[k2 + 1])
  <2>2. c2 \in 1..b
    <3>1. a \in Nat /\ a > 0 /\ b = (c2 - 1) + a /\ c2 \in Nat /\ c2 > 0
      BY <1>1, <1>4, <1>5, <1>7
    <3> HIDE DEF a, b
    <3> QED
      BY <3>1
  <2> QED
    BY <1>6, <1>7, <2>1, <2>2
<1> DEFINE t == SubSeq(rr, i + 1, Len(rr))
<1>9. /\ t \in Seq(Seq(PossibleLines)) /\ Len(t) = Len(rr) - i
      /\ \A h \in 1..(Len(rr) - i) : t[h] = rr[i + h]
  <2>1. \A h \in (i + 1)..Len(rr) : rr[h] \in Seq(PossibleLines)
    BY <1>1, <1>4
  <2>2. i + 1 \in Int /\ Len(rr) \in Int
    BY <1>1
  <2>3. /\ t \in Seq(Seq(PossibleLines))
        /\ Len(t) = IF i + 1 <= Len(rr) THEN Len(rr) - (i + 1) + 1 ELSE 0
        /\ \A h \in 1..(Len(rr) - (i + 1) + 1) : t[h] = rr[(i + 1) + h - 1]
    BY <2>1, <2>2, SubSeqProperties
  <2> HIDE DEF t
  <2> QED
    BY <1>1, <2>3
<1> HIDE DEF t
<1>10. /\ Len(r2) = 1 + (Len(rr) - i)
       /\ r2[1] = Tail(rr[i])
       /\ \A j \in 2..Len(r2) : r2[j] = rr[i + j - 1]
  <2>1. <<Tail(rr[i])>> \in Seq(Seq(PossibleLines)) /\ Len(<<Tail(rr[i])>>) = 1
    BY <1>6
  <2>2. r2 = <<Tail(rr[i])>> \o t
    BY DEF t
  <2> DEFINE u == <<Tail(rr[i])>>
  <2>3. /\ Len(r2) = 1 + Len(t)
        /\ \A j \in 1..(1 + Len(t)) : r2[j] = IF j <= 1 THEN u[j] ELSE t[j - 1]
    <3>1. Len(u) = 1 /\ u \in Seq(Seq(PossibleLines)) /\ r2 = u \o t
      BY <2>1, <2>2
    <3> HIDE DEF u
    <3>2. /\ Len(u \o t) = Len(u) + Len(t)
          /\ \A j \in 1..(Len(u) + Len(t)) :
                (u \o t)[j] = IF j <= Len(u) THEN u[j] ELSE t[j - Len(u)]
      BY <1>9, <3>1, ConcatProperties
    <3> QED
      BY <3>1, <3>2
  <2>4. ASSUME NEW j \in 2..Len(r2)
        PROVE  r2[j] = rr[i + j - 1]
    <3>1. j \in 1..(1 + Len(t)) /\ ~(j <= 1) /\ j - 1 \in 1..(Len(rr) - i)
      BY <1>1, <1>9, <2>3
    <3>2. r2[j] = t[j - 1]
      BY <2>3, <3>1
    <3>3. t[j - 1] = rr[i + (j - 1)]
      BY <1>9, <3>1
    <3>4. i + (j - 1) = i + j - 1
      BY <1>1
    <3> QED
      BY <3>2, <3>3, <3>4
  <2>5. 1 \in 1..(1 + Len(t)) /\ u[1] = Tail(rr[i])
    BY <1>1, <1>9
  <2>6. r2[1] = u[1]
    <3> HIDE DEF u
    <3> QED
      BY <2>3, <2>5
  <2> QED
    BY <1>9, <2>3, <2>4, <2>5, <2>6
<1>11. r2 # <<>>
  BY <1>1, <1>10, EmptySeq
<1>12. PlaceAt(ff, r2, k2, c2)
  <2>1. Len(ff) = k2 + Len(r2)
    <3> DEFINE a == Len(ff)
               b == Len(rr)
               d == Len(r2)
    <3>1. a = k + b /\ b \in Nat /\ k \in Nat /\ d = 1 + (b - i) /\ i \in Nat /\ k2 = k + i - 1
      BY <1>1, <1>10
    <3> HIDE DEF a, b, d
    <3>2. a = k2 + d
      BY <3>1
    <3> QED
      BY <3>2 DEF a, d
  <2>2. ASSUME NEW j \in 2..Len(r2)
        PROVE  r2[j] = ff[k2 + j]
    <3>1. i + j - 1 \in 2..Len(rr) /\ k + (i + j - 1) = k2 + j
      BY <1>1, <1>10
    <3> QED
      BY <1>10, <3>1 DEF PlaceAt
  <2>3. Len(ff[k2 + 1]) = c2 + Len(r2[1])
    <3> DEFINE a == Len(rr[i])
               b == Len(ff[k2 + 1])
               d == Len(Tail(rr[i]))
    <3>1. a \in Nat /\ b = (c2 - 1) + a /\ c2 \in Nat /\ d = a - 1 /\ r2[1] = Tail(rr[i])
      BY <1>4, <1>6, <1>7, <1>10
    <3> HIDE DEF a, b, d
    <3>2. b = c2 + d
      BY ONLY <3>1
    <3> QED
      BY <1>10, <3>2 DEF b, d
  <2>4. ASSUME NEW h \in 1..Len(r2[1])
        PROVE  r2[1][h] = ff[k2 + 1][c2 + h]
    <3>1. h \in 1..Len(Tail(rr[i])) /\ h \in Nat
      BY <1>10, <1>6
    <3>2. r2[1][h] = rr[i][h + 1]
      BY <1>6, <1>10, <3>1
    <3> DEFINE a == Len(rr[i])
               d == Len(Tail(rr[i]))
    <3>3. h + 1 \in 1..a /\ (c2 - 1) + (h + 1) = c2 + h
      <4>1. h \in 1..d /\ a \in Nat /\ d = a - 1 /\ c2 \in Nat
        BY <1>4, <1>6, <1>7, <3>1
      <4> HIDE DEF a, d
      <4> QED
        BY <4>1
    <3>4. rr[i][h + 1] = ff[k2 + 1][(c2 - 1) + (h + 1)]
      BY <1>7, <3>3
    <3> QED
      BY <3>2, <3>3, <3>4
  <2> QED
    BY <1>7, <2>1, <2>2, <2>3, <2>4 DEF PlaceAt
<1>13. ASSUME NEW m \in DOMAIN ff, NEW j \in DOMAIN ff[m]
       PROVE  IsRead(k2, c2, m, j) <=> IsRead(k, c, m, j) \/ (m = k2 + 1 /\ j = c2)
  <2>0. m \in 1..Len(ff)
    BY <1>1
  <2>1. m \in 1..Len(ff) /\ j \in 1..Len(ff[m]) /\ Len(ff[m]) \in Nat /\ j \in Nat
    BY ONLY <1>3, <2>0, j \in DOMAIN ff[m]
  <2>2. CASE i = 1
    <3>1. k2 = k /\ c2 = c + 1 /\ k \in Nat /\ c \in Nat /\ m \in Nat /\ j \in Nat
      BY <1>1, <2>1, <2>2
    <3>2. m <= k2 \/ (m = k2 + 1 /\ j <= c2)
             <=> m <= k \/ (m = k + 1 /\ j <= c) \/ (m = k2 + 1 /\ j = c2)
      BY ONLY <3>1
    <3> QED
      BY ONLY <3>2 DEF IsRead
  <2>3. CASE i # 1
    <3>1. i \in 2..Len(rr) /\ c2 = 1
      BY <1>1, <2>3
    <3>2. m = k + 1 => j <= c
      <4> SUFFICES ASSUME m = k + 1 PROVE j <= c
        OBVIOUS
      <4>1. rr[1] = <<>> /\ Len(rr[1]) = 0
        BY <3>1, EmptySeq
      <4>2. Len(ff[m]) = c + 0
        BY <1>1, <4>1 DEF PlaceAt
      <4> QED
        BY <1>1, <2>1, <4>2
    <3>3. m > k + 1 => ~(m < k + i)
      <4> SUFFICES ASSUME m > k + 1, m < k + i PROVE FALSE
        OBVIOUS
      <4> DEFINE h == m - k
      <4>1. h \in 2..Len(rr) /\ h \in 1..(i - 1) /\ k + h = m
        <5> DEFINE b == Len(rr)
        <5>1. i \in Nat /\ i <= b /\ b \in Nat /\ k \in Nat /\ m \in Nat /\ m > k + 1 /\ m < k + i
          BY <1>1, <2>1
        <5> HIDE DEF b
        <5>2. h \in Nat /\ k + h = m
          <6>1. m \in Nat /\ k \in Nat /\ m >= k
            BY ONLY <5>1
          <6>2. m - k \in Nat
            BY ONLY <6>1
          <6>3. k + (m - k) = m
            BY ONLY <6>1
          <6> QED
            BY <6>2, <6>3
        <5> HIDE DEF h
        <5>3. h >= 2 /\ h <= i - 1 /\ h <= b
          BY ONLY <5>1, <5>2
        <5> QED
          BY <5>1, <5>2, <5>3 DEF b
      <4> HIDE DEF h
      <4>2. ff[m] = <<>> /\ Len(ff[m]) = 0
        BY <4>1, EmptySeq DEF PlaceAt
      <4> QED
        BY <2>1, <4>2
    <3>4. m \in Nat /\ j >= 1 /\ k \in Nat /\ c \in Nat /\ j \in Nat /\ i \in Nat /\ i > 1
          /\ k2 = k + i - 1 /\ c2 = 1
      BY <1>1, <2>1, <3>1
    <3>5. m <= k2 \/ (m = k2 + 1 /\ j <= 1)
             <=> m <= k \/ (m = k + 1 /\ j <= c) \/ (m = k2 + 1 /\ j = 1)
      <4>1. CASE m <= k
        BY ONLY <3>4, <4>1
      <4>2. CASE m = k + 1
        BY ONLY <3>2, <3>4, <4>2
      <4>3. CASE m > k + 1
        BY ONLY <3>3, <3>4, <4>3
      <4> QED
        BY ONLY <3>4, <4>1, <4>2, <4>3
    <3> QED
      BY ONLY <3>4, <3>5 DEF IsRead
  <2> QED
    BY <2>2, <2>3
<1> QED
  BY <1>1, <1>3, <1>7, <1>8, <1>11, <1>12, <1>13 DEF Moved

-----------------------------------------------------------------------------
(* A line is the first of an entry. *)
BeginsEntry(file, j) == IsText(file[j]) /\ ~Within(file, j - 1)

(* A line which begins an entry and has been read names the photo p. *)
Begun(ff, k, c, p) ==
    \E m \in DOMAIN ff : \E j \in DOMAIN ff[m] :
        IsRead(k, c, m, j) /\ BeginsEntry(ff[m], j) /\ PhotoOf(ff[m][j].name) = p

(* There is an entry for p, or it is what will be made of these lines. *)
Held(ee, lines, p) ==
    \/ \E i \in 1..Len(ee) : ee[i].photo = p
    \/ lines # <<>> /\ PhotoOf(lines[1].name) = p

(* The entries, and the one being read, are for what the files named so far. *)
Collected(ff, k, c, ee, lines) ==
    /\ \A i \in 1..Len(ee) : Begun(ff, k, c, ee[i].photo)
    /\ lines # <<>> => Begun(ff, k, c, PhotoOf(lines[1].name))
    /\ \A m \in DOMAIN ff : \A j \in DOMAIN ff[m] :
          IsRead(k, c, m, j) /\ BeginsEntry(ff[m], j) /\ IsPhoto(PhotoOf(ff[m][j].name))
              => Held(ee, lines, PhotoOf(ff[m][j].name))

(* emit(): the photo named in the first line gets its entry, if it is one. *)
LEMMA EmitAdds ==
    ASSUME NEW ee, Index(ee), NEW lines \in Seq(PossibleLines), lines # <<>>
    PROVE  LET p == PhotoOf(lines[1].name)
               r == Emit(ee, lines)
           IN  IF IsPhoto(p)
               THEN /\ Len(r) = Len(ee) + 1 /\ r[Len(ee) + 1].photo = p
                    /\ \A i \in 1..Len(ee) : r[i] = ee[i]
               ELSE r = ee
<1> DEFINE e == ParseEntry(lines, ee)
<1>1. Len(ee) \in Nat /\ e.photo = PhotoOf(lines[1].name)
  BY LenProperties, ParseEntryType DEF Index
<1>2. ee \in Seq(ToSet(ee) \cup {e})
  <2>1. \A i \in 1..Len(ee) : ee[i] \in ToSet(ee) \cup {e}
    BY <1>1 DEF ToSet, Index
  <2>2. ee = [i \in 1..Len(ee) |-> ee[i]]
    BY <1>1 DEF Index
  <2> QED
    BY <1>1, <2>1, <2>2
<1>3. /\ Len(Append(ee, e)) = Len(ee) + 1
      /\ \A i \in 1..Len(ee) : Append(ee, e)[i] = ee[i]
      /\ Append(ee, e)[Len(ee) + 1] = e
  BY <1>1, <1>2, AppendProperties
<1>4. Emit(ee, lines) = IF IsPhoto(e.photo) THEN Append(ee, e) ELSE ee
  BY DEF Emit
<1> HIDE DEF e
<1> QED
  BY <1>1, <1>3, <1>4

(* So emit() does not change what has been collected. *)
LEMMA EmitCollects ==
    ASSUME NEW ee, Index(ee), NEW lines \in Seq(PossibleLines), lines # <<>>,
           NEW ff, NEW k, NEW c, Collected(ff, k, c, ee, lines)
    PROVE  Collected(ff, k, c, Emit(ee, lines), <<>>)
<1> DEFINE r == Emit(ee, lines)
           q == PhotoOf(lines[1].name)
<1>1. /\ IsPhoto(q) => /\ Len(r) = Len(ee) + 1 /\ r[Len(ee) + 1].photo = q
                       /\ \A i \in 1..Len(ee) : r[i] = ee[i]
      /\ ~IsPhoto(q) => r = ee
  BY EmitAdds
<1>2. Len(ee) \in Nat
  BY LenProperties DEF Index
<1> HIDE DEF r, q
<1>3. \A i \in 1..Len(r) : Begun(ff, k, c, r[i].photo)
  <2>1. CASE IsPhoto(q)
    <3>1. Begun(ff, k, c, q)
      BY DEF Collected, q
    <3>2. \A i \in 1..Len(r) : i \in 1..Len(ee) \/ i = Len(ee) + 1
      BY <1>1, <1>2, <2>1
    <3> QED
      BY <1>1, <2>1, <3>1, <3>2 DEF Collected
  <2>2. CASE ~IsPhoto(q)
    BY <1>1, <2>2 DEF Collected
  <2> QED
    BY <2>1, <2>2
<1>4. ASSUME NEW p, IsPhoto(p), Held(ee, lines, p)
      PROVE  Held(r, <<>>, p)
  <2>1. CASE IsPhoto(q)
    <3>1. Len(ee) + 1 \in 1..Len(r) /\ \A i \in 1..Len(ee) : i \in 1..Len(r)
      BY <1>1, <1>2, <2>1
    <3> QED
      BY <1>1, <1>4, <2>1, <3>1 DEF Held, q
  <2>2. CASE ~IsPhoto(q)
    BY <1>1, <1>4, <2>2 DEF Held, q
  <2> QED
    BY <2>1, <2>2
<1> QED
  BY <1>3, <1>4 DEF Collected, r

(* A line which begins nothing names nothing. *)
LEMMA NothingBegins ==
    ASSUME NEW ff, NEW k, NEW c, NEW k2, NEW c2, NEW ee, NEW lines,
           Collected(ff, k, c, ee, lines),
           NEW m0 \in DOMAIN ff, NEW j0 \in DOMAIN ff[m0], ~BeginsEntry(ff[m0], j0),
           \A m \in DOMAIN ff : \A j \in DOMAIN ff[m] :
              IsRead(k2, c2, m, j) <=> IsRead(k, c, m, j) \/ (m = m0 /\ j = j0)
    PROVE  Collected(ff, k2, c2, ee, lines)
<1>1. \A p : Begun(ff, k, c, p) => Begun(ff, k2, c2, p)
  BY DEF Begun
<1>2. ASSUME NEW m \in DOMAIN ff, NEW j \in DOMAIN ff[m],
             IsRead(k2, c2, m, j), BeginsEntry(ff[m], j), IsPhoto(PhotoOf(ff[m][j].name))
      PROVE  Held(ee, lines, PhotoOf(ff[m][j].name))
  BY <1>2 DEF Collected
<1> QED
  BY <1>1, <1>2 DEF Collected

(* One which begins an entry names what that will be for. *)
LEMMA EntryBegins ==
    ASSUME NEW ff, NEW k, NEW c, NEW k2, NEW c2, NEW ee,
           Collected(ff, k, c, ee, <<>>),
           NEW m0 \in DOMAIN ff, NEW j0 \in DOMAIN ff[m0], BeginsEntry(ff[m0], j0),
           \A m \in DOMAIN ff : \A j \in DOMAIN ff[m] :
              IsRead(k2, c2, m, j) <=> IsRead(k, c, m, j) \/ (m = m0 /\ j = j0)
    PROVE  Collected(ff, k2, c2, ee, <<ff[m0][j0]>>)
<1> DEFINE l == ff[m0][j0]
<1>1. \A p : Begun(ff, k, c, p) => Begun(ff, k2, c2, p)
  BY DEF Begun
<1>2. Begun(ff, k2, c2, PhotoOf(l.name))
  BY DEF Begun
<1>3. <<l>> # <<>> /\ <<l>>[1] = l
  OBVIOUS
<1> HIDE DEF l
<1>4. ASSUME NEW m \in DOMAIN ff, NEW j \in DOMAIN ff[m],
             IsRead(k2, c2, m, j), BeginsEntry(ff[m], j), IsPhoto(PhotoOf(ff[m][j].name))
      PROVE  Held(ee, <<l>>, PhotoOf(ff[m][j].name))
  <2>1. CASE m = m0 /\ j = j0
    BY <1>3, <2>1 DEF Held, l
  <2>2. CASE IsRead(k, c, m, j)
    <3>1. Held(ee, <<>>, PhotoOf(ff[m][j].name))
      BY <1>4, <2>2 DEF Collected
    <3> QED
      BY <3>1 DEF Held
  <2> QED
    BY <1>4, <2>1, <2>2
<1>5. \A i \in 1..Len(ee) : Begun(ff, k2, c2, ee[i].photo)
  BY <1>1 DEF Collected
<1> QED
  BY <1>2, <1>3, <1>4, <1>5 DEF Collected, l

(* More lines of an entry do not change what it is for. *)
LEMMA EntryGoesOn ==
    ASSUME NEW ff, NEW k, NEW c, NEW ee, NEW lines \in Seq(PossibleLines), lines # <<>>,
           NEW l \in PossibleLines, Collected(ff, k, c, ee, lines)
    PROVE  Collected(ff, k, c, ee, Append(lines, l))
<1>1. Append(lines, l) # <<>> /\ Append(lines, l)[1] = lines[1]
  <2>1. 1 \in 1..Len(lines)
    BY LenProperties, EmptySeq
  <2> QED
    BY <2>1, AppendProperties
<1> QED
  BY <1>1 DEF Collected, Held

(* An entry goes on until a blank line, and comments are not there. *)
LEMMA WithinMoves ==
    ASSUME NEW file, NEW j \in Nat, j > 0
    PROVE  /\ ~Within(file, 0)
           /\ file[j] = BlankLine => ~Within(file, j)
           /\ IsText(file[j]) => Within(file, j)
           /\ file[j] = CommentLine => (Within(file, j) <=> Within(file, j - 1))
<1>1. ~IsText(BlankLine) /\ ~IsText(CommentLine)
  BY DEF IsText
<1>2. CommentLine # BlankLine
  BY DEF CommentLine, BlankLine
<1>3. file[j] = BlankLine => ~Within(file, j)
  <2> SUFFICES ASSUME file[j] = BlankLine, NEW i \in 1..j, \A h \in i..j : file[h] # BlankLine
               PROVE  FALSE
    BY DEF Within
  <2>1. j \in i..j
    OBVIOUS
  <2> QED
    BY <2>1
<1>4. IsText(file[j]) => Within(file, j)
  <2>1. j \in 1..j /\ \A h \in j..j : h = j
    OBVIOUS
  <2> QED
    BY <1>1, <2>1 DEF Within
<1>5. ASSUME file[j] = CommentLine
      PROVE  Within(file, j) <=> Within(file, j - 1)
  <2>1. \A i \in 1..j : i = j \/ i \in 1..(j - 1)
    OBVIOUS
  <2>2. \A i \in 1..(j - 1) : i \in 1..j /\ i..(j - 1) \subseteq i..j
    OBVIOUS
  <2>3. \A i \in 1..(j - 1) : \A h \in i..j : h = j \/ h \in i..(j - 1)
    OBVIOUS
  <2>4. ASSUME Within(file, j) PROVE Within(file, j - 1)
    BY <1>1, <1>5, <2>1, <2>2, <2>4 DEF Within
  <2>5. ASSUME Within(file, j - 1) PROVE Within(file, j)
    <3>1. PICK i \in 1..(j - 1) : IsText(file[i]) /\ \A h \in i..(j - 1) : file[h] # BlankLine
      BY <2>5 DEF Within
    <3>2. \A h \in i..j : file[h] # BlankLine
      BY <1>2, <1>5, <2>3, <3>1
    <3> QED
      BY <2>2, <3>1, <3>2 DEF Within
  <2> QED
    BY <2>4, <2>5
<1>6. ~Within(file, 0)
  BY DEF Within
<1> QED
  BY <1>3, <1>4, <1>5, <1>6

-----------------------------------------------------------------------------
(* Files which have been read and those which have not, while pc = "read" *)
Behind == Len(files) - Len(rest)

Scanning ==
    /\ PlaceAt(files, rest, Behind, line)
    /\ Collected(files, Behind, line, entries, v)
    /\ rest # <<>> => (v # <<>> <=> Within(files[Behind + 1], line))
    /\ rest = <<>> => v = <<>>

(* What the index has, when it is ready *)
Kept(ff, ee) ==
    /\ \A i \in 1..Len(ee) : \E m \in DOMAIN ff : \E j \in DOMAIN ff[m] :
          BeginsEntry(ff[m], j) /\ PhotoOf(ff[m][j].name) = ee[i].photo
    /\ \A m \in DOMAIN ff : \A j \in DOMAIN ff[m] :
          BeginsEntry(ff[m], j) /\ IsPhoto(PhotoOf(ff[m][j].name))
              => \E i \in 1..Len(ee) : SamePhoto(ee[i].photo, PhotoOf(ff[m][j].name))

KeptInv ==
    /\ IInv
    /\ \E family \in Scenarios : files \in family
    /\ pc = "read" => Scanning
    /\ Ready => Kept(files, entries)

(* Sorting and weeding keep the entries, but for repeated photos. *)
LEMMA SortingKeeps ==
    ASSUME NEW ee, Index(ee)
    PROVE  LET w == Weed(StableSort(ee))
           IN  /\ \A i \in 1..Len(w) : \E j \in 1..Len(ee) : w[i] = ee[j]
               /\ \A j \in 1..Len(ee) : \E i \in 1..Len(w) : SamePhoto(w[i].photo, ee[j].photo)
<1> DEFINE s == StableSort(ee)
           w == Weed(s)
<1>1. Len(ee) \in Nat /\ DOMAIN ee = 1..Len(ee) /\ Stamped(ee)
  BY LenProperties DEF Index, Stamped, IsEntry
<1>2. /\ Len(s) = Len(ee) /\ DOMAIN s = 1..Len(ee)
      /\ \A k \in 1..Len(ee) : \E i \in 1..Len(ee) : s[k] = ee[i]
      /\ \A i \in 1..Len(ee) : \E k \in 1..Len(ee) : s[k] = ee[i]
  BY <1>1, SortedAfterSort
<1> HIDE DEF s
<1>3. Weeded(w, s, Len(s))
  BY <1>1, <1>2, WeedWeeds
<1> HIDE DEF w
<1>4. \A i \in 1..Len(w) : \E j \in 1..Len(ee) : w[i] = ee[j]
  <2> TAKE i \in 1..Len(w)
  <2>1. PICK k \in 1..Len(ee) : w[i] = s[k]
    BY <1>2, <1>3 DEF Weeded
  <2> QED
    BY <1>2, <2>1
<1>5. \A j \in 1..Len(ee) : \E i \in 1..Len(w) : SamePhoto(w[i].photo, ee[j].photo)
  <2> TAKE j \in 1..Len(ee)
  <2>1. PICK k \in 1..Len(ee) : s[k] = ee[j]
    BY <1>2
  <2> QED
    BY <1>2, <1>3, <2>1 DEF Weeded
<1> QED
  BY <1>4, <1>5 DEF w, s

(* At the end of the files every line has been read. *)
LEMMA AllIsRead ==
    ASSUME NEW ff \in Seq(Seq(PossibleLines)), NEW rr \in Seq(Seq(PossibleLines)),
           NEW k, NEW c, PlaceAt(ff, rr, k, c), \A i \in DOMAIN rr : rr[i] = <<>>,
           NEW m \in DOMAIN ff, NEW j \in DOMAIN ff[m]
    PROVE  IsRead(k, c, m, j)
<1>1. /\ Len(rr) \in Nat /\ k \in Nat /\ c \in Nat /\ Len(ff) = k + Len(rr)
      /\ m \in 1..Len(ff) /\ DOMAIN rr = 1..Len(rr)
  BY LenProperties DEF PlaceAt
<1>2. Len(ff[m]) \in Nat /\ j \in 1..Len(ff[m])
  <2>1. ff[m] \in Seq(PossibleLines)
    BY <1>1, ElementOfSeq
  <2> QED
    BY <2>1, LenProperties
<1>0. Len(<<>>) = 0 /\ \A i \in 1..Len(rr) : rr[i] = <<>>
  BY <1>1, EmptySeq
<1>3. CASE m <= k
  BY <1>3 DEF IsRead
<1>4. CASE m = k + 1
  <2>1. 1 \in 1..Len(rr)
    BY <1>1, <1>4
  <2>2. rr # <<>> /\ rr[1] = <<>> /\ Len(rr[1]) = 0
    BY <1>0, <1>1, <2>1
  <2>3. Len(ff[m]) = c + 0
    BY <1>4, <2>2 DEF PlaceAt
  <2> QED
    BY <1>1, <1>2, <1>4, <2>3 DEF IsRead
<1>5. CASE m > k + 1
  <2>1. PICK h \in 2..Len(rr) : m = k + h
    <3> DEFINE h == m - k
    <3>1. h \in Nat /\ m = k + h
      <4>1. m \in Nat /\ k \in Nat /\ m >= k
        BY <1>1, <1>5
      <4> QED
        BY ONLY <4>1
    <3> HIDE DEF h
    <3>2. h \in 2..Len(rr)
      BY <1>1, <1>5, <3>1
    <3> QED
      BY <3>1, <3>2
  <2>2. ff[m] = rr[h]
    BY <2>1 DEF PlaceAt
  <2>3. ff[m] = <<>> /\ Len(ff[m]) = 0
    BY <1>0, <1>1, <2>1, <2>2
  <2> QED
    BY <1>2, <2>3
<1> QED
  BY <1>1, <1>3, <1>4, <1>5

(* Nothing has been read at first. *)
LEMMA KeptInit == CInit => KeptInv
<1> SUFFICES ASSUME CInit PROVE KeptInv
  OBVIOUS
<1>1. PICK family \in Scenarios : files \in family
  BY DEF CInit, PInit, Init
<1>2. rest = files /\ line = 0 /\ v = <<>> /\ entries = <<>> /\ pc = "read"
  BY DEF CInit, PInit, Init
<1>3. files \in Seq(Seq(PossibleLines)) /\ Len(files) \in Nat
  BY <1>1, ScenarioAssumption, LenProperties
<1>4. Behind = 0
  BY <1>2, <1>3 DEF Behind
<1>5. rest # <<>> => Len(files[1]) \in Nat
  <2> SUFFICES ASSUME rest # <<>> PROVE Len(files[1]) \in Nat
    OBVIOUS
  <2>1. 1 \in 1..Len(files)
    BY <1>2, <1>3, EmptySeq
  <2>2. files[1] \in Seq(PossibleLines)
    BY <1>3, <2>1, ElementOfSeq
  <2> QED
    BY <2>2, LenProperties
<1>6. PlaceAt(files, rest, Behind, line)
  BY <1>2, <1>3, <1>4, <1>5 DEF PlaceAt
<1>7. ASSUME NEW m \in DOMAIN files, NEW j \in DOMAIN files[m]
      PROVE  ~IsRead(Behind, line, m, j)
  <2>1. m \in 1..Len(files)
    BY <1>3, LenProperties
  <2>2. files[m] \in Seq(PossibleLines)
    BY <1>3, <2>1, ElementOfSeq
  <2>3. j \in 1..Len(files[m]) /\ Len(files[m]) \in Nat
    BY <2>2, LenProperties
  <2> QED
    BY <1>2, <1>4, <2>1, <2>3 DEF IsRead
<1>8. Collected(files, Behind, line, entries, v)
  <2>1. Len(entries) = 0
    BY <1>2, EmptySeq
  <2> QED
    BY <1>2, <1>7, <2>1 DEF Collected
<1>9. ~Within(files[Behind + 1], line)
  BY <1>2 DEF Within
<1> QED
  BY <1>1, <1>2, <1>6, <1>8, <1>9, InvInit DEF KeptInv, Scanning, Ready

(* A line: what the entries and the entry being read are for is as before,
   but for an entry which this line begins. *)
LEMMA KeptReadLine == KeptInv /\ ReadLine => KeptInv'
<1> SUFFICES ASSUME KeptInv, ReadLine
             PROVE  KeptInv'
  OBVIOUS
<1> DEFINE i == Current
           l == Head(rest[i])
           first == i # 1 \/ line = 0
           ee == Flush(first)
           lines == IF first THEN <<>> ELSE v
           k == Behind
           k2 == k + i - 1
           c2 == IF i = 1 THEN line + 1 ELSE 1
<1>1. /\ pc = "read" /\ Scanning /\ Index(entries) /\ v \in Seq(PossibleLines)
      /\ rest \in Seq(Seq(PossibleLines))
  BY DEF ReadLine, KeptInv, IInv, Reading
<1>2. PICK family \in Scenarios : files \in family
  BY DEF KeptInv
<1>3. files \in Seq(Seq(PossibleLines))
  BY <1>2, ScenarioAssumption
<1>4. /\ i \in 1..Len(rest) /\ rest[i] # <<>>
      /\ \A j \in 1..(i - 1) : rest[j] = <<>>
  <2>1. i \in Remaining /\ i \in 1..Len(rest)
    BY <1>1, CurrentIsThere DEF ReadLine
  <2>2. \A j \in Remaining : i <= j
    <3>1. Remaining \in SUBSET Nat
      BY <1>1, LenProperties DEF Remaining
    <3>2. \E x \in Remaining : \A j \in Remaining : x <= j
      BY <3>1, <2>1, LeastElement
    <3> QED
      BY <3>2 DEF Current
  <2>3. ASSUME NEW j \in 1..(i - 1)
        PROVE  rest[j] = <<>>
    <3>1. j \in 1..Len(rest) /\ ~(i <= j)
      BY <1>1, <2>1, LenProperties
    <3>2. j \notin Remaining
      BY <2>2, <3>1
    <3> QED
      BY <1>1, <3>1, <3>2, LenProperties DEF Remaining
  <2> QED
    BY <2>1, <2>3 DEF Remaining
<1>5. /\ rest' = <<Tail(rest[i])>> \o SubSeq(rest, i + 1, Len(rest))
      /\ line' = IF first THEN 1 ELSE line + 1
      /\ files' = files /\ pc' = "read"
      /\ \/ l = CommentLine /\ entries' = ee /\ v' = lines
         \/ /\ l = BlankLine /\ v' = <<>>
            /\ entries' = IF lines # <<>> THEN Emit(ee, lines) ELSE ee
         \/ IsText(l) /\ entries' = ee /\ v' = Append(lines, l)
  BY DEF ReadLine, IsText
<1>6. PlaceAt(files, rest, k, line)
  BY <1>1 DEF Scanning
<1> HIDE DEF i, k, k2, c2
<1>7. Moved(files, k, line, l, rest', k2, c2)
  <2>1. Moves(rest, k, line, i, rest', k2, c2)
    BY <1>4, <1>5 DEF Moves, k2, c2
  <2> QED
    BY <1>1, <1>3, <1>6, <2>1, PlaceMoves
<1>8. /\ line' = c2 /\ c2 \in Nat /\ c2 > 0 /\ line \in Nat /\ Behind' = k2
      /\ first => c2 = 1
      /\ ~first => i = 1 /\ k2 = k /\ c2 - 1 = line
  <2>1. line \in Nat /\ k \in Nat
    BY <1>6 DEF PlaceAt
  <2>2. Len(files) = k2 + Len(rest') /\ k2 \in Nat
    BY <1>7 DEF Moved, PlaceAt
  <2>3. Len(rest') \in Nat
    <3>1. IInv'
      BY InvReadLine DEF KeptInv
    <3> QED
      BY <3>1, LenProperties DEF IInv, Reading
  <2>4. Behind' = k2
    BY <1>5, <2>2, <2>3 DEF Behind
  <2> QED
    BY <1>5, <2>1, <2>2, <2>4 DEF c2, k2
<1>9. l \in PossibleLines
  BY <1>1, <1>4, ElementOfSeq, HeadTailProperties
<1>10. lines # <<>> <=> Within(files[k2 + 1], c2 - 1)
  <2>1. CASE first
    <3>1. c2 - 1 = 0
      BY <1>8, <2>1
    <3> QED
      BY <2>1, <3>1 DEF Within
  <2>2. CASE ~first
    <3>1. rest # <<>>
      BY <1>1, <1>4, EmptySeq
    <3> QED
      BY <1>1, <1>8, <2>2, <3>1 DEF Scanning, k
  <2> QED
    BY <2>1, <2>2
<1>11. /\ Index(ee) /\ lines \in Seq(PossibleLines)
       /\ Collected(files, k, line, ee, lines)
  <2>1. Collected(files, k, line, entries, v)
    BY <1>1 DEF Scanning, k
  <2>2. CASE first /\ v # <<>>
    BY <1>1, <2>1, <2>2, EmitKeeps, EmitCollects, EmptySeq DEF Flush
  <2>3. CASE ~(first /\ v # <<>>)
    BY <1>1, <2>1, <2>3, EmptySeq DEF Flush
  <2> QED
    BY <2>2, <2>3
<1> HIDE DEF ee, lines, first, l
<1> DEFINE file == files[k2 + 1]
<1>12. /\ l = BlankLine => ~Within(file, c2)
       /\ IsText(l) => Within(file, c2)
       /\ l = CommentLine => (Within(file, c2) <=> lines # <<>>)
  <2>1. file[c2] = l
    BY <1>7 DEF Moved
  <2> HIDE DEF file
  <2> QED
    BY <1>8, <1>10, <2>1, WithinMoves DEF file
<1>13. BeginsEntry(file, c2) <=> IsText(l) /\ lines = <<>>
  BY <1>7, <1>10 DEF BeginsEntry, Moved
<1>14. ~BeginsEntry(file, c2) => Collected(files, k2, c2, ee, lines)
  BY <1>7, <1>11, NothingBegins DEF Moved
<1>15. BeginsEntry(file, c2) => Collected(files, k2, c2, ee, <<l>>)
  <2> SUFFICES ASSUME BeginsEntry(file, c2)
               PROVE  Collected(files, k2, c2, ee, <<l>>)
    OBVIOUS
  <2>1. Collected(files, k, line, ee, <<>>)
    BY <1>11, <1>13
  <2>2. Collected(files, k2, c2, ee, <<files[k2 + 1][c2]>>)
    BY <1>7, <2>1, EntryBegins DEF Moved
  <2> QED
    BY <1>7, <2>2 DEF Moved
<1> HIDE DEF file
<1>16. ~IsText(CommentLine) /\ ~IsText(BlankLine)
  BY DEF IsText
<1>17. /\ Collected(files, k2, c2, entries', v')
       /\ v' # <<>> <=> Within(file, c2)
  <2>1. CASE l = CommentLine /\ entries' = ee /\ v' = lines
    BY <1>12, <1>13, <1>14, <1>16, <2>1
  <2>2. CASE /\ l = BlankLine /\ v' = <<>>
             /\ entries' = IF lines # <<>> THEN Emit(ee, lines) ELSE ee
    <3>1. Collected(files, k2, c2, ee, lines)
      BY <1>13, <1>14, <1>16, <2>2
    <3>2. lines # <<>> => Collected(files, k2, c2, Emit(ee, lines), <<>>)
      BY <1>11, <3>1, EmitCollects
    <3> QED
      BY <1>12, <2>2, <3>1, <3>2
  <2>3. CASE IsText(l) /\ entries' = ee /\ v' = Append(lines, l) /\ lines = <<>>
    <3>1. v' = <<l>> /\ v' # <<>>
      BY <2>3
    <3> QED
      BY <1>12, <1>13, <1>15, <2>3, <3>1
  <2>4. CASE IsText(l) /\ entries' = ee /\ v' = Append(lines, l) /\ lines # <<>>
    <3>1. Collected(files, k2, c2, ee, lines)
      BY <1>13, <1>14, <2>4
    <3>2. Collected(files, k2, c2, ee, Append(lines, l))
      BY <1>9, <1>11, <2>4, <3>1, EntryGoesOn
    <3>3. v' # <<>>
      BY <1>9, <1>11, <2>4, AppendProperties
    <3> QED
      BY <1>12, <2>4, <3>2, <3>3
  <2> QED
    BY <1>5, <2>1, <2>2, <2>3, <2>4
<1>18. Scanning'
  BY <1>5, <1>7, <1>8, <1>17 DEF Scanning, Moved, file
<1>19. IInv'
  BY InvReadLine DEF KeptInv
<1> QED
  BY <1>2, <1>5, <1>18, <1>19 DEF KeptInv, Ready

(* The end of the files: the last entry is added, and sorting keeps them. *)
LEMMA KeptEndOfFiles == KeptInv /\ EndOfFiles => KeptInv'
<1> SUFFICES ASSUME KeptInv, EndOfFiles
             PROVE  KeptInv'
  OBVIOUS
<1> DEFINE ee == IF v # <<>> THEN Emit(entries, v) ELSE entries
<1>1. /\ pc = "read" /\ Scanning /\ Index(entries) /\ v \in Seq(PossibleLines)
      /\ rest \in Seq(Seq(PossibleLines))
  BY DEF EndOfFiles, KeptInv, IInv, Reading
<1>2. PICK family \in Scenarios : files \in family
  BY DEF KeptInv
<1>3. files \in Seq(Seq(PossibleLines))
  BY <1>2, ScenarioAssumption
<1>4. entries' = Weed(StableSort(ee)) /\ files' = files /\ pc' = "ready"
  BY DEF EndOfFiles
<1>5. \A i \in DOMAIN rest : rest[i] = <<>>
  BY DEF EndOfFiles, Remaining
<1>6. \A m \in DOMAIN files : \A j \in DOMAIN files[m] : IsRead(Behind, line, m, j)
  BY <1>1, <1>3, <1>5, AllIsRead DEF Scanning
<1>7. Index(ee) /\ Collected(files, Behind, line, ee, <<>>)
  BY <1>1, EmitKeeps, EmitCollects DEF Scanning
<1> HIDE DEF ee
<1>8. /\ \A i \in 1..Len(entries') : \E j \in 1..Len(ee) : entries'[i] = ee[j]
      /\ \A j \in 1..Len(ee) :
            \E i \in 1..Len(entries') : SamePhoto(entries'[i].photo, ee[j].photo)
  BY <1>4, <1>7, SortingKeeps
<1>9. ASSUME NEW i \in 1..Len(entries')
      PROVE  \E m \in DOMAIN files : \E j \in DOMAIN files[m] :
                BeginsEntry(files[m], j) /\ PhotoOf(files[m][j].name) = entries'[i].photo
  <2>1. PICK j \in 1..Len(ee) : entries'[i] = ee[j]
    BY <1>8
  <2>2. Begun(files, Behind, line, ee[j].photo)
    BY <1>7 DEF Collected
  <2> QED
    BY <2>1, <2>2 DEF Begun
<1>10. ASSUME NEW m \in DOMAIN files, NEW j \in DOMAIN files[m],
              BeginsEntry(files[m], j), IsPhoto(PhotoOf(files[m][j].name))
       PROVE  \E i \in 1..Len(entries') :
                 SamePhoto(entries'[i].photo, PhotoOf(files[m][j].name))
  <2>1. Held(ee, <<>>, PhotoOf(files[m][j].name))
    BY <1>6, <1>7, <1>10 DEF Collected
  <2>2. PICK i \in 1..Len(ee) : ee[i].photo = PhotoOf(files[m][j].name)
    BY <2>1 DEF Held
  <2> QED
    BY <1>8, <2>2
<1>11. Kept(files', entries')
  BY <1>4, <1>9, <1>10 DEF Kept
<1>12. IInv'
  BY InvEndOfFiles DEF KeptInv
<1> QED
  BY <1>2, <1>4, <1>11, <1>12 DEF KeptInv, Ready

(* Requests, and the pages for them, leave the index alone. *)
LEMMA KeptSame == KeptInv /\ UNCHANGED vars => KeptInv'
<1> SUFFICES ASSUME KeptInv, UNCHANGED vars PROVE KeptInv'
  OBVIOUS
<1>1. IInv'
  BY InvSame DEF KeptInv
<1>2. Behind' = Behind
  BY DEF Behind, vars
<1> QED
  BY <1>1, <1>2 DEF vars, KeptInv, Scanning, Ready

(* Each step keeps the invariant. *)
LEMMA KeptNext == KeptInv /\ [CNext]_<<vars, served, asked>> => KeptInv'
<1> SUFFICES ASSUME KeptInv, [CNext]_<<vars, served, asked>>
             PROVE  KeptInv'
  OBVIOUS
<1>1. CASE ReadLine
  BY <1>1, KeptReadLine
<1>2. CASE EndOfFiles
  BY <1>2, KeptEndOfFiles
<1>3. CASE UNCHANGED vars
  BY <1>3, KeptSame
<1> QED
  BY <1>1, <1>2, <1>3
     DEF CNext, Build, Next, Request, GenerateMore, Tick, Finish, vars

(***************************************************************************)
(* The dates of file names which are sure to be read as what they are: the *)
(* years are not too large for strtou(), and leapyear() is right about     *)
(* them.  (calendar.cc 14 claims that of 1970--2050.)                      *)
(***************************************************************************)
Ordinary(name) ==
    LET year == name.date[1] + (IF name.width = 6 THEN 2000 ELSE 0)
    IN  name.width \in {6, 10} =>
            year \in 1..2999 /\ (LeapYear(year) <=> RealLeapYear(year))

DatesAreOrdinary ==
    \A family \in Scenarios : \A ff \in family :
        \A i \in DOMAIN ff : \A j \in DOMAIN ff[i] : Ordinary(ff[i][j].name)

(* A file name is understood as what it means. *)
LEMMA NamesMean ==
    ASSUME NEW name \in PossibleNames, Ordinary(name)
    PROVE  Meant(name) = IF IsPhoto(PhotoOf(name)) THEN {PhotoOf(name)} ELSE {}
<1> DEFINE a == name.date[1]
           m == name.date[2]
           d == name.date[3]
           year == a + (IF name.width = 6 THEN 2000 ELSE 0)
           acc == name.serial % UnsignedRange
           ok == m \in 1..12 /\ d \in 1..RealDays(year, m)
<1>1. /\ a \in Nat /\ m \in Nat /\ d \in Nat /\ name.serial \in Nat /\ name.digits \in Nat
  BY DEF PossibleNames
<1>2. CASE ~(name.width \in {6, 10} /\ name.suffix = ".jpg")
  <2>1. ~IsPhoto(NoPhoto)
    BY DEF IsPhoto, IsDay, NoPhoto, NoDay
  <2> QED
    BY <1>2, <2>1 DEF Meant, PhotoOf
<1>3. CASE name.width \in {6, 10} /\ name.suffix = ".jpg"
  <2>1. year \in 1..2999 /\ (LeapYear(year) <=> RealLeapYear(year))
    BY <1>3 DEF Ordinary
  <2>2. m \in 1..12 => RealDays(year, m) = Days(year, m) /\ Days(year, m) \in Nat
    <3> HIDE DEF year, m
    <3>1. /\ m \in 1..12 /\ m # 2 => 30 + ((m + m \div 8) % 2) = Days(year, m)
          /\ m = 2 => Days(year, m) = IF LeapYear(year) THEN 29 ELSE 28
      BY DEF Days
    <3>2. m \in 1..12 => Days(year, m) \in Nat
      BY DEF Days
    <3> QED
      BY <2>1, <3>1, <3>2 DEF RealDays
  <2> DEFINE p == PhotoOf(name)
  <2>3. /\ p.serial = (IF acc >= 65000 THEN 0 ELSE acc)
        /\ p.digits = name.digits
        /\ p = [day |-> p.day, serial |-> p.serial, digits |-> p.digits]
    <3>1. acc \in Nat
      BY <1>1, UnsignedAssumption
    <3>2. Serial(name) = Limited(acc, 65000)
      BY DEF Serial, Strtou
    <3> HIDE DEF acc
    <3>3. Serial(name) = (IF acc >= 65000 THEN 0 ELSE acc)
      BY <3>1, <3>2 DEF Limited
    <3> QED
      BY <1>3, <3>3 DEF PhotoOf
  <2>4. IF ok THEN p.day = <<year, m, d>> ELSE ~IsDay(p.day)
    <3>1. CASE name.width = 6
      <4>1. p.day = Day(2000 + a, m, d) /\ year = 2000 + a
        BY <1>1, <1>3, <3>1 DEF PhotoOf, ShortDate
      <4> HIDE DEF p, a, m, d, year
      <4>2. ok => Day(year, m, d) = <<year, m, d>>
        BY <2>2 DEF Day
      <4>3. ~ok => Day(year, m, d) = NoDay
        BY <2>2 DEF Day
      <4>4. ~IsDay(NoDay)
        BY DEF IsDay, NoDay
      <4> QED
        BY <4>1, <4>2, <4>3, <4>4
    <3>2. CASE name.width = 10
      <4>1. p.day = ParsedDay(name.date) /\ year = a
        BY <1>1, <1>3, <3>2 DEF PhotoOf
      <4> DEFINE mm == Limited(m, 13)
                 dd == Limited(d, 1 + Days(year, mm))
      <4>2. ParsedDay(name.date) = <<year, mm, dd>>
        <5>1. Limited(a, 3000) = year
          <6> HIDE DEF year, a
          <6>1. a \in Nat /\ a < 3000
            BY <1>1, <2>1, <4>1
          <6> QED
            BY <4>1, <6>1 DEF Limited
        <5>2. ParsedDay(name.date) = <<Limited(a, 3000), mm, Limited(d, 1 + Days(Limited(a, 3000), mm))>>
          BY DEF ParsedDay
        <5> HIDE DEF year
        <5> QED
          BY <5>1, <5>2
      <4> HIDE DEF p, a, m, d, year
      <4>3. m \in 1..12 => mm = m
        BY <1>1 DEF Limited
      <4>4. m \notin 1..12 => mm = 0
        BY <1>1 DEF Limited
      <4>5. m \in 1..12 => dd = IF d <= RealDays(year, m) THEN d ELSE 0
        BY <1>1, <2>2, <4>3 DEF Limited
      <4> HIDE DEF mm, dd
      <4>6. IsDay(<<year, mm, dd>>) <=> year # 0 /\ mm # 0 /\ dd # 0
        BY DEF IsDay
      <4> QED
        BY <1>1, <2>2, <4>1, <4>2, <4>3, <4>4, <4>5, <4>6
    <3> QED
      BY <1>3, <3>1, <3>2
  <2>5. ok => IsDay(<<year, m, d>>)
    <3> HIDE DEF year, m, d
    <3> QED
      BY <2>1 DEF IsDay
  <2>6. IsPhoto(p) <=> ok /\ name.digits > 0
    <3>1. name.digits > 0 <=> name.digits # 0
      BY <1>1
    <3> HIDE DEF p, ok
    <3> QED
      BY <2>3, <2>4, <2>5, <3>1 DEF IsPhoto
  <2>7. Meant(name) = IF ok /\ name.digits > 0
                      THEN {[day    |-> <<year, m, d>>,
                             serial |-> IF acc >= 65000 THEN 0 ELSE acc,
                             digits |-> name.digits]}
                      ELSE {}
    BY <1>3 DEF Meant
  <2>8. ok /\ name.digits > 0 =>
            p = [day    |-> <<year, m, d>>,
                 serial |-> IF acc >= 65000 THEN 0 ELSE acc,
                 digits |-> name.digits]
    <3> HIDE DEF p, ok, acc, year, m, d
    <3> QED
      BY <2>3, <2>4
  <2> HIDE DEF p, ok, acc, year, m, d
  <2>9. Meant(name) = IF IsPhoto(p) THEN {p} ELSE {}
    BY <2>6, <2>7, <2>8
  <2> QED
    BY <2>9 DEF p
<1> QED
  BY <1>2, <1>3

(***************************************************************************)
(* Whatever the files are, the index has all photos which they name, and   *)
(* no others.                                                              *)
(***************************************************************************)
THEOREM NoPhotoIsEverLost ==
    ASSUME DatesAreOrdinary
    PROVE  CSpec => []NoPhotoLost
<1>1. KeptInv => NoPhotoLost
  <2> SUFFICES ASSUME KeptInv, Ready
               PROVE  NoPhotoLost
    BY DEF NoPhotoLost
  <2>1. PICK family \in Scenarios : files \in family
    BY DEF KeptInv
  <2>2. files \in Seq(Seq(PossibleLines))
    BY <2>1, ScenarioAssumption
  <2>3. /\ Kept(files, entries)
        /\ Len(entries) \in Nat /\ DOMAIN entries = 1..Len(entries)
        /\ \A i \in 1..Len(entries) : IsPhoto(entries[i].photo)
    BY LenProperties DEF KeptInv, IInv, Index, IsEntry
  <2>4. ASSUME NEW m \in DOMAIN files, NEW j \in DOMAIN files[m]
        PROVE  LET name == files[m][j].name
               IN  Meant(name) = IF IsPhoto(PhotoOf(name)) THEN {PhotoOf(name)} ELSE {}
    <3>1. m \in 1..Len(files)
      BY <2>2, LenProperties
    <3>2. files[m] \in Seq(PossibleLines)
      BY <2>2, <3>1, ElementOfSeq
    <3>3. j \in 1..Len(files[m])
      BY <3>2, LenProperties
    <3>4. files[m][j] \in PossibleLines
      BY <3>2, <3>3, ElementOfSeq
    <3>5. files[m][j].name \in PossibleNames
      BY <3>4 DEF PossibleLines
    <3>6. Ordinary(files[m][j].name)
      BY <2>1 DEF DatesAreOrdinary
    <3> QED
      BY <3>5, <3>6, NamesMean
  <2> DEFINE names == UNION {NamesIn(files[i]) : i \in DOMAIN files}
             named == UNION {Meant(name) : name \in names}
  <2>5. \A p : p \in named <=>
          \E m \in DOMAIN files : \E j \in DOMAIN files[m] :
             BeginsEntry(files[m], j) /\ p \in Meant(files[m][j].name)
    BY DEF NamesIn, BeginsEntry
  <2> HIDE DEF named
  <2>6. ASSUME NEW p \in named
        PROVE  \E e \in ToSet(entries) : SamePhoto(e.photo, p)
    <3>1. PICK m \in DOMAIN files : \E j \in DOMAIN files[m] :
             BeginsEntry(files[m], j) /\ p \in Meant(files[m][j].name)
      BY <2>5, <2>6
    <3>2. PICK j \in DOMAIN files[m] :
             BeginsEntry(files[m], j) /\ p \in Meant(files[m][j].name)
      BY <3>1
    <3>3. p = PhotoOf(files[m][j].name) /\ IsPhoto(p)
      BY <2>4, <3>2
    <3>4. PICK i \in 1..Len(entries) : SamePhoto(entries[i].photo, p)
      BY <2>3, <3>2, <3>3 DEF Kept
    <3> QED
      BY <2>3, <3>4 DEF ToSet
  <2>7. ASSUME NEW e \in ToSet(entries)
        PROVE  e.photo \in named
    <3>1. PICK i \in 1..Len(entries) : e = entries[i]
      BY <2>3, <2>7 DEF ToSet
    <3>2. PICK m \in DOMAIN files : \E j \in DOMAIN files[m] :
             BeginsEntry(files[m], j) /\ PhotoOf(files[m][j].name) = e.photo
      BY <2>3, <3>1 DEF Kept
    <3>3. PICK j \in DOMAIN files[m] :
             BeginsEntry(files[m], j) /\ PhotoOf(files[m][j].name) = e.photo
      BY <3>2
    <3>4. e.photo \in Meant(files[m][j].name)
      BY <2>3, <2>4, <3>1, <3>3
    <3> QED
      BY <2>5, <3>3, <3>4
  <2> QED
    BY <2>6, <2>7 DEF NoPhotoLost, named
<1> QED
  BY <1>1, KeptInit, KeptNext, PTL DEF CSpec

-----------------------------------------------------------------------------
(***************************************************************************)
(* What an URI is taken for.                                               *)
(***************************************************************************)
(* The slashes of an URI are in their order, and its end is after them. *)
LEMMA PositionsAscend ==
    ASSUME NEW uri \in Seq(PossibleMarks)
    PROVE  /\ Positions(uri) \in Seq(1..(Len(uri) + 1))
           /\ \A i, j \in 1..Len(Positions(uri)) : i < j => Positions(uri)[i] < Positions(uri)[j]
<1> DEFINE L == Len(uri)
           S == {i \in DOMAIN uri : uri[i] = Slash}
           q == Places(uri, S)
           all == AllPositions(uri)
           m == IF Len(all) < MaxPositions THEN Len(all) ELSE MaxPositions
<1>1. L \in Nat /\ DOMAIN uri = 1..L
  OBVIOUS
<1>2. Ascends(q, L, S)
  BY <1>1, PlacesAscend
<1>3. all = q \o <<L + 1>>
  BY DEF AllPositions
<1>4. Positions(uri) = SubSeq(all, 1, m)
  BY DEF Positions
<1> HIDE DEF q, all, m, S, L
<1>5. q \in Seq(1..L) /\ Len(q) \in Nat /\ \A k \in 1..Len(q) : q[k] \in 1..L
  <2>1. q \in Seq(1..L)
    BY <1>2 DEF Ascends
  <2> QED
    BY <2>1, LenProperties, ElementOfSeq
<1>6. q \in Seq(1..(L + 1)) /\ <<L + 1>> \in Seq(1..(L + 1))
  BY <1>1, <1>5
<1>7. /\ all \in Seq(1..(L + 1)) /\ Len(all) = Len(q) + 1
      /\ all[Len(q) + 1] = L + 1 /\ \A k \in 1..Len(q) : all[k] = q[k]
  BY <1>3, <1>5, <1>6
<1>8. ASSUME NEW i \in 1..Len(all), NEW j \in 1..Len(all), i < j
      PROVE  all[i] < all[j]
  <2>1. i \in 1..Len(q) /\ (j \in 1..Len(q) \/ j = Len(q) + 1)
    BY <1>5, <1>7, <1>8
  <2>2. all[i] = q[i] /\ q[i] \in 1..L
    BY <1>5, <1>7, <2>1
  <2>3. CASE j \in 1..Len(q)
    <3>1. q[i] < q[j]
      BY <1>2, <1>8, <2>1, <2>3 DEF Ascends
    <3> QED
      BY <1>7, <2>2, <2>3, <3>1
  <2>4. CASE j = Len(q) + 1
    BY <1>1, <1>7, <2>2, <2>4
  <2> QED
    BY <2>1, <2>3, <2>4
<1>9. m \in 0..Len(all)
  BY <1>5, <1>7 DEF m, MaxPositions
<1> DEFINE p == SubSeq(all, 1, m)
<1>10. p \in Seq(1..(L + 1)) /\ Len(p) = m /\ \A i \in 1..m : p[i] = all[i] /\ i \in 1..Len(all)
  <2>1. Len(all) \in Nat /\ m \in Nat /\ \A i \in 1..m : i \in 1..Len(all)
    BY <1>7, <1>9
  <2>2. \A i \in 1..m : all[i] \in 1..(L + 1)
    BY <1>7, <2>1, ElementOfSeq
  <2> QED
    BY <2>1, <2>2, SubSeqProperties
<1> HIDE DEF p
<1>11. \A i, j \in 1..Len(p) : i < j => p[i] < p[j]
  BY <1>8, <1>10
<1> QED
  BY <1>4, <1>10, <1>11 DEF p, L

(* Those which may be read, and what eat() makes of errors *)
Texts == PossibleTexts \cup {Word("NUL"), Word("%")}

(* A segment, decoded or not, is a text. *)
LEMMA MakeType ==
    ASSUME NEW uri \in Seq(PossibleMarks), NEW k \in Nat
    PROVE  Make(uri, k) \in Seq(Texts)
<1> DEFINE p == Positions(uri)
           L == Len(uri)
           raw == Raw(uri, k)
<1>1. L \in Nat /\ p \in Seq(1..(L + 1)) /\ Len(p) \in Nat
      /\ \A i, j \in 1..Len(p) : i < j => p[i] < p[j]
  BY PositionsAscend
<1>2. CASE ~HasSegment(uri, k)
  BY <1>2 DEF Make, Nil
<1>3. CASE HasSegment(uri, k)
  <2>1. k + 1 \in 1..Len(p) /\ k + 2 \in 1..Len(p) /\ k + 1 < k + 2
    BY <1>1, <1>3 DEF HasSegment
  <2>2. raw = SubSeq(uri, p[k + 1] + 1, p[k + 2] - 1)
    BY DEF Raw
  <2> HIDE DEF p, raw
  <2>3. p[k + 1] \in 1..(L + 1) /\ p[k + 2] \in 1..(L + 1) /\ p[k + 1] < p[k + 2]
    BY <1>1, <2>1
  <2> DEFINE a == p[k + 1] + 1
             b == p[k + 2] - 1
  <2>4. a \in 1..(L + 1) /\ b \in (a - 1)..L
    BY <1>1, <2>3
  <2> HIDE DEF a, b
  <2>5. SubSeq(uri, a, b) \in Seq(PossibleMarks)
    BY <1>1, <2>4
  <2>6. raw \in Seq(PossibleMarks)
    BY <2>2, <2>5 DEF a, b
  <2>7. ASSUME NEW mark \in PossibleMarks
        PROVE  Eaten(mark) \in Texts /\ Verbatim(mark) \in Texts
    <3>1. Word("NUL") \in Texts /\ Word("%") \in Texts
      BY DEF Texts
    <3>2. CASE mark = Bad
      BY <3>1, <3>2 DEF Eaten, Verbatim, Bad
    <3>3. CASE mark # Bad
      BY <3>1, <3>3 DEF Eaten, Verbatim, PossibleMarks, Texts
    <3> QED
      BY <3>2, <3>3
  <2>8. \A i \in 1..Len(raw) : raw[i] \in PossibleMarks
    BY <2>6
  <2>9. DOMAIN raw = 1..Len(raw) /\ Len(raw) \in Nat
    BY <2>6
  <2>10. CASE Percent(uri)
    <3>1. Make(uri, k) = [i \in DOMAIN raw |-> Eaten(raw[i])]
      BY <1>3, <2>10 DEF Make, Decode, raw
    <3> QED
      BY <2>7, <2>8, <2>9, <3>1
  <2>11. CASE ~Percent(uri)
    <3>1. Make(uri, k) = [i \in DOMAIN raw |-> Verbatim(raw[i])]
      BY <1>3, <2>11 DEF Make, raw
    <3> QED
      BY <2>7, <2>8, <2>9, <3>1
  <2> QED
    BY <2>10, <2>11
<1> QED
  BY <1>2, <1>3

(* A number is one, in whatever text. *)
LEMMA NumberType ==
    ASSUME NEW x \in Texts, x[1] = "number"
    PROVE  x[2] \in Nat
BY DEF Texts, PossibleTexts, Word

(* A month and a day in a text are numbers. *)
LEMMA DatesInTexts ==
    ASSUME NEW text \in Seq(Texts)
    PROVE  /\ YearIn(text) \in Nat
           /\ MonthIn(text) \in Tuples(2)
           /\ DayIn(text) \in Days3
<1>1. YearIn(text) \in Nat
  <2>1. CASE Matches(text, <<4>>)
    <3>1. Len(text) = 1 /\ text[1][1] = "number"
      BY <2>1 DEF Matches
    <3>2. text[1][2] \in Nat
      BY <3>1, NumberType
    <3> QED
      BY <3>2 DEF YearIn, Limited
  <2>2. CASE ~Matches(text, <<4>>)
    BY <2>2 DEF YearIn
  <2> QED
    BY <2>1, <2>2
<1>2. MonthIn(text) \in Tuples(2)
  <2>1. CASE Matches(text, <<4, 2>>)
    <3>1. Len(text) = 3
      BY <2>1 DEF Matches
    <3>2. text[1][1] = "number" /\ text[3][1] = "number" /\ DOMAIN text = 1..3
      BY <2>1, <3>1 DEF Matches
    <3>0. text[1] \in Texts /\ text[3] \in Texts
      <4>1. 1 \in 1..Len(text) /\ 3 \in 1..Len(text)
        BY <3>1
      <4> QED
        BY <4>1, ElementOfSeq
    <3>3. text[1][2] \in Nat /\ text[3][2] \in Nat
      BY <3>0, <3>2, NumberType
    <3>4. (Len(text) + 1) \div 2 = 2
      BY <3>1
    <3>5. Values(text)[1] = text[1][2] /\ Values(text)[2] = text[3][2]
      BY <3>4 DEF Values
    <3>6. MonthIn(text) = <<Limited(text[1][2], 3000), Limited(text[3][2], 13)>>
      BY <2>1, <3>5 DEF MonthIn
    <3>7. Limited(text[1][2], 3000) \in Nat /\ Limited(text[3][2], 13) \in Nat
      BY <3>3 DEF Limited
    <3> QED
      BY <3>6, <3>7 DEF Tuples
  <2>2. CASE ~Matches(text, <<4, 2>>)
    BY <2>2 DEF MonthIn, Tuples
  <2> QED
    BY <2>1, <2>2
<1>3. DayIn(text) \in Days3
  <2>1. CASE Matches(text, <<4, 2, 2>>)
    <3>1. Len(text) = 5
      BY <2>1 DEF Matches
    <3>2. /\ text[1][1] = "number" /\ text[3][1] = "number" /\ text[5][1] = "number"
          /\ DOMAIN text = 1..5
      BY <2>1, <3>1 DEF Matches
    <3>0. text[1] \in Texts /\ text[3] \in Texts /\ text[5] \in Texts
      <4>1. 1 \in 1..Len(text) /\ 3 \in 1..Len(text) /\ 5 \in 1..Len(text)
        BY <3>1
      <4> QED
        BY <4>1, ElementOfSeq
    <3>3. text[1][2] \in Nat /\ text[3][2] \in Nat /\ text[5][2] \in Nat
      BY <3>0, <3>2, NumberType
    <3>4. (Len(text) + 1) \div 2 = 3
      BY <3>1
    <3>5. \A i \in 1..3 : text[2 * i - 1][2] \in Nat
      BY <3>3
    <3>6. Values(text) \in [1..3 -> Nat]
      BY <3>4, <3>5 DEF Values
    <3> QED
      BY <2>1, <3>6, ParsedDayType DEF DayIn
  <2>2. CASE ~Matches(text, <<4, 2, 2>>)
    BY <2>2, TripleType DEF DayIn, NoDay
  <2> QED
    BY <2>1, <2>2
<1> QED
  BY <1>1, <1>2, <1>3

(* The first route which fits is one of those there are. *)
LEMMA RouteFits ==
    ASSUME NEW uri
    PROVE  \E k \in 1..15 : Routes(uri)[k][1] /\ Route(uri) = Routes(uri)[k][2]
<1> DEFINE rr == Routes(uri)
           I == {i \in 1..Len(rr) : rr[i][1]}
<1>1. Len(rr) = 15 /\ rr[15][1]
  BY DEF Routes
<1>2. Route(uri) = rr[IF I # {} THEN Min(I) ELSE 0][2]
  BY DEF Route, SelectInSeq
<1> HIDE DEF rr
<1>3. 15 \in I
  BY <1>1
<1>4. PICK k \in I : \A m \in I : k <= m
  BY <1>1, <1>3, LeastElement
<1>5. Min(I) \in I
  BY <1>4 DEF Min
<1> QED
  BY <1>1, <1>2, <1>3, <1>5 DEF rr

(* What a resource is called by: a year, a month or a day. *)
Called(p) ==
    /\ p[1] = "year"  => p[2] \in Nat
    /\ p[1] = "month" => p[2] \in Tuples(2)
    /\ p[1] = "day"   => p[2] \in Days3

(* So it is with whatever an URI is taken for. *)
LEMMA RouteIsCalled ==
    ASSUME NEW uri \in Seq(PossibleMarks)
    PROVE  Called(Route(uri))
<1>1. The(uri) \in Seq(Texts)
  <2>1. Make(uri, 0) \in Seq(Texts) /\ Nil \in Seq(Texts)
    BY MakeType DEF Nil
  <2> QED
    BY <2>1 DEF The
<1>2. /\ YearIn(The(uri)) \in Nat /\ MonthIn(The(uri)) \in Tuples(2) /\ DayIn(The(uri)) \in Days3
  BY <1>1, DatesInTexts
<1>3. PICK k \in 1..15 : Route(uri) = Routes(uri)[k][2]
  BY RouteFits
<1>4. \/ Routes(uri)[k][2] = <<"year", YearIn(The(uri))>>
      \/ Routes(uri)[k][2] = <<"month", MonthIn(The(uri))>>
      \/ Routes(uri)[k][2] = <<"day", DayIn(The(uri))>>
      \/ Routes(uri)[k][2][1] \notin {"year", "month", "day"}
  BY DEF Routes, FrontPage, NotFound, Redirect, AllWords, LibFile
<1> QED
  BY <1>2, <1>3, <1>4 DEF Called

(* A page which is generated is of something. *)
Proper(p) == IsPage(p) /\ ~Missing(p) /\ Called(p)

(* What is generated for a request, if anything is *)
LEMMA ResponseIsProper ==
    ASSUME NEW r, r.uri \in Seq(PossibleMarks), NEW a \in ResponseOf(r),
           a.status = 200, IsPage(a.what)
    PROVE  Proper(a.what)
<1>1. a \in {Answer(status, Route(r.uri), r) : status \in StatusesOf(Route(r.uri))}
  <2>1. CASE r.method # "GET"
    BY <2>1 DEF ResponseOf, Answer
  <2>2. CASE r.method = "GET" /\ ~HostMatches(r.host)
    BY <2>2 DEF ResponseOf, Answer
  <2>3. CASE r.method = "GET" /\ HostMatches(r.host)
    BY <2>3 DEF ResponseOf
  <2> QED
    BY <2>1, <2>2, <2>3
<1>2. a.what = Route(r.uri) /\ a.status \in StatusesOf(Route(r.uri))
  BY <1>1 DEF Answer
<1> DEFINE p == Route(r.uri)
<1>3. Called(p)
  BY RouteIsCalled
<1> HIDE DEF p
<1>4. IsPage(p)
  BY <1>2 DEF p
<1>5. p[1] \notin {"image", "thumb", "file", "redirect", "404"}
  BY <1>4 DEF IsPage, IsGallery
<1>6. p # Redirect /\ p # NotFound
  BY <1>5 DEF Redirect, NotFound
<1>7. StatusesOf(p) = {IF Missing(p) THEN 404 ELSE 200}
  BY <1>4, <1>5, <1>6 DEF StatusesOf
<1>8. ~Missing(p)
  BY <1>2, <1>7 DEF p
<1> QED
  BY <1>2, <1>3, <1>4, <1>8 DEF p, Proper

(* As long as the index is the same, so is what is generated from it. *)
LEMMA SameGalleries ==
    ASSUME UNCHANGED vars, NEW CONSTANT p
    PROVE  Gallery(p)' = Gallery(p)
<1>1. entries' = entries /\ byKey' = byKey
  BY DEF vars
<1>2. End' = End
  BY <1>1 DEF End
<1>3. InMonth(p[2])' = InMonth(p[2])
  BY <1>1, <1>2 DEF InMonth, InRange
<1>4. OnDay(p[2])' = OnDay(p[2])
  BY <1>1, <1>2 DEF OnDay, InRange
<1>5. WithKey(p[2])' = WithKey(p[2])
  BY <1>1, <1>2 DEF WithKey
<1> QED
  BY <1>3, <1>4, <1>5 DEF Gallery

(* A stutter leaves the pieces of a page as they are. *)
LEMMA SamePieces ==
    ASSUME UNCHANGED vars, NEW CONSTANT p, NEW CONSTANT i
    PROVE  /\ Missing(p)' <=> Missing(p)
           /\ Pieces(p)' = Pieces(p)
           /\ Piece(p, i)' = Piece(p, i)
<1>0. entries' = entries /\ byKey' = byKey /\ years' = years
  BY DEF vars
<1>1. Gallery(p)' = Gallery(p)
  BY SameGalleries
<1>2. End' = End
  BY <1>0 DEF End
<1>3. \A q : Search(q)' = Search(q)
  BY <1>0, <1>2 DEF Search
<1>4. Missing(p)' <=> Missing(p)
  BY <1>1, <1>2, <1>3 DEF Missing, Has
<1>5. Pieces(p)' = Pieces(p)
  BY <1>1 DEF Pieces
<1>6. LastPiece(p, i)' <=> LastPiece(p, i)
  BY <1>5 DEF LastPiece
<1>7. Photographs(p, i)' = Photographs(p, i)
  BY <1>1, <1>6 DEF Photographs
<1>8. \A m : InMonth(m)' = InMonth(m)
  BY <1>0, <1>2 DEF InMonth, InRange
<1>9. FrontItems(p, i)' = FrontItems(p, i)
  <2>1. Rows' = Rows
    BY <1>0, <1>8 DEF Rows, PhotosPerMonth
  <2>2. ColumnTotals' = ColumnTotals
    BY <2>1 DEF ColumnTotals
  <2> QED
    BY <2>1, <2>2, <1>6 DEF FrontItems, When
<1>10. YearItems(p, i)' = YearItems(p, i)
  <2>1. \A d : OnDay(d)' = OnDay(d)
    BY <1>0, <1>2 DEF OnDay, InRange
  <2>2. Quarter(p[2], i + 1)' = Quarter(p[2], i + 1)
    BY <2>1 DEF Quarter
  <2> QED
    BY <2>2, <1>6 DEF YearItems, When
<1>11. \A start : Thumbnails(p, i, start)' = Thumbnails(p, i, start)
  BY <1>6, <1>7 DEF Thumbnails, When
<1>12. MonthItems(p, i)' = MonthItems(p, i)
  BY <1>11 DEF MonthItems
<1>13. DayItems(p, i)' = DayItems(p, i)
  <2>1. PrevDay(p[2])' = PrevDay(p[2])
    BY <1>0, <1>2 DEF PrevDay
  <2>2. NextDayWithPhotos(p[2])' = NextDayWithPhotos(p[2])
    BY <1>0, <1>2 DEF NextDayWithPhotos
  <2> QED
    BY <1>11, <2>1, <2>2 DEF DayItems
<1>14. KeywordItems(p, i)' = KeywordItems(p, i)
  BY <1>11 DEF KeywordItems
<1>15. PhotoItems(p, i)' = PhotoItems(p, i)
  BY <1>0, <1>3, <1>6 DEF PhotoItems, When
<1>16. WordItems(p, i)' = WordItems(p, i)
  BY <1>0, <1>6 DEF WordItems, When
<1>17. Piece(p, i)' = Piece(p, i)
  BY <1>9, <1>10, <1>12, <1>13, <1>14, <1>15, <1>16 DEF Piece
<1> QED
  BY <1>4, <1>5, <1>17

(***************************************************************************)
(* The photos of a gallery.                                                *)
(***************************************************************************)
(* Sorting what is sorted changes nothing. *)
LEMMA SortedIsStable ==
    ASSUME NEW ee, Len(ee) \in Nat, DOMAIN ee = 1..Len(ee), ee = [i \in 1..Len(ee) |-> ee[i]],
           Stamped(ee), Sorted(ee)
    PROVE  StableSort(ee) = ee
<1> DEFINE N == Len(ee)
<1>1. PICK p \in Bijection(1..N, 1..N) :
          /\ StableSort(ee) = [k \in 1..N |-> ee[p[k]]]
          /\ \A k, l \in 1..N : k < l => Precedes(ee, p[k], p[l]) /\ p[k] # p[l]
  BY StableSortSorts
<1> HIDE DEF N
<1>0. N \in Nat
  BY DEF N
<1>2. /\ p \in [1..N -> 1..N]
      /\ \A i \in 1..N : \E k \in 1..N : p[k] = i
  BY <1>1 DEF Bijection, Injection, Surjection
<1>3. \A i, j \in 1..N : Precedes(ee, i, j) => i <= j
  <2> SUFFICES ASSUME NEW i \in 1..N, NEW j \in 1..N, Precedes(ee, i, j), ~(i <= j)
               PROVE  FALSE
    OBVIOUS
  <2>1. j < i
    BY <1>0
  <2>2. ~Earlier(ee[i], ee[j])
    BY <2>1 DEF Sorted, N
  <2> QED
    BY <2>1, <2>2 DEF Precedes
<1>4. \A k, l \in 1..N : k < l => p[k] < p[l]
  <2> SUFFICES ASSUME NEW k \in 1..N, NEW l \in 1..N, k < l
               PROVE  p[k] < p[l]
    OBVIOUS
  <2>1. p[k] \in 1..N /\ p[l] \in 1..N /\ p[k] # p[l] /\ Precedes(ee, p[k], p[l])
    BY <1>1, <1>2
  <2>2. p[k] <= p[l]
    BY <1>3, <2>1
  <2> QED
    BY <1>0, <2>1, <2>2
<1> DEFINE d == [k \in 1..N |-> k]
<1>5. Ascends(p, N, 1..N)
  <2>1. p \in Seq(1..N) /\ Len(p) = N
    BY <1>0, <1>2
  <2> QED
    BY <1>2, <1>4, <2>1 DEF Ascends
<1>6. Ascends(d, N, 1..N)
  <2>1. d \in Seq(1..N) /\ Len(d) = N /\ \A k \in 1..N : d[k] = k
    BY <1>0
  <2> HIDE DEF d
  <2> QED
    BY <2>1 DEF Ascends
<1>7. p = d
  <2> HIDE DEF d
  <2> QED
    BY <1>0, <1>5, <1>6, AscendsOnce
<1>8. \A k \in 1..N : p[k] = k
  BY <1>7
<1> QED
  BY <1>1, <1>8 DEF N

(* The entries which are in a gallery, by their positions *)
Members(p) == {i \in DOMAIN entries : Belongs(entries[i], p)}

(* Some entries, in the order they have in the index *)
Chosen(ee, q) == [k \in 1..Len(q) |-> ee[q[k]]]

(* Entries which are side by side are listed by counting. *)
LEMMA RangeIsChosen ==
    ASSUME NEW X, entries \in Seq(X), NEW S, NEW ee, AreAt(ee, S)
    PROVE  \E q : Ascends(q, Len(entries), S) /\ ee = Chosen(entries, q)
<1> DEFINE L == Len(entries)
<1>1. L \in Nat
  OBVIOUS
<1>2. PICK a \in 1..(L + 1), b \in 0..L : S = a..b /\ ee = SubSeq(entries, a, b)
  BY DEF AreAt, End
<1> HIDE DEF L
<1>3. CASE b < a
  <2>1. S = {}
    BY <1>1, <1>2, <1>3
  <2>2. ee = <<>>
    BY <1>1, <1>2, <1>3
  <2>3. Ascends(<<>>, L, S)
    BY <2>1 DEF Ascends
  <2>4. Chosen(entries, <<>>) = <<>>
    BY DEF Chosen
  <2> QED
    BY <2>2, <2>3, <2>4 DEF L
<1>4. CASE ~(b < a)
  <2> DEFINE m == b - a + 1
             q == [k \in 1..m |-> a + k - 1]
  <2>1. m \in Nat /\ \A k \in 1..m : a + k - 1 \in 1..L /\ a + k - 1 \in a..b
    BY <1>1, <1>2, <1>4
  <2>2. q \in Seq(1..L) /\ Len(q) = m /\ \A k \in 1..m : q[k] = a + k - 1
    <3> HIDE DEF m
    <3>1. \A k \in 1..m : q[k] = a + k - 1
      OBVIOUS
    <3>2. q \in [1..m -> 1..L]
      BY <2>1
    <3>3. m \in Nat
      BY <2>1
    <3> HIDE DEF q
    <3>4. q \in Seq(1..L) /\ Len(q) = m
      BY ONLY <3>2, <3>3, <1>1, SMTT(20)
    <3> QED
      BY <3>1, <3>4
  <2>3. \A i \in a..b : i - a + 1 \in 1..m /\ a + (i - a + 1) - 1 = i
    BY <1>1, <1>2, <1>4
  <2> HIDE DEF q
  <2>4. Ascends(q, L, S)
    <3>1. \A j, k \in 1..m : j < k => q[j] < q[k]
      BY <1>1, <2>1, <2>2
    <3>2. \A k \in 1..m : q[k] \in S
      BY <1>2, <2>1, <2>2
    <3>3. \A i \in S : \E k \in 1..m : q[k] = i
      BY <1>2, <2>2, <2>3
    <3> QED
      BY <2>2, <3>1, <3>2, <3>3 DEF Ascends
  <2>5. ee = Chosen(entries, q)
    <3>1. ee = [k \in 1..m |-> entries[a + k - 1]]
      BY <1>1, <1>2, <1>4 DEF L
    <3> QED
      BY <2>2, <3>1 DEF Chosen
  <2> QED
    BY <2>4, <2>5 DEF L
<1> QED
  BY <1>3, <1>4

(* What the constructor of the index has done besides sorting *)
Inverted == byKey = Invert(entries)

(* The photos with a keyword, in the order of the index *)
LEMMA KeyIsChosen ==
    ASSUME Index(entries), Sorted(entries), Inverted, NEW k
    PROVE  \E q : /\ Ascends(q, Len(entries), {i \in DOMAIN entries : k \in entries[i].keys})
                  /\ WithKey(k) = Chosen(entries, q)
<1> DEFINE L == Len(entries)
           S == {i \in DOMAIN entries : k \in entries[i].keys}
<1>1. L \in Nat /\ DOMAIN entries = 1..L
  BY LenProperties DEF Index
<1>2. DOMAIN byKey = UNION {e.keys : e \in ToSet(entries)}
  BY DEF Inverted, Invert
<1>3. CASE k \in DOMAIN byKey
  <2> DEFINE q == Places(entries, S)
  <2>1. byKey[k] = q
    BY <1>2, <1>3 DEF Inverted, Invert
  <2>2. Ascends(q, L, S)
    BY <1>1, PlacesAscend
  <2> HIDE DEF q, S
  <2>3. q \in Seq(1..L)
    BY <2>2 DEF Ascends
  <2>4. Len(q) \in Nat /\ DOMAIN q = 1..Len(q) /\ \A i \in 1..Len(q) : q[i] \in 1..L
    BY <2>3, LenProperties, ElementOfSeq
  <2> DEFINE s == Chosen(entries, q)
  <2>5. WithKey(k) = StableSort(s)
    BY <1>3, <2>1, <2>4 DEF WithKey, Chosen
  <2>6. /\ s = [i \in 1..Len(q) |-> entries[q[i]]] /\ Len(s) = Len(q) /\ DOMAIN s = 1..Len(s)
        /\ \A i \in 1..Len(q) : s[i] = entries[q[i]]
    BY <2>4 DEF Chosen
  <2> HIDE DEF s, L
  <2>7. Stamped(s)
    BY <2>4, <2>6 DEF Stamped, Index, IsEntry, L
  <2>8. Sorted(s)
    <3> SUFFICES ASSUME NEW i \in 1..Len(s), NEW j \in 1..Len(s), i < j
                 PROVE  ~Earlier(s[j], s[i])
      BY DEF Sorted
    <3>1. q[i] < q[j] /\ q[i] \in 1..L /\ q[j] \in 1..L
      BY <2>2, <2>4, <2>6 DEF Ascends
    <3>2. ~Earlier(entries[q[j]], entries[q[i]])
      BY <3>1 DEF Sorted, L
    <3> QED
      BY <2>6, <3>2
  <2>9. s = [i \in 1..Len(s) |-> s[i]]
    BY <2>6
  <2>10. StableSort(s) = s
    BY <2>4, <2>6, <2>7, <2>8, <2>9, SortedIsStable
  <2> QED
    BY <2>2, <2>5, <2>10 DEF L, S, s
<1>4. CASE k \notin DOMAIN byKey
  <2>1. S = {}
    BY <1>2, <1>4 DEF ToSet
  <2>2. Ascends(<<>>, L, S)
    BY <2>1 DEF Ascends
  <2>3. WithKey(k) = <<>> /\ Chosen(entries, <<>>) = <<>>
    BY <1>4 DEF WithKey, Chosen
  <2> QED
    BY <2>2, <2>3
<1> QED
  BY <1>3, <1>4

(* A gallery is of the photos which belong in it, in the order of the index. *)
LEMMA GalleryIsChosen ==
    ASSUME Index(entries), Sorted(entries), Inverted, NEW p, IsGallery(p), Called(p)
    PROVE  \E q : Ascends(q, Len(entries), Members(p)) /\ Gallery(p) = Chosen(entries, q)
<1>1. entries \in Seq(ToSet(entries))
  BY DEF Index
<1>2. CASE p[1] = "month"
  <2>1. Gallery(p) = InMonth(p[2])
    BY <1>2 DEF Gallery
  <2>2. Members(p) = {i \in DOMAIN entries : MonthOf(entries[i].stamp.day) = p[2]}
    BY <1>2 DEF Members, Belongs
  <2>3. AreAt(InMonth(p[2]), Members(p))
    BY <1>2, <2>2, PartsAreRanges DEF Called
  <2> QED
    BY <1>1, <2>1, <2>3, RangeIsChosen
<1>3. CASE p[1] = "day"
  <2>1. Gallery(p) = OnDay(p[2])
    BY <1>3 DEF Gallery
  <2>2. Members(p) = {i \in DOMAIN entries : entries[i].stamp.day = p[2]}
    BY <1>3 DEF Members, Belongs
  <2>3. AreAt(OnDay(p[2]), Members(p))
    BY <1>3, <2>2, PartsAreRanges DEF Called
  <2> QED
    BY <1>1, <2>1, <2>3, RangeIsChosen
<1>4. CASE p[1] = "key"
  <2>1. Gallery(p) = WithKey(p[2])
    BY <1>4 DEF Gallery
  <2>2. Members(p) = {i \in DOMAIN entries : p[2] \in entries[i].keys}
    BY <1>4 DEF Members, Belongs
  <2> QED
    BY <2>1, <2>2, KeyIsChosen
<1> QED
  BY <1>2, <1>3, <1>4 DEF IsGallery

(* The photos from lo + 1 to hi *)
IsCut(s, ee, lo, hi) ==
    /\ lo \in Nat /\ hi \in Nat /\ lo < hi
    /\ Len(s) = hi - lo /\ DOMAIN s = 1..(hi - lo)
    /\ \A k \in 1..(hi - lo) : lo + k \in 1..Len(ee) /\ s[k] = ee[lo + k]

(* What is needed to know about the index when it is ready *)
Indexed == Index(entries) /\ Sorted(entries) /\ Inverted

(* A gallery of something, divided *)
LEMMA GalleryIsCut ==
    ASSUME Indexed, NEW p, IsGallery(p), Proper(p)
    PROVE  LET g == Gallery(p)
           IN  /\ IsSeq(g) /\ Len(g) > 0
               /\ Pieces(p) \in Nat /\ Pieces(p) > 0
               /\ \A i \in 0..(Pieces(p) - 1) :
                     IsCut(Photographs(p, i), g, i * PerPiece,
                           IF i + 1 = Pieces(p) THEN Len(g) ELSE (i + 1) * PerPiece)
<1> DEFINE g == Gallery(p)
           L == Len(g)
           r == (L + PerPiece - 1) \div PerPiece
<1>1. PICK q : Ascends(q, Len(entries), Members(p)) /\ g = Chosen(entries, q)
  BY GalleryIsChosen DEF Indexed, Proper
<1>2. /\ Len(entries) \in Nat /\ entries \in Seq(ToSet(entries))
      /\ q \in Seq(1..Len(entries))
  BY <1>1, LenProperties DEF Ascends, Indexed, Index
<1>3. Len(q) \in Nat /\ \A k \in 1..Len(q) : q[k] \in 1..Len(entries)
  BY <1>2, LenProperties, ElementOfSeq
<1> HIDE DEF g
<1>4. g \in Seq(ToSet(entries)) /\ L = Len(q)
  <2>1. g = [k \in 1..Len(q) |-> entries[q[k]]]
    BY <1>1 DEF Chosen
  <2>2. \A k \in 1..Len(q) : entries[q[k]] \in ToSet(entries)
    BY <1>2, <1>3, ElementOfSeq
  <2> QED
    BY <1>3, <2>1, <2>2
<1>5. IsSeq(g)
  <2>1. L \in Nat /\ DOMAIN g = 1..L
    BY <1>4, LenProperties
  <2>2. g \in Seq(ToSet(g))
    <3>1. \A k \in 1..L : g[k] \in ToSet(g)
      BY <2>1 DEF ToSet
    <3> HIDE DEF L
    <3> QED
      BY <1>4, <2>1, <3>1 DEF L
  <2> QED
    BY <2>1, <2>2 DEF IsSeq
<1>6. g # <<>>
  BY DEF Proper, Missing, g
<1>7. L \in Nat /\ L > 0
  BY <1>4, <1>5, <1>6, EmptySeq DEF IsSeq
<1>8. PerPiece \in Nat \ {0}
  BY PieceAssumption
<1> HIDE DEF L
<1>9. /\ r \in Nat /\ r > 0
      /\ \A i \in 0..(r - 1) :
            /\ i * PerPiece \in Nat /\ (i + 1) * PerPiece \in Nat /\ i * PerPiece < L
            /\ (i + 1) * PerPiece = i * PerPiece + PerPiece
            /\ i + 1 < r => (i + 1) * PerPiece < L
  BY <1>7, <1>8, PieceBounds
<1>10. Pieces(p) = r
  <2>1. p[1] \notin {"front", "year", "photo", "words"}
    BY DEF IsGallery
  <2>2. r # 0
    BY <1>9
  <2>3. Pieces(p) = IF r = 0 THEN 1 ELSE r
    BY <2>1 DEF Pieces, L, g
  <2> QED
    BY <2>2, <2>3
<1> HIDE DEF r
<1>11. ASSUME NEW i \in 0..(r - 1)
       PROVE  IsCut(Photographs(p, i), g, i * PerPiece,
                    IF i + 1 = r THEN L ELSE (i + 1) * PerPiece)
  <2> DEFINE lo == i * PerPiece
             hi == IF i + 1 = r THEN L ELSE (i + 1) * PerPiece
             s == SubSeq(g, lo + 1, hi)
  <2>1. Photographs(p, i) = s
    BY <1>10 DEF Photographs, LastPiece, L, g
  <2>2. lo \in Nat /\ hi \in Nat /\ lo < hi /\ hi <= L
    <3>1. i + 1 = r \/ i + 1 < r
      BY <1>9
    <3>2. (i + 1) * PerPiece > i * PerPiece
      BY <1>8, <1>9
    <3> QED
      BY <1>7, <1>9, <3>1, <3>2
  <2> HIDE DEF lo, hi, s
  <2>3. \A k \in 1..(hi - lo) : lo + k \in 1..L /\ (lo + 1) + k - 1 = lo + k
    BY <1>7, <2>2
  <2>4. Len(s) = hi - lo /\ DOMAIN s = 1..(hi - lo) /\ \A k \in 1..(hi - lo) : s[k] = g[lo + k]
    <3>1. lo + 1 \in 1..(L + 1) /\ hi \in ((lo + 1) - 1)..L
      BY <1>7, <2>2
    <3>2. Len(SubSeq(g, lo + 1, hi)) = hi - (lo + 1) + 1
          /\ DOMAIN SubSeq(g, lo + 1, hi) = 1..(hi - (lo + 1) + 1)
          /\ \A k \in 1..(hi - (lo + 1) + 1) : SubSeq(g, lo + 1, hi)[k] = g[(lo + 1) + k - 1]
      BY <1>4, <2>2, <3>1, SubSeqProperties DEF L
    <3>3. hi - (lo + 1) + 1 = hi - lo
      BY <2>2
    <3> QED
      BY <2>3, <3>2, <3>3 DEF s
  <2>5. IsCut(s, g, lo, hi)
    BY <2>2, <2>3, <2>4 DEF IsCut, L
  <2> QED
    BY <2>1, <2>5 DEF lo, hi
<1> QED
  BY <1>5, <1>7, <1>9, <1>10, <1>11 DEF L, g

(***************************************************************************)
(* A piece which begins the page if it is the first one, ends it if it is  *)
(* the last one, and is not empty.                                         *)
(***************************************************************************)
Whole(s, first, last) ==
    /\ IsSeq(s) /\ Len(s) > 0
    /\ \A k \in 1..Len(s) : s[k][1] = "preamble" <=> first /\ k = 1
    /\ \A k \in 1..Len(s) : s[k] = Epilogue <=> last /\ k = Len(s)

(* What is neither the beginning nor the end of a page *)
Plain(s) == IsSeq(s) /\ \A k \in 1..Len(s) : s[k][1] \notin {"preamble", "epilogue"}

(* What is where in a piece with a frame *)
FramedAs(t, first, last, start, mid) ==
    \E c, d \in {0, 1} :
        /\ IsSeq(t) /\ Len(t) = c + Len(mid) + d
        /\ first => c = 1 /\ t[1] = start
        /\ ~first => c = 0
        /\ last => d = 1 /\ t[Len(t)] = Epilogue
        /\ ~last => d = 0
        /\ \A k \in 1..Len(mid) : t[c + k] = mid[k]

(* Each piece is like that. *)
LEMMA FramedIs ==
    ASSUME NEW first \in BOOLEAN, NEW last \in BOOLEAN, NEW start, NEW mid, IsSeq(mid)
    PROVE  FramedAs(When(first, <<start>>) \o mid \o When(last, <<Epilogue>>),
                    first, last, start, mid)
<1> DEFINE a == When(first, <<start>>)
           b == When(last, <<Epilogue>>)
           s == a \o mid
           t == s \o b
<1>1. /\ IsSeq(a)
      /\ first => Len(a) = 1 /\ a[1] = start
      /\ ~first => Len(a) = 0
  <2>1. a \in Seq({start})
    <3>1. <<start>> \in Seq({start}) /\ <<>> \in Seq({start})
      OBVIOUS
    <3> QED
      BY <3>1 DEF When
  <2> QED
    BY <2>1, SeqIsSeq DEF When
<1>2. /\ IsSeq(b)
      /\ last => Len(b) = 1 /\ b[1] = Epilogue
      /\ ~last => Len(b) = 0
  <2>1. b \in Seq({Epilogue})
    <3>1. <<Epilogue>> \in Seq({Epilogue}) /\ <<>> \in Seq({Epilogue})
      OBVIOUS
    <3> QED
      BY <3>1 DEF When
  <2> QED
    BY <2>1, SeqIsSeq DEF When
<1>3. Len(mid) \in Nat
  BY DEF IsSeq
<1> HIDE DEF a, b
<1>4. /\ IsSeq(s) /\ Len(s) = Len(a) + Len(mid)
      /\ \A i \in 1..(Len(a) + Len(mid)) :
            s[i] = IF i <= Len(a) THEN a[i] ELSE mid[i - Len(a)]
  BY <1>1, ConcatIsSeq
<1> HIDE DEF s
<1>5. /\ IsSeq(t) /\ Len(t) = Len(s) + Len(b)
      /\ \A i \in 1..(Len(s) + Len(b)) :
            t[i] = IF i <= Len(s) THEN s[i] ELSE b[i - Len(s)]
  BY <1>2, <1>4, ConcatIsSeq
<1> HIDE DEF t
<1>6. Len(a) \in {0, 1} /\ Len(b) \in {0, 1} /\ Len(t) = Len(a) + Len(mid) + Len(b)
  BY <1>1, <1>2, <1>3, <1>4, <1>5
<1>7. ASSUME NEW k \in 1..Len(mid)
      PROVE  t[Len(a) + k] = mid[k]
  <2>1. /\ Len(a) + k \in 1..(Len(a) + Len(mid)) /\ Len(a) + k \in 1..(Len(s) + Len(b))
        /\ Len(a) + k <= Len(s) /\ ~(Len(a) + k <= Len(a)) /\ (Len(a) + k) - Len(a) = k
    BY <1>3, <1>4, <1>6
  <2> QED
    BY <1>4, <1>5, <2>1
<1>8. ASSUME first PROVE t[1] = start
  <2>1. Len(a) = 1 /\ a[1] = start
    BY <1>1, <1>8
  <2>2. 1 \in 1..(Len(a) + Len(mid)) /\ 1 \in 1..(Len(s) + Len(b)) /\ 1 <= Len(s)
    BY <1>3, <1>4, <1>6, <2>1
  <2> QED
    BY <1>4, <1>5, <2>1, <2>2
<1>9. ASSUME last PROVE t[Len(t)] = Epilogue
  <2>1. Len(b) = 1 /\ b[1] = Epilogue
    BY <1>2, <1>9
  <2>2. Len(t) \in 1..(Len(s) + Len(b)) /\ ~(Len(t) <= Len(s)) /\ Len(t) - Len(s) = 1
    BY <1>3, <1>4, <1>5, <1>6, <2>1
  <2> QED
    BY <1>5, <2>1, <2>2
<1>10. \E c, d \in {0, 1} :
          /\ IsSeq(t) /\ Len(t) = c + Len(mid) + d
          /\ first => c = 1 /\ t[1] = start
          /\ ~first => c = 0
          /\ last => d = 1 /\ t[Len(t)] = Epilogue
          /\ ~last => d = 0
          /\ \A k \in 1..Len(mid) : t[c + k] = mid[k]
  BY <1>1, <1>2, <1>5, <1>6, <1>7, <1>8, <1>9
<1>11. FramedAs(t, first, last, start, mid)
  BY <1>10 DEF FramedAs
<1> QED
  BY <1>11 DEF t, s, a, b

(* The frame which all pieces have *)
LEMMA Framed ==
    ASSUME NEW first \in BOOLEAN, NEW last \in BOOLEAN,
           NEW start, start[1] = "preamble", NEW mid, Plain(mid),
           first \/ last \/ Len(mid) > 0
    PROVE  Whole(When(first, <<start>>) \o mid \o When(last, <<Epilogue>>), first, last)
<1> DEFINE t == When(first, <<start>>) \o mid \o When(last, <<Epilogue>>)
<1>1. IsSeq(mid) /\ Len(mid) \in Nat
  BY DEF Plain, IsSeq
<1>2. FramedAs(t, first, last, start, mid)
  BY <1>1, FramedIs
<1> HIDE DEF t
<1>3. PICK c, d \in {0, 1} :
          /\ IsSeq(t) /\ Len(t) = c + Len(mid) + d
          /\ first => c = 1 /\ t[1] = start
          /\ ~first => c = 0
          /\ last => d = 1 /\ t[Len(t)] = Epilogue
          /\ ~last => d = 0
          /\ \A k \in 1..Len(mid) : t[c + k] = mid[k]
  BY <1>2 DEF FramedAs
<1>4. Epilogue[1] # "preamble" /\ Epilogue[1] = "epilogue" /\ start # Epilogue
  BY DEF Epilogue
<1>5. ASSUME NEW k \in 1..Len(t)
      PROVE  \/ first /\ k = 1 /\ t[k] = start /\ ~(last /\ k = Len(t))
             \/ last /\ k = Len(t) /\ t[k] = Epilogue /\ ~(first /\ k = 1)
             \/ /\ ~(first /\ k = 1) /\ ~(last /\ k = Len(t))
                /\ t[k][1] \notin {"preamble", "epilogue"}
  <2>1. k \in Nat /\ k > 0 /\ k <= c + Len(mid) + d /\ Len(t) = c + Len(mid) + d
    BY <1>1, <1>3
  <2>2. CASE k <= c
    <3>1. first /\ k = 1
      BY <1>3, <2>1, <2>2
    <3>2. ~(last /\ k = Len(t))
      BY <1>1, <1>3, <2>1, <3>1
    <3> QED
      BY <1>3, <3>1, <3>2
  <2>3. CASE k > c + Len(mid)
    <3>1. last /\ k = Len(t)
      BY <1>1, <1>3, <2>1, <2>3
    <3>2. ~(first /\ k = 1)
      BY <1>1, <1>3, <2>1, <2>3
    <3> QED
      BY <1>3, <3>1, <3>2
  <2>4. CASE k > c /\ k <= c + Len(mid)
    <3>1. k - c \in 1..Len(mid) /\ c + (k - c) = k
      BY <1>1, <2>1, <2>4
    <3>2. t[k][1] \notin {"preamble", "epilogue"}
      BY <1>3, <3>1 DEF Plain
    <3>3. ~(first /\ k = 1) /\ ~(last /\ k = Len(t))
      BY <1>1, <1>3, <2>1, <2>4
    <3> QED
      BY <3>2, <3>3
  <2> QED
    BY <1>1, <2>1, <2>2, <2>3, <2>4
<1>6. Len(t) > 0
  BY <1>1, <1>3
<1>7. Whole(t, first, last)
  BY <1>3, <1>4, <1>5, <1>6 DEF Whole
<1> QED
  BY <1>7 DEF t

(* The years of a sorted index end after they begin. *)
LEMMA YearsAreOrdered ==
    ASSUME Index(entries), Sorted(entries)
    PROVE  LET yy == YearsOf(entries)
           IN  yy.begin \in Nat /\ yy.end \in Nat /\ yy.begin <= yy.end
<1>1. CASE entries = <<>>
  BY <1>1 DEF YearsOf, NoYears
<1>2. CASE entries # <<>>
  <2> DEFINE L == Len(entries)
             a == entries[1].stamp.day
             b == entries[L].stamp.day
  <2>1. L \in Nat /\ L > 0 /\ 1 \in 1..L /\ L \in 1..L
    BY <1>2, EmptySeq DEF Index
  <2>2. a \in Days3 /\ b \in Days3
    BY <2>1 DEF Index, IsEntry
  <2>3. a[1] <= b[1]
    <3> SUFFICES ASSUME b[1] < a[1] PROVE FALSE
      BY <2>2 DEF Days3, Tuples
    <3>1. Before(b, a)
      BY <2>2 DEF Before, Days3, Tuples
    <3>2. L # 1
      <4>1. a[1] \in Nat
        BY <2>2 DEF Days3, Tuples
      <4>2. ASSUME L = 1 PROVE FALSE
        BY <4>1, <4>2
      <4> QED
        BY <4>2
    <3>3. 1 < L
      <4>1. \A x \in Nat : x > 0 /\ x # 1 => 1 < x
        OBVIOUS
      <4> QED
        BY ONLY <2>1, <3>2, <4>1
    <3> QED
      BY <2>1, <3>1, <3>3, PartsAreRanges
  <2>4. Head(entries) = entries[1] /\ Last(entries) = entries[L]
    BY <1>2 DEF Last
  <2>5. YearsOf(entries) = [begin |-> a[1], end |-> b[1] + 1]
    BY <1>2, <2>4 DEF YearsOf, YearOf
  <2> HIDE DEF a, b
  <2> QED
    BY <2>2, <2>3, <2>5 DEF Days3, Tuples
<1> QED
  BY <1>1, <1>2

(* The rows of the front page *)
LEMMA RowsAreSeq ==
    ASSUME Index(entries), Sorted(entries), years = YearsOf(entries)
    PROVE  /\ IsSeq(Rows)
           /\ DOMAIN Rows = 1..Len(Rows)
<1> DEFINE N == years.end - years.begin
<1>1. N \in Nat
  BY YearsAreOrdered
<1>2. DOMAIN Rows = 1..N /\ Rows = [i \in 1..N |-> Rows[i]]
  BY DEF Rows
<1> HIDE DEF N
<1> QED
  BY <1>1, <1>2, TableIsSeq DEF IsSeq

(* The pieces of the front page *)
LEMMA FrontIsWhole ==
    ASSUME Index(entries), Sorted(entries), years = YearsOf(entries),
           NEW p, p[1] = "front", NEW i \in 0..1
    PROVE  Whole(FrontItems(p, i), i = 0, i = 1)
<1> DEFINE totals == <<"totals", ColumnTotals, Total(ColumnTotals)>>
           list == [r \in DOMAIN Rows |->
                        <<"year", Rows[r].year, Rows[r].months, Total(Rows[r].months)>>]
           mid == <<totals>> \o list
<1>1. Pieces(p) = 2
  BY DEF Pieces, IsGallery
<1>2. IsSeq(list) /\ \A r \in 1..Len(list) : list[r][1] = "year"
  <2>1. DOMAIN list = 1..Len(Rows) /\ list = [r \in 1..Len(Rows) |-> list[r]]
    BY RowsAreSeq
  <2>2. \A r \in 1..Len(Rows) : list[r][1] = "year"
    BY RowsAreSeq
  <2> HIDE DEF list
  <2>3. Len(Rows) \in Nat
    BY RowsAreSeq DEF IsSeq
  <2>4. IsSeq(list) /\ Len(list) = Len(Rows)
    BY <2>1, <2>3, TableIsSeq
  <2> QED
    BY <2>2, <2>4
<1>3. totals[1] = "totals"
  OBVIOUS
<1> HIDE DEF totals, list
<1>4. Plain(mid)
  <2> DEFINE t == <<totals>>
  <2>1. t \in Seq({totals}) /\ Len(t) = 1 /\ t[1] = totals
    OBVIOUS
  <2>2. IsSeq(t)
    BY <2>1, SeqIsSeq
  <2>3. mid = t \o list
    OBVIOUS
  <2> HIDE DEF mid, t
  <2>4. Len(list) \in Nat
    BY <1>2 DEF IsSeq
  <2>5. /\ IsSeq(mid) /\ Len(mid) = Len(t) + Len(list)
        /\ \A k \in 1..(Len(t) + Len(list)) :
              mid[k] = IF k <= Len(t) THEN t[k] ELSE list[k - Len(t)]
    BY <1>2, <2>2, <2>3, ConcatIsSeq
  <2>6. ASSUME NEW k \in 1..Len(mid) PROVE mid[k][1] \in {"totals", "year"}
    <3>1. k \in 1..(1 + Len(list)) /\ (k = 1 \/ k - 1 \in 1..Len(list))
      BY <2>1, <2>4, <2>5
    <3>2. mid[k] = IF k <= 1 THEN t[k] ELSE list[k - 1]
      BY <2>1, <2>5, <3>1
    <3> QED
      BY <1>2, <1>3, <2>1, <3>1, <3>2
  <2> QED
    BY <2>5, <2>6 DEF Plain
<1>5. CASE i = 0
  <2>1. FrontItems(p, i) = <<Preamble>> \o <<>>
    BY <1>1, <1>5 DEF FrontItems, When, FirstPiece, LastPiece
  <2>2. <<Preamble>> \o <<>> = <<Preamble>>
    OBVIOUS
  <2> DEFINE s == <<Preamble>>
  <2>3. s \in Seq({Preamble}) /\ Len(s) = 1 /\ s[1] = Preamble
    OBVIOUS
  <2>4. Preamble[1] = "preamble" /\ Preamble # Epilogue
    BY DEF Preamble, Epilogue
  <2> HIDE DEF s
  <2>5. IsSeq(s)
    BY <2>3, SeqIsSeq
  <2>6. FrontItems(p, i) = s
    BY <2>1, <2>2 DEF s
  <2> QED
    BY <1>5, <2>3, <2>4, <2>5, <2>6 DEF Whole
<1>6. CASE i = 1
  <2> DEFINE b == When(TRUE, <<Epilogue>>)
  <2>1. FrontItems(p, i) = <<>> \o (mid \o <<Epilogue>>)
    BY <1>1, <1>6 DEF FrontItems, When, FirstPiece, LastPiece, totals, list
  <2>2. <<>> \o (mid \o <<Epilogue>>) = (<<>> \o mid) \o <<Epilogue>>
    <3> DEFINE X == ToSet(mid) \cup {Epilogue}
               e == <<Epilogue>>
    <3>1. mid \in Seq(X) /\ e \in Seq(X) /\ <<>> \in Seq(X)
      <4>1. mid \in Seq(ToSet(mid)) /\ ToSet(mid) \subseteq X /\ Epilogue \in X
        BY <1>4 DEF Plain, IsSeq
      <4> HIDE DEF X, mid
      <4>2. e \in Seq(X) /\ <<>> \in Seq(X)
        BY <4>1
      <4> QED
        BY <4>1, <4>2, SeqMonotonic
    <3> HIDE DEF X, e, mid
    <3>2. <<>> \o (mid \o e) = (<<>> \o mid) \o e
      BY <3>1, ConcatAssociative
    <3> QED
      BY <3>2 DEF e
  <2> HIDE DEF mid
  <2>3. Whole(When(i = 0, <<Preamble>>) \o mid \o When(i = 1, <<Epilogue>>), i = 0, i = 1)
    <3>1. Preamble[1] = "preamble" /\ (i = 0) \in BOOLEAN /\ (i = 1) \in BOOLEAN
      BY DEF Preamble
    <3> QED
      BY <1>4, <1>6, <3>1, Framed
  <2>4. When(i = 0, <<Preamble>>) = <<>> /\ When(i = 1, <<Epilogue>>) = <<Epilogue>>
    BY <1>6 DEF When
  <2> QED
    BY <2>1, <2>2, <2>3, <2>4
<1> QED
  BY <1>5, <1>6

(* The pieces of the page of a year *)
LEMMA YearIsWhole ==
    ASSUME NEW p, p[1] = "year", p[2] \in Nat, NEW i \in 0..3
    PROVE  Whole(YearItems(p, i), i = 0, i = 3)
<1> DEFINE start == <<"preamble", <<p[2] - 1>>, <<p[2] + 1>> >>
           mid == Quarter(p[2], i + 1)
           weeks == Weeks(p[2], 1 + ((i + 1) - 1) * 3, 3)
<1>1. Pieces(p) = 4
  BY DEF Pieces, IsGallery
<1>2. IsSeq(weeks) /\ Len(weeks) > 0
  <2>1. 1 + ((i + 1) - 1) * 3 \in Nat
    OBVIOUS
  <2> QED
    BY <2>1, WeeksNotNone
<1>3. Len(weeks) \in Nat /\ DOMAIN weeks = 1..Len(weeks)
  BY <1>2 DEF IsSeq
<1>4. /\ DOMAIN mid = 1..Len(weeks)
      /\ mid = [w \in 1..Len(weeks) |-> mid[w]]
      /\ \A w \in 1..Len(weeks) : mid[w][1] = "week"
  BY <1>3 DEF Quarter
<1> HIDE DEF mid, weeks
<1>5. IsSeq(mid) /\ Len(mid) = Len(weeks)
  BY <1>3, <1>4, TableIsSeq
<1>6. Plain(mid) /\ Len(mid) > 0
  BY <1>2, <1>4, <1>5 DEF Plain
<1>7. start[1] = "preamble" /\ (i = 0) \in BOOLEAN /\ (i = 3) \in BOOLEAN
  OBVIOUS
<1>8. YearItems(p, i) = When(i = 0, <<start>>) \o mid \o When(i = 3, <<Epilogue>>)
  <2>1. FirstPiece(i) = (i = 0) /\ LastPiece(p, i) = (i = 3)
    BY <1>1 DEF FirstPiece, LastPiece
  <2> QED
    BY <2>1 DEF YearItems, mid
<1> HIDE DEF start, mid
<1> DEFINE first == i = 0
           last == i = 3
<1> HIDE DEF first, last
<1>9. first \in BOOLEAN /\ last \in BOOLEAN
  BY DEF first, last
<1>10. Whole(When(first, <<start>>) \o mid \o When(last, <<Epilogue>>), first, last)
  BY <1>6, <1>7, <1>9, Framed
<1> QED
  BY <1>8, <1>10 DEF first, last

(* The pieces of the page of a photo *)
LEMMA PhotoIsWhole ==
    ASSUME NEW p, p[1] = "photo", NEW i \in 0..1
    PROVE  Whole(PhotoItems(p, i), i = 0, i = 1)
<1> DEFINE e == entries[Search(p[2])]
           entry == <<"entry", e.photo, e.stamp, e.text>>
           keys == <<"keys", e.keys>>
           image == <<"image", e.photo>>
           a == <<Preamble, entry>>
           b == <<keys, image, Epilogue>>
<1>1. Pieces(p) = 2
  BY DEF Pieces, IsGallery
<1>2. /\ entry[1] = "entry" /\ keys[1] = "keys" /\ image[1] = "image"
      /\ Preamble[1] = "preamble" /\ Epilogue[1] = "epilogue"
  BY DEF Preamble, Epilogue
<1>3. PhotoItems(p, i) = When(i = 0, a) \o When(i = 1, b)
  <2>1. FirstPiece(i) = (i = 0) /\ LastPiece(p, i) = (i = 1)
    BY <1>1 DEF FirstPiece, LastPiece
  <2> QED
    BY <2>1 DEF PhotoItems
<1> HIDE DEF entry, keys, image
<1>4. CASE i = 0
  <2>1. PhotoItems(p, i) = a
    <3>1. When(i = 0, a) = a /\ When(i = 1, b) = <<>> /\ a \o <<>> = a
      BY <1>4 DEF When
    <3> QED
      BY <1>3, <3>1
  <2>2. a \in Seq({Preamble, entry}) /\ Len(a) = 2 /\ a[1] = Preamble /\ a[2] = entry
    OBVIOUS
  <2> HIDE DEF a
  <2>3. IsSeq(a)
    BY <2>2, SeqIsSeq
  <2>4. \A k \in 1..2 : (k = 1 /\ a[k] = Preamble) \/ (k = 2 /\ a[k] = entry)
    <3>1. \A k \in 1..2 : k = 1 \/ k = 2
      OBVIOUS
    <3> QED
      BY <2>2, <3>1
  <2>5. \A k \in 1..2 : a[k] # Epilogue
    BY <1>2, <2>4
  <2>6. Whole(a, i = 0, i = 1)
    BY <1>2, <1>4, <2>2, <2>3, <2>4, <2>5 DEF Whole
  <2> QED
    BY <2>1, <2>6
<1>5. CASE i = 1
  <2>1. PhotoItems(p, i) = b
    <3>1. When(i = 0, a) = <<>> /\ When(i = 1, b) = b /\ <<>> \o b = b
      BY <1>5 DEF When
    <3> QED
      BY <1>3, <3>1
  <2>2. /\ b \in Seq({keys, image, Epilogue}) /\ Len(b) = 3
        /\ b[1] = keys /\ b[2] = image /\ b[3] = Epilogue
    OBVIOUS
  <2> HIDE DEF b
  <2>3. IsSeq(b)
    BY <2>2, SeqIsSeq
  <2>4. \A k \in 1..3 : \/ (k = 1 /\ b[k] = keys)
                       \/ (k = 2 /\ b[k] = image)
                       \/ (k = 3 /\ b[k] = Epilogue)
    <3>1. \A k \in 1..3 : k = 1 \/ k = 2 \/ k = 3
      OBVIOUS
    <3> QED
      BY <2>2, <3>1
  <2>5. \A k \in 1..3 : b[k][1] # "preamble" /\ (b[k] = Epilogue <=> k = 3)
    BY <1>2, <2>4
  <2>6. Whole(b, i = 0, i = 1)
    BY <1>2, <1>5, <2>2, <2>3, <2>5 DEF Whole
  <2> QED
    BY <2>1, <2>6
<1> QED
  BY <1>4, <1>5

(* The pieces of the page of all keywords *)
LEMMA WordsAreWhole ==
    ASSUME NEW p, p[1] = "words", NEW i \in 0..(Pieces(p) - 1)
    PROVE  Whole(WordItems(p, i), FirstPiece(i), LastPiece(p, i))
<1> DEFINE letters == Alphabet[i + 1]
           keys == {k \in DOMAIN byKey : k # <<>> /\ k[1] \in letters}
           item == <<"words", letters, keys>>
           mid == <<item>>
<1>1. item[1] = "words"
  OBVIOUS
<1>2. WordItems(p, i) =
        When(FirstPiece(i), <<Preamble>>) \o mid \o When(LastPiece(p, i), <<Epilogue>>)
  BY DEF WordItems
<1> HIDE DEF item
<1>3. mid \in Seq({item}) /\ Len(mid) = 1 /\ mid[1] = item
  OBVIOUS
<1> HIDE DEF mid
<1>4. Plain(mid)
  <2>1. IsSeq(mid)
    BY <1>3, SeqIsSeq
  <2> QED
    BY <1>1, <1>3, <2>1 DEF Plain
<1>5. Preamble[1] = "preamble" /\ FirstPiece(i) \in BOOLEAN /\ LastPiece(p, i) \in BOOLEAN
  BY DEF Preamble, FirstPiece, LastPiece
<1>6. Len(mid) > 0
  BY <1>3
<1> QED
  BY <1>2, <1>4, <1>5, <1>6, Framed

(* The items for the photos of a piece of a gallery *)
Thumbs(ee) == [k \in DOMAIN ee |-> <<"photo", ee[k].photo>>]

(* The pieces of a gallery *)
LEMMA GalleryIsWhole ==
    ASSUME Indexed, NEW p, IsGallery(p), Proper(p), NEW i \in 0..(Pieces(p) - 1),
           NEW start, start[1] = "preamble"
    PROVE  Whole(Thumbnails(p, i, start), FirstPiece(i), LastPiece(p, i))
<1> DEFINE ee == Photographs(p, i)
           mid == Thumbs(ee)
<1>1. PICK lo, hi : IsCut(ee, Gallery(p), lo, hi)
  BY GalleryIsCut
<1>2. Thumbnails(p, i, start) =
        When(FirstPiece(i), <<start>>) \o mid \o When(LastPiece(p, i), <<Epilogue>>)
  BY DEF Thumbnails, Thumbs
<1> HIDE DEF ee
<1>3. hi - lo \in Nat /\ hi - lo > 0 /\ DOMAIN ee = 1..(hi - lo)
  BY <1>1 DEF IsCut
<1>4. /\ DOMAIN mid = 1..(hi - lo) /\ mid = [k \in 1..(hi - lo) |-> mid[k]]
      /\ \A k \in 1..(hi - lo) : mid[k][1] = "photo"
  BY <1>3 DEF Thumbs
<1> HIDE DEF mid
<1>5. IsSeq(mid) /\ Len(mid) = hi - lo
  BY <1>3, <1>4, TableIsSeq
<1>6. Plain(mid) /\ Len(mid) > 0
  BY <1>3, <1>4, <1>5 DEF Plain
<1>7. FirstPiece(i) \in BOOLEAN /\ LastPiece(p, i) \in BOOLEAN
  BY DEF FirstPiece, LastPiece
<1> QED
  BY <1>2, <1>6, <1>7, Framed

(* Each piece of a gallery begins alike, if it is the one which begins. *)
LEMMA PieceOfGallery ==
    ASSUME NEW p, IsGallery(p)
    PROVE  \E start : start[1] = "preamble" /\ \A i : Piece(p, i) = Thumbnails(p, i, start)
<1>1. CASE p[1] = "month"
  <2> DEFINE start == <<"preamble", PrevMonth(p[2]), NextMonth(p[2])>>
  <2>1. start[1] = "preamble" /\ \A i : Piece(p, i) = Thumbnails(p, i, start)
    BY <1>1 DEF Piece, MonthItems
  <2> QED
    BY <2>1
<1>2. CASE p[1] = "day"
  <2> DEFINE start == <<"preamble", PrevDay(p[2]), NextDayWithPhotos(p[2])>>
  <2>1. start[1] = "preamble" /\ \A i : Piece(p, i) = Thumbnails(p, i, start)
    BY <1>2 DEF Piece, DayItems
  <2> QED
    BY <2>1
<1>3. CASE p[1] = "key"
  <2>1. Preamble[1] = "preamble" /\ \A i : Piece(p, i) = Thumbnails(p, i, Preamble)
    BY <1>3 DEF Piece, KeywordItems, Preamble
  <2> QED
    BY <2>1
<1> QED
  BY <1>1, <1>2, <1>3 DEF IsGallery

(***************************************************************************)
(* Whatever the page: its number of pieces is a number, its first piece    *)
(* begins it, its last piece ends it, and no piece is empty.               *)
(***************************************************************************)
LEMMA PieceIsWhole ==
    ASSUME Indexed, years = YearsOf(entries), NEW p, Proper(p)
    PROVE  /\ Pieces(p) \in Nat
           /\ \A i \in 0..(Pieces(p) - 1) :
                 Whole(Piece(p, i), FirstPiece(i), LastPiece(p, i))
<1>1. CASE p[1] = "front"
  <2>1. Pieces(p) = 2 /\ \A i : Piece(p, i) = FrontItems(p, i)
    BY <1>1 DEF Pieces, Piece, IsGallery
  <2>2. \A i \in 0..1 : Whole(Piece(p, i), i = 0, i = 1)
    BY <1>1, <2>1, FrontIsWhole DEF Indexed
  <2>3. \A i \in 0..1 : FirstPiece(i) = (i = 0) /\ LastPiece(p, i) = (i = 1)
    BY <2>1 DEF FirstPiece, LastPiece
  <2> QED
    BY <2>1, <2>2, <2>3
<1>2. CASE p[1] = "year"
  <2>1. Pieces(p) = 4 /\ \A i : Piece(p, i) = YearItems(p, i)
    BY <1>2 DEF Pieces, Piece, IsGallery
  <2>2. \A i \in 0..3 : Whole(Piece(p, i), i = 0, i = 3)
    BY <1>2, <2>1, YearIsWhole DEF Proper, Called
  <2>3. \A i \in 0..3 : FirstPiece(i) = (i = 0) /\ LastPiece(p, i) = (i = 3)
    BY <2>1 DEF FirstPiece, LastPiece
  <2> QED
    BY <2>1, <2>2, <2>3
<1>3. CASE p[1] = "photo"
  <2>1. Pieces(p) = 2 /\ \A i : Piece(p, i) = PhotoItems(p, i)
    BY <1>3 DEF Pieces, Piece, IsGallery
  <2>2. \A i \in 0..1 : Whole(Piece(p, i), i = 0, i = 1)
    BY <1>3, <2>1, PhotoIsWhole
  <2>3. \A i \in 0..1 : FirstPiece(i) = (i = 0) /\ LastPiece(p, i) = (i = 1)
    BY <2>1 DEF FirstPiece, LastPiece
  <2> QED
    BY <2>1, <2>2, <2>3
<1>4. CASE p[1] = "words"
  <2>1. Pieces(p) = Len(Alphabet) /\ \A i : Piece(p, i) = WordItems(p, i)
    BY <1>4 DEF Pieces, Piece, IsGallery
  <2>2. Len(Alphabet) \in Nat
    BY AlphabetAssumption, LenProperties
  <2> QED
    BY <1>4, <2>1, <2>2, WordsAreWhole
<1>5. CASE IsGallery(p)
  <2>1. PICK start : start[1] = "preamble" /\ \A i : Piece(p, i) = Thumbnails(p, i, start)
    BY <1>5, PieceOfGallery
  <2> QED
    BY <1>5, <2>1, GalleryIsCut, GalleryIsWhole
<1> QED
  BY <1>1, <1>2, <1>3, <1>4, <1>5 DEF Proper, IsPage

(***************************************************************************)
(* What is so of the index and of the page being generated, in every state:*)
(* the pieces which the client got so far are the first n of the page.     *)
(***************************************************************************)
Generated(p) ==
    IF p \in {NoPage, NotFound} THEN n = 0 /\ body = <<>>
    ELSE /\ Proper(p)
         /\ n \in Nat /\ n <= Pieces(p)
         /\ IsSeq(body) /\ Len(body) = n
         /\ \A i \in 1..n : body[i] = Piece(p, i - 1)

PagesInv ==
    /\ KeptInv
    /\ Ready => Inverted /\ years = YearsOf(entries)
    /\ ~Ready => page = NoPage
    /\ \E p : page = p /\ Generated(p)

(* No page is one of the two which stand for none. *)
LEMMA ProperIsPage ==
    ASSUME NEW p, Proper(p)
    PROVE  p \notin {NoPage, NotFound}
<1>1. NoPage[1] = "none" /\ NotFound[1] = "404"
  BY DEF NoPage, NotFound
<1>2. p[1] \in {"month", "day", "key", "front", "year", "photo", "words"}
  BY DEF Proper, IsPage, IsGallery
<1>3. p[1] # "none" /\ p[1] # "404"
  BY <1>2
<1> QED
  BY <1>1, <1>3

(* What is known about the index, when it is ready *)
LEMMA IsIndexed ==
    ASSUME PagesInv, Ready
    PROVE  Indexed /\ years = YearsOf(entries)
BY DEF PagesInv, KeptInv, IInv, Indexed

(* No page, or not a page, has been generated. *)
LEMMA NothingGenerated ==
    ASSUME NEW p \in {NoPage, NotFound}, n = 0, body = <<>>
    PROVE  Generated(p)
BY DEF Generated

(* Before the first request no page is there to be wrong. *)
LEMMA PagesInit == CInit => PagesInv
<1> SUFFICES ASSUME CInit PROVE PagesInv
  OBVIOUS
<1>1. KeptInv
  BY KeptInit
<1>2. ~Ready /\ page = NoPage /\ n = 0 /\ body = <<>>
  BY DEF CInit, PInit, Init, Ready
<1>3. Generated(NoPage)
  BY <1>2, NothingGenerated
<1> QED
  BY <1>1, <1>2, <1>3 DEF PagesInv

(* The index is made: no page has been asked for. *)
LEMMA PagesBuild == PagesInv /\ Build => PagesInv'
<1> SUFFICES ASSUME PagesInv, Build PROVE PagesInv'
  OBVIOUS
<1>1. KeptInv'
  BY KeptNext DEF PagesInv, CNext
<1>2. page = NoPage /\ n = 0 /\ body = <<>>
  <2>1. ~Ready
    BY DEF Build, Next, ReadLine, EndOfFiles, Ready
  <2> QED
    BY <2>1 DEF PagesInv, Generated
<1>3. page' = NoPage /\ n' = 0 /\ body' = <<>>
  BY <1>2 DEF Build, served
<1>4. Generated(NoPage)'
  BY <1>3 DEF Generated
<1>5. Ready' => Inverted' /\ (years = YearsOf(entries))'
  <2>1. CASE ReadLine
    BY <2>1 DEF ReadLine, Ready
  <2>2. CASE EndOfFiles
    BY <2>2 DEF EndOfFiles, Inverted
  <2> QED
    BY <2>1, <2>2 DEF Build, Next
<1> QED
  BY <1>1, <1>3, <1>4, <1>5 DEF PagesInv

(* Nothing changes but the page. *)
LEMMA IndexStays ==
    ASSUME PagesInv, UNCHANGED vars
    PROVE  /\ KeptInv'
           /\ (Ready => Inverted /\ years = YearsOf(entries))'
           /\ Ready' <=> Ready
<1>1. KeptInv'
  BY KeptSame DEF PagesInv
<1>2. entries' = entries /\ byKey' = byKey /\ years' = years /\ pc' = pc
  BY DEF vars
<1> QED
  BY <1>1, <1>2 DEF PagesInv, Inverted, Ready

(* A page is constructed for a request, or none. *)
LEMMA PagesRequest == PagesInv /\ Request => PagesInv'
<1> SUFFICES ASSUME PagesInv, Request PROVE PagesInv'
  OBVIOUS
<1>1. Ready /\ UNCHANGED vars
  BY DEF Request
<1>2. /\ KeptInv' /\ Ready'
      /\ (Ready => Inverted /\ years = YearsOf(entries))'
  BY <1>1, IndexStays
<1>3a. PICK r \in Requests(files) : \E a \in ResponseOf(r) :
        Open(IF a.status = 200 /\ IsPage(a.what) THEN a.what ELSE NotFound)
  BY DEF Request
<1>3. PICK a \in ResponseOf(r) :
        Open(IF a.status = 200 /\ IsPage(a.what) THEN a.what ELSE NotFound)
  BY <1>3a
<1>4. r.uri \in Seq(PossibleMarks)
  BY RequestAssumption DEF PagesInv, KeptInv
<1>5. CASE a.status = 200 /\ IsPage(a.what)
  <2> DEFINE p == a.what
  <2>1. Proper(p)
    BY <1>4, <1>5, ResponseIsProper
  <2> HIDE DEF p
  <2>2. page' = p /\ n' = 0 /\ body' = <<>>
    BY <1>3, <1>5 DEF Open, p
  <2>3. Proper(p)'
    BY <1>1, <2>1, SamePieces DEF Proper
  <2>4. Pieces(p)' \in Nat
    <3>1. Pieces(p) \in Nat
      BY <1>1, <2>1, IsIndexed, PieceIsWhole
    <3> QED
      BY <1>1, <3>1, SamePieces
  <2>5. p \notin {NoPage, NotFound}
    BY <2>1, ProperIsPage
  <2>6. IsSeq(<<>>) /\ Len(<<>>) = 0
    BY SeqIsSeq, EmptySeq
  <2>7. Generated(p)'
    BY <2>2, <2>3, <2>4, <2>5, <2>6 DEF Generated
  <2> QED
    BY <1>2, <2>2, <2>7 DEF PagesInv
<1>6. CASE ~(a.status = 200 /\ IsPage(a.what))
  <2>1. page' = NotFound /\ n' = 0 /\ body' = <<>>
    BY <1>3, <1>6 DEF Open
  <2>2. Generated(NotFound)'
    BY <2>1 DEF Generated
  <2> QED
    BY <1>2, <2>1, <2>2 DEF PagesInv
<1> QED
  BY <1>5, <1>6

(* Another piece of the page *)
LEMMA PagesTick == PagesInv /\ Tick => PagesInv'
<1> SUFFICES ASSUME PagesInv, Tick PROVE PagesInv'
  OBVIOUS
<1>1. Ready /\ UNCHANGED vars
  BY DEF Tick
<1>2. /\ KeptInv' /\ Ready'
      /\ (Ready => Inverted /\ years = YearsOf(entries))'
  BY <1>1, IndexStays
<1>3. PICK p : p = page
  OBVIOUS
<1>4. p \notin {NoPage, NotFound} /\ n # Pieces(p)
  BY <1>3 DEF Tick, Done, NoneOpen
<1>5. Generated(p)
  BY <1>3 DEF PagesInv
<1>6. /\ Proper(p) /\ n \in Nat /\ n <= Pieces(p)
      /\ IsSeq(body) /\ Len(body) = n
      /\ \A i \in 1..n : body[i] = Piece(p, i - 1)
  BY <1>4, <1>5 DEF Generated
<1>7. Pieces(p) \in Nat
  BY <1>1, <1>6, IsIndexed, PieceIsWhole
<1>8. page' = p /\ n' = n + 1 /\ body' = Append(body, Piece(p, n))
  BY <1>3 DEF Tick
<1>9. Proper(p)' /\ Pieces(p)' = Pieces(p)
  BY <1>1, <1>6, SamePieces DEF Proper
<1>10. IsSeq(body)' /\ Len(body') = n'
  <2>1. IsSeq(Append(body, Piece(p, n))) /\ Len(Append(body, Piece(p, n))) = Len(body) + 1
    BY <1>6, AppendIsSeq
  <2> QED
    BY <1>6, <1>8, <2>1 DEF IsSeq
<1>11. ASSUME NEW i \in 1..(n + 1)
       PROVE  body'[i] = Piece(p, i - 1)'
  <2>1. Piece(p, i - 1)' = Piece(p, i - 1)
    <3>1. PICK k : k = i - 1
      OBVIOUS
    <3>2. Piece(p, k)' = Piece(p, k)
      BY <1>1, SamePieces
    <3> QED
      BY <3>1, <3>2
  <2>2. i \in Nat /\ (i \in 1..n \/ i = n + 1)
    BY <1>6
  <2>3. Append(body, Piece(p, n))[i] = IF i = n + 1 THEN Piece(p, n) ELSE body[i]
    <3>1. body \in Seq(ToSet(body)) /\ DOMAIN body = 1..n
      BY <1>6 DEF IsSeq
    <3> QED
      BY <1>6, <2>2, <3>1
  <2> QED
    BY <1>6, <1>8, <2>1, <2>2, <2>3
<1>12. Generated(p)'
  BY <1>4, <1>6, <1>7, <1>8, <1>9, <1>10, <1>11 DEF Generated
<1> QED
  BY <1>2, <1>8, <1>12 DEF PagesInv

(* The response is deleted. *)
LEMMA PagesFinish == PagesInv /\ Finish => PagesInv'
<1> SUFFICES ASSUME PagesInv, Finish PROVE PagesInv'
  OBVIOUS
<1>1. UNCHANGED vars /\ page' = NoPage /\ n' = 0 /\ body' = <<>>
  BY DEF Finish, Open
<1>2. /\ KeptInv' /\ (Ready' => (Inverted /\ years = YearsOf(entries))')
  BY <1>1, IndexStays
<1>3. Generated(NoPage)'
  BY <1>1 DEF Generated
<1> QED
  BY <1>1, <1>2, <1>3 DEF PagesInv

(* Each step keeps the invariant. *)
LEMMA PagesNext == PagesInv /\ [CNext]_<<vars, served, asked>> => PagesInv'
<1> SUFFICES ASSUME PagesInv, [CNext]_<<vars, served, asked>>
             PROVE  PagesInv'
  OBVIOUS
<1>1. CASE UNCHANGED <<vars, served, asked>>
  <2>1. UNCHANGED vars /\ page' = page /\ n' = n /\ body' = body
    BY <1>1 DEF served
  <2>2. KeptInv' /\ (Ready' <=> Ready) /\ (Ready' => (Inverted /\ years = YearsOf(entries))')
    BY <2>1, IndexStays
  <2>3. PICK p : p = page /\ Generated(p)
    BY DEF PagesInv
  <2>4. Generated(p)'
    <3>1. Proper(p)' <=> Proper(p)
      BY <2>1, SamePieces DEF Proper
    <3>2. Pieces(p)' = Pieces(p) /\ \A i : Piece(p, i)' = Piece(p, i)
      BY <2>1, SamePieces
    <3> QED
      BY <2>1, <2>3, <3>1, <3>2 DEF Generated, IsSeq
  <2> QED
    BY <2>1, <2>2, <2>3, <2>4 DEF PagesInv
<1> QED
  BY <1>1, PagesBuild, PagesRequest, PagesTick, PagesFinish DEF CNext, GenerateMore

(***************************************************************************)
(* The pages are made from an index which is sorted, and of which the      *)
(* keywords and years are those of its entries; and what the client got of *)
(* a page are its first pieces.                                            *)
(***************************************************************************)
THEOREM PagesAreInductive == CSpec => []PagesInv
<1>1. CInit => PagesInv
  BY PagesInit
<1>2. PagesInv /\ [CNext]_<<vars, served, asked>> => PagesInv'
  BY PagesNext
<1> QED
  BY <1>1, <1>2, PTL DEF CSpec

(***************************************************************************)
(* All pieces of a page together: its begin is at the begin, and nowhere   *)
(* else, and its end at the end.                                           *)
(***************************************************************************)
LEMMA JoinedIsWhole ==
    ASSUME NEW b, IsSeq(b), Len(b) > 0,
           \A m \in 1..Len(b) : Whole(b[m], m = 1, m = Len(b))
    PROVE  /\ Joined(FlattenSeq(b), b, Len(b))
           /\ LET all == FlattenSeq(b)
              IN  \A i \in 1..Len(all) :
                    /\ all[i][1] = "preamble" <=> i = 1
                    /\ all[i] = Epilogue <=> i = Len(all)
<1> DEFINE all == FlattenSeq(b)
           N == Len(b)
           X == UNION {ToSet(b[m]) : m \in 1..Len(b)}
<1>1. N \in Nat /\ DOMAIN b = 1..N
  BY DEF IsSeq
<1>2. \A m \in 1..N : b[m] # <<>> /\ b[m] \in Seq(X)
  <2> SUFFICES ASSUME NEW m \in 1..N PROVE b[m] # <<>> /\ b[m] \in Seq(X)
    OBVIOUS
  <2>1. IsSeq(b[m]) /\ Len(b[m]) > 0
    BY DEF Whole
  <2>2. ToSet(b[m]) \subseteq X
    OBVIOUS
  <2>3. b[m] \in Seq(ToSet(b[m]))
    BY <2>1 DEF IsSeq
  <2> HIDE DEF X
  <2>4. b[m] \in Seq(X)
    BY <2>2, <2>3, SeqMonotonic
  <2>5. Len(<<>>) = 0
    OBVIOUS
  <2> QED
    BY <2>1, <2>4, <2>5
<1>3. b \in Seq(Seq(X))
  <2> HIDE DEF X
  <2> HIDE DEF N
  <2>1. b \in [1..N -> ToSet(b)] /\ \A m \in 1..N : b[m] \in Seq(X)
    BY <1>2, LenProperties DEF IsSeq, N
  <2>2. b \in [1..N -> Seq(X)]
    BY <2>1
  <2> QED
    BY <1>1, <2>2
<1> HIDE DEF X, all
<1>4. Joined(all, b, N)
  BY <1>2, <1>3, FlattenJoins DEF all
<1>5. ASSUME NEW i \in 1..Len(all)
      PROVE  /\ all[i][1] = "preamble" <=> i = 1
             /\ all[i] = Epilogue <=> i = Len(all)
  <2>1. PICK m \in 1..N : \E j \in 1..Len(b[m]) :
          /\ all[i] = b[m][j]
          /\ i = 1 <=> m = 1 /\ j = 1
          /\ i = Len(all) <=> m = N /\ j = Len(b[m])
    BY <1>4 DEF Joined
  <2>2. PICK j \in 1..Len(b[m]) :
          /\ all[i] = b[m][j]
          /\ i = 1 <=> m = 1 /\ j = 1
          /\ i = Len(all) <=> m = N /\ j = Len(b[m])
    BY <2>1
  <2>3. /\ b[m][j][1] = "preamble" <=> m = 1 /\ j = 1
        /\ b[m][j] = Epilogue <=> m = N /\ j = Len(b[m])
    BY DEF Whole
  <2> QED
    BY <2>2, <2>3
<1> QED
  BY <1>4, <1>5 DEF all

(* What is so of the page, of whichever it is *)
LEMMA GeneratedIs ==
    ASSUME PagesInv, ~NoneOpen
    PROVE  /\ Ready /\ Proper(page)
           /\ n \in Nat /\ n <= Pieces(page) /\ Pieces(page) \in Nat
           /\ IsSeq(body) /\ Len(body) = n
           /\ \A i \in 1..n : /\ body[i] = Piece(page, i - 1)
                             /\ Whole(body[i], i = 1, i = Pieces(page))
<1>1. page \notin {NoPage, NotFound} /\ Ready
  BY DEF NoneOpen, PagesInv
<1>2. /\ Proper(page) /\ n \in Nat /\ n <= Pieces(page)
      /\ IsSeq(body) /\ Len(body) = n
      /\ \A i \in 1..n : body[i] = Piece(page, i - 1)
  BY <1>1 DEF PagesInv, Generated
<1>3. /\ Pieces(page) \in Nat
      /\ \A i \in 0..(Pieces(page) - 1) :
            Whole(Piece(page, i), FirstPiece(i), LastPiece(page, i))
  BY <1>1, <1>2, IsIndexed, PieceIsWhole
<1>4. ASSUME NEW i \in 1..n
      PROVE  Whole(body[i], i = 1, i = Pieces(page))
  <2>1. i - 1 \in 0..(Pieces(page) - 1)
    BY <1>2, <1>3
  <2>2. FirstPiece(i - 1) = (i = 1) /\ LastPiece(page, i - 1) = (i = Pieces(page))
    BY <1>2, <1>3 DEF FirstPiece, LastPiece
  <2>3. Whole(Piece(page, i - 1), FirstPiece(i - 1), LastPiece(page, i - 1))
    BY <1>3, <2>1
  <2>4. Whole(body[i], FirstPiece(i - 1), LastPiece(page, i - 1))
    BY <1>2, <2>3
  <2> QED
    BY <2>2, <2>4
<1> QED
  BY <1>1, <1>2, <1>3, <1>4

(***************************************************************************)
(* Whatever the album and whatever is asked for, what the client gets for  *)
(* a page begins once and ends once, at its end; and no piece of it is     *)
(* empty, which would end it for the client.                               *)
(***************************************************************************)
THEOREM PagesAreAlwaysWhole == CSpec => []PagesAreWhole
<1>1. ASSUME PagesInv PROVE PagesAreWhole
  <2>1. CASE body = <<>>
    <3>1. FlattenSeq(body) = <<>> /\ DOMAIN <<>> = {}
      BY <2>1, FlattenNothing
    <3> QED
      BY <2>1, <3>1 DEF PagesAreWhole
  <2>2. CASE NoneOpen
    <3>1. body = <<>>
      BY <1>1, <2>2 DEF PagesInv, Generated, NoneOpen
    <3> QED
      BY <2>1, <3>1
  <2>3. CASE ~NoneOpen /\ body # <<>>
    <3>1. /\ Proper(page) /\ n \in Nat /\ n <= Pieces(page) /\ Pieces(page) \in Nat
          /\ IsSeq(body) /\ Len(body) = n
          /\ \A i \in 1..n : Whole(body[i], i = 1, i = Pieces(page))
      BY <1>1, <2>3, GeneratedIs
    <3>2. DOMAIN body = 1..n /\ n > 0
      BY <2>3, <3>1, EmptySeq DEF IsSeq
    <3>3. \A i \in DOMAIN body : body[i] # <<>>
      <4> SUFFICES ASSUME NEW i \in 1..n PROVE body[i] # <<>>
        BY <3>2
      <4>1. Len(body[i]) > 0 /\ Len(<<>>) = 0
        BY <3>1 DEF Whole
      <4> QED
        BY <4>1
    <3>4. ASSUME Done
          PROVE  LET all == FlattenSeq(body)
                 IN  /\ \A i \in DOMAIN all : all[i][1] = "preamble" <=> i = 1
                     /\ \A i \in DOMAIN all : all[i] = Epilogue <=> i = Len(all)
      <4>1. n = Pieces(page)
        BY <2>3, <3>4 DEF Done
      <4>2. \A i \in 1..Len(body) : Whole(body[i], i = 1, i = Len(body))
        BY <3>1, <4>1
      <4>3. /\ Joined(FlattenSeq(body), body, Len(body))
            /\ LET all == FlattenSeq(body)
               IN  \A i \in 1..Len(all) :
                     /\ all[i][1] = "preamble" <=> i = 1
                     /\ all[i] = Epilogue <=> i = Len(all)
        BY <3>1, <3>2, <4>2, JoinedIsWhole
      <4>4. DOMAIN FlattenSeq(body) = 1..Len(FlattenSeq(body))
        BY <4>3 DEF Joined
      <4> QED
        BY <4>3, <4>4
    <3> QED
      BY <3>3, <3>4 DEF PagesAreWhole
  <2> QED
    BY <2>1, <2>2, <2>3
<1> QED
  BY <1>1, PagesAreInductive, PTL

(* All of it has been shown up to the photo hi, and, when last, the end. *)
Shown(s, g, hi, last) ==
    /\ IsSeq(s) /\ s # <<>> /\ s[1][1] = "preamble"
    /\ \A k \in 1..hi : s[k + 1] = <<"photo", g[k].photo>>
    /\ last => Len(s) = hi + 2 /\ s[hi + 2] = Epilogue
    /\ ~last => Len(s) = hi + 1

(* The items of a cut *)
LEMMA ThumbsOfCut ==
    ASSUME NEW ee, NEW g, NEW lo, NEW hi, IsCut(ee, g, lo, hi)
    PROVE  /\ lo \in Nat /\ hi \in Nat /\ lo < hi
           /\ IsSeq(Thumbs(ee)) /\ Len(Thumbs(ee)) = hi - lo
           /\ \A k \in 1..(hi - lo) : Thumbs(ee)[k] = <<"photo", g[lo + k].photo>>
<1>1. /\ lo \in Nat /\ hi \in Nat /\ lo < hi /\ DOMAIN ee = 1..(hi - lo)
      /\ \A k \in 1..(hi - lo) : ee[k] = g[lo + k]
  BY DEF IsCut
<1>2. /\ DOMAIN Thumbs(ee) = 1..(hi - lo)
      /\ Thumbs(ee) = [k \in 1..(hi - lo) |-> Thumbs(ee)[k]]
      /\ \A k \in 1..(hi - lo) : Thumbs(ee)[k] = <<"photo", g[lo + k].photo>>
  BY <1>1 DEF Thumbs
<1>3. hi - lo \in Nat
  BY <1>1
<1> QED
  BY <1>1, <1>2, <1>3, TableIsSeq

(* The first piece *)
LEMMA FirstIsShown ==
    ASSUME NEW ee, NEW g, NEW hi, IsCut(ee, g, 0, hi),
           NEW start, start[1] = "preamble",
           NEW first \in BOOLEAN, first, NEW last \in BOOLEAN
    PROVE  Shown(When(first, <<start>>) \o Thumbs(ee) \o When(last, <<Epilogue>>), g, hi, last)
<1> DEFINE mid == Thumbs(ee)
           t == When(first, <<start>>) \o mid \o When(last, <<Epilogue>>)
<1>1. /\ hi \in Nat /\ 0 < hi /\ IsSeq(mid) /\ Len(mid) = hi
      /\ \A k \in 1..hi : mid[k] = <<"photo", g[k].photo>>
  <2>1. /\ hi \in Nat /\ 0 < hi /\ IsSeq(mid) /\ Len(mid) = hi - 0
        /\ \A k \in 1..(hi - 0) : mid[k] = <<"photo", g[0 + k].photo>>
    BY ThumbsOfCut
  <2>2. hi - 0 = hi /\ \A k \in 1..hi : 0 + k = k
    BY <2>1
  <2> HIDE DEF mid
  <2> QED
    BY <2>1, <2>2
<1> HIDE DEF mid
<1>2. FramedAs(t, first, last, start, mid)
  <2>1. IsSeq(mid)
    BY <1>1
  <2> QED
    BY <2>1, FramedIs
<1> HIDE DEF t
<1>3. PICK d \in {0, 1} :
          /\ IsSeq(t) /\ Len(t) = 1 + hi + d /\ t[1] = start
          /\ last => d = 1 /\ t[Len(t)] = Epilogue
          /\ ~last => d = 0
          /\ \A k \in 1..hi : t[1 + k] = mid[k]
  BY <1>1, <1>2 DEF FramedAs
<1>4. \A k \in 1..hi : t[k + 1] = <<"photo", g[k].photo>>
  <2>1. \A k \in 1..hi : k + 1 = 1 + k
    BY <1>1
  <2> QED
    BY <1>1, <1>3, <2>1
<1>5. t # <<>>
  <2>1. Len(t) # 0 /\ Len(<<>>) = 0
    BY <1>1, <1>3
  <2> QED
    BY <2>1
<1>6. last => Len(t) = hi + 2 /\ t[hi + 2] = Epilogue
  <2> SUFFICES ASSUME last PROVE Len(t) = hi + 2 /\ t[hi + 2] = Epilogue
    OBVIOUS
  <2>1. Len(t) = hi + 2 /\ t[Len(t)] = Epilogue
    BY <1>1, <1>3
  <2> QED
    BY <2>1
<1>7. ~last => Len(t) = hi + 1
  BY <1>1, <1>3
<1>8. Shown(t, g, hi, last)
  BY <1>3, <1>4, <1>5, <1>6, <1>7 DEF Shown
<1> QED
  BY <1>8 DEF t, mid

(* Each later piece *)
LEMMA MoreIsShown ==
    ASSUME NEW s, NEW g, NEW lo, NEW ends \in BOOLEAN, ~ends, Shown(s, g, lo, ends),
           NEW ee, NEW hi, IsCut(ee, g, lo, hi), NEW start,
           NEW first \in BOOLEAN, ~first, NEW last \in BOOLEAN
    PROVE  Shown(s \o (When(first, <<start>>) \o Thumbs(ee) \o When(last, <<Epilogue>>)),
                 g, hi, last)
<1> DEFINE mid == Thumbs(ee)
           t == When(first, <<start>>) \o mid \o When(last, <<Epilogue>>)
           u == s \o t
<1>1. /\ lo \in Nat /\ hi \in Nat /\ lo < hi /\ IsSeq(mid) /\ Len(mid) = hi - lo
      /\ \A k \in 1..(hi - lo) : mid[k] = <<"photo", g[lo + k].photo>>
  BY ThumbsOfCut
<1> HIDE DEF mid
<1>2. FramedAs(t, first, last, start, mid)
  <2>1. IsSeq(mid)
    BY <1>1
  <2> QED
    BY <2>1, FramedIs
<1> HIDE DEF t
<1>3. PICK d \in {0, 1} :
          /\ IsSeq(t) /\ Len(t) = 0 + (hi - lo) + d
          /\ last => d = 1 /\ t[Len(t)] = Epilogue
          /\ ~last => d = 0
          /\ \A k \in 1..(hi - lo) : t[0 + k] = mid[k]
  BY <1>1, <1>2 DEF FramedAs
<1>4. /\ Len(t) = (hi - lo) + d
      /\ \A k \in 1..(hi - lo) : t[k] = <<"photo", g[lo + k].photo>>
  <2>1. \A k \in 1..(hi - lo) : 0 + k = k
    BY <1>1
  <2> QED
    BY <1>1, <1>3, <2>1
<1>5. /\ IsSeq(s) /\ Len(s) = lo + 1 /\ s[1][1] = "preamble"
      /\ \A k \in 1..lo : s[k + 1] = <<"photo", g[k].photo>>
  BY DEF Shown
<1>6. /\ IsSeq(u) /\ Len(u) = (lo + 1) + Len(t)
      /\ \A i \in 1..((lo + 1) + Len(t)) :
            u[i] = IF i <= lo + 1 THEN s[i] ELSE t[i - (lo + 1)]
  <2>1. /\ IsSeq(u) /\ Len(u) = Len(s) + Len(t)
        /\ \A i \in 1..(Len(s) + Len(t)) :
              u[i] = IF i <= Len(s) THEN s[i] ELSE t[i - Len(s)]
    BY <1>3, <1>5, ConcatIsSeq
  <2> QED
    BY <1>5, <2>1
<1> HIDE DEF u
<1>7. Len(u) = hi + 1 + d
  BY <1>1, <1>4, <1>6
<1>8. u # <<>> /\ u[1][1] = "preamble"
  <2>1. Len(u) # 0 /\ Len(<<>>) = 0
    BY <1>1, <1>7
  <2>2. 1 \in 1..((lo + 1) + Len(t)) /\ 1 <= lo + 1
    BY <1>1, <1>4
  <2> QED
    BY <1>5, <1>6, <2>1, <2>2
<1>9. ASSUME NEW k \in 1..hi
      PROVE  u[k + 1] = <<"photo", g[k].photo>>
  <2>1. k + 1 \in 1..((lo + 1) + Len(t))
    BY <1>1, <1>4
  <2>2. CASE k \in 1..lo
    <3>1. k + 1 <= lo + 1
      BY <1>1, <2>2
    <3> QED
      BY <1>5, <1>6, <2>1, <2>2, <3>1
  <2>3. CASE k \notin 1..lo
    <3> DEFINE j == k - lo
    <3>1. j \in 1..(hi - lo) /\ (k + 1) - (lo + 1) = j /\ ~(k + 1 <= lo + 1) /\ lo + j = k
      BY <1>1, <2>3
    <3> HIDE DEF j
    <3>2. u[k + 1] = t[j]
      BY <1>6, <2>1, <3>1
    <3>3. t[j] = <<"photo", g[lo + j].photo>>
      BY <1>4, <3>1
    <3> QED
      BY <3>1, <3>2, <3>3
  <2> QED
    BY <2>2, <2>3
<1>10. last => Len(u) = hi + 2 /\ u[hi + 2] = Epilogue
  <2> SUFFICES ASSUME last PROVE Len(u) = hi + 2 /\ u[hi + 2] = Epilogue
    OBVIOUS
  <2>1. d = 1 /\ t[Len(t)] = Epilogue /\ Len(t) = (hi - lo) + 1
    BY <1>3, <1>4
  <2>2. /\ hi + 2 \in 1..((lo + 1) + Len(t)) /\ ~(hi + 2 <= lo + 1)
        /\ (hi + 2) - (lo + 1) = Len(t)
    BY <1>1, <2>1
  <2>3. u[hi + 2] = t[Len(t)]
    BY <1>6, <2>2
  <2>4. Len(u) = hi + 2
    BY <1>1, <1>7, <2>1
  <2> QED
    BY <2>1, <2>3, <2>4
<1>11. ~last => Len(u) = hi + 1
  BY <1>1, <1>3, <1>7
<1>12. Shown(u, g, hi, last)
  BY <1>6, <1>8, <1>9, <1>10, <1>11 DEF Shown
<1> QED
  BY <1>12 DEF u, t, mid

(***************************************************************************)
(* All pieces of a gallery together: the begin, all of its photos, and the *)
(* end.                                                                    *)
(***************************************************************************)
LEMMA GalleryIsShown ==
    ASSUME Indexed, NEW p, IsGallery(p), Proper(p),
           NEW b, IsSeq(b), Len(b) = Pieces(p), \A m \in 1..Len(b) : b[m] = Piece(p, m - 1)
    PROVE  LET g == Gallery(p)
               all == FlattenSeq(b)
           IN  /\ IsSeq(all) /\ Len(g) \in Nat /\ Len(all) = Len(g) + 2
               /\ all[1][1] = "preamble" /\ all[Len(g) + 2] = Epilogue
               /\ \A k \in 1..Len(g) : all[k + 1] = <<"photo", g[k].photo>>
<1> DEFINE N == Pieces(p)
           g == Gallery(p)
           L == Len(g)
           Hi(k) == IF k + 1 = N THEN L ELSE (k + 1) * PerPiece
           Part(k, start) == When(FirstPiece(k), <<start>>) \o Thumbs(Photographs(p, k))
                                \o When(LastPiece(p, k), <<Epilogue>>)
<1>1. /\ N \in Nat /\ N > 0 /\ L \in Nat
      /\ \A i \in 0..(N - 1) : IsCut(Photographs(p, i), g, i * PerPiece, Hi(i))
  <2>1. /\ IsSeq(g) /\ N \in Nat /\ N > 0
        /\ \A i \in 0..(N - 1) :
              IsCut(Photographs(p, i), g, i * PerPiece,
                    IF i + 1 = N THEN L ELSE (i + 1) * PerPiece)
    BY GalleryIsCut
  <2> QED
    BY <2>1 DEF IsSeq
<1>2. PICK start : start[1] = "preamble" /\ \A i : Piece(p, i) = Thumbnails(p, i, start)
  BY PieceOfGallery
<1>3. \A m \in 1..N : b[m] = Part(m - 1, start)
  BY <1>2 DEF Thumbnails, Thumbs
<1>4. PICK f : /\ f[1] = b[1]
               /\ \A k \in 2..N : f[k] = f[k - 1] \o b[k]
               /\ FlattenSeq(b) = f[N]
  <2>1. Len(b) \in Nat /\ Len(b) > 0
    BY <1>1
  <2> QED
    BY <2>1, FlattenStepwise
<1>5. \A k : LastPiece(p, k) <=> k + 1 = N
  BY DEF LastPiece
<1>6. \A k : FirstPiece(k) \in BOOLEAN /\ LastPiece(p, k) \in BOOLEAN
  BY DEF FirstPiece, LastPiece
<1> HIDE DEF N, g, L, Hi
<1> DEFINE Good(k) == k + 1 <= N => Shown(f[k + 1], g, Hi(k), LastPiece(p, k))
           T == {k \in Nat : Good(k)}
<1>7. Good(0)
  <2>1. f[0 + 1] = Part(0, start)
    <3>1. 1 \in 1..N /\ 1 - 1 = 0 /\ 0 + 1 = 1
      BY <1>1
    <3> HIDE DEF Part
    <3>2. b[1] = Part(1 - 1, start)
      BY <1>3, <3>1
    <3> QED
      BY <1>4, <3>1, <3>2
  <2>2. IsCut(Photographs(p, 0), g, 0, Hi(0))
    <3>1. 0 \in 0..(N - 1) /\ 0 * PerPiece = 0
      BY <1>1, PieceAssumption
    <3>2. IsCut(Photographs(p, 0), g, 0 * PerPiece, Hi(0))
      BY <1>1, <3>1
    <3> QED
      BY <3>1, <3>2
  <2>3. FirstPiece(0)
    BY DEF FirstPiece
  <2>4. Shown(Part(0, start), g, Hi(0), LastPiece(p, 0))
    BY <1>2, <1>6, <2>2, <2>3, FirstIsShown
  <2> HIDE DEF Part
  <2> QED
    BY <2>1, <2>4
<1>8. ASSUME NEW k \in Nat, Good(k)
      PROVE  Good(k + 1)
  <2> SUFFICES ASSUME (k + 1) + 1 <= N
               PROVE  Shown(f[(k + 1) + 1], g, Hi(k + 1), LastPiece(p, k + 1))
    OBVIOUS
  <2> DEFINE s == f[k + 1]
             m == k + 1
  <2>1. /\ m \in Nat /\ m \in 0..(N - 1) /\ m + 1 \in 2..N /\ m + 1 \in 1..N
        /\ (m + 1) - 1 = m /\ m <= N /\ m # N /\ m # 0
    BY <1>1
  <2>2. Shown(s, g, m * PerPiece, LastPiece(p, k)) /\ ~LastPiece(p, k)
    <3>1. Hi(k) = m * PerPiece
      BY <2>1 DEF Hi
    <3>2. ~LastPiece(p, k)
      BY <1>5, <2>1
    <3>3. Shown(s, g, Hi(k), LastPiece(p, k))
      BY <1>8, <2>1
    <3> QED
      BY <3>1, <3>2, <3>3
  <2> HIDE DEF m, s
  <2>3. f[m + 1] = s \o Part(m, start)
    <3> HIDE DEF Part
    <3>1. b[m + 1] = Part((m + 1) - 1, start)
      BY <1>3, <2>1
    <3>2. f[m + 1] = f[(m + 1) - 1] \o b[m + 1]
      BY <1>4, <2>1
    <3>3. f[m] = s
      BY DEF s, m
    <3> QED
      BY <2>1, <3>1, <3>2, <3>3
  <2>4. IsCut(Photographs(p, m), g, m * PerPiece, Hi(m))
    BY <1>1, <2>1
  <2>5. ~FirstPiece(m)
    BY <2>1 DEF FirstPiece
  <2>6. Shown(s \o Part(m, start), g, Hi(m), LastPiece(p, m))
    BY <1>6, <2>2, <2>4, <2>5, MoreIsShown
  <2> HIDE DEF Part
  <2> QED
    BY <2>3, <2>6 DEF m
<1>9. \A k \in Nat : Good(k)
  <2> HIDE DEF Good
  <2>1. 0 \in T /\ \A k \in Nat : k \in T => k + 1 \in T
    BY <1>7, <1>8
  <2> HIDE DEF T
  <2>2. Nat \subseteq T
    BY <2>1, Induction
  <2> QED
    BY <2>2 DEF T
<1>10. N - 1 \in Nat /\ (N - 1) + 1 = N /\ N <= N
  BY <1>1
<1>11. Good(N - 1)
  <2> HIDE DEF Good
  <2> QED
    BY <1>9, <1>10
<1>12. Shown(f[N], g, L, LastPiece(p, N - 1)) /\ LastPiece(p, N - 1)
  <2>1. Hi(N - 1) = L
    BY <1>10 DEF Hi
  <2> QED
    BY <1>5, <1>10, <1>11, <2>1
<1> HIDE DEF Good, T
<1> QED
  BY <1>1, <1>4, <1>12 DEF Shown, g, L

(***************************************************************************)
(* Whatever the album, however its entries were ordered and repeated, and  *)
(* whatever the size of the pieces: a gallery shows each of its photos     *)
(* once.  With timestamps those of a day or a month come oldest first; for *)
(* a keyword GalleriesAreComplete allows either end first.                 *)
(***************************************************************************)
THEOREM GalleriesAreAlwaysComplete == CSpec => []GalleriesAreComplete
<1>1. ASSUME PagesInv PROVE GalleriesAreComplete
  <2> SUFFICES ASSUME Ready, IsGallery(page), Done
               PROVE  LET ee == Picked(entries, {i \in DOMAIN entries :
                                                    Belongs(entries[i], page)})
                      IN  Items("photo") = [i \in DOMAIN ee |-> <<"photo", ee[i].photo>>]
    BY Zenon DEF GalleriesAreComplete
  <2> DEFINE g == Gallery(page)
             L == Len(g)
             all == FlattenSeq(body)
             S == {i \in DOMAIN all : all[i][1] = "photo"}
             q == [k \in 1..L |-> k + 1]
  <2>1. ~NoneOpen
    BY DEF NoneOpen, IsGallery, NoPage, NotFound
  <2>2. Proper(page) /\ n = Pieces(page) /\ IsSeq(body) /\ Len(body) = n
        /\ \A i \in 1..n : body[i] = Piece(page, i - 1)
    BY <1>1, <2>1, GeneratedIs DEF Done
  <2>3. Indexed
    BY <1>1, IsIndexed
  <2>4. /\ IsSeq(all) /\ L \in Nat /\ Len(all) = L + 2
        /\ all[1][1] = "preamble" /\ all[L + 2] = Epilogue
        /\ \A k \in 1..L : all[k + 1] = <<"photo", g[k].photo>>
    BY <2>2, <2>3, GalleryIsShown
  <2>5. PICK r : Ascends(r, Len(entries), Members(page)) /\ g = Chosen(entries, r)
    BY <2>2, <2>3, GalleryIsChosen DEF Indexed, Proper
  <2>6. Picked(entries, Members(page)) = g
    <3>1. Len(entries) \in Nat
      BY <2>3, LenProperties DEF Indexed, Index
    <3> QED
      BY <2>5, <3>1, PickedIs DEF Chosen
  <2>7. DOMAIN g = 1..L
    <3>1. IsSeq(g)
      BY <2>2, <2>3, GalleryIsCut
    <3> QED
      BY <3>1 DEF IsSeq
  <2> HIDE DEF g, L, all
  <2>8. DOMAIN all = 1..(L + 2)
    BY <2>4 DEF IsSeq
  <2>9. Ascends(q, L + 2, S) /\ Len(q) = L /\ \A k \in 1..L : q[k] = k + 1
    <3>1. q \in Seq(1..(L + 2)) /\ Len(q) = L /\ \A k \in 1..L : q[k] = k + 1
      BY <2>4
    <3>2. ASSUME NEW k \in 1..L
          PROVE  k + 1 \in 1..(L + 2) /\ all[k + 1][1] = "photo"
      <4>1. all[k + 1] = <<"photo", g[k].photo>>
        BY <2>4
      <4>2. all[k + 1][1] = "photo"
        BY <4>1
      <4> QED
        BY <2>4, <4>2
    <3>3. all[1][1] # "photo" /\ all[L + 2][1] # "photo"
      BY <2>4 DEF Epilogue
    <3>4. ASSUME NEW i \in 1..(L + 2), i \in S
          PROVE  i - 1 \in 1..L /\ i = (i - 1) + 1
      BY <2>4, <3>3, <3>4
    <3>5. \A k \in 1..L : k + 1 \in S
      BY <2>8, <3>2
    <3> HIDE DEF S, q
    <3>6. \A i \in 1..(L + 2) : i \in S => \E k \in 1..L : q[k] = i
      BY <3>1, <3>4
    <3>7. \A j, k \in 1..L : j < k => q[j] < q[k]
      BY <2>4, <3>1
    <3> QED
      BY <3>1, <3>5, <3>6, <3>7 DEF Ascends
  <2>10. Items("photo") = [k \in 1..L |-> <<"photo", g[k].photo>>]
    <3>1. Items("photo") = Picked(all, S)
      BY DEF Items, all
    <3> HIDE DEF S, q
    <3>2. Picked(all, S) = [k \in 1..L |-> all[q[k]]]
      <4>1. Len(all) \in Nat /\ Ascends(q, Len(all), S)
        BY <2>4, <2>9
      <4> QED
        BY <2>9, <4>1, PickedIs
    <3>3. \A k \in 1..L : all[q[k]] = <<"photo", g[k].photo>>
      BY <2>4, <2>9
    <3> QED
      BY <3>1, <3>2, <3>3
  <2> QED
    BY <2>6, <2>7, <2>10 DEF Members
<1> QED
  BY <1>1, PagesAreInductive, PTL

-----------------------------------------------------------------------------
(***************************************************************************)
(* The answers.  A response is made when its request comes, and stays as   *)
(* it is until it is deleted.                                              *)
(***************************************************************************)
(* What is known of any answer to a request: it is allowed, with its Date, *)
(* and how its status and its host belong together.                        *)
Answered(r, a) ==
    /\ \E family \in Scenarios : \E ff \in family : r \in Requests(ff)
    /\ a.date = Format(r.time)
    /\ r.method = "GET" => (a.status # 400 <=> HostMatches(r.host))

AnswersInv == PagesInv /\ (Asked => Answered(req, answer))

(* No resource is answered for with status 400. *)
LEMMA StatusesAreOthers ==
    ASSUME NEW uri
    PROVE  400 \notin StatusesOf(Route(uri))
<1>1. PICK k \in 1..15 : Route(uri) = Routes(uri)[k][2]
  BY RouteFits
<1> DEFINE p == Route(uri)
<1>2. \/ p[1] \in {"year", "month", "day", "image", "thumb", "photo", "key", "file"}
      \/ p = FrontPage \/ p = AllWords \/ p = Redirect \/ p = NotFound
  BY <1>1 DEF Routes, LibFile
<1> HIDE DEF p
<1>3. CASE p[1] \in {"year", "month", "day", "photo", "key"} \/ p = FrontPage \/ p = AllWords
  <2>1. IsPage(p) /\ p[1] \notin {"image", "thumb", "file"} /\ p # Redirect /\ p # NotFound
    BY <1>3 DEF IsPage, IsGallery, FrontPage, AllWords, Redirect, NotFound
  <2>2. StatusesOf(p) = {IF Missing(p) THEN 404 ELSE 200}
    BY <2>1 DEF StatusesOf
  <2> QED
    BY <2>2 DEF p
<1>4. CASE p[1] \in {"image", "thumb"}
  <2>1. ~IsPage(p) /\ p[1] # "file" /\ p # Redirect /\ p # NotFound
    BY <1>4 DEF IsPage, IsGallery, Redirect, NotFound
  <2>2. StatusesOf(p) = IF Has(p[2]) THEN {200, 404, 500} ELSE {404}
    BY <1>4, <2>1 DEF StatusesOf
  <2> QED
    BY <2>2 DEF p
<1>5. CASE p[1] = "file"
  <2>1. ~IsPage(p) /\ p # Redirect /\ p # NotFound
    BY <1>5 DEF IsPage, IsGallery, Redirect, NotFound
  <2>2. StatusesOf(p) = {200, 404, 500}
    BY <1>5, <2>1 DEF StatusesOf
  <2> QED
    BY <2>2 DEF p
<1>6. CASE p = Redirect
  <2>1. ~IsPage(p) /\ p[1] \notin {"image", "thumb", "file"}
    BY <1>6 DEF IsPage, IsGallery, Redirect
  <2>2. StatusesOf(p) = {301}
    BY <1>6, <2>1 DEF StatusesOf, NotFound, Redirect
  <2> QED
    BY <2>2 DEF p
<1>7. CASE p = NotFound
  <2>1. ~IsPage(p) /\ p[1] \notin {"image", "thumb", "file"} /\ p # Redirect
    BY <1>7 DEF IsPage, IsGallery, NotFound, Redirect
  <2>2. StatusesOf(p) = {404}
    BY <1>7, <2>1 DEF StatusesOf
  <2> QED
    BY <2>2 DEF p
<1> QED
  BY <1>2, <1>3, <1>4, <1>5, <1>6, <1>7

(* So the status tells whether the host is one of the server's. *)
LEMMA ResponseIsAnswer ==
    ASSUME NEW r, NEW a \in ResponseOf(r)
    PROVE  /\ a.date = Format(r.time)
           /\ r.method = "GET" => (a.status # 400 <=> HostMatches(r.host))
<1>1. PICK status, p : /\ a = Answer(status, p, r)
                       /\ r.method = "GET" => (status # 400 <=> HostMatches(r.host))
  <2>1. CASE r.method # "GET"
    <3>1. a = Answer(501, NoPage, r)
      BY <2>1 DEF ResponseOf
    <3> QED
      BY <2>1, <3>1
  <2>2. CASE r.method = "GET" /\ ~HostMatches(r.host)
    <3>1. a = Answer(400, NoPage, r)
      BY <2>2 DEF ResponseOf
    <3> QED
      BY <2>2, <3>1
  <2>3. CASE r.method = "GET" /\ HostMatches(r.host)
    <3>1. PICK status \in StatusesOf(Route(r.uri)) : a = Answer(status, Route(r.uri), r)
      BY <2>3 DEF ResponseOf
    <3>2. status # 400
      BY StatusesAreOthers
    <3> QED
      BY <2>3, <3>1, <3>2
  <2> QED
    BY <2>1, <2>2, <2>3
<1>2. a.date = Format(r.time) /\ a.status = status
  BY <1>1 DEF Answer
<1> QED
  BY <1>1, <1>2

(* Before the first request there is no answer. *)
LEMMA AnswersInit == CInit => AnswersInv
BY PagesInit DEF CInit, AnswersInv, Asked

(* Each step keeps the invariant: only a request makes an answer. *)
LEMMA AnswersNext == AnswersInv /\ [CNext]_<<vars, served, asked>> => AnswersInv'
<1> SUFFICES ASSUME AnswersInv, [CNext]_<<vars, served, asked>>
             PROVE  AnswersInv'
  OBVIOUS
<1>1. PagesInv'
  BY PagesNext DEF AnswersInv
<1>2. CASE Request
  <2>1. PICK r \in Requests(files) : \E a \in ResponseOf(r) : req' = r /\ answer' = a
    BY <1>2 DEF Request
  <2>2. PICK a \in ResponseOf(r) : req' = r /\ answer' = a
    BY <2>1
  <2>3. \E family \in Scenarios : \E ff \in family : r \in Requests(ff)
    BY DEF AnswersInv, PagesInv, KeptInv
  <2>4. a.date = Format(r.time) /\ (r.method = "GET" => (a.status # 400 <=> HostMatches(r.host)))
    BY ResponseIsAnswer
  <2>5. Answered(r, a)
    BY <2>3, <2>4 DEF Answered
  <2> QED
    BY <1>1, <2>2, <2>5 DEF AnswersInv, Asked
<1>3. CASE Finish
  BY <1>1, <1>3 DEF Finish, AnswersInv, Asked
<1>4. CASE Build \/ GenerateMore \/ UNCHANGED <<vars, served, asked>>
  <2>1. req' = req /\ answer' = answer
    BY <1>4 DEF Build, GenerateMore, asked
  <2> QED
    BY <1>1, <2>1 DEF AnswersInv, Asked
<1> QED
  BY <1>2, <1>3, <1>4 DEF CNext

(* The answer there is belongs to the request there is. *)
THEOREM AnswersAreInductive == CSpec => []AnswersInv
<1>1. CInit => AnswersInv
  BY AnswersInit
<1>2. AnswersInv /\ [CNext]_<<vars, served, asked>> => AnswersInv'
  BY AnswersNext
<1> QED
  BY <1>1, <1>2, PTL DEF CSpec

(***************************************************************************)
(* DatesAreRight (date.cc): whatever the time of a request, its response   *)
(* has it as its Date, on the right weekday; inside and outside the table, *)
(* and the same again when it is parsed in any of its forms.               *)
(***************************************************************************)
THEOREM DatesAreAlwaysRight == CSpec => []DatesAreRight
<1>1. AnswersInv => DatesAreRight
  <2> SUFFICES ASSUME AnswersInv, Asked PROVE IsTime(answer.date, req.time)
    BY DEF DatesAreRight
  <2>1. Answered(req, answer)
    BY DEF AnswersInv
  <2>2. req.time \in 0..TimeMax /\ answer.date = Format(req.time)
    BY <2>1, RequestAssumption DEF Answered
  <2>3. req.time \in Nat /\ req.time <= TimeMax
    <3>1. TimeMax \in Int
      BY SMT DEF TimeMax
    <3> QED
      BY <2>2, <3>1
  <2>4. IsTime(Format(req.time), req.time)
    BY <2>3, FormatIsTime
  <2> QED
    BY <2>2, <2>4
<1> QED
  BY <1>1, AnswersAreInductive, PTL

-----------------------------------------------------------------------------
(***************************************************************************)
(* Hosts.  Of a host, trim_port() leaves the name.                         *)
(***************************************************************************)
(* Where the name ends, in a host whose name is of one of the two forms *)
LEMMA TrimCuts ==
    ASSUME NEW S, NEW host \in Seq(S), NEW k \in 1..Len(host),
           \A i \in 1..Len(host) : i > k => (host[i] = Colon <=> i = k + 1) /\ host[i] # Bracket,
           \/ \A i \in 1..k : host[i] # Colon
           \/ host[1] # Colon /\ \A i \in 1..k : host[i] = Bracket <=> i = k
    PROVE  TrimPort(host) = SubSeq(host, 1, k)
<1> DEFINE I == {i \in 1..Len(host) : host[i] = Colon}
           c == IF I # {} THEN Max(I) ELSE 0
           behind == {i \in DOMAIN host : i >= c /\ host[i] = Bracket}
<1>0. Len(host) \in Nat /\ DOMAIN host = 1..Len(host)
  BY LenProperties
<1>9. k \in Nat /\ 1 <= k /\ k <= Len(host)
  BY ONLY <1>0, k \in 1..Len(host)
<1>10. PICK l \in Nat : l = Len(host)
  BY ONLY <1>0
<1>11. k <= l /\ (k = l \/ k < l)
  BY ONLY <1>9, <1>10
<1>1. TrimPort(host) = CASE c <= 1 -> host
                         [] c > 1 /\ behind # {} -> SubSeq(host, 1, Min(behind))
                         [] c > 1 /\ behind = {} -> SubSeq(host, 1, c - 1)
  BY DEF TrimPort, SelectLastInSeq
<1>2. I # {} => c \in I /\ \A i \in I : i <= c
  BY <1>0, LargestElement
<1>3. I = {} => c = 0
  OBVIOUS
<1>4. Colon # Bracket
  BY DEF Colon, Bracket
<1>5. CASE I = {}
  <2>1. k = Len(host)
    <3>1. k < Len(host) => k + 1 \in I
      BY <1>0
    <3> HIDE DEF I
    <3> QED
      BY <1>0, <1>5, <1>9, <1>10, <1>11, <3>1
  <2> HIDE DEF c, I, behind
  <2>2. TrimPort(host) = host
    BY <1>1, <1>3, <1>5
  <2> QED
    BY <2>1, <2>2, SubSeqFull
<1>6. CASE I # {} /\ k = Len(host)
  <2>1. c \in 1..k /\ host[c] = Colon
    BY <1>2, <1>6
  <2>2. host[1] # Colon /\ \A i \in 1..k : host[i] = Bracket <=> i = k
    BY <2>1
  <2>3. c > 1
    <3> HIDE DEF c
    <3> QED
      BY <2>1, <2>2
  <2>4. behind = {k}
    <3> HIDE DEF c
    <3>1. \A i \in behind : i \in 1..k /\ host[i] = Bracket
      BY <1>0, <1>6
    <3>2. k \in 1..k /\ k >= c
      BY ONLY <1>9, <2>1
    <3>4. host[k] = Bracket
      BY ONLY <2>2, <3>2
    <3>5. k \in DOMAIN host
      BY <1>0
    <3>3. k \in behind
      BY <3>2, <3>4, <3>5
    <3> HIDE DEF behind
    <3> QED
      BY <2>2, <3>1, <3>3
  <2>5. Min({k}) = k
    BY DEF Min
  <2> HIDE DEF c, I, behind
  <2>6. behind # {} /\ Min(behind) = k /\ ~(c <= 1)
    BY <2>1, <2>3, <2>4, <2>5
  <2> QED
    BY <1>1, <2>3, <2>6
<1>7. CASE I # {} /\ k < Len(host)
  <2>1. k + 1 \in I
    BY <1>0, <1>7
  <2>2. \A i \in I : i <= k + 1
    BY <1>0
  <2> HIDE DEF I
  <2>3. c \in Nat /\ c = k + 1
    <3>1. c \in I /\ k + 1 <= c /\ c <= k + 1
      BY <1>2, <1>7, <2>1, <2>2
    <3>2. c \in Nat
      BY <3>1 DEF I
    <3> HIDE DEF c
    <3> QED
      BY <3>1, <3>2
  <2> HIDE DEF c
  <2>4. behind = {}
    BY <1>0, <2>3
  <2> HIDE DEF behind
  <2>5. c > 1 /\ ~(c <= 1) /\ c - 1 = k
    BY <2>3
  <2> QED
    BY <1>1, <2>4, <2>5
<1>8. k = Len(host) \/ k < Len(host)
  BY ONLY <1>10, <1>11
<1> QED
  BY <1>5, <1>6, <1>7, <1>8

(* What the hosts are written with *)
HostMarks == STRING \cup {Colon, "80"}

(* The ports of the requests begin with their only colon, and have no bracket. *)
LEMMA PortsAre ==
    ASSUME NEW port \in Ports
    PROVE  /\ port \in Seq(HostMarks) /\ Len(port) \in Nat
           /\ \A i \in 1..Len(port) : (port[i] = Colon <=> i = 1) /\ port[i] # Bracket
<1>1. CASE port = <<>>
  BY <1>1
<1>2. CASE port = <<Colon>>
  BY <1>2 DEF HostMarks, Colon, Bracket
<1>3. CASE port = <<Colon, "80">>
  BY <1>3 DEF HostMarks, Colon, Bracket
<1> QED
  BY <1>1, <1>2, <1>3 DEF Ports

(* A name, with or without a port, is cut down to the name. *)
LEMMA NameIsLeft ==
    ASSUME NEW name, IsHostName(name), NEW port \in Ports
    PROVE  TrimPort(name \o port) = name
<1> DEFINE host == name \o port
           k == Len(name)
<1>1. name \in Seq(HostMarks) /\ name # <<>>
  BY DEF IsHostName, HostMarks
<1>2. k \in Nat /\ k > 0 /\ DOMAIN name = 1..k
  BY <1>1, LenProperties, EmptySeq
<1>3. /\ host \in Seq(HostMarks)
      /\ Len(host) = k + Len(port)
      /\ \A i \in 1..(k + Len(port)) : host[i] = IF i <= k THEN name[i] ELSE port[i - k]
  BY <1>1, PortsAre, ConcatProperties
<1>4. Len(port) \in Nat
  BY PortsAre
<1>5. k \in 1..Len(host) /\ Len(host) \in Nat
  BY <1>2, <1>3, <1>4
<1>6. ASSUME NEW i \in 1..Len(host), i > k
      PROVE  (host[i] = Colon <=> i = k + 1) /\ host[i] # Bracket
  <2>1. i - k \in 1..Len(port) /\ host[i] = port[i - k]
    BY <1>2, <1>3, <1>4, <1>6
  <2>2. (port[i - k] = Colon <=> i - k = 1) /\ port[i - k] # Bracket
    BY <2>1, PortsAre
  <2>3. i - k = 1 <=> i = k + 1
    BY <1>2
  <2> QED
    BY <2>1, <2>2, <2>3
<1>7. \A i \in 1..k : host[i] = name[i]
  BY <1>2, <1>3, <1>4
<1>8. \/ \A i \in 1..k : host[i] # Colon
      \/ host[1] # Colon /\ \A i \in 1..k : host[i] = Bracket <=> i = k
  <2>1. CASE Colon \notin ToSet(name)
    <3>1. \A i \in 1..k : name[i] # Colon
      BY <1>2, <2>1 DEF ToSet
    <3> QED
      BY <1>7, <3>1
  <2>2. CASE name[1] # Colon /\ \A i \in DOMAIN name : name[i] = Bracket <=> i = Len(name)
    <3>1. 1 \in 1..k
      BY <1>2
    <3> QED
      BY <1>2, <1>7, <2>2, <3>1
  <2> QED
    BY <2>1, <2>2 DEF IsHostName
<1>9. SubSeq(host, 1, k) = name
  <2>1. Len(SubSeq(host, 1, k)) = k /\ \A i \in 1..k : SubSeq(host, 1, k)[i] = host[i]
    BY <1>2, <1>3, <1>5, SubSeqProperties
  <2>2. SubSeq(host, 1, k) \in Seq(HostMarks)
    BY <1>3, <1>5, CutInTwo
  <2> HIDE DEF host
  <2> QED
    BY <1>1, <1>2, <1>7, <2>1, <2>2, SeqEqual
<1> HIDE DEF host, k
<1>10. TrimPort(host) = SubSeq(host, 1, k)
  BY <1>3, <1>5, <1>6, <1>8, TrimCuts
<1> QED
  BY <1>9, <1>10 DEF host

(* Nothing is left of a host which is only a port: it stays as it is. *)
LEMMA PortIsLeft ==
    ASSUME NEW port \in Ports
    PROVE  TrimPort(port) = port
<1> DEFINE I == {i \in 1..Len(port) : port[i] = Colon}
           c == IF I # {} THEN Max(I) ELSE 0
<1>1. \A i \in I : i = 1
  BY PortsAre
<1>2. c <= 1
  <2>1. CASE I = {}
    BY <2>1
  <2>2. CASE I # {}
    <3>1. I = {1}
      BY <1>1, <2>2
    <3>2. Max({1}) = 1
      BY DEF Max
    <3> HIDE DEF I
    <3> QED
      BY <2>2, <3>1, <3>2
  <2> QED
    BY <2>1, <2>2
<1> DEFINE behind == {i \in DOMAIN port : i >= c /\ port[i] = Bracket}
<1>3. TrimPort(port) = CASE c <= 1 -> port
                         [] c > 1 /\ behind # {} -> SubSeq(port, 1, Min(behind))
                         [] c > 1 /\ behind = {} -> SubSeq(port, 1, c - 1)
  BY DEF TrimPort, SelectLastInSeq
<1>4. c \in Int
  <2>1. I = {} \/ I = {1}
    BY <1>1
  <2>2. Max({1}) = 1
    BY DEF Max
  <2> HIDE DEF I
  <2> QED
    BY <2>1, <2>2
<1> HIDE DEF c, behind
<1>5. ~(c > 1)
  BY <1>2, <1>4
<1> QED
  BY <1>2, <1>3, <1>5

(* Which hosts are let in, of those a request may have *)
LEMMA MatchIsByName ==
    ASSUME \A name \in Hosts : IsHostName(name), NEW host \in Seq(STRING), IsHost(host)
    PROVE  HostMatches(host) <=> \E name \in Hosts : \E port \in Ports : host = name \o port
<1>1. ASSUME NEW name \in Hosts, NEW port \in Ports, host = name \o port
      PROVE  HostMatches(host)
  <2>1. IsHostName(name)
    OBVIOUS
  <2>2. TrimPort(name \o port) = name
    BY <2>1, NameIsLeft
  <2> QED
    BY <1>1, <2>2 DEF HostMatches
<1>2. ASSUME HostMatches(host)
      PROVE  \E name \in Hosts : \E port \in Ports : host = name \o port
  <2>1. CASE host \in Ports
    <3>1. host \in Hosts
      BY <1>2, <2>1, PortIsLeft DEF HostMatches
    <3>2. host = host \o <<>> /\ <<>> \in Ports
      BY ConcatEmptySeq DEF Ports
    <3> QED
      BY <3>1, <3>2
  <2>2. ASSUME NEW c \in 1..Len(host), IsHostName(SubSeq(host, 1, c)),
               SubSeq(host, c + 1, Len(host)) \in Ports
        PROVE  \E name \in Hosts : \E port \in Ports : host = name \o port
    <3> DEFINE name == SubSeq(host, 1, c)
               port == SubSeq(host, c + 1, Len(host))
    <3>1. c \in 0..Len(host)
      OBVIOUS
    <3>2. host = name \o port
      BY <3>1, CutInTwo
    <3>3. IsHostName(name) /\ port \in Ports
      BY <2>2
    <3> HIDE DEF name, port
    <3>4. TrimPort(host) = name
      BY <3>2, <3>3, NameIsLeft
    <3>5. name \in Hosts
      BY <1>2, <3>4 DEF HostMatches
    <3> QED
      BY <3>2, <3>3, <3>5
  <2> QED
    BY <2>1, <2>2 DEF IsHost
<1> QED
  BY <1>1, <1>2

(***************************************************************************)
(* HostsAreMatched (hostnames.cc): if the server's hosts are names, or     *)
(* addresses with or without brackets around colons, and so are those of   *)
(* the requests, with or without a port, a request gets another response   *)
(* than 400 if and only if its host is one of them.                        *)
(***************************************************************************)
THEOREM HostsAreAlwaysMatched ==
    ASSUME HostsAreNamed
    PROVE  CSpec => []HostsAreMatched
<1>1. AnswersInv => HostsAreMatched
  <2> SUFFICES ASSUME AnswersInv, Asked, req.method = "GET"
               PROVE  answer.status # 400 <=>
                        \E name \in Hosts : \E port \in Ports : req.host = name \o port
    BY DEF HostsAreMatched
  <2>1. Answered(req, answer)
    BY DEF AnswersInv
  <2>2. req.host \in Seq(STRING) /\ IsHost(req.host)
    BY <2>1 DEF Answered, HostsAreNamed
  <2>3. answer.status # 400 <=> HostMatches(req.host)
    BY <2>1 DEF Answered
  <2>4. \A name \in Hosts : IsHostName(name)
    BY DEF HostsAreNamed
  <2>5. HostMatches(req.host) <=>
            \E name \in Hosts : \E port \in Ports : req.host = name \o port
    <3>1. PICK h : h = req.host
      OBVIOUS
    <3>2. h \in Seq(STRING) /\ IsHost(h)
      BY <2>2, <3>1
    <3>3. HostMatches(h) <=> \E name \in Hosts : \E port \in Ports : h = name \o port
      BY <2>4, <3>2, MatchIsByName
    <3> QED
      BY <3>1, <3>3
  <2> QED
    BY <2>3, <2>5
<1> QED
  BY <1>1, AnswersAreInductive, PTL

-----------------------------------------------------------------------------
(* One line more *)
JoinOne(s, l) == IF s = <<>> THEN <<l.text>> ELSE s \o << <<"\n">>, l.text>>

(* The parts of a text stay texts when a line is added. *)
LEMMA JoinOneType ==
    ASSUME NEW s \in Seq(Seq(K!Tokens)), NEW l \in PossibleLines
    PROVE  JoinOne(s, l) \in Seq(Seq(K!Tokens))
<1>1. l.text \in Seq(K!Tokens)
  <2>1. l.text \in Seq(STRING) /\ STRING \subseteq K!Tokens
    BY DEF PossibleLines, K!Tokens
  <2> QED
    BY <2>1, SeqWidens
<1>2. <<"\n">> \in Seq(K!Tokens)
  <2>1. "\n" \in K!Tokens
    BY DEF K!Tokens
  <2> QED
    BY <2>1
<1>3. <<l.text>> \in Seq(Seq(K!Tokens)) /\ << <<"\n">>, l.text>> \in Seq(Seq(K!Tokens))
  BY <1>1, <1>2
<1> QED
  BY <1>3, ConcatProperties DEF JoinOne

(* The lines of an entry make a text. *)
LEMMA JoinLinesType ==
    ASSUME NEW lines \in Seq(PossibleLines)
    PROVE  JoinLines(lines) \in Seq(K!Tokens)
<1> DEFINE X == Seq(Seq(K!Tokens))
           N == Len(lines)
           op == [p \in X \X PossibleLines |-> JoinOne(p[1], p[2])]
           F == CHOOSE f : f = [u \in SUBSET (1..N) |->
                                   IF u = {} THEN <<>>
                                   ELSE JoinOne(f[u \ {Max(u)}], lines[Max(u)])]
<1>1. N \in Nat /\ DOMAIN lines = 1..N /\ \A i \in 1..N : lines[i] \in PossibleLines
  BY LenProperties, ElementOfSeq
<1>2. op \in [X \X PossibleLines -> X]
  BY JoinOneType
<1>3. <<>> \in X
  OBVIOUS
<1>4. PICK f : SolvesFold(f, op, <<>>, lines, N, X, PossibleLines)
  <2> HIDE DEF op, X, N, F
  <2> QED
    BY <1>1, <1>2, <1>3, FoldingExists
<1>5. \A x \in X, l \in PossibleLines : op[<<x, l>>] = JoinOne(x, l)
  OBVIOUS
<1> HIDE DEF op, X
<1>6. f = [u \in SUBSET (1..N) |-> IF u = {} THEN <<>>
                                    ELSE JoinOne(f[u \ {Max(u)}], lines[Max(u)])]
  BY <1>4, <1>5 DEF FoldedBy, SolvesFold
<1>7. F = [u \in SUBSET (1..N) |-> IF u = {} THEN <<>>
                                    ELSE JoinOne(F[u \ {Max(u)}], lines[Max(u)])]
  BY <1>6
<1> HIDE DEF F
<1>8. F[{}] = <<>>
  BY <1>7
<1>9. \A k \in 1..N : F[1..(k - 1)] \in X => F[1..k] = op[<<F[1..(k - 1)], lines[k]>>]
  <2> SUFFICES ASSUME NEW k \in 1..N, F[1..(k - 1)] \in X
               PROVE  F[1..k] = op[<<F[1..(k - 1)], lines[k]>>]
    OBVIOUS
  <2>1. F[1..k] = JoinOne(F[1..(k - 1)], lines[k])
    BY <1>1, <1>7, PrefixIsCut
  <2> QED
    BY <1>1, <1>5, <2>1
<1>10. PICK h : FoldsTo(h, op, <<>>, lines, N, X, F[1..N])
  <2>1. FoldsOn(F, op, <<>>, lines, N, X)
    BY <1>8, <1>9 DEF FoldsOn
  <2> HIDE DEF N
  <2> QED
    BY <1>1, <1>2, <1>3, <2>1, FoldingGoesOn
<1>11. F[1..N] \in Seq(Seq(K!Tokens))
  <2>1. N \in 0..N
    BY <1>1
  <2> QED
    BY <1>10, <2>1 DEF X, FoldsTo
<1>12. JoinLines(lines) = IF F[1..N] = <<>> THEN <<>> ELSE FlattenSeq(F[1..N])
  BY <1>1 DEF JoinLines, FoldLeft, MapThenFoldSet, JoinOne, F
<1>13. <<>> \in Seq(K!Tokens)
  OBVIOUS
<1> QED
  BY <1>11, <1>12, <1>13, FlattenType

-----------------------------------------------------------------------------
(* What the stack of a parser can be: in curly brackets only one key is open. *)
Stacks ==
    {t \in [v : Seq(Seq(K!Tokens)), done : Seq(Seq(K!Tokens)), curly : BOOLEAN] :
        t.v # <<>> /\ (t.curly => Len(t.v) = 2)}

Stack(a, d, c) == [v |-> a, done |-> d, curly |-> c]

(* It is one. *)
LEMMA StackType ==
    ASSUME NEW a \in Seq(Seq(K!Tokens)), NEW d \in Seq(Seq(K!Tokens)), NEW c \in BOOLEAN,
           a # <<>>, c => Len(a) = 2
    PROVE  Stack(a, d, c) \in Stacks
BY DEF Stack, Stacks

(* What is in one *)
LEMMA StackHas ==
    ASSUME NEW t \in Stacks
    PROVE  /\ t.v \in Seq(Seq(K!Tokens)) /\ t.done \in Seq(Seq(K!Tokens)) /\ t.curly \in BOOLEAN
           /\ Len(t.v) \in Nat /\ Len(t.v) > 0 /\ DOMAIN t.v = 1..Len(t.v)
           /\ Len(t.done) \in Nat
           /\ t.curly => Len(t.v) = 2
           /\ t = Stack(t.v, t.done, t.curly)
<1>1. t \in [v : Seq(Seq(K!Tokens)), done : Seq(Seq(K!Tokens)), curly : BOOLEAN]
      /\ t.v # <<>> /\ (t.curly => Len(t.v) = 2)
  BY DEF Stacks
<1>2. t = [v |-> t.v, done |-> t.done, curly |-> t.curly]
  BY <1>1
<1>3. t.v \in Seq(Seq(K!Tokens)) /\ t.done \in Seq(Seq(K!Tokens)) /\ t.curly \in BOOLEAN
  BY <1>1
<1>4. Len(t.v) \in Nat /\ Len(t.v) > 0 /\ DOMAIN t.v = 1..Len(t.v) /\ Len(t.done) \in Nat
  BY <1>1, <1>3, LenProperties, EmptySeq
<1> QED
  BY <1>1, <1>2, <1>3, <1>4 DEF Stack

(* The outermost text has no key; every other element has. *)
Popped(t) == Stack(SubSeq(t.v, 1, Len(t.v) - 1), Append(t.done, t.v[Len(t.v)]), FALSE)

Pushed(t, c) == Stack(Append(t.v, <<>>), t.done, c)

Copied(t, ch) == Stack([i \in 1..Len(t.v) |-> Append(t.v[i], ch)], t.done, FALSE)

CopiedToKey(t, ch) == Stack([i \in 1..Len(t.v) |-> IF i = 2 THEN Append(t.v[i], ch) ELSE t.v[i]],
                            t.done, TRUE)

(* Setting the last member *)
LEMMA Recurled ==
    ASSUME NEW a, NEW d, NEW c, NEW r, r = [v |-> a, done |-> d, curly |-> c]
    PROVE  /\ [r EXCEPT !.curly = TRUE] = Stack(a, d, TRUE)
           /\ [r EXCEPT !.curly = FALSE] = Stack(a, d, FALSE)
<1>1. \A b : [r EXCEPT !.curly = b] = Stack(a, d, b)
  BY SMT DEF Stack
<1>2. [r EXCEPT !.curly = TRUE] = Stack(a, d, TRUE)
  BY <1>1, Zenon
<1>3. [r EXCEPT !.curly = FALSE] = Stack(a, d, FALSE)
  BY <1>1, Zenon
<1> QED
  BY <1>2, <1>3

(* put() in each case *)
LEMMA PutIs ==
    ASSUME NEW t \in Stacks, NEW ch
    PROVE  /\ t.curly /\ ch = "}" => K!Put(t, ch) = Popped(t)
           /\ t.curly /\ ch # "}" => K!Put(t, ch) = CopiedToKey(t, ch)
           /\ ~t.curly /\ ch = "[" => K!Put(t, ch) = Pushed(t, FALSE)
           /\ ~t.curly /\ ch = "]" /\ Len(t.v) > 1 => K!Put(t, ch) = Popped(t)
           /\ ~t.curly /\ ch = "{" /\ ~(Len(t.v) > 1) => K!Put(t, ch) = Pushed(t, TRUE)
           /\ ~t.curly /\ ch # "[" /\ ~(ch = "]" /\ Len(t.v) > 1) /\ ~(ch = "{" /\ ~(Len(t.v) > 1))
                 => K!Put(t, ch) = Copied(t, ch)
<1> DEFINE a == t.v
           d == t.done
           c == t.curly
           N == Len(a)
<1>1. t = [v |-> a, done |-> d, curly |-> c] /\ N \in Nat /\ N > 0 /\ DOMAIN a = 1..N /\ c \in BOOLEAN
  BY StackHas DEF Stack
<1>0. t.v = a /\ t.done = d /\ t.curly = c /\ N = Len(a) /\ N = Len(t.v)
  OBVIOUS
<1>5. c => N = 2
  BY StackHas
<1> HIDE DEF a, d, c, N
<1>2. K!Pop(t) = [v |-> SubSeq(a, 1, N - 1), done |-> Append(d, a[N]), curly |-> c]
  <2>1. K!Last(a) = a[N] /\ K!Front(a) = SubSeq(a, 1, N - 1)
    BY <1>0 DEF K!Last, K!Front
  <2>2. K!Pop(t) = [t EXCEPT !.done = Append(d, K!Last(a)), !.v = K!Front(a)]
    BY <1>0 DEF K!Pop
  <2> QED
    BY <1>1, <2>1, <2>2
<1>3. K!Push(t) = [v |-> Append(a, <<>>), done |-> d, curly |-> c]
  BY <1>1 DEF K!Push
<1>4. K!Copy(t, ch) = [v |-> [i \in 1..N |-> Append(a[i], ch)], done |-> d, curly |-> c]
  <2>1. K!Copy(t, ch) = [t EXCEPT !.v = [i \in DOMAIN a |-> Append(a[i], ch)]]
    BY <1>0 DEF K!Copy
  <2> QED
    BY <1>1, <2>1
<1>6. CASE c /\ ch = "}"
  <2>1. K!Put(t, ch) = [K!Pop(t) EXCEPT !.curly = FALSE]
    BY <1>0, <1>6 DEF K!Put
  <2>2. K!Put(t, ch) = Popped(t)
    <3>1. K!Put(t, ch) = Stack(SubSeq(a, 1, N - 1), Append(d, a[N]), FALSE)
      <4>1. [K!Pop(t) EXCEPT !.curly = FALSE] = Stack(SubSeq(a, 1, N - 1), Append(d, a[N]), FALSE)
        BY <1>2, Recurled
      <4> QED
        BY <2>1, <4>1, Zenon
    <3> QED
      BY <1>0, <3>1 DEF Popped
  <2> QED
    BY <1>0, <1>6, <2>2
<1>7. CASE c /\ ch # "}"
  <2>1. K!Put(t, ch) = [t EXCEPT !.v[2] = Append(@, ch)]
    BY <1>0, <1>7 DEF K!Put
  <2>2. K!Put(t, ch) = [t EXCEPT !.v = [a EXCEPT ![2] = Append(a[2], ch)]]
    BY <1>0, <2>1
  <2>3. [a EXCEPT ![2] = Append(a[2], ch)] = [i \in 1..N |-> IF i = 2 THEN Append(a[i], ch) ELSE a[i]]
    BY <1>1
  <2>4. K!Put(t, ch) = CopiedToKey(t, ch)
    BY <1>0, <1>1, <1>7, <2>2, <2>3 DEF CopiedToKey, Stack
  <2> QED
    BY <1>0, <1>7, <2>4
<1>8. CASE ~c /\ ch = "["
  <2>1. K!Put(t, ch) = K!Push(t)
    BY <1>0, <1>8 DEF K!Put
  <2>2. K!Put(t, ch) = Pushed(t, FALSE)
    BY <1>0, <1>1, <1>3, <1>8, <2>1 DEF Pushed, Stack
  <2> QED
    BY <1>0, <1>8, <2>2
<1>9. CASE ~c /\ ch = "]" /\ N > 1
  <2>1. K!Put(t, ch) = K!Pop(t)
    BY <1>0, <1>9 DEF K!Put, K!Square
  <2>2. K!Put(t, ch) = Popped(t)
    BY <1>0, <1>1, <1>2, <1>9, <2>1 DEF Popped, Stack
  <2> QED
    BY <1>0, <1>9, <2>2
<1>10. CASE ~c /\ ch = "{" /\ ~(N > 1)
  <2>1. K!Put(t, ch) = [K!Push(t) EXCEPT !.curly = TRUE]
    BY <1>0, <1>10 DEF K!Put, K!Square
  <2>2. K!Put(t, ch) = Pushed(t, TRUE)
    <3>1. K!Put(t, ch) = Stack(Append(a, <<>>), d, TRUE)
      <4>1. [K!Push(t) EXCEPT !.curly = TRUE] = Stack(Append(a, <<>>), d, TRUE)
        BY <1>3, Recurled
      <4> QED
        BY <2>1, <4>1, Zenon
    <3> QED
      BY <1>0, <3>1 DEF Pushed
  <2> QED
    BY <1>0, <1>10, <2>2
<1>11. CASE ~c /\ ch # "[" /\ ~(ch = "]" /\ N > 1) /\ ~(ch = "{" /\ ~(N > 1))
  <2>1. K!Put(t, ch) = K!Copy(t, ch)
    BY <1>0, <1>11 DEF K!Put, K!Square
  <2>2. K!Put(t, ch) = Copied(t, ch)
    BY <1>0, <1>1, <1>4, <1>11, <2>1 DEF Copied, Stack
  <2> QED
    BY <1>0, <1>11, <2>2
<1> QED
  BY <1>0, <1>1, <1>6, <1>7, <1>8, <1>9, <1>10, <1>11

(* They are ones again. *)
LEMMA StackTypes ==
    ASSUME NEW a \in Seq(Seq(K!Tokens)), NEW d \in Seq(Seq(K!Tokens)), a # <<>>
    PROVE  Stack(a, d, FALSE) \in Stacks /\ (Len(a) = 2 => Stack(a, d, TRUE) \in Stacks)
<1>1. \A c \in BOOLEAN : (c => Len(a) = 2) => Stack(a, d, c) \in Stacks
  BY StackType
<1> QED
  BY <1>1, Zenon

(* Put() makes a stack of a stack. *)
LEMMA PutType ==
    ASSUME NEW t \in Stacks, NEW ch \in K!Tokens
    PROVE  K!Put(t, ch) \in Stacks
<1> DEFINE S == Seq(K!Tokens)
           N == Len(t.v)
<1>1. /\ t.v \in Seq(S) /\ t.done \in Seq(S) /\ N \in Nat /\ N > 0
      /\ t.curly \in BOOLEAN /\ (t.curly => N = 2)
      /\ \A i \in 1..N : t.v[i] \in S
  BY StackHas, ElementOfSeq
<1>2. \A s \in S : Append(s, ch) \in S
  BY AppendProperties
<1>3. <<>> \in S
  OBVIOUS
<1> HIDE DEF S
<1>4. N > 1 => Popped(t) \in Stacks
  <2> SUFFICES ASSUME N > 1 PROVE Popped(t) \in Stacks
    OBVIOUS
  <2>1. /\ SubSeq(t.v, 1, N - 1) \in Seq(S) /\ Len(SubSeq(t.v, 1, N - 1)) = N - 1
    <3>1. N - 1 \in 0..N
      BY <1>1
    <3> HIDE DEF N
    <3> QED
      BY <1>1, <3>1, CutInTwo DEF N
  <2>2. SubSeq(t.v, 1, N - 1) # <<>>
    <3>1. N - 1 # 0
      BY <1>1
    <3> HIDE DEF N
    <3> QED
      BY <2>1, <3>1, EmptySeq
  <2>3. Append(t.done, t.v[N]) \in Seq(S)
    BY <1>1, AppendProperties
  <2> QED
    BY <2>1, <2>2, <2>3, StackTypes DEF Popped, S
<1>5. Pushed(t, FALSE) \in Stacks /\ (N = 1 => Pushed(t, TRUE) \in Stacks)
  <2>1. Append(t.v, <<>>) \in Seq(S) /\ Len(Append(t.v, <<>>)) = N + 1
    BY <1>1, <1>3, AppendProperties
  <2>2. Append(t.v, <<>>) # <<>>
    BY <1>1, <2>1
  <2>3. N = 1 => Len(Append(t.v, <<>>)) = 2
    BY <2>1
  <2> QED
    BY <1>1, <2>1, <2>2, <2>3, StackTypes DEF Pushed, S
<1>6. Copied(t, ch) \in Stacks
  <2> DEFINE a == [i \in 1..N |-> Append(t.v[i], ch)]
  <2>1. a \in Seq(S) /\ Len(a) = N
    BY <1>1, <1>2
  <2>2. a # <<>>
    BY <1>1, <2>1
  <2> QED
    BY <1>1, <2>1, <2>2, StackTypes DEF Copied, S
<1>7. N = 2 => CopiedToKey(t, ch) \in Stacks
  <2> SUFFICES ASSUME N = 2 PROVE CopiedToKey(t, ch) \in Stacks
    OBVIOUS
  <2> DEFINE a == [i \in 1..N |-> IF i = 2 THEN Append(t.v[i], ch) ELSE t.v[i]]
  <2>1. a \in Seq(S) /\ Len(a) = N
    BY <1>1, <1>2
  <2>2. a # <<>>
    BY <1>1, <2>1
  <2> QED
    BY <1>1, <2>1, <2>2, StackTypes DEF CopiedToKey, S
<1>8. ~(N > 1) => N = 1
  BY <1>1, MoreThanOne
<1>9. CASE t.curly
  <2>1. N = 2 /\ N > 1
    <3>1. N = 2
      BY <1>1, <1>9
    <3> HIDE DEF N
    <3> QED
      BY <3>1
  <2> QED
    BY <1>4, <1>7, <1>9, <2>1, PutIs
<1>10. CASE ~t.curly
  BY <1>4, <1>5, <1>6, <1>8, <1>10, PutIs
<1> QED
  BY <1>9, <1>10

(* Before the first token only the text is open. *)
LEMMA EmptyStack ==
    K!TextStack = Stack(<< <<>> >>, <<>>, FALSE) /\ K!TextStack \in Stacks
<1>1. K!TextStack = Stack(<< <<>> >>, <<>>, FALSE)
  BY DEF K!TextStack, Stack
<1>2. << <<>> >> \in Seq(Seq(K!Tokens)) /\ <<>> \in Seq(Seq(K!Tokens)) /\ << <<>> >> # <<>>
  OBVIOUS
<1>3. Stack(<< <<>> >>, <<>>, FALSE) \in Stacks
  BY <1>2, StackTypes
<1> QED
  BY <1>1, <1>3

(* The parser, token by token *)
Parses(h, text) ==
    /\ h[0] = K!TextStack /\ h[Len(text)] = K!Parsed(text)
    /\ \A k \in 1..Len(text) : h[k] = K!Put(h[k - 1], text[k])
    /\ \A k \in 0..Len(text) : h[k] \in Stacks

(* KeyParser's fold of put() has a stack for each part of the text read. *)
LEMMA ParsedStepwise ==
    ASSUME NEW text \in Seq(K!Tokens)
    PROVE  \E h : Parses(h, text)
<1> DEFINE N == Len(text)
           op == [p \in Stacks \X K!Tokens |-> K!Put(p[1], p[2])]
           F == CHOOSE f : f = [u \in SUBSET (1..N) |->
                                   IF u = {} THEN K!TextStack
                                   ELSE K!Put(f[u \ {Max(u)}], text[Max(u)])]
<1>1. N \in Nat /\ DOMAIN text = 1..N /\ \A i \in 1..N : text[i] \in K!Tokens
  BY LenProperties, ElementOfSeq
<1>2. op \in [Stacks \X K!Tokens -> Stacks]
  BY PutType
<1>3. K!TextStack \in Stacks
  BY EmptyStack
<1>4. PICK f : SolvesFold(f, op, K!TextStack, text, N, Stacks, K!Tokens)
  <2> HIDE DEF op, N, F
  <2> QED
    BY <1>1, <1>2, <1>3, FoldingExists
<1>5. \A x \in Stacks, l \in K!Tokens : op[<<x, l>>] = K!Put(x, l)
  OBVIOUS
<1> HIDE DEF op
<1>6. f = [u \in SUBSET (1..N) |-> IF u = {} THEN K!TextStack
                                    ELSE K!Put(f[u \ {Max(u)}], text[Max(u)])]
  BY <1>4, <1>5 DEF FoldedBy, SolvesFold
<1>7. F = [u \in SUBSET (1..N) |-> IF u = {} THEN K!TextStack
                                    ELSE K!Put(F[u \ {Max(u)}], text[Max(u)])]
  BY <1>6
<1> HIDE DEF F
<1>8. F[{}] = K!TextStack
  BY <1>7
<1>9. \A k \in 1..N : F[1..(k - 1)] \in Stacks => F[1..k] = op[<<F[1..(k - 1)], text[k]>>]
  <2> SUFFICES ASSUME NEW k \in 1..N, F[1..(k - 1)] \in Stacks
               PROVE  F[1..k] = op[<<F[1..(k - 1)], text[k]>>]
    OBVIOUS
  <2>1. F[1..k] = K!Put(F[1..(k - 1)], text[k])
    BY <1>1, <1>7, PrefixIsCut
  <2> QED
    BY <1>1, <1>5, <2>1
<1>10. PICK h : FoldsTo(h, op, K!TextStack, text, N, Stacks, F[1..N])
  <2>1. FoldsOn(F, op, K!TextStack, text, N, Stacks)
    BY <1>8, <1>9 DEF FoldsOn
  <2> HIDE DEF N
  <2> QED
    BY <1>1, <1>2, <1>3, <2>1, FoldingGoesOn
<1>11. F[1..N] = K!Parsed(text)
  BY <1>1 DEF K!Parsed, K!FoldLeft, K!MapThenFoldSet, K!Max, Max, F
<1>12. \A k \in 1..N : h[k] = K!Put(h[k - 1], text[k])
  <2> SUFFICES ASSUME NEW k \in 1..N PROVE h[k] = K!Put(h[k - 1], text[k])
    OBVIOUS
  <2>1. k - 1 \in 0..N
    BY <1>1
  <2>2. h[k - 1] \in Stacks /\ text[k] \in K!Tokens /\ h[k] = op[<<h[k - 1], text[k]>>]
    BY <1>1, <1>10, <2>1 DEF FoldsTo
  <2> QED
    BY <1>5, <2>2
<1> QED
  BY <1>10, <1>11, <1>12 DEF Parses, FoldsTo

(* Keys are texts. *)
LEMMA KeysType ==
    ASSUME NEW text \in Seq(K!Tokens)
    PROVE  /\ K!Parsed(text) \in Stacks
           /\ K!KeysOf(text) \in Seq(Seq(K!Tokens))
           /\ \A k \in ToSet(K!KeysOf(text)) : k \in Seq(K!Tokens)
<1>1. K!Parsed(text) \in Stacks
  <2>1. PICK h : Parses(h, text)
    BY ParsedStepwise
  <2>2. Len(text) \in 0..Len(text)
    BY LenProperties
  <2> QED
    BY <2>1, <2>2 DEF Parses
<1> DEFINE t == K!Parsed(text)
<1>2. t.v \in Seq(Seq(K!Tokens)) /\ t.v # <<>> /\ t.done \in Seq(Seq(K!Tokens))
  BY <1>1, StackHas, EmptySeq
<1>3. Tail(t.v) \in Seq(Seq(K!Tokens))
  BY <1>2, HeadTailProperties
<1>4. K!KeysOf(text) = t.done \o Tail(t.v)
  BY DEF K!KeysOf
<1>5. K!KeysOf(text) \in Seq(Seq(K!Tokens))
  BY <1>2, <1>3, <1>4, ConcatProperties
<1> QED
  BY <1>1, <1>5, ElementOfSeq, LenProperties DEF ToSet

-----------------------------------------------------------------------------
(***************************************************************************)
(* Types of what the index is made of                                      *)
(***************************************************************************)
(* Entries with a timestamp which is one, or none, and with keys *)
IsTyped(e) == IsStamp(e.stamp) /\ \A k \in e.keys : k \in Seq(K!Tokens)

AreTyped(ee) == \A i \in 1..Len(ee) : IsTyped(ee[i])

IsKeyed(prev) == prev # <<>> => \A k \in prev[1].keys : k \in Seq(K!Tokens)

(* An entry is typed, with keys from its own lines or those of the one before. *)
LEMMA NewEntryTyped ==
    ASSUME NEW name, NEW lines \in Seq(PossibleLines), NEW stamp, IsStamp(stamp),
           NEW prev, IsKeyed(prev)
    PROVE  IsTyped(NewEntry(name, lines, stamp, prev))
<1> DEFINE text == JoinLines(lines)
           own == [photo |-> PhotoOf(name), stamp |-> stamp,
                   text |-> K!TextOf(text), keys |-> ToSet(K!KeysOf(text))]
           e == NewEntry(name, lines, stamp, prev)
<1>1. \A k \in ToSet(K!KeysOf(text)) : k \in Seq(K!Tokens)
  BY JoinLinesType, KeysType
<1>2. e.stamp = stamp
  BY NewEntryHas
<1>3. \/ e.keys = ToSet(K!KeysOf(text))
      \/ prev # <<>> /\ e.keys = prev[1].keys
  <2>1. e = IF own.text = Ibid /\ prev # <<>>
            THEN [own EXCEPT !.text = prev[1].text, !.keys = prev[1].keys]
            ELSE own
    BY DEF NewEntry
  <2>2. own.keys = ToSet(K!KeysOf(text))
    OBVIOUS
  <2>3. [own EXCEPT !.text = prev[1].text, !.keys = prev[1].keys].keys = prev[1].keys
    OBVIOUS
  <2> HIDE DEF own, e, text
  <2>4. CASE own.text = Ibid /\ prev # <<>>
    <3>1. e = [own EXCEPT !.text = prev[1].text, !.keys = prev[1].keys]
      BY <2>1, <2>4
    <3> QED
      BY <2>3, <2>4, <3>1
  <2>5. CASE ~(own.text = Ibid /\ prev # <<>>)
    <3>1. e = own
      BY <2>1, <2>5
    <3> QED
      BY <2>2, <3>1
  <2> QED
    BY <2>4, <2>5
<1> HIDE DEF e, text
<1> QED
  BY <1>1, <1>2, <1>3 DEF IsTyped, IsKeyed, e

(* Nothing, and the last of the entries before, are what a new one may copy. *)
LEMMA LastIsKeyed ==
    ASSUME NEW ee, Index(ee), AreTyped(ee)
    PROVE  IsKeyed(IF ee = <<>> THEN <<>> ELSE <<Last(ee)>>)
<1> DEFINE prev == IF ee = <<>> THEN <<>> ELSE <<Last(ee)>>
<1>1. Len(ee) \in Nat
  BY LenProperties DEF Index
<1> SUFFICES ASSUME prev # <<>> PROVE \A k \in prev[1].keys : k \in Seq(K!Tokens)
  BY DEF IsKeyed
<1>2. Len(ee) \in 1..Len(ee)
  BY <1>1, EmptySeq DEF Index
<1>3. prev[1] = ee[Len(ee)]
  BY DEF Last
<1> HIDE DEF prev
<1> QED
  BY <1>2, <1>3 DEF AreTyped, IsTyped

(* parse_entry() makes a typed entry of a photo's name and its lines. *)
LEMMA ParsedTyped ==
    ASSUME NEW ee, Index(ee), AreTyped(ee), NEW lines \in Seq(PossibleLines), lines # <<>>
    PROVE  IsTyped(ParseEntry(lines, ee))
<1> DEFINE prev == IF ee = <<>> THEN <<>> ELSE <<Last(ee)>>
           tl == Tail(lines)
           stamp == StampOf(lines[2].stamp)
           nm == Head(lines).name
<1>1. IsKeyed(prev)
  BY LastIsKeyed
<1>2. Len(lines) \in Nat /\ Len(lines) > 0
  BY LenProperties, EmptySeq
<1>3. tl \in Seq(PossibleLines) /\ Len(tl) = Len(lines) - 1
  BY <1>2, HeadTailProperties
<1>4. ParseEntry(lines, ee) =
        IF Len(lines) = 1 THEN NewEntry(nm, <<>>, NoStamp, <<>>)
        ELSE IF ~IsDay(stamp.day) THEN NewEntry(nm, tl, NoStamp, prev)
        ELSE NewEntry(nm, Tail(tl), stamp, prev)
  BY DEF ParseEntry
<1>5. IsStamp(NoStamp) /\ (IsDay(stamp.day) => IsStamp(stamp))
  BY DEF IsStamp
<1>6. IsKeyed(<<>>) /\ <<>> \in Seq(PossibleLines)
  BY DEF IsKeyed
<1> HIDE DEF prev, tl, stamp, nm
<1>7. CASE Len(lines) = 1
  <2>1. IsTyped(NewEntry(nm, <<>>, NoStamp, <<>>))
    BY <1>5, <1>6, NewEntryTyped
  <2> QED
    BY <1>4, <1>7, <2>1
<1>8. CASE Len(lines) # 1 /\ ~IsDay(stamp.day)
  <2>1. IsTyped(NewEntry(nm, tl, NoStamp, prev))
    BY <1>1, <1>3, <1>5, NewEntryTyped
  <2> QED
    BY <1>4, <1>8, <2>1
<1>9. CASE Len(lines) # 1 /\ IsDay(stamp.day)
  <2>1. Tail(tl) \in Seq(PossibleLines)
    BY <1>2, <1>3, <1>9, EmptySeq, HeadTailProperties
  <2>2. IsTyped(NewEntry(nm, Tail(tl), stamp, prev))
    BY <1>1, <1>5, <1>9, <2>1, NewEntryTyped
  <2> QED
    BY <1>4, <1>9, <2>2
<1> QED
  BY <1>7, <1>8, <1>9

(* emit() keeps entries typed. *)
LEMMA EmitTyped ==
    ASSUME NEW ee, Index(ee), AreTyped(ee), NEW lines \in Seq(PossibleLines), lines # <<>>
    PROVE  AreTyped(Emit(ee, lines))
<1> DEFINE e == ParseEntry(lines, ee)
<1>1. Len(ee) \in Nat /\ DOMAIN ee = 1..Len(ee) /\ ee \in Seq(ToSet(ee))
  BY LenProperties DEF Index
<1>2. IsTyped(e)
  BY ParsedTyped
<1>3. CASE IsPhoto(e.photo)
  <2>1. Emit(ee, lines) = Append(ee, e)
    BY <1>3 DEF Emit, e
  <2>2. /\ Len(Append(ee, e)) = Len(ee) + 1
        /\ \A i \in 1..Len(ee) : Append(ee, e)[i] = ee[i]
        /\ Append(ee, e)[Len(ee) + 1] = e
    BY <1>1
  <2>3. \A i \in 1..(Len(ee) + 1) : IsTyped(Append(ee, e)[i])
    BY <1>1, <1>2, <2>2 DEF AreTyped
  <2> QED
    BY <2>1, <2>2, <2>3 DEF AreTyped
<1>4. CASE ~IsPhoto(e.photo)
  BY <1>4 DEF Emit, e
<1> QED
  BY <1>3, <1>4

(***************************************************************************)
(* The invariant: lines which are kept are neither blank nor comments, and *)
(* there is nothing but entries before the index is ready.                 *)
(***************************************************************************)
Typed ==
    /\ line \in Nat
    /\ \A i \in 1..Len(v) : IsText(v[i])
    /\ AreTyped(entries)
    /\ pc \in {"read", "ready"}
    /\ ~Ready => byKey = <<>> /\ years = NoYears

(* It holds before anything has been read. *)
LEMMA TypedInit == CInit => Typed
BY EmptySeq DEF CInit, PInit, Init, Typed, AreTyped, Ready

(* A line is kept if it is a text, and entries only come from such lines. *)
LEMMA TypedReadLine == PagesInv /\ Typed /\ ReadLine => Typed'
<1> SUFFICES ASSUME PagesInv, Typed, ReadLine
             PROVE  Typed'
  OBVIOUS
<1> DEFINE i == Current
           l == Head(rest[i])
           first == i # 1 \/ line = 0
           ee == Flush(first)
           lines == IF first THEN <<>> ELSE v
<1>0. Index(entries) /\ v \in Seq(PossibleLines) /\ rest \in Seq(Seq(PossibleLines))
  BY DEF PagesInv, KeptInv, IInv, Reading
<1>1. /\ line' \in {1, line + 1}
      /\ \/ l = CommentLine /\ entries' = ee /\ v' = lines
         \/ l = BlankLine /\ entries' = (IF lines # <<>> THEN Emit(ee, lines) ELSE ee) /\ v' = <<>>
         \/ l \notin {CommentLine, BlankLine} /\ entries' = ee /\ v' = Append(lines, l)
      /\ pc = "read" /\ pc' = pc /\ byKey' = byKey /\ years' = years
  BY DEF ReadLine
<1>7. l \in PossibleLines
  <2>1. i \in Remaining /\ i \in 1..Len(rest)
    BY <1>0, CurrentIsThere DEF ReadLine
  <2>2. rest[i] # <<>> /\ rest[i] \in Seq(PossibleLines)
    BY <1>0, <2>1, ElementOfSeq DEF Remaining
  <2> QED
    BY <2>2, HeadTailProperties
<1>2. Index(ee) /\ AreTyped(ee)
  BY <1>0, EmitKeeps, EmitTyped DEF Flush, Typed
<1>3. lines \in Seq(PossibleLines) /\ \A j \in 1..Len(lines) : IsText(lines[j])
  BY <1>0, EmptySeq DEF Typed
<1> HIDE DEF ee, lines, l
<1>4. AreTyped(entries')
  BY <1>1, <1>2, <1>3, EmitTyped
<1>5. \A j \in 1..Len(v') : IsText(v'[j])
  <2>1. CASE v' = <<>>
    BY <2>1
  <2>2. CASE v' = lines
    BY <1>3, <2>2
  <2>3. CASE IsText(l) /\ v' = Append(lines, l)
    <3>1. /\ Len(v') = Len(lines) + 1 /\ Len(lines) \in Nat
          /\ \A j \in 1..Len(lines) : v'[j] = lines[j]
          /\ v'[Len(lines) + 1] = l
      BY <1>3, <1>7, <2>3, AppendProperties, LenProperties
    <3> QED
      BY <1>3, <2>3, <3>1
  <2> QED
    BY <1>1, <2>1, <2>2, <2>3 DEF IsText
<1>6. line' \in Nat
  BY <1>1 DEF Typed
<1> QED
  BY <1>1, <1>4, <1>5, <1>6 DEF Typed, Ready, AreTyped

(* Sorting and weeding add no entries. *)
LEMMA TypedEndOfFiles == PagesInv /\ Typed /\ EndOfFiles => Typed'
<1> SUFFICES ASSUME PagesInv, Typed, EndOfFiles
             PROVE  Typed'
  OBVIOUS
<1> DEFINE ee == IF v # <<>> THEN Emit(entries, v) ELSE entries
<1>0. Index(entries) /\ v \in Seq(PossibleLines)
  BY DEF PagesInv, KeptInv, IInv, Reading
<1>1. entries' = Weed(StableSort(ee)) /\ v' = <<>> /\ pc' = "ready" /\ line' = line
  BY DEF EndOfFiles
<1>2. Index(ee) /\ AreTyped(ee)
  BY <1>0, EmitKeeps, EmitTyped DEF Typed
<1> HIDE DEF ee
<1>3. \A i \in 1..Len(entries') : \E j \in 1..Len(ee) : entries'[i] = ee[j]
  BY <1>1, <1>2, SortingKeeps
<1>4. AreTyped(entries')
  BY <1>2, <1>3 DEF AreTyped
<1> QED
  BY <1>1, <1>4 DEF Typed, Ready, AreTyped

(* Each step keeps the invariant. *)
LEMMA TypedNext == PagesInv /\ Typed /\ [CNext]_<<vars, served, asked>> => Typed'
<1> SUFFICES ASSUME PagesInv, Typed, [CNext]_<<vars, served, asked>>
             PROVE  Typed'
  OBVIOUS
<1>1. CASE UNCHANGED vars
  BY <1>1 DEF vars, Typed, Ready, AreTyped
<1>2. UNCHANGED vars \/ ReadLine \/ EndOfFiles
  BY DEF CNext, Build, Next, Request, GenerateMore, Tick, Finish
<1> QED
  BY <1>1, <1>2, TypedReadLine, TypedEndOfFiles

(* Positions by keyword are of entries with it, of which there is one. *)
LEMMA PositionsTyped ==
    ASSUME Index(entries), Inverted, NEW k \in DOMAIN byKey
    PROVE  byKey[k] # <<>> /\ ToSet(byKey[k]) \subseteq DOMAIN entries
<1> DEFINE L == Len(entries)
           S == {i \in DOMAIN entries : k \in entries[i].keys}
           q == Places(entries, S)
<1>1. L \in Nat /\ DOMAIN entries = 1..L
  BY LenProperties DEF Index
<1>2. byKey[k] = q /\ k \in UNION {e.keys : e \in ToSet(entries)}
  BY DEF Inverted, Invert
<1>3. Ascends(q, L, S)
  BY <1>1, PlacesAscend
<1>4. PICK i \in 1..L : i \in S
  BY <1>1, <1>2 DEF ToSet
<1> HIDE DEF q, S
<1>5. q \in Seq(1..L) /\ \E j \in 1..Len(q) : q[j] = i
  BY <1>3, <1>4 DEF Ascends
<1>6. DOMAIN q = 1..Len(q) /\ \A j \in 1..Len(q) : q[j] \in 1..L
  BY <1>5, LenProperties, ElementOfSeq
<1>7. q # <<>>
  BY <1>5
<1> QED
  BY <1>1, <1>2, <1>6, <1>7 DEF ToSet

(***************************************************************************)
(* Type correctness of the index: its entries have photos, timestamps and  *)
(* keywords, and its positions by keyword are of entries.                  *)
(***************************************************************************)
THEOREM AlbumIsTyped == CSpec => []TypeOK
<1>1. PagesInv /\ Typed => TypeOK
  <2> SUFFICES ASSUME PagesInv, Typed PROVE TypeOK
    OBVIOUS
  <2>1. Index(entries) /\ v \in Seq(PossibleLines) /\ (Ready => Sorted(entries) /\ Inverted /\ years = YearsOf(entries))
    BY DEF PagesInv, KeptInv, IInv, Reading
  <2>2. DOMAIN entries = 1..Len(entries) /\ DOMAIN v = 1..Len(v)
    BY <2>1, LenProperties DEF Index
  <2>3. \A e \in ToSet(entries) :
            IsPhoto(e.photo) /\ IsStamp(e.stamp) /\ (\A k \in e.keys : k \in Seq(K!Tokens))
    BY <2>1, <2>2 DEF ToSet, Typed, AreTyped, IsTyped, Index, IsEntry
  <2>4. \A i \in DOMAIN v : v[i] \notin {BlankLine, CommentLine}
    BY <2>2 DEF Typed, IsText
  <2>5. CASE Ready
    <3>1. years.begin <= years.end
      BY <2>1, <2>5, YearsAreOrdered
    <3>2. \A k \in DOMAIN byKey : byKey[k] # <<>> /\ ToSet(byKey[k]) \subseteq DOMAIN entries
      BY <2>1, <2>5, PositionsTyped
    <3> QED
      BY <2>3, <2>4, <3>1, <3>2 DEF TypeOK, Typed
  <2>6. CASE ~Ready
    <3>1. years.begin <= years.end /\ DOMAIN byKey = {}
      BY <2>6 DEF Typed, NoYears
    <3> QED
      BY <2>3, <2>4, <3>1 DEF TypeOK, Typed
  <2> QED
    BY <2>5, <2>6
<1> QED
  BY <1>1, TypedInit, TypedNext, PagesAreInductive, PTL DEF CSpec

-----------------------------------------------------------------------------
(* Where a position can be: inside curly brackets, or in a number of square ones *)
Insides == {b \in [curly : BOOLEAN, depth : Nat] : b.curly => b.depth = 0}

Inside(c, d) == [curly |-> c, depth |-> d]

(* Where one is after a token *)
Passes(b, ch) ==
    IF b.curly THEN [b EXCEPT !.curly = ch # "}"]
    ELSE IF ch = "[" THEN [b EXCEPT !.depth = @ + 1]
    ELSE IF ch = "]" /\ b.depth > 0 THEN [b EXCEPT !.depth = @ - 1]
    ELSE [b EXCEPT !.curly = ch = "{" /\ b.depth = 0]

(* The same, said for each member *)
LEMMA PassesTo ==
    ASSUME NEW b \in Insides, NEW ch
    PROVE  /\ Passes(b, ch) \in Insides
           /\ b.curly => Passes(b, ch).depth = b.depth /\ (Passes(b, ch).curly <=> ch # "}")
           /\ ~b.curly /\ ch = "[" =>
                 Passes(b, ch).depth = b.depth + 1 /\ ~Passes(b, ch).curly
           /\ ~b.curly /\ ch = "]" /\ b.depth > 0 =>
                 Passes(b, ch).depth = b.depth - 1 /\ ~Passes(b, ch).curly
           /\ ~b.curly /\ ch # "[" /\ ~(ch = "]" /\ b.depth > 0) =>
                 /\ Passes(b, ch).depth = b.depth
                 /\ Passes(b, ch).curly <=> (ch = "{" /\ b.depth = 0)
<1> DEFINE c == b.curly
           d == b.depth
<1>1. c \in BOOLEAN /\ d \in Nat /\ (c => d = 0) /\ b = [curly |-> c, depth |-> d]
  BY DEF Insides
<1>2. \A x \in BOOLEAN, y \in Nat :
         (x => y = 0) => [curly |-> x, depth |-> y] \in Insides
  BY DEF Insides
<1>3. b.curly = c /\ b.depth = d
  OBVIOUS
<1> HIDE DEF c, d
<1>4. CASE c
  <2> DEFINE x == ch # "}"
  <2>1. Passes(b, ch) = [b EXCEPT !.curly = x]
    BY <1>3, <1>4 DEF Passes
  <2>2. x \in BOOLEAN
    OBVIOUS
  <2> HIDE DEF x
  <2>3. Passes(b, ch) = [curly |-> x, depth |-> d]
    BY <1>1, <2>1
  <2>4. Passes(b, ch) \in Insides /\ Passes(b, ch).depth = d /\ Passes(b, ch).curly = x
    BY <1>1, <1>2, <1>4, <2>2, <2>3
  <2> QED
    BY <1>3, <1>4, <2>4 DEF x
<1>5. CASE ~c /\ ch = "["
  <2>1. Passes(b, ch) = [curly |-> c, depth |-> d + 1]
    BY <1>1, <1>3, <1>5 DEF Passes
  <2>2. Passes(b, ch) \in Insides /\ Passes(b, ch).depth = d + 1 /\ Passes(b, ch).curly = c
    BY <1>1, <1>2, <1>5, <2>1
  <2> QED
    BY <1>3, <1>5, <2>2
<1>6. CASE ~c /\ ch = "]" /\ d > 0
  <2>1. Passes(b, ch) = [curly |-> c, depth |-> d - 1]
    BY <1>1, <1>3, <1>6 DEF Passes
  <2>2. Passes(b, ch) \in Insides /\ Passes(b, ch).depth = d - 1 /\ Passes(b, ch).curly = c
    BY <1>1, <1>2, <1>6, <2>1
  <2> QED
    BY <1>3, <1>6, <2>2
<1>7. CASE ~c /\ ch # "[" /\ ~(ch = "]" /\ d > 0)
  <2> DEFINE x == ch = "{" /\ d = 0
  <2>1. Passes(b, ch) = [b EXCEPT !.curly = x]
    BY <1>3, <1>7 DEF Passes
  <2>2. x \in BOOLEAN /\ (x => d = 0)
    OBVIOUS
  <2> HIDE DEF x
  <2>3. Passes(b, ch) = [curly |-> x, depth |-> d]
    BY <1>1, <2>1
  <2>4. Passes(b, ch) \in Insides /\ Passes(b, ch).depth = d /\ Passes(b, ch).curly = x
    BY <1>1, <1>2, <2>2, <2>3
  <2> QED
    BY <1>3, <1>7, <2>4 DEF x
<1> QED
  BY <1>3, <1>4, <1>5, <1>6, <1>7

(* What Where() says for each position *)
Goes(at, text) ==
    /\ at[0] = Inside(FALSE, 0)
    /\ \A k \in 1..Len(text) : at[k] = Passes(at[k - 1], text[k])
    /\ \A k \in 0..Len(text) : at[k] \in Insides

(* It does: its equation has a solution. *)
LEMMA WhereGoes ==
    ASSUME NEW text \in Seq(K!Tokens)
    PROVE  Goes(K!Where(text), text)
<1> DEFINE N == Len(text)
           op == [p \in Insides \X K!Tokens |-> Passes(p[1], p[2])]
           base == Inside(FALSE, 0)
           F == CHOOSE f : f = [i \in 0..N |-> IF i = 0 THEN base ELSE Passes(f[i - 1], text[i])]
<1>1. N \in Nat /\ \A i \in 1..N : text[i] \in K!Tokens
  BY LenProperties, ElementOfSeq
<1>2. op \in [Insides \X K!Tokens -> Insides]
  BY PassesTo
<1>3. base \in Insides
  BY DEF Insides, Inside
<1>4. K!Where(text) = F
  BY DEF K!Where, Passes, Inside
<1>5. \A b \in Insides, ch \in K!Tokens : op[<<b, ch>>] = Passes(b, ch)
  OBVIOUS
<1> HIDE DEF op, base
<1>6. PICK f : Recurs(f, op, base, text, N) /\ \A k \in 0..N : f[k] \in Insides
  BY <1>1, <1>2, <1>3, RecursionExists
<1>7. f = [i \in 0..N |-> IF i = 0 THEN base ELSE op[<<f[i - 1], text[i]>>]]
  BY <1>6 DEF Recurs
<1>8. \A i \in 1..N : op[<<f[i - 1], text[i]>>] = Passes(f[i - 1], text[i])
  <2> SUFFICES ASSUME NEW i \in 1..N
               PROVE  op[<<f[i - 1], text[i]>>] = Passes(f[i - 1], text[i])
    OBVIOUS
  <2>1. i - 1 \in 0..N
    BY <1>1
  <2> QED
    BY <1>1, <1>5, <1>6, <2>1
<1>9. \A i \in 0..N : i = 0 \/ i \in 1..N
  BY <1>1
<1>10. f = [i \in 0..N |-> IF i = 0 THEN base ELSE Passes(f[i - 1], text[i])]
  BY <1>7, <1>8, <1>9
<1>11. F = [i \in 0..N |-> IF i = 0 THEN base ELSE Passes(F[i - 1], text[i])]
  BY <1>10
<1> HIDE DEF F
<1>12. \A i \in 0..N : F[i] = IF i = 0 THEN base ELSE Passes(F[i - 1], text[i])
  BY <1>11
<1>13. F[0] = base /\ \A k \in 1..N : F[k] = Passes(F[k - 1], text[k])
  <2>1. 0 \in 0..N /\ \A k \in 1..N : k \in 0..N /\ k # 0
    BY <1>1
  <2> QED
    BY <1>12, <2>1
<1>14. \A k \in 0..N : F[k] \in Insides
  <2> DEFINE T == {k \in Nat : k <= N => F[k] \in Insides}
  <2>1. 0 \in T
    BY <1>3, <1>13
  <2>2. ASSUME NEW k \in Nat, k \in T PROVE k + 1 \in T
    <3> SUFFICES ASSUME k + 1 <= N PROVE F[k + 1] \in Insides
      OBVIOUS
    <3>1. k + 1 \in 1..N /\ (k + 1) - 1 = k /\ F[k] \in Insides
      BY <1>1, <2>2
    <3> QED
      <4>1. F[k + 1] = Passes(F[k], text[k + 1])
        BY <1>13, <3>1
      <4>2. Passes(F[k], text[k + 1]) \in Insides
        BY <3>1, PassesTo
      <4> QED
        BY <4>1, <4>2
  <2>3. Nat \subseteq T
    <3> HIDE DEF T
    <3> QED
      BY <2>1, <2>2, Induction
  <2> QED
    BY <2>3
<1> QED
  BY <1>4, <1>13, <1>14 DEF Goes, base

-----------------------------------------------------------------------------
(* How many brackets one is inside of, which is how many keys are open *)
Level(b) == b.depth + (IF b.curly THEN 1 ELSE 0)

Agrees(t, b) == (t.curly <=> b.curly) /\ Len(t.v) = Level(b) + 1

(* What a token can do: nothing to the level, or begin a key, or end one *)
Stays(b, c) == c.depth = b.depth /\ (c.curly <=> b.curly)

Deepens(b, c) == c.depth > b.depth \/ (c.curly /\ ~b.curly)

(* Then it is copied to the open keys, or one is pushed, or one is done. *)
PutsCopy(t, u, ch) ==
    /\ Len(u.v) = Len(t.v) /\ u.done = t.done
    /\ \A i \in 1..Len(t.v) :
          u.v[i] = IF t.curly /\ i # 2 THEN t.v[i] ELSE Append(t.v[i], ch)

PutsKey(t, u) ==
    /\ Len(u.v) = Len(t.v) + 1 /\ u.done = t.done
    /\ \A i \in 1..Len(t.v) : u.v[i] = t.v[i]
    /\ u.v[Len(t.v) + 1] = <<>>

TakesKey(t, u) ==
    /\ Len(u.v) = Len(t.v) - 1 /\ Len(u.v) > 0 /\ u.done = Append(t.done, t.v[Len(t.v)])
    /\ \A i \in 1..Len(u.v) : u.v[i] = t.v[i]

(* Those are what the cases of put() do. *)
LEMMA PutDoes ==
    ASSUME NEW t \in Stacks, NEW ch
    PROVE  /\ PutsKey(t, Pushed(t, FALSE)) /\ PutsKey(t, Pushed(t, TRUE))
           /\ Len(t.v) > 1 => TakesKey(t, Popped(t))
           /\ ~t.curly => PutsCopy(t, Copied(t, ch), ch)
           /\ t.curly => PutsCopy(t, CopiedToKey(t, ch), ch)
<1> DEFINE S == Seq(K!Tokens)
           a == t.v
           N == Len(a)
<1>1. a \in Seq(S) /\ N \in Nat /\ N > 0 /\ (t.curly => N = 2)
  BY StackHas
<1>2. \A c : Pushed(t, c).v = Append(a, <<>>) /\ Pushed(t, c).done = t.done
  BY DEF Pushed, Stack
<1>3. Popped(t).v = SubSeq(a, 1, N - 1) /\ Popped(t).done = Append(t.done, a[N])
  BY DEF Popped, Stack
<1>4. Copied(t, ch).v = [i \in 1..N |-> Append(a[i], ch)] /\ Copied(t, ch).done = t.done
  BY DEF Copied, Stack
<1>5. CopiedToKey(t, ch).v = [i \in 1..N |-> IF i = 2 THEN Append(a[i], ch) ELSE a[i]]
      /\ CopiedToKey(t, ch).done = t.done
  BY DEF CopiedToKey, Stack
<1>6. /\ Len(Append(a, <<>>)) = N + 1 /\ Append(a, <<>>)[N + 1] = <<>>
      /\ \A i \in 1..N : Append(a, <<>>)[i] = a[i]
  <2>1. <<>> \in S
    OBVIOUS
  <2> HIDE DEF S
  <2> QED
    BY <1>1, <2>1, AppendProperties
<1>7. \A c : PutsKey(t, Pushed(t, c))
  BY <1>2, <1>6 DEF PutsKey
<1>8. PutsKey(t, Pushed(t, FALSE)) /\ PutsKey(t, Pushed(t, TRUE))
  BY <1>7, Zenon
<1>9. ASSUME N > 1 PROVE TakesKey(t, Popped(t))
  <2> DEFINE p == SubSeq(a, 1, N - 1)
  <2>1. N - 1 \in Nat /\ N - 1 \in 0..N /\ N - 1 > 0
    BY <1>1, <1>9
  <2>2. Len(p) = N - 1 /\ \A i \in 1..(N - 1) : p[i] = a[i]
    BY <1>1, <2>1
  <2> HIDE DEF p
  <2>3. Popped(t).v = p
    BY <1>3 DEF p
  <2> HIDE DEF N
  <2> QED
    BY <1>3, <2>1, <2>2, <2>3 DEF TakesKey, N
<1>10. ASSUME ~t.curly PROVE PutsCopy(t, Copied(t, ch), ch)
  <2> DEFINE p == [i \in 1..N |-> Append(a[i], ch)]
  <2>1. Len(p) = N /\ \A i \in 1..N : p[i] = Append(a[i], ch)
    BY <1>1
  <2> HIDE DEF p
  <2>2. Copied(t, ch).v = p
    BY <1>4 DEF p
  <2> QED
    BY <1>4, <1>10, <2>1, <2>2 DEF PutsCopy
<1>11. ASSUME t.curly PROVE PutsCopy(t, CopiedToKey(t, ch), ch)
  <2> DEFINE p == [i \in 1..N |-> IF i = 2 THEN Append(a[i], ch) ELSE a[i]]
  <2>1. Len(p) = N /\ \A i \in 1..N : p[i] = IF i = 2 THEN Append(a[i], ch) ELSE a[i]
    BY <1>1
  <2> HIDE DEF p
  <2>2. CopiedToKey(t, ch).v = p
    BY <1>5 DEF p
  <2> QED
    BY <1>5, <1>11, <2>1, <2>2 DEF PutsCopy
<1> QED
  BY <1>8, <1>9, <1>10, <1>11

(* The parser is as deep in brackets as the text is, and does what that says. *)
LEMMA PutFollows ==
    ASSUME NEW t \in Stacks, NEW b \in Insides, Agrees(t, b), NEW ch
    PROVE  LET u == K!Put(t, ch)
               c == Passes(b, ch)
           IN  /\ Agrees(u, c)
               /\ Stays(b, c) => PutsCopy(t, u, ch)
               /\ Deepens(b, c) => PutsKey(t, u) /\ ~b.curly /\ Level(c) = Level(b) + 1
               /\ ~Stays(b, c) /\ ~Deepens(b, c) =>
                     TakesKey(t, u) /\ ~c.curly /\ Level(c) = Level(b) - 1
<1> DEFINE u == K!Put(t, ch)
           c == Passes(b, ch)
           N == Len(t.v)
<1>1. /\ b.curly \in BOOLEAN /\ b.depth \in Nat /\ (b.curly => b.depth = 0)
      /\ c.curly \in BOOLEAN /\ c.depth \in Nat /\ (c.curly => c.depth = 0)
  BY PassesTo DEF Insides
<1>2. N \in Nat /\ (t.curly <=> b.curly) /\ N = Level(b) + 1 /\ t.curly \in BOOLEAN
  BY StackHas DEF Agrees
<1>3. (b.curly => Level(b) = 1) /\ (~b.curly => Level(b) = b.depth)
      /\ (c.curly => Level(c) = 1) /\ (~c.curly => Level(c) = c.depth)
  BY <1>1 DEF Level
<1>4. N > 1 <=> Level(b) > 0
  <2>1. Level(b) \in Nat
    BY <1>1, <1>3
  <2> HIDE DEF N
  <2> QED
    BY <1>2, <2>1
<1>5. \A x : Popped(t).curly = FALSE /\ Pushed(t, x).curly = x
             /\ Copied(t, ch).curly = FALSE /\ CopiedToKey(t, ch).curly = TRUE
  BY DEF Popped, Pushed, Copied, CopiedToKey, Stack
<1>12. Level(b) = 0 \/ Level(b) > 0
  BY <1>1, <1>3
<1>13. /\ \A x \in Nat : ~(x > x) /\ (x > 0 <=> x # 0)
       /\ 1 \in Nat /\ 0 \in Nat /\ 0 + 1 = 1 /\ 1 # 0
  OBVIOUS
<1> HIDE DEF u, c, N
<1>6. CASE b.curly /\ ch = "}"
  <2>1. c.depth = b.depth /\ ~c.curly
    BY <1>6, PassesTo DEF c
  <2>2. u = Popped(t)
    BY <1>2, <1>6, PutIs DEF u, N
  <2>6. N > 1
    <3>1. Level(b) = 1
      BY <1>3, <1>6
    <3>2. Level(b) > 0
      BY <3>1
    <3> QED
      BY <1>4, <3>2
  <2>3. TakesKey(t, u) /\ ~u.curly
    BY <1>5, <2>2, <2>6, PutDoes DEF N
  <2>4. ~Stays(b, c) /\ ~Deepens(b, c) /\ Level(c) = 0 /\ Level(b) = 1
    <3>1. Level(c) = 0 /\ Level(b) = 1
      BY <1>1, <1>3, <1>6, <2>1
    <3>2. ~Stays(b, c)
      BY <1>1, <1>3, <1>6, <2>1 DEF Stays
    <3>3. ~Deepens(b, c)
      BY <1>1, <1>13, <1>6, <2>1, Zenon DEF Deepens
    <3> QED
      BY <3>1, <3>2, <3>3
  <2>5. Len(u.v) = Level(c) + 1
    <3>1. Len(u.v) = N - 1
      BY <2>3 DEF TakesKey, N
    <3> QED
      BY <1>2, <2>4, <3>1
  <2> QED
    BY <2>1, <2>3, <2>4, <2>5 DEF Agrees, u, c
<1>7. CASE b.curly /\ ch # "}"
  <2>1. c.depth = b.depth /\ c.curly
    BY <1>7, PassesTo DEF c
  <2>2. u = CopiedToKey(t, ch)
    BY <1>2, <1>7, PutIs DEF u, N
  <2>3. PutsCopy(t, u, ch) /\ u.curly
    BY <1>2, <1>5, <1>7, <2>2, PutDoes DEF N
  <2>4. Stays(b, c) /\ ~Deepens(b, c) /\ Level(c) = Level(b)
    <3>1. Level(c) = Level(b)
      BY <1>1, <1>3, <1>7, <2>1
    <3>2. Stays(b, c)
      BY <1>1, <1>3, <1>7, <2>1 DEF Stays
    <3>3. ~Deepens(b, c)
      BY <1>1, <1>13, <1>7, <2>1, Zenon DEF Deepens
    <3> QED
      BY <3>1, <3>2, <3>3
  <2> QED
    BY <1>2, <2>1, <2>3, <2>4 DEF Agrees, PutsCopy, u, c, N
<1>8. CASE ~b.curly /\ ch = "["
  <2>1. c.depth = b.depth + 1 /\ ~c.curly
    BY <1>8, PassesTo DEF c
  <2>2. u = Pushed(t, FALSE)
    BY <1>2, <1>8, PutIs DEF u, N
  <2>3. PutsKey(t, u) /\ ~u.curly
    <3>1. Pushed(t, FALSE).curly = FALSE
      BY <1>5, Zenon
    <3> QED
      BY <2>2, <3>1, PutDoes DEF N
  <2>4. ~Stays(b, c) /\ Deepens(b, c) /\ Level(c) = Level(b) + 1
    <3>1. Level(c) = Level(b) + 1
      BY <1>1, <1>3, <1>8, <2>1
    <3>2. ~Stays(b, c)
      BY <1>1, <1>3, <1>8, <2>1 DEF Stays
    <3>3. Deepens(b, c)
      BY <1>1, <1>3, <1>8, <2>1 DEF Deepens
    <3> QED
      BY <3>1, <3>2, <3>3
  <2> QED
    BY <1>2, <1>8, <2>1, <2>3, <2>4 DEF Agrees, PutsKey, u, c, N
<1>9. CASE ~b.curly /\ ch = "]" /\ b.depth > 0
  <2>1. c.depth = b.depth - 1 /\ ~c.curly
    BY <1>9, PassesTo DEF c
  <2>2. u = Popped(t)
    BY <1>2, <1>3, <1>4, <1>9, PutIs DEF u, N
  <2>3. TakesKey(t, u) /\ ~u.curly
    BY <1>3, <1>4, <1>5, <1>9, <2>2, PutDoes DEF N
  <2>4. ~Stays(b, c) /\ ~Deepens(b, c) /\ Level(c) = Level(b) - 1
    <3>1. Level(c) = Level(b) - 1
      BY <1>1, <1>3, <1>9, <2>1
    <3>2. ~Stays(b, c)
      BY <1>1, <1>3, <1>9, <2>1 DEF Stays
    <3>3. ~Deepens(b, c)
      BY <1>1, <1>3, <1>9, <2>1 DEF Deepens
    <3> QED
      BY <3>1, <3>2, <3>3
  <2>5. Len(u.v) = Level(c) + 1
    <3>1. Len(u.v) = N - 1
      BY <2>3 DEF TakesKey, N
    <3>2. Level(b) \in Nat
      BY <1>1, <1>3
    <3> QED
      BY <1>2, <2>4, <3>1, <3>2
  <2> QED
    BY <2>1, <2>3, <2>4, <2>5 DEF Agrees, u, c
<1>10. CASE ~b.curly /\ ch = "{" /\ b.depth = 0
  <2>1. c.depth = b.depth /\ c.curly
    BY <1>10, PassesTo DEF c
  <2>2. u = Pushed(t, TRUE)
    <3>1. ~(N > 1)
      BY <1>1, <1>3, <1>4, <1>10, <1>13, Zenon
    <3> QED
      BY <1>2, <1>10, <3>1, PutIs DEF u, N
  <2>3. PutsKey(t, u) /\ u.curly
    <3>1. Pushed(t, TRUE).curly = TRUE
      BY <1>5, Zenon
    <3> QED
      BY <2>2, <3>1, PutDoes DEF N
  <2>4. ~Stays(b, c) /\ Deepens(b, c) /\ Level(c) = Level(b) + 1
    <3>1. Level(c) = Level(b) + 1
      BY <1>3, <1>10, <1>13, <2>1, Zenon
    <3>2. ~Stays(b, c)
      BY <1>1, <1>3, <1>10, <2>1 DEF Stays
    <3>3. Deepens(b, c)
      BY <1>1, <1>3, <1>10, <2>1 DEF Deepens
    <3> QED
      BY <3>1, <3>2, <3>3
  <2> QED
    BY <1>2, <1>10, <2>1, <2>3, <2>4 DEF Agrees, PutsKey, u, c, N
<1>11. CASE ~b.curly /\ ch # "[" /\ ~(ch = "]" /\ b.depth > 0) /\ ~(ch = "{" /\ b.depth = 0)
  <2>1. c.depth = b.depth /\ ~c.curly
    BY <1>11, PassesTo DEF c
  <2>2. u = Copied(t, ch)
    <3>1. (N > 1 <=> b.depth > 0) /\ (~(N > 1) <=> b.depth = 0)
      BY <1>1, <1>3, <1>4, <1>11, <1>13, Zenon
    <3> QED
      BY <1>2, <1>11, <3>1, PutIs DEF u, N
  <2>3. PutsCopy(t, u, ch) /\ ~u.curly
    BY <1>2, <1>5, <1>11, <2>2, PutDoes DEF N
  <2>4. Stays(b, c) /\ ~Deepens(b, c) /\ Level(c) = Level(b)
    <3>1. Level(c) = Level(b)
      BY <1>1, <1>3, <1>11, <2>1
    <3>2. Stays(b, c)
      BY <1>1, <1>3, <1>11, <2>1 DEF Stays
    <3>3. ~Deepens(b, c)
      BY <1>1, <1>13, <1>11, <2>1, Zenon DEF Deepens
    <3> QED
      BY <3>1, <3>2, <3>3
  <2> QED
    BY <1>2, <2>1, <2>3, <2>4 DEF Agrees, PutsCopy, u, c, N
<1> QED
  BY <1>1, <1>6, <1>7, <1>8, <1>9, <1>10, <1>11 DEF u, c

-----------------------------------------------------------------------------
(* Where a text's positions are *)
At(text, k) == K!Where(text)[k]

(* Which of them are brackets, seen from one position to the next *)
LEMMA StepsOfWhere ==
    ASSUME NEW text \in Seq(K!Tokens), NEW k \in Nat, k + 1 <= Len(text)
    PROVE  /\ At(text, k) \in Insides /\ At(text, k + 1) \in Insides
           /\ At(text, k + 1) = Passes(At(text, k), text[k + 1])
           /\ k + 1 \in K!Brackets(text) <=> ~Stays(At(text, k), At(text, k + 1))
           /\ k + 1 \in K!Opens(text) <=> Deepens(At(text, k), At(text, k + 1))
<1> DEFINE N == Len(text)
           b == At(text, k)
           c == At(text, k + 1)
<1>1. N \in Nat /\ DOMAIN text = 1..N
  BY LenProperties
<1>2. k \in 0..N /\ k + 1 \in 0..N /\ k + 1 \in 1..N /\ (k + 1) - 1 = k
  BY <1>1
<1>3. b \in Insides /\ c \in Insides /\ c = Passes(b, text[k + 1])
  BY <1>2, WhereGoes DEF Goes, At
<1>4. b.curly \in BOOLEAN /\ c.curly \in BOOLEAN /\ b.depth \in Nat /\ c.depth \in Nat
  BY <1>3 DEF Insides
<1>5. k + 1 \in K!Brackets(text) <=> (c.depth # b.depth \/ c.curly # b.curly)
  BY <1>1, <1>2 DEF K!Brackets, At
<1>6. k + 1 \in K!Opens(text) <=>
         (k + 1 \in K!Brackets(text) /\ (c.depth > b.depth \/ (c.curly /\ ~b.curly)))
  BY <1>2 DEF K!Opens, At
<1> HIDE DEF b, c
<1>7. k + 1 \in K!Brackets(text) <=> ~Stays(b, c)
  <2>1. (c.curly # b.curly) <=> ~(c.curly <=> b.curly)
    BY <1>4
  <2> QED
    BY <1>5, <2>1, Zenon DEF Stays
<1>8. Deepens(b, c) => ~Stays(b, c)
  <2>1. c.depth > b.depth => c.depth # b.depth
    BY <1>4
  <2> QED
    BY <2>1, Zenon DEF Stays, Deepens
<1>9. k + 1 \in K!Opens(text) <=> Deepens(b, c)
  BY <1>6, <1>7, <1>8, Zenon DEF Deepens
<1> QED
  BY <1>3, <1>7, <1>9 DEF b, c

(* The key which begins at i does not go on at m. *)
Ended(text, i, m) ==
    IF At(text, i).curly THEN ~At(text, m).curly
    ELSE At(text, m).depth < At(text, i).depth

(* After k tokens: s is the key which begins at i, at level l, and goes on; *)
(* or it is one which has ended; or it is the text so far.                  *)
OpenKey(text, k, i, s, l) ==
    /\ i \in K!Opens(text) /\ i \in 1..k /\ Level(At(text, i)) = l
    /\ \A m \in (i + 1)..k : ~Ended(text, i, m)
    /\ s = Picked(text, ((i + 1)..k) \ K!Brackets(text))

DoneKey(text, k, i, s) ==
    /\ i \in K!Opens(text) /\ i \in 1..k
    /\ \E m \in (i + 1)..k : Ended(text, i, m)
    /\ s = K!KeyAt(text, i)

KeptAt(text, k) == {i \in 1..k : ~At(text, i).curly} \ K!Brackets(text)

(* A key which is done remains so. *)
LEMMA DoneRemains ==
    ASSUME NEW text, NEW k \in Nat, NEW i, NEW s, DoneKey(text, k, i, s)
    PROVE  DoneKey(text, k + 1, i, s)
<1>1. PICK m \in (i + 1)..k : Ended(text, i, m)
  BY DEF DoneKey
<1>2. i \in 1..k /\ i \in 1..(k + 1)
  BY DEF DoneKey
<1>3. m \in (i + 1)..(k + 1)
  BY <1>2
<1> QED
  BY <1>1, <1>2, <1>3 DEF DoneKey

(* Where an opening bracket is, some level begins. *)
LEMMA OpensAt ==
    ASSUME NEW text \in Seq(K!Tokens), NEW i \in K!Opens(text)
    PROVE  /\ i \in 1..Len(text) /\ At(text, i) \in Insides
           /\ Level(At(text, i)) \in Nat /\ Level(At(text, i)) > 0
           /\ At(text, i).curly => Level(At(text, i)) = 1
           /\ ~At(text, i).curly => Level(At(text, i)) = At(text, i).depth
<1>1. Len(text) \in Nat /\ DOMAIN text = 1..Len(text) /\ i \in 1..Len(text)
  BY LenProperties DEF K!Opens, K!Brackets
<1> DEFINE k == i - 1
<1>2. k \in Nat /\ k + 1 = i /\ k + 1 <= Len(text)
  BY <1>1
<1> DEFINE b == At(text, k)
           c == At(text, i)
<1>3. b \in Insides /\ c \in Insides /\ Deepens(b, c)
  <2> HIDE DEF k
  <2> QED
    BY <1>2, StepsOfWhere DEF k
<1>4. b.depth \in Nat /\ c.depth \in Nat /\ c.curly \in BOOLEAN /\ (c.curly => c.depth = 0)
  BY <1>3 DEF Insides
<1> HIDE DEF b, c
<1>5. CASE c.curly
  <2>1. Level(c) = 1
    BY <1>4, <1>5 DEF Level
  <2> QED
    BY <1>1, <1>3, <1>5, <2>1 DEF c
<1>6. CASE ~c.curly
  <2>1. Level(c) = c.depth
    BY <1>4, <1>6 DEF Level
  <2>2. c.depth > b.depth
    BY <1>3, <1>6 DEF Deepens
  <2>3. c.depth > 0
    BY <1>4, <2>2
  <2> QED
    BY <1>1, <1>3, <1>4, <1>6, <2>1, <2>3 DEF c
<1> QED
  BY <1>5, <1>6

(* One which goes on is not above the level where one is. *)
LEMMA OpenIsWithin ==
    ASSUME NEW text \in Seq(K!Tokens), NEW k \in Nat, k <= Len(text),
           NEW i, NEW s, NEW l, OpenKey(text, k, i, s, l)
    PROVE  /\ At(text, i).curly => At(text, k).curly
           /\ ~At(text, i).curly => At(text, k).depth >= l
<1> DEFINE b == At(text, i)
           c == At(text, k)
<1>1. i \in K!Opens(text) /\ i \in 1..k /\ Level(b) = l
  BY DEF OpenKey
<1>2. b \in Insides /\ c \in Insides
  <2>1. k \in 0..Len(text)
    BY LenProperties
  <2> QED
    BY <1>1, <2>1, OpensAt, WhereGoes DEF Goes, At
<1>3. b.depth \in Nat /\ c.depth \in Nat /\ (~b.curly => l = b.depth)
  BY <1>1, <1>2, OpensAt DEF Insides
<1>4. i = k \/ k \in (i + 1)..k
  BY <1>1
<1>5. CASE i = k
  BY <1>3, <1>5
<1>6. CASE k \in (i + 1)..k
  <2>1. ~Ended(text, i, k)
    BY <1>6 DEF OpenKey
  <2>2. (b.curly => c.curly) /\ (~b.curly => ~(c.depth < b.depth))
    BY <2>1 DEF Ended
  <2> HIDE DEF b, c
  <2>3. ~(c.depth < b.depth) => c.depth >= b.depth
    BY <1>3
  <2>4. ~b.curly => c.depth >= l
    BY <1>3, <2>2, <2>3
  <2> QED
    BY <2>2, <2>4 DEF b, c
<1> QED
  BY <1>4, <1>5, <1>6

(* What goes on after one token more *)
LEMMA OpenGoesOn ==
    ASSUME NEW text \in Seq(K!Tokens), NEW k \in Nat, k + 1 <= Len(text),
           NEW i, NEW s, NEW l, OpenKey(text, k, i, s, l), ~Ended(text, i, k + 1)
    PROVE  /\ k + 1 \in K!Brackets(text) => OpenKey(text, k + 1, i, s, l)
           /\ k + 1 \notin K!Brackets(text) => OpenKey(text, k + 1, i, Append(s, text[k + 1]), l)
<1> DEFINE B == K!Brackets(text)
           S == ((i + 1)..k) \ B
           R == ((i + 1)..(k + 1)) \ B
<1>1. i \in 1..k /\ i \in 1..(k + 1) /\ \A m \in (i + 1)..(k + 1) : m \in (i + 1)..k \/ m = k + 1
  BY DEF OpenKey
<1>2. \A m \in (i + 1)..(k + 1) : ~Ended(text, i, m)
  BY <1>1 DEF OpenKey
<1>3. Len(text) \in Nat
  BY LenProperties
<1>4. CASE k + 1 \in B
  <2>1. R = S
    BY <1>1, <1>4
  <2> QED
    BY <1>1, <1>2, <1>4, <2>1 DEF OpenKey
<1>5. CASE k + 1 \notin B
  <2>1. R = S \cup {k + 1} /\ S \subseteq 1..k
    BY <1>1, <1>5
  <2>2. s = Picked(text, S)
    BY DEF OpenKey
  <2>3. Picked(text, S \cup {k + 1}) = Append(Picked(text, S), text[k + 1])
    <3> HIDE DEF S
    <3> QED
      BY <1>3, <2>1, PickedGrows
  <2> QED
    BY <1>1, <1>2, <1>5, <2>1, <2>2, <2>3 DEF OpenKey
<1> QED
  BY <1>4, <1>5

(* A key begins with nothing in it. *)
LEMMA KeyBegins ==
    ASSUME NEW text \in Seq(K!Tokens), NEW k \in Nat, k + 1 \in K!Opens(text)
    PROVE  OpenKey(text, k + 1, k + 1, <<>>, Level(At(text, k + 1)))
<1>1. ((k + 1) + 1)..(k + 1) = {} /\ k + 1 \in 1..(k + 1) /\ Len(text) \in Nat
  BY LenProperties
<1> DEFINE S == (((k + 1) + 1)..(k + 1)) \ K!Brackets(text)
<1>2. S = {}
  BY <1>1
<1> HIDE DEF S
<1>3. Picked(text, S) = <<>>
  BY <1>1, <1>2, NothingPicked
<1> QED
  BY <1>1, <1>3 DEF OpenKey, S

(* A key which ends is what KeyAt() says. *)
LEMMA KeyEnds ==
    ASSUME NEW text \in Seq(K!Tokens), NEW k \in Nat, k + 1 <= Len(text),
           NEW i, NEW s, NEW l, OpenKey(text, k, i, s, l), Ended(text, i, k + 1)
    PROVE  DoneKey(text, k + 1, i, s)
<1> DEFINE N == Len(text)
           ends == {j \in (i + 1)..N : Ended(text, i, j)}
           C == IF ends = {} THEN N + 1 ELSE CHOOSE j \in ends : \A m \in ends : j <= m
<1>1. N \in Nat /\ i \in 1..k /\ i \in 1..(k + 1) /\ k + 1 \in (i + 1)..N /\ k + 1 \in (i + 1)..(k + 1)
  BY LenProperties DEF OpenKey
<1>2. K!Closes(text, i) = C
  BY DEF K!Closes, Ended, At
<1>3. k + 1 \in ends /\ \A m \in ends : m \in Nat /\ k + 1 <= m
  <2>1. ASSUME NEW m \in ends PROVE m \in Nat /\ k + 1 <= m
    <3>1. m \in (i + 1)..N /\ m \notin (i + 1)..k
      BY DEF OpenKey
    <3> QED
      BY <1>1, <3>1
  <2> QED
    BY <1>1, <2>1
<1> HIDE DEF ends
<1>4. C = k + 1
  <2>1. C \in ends /\ \A m \in ends : C <= m
    BY <1>3
  <2>2. C <= k + 1 /\ k + 1 <= C /\ C \in Nat
    BY <1>3, <2>1
  <2> HIDE DEF C
  <2> QED
    BY <2>2
<1>5. K!KeyAt(text, i) = Picked(text, ((i + 1)..k) \ K!Brackets(text))
  <2>1. K!KeyAt(text, i) = Picked(text, ((i + 1)..(K!Closes(text, i) - 1)) \ K!Brackets(text))
    BY DEF K!KeyAt, K!Picked, Picked
  <2>2. K!Closes(text, i) - 1 = k
    BY <1>2, <1>4
  <2> QED
    BY <2>1, <2>2
<1> QED
  BY <1>1, <1>5 DEF OpenKey, DoneKey

(* One which never ends, too. *)
LEMMA KeyNeverEnds ==
    ASSUME NEW text \in Seq(K!Tokens), NEW i, NEW s, NEW l, OpenKey(text, Len(text), i, s, l)
    PROVE  s = K!KeyAt(text, i)
<1> DEFINE N == Len(text)
<1>1. N \in Nat /\ (N + 1) - 1 = N
  BY LenProperties
<1>2. {j \in (i + 1)..N : Ended(text, i, j)} = {}
  BY DEF OpenKey
<1>3. K!Closes(text, i) = N + 1
  BY <1>2 DEF K!Closes, Ended, At
<1>4. K!KeyAt(text, i) = Picked(text, ((i + 1)..(K!Closes(text, i) - 1)) \ K!Brackets(text))
  BY DEF K!KeyAt, K!Picked, Picked
<1> QED
  BY <1>1, <1>3, <1>4 DEF OpenKey

(* The text grows by what is neither a bracket nor in curly ones. *)
LEMMA KeptGrows ==
    ASSUME NEW text \in Seq(K!Tokens), NEW k \in Nat, k + 1 <= Len(text)
    PROVE  /\ k + 1 \in K!Brackets(text) \/ At(text, k + 1).curly =>
                 Picked(text, KeptAt(text, k + 1)) = Picked(text, KeptAt(text, k))
           /\ ~(k + 1 \in K!Brackets(text) \/ At(text, k + 1).curly) =>
                 Picked(text, KeptAt(text, k + 1)) =
                 Append(Picked(text, KeptAt(text, k)), text[k + 1])
<1>1. \A m \in 1..(k + 1) : m \in 1..k \/ m = k + 1
  OBVIOUS
<1>2. k + 1 \in 1..(k + 1) /\ 1..k \subseteq 1..(k + 1) /\ k + 1 \notin 1..k
  OBVIOUS
<1>3. Len(text) \in Nat /\ KeptAt(text, k) \subseteq 1..k
  BY LenProperties DEF KeptAt
<1>4. CASE k + 1 \in K!Brackets(text) \/ At(text, k + 1).curly
  <2>1. KeptAt(text, k + 1) = KeptAt(text, k)
    BY <1>1, <1>2, <1>4 DEF KeptAt
  <2> QED
    BY <1>4, <2>1
<1>5. CASE ~(k + 1 \in K!Brackets(text) \/ At(text, k + 1).curly)
  <2>1. KeptAt(text, k + 1) = KeptAt(text, k) \cup {k + 1}
    BY <1>1, <1>2, <1>5 DEF KeptAt
  <2>2. Picked(text, KeptAt(text, k) \cup {k + 1}) =
        Append(Picked(text, KeptAt(text, k)), text[k + 1])
    BY <1>3, PickedGrows
  <2> QED
    BY <1>5, <2>1, <2>2
<1> QED
  BY <1>4, <1>5

-----------------------------------------------------------------------------
(* A key goes on if one is not above its level afterwards. *)
LEMMA NotEnded ==
    ASSUME NEW text \in Seq(K!Tokens), NEW k \in Nat, k + 1 <= Len(text),
           NEW i, NEW s, NEW l, OpenKey(text, k, i, s, l),
           At(text, i).curly => At(text, k + 1).curly,
           ~At(text, i).curly => At(text, k + 1).depth >= l
    PROVE  ~Ended(text, i, k + 1)
<1> DEFINE b == At(text, i)
           c == At(text, k + 1)
<1>1. i \in K!Opens(text) /\ Level(b) = l
  BY DEF OpenKey
<1>2. b \in Insides /\ c \in Insides /\ (~b.curly => b.depth = l)
  BY <1>1, OpensAt, StepsOfWhere
<1>3. b.depth \in Nat /\ c.depth \in Nat
  BY <1>2 DEF Insides
<1>4. CASE b.curly
  BY <1>4 DEF Ended
<1>5. CASE ~b.curly
  <2>1. c.depth >= b.depth
    BY <1>2, <1>5
  <2> HIDE DEF b, c
  <2>2. ~(c.depth < b.depth)
    BY <1>3, <2>1
  <2> QED
    BY <1>5, <2>2 DEF Ended, b, c
<1> QED
  BY <1>4, <1>5

(* After k tokens, t has the keys which begin at p and go on, *)
(* and those which begin at d and are done, each of them once. *)
Listed(i, p, d) == (\E j \in 2..Len(p) : p[j] = i) \/ (\E j \in 1..Len(d) : d[j] = i)

Finds(text, k, t, p, d) ==
    /\ p \in Seq(Nat) /\ Len(p) = Len(t.v)
    /\ d \in Seq(Nat) /\ Len(d) = Len(t.done)
    /\ t.v[1] = Picked(text, KeptAt(text, k))
    /\ \A j \in 2..Len(p) : OpenKey(text, k, p[j], t.v[j], j - 1)
    /\ \A j \in 1..Len(d) : DoneKey(text, k, d[j], t.done[j])
    /\ \A i, j \in 1..Len(d) : d[i] = d[j] => i = j
    /\ \A i \in K!Opens(text) : i <= k => Listed(i, p, d)

(* It does before the first token. *)
LEMMA FindsFirst ==
    ASSUME NEW text \in Seq(K!Tokens)
    PROVE  Finds(text, 0, K!TextStack, <<0>>, <<>>) /\ Agrees(K!TextStack, At(text, 0))
<1> DEFINE t == K!TextStack
<1>1. t.v = << <<>> >> /\ t.done = <<>> /\ t.curly = FALSE
  BY EmptyStack DEF Stack
<1>2. Len(t.v) = 1 /\ t.v[1] = <<>> /\ Len(t.done) = 0
  BY <1>1
<1>3. Len(text) \in Nat
  BY LenProperties
<1>4. KeptAt(text, 0) = {}
  BY DEF KeptAt
<1>5. Picked(text, KeptAt(text, 0)) = <<>>
  BY <1>3, <1>4, NothingPicked
<1>6. At(text, 0).curly = FALSE /\ At(text, 0).depth = 0
  BY WhereGoes DEF Goes, At, Inside
<1>7. Agrees(t, At(text, 0))
  <2>1. Level(At(text, 0)) = 0
    BY <1>6 DEF Level
  <2> HIDE DEF t
  <2> QED
    BY <1>1, <1>2, <1>6, <2>1 DEF Agrees
<1>8. \A i \in K!Opens(text) : ~(i <= 0)
  <2> SUFFICES ASSUME NEW i \in K!Opens(text) PROVE ~(i <= 0)
    OBVIOUS
  <2>1. i \in 1..Len(text)
    BY OpensAt
  <2> QED
    BY <1>3, <2>1
<1> HIDE DEF t
<1>9. /\ <<0>> \in Seq(Nat) /\ Len(<<0>>) = 1 /\ <<>> \in Seq(Nat) /\ Len(<<>>) = 0
      /\ 2..Len(<<0>>) = {} /\ 1..Len(<<>>) = {}
  OBVIOUS
<1>10. Finds(text, 0, t, <<0>>, <<>>)
  BY <1>2, <1>5, <1>8, <1>9 DEF Finds
<1> QED
  BY <1>7, <1>10 DEF t

(* A token which is copied *)
LEMMA FindsCopy ==
    ASSUME NEW text \in Seq(K!Tokens), NEW k \in Nat, k + 1 <= Len(text),
           NEW t \in Stacks, NEW u, Agrees(t, At(text, k)),
           PutsCopy(t, u, text[k + 1]), Stays(At(text, k), At(text, k + 1)),
           NEW p, NEW d, Finds(text, k, t, p, d)
    PROVE  Finds(text, k + 1, u, p, d)
<1> DEFINE b == At(text, k)
           c == At(text, k + 1)
           N == Len(t.v)
           x == text[k + 1]
<1>1. /\ N \in Nat /\ N > 0 /\ (t.curly => N = 2) /\ (t.curly <=> b.curly)
      /\ Len(p) = N /\ Len(u.v) = N /\ u.done = t.done
      /\ \A j \in 1..N : u.v[j] = IF t.curly /\ j # 2 THEN t.v[j] ELSE Append(t.v[j], x)
  BY StackHas DEF Agrees, Finds, PutsCopy
<1>2. c.depth = b.depth /\ (c.curly <=> b.curly) /\ k + 1 \notin K!Brackets(text)
  BY StepsOfWhere DEF Stays
<1>3. k + 1 \notin K!Opens(text)
  BY <1>2 DEF K!Opens
<1> HIDE DEF b, c, N, x
<1>4. u.v[1] = Picked(text, KeptAt(text, k + 1))
  <2>1. 1 \in 1..N
    BY <1>1
  <2>2. t.v[1] = Picked(text, KeptAt(text, k))
    BY DEF Finds
  <2>3. CASE c.curly
    <3>1. u.v[1] = t.v[1]
      BY <1>1, <1>2, <2>1, <2>3
    <3> QED
      BY <2>2, <2>3, <3>1, KeptGrows DEF c
  <2>4. CASE ~c.curly
    <3>1. u.v[1] = Append(t.v[1], x)
      BY <1>1, <1>2, <2>1, <2>4
    <3> QED
      BY <1>2, <2>2, <2>4, <3>1, KeptGrows DEF c, x
  <2> QED
    BY <2>3, <2>4
<1>5. ASSUME NEW j \in 2..Len(p)
      PROVE  OpenKey(text, k + 1, p[j], u.v[j], j - 1)
  <2>1. OpenKey(text, k, p[j], t.v[j], j - 1)
    BY DEF Finds
  <2>2. j \in 1..N /\ (t.curly => j = 2)
    BY <1>1
  <2>3. u.v[j] = Append(t.v[j], x)
    BY <1>1, <2>2
  <2>4. (At(text, p[j]).curly => b.curly) /\ (~At(text, p[j]).curly => b.depth >= j - 1)
    BY <2>1, OpenIsWithin DEF b
  <2>5. ~Ended(text, p[j], k + 1)
    BY <1>2, <2>1, <2>4, NotEnded DEF c
  <2> QED
    BY <1>2, <2>1, <2>3, <2>5, OpenGoesOn DEF x
<1>6. \A j \in 1..Len(d) : DoneKey(text, k + 1, d[j], u.done[j])
  BY <1>1, DoneRemains DEF Finds
<1>7. \A i \in K!Opens(text) : i <= k + 1 => i <= k
  <2> SUFFICES ASSUME NEW i \in K!Opens(text), i <= k + 1 PROVE i <= k
    OBVIOUS
  <2>1. i \in Nat /\ i # k + 1
    BY <1>3, OpensAt
  <2> QED
    BY <2>1
<1> QED
  BY <1>1, <1>4, <1>5, <1>6, <1>7 DEF Finds

(* One which begins a key *)
LEMMA FindsKey ==
    ASSUME NEW text \in Seq(K!Tokens), NEW k \in Nat, k + 1 <= Len(text),
           NEW t \in Stacks, NEW u, Agrees(t, At(text, k)), Agrees(u, At(text, k + 1)),
           PutsKey(t, u), Deepens(At(text, k), At(text, k + 1)), ~At(text, k).curly,
           NEW p, NEW d, Finds(text, k, t, p, d)
    PROVE  Finds(text, k + 1, u, Append(p, k + 1), d)
<1> DEFINE b == At(text, k)
           c == At(text, k + 1)
           N == Len(t.v)
           q == Append(p, k + 1)
<1>1. /\ N \in Nat /\ N > 0 /\ Len(p) = N /\ Len(u.v) = N + 1 /\ u.done = t.done
      /\ p \in Seq(Nat) /\ u.v[N + 1] = <<>> /\ Level(c) + 1 = N + 1
      /\ \A j \in 1..N : u.v[j] = t.v[j]
  BY StackHas DEF Finds, PutsKey, Agrees
<1>2. /\ q \in Seq(Nat) /\ Len(q) = N + 1 /\ q[N + 1] = k + 1
      /\ \A j \in 1..N : q[j] = p[j]
  BY <1>1, AppendProperties
<1>3. k + 1 \in K!Opens(text) /\ k + 1 \in K!Brackets(text)
  <2>1. k + 1 \in K!Opens(text)
    BY StepsOfWhere
  <2> QED
    BY <2>1 DEF K!Opens
<1>4. b \in Insides /\ c \in Insides
  BY StepsOfWhere
<1>5. b.depth \in Nat /\ c.depth \in Nat /\ ~b.curly /\ (c.curly => c.depth = 0)
      /\ Level(c) = N
  <2> HIDE DEF b, c, N
  <2>1. Level(c) = N
    <3>1. Level(c) \in Nat
      BY <1>4 DEF Level, Insides
    <3> QED
      BY <1>1, <3>1
  <2> QED
    BY <1>4, <2>1 DEF Insides, b
<1> HIDE DEF b, c, N, q
<1>6. u.v[1] = Picked(text, KeptAt(text, k + 1))
  <2>1. 1 \in 1..N
    BY <1>1
  <2> QED
    BY <1>1, <1>3, <2>1, KeptGrows DEF Finds
<1>7. ASSUME NEW j \in 2..N
      PROVE  OpenKey(text, k + 1, p[j], t.v[j], j - 1)
  <2>1. OpenKey(text, k, p[j], t.v[j], j - 1)
    BY <1>1 DEF Finds
  <2>2. (At(text, p[j]).curly => b.curly) /\ (~At(text, p[j]).curly => b.depth >= j - 1)
    BY <2>1, OpenIsWithin DEF b
  <2>3. ~At(text, p[j]).curly /\ b.depth >= j - 1
    BY <1>5, <2>2
  <2>4. c.depth >= j - 1
    <3>1. b.depth > 0
      BY <1>5, <2>3
    <3>2. N = b.depth + 1
      <4>1. N = Level(b) + 1
        BY DEF Agrees, N, b
      <4> QED
        BY <1>5, <4>1 DEF Level
    <3>3. CASE c.curly
      <4>1. Level(c) = 1
        BY <1>5, <3>3 DEF Level
      <4> QED
        BY <1>5, <3>1, <3>2, <4>1
    <3>4. CASE ~c.curly
      <4>1. c.depth > b.depth
        BY <3>4 DEF Deepens, b, c
      <4> QED
        BY <1>5, <2>3, <4>1
    <3> QED
      BY <3>3, <3>4
  <2>5. ~Ended(text, p[j], k + 1)
    BY <2>1, <2>3, <2>4, NotEnded DEF c
  <2> QED
    BY <1>3, <2>1, <2>5, OpenGoesOn
<1>8. ASSUME NEW j \in 2..Len(q)
      PROVE  OpenKey(text, k + 1, q[j], u.v[j], j - 1)
  <2>1. CASE j \in 2..N
    <3>1. j \in 1..N
      BY <1>1, <2>1
    <3> QED
      BY <1>1, <1>2, <1>7, <2>1, <3>1
  <2>2. CASE j = N + 1
    <3>1. OpenKey(text, k + 1, k + 1, <<>>, N)
      BY <1>3, <1>5, KeyBegins DEF c
    <3>2. j - 1 = N
      BY <1>1, <2>2
    <3> QED
      BY <1>1, <1>2, <2>2, <3>1, <3>2
  <2>3. j \in 2..N \/ j = N + 1
    BY <1>1, <1>2
  <2> QED
    BY <2>1, <2>2, <2>3
<1>9. \A j \in 1..Len(d) : DoneKey(text, k + 1, d[j], u.done[j])
  BY <1>1, DoneRemains DEF Finds
<1>10. ASSUME NEW i \in K!Opens(text), i <= k + 1
       PROVE  Listed(i, q, d)
  <2>1. i \in Nat
    BY OpensAt
  <2>2. CASE i = k + 1
    <3>1. N + 1 \in 2..Len(q)
      BY <1>1, <1>2
    <3> QED
      BY <1>2, <2>2, <3>1 DEF Listed
  <2>3. CASE i <= k
    <3>1. Listed(i, p, d)
      BY <2>3 DEF Finds
    <3>2. \A j \in 2..Len(p) : j \in 2..Len(q) /\ q[j] = p[j]
      BY <1>1, <1>2
    <3> QED
      BY <3>1, <3>2 DEF Listed
  <2>4. i <= k \/ i = k + 1
    BY <1>10, <2>1
  <2> QED
    BY <2>2, <2>3, <2>4
<1> QED
  BY <1>1, <1>2, <1>6, <1>8, <1>9, <1>10 DEF Finds, q

-----------------------------------------------------------------------------
(* One which ends a key *)
LEMMA FindsEnd ==
    ASSUME NEW text \in Seq(K!Tokens), NEW k \in Nat, k + 1 <= Len(text),
           NEW t \in Stacks, NEW u, Agrees(t, At(text, k)), Agrees(u, At(text, k + 1)),
           TakesKey(t, u), ~Stays(At(text, k), At(text, k + 1)),
           ~Deepens(At(text, k), At(text, k + 1)), ~At(text, k + 1).curly,
           NEW p, NEW d, Finds(text, k, t, p, d)
    PROVE  Finds(text, k + 1, u, SubSeq(p, 1, Len(p) - 1), Append(d, p[Len(p)]))
<1> DEFINE b == At(text, k)
           c == At(text, k + 1)
           N == Len(t.v)
           D == Len(d)
           q == SubSeq(p, 1, Len(p) - 1)
           e == Append(d, p[Len(p)])
           top == p[N]
<1>1. /\ N \in Nat /\ Len(p) = N /\ Len(u.v) = N - 1 /\ N - 1 > 0
      /\ D \in Nat /\ D = Len(t.done)
      /\ p \in Seq(Nat) /\ d \in Seq(Nat)
      /\ u.done = Append(t.done, t.v[N])
      /\ \A j \in 1..(N - 1) : u.v[j] = t.v[j]
      /\ t.done \in Seq(Seq(K!Tokens))
  BY StackHas DEF Finds, TakesKey
<1>2. N = Level(b) + 1 /\ N - 1 = Level(c) + 1 /\ c.depth \in Nat /\ b.depth \in Nat
      /\ Level(c) = c.depth /\ (b.curly => b.depth = 0 /\ Level(b) = 1) /\ (~b.curly => Level(b) = b.depth)
      /\ Level(b) \in Nat
  <2>1. b \in Insides /\ c \in Insides
    BY StepsOfWhere
  <2>2. b.depth \in Nat /\ c.depth \in Nat /\ (b.curly => b.depth = 0)
    BY <2>1 DEF Insides
  <2>3. (b.curly => Level(b) = 1) /\ (~b.curly => Level(b) = b.depth) /\ Level(c) = c.depth
    BY <2>2 DEF Level
  <2>4. N = Level(b) + 1
    BY DEF Agrees
  <2>5. N - 1 = Level(c) + 1
    <3>1. Len(u.v) = Level(c) + 1
      BY DEF Agrees
    <3> QED
      BY <1>1, <3>1
  <2>6. Level(b) \in Nat
    BY <2>2, <2>3
  <2> QED
    BY <2>2, <2>3, <2>4, <2>5, <2>6
<1>3. k + 1 \in K!Brackets(text) /\ k + 1 \notin K!Opens(text)
  BY StepsOfWhere
<1>4. /\ q \in Seq(Nat) /\ Len(q) = N - 1 /\ \A j \in 1..(N - 1) : q[j] = p[j]
      /\ N \in 1..N /\ N \in 2..N /\ top \in Nat
  <2>1. N - 1 \in Nat /\ N - 1 \in 0..N /\ N \in 1..N /\ N \in 2..N
    BY <1>1
  <2> HIDE DEF N
  <2> QED
    BY <1>1, <2>1, CutInTwo, ElementOfSeq
<1>5. /\ e \in Seq(Nat) /\ Len(e) = D + 1 /\ e[D + 1] = top /\ \A j \in 1..D : e[j] = d[j]
      /\ Len(u.done) = D + 1 /\ u.done[D + 1] = t.v[N] /\ \A j \in 1..D : u.done[j] = t.done[j]
  <2>1. e = Append(d, top)
    BY <1>1
  <2> HIDE DEF e, top
  <2>2. /\ e \in Seq(Nat) /\ Len(e) = D + 1 /\ e[D + 1] = top /\ \A j \in 1..D : e[j] = d[j]
    <3>1. d \in Seq(Nat) /\ top \in Nat /\ Len(d) = D
      BY <1>1, <1>4 DEF D
    <3>2. Append(d, top) \in Seq(Nat) /\ Len(Append(d, top)) = Len(d) + 1
          /\ Append(d, top)[Len(d) + 1] = top /\ \A j \in 1..Len(d) : Append(d, top)[j] = d[j]
      BY <3>1, AppendProperties
    <3> QED
      BY <2>1, <3>1, <3>2
  <2> QED
    BY <1>1, <2>2, AppendProperties
<1> HIDE DEF b, c, N, D, q, e, top
<1>6. u.v[1] = Picked(text, KeptAt(text, k + 1))
  <2>1. 1 \in 1..(N - 1)
    BY <1>1
  <2> QED
    BY <1>1, <1>3, <2>1, KeptGrows DEF Finds
<1>7. ASSUME NEW j \in 2..(N - 1)
      PROVE  OpenKey(text, k + 1, p[j], t.v[j], j - 1)
  <2>0. j \in 2..Len(p)
    BY <1>1
  <2>1. OpenKey(text, k, p[j], t.v[j], j - 1)
    BY <2>0 DEF Finds
  <2>2. (At(text, p[j]).curly => b.curly) /\ (~At(text, p[j]).curly => b.depth >= j - 1)
    BY <2>1, OpenIsWithin DEF b
  <2>3. ~b.curly
    BY <1>1, <1>2
  <2>4. c.depth >= j - 1
    BY <1>1, <1>2
  <2>5. ~Ended(text, p[j], k + 1)
    BY <2>1, <2>2, <2>3, <2>4, NotEnded DEF c
  <2> QED
    BY <1>3, <2>1, <2>5, OpenGoesOn
<1>8. \A j \in 2..Len(q) : OpenKey(text, k + 1, q[j], u.v[j], j - 1)
  <2>1. \A j \in 2..(N - 1) : j \in 1..(N - 1)
    OBVIOUS
  <2> QED
    BY <1>1, <1>4, <1>7, <2>1
<1>9. OpenKey(text, k, top, t.v[N], N - 1)
  BY <1>1, <1>4 DEF Finds, top
<1>10. Ended(text, top, k + 1)
  <2>1. top \in K!Opens(text) /\ Level(At(text, top)) = N - 1
    BY <1>9 DEF OpenKey
  <2>2. CASE At(text, top).curly
    BY <2>2 DEF Ended
  <2>3. CASE ~At(text, top).curly
    <3>1. At(text, top).depth = N - 1
      BY <2>1, <2>3, OpensAt
    <3>2. c.depth < N - 1
      BY <1>1, <1>2
    <3> QED
      BY <2>3, <3>1, <3>2 DEF Ended, c
  <2> QED
    BY <2>2, <2>3
<1>11. DoneKey(text, k + 1, top, t.v[N])
  BY <1>9, <1>10, KeyEnds
<1>12. \A j \in 1..Len(e) : j \in 1..D \/ j = D + 1
  BY <1>1, <1>5
<1>13. \A j \in 1..Len(e) : DoneKey(text, k + 1, e[j], u.done[j])
  <2>1. \A j \in 1..D : DoneKey(text, k + 1, d[j], t.done[j])
    BY DoneRemains DEF Finds, D
  <2> QED
    BY <1>5, <1>11, <1>12, <2>1
<1>14. \A j \in 1..D : d[j] # top
  <2> SUFFICES ASSUME NEW j \in 1..D, d[j] = top PROVE FALSE
    OBVIOUS
  <2>1. DoneKey(text, k, top, t.done[j])
    BY DEF Finds, D
  <2> QED
    BY <1>9, <2>1 DEF OpenKey, DoneKey
<1>15. \A i, j \in 1..Len(e) : e[i] = e[j] => i = j
  <2>1. \A i, j \in 1..D : d[i] = d[j] => i = j
    BY DEF Finds, D
  <2> QED
    BY <1>5, <1>12, <1>14, <2>1
<1>16. ASSUME NEW i \in K!Opens(text), i <= k + 1
       PROVE  Listed(i, q, e)
  <2>1. i \in Nat /\ i # k + 1
    BY <1>3, OpensAt
  <2>2. i <= k
    BY <1>16, <2>1
  <2>3. Listed(i, p, d)
    BY <2>2 DEF Finds
  <2>4. CASE \E j \in 1..D : d[j] = i
    <3>1. \A j \in 1..D : j \in 1..Len(e) /\ e[j] = d[j]
      BY <1>1, <1>5
    <3> QED
      BY <2>4, <3>1 DEF Listed
  <2>5. CASE \E j \in 2..Len(p) : p[j] = i
    <3>1. PICK j \in 2..N : p[j] = i
      BY <1>1, <2>5
    <3>2. CASE j = N
      <4>1. D + 1 \in 1..Len(e) /\ e[D + 1] = i
        BY <1>1, <1>5, <3>1, <3>2 DEF top
      <4> QED
        BY <4>1 DEF Listed
    <3>3. CASE j # N
      <4>1. j \in 2..Len(q) /\ j \in 1..(N - 1)
        BY <1>1, <1>4, <3>3
      <4> QED
        BY <1>4, <3>1, <4>1 DEF Listed
    <3> QED
      BY <3>2, <3>3
  <2> QED
    BY <2>3, <2>4, <2>5 DEF Listed, D
<1> QED
  BY <1>1, <1>4, <1>5, <1>6, <1>8, <1>13, <1>15, <1>16 DEF Finds, q, e

(* So the parser finds the keys so far, after each token. *)
LEMMA FindsAlways ==
    ASSUME NEW text \in Seq(K!Tokens), NEW h, Parses(h, text), NEW k \in 0..Len(text)
    PROVE  \E p, d : Finds(text, k, h[k], p, d)
<1> DEFINE N == Len(text)
           Good(m) == Agrees(h[m], At(text, m)) /\ \E p, d : Finds(text, m, h[m], p, d)
           T == {m \in Nat : m <= N => Good(m)}
<1>1. N \in Nat
  BY LenProperties
<1>2. 0 \in T
  BY FindsFirst DEF Parses
<1>3. ASSUME NEW m \in Nat, m \in T PROVE m + 1 \in T
  <2> SUFFICES ASSUME m + 1 <= N PROVE Good(m + 1)
    <3> HIDE DEF Good
    <3> QED
      OBVIOUS
  <2>1. Good(m)
    <3>1. m <= N
      BY <1>1
    <3> HIDE DEF Good
    <3> QED
      BY <1>3, <3>1
  <2> DEFINE t == h[m]
             u == h[m + 1]
             b == At(text, m)
             c == At(text, m + 1)
             x == text[m + 1]
  <2>2. t \in Stacks /\ u = K!Put(t, x)
    <3>1. m \in 0..N /\ m + 1 \in 1..N /\ (m + 1) - 1 = m
      BY <1>1
    <3> QED
      BY <3>1 DEF Parses
  <2>3. b \in Insides /\ c = Passes(b, x)
    BY StepsOfWhere
  <2>4. Agrees(t, b)
    BY <2>1
  <2>5. PICK p, d : Finds(text, m, t, p, d)
    BY <2>1
  <2> HIDE DEF t, u, b, c, x
  <2>6. /\ Agrees(u, c)
        /\ Stays(b, c) => PutsCopy(t, u, x)
        /\ Deepens(b, c) => PutsKey(t, u) /\ ~b.curly
        /\ ~Stays(b, c) /\ ~Deepens(b, c) => TakesKey(t, u) /\ ~c.curly
    BY <2>2, <2>3, <2>4, PutFollows
  <2>7. \E r, f : Finds(text, m + 1, u, r, f)
    <3>1. CASE Stays(b, c)
      <4>1. Finds(text, m + 1, u, p, d)
        BY <2>2, <2>4, <2>5, <2>6, <3>1, FindsCopy DEF b, c, x
      <4> QED
        BY <4>1
    <3>2. CASE Deepens(b, c)
      <4>1. Finds(text, m + 1, u, Append(p, m + 1), d)
        BY <2>2, <2>4, <2>5, <2>6, <3>2, FindsKey DEF b, c
      <4> QED
        BY <4>1
    <3>3. CASE ~Stays(b, c) /\ ~Deepens(b, c)
      <4>1. Finds(text, m + 1, u, SubSeq(p, 1, Len(p) - 1), Append(d, p[Len(p)]))
        BY <2>2, <2>4, <2>5, <2>6, <3>3, FindsEnd DEF b, c
      <4> QED
        BY <4>1
    <3> QED
      BY <3>1, <3>2, <3>3
  <2> QED
    BY <2>6, <2>7 DEF u, c
<1>4. Nat \subseteq T
  <2> HIDE DEF T
  <2> QED
    BY <1>2, <1>3, Induction
<1>5. k \in T
  BY <1>1, <1>4
<1> QED
  BY <1>5

-----------------------------------------------------------------------------
(* The same, seen from an instance of Keys *)
LEMMA KeysCount ==
    ASSUME NEW S
    PROVE  K!Cardinality(S) = Cardinality(S)
BY DEF K!Cardinality, Cardinality

(* The keys which begin at p and at d, in the order in which they are returned *)
Own(p, d) == [i \in 1..(Len(d) + Len(p) - 1) |-> IF i <= Len(d) THEN d[i] ELSE p[i - Len(d) + 1]]

(* In the end, every key which was opened is found, and nothing else is. *)
LEMMA KeysFound ==
    ASSUME NEW text \in Seq(K!Tokens)
    PROVE  K!AllKeysFound(text)
<1> DEFINE N == Len(text)
           O == K!Opens(text)
           t == K!Parsed(text)
           keys == K!KeysOf(text)
<1>1. N \in Nat /\ N \in 0..N
  BY LenProperties
<1>2. PICK h : Parses(h, text)
  BY ParsedStepwise
<1>3. t \in Stacks /\ t = h[N]
  BY <1>1, <1>2 DEF Parses
<1>4. PICK p, d : Finds(text, N, t, p, d)
  BY <1>1, <1>2, <1>3, FindsAlways
<1> DEFINE D == Len(d)
           P == Len(p)
           L == D + P - 1
           own == Own(p, d)
<1>5. /\ D \in Nat /\ P \in Nat /\ P > 0 /\ P = Len(t.v) /\ D = Len(t.done)
      /\ t.v \in Seq(Seq(K!Tokens)) /\ t.done \in Seq(Seq(K!Tokens)) /\ t.v # <<>>
  BY <1>3, <1>4, StackHas, EmptySeq DEF Finds
<1>0. D \in Nat /\ P \in Nat /\ P > 0
  BY <1>5
<1>6. /\ \A j \in 2..P : OpenKey(text, N, p[j], t.v[j], j - 1)
      /\ \A j \in 1..D : DoneKey(text, N, d[j], t.done[j])
      /\ \A i, j \in 1..D : d[i] = d[j] => i = j
      /\ \A i \in O : (\E j \in 2..P : p[j] = i) \/ (\E j \in 1..D : d[j] = i)
  <2>1. \A i \in O : i <= N
    <3> SUFFICES ASSUME NEW i \in O PROVE i <= N
      OBVIOUS
    <3>1. i \in 1..N
      BY OpensAt
    <3> QED
      BY <1>1, <3>1
  <2> QED
    BY <1>4, <2>1 DEF Finds, Listed
<1>7. /\ Len(keys) = L
      /\ \A i \in 1..D : keys[i] = t.done[i]
      /\ \A i \in (D + 1)..L : keys[i] = t.v[i - D + 1]
  <2>1. keys = t.done \o Tail(t.v)
    BY DEF K!KeysOf
  <2>2. /\ Tail(t.v) \in Seq(Seq(K!Tokens)) /\ Len(Tail(t.v)) = P - 1
        /\ \A i \in 1..(P - 1) : Tail(t.v)[i] = t.v[i + 1]
    BY <1>5, HeadTailProperties
  <2> DEFINE tl == Tail(t.v)
  <2>3. Len(tl) = P - 1 /\ tl \in Seq(Seq(K!Tokens)) /\ \A i \in 1..(P - 1) : tl[i] = t.v[i + 1]
    BY <2>2
  <2> HIDE DEF tl
  <2>4. /\ Len(t.done \o tl) = D + (P - 1)
        /\ \A i \in 1..(D + (P - 1)) :
              (t.done \o tl)[i] = IF i <= D THEN t.done[i] ELSE tl[i - D]
    <3>1. t.done \in Seq(Seq(K!Tokens)) /\ tl \in Seq(Seq(K!Tokens))
          /\ Len(t.done) = D /\ Len(tl) = P - 1
      BY <1>5, <2>3
    <3> DEFINE x == t.done
    <3>2. x \in Seq(Seq(K!Tokens)) /\ Len(x) = D
      BY <3>1
    <3> HIDE DEF x, D, P
    <3>3. /\ Len(x \o tl) = Len(x) + Len(tl)
          /\ \A i \in 1..(Len(x) + Len(tl)) :
                (x \o tl)[i] = IF i <= Len(x) THEN x[i] ELSE tl[i - Len(x)]
      BY <3>1, <3>2, ConcatProperties
    <3>4. /\ Len(x \o tl) = D + (P - 1)
          /\ \A i \in 1..(D + (P - 1)) :
                (x \o tl)[i] = IF i <= D THEN x[i] ELSE tl[i - D]
      BY <3>1, <3>2, <3>3
    <3> QED
      BY <3>4 DEF x
  <2>5. keys = t.done \o tl
    BY <2>1 DEF tl
  <2> HIDE DEF keys, D, P
  <2>6. D + (P - 1) = L
    BY <1>0
  <2>7. \A i \in 1..D : i \in 1..L /\ i <= D
    BY <1>0
  <2>8. \A i \in (D + 1)..L : i \in 1..L /\ ~(i <= D) /\ i - D \in 1..(P - 1) /\ (i - D) + 1 = i - D + 1
    BY <1>0
  <2>9. \A i \in (D + 1)..L : tl[i - D] = t.v[i - D + 1]
    BY <2>3, <2>8
  <2> QED
    BY <2>4, <2>5, <2>6, <2>7, <2>8, <2>9
<1>8. /\ own = [i \in 1..L |-> own[i]]
      /\ \A i \in 1..D : own[i] = d[i]
      /\ \A i \in (D + 1)..L : own[i] = p[i - D + 1]
  <2>1. own = [i \in 1..L |-> IF i <= D THEN d[i] ELSE p[i - D + 1]]
    BY DEF Own
  <2> HIDE DEF own, D, P
  <2>2. \A i \in 1..D : i \in 1..L /\ i <= D
    BY <1>0
  <2>3. \A i \in (D + 1)..L : i \in 1..L /\ ~(i <= D)
    BY <1>0
  <2> QED
    BY <2>1, <2>2, <2>3
<1> HIDE DEF keys, own, D, P, O, t
<1>9. L \in Nat /\ \A i \in 1..L : i \in 1..D \/ i \in (D + 1)..L
  BY <1>0
<1>10. \A i \in (D + 1)..L : i - D + 1 \in 2..P
  BY <1>0
<1>11. /\ \A i \in 1..D : DoneKey(text, N, own[i], keys[i])
       /\ \A i \in (D + 1)..L : OpenKey(text, N, own[i], keys[i], i - D)
  <2>1. \A i \in (D + 1)..L : (i - D + 1) - 1 = i - D
    BY <1>0
  <2> QED
    BY <1>6, <1>7, <1>8, <1>10, <2>1
<1>12. \A i \in 1..L : own[i] \in O /\ keys[i] = K!KeyAt(text, own[i])
  <2>1. \A i \in 1..D : own[i] \in O /\ keys[i] = K!KeyAt(text, own[i])
    BY <1>11 DEF DoneKey, O
  <2>2. ASSUME NEW i \in (D + 1)..L PROVE own[i] \in O /\ keys[i] = K!KeyAt(text, own[i])
    <3>1. OpenKey(text, N, own[i], keys[i], i - D)
      BY <1>11
    <3> QED
      BY <3>1, KeyNeverEnds DEF OpenKey, O
  <2> QED
    BY <1>9, <2>1, <2>2
<1>13. ASSUME NEW i \in 1..L, NEW j \in 1..L, own[i] = own[j]
       PROVE  i = j
  <2>1. ASSUME NEW x \in 1..D, NEW y \in (D + 1)..L PROVE own[x] # own[y]
    <3>1. DoneKey(text, N, own[x], keys[x]) /\ OpenKey(text, N, own[y], keys[y], y - D)
      BY <1>11
    <3> QED
      BY <3>1 DEF DoneKey, OpenKey
  <2>2. CASE i \in 1..D /\ j \in 1..D
    BY <1>6, <1>8, <1>13, <2>2
  <2>3. CASE i \in (D + 1)..L /\ j \in (D + 1)..L
    <3>1. OpenKey(text, N, own[i], keys[i], i - D) /\ OpenKey(text, N, own[j], keys[j], j - D)
      BY <1>11, <2>3
    <3>2. i - D = j - D
      BY <1>13, <3>1 DEF OpenKey
    <3> QED
      BY <1>5, <3>2
  <2> QED
    BY <1>9, <1>13, <2>1, <2>2, <2>3
<1>14. ASSUME NEW i \in O PROVE \E j \in 1..L : own[j] = i
  <2>1. CASE \E j \in 1..D : d[j] = i
    <3>1. PICK j \in 1..D : d[j] = i
      BY <2>1
    <3>2. j \in 1..L
      BY <1>0
    <3> QED
      BY <1>8, <3>1, <3>2
  <2>2. CASE \E j \in 2..P : p[j] = i
    <3>1. PICK j \in 2..P : p[j] = i
      BY <2>2
    <3> DEFINE m == j + D - 1
    <3>2. m \in (D + 1)..L /\ m \in 1..L /\ m - D + 1 = j
      BY <1>0
    <3> HIDE DEF m
    <3>3. own[m] = p[m - D + 1]
      BY <1>8, <3>2
    <3> QED
      BY <3>1, <3>2, <3>3
  <2> QED
    BY <1>6, <2>1, <2>2
<1>15. Cardinality(O) = L
  <2>1. own \in Bijection(1..L, O)
    BY <1>8, <1>12, <1>13, <1>14 DEF Bijection, Injection, Surjection, IsInjective
  <2> QED
    BY <1>9, <2>1, FS_CountingElements DEF ExistsBijection
<1>16. K!ToSet(keys) = {keys[i] : i \in 1..L}
  <2>1. DOMAIN keys = 1..L
    <3>1. keys \in Seq(Seq(K!Tokens))
      BY KeysType DEF keys
    <3> QED
      BY <1>7, <3>1, LenProperties
  <2> QED
    BY <2>1 DEF K!ToSet
<1>17. {K!KeyAt(text, i) : i \in O} = K!ToSet(keys)
  BY <1>12, <1>14, <1>16
<1> QED
  BY <1>7, <1>15, <1>17, KeysCount DEF K!AllKeysFound, O, keys

-----------------------------------------------------------------------------
(* One element more is a word or is white-space. *)
LEMMA WordsGrow ==
    ASSUME NEW S, NEW s \in Seq(S), NEW ch \in S
    PROVE  /\ ch \in K!Blanks => K!Words(Append(s, ch)) = K!Words(s)
           /\ ch \notin K!Blanks => K!Words(Append(s, ch)) = Append(K!Words(s), ch)
<1> DEFINE N == Len(s)
           r == Append(s, ch)
           W == {i \in 1..N : s[i] \notin K!Blanks}
           R == {i \in 1..(N + 1) : r[i] \notin K!Blanks}
<1>1. /\ N \in Nat /\ r \in Seq(S) /\ Len(r) = N + 1 /\ r[N + 1] = ch
      /\ DOMAIN s = 1..N /\ DOMAIN r = 1..(N + 1)
      /\ \A i \in 1..N : r[i] = s[i]
  BY LenProperties, AppendProperties
<1>2. K!Words(s) = Picked(s, W)
  BY <1>1 DEF K!Words, K!Picked, Picked
<1>3. K!Words(r) = Picked(r, R)
  <2> HIDE DEF r
  <2> QED
    BY <1>1 DEF K!Words, K!Picked, Picked
<1>4. W \subseteq 1..N
  OBVIOUS
<1>5. Picked(r, W) = Picked(s, W)
  <2> HIDE DEF W
  <2> QED
    BY <1>4, PickedFromLonger
<1> HIDE DEF N, r
<1>6. \A i \in 1..(N + 1) : i \in 1..N \/ i = N + 1
  BY <1>1
<1>7. 1..N \subseteq 1..(N + 1) /\ N + 1 \in 1..(N + 1)
  BY <1>1
<1>8. CASE ch \in K!Blanks
  <2>1. R = W
    BY <1>1, <1>6, <1>7, <1>8
  <2> QED
    BY <1>2, <1>3, <1>5, <1>8, <2>1 DEF r
<1>9. CASE ch \notin K!Blanks
  <2>1. R = W \cup {N + 1}
    BY <1>1, <1>6, <1>7, <1>9
  <2> HIDE DEF R, W
  <2>2. Picked(r, W \cup {N + 1}) = Append(Picked(r, W), r[N + 1])
    <3>1. Len(r) \in Nat /\ N \in Nat /\ N + 1 <= Len(r)
      BY <1>1
    <3> QED
      BY <1>4, <3>1, PickedGrows
  <2> QED
    BY <1>1, <1>2, <1>3, <1>5, <1>9, <2>1, <2>2 DEF r
<1> QED
  BY <1>8, <1>9

(* White-space is neither first, last nor adjacent. *)
IsSpaced(s) ==
    \A i \in 1..Len(s) : s[i] \in K!Blanks =>
        i # 1 /\ i # Len(s) /\ s[i - 1] \notin K!Blanks

(* A word may follow; so may white-space and a word, after another. *)
LEMMA SpacedGrows ==
    ASSUME NEW S, NEW s \in Seq(S), IsSpaced(s), NEW ch \in S, ch \notin K!Blanks
    PROVE  /\ IsSpaced(Append(s, ch))
           /\ \A g \in S : s # <<>> => IsSpaced(Append(Append(s, g), ch))
<1> DEFINE N == Len(s)
<1>1. N \in Nat /\ (s # <<>> => N # 0)
  BY LenProperties, EmptySeq
<1>2. IsSpaced(Append(s, ch))
  <2> DEFINE r == Append(s, ch)
  <2>1. /\ Len(r) = N + 1 /\ r[N + 1] = ch /\ \A i \in 1..N : r[i] = s[i]
    BY AppendProperties
  <2> HIDE DEF r
  <2> SUFFICES ASSUME NEW i \in 1..(N + 1), r[i] \in K!Blanks
               PROVE  i # 1 /\ i # N + 1 /\ r[i - 1] \notin K!Blanks
    BY <2>1 DEF IsSpaced, r
  <2>2. i \in 1..N
    BY <1>1, <2>1
  <2>3. s[i] \in K!Blanks
    BY <2>1, <2>2
  <2>4. i # 1 /\ s[i - 1] \notin K!Blanks
    BY <2>2, <2>3 DEF IsSpaced
  <2>5. i - 1 \in 1..N /\ i # N + 1
    BY <1>1, <2>2, <2>4
  <2> QED
    BY <2>1, <2>4, <2>5
<1>3. ASSUME NEW g \in S, s # <<>> PROVE IsSpaced(Append(Append(s, g), ch))
  <2> DEFINE q == Append(s, g)
             r == Append(q, ch)
  <2>1. /\ q \in Seq(S) /\ Len(q) = N + 1 /\ q[N + 1] = g /\ \A i \in 1..N : q[i] = s[i]
    BY AppendProperties
  <2> HIDE DEF q
  <2>2. /\ Len(r) = N + 2 /\ r[N + 2] = ch /\ \A i \in 1..(N + 1) : r[i] = q[i]
    <3>1. Len(r) = Len(q) + 1 /\ r[Len(q) + 1] = ch /\ \A i \in 1..Len(q) : r[i] = q[i]
      BY <2>1, AppendProperties
    <3>2. (N + 1) + 1 = N + 2
      BY <1>1
    <3> HIDE DEF r, N
    <3> QED
      BY <2>1, <3>1, <3>2
  <2> HIDE DEF r, N
  <2>3. \A i \in 1..N : i \in 1..(N + 1) /\ r[i] = s[i]
    BY <1>1, <2>1, <2>2
  <2>4. \A i \in 1..N : s[i] \in K!Blanks => i # 1 /\ i # N /\ s[i - 1] \notin K!Blanks
    BY DEF IsSpaced, N
  <2> SUFFICES ASSUME NEW i \in 1..(N + 2), r[i] \in K!Blanks
               PROVE  i # 1 /\ i # N + 2 /\ r[i - 1] \notin K!Blanks
    BY <2>2 DEF IsSpaced, r, q
  <2>5. i # N + 2
    BY <2>2
  <2>6. CASE i = N + 1
    <3>1. N \in 1..N /\ i - 1 = N /\ i # 1
      BY <1>1, <1>3, <2>6
    <3>2. s[N] \notin K!Blanks
      BY <2>4, <3>1
    <3> QED
      BY <2>3, <2>5, <3>1, <3>2
  <2>7. CASE i \in 1..N
    <3>1. i # 1 /\ s[i - 1] \notin K!Blanks
      BY <2>3, <2>4, <2>7
    <3>2. i - 1 \in 1..N
      BY <1>1, <2>7, <3>1
    <3> QED
      BY <2>3, <2>5, <3>1, <3>2
  <2>8. i \in 1..N \/ i = N + 1 \/ i = N + 2
    BY <1>1
  <2> QED
    BY <2>5, <2>6, <2>7, <2>8 DEF q, r
<1> QED
  BY <1>2, <1>3

-----------------------------------------------------------------------------
(* squash(), step by step *)
Marked == K!Tokens \cup K!Blanks

Gaps == K!Blanks \cup {""}

Squashes == [s : Seq(Marked), sp : Gaps]

SquashOne(x, ch) ==
    IF ch \in K!Blanks
    THEN [x EXCEPT !.sp = IF "\n" \in {ch, @} THEN "\n" ELSE " "]
    ELSE [s  |-> (IF x.sp # "" /\ x.s # <<>> THEN Append(x.s, x.sp) ELSE x.s) \o <<ch>>,
          sp |-> ""]

(* White-space is remembered; a word is appended, after that which was remembered. *)
LEMMA SquashDoes ==
    ASSUME NEW x \in Squashes, NEW ch \in K!Tokens
    PROVE  /\ SquashOne(x, ch) \in Squashes
           /\ ch \in K!Blanks => SquashOne(x, ch).s = x.s
           /\ ch \notin K!Blanks =>
                 \/ SquashOne(x, ch).s = Append(x.s, ch)
                 \/ /\ x.s # <<>> /\ x.sp \in K!Blanks
                    /\ SquashOne(x, ch).s = Append(Append(x.s, x.sp), ch)
<1>1. x.s \in Seq(Marked) /\ x.sp \in Gaps /\ x = [s |-> x.s, sp |-> x.sp] /\ ch \in Marked
  BY DEF Squashes, Marked
<1>2. CASE ch \in K!Blanks
  <2> DEFINE g == IF "\n" \in {ch, x.sp} THEN "\n" ELSE " "
  <2>1. g \in K!Blanks
    BY Zenon DEF K!Blanks
  <2>2. SquashOne(x, ch) = [x EXCEPT !.sp = g]
    BY <1>2, Zenon DEF SquashOne
  <2> HIDE DEF g
  <2>3. [x EXCEPT !.sp = g] \in Squashes /\ [x EXCEPT !.sp = g].s = x.s
    <3>1. g \in Gaps
      BY <2>1 DEF Gaps
    <3> QED
      BY <3>1 DEF Squashes
  <2> QED
    BY <1>2, <2>2, <2>3
<1>3. CASE ch \notin K!Blanks
  <2> DEFINE y == IF x.sp # "" /\ x.s # <<>> THEN Append(x.s, x.sp) ELSE x.s
  <2>1. SquashOne(x, ch) = [s |-> y \o <<ch>>, sp |-> ""]
    BY <1>3, Zenon DEF SquashOne
  <2>2. y = x.s \/ (x.s # <<>> /\ x.sp \in K!Blanks /\ y = Append(x.s, x.sp))
    BY <1>1, Zenon DEF Gaps
  <2>3. y \in Seq(Marked)
    <3>1. x.sp \in K!Blanks => Append(x.s, x.sp) \in Seq(Marked)
      BY <1>1, AppendProperties DEF Marked
    <3> HIDE DEF y
    <3> QED
      BY <1>1, <2>2, <3>1
  <2> HIDE DEF y
  <2>4. y \o <<ch>> = Append(y, ch) /\ Append(y, ch) \in Seq(Marked)
    BY <1>1, <2>3, AppendIsConcat, AppendProperties
  <2>5. "" \in Gaps
    BY DEF Gaps
  <2>6. SquashOne(x, ch) \in Squashes /\ SquashOne(x, ch).s = Append(y, ch)
    <3>1. \A z \in Gaps : /\ [s |-> Append(y, ch), sp |-> z] \in Squashes
                          /\ [s |-> Append(y, ch), sp |-> z].s = Append(y, ch)
      BY <2>4 DEF Squashes
    <3>2. SquashOne(x, ch) = [s |-> Append(y, ch), sp |-> ""]
      BY <2>1, <2>4, Zenon
    <3> QED
      BY <2>5, <3>1, <3>2, Zenon
  <2> QED
    BY <1>3, <2>2, <2>6
<1> QED
  BY <1>2, <1>3

-----------------------------------------------------------------------------
(* What squash() has after each token of its text *)
Squashing(h, text) ==
    /\ h[0].s = <<>> /\ h[Len(text)].s = K!Squash(text)
    /\ \A k \in 1..Len(text) : h[k] = SquashOne(h[k - 1], text[k])
    /\ \A k \in 0..Len(text) : h[k] \in Squashes

(* It is a fold. *)
LEMMA SquashStepwise ==
    ASSUME NEW text \in Seq(K!Tokens)
    PROVE  \E h : Squashing(h, text)
<1> DEFINE N == Len(text)
           base == [s |-> <<>>, sp |-> ""]
           op == [p \in Squashes \X K!Tokens |-> SquashOne(p[1], p[2])]
           F == CHOOSE f : f = [u \in SUBSET (1..N) |->
                                   IF u = {} THEN base
                                   ELSE SquashOne(f[u \ {Max(u)}], text[Max(u)])]
<1>1. N \in Nat /\ DOMAIN text = 1..N /\ \A i \in 1..N : text[i] \in K!Tokens
  BY LenProperties, ElementOfSeq
<1>2. op \in [Squashes \X K!Tokens -> Squashes]
  BY SquashDoes
<1>3. base \in Squashes /\ base.s = <<>>
  <2>1. "" \in Gaps
    BY DEF Gaps
  <2>2. \A z \in Gaps : [s |-> <<>>, sp |-> z] \in Squashes /\ [s |-> <<>>, sp |-> z].s = <<>>
    BY DEF Squashes
  <2> QED
    BY <2>1, <2>2, Zenon
<1> HIDE DEF base
<1>4. PICK f : SolvesFold(f, op, base, text, N, Squashes, K!Tokens)
  <2> HIDE DEF op, N, F
  <2> QED
    BY <1>1, <1>2, <1>3, FoldingExists
<1>5. \A x \in Squashes, l \in K!Tokens : op[<<x, l>>] = SquashOne(x, l)
  OBVIOUS
<1> HIDE DEF op
<1>6. f = [u \in SUBSET (1..N) |-> IF u = {} THEN base
                                    ELSE SquashOne(f[u \ {Max(u)}], text[Max(u)])]
  BY <1>4, <1>5 DEF FoldedBy, SolvesFold
<1>11. F[1..N].s = K!Squash(text)
  BY <1>1 DEF K!Squash, K!FoldLeft, K!MapThenFoldSet, K!Max, Max, F, SquashOne, base
<1>7. F = [u \in SUBSET (1..N) |-> IF u = {} THEN base
                                    ELSE SquashOne(F[u \ {Max(u)}], text[Max(u)])]
  BY <1>6
<1> HIDE DEF F
<1>8. F[{}] = base
  BY <1>7
<1>9. \A k \in 1..N : F[1..(k - 1)] \in Squashes => F[1..k] = op[<<F[1..(k - 1)], text[k]>>]
  <2> SUFFICES ASSUME NEW k \in 1..N, F[1..(k - 1)] \in Squashes
               PROVE  F[1..k] = op[<<F[1..(k - 1)], text[k]>>]
    OBVIOUS
  <2>1. F[1..k] = SquashOne(F[1..(k - 1)], text[k])
    BY <1>1, <1>7, PrefixIsCut
  <2> QED
    BY <1>1, <1>5, <2>1
<1>10. PICK h : FoldsTo(h, op, base, text, N, Squashes, F[1..N])
  <2>1. FoldsOn(F, op, base, text, N, Squashes)
    BY <1>8, <1>9 DEF FoldsOn
  <2> HIDE DEF N
  <2> QED
    BY <1>1, <1>2, <1>3, <2>1, FoldingGoesOn
<1>12. \A k \in 1..N : h[k] = SquashOne(h[k - 1], text[k])
  <2> SUFFICES ASSUME NEW k \in 1..N PROVE h[k] = SquashOne(h[k - 1], text[k])
    OBVIOUS
  <2>1. k - 1 \in 0..N
    BY <1>1
  <2>2. h[k - 1] \in Squashes /\ text[k] \in K!Tokens /\ h[k] = op[<<h[k - 1], text[k]>>]
    BY <1>1, <1>10, <2>1 DEF FoldsTo
  <2> QED
    BY <1>5, <2>2
<1>13. h[0] = base /\ h[N] = F[1..N] /\ \A k \in 0..N : h[k] \in Squashes
  BY <1>10 DEF FoldsTo
<1> QED
  BY <1>3, <1>11, <1>12, <1>13 DEF Squashing

(* It keeps the words, and space between them. *)
LEMMA SquashKeepsWords ==
    ASSUME NEW text \in Seq(K!Tokens)
    PROVE  /\ K!Words(K!Squash(text)) = K!Words(text)
           /\ IsSpaced(K!Squash(text)) /\ K!Squash(text) \in Seq(Marked)
<1> DEFINE N == Len(text)
           W(k) == {i \in 1..k : text[i] \notin K!Blanks}
<1>1. N \in Nat /\ DOMAIN text = 1..N /\ \A i \in 1..N : text[i] \in K!Tokens
  BY LenProperties, ElementOfSeq
<1>2. PICK h : Squashing(h, text)
  BY SquashStepwise
<1> DEFINE Good(k) == K!Words(h[k].s) = Picked(text, W(k)) /\ IsSpaced(h[k].s)
           T == {k \in Nat : k <= N => Good(k)}
<1>3. 0 \in T
  <2>1. h[0].s = <<>>
    BY <1>2 DEF Squashing
  <2>2. W(0) = {}
    OBVIOUS
  <2>3. Picked(text, W(0)) = <<>>
    BY <1>1, <2>2, NothingPicked
  <2>4. K!Words(<<>>) = <<>>
    <3>1. {i \in DOMAIN <<>> : <<>>[i] \notin K!Blanks} = {} /\ Len(<<>>) \in Nat
      OBVIOUS
    <3>2. K!Words(<<>>) = Picked(<<>>, {i \in DOMAIN <<>> : <<>>[i] \notin K!Blanks})
      BY DEF K!Words, K!Picked, Picked
    <3> QED
      BY <3>1, <3>2, NothingPicked
  <2>5. IsSpaced(<<>>)
    BY DEF IsSpaced
  <2> QED
    BY <2>1, <2>3, <2>4, <2>5
<1>4. ASSUME NEW k \in Nat, k \in T PROVE k + 1 \in T
  <2> SUFFICES ASSUME k + 1 <= N PROVE Good(k + 1)
    <3> HIDE DEF Good
    <3> QED
      OBVIOUS
  <2>1. Good(k)
    <3>1. k <= N
      BY <1>1
    <3> HIDE DEF Good
    <3> QED
      BY <1>4, <3>1
  <2> DEFINE x == h[k]
             u == h[k + 1]
             ch == text[k + 1]
  <2>2. x \in Squashes /\ u = SquashOne(x, ch) /\ ch \in K!Tokens
    <3>1. k \in 0..N /\ k + 1 \in 1..N /\ (k + 1) - 1 = k
      BY <1>1
    <3> QED
      BY <1>1, <1>2, <3>1 DEF Squashing
  <2>3. K!Words(x.s) = Picked(text, W(k)) /\ IsSpaced(x.s)
    BY <2>1
  <2>4. x.s \in Seq(Marked) /\ ch \in Marked /\ W(k) \subseteq 1..k
    BY <2>2 DEF Squashes, Marked
  <2>5. \A i \in 1..(k + 1) : i \in 1..k \/ i = k + 1
    OBVIOUS
  <2>6. 1..k \subseteq 1..(k + 1) /\ k + 1 \in 1..(k + 1)
    OBVIOUS
  <2>7. CASE ch \in K!Blanks
    <3>1. W(k + 1) = W(k)
      BY <2>5, <2>6, <2>7
    <3>2. u.s = x.s
      BY <2>2, <2>7, SquashDoes
    <3> QED
      BY <2>3, <3>1, <3>2
  <2>8. CASE ch \notin K!Blanks
    <3>1. W(k + 1) = W(k) \cup {k + 1}
      BY <2>5, <2>6, <2>8
    <3> HIDE DEF x, u, ch
    <3>2. Picked(text, W(k + 1)) = Append(K!Words(x.s), ch)
      <4> HIDE DEF W
      <4> QED
        BY <1>1, <2>3, <2>4, <3>1, PickedGrows DEF ch
    <3>3. K!Words(u.s) = Append(K!Words(x.s), ch) /\ IsSpaced(u.s)
      <4>1. CASE u.s = Append(x.s, ch)
        <5>1. K!Words(Append(x.s, ch)) = Append(K!Words(x.s), ch)
          BY <2>4, <2>8, WordsGrow
        <5>2. IsSpaced(Append(x.s, ch))
          BY <2>3, <2>4, <2>8, SpacedGrows
        <5> QED
          BY <4>1, <5>1, <5>2
      <4>2. CASE x.s # <<>> /\ x.sp \in K!Blanks /\ u.s = Append(Append(x.s, x.sp), ch)
        <5> DEFINE g == x.sp
                   y == Append(x.s, g)
        <5>1. g \in Marked /\ g \in K!Blanks
          BY <4>2 DEF Marked
        <5>2. y \in Seq(Marked) /\ K!Words(y) = K!Words(x.s)
          <6> HIDE DEF g
          <6> QED
            BY <2>4, <5>1, AppendProperties, WordsGrow
        <5>3. IsSpaced(Append(y, ch))
          BY <2>3, <2>4, <2>8, <4>2, <5>1, SpacedGrows
        <5> HIDE DEF y
        <5>4. K!Words(Append(y, ch)) = Append(K!Words(y), ch)
          BY <2>4, <2>8, <5>2, WordsGrow
        <5>5. u.s = Append(y, ch)
          BY <4>2 DEF y
        <5> QED
          BY <5>2, <5>3, <5>4, <5>5
      <4> QED
        BY <2>2, <2>8, <4>1, <4>2, SquashDoes
    <3> QED
      BY <3>2, <3>3 DEF u
  <2> QED
    BY <2>7, <2>8
<1>5. Nat \subseteq T
  <2> HIDE DEF T
  <2> QED
    BY <1>3, <1>4, Induction
<1>6. Good(N)
  <2> HIDE DEF Good
  <2> QED
    BY <1>1, <1>5
<1>7. h[N].s = K!Squash(text) /\ h[N].s \in Seq(Marked)
  BY <1>1, <1>2 DEF Squashing, Squashes
<1>8. K!Words(text) = Picked(text, W(N))
  BY <1>1 DEF K!Words, K!Picked, Picked
<1> QED
  BY <1>6, <1>7, <1>8

(* The text is what is not in brackets. *)
LEMMA TextStripped ==
    ASSUME NEW text \in Seq(K!Tokens)
    PROVE  K!TextIsStripped(text)
<1> DEFINE N == Len(text)
           t == K!Parsed(text)
           kept == {i \in DOMAIN text : ~K!Where(text)[i].curly} \ K!Brackets(text)
           m == Picked(text, kept)
           s == K!TextOf(text)
<1>1. N \in Nat /\ N \in 0..N /\ DOMAIN text = 1..N
  BY LenProperties
<1>2. PICK h : Parses(h, text)
  BY ParsedStepwise
<1>3. t \in Stacks /\ t = h[N]
  BY <1>1, <1>2 DEF Parses
<1>4. PICK p, d : Finds(text, N, t, p, d)
  BY <1>1, <1>2, <1>3, FindsAlways
<1>5. t.v[1] = m
  <2>1. KeptAt(text, N) = kept
    BY <1>1 DEF KeptAt, At
  <2> QED
    BY <1>4, <2>1 DEF Finds
<1>6. s = K!Squash(m)
  <2>1. Head(t.v) = t.v[1]
    BY <1>3, StackHas, HeadTailProperties
  <2> QED
    BY <1>5, <2>1 DEF K!TextOf
<1>7. m \in Seq(K!Tokens)
  BY PickedType
<1>8. m = K!Picked(text, kept)
  BY DEF K!Picked, Picked
<1> HIDE DEF m, s
<1>9. K!Words(s) = K!Words(m) /\ IsSpaced(s) /\ s \in Seq(Marked)
  BY <1>6, <1>7, SquashKeepsWords
<1>10. DOMAIN s = 1..Len(s)
  BY <1>9, LenProperties
<1>11. \A i \in DOMAIN s : s[i] \in K!Blanks => i \notin {1, Len(s)} /\ s[i - 1] \notin K!Blanks
  BY <1>9, <1>10 DEF IsSpaced
<1>12. K!Words(s) = K!Words(K!Picked(text, kept))
  BY <1>8, <1>9
<1> QED
  BY <1>11, <1>12 DEF K!TextIsStripped, s

(***************************************************************************)
(* Whatever is written in the files, the parser for keywords does what     *)
(* keys.h says.                                                            *)
(***************************************************************************)
THEOREM KeysAreAlwaysParsed == CSpec => []KeysAreParsed
<1>1. PagesInv => KeysAreParsed
  <2> SUFFICES ASSUME PagesInv, Len(v) > 2
               PROVE  LET text == JoinLines(SubSeq(v, 3, Len(v)))
                      IN  K!AllKeysFound(text) /\ K!TextIsStripped(text)
    BY DEF KeysAreParsed
  <2>1. v \in Seq(PossibleLines)
    BY DEF PagesInv, KeptInv, IInv, Reading
  <2>2. SubSeq(v, 3, Len(v)) \in Seq(PossibleLines)
    <3>1. Len(v) \in Nat /\ 2 \in 0..Len(v) /\ 2 + 1 = 3
      BY <2>1, LenProperties
    <3>2. SubSeq(v, 2 + 1, Len(v)) \in Seq(PossibleLines)
      BY <2>1, <3>1, CutInTwo
    <3> QED
      BY <3>1, <3>2
  <2>3. JoinLines(SubSeq(v, 3, Len(v))) \in Seq(K!Tokens)
    BY <2>2, JoinLinesType
  <2> QED
    BY <2>3, KeysFound, TextStripped
<1> QED
  BY <1>1, PagesAreInductive, PTL

-----------------------------------------------------------------------------
(***************************************************************************)
(* URIs: the segments, found by the positions of the slashes, are what is  *)
(* between the slashes.                                                    *)
(***************************************************************************)
(* One mark more *)
SplitOne(s, mark) ==
    CASE mark = Slash -> Append(s, <<>>)
      [] mark # Slash /\ s = <<>> -> s
      [] OTHER -> [s EXCEPT ![Len(s)] = Append(@, Eaten(mark))]

(* What is eaten is a text, and so are the segments. *)
LEMMA EatenType ==
    ASSUME NEW mark \in PossibleMarks
    PROVE  Eaten(mark) \in Texts /\ Verbatim(mark) \in Texts
<1>1. Word("NUL") \in Texts /\ Word("%") \in Texts
  BY DEF Texts
<1>2. CASE mark = Bad
  BY <1>1, <1>2 DEF Eaten, Verbatim, Bad
<1>3. CASE mark # Bad
  <2> HIDE DEF Texts
  <2>1. PICK x \in PossibleTexts : mark = <<"lit", x>> \/ mark = <<"esc", x>>
    <3> HIDE DEF PossibleTexts
    <3> QED
      BY <1>3 DEF PossibleMarks
  <2>2. x \in Texts /\ mark[2] = x
    BY <2>1 DEF Texts
  <2> QED
    BY <1>1, <1>3, <2>2 DEF Eaten, Verbatim
<1> QED
  BY <1>2, <1>3

(* What split() makes of a URI stays a sequence of texts. *)
LEMMA SplitOneType ==
    ASSUME NEW s \in Seq(Seq(Texts)), NEW mark \in PossibleMarks
    PROVE  SplitOne(s, mark) \in Seq(Seq(Texts))
<1> DEFINE X == Seq(Texts)
<1>1. <<>> \in X
  OBVIOUS
<1>2. Eaten(mark) \in Texts
  BY EatenType
<1>3. CASE mark = Slash
  <2> HIDE DEF X
  <2>1. Append(s, <<>>) \in Seq(X)
    BY <1>1, AppendProperties DEF X
  <2> QED
    BY <1>3, <2>1 DEF SplitOne, X
<1>4. CASE mark # Slash /\ s = <<>>
  BY <1>4 DEF SplitOne
<1>5. CASE mark # Slash /\ s # <<>>
  <2>1. Len(s) \in Nat /\ Len(s) # 0 /\ DOMAIN s = 1..Len(s)
    BY <1>5, LenProperties, EmptySeq
  <2>2. Len(s) \in 1..Len(s) /\ s[Len(s)] \in X
    BY <2>1, ElementOfSeq
  <2> DEFINE e == Append(s[Len(s)], Eaten(mark))
  <2>3. e \in X
    BY <1>2, <2>2, AppendProperties
  <2>4. SplitOne(s, mark) = [s EXCEPT ![Len(s)] = e]
    BY <1>5 DEF SplitOne
  <2> HIDE DEF e, X
  <2>5. [s EXCEPT ![Len(s)] = e] \in Seq(X)
    BY <2>1, <2>2, <2>3 DEF X
  <2> QED
    BY <2>4, <2>5 DEF X
<1> QED
  BY <1>3, <1>4, <1>5

(* What is split, after each mark *)
Splitting(h, uri) ==
    /\ h[0] = <<>> /\ h[Len(uri)] = Split(uri)
    /\ \A k \in 1..Len(uri) : h[k] = SplitOne(h[k - 1], uri[k])
    /\ \A k \in 0..Len(uri) : h[k] \in Seq(Seq(Texts))

(* It is a fold. *)
LEMMA SplitStepwise ==
    ASSUME NEW uri \in Seq(PossibleMarks)
    PROVE  \E h : Splitting(h, uri)
<1> DEFINE N == Len(uri)
           X == Seq(Seq(Texts))
           op == [p \in X \X PossibleMarks |-> SplitOne(p[1], p[2])]
           F == CHOOSE f : f = [u \in SUBSET (1..N) |->
                                   IF u = {} THEN <<>>
                                   ELSE SplitOne(f[u \ {Max(u)}], uri[Max(u)])]
<1>1. N \in Nat /\ DOMAIN uri = 1..N /\ \A i \in 1..N : uri[i] \in PossibleMarks
  BY LenProperties, ElementOfSeq
<1>2. op \in [X \X PossibleMarks -> X]
  BY SplitOneType
<1>3. <<>> \in X
  OBVIOUS
<1> HIDE DEF X
<1>4. PICK f : SolvesFold(f, op, <<>>, uri, N, X, PossibleMarks)
  <2> HIDE DEF op, N, F
  <2> QED
    BY <1>1, <1>2, <1>3, FoldingExists
<1>5. \A x \in X, l \in PossibleMarks : op[<<x, l>>] = SplitOne(x, l)
  OBVIOUS
<1> HIDE DEF op
<1>6. f = [u \in SUBSET (1..N) |-> IF u = {} THEN <<>>
                                    ELSE SplitOne(f[u \ {Max(u)}], uri[Max(u)])]
  BY <1>4, <1>5 DEF FoldedBy, SolvesFold
<1>11. F[1..N] = Split(uri)
  BY <1>1 DEF Split, FoldLeft, MapThenFoldSet, Max, F, SplitOne
<1>7. F = [u \in SUBSET (1..N) |-> IF u = {} THEN <<>>
                                    ELSE SplitOne(F[u \ {Max(u)}], uri[Max(u)])]
  BY <1>6
<1> HIDE DEF F
<1>8. F[{}] = <<>>
  BY <1>7
<1>9. \A k \in 1..N : F[1..(k - 1)] \in X => F[1..k] = op[<<F[1..(k - 1)], uri[k]>>]
  <2> SUFFICES ASSUME NEW k \in 1..N, F[1..(k - 1)] \in X
               PROVE  F[1..k] = op[<<F[1..(k - 1)], uri[k]>>]
    OBVIOUS
  <2>1. F[1..k] = SplitOne(F[1..(k - 1)], uri[k])
    BY <1>1, <1>7, PrefixIsCut
  <2> QED
    BY <1>1, <1>5, <2>1
<1>10. PICK h : FoldsTo(h, op, <<>>, uri, N, X, F[1..N])
  <2>1. FoldsOn(F, op, <<>>, uri, N, X)
    BY <1>8, <1>9 DEF FoldsOn
  <2> HIDE DEF N
  <2> QED
    BY <1>1, <1>2, <1>3, <2>1, FoldingGoesOn
<1>12. \A k \in 1..N : h[k] = SplitOne(h[k - 1], uri[k])
  <2> SUFFICES ASSUME NEW k \in 1..N PROVE h[k] = SplitOne(h[k - 1], uri[k])
    OBVIOUS
  <2>1. k - 1 \in 0..N
    BY <1>1
  <2>2. h[k - 1] \in X /\ uri[k] \in PossibleMarks /\ h[k] = op[<<h[k - 1], uri[k]>>]
    BY <1>1, <1>10, <2>1 DEF FoldsTo
  <2> QED
    BY <1>5, <2>2
<1>13. h[0] = <<>> /\ h[N] = F[1..N] /\ \A k \in 0..N : h[k] \in X
  BY <1>10 DEF FoldsTo
<1> QED
  BY <1>11, <1>12, <1>13 DEF Splitting, X

-----------------------------------------------------------------------------
(* The marks from a to b, eaten *)
Between(uri, a, b) == [j \in 1..(b + 1 - a) |-> Eaten(uri[a - 1 + j])]

(* One mark more *)
LEMMA BetweenGrows ==
    ASSUME NEW uri, NEW a \in Nat, NEW b \in Nat, a <= b + 1
    PROVE  Between(uri, a, b + 1) = Append(Between(uri, a, b), Eaten(uri[b + 1]))
<1> DEFINE m == b + 1 - a
           f(j) == Eaten(uri[a - 1 + j])
           s == Between(uri, a, b)
<1>1. m \in Nat /\ (b + 1) + 1 - a = m + 1 /\ a - 1 + (m + 1) = b + 1
  OBVIOUS
<1>2. Between(uri, a, b + 1) = [j \in 1..(m + 1) |-> f(j)] /\ s = [j \in 1..m |-> f(j)]
  BY <1>1 DEF Between
<1>3. f(m + 1) = Eaten(uri[b + 1])
  BY <1>1
<1> HIDE DEF m, f, s
<1>4. Append(s, f(m + 1)) = [j \in 1..(m + 1) |-> IF j = m + 1 THEN f(m + 1) ELSE s[j]]
  <2>1. Len(s) = m
    BY <1>1, <1>2
  <2> QED
    BY <2>1
<1>5. \A j \in 1..(m + 1) : (IF j = m + 1 THEN f(m + 1) ELSE s[j]) = f(j)
  BY <1>1, <1>2
<1>6. Append(s, f(m + 1)) = [j \in 1..(m + 1) |-> f(j)]
  BY <1>4, <1>5
<1> QED
  BY <1>2, <1>3, <1>6 DEF s

(* The slashes of an URI, and where the segment after the m-th of those in q
   ends, k marks of the URI being there *)
Slashes(uri) == {i \in DOMAIN uri : uri[i] = Slash}

EndOf(q, m, k) == IF m = Len(q) THEN k ELSE q[m + 1] - 1

(* s is the first k marks, cut at the slashes, which are at q. *)
CutAt(s, q, uri, k) ==
    /\ Ascends(q, k, Slashes(uri))
    /\ s \in Seq(Seq(Texts))
    /\ Len(s) = Len(q)
    /\ \A m \in 1..Len(q) : s[m] = Between(uri, q[m] + 1, EndOf(q, m, k))

(* A slash begins a segment. *)
LEMMA CutAtSlash ==
    ASSUME NEW uri \in Seq(PossibleMarks), NEW k \in Nat, k + 1 \in 1..Len(uri),
           NEW s, NEW q, CutAt(s, q, uri, k), uri[k + 1] = Slash
    PROVE  CutAt(SplitOne(s, uri[k + 1]), Append(q, k + 1), uri, k + 1)
<1> DEFINE t == Append(s, <<>>)
           r == Append(q, k + 1)
<1>1. SplitOne(s, uri[k + 1]) = t
  BY DEF SplitOne
<1>2. k + 1 \in Slashes(uri)
  BY DEF Slashes
<1>3. Ascends(r, k + 1, Slashes(uri))
  BY <1>2, AscendsGrows DEF CutAt
<1>4. q \in Seq(1..k) /\ Len(q) \in Nat /\ \A m \in 1..Len(q) : q[m] \in 1..k
  <2>1. q \in Seq(1..k)
    BY DEF CutAt, Ascends
  <2> QED
    BY <2>1, LenProperties, ElementOfSeq
<1>5. /\ Len(r) = Len(q) + 1 /\ r[Len(q) + 1] = k + 1
      /\ \A m \in 1..Len(q) : r[m] = q[m]
  BY <1>4
<1>6. /\ t \in Seq(Seq(Texts)) /\ Len(t) = Len(s) + 1 /\ t[Len(s) + 1] = <<>>
      /\ \A m \in 1..Len(s) : t[m] = s[m]
  <2> DEFINE X == Seq(Texts)
  <2>1. <<>> \in X
    OBVIOUS
  <2> HIDE DEF X
  <2>2. s \in Seq(X)
    BY DEF CutAt, X
  <2>3. t \in Seq(X) /\ Len(t) = Len(s) + 1 /\ t[Len(s) + 1] = <<>>
        /\ \A m \in 1..Len(s) : t[m] = s[m]
    BY <2>1, <2>2, AppendProperties
  <2> QED
    BY <2>3 DEF X
<1> HIDE DEF t, r
<1>7. ASSUME NEW m \in 1..Len(r)
      PROVE  t[m] = Between(uri, r[m] + 1, EndOf(r, m, k + 1))
  <2>1. CASE m = Len(q) + 1
    <3>1. EndOf(r, m, k + 1) = k + 1 /\ r[m] = k + 1
      BY <1>5, <2>1 DEF EndOf
    <3>2. 1..((k + 1) + 1 - ((k + 1) + 1)) = {}
      OBVIOUS
    <3>3. Between(uri, (k + 1) + 1, k + 1) = <<>>
      BY <3>2 DEF Between
    <3>4. t[m] = <<>>
      BY <1>6, <2>1 DEF CutAt
    <3> QED
      BY <3>1, <3>3, <3>4
  <2>2. CASE m # Len(q) + 1
    <3>1. m \in 1..Len(q) /\ r[m] = q[m]
      BY <1>4, <1>5, <2>2
    <3>2. EndOf(r, m, k + 1) = EndOf(q, m, k)
      <4>1. CASE m = Len(q)
        BY <1>4, <1>5, <4>1 DEF EndOf
      <4>2. CASE m # Len(q)
        <5>1. m + 1 \in 1..Len(q) /\ m # Len(r)
          BY <1>4, <1>5, <3>1, <4>2
        <5> QED
          BY <1>5, <4>2, <5>1 DEF EndOf
      <4> QED
        BY <4>1, <4>2
    <3>3. t[m] = s[m]
      BY <1>6, <3>1 DEF CutAt
    <3> QED
      BY <3>1, <3>2, <3>3 DEF CutAt
  <2> QED
    BY <2>1, <2>2
<1>8. Len(t) = Len(r)
  BY <1>5, <1>6 DEF CutAt
<1> QED
  BY <1>1, <1>3, <1>6, <1>7, <1>8 DEF CutAt, r

(* Any other mark belongs to the segment which has begun, if there is one. *)
LEMMA CutAtMark ==
    ASSUME NEW uri \in Seq(PossibleMarks), NEW k \in Nat, k + 1 \in 1..Len(uri),
           NEW s, NEW q, CutAt(s, q, uri, k), uri[k + 1] # Slash
    PROVE  CutAt(SplitOne(s, uri[k + 1]), q, uri, k + 1)
<1>1. k + 1 \notin Slashes(uri)
  BY DEF Slashes
<1>2. Ascends(q, k + 1, Slashes(uri))
  BY <1>1, AscendsGrows DEF CutAt
<1>3. q \in Seq(1..k) /\ Len(q) \in Nat /\ \A m \in 1..Len(q) : q[m] \in 1..k
  <2>1. q \in Seq(1..k)
    BY DEF CutAt, Ascends
  <2> QED
    BY <2>1, LenProperties, ElementOfSeq
<1>4. uri[k + 1] \in PossibleMarks
  BY ElementOfSeq
<1> DEFINE t == SplitOne(s, uri[k + 1])
<1>5. t \in Seq(Seq(Texts))
  BY <1>4, SplitOneType DEF CutAt
<1>6. CASE s = <<>>
  <2>1. t = s
    BY <1>6 DEF SplitOne
  <2>2. Len(q) = 0
    BY <1>6 DEF CutAt
  <2> HIDE DEF t
  <2> QED
    BY <1>2, <1>5, <2>1, <2>2 DEF CutAt, t
<1>7. CASE s # <<>>
  <2>1. s \in Seq(Seq(Texts)) /\ Len(s) = Len(q)
    BY DEF CutAt
  <2>2. Len(q) \in 1..Len(q) /\ DOMAIN s = 1..Len(q)
    <3>1. Len(s) # 0 /\ DOMAIN s = 1..Len(s)
      BY <1>7, <2>1, LenProperties, EmptySeq
    <3> QED
      BY <1>3, <2>1, <3>1
  <2>3. t = [s EXCEPT ![Len(q)] = Append(s[Len(q)], Eaten(uri[k + 1]))]
    BY <1>7, <2>1 DEF SplitOne
  <2> HIDE DEF t
  <2>4. /\ t[Len(q)] = Append(s[Len(q)], Eaten(uri[k + 1]))
        /\ \A m \in 1..Len(q) : m # Len(q) => t[m] = s[m]
        /\ DOMAIN t = 1..Len(q)
    BY <2>2, <2>3
  <2>5. Len(t) = Len(q)
    BY <1>3, <1>5, <2>4
  <2>6. ASSUME NEW m \in 1..Len(q)
        PROVE  t[m] = Between(uri, q[m] + 1, EndOf(q, m, k + 1))
    <3>1. CASE m = Len(q)
      <4>1. EndOf(q, m, k + 1) = k + 1 /\ EndOf(q, m, k) = k
        BY <3>1 DEF EndOf
      <4>2. s[m] = Between(uri, q[m] + 1, k)
        BY <4>1 DEF CutAt
      <4>3. q[m] + 1 \in Nat /\ q[m] + 1 <= k + 1
        BY <1>3
      <4>4. Between(uri, q[m] + 1, k + 1) = Append(s[m], Eaten(uri[k + 1]))
        BY <4>2, <4>3, BetweenGrows
      <4> QED
        BY <2>4, <3>1, <4>1, <4>4
    <3>2. CASE m # Len(q)
      <4>1. EndOf(q, m, k + 1) = EndOf(q, m, k)
        BY <3>2 DEF EndOf
      <4> QED
        BY <2>4, <3>2, <4>1 DEF CutAt
    <3> QED
      BY <3>1, <3>2
  <2> QED
    BY <1>2, <1>5, <2>5, <2>6 DEF CutAt, t
<1> QED
  BY <1>6, <1>7

(* So all of it is cut. *)
LEMMA SplitIsCut ==
    ASSUME NEW uri \in Seq(PossibleMarks)
    PROVE  \E q : CutAt(Split(uri), q, uri, Len(uri))
<1>1. PICK h : Splitting(h, uri)
  BY SplitStepwise
<1> DEFINE N == Len(uri)
           T == {k \in Nat : k <= N => \E q : CutAt(h[k], q, uri, k)}
<1>2. N \in Nat
  OBVIOUS
<1>3. 0 \in T
  <2>1. h[0] = <<>>
    BY <1>1 DEF Splitting
  <2>2. Ascends(<<>>, 0, Slashes(uri))
    BY DEF Ascends
  <2>3. CutAt(<<>>, <<>>, uri, 0)
    BY <2>2 DEF CutAt
  <2> QED
    BY <2>1, <2>3
<1>4. ASSUME NEW k \in Nat, k \in T
      PROVE  k + 1 \in T
  <2> SUFFICES ASSUME k + 1 <= N PROVE \E q : CutAt(h[k + 1], q, uri, k + 1)
    OBVIOUS
  <2>1. k + 1 \in 1..N /\ k <= N /\ (k + 1) - 1 = k
    BY <1>2
  <2>2. PICK q : CutAt(h[k], q, uri, k)
    BY <1>4, <2>1
  <2>3. h[k + 1] = SplitOne(h[k], uri[k + 1])
    BY <1>1, <2>1 DEF Splitting
  <2>4. \E r : CutAt(SplitOne(h[k], uri[k + 1]), r, uri, k + 1)
    BY <2>1, <2>2, CutAtSlash, CutAtMark
  <2> QED
    BY <2>3, <2>4
<1> HIDE DEF T
<1>5. N \in T
  BY <1>2, <1>3, <1>4, Induction
<1>6. h[N] = Split(uri)
  BY <1>1 DEF Splitting
<1> QED
  BY <1>2, <1>5, <1>6 DEF T

-----------------------------------------------------------------------------
(* Where nothing is encoded, the characters are what they stand for. *)
LEMMA PlainIsEaten ==
    ASSUME NEW mark \in PossibleMarks, mark[1] = "lit"
    PROVE  Verbatim(mark) = Eaten(mark)
<1>1. mark # Bad
  BY DEF Bad
<1> QED
  BY <1>1 DEF Verbatim, Eaten

(* A segment is what is between its slashes, whether decoded or not. *)
LEMMA SegmentIsBetween ==
    ASSUME NEW uri \in Seq(PossibleMarks), NEW k \in Nat, HasSegment(uri, k),
           NEW a \in Nat, NEW b \in Nat, a >= 1, a <= b + 1, b <= Len(uri),
           Raw(uri, k) = SubSeq(uri, a, b)
    PROVE  /\ Make(uri, k) = Between(uri, a, b)
           /\ \A text : Segment(uri, text, k) <=> text = Between(uri, a, b)
<1> DEFINE raw == Raw(uri, k)
<1>1. Len(uri) \in Nat /\ \A i \in 1..Len(uri) : uri[i] \in PossibleMarks
  BY LenProperties, ElementOfSeq
<1>2. /\ DOMAIN raw = 1..(b + 1 - a)
      /\ \A i \in 1..(b + 1 - a) : raw[i] = uri[a - 1 + i] /\ a - 1 + i \in 1..Len(uri)
  <2>1. a \in 1..(Len(uri) + 1) /\ b \in (a - 1)..Len(uri)
    BY <1>1
  <2>2. \A i \in 1..(b - a + 1) : SubSeq(uri, a, b)[i] = uri[a + i - 1]
    BY <1>1, <2>1
  <2>3. DOMAIN SubSeq(uri, a, b) = 1..(b - a + 1)
    BY <1>1, <2>1
  <2>4. b - a + 1 = b + 1 - a /\ \A i \in 1..(b + 1 - a) : a + i - 1 = a - 1 + i
    BY <2>1
  <2>5. \A i \in 1..(b + 1 - a) : a - 1 + i \in 1..Len(uri)
    BY <1>1
  <2> QED
    BY <2>2, <2>3, <2>4, <2>5
<1> HIDE DEF raw
<1>3. [i \in DOMAIN raw |-> Eaten(raw[i])] = Between(uri, a, b)
  BY <1>2 DEF Between
<1>4. CASE Percent(uri)
  <2>1. Make(uri, k) = [i \in DOMAIN raw |-> Eaten(raw[i])]
    BY <1>4 DEF Make, Decode, raw
  <2>2. \A text : Segment(uri, text, k) <=> text = [i \in DOMAIN raw |-> Eaten(raw[i])]
    BY <1>4 DEF Segment, EqPercent, raw
  <2> QED
    BY <1>3, <2>1, <2>2
<1>5. CASE ~Percent(uri)
  <2>1. Make(uri, k) = [i \in DOMAIN raw |-> Verbatim(raw[i])]
    BY <1>5 DEF Make, raw
  <2>2. \A text : Segment(uri, text, k) <=> text = [i \in DOMAIN raw |-> Verbatim(raw[i])]
    BY <1>5 DEF Segment, Eq, raw
  <2>3. \A i \in DOMAIN raw : Verbatim(raw[i]) = Eaten(raw[i])
    <3> SUFFICES ASSUME NEW i \in DOMAIN raw PROVE Verbatim(raw[i]) = Eaten(raw[i])
      OBVIOUS
    <3>1. raw[i] = uri[a - 1 + i] /\ a - 1 + i \in 1..Len(uri)
      BY <1>2
    <3>2. raw[i] \in PossibleMarks
      BY <1>1, <3>1
    <3>3. raw[i][1] = "lit"
      BY <1>5, <3>1 DEF Percent
    <3> QED
      BY <3>2, <3>3, PlainIsEaten
  <2>4. [i \in DOMAIN raw |-> Verbatim(raw[i])] = [i \in DOMAIN raw |-> Eaten(raw[i])]
    BY <2>3
  <2> QED
    BY <1>3, <2>1, <2>2, <2>4
<1> QED
  BY <1>4, <1>5

(* As long as there are not too many, there are as many segments as there are
   positions for, and they are what match<> sees. *)
LEMMA SegmentsAreSplit ==
    ASSUME NEW uri \in Seq(PossibleMarks), NEW N \in {1, 2}
    PROVE  /\ Segments(uri, N) <=> Len(Split(uri)) = N
           /\ Segments(uri, N) => \A k \in 0..(N - 1) :
                 /\ Make(uri, k) = Split(uri)[k + 1]
                 /\ \A text : Segment(uri, text, k) <=> text = Split(uri)[k + 1]
<1> DEFINE L == Len(uri)
           p == Positions(uri)
           all == AllPositions(uri)
<1>1. PICK q : CutAt(Split(uri), q, uri, L)
  BY SplitIsCut
<1>2. L \in Nat /\ DOMAIN uri = 1..L
  BY LenProperties
<1>3. q = Places(uri, Slashes(uri))
  <2>1. Ascends(Places(uri, Slashes(uri)), L, Slashes(uri))
    BY <1>2, PlacesAscend
  <2>2. Ascends(q, L, Slashes(uri))
    BY <1>1 DEF CutAt
  <2> HIDE DEF L
  <2> QED
    BY <1>2, <2>1, <2>2, AscendsOnce
<1>4. q \in Seq(1..L) /\ Len(q) \in Nat /\ \A m \in 1..Len(q) : q[m] \in 1..L
  <2>1. q \in Seq(1..L)
    BY <1>1 DEF CutAt, Ascends
  <2> QED
    BY <2>1, LenProperties, ElementOfSeq
<1>5. all = q \o <<L + 1>>
  BY <1>3 DEF AllPositions, Slashes
<1>6. /\ all \in Seq(1..(L + 1)) /\ Len(all) = Len(q) + 1
      /\ all[Len(q) + 1] = L + 1 /\ \A m \in 1..Len(q) : all[m] = q[m]
  <2>1. q \in Seq(1..(L + 1)) /\ <<L + 1>> \in Seq(1..(L + 1))
    BY <1>2, <1>4
  <2> HIDE DEF all, L
  <2> QED
    BY <1>4, <1>5, <2>1
<1>7. p = SubSeq(all, 1, IF Len(all) < 5 THEN Len(all) ELSE 5)
  BY DEF Positions, MaxPositions
<1> HIDE DEF all, p
<1>8. Len(p) = IF Len(q) + 1 < 5 THEN Len(q) + 1 ELSE 5
  BY <1>4, <1>6, <1>7
<1>9. Segments(uri, N) <=> Len(q) = N
  BY <1>4, <1>8 DEF Segments, p
<1>10. Len(Split(uri)) = Len(q)
  BY <1>1 DEF CutAt
<1>11. ASSUME Segments(uri, N), NEW k \in 0..(N - 1)
       PROVE  /\ Make(uri, k) = Split(uri)[k + 1]
              /\ \A text : Segment(uri, text, k) <=> text = Split(uri)[k + 1]
  <2>1. Len(q) = N /\ k \in Nat /\ k + 1 \in 1..Len(q)
    BY <1>9, <1>11
  <2>2. p = all
    <3>1. p = SubSeq(all, 1, Len(all))
      BY <1>6, <1>7, <2>1
    <3> QED
      BY <1>6, <3>1, SubSeqFull
  <2>3. HasSegment(uri, k)
    BY <1>6, <2>1, <2>2 DEF HasSegment, p
  <2> DEFINE a == q[k + 1] + 1
             b == EndOf(q, k + 1, L)
  <2>4. p[k + 1] + 1 = a
    BY <1>6, <2>1, <2>2
  <2>5. p[k + 2] - 1 = b
    <3>1. CASE k + 1 = Len(q)
      <4>1. p[k + 2] = L + 1
        BY <1>6, <2>1, <2>2, <3>1
      <4>2. b = L
        BY <3>1 DEF EndOf
      <4> QED
        BY <1>2, <4>1, <4>2
    <3>2. CASE k + 1 # Len(q)
      <4>1. k + 2 \in 1..Len(q) /\ (k + 1) + 1 = k + 2
        BY <2>1, <3>2
      <4>2. p[k + 2] = q[k + 2] /\ b = q[k + 2] - 1
        BY <1>6, <2>2, <3>2, <4>1 DEF EndOf
      <4> QED
        BY <4>2
    <3> QED
      BY <3>1, <3>2
  <2>6. a \in Nat /\ b \in Nat /\ a >= 1 /\ a <= b + 1 /\ b <= L
    <3>1. q[k + 1] \in 1..L
      BY <1>4, <2>1
    <3>2. CASE k + 1 = Len(q)
      <4>1. b = L
        BY <3>2 DEF EndOf
      <4> QED
        BY <1>2, <3>1, <4>1
    <3>3. CASE k + 1 # Len(q)
      <4>1. k + 2 \in 1..Len(q) /\ (k + 1) + 1 = k + 2 /\ k + 1 < k + 2
        BY <2>1, <3>3
      <4>2. b = q[k + 2] - 1 /\ q[k + 2] \in 1..L
        BY <1>4, <3>3, <4>1 DEF EndOf
      <4>3. q[k + 1] < q[k + 2]
        BY <1>1, <2>1, <4>1 DEF CutAt, Ascends
      <4> QED
        BY <1>2, <3>1, <4>2, <4>3
    <3> QED
      BY <3>2, <3>3
  <2>7. Raw(uri, k) = SubSeq(uri, a, b)
    BY <2>4, <2>5 DEF Raw, p
  <2>8. Split(uri)[k + 1] = Between(uri, a, b)
    BY <1>1, <2>1 DEF CutAt
  <2> HIDE DEF a, b
  <2> QED
    BY <2>1, <2>3, <2>6, <2>7, <2>8, SegmentIsBetween
<1> QED
  BY <1>9, <1>10, <1>11

(* The match<>() functions, in terms of the segments *)
LEMMA MatchesAre ==
    ASSUME NEW uri \in Seq(PossibleMarks)
    PROVE  LET ss == Split(uri)
           IN  /\ Len(ss) \in Nat /\ \A i \in 1..Len(ss) : ss[i] \in Seq(Texts)
               /\ \A a : Is(uri, a) <=> Len(ss) = 1 /\ ss[1] = a
               /\ \A a, b : IsUnder(uri, a, b) <=> Len(ss) = 2 /\ ss[1] = a /\ ss[2] = b
               /\ The(uri) = IF Len(ss) = 1 THEN ss[1] ELSE Nil
               /\ \A a : TheUnder(uri, a) = IF Len(ss) = 2 /\ ss[1] = a THEN ss[2] ELSE Nil
               /\ ThePair(uri) = IF Len(ss) = 2 THEN <<ss[1], ss[2]>> ELSE <<Nil, Nil>>
<1> DEFINE ss == Split(uri)
<1>1. Len(ss) \in Nat /\ \A i \in 1..Len(ss) : ss[i] \in Seq(Texts)
  <2>1. ss \in Seq(Seq(Texts))
    BY SplitIsCut DEF CutAt
  <2> HIDE DEF ss
  <2> QED
    BY <2>1
<1>2. /\ Segments(uri, 1) <=> Len(ss) = 1
      /\ Segments(uri, 1) => /\ Make(uri, 0) = ss[1]
                             /\ \A text : Segment(uri, text, 0) <=> text = ss[1]
  <2>1. 0 \in 0..(1 - 1) /\ 0 + 1 = 1
    OBVIOUS
  <2> QED
    BY <2>1, SegmentsAreSplit
<1>3. /\ Segments(uri, 2) <=> Len(ss) = 2
      /\ Segments(uri, 2) => /\ Make(uri, 0) = ss[1] /\ Make(uri, 1) = ss[2]
                             /\ \A text : Segment(uri, text, 0) <=> text = ss[1]
                             /\ \A text : Segment(uri, text, 1) <=> text = ss[2]
  <2>1. 0 \in 0..(2 - 1) /\ 0 + 1 = 1 /\ 1 \in 0..(2 - 1) /\ 1 + 1 = 2
    OBVIOUS
  <2> QED
    BY <2>1, SegmentsAreSplit
<1> HIDE DEF ss
<1> QED
  BY <1>1, <1>2, <1>3 DEF Is, IsUnder, The, TheUnder, ThePair, ss

-----------------------------------------------------------------------------
(***************************************************************************)
(* Texts which are dates and names: they can be read as such if and only if*)
(* they are written so.                                                    *)
(***************************************************************************)
YearName(y) == <<Number(y, 4)>>

MonthName(m) == <<Number(m[1], 4), Word("-"), Number(m[2], 2)>>

DayName(d) == <<Number(d[1], 4), Word("-"), Number(d[2], 2), Word("-"), Number(d[3], 2)>>

LongName(d, s, digits) ==
    <<Number(d[1], 4), Word("-"), Number(d[2], 2), Word("-"), Number(d[3], 2),
      Underscore, Number(s, digits), Word(".jpg")>>

ShortName(yymmdd, s, digits) ==
    <<Number(yymmdd, 6), Underscore, Number(s, digits), Word(".jpg")>>

(* A number in a text is written as one, and fits in its digits. *)
LEMMA NumberIs ==
    ASSUME NEW x \in Texts, x[1] = "number"
    PROVE  /\ x = Number(x[2], x[3]) /\ x[2] \in Nat /\ x[3] \in Nat
           /\ x[3] = 6 => x[2] < 10^6
<1>1. x # Word("NUL") /\ x # Word("%")
  BY DEF Word
<1>2. x \in {"number"} \X Nat \X Nat /\ x[2] < 10^x[3]
  BY <1>1 DEF Texts, PossibleTexts
<1>3. x = Number(x[2], x[3]) /\ x[2] \in Nat /\ x[3] \in Nat
  BY <1>2 DEF Number
<1>4. x[3] = 6 => x[2] < 10^6
  BY <1>2
<1> QED
  BY <1>3, <1>4

(* Every other place is a number, and those between are dashes. *)
LEMMA MatchesAt ==
    ASSUME NEW text, NEW digits, Matches(text, digits), NEW i \in DOMAIN text
    PROVE  /\ i % 2 = 0 => text[i] = Word("-")
           /\ i % 2 # 0 => text[i][1] = "number" /\ text[i][3] = digits[(i + 1) \div 2]
BY DEF Matches

(* Of some numbers: the places, the dashes and the digits *)
LEMMA MatchesIs ==
    ASSUME NEW text \in Seq(Texts)
    PROVE  /\ Matches(text, <<4>>) =>
                 /\ text = YearName(text[1][2]) /\ text[1][2] \in Nat
           /\ Matches(text, <<6>>) =>
                 /\ Len(text) = 1 /\ text[1] = Number(text[1][2], 6)
                 /\ text[1][2] \in Nat /\ text[1][2] < 10^6
           /\ Matches(text, <<4, 2>>) =>
                 /\ text = MonthName(Values(text)) /\ Values(text) \in [1..2 -> Nat]
           /\ Matches(text, <<4, 2, 2>>) =>
                 /\ text = DayName(Values(text)) /\ Values(text) \in [1..3 -> Nat]
<1>0. Len(text) \in Nat /\ DOMAIN text = 1..Len(text) /\ \A i \in 1..Len(text) : text[i] \in Texts
  BY LenProperties, ElementOfSeq
<1>1. ASSUME Matches(text, << 4 >>)
      PROVE  text = YearName(text[1][2]) /\ text[1][2] \in Nat
  <2>1. Len(text) = 1
    BY <1>1 DEF Matches
  <2>2. text[1] \in Texts /\ text[1][1] = "number" /\ text[1][3] = 4
    <3>1. 1 \in DOMAIN text /\ 1 % 2 # 0 /\ (1 + 1) \div 2 = 1 /\ <<4>>[1] = 4
      BY <1>0, <2>1
    <3> QED
      BY <1>0, <1>1, <2>1, <3>1, MatchesAt
  <2>3. text[1] = Number(text[1][2], 4) /\ text[1][2] \in Nat
    BY <2>2, NumberIs
  <2>4. text = <<text[1]>>
    BY <1>0, <2>1
  <2> QED
    BY <2>3, <2>4 DEF YearName
<1>2. ASSUME Matches(text, << 6 >>)
      PROVE  /\ Len(text) = 1 /\ text[1] = Number(text[1][2], 6) /\ text[1][2] \in Nat /\ text[1][2] < 10^6
  <2>1. Len(text) = 1
    BY <1>2 DEF Matches
  <2>2. text[1] \in Texts /\ text[1][1] = "number" /\ text[1][3] = 6
    <3>1. 1 \in DOMAIN text /\ 1 % 2 # 0 /\ (1 + 1) \div 2 = 1 /\ <<6>>[1] = 6
      BY <1>0, <2>1
    <3> QED
      BY <1>0, <1>2, <2>1, <3>1, MatchesAt
  <2>3. text[1] = Number(text[1][2], 6) /\ text[1][2] \in Nat /\ text[1][2] < 10^6
    BY <2>2, NumberIs
  <2> QED
    BY <2>1, <2>3
<1>3. ASSUME Matches(text, <<4, 2>>)
      PROVE  text = MonthName(Values(text)) /\ Values(text) \in [1..2 -> Nat]
  <2>1. Len(text) = 3
    BY <1>3 DEF Matches
  <2>2. /\ text[1] \in Texts /\ text[1][1] = "number" /\ text[1][3] = 4
        /\ text[2] = Word("-")
        /\ text[3] \in Texts /\ text[3][1] = "number" /\ text[3][3] = 2
    <3>1. DOMAIN text = 1..3
      BY <1>0, <2>1
    <3>2. /\ 1 % 2 # 0 /\ 2 % 2 = 0 /\ 3 % 2 # 0 /\ (1 + 1) \div 2 = 1 /\ (3 + 1) \div 2 = 2
          /\ <<4, 2>>[1] = 4 /\ <<4, 2>>[2] = 2
      OBVIOUS
    <3> QED
      BY <1>0, <1>3, <2>1, <3>1, <3>2, MatchesAt
  <2>3. /\ text[1] = Number(text[1][2], 4) /\ text[1][2] \in Nat
        /\ text[3] = Number(text[3][2], 2) /\ text[3][2] \in Nat
    BY <2>2, NumberIs
  <2>4. text = <<text[1], text[2], text[3]>>
    BY <1>0, <2>1
  <2>5. /\ Values(text) \in [1..2 -> Nat]
        /\ Values(text)[1] = text[1][2] /\ Values(text)[2] = text[3][2]
    <3>1. (3 + 1) \div 2 = 2
      OBVIOUS
    <3>2. \A i \in 1..2 : text[2 * i - 1][2] \in Nat
      BY <2>3
    <3> QED
      BY <2>1, <3>1, <3>2 DEF Values
  <2> QED
    BY <2>2, <2>3, <2>4, <2>5 DEF MonthName
<1>4. ASSUME Matches(text, <<4, 2, 2>>)
      PROVE  text = DayName(Values(text)) /\ Values(text) \in [1..3 -> Nat]
  <2>1. Len(text) = 5
    BY <1>4 DEF Matches
  <2>2. /\ text[1] \in Texts /\ text[1][1] = "number" /\ text[1][3] = 4
        /\ text[2] = Word("-") /\ text[4] = Word("-")
        /\ text[3] \in Texts /\ text[3][1] = "number" /\ text[3][3] = 2
        /\ text[5] \in Texts /\ text[5][1] = "number" /\ text[5][3] = 2
    <3>1. DOMAIN text = 1..5
      BY <1>0, <2>1
    <3>2. /\ 1 % 2 # 0 /\ 2 % 2 = 0 /\ 3 % 2 # 0 /\ 4 % 2 = 0 /\ 5 % 2 # 0
          /\ (1 + 1) \div 2 = 1 /\ (3 + 1) \div 2 = 2 /\ (5 + 1) \div 2 = 3
          /\ <<4, 2, 2>>[1] = 4 /\ <<4, 2, 2>>[2] = 2 /\ <<4, 2, 2>>[3] = 2
      OBVIOUS
    <3> QED
      BY <1>0, <1>4, <2>1, <3>1, <3>2, MatchesAt
  <2>3. /\ text[1] = Number(text[1][2], 4) /\ text[1][2] \in Nat
        /\ text[3] = Number(text[3][2], 2) /\ text[3][2] \in Nat
        /\ text[5] = Number(text[5][2], 2) /\ text[5][2] \in Nat
    BY <2>2, NumberIs
  <2>4. text = <<text[1], text[2], text[3], text[4], text[5]>>
    BY <1>0, <2>1
  <2>5. /\ Values(text) \in [1..3 -> Nat]
        /\ Values(text)[1] = text[1][2] /\ Values(text)[2] = text[3][2]
        /\ Values(text)[3] = text[5][2]
    <3>1. (5 + 1) \div 2 = 3
      OBVIOUS
    <3>2. \A i \in 1..3 : text[2 * i - 1][2] \in Nat
      BY <2>3
    <3> QED
      BY <2>1, <3>1, <3>2 DEF Values
  <2> QED
    BY <2>2, <2>3, <2>4, <2>5 DEF DayName
<1> QED
  BY <1>1, <1>2, <1>3, <1>4

(* And the other way round *)
LEMMA NamesMatch ==
    /\ \A y : Matches(YearName(y), <<4>>) /\ YearName(y)[1][2] = y
    /\ \A m : /\ Matches(MonthName(m), <<4, 2>>)
              /\ Values(MonthName(m)) = <<m[1], m[2]>>
    /\ \A d : /\ Matches(DayName(d), <<4, 2, 2>>)
              /\ Values(DayName(d)) = <<d[1], d[2], d[3]>>
<1>1. /\ 1 % 2 # 0 /\ 2 % 2 = 0 /\ 3 % 2 # 0 /\ 4 % 2 = 0 /\ 5 % 2 # 0
      /\ (1 + 1) \div 2 = 1 /\ (3 + 1) \div 2 = 2 /\ (5 + 1) \div 2 = 3
  OBVIOUS
<1>2. ASSUME NEW y PROVE Matches(YearName(y), <<4>>) /\ YearName(y)[1][2] = y
  BY <1>1 DEF Matches, YearName, Number
<1>3. ASSUME NEW m
      PROVE  Matches(MonthName(m), <<4, 2>>) /\ Values(MonthName(m)) = <<m[1], m[2]>>
  <2>1. Len(MonthName(m)) = 3 /\ DOMAIN MonthName(m) = 1..3
    BY DEF MonthName
  <2>2. /\ MonthName(m)[1] = Number(m[1], 4) /\ MonthName(m)[2] = Word("-")
        /\ MonthName(m)[3] = Number(m[2], 2)
    BY DEF MonthName
  <2>3. Matches(MonthName(m), <<4, 2>>)
    <3>1. \A i \in 1..3 : i = 1 \/ i = 2 \/ i = 3
      OBVIOUS
    <3> QED
      BY <1>1, <2>1, <2>2, <3>1 DEF Matches, Number
  <2>4. Values(MonthName(m)) = [i \in 1..2 |-> MonthName(m)[2 * i - 1][2]]
    BY <1>1, <2>1 DEF Values
  <2>5. [i \in 1..2 |-> MonthName(m)[2 * i - 1][2]] = <<m[1], m[2]>>
    <3>1. /\ MonthName(m)[2 * 1 - 1][2] = m[1] /\ MonthName(m)[2 * 2 - 1][2] = m[2]
      BY <2>2 DEF Number
    <3> QED
      BY <3>1
  <2> QED
    BY <2>3, <2>4, <2>5
<1>4. ASSUME NEW d
      PROVE  Matches(DayName(d), <<4, 2, 2>>) /\ Values(DayName(d)) = <<d[1], d[2], d[3]>>
  <2>1. Len(DayName(d)) = 5 /\ DOMAIN DayName(d) = 1..5
    BY DEF DayName
  <2>2. /\ DayName(d)[1] = Number(d[1], 4) /\ DayName(d)[2] = Word("-")
        /\ DayName(d)[3] = Number(d[2], 2) /\ DayName(d)[4] = Word("-")
        /\ DayName(d)[5] = Number(d[3], 2)
    BY DEF DayName
  <2>3. Matches(DayName(d), <<4, 2, 2>>)
    <3>1. \A i \in 1..5 : i = 1 \/ i = 2 \/ i = 3 \/ i = 4 \/ i = 5
      OBVIOUS
    <3> QED
      BY <1>1, <2>1, <2>2, <3>1 DEF Matches, Number
  <2>4. Values(DayName(d)) = [i \in 1..3 |-> DayName(d)[2 * i - 1][2]]
    BY <1>1, <2>1 DEF Values
  <2>5. [i \in 1..3 |-> DayName(d)[2 * i - 1][2]] = <<d[1], d[2], d[3]>>
    <3>1. /\ DayName(d)[2 * 1 - 1][2] = d[1] /\ DayName(d)[2 * 2 - 1][2] = d[2]
          /\ DayName(d)[2 * 3 - 1][2] = d[3]
      BY <2>2 DEF Number
    <3> QED
      BY <3>1
  <2> QED
    BY <2>3, <2>4, <2>5
<1> QED
  BY <1>2, <1>3, <1>4

-----------------------------------------------------------------------------
(* A date of which nothing was over a limit *)
LEMMA ParsedIsWritten ==
    ASSUME NEW d \in [1..3 -> Nat], IsDay(ParsedDay(d))
    PROVE  ParsedDay(d) = d
<1> DEFINE year == Limited(d[1], 3000)
           mm == Limited(d[2], 13)
           dd == Limited(d[3], 1 + Days(year, mm))
<1>1. ParsedDay(d) = <<year, mm, dd>>
  BY DEF ParsedDay
<1>2. year # 0 /\ mm # 0 /\ dd # 0
  BY <1>1 DEF IsDay
<1>3. year = d[1] /\ mm = d[2] /\ dd = d[3]
  BY <1>2 DEF Limited
<1> HIDE DEF year, mm, dd
<1> QED
  BY <1>1, <1>3

(* Whatever can be read as a year, a month or a day is written as one. *)
LEMMA DatesAreRead ==
    ASSUME NEW text \in Seq(Texts)
    PROVE  /\ YearIn(text) # 0 => text = YearName(YearIn(text)) /\ YearIn(text) \in YearNumbers
           /\ MonthIn(text)[1] # 0 /\ MonthIn(text)[2] # 0 =>
                 text = MonthName(MonthIn(text))
           /\ IsDay(DayIn(text)) => text = DayName(DayIn(text))
<1>1. ASSUME YearIn(text) # 0
      PROVE  text = YearName(YearIn(text)) /\ YearIn(text) \in YearNumbers
  <2>1. Matches(text, <<4>>)
    BY <1>1 DEF YearIn
  <2>2. text = YearName(text[1][2]) /\ text[1][2] \in Nat
    BY <2>1, MatchesIs
  <2>3. YearIn(text) = Limited(text[1][2], 3000)
    BY <2>1 DEF YearIn
  <2>4. YearIn(text) = text[1][2] /\ text[1][2] < 3000
    BY <1>1, <2>3 DEF Limited
  <2>5. \A y \in Nat : y # 0 /\ y < 3000 => y \in YearNumbers
    BY SMT DEF YearNumbers
  <2> QED
    BY <1>1, <2>2, <2>4, <2>5
<1>2. ASSUME MonthIn(text)[1] # 0, MonthIn(text)[2] # 0
      PROVE  text = MonthName(MonthIn(text))
  <2>1. Matches(text, <<4, 2>>)
    <3>1. CASE ~Matches(text, <<4, 2>>)
      <4>1. MonthIn(text) = <<0, 0>>
        BY <3>1 DEF MonthIn
      <4> QED
        BY <1>2, <4>1
    <3> QED
      BY <3>1
  <2>2. text = MonthName(Values(text)) /\ Values(text) \in [1..2 -> Nat]
    BY <2>1, MatchesIs
  <2>3. MonthIn(text) = <<Limited(Values(text)[1], 3000), Limited(Values(text)[2], 13)>>
    BY <2>1 DEF MonthIn
  <2>4. MonthIn(text)[1] = Values(text)[1] /\ MonthIn(text)[2] = Values(text)[2]
    BY <1>2, <2>3 DEF Limited
  <2> QED
    BY <2>2, <2>4 DEF MonthName
<1>3. ASSUME IsDay(DayIn(text))
      PROVE  text = DayName(DayIn(text))
  <2>1. Matches(text, <<4, 2, 2>>)
    BY <1>3 DEF DayIn, NoDay, IsDay
  <2>2. text = DayName(Values(text)) /\ Values(text) \in [1..3 -> Nat]
    BY <2>1, MatchesIs
  <2>3. DayIn(text) = ParsedDay(Values(text))
    BY <2>1 DEF DayIn
  <2> QED
    BY <1>3, <2>2, <2>3, ParsedIsWritten
<1> QED
  BY <1>1, <1>2, <1>3

(* And so they are read again. *)
LEMMA DatesAreWritten ==
    /\ \A y \in YearNumbers : YearIn(YearName(y)) = y
    /\ \A y \in YearNumbers, mm \in 1..12 : MonthIn(MonthName(<<y, mm>>)) = <<y, mm>>
    /\ \A d \in [1..3 -> Nat] : DayIn(DayName(d)) = ParsedDay(d)
<1>1. ASSUME NEW y \in YearNumbers PROVE YearIn(YearName(y)) = y
  <2>1. Matches(YearName(y), <<4>>) /\ YearName(y)[1][2] = y
    BY NamesMatch
  <2>2. y < 3000
    BY SMT DEF YearNumbers
  <2> QED
    BY <2>1, <2>2 DEF YearIn, Limited
<1>2. ASSUME NEW y \in YearNumbers, NEW mm \in 1..12
      PROVE  MonthIn(MonthName(<<y, mm>>)) = <<y, mm>>
  <2> DEFINE m == <<y, mm>>
  <2>1. Matches(MonthName(m), <<4, 2>>) /\ Values(MonthName(m)) = <<m[1], m[2]>>
    BY NamesMatch
  <2>2. MonthIn(MonthName(m)) = <<Limited(m[1], 3000), Limited(m[2], 13)>>
    BY <2>1 DEF MonthIn
  <2>3. y < 3000 /\ mm < 13
    BY SMT DEF YearNumbers
  <2> QED
    BY <2>2, <2>3 DEF Limited
<1>3. ASSUME NEW d \in [1..3 -> Nat] PROVE DayIn(DayName(d)) = ParsedDay(d)
  <2>1. Matches(DayName(d), <<4, 2, 2>>) /\ Values(DayName(d)) = <<d[1], d[2], d[3]>>
    BY NamesMatch
  <2>2. d = <<d[1], d[2], d[3]>>
    OBVIOUS
  <2> QED
    BY <2>1, <2>2 DEF DayIn
<1> QED
  BY <1>1, <1>2, <1>3

(* The first "_" in a text is found if there is any. *)
LEMMA UnderscoreIsFirst ==
    ASSUME NEW text, NEW N \in Nat, N = Len(text)
    PROVE  /\ FirstBar(text) = 0
              \/ (FirstBar(text) \in 1..N /\ text[FirstBar(text)] = Underscore)
           /\ \A i \in 1..N : text[i] = Underscore => FirstBar(text) \in 1..i
<1> DEFINE I == {i \in 1..N : text[i] = Underscore}
<1>1. FirstBar(text) = IF I # {} THEN Min(I) ELSE 0
  BY DEF SelectInSeq, FirstBar
<1>2. CASE I = {}
  BY <1>1, <1>2
<1>3. CASE I # {}
  <2>1. PICK k \in I : \A m \in I : k <= m
    <3>1. I \in SUBSET Nat
      OBVIOUS
    <3> HIDE DEF I
    <3> QED
      BY <1>3, <3>1, LeastElement
  <2>2. Min(I) \in I /\ \A m \in I : Min(I) <= m
    BY <2>1 DEF Min
  <2>3. PICK c : c = FirstBar(text)
    OBVIOUS
  <2>4. c \in I /\ \A m \in I : c <= m
    BY <1>1, <1>3, <2>2, <2>3
  <2>5. \A i \in I : c \in 1..i
    BY <2>4
  <2> QED
    BY <2>3, <2>4, <2>5
<1> QED
  BY <1>2, <1>3

(* A name, as PhotoIn takes it apart *)
Digit1(x) == [NoName EXCEPT !.serial = x[2], !.digits = x[3]]

NameAs(date, width, x) ==
    [[Digit1(x) EXCEPT !.suffix = ".jpg"] EXCEPT !.date = date, !.width = width]

(* What it makes of one which ends in "_", a number and ".jpg" *)
LEMMA PhotoOfNamed ==
    ASSUME NEW date, NEW x
    PROVE  /\ PhotoOf(NameAs(date, 10, x)) =
                 [day |-> ParsedDay(date), serial |-> Strtou(x[2], 65000), digits |-> x[3]]
           /\ PhotoOf(NameAs(date, 6, x)) =
                 [day |-> ShortDate(date), serial |-> Strtou(x[2], 65000), digits |-> x[3]]
BY DEF PhotoOf, NameAs, Digit1, NoName, Serial

(* yymmdd, and the photo of a date and a serial number *)
ShortOf(h) == ShortDate(<<h \div 10000, (h \div 100) % 100, h % 100>>)

NamedPhoto(d, x) == [day |-> d, serial |-> Strtou(x[2], 65000), digits |-> x[3]]

(* What is behind the "_" of a name *)
LEMMA PhotoFromNamed ==
    ASSUME NEW date, NEW x \in Texts, x[1] = "number"
    PROVE  /\ Matches(date, <<4, 2, 2>>) =>
                PhotoFrom(date, <<x, Word(".jpg")>>) = NamedPhoto(ParsedDay(Values(date)), x)
           /\ Matches(date, <<6>>) =>
                PhotoFrom(date, <<x, Word(".jpg")>>) = NamedPhoto(ShortOf(date[1][2]), x)
<1> DEFINE tail == <<x, Word(".jpg")>>
           name == [SerialIn(Front(tail)) EXCEPT !.suffix = ".jpg"]
           named == tail # <<>> /\ Last(tail) = Word(".jpg")
           h == date[1][2]
           yymmdd == <<h \div 10000, (h \div 100) % 100, h % 100>>
<1>2. named /\ Front(tail) = <<x>>
  BY FrontOfTwo
<1>3. SerialIn(<<x>>) = Digit1(x)
  BY DEF SerialIn, Digit1
<1>4. name = [Digit1(x) EXCEPT !.suffix = ".jpg"]
  BY <1>2, <1>3
<1>5. ~(Matches(date, <<4, 2, 2>>) /\ Matches(date, <<6>>))
  BY DEF Matches
<1>6. ASSUME Matches(date, <<4, 2, 2>>)
      PROVE  PhotoFrom(date, tail) = PhotoOf([name EXCEPT !.date = Values(date), !.width = 10])
  <2> HIDE DEF tail
  <2> QED
    BY <1>2, <1>5, <1>6 DEF PhotoFrom
<1>7. ASSUME Matches(date, << 6 >>)
      PROVE  PhotoFrom(date, tail)
                = PhotoOf([[name EXCEPT !.width = 6] EXCEPT !.date = yymmdd])
  <2> HIDE DEF tail
  <2> QED
    BY <1>2, <1>5, <1>7 DEF PhotoFrom
<1> HIDE DEF tail, name
<1>8. \A d : [[name EXCEPT !.width = 6] EXCEPT !.date = d] = NameAs(d, 6, x)
  BY <1>4 DEF NameAs, Digit1, NoName
<1>9. \A d : [[name EXCEPT !.date = d] EXCEPT !.width = 10] = NameAs(d, 10, x)
  BY <1>4 DEF NameAs, Digit1, NoName
<1>10. Matches(date, <<4, 2, 2>>) => PhotoFrom(date, tail) = PhotoOf(NameAs(Values(date), 10, x))
  BY <1>6, <1>9
<1>11. Matches(date, <<6>>) => PhotoFrom(date, tail) = PhotoOf(NameAs(yymmdd, 6, x))
  <2> HIDE DEF yymmdd
  <2> QED
    BY <1>7, <1>8
<1>12. PhotoOf(NameAs(Values(date), 10, x)) = NamedPhoto(ParsedDay(Values(date)), x)
  BY PhotoOfNamed DEF NamedPhoto
<1>13. PhotoOf(NameAs(yymmdd, 6, x)) = NamedPhoto(ShortDate(yymmdd), x)
  <2> HIDE DEF yymmdd
  <2> QED
    BY PhotoOfNamed DEF NamedPhoto
<1>14. ShortOf(date[1][2]) = ShortDate(yymmdd)
  BY DEF ShortOf
<1> HIDE DEF yymmdd
<1> QED
  BY <1>10, <1>11, <1>12, <1>13, <1>14 DEF tail

(* A text which can be read as a photo is in three parts. *)
LEMMA PhotoInParts ==
    ASSUME NEW text \in Seq(Texts), IsPhoto(PhotoIn(text))
    PROVE  \E c \in 1..Len(text) :
              LET date == SubSeq(text, 1, c - 1)
                  x == text[c + 1]
              IN  /\ c = FirstBar(text) /\ text[c] = Underscore /\ Len(text) = c + 2
                  /\ text[c + 2] = Word(".jpg")
                  /\ x \in Texts /\ x[1] = "number"
                  /\ date \in Seq(Texts) /\ Len(date) = c - 1
                  /\ \A i \in 1..(c - 1) : date[i] = text[i]
                  /\ Matches(date, <<4, 2, 2>>) \/ Matches(date, <<6>>)
                  /\ PhotoIn(text) = PhotoFrom(date, <<x, Word(".jpg")>>)
<1> DEFINE c == FirstBar(text)
           N == Len(text)
           date == SubSeq(text, 1, c - 1)
           tail == SubSeq(text, c + 1, N)
           name == [SerialIn(Front(tail)) EXCEPT !.suffix = ".jpg"]
<1>0. N \in Nat
  BY LenProperties
<1>1. c # 0 /\ PhotoIn(text) = PhotoFrom(date, tail)
  <2>1. ~IsPhoto(NoPhoto)
    BY DEF IsPhoto, IsDay, NoPhoto, NoDay
  <2> QED
    BY <2>1 DEF PhotoIn
<1>2. c \in 1..N /\ text[c] = Underscore
  BY <1>0, <1>1, UnderscoreIsFirst
<1>3. /\ date \in Seq(Texts) /\ Len(date) = c - 1
      /\ \A i \in 1..(c - 1) : date[i] = text[i]
  <2>1. 1 \in Nat /\ c - 1 \in Nat /\ 0 < 1 /\ 1 <= (c - 1) + 1 /\ c - 1 <= N /\ (c - 1) + 1 - 1 = c - 1
    BY <1>0, <1>2
  <2>2. \A i \in 1..(c - 1) : 1 + i - 1 = i
    OBVIOUS
  <2> HIDE DEF c
  <2> QED
    BY <2>1, <2>2, PartOf
<1>4. /\ tail \in Seq(Texts) /\ Len(tail) = N - c
      /\ \A i \in 1..(N - c) : tail[i] = text[c + i]
  <2>1. c + 1 \in Nat /\ 0 < c + 1 /\ c + 1 <= N + 1 /\ N <= N /\ N + 1 - (c + 1) = N - c
    BY <1>0, <1>2
  <2>2. \A i \in 1..(N - c) : (c + 1) + i - 1 = c + i
    BY <1>0, <1>2
  <2> HIDE DEF c
  <2> QED
    BY <1>0, <2>1, <2>2, PartOf
<1> HIDE DEF c, N, date, tail, name
<1>5. /\ tail # <<>> /\ Last(tail) = Word(".jpg")
      /\ Matches(date, <<4, 2, 2>>) \/ Matches(date, <<6>>)
  <2>1. ~IsPhoto(NoPhoto)
    BY DEF IsPhoto, IsDay, NoPhoto, NoDay
  <2> QED
    BY <1>1, <2>1 DEF PhotoFrom
<1>6. PhotoFrom(date, tail).digits # 0
  BY <1>1 DEF IsPhoto
<1>7. Len(Front(tail)) = 1 /\ Front(tail)[1][1] = "number"
  <2> SUFFICES ASSUME ~(Len(Front(tail)) = 1 /\ Front(tail)[1][1] = "number")
               PROVE  FALSE
    OBVIOUS
  <2>1. SerialIn(Front(tail)) = NoName
    BY DEF SerialIn
  <2>2. name = [NoName EXCEPT !.suffix = ".jpg"]
    BY <2>1 DEF name
  <2>3. \A d : PhotoOf([[name EXCEPT !.date = d] EXCEPT !.width = 10]).digits = 0
    BY <2>2 DEF PhotoOf, NoName, NoPhoto
  <2>4. \A d : PhotoOf([[name EXCEPT !.width = 6] EXCEPT !.date = d]).digits = 0
    BY <2>2 DEF PhotoOf, NoName, NoPhoto
  <2> DEFINE h == date[1][2]
             yymmdd == <<h \div 10000, (h \div 100) % 100, h % 100>>
  <2>5. ~(Matches(date, <<4, 2, 2>>) /\ Matches(date, <<6>>))
    BY DEF Matches
  <2>6. Matches(date, <<4, 2, 2>>) =>
           PhotoFrom(date, tail) = PhotoOf([[name EXCEPT !.date = Values(date)] EXCEPT !.width = 10])
    BY <1>5, <2>5 DEF PhotoFrom, name
  <2>7. Matches(date, <<6>>) =>
           PhotoFrom(date, tail) = PhotoOf([[name EXCEPT !.width = 6] EXCEPT !.date = yymmdd])
    BY <1>5, <2>5 DEF PhotoFrom, name
  <2> HIDE DEF yymmdd
  <2> QED
    BY <1>5, <1>6, <2>3, <2>4, <2>6, <2>7
<1>8. Len(tail) = 2
  <2>1. Len(tail) \in Nat /\ Len(tail) > 0
    BY <1>4, <1>5
  <2>2. Len(Front(tail)) = Len(tail) - 1
    <3>1. 1 \in Nat /\ Len(tail) - 1 \in Nat /\ 0 < 1 /\ 1 <= (Len(tail) - 1) + 1
          /\ Len(tail) - 1 <= Len(tail) /\ (Len(tail) - 1) + 1 - 1 = Len(tail) - 1
      BY <2>1
    <3>2. Front(tail) = SubSeq(tail, 1, Len(tail) - 1)
      BY <1>5 DEF Front
    <3> QED
      BY <1>4, <3>1, <3>2, PartOf
  <2>3. Len(Front(tail)) = 1
    BY <1>7
  <2>4. 1 = Len(tail) - 1
    BY <2>2, <2>3
  <2> HIDE DEF c, N
  <2> QED
    BY <2>1, <2>4
<1>9. N = c + 2 /\ tail[1] = text[c + 1] /\ tail[2] = text[c + 2] /\ tail = <<tail[1], tail[2]>>
  <2>1. N = c + 2
    <3>1. c \in 1..N
      BY <1>2
    <3>2. N - c = 2
      BY <1>4, <1>8
    <3> QED
      BY <1>0, <3>1, <3>2
  <2> QED
    BY <1>2, <1>4, <1>8, <2>1
<1>10. tail[2] = Word(".jpg") /\ Front(tail) = <<tail[1]>>
  BY <1>5, <1>9, FrontOfTwo
<1>11. tail[1][1] = "number" /\ tail[1] \in Texts
  <2>1. tail[1] \in Texts
    <3>1. 1 \in 1..Len(tail)
      BY <1>8
    <3>2. tail \in Seq(Texts)
      BY <1>4
    <3> QED
      BY <3>1, <3>2, ElementOfSeq
  <2>2. Front(tail)[1][1] = "number"
    BY <1>7
  <2>3. <<tail[1]>>[1] = tail[1]
    OBVIOUS
  <2> QED
    BY <1>10, <2>1, <2>2, <2>3
<1>12. /\ c = FirstBar(text) /\ text[c] = Underscore /\ Len(text) = c + 2
       /\ text[c + 2] = Word(".jpg")
       /\ text[c + 1] \in Texts /\ text[c + 1][1] = "number"
       /\ PhotoIn(text) = PhotoFrom(date, <<text[c + 1], Word(".jpg")>>)
  BY <1>1, <1>2, <1>9, <1>10, <1>11 DEF c, N
<1> QED
  <2>1. c \in 1..Len(text)
    BY <1>2 DEF N
  <2>2. date = SubSeq(text, 1, c - 1)
    BY DEF date
  <2> QED
    BY <1>3, <1>5, <1>12, <2>1, <2>2

(* So it is a date in one of two forms, "_", a serial number and ".jpg". *)
LEMMA PhotoInOnly ==
    ASSUME NEW text \in Seq(Texts), IsPhoto(PhotoIn(text))
    PROVE  LET p == PhotoIn(text)
           IN  /\ p.digits \in Nat
               /\ \E s \in Nat :
                     /\ Strtou(s, 65000) = p.serial
                     /\ \/ text = LongName(p.day, s, p.digits)
                        \/ \E h \in Nat : /\ h < 10^6 /\ p.day = ShortOf(h)
                                          /\ text = ShortName(h, s, p.digits)
<1>1. PICK c \in 1..Len(text) :
              LET date == SubSeq(text, 1, c - 1)
                  x == text[c + 1]
              IN  /\ c = FirstBar(text) /\ text[c] = Underscore /\ Len(text) = c + 2
                  /\ text[c + 2] = Word(".jpg")
                  /\ x \in Texts /\ x[1] = "number"
                  /\ date \in Seq(Texts) /\ Len(date) = c - 1
                  /\ \A i \in 1..(c - 1) : date[i] = text[i]
                  /\ Matches(date, <<4, 2, 2>>) \/ Matches(date, <<6>>)
                  /\ PhotoIn(text) = PhotoFrom(date, <<x, Word(".jpg")>>)
  BY PhotoInParts
<1> DEFINE date == SubSeq(text, 1, c - 1)
           x == text[c + 1]
           s == x[2]
           p == PhotoIn(text)
<1>2. x = Number(s, x[3]) /\ s \in Nat /\ x[3] \in Nat
  <2>1. x \in Texts /\ x[1] = "number"
    BY <1>1
  <2> HIDE DEF x
  <2> QED
    BY <2>1, NumberIs
<1>5. /\ x \in Texts /\ x[1] = "number" /\ p = PhotoFrom(date, <<x, Word(".jpg")>>)
      /\ Matches(date, <<4, 2, 2>>) \/ Matches(date, <<6>>)
      /\ c \in Nat /\ Len(date) = c - 1
  BY <1>1, LenProperties
<1>3. CASE Matches(date, <<4, 2, 2>>)
  <2>1. p = NamedPhoto(ParsedDay(Values(date)), x)
    <3> HIDE DEF date, x, p
    <3> QED
      BY <1>3, <1>5, PhotoFromNamed
  <2>2. p = [day |-> ParsedDay(Values(date)), serial |-> Strtou(s, 65000), digits |-> x[3]]
    BY <2>1 DEF NamedPhoto
  <2>3. date = DayName(Values(date)) /\ Values(date) \in [1..3 -> Nat]
    BY <1>1, <1>3, MatchesIs
  <2>4. p.day = Values(date)
    <3>1. IsDay(ParsedDay(Values(date)))
      BY <2>2 DEF IsPhoto
    <3> HIDE DEF p, date
    <3> QED
      BY <2>2, <2>3, <3>1, ParsedIsWritten
  <2>5. c = 6
    <3>1. Len(date) = 5
      BY <1>3 DEF Matches
    <3>2. Len(date) = c - 1 /\ c \in Nat
      BY <1>5
    <3>3. c - 1 = 5
      <4> HIDE DEF date
      <4> QED
        BY <3>1, <3>2
    <3> QED
      BY <3>2, <3>3
  <2>6. /\ text[1] = date[1] /\ text[2] = date[2] /\ text[3] = date[3] /\ text[4] = date[4]
        /\ text[5] = date[5]
    <3>1. \A i \in 1..5 : date[i] = text[i]
      BY <1>1, <2>5
    <3> HIDE DEF date
    <3> QED
      BY <3>1
  <2>7. Len(text) = 8 /\ text[6] = Underscore /\ text[7] = x /\ text[8] = Word(".jpg")
    BY <1>1, <2>5
  <2>8. /\ date[1] = Number(Values(date)[1], 4) /\ date[2] = Word("-")
        /\ date[3] = Number(Values(date)[2], 2) /\ date[4] = Word("-")
        /\ date[5] = Number(Values(date)[3], 2)
    <3> DEFINE d == Values(date)
    <3>1. date = DayName(d)
      BY <2>3
    <3> HIDE DEF date, d
    <3>2. /\ DayName(d)[1] = Number(d[1], 4) /\ DayName(d)[2] = Word("-")
          /\ DayName(d)[3] = Number(d[2], 2) /\ DayName(d)[4] = Word("-")
          /\ DayName(d)[5] = Number(d[3], 2)
      BY DEF DayName
    <3> QED
      BY <3>1, <3>2 DEF d
  <2> HIDE DEF date, x, p
  <2>9. text = <<text[1], text[2], text[3], text[4], text[5], text[6], text[7], text[8]>>
    BY <2>7
  <2>10. text = LongName(p.day, s, p.digits)
    BY <1>2, <2>2, <2>4, <2>6, <2>7, <2>8, <2>9 DEF LongName
  <2>11. p.digits = x[3] /\ p.serial = Strtou(s, 65000)
    BY <2>2
  <2> HIDE DEF s
  <2> QED
    BY <1>2, <2>10, <2>11 DEF p
<1>4. CASE Matches(date, <<6>>)
  <2> DEFINE h == date[1][2]
  <2>1. p = NamedPhoto(ShortOf(h), x)
    <3> HIDE DEF date, x, p
    <3> QED
      BY <1>4, <1>5, PhotoFromNamed
  <2>2. p = [day |-> ShortOf(h), serial |-> Strtou(s, 65000), digits |-> x[3]]
    BY <2>1 DEF NamedPhoto
  <2>3. Len(date) = 1 /\ date[1] = Number(h, 6) /\ h \in Nat /\ h < 10^6
    BY <1>1, <1>4, MatchesIs
  <2>4. p.day = ShortOf(h)
    <3> HIDE DEF h, p
    <3> QED
      BY <2>2
  <2>5. c = 2
    <3>2. Len(date) = c - 1 /\ c \in Nat
      BY <1>5
    <3>3. Len(date) = 1
      BY <2>3
    <3>4. c - 1 = 1
      <4> HIDE DEF date
      <4> QED
        BY <3>2, <3>3
    <3> QED
      BY <3>2, <3>4
  <2>6. text[1] = date[1]
    <3>1. \A i \in 1..1 : date[i] = text[i]
      BY <1>1, <2>5
    <3> HIDE DEF date
    <3> QED
      BY <3>1
  <2>7. Len(text) = 4 /\ text[2] = Underscore /\ text[3] = x /\ text[4] = Word(".jpg")
    BY <1>1, <2>5
  <2> HIDE DEF date, x, p, h
  <2>9. text = <<text[1], text[2], text[3], text[4]>>
    BY <2>7
  <2>10. text = ShortName(h, s, p.digits)
    BY <1>2, <2>2, <2>3, <2>6, <2>7, <2>9 DEF ShortName
  <2>11. p.digits = x[3] /\ p.serial = Strtou(s, 65000)
    BY <2>2
  <2> HIDE DEF s
  <2>12. \E k \in Nat : /\ k < 10^6 /\ p.day = ShortOf(k)
                        /\ text = ShortName(k, s, p.digits)
    BY <2>3, <2>4, <2>10
  <2> QED
    BY <1>2, <2>11, <2>12 DEF p
<1>6. Matches(date, <<4, 2, 2>>) \/ Matches(date, <<6>>)
  BY <1>5
<1> HIDE DEF date
<1> QED
  BY <1>3, <1>4, <1>6

(* Numbers and dashes are not the "_". *)
LEMMA NotUnderscore ==
    /\ \A x, y : Number(x, y) # Underscore
    /\ Word("-") # Underscore
<1>1. \A x, y : Number(x, y)[1] = "number"
  BY DEF Number
<1>2. Underscore[1] = "word"
  BY Zenon DEF Underscore, Word
<1>3. "word" # "number"
  OBVIOUS
<1>4. Word("-")[2] = "-"
  BY DEF Word
<1>5. Underscore[2] = "_"
  BY Zenon DEF Underscore, Word
<1>6. "-" # "_"
  BY Zenon
<1> QED
  BY Zenon, <1>1, <1>2, <1>3, <1>4, <1>5, <1>6

(* A text is taken apart at its first "_". *)
LEMMA PhotoInApart ==
    ASSUME NEW text \in Seq(Texts), NEW c \in Nat, 0 < c, Len(text) = c + 2,
           \A i \in 1..(c - 1) : text[i] # Underscore, text[c] = Underscore
    PROVE  LET date == SubSeq(text, 1, c - 1)
           IN  /\ PhotoIn(text) = PhotoFrom(date, <<text[c + 1], text[c + 2]>>)
               /\ date \in Seq(Texts) /\ Len(date) = c - 1
               /\ \A i \in 1..(c - 1) : date[i] = text[i]
<1> DEFINE date == SubSeq(text, 1, c - 1)
<1>1. FirstBar(text) = c
  <2> DEFINE k == FirstBar(text)
  <2>1. c \in 1..Len(text) /\ Len(text) \in Nat
    BY LenProperties
  <2>2. k \in 1..c
    BY <2>1, UnderscoreIsFirst
  <2>3. k # 0 /\ text[k] = Underscore
    BY <2>1, <2>2, UnderscoreIsFirst
  <2> HIDE DEF k
  <2>4. k \notin 1..(c - 1)
    BY <2>3
  <2>5. k = c
    BY <2>2, <2>4
  <2> QED
    BY <2>5 DEF k
<1>2. SubSeq(text, c + 1, Len(text)) = <<text[c + 1], text[c + 2]>>
  BY LastTwo
<1>3. PhotoIn(text) = PhotoFrom(date, <<text[c + 1], text[c + 2]>>)
  <2>1. PhotoIn(text) = IF FirstBar(text) = 0 THEN NoPhoto
                        ELSE PhotoFrom(SubSeq(text, 1, FirstBar(text) - 1),
                                       SubSeq(text, FirstBar(text) + 1, Len(text)))
    BY Zenon DEF PhotoIn
  <2>2. c # 0
    OBVIOUS
  <2> QED
    BY Zenon, <1>1, <1>2, <2>1, <2>2
<1>4. /\ date \in Seq(Texts) /\ Len(date) = c - 1
      /\ \A i \in 1..(c - 1) : date[i] = text[i]
  <2>1. 1 \in Nat /\ c - 1 \in Nat /\ 0 < 1 /\ 1 <= (c - 1) + 1 /\ c - 1 <= Len(text) /\ (c - 1) + 1 - 1 = c - 1
    OBVIOUS
  <2>2. \A i \in 1..(c - 1) : 1 + i - 1 = i
    OBVIOUS
  <2> QED
    BY <2>1, <2>2, PartOf
<1> QED
  BY <1>3, <1>4

(* And so both forms of a name are read. *)
LEMMA PhotoInNamed ==
    ASSUME NEW text \in Seq(Texts), NEW s, NEW g
    PROVE  /\ \A d \in [1..3 -> Nat] : text = LongName(d, s, g) =>
                 PhotoIn(text) = NamedPhoto(ParsedDay(d), Number(s, g))
           /\ \A h : text = ShortName(h, s, g) =>
                 PhotoIn(text) = NamedPhoto(ShortOf(h), Number(s, g))
<1> DEFINE x == Number(s, g)
<1>1. ASSUME NEW d \in [1..3 -> Nat], text = LongName(d, s, g)
      PROVE  PhotoIn(text) = NamedPhoto(ParsedDay(d), x)
  <2> DEFINE date == SubSeq(text, 1, 5)
  <2>1. /\ Len(text) = 8 /\ text[6] = Underscore /\ text[7] = x /\ text[8] = Word(".jpg")
        /\ text[1] = Number(d[1], 4) /\ text[2] = Word("-")
        /\ text[3] = Number(d[2], 2) /\ text[4] = Word("-") /\ text[5] = Number(d[3], 2)
    BY <1>1 DEF LongName
  <2>2. \A i \in 1..5 : text[i] # Underscore
    <3>1. \A i \in 1..5 : i = 1 \/ i = 2 \/ i = 3 \/ i = 4 \/ i = 5
      OBVIOUS
    <3> QED
      BY <2>1, <3>1, NotUnderscore
  <2>3. /\ PhotoIn(text) = PhotoFrom(date, <<text[7], text[8]>>)
        /\ date \in Seq(Texts) /\ Len(date) = 5
        /\ \A i \in 1..5 : date[i] = text[i]
    <3>1. 6 - 1 = 5 /\ 6 + 1 = 7 /\ 6 + 2 = 8 /\ 0 < 6 /\ 6 \in Nat
      OBVIOUS
    <3>2. Len(text) = 6 + 2 /\ \A i \in 1..(6 - 1) : text[i] # Underscore
      BY <2>1, <2>2, <3>1
    <3>3. LET p == SubSeq(text, 1, 6 - 1)
          IN  /\ PhotoIn(text) = PhotoFrom(p, <<text[6 + 1], text[6 + 2]>>)
              /\ p \in Seq(Texts) /\ Len(p) = 6 - 1
              /\ \A i \in 1..(6 - 1) : p[i] = text[i]
      BY Zenon, <2>1, <3>1, <3>2, PhotoInApart
    <3> QED
      BY <3>1, <3>3
  <2> HIDE DEF date
  <2>4. date = DayName(d)
    <3>1. date = <<date[1], date[2], date[3], date[4], date[5]>>
      BY <2>3
    <3>2. /\ date[1] = text[1] /\ date[2] = text[2] /\ date[3] = text[3]
          /\ date[4] = text[4] /\ date[5] = text[5]
      BY <2>3
    <3> QED
      BY <2>1, <3>1, <3>2 DEF DayName
  <2>5. Matches(date, <<4, 2, 2>>) /\ Values(date) = d
    <3>1. d = <<d[1], d[2], d[3]>>
      OBVIOUS
    <3> QED
      BY <2>4, <3>1, NamesMatch
  <2>6. x \in Texts /\ x[1] = "number"
    <3>1. 7 \in 1..Len(text)
      BY <2>1
    <3> QED
      BY <2>1, <3>1, ElementOfSeq DEF Number
  <2> HIDE DEF x
  <2>7. PhotoFrom(date, <<x, Word(".jpg")>>) = NamedPhoto(ParsedDay(Values(date)), x)
    BY <2>5, <2>6, PhotoFromNamed
  <2> QED
    BY <2>1, <2>3, <2>5, <2>7
<1>2. ASSUME NEW h, text = ShortName(h, s, g)
      PROVE  PhotoIn(text) = NamedPhoto(ShortOf(h), x)
  <2> DEFINE date == SubSeq(text, 1, 1)
  <2>1. /\ Len(text) = 4 /\ text[2] = Underscore /\ text[3] = x /\ text[4] = Word(".jpg")
        /\ text[1] = Number(h, 6)
    BY <1>2 DEF ShortName
  <2>2. text[1] # Underscore
    BY <2>1, NotUnderscore
  <2>3. /\ PhotoIn(text) = PhotoFrom(date, <<text[3], text[4]>>)
        /\ date \in Seq(Texts) /\ Len(date) = 1
        /\ date[1] = text[1]
    <3>1. 2 - 1 = 1 /\ 2 + 1 = 3 /\ 2 + 2 = 4 /\ 0 < 2 /\ 2 \in Nat /\ 1 \in 1..1
      OBVIOUS
    <3>2. Len(text) = 2 + 2 /\ \A i \in 1..(2 - 1) : text[i] # Underscore
      BY <2>1, <2>2, <3>1
    <3> QED
      BY <2>1, <3>1, <3>2, PhotoInApart
  <2> HIDE DEF date
  <2>5. Matches(date, <<6>>) /\ date[1][2] = h
    <3>1. 2 * Len(<<6>>) - 1 = 1 /\ 1 % 2 # 0 /\ (1 + 1) \div 2 = 1 /\ <<6>>[1] = 6
      OBVIOUS
    <3>2. DOMAIN date = 1..1 /\ \A i \in 1..1 : i = 1
      BY <2>3
    <3>3. date[1][1] = "number" /\ date[1][3] = 6 /\ date[1][2] = h
      BY <2>1, <2>3 DEF Number
    <3> QED
      BY <2>3, <3>1, <3>2, <3>3 DEF Matches
  <2>6. x \in Texts /\ x[1] = "number"
    <3>1. 3 \in 1..Len(text)
      BY <2>1
    <3> QED
      BY <2>1, <3>1, ElementOfSeq DEF Number
  <2> HIDE DEF x
  <2>7. PhotoFrom(date, <<x, Word(".jpg")>>) = NamedPhoto(ShortOf(date[1][2]), x)
    BY <2>5, <2>6, PhotoFromNamed
  <2> QED
    BY <2>1, <2>3, <2>5, <2>7
<1> QED
  BY <1>1, <1>2

(* The number of a short date *)
ShortNumber(d) == 10000 * (d[1] % 100) + 100 * d[2] + d[3]

(* A short date is that of a day of this century, and the only one. *)
LEMMA ShortIsRead ==
    /\ \A h \in Nat : h < 10^6 /\ IsDay(ShortOf(h)) =>
          LET d == ShortOf(h)
          IN  d \in [1..3 -> Nat] /\ d[1] \in 2000..2099 /\ h = ShortNumber(d)
    /\ \A d \in [1..3 -> Nat] :
          IsDay(d) /\ d = ParsedDay(d) /\ d[1] \in 2000..2099 => ShortOf(ShortNumber(d)) = d
<1>1. ASSUME NEW h \in Nat, h < 10^6, IsDay(ShortOf(h))
      PROVE  LET d == ShortOf(h)
             IN  d \in [1..3 -> Nat] /\ d[1] \in 2000..2099 /\ h = ShortNumber(d)
  <2> DEFINE a == h \div 10000
             b == (h \div 100) % 100
             c == h % 100
  <2>1. a \in Nat /\ b \in Nat /\ c \in Nat
    OBVIOUS
  <2>2. h = 10000 * a + 100 * b + c
    OBVIOUS
  <2>3. a < 100
    BY <1>1
  <2>4. ShortOf(h) = Day(2000 + a, b, c)
    BY DEF ShortOf, ShortDate
  <2> HIDE DEF a, b, c
  <2>5. ShortOf(h) = <<2000 + a, b, c>>
    BY <1>1, <2>4 DEF Day, IsDay, NoDay
  <2>6. (2000 + a) % 100 = a
    BY <2>1, <2>3
  <2>7. <<2000 + a, b, c>> \in [1..3 -> Nat]
    BY <2>1
  <2>8. 2000 + a \in 2000..2099
    BY <2>1, <2>3
  <2> QED
    BY <2>2, <2>5, <2>6, <2>7, <2>8 DEF ShortNumber
<1>2. ASSUME NEW d \in [1..3 -> Nat], IsDay(d), d = ParsedDay(d), d[1] \in 2000..2099
      PROVE  ShortOf(ShortNumber(d)) = d
  <2>1. PICK y, mm, dd : y = d[1] /\ mm = d[2] /\ dd = d[3]
    OBVIOUS
  <2>2. /\ y \in 2000..2099 /\ mm \in Nat /\ dd \in Nat
        /\ mm # 0 /\ dd # 0
    BY <1>2, <2>1 DEF IsDay
  <2>3. mm < 13 /\ dd < 1 + Days(y, mm)
    <3>1. /\ d[2] = Limited(d[2], 13)
          /\ d[3] = Limited(d[3], 1 + Days(Limited(d[1], 3000), Limited(d[2], 13)))
      BY <1>2 DEF ParsedDay
    <3>2. y = Limited(y, 3000)
      BY <2>2 DEF Limited
    <3>3. mm < 13
      BY <2>1, <2>2, <3>1 DEF Limited
    <3>4. dd = Limited(dd, 1 + Days(y, mm))
      BY <2>1, <3>1, <3>2
    <3>5. dd < 1 + Days(y, mm)
      BY <2>2, <3>4 DEF Limited
    <3> QED
      BY <3>3, <3>5
  <2>4. Days(y, mm) \in 28..31
    BY DaysBound
  <2> DEFINE h == ShortNumber(d)
             a == y % 100
  <2>5. h = 10000 * a + 100 * mm + dd
    BY <2>1 DEF ShortNumber
  <2>6. a \in 0..99 /\ y = 2000 + a
    BY <2>2
  <2> HIDE DEF h, a
  <2>7. h \div 10000 = a /\ (h \div 100) % 100 = mm /\ h % 100 = dd
    <3>1. mm \in 1..12 /\ dd \in 1..31
      BY <2>2, <2>3, <2>4
    <3>2. h % 100 = dd /\ h \div 100 = 100 * a + mm
      BY <2>5, <2>6, <3>1
    <3>3. (100 * a + mm) % 100 = mm
      BY <2>6, <3>1
    <3>4. h \div 10000 = a
      BY <2>5, <2>6, <3>1
    <3> QED
      BY <3>2, <3>3, <3>4
  <2>8. ShortOf(h) = Day(2000 + a, mm, dd)
    BY <2>7 DEF ShortOf, ShortDate
  <2>9. Day(2000 + a, mm, dd) = <<y, mm, dd>>
    BY <2>2, <2>3, <2>4, <2>6 DEF Day
  <2>10. d = <<y, mm, dd>>
    BY <2>1
  <2> QED
    BY <2>8, <2>9, <2>10 DEF h
<1> QED
  BY <1>1, <1>2

(* Dates and names, as the properties write them *)
LEMMA NamesAreDated ==
    /\ \A y : Dated(<<4>>, <<y>>) = YearName(y)
    /\ \A m : Dated(<<4, 2>>, m) = MonthName(m)
    /\ \A d : Dated(<<4, 2, 2>>, d) = DayName(d)
<1>1. /\ 1 % 2 # 0 /\ 2 % 2 = 0 /\ 3 % 2 # 0 /\ 4 % 2 = 0 /\ 5 % 2 # 0
      /\ (1 + 1) \div 2 = 1 /\ (3 + 1) \div 2 = 2 /\ (5 + 1) \div 2 = 3
  OBVIOUS
<1>2. ASSUME NEW y PROVE Dated(<<4>>, <<y>>) = YearName(y)
  <2>1. 2 * Len(<<4>>) - 1 = 1 /\ <<4>>[1] = 4 /\ <<y>>[1] = y
    OBVIOUS
  <2> DEFINE t == Dated(<<4>>, <<y>>)
  <2>2. t = [i \in 1..1 |-> IF i % 2 = 0 THEN Word("-")
                             ELSE Number(<<y>>[(i + 1) \div 2], <<4>>[(i + 1) \div 2])]
    BY <2>1 DEF Dated
  <2>3. t[1] = Number(y, 4)
    BY <1>1, <2>1, <2>2
  <2>4. t = <<t[1]>>
    BY <2>2
  <2> QED
    BY <2>3, <2>4 DEF YearName
<1>3. ASSUME NEW m PROVE Dated(<<4, 2>>, m) = MonthName(m)
  <2>1. 2 * Len(<<4, 2>>) - 1 = 3 /\ <<4, 2>>[1] = 4 /\ <<4, 2>>[2] = 2
    OBVIOUS
  <2> DEFINE t == Dated(<<4, 2>>, m)
  <2>2. t = [i \in 1..3 |-> IF i % 2 = 0 THEN Word("-")
                             ELSE Number(m[(i + 1) \div 2], <<4, 2>>[(i + 1) \div 2])]
    BY <2>1 DEF Dated
  <2>3. t[1] = Number(m[1], 4) /\ t[2] = Word("-") /\ t[3] = Number(m[2], 2)
    BY <1>1, <2>1, <2>2
  <2>4. t = <<t[1], t[2], t[3]>>
    BY <2>2
  <2> QED
    BY <2>3, <2>4 DEF MonthName
<1>4. ASSUME NEW d PROVE Dated(<<4, 2, 2>>, d) = DayName(d)
  <2>1. 2 * Len(<<4, 2, 2>>) - 1 = 5 /\ <<4, 2, 2>>[1] = 4 /\ <<4, 2, 2>>[2] = 2 /\ <<4, 2, 2>>[3] = 2
    OBVIOUS
  <2> DEFINE t == Dated(<<4, 2, 2>>, d)
  <2>2. t = [i \in 1..5 |-> IF i % 2 = 0 THEN Word("-")
                             ELSE Number(d[(i + 1) \div 2], <<4, 2, 2>>[(i + 1) \div 2])]
    BY <2>1 DEF Dated
  <2>3. /\ t[1] = Number(d[1], 4) /\ t[2] = Word("-") /\ t[3] = Number(d[2], 2)
        /\ t[4] = Word("-") /\ t[5] = Number(d[3], 2)
    BY <1>1, <2>1, <2>2
  <2>4. t = <<t[1], t[2], t[3], t[4], t[5]>>
    BY <2>2
  <2> QED
    BY <2>3, <2>4 DEF DayName
<1> QED
  BY <1>2, <1>3, <1>4

(* The names of the file of a photo *)
LEMMA ImageNamesAre ==
    ASSUME NEW p
    PROVE  ImageNames(p) =
              {LongName(p.day, p.serial, p.digits)}
              \cup IF p.day[1] \in 2000..2099
                   THEN {ShortName(ShortNumber(p.day), p.serial, p.digits)} ELSE {}
<1> DEFINE serial == <<Underscore, Number(p.serial, p.digits), Word(".jpg")>>
           y == p.day[1]
           short == Number(10000 * (y % 100) + 100 * p.day[2] + p.day[3], 6)
           dated == Dated(<<4, 2, 2>>, p.day)
<1>1. ImageNames(p) = {dated \o serial}
                      \cup IF y \in 2000..2099 THEN {<<short>> \o serial} ELSE {}
  BY Zenon DEF ImageNames
<1>2. dated \o serial = LongName(p.day, p.serial, p.digits)
  <2>2. dated = DayName(p.day)
    BY NamesAreDated
  <2> HIDE DEF dated
  <2> QED
    BY Zenon, <2>2, TuplesJoined DEF DayName, LongName
<1>3. <<short>> \o serial = ShortName(ShortNumber(p.day), p.serial, p.digits)
  <2>2. short = Number(ShortNumber(p.day), 6)
    BY DEF ShortNumber
  <2> HIDE DEF short
  <2> QED
    BY Zenon, <2>2, TuplesJoined DEF ShortName
<1> HIDE DEF dated, short, serial
<1> QED
  BY <1>1, <1>2, <1>3

-----------------------------------------------------------------------------
(***************************************************************************)
(* The routes.  An URI is taken for the first resource which fits, and     *)
(* which ones fit depends on its one or two segments.                      *)
(***************************************************************************)
LEMMA FirstRoute ==
    ASSUME NEW uri, NEW k \in 1..15, Routes(uri)[k][1],
           \A j \in 1..(k - 1) : ~Routes(uri)[j][1]
    PROVE  Route(uri) = Routes(uri)[k][2]
<1> DEFINE rr == Routes(uri)
           I == {i \in 1..Len(rr) : rr[i][1]}
<1>1. Len(rr) = 15
  BY DEF Routes
<1>2. Route(uri) = rr[IF I # {} THEN Min(I) ELSE 0][2]
  BY DEF Route, SelectInSeq
<1> HIDE DEF rr
<1>3. k \in I /\ \A m \in I : k <= m
  BY <1>1 DEF rr
<1>4. Min(I) \in I /\ \A m \in I : Min(I) <= m
  BY <1>3 DEF Min
<1>5. Min(I) = k
  BY <1>3, <1>4
<1> QED
  BY <1>2, <1>3, <1>5 DEF rr

(* A text of one word *)
Said(word) == <<Word(word)>>

(* Nothing can be read as anything. *)
LEMMA NothingIsRead ==
    /\ YearIn(Nil) = 0 /\ MonthIn(Nil)[1] = 0 /\ ~IsDay(DayIn(Nil))
    /\ ~IsPhoto(PhotoIn(Nil)) /\ ~IsPhoto(PairIn(<<Nil, Nil>>)) /\ KeyIn(Nil) = <<>>
<1>1. \A digits : Matches(Nil, digits) => 2 * Len(digits) - 1 = 0
  BY DEF Matches, Nil
<1>2. ~Matches(Nil, <<4>>) /\ ~Matches(Nil, <<4, 2>>) /\ ~Matches(Nil, <<4, 2, 2>>)
  BY <1>1
<1>3. YearIn(Nil) = 0 /\ MonthIn(Nil)[1] = 0 /\ ~IsDay(DayIn(Nil))
  BY <1>2 DEF YearIn, MonthIn, DayIn, IsDay, NoDay
<1>4. ~IsPhoto(PhotoIn(Nil))
  <2> SUFFICES ASSUME IsPhoto(PhotoIn(Nil)) PROVE FALSE
    OBVIOUS
  <2>1. Nil \in Seq(Texts) /\ Len(Nil) = 0
    BY DEF Nil
  <2>2. \E c \in 1..Len(Nil) : TRUE
    BY <2>1, PhotoInParts
  <2> QED
    BY <2>1, <2>2
<1>5. ~IsPhoto(PairIn(<<Nil, Nil>>))
  BY <1>3 DEF PairIn, IsPhoto
<1>6. KeyIn(Nil) = <<>>
  BY DEF KeyIn, Nil
<1> QED
  BY <1>3, <1>4, <1>5, <1>6

(* What fits, of one segment *)
LEMMA RoutesOfOne ==
    ASSUME NEW uri \in Seq(PossibleMarks), Len(Split(uri)) = 1
    PROVE  LET t == Split(uri)[1]
               rr == Routes(uri)
           IN  /\ (rr[1][1] <=> t = Nil \/ t = Said("index.html")) /\ rr[1][2] = FrontPage
               /\ (rr[2][1] <=> t = Said("by-date")) /\ rr[2][2] = NotFound
               /\ (rr[3][1] <=> YearIn(t) # 0) /\ rr[3][2] = <<"year", YearIn(t)>>
               /\ (rr[4][1] <=> MonthIn(t)[1] # 0 /\ MonthIn(t)[2] # 0) /\ rr[4][2] = <<"month", MonthIn(t)>>
               /\ (rr[5][1] <=> IsDay(DayIn(t))) /\ rr[5][2] = <<"day", DayIn(t)>>
               /\ (rr[6][1] <=> IsPhoto(PhotoIn(t))) /\ rr[6][2] = <<"image", PhotoIn(t)>>
               /\ ~rr[7][1] /\ ~rr[8][1]
               /\ (rr[9][1] <=> t = Said("keywords") \/ t = Said("key")) /\ rr[9][2] = Redirect
               /\ ~rr[10][1] /\ ~rr[11][1]
               /\ (rr[12][1] <=> t = Said("css")) /\ rr[12][2] = LibFile("css")
               /\ (rr[13][1] <=> t = Said("robots.txt")) /\ rr[13][2] = LibFile("robots.txt")
               /\ (rr[14][1] <=> t = Said("icon")) /\ rr[14][2] = LibFile("icon")
               /\ rr[15][1] /\ rr[15][2] = NotFound
<1> DEFINE ss == Split(uri)
           t == ss[1]
           rr == Routes(uri)
<1>1. /\ \A a : Is(uri, a) <=> t = a
      /\ \A a, b : ~IsUnder(uri, a, b)
      /\ The(uri) = t /\ \A a : TheUnder(uri, a) = Nil
      /\ ThePair(uri) = <<Nil, Nil>>
  BY MatchesAre
<1> HIDE DEF ss, t
<1>2. Is(uri, Nil) = (t = Nil) /\ \A w : Is(uri, <<Word(w)>>) = (t = Said(w))
  BY <1>1 DEF Said, Is
<1>3. /\ (rr[1][1] <=> t = Nil \/ t = Said("index.html")) /\ rr[1][2] = FrontPage
      /\ (rr[2][1] <=> t = Said("by-date")) /\ rr[2][2] = NotFound
  BY <1>2 DEF Routes
<1>4. (rr[3][1] <=> YearIn(t) # 0) /\ rr[3][2] = <<"year", YearIn(t)>>
  BY <1>1 DEF Routes
<1>5. (rr[4][1] <=> MonthIn(t)[1] # 0 /\ MonthIn(t)[2] # 0) /\ rr[4][2] = <<"month", MonthIn(t)>>
  BY <1>1 DEF Routes
<1>6. (rr[5][1] <=> IsDay(DayIn(t))) /\ rr[5][2] = <<"day", DayIn(t)>>
  BY <1>1 DEF Routes
<1>7. (rr[6][1] <=> IsPhoto(PhotoIn(t))) /\ rr[6][2] = <<"image", PhotoIn(t)>>
  BY <1>1 DEF Routes
<1>8. ~rr[7][1] /\ ~rr[8][1]
  BY <1>1, NothingIsRead DEF Routes
<1>9. (rr[9][1] <=> t = Said("keywords") \/ t = Said("key")) /\ rr[9][2] = Redirect
  BY <1>2 DEF Routes
<1>10. ~rr[10][1] /\ ~rr[11][1]
  BY <1>1, NothingIsRead DEF Routes
<1>11. (rr[12][1] <=> t = Said("css")) /\ rr[12][2] = LibFile("css")
  BY <1>2 DEF Routes
<1>12. (rr[13][1] <=> t = Said("robots.txt")) /\ rr[13][2] = LibFile("robots.txt")
  BY <1>2 DEF Routes
<1>13. (rr[14][1] <=> t = Said("icon")) /\ rr[14][2] = LibFile("icon")
  BY <1>2 DEF Routes
<1>14. rr[15][1] /\ rr[15][2] = NotFound
  BY DEF Routes
<1> HIDE DEF rr
<1> QED
  BY <1>3, <1>4, <1>5, <1>6, <1>7, <1>8, <1>9, <1>10, <1>11, <1>12, <1>13, <1>14 DEF rr, ss, t

(* What fits, of two segments *)
LEMMA RoutesOfTwo ==
    ASSUME NEW uri \in Seq(PossibleMarks), Len(Split(uri)) = 2
    PROVE  LET t == Split(uri)[1]
               u == Split(uri)[2]
               rr == Routes(uri)
           IN  /\ \A k \in {1, 2, 3, 4, 5, 6, 9, 12, 13, 14} : ~rr[k][1]
               /\ rr[7][1] <=> t = Said("thumb") /\ IsPhoto(PhotoIn(u))
               /\ rr[7][1] => rr[7][2] = <<"thumb", PhotoIn(u)>>
               /\ (rr[8][1] <=> IsPhoto(PairIn(<<t, u>>))) /\ rr[8][2] = <<"photo", PairIn(<<t, u>>)>>
               /\ (rr[10][1] <=> t = Said("key") /\ u = Nil) /\ rr[10][2] = AllWords
               /\ rr[11][1] <=> t = Said("key") /\ KeyIn(u) # <<>>
               /\ rr[11][1] => rr[11][2] = <<"key", KeyIn(u)>>
               /\ rr[15][1] /\ rr[15][2] = NotFound
<1> DEFINE ss == Split(uri)
           t == ss[1]
           u == ss[2]
           rr == Routes(uri)
<1>1. /\ \A a : ~Is(uri, a)
      /\ \A a, b : IsUnder(uri, a, b) <=> t = a /\ u = b
      /\ The(uri) = Nil
      /\ \A a : TheUnder(uri, a) = IF t = a THEN u ELSE Nil
      /\ ThePair(uri) = <<t, u>>
  BY MatchesAre
<1> HIDE DEF ss, t, u
<1>2. /\ TheUnder(uri, <<Word("thumb")>>) = IF t = Said("thumb") THEN u ELSE Nil
      /\ TheUnder(uri, <<Word("key")>>) = IF t = Said("key") THEN u ELSE Nil
      /\ IsUnder(uri, <<Word("key")>>, Nil) = (t = Said("key") /\ u = Nil)
  BY <1>1 DEF Said, IsUnder
<1>3. ~rr[1][1] /\ ~rr[2][1] /\ ~rr[9][1] /\ ~rr[12][1] /\ ~rr[13][1] /\ ~rr[14][1]
  BY <1>1 DEF Routes
<1>4. ~rr[3][1] /\ ~rr[4][1] /\ ~rr[5][1] /\ ~rr[6][1]
  BY <1>1, NothingIsRead DEF Routes
<1>5. /\ rr[7][1] <=> t = Said("thumb") /\ IsPhoto(PhotoIn(u))
      /\ rr[7][1] => rr[7][2] = <<"thumb", PhotoIn(u)>>
  BY <1>2, NothingIsRead DEF Routes
<1>6. (rr[8][1] <=> IsPhoto(PairIn(<<t, u>>))) /\ rr[8][2] = <<"photo", PairIn(<<t, u>>)>>
  BY <1>1 DEF Routes
<1>7. (rr[10][1] <=> t = Said("key") /\ u = Nil) /\ rr[10][2] = AllWords
  BY <1>2 DEF Routes
<1>8. /\ rr[11][1] <=> t = Said("key") /\ KeyIn(u) # <<>>
      /\ rr[11][1] => rr[11][2] = <<"key", KeyIn(u)>>
  BY <1>2, NothingIsRead DEF Routes
<1>9. rr[15][1] /\ rr[15][2] = NotFound
  BY DEF Routes
<1> HIDE DEF rr
<1>10. \A k \in {1, 2, 3, 4, 5, 6, 9, 12, 13, 14} : ~rr[k][1]
  BY <1>3, <1>4
<1> QED
  BY <1>5, <1>6, <1>7, <1>8, <1>9, <1>10 DEF rr, ss, t, u

(* Nothing but the last fits any other number of segments. *)
LEMMA RoutesOfMore ==
    ASSUME NEW uri \in Seq(PossibleMarks), Len(Split(uri)) \notin {1, 2}
    PROVE  \A k \in 1..14 : ~Routes(uri)[k][1]
<1> DEFINE rr == Routes(uri)
<1>1. /\ \A a : ~Is(uri, a)
      /\ \A a, b : ~IsUnder(uri, a, b)
      /\ The(uri) = Nil
      /\ \A a : TheUnder(uri, a) = Nil
      /\ ThePair(uri) = <<Nil, Nil>>
  BY MatchesAre
<1>2. /\ ~rr[1][1] /\ ~rr[2][1] /\ ~rr[9][1] /\ ~rr[10][1]
      /\ ~rr[12][1] /\ ~rr[13][1] /\ ~rr[14][1]
  BY <1>1 DEF Routes
<1>3. ~rr[3][1] /\ ~rr[4][1] /\ ~rr[5][1] /\ ~rr[6][1] /\ ~rr[7][1] /\ ~rr[8][1] /\ ~rr[11][1]
  BY <1>1, NothingIsRead DEF Routes
<1> HIDE DEF rr
<1>4. \A k \in 1..14 : ~rr[k][1]
  <2>1. \A k \in 1..14 : k \in {1, 2, 3, 4, 5, 6, 7} \cup {8, 9, 10, 11, 12, 13, 14}
    OBVIOUS
  <2> QED
    BY <1>2, <1>3, <2>1
<1> QED
  BY <1>4 DEF rr

(* What an address is, of each kind *)
LEMMA AddressesAre ==
    ASSUME NEW ss
    PROVE  /\ ~IsAddress(ss, NotFound)
           /\ IsAddress(ss, FrontPage) <=> ss \in {<<Nil>>, <<Said("index.html")>>}
           /\ IsAddress(ss, Redirect) <=> ss \in {<<Said("keywords")>>, <<Said("key")>>}
           /\ IsAddress(ss, AllWords) <=> ss = <<Said("key"), Nil>>
           /\ \A w : IsAddress(ss, LibFile(w)) <=> ss = <<Said(w)>>
           /\ \A y : IsAddress(ss, <<"year", y>>) <=> ss = <<YearName(y)>>
           /\ \A m : IsAddress(ss, <<"month", m>>) <=> ss = <<MonthName(m)>>
           /\ \A d : IsAddress(ss, <<"day", d>>) <=> ss = <<DayName(d)>>
           /\ \A k : IsAddress(ss, <<"key", k>>) <=>
                        Len(ss) = 2 /\ ss[1] = Said("key") /\ KeyIn(ss[2]) = k
           /\ \A kind \in {"image", "thumb", "photo"} : \A p :
                 IsAddress(ss, <<kind, p>>) <=> IsPhotoAddress(ss, kind, p)
           /\ \A p : Addresses(<<"image", p>>) = {<<name>> : name \in ImageNames(p)}
           /\ \A p : Addresses(<<"thumb", p>>) = {<<Said("thumb"), name>> : name \in ImageNames(p)}
           /\ \A p : Addresses(<<"photo", p>>) = {<<DayName(p.day), <<Number(p.serial, p.digits)>> >>}
<1>1. ~IsAddress(ss, NotFound)
  BY DEF IsAddress, NotFound
<1>2. IsAddress(ss, FrontPage) <=> ss \in {<<Nil>>, <<Said("index.html")>>}
  BY DEF IsAddress, FrontPage, NotFound, Addresses, Redirect, AllWords, Said
<1>3. IsAddress(ss, Redirect) <=> ss \in {<<Said("keywords")>>, <<Said("key")>>}
  BY DEF IsAddress, NotFound, Addresses, Redirect, AllWords, Said
<1>4. IsAddress(ss, AllWords) <=> ss = <<Said("key"), Nil>>
  BY DEF IsAddress, NotFound, Addresses, Redirect, AllWords, Said
<1>5. \A w : IsAddress(ss, LibFile(w)) <=> ss = <<Said(w)>>
  BY DEF IsAddress, NotFound, Addresses, Redirect, AllWords, Said, LibFile
<1>6. \A y : IsAddress(ss, <<"year", y>>) <=> ss = <<YearName(y)>>
  <2>1. \A y : Dated(<<4>>, <<y>>) = YearName(y)
    BY NamesAreDated
  <2>2. \A y : Addresses(<<"year", y>>) = {<<Dated(<<4>>, <<y>>)>>}
    BY DEF Addresses, Redirect, AllWords
  <2>3. \A y : IsAddress(ss, <<"year", y>>) <=> ss \in Addresses(<<"year", y>>)
    BY DEF IsAddress, NotFound
  <2> TAKE y
  <2>4. Addresses(<<"year", y>>) = {<<YearName(y)>>}
    BY <2>1, <2>2
  <2> QED
    BY <2>3, <2>4
<1>7. \A m : IsAddress(ss, <<"month", m>>) <=> ss = <<MonthName(m)>>
  BY NamesAreDated DEF IsAddress, NotFound, Addresses, Redirect, AllWords
<1>8. \A d : IsAddress(ss, <<"day", d>>) <=> ss = <<DayName(d)>>
  BY NamesAreDated DEF IsAddress, NotFound, Addresses, Redirect, AllWords
<1>9. \A k : IsAddress(ss, <<"key", k>>) <=>
                Len(ss) = 2 /\ ss[1] = Said("key") /\ KeyIn(ss[2]) = k
  BY DEF IsAddress, NotFound, Said
<1>10. \A kind \in {"image", "thumb", "photo"} : \A p :
          IsAddress(ss, <<kind, p>>) <=> IsPhotoAddress(ss, kind, p)
  BY DEF IsAddress, NotFound
<1>11. \A p : Addresses(<<"image", p>>) = {<<name>> : name \in ImageNames(p)}
  BY DEF Addresses, Redirect, AllWords
<1>12. \A p : Addresses(<<"thumb", p>>) = {<<Said("thumb"), name>> : name \in ImageNames(p)}
  BY DEF Addresses, Redirect, AllWords, Said
<1>13. \A p : Addresses(<<"photo", p>>) = {<<DayName(p.day), <<Number(p.serial, p.digits)>> >>}
  BY NamesAreDated DEF Addresses, Redirect, AllWords
<1> QED
  BY <1>1, <1>2, <1>3, <1>4, <1>5, <1>6, <1>7, <1>8, <1>9, <1>10, <1>11, <1>12, <1>13

(* A photo, and with another serial number *)
LEMMA Renumbered ==
    ASSUME NEW d, NEW h, NEW g, NEW s
    PROVE  LET p == [[day |-> d, serial |-> h, digits |-> g] EXCEPT !.serial = s]
           IN  p.day = d /\ p.serial = s /\ p.digits = g
OBVIOUS

(* What is read is a record of these. *)
LEMMA PhotoShape ==
    ASSUME NEW text \in Seq(Texts), IsPhoto(PhotoIn(text))
    PROVE  \E d, h, g : PhotoIn(text) = [day |-> d, serial |-> h, digits |-> g]
<1>1. PICK c \in 1..Len(text) :
              LET date == SubSeq(text, 1, c - 1)
                  x == text[c + 1]
              IN  /\ x \in Texts /\ x[1] = "number"
                  /\ Matches(date, <<4, 2, 2>>) \/ Matches(date, <<6>>)
                  /\ PhotoIn(text) = PhotoFrom(date, <<x, Word(".jpg")>>)
  BY PhotoInParts
<1> DEFINE date == SubSeq(text, 1, c - 1)
           x == text[c + 1]
<1>2. /\ x \in Texts /\ x[1] = "number"
      /\ Matches(date, <<4, 2, 2>>) \/ Matches(date, <<6>>)
      /\ PhotoIn(text) = PhotoFrom(date, <<x, Word(".jpg")>>)
  BY <1>1
<1> HIDE DEF date, x
<1>3. \E d : PhotoIn(text) = NamedPhoto(d, x)
  BY <1>2, PhotoFromNamed
<1>4. PICK d : PhotoIn(text) = NamedPhoto(d, x)
  BY <1>3
<1> DEFINE h == Strtou(x[2], 65000)
           g == x[3]
<1>5. PhotoIn(text) = [day |-> d, serial |-> h, digits |-> g]
  BY <1>4 DEF NamedPhoto
<1> HIDE DEF h, g
<1> QED
  BY <1>5

(* Whatever can be read as a photo is one of the names of its file; *)
LEMMA ImageIsNamed ==
    ASSUME NEW text \in Seq(Texts), IsPhoto(PhotoIn(text))
    PROVE  LET p == PhotoIn(text)
           IN  \E s \in NumbersIn(text) :
                  /\ Strtou(s, 65000) = p.serial
                  /\ text \in ImageNames([p EXCEPT !.serial = s])
<1> DEFINE p == PhotoIn(text)
<1>1. PICK s \in Nat :
              /\ Strtou(s, 65000) = p.serial
              /\ \/ text = LongName(p.day, s, p.digits)
                 \/ \E h \in Nat : /\ h < 10^6 /\ p.day = ShortOf(h)
                                   /\ text = ShortName(h, s, p.digits)
  BY PhotoInOnly
<1>2. \E d, h, g : p = [day |-> d, serial |-> h, digits |-> g]
  BY PhotoShape
<1> DEFINE q == [p EXCEPT !.serial = s]
<1>3. q.day = p.day /\ q.serial = s /\ q.digits = p.digits
  <2> HIDE DEF p
  <2> QED
    BY <1>2, Renumbered
<1>4. IsDay(p.day)
  BY DEF IsPhoto
<1>5. ASSUME NEW i \in 1..Len(text), NEW g, text[i] = Number(s, g)
      PROVE  s \in NumbersIn(text)
  <2>1. DOMAIN text = 1..Len(text)
    OBVIOUS
  <2>2. text[i] \in ToSet(text)
    BY <2>1 DEF ToSet
  <2>3. text[i][1] = "number" /\ text[i][2] = s
    BY <1>5 DEF Number
  <2> QED
    BY <2>2, <2>3 DEF NumbersIn
<1> HIDE DEF p
<1>6. ASSUME text = LongName(p.day, s, p.digits)
      PROVE  s \in NumbersIn(text) /\ text \in ImageNames(q)
  <2>1. 7 \in 1..Len(text) /\ text[7] = Number(s, p.digits)
    BY <1>6 DEF LongName
  <2>2. text \in ImageNames(q)
    <3> HIDE DEF q
    <3> QED
      BY <1>3, <1>6, ImageNamesAre
  <2> QED
    BY <1>5, <2>1, <2>2
<1>7. ASSUME text # LongName(p.day, s, p.digits)
      PROVE  s \in NumbersIn(text) /\ text \in ImageNames(q)
  <2>1. PICK h \in Nat : /\ h < 10^6 /\ p.day = ShortOf(h)
                         /\ text = ShortName(h, s, p.digits)
    BY <1>1, <1>7
  <2>2. p.day[1] \in 2000..2099 /\ h = ShortNumber(p.day)
    BY <1>4, <2>1, ShortIsRead
  <2>3. 3 \in 1..Len(text) /\ text[3] = Number(s, p.digits)
    BY <2>1 DEF ShortName
  <2>4. text \in ImageNames(q)
    <3> HIDE DEF q
    <3> QED
      BY <1>3, <2>1, <2>2, ImageNamesAre
  <2> QED
    BY <1>5, <2>3, <2>4
<1>8. s \in NumbersIn(text) /\ text \in ImageNames(q) /\ Strtou(s, 65000) = p.serial
  BY <1>1, <1>6, <1>7
<1> QED
  BY <1>8 DEF p

(* The photos, with a date that is one *)
RealPhoto(p) ==
    /\ p \in [day : [1..3 -> Nat], serial : Nat, digits : Nat]
    /\ IsPhoto(p) /\ p.day = ParsedDay(p.day)

(* The name is of one of the two forms, *)
LEMMA ImageNameIs ==
    ASSUME NEW p, NEW text \in ImageNames(p)
    PROVE  \/ text = LongName(p.day, p.serial, p.digits)
           \/ /\ p.day[1] \in 2000..2099
              /\ text = ShortName(ShortNumber(p.day), p.serial, p.digits)
BY ImageNamesAre

(* and each of the names can be read as the photo. *)
LEMMA ImageIsRead ==
    ASSUME NEW text \in Seq(Texts), NEW p, RealPhoto(p), NEW s, Strtou(s, 65000) = p.serial,
           text \in ImageNames([p EXCEPT !.serial = s])
    PROVE  PhotoIn(text) = p /\ Len(text) \in {4, 8}
<1> DEFINE q == [p EXCEPT !.serial = s]
<1>1. q.day = p.day /\ q.serial = s /\ q.digits = p.digits
  BY DEF RealPhoto
<1>2. p = [day |-> p.day, serial |-> p.serial, digits |-> p.digits]
  BY DEF RealPhoto
<1>3. p.day \in [1..3 -> Nat] /\ IsDay(p.day) /\ p.day = ParsedDay(p.day)
  BY DEF RealPhoto, IsPhoto
<1>4. \/ text = LongName(p.day, s, p.digits)
      \/ p.day[1] \in 2000..2099 /\ text = ShortName(ShortNumber(p.day), s, p.digits)
  <2>1. text \in ImageNames(q)
    OBVIOUS
  <2> HIDE DEF q
  <2>2. \/ text = LongName(q.day, q.serial, q.digits)
        \/ q.day[1] \in 2000..2099 /\ text = ShortName(ShortNumber(q.day), q.serial, q.digits)
    BY <2>1, ImageNameIs
  <2> QED
    BY <1>1, <2>2
<1>5. \A d : d = p.day => NamedPhoto(d, Number(s, p.digits)) = p
  BY <1>2 DEF NamedPhoto, Number
<1>6. CASE text = LongName(p.day, s, p.digits)
  <2>1. PhotoIn(text) = NamedPhoto(ParsedDay(p.day), Number(s, p.digits))
    BY <1>3, <1>6, PhotoInNamed
  <2>2. Len(text) = 8
    BY <1>6 DEF LongName
  <2> QED
    BY <1>3, <1>5, <2>1, <2>2
<1>7. CASE text # LongName(p.day, s, p.digits)
  <2>1. text = ShortName(ShortNumber(p.day), s, p.digits) /\ p.day[1] \in 2000..2099
    BY <1>4, <1>7
  <2>2. PhotoIn(text) = NamedPhoto(ShortOf(ShortNumber(p.day)), Number(s, p.digits))
    BY <2>1, PhotoInNamed
  <2>3. ShortOf(ShortNumber(p.day)) = p.day
    BY <1>3, <2>1, ShortIsRead
  <2>4. Len(text) = 4
    BY <2>1 DEF ShortName
  <2> QED
    BY <1>5, <2>2, <2>3, <2>4
<1> QED
  BY <1>6, <1>7

(* The same for a date and a serial number in two segments *)
LEMMA PairIsNamed ==
    ASSUME NEW t \in Seq(Texts), NEW u \in Seq(Texts), IsPhoto(PairIn(<<t, u>>))
    PROVE  LET p == PairIn(<<t, u>>)
           IN  /\ t = DayName(p.day)
               /\ \E s \in NumbersIn(u) :
                     Strtou(s, 65000) = p.serial /\ u = <<Number(s, p.digits)>>
<1> DEFINE p == PairIn(<<t, u>>)
           name == SerialIn(u)
<1>1. p = [day |-> DayIn(t), serial |-> Serial(name), digits |-> name.digits]
  BY DEF PairIn
<1>2. IsDay(DayIn(t)) /\ name.digits # 0
  BY <1>1 DEF IsPhoto
<1>3. t = DayName(DayIn(t))
  BY <1>2, DatesAreRead
<1>4. Len(u) = 1 /\ u[1][1] = "number"
  BY <1>2 DEF SerialIn, NoName
<1>5. u[1] \in Texts /\ DOMAIN u = 1..1
  <2>1. 1 \in 1..Len(u) /\ Len(u) = 1
    BY <1>4
  <2>2. u[1] \in Texts
    BY <2>1, ElementOfSeq
  <2>3. DOMAIN u = 1..Len(u)
    BY LenProperties
  <2> QED
    BY <2>1, <2>2, <2>3
<1> DEFINE x == u[1]
<1>6. x = Number(x[2], x[3])
  BY <1>4, <1>5, NumberIs
<1>7. name = [NoName EXCEPT !.serial = x[2], !.digits = x[3]]
  BY <1>4 DEF SerialIn
<1>8. name.digits = x[3] /\ Serial(name) = Strtou(x[2], 65000)
  BY <1>7 DEF NoName, Serial
<1>9. x[2] \in NumbersIn(u)
  <2>1. x \in ToSet(u)
    BY <1>5 DEF ToSet
  <2> QED
    BY <1>4, <2>1 DEF NumbersIn
<1>10. u = <<x>>
  BY <1>4
<1> HIDE DEF x, name
<1>11. u = <<Number(x[2], p.digits)>> /\ Strtou(x[2], 65000) = p.serial
  BY <1>1, <1>6, <1>8, <1>10
<1> QED
  BY <1>1, <1>3, <1>9, <1>11

(* and back *)
LEMMA PairIsRead ==
    ASSUME NEW p, RealPhoto(p), NEW s, Strtou(s, 65000) = p.serial
    PROVE  PairIn(<<DayName(p.day), <<Number(s, p.digits)>> >>) = p
<1> DEFINE t == DayName(p.day)
           u == <<Number(s, p.digits)>>
           name == SerialIn(u)
<1>1. p = [day |-> p.day, serial |-> p.serial, digits |-> p.digits]
  BY DEF RealPhoto
<1>2. DayIn(t) = p.day
  BY DatesAreWritten DEF RealPhoto
<1>3. Len(u) = 1 /\ u[1][1] = "number" /\ u[1][2] = s /\ u[1][3] = p.digits
  BY DEF Number
<1>4. name = [NoName EXCEPT !.serial = s, !.digits = p.digits]
  <2> HIDE DEF u
  <2> QED
    BY <1>3 DEF SerialIn
<1>5. name.digits = p.digits /\ Serial(name) = p.serial
  <2> HIDE DEF name
  <2> QED
    BY <1>4 DEF NoName, Serial
<1> HIDE DEF t, u, name
<1>6. PairIn(<<t, u>>) = [day |-> DayIn(t), serial |-> Serial(name), digits |-> name.digits]
  BY DEF PairIn, name
<1> QED
  BY <1>1, <1>2, <1>5, <1>6 DEF t, u

(* The segments are texts. *)
LEMMA SegmentsAreTexts ==
    ASSUME NEW uri \in Seq(PossibleMarks)
    PROVE  LET ss == Split(uri)
           IN  /\ Len(ss) = 1 => ss = <<ss[1]>> /\ ss[1] \in Seq(Texts)
               /\ Len(ss) = 2 => ss = <<ss[1], ss[2]>> /\ ss[1] \in Seq(Texts) /\ ss[2] \in Seq(Texts)
<1> DEFINE ss == Split(uri)
<1>1. ss \in Seq(Seq(Texts))
  BY SplitIsCut DEF CutAt
<1> HIDE DEF ss
<1>2. ASSUME Len(ss) = 1 PROVE ss = <<ss[1]>> /\ ss[1] \in Seq(Texts)
  <2>1. 1 \in 1..Len(ss)
    BY <1>2
  <2>2. ss[1] \in Seq(Texts)
    BY <1>1, <2>1, ElementOfSeq
  <2>3. ss = <<ss[1]>>
    BY <1>1, <1>2
  <2> QED
    BY <2>2, <2>3
<1>3. ASSUME Len(ss) = 2
      PROVE  ss = <<ss[1], ss[2]>> /\ ss[1] \in Seq(Texts) /\ ss[2] \in Seq(Texts)
  BY <1>1, <1>3
<1> QED
  BY <1>2, <1>3 DEF ss

(* What an URI is taken for, it is an address of. *)
LEMMA RouteIsAddress ==
    ASSUME NEW uri \in Seq(PossibleMarks), Route(uri) # NotFound
    PROVE  IsAddress(Split(uri), Route(uri))
<1> DEFINE ss == Split(uri)
           rr == Routes(uri)
           p == Route(uri)
<1> SUFFICES IsAddress(ss, p)
  OBVIOUS
<1>0. p # NotFound
  OBVIOUS
<1>1. PICK k \in 1..15 : rr[k][1] /\ p = rr[k][2]
  BY RouteFits
<1>2. k \in {1, 2, 3, 4, 5, 6, 7} \cup {8, 9, 10, 11, 12, 13, 14, 15}
  OBVIOUS
<1>3. \A a : <<a>>[1] = a /\ Last(<<a>>) = a /\ <<a>> # <<>>
  BY DEF Last
<1>4. CASE Len(ss) = 1
  <2> DEFINE t == ss[1]
  <2>1. ss = <<t>> /\ t \in Seq(Texts)
    BY <1>4, SegmentsAreTexts
  <2>2. /\ (rr[1][1] <=> t = Nil \/ t = Said("index.html")) /\ rr[1][2] = FrontPage
        /\ (rr[2][1] <=> t = Said("by-date")) /\ rr[2][2] = NotFound
        /\ (rr[3][1] <=> YearIn(t) # 0) /\ rr[3][2] = <<"year", YearIn(t)>>
        /\ (rr[4][1] <=> MonthIn(t)[1] # 0 /\ MonthIn(t)[2] # 0) /\ rr[4][2] = <<"month", MonthIn(t)>>
        /\ (rr[5][1] <=> IsDay(DayIn(t))) /\ rr[5][2] = <<"day", DayIn(t)>>
        /\ (rr[6][1] <=> IsPhoto(PhotoIn(t))) /\ rr[6][2] = <<"image", PhotoIn(t)>>
        /\ ~rr[7][1] /\ ~rr[8][1]
        /\ (rr[9][1] <=> t = Said("keywords") \/ t = Said("key")) /\ rr[9][2] = Redirect
        /\ ~rr[10][1] /\ ~rr[11][1]
        /\ (rr[12][1] <=> t = Said("css")) /\ rr[12][2] = LibFile("css")
        /\ (rr[13][1] <=> t = Said("robots.txt")) /\ rr[13][2] = LibFile("robots.txt")
        /\ (rr[14][1] <=> t = Said("icon")) /\ rr[14][2] = LibFile("icon")
        /\ rr[15][1] /\ rr[15][2] = NotFound
    BY <1>4, RoutesOfOne
  <2> HIDE DEF ss, t, rr, p
  <2>3. CASE k \in {1, 9, 12, 13, 14}
    <3>1. CASE k = 1
      BY <1>1, <2>1, <2>2, <3>1, AddressesAre
    <3>2. CASE k = 9
      BY <1>1, <2>1, <2>2, <3>2, AddressesAre
    <3>3. CASE k \in {12, 13, 14}
      <4>1. \E w : t = Said(w) /\ p = LibFile(w)
        BY <1>1, <2>2, <3>3
      <4> QED
        BY <2>1, <4>1, AddressesAre
    <3> QED
      BY <2>3, <3>1, <3>2, <3>3
  <2>4. CASE k \in {3, 4, 5}
    <3>1. CASE k = 3
      <4>1. YearIn(t) # 0 /\ p = <<"year", YearIn(t)>>
        BY <1>1, <2>2, <3>1
      <4>2. t = YearName(YearIn(t))
        BY <2>1, <4>1, DatesAreRead
      <4> QED
        BY <2>1, <4>1, <4>2, AddressesAre
    <3>2. CASE k = 4
      <4>1. MonthIn(t)[1] # 0 /\ MonthIn(t)[2] # 0 /\ p = <<"month", MonthIn(t)>>
        BY <1>1, <2>2, <3>2
      <4>2. t = MonthName(MonthIn(t))
        BY <2>1, <4>1, DatesAreRead
      <4> QED
        BY <2>1, <4>1, <4>2, AddressesAre
    <3>3. CASE k = 5
      <4>1. IsDay(DayIn(t)) /\ p = <<"day", DayIn(t)>>
        BY <1>1, <2>2, <3>3
      <4>2. t = DayName(DayIn(t))
        BY <2>1, <4>1, DatesAreRead
      <4> QED
        BY <2>1, <4>1, <4>2, AddressesAre
    <3> QED
      BY <2>4, <3>1, <3>2, <3>3
  <2>5. CASE k = 6
    <3> DEFINE q == PhotoIn(t)
    <3>1. IsPhoto(q) /\ p = <<"image", q>>
      BY <1>1, <2>2, <2>5
    <3>2. PICK s \in NumbersIn(t) :
                  Strtou(s, 65000) = q.serial /\ t \in ImageNames([q EXCEPT !.serial = s])
      BY <2>1, <3>1, ImageIsNamed
    <3> HIDE DEF q
    <3>3. ss \in Addresses(<<"image", [q EXCEPT !.serial = s]>>)
      BY <2>1, <3>2, AddressesAre
    <3>4. ss # <<>> /\ s \in NumbersIn(Last(ss))
      BY <1>3, <2>1, <3>2
    <3>5. IsPhotoAddress(ss, "image", q)
      BY <3>2, <3>3, <3>4 DEF IsPhotoAddress
    <3>6. IsAddress(ss, <<"image", q>>)
      BY <3>5, AddressesAre
    <3> QED
      BY <3>1, <3>6
  <2>6. k \notin {2, 7, 8, 10, 11, 15}
    BY <1>0, <1>1, <2>2
  <2> QED
    BY <1>2, <2>3, <2>4, <2>5, <2>6
<1>5. CASE Len(ss) = 2
  <2> DEFINE t == ss[1]
             u == ss[2]
  <2>1. ss = <<t, u>> /\ t \in Seq(Texts) /\ u \in Seq(Texts)
    BY <1>5, SegmentsAreTexts
  <2>2. /\ \A j \in {1, 2, 3, 4, 5, 6, 9, 12, 13, 14} : ~rr[j][1]
        /\ rr[7][1] <=> t = Said("thumb") /\ IsPhoto(PhotoIn(u))
        /\ rr[7][1] => rr[7][2] = <<"thumb", PhotoIn(u)>>
        /\ (rr[8][1] <=> IsPhoto(PairIn(<<t, u>>))) /\ rr[8][2] = <<"photo", PairIn(<<t, u>>)>>
        /\ (rr[10][1] <=> t = Said("key") /\ u = Nil) /\ rr[10][2] = AllWords
        /\ rr[11][1] <=> t = Said("key") /\ KeyIn(u) # <<>>
        /\ rr[11][1] => rr[11][2] = <<"key", KeyIn(u)>>
        /\ rr[15][1] /\ rr[15][2] = NotFound
    BY <1>5, RoutesOfTwo
  <2>3. Last(<<t, u>>) = u /\ <<t, u>> # <<>>
    BY FrontOfTwo
  <2> HIDE DEF ss, t, u, rr, p
  <2>4. CASE k = 7
    <3> DEFINE q == PhotoIn(u)
    <3>1. t = Said("thumb") /\ IsPhoto(q) /\ p = <<"thumb", q>>
      BY <1>1, <2>2, <2>4
    <3>2. PICK s \in NumbersIn(u) :
                  Strtou(s, 65000) = q.serial /\ u \in ImageNames([q EXCEPT !.serial = s])
      BY <2>1, <3>1, ImageIsNamed
    <3> HIDE DEF q
    <3>3. ss \in Addresses(<<"thumb", [q EXCEPT !.serial = s]>>)
      BY <2>1, <3>1, <3>2, AddressesAre
    <3>4. ss # <<>> /\ s \in NumbersIn(Last(ss))
      BY <2>1, <2>3, <3>2
    <3>5. IsPhotoAddress(ss, "thumb", q)
      BY <3>2, <3>3, <3>4 DEF IsPhotoAddress
    <3>6. IsAddress(ss, <<"thumb", q>>)
      BY <3>5, AddressesAre
    <3> QED
      BY <3>1, <3>6
  <2>5. CASE k = 8
    <3> DEFINE q == PairIn(<<t, u>>)
    <3>1. IsPhoto(q) /\ p = <<"photo", q>>
      BY <1>1, <2>2, <2>5
    <3>2. t = DayName(q.day)
      BY <2>1, <3>1, PairIsNamed
    <3>3. PICK s \in NumbersIn(u) : Strtou(s, 65000) = q.serial /\ u = <<Number(s, q.digits)>>
      BY <2>1, <3>1, PairIsNamed
    <3>4. \E d, h, g : q = [day |-> d, serial |-> h, digits |-> g]
      BY DEF PairIn
    <3> HIDE DEF q
    <3> DEFINE r == [q EXCEPT !.serial = s]
    <3>5. r.day = q.day /\ r.serial = s /\ r.digits = q.digits
      BY <3>4, Renumbered
    <3>6. ss \in Addresses(<<"photo", r>>)
      <4> HIDE DEF r
      <4> QED
        BY <2>1, <3>2, <3>3, <3>5, AddressesAre
    <3>7. ss # <<>> /\ s \in NumbersIn(Last(ss))
      BY <2>1, <2>3, <3>3
    <3>8. IsPhotoAddress(ss, "photo", q)
      BY <3>3, <3>6, <3>7 DEF IsPhotoAddress
    <3>9. IsAddress(ss, <<"photo", q>>)
      BY <3>8, AddressesAre
    <3> QED
      BY <3>1, <3>9
  <2>6. CASE k = 10
    BY <1>1, <2>1, <2>2, <2>6, AddressesAre
  <2>7. CASE k = 11
    <3>1. t = Said("key") /\ p = <<"key", KeyIn(u)>>
      BY <1>1, <2>2, <2>7
    <3>2. Len(ss) = 2 /\ ss[1] = t /\ ss[2] = u
      BY <2>1
    <3> QED
      BY <3>1, <3>2, AddressesAre
  <2>8. k \notin {1, 2, 3, 4, 5, 6, 9, 12, 13, 14, 15}
    BY <1>0, <1>1, <2>2
  <2> QED
    BY <1>2, <2>4, <2>5, <2>6, <2>7, <2>8
<1>6. Len(ss) \in {1, 2}
  <2> SUFFICES ASSUME Len(ss) \notin {1, 2} PROVE FALSE
    OBVIOUS
  <2>1. \A j \in 1..14 : ~rr[j][1]
    BY RoutesOfMore
  <2>2. rr[15][1] /\ rr[15][2] = NotFound
    BY DEF Routes
  <2> HIDE DEF rr, p
  <2>3. k = 15
    BY <1>1, <2>1
  <2> QED
    BY <1>0, <1>1, <2>2, <2>3
<1> QED
  BY <1>4, <1>5, <1>6

(* How long texts are, and that a word is no number *)
LEMMA TextsDiffer ==
    ASSUME NEW text \in Seq(Texts)
    PROVE  /\ YearIn(text) # 0 => Len(text) = 1 /\ text[1][1] = "number"
           /\ MonthIn(text)[1] # 0 => Len(text) = 3
           /\ IsDay(DayIn(text)) => Len(text) = 5
           /\ IsPhoto(PhotoIn(text)) => Len(text) \in {4, 8}
<1>1. ASSUME YearIn(text) # 0 PROVE Len(text) = 1 /\ text[1][1] = "number"
  <2>1. Matches(text, <<4>>)
    BY <1>1 DEF YearIn
  <2>2. Len(text) = 1 /\ 1 \in DOMAIN text /\ 1 % 2 # 0
    BY <2>1 DEF Matches
  <2> QED
    BY <2>1, <2>2, MatchesAt
<1>2. ASSUME MonthIn(text)[1] # 0 PROVE Len(text) = 3
  <2>1. CASE Matches(text, <<4, 2>>)
    BY <2>1 DEF Matches
  <2>2. CASE ~Matches(text, <<4, 2>>)
    <3>1. MonthIn(text) = <<0, 0>>
      BY <2>2 DEF MonthIn
    <3> QED
      BY <1>2, <3>1
  <2> QED
    BY <2>1, <2>2
<1>3. ASSUME IsDay(DayIn(text)) PROVE Len(text) = 5
  <2>1. Matches(text, <<4, 2, 2>>)
    BY <1>3 DEF DayIn, IsDay, NoDay
  <2> QED
    BY <2>1 DEF Matches
<1>4. ASSUME IsPhoto(PhotoIn(text)) PROVE Len(text) \in {4, 8}
  <2>1. PICK s \in Nat : \/ text = LongName(PhotoIn(text).day, s, PhotoIn(text).digits)
                         \/ \E h \in Nat : text = ShortName(h, s, PhotoIn(text).digits)
    BY <1>4, PhotoInOnly
  <2>2. \A d, h, g : Len(LongName(d, h, g)) = 8 /\ Len(ShortName(d, h, g)) = 4
    BY DEF LongName, ShortName
  <2> QED
    BY <2>1, <2>2
<1> QED
  BY <1>1, <1>2, <1>3, <1>4

(* Words in particular *)
LEMMA SaidIs ==
    /\ \A w : Len(Said(w)) = 1 /\ Said(w) # Nil /\ Said(w)[1][1] # "number"
    /\ \A w, x : Said(w) = Said(x) => w = x
    /\ "index.html" \notin {"by-date", "keywords", "key", "css", "robots.txt", "icon", "thumb"}
    /\ "by-date" \notin {"keywords", "key", "css", "robots.txt", "icon"}
    /\ "keywords" \notin {"css", "robots.txt", "icon"}
    /\ "key" \notin {"css", "robots.txt", "icon", "thumb"}
    /\ "css" \notin {"robots.txt", "icon"} /\ "robots.txt" # "icon"
<1>1. \A w : Len(Said(w)) = 1 /\ Said(w) # Nil /\ Said(w)[1] = Word(w)
  BY DEF Said, Nil
<1>2. \A w : Word(w)[1] = "word" /\ Word(w)[2] = w
  BY DEF Word
<1>3. "word" # "number"
  OBVIOUS
<1>4. \A w, x : Said(w) = Said(x) => w = x
  BY <1>1, <1>2
<1>5. /\ "index.html" \notin {"by-date", "keywords", "key", "css", "robots.txt", "icon", "thumb"}
      /\ "by-date" \notin {"keywords", "key", "css", "robots.txt", "icon"}
      /\ "keywords" \notin {"css", "robots.txt", "icon"}
      /\ "key" \notin {"css", "robots.txt", "icon", "thumb"}
      /\ "css" \notin {"robots.txt", "icon"} /\ "robots.txt" # "icon"
  OBVIOUS
<1> QED
  BY <1>1, <1>2, <1>3, <1>4, <1>5

(* An URI of one segment goes where its segment is read so. *)
LEMMA OneIsRouted ==
    ASSUME NEW uri \in Seq(PossibleMarks), NEW t, Split(uri) = <<t>>
    PROVE  /\ t \in Seq(Texts)
           /\ t = Nil \/ t = Said("index.html") => Route(uri) = FrontPage
           /\ YearIn(t) # 0 => Route(uri) = <<"year", YearIn(t)>>
           /\ MonthIn(t)[1] # 0 /\ MonthIn(t)[2] # 0 => Route(uri) = <<"month", MonthIn(t)>>
           /\ IsDay(DayIn(t)) => Route(uri) = <<"day", DayIn(t)>>
           /\ IsPhoto(PhotoIn(t)) => Route(uri) = <<"image", PhotoIn(t)>>
           /\ t = Said("keywords") \/ t = Said("key") => Route(uri) = Redirect
           /\ \A w \in {"css", "robots.txt", "icon"} : t = Said(w) => Route(uri) = LibFile(w)
<1> DEFINE rr == Routes(uri)
<1>1. Len(Split(uri)) = 1 /\ Split(uri)[1] = t /\ t \in Seq(Texts)
  <2>1. Len(Split(uri)) = 1 /\ Split(uri)[1] = t
    OBVIOUS
  <2> QED
    BY <2>1, SegmentsAreTexts
<1>2. /\ (rr[1][1] <=> t = Nil \/ t = Said("index.html")) /\ rr[1][2] = FrontPage
      /\ (rr[2][1] <=> t = Said("by-date")) /\ rr[2][2] = NotFound
      /\ (rr[3][1] <=> YearIn(t) # 0) /\ rr[3][2] = <<"year", YearIn(t)>>
      /\ (rr[4][1] <=> MonthIn(t)[1] # 0 /\ MonthIn(t)[2] # 0) /\ rr[4][2] = <<"month", MonthIn(t)>>
      /\ (rr[5][1] <=> IsDay(DayIn(t))) /\ rr[5][2] = <<"day", DayIn(t)>>
      /\ (rr[6][1] <=> IsPhoto(PhotoIn(t))) /\ rr[6][2] = <<"image", PhotoIn(t)>>
      /\ ~rr[7][1] /\ ~rr[8][1]
      /\ (rr[9][1] <=> t = Said("keywords") \/ t = Said("key")) /\ rr[9][2] = Redirect
      /\ ~rr[10][1] /\ ~rr[11][1]
      /\ (rr[12][1] <=> t = Said("css")) /\ rr[12][2] = LibFile("css")
      /\ (rr[13][1] <=> t = Said("robots.txt")) /\ rr[13][2] = LibFile("robots.txt")
      /\ (rr[14][1] <=> t = Said("icon")) /\ rr[14][2] = LibFile("icon")
  BY <1>1, RoutesOfOne
<1>3. \A k \in 1..15 : rr[k][1] /\ (\A j \in 1..(k - 1) : ~rr[j][1]) => Route(uri) = rr[k][2]
  BY FirstRoute
<1>4. /\ YearIn(t) # 0 => Len(t) = 1 /\ t[1][1] = "number"
      /\ MonthIn(t)[1] # 0 => Len(t) = 3
      /\ IsDay(DayIn(t)) => Len(t) = 5
      /\ IsPhoto(PhotoIn(t)) => Len(t) \in {4, 8}
  BY <1>1, TextsDiffer
<1> HIDE DEF rr
<1>r1. (rr[1][1] <=> t = Nil \/ t = Said("index.html")) /\ rr[1][2] = FrontPage
  BY <1>2
<1>r2. rr[2][1] <=> t = Said("by-date")
  BY <1>2
<1>r3. (rr[3][1] <=> YearIn(t) # 0) /\ rr[3][2] = <<"year", YearIn(t)>>
  BY <1>2
<1>r4. (rr[4][1] <=> MonthIn(t)[1] # 0 /\ MonthIn(t)[2] # 0) /\ rr[4][2] = <<"month", MonthIn(t)>>
  BY <1>2
<1>r5. (rr[5][1] <=> IsDay(DayIn(t))) /\ rr[5][2] = <<"day", DayIn(t)>>
  BY <1>2
<1>r6. (rr[6][1] <=> IsPhoto(PhotoIn(t))) /\ rr[6][2] = <<"image", PhotoIn(t)>>
  BY <1>2
<1>r9. (rr[9][1] <=> t = Said("keywords") \/ t = Said("key")) /\ rr[9][2] = Redirect
  BY <1>2
<1>5. /\ t = Nil => Len(t) = 0
      /\ \A w : t = Said(w) => Len(t) = 1 /\ t[1][1] # "number" /\ t # Nil
  BY SaidIs DEF Nil
<1>15. Len(t) # 1 => ~rr[1][1] \/ Len(t) = 0
  BY <1>5, <1>r1
<1>16. Len(t) # 1 => ~rr[2][1] /\ ~rr[3][1]
  BY <1>4, <1>5, <1>r2, <1>r3
<1>6. ASSUME t = Nil \/ t = Said("index.html") PROVE Route(uri) = FrontPage
  <2>1. \A j \in 1..(1 - 1) : ~rr[j][1]
    OBVIOUS
  <2> QED
    BY <1>2, <1>3, <1>6, <2>1
<1>7. ASSUME YearIn(t) # 0 PROVE Route(uri) = <<"year", YearIn(t)>>
  <2>1. ~rr[1][1] /\ ~rr[2][1] /\ rr[3][1]
    BY <1>4, <1>5, <1>7, <1>r1, <1>r2, <1>r3
  <2>2. \A j \in 1..(3 - 1) : ~rr[j][1]
    BY <2>1
  <2>3. 3 \in 1..15 /\ Route(uri) = rr[3][2]
    BY <1>3, <2>1, <2>2
  <2> QED
    BY <1>r3, <2>3
<1>8. ASSUME MonthIn(t)[1] # 0, MonthIn(t)[2] # 0 PROVE Route(uri) = <<"month", MonthIn(t)>>
  <2>1. ~rr[1][1] /\ ~rr[2][1] /\ ~rr[3][1] /\ rr[4][1]
    <3>1. Len(t) = 3
      BY <1>4, <1>8
    <3> QED
      BY <1>8, <1>15, <1>16, <1>r4, <3>1
  <2>2. \A j \in 1..(4 - 1) : ~rr[j][1]
    BY <2>1
  <2>3. 4 \in 1..15 /\ Route(uri) = rr[4][2]
    BY <1>3, <2>1, <2>2
  <2> QED
    BY <1>r4, <2>3
<1>9. ASSUME IsDay(DayIn(t)) PROVE Route(uri) = <<"day", DayIn(t)>>
  <2>1. ~rr[1][1] /\ ~rr[2][1] /\ ~rr[3][1] /\ ~rr[4][1] /\ rr[5][1]
    <3>1. Len(t) = 5
      BY <1>4, <1>9
    <3>2. ~rr[4][1]
      BY <1>4, <1>r4, <3>1
    <3> QED
      BY <1>9, <1>15, <1>16, <1>r5, <3>1, <3>2
  <2>2. \A j \in 1..(5 - 1) : ~rr[j][1]
    BY <2>1
  <2>3. 5 \in 1..15 /\ Route(uri) = rr[5][2]
    BY <1>3, <2>1, <2>2
  <2> QED
    BY <1>r5, <2>3
<1>10. ASSUME IsPhoto(PhotoIn(t)) PROVE Route(uri) = <<"image", PhotoIn(t)>>
  <2>1. ~rr[1][1] /\ ~rr[2][1] /\ ~rr[3][1] /\ ~rr[4][1] /\ ~rr[5][1] /\ rr[6][1]
    <3>1. Len(t) \in {4, 8}
      BY <1>4, <1>10
    <3>3. Len(t) # 1 /\ Len(t) # 0 /\ Len(t) # 3 /\ Len(t) # 5
      <4>1. \A l \in {4, 8} : l # 1 /\ l # 0 /\ l # 3 /\ l # 5
        OBVIOUS
      <4> QED
        BY Zenon, <3>1, <4>1
    <3>2. ~rr[4][1] /\ ~rr[5][1]
      BY <1>4, <1>r4, <1>r5, <3>3
    <3> QED
      BY <1>10, <1>15, <1>16, <1>r6, <3>2, <3>3
  <2>2. \A j \in 1..(6 - 1) : ~rr[j][1]
    BY <2>1
  <2>3. 6 \in 1..15 /\ Route(uri) = rr[6][2]
    BY <1>3, <2>1, <2>2
  <2> QED
    BY <1>r6, <2>3
<1>11. ASSUME NEW w, t = Said(w)
       PROVE  ~rr[3][1] /\ ~rr[4][1] /\ ~rr[5][1] /\ ~rr[6][1] /\ t # Nil
  <2>1. Len(t) = 1 /\ t[1][1] # "number" /\ t # Nil
    BY <1>5, <1>11
  <2>2. YearIn(t) = 0 /\ MonthIn(t)[1] = 0 /\ ~IsDay(DayIn(t)) /\ ~IsPhoto(PhotoIn(t))
    BY <1>4, <2>1
  <2> QED
    BY <1>r3, <1>r4, <1>r5, <1>r6, <2>1, <2>2
<1>12. ASSUME t = Said("keywords") \/ t = Said("key") PROVE Route(uri) = Redirect
  <2>1. ~rr[1][1] /\ ~rr[2][1] /\ rr[9][1]
    BY <1>2, <1>11, <1>12, SaidIs
  <2>2. \A j \in 1..(9 - 1) : ~rr[j][1]
    <3>1. \A j \in 1..8 : j \in {1, 2, 3, 4, 5, 6, 7, 8}
      OBVIOUS
    <3> QED
      BY <1>2, <1>11, <1>12, <2>1, <3>1
  <2> QED
    BY <1>2, <1>3, <2>1, <2>2
<1>13. ASSUME NEW w \in {"css", "robots.txt", "icon"}, t = Said(w) PROVE Route(uri) = LibFile(w)
  <2>1. ~rr[1][1] /\ ~rr[2][1] /\ ~rr[9][1]
    BY <1>2, <1>11, <1>13, SaidIs
  <2>2. \A j \in 1..11 : ~rr[j][1]
    <3>1. \A j \in 1..11 : j \in {1, 2, 3, 4, 5, 6, 7, 8} \cup {9, 10, 11}
      OBVIOUS
    <3> QED
      BY <1>2, <1>11, <1>13, <2>1, <3>1
  <2>3. CASE w = "css"
    <3>1. rr[12][1] /\ \A j \in 1..(12 - 1) : ~rr[j][1]
      BY <1>2, <1>13, <2>2, <2>3
    <3> QED
      BY <1>2, <1>3, <2>3, <3>1
  <2>4. CASE w = "robots.txt"
    <3>1. rr[13][1] /\ ~rr[12][1]
      BY <1>2, <1>13, <2>4, SaidIs
    <3>2. \A j \in 1..(13 - 1) : ~rr[j][1]
      BY <2>2, <3>1
    <3> QED
      BY <1>2, <1>3, <2>4, <3>1, <3>2
  <2>5. CASE w = "icon"
    <3>1. rr[14][1] /\ ~rr[12][1] /\ ~rr[13][1]
      BY <1>2, <1>13, <2>5, SaidIs
    <3>2. \A j \in 1..(14 - 1) : ~rr[j][1]
      BY <2>2, <3>1
    <3> QED
      BY <1>2, <1>3, <2>5, <3>1, <3>2
  <2> QED
    BY <2>3, <2>4, <2>5
<1> QED
  BY <1>1, <1>6, <1>7, <1>8, <1>9, <1>10, <1>12, <1>13

(* And one of two segments, where the second is read so under the first. *)
LEMMA TwoIsRouted ==
    ASSUME NEW uri \in Seq(PossibleMarks), NEW t, NEW u, Split(uri) = <<t, u>>
    PROVE  /\ t \in Seq(Texts) /\ u \in Seq(Texts)
           /\ t = Said("thumb") /\ IsPhoto(PhotoIn(u)) => Route(uri) = <<"thumb", PhotoIn(u)>>
           /\ IsPhoto(PairIn(<<t, u>>)) => Route(uri) = <<"photo", PairIn(<<t, u>>)>>
           /\ t = Said("key") /\ u = Nil => Route(uri) = AllWords
           /\ t = Said("key") /\ KeyIn(u) # <<>> => Route(uri) = <<"key", KeyIn(u)>>
<1> DEFINE rr == Routes(uri)
<1>1. /\ Len(Split(uri)) = 2 /\ Split(uri)[1] = t /\ Split(uri)[2] = u
      /\ t \in Seq(Texts) /\ u \in Seq(Texts)
  <2>1. Len(Split(uri)) = 2 /\ Split(uri)[1] = t /\ Split(uri)[2] = u
    OBVIOUS
  <2> QED
    BY <2>1, SegmentsAreTexts
<1>2. /\ \A k \in {1, 2, 3, 4, 5, 6, 9, 12, 13, 14} : ~rr[k][1]
      /\ rr[7][1] <=> t = Said("thumb") /\ IsPhoto(PhotoIn(u))
      /\ rr[7][1] => rr[7][2] = <<"thumb", PhotoIn(u)>>
      /\ (rr[8][1] <=> IsPhoto(PairIn(<<t, u>>))) /\ rr[8][2] = <<"photo", PairIn(<<t, u>>)>>
      /\ (rr[10][1] <=> t = Said("key") /\ u = Nil) /\ rr[10][2] = AllWords
      /\ rr[11][1] <=> t = Said("key") /\ KeyIn(u) # <<>>
      /\ rr[11][1] => rr[11][2] = <<"key", KeyIn(u)>>
  BY <1>1, RoutesOfTwo
<1>3. \A k \in 1..15 : rr[k][1] /\ (\A j \in 1..(k - 1) : ~rr[j][1]) => Route(uri) = rr[k][2]
  BY FirstRoute
<1> HIDE DEF rr
<1>r0. \A j \in 1..6 : ~rr[j][1]
  BY <1>2
<1>r7. rr[7][1] <=> t = Said("thumb") /\ IsPhoto(PhotoIn(u))
  BY <1>2
<1>r8. (rr[8][1] <=> IsPhoto(PairIn(<<t, u>>))) /\ rr[8][2] = <<"photo", PairIn(<<t, u>>)>>
  BY <1>2
<1>r9. ~rr[9][1]
  BY <1>2
<1>4. ASSUME NEW w, t = Said(w) PROVE ~rr[8][1]
  <2> SUFFICES ASSUME IsPhoto(PairIn(<<t, u>>)) PROVE FALSE
    BY <1>r8
  <2>1. t = DayName(PairIn(<<t, u>>).day)
    BY <1>1, PairIsNamed
  <2>2. \A d : Len(DayName(d)) = 5
    BY DEF DayName
  <2>3. Len(t) = 1
    BY <1>4, SaidIs
  <2>4. \E d : t = DayName(d)
    BY Zenon, <2>1
  <2>5. Len(t) = 5
    BY <2>2, <2>4
  <2>6. 1 # 5
    OBVIOUS
  <2> QED
    BY Zenon, <2>3, <2>5, <2>6
<1>5. t = Said("key") => ~rr[7][1]
  BY <1>r7, SaidIs
<1>6. ASSUME t = Said("thumb"), IsPhoto(PhotoIn(u)) PROVE Route(uri) = <<"thumb", PhotoIn(u)>>
  <2>1. rr[7][1] /\ \A j \in 1..(7 - 1) : ~rr[j][1]
    BY <1>6, <1>r0, <1>r7
  <2>2. 7 \in 1..15 /\ Route(uri) = rr[7][2]
    BY <1>3, <2>1
  <2> QED
    BY <1>2, <2>1, <2>2
<1>7. ASSUME IsPhoto(PairIn(<<t, u>>)) PROVE Route(uri) = <<"photo", PairIn(<<t, u>>)>>
  <2>1. rr[8][1]
    BY <1>7, <1>r8
  <2>2. ~rr[7][1]
    BY <1>4, <1>r7, <2>1
  <2>3. \A j \in 1..(8 - 1) : ~rr[j][1]
    BY <1>r0, <2>2
  <2>4. 8 \in 1..15 /\ Route(uri) = rr[8][2]
    BY <1>3, <2>1, <2>3
  <2> QED
    BY <1>r8, <2>4
<1>8. ASSUME t = Said("key") PROVE \A j \in 1..9 : ~rr[j][1]
  <2>1. ~rr[7][1] /\ ~rr[8][1]
    BY <1>4, <1>5, <1>8
  <2>2. \A j \in 1..9 : j \in 1..6 \/ j = 7 \/ j = 8 \/ j = 9
    OBVIOUS
  <2> QED
    BY <1>r0, <1>r9, <2>1, <2>2
<1>9. ASSUME t = Said("key"), u = Nil PROVE Route(uri) = AllWords
  <2>1. rr[10][1] /\ rr[10][2] = AllWords
    BY <1>2, <1>9
  <2>2. \A j \in 1..(10 - 1) : ~rr[j][1]
    BY <1>8, <1>9
  <2>3. 10 \in 1..15 /\ Route(uri) = rr[10][2]
    BY <1>3, <2>1, <2>2
  <2> QED
    BY <2>1, <2>3
<1>10. ASSUME t = Said("key"), KeyIn(u) # <<>> PROVE Route(uri) = <<"key", KeyIn(u)>>
  <2>1. rr[11][1] /\ rr[11][2] = <<"key", KeyIn(u)>>
    BY <1>2, <1>10
  <2>2. ~rr[10][1]
    BY <1>2, <1>10, NothingIsRead
  <2>3. \A j \in 1..(11 - 1) : ~rr[j][1]
    BY <1>8, <1>10, <2>2
  <2>4. 11 \in 1..15 /\ Route(uri) = rr[11][2]
    BY <1>3, <2>1, <2>3
  <2> QED
    BY <2>1, <2>4
<1> QED
  BY <1>1, <1>6, <1>7, <1>9, <1>10

(* The photos asked for are such. *)
LEMMA RealPhotosAre ==
    ASSUME NEW q \in RealPhotos
    PROVE  /\ RealPhoto(q)
           /\ q.day \in [1..3 -> Nat] /\ IsDay(q.day) /\ q.day = ParsedDay(q.day)
<1>1. q \in Photos /\ IsPhoto(q) /\ q.day = ParsedDay(q.day)
  BY DEF RealPhotos
<1>2. RealPhoto(q)
  BY <1>1, PhotoAssumption DEF RealPhoto
<1> QED
  BY <1>1, <1>2 DEF RealPhoto, IsPhoto

(* The address of a photo leads to it. *)
LEMMA PhotoIsRouted ==
    ASSUME NEW uri \in Seq(PossibleMarks), NEW q, RealPhoto(q),
           NEW kind \in {"image", "thumb", "photo"}, IsAddress(Split(uri), <<kind, q>>)
    PROVE  Route(uri) = <<kind, q>>
<1> DEFINE ss == Split(uri)
<1>1. IsPhotoAddress(ss, kind, q)
  BY AddressesAre
<1>2. PICK s : /\ Strtou(s, 65000) = q.serial
               /\ ss \in Addresses(<<kind, [q EXCEPT !.serial = s]>>)
  BY <1>1 DEF IsPhotoAddress
<1> DEFINE r == [q EXCEPT !.serial = s]
<1>3. r.day = q.day /\ r.serial = s /\ r.digits = q.digits
  BY DEF RealPhoto
<1>4. IsPhoto(q)
  BY DEF RealPhoto
<1>5. ss \in Addresses(<<kind, r>>)
  BY <1>2
<1> HIDE DEF ss
<1>6. CASE kind = "image"
  <2>1. PICK t \in ImageNames(r) : ss = <<t>>
    <3> HIDE DEF r
    <3> QED
      BY <1>5, <1>6, AddressesAre
  <2>2. t \in Seq(Texts) /\ (IsPhoto(PhotoIn(t)) => Route(uri) = <<"image", PhotoIn(t)>>)
    BY <2>1, OneIsRouted DEF ss
  <2>3. PhotoIn(t) = q
    BY <1>2, <2>1, <2>2, ImageIsRead
  <2> QED
    BY <1>4, <1>6, <2>2, <2>3
<1>7. CASE kind = "thumb"
  <2>1. PICK t \in ImageNames(r) : ss = <<Said("thumb"), t>>
    <3> HIDE DEF r
    <3> QED
      BY <1>5, <1>7, AddressesAre
  <2>2. t \in Seq(Texts) /\ (IsPhoto(PhotoIn(t)) => Route(uri) = <<"thumb", PhotoIn(t)>>)
    BY <2>1, TwoIsRouted DEF ss
  <2>3. PhotoIn(t) = q
    BY <1>2, <2>1, <2>2, ImageIsRead
  <2> QED
    BY <1>4, <1>7, <2>2, <2>3
<1>8. CASE kind = "photo"
  <2> DEFINE t == DayName(q.day)
             u == <<Number(s, q.digits)>>
  <2>1. ss = <<t, u>>
    <3> HIDE DEF r
    <3> QED
      BY <1>3, <1>5, <1>8, AddressesAre
  <2>2. PairIn(<<t, u>>) = q
    BY <1>2, PairIsRead
  <2> HIDE DEF t, u
  <2>3. IsPhoto(PairIn(<<t, u>>)) => Route(uri) = <<"photo", PairIn(<<t, u>>)>>
    BY <2>1, TwoIsRouted DEF ss
  <2> QED
    BY <1>4, <1>8, <2>2, <2>3
<1> QED
  BY <1>6, <1>7, <1>8

(* And so do those of days, months and years. *)
LEMMA DateIsRouted ==
    ASSUME NEW uri \in Seq(PossibleMarks), NEW d \in [1..3 -> Nat], IsDay(d), d = ParsedDay(d)
    PROVE  /\ IsAddress(Split(uri), <<"day", d>>) => Route(uri) = <<"day", d>>
           /\ IsAddress(Split(uri), <<"month", MonthOf(d)>>) => Route(uri) = <<"month", MonthOf(d)>>
           /\ IsAddress(Split(uri), <<"year", YearOf(d)>>) => Route(uri) = <<"year", YearOf(d)>>
<1>1. ASSUME IsAddress(Split(uri), <<"day", d>>) PROVE Route(uri) = <<"day", d>>
  <2>1. Split(uri) = <<DayName(d)>>
    BY <1>1, AddressesAre
  <2>2. DayIn(DayName(d)) = d
    BY DatesAreWritten
  <2> QED
    BY <2>1, <2>2, OneIsRouted
<1>2. ASSUME IsAddress(Split(uri), <<"month", MonthOf(d)>>)
      PROVE  Route(uri) = <<"month", MonthOf(d)>>
  <2> DEFINE m == MonthOf(d)
  <2>1. Split(uri) = <<MonthName(m)>>
    BY <1>2, AddressesAre
  <2>2. MonthIn(MonthName(m)) = m
    BY DatesAreWritten, RealNumbers DEF MonthOf
  <2>3. m[1] # 0 /\ m[2] # 0
    BY DEF MonthOf, IsDay
  <2> HIDE DEF m
  <2>4. MonthIn(MonthName(m))[1] # 0 /\ MonthIn(MonthName(m))[2] # 0
    BY <2>2, <2>3
  <2>5. Route(uri) = <<"month", m>>
    BY <2>1, <2>2, <2>4, OneIsRouted
  <2> QED
    BY <2>5 DEF m
<1>3. ASSUME IsAddress(Split(uri), <<"year", YearOf(d)>>)
      PROVE  Route(uri) = <<"year", YearOf(d)>>
  <2> DEFINE y == YearOf(d)
  <2>1. Split(uri) = <<YearName(y)>>
    BY <1>3, AddressesAre
  <2>2. YearIn(YearName(y)) = y /\ y # 0
    BY DatesAreWritten, RealNumbers DEF YearOf, IsDay
  <2> HIDE DEF y
  <2>3. Route(uri) = <<"year", y>>
    BY <2>1, <2>2, OneIsRouted
  <2> QED
    BY <2>3 DEF y
<1> QED
  BY <1>1, <1>2, <1>3

(* The address of anything there may be leads to it. *)
LEMMA AddressIsRouted ==
    ASSUME NEW uri \in Seq(PossibleMarks), NEW p \in KnownResources, IsAddress(Split(uri), p)
    PROVE  Route(uri) = p
<1> DEFINE ss == Split(uri)
<1>1. CASE p = FrontPage
  <2>1. ss \in {<<Nil>>, <<Said("index.html")>>}
    BY <1>1, AddressesAre
  <2>2. PICK t : ss = <<t>> /\ (t = Nil \/ t = Said("index.html"))
    BY <2>1
  <2> QED
    BY <1>1, <2>2, OneIsRouted
<1>2. CASE p = AllWords
  <2>1. ss = <<Said("key"), Nil>>
    BY <1>2, AddressesAre
  <2> QED
    BY <1>2, <2>1, TwoIsRouted
<1>3. CASE p = Redirect
  <2>1. ss \in {<<Said("keywords")>>, <<Said("key")>>}
    BY <1>3, AddressesAre
  <2>2. PICK t : ss = <<t>> /\ (t = Said("keywords") \/ t = Said("key"))
    BY <2>1
  <2> QED
    BY <1>3, <2>2, OneIsRouted
<1>4. CASE \E w \in {"css", "robots.txt", "icon"} : p = LibFile(w)
  <2>1. PICK w \in {"css", "robots.txt", "icon"} : p = LibFile(w)
    BY <1>4
  <2>2. ss = <<Said(w)>>
    BY <2>1, AddressesAre
  <2> QED
    BY <2>1, <2>2, OneIsRouted
<1>5. CASE \E kind \in {"image", "thumb", "photo"} : \E q \in RealPhotos : p = <<kind, q>>
  <2>1. PICK kind \in {"image", "thumb", "photo"}, q \in RealPhotos : p = <<kind, q>>
    BY <1>5
  <2>2. RealPhoto(q)
    BY RealPhotosAre
  <2> QED
    BY <2>1, <2>2, PhotoIsRouted
<1>6. CASE \E q \in RealPhotos : p \in {<<"day", q.day>>, <<"month", MonthOf(q.day)>>, <<"year", YearOf(q.day)>>}
  <2>1. PICK q \in RealPhotos :
               p \in {<<"day", q.day>>, <<"month", MonthOf(q.day)>>, <<"year", YearOf(q.day)>>}
    BY <1>6
  <2> DEFINE d == q.day
  <2>2. d \in [1..3 -> Nat] /\ IsDay(d) /\ d = ParsedDay(d)
    BY RealPhotosAre
  <2>3. p = <<"day", d>> \/ p = <<"month", MonthOf(d)>> \/ p = <<"year", YearOf(d)>>
    BY <2>1
  <2> HIDE DEF d
  <2>4. CASE p = <<"day", d>>
    <3>1. IsAddress(Split(uri), <<"day", d>>)
      BY <2>4
    <3> QED
      BY <3>1, <2>2, <2>4, DateIsRouted
  <2>5. CASE p = <<"month", MonthOf(d)>>
    <3>1. IsAddress(Split(uri), <<"month", MonthOf(d)>>)
      BY <2>5
    <3> QED
      BY <3>1, <2>2, <2>5, DateIsRouted
  <2>6. CASE p = <<"year", YearOf(d)>>
    <3>1. IsAddress(Split(uri), <<"year", YearOf(d)>>)
      BY <2>6
    <3> QED
      BY <3>1, <2>2, <2>6, DateIsRouted
  <2> QED
    BY <2>3, <2>4, <2>5, <2>6
<1>7. CASE \E k \in DOMAIN byKey \ {<<>>} : p = <<"key", k>>
  <2>1. PICK k \in DOMAIN byKey \ {<<>>} : p = <<"key", k>>
    BY <1>7
  <2>2. Len(ss) = 2 /\ ss[1] = Said("key") /\ KeyIn(ss[2]) = k
    BY <2>1, AddressesAre
  <2>3. ss = <<ss[1], ss[2]>>
    BY <2>2, SegmentsAreTexts
  <2> DEFINE u == ss[2]
  <2>4. ss = <<Said("key"), u>> /\ KeyIn(u) = k /\ k # <<>>
    BY <2>1, <2>2, <2>3
  <2> HIDE DEF u
  <2> QED
    BY <2>1, <2>4, TwoIsRouted
<1> QED
  BY <1>1, <1>2, <1>3, <1>4, <1>5, <1>6, <1>7 DEF KnownResources

(***************************************************************************)
(* What is known of the answer to a request which got as far as its URI:   *)
(* it is for what the URI is taken for, and a gallery is there unless it   *)
(* would be empty.                                                         *)
(***************************************************************************)
Directed(r, a) ==
    /\ a.what = Route(r.uri)
    /\ IsGallery(a.what) => (a.status = 200 <=> ~Missing(a.what))

UrisInv ==
    /\ AnswersInv
    /\ Asked => Ready
    /\ Routed => Directed(req, answer)

(* A response which is not 400 or 501 is one for a resource. *)
LEMMA ResponseIsDirected ==
    ASSUME NEW r, NEW a \in ResponseOf(r), a.status \notin {400, 501}
    PROVE  Directed(r, a)
<1>1. CASE r.method # "GET"
  <2>1. a = Answer(501, NoPage, r)
    BY <1>1 DEF ResponseOf
  <2> QED
    BY <2>1 DEF Answer
<1>2. CASE r.method = "GET" /\ ~HostMatches(r.host)
  <2>1. a = Answer(400, NoPage, r)
    BY <1>2 DEF ResponseOf
  <2> QED
    BY <2>1 DEF Answer
<1>3. CASE r.method = "GET" /\ HostMatches(r.host)
  <2>1. PICK status \in StatusesOf(Route(r.uri)) : a = Answer(status, Route(r.uri), r)
    BY <1>3 DEF ResponseOf
  <2> DEFINE p == Route(r.uri)
  <2>2. a.what = p /\ a.status = status /\ status \in StatusesOf(p)
    BY <2>1 DEF Answer
  <2> HIDE DEF p
  <2>3. ASSUME IsGallery(p) PROVE status = 200 <=> ~Missing(p)
    <3>1. IsPage(p) /\ p[1] \notin {"image", "thumb", "file", "redirect", "404"}
      BY <2>3 DEF IsPage, IsGallery
    <3>2. p # Redirect /\ p # NotFound
      BY <3>1 DEF Redirect, NotFound
    <3>3. StatusesOf(p) = {IF Missing(p) THEN 404 ELSE 200}
      BY <3>1, <3>2 DEF StatusesOf
    <3> QED
      BY <2>2, <3>3
  <2> QED
    BY <2>2, <2>3 DEF Directed, p
<1> QED
  BY <1>1, <1>2, <1>3

(* As long as the index is the same, a gallery which is there stays there. *)
LEMMA DirectedStays ==
    ASSUME UNCHANGED vars, NEW CONSTANT r, NEW CONSTANT a, Directed(r, a)
    PROVE  Directed(r, a)'
<1> DEFINE p == a.what
<1>1. Missing(p)' <=> Missing(p)
  BY SamePieces
<1> QED
  BY <1>1 DEF Directed

(* Before the first request there is no answer. *)
LEMMA UrisInit == CInit => UrisInv
BY AnswersInit DEF CInit, UrisInv, Routed, Asked

(* Each step keeps the invariant: while there is a request the index stays. *)
LEMMA UrisNext == UrisInv /\ [CNext]_<<vars, served, asked>> => UrisInv'
<1> SUFFICES ASSUME UrisInv, [CNext]_<<vars, served, asked>>
             PROVE  UrisInv'
  OBVIOUS
<1>1. AnswersInv'
  BY AnswersNext DEF UrisInv
<1>2. CASE Request
  <2>1. PICK r \in Requests(files) : \E a \in ResponseOf(r) : req' = r /\ answer' = a
    BY <1>2 DEF Request
  <2>2. PICK a \in ResponseOf(r) : req' = r /\ answer' = a
    BY <2>1
  <2>3. UNCHANGED vars /\ Ready
    BY <1>2 DEF Request
  <2>4. ASSUME a.status \notin {400, 501} PROVE Directed(r, a)'
    BY <2>3, <2>4, ResponseIsDirected, DirectedStays
  <2>5. Ready'
    BY <2>3 DEF Ready, vars
  <2>6. Routed' => a.status \notin {400, 501}
    BY <2>2 DEF Routed
  <2>7. Routed' => Directed(req, answer)'
    BY <2>2, <2>4, <2>6 DEF Directed
  <2> QED
    BY <1>1, <2>5, <2>7 DEF UrisInv
<1>3. CASE Finish
  BY <1>1, <1>3 DEF Finish, UrisInv, Routed, Asked
<1>4. CASE Build
  <2>1. ~Ready
    BY <1>4 DEF Build, Next, ReadLine, EndOfFiles, Ready
  <2>2. ~Asked /\ req' = req
    BY <1>4, <2>1 DEF UrisInv, Build, asked
  <2> QED
    BY <1>1, <2>2 DEF UrisInv, Routed, Asked
<1>5. CASE GenerateMore \/ UNCHANGED <<vars, served, asked>>
  <2>1. UNCHANGED vars /\ req' = req /\ answer' = answer
    BY <1>5 DEF GenerateMore, Tick, asked
  <2>2. (Asked' <=> Asked) /\ (Routed' <=> Routed) /\ (Ready' <=> Ready)
    BY <2>1 DEF Asked, Routed, Ready, vars
  <2>3. ASSUME Routed PROVE Directed(req, answer)'
    <3>1. PICK r, a : r = req /\ a = answer /\ Directed(r, a)
      BY <2>3 DEF UrisInv
    <3>2. Directed(r, a)'
      BY <2>1, <3>1, DirectedStays
    <3> QED
      BY <2>1, <3>1, <3>2 DEF Directed
  <2> QED
    BY <1>1, <2>2, <2>3 DEF UrisInv
<1> QED
  BY <1>2, <1>3, <1>4, <1>5 DEF CNext

(* A gallery is empty if and only if no entry belongs in it. *)
LEMMA GalleryIsThere ==
    ASSUME Indexed, NEW p, IsGallery(p), Called(p)
    PROVE  ~Missing(p) <=> \E e \in ToSet(entries) : Belongs(e, p)
<1>1. PICK q : Ascends(q, Len(entries), Members(p)) /\ Gallery(p) = Chosen(entries, q)
  BY GalleryIsChosen DEF Indexed
<1>2. q \in Seq(1..Len(entries)) /\ Len(entries) \in Nat /\ DOMAIN entries = 1..Len(entries)
  BY <1>1, LenProperties DEF Ascends, Indexed, Index
<1>3. Len(q) \in Nat /\ \A k \in 1..Len(q) : q[k] \in 1..Len(entries)
  BY <1>2, LenProperties, ElementOfSeq
<1>4. Missing(p) <=> Gallery(p) = <<>>
  BY DEF Missing, IsGallery
<1>5. Gallery(p) = <<>> <=> Len(q) = 0
  <2>1. Gallery(p) = [k \in 1..Len(q) |-> entries[q[k]]]
    BY <1>1 DEF Chosen
  <2>2. Len(Gallery(p)) = Len(q)
    BY <1>3, <2>1
  <2>3. ASSUME Len(q) = 0 PROVE Gallery(p) = <<>>
    BY <2>1, <2>3
  <2> QED
    BY <2>2, <2>3
<1>6. (\E e \in ToSet(entries) : Belongs(e, p)) <=> (\E i \in DOMAIN entries : i \in Members(p))
  BY DEF ToSet, Members
<1>7. (\E i \in DOMAIN entries : i \in Members(p)) <=> Len(q) # 0
  <2>1. ASSUME NEW i \in DOMAIN entries, i \in Members(p) PROVE Len(q) # 0
    BY <1>1, <1>2, <1>3, <2>1 DEF Ascends
  <2>2. ASSUME Len(q) # 0 PROVE q[1] \in DOMAIN entries /\ q[1] \in Members(p)
    <3>1. 1 \in 1..Len(q)
      BY <1>3, <2>2
    <3> QED
      BY <1>1, <1>2, <1>3, <3>1 DEF Ascends
  <2> QED
    BY <2>1, <2>2
<1> QED
  BY <1>4, <1>5, <1>6, <1>7

(***************************************************************************)
(* UrisAreUnderstood (content.cc): however the characters of an URI are    *)
(* encoded, whatever its segments could be read as and however many there  *)
(* are, it is taken for a known resource if and only if it is an address   *)
(* of it (/by-date is not a known one: KnownResources); and with timestamps*)
(* a gallery is there if and only if there is a photo for it.              *)
(***************************************************************************)
THEOREM UrisAreAlwaysUnderstood == CSpec => []UrisAreUnderstood
<1>1. CInit => UrisInv
  BY UrisInit
<1>2. UrisInv /\ [CNext]_<<vars, served, asked>> => UrisInv'
  BY UrisNext
<1>3. UrisInv => UrisAreUnderstood
  <2> DEFINE uri == req.uri
             found == answer.what
  <2> SUFFICES ASSUME UrisInv, Routed
               PROVE  /\ found # NotFound => IsAddress(Split(uri), found)
                      /\ \A p \in KnownResources : IsAddress(Split(uri), p) => found = p
                      /\ IsGallery(found) =>
                            (answer.status = 200 <=> \E e \in ToSet(entries) : Belongs(e, found))
    BY DEF UrisAreUnderstood
  <2>1. PagesInv /\ Answered(req, answer) /\ Ready /\ Directed(req, answer)
    BY DEF UrisInv, AnswersInv, Routed
  <2>2. uri \in Seq(PossibleMarks)
    BY <2>1, RequestAssumption DEF Answered
  <2>3. found = Route(uri) /\ (IsGallery(found) => (answer.status = 200 <=> ~Missing(found)))
    BY <2>1 DEF Directed
  <2>4. Indexed
    BY <2>1, IsIndexed
  <2> HIDE DEF uri, found
  <2>5. Called(found)
    BY <2>2, <2>3, RouteIsCalled
  <2>6. found # NotFound => IsAddress(Split(uri), found)
    BY <2>2, <2>3, RouteIsAddress
  <2>7. \A p \in KnownResources : IsAddress(Split(uri), p) => found = p
    BY <2>2, <2>3, AddressIsRouted
  <2>8. IsGallery(found) =>
            (answer.status = 200 <=> \E e \in ToSet(entries) : Belongs(e, found))
    BY <2>3, <2>4, <2>5, GalleryIsThere
  <2> QED
    BY <2>6, <2>7, <2>8
<1> QED
  BY <1>1, <1>2, <1>3, PTL DEF CSpec
=============================================================================
