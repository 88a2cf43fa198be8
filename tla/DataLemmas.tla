----------------------------- MODULE DataLemmas -----------------------------
(***************************************************************************)
(* Lemmas about the data, which say nothing of any state: induction over   *)
(* naturals, for which a set stands for the predicate; sequences, cut in   *)
(* two, as TextReader and Backlog cut their buffers, joined, and collected *)
(* by a loop or a fold; and the calendar and dates.                        *)
(***************************************************************************)
EXTENDS Dates, Integers, FiniteSetTheorems, SequenceTheorems, WellFoundedInduction,
        TLAPS

(***************************************************************************)
(* A nonempty set of naturals has a least element.  The intervals 1..n are *)
(* finite sets, among which there is one that has no other as a subset.    *)
(***************************************************************************)
LEMMA LeastElement ==
    ASSUME NEW T \in SUBSET Nat, T # {}
    PROVE  \E n \in T : \A m \in T : n <= m
<1> DEFINE UpTo == {1..n : n \in T}
<1>1. UpTo \subseteq FiniteSubsetsOf(Nat) /\ UpTo # {}
  <2>1. \A n \in T : 1..n \subseteq Nat /\ IsFiniteSet(1..n)
    BY FS_Interval
  <2> QED
    BY <2>1 DEF FiniteSubsetsOf
<1>2. PICK U \in UpTo : \A W \in UpTo : ~ (<<W, U>> \in StrictSubsetOrdering(Nat))
  BY <1>1, FS_StrictSubsetOrderingWellFounded, WFMin
<1>3. PICK n \in T : U = 1..n
  OBVIOUS
<1>4. ASSUME NEW m \in T, m < n
      PROVE  FALSE
  <2>1. 1..m \subseteq 1..n /\ 1..m # 1..n /\ 1..n \subseteq Nat
    BY <1>4
  <2>2. <<1..m, 1..n>> \in StrictSubsetOrdering(Nat)
    BY <2>1 DEF StrictSubsetOrdering
  <2> QED
    BY <1>2, <1>3, <2>2
<1> QED
  BY <1>4

(* What holds of 0 and of n + 1 when it does of n, holds of all naturals. *)
LEMMA Induction ==
    ASSUME NEW T, 0 \in T, \A n \in Nat : n \in T => n + 1 \in T
    PROVE  Nat \subseteq T
<1> DEFINE U == Nat \ T
<1> SUFFICES ASSUME U # {} PROVE FALSE
  OBVIOUS
<1>1. PICK n \in U : \A m \in U : n <= m
  BY LeastElement
<1>2. n # 0 /\ n \in Nat /\ n \notin T
  OBVIOUS
<1>3. n - 1 \in Nat /\ n - 1 < n /\ (n - 1) + 1 = n
  BY <1>2
<1>4. n - 1 \in T
  BY <1>1, <1>3
<1> QED
  BY <1>2, <1>3, <1>4

(***************************************************************************)
(* A sequence cut in two, at any place: what Give() and recv(2) do.        *)
(***************************************************************************)
LEMMA CutInTwo ==
    ASSUME NEW S, NEW s \in Seq(S), NEW n \in 0..Len(s)
    PROVE  /\ SubSeq(s, 1, n) \in Seq(S)
           /\ Len(SubSeq(s, 1, n)) = n
           /\ SubSeq(s, n + 1, Len(s)) \in Seq(S)
           /\ Len(SubSeq(s, n + 1, Len(s))) = Len(s) - n
           /\ SubSeq(s, 1, n) \o SubSeq(s, n + 1, Len(s)) = s
<1>1. Len(s) \in Nat
  BY LenProperties
<1>2. \A i \in 1..Len(s) : s[i] \in S
  BY ElementOfSeq
<1>3. /\ SubSeq(s, 1, n) \in Seq(S)
      /\ Len(SubSeq(s, 1, n)) = n
  BY <1>1, <1>2, SubSeqProperties
<1>4. /\ SubSeq(s, n + 1, Len(s)) \in Seq(S)
      /\ Len(SubSeq(s, n + 1, Len(s))) = Len(s) - n
  BY <1>1, <1>2, SubSeqProperties
<1>5. SubSeq(s, 1, n) \o SubSeq(s, n + 1, Len(s)) = SubSeq(s, 1, Len(s))
  <2>1. /\ 1 \in 1..(Len(s) + 1)
        /\ n \in (1 - 1)..Len(s)
        /\ Len(s) \in n..Len(s)
    BY <1>1
  <2> HIDE <1>1
  <2> QED
    BY <2>1, ConcatAdjacentSubSeq
<1>6. SubSeq(s, 1, Len(s)) = s
  BY SubSeqFull
<1> QED
  BY <1>3, <1>4, <1>5, <1>6

(* The same, with an element of its own in between *)
LEMMA CutAround ==
    ASSUME NEW S, NEW s \in Seq(S), NEW n \in 1..Len(s)
    PROVE  SubSeq(s, 1, n - 1) \o (<<s[n]>> \o SubSeq(s, n + 1, Len(s))) = s
<1>1. Len(s) \in Nat
  BY LenProperties
<1>2. n \in 1..Len(s) /\ n - 1 \in 0..Len(s) /\ Len(s) \in n..Len(s) /\ (n - 1) + 1 = n
  BY <1>1
<1>3. SubSeq(s, n, Len(s)) = <<s[n]>> \o SubSeq(s, n + 1, Len(s))
  BY <1>2, SubSeqRecursiveFirst
<1>4. SubSeq(s, 1, n - 1) \o SubSeq(s, (n - 1) + 1, Len(s)) = s
  BY <1>2, CutInTwo
<1> QED
  BY <1>2, <1>3, <1>4

(* An element may leave the one sequence and join the other. *)
LEMMA MoveOne ==
    ASSUME NEW S, NEW s \in Seq(S), NEW t \in Seq(S), t # <<>>
    PROVE  Append(s, Head(t)) \o Tail(t) = s \o t
<1>1. Len(t) \in Nat /\ Len(t) # 0 /\ Head(t) = t[1] /\ Head(t) \in S /\ Tail(t) \in Seq(S)
  BY LenProperties, EmptySeq, HeadTailProperties
<1>2. Append(s, Head(t)) = s \o <<Head(t)>> /\ <<Head(t)>> \in Seq(S)
  BY <1>1, AppendIsConcat
<1>3. <<Head(t)>> \o Tail(t) = t
  <2>1. 1 \in 1..Len(t) /\ Len(t) \in 1..Len(t)
    BY <1>1
  <2>2. SubSeq(t, 1, Len(t)) = <<t[1]>> \o SubSeq(t, 1 + 1, Len(t))
    BY <2>1, SubSeqRecursiveFirst
  <2>3. SubSeq(t, 1, Len(t)) = t /\ Tail(t) = SubSeq(t, 1 + 1, Len(t))
    BY SubSeqFull, TailIsSubSeq
  <2> QED
    BY <1>1, <2>2, <2>3
<1>4. (s \o <<Head(t)>>) \o Tail(t) = s \o (<<Head(t)>> \o Tail(t))
  BY <1>1, <1>2, ConcatAssociative
<1> QED
  BY <1>2, <1>3, <1>4

(* A natural which is neither 0 nor 1 is more: what a test of "= 1" leaves. *)
LEMMA MoreThanOne ==
    ASSUME NEW n \in Nat, n > 0
    PROVE  n = 1 <=> ~(n > 1)
  OBVIOUS

(* Joining sequences is associative: in four parts, whichever go first. *)
LEMMA FourParts ==
    ASSUME NEW S, NEW s \in Seq(S), NEW t \in Seq(S), NEW u \in Seq(S), NEW v \in Seq(S)
    PROVE  /\ (s \o (t \o u)) \o v = s \o (t \o (u \o v))
           /\ t \o (u \o v) \in Seq(S)
<1>1. t \o u \in Seq(S) /\ u \o v \in Seq(S)
  BY ConcatProperties
<1>2. t \o (u \o v) \in Seq(S)
  BY <1>1, ConcatProperties
<1> DEFINE Join(x, y) == x \o y
<1>3. \A x, y, z \in Seq(S) : Join(Join(x, y), z) = Join(x, Join(y, z))
  BY ONLY ConcatAssociative, SMTT(20)
<1>4. Join(t, u) \in Seq(S) /\ Join(u, v) \in Seq(S)
  BY <1>1
<1> HIDE DEF Join
<1>5. Join(Join(s, Join(t, u)), v) = Join(s, Join(t, Join(u, v)))
  BY <1>3, <1>4
<1> QED
  BY <1>2, <1>5 DEF Join

-----------------------------------------------------------------------------
(***************************************************************************)
(* Sequences: some elements of one (Lists.tla), sequences joined, and      *)
(* what is collected step by step.                                         *)
(***************************************************************************)
(* FoldLeft takes the largest position last. *)
LEMMA MaxOfPrefix ==
    ASSUME NEW k \in Nat, NEW s \in SUBSET (1..(k + 1)), k + 1 \in s
    PROVE  Max(s) = k + 1
<1>1. \A x \in s : (\A y \in s : x >= y) => x = k + 1
  OBVIOUS
<1>2. \A y \in s : k + 1 >= y
  OBVIOUS
<1>3. Max(s) \in s /\ \A y \in s : Max(s) >= y
  BY <1>2 DEF Max
<1> QED
  BY <1>1, <1>3

(* The loop in Picked, with the function it is *)
PickOne(f, s, S, i) ==
    IF i = 0 THEN <<>>
    ELSE IF i \in S THEN Append(f[i - 1], s[i])
    ELSE f[i - 1]

(* The loop in Picked ends, whatever is picked: its equation has a solution. *)
LEMMA PickingExists ==
    ASSUME NEW s, NEW S, NEW N \in Nat
    PROVE  \E f : f = [i \in 0..N |-> PickOne(f, s, S, i)]
<1> DEFINE Good(k, f) == f = [i \in 0..k |-> PickOne(f, s, S, i)]
           T == {k \in Nat : \E f : Good(k, f)}
<1>1. 0 \in T
  <2> DEFINE f == [i \in 0..0 |-> <<>>]
  <2>1. \A i \in 0..0 : PickOne(f, s, S, i) = <<>>
    BY DEF PickOne
  <2>2. Good(0, f)
    BY <2>1
  <2> QED
    BY <2>2
<1>2. ASSUME NEW k \in Nat, k \in T
      PROVE  k + 1 \in T
  <2>1. PICK f : Good(k, f)
    BY <1>2
  <2> DEFINE g == [i \in 0..(k + 1) |-> IF i = k + 1 THEN PickOne(f, s, S, i) ELSE f[i]]
  <2>2. \A i \in 0..k : g[i] = f[i]
    OBVIOUS
  <2>3. \A i \in 0..k : f[i] = PickOne(f, s, S, i)
    BY <2>1
  <2>4. g[k + 1] = PickOne(f, s, S, k + 1)
    OBVIOUS
  <2>5. g = [i \in 0..(k + 1) |-> g[i]]
    OBVIOUS
  <2> HIDE DEF g
  <2>6. ASSUME NEW i \in 0..(k + 1)
        PROVE  PickOne(g, s, S, i) = PickOne(f, s, S, i)
    <3>1. i = 0 \/ i - 1 \in 0..k
      OBVIOUS
    <3> QED
      BY <2>2, <3>1 DEF PickOne
  <2>7. \A i \in 0..(k + 1) : i \in 0..k \/ i = k + 1
    OBVIOUS
  <2>8. \A i \in 0..(k + 1) : g[i] = PickOne(g, s, S, i)
    BY <2>2, <2>3, <2>4, <2>6, <2>7
  <2>9. Good(k + 1, g)
    BY <2>5, <2>8
  <2> HIDE DEF Good
  <2> QED
    BY <2>9
<1>3. N \in T
  <2> HIDE DEF T
  <2> QED
    BY <1>1, <1>2, Induction
<1> QED
  BY <1>3

(* Picked, position by position *)
LEMMA PickedStepwise ==
    ASSUME NEW s, NEW S, Len(s) \in Nat
    PROVE  \E f : /\ f[0] = <<>>
                  /\ \A k \in 1..Len(s) :
                        f[k] = IF k \in S THEN Append(f[k - 1], s[k]) ELSE f[k - 1]
                  /\ Picked(s, S) = f[Len(s)]
<1> DEFINE F == CHOOSE f : f = [i \in 0..Len(s) |-> PickOne(f, s, S, i)]
<1>1. Picked(s, S) = F[Len(s)]
  BY DEF Picked, PickOne
<1>2. F = [i \in 0..Len(s) |-> PickOne(F, s, S, i)]
  BY PickingExists
<1> HIDE DEF F
<1>3. \A i \in 0..Len(s) : F[i] = PickOne(F, s, S, i)
  BY <1>2
<1>4. F[0] = <<>>
  BY <1>3 DEF PickOne
<1>5. \A k \in 1..Len(s) :
         F[k] = IF k \in S THEN Append(F[k - 1], s[k]) ELSE F[k - 1]
  BY <1>3 DEF PickOne
<1> QED
  BY <1>1, <1>4, <1>5

(* q lists the positions up to N which are in S, in ascending order. *)
Ascends(q, N, S) ==
    /\ q \in Seq(1..N)
    /\ \A j, k \in 1..Len(q) : j < k => q[j] < q[k]
    /\ \A k \in 1..Len(q) : q[k] \in S
    /\ \A i \in 1..N : i \in S => \E k \in 1..Len(q) : q[k] = i

(* Picked goes through the positions in ascending order. *)
LEMMA PickedAscends ==
    ASSUME NEW s, NEW S, Len(s) \in Nat
    PROVE  \E q : /\ Ascends(q, Len(s), S)
                  /\ Picked(s, S) = [k \in 1..Len(q) |-> s[q[k]]]
<1> DEFINE N == Len(s)
<1>1. PICK f : /\ f[0] = <<>>
               /\ \A k \in 1..N : f[k] = IF k \in S THEN Append(f[k - 1], s[k]) ELSE f[k - 1]
               /\ Picked(s, S) = f[N]
  BY PickedStepwise
<1> HIDE DEF N
<1> DEFINE Good(k) == k <= N => \E q : /\ Ascends(q, k, S)
                                       /\ f[k] = [j \in 1..Len(q) |-> s[q[j]]]
           T == {k \in Nat : Good(k)}
<1>2. Good(0)
  <2>1. Ascends(<<>>, 0, S)
    BY DEF Ascends
  <2>2. f[0] = [j \in 1..Len(<<>>) |-> s[<<>>[j]]]
    BY <1>1
  <2> QED
    BY <2>1, <2>2
<1>3. ASSUME NEW k \in Nat, Good(k)
      PROVE  Good(k + 1)
  <2> SUFFICES ASSUME k + 1 <= N
               PROVE  \E q : /\ Ascends(q, k + 1, S)
                             /\ f[k + 1] = [j \in 1..Len(q) |-> s[q[j]]]
    OBVIOUS
  <2>0. N \in Nat
    BY DEF N
  <2>1. PICK q : Ascends(q, k, S) /\ f[k] = [j \in 1..Len(q) |-> s[q[j]]]
    BY <1>3, <2>0
  <2>2. f[k + 1] = IF k + 1 \in S THEN Append(f[k], s[k + 1]) ELSE f[k]
    <3>1. k + 1 \in 1..N /\ (k + 1) - 1 = k
      BY <2>0
    <3> QED
      BY <1>1, <3>1
  <2>3. q \in Seq(1..k) /\ Len(q) \in Nat
    BY <2>1 DEF Ascends
  <2>4. \A j \in 1..Len(q) : q[j] \in 1..k
    BY <2>3
  <2>5. CASE k + 1 \in S
    <3> DEFINE r == Append(q, k + 1)
    <3>1. /\ r \in Seq(1..(k + 1)) /\ Len(r) = Len(q) + 1
          /\ r[Len(q) + 1] = k + 1 /\ \A j \in 1..Len(q) : r[j] = q[j]
      <4>1. q \in Seq(1..(k + 1))
        BY <2>3, <2>4
      <4> QED
        BY <4>1
    <3> HIDE DEF r
    <3>2. Ascends(r, k + 1, S)
      <4>1. \A j \in 1..Len(r) : j \in 1..Len(q) \/ j = Len(q) + 1
        BY <2>3, <3>1
      <4>2. ASSUME NEW i \in 1..Len(r), NEW j \in 1..Len(r), i < j
            PROVE  r[i] < r[j]
        <5>1. i \in 1..Len(q)
          BY <2>3, <3>1, <4>2
        <5>2. r[i] = q[i] /\ q[i] \in 1..k
          BY <2>4, <3>1, <5>1
        <5>3. CASE j = Len(q) + 1
          BY <3>1, <5>2, <5>3
        <5>4. CASE j \in 1..Len(q)
          <6>1. q[i] < q[j]
            BY <2>1, <4>2, <5>1, <5>4 DEF Ascends
          <6> QED
            BY <3>1, <5>2, <5>4, <6>1
        <5> QED
          BY <4>1, <5>3, <5>4
      <4>3. \A j \in 1..Len(r) : r[j] \in S
        BY <2>1, <2>5, <3>1, <4>1 DEF Ascends
      <4>4. ASSUME NEW i \in 1..(k + 1), i \in S
            PROVE  \E j \in 1..Len(r) : r[j] = i
        <5>1. CASE i = k + 1
          BY <2>3, <3>1, <5>1
        <5>2. CASE i \in 1..k
          <6>1. PICK j \in 1..Len(q) : q[j] = i
            BY <2>1, <4>4, <5>2 DEF Ascends
          <6> QED
            BY <2>3, <3>1, <6>1
        <5> QED
          BY <5>1, <5>2
      <4> QED
        BY <3>1, <4>2, <4>3, <4>4 DEF Ascends
    <3>3. f[k + 1] = [j \in 1..Len(r) |-> s[r[j]]]
      <4> DEFINE g == [j \in 1..Len(q) |-> s[q[j]]]
      <4>1. f[k + 1] = Append(g, s[k + 1]) /\ Len(g) = Len(q)
        BY <2>1, <2>2, <2>3, <2>5
      <4>2. Append(g, s[k + 1]) = [j \in 1..(Len(g) + 1) |-> IF j = Len(g) + 1 THEN s[k + 1] ELSE g[j]]
        BY <4>1, <2>3
      <4>3. \A j \in 1..(Len(q) + 1) :
               (IF j = Len(q) + 1 THEN s[k + 1] ELSE g[j]) = s[r[j]]
        BY <2>3, <3>1
      <4> HIDE DEF g
      <4> QED
        BY <3>1, <4>1, <4>2, <4>3
    <3> QED
      BY <3>2, <3>3
  <2>6. CASE k + 1 \notin S
    <3>1. Ascends(q, k + 1, S)
      <4>1. q \in Seq(1..(k + 1))
        BY <2>3, <2>4
      <4>2. \A i \in 1..(k + 1) : i \in S => i \in 1..k
        BY <2>6
      <4> QED
        BY <2>1, <4>1, <4>2 DEF Ascends
    <3> QED
      BY <2>1, <2>2, <2>6, <3>1
  <2> QED
    BY <2>5, <2>6
<1>4. \A k \in Nat : Good(k)
  <2> HIDE DEF Good
  <2>1. 0 \in T /\ \A k \in Nat : k \in T => k + 1 \in T
    BY <1>2, <1>3
  <2> HIDE DEF T
  <2>2. Nat \subseteq T
    BY <2>1, Induction
  <2> QED
    BY <2>2 DEF T
<1>5. N \in Nat
  BY DEF N
<1>6. Good(N) => \E q : /\ Ascends(q, N, S)
                        /\ f[N] = [k \in 1..Len(q) |-> s[q[k]]]
  BY <1>5
<1>7. Good(N)
  <2> HIDE DEF Good
  <2> QED
    BY <1>4, <1>5
<1>8. PICK q : Ascends(q, N, S) /\ f[N] = [k \in 1..Len(q) |-> s[q[k]]]
  BY <1>5, <1>6, <1>7
<1> HIDE DEF Good, T
<1> QED
  BY <1>1, <1>8 DEF N

(* Positions are listed in ascending order in one way only. *)
LEMMA AscendsOnce ==
    ASSUME NEW N \in Nat, NEW S, NEW p, NEW q, Ascends(p, N, S), Ascends(q, N, S)
    PROVE  p = q
<1>1. /\ Len(p) \in Nat /\ Len(q) \in Nat
      /\ p \in Seq(1..N) /\ q \in Seq(1..N)
      /\ \A k \in 1..Len(p) : p[k] \in 1..N /\ p[k] \in S
      /\ \A k \in 1..Len(q) : q[k] \in 1..N /\ q[k] \in S
  BY DEF Ascends
<1>2. ASSUME NEW a, NEW b, Ascends(a, N, S), Ascends(b, N, S), Len(a) \in Nat, Len(b) \in Nat,
             \A k \in 1..Len(a) : a[k] \in 1..N, \A k \in 1..Len(b) : b[k] \in 1..N,
             NEW k \in 1..Len(a), \A j \in 1..(k - 1) : j \in 1..Len(b) /\ a[j] = b[j],
             k \in 1..Len(b)
      PROVE  ~(a[k] < b[k])
  <2> SUFFICES ASSUME a[k] < b[k] PROVE FALSE
    OBVIOUS
  <2>1. PICK j \in 1..Len(b) : b[j] = a[k]
    BY <1>2 DEF Ascends
  <2>2. j < k
    <3>1. j = k \/ k < j \/ j < k
      OBVIOUS
    <3>2. k < j => b[k] < b[j]
      BY <1>2 DEF Ascends
    <3> QED
      BY <1>2, <2>1, <3>1, <3>2
  <2>3. j \in 1..(k - 1) /\ j \in 1..Len(a)
    BY <1>2, <2>2
  <2>4. a[j] < a[k] /\ a[j] = a[k]
    BY <1>2, <2>1, <2>2, <2>3 DEF Ascends
  <2> QED
    BY <1>2, <2>3, <2>4
<1>3. ASSUME NEW a, NEW b, Ascends(a, N, S), Ascends(b, N, S), Len(a) \in Nat, Len(b) \in Nat,
             \A k \in 1..Len(a) : a[k] \in 1..N, \A k \in 1..Len(b) : b[k] \in 1..N,
             NEW k \in 1..Len(a), \A j \in 1..(k - 1) : j \in 1..Len(b) /\ a[j] = b[j]
      PROVE  k \in 1..Len(b)
  <2>1. PICK j \in 1..Len(b) : b[j] = a[k]
    BY <1>3 DEF Ascends
  <2>2. CASE j \in 1..(k - 1)
    <3>1. j \in 1..Len(a) /\ j < k
      BY <1>3, <2>2
    <3>2. a[j] < a[k] /\ a[j] = a[k]
      BY <1>3, <2>1, <2>2, <3>1 DEF Ascends
    <3> QED
      BY <1>3, <3>1, <3>2
  <2>3. CASE ~(j \in 1..(k - 1))
    BY <1>3, <2>3
  <2> QED
    BY <2>2, <2>3
<1> DEFINE Bad1 == {k \in Nat : k \in 1..Len(p) /\ ~(k \in 1..Len(q) /\ p[k] = q[k])}
<1>4. Bad1 = {}
  <2> SUFFICES ASSUME Bad1 # {} PROVE FALSE
    OBVIOUS
  <2>1. PICK k \in Bad1 : \A m \in Bad1 : k <= m
    BY LeastElement
  <2>2. k \in 1..Len(p) /\ ~(k \in 1..Len(q) /\ p[k] = q[k])
    OBVIOUS
  <2>3. \A j \in 1..(k - 1) : j \in 1..Len(q) /\ p[j] = q[j] /\ j \in 1..Len(p)
    <3> SUFFICES ASSUME NEW j \in 1..(k - 1)
                 PROVE  j \in 1..Len(q) /\ p[j] = q[j] /\ j \in 1..Len(p)
      OBVIOUS
    <3>1. j \in Nat /\ ~(k <= j) /\ j \in 1..Len(p)
      BY <1>1, <2>2
    <3>2. j \notin Bad1
      BY <2>1, <3>1
    <3> QED
      BY <3>1, <3>2
  <2> HIDE DEF Bad1
  <2>4. k \in 1..Len(q)
    BY <1>1, <1>3, <2>2, <2>3
  <2>5. ~(p[k] < q[k])
    BY <1>1, <1>2, <2>2, <2>3, <2>4
  <2>6. ~(q[k] < p[k])
    BY <1>1, <1>2, <2>2, <2>3, <2>4
  <2>7. p[k] \in Nat /\ q[k] \in Nat
    BY <1>1, <2>2, <2>4
  <2> QED
    BY <2>2, <2>4, <2>5, <2>6, <2>7
<1>5. \A k \in 1..Len(p) : k \in 1..Len(q) /\ p[k] = q[k]
  BY <1>1, <1>4
<1>6. Len(q) <= Len(p)
  <2> SUFFICES ASSUME Len(p) < Len(q) PROVE FALSE
    BY <1>1
  <2>1. Len(p) + 1 \in 1..Len(q)
    BY <1>1
  <2>2. \A j \in 1..((Len(p) + 1) - 1) : j \in 1..Len(p) /\ q[j] = p[j]
    BY <1>1, <1>5
  <2>3. Len(p) + 1 \in 1..Len(p)
    BY <1>1, <1>3, <2>1, <2>2
  <2> QED
    BY <1>1, <2>3
<1>7. Len(p) <= Len(q)
  BY <1>1, <1>5
<1>8. Len(p) = Len(q)
  BY <1>1, <1>6, <1>7
<1>9. p = [k \in 1..Len(p) |-> p[k]] /\ q = [k \in 1..Len(q) |-> q[k]]
  BY <1>1
<1> QED
  BY <1>5, <1>8, <1>9

(* So if one can tell the positions, one knows what is picked. *)
LEMMA PickedIs ==
    ASSUME NEW s, NEW S, Len(s) \in Nat, NEW q, Ascends(q, Len(s), S)
    PROVE  Picked(s, S) = [k \in 1..Len(q) |-> s[q[k]]]
BY PickedAscends, AscendsOnce

(* Places lists the positions. *)
LEMMA PlacesAscend ==
    ASSUME NEW s, NEW S, Len(s) \in Nat, DOMAIN s = 1..Len(s)
    PROVE  Ascends(Places(s, S), Len(s), S)
<1> DEFINE d == [i \in 1..Len(s) |-> i]
<1>1. d \in Seq(1..Len(s)) /\ Len(d) = Len(s)
  OBVIOUS
<1>0. \A i \in 1..Len(s) : d[i] = i
  OBVIOUS
<1> HIDE DEF d
<1>2. PICK q : Ascends(q, Len(s), S) /\ Picked(d, S) = [k \in 1..Len(q) |-> d[q[k]]]
  BY <1>1, PickedAscends
<1>3. q \in Seq(1..Len(s)) /\ \A k \in 1..Len(q) : q[k] \in 1..Len(s)
  BY <1>2 DEF Ascends
<1>4. [k \in 1..Len(q) |-> d[q[k]]] = [k \in 1..Len(q) |-> q[k]]
  BY <1>0, <1>3
<1>5. [k \in 1..Len(q) |-> q[k]] = q
  BY <1>3
<1>6. Places(s, S) = q
  BY <1>2, <1>4, <1>5 DEF Places, d
<1> QED
  BY <1>2, <1>6

(***************************************************************************)
(* The pieces of a page, joined.                                           *)
(***************************************************************************)
(* The recursion in FlattenSeq, with the function it is *)
Joining(f, b, i) == IF i = 1 THEN b[i] ELSE f[i - 1] \o b[i]

(* It has a solution. *)
LEMMA JoiningExists ==
    ASSUME NEW b, NEW N \in Nat
    PROVE  \E f : f = [i \in 1..N |-> Joining(f, b, i)]
<1> DEFINE Good(k, f) == f = [i \in 1..k |-> Joining(f, b, i)]
           T == {k \in Nat : \E f : Good(k, f)}
<1>1. 0 \in T
  <2> DEFINE f == [i \in 1..0 |-> 0]
  <2>1. Good(0, f)
    OBVIOUS
  <2> QED
    BY <2>1
<1>2. ASSUME NEW k \in Nat, k \in T
      PROVE  k + 1 \in T
  <2>1. PICK f : Good(k, f)
    BY <1>2
  <2> DEFINE g == [i \in 1..(k + 1) |-> IF i = k + 1 THEN Joining(f, b, i) ELSE f[i]]
  <2>2. \A i \in 1..k : g[i] = f[i]
    OBVIOUS
  <2>3. \A i \in 1..k : f[i] = Joining(f, b, i)
    BY <2>1
  <2>4. g[k + 1] = Joining(f, b, k + 1)
    OBVIOUS
  <2>5. g = [i \in 1..(k + 1) |-> g[i]]
    OBVIOUS
  <2> HIDE DEF g
  <2>6. ASSUME NEW i \in 1..(k + 1)
        PROVE  Joining(g, b, i) = Joining(f, b, i)
    <3>1. i = 1 \/ i - 1 \in 1..k
      OBVIOUS
    <3> QED
      BY <2>2, <3>1 DEF Joining
  <2>7. \A i \in 1..(k + 1) : i \in 1..k \/ i = k + 1
    OBVIOUS
  <2>8. \A i \in 1..(k + 1) : g[i] = Joining(g, b, i)
    BY <2>2, <2>3, <2>4, <2>6, <2>7
  <2>9. Good(k + 1, g)
    BY <2>5, <2>8
  <2> HIDE DEF Good
  <2> QED
    BY <2>9
<1>3. N \in T
  <2> HIDE DEF T
  <2> QED
    BY <1>1, <1>2, Induction
<1> QED
  BY <1>3

(* FlattenSeq, piece by piece *)
LEMMA FlattenStepwise ==
    ASSUME NEW b, Len(b) \in Nat, Len(b) > 0
    PROVE  \E f : /\ f[1] = b[1]
                  /\ \A k \in 2..Len(b) : f[k] = f[k - 1] \o b[k]
                  /\ FlattenSeq(b) = f[Len(b)]
<1> DEFINE F == CHOOSE f : f = [i \in 1..Len(b) |-> Joining(f, b, i)]
<1>1. FlattenSeq(b) = F[Len(b)]
  BY DEF FlattenSeq, Joining
<1>2. F = [i \in 1..Len(b) |-> Joining(F, b, i)]
  BY JoiningExists
<1> HIDE DEF F
<1>3. \A i \in 1..Len(b) : F[i] = Joining(F, b, i)
  BY <1>2
<1>4. F[1] = b[1]
  BY <1>3 DEF Joining
<1>5. \A k \in 2..Len(b) : F[k] = F[k - 1] \o b[k]
  <2> SUFFICES ASSUME NEW k \in 2..Len(b) PROVE F[k] = F[k - 1] \o b[k]
    OBVIOUS
  <2>1. k \in 1..Len(b) /\ k # 1
    OBVIOUS
  <2> QED
    BY <1>3, <2>1 DEF Joining
<1> QED
  BY <1>1, <1>4, <1>5

(* What is joined: the items of the first k pieces, none of them empty *)
Joined(s, b, k) ==
    /\ Len(s) \in Nat /\ Len(s) > 0 /\ DOMAIN s = 1..Len(s)
    /\ \A i \in 1..Len(s) : \E m \in 1..k : \E j \in 1..Len(b[m]) :
          /\ s[i] = b[m][j]
          /\ i = 1 <=> m = 1 /\ j = 1
          /\ i = Len(s) <=> m = k /\ j = Len(b[m])

(* Joining one piece after the other leaves each item where it was. *)
LEMMA FlattenJoins ==
    ASSUME NEW X, NEW b \in Seq(Seq(X)), Len(b) > 0, \A m \in 1..Len(b) : b[m] # <<>>
    PROVE  Joined(FlattenSeq(b), b, Len(b))
<1> DEFINE N == Len(b)
<1>0. N \in Nat /\ \A m \in 1..N : b[m] \in Seq(X) /\ Len(b[m]) \in Nat /\ Len(b[m]) > 0
  BY EmptySeq, LenProperties
<1>1. PICK f : /\ f[1] = b[1]
               /\ \A k \in 2..N : f[k] = f[k - 1] \o b[k]
               /\ FlattenSeq(b) = f[N]
  BY <1>0, FlattenStepwise
<1> HIDE DEF N
<1> DEFINE Good(k) == k + 1 <= N => f[k + 1] \in Seq(X) /\ Joined(f[k + 1], b, k + 1)
           T == {k \in Nat : Good(k)}
<1>2. Good(0)
  <2> SUFFICES ASSUME 1 <= N PROVE f[0 + 1] \in Seq(X) /\ Joined(f[0 + 1], b, 0 + 1)
    OBVIOUS
  <2>1. 1 \in 1..N /\ 0 + 1 = 1
    BY <1>0
  <2>2. Joined(b[1], b, 1)
    <3> DEFINE s == b[1]
    <3>1. s \in Seq(X) /\ Len(s) \in Nat /\ Len(s) > 0 /\ DOMAIN s = 1..Len(s)
      BY <1>0, <2>1
    <3>2. ASSUME NEW i \in 1..Len(s)
          PROVE  /\ s[i] = b[1][i]
                 /\ i = 1 <=> 1 = 1 /\ i = 1
                 /\ i = Len(s) <=> 1 = 1 /\ i = Len(b[1])
      OBVIOUS
    <3>3. 1 \in 1..1
      OBVIOUS
    <3> QED
      BY <3>1, <3>2, <3>3 DEF Joined
  <2> QED
    BY <1>0, <1>1, <2>1, <2>2
<1>3. ASSUME NEW k \in Nat, Good(k)
      PROVE  Good(k + 1)
  <2> SUFFICES ASSUME (k + 1) + 1 <= N
               PROVE  f[(k + 1) + 1] \in Seq(X) /\ Joined(f[(k + 1) + 1], b, (k + 1) + 1)
    OBVIOUS
  <2> DEFINE c == k + 1
             d == (k + 1) + 1
             s == f[c]
             t == b[d]
             u == f[d]
  <2>1. c \in Nat /\ d \in Nat /\ d = c + 1 /\ d \in 2..N /\ d - 1 = c /\ c <= N /\ d \in 1..N /\ c >= 1
    BY <1>0
  <2>2. s \in Seq(X) /\ Joined(s, b, c)
    BY <1>3, <2>1
  <2>3. u = s \o t
    BY <1>1, <2>1
  <2>4. t \in Seq(X) /\ Len(t) \in Nat /\ Len(t) > 0
    BY <1>0, <2>1
  <2>5. Len(s) \in Nat /\ Len(s) > 0 /\ DOMAIN s = 1..Len(s)
    BY <2>2 DEF Joined
  <2> SUFFICES u \in Seq(X) /\ Joined(u, b, d)
    OBVIOUS
  <2> HIDE DEF s, u, c, d
  <2>6. /\ u \in Seq(X) /\ Len(u) = Len(s) + Len(t) /\ DOMAIN u = 1..Len(u)
        /\ \A i \in 1..Len(s) : u[i] = s[i]
        /\ \A i \in 1..Len(t) : u[Len(s) + i] = t[i]
    BY <2>2, <2>3, <2>4
  <2>7. ASSUME NEW i \in 1..Len(u)
        PROVE  \E m \in 1..d : \E j \in 1..Len(b[m]) :
                   /\ u[i] = b[m][j]
                   /\ i = 1 <=> m = 1 /\ j = 1
                   /\ i = Len(u) <=> m = d /\ j = Len(b[m])
    <3>1. CASE i \in 1..Len(s)
      <4>1. PICK m \in 1..c : \E j \in 1..Len(b[m]) :
                   /\ s[i] = b[m][j]
                   /\ i = 1 <=> m = 1 /\ j = 1
        BY <2>2, <3>1 DEF Joined
      <4>2. PICK j \in 1..Len(b[m]) : s[i] = b[m][j] /\ (i = 1 <=> m = 1 /\ j = 1)
        BY <4>1
      <4>3. m \in 1..d /\ m # d
        BY <2>1
      <4>4. i # Len(u)
        BY <2>4, <2>5, <2>6, <3>1
      <4> QED
        BY <2>6, <3>1, <4>2, <4>3, <4>4
    <3>2. CASE i \notin 1..Len(s)
      <4> DEFINE j == i - Len(s)
      <4>1. j \in 1..Len(t) /\ i = Len(s) + j /\ i # 1 /\ (i = Len(u) <=> j = Len(t))
        BY <2>4, <2>5, <2>6, <3>2
      <4>2. u[i] = t[j]
        <5> HIDE DEF j
        <5> QED
          BY <2>6, <4>1
      <4>3. d \in 1..d /\ d # 1
        BY <2>1
      <4> HIDE DEF j
      <4> QED
        BY <4>1, <4>2, <4>3
    <3> QED
      BY <3>1, <3>2
  <2>8. Len(u) \in Nat /\ Len(u) > 0
    BY <2>4, <2>5, <2>6
  <2> QED
    BY <2>6, <2>7, <2>8 DEF Joined
<1>4. \A k \in Nat : Good(k)
  <2> HIDE DEF Good
  <2>1. 0 \in T /\ \A k \in Nat : k \in T => k + 1 \in T
    BY <1>2, <1>3
  <2> HIDE DEF T
  <2>2. Nat \subseteq T
    BY <2>1, Induction
  <2> QED
    BY <2>2 DEF T
<1>5. N - 1 \in Nat /\ (N - 1) + 1 = N /\ N <= N
  BY <1>0 DEF N
<1>6. Good(N - 1)
  <2> HIDE DEF Good
  <2> QED
    BY <1>4, <1>5
<1>7. Joined(f[N], b, N)
  BY <1>5, <1>6
<1> HIDE DEF Good, T
<1> QED
  BY <1>1, <1>7 DEF N

(* A sequence, of whatever it is *)
IsSeq(s) == Len(s) \in Nat /\ DOMAIN s = 1..Len(s) /\ s \in Seq(ToSet(s))

(* Whatever is appended to a sequence *)
LEMMA AppendIsSeq ==
    ASSUME NEW s, IsSeq(s), NEW e
    PROVE  IsSeq(Append(s, e)) /\ Len(Append(s, e)) = Len(s) + 1
<1> DEFINE X == ToSet(s) \cup {e}
<1>1. s \in Seq(X)
  BY DEF IsSeq
<1>2. /\ Append(s, e) \in Seq(X) /\ Len(Append(s, e)) = Len(s) + 1
      /\ Len(Append(s, e)) \in Nat /\ DOMAIN Append(s, e) = 1..Len(Append(s, e))
  BY <1>1 DEF IsSeq
<1> DEFINE t == Append(s, e)
<1> HIDE DEF t, X
<1>3. t \in Seq(ToSet(t))
  <2>1. t \in Seq(X) /\ Len(t) \in Nat /\ DOMAIN t = 1..Len(t)
    BY <1>2 DEF t
  <2>2. \A i \in 1..Len(t) : t[i] \in ToSet(t)
    BY <2>1 DEF ToSet
  <2> QED
    BY <2>1, <2>2
<1> QED
  BY <1>2, <1>3 DEF t, IsSeq

(***************************************************************************)
(* What is in a piece of a page.                                           *)
(***************************************************************************)
(* Where piece i of N begins and ends, of L photos in pieces of P *)
LEMMA PieceBounds ==
    ASSUME NEW L \in Nat, L > 0, NEW P \in Nat \ {0}
    PROVE  LET r == (L + P - 1) \div P
           IN  /\ r \in Nat /\ r > 0
               /\ \A i \in 0..(r - 1) :
                     /\ i * P \in Nat /\ (i + 1) * P \in Nat /\ i * P < L
                     /\ (i + 1) * P = i * P + P
                     /\ i + 1 < r => (i + 1) * P < L
<1> DEFINE a == L + P - 1
           r == a \div P
           c == a % P
<1>1. a \in Nat /\ a >= P /\ P \in Nat /\ P > 0
  OBVIOUS
<1> HIDE DEF a
<1>2. r \in Int /\ c \in 0..(P - 1) /\ a = P * r + c
  BY <1>1
<1> HIDE DEF r, c
<1>3. r > 0
  <2> SUFFICES ASSUME r <= 0 PROVE FALSE
    BY <1>2
  <2>1. P * r <= 0
    BY <1>1, <1>2
  <2> QED
    BY <1>1, <1>2, <2>1
<1>4. P * r <= L + P - 1
  <2>1. P * r \in Int
    BY <1>1, <1>2
  <2> QED
    BY <1>1, <1>2, <2>1 DEF a
<1>5. ASSUME NEW i \in 0..(r - 1)
      PROVE  /\ i * P \in Nat /\ (i + 1) * P \in Nat /\ i * P < L
             /\ (i + 1) * P = i * P + P
             /\ i + 1 < r => (i + 1) * P < L
  <2>0. i \in Nat /\ i + 1 <= r
    BY <1>2
  <2>1. i * P \in Nat /\ (i + 1) * P \in Nat /\ (i + 1) * P = i * P + P
    BY <1>1, <2>0
  <2>2. (i + 1) * P <= P * r
    <3>1. \A x, y \in Int : x <= y => x * P <= y * P
      BY <1>1
    <3>2. i + 1 \in Int /\ (i + 1) * P <= r * P /\ r * P = P * r
      BY <1>1, <1>2, <2>0, <3>1
    <3> QED
      BY <3>2
  <2>3. P * r \in Int
    BY <1>1, <1>2
  <2>4. i * P < L
    BY <1>1, <1>4, <2>1, <2>2, <2>3
  <2>5. ASSUME i + 1 < r PROVE (i + 1) * P < L
    <3>1. \A x, y \in Int : x <= y => x * P <= y * P
      BY <1>1
    <3>2. (i + 2) * P <= r * P /\ r * P = P * r
      BY <1>1, <1>2, <2>0, <2>5, <3>1
    <3>3. (i + 2) * P = (i + 1) * P + P
      BY <1>1, <2>0
    <3> QED
      BY <1>1, <1>4, <2>1, <2>3, <3>2, <3>3
  <2> QED
    BY <2>1, <2>4, <2>5
<1> QED
  BY <1>2, <1>3, <1>5 DEF r, a

(* Any sequence is one of its own elements. *)
LEMMA SeqIsSeq ==
    ASSUME NEW X, NEW s \in Seq(X)
    PROVE  IsSeq(s)
<1>1. Len(s) \in Nat /\ DOMAIN s = 1..Len(s)
  BY LenProperties
<1>2. \A i \in 1..Len(s) : s[i] \in ToSet(s)
  BY <1>1 DEF ToSet
<1> QED
  BY <1>1, <1>2 DEF IsSeq

(* A sequence given by what its elements are *)
LEMMA TableIsSeq ==
    ASSUME NEW N \in Nat, NEW s, DOMAIN s = 1..N, s = [i \in 1..N |-> s[i]]
    PROVE  IsSeq(s) /\ Len(s) = N
<1>1. \A i \in 1..N : s[i] \in ToSet(s)
  BY DEF ToSet
<1>2. s \in Seq(ToSet(s)) /\ Len(s) = N
  BY <1>1
<1> QED
  BY <1>2, SeqIsSeq

(* One sequence after another *)
LEMMA ConcatIsSeq ==
    ASSUME NEW s, IsSeq(s), NEW t, IsSeq(t)
    PROVE  /\ IsSeq(s \o t) /\ Len(s \o t) = Len(s) + Len(t)
           /\ \A i \in 1..(Len(s) + Len(t)) :
                 (s \o t)[i] = IF i <= Len(s) THEN s[i] ELSE t[i - Len(s)]
<1> DEFINE X == ToSet(s) \cup ToSet(t)
<1>1. s \in Seq(X) /\ t \in Seq(X)
  <2>1. ToSet(s) \subseteq X /\ ToSet(t) \subseteq X
    OBVIOUS
  <2> HIDE DEF X
  <2> QED
    BY <2>1, SeqMonotonic DEF IsSeq
<1> HIDE DEF X
<1>2. s \o t \in Seq(X) /\ Len(s \o t) = Len(s) + Len(t)
  BY <1>1, ConcatProperties
<1> QED
  BY <1>1, <1>2, ConcatProperties, SeqIsSeq

(* No pieces, joined *)
LEMMA FlattenNothing == FlattenSeq(<<>>) = <<>>
BY DEF FlattenSeq

(* A set of numbers which are not too large has a largest one. *)
LEMMA LargestElement ==
    ASSUME NEW k \in Nat, NEW T \in SUBSET (1..k), T # {}
    PROVE  Max(T) \in T /\ \A i \in T : i <= Max(T)
<1> DEFINE U == {k - i : i \in T}
<1>0. \A i \in T : i \in Nat /\ i <= k /\ k - i \in Nat
  OBVIOUS
<1>1. U \in SUBSET Nat /\ U # {}
  BY <1>0
<1>2. PICK u \in U : \A w \in U : u <= w
  BY <1>1, LeastElement
<1>3. PICK m \in T : u = k - m
  BY <1>2
<1>4. \A i \in T : m >= i
  <2> TAKE i \in T
  <2>1. k - m <= k - i
    BY <1>2, <1>3
  <2> HIDE DEF U
  <2> QED
    BY <1>0, <2>1
<1>5. \E x \in T : \A y \in T : x >= y
  BY <1>4
<1>6. Max(T) \in T /\ \A y \in T : Max(T) >= y
  BY <1>5 DEF Max
<1> QED
  BY <1>6

(* The recursion by which FoldLeft is defined, when the operation is a
   function op whose results stay in X *)
FoldedBy(f, op, base, s, u) ==
    IF u = {} THEN base ELSE op[<<f[u \ {Max(u)}], s[Max(u)]>>]

(* f solves it for s, with values in X; what is folded are N elements of Y. *)
SolvesFold(f, op, base, s, N, X, Y) ==
    /\ f = [u \in SUBSET (1..N) |-> FoldedBy(f, op, base, s, u)]
    /\ \A u \in SUBSET (1..N) : f[u] \in X
    /\ \A u \in SUBSET (1..N) : u # {} => f[u \ {Max(u)}] \in X /\ s[Max(u)] \in Y

(* It has a solution. *)
LEMMA FoldingExists ==
    ASSUME NEW X, NEW Y, NEW op \in [X \X Y -> X], NEW base \in X,
           NEW s, NEW N \in Nat, \A i \in 1..N : s[i] \in Y
    PROVE  \E f : SolvesFold(f, op, base, s, N, X, Y)
<1> DEFINE Good(k, f) == /\ f = [u \in SUBSET (1..k) |-> FoldedBy(f, op, base, s, u)]
                         /\ \A u \in SUBSET (1..k) : f[u] \in X
           T == {k \in Nat : k <= N => \E f : Good(k, f)}
<1>1. 0 \in T
  <2> DEFINE f == [u \in {{}} |-> base]
  <2>1. SUBSET (1..0) = {{}}
    OBVIOUS
  <2>2. f = [u \in {{}} |-> FoldedBy(f, op, base, s, u)] /\ \A u \in {{}} : f[u] \in X
    BY DEF FoldedBy
  <2> QED
    BY <2>1, <2>2
<1>2. ASSUME NEW k \in Nat, k \in T
      PROVE  k + 1 \in T
  <2> SUFFICES ASSUME k + 1 <= N
               PROVE  \E f : Good(k + 1, f)
    <3> HIDE DEF Good
    <3> QED
      OBVIOUS
  <2>1. PICK f : Good(k, f)
    <3>1. k <= N
      OBVIOUS
    <3> HIDE DEF Good
    <3> QED
      BY <1>2, <3>1
  <2> DEFINE g == [u \in SUBSET (1..(k + 1)) |->
                      IF k + 1 \in u THEN op[<<f[u \ {k + 1}], s[k + 1]>>] ELSE f[u]]
  <2>2. \A u \in SUBSET (1..(k + 1)) : k + 1 \notin u => u \in SUBSET (1..k)
    OBVIOUS
  <2>3. \A u \in SUBSET (1..k) : g[u] = f[u]
    OBVIOUS
  <2>4. \A u \in SUBSET (1..k) : f[u] = FoldedBy(f, op, base, s, u) /\ f[u] \in X
    BY <2>1
  <2>5. \A u \in SUBSET (1..(k + 1)) :
            g[u] = IF k + 1 \in u THEN op[<<f[u \ {k + 1}], s[k + 1]>>] ELSE f[u]
    OBVIOUS
  <2>6. g = [u \in SUBSET (1..(k + 1)) |-> g[u]]
    OBVIOUS
  <2> HIDE DEF g
  <2>7. ASSUME NEW u \in SUBSET (1..(k + 1))
        PROVE  g[u] = FoldedBy(g, op, base, s, u) /\ g[u] \in X
    <3>1. CASE k + 1 \in u
      <4>1. Max(u) = k + 1
        BY <3>1, MaxOfPrefix
      <4>2. u \ {k + 1} \in SUBSET (1..k)
        OBVIOUS
      <4>3. g[u] = op[<<f[u \ {k + 1}], s[k + 1]>>]
        BY <2>5, <3>1
      <4>4. f[u \ {k + 1}] \in X /\ s[k + 1] \in Y /\ g[u \ {k + 1}] = f[u \ {k + 1}]
        BY <2>3, <2>4, <4>2
      <4>5. op[<<f[u \ {k + 1}], s[k + 1]>>] \in X
        BY <4>4
      <4> QED
        BY <3>1, <4>1, <4>3, <4>4, <4>5 DEF FoldedBy
    <3>2. CASE k + 1 \notin u
      <4>1. u \in SUBSET (1..k) /\ u \ {Max(u)} \in SUBSET (1..k)
        BY <2>2, <3>2
      <4> QED
        BY <2>3, <2>4, <4>1 DEF FoldedBy
    <3> QED
      BY <3>1, <3>2
  <2>8. Good(k + 1, g)
    BY <2>6, <2>7
  <2> HIDE DEF Good
  <2> QED
    BY <2>8
<1>3. N \in T
  <2> HIDE DEF T
  <2> QED
    BY <1>1, <1>2, Induction
<1>4. PICK f : Good(N, f)
  <2> HIDE DEF Good
  <2> QED
    BY <1>3
<1>5. \A u \in SUBSET (1..N) : u # {} => f[u \ {Max(u)}] \in X /\ s[Max(u)] \in Y
  <2> SUFFICES ASSUME NEW u \in SUBSET (1..N), u # {}
               PROVE  f[u \ {Max(u)}] \in X /\ s[Max(u)] \in Y
    OBVIOUS
  <2>1. Max(u) \in 1..N
    BY LargestElement
  <2> QED
    BY <1>4, <2>1
<1> QED
  BY <1>4, <1>5 DEF SolvesFold

(* The first k positions are those before, and the last one. *)
LEMMA PrefixIsCut ==
    ASSUME NEW N \in Nat, NEW k \in 1..N
    PROVE  /\ 1..k \in SUBSET (1..N) /\ 1..k # {}
           /\ Max(1..k) = k /\ (1..k) \ {Max(1..k)} = 1..(k - 1)
<1>1. k - 1 \in Nat /\ (k - 1) + 1 = k
  OBVIOUS
<1>2. 1..k \in SUBSET (1..((k - 1) + 1)) /\ (k - 1) + 1 \in 1..k
  OBVIOUS
<1>3. Max(1..k) = k
  BY <1>1, <1>2, MaxOfPrefix
<1> QED
  BY <1>3

(* h[k] is what the first k elements of s are folded into; all of them, y. *)
FoldsTo(h, op, base, s, N, X, y) ==
    /\ h[0] = base /\ h[N] = y
    /\ \A k \in 1..N : h[k] = op[<<h[k - 1], s[k]>>]
    /\ \A k \in 0..N : h[k] \in X

(* F folds in each of them by op, as long as it is in X. *)
FoldsOn(F, op, base, s, N, X) ==
    /\ F[{}] = base
    /\ \A k \in 1..N : F[1..(k - 1)] \in X => F[1..k] = op[<<F[1..(k - 1)], s[k]>>]

(* Then it stays in X. *)
LEMMA FoldingGoesOn ==
    ASSUME NEW X, NEW Y, NEW op \in [X \X Y -> X], NEW base \in X,
           NEW s, NEW N \in Nat, \A i \in 1..N : s[i] \in Y,
           NEW F, FoldsOn(F, op, base, s, N, X)
    PROVE  \E h : FoldsTo(h, op, base, s, N, X, F[1..N])
<1> DEFINE h == [k \in 0..N |-> F[1..k]]
           T == {k \in Nat : k <= N => h[k] \in X}
<1>1. \A k \in 0..N : h[k] = F[1..k]
  OBVIOUS
<1>2. h[0] = base
  <2>1. 1..0 = {} /\ 0 \in 0..N
    OBVIOUS
  <2> HIDE DEF h
  <2> QED
    BY <1>1, <2>1 DEF FoldsOn
<1>3. ASSUME NEW k \in 1..N
      PROVE  h[k - 1] \in X => h[k] = op[<<h[k - 1], s[k]>>] /\ h[k] \in X
  <2>1. k \in 0..N /\ k - 1 \in 0..N /\ s[k] \in Y
    OBVIOUS
  <2> HIDE DEF h
  <2> QED
    BY <1>1, <2>1 DEF FoldsOn
<1>4. 0 \in T
  BY <1>2
<1>5. ASSUME NEW k \in Nat, k \in T
      PROVE  k + 1 \in T
  <2> SUFFICES ASSUME k + 1 <= N
               PROVE  h[k + 1] \in X
    OBVIOUS
  <2>1. k + 1 \in 1..N /\ (k + 1) - 1 = k /\ h[k] \in X
    BY <1>5
  <2> HIDE DEF h
  <2> QED
    BY <1>3, <2>1
<1>6. Nat \subseteq T
  <2> HIDE DEF T
  <2> QED
    BY <1>4, <1>5, Induction
<1> HIDE DEF h
<1>7. \A k \in 0..N : h[k] \in X
  BY <1>6
<1>8. \A k \in 1..N : h[k] = op[<<h[k - 1], s[k]>>]
  <2> SUFFICES ASSUME NEW k \in 1..N PROVE h[k] = op[<<h[k - 1], s[k]>>]
    OBVIOUS
  <2>1. k - 1 \in 0..N
    OBVIOUS
  <2> QED
    BY <1>3, <1>7, <2>1
<1>9. h[N] = F[1..N]
  BY <1>1
<1> QED
  BY <1>2, <1>7, <1>8, <1>9 DEF FoldsTo

(* A sequence of some things is one of more things. *)
LEMMA SeqWidens ==
    ASSUME NEW S, NEW R, S \subseteq R, NEW s \in Seq(S)
    PROVE  s \in Seq(R)
<1>1. Len(s) \in Nat /\ s = [i \in 1..Len(s) |-> s[i]]
  BY LenProperties
<1>2. \A i \in 1..Len(s) : s[i] \in R
  BY ElementOfSeq
<1> QED
  BY <1>1, <1>2

(* Texts, joined, are a text. *)
LEMMA FlattenType ==
    ASSUME NEW S, NEW b \in Seq(Seq(S)), b # <<>>
    PROVE  FlattenSeq(b) \in Seq(S)
<1> DEFINE N == Len(b)
<1>1. N \in Nat /\ N > 0 /\ \A i \in 1..N : b[i] \in Seq(S)
  BY LenProperties, EmptySeq, ElementOfSeq
<1>2. PICK f : /\ f[1] = b[1]
               /\ \A k \in 2..N : f[k] = f[k - 1] \o b[k]
               /\ FlattenSeq(b) = f[N]
  BY <1>1, FlattenStepwise
<1> HIDE DEF N
<1> DEFINE T == {k \in Nat : k + 1 <= N => f[k + 1] \in Seq(S)}
<1>3. 0 \in T
  BY <1>1, <1>2
<1>4. ASSUME NEW k \in Nat, k \in T
      PROVE  k + 1 \in T
  <2> SUFFICES ASSUME (k + 1) + 1 <= N
               PROVE  f[(k + 1) + 1] \in Seq(S)
    OBVIOUS
  <2>1. (k + 1) + 1 \in 2..N /\ (k + 1) + 1 \in 1..N /\ ((k + 1) + 1) - 1 = k + 1
    BY <1>1
  <2>2. f[k + 1] \in Seq(S)
    BY <1>1, <1>4
  <2>3. b[(k + 1) + 1] \in Seq(S) /\ f[(k + 1) + 1] = f[k + 1] \o b[(k + 1) + 1]
    BY <1>1, <1>2, <2>1
  <2> QED
    BY <2>2, <2>3, ConcatProperties
<1>5. Nat \subseteq T
  <2> HIDE DEF T
  <2> QED
    BY <1>3, <1>4, Induction
<1>6. N - 1 \in Nat /\ (N - 1) + 1 = N
  BY <1>1
<1>7. N - 1 \in T
  <2> HIDE DEF T
  <2> QED
    BY <1>5, <1>6
<1>8. f[(N - 1) + 1] \in Seq(S)
  <2>1. (N - 1) + 1 <= N
    BY <1>1
  <2> QED
    BY <1>7, <2>1
<1> QED
  BY <1>2, <1>6, <1>8

(* One element more is picked last. *)
LEMMA PickedGrows ==
    ASSUME NEW s, Len(s) \in Nat, NEW k \in Nat, k + 1 <= Len(s), NEW S, S \subseteq 1..k
    PROVE  Picked(s, S \cup {k + 1}) = Append(Picked(s, S), s[k + 1])
<1> DEFINE N == Len(s)
<1>1. PICK q : Ascends(q, N, S) /\ Picked(s, S) = [j \in 1..Len(q) |-> s[q[j]]]
  BY PickedAscends
<1> DEFINE r == Append(q, k + 1)
           M == Len(q)
<1>2. /\ q \in Seq(1..N) /\ M \in Nat /\ k + 1 \in 1..N
      /\ \A j \in 1..M : q[j] \in S /\ q[j] \in 1..N /\ q[j] <= k
  <2>1. q \in Seq(1..N) /\ \A j \in 1..M : q[j] \in S
    BY <1>1 DEF Ascends
  <2>2. M \in Nat /\ \A j \in 1..M : q[j] \in 1..N
    BY <2>1, LenProperties, ElementOfSeq
  <2> QED
    BY <2>1, <2>2
<1>3. /\ r \in Seq(1..N) /\ Len(r) = M + 1 /\ r[M + 1] = k + 1
      /\ \A j \in 1..M : r[j] = q[j]
  BY <1>2, AppendProperties
<1> HIDE DEF N, r, M
<1>4. \A j \in 1..(M + 1) : j \in 1..M \/ j = M + 1
  BY <1>2
<1>5. Ascends(r, N, S \cup {k + 1})
  <2>1. \A i, j \in 1..Len(r) : i < j => r[i] < r[j]
    <3> SUFFICES ASSUME NEW i \in 1..(M + 1), NEW j \in 1..(M + 1), i < j
                 PROVE  r[i] < r[j]
      BY <1>3
    <3>1. i \in 1..M
      BY <1>2
    <3>2. CASE j \in 1..M
      BY <1>1, <1>3, <3>1, <3>2 DEF Ascends, M
    <3>3. CASE j = M + 1
      <4>1. r[i] \in 1..N /\ r[i] <= k /\ r[j] = k + 1
        BY <1>2, <1>3, <3>1, <3>3
      <4> QED
        BY <4>1
    <3> QED
      BY <1>4, <3>2, <3>3
  <2>2. \A j \in 1..Len(r) : r[j] \in S \cup {k + 1}
    BY <1>2, <1>3, <1>4
  <2>3. ASSUME NEW i \in 1..N, i \in S \cup {k + 1}
        PROVE  \E j \in 1..Len(r) : r[j] = i
    <3>1. CASE i = k + 1
      <4>1. M + 1 \in 1..Len(r)
        BY <1>2, <1>3
      <4> QED
        BY <1>3, <3>1, <4>1
    <3>2. CASE i \in S
      <4>1. PICK j \in 1..M : q[j] = i
        BY <1>1, <3>2 DEF Ascends, M
      <4>2. j \in 1..Len(r)
        BY <1>2, <1>3
      <4> QED
        BY <1>3, <4>1, <4>2
    <3> QED
      BY <2>3, <3>1, <3>2
  <2> QED
    BY <1>3, <2>1, <2>2, <2>3 DEF Ascends
<1>6. Picked(s, S \cup {k + 1}) = [j \in 1..(M + 1) |-> s[r[j]]]
  BY <1>3, <1>5, PickedIs DEF N
<1>7. Picked(s, S) = [j \in 1..M |-> s[q[j]]]
  BY <1>1 DEF M
<1>8. \A x : Append([j \in 1..M |-> s[q[j]]], x) =
             [j \in 1..(M + 1) |-> IF j = M + 1 THEN x ELSE s[q[j]]]
  BY <1>2
<1>9. [j \in 1..(M + 1) |-> IF j = M + 1 THEN s[k + 1] ELSE s[q[j]]] =
      [j \in 1..(M + 1) |-> s[r[j]]]
  BY <1>3, <1>4
<1>10. Append([j \in 1..M |-> s[q[j]]], s[k + 1]) =
       [j \in 1..(M + 1) |-> IF j = M + 1 THEN s[k + 1] ELSE s[q[j]]]
  BY <1>8, Zenon
<1> QED
  BY <1>6, <1>7, <1>9, <1>10, Zenon

(* Nothing is picked from nowhere. *)
LEMMA NothingPicked ==
    ASSUME NEW s, Len(s) \in Nat
    PROVE  Picked(s, {}) = <<>>
<1>1. Ascends(<<>>, Len(s), {})
  BY DEF Ascends
<1>2. Picked(s, {}) = [j \in 1..Len(<<>>) |-> s[<<>>[j]]]
  BY <1>1, PickedIs
<1> QED
  BY <1>2

(* Only positions in the sequence matter. *)
LEMMA PickedWithin ==
    ASSUME NEW s, Len(s) \in Nat, NEW S, NEW R, S \cap (1..Len(s)) = R \cap (1..Len(s))
    PROVE  Picked(s, S) = Picked(s, R)
<1>1. PICK q : Ascends(q, Len(s), S) /\ Picked(s, S) = [j \in 1..Len(q) |-> s[q[j]]]
  BY PickedAscends
<1>2. Ascends(q, Len(s), R)
  <2>1. q \in Seq(1..Len(s)) /\ \A j \in 1..Len(q) : q[j] \in S
    BY <1>1 DEF Ascends
  <2>2. \A j \in 1..Len(q) : q[j] \in 1..Len(s)
    BY <2>1, ElementOfSeq
  <2>3. \A j \in 1..Len(q) : q[j] \in R
    BY <2>1, <2>2
  <2>4. \A i \in 1..Len(s) : i \in R => i \in S
    OBVIOUS
  <2> QED
    BY <1>1, <2>3, <2>4 DEF Ascends
<1> QED
  BY <1>1, <1>2, PickedIs

(***************************************************************************)
(* A recursive function of the positions in a sequence                     *)
(***************************************************************************)
(* Its equation *)
Recurs(f, op, base, s, N) ==
    f = [i \in 0..N |-> IF i = 0 THEN base ELSE op[<<f[i - 1], s[i]>>]]

(* It has a solution, and that stays in X. *)
LEMMA RecursionExists ==
    ASSUME NEW X, NEW Y, NEW op \in [X \X Y -> X], NEW base \in X,
           NEW s, NEW N \in Nat, \A i \in 1..N : s[i] \in Y
    PROVE  \E f : Recurs(f, op, base, s, N) /\ \A k \in 0..N : f[k] \in X
<1>1. PICK F : SolvesFold(F, op, base, s, N, X, Y)
  BY FoldingExists
<1>2. FoldsOn(F, op, base, s, N, X)
  <2>1. F = [u \in SUBSET (1..N) |-> FoldedBy(F, op, base, s, u)]
    BY <1>1 DEF SolvesFold
  <2>2. F[{}] = base
    BY <2>1 DEF FoldedBy
  <2>3. ASSUME NEW k \in 1..N
        PROVE  F[1..k] = op[<<F[1..(k - 1)], s[k]>>]
    <3>1. 1..k \in SUBSET (1..N) /\ 1..k # {}
          /\ Max(1..k) = k /\ (1..k) \ {Max(1..k)} = 1..(k - 1)
      BY PrefixIsCut
    <3>2. F[1..k] = FoldedBy(F, op, base, s, 1..k)
      BY <2>1, <3>1
    <3> QED
      BY <3>1, <3>2 DEF FoldedBy
  <2> QED
    BY <2>2, <2>3 DEF FoldsOn
<1>3. PICK h : FoldsTo(h, op, base, s, N, X, F[1..N])
  BY <1>2, FoldingGoesOn
<1> DEFINE f == [k \in 0..N |-> h[k]]
<1>4. \A k \in 0..N : f[k] = h[k]
  OBVIOUS
<1>5. f = [k \in 0..N |-> f[k]]
  OBVIOUS
<1> HIDE DEF f
<1>6. \A k \in 0..N : f[k] = (IF k = 0 THEN base ELSE op[<<f[k - 1], s[k]>>]) /\ f[k] \in X
  <2> SUFFICES ASSUME NEW k \in 0..N
               PROVE  f[k] = (IF k = 0 THEN base ELSE op[<<f[k - 1], s[k]>>]) /\ f[k] \in X
    OBVIOUS
  <2>1. k = 0 \/ (k \in 1..N /\ k - 1 \in 0..N)
    OBVIOUS
  <2> QED
    BY <1>3, <1>4, <2>1 DEF FoldsTo
<1> QED
  BY <1>5, <1>6 DEF Recurs

(* What is picked from a sequence does not depend on what follows. *)
LEMMA PickedFromLonger ==
    ASSUME NEW S, NEW s \in Seq(S), NEW ch \in S, NEW W, W \subseteq 1..Len(s)
    PROVE  Picked(Append(s, ch), W) = Picked(s, W)
<1> DEFINE N == Len(s)
           r == Append(s, ch)
<1>1. /\ N \in Nat /\ Len(r) = N + 1 /\ \A i \in 1..N : r[i] = s[i]
  BY LenProperties, AppendProperties
<1>2. PICK q : Ascends(q, N, W) /\ Picked(s, W) = [j \in 1..Len(q) |-> s[q[j]]]
  BY <1>1, PickedAscends
<1> HIDE DEF N, r
<1>3. q \in Seq(1..N) /\ \A j \in 1..Len(q) : q[j] \in 1..N
  <2>1. q \in Seq(1..N)
    BY <1>2 DEF Ascends
  <2> QED
    BY <2>1, ElementOfSeq
<1>4. Ascends(q, N + 1, W)
  <2>1. q \in Seq(1..(N + 1))
    <3>1. 1..N \subseteq 1..(N + 1)
      BY <1>1
    <3> QED
      BY <1>3, <3>1, SeqWidens
  <2>2. \A i \in 1..(N + 1) : i \in W => i \in 1..N
    BY DEF N
  <2> QED
    BY <1>2, <2>1, <2>2 DEF Ascends
<1>5. Picked(r, W) = [j \in 1..Len(q) |-> r[q[j]]]
  BY <1>1, <1>4, PickedIs
<1>6. [j \in 1..Len(q) |-> r[q[j]]] = [j \in 1..Len(q) |-> s[q[j]]]
  BY <1>1, <1>3
<1> QED
  BY <1>2, <1>5, <1>6 DEF r

(* What is picked is made of the same elements. *)
LEMMA PickedType ==
    ASSUME NEW S, NEW s \in Seq(S), NEW W
    PROVE  Picked(s, W) \in Seq(S)
<1>1. Len(s) \in Nat /\ \A i \in 1..Len(s) : s[i] \in S
  BY LenProperties, ElementOfSeq
<1>2. PICK q : Ascends(q, Len(s), W) /\ Picked(s, W) = [j \in 1..Len(q) |-> s[q[j]]]
  BY <1>1, PickedAscends
<1>3. q \in Seq(1..Len(s)) /\ Len(q) \in Nat /\ \A j \in 1..Len(q) : q[j] \in 1..Len(s)
  <2>1. q \in Seq(1..Len(s))
    BY <1>2 DEF Ascends
  <2> QED
    BY <2>1, LenProperties, ElementOfSeq
<1> QED
  BY <1>1, <1>2, <1>3

(* A list of positions may go on with the next one. *)
LEMMA AscendsGrows ==
    ASSUME NEW k \in Nat, NEW S, NEW q, Ascends(q, k, S)
    PROVE  /\ k + 1 \in S => Ascends(Append(q, k + 1), k + 1, S)
           /\ k + 1 \notin S => Ascends(q, k + 1, S)
<1>1. q \in Seq(1..k) /\ Len(q) \in Nat
  BY DEF Ascends
<1>2. \A j \in 1..Len(q) : q[j] \in 1..k
  BY <1>1
<1>3. q \in Seq(1..(k + 1))
  BY <1>1, <1>2
<1>4. CASE k + 1 \in S
  <2> DEFINE r == Append(q, k + 1)
  <2>1. /\ r \in Seq(1..(k + 1)) /\ Len(r) = Len(q) + 1
        /\ r[Len(q) + 1] = k + 1 /\ \A j \in 1..Len(q) : r[j] = q[j]
    BY <1>1, <1>3
  <2> HIDE DEF r
  <2>2. \A j \in 1..Len(r) : j \in 1..Len(q) \/ j = Len(q) + 1
    BY <1>1, <2>1
  <2>3. ASSUME NEW i \in 1..Len(r), NEW j \in 1..Len(r), i < j
        PROVE  r[i] < r[j]
    <3>1. i \in 1..Len(q)
      BY <1>1, <2>1, <2>3
    <3>2. r[i] = q[i] /\ q[i] \in 1..k
      BY <1>2, <2>1, <3>1
    <3>3. CASE j = Len(q) + 1
      BY <2>1, <3>2, <3>3
    <3>4. CASE j \in 1..Len(q)
      <4>1. q[i] < q[j]
        BY <2>3, <3>1, <3>4 DEF Ascends
      <4> QED
        BY <2>1, <3>2, <3>4, <4>1
    <3> QED
      BY <2>2, <3>3, <3>4
  <2>4. \A j \in 1..Len(r) : r[j] \in S
    BY <1>4, <2>1, <2>2 DEF Ascends
  <2>5. ASSUME NEW i \in 1..(k + 1), i \in S
        PROVE  \E j \in 1..Len(r) : r[j] = i
    <3>1. CASE i = k + 1
      BY <1>1, <2>1, <3>1
    <3>2. CASE i \in 1..k
      <4>1. PICK j \in 1..Len(q) : q[j] = i
        BY <2>5, <3>2 DEF Ascends
      <4> QED
        BY <1>1, <2>1, <4>1
    <3> QED
      BY <3>1, <3>2
  <2>6. Ascends(r, k + 1, S)
    BY <2>1, <2>3, <2>4, <2>5 DEF Ascends
  <2> QED
    BY <1>4, <2>6 DEF r
<1>5. CASE k + 1 \notin S
  <2>1. \A i \in 1..(k + 1) : i \in S => i \in 1..k
    BY <1>5
  <2>2. Ascends(q, k + 1, S)
    BY <1>3, <2>1 DEF Ascends
  <2> QED
    BY <1>5, <2>2
<1> QED
  BY <1>4, <1>5

(* The last two of a sequence *)
LEMMA LastTwo ==
    ASSUME NEW S, NEW s \in Seq(S), NEW c \in Nat, Len(s) = c + 2
    PROVE  SubSeq(s, c + 1, Len(s)) = <<s[c + 1], s[c + 2]>>
<1>1. PICK a, b : a = c + 1 /\ b = c + 2
  OBVIOUS
<1>2. \A i \in a..b : s[i] \in S
  <2>1. \A i \in a..b : i \in 1..Len(s)
    BY <1>1
  <2> QED
    BY <2>1, ElementOfSeq
<1>3. a \in Int /\ b \in Int /\ a <= b /\ b - a + 1 = 2 /\ a + 1 - 1 = a /\ a + 2 - 1 = b
  BY <1>1
<1> DEFINE t == SubSeq(s, a, b)
<1>4. /\ t \in Seq(S)
      /\ Len(t) = IF a <= b THEN b - a + 1 ELSE 0
      /\ \A i \in 1..(b - a + 1) : t[i] = s[a + i - 1]
  BY <1>2, <1>3, SubSeqProperties
<1> HIDE DEF t
<1>5. t \in Seq(S) /\ Len(t) = 2 /\ t[1] = s[a] /\ t[2] = s[b]
  BY <1>3, <1>4
<1>6. t = <<t[1], t[2]>>
  BY <1>5
<1> QED
  BY <1>1, <1>5, <1>6 DEF t

(* The first of two *)
LEMMA FrontOfTwo ==
    ASSUME NEW x, NEW y
    PROVE  Front(<<x, y>>) = <<x>> /\ Last(<<x, y>>) = y /\ <<x, y>> # <<>>
<1> DEFINE S == {x, y}
           s == <<x, y>>
<1>1. s \in Seq(S) /\ Len(s) = 2 /\ s[1] = x /\ s[2] = y
  OBVIOUS
<1> HIDE DEF s
<1> DEFINE t == SubSeq(s, 1, 1)
<1>2. \A i \in 1..1 : s[i] \in S
  BY <1>1
<1>3. /\ t \in Seq(S)
      /\ Len(t) = IF 1 <= 1 THEN 1 - 1 + 1 ELSE 0
      /\ \A i \in 1..(1 - 1 + 1) : t[i] = s[1 + i - 1]
  BY <1>2, SubSeqProperties
<1>4. t = Front(s)
  BY <1>1 DEF Front
<1> HIDE DEF t
<1>5. t \in Seq(S) /\ Len(t) = 1 /\ t[1] = s[1]
  BY <1>3
<1>6. t = <<t[1]>>
  BY <1>5
<1>7. Front(s) = <<x>>
  BY <1>1, <1>4, <1>5, <1>6
<1>8. Last(s) = y
  BY <1>1 DEF Last
<1> QED
  BY <1>1, <1>7, <1>8 DEF s

(* A part of a sequence *)
LEMMA PartOf ==
    ASSUME NEW S, NEW s \in Seq(S), NEW a \in Nat, NEW b \in Nat,
           0 < a, a <= b + 1, b <= Len(s)
    PROVE  /\ SubSeq(s, a, b) \in Seq(S)
           /\ Len(SubSeq(s, a, b)) = b + 1 - a
           /\ \A i \in 1..(b + 1 - a) : SubSeq(s, a, b)[i] = s[a + i - 1]
<1>1. \A i \in a..b : s[i] \in S
  <2>1. \A i \in a..b : i \in 1..Len(s)
    BY LenProperties
  <2> QED
    BY <2>1, ElementOfSeq
<1>2. b - a + 1 = b + 1 - a /\ (a <= b \/ b + 1 - a = 0)
  OBVIOUS
<1> QED
  BY <1>1, <1>2, SubSeqProperties

(* To put tuples together *)
LEMMA TuplesJoined ==
    ASSUME NEW f, NEW g, NEW h
    PROVE  /\ \A a : <<a>> \o <<f, g, h>> = <<a, f, g, h>>
           /\ \A a, b, c, d, e :
                 <<a, b, c, d, e>> \o <<f, g, h>> = <<a, b, c, d, e, f, g, h>>
<1> DEFINE t == <<f, g, h>>
<1>1. ASSUME NEW a PROVE <<a>> \o t = <<a, f, g, h>>
  <2> DEFINE S == {a, f, g, h}
             s == <<a>>
             st == s \o t
  <2>1. s \in Seq(S) /\ t \in Seq(S) /\ Len(s) = 1 /\ Len(t) = 3
    OBVIOUS
  <2>2. st \in Seq(S) /\ Len(st) = 4
    BY <2>1, ConcatProperties
  <2>3. st[1] = a /\ st[2] = f /\ st[3] = g /\ st[4] = h
    OBVIOUS
  <2>4. st = <<st[1], st[2], st[3], st[4]>>
    <3> HIDE DEF st
    <3> QED
      BY <2>2
  <2> QED
    BY <2>3, <2>4
<1>2. ASSUME NEW a, NEW b, NEW c, NEW d, NEW e
      PROVE  <<a, b, c, d, e>> \o t = <<a, b, c, d, e, f, g, h>>
  <2> DEFINE S == {a, b, c, d, e, f, g, h}
             s == <<a, b, c, d, e>>
             st == s \o t
  <2>1. s \in Seq(S) /\ t \in Seq(S) /\ Len(s) = 5 /\ Len(t) = 3
    OBVIOUS
  <2>2. st \in Seq(S) /\ Len(st) = 8
    BY <2>1, ConcatProperties
  <2>3. /\ st[1] = a /\ st[2] = b /\ st[3] = c /\ st[4] = d
        /\ st[5] = e /\ st[6] = f /\ st[7] = g /\ st[8] = h
    OBVIOUS
  <2>4. st = <<st[1], st[2], st[3], st[4], st[5], st[6], st[7], st[8]>>
    <3> HIDE DEF st
    <3> QED
      BY <2>2
  <2> QED
    BY <2>3, <2>4
<1> QED
  BY <1>1, <1>2

-----------------------------------------------------------------------------
(***************************************************************************)
(* Days, months and years are tuples of numbers.  The days are numbered in *)
(* the order of the calendar, and a date is one of them.                   *)
(***************************************************************************)
Tuples(k) == [1..k -> Nat]

Days3 == Tuples(3)

(* operator<() of days: nothing is before itself. *)
LEMMA BeforeIsStrict ==
    ASSUME NEW k \in Nat, NEW a \in Tuples(k)
    PROVE  ~Before(a, a)
BY DEF Before, Tuples

(* Of two different days (or months, or years) one is before the other. *)
LEMMA BeforeIsTotal ==
    ASSUME NEW k \in Nat, NEW a \in Tuples(k), NEW b \in Tuples(k), a # b
    PROVE  Before(a, b) \/ Before(b, a)
<1> DEFINE T == {i \in 1..k : a[i] # b[i]}
<1>1. T # {} /\ T \in SUBSET Nat
  BY DEF Tuples
<1>2. PICK i \in T : \A j \in T : i <= j
  <2> HIDE DEF T
  <2> QED
    BY <1>1, LeastElement
<1>3. \A j \in 1..(i - 1) : a[j] = b[j]
  <2> TAKE j \in 1..(i - 1)
  <2>1. i \in 1..k
    OBVIOUS
  <2>2. j \in 1..k /\ ~(i <= j)
    BY <2>1
  <2> QED
    BY <1>2, <2>2
<1>4. a[i] \in Nat /\ b[i] \in Nat /\ a[i] # b[i] /\ i \in DOMAIN a /\ i \in DOMAIN b
  BY DEF Tuples
<1>5. a[i] < b[i] \/ b[i] < a[i]
  BY <1>4
<1> QED
  BY <1>3, <1>4, <1>5 DEF Before

(* A day before another is before whatever that one is before. *)
LEMMA BeforeIsTransitive ==
    ASSUME NEW k \in Nat, NEW a \in Tuples(k), NEW b \in Tuples(k), NEW c \in Tuples(k),
           Before(a, b), Before(b, c)
    PROVE  Before(a, c)
<1>1. PICK i \in 1..k : a[i] < b[i] /\ \A j \in 1..(i - 1) : a[j] = b[j]
  BY DEF Before, Tuples
<1>2. PICK m \in 1..k : b[m] < c[m] /\ \A j \in 1..(m - 1) : b[j] = c[j]
  BY DEF Before, Tuples
<1> DEFINE l == IF i <= m THEN i ELSE m
<1>3. l \in 1..k /\ l <= i /\ l <= m
  OBVIOUS
<1>4. \A j \in 1..k : a[j] \in Nat /\ b[j] \in Nat /\ c[j] \in Nat
  BY DEF Tuples
<1>5. \A j \in 1..(l - 1) : a[j] = c[j]
  <2> TAKE j \in 1..(l - 1)
  <2>1. j \in 1..(i - 1) /\ j \in 1..(m - 1)
    BY <1>3
  <2> QED
    BY <1>1, <1>2, <2>1
<1>6. a[l] < c[l]
  <2>1. CASE i < m
    <3>1. l = i /\ i \in 1..(m - 1)
      BY <2>1
    <3>2. b[i] = c[i]
      BY <1>2, <3>1
    <3> QED
      BY <1>1, <3>1, <3>2
  <2>2. CASE m < i
    <3>1. l = m /\ m \in 1..(i - 1)
      BY <2>2
    <3>2. a[m] = b[m]
      BY <1>1, <3>1
    <3> QED
      BY <1>2, <3>1, <3>2
  <2>3. CASE i = m
    <3>1. l = i
      BY <2>3
    <3> QED
      BY <1>1, <1>2, <1>4, <2>3, <3>1
  <2> QED
    BY <2>1, <2>2, <2>3
<1> HIDE DEF l
<1>7. l \in DOMAIN a
  BY <1>3 DEF Tuples
<1> QED
  BY <1>5, <1>6, <1>7 DEF Before

(* A tuple and a number, in that order *)
Lesser2(d1, n1, d2, n2) == IF d1 = d2 THEN n1 < n2 ELSE Before(d1, d2)

(* A strict total order of days and serial numbers: photos are compared so,
   and times. *)
LEMMA LesserIsOrder ==
    ASSUME NEW d1 \in Days3, NEW d2 \in Days3, NEW d3 \in Days3,
           NEW n1 \in Nat, NEW n2 \in Nat, NEW n3 \in Nat
    PROVE  /\ ~Lesser2(d1, n1, d1, n1)
           /\ Lesser2(d1, n1, d2, n2) => ~Lesser2(d2, n2, d1, n1)
           /\ Lesser2(d1, n1, d2, n2) /\ Lesser2(d2, n2, d3, n3) => Lesser2(d1, n1, d3, n3)
           /\ Lesser2(d1, n1, d2, n2) \/ Lesser2(d2, n2, d1, n1) \/ (d1 = d2 /\ n1 = n2)
<1> DEFINE B(x, y) == Before(x, y)
<1>1. \A x \in Days3 : ~B(x, x)
  BY BeforeIsStrict DEF Days3
<1>2. \A x, y \in Days3 : x = y \/ B(x, y) \/ B(y, x)
  BY BeforeIsTotal DEF Days3
<1>3. \A x, y, z \in Days3 : B(x, y) /\ B(y, z) => B(x, z)
  BY BeforeIsTransitive DEF Days3
<1> HIDE DEF B
<1> DEFINE L(x, m, y, l) == IF x = y THEN m < l ELSE B(x, y)
<1>4. \A x, y \in Days3 : B(x, y) => ~B(y, x)
  BY <1>1, <1>3
<1>5. L(d1, n1, d2, n2) /\ L(d2, n2, d3, n3) => L(d1, n1, d3, n3)
  BY <1>3, <1>4
<1>6. /\ ~L(d1, n1, d1, n1)
      /\ L(d1, n1, d2, n2) => ~L(d2, n2, d1, n1)
      /\ L(d1, n1, d2, n2) \/ L(d2, n2, d1, n1) \/ (d1 = d2 /\ n1 = n2)
  BY <1>2, <1>4
<1> QED
  BY <1>5, <1>6 DEF Lesser2, B

(* The order of days is that of months and of years, too. *)
LEMMA PartsOfDays ==
    ASSUME NEW a \in Days3, NEW b \in Days3
    PROVE  /\ MonthOf(a) \in Tuples(2) /\ <<YearOf(a)>> \in Tuples(1)
           /\ Before(MonthOf(a), MonthOf(b)) => Before(a, b)
           /\ Before(<<YearOf(a)>>, <<YearOf(b)>>) => Before(a, b)
<1>1. /\ a[1] \in Nat /\ a[2] \in Nat /\ DOMAIN a = 1..3
      /\ b[1] \in Nat /\ b[2] \in Nat
  BY DEF Days3, Tuples
<1>2. MonthOf(a) \in Tuples(2) /\ <<YearOf(a)>> \in Tuples(1)
  BY <1>1 DEF MonthOf, YearOf, Tuples
<1>3. ASSUME Before(MonthOf(a), MonthOf(b))
      PROVE  Before(a, b)
  <2>1. CASE a[1] < b[1]
    BY <1>1, <2>1 DEF Before
  <2>2. CASE ~(a[1] < b[1])
    <3>1. a[1] = b[1] /\ a[2] < b[2]
      BY <1>1, <1>3, <2>2 DEF Before, MonthOf
    <3>2. 2 \in DOMAIN a /\ \A j \in 1..(2 - 1) : a[j] = b[j]
      BY <1>1, <3>1
    <3> QED
      BY <3>1, <3>2 DEF Before
  <2> QED
    BY <2>1, <2>2
<1>4. ASSUME Before(<<YearOf(a)>>, <<YearOf(b)>>)
      PROVE  Before(a, b)
  <2>1. a[1] < b[1]
    BY <1>1, <1>4 DEF Before, YearOf
  <2> QED
    BY <1>1, <2>1 DEF Before
<1> QED
  BY <1>2, <1>3, <1>4

LEMMA TripleType ==
    ASSUME NEW a \in Nat, NEW b \in Nat, NEW c \in Nat
    PROVE  <<a, b, c>> \in Days3
BY DEF Days3, Tuples

(* A date which was parsed is a day. *)
LEMMA ParsedDayType ==
    ASSUME NEW date \in [1..3 -> Nat]
    PROVE  ParsedDay(date) \in Days3
<1>1. date[1] \in Nat /\ date[2] \in Nat /\ date[3] \in Nat
  OBVIOUS
<1>2. \A y : \A x \in Nat : Limited(x, y) \in Nat
  BY DEF Limited
<1> QED
  BY <1>1, <1>2, TripleType DEF ParsedDay

(***************************************************************************)
(* The weeks on the page of a year.                                        *)
(***************************************************************************)
(* One turn of the loop in hput() *)
WeekOne(x) ==
    IF x.c.mm = x.c.mend THEN x
    ELSE [weeks |-> Append(x.weeks, Get(x.c).week), c |-> Get(x.c)]

(* The fold in Weeks, with the function it is of *)
WeekFolded(f, x, s) == IF s = {} THEN x ELSE WeekOne(f[s \ {Max(s)}])

(* The recursion by which that fold is defined has a solution. *)
LEMMA WeekFoldExists ==
    ASSUME NEW x, NEW N \in Nat
    PROVE  \E f : f = [s \in SUBSET (1..N) |-> WeekFolded(f, x, s)]
<1> DEFINE Good(k, f) == f = [s \in SUBSET (1..k) |-> WeekFolded(f, x, s)]
           T == {k \in Nat : \E f : Good(k, f)}
<1>1. 0 \in T
  <2> DEFINE f == [s \in {{}} |-> x]
  <2>1. SUBSET (1..0) = {{}}
    OBVIOUS
  <2>2. f = [s \in {{}} |-> WeekFolded(f, x, s)]
    BY DEF WeekFolded
  <2> QED
    BY <2>1, <2>2
<1>2. ASSUME NEW k \in Nat, k \in T
      PROVE  k + 1 \in T
  <2>1. PICK f : Good(k, f)
    BY <1>2
  <2> DEFINE g == [s \in SUBSET (1..(k + 1)) |->
                      IF k + 1 \in s THEN WeekOne(f[s \ {k + 1}]) ELSE f[s]]
  <2>2. \A s \in SUBSET (1..(k + 1)) : k + 1 \notin s => s \in SUBSET (1..k)
    OBVIOUS
  <2>3. \A s \in SUBSET (1..k) : g[s] = f[s]
    OBVIOUS
  <2>4. \A s \in SUBSET (1..k) : f[s] = WeekFolded(f, x, s)
    BY <2>1
  <2>5. \A s \in SUBSET (1..(k + 1)) :
            g[s] = IF k + 1 \in s THEN WeekOne(f[s \ {k + 1}]) ELSE f[s]
    OBVIOUS
  <2>6. g = [s \in SUBSET (1..(k + 1)) |-> g[s]]
    OBVIOUS
  <2> HIDE DEF g
  <2>7. ASSUME NEW s \in SUBSET (1..(k + 1))
        PROVE  g[s] = WeekFolded(g, x, s)
    <3>1. CASE k + 1 \in s
      <4>1. Max(s) = k + 1
        BY <3>1, MaxOfPrefix
      <4>2. s \ {k + 1} \in SUBSET (1..k)
        OBVIOUS
      <4> QED
        BY <2>3, <2>5, <3>1, <4>1, <4>2 DEF WeekFolded
    <3>2. CASE k + 1 \notin s
      <4>1. s \in SUBSET (1..k) /\ s \ {Max(s)} \in SUBSET (1..k)
        BY <2>2, <3>2
      <4> QED
        BY <2>3, <2>4, <4>1 DEF WeekFolded
    <3> QED
      BY <3>1, <3>2
  <2>8. Good(k + 1, g)
    BY <2>6, <2>7
  <2> HIDE DEF Good
  <2> QED
    BY <2>8
<1>3. N \in T
  <2> HIDE DEF T
  <2> QED
    BY <1>1, <1>2, Induction
<1> QED
  BY <1>3

(* Weeks, week by week *)
LEMMA WeeksStepwise ==
    ASSUME NEW y, NEW mm, NEW months, WeekBound(months) \in Nat
    PROVE  \E f : /\ f[0] = [weeks |-> <<>>, c |-> From(y, mm, months)]
                  /\ \A k \in 1..WeekBound(months) : f[k] = WeekOne(f[k - 1])
                  /\ Weeks(y, mm, months) = f[WeekBound(months)].weeks
<1> DEFINE x == [weeks |-> <<>>, c |-> From(y, mm, months)]
           N == WeekBound(months)
           F == CHOOSE f : f = [s \in SUBSET (1..N) |-> WeekFolded(f, x, s)]
<1>1. Weeks(y, mm, months) = F[1..N].weeks
  BY DEF Weeks, FoldLeft, MapThenFoldSet, WeekFolded, WeekOne
<1>2. F = [s \in SUBSET (1..N) |-> WeekFolded(F, x, s)]
  BY WeekFoldExists
<1> HIDE DEF F, N, x
<1>3. \A s \in SUBSET (1..N) : F[s] = WeekFolded(F, x, s)
  BY <1>2
<1> DEFINE h == [k \in 0..N |-> F[1..k]]
<1>0. N \in Nat
  BY DEF N
<1>4. h[0] = x
  <2>1. 1..0 = {}
    OBVIOUS
  <2> QED
    BY <1>0, <1>3, <2>1 DEF WeekFolded
<1>5. ASSUME NEW k \in 1..N
      PROVE  h[k] = WeekOne(h[k - 1])
  <2>1. k - 1 \in Nat /\ (k - 1) + 1 = k /\ k - 1 \in 0..N /\ k \in 0..N
    BY <1>0
  <2>2. 1..k \in SUBSET (1..((k - 1) + 1)) /\ (k - 1) + 1 \in 1..k
    BY <1>0
  <2>3. Max(1..k) = k
    BY <2>1, <2>2, MaxOfPrefix
  <2>4. (1..k) \ {k} = 1..(k - 1) /\ 1..k \in SUBSET (1..N) /\ k \in 1..k
    BY <1>0
  <2>5. F[1..k] = WeekOne(F[1..(k - 1)])
    BY <1>3, <2>3, <2>4 DEF WeekFolded
  <2> QED
    BY <2>1, <2>5
<1>6. h[N] = F[1..N]
  BY <1>0
<1> HIDE DEF h
<1> QED
  BY <1>1, <1>4, <1>5, <1>6 DEF N, x

(* A quarter has a week at least: no piece of the page of a year is empty. *)
LEMMA WeeksNotNone ==
    ASSUME NEW y, NEW mm \in Nat
    PROVE  IsSeq(Weeks(y, mm, 3)) /\ Len(Weeks(y, mm, 3)) > 0
<1>1. WeekBound(3) = 18
  BY DEF WeekBound
<1>2. PICK f : /\ f[0] = [weeks |-> <<>>, c |-> From(y, mm, 3)]
               /\ \A k \in 1..18 : f[k] = WeekOne(f[k - 1])
               /\ Weeks(y, mm, 3) = f[18].weeks
  BY <1>1, WeeksStepwise
<1> DEFINE Good(k) == k + 1 <= 18 => IsSeq(f[k + 1].weeks) /\ Len(f[k + 1].weeks) > 0
           T == {k \in Nat : Good(k)}
<1>3. Good(0)
  <2>1. f[1] = WeekOne(f[0])
    BY <1>2
  <2>2. From(y, mm, 3).mm = mm /\ From(y, mm, 3).mend = mm + 3
    BY DEF From
  <2>3. f[0].weeks = <<>> /\ f[0].c = From(y, mm, 3)
    BY <1>2
  <2>4. f[0].c.mm # f[0].c.mend
    BY <2>2, <2>3
  <2>5. f[1].weeks = Append(<<>>, Get(f[0].c).week)
    BY <2>1, <2>3, <2>4 DEF WeekOne
  <2>6. IsSeq(<<>>) /\ Len(<<>>) = 0
    BY DEF IsSeq
  <2>7. IsSeq(f[1].weeks) /\ Len(f[1].weeks) = 0 + 1
    BY <2>5, <2>6, AppendIsSeq
  <2> QED
    BY <2>7
<1>4. ASSUME NEW k \in Nat, Good(k)
      PROVE  Good(k + 1)
  <2> SUFFICES ASSUME (k + 1) + 1 <= 18
               PROVE  IsSeq(f[(k + 1) + 1].weeks) /\ Len(f[(k + 1) + 1].weeks) > 0
    OBVIOUS
  <2>1. (k + 1) + 1 \in 1..18 /\ ((k + 1) + 1) - 1 = k + 1 /\ k + 1 <= 18
    OBVIOUS
  <2>2. f[(k + 1) + 1] = WeekOne(f[k + 1])
    BY <1>2, <2>1
  <2> DEFINE a == f[k + 1]
             b == f[(k + 1) + 1]
  <2>3. IsSeq(a.weeks) /\ Len(a.weeks) > 0 /\ b = WeekOne(a)
    BY <1>4, <2>1, <2>2
  <2> HIDE DEF a, b
  <2>4. IsSeq(b.weeks) /\ Len(b.weeks) > 0
    <3>1. CASE a.c.mm = a.c.mend
      BY <2>3, <3>1 DEF WeekOne
    <3>2. CASE a.c.mm # a.c.mend
      <4>1. b.weeks = Append(a.weeks, Get(a.c).week)
        BY <2>3, <3>2 DEF WeekOne
      <4>2. Len(a.weeks) \in Nat
        BY <2>3 DEF IsSeq
      <4>3. IsSeq(b.weeks) /\ Len(b.weeks) = Len(a.weeks) + 1
        BY <2>3, <4>1, AppendIsSeq
      <4> QED
        BY <2>3, <4>2, <4>3
    <3> QED
      BY <3>1, <3>2
  <2> QED
    BY <2>4 DEF b
<1>5. \A k \in Nat : Good(k)
  <2> HIDE DEF Good
  <2>1. 0 \in T /\ \A k \in Nat : k \in T => k + 1 \in T
    BY <1>3, <1>4
  <2> HIDE DEF T
  <2>2. Nat \subseteq T
    BY <2>1, Induction
  <2> QED
    BY <2>2 DEF T
<1>6. Good(17)
  <2> HIDE DEF Good
  <2> QED
    BY <1>5
<1> QED
  BY <1>2, <1>6

(* How many years up to y are leap years, but for a constant *)
LeapYears(y) == y \div 4 - y \div 100 + y \div 400

(* One more, if and only if the year is one *)
LEMMA LeapYearsGrow ==
    ASSUME NEW y \in Nat, y > 0
    PROVE  /\ LeapYears(y) \in Int
           /\ LeapYears(y) = LeapYears(y - 1) + (IF RealLeapYear(y) THEN 1 ELSE 0)
<1>1. y \div 4 = (y - 1) \div 4 + (IF y % 4 = 0 THEN 1 ELSE 0)
  OBVIOUS
<1>2. y \div 100 = (y - 1) \div 100 + (IF y % 100 = 0 THEN 1 ELSE 0)
  OBVIOUS
<1>3. y \div 400 = (y - 1) \div 400 + (IF y % 400 = 0 THEN 1 ELSE 0)
  OBVIOUS
<1>4. (y % 100 = 0 => y % 4 = 0) /\ (y % 400 = 0 => y % 100 = 0)
  OBVIOUS
<1>5. /\ y \div 4 \in Int /\ y \div 100 \in Int /\ y \div 400 \in Int
      /\ (y - 1) \div 4 \in Int /\ (y - 1) \div 100 \in Int /\ (y - 1) \div 400 \in Int
  OBVIOUS
<1> QED
  BY <1>1, <1>2, <1>3, <1>4, <1>5 DEF LeapYears, RealLeapYear

(* What the months before a month of such a year have, from March on *)
Before1st == <<306, 337, 0, 31, 61, 92, 122, 153, 184, 214, 245, 275>>

(* The number of a day, month by month *)
LEMMA MonthBegins ==
    ASSUME NEW m \in Nat, 1 <= m, m <= 12
    PROVE  (153 * ((m + 9) % 12) + 2) \div 5 = Before1st[m] /\ Before1st[m] \in Int
<1>1. m = 1 \/ m = 2 \/ m = 3 \/ m = 4 \/ m = 5 \/ m = 6 \/ m = 7 \/ m = 8 \/ m = 9
      \/ m = 10 \/ m = 11 \/ m = 12
  OBVIOUS
<1> QED
  BY <1>1 DEF Before1st

(* Days are numbered on from the last of December, in January and February *)
LEMMA EarlyDayNumber ==
    ASSUME NEW y \in Nat, NEW m \in Nat, NEW d \in Nat, y > 0, 1 <= m, m <= 12
    PROVE  m <= 2 => DayNumber(y, m, d) = 365 * (y - 1) + LeapYears(y - 1) + Before1st[m] + d
BY MonthBegins DEF DayNumber, LeapYears

(* and from March on, when the leap day of the year has passed. *)
LEMMA LateDayNumber ==
    ASSUME NEW y \in Nat, NEW m \in Nat, NEW d \in Nat, y > 0, 1 <= m, m <= 12
    PROVE  m > 2 => DayNumber(y, m, d) = 365 * y + LeapYears(y) + Before1st[m] + d
BY MonthBegins DEF DayNumber, LeapYears

(* The first days of all months, numbered from January of year 0 on *)
FirstDay(j) == DayNumber(j \div 12, (j % 12) + 1, 1)

DaysOf(j) == RealDays(j \div 12, (j % 12) + 1)

(* The first day of the next month is as much later as the month is long. *)
LEMMA MonthsFollow ==
    ASSUME NEW y \in Nat, NEW m \in Nat, y > 0, 1 <= m, m <= 12
    PROVE  /\ m = 12 => DayNumber(y + 1, 1, 1) = DayNumber(y, m, 1) + RealDays(y, m)
           /\ m # 12 => DayNumber(y, m + 1, 1) = DayNumber(y, m, 1) + RealDays(y, m)
           /\ DayNumber(y, m, 1) \in Int
           /\ RealDays(y, m) \in 28..31
<1> DEFINE L == LeapYears(y)
           P == LeapYears(y - 1)
<1>1. L \in Int /\ P \in Int /\ L = P + (IF RealLeapYear(y) THEN 1 ELSE 0)
  <2>1. L \in Int /\ L = P + (IF RealLeapYear(y) THEN 1 ELSE 0)
    BY LeapYearsGrow
  <2>2. P \in Int
    BY DEF LeapYears
  <2> QED
    BY <2>1, <2>2
<1>2. RealLeapYear(y) \in BOOLEAN
  BY DEF RealLeapYear
<1>3. \A i \in Nat : 1 <= i /\ i <= 12 =>
        DayNumber(y, i, 1) = IF i <= 2 THEN 365 * (y - 1) + P + Before1st[i] + 1 ELSE 365 * y + L + Before1st[i] + 1
  <2> SUFFICES ASSUME NEW i \in Nat, 1 <= i, i <= 12
               PROVE  DayNumber(y, i, 1) = IF i <= 2 THEN 365 * (y - 1) + P + Before1st[i] + 1
                                           ELSE 365 * y + L + Before1st[i] + 1
    OBVIOUS
  <2>1. i <= 2 => DayNumber(y, i, 1) = 365 * (y - 1) + LeapYears(y - 1) + Before1st[i] + 1
    BY EarlyDayNumber
  <2>3. i > 2 => DayNumber(y, i, 1) = 365 * y + LeapYears(y) + Before1st[i] + 1
    BY LateDayNumber
  <2>2. i <= 2 \/ i > 2
    OBVIOUS
  <2> QED
    BY <2>1, <2>2, <2>3
<1>4. DayNumber(y + 1, 1, 1) = 365 * y + L + 306 + 1
  <2>1. DayNumber(y + 1, 1, 1) = 365 * ((y + 1) - 1) + LeapYears((y + 1) - 1) + Before1st[1] + 1
    BY EarlyDayNumber
  <2>2. (y + 1) - 1 = y
    OBVIOUS
  <2> QED
    BY <2>1, <2>2 DEF Before1st
<1>5. RealDays(y, m) = IF m = 2 THEN IF RealLeapYear(y) THEN 29 ELSE 28
                       ELSE IF m = 4 \/ m = 6 \/ m = 9 \/ m = 11 THEN 30 ELSE 31
  <2>1. m = 1 \/ m = 2 \/ m = 3 \/ m = 4 \/ m = 5 \/ m = 6 \/ m = 7 \/ m = 8 \/ m = 9
        \/ m = 10 \/ m = 11 \/ m = 12
    OBVIOUS
  <2> QED
    BY <2>1 DEF RealDays
<1> HIDE DEF L, P
<1>6. \A i \in Nat : 1 <= i /\ i <= 12 => Before1st[i] \in Int /\ DayNumber(y, i, 1) \in Int
  <2>1. \A i \in Nat : 1 <= i /\ i <= 12 => Before1st[i] \in Int
    BY MonthBegins
  <2> QED
    BY <1>1, <1>3, <2>1
<1>7. m # 12 => DayNumber(y, m + 1, 1) = DayNumber(y, m, 1) + RealDays(y, m)
  <2> SUFFICES ASSUME m # 12 PROVE DayNumber(y, m + 1, 1) = DayNumber(y, m, 1) + RealDays(y, m)
    OBVIOUS
  <2>1. m + 1 \in Nat /\ 1 <= m + 1 /\ m + 1 <= 12
    OBVIOUS
  <2>2. CASE m = 1
    BY <1>1, <1>3, <1>5, <2>2 DEF Before1st
  <2>3. CASE m = 2
    BY <1>1, <1>2, <1>3, <1>5, <2>3 DEF Before1st
  <2>4. CASE m > 2
    <3>1. /\ DayNumber(y, m, 1) = 365 * y + L + Before1st[m] + 1
          /\ DayNumber(y, m + 1, 1) = 365 * y + L + Before1st[m + 1] + 1
      BY <1>3, <2>1, <2>4
    <3>2. Before1st[m + 1] = Before1st[m] + RealDays(y, m)
      <4>1. m = 3 \/ m = 4 \/ m = 5 \/ m = 6 \/ m = 7 \/ m = 8 \/ m = 9 \/ m = 10 \/ m = 11
        BY <2>4
      <4> QED
        BY <1>5, <4>1 DEF Before1st
    <3>3. RealDays(y, m) \in Int
      BY <1>5, <2>4
    <3> QED
      BY <1>1, <1>6, <2>1, <3>1, <3>2, <3>3
  <2> QED
    BY <2>2, <2>3, <2>4
<1>8. m = 12 => DayNumber(y + 1, 1, 1) = DayNumber(y, m, 1) + RealDays(y, m)
  BY <1>1, <1>3, <1>4, <1>5 DEF Before1st
<1>9. RealDays(y, m) \in 28..31
  BY <1>2, <1>5
<1> QED
  BY <1>6, <1>7, <1>8, <1>9

(* All the same, month after month *)
LEMMA FirstDaysFollow ==
    ASSUME NEW j \in Nat, j >= 12
    PROVE  /\ FirstDay(j) \in Int
           /\ DaysOf(j) \in 28..31
           /\ FirstDay(j + 1) = FirstDay(j) + DaysOf(j)
<1> DEFINE y == j \div 12
           m == (j % 12) + 1
<1>1. y \in Nat /\ y > 0 /\ m \in Nat /\ 1 <= m /\ m <= 12
  OBVIOUS
<1>2. m = 12 => (j + 1) \div 12 = y + 1 /\ (j + 1) % 12 = 0
  OBVIOUS
<1>3. m # 12 => (j + 1) \div 12 = y /\ ((j + 1) % 12) + 1 = m + 1
  OBVIOUS
<1>4. FirstDay(j) = DayNumber(y, m, 1) /\ DaysOf(j) = RealDays(y, m)
  BY DEF FirstDay, DaysOf
<1> HIDE DEF y, m
<1>5. m = 12 => FirstDay(j + 1) = DayNumber(y + 1, 1, 1)
  BY <1>2 DEF FirstDay
<1>6. m # 12 => FirstDay(j + 1) = DayNumber(y, m + 1, 1)
  BY <1>3 DEF FirstDay
<1> QED
  BY <1>1, <1>4, <1>5, <1>6, MonthsFollow

(* So they are in order. *)
LEMMA FirstDaysAscend ==
    ASSUME NEW i \in Nat, i >= 12, NEW j \in Nat, i <= j
    PROVE  FirstDay(i) <= FirstDay(j)
<1> DEFINE T == {k \in Nat : FirstDay(i) <= FirstDay(i + k)}
<1>1. 0 \in T
  BY FirstDaysFollow
<1>2. ASSUME NEW k \in Nat, k \in T
      PROVE  k + 1 \in T
  <2>1. /\ FirstDay(i + k) \in Int /\ DaysOf(i + k) \in 28..31
        /\ FirstDay((i + k) + 1) = FirstDay(i + k) + DaysOf(i + k)
        /\ FirstDay(i) \in Int
    BY FirstDaysFollow
  <2>2. (i + k) + 1 = i + (k + 1)
    OBVIOUS
  <2> QED
    BY <1>2, <2>1, <2>2
<1>3. Nat \subseteq T
  <2> HIDE DEF T
  <2> QED
    BY <1>1, <1>2, Induction
<1>4. j - i \in Nat /\ i + (j - i) = j
  OBVIOUS
<1> QED
  BY <1>3, <1>4

(* Every day between two of them is in a month between them. *)
LEMMA MonthOfDay ==
    ASSUME NEW i \in Nat, i >= 12, NEW j \in Nat, i <= j,
           NEW at \in Int, FirstDay(i) <= at, at < FirstDay(j)
    PROVE  \E k \in Nat : /\ i <= k /\ k < j
                          /\ FirstDay(k) <= at /\ at < FirstDay(k + 1)
                          /\ at - FirstDay(k) \in 0..(DaysOf(k) - 1)
<1> DEFINE T == {k \in Nat : k >= i /\ at < FirstDay(k)}
<1>1. PICK l \in T : \A k \in T : l <= k
  BY LeastElement
<1>2. l > i /\ l <= j
  <2>1. FirstDay(l) \in Int
    BY <1>1, FirstDaysFollow
  <2> QED
    BY <1>1, <2>1
<1>3. l - 1 \in Nat /\ l - 1 >= i /\ (l - 1) + 1 = l /\ l - 1 < l
  BY <1>2
<1>4. l - 1 \notin T
  BY <1>1, <1>3
<1>5. FirstDay(l - 1) \in Int /\ DaysOf(l - 1) \in 28..31 /\ FirstDay(l) = FirstDay(l - 1) + DaysOf(l - 1)
  BY <1>3, FirstDaysFollow
<1>6. FirstDay(l - 1) <= at /\ at < FirstDay(l)
  BY <1>1, <1>3, <1>4, <1>5
<1>7. at - FirstDay(l - 1) \in 0..(DaysOf(l - 1) - 1)
  BY <1>5, <1>6
<1> QED
  BY <1>2, <1>3, <1>6, <1>7

(* The days of a month are numbered one after the other. *)
LEMMA DaysFollow ==
    ASSUME NEW y \in Nat, NEW m \in Nat, NEW d \in Nat, y > 0, 1 <= m, m <= 12
    PROVE  /\ DayNumber(y, m, 1) \in Int
           /\ DayNumber(y, m, d) \in Int
           /\ DayNumber(y, m, d) = DayNumber(y, m, 1) + (d - 1)
<1>1. DayNumber(y, m, 1) \in Int
  BY MonthsFollow
<1>2. Before1st[m] \in Int /\ LeapYears(y) \in Int /\ LeapYears(y - 1) \in Int
  BY MonthBegins DEF LeapYears
<1>3. CASE m <= 2
  <2>1. DayNumber(y, m, d) = 365 * (y - 1) + LeapYears(y - 1) + Before1st[m] + d
    BY <1>3, EarlyDayNumber
  <2>2. DayNumber(y, m, 1) = 365 * (y - 1) + LeapYears(y - 1) + Before1st[m] + 1
    BY <1>3, EarlyDayNumber
  <2> QED
    BY <1>1, <1>2, <2>1, <2>2
<1>4. CASE m > 2
  <2>1. DayNumber(y, m, d) = 365 * y + LeapYears(y) + Before1st[m] + d
    BY <1>4, LateDayNumber
  <2>2. DayNumber(y, m, 1) = 365 * y + LeapYears(y) + Before1st[m] + 1
    BY <1>4, LateDayNumber
  <2> QED
    BY <1>1, <1>2, <2>1, <2>2
<1> QED
  BY <1>1, <1>3, <1>4

(* A month by its number, and by its year and place in it *)
LEMMA MonthByNumber ==
    ASSUME NEW y \in Nat, NEW m \in Nat, 1 <= m, m <= 12
    PROVE  /\ FirstDay(12 * y + (m - 1)) = DayNumber(y, m, 1)
           /\ DaysOf(12 * y + (m - 1)) = RealDays(y, m)
<1>1. (12 * y + (m - 1)) \div 12 = y /\ ((12 * y + (m - 1)) % 12) + 1 = m
  OBVIOUS
<1> QED
  BY <1>1 DEF FirstDay, DaysOf

(* The first of January 1970, and how far time_t reaches *)
LEMMA EpochDays ==
    /\ DayNumber(1970, 1, 1) = 719469
    /\ FirstDay(23640) = 719469
    /\ FirstDay(24468) = 719469 + 25202
<1>1. DayNumber(1970, 1, 1) = 719469 /\ DayNumber(2039, 1, 1) = 719469 + 25202
  BY DEF DayNumber
<1>2. 12 * 1970 + (1 - 1) = 23640 /\ 12 * 2039 + (1 - 1) = 24468
  OBVIOUS
<1> QED
  BY <1>1, <1>2, MonthByNumber

(* A broken-down time: of a day, and what has passed of it *)
BrokenDown(y, m, d, secs) ==
    [year |-> y - 1900, mon |-> m - 1, mday |-> d, wday |-> SundayBased(y, m, d),
     hour |-> secs \div 3600, min |-> (secs \div 60) % 60, sec |-> secs % 60]

(* It is read back from all three forms, whatever the length of its name. *)
LEMMA WrittenIsParsed ==
    ASSUME NEW y \in Nat, NEW m \in Nat, NEW d \in Nat, NEW secs \in Nat,
           NEW form \in Forms, 1970 <= y, y <= 2069, 1 <= m, m <= 12
    PROVE  Parse(InForm(form, BrokenDown(y, m, d, secs))) = Timegm(BrokenDown(y, m, d, secs))
<1> DEFINE tm == BrokenDown(y, m, d, secs)
           date == InForm(form, tm)
<1>1. tm.year = y - 1900 /\ tm.wday = SundayBased(y, m, d)
  BY DEF BrokenDown
<1>2. tm.wday \in 0..6
  <2>1. RealWeekday(y, m, d) \in 0..6
    <3>1. DayNumber(y, m, d) \in Int
      <4>1. y > 0
        OBVIOUS
      <4> QED
        BY <4>1, DaysFollow
    <3> QED
      BY <3>1 DEF RealWeekday
  <2> QED
    BY <1>1, <2>1 DEF SundayBased
<1>3. WeekdayLengths[tm.wday + 1] \in 6..9
  <2> HIDE DEF tm
  <2>1. tm.wday + 1 = 1 \/ tm.wday + 1 = 2 \/ tm.wday + 1 = 3 \/ tm.wday + 1 = 4
        \/ tm.wday + 1 = 5 \/ tm.wday + 1 = 6 \/ tm.wday + 1 = 7
    BY <1>2
  <2> QED
    BY <2>1 DEF WeekdayLengths
<1>4. /\ date.form = form /\ date.length = LengthOf(form, tm)
      /\ date.tm = [tm EXCEPT !.year = IF form = "RFC850" THEN @ % 100 ELSE @ + 1900]
  BY DEF InForm
<1>5. Taken(date) = form /\ form # "none"
  <2> HIDE DEF tm, date
  <2>1. CASE form = "RFC1123"
    BY <1>4, <2>1 DEF LengthOf, Taken
  <2>2. CASE form = "RFC850"
    <3>1. date.length = WeekdayLengths[tm.wday + 1] + 24
      BY <1>4, <2>2 DEF LengthOf
    <3>2. date.length >= 30
      BY <1>3, <3>1
    <3> QED
      BY <1>4, <2>2, <3>2 DEF Taken
  <2>3. CASE form = "asctime"
    BY <1>4, <2>3 DEF LengthOf, Taken
  <2> QED
    BY <2>1, <2>2, <2>3 DEF Forms
<1>6. ParsedYear(form, date.tm.year) = y - 1900
  <2>1. date.tm.year = IF form = "RFC850" THEN (y - 1900) % 100 ELSE (y - 1900) + 1900
    <3>1. "year" \in DOMAIN tm
      BY DEF BrokenDown
    <3> QED
      BY <1>1, <1>4, <3>1
  <2> HIDE DEF date
  <2>2. CASE form = "RFC850"
    BY <2>1, <2>2 DEF ParsedYear
  <2>3. CASE form # "RFC850"
    BY <2>1, <2>3 DEF ParsedYear
  <2> QED
    BY <2>2, <2>3
<1>7. [date.tm EXCEPT !.year = ParsedYear(date.form, @)] = tm
  <2>1. date.tm = [year |-> date.tm.year, mon |-> tm.mon, mday |-> tm.mday, wday |-> tm.wday,
                   hour |-> tm.hour, min |-> tm.min, sec |-> tm.sec]
    BY <1>4 DEF BrokenDown
  <2>2. tm = [year |-> y - 1900, mon |-> tm.mon, mday |-> tm.mday, wday |-> tm.wday,
              hour |-> tm.hour, min |-> tm.min, sec |-> tm.sec]
    BY DEF BrokenDown
  <2> HIDE DEF tm, date
  <2>3. ParsedYear(date.form, date.tm.year) = y - 1900
    BY <1>4, <1>6
  <2> QED
    BY <2>1, <2>2, <2>3
<1>8. Parse(date) = Timegm(tm)
  <2> HIDE DEF tm, date
  <2>1. Taken(date) # "none"
    BY <1>5
  <2> DEFINE tt == [date.tm EXCEPT !.year = ParsedYear(date.form, @)]
  <2>2. Parse(date) = IF Taken(date) = "none" THEN 0 ELSE Timegm(tt)
    BY DEF Parse
  <2>3. tt = tm
    BY <1>7
  <2> HIDE DEF tt
  <2> QED
    BY <2>1, <2>2, <2>3
<1> QED
  BY <1>8

(* So it is the time it has been made of. *)
LEMMA StampIsTime ==
    ASSUME NEW y \in Nat, NEW m \in Nat, NEW d \in 1..RealDays(y, m), NEW secs \in Nat,
           1970 <= y, y <= 2069, secs < SecondsPerDay, 1 <= m, m <= 12
    PROVE  IsTime(BrokenDown(y, m, d, secs), Midnight(y, m, d) + secs)
<1> DEFINE tm == BrokenDown(y, m, d, secs)
<1>1. y > 0 /\ secs < 86400
  BY DEF SecondsPerDay
<1>2. d \in Nat
  <2>1. RealDays(y, m) \in 28..31
    BY <1>1, MonthsFollow
  <2> QED
    BY <2>1
<1>3. /\ tm.year = y - 1900 /\ tm.mon = m - 1 /\ tm.mday = d
      /\ tm.wday = SundayBased(y, m, d) /\ tm.hour = secs \div 3600
      /\ tm.min = (secs \div 60) % 60 /\ tm.sec = secs % 60
  BY DEF BrokenDown
<1>4. \A form \in Forms : Parse(InForm(form, tm)) = Timegm(tm)
  <2> TAKE form \in Forms
  <2> QED
    BY <1>1, <1>2, WrittenIsParsed
<1> HIDE DEF tm
<1>5. tm.year + 1900 = y /\ tm.mon + 1 = m
  BY <1>3
<1>6. tm.hour \in 0..23 /\ tm.min \in 0..59 /\ tm.sec \in 0..59
  <2>1. secs \div 3600 \in 0..23 /\ (secs \div 60) % 60 \in 0..59 /\ secs % 60 \in 0..59
    BY <1>1
  <2> QED
    BY <1>3, <2>1
<1>7. 3600 * tm.hour + 60 * tm.min + tm.sec = secs
  <2>6. secs \div 60 \in Nat
    OBVIOUS
  <2>2. secs = 60 * (secs \div 60) + (secs % 60)
    OBVIOUS
  <2>3. (secs \div 60) \div 60 = secs \div 3600
    OBVIOUS
  <2>4. secs \div 60 = 60 * ((secs \div 60) \div 60) + ((secs \div 60) % 60)
    BY <2>6
  <2>5. secs \div 3600 \in Int /\ (secs \div 60) % 60 \in Int /\ secs % 60 \in Int
    OBVIOUS
  <2>1. 3600 * (secs \div 3600) + 60 * ((secs \div 60) % 60) + (secs % 60) = secs
    BY <2>2, <2>3, <2>4, <2>5
  <2> QED
    BY <1>3, <2>1
<1>8. Timegm(tm) = Midnight(y, m, d) + secs
  <2>1. Timegm(tm) = Midnight(y, m, d) + 3600 * tm.hour + 60 * tm.min + tm.sec
    BY <1>3, <1>5 DEF Timegm
  <2>2. Midnight(y, m, d) \in Int
    <3>1. DayNumber(y, m, d) \in Int /\ DayNumber(1970, 1, 1) \in Int
      BY <1>1, <1>2, DaysFollow, EpochDays
    <3> QED
      BY <3>1 DEF Midnight, SecondsPerDay
  <2>3. 3600 * tm.hour \in Int /\ 60 * tm.min \in Int /\ tm.sec \in Int
    <3>1. tm.hour \in Int /\ tm.min \in Int /\ tm.sec \in Int
      BY <1>3
    <3> QED
      BY <3>1
  <2> QED
    BY <1>7, <2>1, <2>2, <2>3
<1>9. m \in 1..12
  OBVIOUS
<1> DEFINE yy == tm.year + 1900
           mm == tm.mon + 1
<1>10. yy = y /\ mm = m /\ tm.mday = d
  BY <1>3, <1>5
<1> HIDE DEF yy, mm
<1>11. mm \in 1..12
  BY <1>9, <1>10
<1>12. tm.mday \in 1..RealDays(yy, mm)
  BY <1>10
<1>13. tm.wday = SundayBased(yy, mm, tm.mday)
  BY <1>3, <1>10
<1>14. \A form \in Forms : Parse(InForm(form, tm)) = Midnight(y, m, d) + secs
  BY <1>4, <1>8
<1>15. IsTime(tm, Midnight(y, m, d) + secs)
  <2> DEFINE t == Midnight(y, m, d) + secs
             h == tm.hour \in 0..23 /\ tm.min \in 0..59 /\ tm.sec \in 0..59
             w == tm.wday = SundayBased(yy, mm, tm.mday)
             g == Timegm(tm) = t
             p == \A form \in Forms : Parse(InForm(form, tm)) = t
             l == mm \in 1..12 /\ tm.mday \in 1..RealDays(yy, mm)
  <2>1. h /\ w /\ g /\ p /\ l
    BY <1>6, <1>8, <1>11, <1>12, <1>13, <1>14
  <2>2. IsTime(tm, t) <=> l /\ h /\ w /\ g /\ p
    BY DEF IsTime, yy, mm
  <2> HIDE DEF h, w, g, p, l
  <2> QED
    BY <2>1, <2>2
<1> QED
  BY <1>15 DEF tm

(* A day since 1970 is in one of these years and one of its months. *)
LEMMA YearAndMonthExist ==
    ASSUME NEW at \in Nat, at <= 24855
    PROVE  /\ \E y \in Nat : /\ 1970 <= y /\ y <= 2038
                             /\ DayNumber(y, 1, 1) - DayNumber(1970, 1, 1) <= at
                             /\ at < DayNumber(y + 1, 1, 1) - DayNumber(1970, 1, 1)
           /\ \A y \in Nat :
                 /\ 1970 <= y /\ y <= 2038
                 /\ DayNumber(y, 1, 1) - DayNumber(1970, 1, 1) <= at
                 /\ at < DayNumber(y + 1, 1, 1) - DayNumber(1970, 1, 1)
                 => \E m \in Nat :
                      /\ 1 <= m /\ m <= 12
                      /\ at - (DayNumber(y, m, 1) - DayNumber(1970, 1, 1)) \in 0..(RealDays(y, m) - 1)
<1> DEFINE day == 719469 + at
<1>0. DayNumber(1970, 1, 1) = 719469
  BY EpochDays
<1>1. \E y \in Nat : /\ 1970 <= y /\ y <= 2038
                     /\ DayNumber(y, 1, 1) <= day /\ day < DayNumber(y + 1, 1, 1)
  <2>1. FirstDay(23640) <= day /\ day < FirstDay(24468) /\ day \in Int
    BY EpochDays
  <2>2. PICK k \in Nat : /\ 23640 <= k /\ k < 24468
                         /\ FirstDay(k) <= day /\ day < FirstDay(k + 1)
    BY <2>1, MonthOfDay
  <2> DEFINE y == k \div 12
  <2>3. /\ y \in Nat /\ 1970 <= y /\ y <= 2038
        /\ 12 * y \in Nat /\ 12 <= 12 * y /\ 12 * y <= k
        /\ 12 * (y + 1) \in Nat /\ k + 1 <= 12 * (y + 1) /\ 12 <= k + 1
    BY <2>2
  <2> HIDE DEF y
  <2>4. FirstDay(12 * y) = DayNumber(y, 1, 1) /\ FirstDay(12 * (y + 1)) = DayNumber(y + 1, 1, 1)
    <3>1. 12 * y + (1 - 1) = 12 * y /\ 12 * (y + 1) + (1 - 1) = 12 * (y + 1)
      BY <2>3
    <3>2. FirstDay(12 * y + (1 - 1)) = DayNumber(y, 1, 1)
      BY <2>3, MonthByNumber
    <3>3. FirstDay(12 * (y + 1) + (1 - 1)) = DayNumber(y + 1, 1, 1)
      <4>1. y + 1 \in Nat
        BY <2>3
      <4> QED
        BY <4>1, MonthByNumber
    <3> QED
      BY <3>1, <3>2, <3>3
  <2>5. FirstDay(12 * y) <= FirstDay(k)
    BY <2>2, <2>3, FirstDaysAscend
  <2>6. FirstDay(k + 1) <= FirstDay(12 * (y + 1))
    <3>1. k + 1 \in Nat
      OBVIOUS
    <3> QED
      BY <2>3, <3>1, FirstDaysAscend
  <2>7. FirstDay(12 * y) \in Int /\ FirstDay(k) \in Int /\ FirstDay(k + 1) \in Int
        /\ FirstDay(12 * (y + 1)) \in Int
    <3>1. k + 1 \in Nat /\ 12 <= k /\ 12 <= 12 * (y + 1)
      BY <2>2, <2>3
    <3> QED
      BY <2>3, <3>1, FirstDaysFollow
  <2>8. DayNumber(y, 1, 1) <= day /\ day < DayNumber(y + 1, 1, 1)
    BY <2>1, <2>2, <2>4, <2>5, <2>6, <2>7
  <2> QED
    BY <2>3, <2>8
<1>2. ASSUME NEW y \in Nat, 1970 <= y, y <= 2038,
             DayNumber(y, 1, 1) <= day, day < DayNumber(y + 1, 1, 1)
      PROVE  \E m \in Nat : /\ 1 <= m /\ m <= 12
                            /\ day - DayNumber(y, m, 1) \in 0..(RealDays(y, m) - 1)
  <2>1. /\ 12 * y \in Nat /\ 12 * (y + 1) \in Nat /\ 12 <= 12 * y /\ 12 * y <= 12 * (y + 1)
        /\ 12 * y + (1 - 1) = 12 * y /\ 12 * (y + 1) + (1 - 1) = 12 * (y + 1) /\ y + 1 \in Nat
        /\ day \in Int
    BY <1>2
  <2>2. FirstDay(12 * y + (1 - 1)) = DayNumber(y, 1, 1)
    BY MonthByNumber
  <2>3. FirstDay(12 * (y + 1) + (1 - 1)) = DayNumber(y + 1, 1, 1)
    BY <2>1, MonthByNumber
  <2>4. FirstDay(12 * y) <= day /\ day < FirstDay(12 * (y + 1))
    BY <1>2, <2>1, <2>2, <2>3
  <2> HIDE DEF day
  <2>5. PICK k \in Nat : /\ 12 * y <= k /\ k < 12 * (y + 1)
                         /\ day - FirstDay(k) \in 0..(DaysOf(k) - 1)
    BY <2>1, <2>4, MonthOfDay
  <2> DEFINE m == k - 12 * y + 1
  <2>6. m \in Nat /\ 1 <= m /\ m <= 12 /\ 12 * y + (m - 1) = k
    BY <2>5
  <2> HIDE DEF m
  <2>7. FirstDay(k) = DayNumber(y, m, 1) /\ DaysOf(k) = RealDays(y, m)
    <3>1. FirstDay(12 * y + (m - 1)) = DayNumber(y, m, 1) /\ DaysOf(12 * y + (m - 1)) = RealDays(y, m)
      BY <2>6, MonthByNumber
    <3> QED
      BY <2>6, <3>1
  <2> QED
    BY <2>5, <2>6, <2>7
<1>3. \A x \in Int : /\ x - 719469 <= at <=> x <= day
                     /\ at < x - 719469 <=> day < x
                     /\ at - (x - 719469) = day - x
  OBVIOUS
<1>4. \A y, m \in Nat : 0 < y /\ 1 <= m /\ m <= 12 => DayNumber(y, m, 1) \in Int
  BY MonthsFollow
<1>5. \A y \in Nat : 1970 <= y => /\ DayNumber(y, 1, 1) \in Int
                                  /\ DayNumber(y + 1, 1, 1) \in Int
  <2> TAKE y \in Nat
  <2>1. y + 1 \in Nat
    OBVIOUS
  <2> QED
    BY <1>4, <2>1
<1> HIDE DEF day
<1>6. \E y \in Nat : /\ 1970 <= y /\ y <= 2038
                     /\ DayNumber(y, 1, 1) - 719469 <= at
                     /\ at < DayNumber(y + 1, 1, 1) - 719469
  BY <1>1, <1>3, <1>5
<1>7. ASSUME NEW y \in Nat, 1970 <= y, y <= 2038,
             DayNumber(y, 1, 1) - 719469 <= at, at < DayNumber(y + 1, 1, 1) - 719469
      PROVE  \E m \in Nat : /\ 1 <= m /\ m <= 12
                            /\ at - (DayNumber(y, m, 1) - 719469) \in 0..(RealDays(y, m) - 1)
  <2>1. DayNumber(y, 1, 1) <= day /\ day < DayNumber(y + 1, 1, 1)
    BY <1>3, <1>5, <1>7
  <2>2. PICK m \in Nat : /\ 1 <= m /\ m <= 12
                         /\ day - DayNumber(y, m, 1) \in 0..(RealDays(y, m) - 1)
    BY <1>2, <1>7, <2>1
  <2>3. at - (DayNumber(y, m, 1) - 719469) = day - DayNumber(y, m, 1)
    <3>1. DayNumber(y, m, 1) \in Int
      BY <1>4, <1>7, <2>2
    <3> QED
      BY <1>3, <3>1
  <2> QED
    BY <2>2, <2>3
<1> QED
  BY <1>0, <1>6, <1>7

(* gmtime_r(3), as far as time_t reaches *)
LEMMA GmtimeIsTime ==
    ASSUME NEW t \in Nat, t <= TimeMax
    PROVE  IsTime(Gmtime(t), t)
<1> DEFINE at == t \div SecondsPerDay
           secs == t % SecondsPerDay
           day(y, m, d) == DayNumber(y, m, d) - DayNumber(1970, 1, 1)
           Some == 1970..2038
           Twelve == 1..12
           HasDay(x) == day(x, 1, 1) <= at /\ at < day(x + 1, 1, 1)
           y == CHOOSE x \in Some : HasDay(x)
           Holds(x) == at - day(y, x, 1) \in 0..(RealDays(y, x) - 1)
           m == CHOOSE x \in Twelve : Holds(x)
           d == at - day(y, m, 1) + 1
<1>1. /\ at \in Nat /\ at <= 24855 /\ secs \in Nat /\ secs < SecondsPerDay
      /\ at * SecondsPerDay + secs = t
  BY DEF SecondsPerDay, TimeMax
<1>2. Gmtime(t) = BrokenDown(y, m, d, secs)
  BY DEF Gmtime, BrokenDown
<1> HIDE DEF at, secs
<1>3. /\ y \in Nat /\ 1970 <= y /\ y <= 2038
      /\ day(y, 1, 1) <= at /\ at < day(y + 1, 1, 1)
  <2>1. \E x \in Nat : 1970 <= x /\ x <= 2038 /\ HasDay(x)
    BY <1>1, YearAndMonthExist
  <2>2. \A x \in Nat : 1970 <= x /\ x <= 2038 => x \in Some
    OBVIOUS
  <2>3. \A x \in Some : x \in Nat /\ 1970 <= x /\ x <= 2038
    OBVIOUS
  <2> HIDE DEF Some, HasDay
  <2>4. y \in Some /\ HasDay(y)
    BY <2>1, <2>2
  <2> HIDE DEF y
  <2>5. y \in Nat /\ 1970 <= y /\ y <= 2038
    BY <2>3, <2>4
  <2> QED
    BY <2>4, <2>5 DEF HasDay
<1> HIDE DEF y
<1>4. /\ m \in Nat /\ 1 <= m /\ m <= 12 /\ at - day(y, m, 1) \in 0..(RealDays(y, m) - 1)
  <2>1. \E x \in Nat : 1 <= x /\ x <= 12 /\ Holds(x)
    BY <1>1, <1>3, YearAndMonthExist
  <2>2. \A x \in Nat : 1 <= x /\ x <= 12 => x \in Twelve
    OBVIOUS
  <2>3. \A x \in Twelve : x \in Nat /\ 1 <= x /\ x <= 12
    OBVIOUS
  <2> HIDE DEF Twelve, Holds
  <2>4. m \in Twelve /\ Holds(m)
    BY <2>1, <2>2
  <2> HIDE DEF m
  <2>5. m \in Nat /\ 1 <= m /\ m <= 12
    BY <2>3, <2>4
  <2> QED
    BY <2>4, <2>5 DEF Holds
<1> HIDE DEF m
<1>5. /\ DayNumber(y, m, 1) \in Int /\ DayNumber(1970, 1, 1) \in Int
      /\ RealDays(y, m) \in Int
  <2>1. y > 0
    BY <1>3
  <2>2. DayNumber(y, m, 1) \in Int
    BY <1>3, <1>4, <2>1, MonthsFollow
  <2>3. RealDays(y, m) \in 28..31
    BY <1>3, <1>4, <2>1, MonthsFollow
  <2> QED
    BY <2>2, <2>3, EpochDays
<1>6. d \in 1..RealDays(y, m) /\ d \in Nat
  BY <1>1, <1>4, <1>5
<1>7. Midnight(y, m, d) + secs = t
  <2>1. DayNumber(y, m, d) = DayNumber(y, m, 1) + (d - 1)
    BY <1>3, <1>4, <1>6, DaysFollow
  <2>2. DayNumber(y, m, d) - DayNumber(1970, 1, 1) = at
    BY <1>1, <1>5, <2>1
  <2> HIDE DEF d
  <2> QED
    BY <1>1, <2>2 DEF Midnight
<1> HIDE DEF d
<1>8. IsTime(BrokenDown(y, m, d, secs), Midnight(y, m, d) + secs)
  BY <1>1, <1>3, <1>4, <1>6, StampIsTime
<1> QED
  BY <1>2, <1>7, <1>8

(* The first of January 1970 *)
DayZero == DayNumber(1970, 1, 1)

(* The table: its months one after the other *)
LEMMA TableIs ==
    ASSUME NEW k \in Nat, k < TableEnd
    PROVE  /\ TableYear(k) \in Nat /\ 1980 <= TableYear(k) /\ TableYear(k) <= 2029
           /\ TableMonth(k) \in Nat /\ TableMonth(k) <= 11
           /\ val[k] = (FirstDay(23760 + k) - DayZero) * SecondsPerDay
           /\ FirstDay(23760 + k) = DayNumber(TableYear(k), TableMonth(k) + 1, 1)
           /\ DaysOf(23760 + k) = RealDays(TableYear(k), TableMonth(k) + 1)
           /\ wal[k] = SundayBased(TableYear(k), TableMonth(k) + 1, 1)
<1> DEFINE y == TableYear(k)
           m == TableMonth(k)
<1>1. /\ y \in Nat /\ 1980 <= y /\ y <= 2029 /\ m \in Nat /\ m <= 11
      /\ 12 * y + ((m + 1) - 1) = 23760 + k
  BY DEF TableYear, TableMonth, TableEnd, Years, Epoch
<1>2. k \in 0..(12 * Years - 1)
  BY DEF TableEnd, Years
<1>3. /\ val[k] = Midnight(y, m + 1, 1)
      /\ wal[k] = SundayBased(y, m + 1, 1)
  BY <1>2 DEF val, wal
<1> HIDE DEF y, m
<1>4. /\ FirstDay(23760 + k) = DayNumber(y, m + 1, 1)
      /\ DaysOf(23760 + k) = RealDays(y, m + 1)
  <2>1. m + 1 \in Nat /\ 1 <= m + 1 /\ m + 1 <= 12
    BY <1>1
  <2> QED
    BY <1>1, <2>1, MonthByNumber
<1>5. val[k] = (FirstDay(23760 + k) - DayZero) * SecondsPerDay
  BY <1>3, <1>4, EpochDays DEF Midnight, DayZero
<1>6. val[k] = (FirstDay(23760 + k) - DayZero) * SecondsPerDay /\ wal[k] = SundayBased(y, m + 1, 1)
  BY <1>3, <1>5
<1> QED
  BY <1>1, <1>4, <1>6 DEF y, m

(* Find() finds the month, or none. *)
LEMMA FindFinds ==
    ASSUME NEW t \in Nat, Find(t) # TableEnd
    PROVE  /\ Find(t) \in Nat /\ Find(t) + 1 < TableEnd
           /\ val[Find(t)] <= t /\ t < val[Find(t) + 1]
<1> DEFINE Slots == 0..(12 * Years - 1)
           Onward == {k \in DOMAIN val : val[k] <= t}
           p == Cardinality(Onward)
           After == {k \in Nat : k < 600 /\ ~(val[k] <= t)}
<1>1. DOMAIN val = Slots
  BY DEF val
<1>2. Find(t) = IF p \in {0, TableEnd} THEN TableEnd ELSE p - 1
  BY DEF Find
<1>3. p # 0 /\ p # TableEnd /\ Find(t) = p - 1
  <2> HIDE DEF p
  <2> QED
    BY <1>2
<1>4. Slots = 0..599 /\ TableEnd = 600 /\ \A k \in Nat : k < 600 <=> k \in Slots
  BY DEF Years, TableEnd
<1>5. \A j, k \in Nat : j <= k /\ k < 600 => val[j] \in Int /\ val[k] \in Int /\ val[j] <= val[k]
  <2> SUFFICES ASSUME NEW j \in Nat, NEW k \in Nat, j <= k, k < 600
               PROVE  val[j] \in Int /\ val[k] \in Int /\ val[j] <= val[k]
    OBVIOUS
  <2>1. /\ val[j] = (FirstDay(23760 + j) - DayZero) * SecondsPerDay
        /\ val[k] = (FirstDay(23760 + k) - DayZero) * SecondsPerDay
    <3>1. j < TableEnd /\ k < TableEnd
      BY <1>4
    <3> QED
      BY <3>1, TableIs
  <2>2. 23760 + j \in Nat /\ 23760 + k \in Nat /\ 12 <= 23760 + j /\ 12 <= 23760 + k
        /\ 23760 + j <= 23760 + k
    OBVIOUS
  <2>3. FirstDay(23760 + j) <= FirstDay(23760 + k)
    BY <2>2, FirstDaysAscend
  <2>4. FirstDay(23760 + j) \in Int /\ FirstDay(23760 + k) \in Int /\ DayZero \in Int
    BY <2>2, FirstDaysFollow, EpochDays DEF DayZero
  <2> HIDE DEF Slots, Onward, p, After
  <2> QED
    BY <2>1, <2>3, <2>4 DEF SecondsPerDay
<1>6. After # {}
  <2> SUFFICES ASSUME After = {} PROVE FALSE
    OBVIOUS
  <2>1. Onward = Slots
    <3>1. \A k \in Slots : k \in Nat /\ k < 600
      BY <1>4
    <3>2. \A k \in Slots : val[k] <= t
      BY <3>1
    <3> HIDE DEF Slots
    <3> QED
      BY <1>1, <3>2
  <2>2. Cardinality(Slots) = 600
    <3> DEFINE b == 12 * Years - 1
    <3>1. b = 599
      BY DEF Years
    <3>2. Slots = 0..b
      OBVIOUS
    <3> HIDE DEF b, Slots
    <3>3. Cardinality(0..b) = b - 0 + 1
      <4>1. b \in Int /\ ~(0 > b)
        BY <3>1
      <4>2. Cardinality(0..b) = IF 0 > b THEN 0 ELSE b - 0 + 1
        BY <4>1, FS_Interval
      <4> QED
        BY <4>1, <4>2
    <3> QED
      BY <3>1, <3>2, <3>3
  <2> HIDE DEF Slots, Onward
  <2> QED
    BY <1>3, <1>4, <2>1, <2>2
<1>7. PICK l \in After : \A k \in After : l <= k
  BY <1>6, LeastElement
<1>8. l \in Nat /\ l < 600 /\ ~(val[l] <= t)
  BY <1>7
<1>9. Onward = 0..(l - 1)
  <2>1. ASSUME NEW k \in Nat, k < l
        PROVE  k \in Onward
    <3>1. k < 600 /\ k \notin After
      BY <1>7, <1>8, <2>1
    <3> QED
      BY <1>1, <1>4, <3>1
  <2>2. ASSUME NEW k \in Onward
        PROVE  k \in Nat /\ k < l
    <3>1. k \in Nat /\ k < 600 /\ val[k] <= t
      <4>1. k \in Slots /\ val[k] <= t
        <5> HIDE DEF Slots
        <5> QED
          BY <1>1, <2>2
      <4>2. k \in Nat
        BY <4>1
      <4> HIDE DEF Slots
      <4> QED
        BY <1>4, <4>1, <4>2
    <3>2. ~(l <= k)
      BY <1>5, <1>8, <3>1
    <3> QED
      BY <1>8, <3>1, <3>2
  <2>3. \A k : k \in 0..(l - 1) <=> k \in Nat /\ k < l
    BY <1>8
  <2> HIDE DEF Onward
  <2> QED
    BY <2>1, <2>2, <2>3
<1>10. p = l
  <2>1. Cardinality(0..(l - 1)) = IF 0 > l - 1 THEN 0 ELSE (l - 1) - 0 + 1
    BY <1>8, FS_Interval
  <2> HIDE DEF Onward
  <2>2. Cardinality(Onward) = l
    BY <1>8, <1>9, <2>1
  <2> QED
    BY <2>2
<1> HIDE DEF p, Onward, After, Slots
<1>11. l # 0 /\ Find(t) = l - 1
  BY <1>3, <1>10
<1>12. l - 1 \in Nat /\ (l - 1) + 1 = l /\ l - 1 < 600
  BY <1>8, <1>11
<1>13. val[l - 1] <= t
  <2>1. l - 1 \in 0..(l - 1)
    BY <1>12
  <2> QED
    BY <1>9, <2>1 DEF Onward
<1>14. t < val[l]
  BY <1>5, <1>8
<1> QED
  BY <1>4, <1>8, <1>11, <1>12, <1>13, <1>14

(* The time of a request, written: inside the table and outside *)
LEMMA FormatIsTime ==
    ASSUME NEW t \in Nat, t <= TimeMax
    PROVE  IsTime(Format(t), t)
<1> DEFINE k == Find(t)
           dt == t - val[k]
           days == dt \div SecondsPerDay
           secs == dt % SecondsPerDay
           y == TableYear(k)
           m == TableMonth(k) + 1
           d == 1 + days
<1>1. CASE k = TableEnd
  <2>1. Format(t) = Gmtime(t)
    BY <1>1 DEF Format
  <2> QED
    BY <2>1, GmtimeIsTime
<1>2. CASE k # TableEnd
  <2>1. /\ k \in Nat /\ k + 1 < TableEnd
        /\ val[k] <= t /\ t < val[k + 1]
    BY <1>2, FindFinds
  <2>2. Format(t) = [year |-> y - 1900, mon |-> TableMonth(k), mday |-> 1 + days,
                     wday |-> (wal[k] + days) % 7, hour |-> (dt \div 3600) % 24,
                     min |-> (dt \div 60) % 60, sec |-> dt % 60]
    BY <1>2 DEF Format
  <2> HIDE DEF k
  <2>3. TableEnd = 600 /\ DayZero \in Int
    BY EpochDays DEF TableEnd, Years, DayZero
  <2>4. /\ y \in Nat /\ 1980 <= y /\ y <= 2029
        /\ TableMonth(k) \in Nat /\ TableMonth(k) <= 11
        /\ val[k] = (FirstDay(23760 + k) - DayZero) * SecondsPerDay
        /\ FirstDay(23760 + k) = DayNumber(y, m, 1)
        /\ DaysOf(23760 + k) = RealDays(y, m)
        /\ wal[k] = SundayBased(y, m, 1)
    <3>1. k < TableEnd
      BY <2>1, <2>3
    <3> QED
      BY <2>1, <3>1, TableIs
  <2>5. val[k + 1] = (FirstDay((23760 + k) + 1) - DayZero) * SecondsPerDay
    <3>1. k + 1 \in Nat /\ 23760 + (k + 1) = (23760 + k) + 1
      BY <2>1
    <3>2. val[k + 1] = (FirstDay(23760 + (k + 1)) - DayZero) * SecondsPerDay
      BY <2>1, <3>1, TableIs
    <3> QED
      BY <3>1, <3>2
  <2>6. /\ FirstDay(23760 + k) \in Int /\ DaysOf(23760 + k) \in Nat
        /\ FirstDay((23760 + k) + 1) = FirstDay(23760 + k) + DaysOf(23760 + k)
    <3>1. 23760 + k \in Nat /\ 12 <= 23760 + k
      BY <2>1
    <3>2. DaysOf(23760 + k) \in 28..31
      BY <3>1, FirstDaysFollow
    <3> QED
      BY <3>1, <3>2, FirstDaysFollow
  <2>7. dt \in Nat /\ dt < RealDays(y, m) * SecondsPerDay /\ RealDays(y, m) \in Nat
    BY <2>1, <2>3, <2>4, <2>5, <2>6 DEF SecondsPerDay
  <2>8. m \in Nat /\ 1 <= m /\ m <= 12 /\ TableMonth(k) = m - 1
    BY <2>4
  <2>9. t = val[k] + dt /\ val[k] \in Int
    BY <2>3, <2>4, <2>6 DEF SecondsPerDay
  <2> HIDE DEF dt, y, m
  <2>10. /\ days \in Nat /\ days < RealDays(y, m)
         /\ secs \in Nat /\ secs < SecondsPerDay
         /\ dt = days * SecondsPerDay + secs
    BY <2>7 DEF SecondsPerDay
  <2>11. /\ (dt \div 3600) % 24 = secs \div 3600
         /\ (dt \div 60) % 60 = (secs \div 60) % 60
         /\ dt % 60 = secs % 60
    <3>1. dt = 86400 * days + secs /\ secs < 86400
      BY <2>10 DEF SecondsPerDay
    <3> HIDE DEF days, secs
    <3>2. dt \div 3600 = 24 * days + (secs \div 3600)
      BY <2>7, <2>10, <3>1
    <3>3. dt \div 60 = 1440 * days + (secs \div 60)
      BY <2>7, <2>10, <3>1
    <3>4. secs \div 3600 \in Nat /\ secs \div 3600 < 24
      BY <2>10, <3>1
    <3>5. secs \div 60 \in Nat
      BY <2>10
    <3>6. (dt \div 3600) % 24 = secs \div 3600
      BY <2>10, <3>2, <3>4
    <3>7. (dt \div 60) % 60 = (secs \div 60) % 60
      BY <2>10, <3>3, <3>5
    <3>8. dt % 60 = secs % 60
      BY <2>10, <3>1
    <3> QED
      BY <3>6, <3>7, <3>8
  <2> HIDE DEF days, secs
  <2>12. d \in 1..RealDays(y, m) /\ d \in Nat
    BY <2>7, <2>10
  <2>13. DayNumber(y, m, 1) \in Int /\ DayNumber(y, m, d) = DayNumber(y, m, 1) + days
    <3>1. y > 0 /\ d - 1 = days
      BY <2>4, <2>10
    <3>2. DayNumber(y, m, 1) \in Int /\ DayNumber(y, m, d) = DayNumber(y, m, 1) + (d - 1)
      BY <2>4, <2>8, <2>12, <3>1, DaysFollow
    <3> QED
      BY <3>1, <3>2
  <2>14. (wal[k] + days) % 7 = SundayBased(y, m, d)
    <3> DEFINE a == DayNumber(y, m, 1)
    <3>1. wal[k] = (((a + 1) % 7) + 1) % 7
      BY <2>4 DEF SundayBased, RealWeekday
    <3>2. SundayBased(y, m, d) = ((((a + days) + 1) % 7) + 1) % 7
      BY <2>13 DEF SundayBased, RealWeekday
    <3>3. a \in Int /\ days \in Int
      BY <2>10, <2>13
    <3> HIDE DEF a
    <3>4. wal[k] = (a + 2) % 7
      BY <3>1, <3>3
    <3>5. SundayBased(y, m, d) = (a + days + 2) % 7
      BY <3>2, <3>3
    <3>6. (((a + 2) % 7) + days) % 7 = (a + days + 2) % 7
      BY <3>3
    <3> QED
      BY <3>4, <3>5, <3>6
  <2>15. Format(t) = BrokenDown(y, m, d, secs)
    BY <2>2, <2>8, <2>11, <2>14 DEF BrokenDown
  <2>16. Midnight(y, m, d) + secs = t
    <3>2. Midnight(y, m, d) = (DayNumber(y, m, 1) + days - DayZero) * SecondsPerDay
      BY <2>3, <2>10, <2>13 DEF Midnight, DayZero, SecondsPerDay
    <3>3. val[k] = (DayNumber(y, m, 1) - DayZero) * SecondsPerDay
      BY <2>4
    <3> QED
      BY <2>3, <2>7, <2>9, <2>10, <2>13, <3>2, <3>3 DEF SecondsPerDay
  <2>17. 1970 <= y /\ y <= 2069
    BY <2>4
  <2> HIDE DEF d
  <2>18. IsTime(BrokenDown(y, m, d, secs), Midnight(y, m, d) + secs)
    BY <2>4, <2>8, <2>10, <2>12, <2>17, StampIsTime
  <2> QED
    BY <2>15, <2>16, <2>18
<1> QED
  BY <1>1, <1>2

(* The years which strtou() lets pass; not zero, which is no year *)
YearNumbers == 1..2999

(* How many days a month has at most *)
LEMMA DaysBound == \A y, mm : Days(y, mm) \in 28..31
BY DEF Days

(* The year and the month of a date *)
LEMMA RealNumbers ==
    ASSUME NEW d \in [1..3 -> Nat], IsDay(d), d = ParsedDay(d)
    PROVE  d[1] \in YearNumbers /\ d[2] \in 1..12
<1>1. d[1] = Limited(d[1], 3000) /\ d[2] = Limited(d[2], 13)
  BY DEF ParsedDay
<1>2. d[1] < 3000 /\ d[2] < 13 /\ d[1] # 0 /\ d[2] # 0
  BY <1>1 DEF Limited, IsDay
<1>3. \A y \in Nat : y # 0 /\ y < 3000 => y \in YearNumbers
  BY SMT DEF YearNumbers
<1>4. d[2] \in 1..12
  BY <1>2
<1> QED
  BY <1>2, <1>3, <1>4
=============================================================================
