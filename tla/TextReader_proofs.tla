------------------------- MODULE TextReader_proofs --------------------------
(***************************************************************************)
(* Proofs about TextReader: for every buffer size, every nonempty endline  *)
(* and every stream.                                                       *)
(***************************************************************************)
EXTENDS TextReader, DataLemmas

(***************************************************************************)
(* Where an endline is found, the line it ends fits what is held.          *)
(***************************************************************************)
LEMMA FoundFits ==
    ASSUME NEW s \in Seq(Octet), NEW i, FoundAt(s, i)
    PROVE  /\ i \in 1..Len(s)
           /\ i + Len(EndLine) - 1 \in 1..Len(s)
<1>1. Len(EndLine) \in Nat \ {0} /\ Len(s) \in Nat
  BY EndLineAssumption, EmptySeq, LenProperties
<1>2. i \in 1..(Len(s) - Len(EndLine) + 1)
  BY DEF FoundAt, At
<1> QED
  BY <1>1, <1>2

-----------------------------------------------------------------------------
(***************************************************************************)
(* Types: the pointers stay within the buffer.                             *)
(***************************************************************************)
LEMMA TypeInit == Init => TypeOK
<1> SUFFICES ASSUME Init PROVE TypeOK
  OBVIOUS
<1>1. <<>> \in Seq(Octet) /\ Len(<<>>) = 0
  BY EmptySeq
<1>2. stream \in Seq(Octet)
  BY StreamAssumption DEF Init
<1>3. a = 0 /\ a \in 0..Size
  BY SizeAssumption DEF Init
<1>4. b \in 0..Size
  BY <1>1, <1>3, SizeAssumption DEF Init, b
<1>5. /\ received \in Seq(Octet) /\ held \in Seq(Octet)
      /\ given \in Seq(Octet) /\ last \in Seq(Octet)
  BY <1>1 DEF Init
<1>6. eof \in BOOLEAN /\ pc \in {"feed", "read"}
  BY Zenon DEF Init
<1> QED
  BY <1>2, <1>3, <1>4, <1>5, <1>6 DEF TypeOK

LEMMA TypeNext == TypeOK /\ [Next]_vars => TypeOK'
<1> SUFFICES ASSUME TypeOK, [Next]_vars PROVE TypeOK'
  OBVIOUS
<1> USE SizeAssumption
<1>0. /\ Len(held) \in Nat
      /\ Len(stream) \in Nat
  BY LenProperties DEF TypeOK
<1>a. ASSUME NEW n \in 0..Len(held), Give(n)
      PROVE  /\ held' \in Seq(Octet) /\ given' \in Seq(Octet) /\ last' \in Seq(Octet)
             /\ a' + Len(held') = a + Len(held)
             /\ a' \in Nat
  <2>1. /\ SubSeq(held, 1, n) \in Seq(Octet)
        /\ held' \in Seq(Octet)
        /\ Len(held') = Len(held) - n
    BY <1>a, CutInTwo DEF Give, TypeOK
  <2> QED
    BY <2>1, <1>a, <1>0, ConcatProperties DEF Give, TypeOK
<1>b. ASSUME NEW n \in 0..Len(held), Give(n),
             held' \in Seq(Octet), given' \in Seq(Octet), last' \in Seq(Octet),
             a' + Len(held') = a + Len(held), a' \in Nat
      PROVE  TypeOK'
  <2>1. Len(held') \in Nat
    BY <1>b, LenProperties
  <2>2. a \in Nat /\ a + Len(held) \in 0..Size
    BY DEF TypeOK, b
  <2>3. a' \in 0..Size /\ b' \in 0..Size
    BY <2>1, <2>2, <1>0, <1>b DEF b
  <2>4. /\ stream' \in Seq(Octet) /\ received' \in Seq(Octet)
        /\ eof' \in BOOLEAN /\ pc' \in {"feed", "read"}
    BY <1>b DEF Give, TypeOK
  <2> QED
    BY <2>3, <2>4, <1>b DEF TypeOK
<1>1. CASE FeedOctets
  <2>1. PICK n \in 1..room :
            /\ n <= Len(stream)
            /\ held' = held \o SubSeq(stream, 1, n)
            /\ received' = received \o SubSeq(stream, 1, n)
            /\ stream' = SubSeq(stream, n + 1, Len(stream))
    BY <1>1 DEF FeedOctets
  <2>2. n \in 0..Len(stream) /\ n <= Size - Len(held)
    BY <2>1, <1>0 DEF room
  <2>3. /\ SubSeq(stream, 1, n) \in Seq(Octet)
        /\ Len(SubSeq(stream, 1, n)) = n
        /\ stream' \in Seq(Octet)
    BY <2>1, <2>2, CutInTwo DEF TypeOK
  <2>4. /\ held' \in Seq(Octet) /\ received' \in Seq(Octet)
        /\ Len(held') = Len(held) + n
    BY <2>1, <2>3, ConcatProperties DEF TypeOK
  <2> QED
    BY <1>1, <1>0, <2>2, <2>3, <2>4 DEF FeedOctets, TypeOK, b
<1>2. CASE FeedEof
  BY <1>2, <1>0 DEF FeedEof, TypeOK, b
<1>3. CASE FeedNothing
  BY <1>3, <1>0 DEF FeedNothing, TypeOK, b
<1>4. CASE ReadLine
  <2>1. PICK n \in 1..Len(held) : Give(n)
    BY <1>4, FoundFits DEF ReadLine, TypeOK
  <2>2. Give(n) /\ n \in 0..Len(held)
    BY <2>1, <1>0
  <2>3. /\ held' \in Seq(Octet) /\ given' \in Seq(Octet) /\ last' \in Seq(Octet)
        /\ a' + Len(held') = a + Len(held)
        /\ a' \in Nat
    BY <2>2, <1>a
  <2> QED
    BY <2>2, <2>3, <1>b
<1>5. CASE ReadRest
  <2>2. Give(Len(held)) /\ Len(held) \in 0..Len(held)
    BY <1>5, <1>0 DEF ReadRest
  <2>3. /\ held' \in Seq(Octet) /\ given' \in Seq(Octet) /\ last' \in Seq(Octet)
        /\ a' + Len(held') = a + Len(held)
        /\ a' \in Nat
    BY <2>2, <1>a
  <2> QED
    BY <2>2, <2>3, <1>b
<1>6. CASE ReadNothing
  BY <1>6 DEF ReadNothing, TypeOK, b
<1>7. CASE UNCHANGED vars
  BY <1>7 DEF vars, TypeOK, b
<1> QED
  BY <1>1, <1>2, <1>3, <1>4, <1>5, <1>6, <1>7 DEF Next

(* The pointers a_ and b_ never leave the buffer, whatever recv(2) returns. *)
THEOREM TypeCorrect == Spec => []TypeOK
<1>1. Init => TypeOK
  BY TypeInit
<1>2. TypeOK /\ [Next]_vars => TypeOK'
  BY TypeNext
<1> QED
  BY <1>1, <1>2, PTL DEF Spec

-----------------------------------------------------------------------------
(***************************************************************************)
(* The lines returned and what is held are the octets received.            *)
(***************************************************************************)
LEMMA NothingLostNext ==
    TypeOK /\ NothingLost /\ [Next]_vars => NothingLost'
<1> SUFFICES ASSUME TypeOK, NothingLost, [Next]_vars PROVE NothingLost'
  OBVIOUS
<1>1. /\ given \in Seq(Octet) /\ held \in Seq(Octet) /\ stream \in Seq(Octet)
      /\ Len(held) \in Nat /\ Len(stream) \in Nat
  BY LenProperties DEF TypeOK
<1>2. CASE FeedOctets
  <2>1. PICK n \in 1..room :
            /\ n <= Len(stream)
            /\ held' = held \o SubSeq(stream, 1, n)
            /\ received' = received \o SubSeq(stream, 1, n)
    BY <1>2 DEF FeedOctets
  <2>2. SubSeq(stream, 1, n) \in Seq(Octet)
    <3>1. n \in 0..Len(stream)
      BY <2>1, <1>1
    <3> QED
      BY <3>1, <1>1, CutInTwo
  <2>3. given \o held' = (given \o held) \o SubSeq(stream, 1, n)
    <3> DEFINE x == SubSeq(stream, 1, n)
    <3>1. x \in Seq(Octet) /\ held' = held \o x
      BY <2>1, <2>2
    <3> HIDE DEF x
    <3>2. (given \o held) \o x = given \o (held \o x)
      BY <3>1, <1>1, ConcatAssociative, SMTT(30)
    <3> QED
      BY <3>1, <3>2 DEF x
  <2> QED
    BY <2>1, <2>3, <1>2 DEF FeedOctets, NothingLost
<1>3. ASSUME NEW n \in 0..Len(held), Give(n)
      PROVE  NothingLost'
  <2>1. /\ SubSeq(held, 1, n) \in Seq(Octet)
        /\ held' \in Seq(Octet)
        /\ SubSeq(held, 1, n) \o held' = held
    BY <1>3, <1>1, CutInTwo DEF Give
  <2>2. given' \o held' = given \o (SubSeq(held, 1, n) \o held')
    <3> DEFINE x == SubSeq(held, 1, n)
    <3>1. x \in Seq(Octet) /\ held' \in Seq(Octet) /\ given' = given \o x
      BY <2>1, <1>3 DEF Give
    <3> HIDE DEF x
    <3>2. (given \o x) \o held' = given \o (x \o held')
      BY <3>1, <1>1, ConcatAssociative, SMTT(30)
    <3> QED
      BY <3>1, <3>2 DEF x
  <2> QED
    BY <2>1, <2>2, <1>3 DEF Give, NothingLost
<1>4. CASE ReadLine
  <2>1. PICK n \in 1..Len(held) : Give(n)
    BY <1>4, <1>1, FoundFits DEF ReadLine
  <2>2. n \in 0..Len(held)
    BY <1>1
  <2> QED
    BY <2>1, <2>2, <1>3
<1>5. CASE ReadRest
  <2>1. Len(held) \in 0..Len(held)
    BY <1>1
  <2> QED
    BY <1>5, <2>1, <1>3 DEF ReadRest
<1>6. CASE FeedEof \/ FeedNothing \/ ReadNothing \/ UNCHANGED vars
  BY <1>6 DEF FeedEof, FeedNothing, ReadNothing, vars, NothingLost
<1> QED
  BY <1>2, <1>4, <1>5, <1>6 DEF Next

(***************************************************************************)
(* For every buffer size and every sequence of recv(2) results, nothing is *)
(* lost, repeated or reordered between the socket and the lines read.      *)
(***************************************************************************)
THEOREM NoOctetLost == Spec => []NothingLost
<1>1. Init => NothingLost
  BY EmptySeq, ConcatEmptySeq DEF Init, NothingLost
<1> QED
  BY <1>1, NothingLostNext, TypeCorrect, PTL DEF Spec

-----------------------------------------------------------------------------
(***************************************************************************)
(* A recv(2) of no octets means the peer is done, never that the buffer    *)
(* was full, before eof() is set.  Only ReadNothing leads back to feed().  *)
(***************************************************************************)
THEOREM AlwaysRoomToFeed == Spec => []FeedHasRoom
<1>1. Init => FeedHasRoom
  BY EmptySeq, SizeAssumption DEF Init, FeedHasRoom, room
<1>2. TypeOK /\ FeedHasRoom /\ [Next]_vars => FeedHasRoom'
  <2> SUFFICES ASSUME TypeOK, FeedHasRoom, [Next]_vars PROVE FeedHasRoom'
    OBVIOUS
  <2>1. CASE ReadNothing
    <3>1. /\ held' = held
          /\ eof' = (eof \/ (a = 0 /\ b = Size))
      BY <2>1 DEF ReadNothing
    <3>2. /\ Len(held) \in Nat /\ a \in Nat
          /\ a + Len(held) \in 0..Size
      BY LenProperties DEF TypeOK, b
    <3>3. ~(a = 0 /\ b = Size) => Size - Len(held) > 0
      BY <3>2, SizeAssumption DEF b
    <3>4. ~eof' => Size - Len(held') > 0
      BY <3>1, <3>3
    <3> QED
      BY <3>4 DEF FeedHasRoom, room
  <2>2. CASE FeedOctets \/ FeedEof \/ FeedNothing
    BY <2>2 DEF FeedOctets, FeedEof, FeedNothing, FeedHasRoom
  <2>3. CASE ReadLine \/ ReadRest
    BY <2>3 DEF ReadLine, ReadRest, Give, FeedHasRoom
  <2>4. CASE UNCHANGED vars
    BY <2>4 DEF vars, FeedHasRoom, room
  <2> QED
    BY <2>1, <2>2, <2>3, <2>4 DEF Next
<1> QED
  BY <1>1, <1>2, TypeCorrect, PTL DEF Spec

-----------------------------------------------------------------------------
(***************************************************************************)
(* Cutting a sequence at the end of its first endline leaves exactly one   *)
(* endline, at the end.                                                    *)
(***************************************************************************)
LEMMA FirstLine ==
    ASSUME NEW s \in Seq(Octet), NEW i, FoundAt(s, i),
           NEW line, line = SubSeq(s, 1, i + Len(EndLine) - 1)
    PROVE  /\ \A j \in 1..Len(line) :
                  At(line, j) => j + Len(EndLine) - 1 = Len(line)
           /\ ~NotFound(line)
<1> DEFINE L == Len(EndLine)
           n == i + L - 1
<1>1. L \in Nat \ {0} /\ Len(s) \in Nat
  BY EndLineAssumption, EmptySeq, LenProperties
<1>2. /\ i \in 1..Len(s)
      /\ n \in 1..Len(s)
  BY FoundFits
<1>3. line = SubSeq(s, 1, n) /\ line \in Seq(Octet) /\ Len(line) = n
  BY <1>1, <1>2, CutInTwo
<1>4. \A j \in 1..i : SubSeq(line, j, j + L - 1) = SubSeq(s, j, j + L - 1)
  <2> TAKE j \in 1..i
  <2>1. /\ j \in 1..(n - 1 + 1)
        /\ j + L - 1 \in 1..(n - 1 + 1)
        /\ 1 \in 1..Len(s)
        /\ 1 + j - 1 = j
        /\ 1 + (j + L - 1) - 1 = j + L - 1
    BY <1>1, <1>2
  <2> HIDE DEF n, L
  <2>2. SubSeq(SubSeq(s, 1, n), j, j + L - 1)
            = SubSeq(s, 1 + j - 1, 1 + (j + L - 1) - 1)
    BY <2>1, <1>2, SubSeqOfSubSeq
  <2> QED
    BY <2>1, <2>2, <1>3
<1>5. ASSUME NEW j, At(line, j)
      PROVE  j \in 1..i /\ SubSeq(s, j, j + L - 1) = EndLine
  <2>1. j \in 1..(Len(line) - L + 1) /\ SubSeq(line, j, j + L - 1) = EndLine
    BY <1>5 DEF At
  <2>2. j \in 1..i
    BY <2>1, <1>1, <1>2, <1>3
  <2> QED
    BY <2>1, <2>2, <1>4
<1>6. ASSUME NEW j \in 1..Len(line), At(line, j)
      PROVE  j + L - 1 = Len(line)
  <2>1. j \in 1..(Len(s) - L + 1)
    BY <1>5, <1>6, <1>1, <1>2
  <2>2. At(s, j)
    BY <2>1, <1>5, <1>6 DEF At
  <2>3. ~(j \in 1..(i - 1))
    BY <2>2 DEF FoundAt
  <2>4. j = i
    BY <2>3, <1>5, <1>6, <1>1, <1>2
  <2> QED
    BY <2>4, <1>3
<1>7. At(line, i) /\ i \in 1..Len(line)
  <2>1. SubSeq(s, i, i + L - 1) = EndLine
    BY DEF FoundAt, At
  <2>2. i \in 1..i /\ i \in 1..(Len(line) - L + 1) /\ i \in 1..Len(line)
    BY <1>1, <1>2, <1>3
  <2> QED
    BY <2>1, <2>2, <1>4 DEF At
<1> QED
  BY <1>6, <1>7 DEF NotFound

(***************************************************************************)
(* However recv(2) splits the stream, also in the middle of an endline,    *)
(* each line read is one line; only at EOF may it lack its endline.        *)
(***************************************************************************)
THEOREM EveryLineIsExact == Spec => []LinesAreExact
<1>1. Init => LinesAreExact
  BY DEF Init, LinesAreExact
<1>2. TypeOK /\ LinesAreExact /\ [Next]_vars => LinesAreExact'
  <2> SUFFICES ASSUME TypeOK, LinesAreExact, [Next]_vars PROVE LinesAreExact'
    OBVIOUS
  <2>1. held \in Seq(Octet)
    BY DEF TypeOK
  <2>2. CASE ReadLine
    <3>1. PICK i : FoundAt(held, i)
                   /\ last' = SubSeq(held, 1, i + Len(EndLine) - 1)
      BY <2>2 DEF ReadLine, Give
    <3>2. /\ \A j \in 1..Len(last') :
                At(last', j) => j + Len(EndLine) - 1 = Len(last')
          /\ ~NotFound(last')
      BY <3>1, <2>1, FirstLine
    <3> QED
      BY <3>2 DEF LinesAreExact, At, NotFound
  <2>3. CASE ReadRest
    <3>1. last' = held /\ eof' /\ NotFound(held)
      <4>1. last' = SubSeq(held, 1, Len(held))
        BY <2>3 DEF ReadRest, Give
      <4>2. eof' /\ NotFound(held)
        BY <2>3 DEF ReadRest, Give
      <4> QED
        BY <4>1, <4>2, <2>1, SubSeqFull
    <3> QED
      BY <3>1 DEF LinesAreExact, NotFound, At
  <2>4. CASE FeedOctets \/ FeedEof \/ FeedNothing \/ ReadNothing \/ UNCHANGED vars
    <3>1. last' = last
      BY <2>4 DEF FeedOctets, FeedEof, FeedNothing, ReadNothing, vars
    <3>2. eof => eof'
      BY <2>4, Zenon DEF FeedOctets, FeedEof, FeedNothing, ReadNothing, vars
    <3> QED
      BY <3>1, <3>2 DEF LinesAreExact, NotFound, At
  <2> QED
    BY <2>2, <2>3, <2>4 DEF Next
<1> QED
  BY <1>1, <1>2, TypeCorrect, PTL DEF Spec
=============================================================================
