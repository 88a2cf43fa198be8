-------------------------------- MODULE Uri ---------------------------------
(***************************************************************************)
(* class Uri and match() (uri.h, uri.cc): a Request-URI "/a/b/c" as a few  *)
(* segments between slashes, with percent-encoding hidden from the caller. *)
(*                                                                         *)
(* A text is a sequence of Words and Numbers, a Number being its value and *)
(* how many digits it is written with.  An URI is a sequence of marks: a   *)
(* Word or Number as it is (Lit) or with some of its characters encoded    *)
(* (Esc), or Bad, a "%" without two hexadecimal digits, together with what *)
(* eat() takes for them.  Slash is the separator; Esc(Word("/")) is not.   *)
(***************************************************************************)
EXTENDS Naturals, Sequences, FiniteSets, SequencesExt, Lists

Word(s) == <<"word", s>>
Number(n, digits) == <<"number", n, digits>>

Lit(x) == <<"lit", x>>
Esc(x) == <<"esc", x>>
Bad == <<"bad">>
Slash == Lit(Word("/"))

(***************************************************************************)
(* What may be read in a request: as in the index files, numbers are       *)
(* numbers.  Its lines are no longer than an unsigned short can count.     *)
(***************************************************************************)
MaxLine == 65535
PossibleTexts ==
    ({"word"} \X STRING)
    \cup {x \in {"number"} \X Nat \X (0..MaxLine) : x[2] < 10^x[3]}
PossibleMarks == ({"lit", "esc"} \X PossibleTexts) \cup {Bad}

(* eat(): the character, or NUL for Bad *)
Eaten(mark) == IF mark = Bad THEN Word("NUL") ELSE mark[2]

(* The text of a mark as it stands *)
Verbatim(mark) == IF mark[1] = "lit" THEN mark[2] ELSE Word("%")

(* eq_percent(), eq(): do the marks spell this text, decoded or as they stand? *)
EqPercent(text, marks) == text = [i \in DOMAIN marks |-> Eaten(marks[i])]
Eq(text, marks) == text = [i \in DOMAIN marks |-> Verbatim(marks[i])]

-----------------------------------------------------------------------------
(* std::array<unsigned, 5> v *)
MaxPositions == 5

(* Faulty: encoded slashes separate segments too. *)
PositionsDecoded(uri) ==
    Places(uri, {i \in DOMAIN uri : Eaten(uri[i]) = Word("/")})
        \o <<Len(uri) + 1>>

(* What std::find() gives, one time after the other *)
AllPositions(uri) ==
    Places(uri, {i \in DOMAIN uri : uri[i] = Slash})
        \o <<Len(uri) + 1>>

(* Uri::Uri(): the slashes and the end, as far as there is room *)
Positions(uri) ==
    LET all == AllPositions(uri)
    IN  SubSeq(all, 1, IF Len(all) < MaxPositions THEN Len(all) ELSE MaxPositions)

(* Uri::segments() *)
Segments(uri, n) == n + 1 = Len(Positions(uri))

(* The marks of segment n, counted from 0 *)
Raw(uri, n) ==
    LET p == Positions(uri) IN SubSeq(uri, p[n + 1] + 1, p[n + 2] - 1)

HasSegment(uri, n) == n + 1 < Len(Positions(uri))

(* Uri::decode() *)
Decode(marks) == [i \in DOMAIN marks |-> Eaten(marks[i])]

(* Uri::percent *)
Percent(uri) == \E i \in DOMAIN uri : uri[i][1] # "lit"

(* Uri::segment(): is segment n this text? *)
Segment(uri, text, n) ==
    /\ HasSegment(uri, n)
    /\ IF Percent(uri) THEN EqPercent(text, Raw(uri, n)) ELSE Eq(text, Raw(uri, n))

(* Uri::nil(): what a T is made of, if there is nothing *)
Nil == <<>>

(* Uri::make(): what the T of segment n is made of *)
Make(uri, n) ==
    CASE ~HasSegment(uri, n) -> Nil
      [] HasSegment(uri, n) /\ Percent(uri)  -> Decode(Raw(uri, n))
      [] HasSegment(uri, n) /\ ~Percent(uri) ->
            [i \in DOMAIN Raw(uri, n) |-> Verbatim(Raw(uri, n)[i])]

-----------------------------------------------------------------------------
(* match<T>(uri), match<T>(uri, a): the text of the T *)
The(uri) == IF Segments(uri, 1) THEN Make(uri, 0) ELSE Nil

TheUnder(uri, a) ==
    IF Segments(uri, 2) /\ Segment(uri, a, 0) THEN Make(uri, 1) ELSE Nil

(* match<bool>(uri, a), match<bool>(uri, a, b) *)
Is(uri, a) == Segments(uri, 1) /\ Segment(uri, a, 0)
IsUnder(uri, a, b) == Segments(uri, 2) /\ Segment(uri, a, 0) /\ Segment(uri, b, 1)

(* match<A, B>(uri), before the A and the B are tested *)
ThePair(uri) ==
    IF Segments(uri, 2) THEN <<Make(uri, 0), Make(uri, 1)>> ELSE <<Nil, Nil>>

-----------------------------------------------------------------------------
(***************************************************************************)
(* The same, said without positions: the segments of an URI, decoded.  What*)
(* is before the first slash belongs to no segment.                        *)
(***************************************************************************)
Split(uri) ==
    LET step(s, mark) ==
            CASE mark = Slash -> Append(s, <<>>)
              [] mark # Slash /\ s = <<>> -> s
              [] OTHER -> [s EXCEPT ![Len(s)] = Append(@, Eaten(mark))]
    IN  FoldLeft(step, <<>>, uri)
=============================================================================
