----------------------------- MODULE TextReader -----------------------------
(***************************************************************************)
(* Reading lines from a nonblocking socket into a fixed-size buffer        *)
(* (textread.cc), used as Session::read() does: feed() once, then read()   *)
(* until it returns 0.                                                     *)
(*                                                                         *)
(* Pointers are offsets: the buffer is 0..Size-1, a is a_-p_, and held is  *)
(* what lies in [a_, b_).                                                  *)
(***************************************************************************)
EXTENDS Naturals, Sequences

CONSTANTS
    Octet,    \* what the stream is made of
    EndLine,  \* endline_
    Size,     \* of buf (8000)
    Streams   \* what the peer may send

ASSUME SizeAssumption == Size \in Nat \ {0}
ASSUME EndLineAssumption == EndLine \in Seq(Octet) /\ EndLine # <<>>
ASSUME StreamAssumption == Streams \subseteq Seq(Octet)

VARIABLES
    stream,    \* octets the peer has yet to send, or still in the socket
    received,  \* octets recv(2) has returned
    a,         \* where in the buffer held starts
    held,      \* octets in the buffer
    eof,       \* eof_
    given,     \* octets read() has returned
    last,      \* the latest line read() has returned
    pc         \* "feed" or "read", what the caller does next

vars == <<stream, received, a, held, eof, given, last, pc>>

b == a + Len(held)

Init ==
    /\ stream \in Streams
    /\ received = <<>>
    /\ a = 0
    /\ held = <<>>
    /\ eof = FALSE
    /\ given = <<>> /\ last = <<>>
    /\ pc = "feed"

-----------------------------------------------------------------------------
(* The endline marker is found at octet i, the first such (std::search) *)
At(s, i) == /\ i \in 1..(Len(s) - Len(EndLine) + 1)
            /\ SubSeq(s, i, i + Len(EndLine) - 1) = EndLine

(* Faulty: some endline, not the first *)
FoundAny(s, i) == At(s, i)

FoundAt(s, i) == At(s, i) /\ \A j \in 1..(i - 1) : ~At(s, j)
NotFound(s) == \A i \in 1..Len(s) : ~At(s, i)

-----------------------------------------------------------------------------
(* Faulty: recv(2) is given the size of the whole buffer. *)
roomForAll == Size

(***************************************************************************)
(* feed(): move what is held to the front, then call recv(2) once.         *)
(***************************************************************************)
room == Size - Len(held)

FeedOctets ==
    /\ pc = "feed"
    /\ \E n \in 1..room :
          /\ n <= Len(stream)
          /\ held' = held \o SubSeq(stream, 1, n)
          /\ received' = received \o SubSeq(stream, 1, n)
          /\ stream' = SubSeq(stream, n + 1, Len(stream))
    /\ a' = 0
    /\ pc' = "read"
    /\ UNCHANGED <<eof, given, last>>

(* recv(2) returns 0, when the peer is done or for lack of room; or fails *)
FeedEof ==
    /\ pc = "feed"
    /\ eof' = TRUE
    /\ a' = 0
    /\ pc' = "read"
    /\ UNCHANGED <<stream, received, held, given, last>>

(* EAGAIN or EINTR *)
FeedNothing ==
    /\ pc = "feed"
    /\ a' = 0
    /\ pc' = "read"
    /\ UNCHANGED <<stream, received, held, eof, given, last>>

-----------------------------------------------------------------------------
(* Faulty: an octet too many is consumed. *)
GiveAndSkip(n) ==
    /\ last' = SubSeq(held, 1, n)
    /\ given' = given \o SubSeq(held, 1, n)
    /\ held' = SubSeq(held, n + 2, Len(held))
    /\ a' = a + n
    /\ UNCHANGED <<stream, received, eof, pc>>

(* read(): the first n octets held are the line, and the caller reads on *)
Give(n) ==
    /\ last' = SubSeq(held, 1, n)
    /\ given' = given \o SubSeq(held, 1, n)
    /\ held' = SubSeq(held, n + 1, Len(held))
    /\ a' = a + n
    /\ UNCHANGED <<stream, received, eof, pc>>

ReadLine ==
    /\ pc = "read"
    /\ \E i \in 1..Len(held) :
          /\ FoundAt(held, i)
          /\ Give(i + Len(EndLine) - 1)

(* "The last of the wine": without its endline *)
ReadRest ==
    /\ pc = "read"
    /\ NotFound(held)
    /\ eof
    /\ held # <<>>
    /\ Give(Len(held))

(* Faulty: read() gives up too soon, and never on a line which is too long. *)
ReadNothingAtAll ==
    /\ pc = "read"
    /\ pc' = "feed"
    /\ UNCHANGED <<stream, received, a, held, eof, given, last>>

(* read() returns 0, and sets eof_ if the line is too long *)
ReadNothing ==
    /\ pc = "read"
    /\ NotFound(held)
    /\ eof => held = <<>>
    /\ eof' = (eof \/ (a = 0 /\ b = Size))
    /\ pc' = "feed"
    /\ UNCHANGED <<stream, received, a, held, given, last>>

Next == FeedOctets \/ FeedEof \/ FeedNothing
        \/ ReadLine \/ ReadRest \/ ReadNothing

Spec == Init /\ [][Next]_vars

-----------------------------------------------------------------------------
TypeOK ==
    /\ stream \in Seq(Octet)
    /\ received \in Seq(Octet)
    /\ held \in Seq(Octet)
    /\ given \in Seq(Octet)
    /\ last \in Seq(Octet)
    /\ a \in 0..Size
    /\ b \in 0..Size
    /\ eof \in BOOLEAN
    /\ pc \in {"feed", "read"}

(***************************************************************************)
(* Whatever pieces recv(2) returns and however the buffer is compacted,    *)
(* the lines returned and what is held are the octets received.            *)
(***************************************************************************)
NothingLost == given \o held = received

(***************************************************************************)
(* A line has its endline at its end and nowhere else, also when the       *)
(* marker was split between two recv(2); only at EOF may it lack one.      *)
(***************************************************************************)
LinesAreExact ==
    last # <<>> =>
        /\ \A i \in 1..Len(last) :
              At(last, i) => i + Len(EndLine) - 1 = Len(last)
        /\ ~eof => ~NotFound(last)

(***************************************************************************)
(* recv(2) always gets room to write to, so that its 0 means the peer is   *)
(* done, until eof() is set: there is no loop of full-buffer reads.        *)
(***************************************************************************)
FeedHasRoom == pc = "feed" /\ ~eof => room > 0
=============================================================================
