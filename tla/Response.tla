------------------------------ MODULE Response ------------------------------
(***************************************************************************)
(* One HTTP response on its way into a nonblocking socket: the headers and *)
(* the entity, each drained stepwise through a filter into the Backlog,    *)
(* which keeps what the socket does not accept (response.h, backlog.cc,    *)
(* filter.h, entity/).                                                     *)
(*                                                                         *)
(* The octets of a response are numbered from 1 in the order the client    *)
(* should see them; the headers are octets 1..Header.  The state of the    *)
(* C++ object is the record resp, and Tick(r, room) is Response::tick(fd)  *)
(* on a socket with room for that many octets.  The specification at the   *)
(* end lets an arbitrary caller tick; Session.tla has the real one.        *)
(***************************************************************************)
EXTENDS Naturals, Sequences

CONSTANTS
    Header,    \* octets in the rendered headers
    MaxChunk,  \* most octets consumed by one tick (8192)
    MaxSend,   \* most octets given to one sendfile(2) (40960)
    Entities,  \* the entities considered, see IsEntity
    MaxRoom    \* most octets the socket accepts in one write

(***************************************************************************)
(* What is to be sent.  "None" is a Redirect (headers only), "Text" an     *)
(* Error, "File" a File or ErrorPage, "Image" a JPEG sent with sendfile(2) *)
(* and "Page" generated HTML.  size is in octets, or in pieces for a Page; *)
(* real is what read(2) or sendfile(2) will find, less than the size from  *)
(* fstat(2) when the file has shrunk.  Only a Page can use chunked coding. *)
(***************************************************************************)
Kinds == {"None", "Text", "File", "Image", "Page"}

IsEntity(e) ==
    /\ e \in [kind : Kinds, size : Nat, real : Nat, chunked : BOOLEAN]
    /\ e.real <= e.size
    /\ e.kind = "None" => e.size = 0
    /\ e.kind \in {"Text", "Page"} => e.size > 0 /\ e.real = e.size
    /\ e.chunked => e.kind = "Page"

ASSUME HeaderAssumption == Header \in Nat \ {0}
ASSUME ChunkAssumption == MaxChunk \in Nat \ {0} /\ Header <= MaxChunk
ASSUME SendAssumption == MaxSend \in Nat \ {0}
ASSUME RoomAssumption == MaxRoom \in Nat
ASSUME EntityAssumption == \A e \in Entities : IsEntity(e)

Lesser(a, b) == IF a < b THEN a ELSE b

-----------------------------------------------------------------------------
(* The octets i+1 .. j of the response. *)
Octets(i, j) == [k \in 1..(j - i) |-> i + k]

(***************************************************************************)
(* Octets on the wire for the first n units of an entity.  One piece of a  *)
(* Page is one octet; Filter::Chunked adds two for the chunk size and one  *)
(* for the CRLF, and one for the zero chunk which ends the last write_end. *)
(***************************************************************************)
BodyWire(e, n) ==
    IF e.chunked THEN 4 * n + (IF n = e.size THEN 1 ELSE 0) ELSE n

HeadersDone(r) == r.blob = 0
BodyDone(r) == r.n = r.entity.size

(* Faulty: done when what is left of the entity fits in one chunk. *)
IsDoneEarly(r) == HeadersDone(r) /\ r.n + MaxChunk >= r.entity.size

(* What tick() leaves in done: of the headers only for a Redirect. *)
IsDone(r) == IF r.entity.kind = "None" THEN HeadersDone(r) ELSE BodyDone(r)

(* Octets which have left the headers and the entity so far, and in all. *)
Produced(r) == (Header - r.blob) + BodyWire(r.entity, r.n)
Total(e) == Header + BodyWire(e, e.size)
Promised(r) == Octets(0, Total(r.entity))

New(e) == [entity |-> e, blob |-> Header, n |-> 0, v |-> <<>>, done |-> FALSE]

-----------------------------------------------------------------------------
(* Faulty: n is not reset, and counted against all blobs which are left. *)
LeftKept(n, blob) == IF Len(blob) <= n THEN n - Len(blob) ELSE n

(***************************************************************************)
(* A turn of the loop in salvage(), when n octets of this blob and those   *)
(* behind it were written: what is kept of it, and n for the next turn.    *)
(***************************************************************************)
Salvaged(n, blob) == SubSeq(blob, n + 1, Len(blob))
Left(n, blob) == IF Len(blob) <= n THEN n - Len(blob) ELSE 0

(***************************************************************************)
(* The three blobs which a filter gives to the Backlog: for a chunk its    *)
(* size, the text and what ends it, and otherwise only one.                *)
(***************************************************************************)
Cut(r, next, k) ==
    IF r.entity.chunked /\ HeadersDone(r) THEN Lesser(Produced(r) + k, Produced(next))
    ELSE Produced(next)

Blob1(r, next) == Octets(Produced(r), Cut(r, next, 2))
Blob2(r, next) == Octets(Cut(r, next, 2), Cut(r, next, 3))
Blob3(r, next) == Octets(Cut(r, next, 3), Produced(next))

(***************************************************************************)
(* Backlog::write(): the backlog followed by what is new since r, of which *)
(* the socket takes acc octets and salvage() keeps the rest.  EAGAIN is    *)
(* the case of no room at all, and a blob fewer the same as an empty one.  *)
(***************************************************************************)
Write(r, next, room) ==
    LET new == Octets(Produced(r), Produced(next))
        acc == Lesser(room, Len(r.v) + Len(new))
        n1  == Left(acc, r.v)
        n2  == Left(n1, Blob1(r, next))
        n3  == Left(n2, Blob2(r, next))
    IN  [resp |-> [next EXCEPT !.v =
                      Salvaged(acc, r.v) \o Salvaged(n1, Blob1(r, next))
                      \o Salvaged(n2, Blob2(r, next)) \o Salvaged(n3, Blob3(r, next))],
         sent |-> SubSeq(r.v \o new, 1, acc)]

(* An empty backlog is the filters' true: "you may continue writing". *)
Filtered(w) == [resp |-> w.resp, sent |-> w.sent, ret |-> w.resp.v = <<>>]

(* Faulty: the backlog is written but not consumed. *)
DrainUnconsumed(r, room) ==
    LET w == Write(r, r, room)
    IN  [resp |-> r, sent |-> w.sent, ret |-> w.resp.v # <<>>]

(* return backlog.write(fd), the octets left, from a function of type bool *)
DrainTick(r, room) ==
    LET w == Write(r, r, room)
    IN  [resp |-> w.resp, sent |-> w.sent, ret |-> w.resp.v # <<>>]

(* Headers::tick() *)
HeadersTick(r, room) ==
    Filtered(Write(r, [r EXCEPT !.blob = @ - Lesser(MaxChunk, @)], room))

(* Faulty: whole chunks, also at the end of the entity. *)
BodyTickUnbounded(r, room) ==
    Filtered(Write(r, [r EXCEPT !.n = @ + MaxChunk], room))

(* String::tick(), File::tick(), Generated::tick() *)
BodyTick(r, room) ==
    LET len == IF r.entity.kind = "Page" THEN 1
               ELSE Lesser(MaxChunk, r.entity.size - r.n)
    IN  Filtered(Write(r, [r EXCEPT !.n = @ + len], room))

(* SendFile::tick(), which passes the backlog by *)
SendFileTick(r, room) ==
    LET len  == Lesser(MaxSend, r.entity.size - r.n)
        wlen == Lesser(room, Lesser(len, r.entity.real - r.n))
        next == [r EXCEPT !.n = @ + wlen]
    IN  [resp |-> next, sent |-> Octets(Produced(r), Produced(next)),
         ret |-> wlen = len]

(***************************************************************************)
(* Response::tick(): response::tick() picks one of backlog, headers, body; *)
(* then done is updated, whatever is in the backlog.                       *)
(***************************************************************************)
Tick(r, room) ==
    LET update(q) == [q EXCEPT !.done = IsDone(q)]
        o == CASE r.v # <<>>               -> DrainTick(r, room)
               [] r.v = <<>> /\ ~HeadersDone(r) -> HeadersTick(r, room)
               [] OTHER                    -> IF r.entity.kind = "Image"
                                              THEN SendFileTick(r, room)
                                              ELSE BodyTick(r, room)
    IN  [o EXCEPT !.resp = update(@)]

InBody(r) == r.v = <<>> /\ HeadersDone(r)

(* assert(!body.done()), or assert(!headers.done()) for a Redirect *)
AssertFails(r) == InBody(r) /\ IsDone(r)

(* A short read, or a sendfile(2) which found the socket full. *)
EntityFails(r, room) ==
    /\ InBody(r)
    /\ ~IsDone(r)
    /\ \/ /\ r.entity.kind = "File"
          /\ r.entity.real < r.n + Lesser(MaxChunk, r.entity.size - r.n)
       \/ /\ r.entity.kind = "Image"
          /\ room = 0
          /\ r.n < r.entity.real

-----------------------------------------------------------------------------
VARIABLES
    resp,  \* the Response
    wire,  \* octets the socket has accepted
    ret,   \* what the last tick() returned
    fate   \* "live", or how tick() ended without returning

vars == <<resp, wire, ret, fate>>

Init ==
    /\ \E e \in Entities : resp = New(e)
    /\ wire = <<>>
    /\ ret = TRUE
    /\ fate = "live"

TickReturns ==
    /\ fate = "live"
    /\ ~AssertFails(resp)
    /\ \E room \in 0..MaxRoom :
          /\ ~EntityFails(resp, room)
          /\ LET o == Tick(resp, room) IN
                /\ resp' = o.resp
                /\ wire' = wire \o o.sent
                /\ ret' = o.ret
    /\ UNCHANGED fate

TickAsserts ==
    /\ fate = "live"
    /\ AssertFails(resp)
    /\ fate' = "assert"
    /\ UNCHANGED <<resp, wire, ret>>

TickThrowsEntity ==
    /\ fate = "live"
    /\ \E room \in 0..MaxRoom : EntityFails(resp, room)
    /\ fate' = "entity"
    /\ UNCHANGED <<resp, wire, ret>>

(* The peer is gone.  writev(2) had the backlog swapped out by then. *)
TickThrowsWrite ==
    /\ fate = "live"
    /\ ~AssertFails(resp)
    /\ fate' = IF InBody(resp) /\ resp.entity.kind = "Image"
               THEN "entity" ELSE "write"
    /\ resp' = [resp EXCEPT !.v = <<>>]
    /\ UNCHANGED <<wire, ret>>

Next == TickReturns \/ TickAsserts \/ TickThrowsEntity \/ TickThrowsWrite

Spec == Init /\ [][Next]_vars

-----------------------------------------------------------------------------
IsResponse(r) ==
    /\ r \in [entity : [kind : Kinds, size : Nat, real : Nat, chunked : BOOLEAN],
              blob : 0..Header, n : Nat, v : Seq(Nat), done : BOOLEAN]
    /\ IsEntity(r.entity)
    /\ r.n <= r.entity.real
    /\ ~HeadersDone(r) => r.blob = Header /\ r.n = 0

TypeOK ==
    /\ IsResponse(resp)
    /\ wire \in Seq(Nat)
    /\ ret \in BOOLEAN
    /\ fate \in {"live", "assert", "entity", "write"}

(***************************************************************************)
(* Nothing the headers and the entity have produced is lost, repeated or   *)
(* reordered: the socket's octets followed by the backlog are exactly the  *)
(* response so far, although headers and entity have filters of their own  *)
(* over one backlog, and sendfile(2) goes round it.                        *)
(***************************************************************************)
NothingLost == fate # "write" => wire \o resp.v = Octets(0, Produced(resp))

(***************************************************************************)
(* However the response ends, what the client was sent is a beginning of   *)
(* the response, never more than it promised in its headers.               *)
(***************************************************************************)
SentIsPrefix ==
    /\ Len(wire) <= Total(resp.entity)
    /\ wire = Octets(0, Len(wire))

(***************************************************************************)
(* A response which says it is done has produced all of itself: all that   *)
(* can still be missing from the wire is the backlog.                      *)
(***************************************************************************)
DoneButForBacklog ==
    resp.done /\ fate # "write" => wire \o resp.v = Promised(resp)
=============================================================================
