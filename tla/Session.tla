------------------------------ MODULE Session -------------------------------
(***************************************************************************)
(* A HTTP session (session.cc) on one connection: TextReader, RequestQueue,*)
(* History and the response being written, driven by epoll as loop() and   *)
(* Server::ctl() drive it, with the client and the kernel's socket buffers *)
(* running concurrently.                                                   *)
(*                                                                         *)
(* The stream of requests is modelled line by line, and a line by what it  *)
(* does to a Request.  One step is one handler call, except that write()   *)
(* is one step per turn of its loop: the socket drains while it runs.      *)
(***************************************************************************)
EXTENDS Naturals, Sequences, SequencesExt

CONSTANTS
    Header, MaxChunk, MaxSend, Entities,  \* see Response
    Scripts,      \* what clients may send: sequences of lines
    ErrorEntity,  \* the entity of an error response
    SndBuf,       \* octets in the socket's send buffer
    Garbage       \* values an uninitialised Entry.events may have

VARIABLES
    script,    \* lines the client has not yet sent
    peer,      \* "open", "shut" (will send no more) or "gone" (reset)
    inbox,     \* lines in the socket's receive queue
    unread,    \* octets in the socket's send buffer
    held,      \* an overlong line, stuck in the TextReader's buffer
    eof,       \* reader.eof()
    queue,     \* req_queue
    resp,      \* the response, or NoResponse
    wire,      \* octets of the response the socket has accepted
    current,   \* the request being answered
    close,     \* the response is the last one (HTTP/1.0)
    e,         \* History::e, odd when a response is active
    events,    \* Entry.events, what ctl() believes is registered
    interest,  \* what really is registered with epoll
    log,       \* the responses ended, an auxiliary variable
    pc         \* where the server is, see PCs

(***************************************************************************)
(* "poll" is in epoll_wait(), "write" and "again" at the first and a later *)
(* turn of the loop in write(), "dead" after Server::remove(), and the last*)
(* two are the end of the whole process, by an assertion in response::tick *)
(* or in Request::header().                                                *)
(***************************************************************************)
PCs == {"poll", "write", "again", "dead", "tick_asserts", "header_asserts"}
Up == pc \in {"poll", "write", "again"}

reading == <<inbox, held, eof>>
client == <<script, peer>>
answering == <<resp, wire, current, close>>
watched == <<events, interest>>
vars == <<script, peer, inbox, unread, held, eof, queue, resp, wire, current,
          close, e, events, interest, log, pc>>

NoResponse == [entity |-> "none"]

R == INSTANCE Response WITH ret <- TRUE, fate <- "live", MaxRoom <- SndBuf

-----------------------------------------------------------------------------
(***************************************************************************)
(* The part of a line is "field", a header; "bad", one without a colon;    *)
(* "end", the empty line; "long", one which does not fit the TextReader;   *)
(* or "first", a request line, which says if it is a GET, if it is         *)
(* HTTP/1.0, and the entity it asks for.  The id is the line's number in   *)
(* the stream; that of its first line tells a request from the others.     *)
(***************************************************************************)
Lines == [part : {"field", "bad", "end", "long"}, id : Nat]
         \cup [part : {"first"}, id : Nat, get : BOOLEAN, v10 : BOOLEAN,
               entity : Entities]

Requests == [id : Nat, get : BOOLEAN, v10 : BOOLEAN, entity : Entities,
             complete : BOOLEAN, broken : BOOLEAN]

ASSUME SizeAssumption ==
    /\ Header \in Nat \ {0} /\ MaxChunk \in Nat \ {0} /\ Header <= MaxChunk
    /\ MaxSend \in Nat \ {0}
    /\ SndBuf \in Nat
ASSUME EntityAssumption ==
    ErrorEntity \in Entities /\ \A x \in Entities : R!IsEntity(x)
ASSUME ScriptAssumption ==
    \A s \in Scripts :
        /\ s \in Seq(Lines)
        /\ \A i, j \in DOMAIN s : i < j => s[i].id < s[j].id
ASSUME GarbageAssumption == Garbage \subseteq {"READING", "WRITING"}

(* Request::first_line() in a new Request.  An overlong line is no GET. *)
Fresh(line) ==
    IF line.part = "first"
    THEN [id |-> line.id, get |-> line.get, v10 |-> line.v10,
          entity |-> line.entity, complete |-> FALSE, broken |-> FALSE]
    ELSE [id |-> line.id, get |-> FALSE, v10 |-> FALSE,
          entity |-> ErrorEntity, complete |-> FALSE, broken |-> FALSE]

(* Request::add(): plain_line(), cont_line() and end_line() *)
Grown(req, line) ==
    [req EXCEPT !.complete = line.part = "end",
                !.broken = @ \/ line.part \in {"bad", "first", "long"}]

(* RequestQueue::add() *)
Add(q, line) ==
    IF q = <<>> \/ Last(q).complete
    THEN Append(q, Fresh(line))
    ELSE [q EXCEPT ![Len(q)] = Grown(@, line)]

(* The queue after the lines which TextReader::read() finds, one by one *)
Received(q, lines) ==
    LET after[k \in 0..Len(lines)] ==
            IF k = 0 THEN q ELSE Add(after[k - 1], lines[k])
    IN  after[Len(lines)]

Complete(q) == q # <<>> /\ Head(q).complete
Broken(q) == q # <<>> /\ Head(q).broken

(***************************************************************************)
(* Content::response_of(), as far as the session is concerned.  It asserts *)
(* that a GET request is not broken.  generated() uses no chunked coding   *)
(* for HTTP/1.0.                                                           *)
(***************************************************************************)
EntityOf(req) ==
    IF ~req.get THEN ErrorEntity
    ELSE [req.entity EXCEPT !.chunked = req.entity.kind = "Page" /\ ~req.v10]

Answerable(req) == ~(req.get /\ req.broken)

-----------------------------------------------------------------------------
Init ==
    /\ script \in Scripts
    /\ peer = "open"
    /\ inbox = <<>> /\ held = <<>> /\ eof = FALSE
    /\ unread = 0
    /\ queue = <<>>
    /\ resp = NoResponse /\ wire = <<>> /\ current = 0 /\ close = FALSE
    /\ e = 0
    /\ events \in Garbage
    /\ interest = "READING"
    /\ log = <<>>
    /\ pc = "poll"

(* Faulty: ended() which leaves the response active. *)
HistoryKept(n) == n

(* History::began() and ended() *)
HistoryBegan(n) == n + 1
HistoryEnded(n) == n + 1

(* Server::ctl(): no EPOLL_CTL_MOD if the entry seems to be right already *)
Ctl(state) ==
    /\ pc' = "poll"
    /\ events' = state
    /\ interest' = IF state = events THEN interest ELSE state

(* Server::remove(), which deletes the session and closes its socket *)
Die ==
    /\ pc' = "dead"
    /\ UNCHANGED watched

(* Faulty: the latest request is answered first. *)
PopLast(q) ==
    LET req == Last(q) IN
    /\ queue' = Front(q)
    /\ close' = req.v10
    /\ current' = req.id
    /\ wire' = <<>>
    /\ resp' = IF Answerable(req) THEN R!New(EntityOf(req)) ELSE NoResponse

(***************************************************************************)
(* pop_req(), and history.began().  On a broken GET an assertion in        *)
(* Request::header() ends the process.                                     *)
(***************************************************************************)
PopReq(q) ==
    LET req == Head(q) IN
    /\ queue' = Tail(q)
    /\ close' = req.v10
    /\ current' = req.id
    /\ wire' = <<>>
    /\ resp' = IF Answerable(req) THEN R!New(EntityOf(req)) ELSE NoResponse

-----------------------------------------------------------------------------
(***************************************************************************)
(* Session::read().  What TextReader::feed() and read() find, then the     *)
(* decision.                                                               *)
(***************************************************************************)
Decide(q) ==
    \/ /\ resp # NoResponse
       /\ queue' = q
       /\ Ctl("WRITING")
       /\ UNCHANGED <<answering, e>>
    \/ /\ resp = NoResponse
       /\ Broken(q)
       /\ queue' = q
       /\ Die
       /\ UNCHANGED <<answering, e>>
    \/ /\ resp = NoResponse
       /\ ~Broken(q)
       /\ Complete(q)
       /\ PopReq(q)
       /\ e' = HistoryBegan(e)
       /\ Ctl("WRITING")
    \/ /\ resp = NoResponse
       /\ ~Broken(q)
       /\ ~Complete(q)
       /\ queue' = q
       /\ IF eof' THEN Die ELSE Ctl("READING")
       /\ UNCHANGED <<answering, e>>

(***************************************************************************)
(* recv(2) gives the first k lines, and perhaps a part of the next one.  A *)
(* line too long for the buffer fills it, and is the last one.             *)
(***************************************************************************)
ReadLines ==
    /\ pc = "poll" /\ interest = "READING"
    /\ ~eof
    /\ inbox # <<>>
    /\ \E k \in 0..Len(inbox) :
          LET long == k > 0 /\ inbox[k].part = "long"
              got  == SubSeq(inbox, 1, IF long THEN k - 1 ELSE k)
          IN  /\ \A i \in 1..(k - 1) : inbox[i].part # "long"
              /\ inbox' = SubSeq(inbox, k + 1, Len(inbox))
              /\ held' = IF long THEN <<inbox[k]>> ELSE <<>>
              /\ eof' = long
              /\ Decide(Received(queue, got))
    /\ UNCHANGED <<client, unread, log>>

(***************************************************************************)
(* recv(2) gives 0 or fails: at the end of the stream, or since there is no*)
(* room after an overlong line.  What the buffer holds is the last line,   *)
(* with or without its CRLF.                                               *)
(***************************************************************************)
ReadEof ==
    /\ pc = "poll" /\ interest = "READING"
    /\ eof' = TRUE
    /\ held' = <<>>
    /\ \/ /\ eof
          /\ inbox' = inbox
          /\ Decide(Received(queue, held))
       \/ /\ ~eof
          /\ peer # "open" /\ Len(inbox) <= 1
          /\ inbox' = <<>>
          /\ Decide(Received(queue, inbox))
    /\ UNCHANGED <<client, unread, log>>

-----------------------------------------------------------------------------
(***************************************************************************)
(* Session::write()                                                        *)
(***************************************************************************)
room == SndBuf - unread

WriteBegins ==
    /\ pc = "poll" /\ interest = "WRITING"
    /\ room > 0 \/ peer = "gone"
    /\ pc' = "write"
    /\ UNCHANGED <<client, reading, unread, queue, answering, e, watched, log>>

Endings == [id : Nat, sent : Nat, lost : Nat, total : Nat, close : BOOLEAN]
Ended(r, sent) == [id |-> current, sent |-> Len(sent), lost |-> Len(r.v),
                   total |-> R!Total(r.entity), close |-> close]

(* Faulty: the loop goes on although there is no response. *)
ReturnNever ==
    /\ pc' = "again"
    /\ UNCHANGED watched

(* The loop has no response left. *)
Return == IF eof THEN Die ELSE Ctl("READING")

(* Faulty: neither close nor the queue is looked at when a response is done. *)
ConcludeForgetful(r, sent) ==
    /\ log' = Append(log, Ended(r, sent))
    /\ resp' = NoResponse
    /\ e' = HistoryEnded(e)
    /\ Return
    /\ UNCHANGED <<queue, close, current, wire>>

(* The response is done: reset it, and go on with the next request. *)
Conclude(r, sent) ==
    /\ log' = Append(log, Ended(r, sent))
    /\ \/ /\ close
          /\ resp' = NoResponse
          /\ e' = HistoryEnded(e)
          /\ Die
          /\ UNCHANGED <<queue, close, current, wire>>
       \/ /\ ~close
          /\ Complete(queue)
          /\ PopReq(queue)
          /\ IF Answerable(Head(queue))
             THEN pc' = "again" /\ e' = HistoryBegan(HistoryEnded(e))
             ELSE pc' = "header_asserts" /\ e' = HistoryEnded(e)
          /\ UNCHANGED watched
       \/ /\ ~close
          /\ ~Complete(queue)
          /\ resp' = NoResponse
          /\ e' = HistoryEnded(e)
          /\ Return
          /\ UNCHANGED <<queue, close, current, wire>>

(* One turn of the loop, in which tick() returns. *)
WriteTick ==
    /\ pc \in {"write", "again"}
    /\ ~R!AssertFails(resp)
    /\ ~R!EntityFails(resp, room)
    /\ peer # "gone"
    /\ \E o \in {R!Tick(resp, room)} :
          LET sent == wire \o o.sent
          IN  /\ unread' = unread + Len(o.sent)
              /\ \/ /\ ~o.ret
                    /\ resp' = o.resp /\ wire' = sent
                    /\ Ctl("WRITING")
                    /\ UNCHANGED <<queue, close, current, e, log>>
                 \/ /\ o.ret /\ ~o.resp.done
                    /\ resp' = o.resp /\ wire' = sent
                    /\ pc' = "again"
                    /\ UNCHANGED <<queue, close, current, e, watched, log>>
                 \/ /\ o.ret /\ o.resp.done
                    /\ Conclude(o.resp, sent)
    /\ UNCHANGED <<client, reading>>

(* tick() throws a SessionError, which loop() catches. *)
WriteThrows ==
    /\ pc \in {"write", "again"}
    /\ ~R!AssertFails(resp)
    /\ R!EntityFails(resp, room) \/ peer = "gone"
    /\ Die
    /\ UNCHANGED <<client, reading, unread, queue, answering, e, log>>

(* An assertion in response::tick() ends the process. *)
WriteAsserts ==
    /\ pc \in {"write", "again"}
    /\ R!AssertFails(resp)
    /\ pc' = "tick_asserts"
    /\ UNCHANGED <<client, reading, unread, queue, answering, e, watched, log>>

(* Server::reconsider() found the session idle or wedged; Server.tla has when *)
Reconsider ==
    /\ pc = "poll"
    /\ Die
    /\ UNCHANGED <<client, reading, unread, queue, answering, e, log>>

-----------------------------------------------------------------------------
ClientSends ==
    /\ peer = "open" /\ Up
    /\ script # <<>>
    /\ inbox' = Append(inbox, Head(script))
    /\ script' = Tail(script)
    /\ UNCHANGED <<peer, unread, held, eof, queue, answering, e, watched, log, pc>>

ClientShuts ==
    /\ peer = "open" /\ Up
    /\ peer' = "shut"
    /\ UNCHANGED <<script, reading, unread, queue, answering, e, watched, log, pc>>

ClientResets ==
    /\ peer # "gone" /\ Up
    /\ peer' = "gone"
    /\ UNCHANGED <<script, reading, unread, queue, answering, e, watched, log, pc>>

ClientReads ==
    /\ peer # "gone"
    /\ \E k \in 1..unread : unread' = unread - k
    /\ UNCHANGED <<client, reading, queue, answering, e, watched, log, pc>>

Read == ReadLines \/ ReadEof
Write == WriteBegins \/ WriteTick \/ WriteThrows \/ WriteAsserts

Next ==
    \/ Read
    \/ Write
    \/ Reconsider
    \/ ClientSends \/ ClientShuts \/ ClientResets \/ ClientReads

Spec == Init /\ [][Next]_vars

(***************************************************************************)
(* The loop is never idle while a socket is ready: handlers are weakly     *)
(* fair.  So is one client, which keeps reading what it is sent.           *)
(***************************************************************************)
LoopSpec == Spec /\ WF_vars(Read) /\ WF_vars(Write)

FairSpec == LoopSpec /\ WF_vars(ClientReads)

-----------------------------------------------------------------------------
TypeOK ==
    /\ script \in Seq(Lines) /\ inbox \in Seq(Lines)
    /\ held \in Seq(Lines) /\ Len(held) <= 1
    /\ peer \in {"open", "shut", "gone"}
    /\ unread \in 0..SndBuf
    /\ eof \in BOOLEAN
    /\ queue \in Seq(Requests)
    /\ resp # NoResponse => R!IsResponse(resp)
    /\ wire \in Seq(Nat) /\ current \in Nat /\ close \in BOOLEAN
    /\ e \in Nat
    /\ events \in {"READING", "WRITING"} /\ interest \in {"READING", "WRITING"}
    /\ log \in Seq(Endings)
    /\ pc \in PCs
    /\ pc \in {"write", "again"} => resp # NoResponse

(***************************************************************************)
(* Octets of the response reach the socket in order, none twice and none   *)
(* left out, through any interleaving of write() and the client's reading. *)
(***************************************************************************)
CurrentIntact == resp # NoResponse => R!NothingLost /\ R!SentIsPrefix

(***************************************************************************)
(* What a concluded response did not get to the socket is what was in its  *)
(* backlog when it was destroyed, no more.                                 *)
(***************************************************************************)
LossIsBacklog ==
    \A i \in DOMAIN log : log[i].sent + log[i].lost = log[i].total

(***************************************************************************)
(* History's parity, which its assertions and the choice between idle and  *)
(* wedged rest on, follows the response through pipelining and closing.    *)
(***************************************************************************)
HistoryAgrees ==
    e = 2 * Len(log) + (IF resp # NoResponse THEN 1 ELSE 0)

(***************************************************************************)
(* A session never goes back to epoll_wait() with a complete request in    *)
(* its queue and no response: no later read would pick it up in time.      *)
(***************************************************************************)
NothingWaits == pc = "poll" /\ resp = NoResponse => ~Complete(queue)

(***************************************************************************)
(* After the response to a HTTP/1.0 request the session dies, whatever was *)
(* pipelined behind it.                                                    *)
(***************************************************************************)
CloseIsLast ==
    \A i \in DOMAIN log : log[i].close => i = Len(log) /\ pc = "dead"

(***************************************************************************)
(* The session as a Pipeline.  The requests received are those ended, the  *)
(* one being answered and the complete ones in the queue, where none but   *)
(* the last can be incomplete.                                             *)
(***************************************************************************)
Begun == [i \in DOMAIN log |-> log[i].id]
         \o (IF resp # NoResponse \/ pc = "header_asserts"
             THEN <<current>> ELSE <<>>)
CompleteOnes(q) == IF q = <<>> \/ Last(q).complete THEN Len(q) ELSE Len(q) - 1
CompleteIds == [i \in 1..CompleteOnes(queue) |-> queue[i].id]

P == INSTANCE Pipeline WITH asked <- Begun \o CompleteIds,
                            begun <- Begun,
                            ended <- Len(log),
                            up <- Up

(***************************************************************************)
(* Requests are answered in the order they came, each once and one at a    *)
(* time, however reads, pipelining and partial writes interleave.          *)
(***************************************************************************)
ImplementsPipeline == P!Spec

-----------------------------------------------------------------------------
(***************************************************************************)
(* A complete request in the queue is answered in the end, or else the     *)
(* session has ended; it is not stuck waiting for another event.  The      *)
(* exception is an image which has shrunk: it is ticked in vain until the  *)
(* audit finds the session wedged.                                         *)
(***************************************************************************)
InVain == resp # NoResponse /\ resp.entity.real < resp.entity.size

EveryRequestAnswered ==
    \A req \in UNION {Range(s) : s \in Scripts} :
        req.part = "first" =>
            (\E i \in DOMAIN CompleteIds : CompleteIds[i] = req.id)
            ~> (~Up \/ InVain \/ \E i \in DOMAIN log : log[i].id = req.id)

-----------------------------------------------------------------------------
(***************************************************************************)
(* write() returns to the event loop, also if the client stops reading:    *)
(* once some of what is written has gone to the backlog, "we must not      *)
(* continue tick()ing" (response.h:48).  No other client is served before. *)
(***************************************************************************)
WriteReturns == pc \in {"write", "again"} ~> pc \notin {"write", "again"}

(***************************************************************************)
(* Backlog, headers and body: "If none of these things can be done,        *)
(* there's a programming error" (response.h:68), which the assertion in    *)
(* response::tick() looks for.                                             *)
(***************************************************************************)
TickHasWork == pc # "tick_asserts"

(***************************************************************************)
(* A broken request "makes the whole session suspect"                      *)
(* (requestqueue.cc:31): read() ends the session, and Request::header() is *)
(* undefined for it, so it is not passed to response_of().                 *)
(***************************************************************************)
BrokenNotAnswered == pc # "header_asserts"

(***************************************************************************)
(* Server::ctl() will "Perform EPOLL_CTL_MOD(state)" (server.cc:169): what *)
(* is registered is what the session asked for.                            *)
(***************************************************************************)
RegisteredAsAsked ==
    pc = "poll" =>
        interest = IF resp # NoResponse THEN "WRITING" ELSE "READING"
=============================================================================
