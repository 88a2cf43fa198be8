# allergyd in TLA+

`allergyd` (`httpd.cc`) is a single-threaded HTTP/1.1 server for a photo album:
an epoll loop, one `Session` per connection, and responses which are generated
or read from file and written to nonblocking sockets.  These modules describe
the parts of it where things happen in an order nobody controls: partial
writes, pipelined requests, timeouts, child processes.  Line numbers refer to
the commit this directory was written for.

## The system

| Part | Source | State | Operations |
|------|--------|-------|------------|
| event loop and `Server` | `httpd.cc` 122-181, `server.cc` | the vector of entries, the epoll set, the events of one `epoll_wait(2)`, the audit's deadline | wait, accept, dispatch, ctl, remove, audit |
| `History`, `Periodic` | `sessionhistory.cc`, `times.cc` | times of begun, wrote, ended; a counter whose parity says "active" | began, wrote, ended, idle, wedged; check |
| `Session` | `session.cc` | reader, queue of requests, response, `close` | read, write, reconsider |
| `TextReader` | `textread.cc` | a buffer of 8000 octets with two pointers, `eof_` | feed, read |
| `RequestQueue`, `Request`, `Names` | `requestqueue.cc`, `request.cc`, `names.cc` | requests, the last one perhaps partial; text and 16-bit offsets | add, complete, broken, front, pop; header, request_uri; lookup |
| `Content` | `content.cc` | none (the index, the host names and three directories) | response_of, thumbnail |
| `Uri`, `Hostnames` | `uri.*`, `hostnames.cc` | positions of up to five slashes; the names allowed | segments, segment, make, match; match |
| `DateConv` | `date.*`, `dateparse.cc` | a table of the months of fifty years, constant | format, parse |
| `Response` | `response.h`, `response.cc`, `entity/`, `filter.*`, `backlog.cc` | headers, entity, backlog, `done` | tick |
| thumbnails | `allergy/thumbnail.cc` | two child processes, a pipe, a file | thumbnail |
| `Index`, `Files` | `allergy/index.*`, `entry.*`, `files...*`, `photo.*`, `timestamp.*`, `lower_bound.h` | entries, positions by keyword, the range of years; read once at startup, constant afterwards | the constructor; has, get, in, on, prev, next, key |
| `Keys`, `Calendar` | `allergy/keys.cc`, `allergy/calendar.cc` | a stack of open keys; the next day | put, report; get |
| pages | `allergy/page.cc`, `allergy/chunk.*`, `entity/generated.h` | the photos of the page, the number of pieces made | begin, put, tick |
| text utilities, log | `glob.cc`, `split.cc`, `quote.cc`, `utf8.cc`, `log.cc`, ... | none | |
| Python tools | `allergy/*.py`, `allergy/allergy*` | | an older, static generator |

The loop owns the `Server`; each entry of the server owns a socket and a
`Session`; the session owns its reader, queue and current `Response`; the
response owns its headers, entity, filters and backlog.  Calls go down this
chain.  What comes back is a `Session::State` (which is the epoll interest for
that socket), the bool from `tick()`, or a `SessionError` exception, and the
loop turns those into `EPOLL_CTL_MOD` or into removing the entry.  Nothing runs
in parallel inside the process, so what is hard is the order of things: what
`recv(2)` and `writev(2)` take at a time, what arrives while a response is
being written, which entries an event loop's iteration invalidates, when the
audit comes, and what the thumbnail children do while the server waits.  Apart
from that there are many small notations (URIs, dates, names of photos, index
files) which one part of the program writes and another one reads.

## The modules

**Response** is one response and its `tick()`.  A response is the record
`resp`: what the headers have left (`blob`), what the entity has consumed
(`n`), the backlog (`v`) and `done`.  Octets are numbered from 1 in the order
the client should get them, so that `wire` (what the socket has accepted) and
`v` can be compared with what was promised.  `Tick(r, room)` is
`Response::tick(fd)` when the socket has room for that many octets; it is
`DrainTick`, `HeadersTick`, `BodyTick` or `SendFileTick` just as
`response::tick()` chooses, with the filter's or the backlog's return value.
The assertion, a file which has become shorter, and an error on the socket are
`AssertFails`, `EntityFails` and the three actions beside `TickReturns`.
`Write` is `Backlog::write()`: the backlog and up to three blobs (`Blob1` to
`Blob3`, which is what `Filter::Chunked` makes of a piece: its size, the text,
and what ends it), of which the socket takes some octets; `Salvaged` and `Left`
are a turn of `salvage()`'s loop over them.
The text of headers and pages is abstracted to its length: two octets for the
size of a chunk, one for the text and one for what follows it, so that a write
can be cut inside each and between any two of them.

**Session** composes Response (by `R == INSTANCE Response`), RequestQueue,
what matters of TextReader, Request and History, `Server::ctl()`, the client
and the socket's send buffer, for one connection.  One step is one handler
call; `write()` is one step for each turn of its loop (`WriteTick`), since the
client can read in between.  A line of a request is modelled by what it does to
the `Request` (`Fresh`, `Grown`), and `Content::response_of()` by the kind of
entity it returns.  `events` is `Entry::events`, which no constructor sets;
`interest` is what is really registered.

**Pipeline** is what the session promises, from the comment in `session.h`:
requests are answered in the order received, one at a time, until the session
ends.  Session implements it under the mapping at the end of that module.

**Server** is the loop and the class `Server` with several sessions, each
reduced to its `History`; a handler's answers (`ReadAnswers`, `WriteAnswers`)
are those Session lets it give.  Entries, descriptors, the epoll set, the array
of events and the clock are explicit.  `accept(2)` and `epoll_ctl(2)` can fail,
and a signal can interrupt `epoll_wait(2)`.  Time is in whole seconds; it passes in
`epoll_wait(2)` and, up to `Busy` a round, in the handlers (`thumbnail()` waits for
its children), but the loop only looks at the clock when `epoll_wait(2)` returns.
That the handlers of a round end at all is assumed here; it is not so for a
`write()` which spins (`WriteReturns`, below), during which nothing else happens.

**TextReader** is the buffer: `feed()` as three actions (octets, EOF or error,
nothing), `read()` as three (a line, the last of the wine, nothing).  Pointers
are offsets.

**Request** is the parser's bookkeeping: the text vector, the properties with
their narrow offsets, continuation lines, repeated fields, and `Names::lookup()`,
for which a name is the property it spells and in what case.  `fields` is an
auxiliary variable: what the lines said, without offsets or lookups.

**Thumbnail** is `Content::thumbnail()` and `allergy::thumbnail()` with the two
children as processes of their own, the pipe, who holds which end of it, and
the file.

**Keys** and **Calendar** are algorithms: `TextStack::put()` folded over a text
of tokens, and `Calendar::get()` called until the months are over.  Below each
is what it should amount to, said in another way: keys by bracket depth and
position, weeks by the Gregorian rules and day numbers.

**Album** is the life of `Index`: `ReadLine` is one turn of the constructor's
loop, including `Files::getline()` with its `first()`, `EndOfFiles` what follows
the loop (sort, weed, invert, years).  A line is a record of what it can be read
as, since the same line may be tried as a file name, a timestamp or a text.
The lookups are operators over the finished index, all by the binary search of
`lower_bound.h`.

**Pages** EXTENDS Album with a page which is being generated: `Open` constructs
it and its `Chunk`, `Tick` is `Generated::tick()`.  A page is a sequence of items
(a row, a week, a thumbnail, a keyword, a link), and `body` is what the client has
got.  How the pieces travel is Response's matter.

**Uri** is class `Uri` and the `match()` functions: an URI is a sequence of marks,
each a word or a number, as it stands or with escapes, or an escape which is
broken; a slash is a mark like others, so that an encoded one is told from one
which separates.  `Split` is what the segments should be, by a fold instead of
positions.  **Dates** is the table and `DateConv`; a date is its fields and form.
`gmtime_r(3)` and `timegm(3)` are external, by the Gregorian rules in Calendar.

**Content** EXTENDS Pages, Uri and Dates.  `Request` is one call of
`response_of()`: `Routes` is its list of attempts, in its order, each reading the
URI the way the constructors of `Year`, `Month`, `Day`, `Photo`, `Serial` and `Key`
do; `StatusesOf` is what the files and the index make of it.  If the answer is a
page, `GenerateMore` makes it piece by piece, and `Finish` ends it.  The other way,
`Linked` is the resources an item of a page links to and `UrlOf` how the page writes
the address of each (`Day::put()`, `Serial::put()`, ...).  `Addresses` is another
description of the same, from the man page, for the properties to compare with.

**Lists** picks elements of a sequence by their positions, which is what the loops
in `Invert`, the pages and the keywords do.  **DataLemmas** has facts about
numbers, sequences and dates which say nothing of any state;
the modules ending in **_proofs** (Response, TextReader, Request, Session, Server,
Thumbnail, Content) have the theorems about the module they EXTEND.  The `MC`
modules give the constants which a `.cfg` cannot express.  Definitions with a comment "Faulty:" are not used by the
specifications: each is a plausible mistake in the definition which follows it,
and shows that a property would notice.

## The runs

| Run | What it shows |
|-----|---------------|
| `MCResponse` | Eleven responses of all kinds, in chunks of 2 (3 for sendfile), into a socket with room for 0 to 4 octets at each tick. No octet is lost, repeated or reordered (`NothingLost`, `SentIsPrefix`); a response which is done lacks only its backlog (`DoneButForBacklog`). |
| `MCSession` | One connection and four clients: pipelining, HTTP/1.0 with requests behind it, a POST, a malformed GET, an overlong line, an image which has shrunk. The properties above for the response in the session; the response's loss is its backlog; History's parity; no complete request waits in vain; nothing follows a HTTP/1.0 response; `ImplementsPipeline`; and, if the client keeps reading, `EveryRequestAnswered`. |
| `MCServer` | Two client descriptors and the listening one, two events at a time. No event reaches the wrong client although entries and descriptors are reused at once; no descriptor leaks and no slot of the vector is lost; `NoneOverdue` bounds how late the audit can be, when handlers take up to a second a round. |
| `MCTextReader` | Every stream of six octets over CR, LF and one more, in every partition, into a buffer of four. |
| `MCRequest` | Every request of up to five lines with offsets up to 7 instead of 65535: text shorter, exactly as long, and longer than fits; fields with names known and unknown, in three mixtures of case, and a method in two. `HeadersAreExact` says that the header fields, and the Request-URI, are what the lines said. |
| `MCThumbnail` | Three pieces of image through a pipe of two. Every call may fail, every child may die. |
| `MCContent` | The album and the requests for it. Five families of index files: every sequence of four lines out of six, divided into two files in every way; every album of one to five entries out of five, some repeated, late or misplaced, and of three out of six with an undated one; every description of two lines of up to three and two tokens; file names in the long and the short form, with good and bad dates, suffixes, and serials: 64999, 65000 and 70000 among them, and those which an `unsigned int` would take for 1 and for 65000 (`UnsignedRange`, the number of its values, is 2^20 here); and three single albums: an odd one (a key with a slash, an empty key, a serial of ten digits), one of two photos, and none at all. From the albums, pages of every kind are asked for, one after another; without photos, the calendar of each year from 1970 to 2050, which is what `calendar.cc` 14 promises. From the album of two photos: URIs of one and of two segments, each out of about sixty, some of three to five, with and without escapes; six hosts, with and without ports; and the seconds around the ends of months in nine years, inside the table of dates, at its ends and outside. `LinksArrive` follows every link of every page through the routing. |

The bounds are small but reach the interesting cases: the socket buffer is
shorter than any headers (in `MCSession`), so that headers, bodies, drains
and `sendfile(2)` are all cut; more than one request is always queued; the
buffer of TextReader is shorter than the longest line; offsets
overflow; the pipe is shorter than the image; a gallery has up to three pieces
of two photos, exactly full ones among them; an URI has more slashes than `Uri` has
positions for.  `MaxTime` in Server lets at least three
audits pass.  `UnsignedRange` is large enough for every number but those which are
meant to exceed it.  Session has no `MaxRoom`: the room
for a tick is what the client has left of the socket's buffer (`SndBuf`).  The lines
of a client carry their number in its stream, so that no two are equal and the
history can say which was which.  Sessions end (dead, or the process has aborted), streams and
responses end, Server stops at `MaxTime`, and the files which ask for no pages are
read to their end, so these runs do not check for
deadlock; `MCThumbnail` does.

### Where the code does not do what it says

Each of these runs ends in a counterexample, on purpose.

| Run | Property | What happens |
|-----|----------|--------------|
| `MCSessionSpins` | `WriteReturns` | Draining the backlog returns "octets left" where the filters return "all written", so a drain for which the socket has no room is taken for success, and `write()` ticks again. While the client does not read, it never returns to the loop: no other client is served, and no audit can end the session. |
| `MCSessionAsserts` | `TickHasWork` | The opposite case: the drain succeeds, returns false, `write()` returns WRITING with a response which is done, and the next `tick()` asserts. |
| `MCSessionBroken` | `BrokenNotAnswered` | `write()` pops a malformed GET which `read()` would have refused, and `Request::header()` asserts. |
| `MCSessionStaleEvents` | `RegisteredAsAsked` | With EPOLLOUT in the uninitialised `Entry::events`, `ctl()` leaves the socket registered for reading. |
| `MCServerWedged` | `WedgedIsInactive` | `wedged()` looks at the beginning of the response, not at the latest write. |

Disagreements without a run of their own:

- The same return value of the drain, when the response is `done`: `write()` takes a
  partial drain for success and destroys the response with its backlog, and the client
  gets a truncated response although nothing failed.  `done` is set when the entity is
  consumed; `response.h` 41 says "done (written to the fd)".  What is lost is what
  was in the backlog and no more: `DoneButForBacklog` and `LossIsBacklog`.
- `response.h` 86 documents the return value of `tick()` as the opposite of what
  all paths but the drain return.
- `sendfile(2)` gives EAGAIN when the socket has just become full;
  `SendFile::tick()` throws that as an EntityError, and a client which is merely
  slow loses its session (`EntityFails` in Response).
- A header field named `Request-URI`, right after the request line, is appended
  to the Request-URI (Request models that, and its properties count it as said).
- Entries are sorted by timestamp but searched by photo, so a photo whose serial
  number is out of order with its time can be listed in a gallery and be
  answered with 404, although `index.cc` 164 says of `has()` "True iff the index
  contains 'p'".  `entry.h` 35-37 sees that the orders may differ.  Therefore
  `PhotosAreLinked`, and `LinksArrive` as to photos, assume `PhotosInOrder`.
  For the same reason `weed()` only finds duplicates which are adjacent.
- An entry without a timestamp has year 0: it is sorted before all others and is in
  the gallery of no day and no month, and one such entry makes the front page list
  every year since.  `allergy.5` 84-86 says that the photos are ordered "by timestamp
  (or else timestamp in the filename), then by file order".  Therefore `RangesAreExact`,
  and `GalleriesAreComplete` and `UrisAreUnderstood` as to the galleries of days and
  months, assume that every entry has a timestamp (`AllDated`); the albums with an
  undated entry are for the other properties.
- `allergyd.1` 47-48 has "All photos, newest first" for `/by-date`; `content.cc` 157
  answers 404 (`KnownResources` has all other forms of the man page).  Its 67-70 have
  the photos of a keyword newest first; the code has them oldest first, as everywhere.
  `GalleriesAreComplete` allows both for a keyword.
- `allergyd.1` 102-107 says that no `--host` at all means "allowing anything", and
  `Hostnames::match()` does that, but `main()` insists on one (`httpd.cc` 255).
- `uri.h` 25 promises that escapes are hidden from the rest of the program, but links
  to keywords are not escaped (`keyword.cc` 19): those to keywords with a slash, a
  "?", "#" or "%" in them, or a line break, lead elsewhere, as do those to the empty
  keyword, which lead to the page of all keywords.
- The links to the previous and the next month, and to the months of a year's
  calendar, are made without looking for photos, and are answered with 404 if there
  are none.
- `Serial::put()` has room for nine digits: a serial number written with more is cut
  (`SerialText`), and its photo has no working link.
- `strtou.h` 10-11 promises to "return 0 unless val < limit", but the number is
  accumulated in an `unsigned int`, which wraps, and compared afterwards (`Strtou`).
  Serial numbers from 65000 on are 0, and from 2^32 on they begin again: 4294967297
  is 1.  Photos of one day whose serials come out the same are one photo, and the address
  of any of them is one of it (`Meant`, `IsPhotoAddress`).
- Years before 1000 are printed with blanks ("%4hu"), and so are their links.
- A Host of `[::1]` may be followed by anything, not only a port.
- `Content-Disposition` is printed as "unknown", so that `Names` does not know it.
- The page of keywords leaves out those which begin with a digit; and those which
  begin with a letter outside ASCII, since its headings are Latin-1 and the keys
  UTF-8.  `allergyd.1` promises all keywords.

`LinksArrive` leaves links out of account where the code is known to be
wrong (`Addressable`: years before 1000, long serials, and keywords which are empty
or have one of the characters above), and does not ask months and photos out of order
to be there (`IsThere`); everything else on every page is followed.

### Fairness

`Session!LoopSpec` has weak fairness for `Read` and for `Write`, which is
what the loop gives: it handles every event of an `epoll_wait(2)`, which is
level-triggered, so a socket which stays ready is handled.  `WriteReturns` should hold
under it, and does not.  `Session!FairSpec` adds weak fairness for the
client's reading, an assumption about the client, for `EveryRequestAnswered`.  It cannot
be replaced by the audit, which ends sessions that make no progress: if the client stops
reading while a backlog is drained, `write()` does not return, and the audit (`Reconsider`) has no turn.
`Thumbnail!FairSpec` has weak fairness for the steps of the
three processes, which the operating system schedules; the death of a child is
not fair.  An image which has shrunk is an exception in `EveryRequestAnswered`:
`sendfile(2)` then returns 0 and the session is ticked in vain until the audit.

## The proofs

TLAPS checks these for every value of the constants, given their ASSUMEs: sizes
are positive numbers and the headers fit in one chunk; entities are well-formed;
an endline is not empty; the lines a client sends are numbered in their order,
which is what names them and nothing the code sees; descriptors are numbers, and
there are finitely many; the handlers of a round take at most `Busy`; `Limit`, the age at which a client is dropped, is not 0
(10 s in `httpd.cc`; with 0 and a clock which stands still, a client just accepted
would be overdue); no line of a request is longer than an offset can say; a
header field is not called what `Names` calls its end markers; dates, serial
numbers and times in the index files are numbers; an `unsigned int` has more than
65000 values; a name or an URI writes a number with at most 65535 digits, which is as far as
`Serial` counts them; the alphabet of the page of keywords
is a sequence of sets of strings, a piece of a page has room for at least one item,
and requests have URIs which are made of marks, with numbers that fit in their digits, and
come at a time which fits in 32 bits (`TimeMax`).  `HostsAreNamed` is a hypothesis of one theorem only, and TLC evaluates it
for the hosts of `MCContent`.

None of the invariants is inductive.  Each module begins with what has to be added.

- `Response_proofs`: `TypeCorrect`, `NoOctetLost`, `AlwaysPrefix` and
  `DoneIsComplete` are the four invariants of `MCResponse`.
  `NothingLost` needs the types before `Produced(resp)`, the number of octets
  the response has made so far, means anything; in particular a response never
  consumes more of its entity than there really is.  It implies `SentIsPrefix`
  only as long as no write has failed: afterwards the backlog may be gone, so
  that `SentIsPrefix` has to be kept from the state before.  `DoneButForBacklog`
  needs `DoneIsAll`, which ties the flag `done` to the headers and the entity.
  The proof is one lemma per kind of tick (drain, headers, body, sendfile): each
  shows that the octets sent, followed by the new backlog, are the old backlog
  followed by what was newly produced.  The lemmas are about a response `r` and
  octets `w`, not about the variables (`Whole(r, w)`), so that Session can use them.
  `WriteSalvages` is the loop in `salvage()`: after each blob, what is kept so far and `n`
  are as if all blobs up to there had been one.
- `Session_proofs`: all safety properties of `MCSession`.  `TypeCorrect`,
  `ResponsesAreIntact`, `OnlyBacklogsAreLost`, `HistoryIsRight`, `NoRequestWaits` and
  `ClosingIsLast` need two more facts.  The response in the session is `Whole`, by the
  lemmas above, instantiated.  And `Registered`: however wrong `ctl()` is because
  of the uninitialised `Entry::events`, the socket is registered for writing only
  while there is a response; without this, `write()` might tick one which is not there.
- `Session_proofs!PipelineIsImplemented`: every behaviour of a session, seen through
  `P`, is one of Pipeline, in which complete requests are begun in the order they were
  asked, one at a time.  The refinement maps what has been asked to what was begun
  followed by the complete requests in the queue; so a step of the session must add to
  that at its end only, and never drop a request or reorder two.  The invariant for
  that is `Kept`: what was begun came before what is queued, and that before the
  lines which have been received but not handled, those in the socket and those
  not sent yet; and an incomplete request is only ever the last in the queue.  A
  single `read()` may handle any number of lines: `Received`, which is recursive,
  is reasoned about with `Reached`, which holds after each line.
- `Server_proofs`: `TypeCorrect`, `EntriesOwnTheirFds` and `NoEventIsStale`, by the
  invariant that the vector, the epoll set and the open descriptors agree
  (`Table`), and that the events not yet handled name different entries, each still
  the client which epoll meant (`Live`).  This is the reason why entries may be reused at once:
  an event only ever removes its own client, and the listening socket, whose event
  adds clients, comes last.  `Table` says how many slots there
  are, too, so that the vector grows no longer than the most descriptors.
  `NobodyIsOverdue`: nobody is older than a limit, a period, a timeout and a round of handlers; it needs
  that the next audit is no further than a `Period` away and that the last one left
  nobody who was already too old (`OnTime`).
- `Request_proofs!HeadersAreAlwaysExact`: what `header()` and `request_uri()` return
  is what the lines said, for every width of the offsets.  The two views are cut up
  differently (a field which is repeated, continued, or not known to `Names`), so
  the invariant relates them property by property: neither has
  one (`Absent`), or the first entry and the first field have the same text and
  are continued together (`Found`).  Offsets are positions only as long as the text is not
  too large; `Ended` says that a text which outgrew them is refused when it ends.
- `Thumbnail_proofs`: `TypeCorrect`, `NothingIsLeftOver`, `ThumbnailsAreWholeAlways` and
  `MadeOnlyOnce`, from who holds which end of the pipe
  (`EndsAreHeld`), which children there are, and how far the file is.  `NoCircularWait` is the safety
  half of `AlwaysAnswers`: as long as the server has not answered, one of the three
  processes can move, because every end of the pipe which nobody needs is closed.
  (That a move is fair, and makes progress, is what TLC adds.)
- `TextReader_proofs`: `TypeCorrect`, `NoOctetLost`, `AlwaysRoomToFeed` and
  `EveryLineIsExact` are the four invariants of `MCTextReader`.
  `EveryLineIsExact` rests on a lemma about the first
  endline in a sequence: cutting there leaves one endline, at the end.
- `DataLemmas`: sequences cut in two or more, joined, picked from (`PickedIs`) and folded;
  the calendar and the table of dates; the least number with a property,
  and induction, for sets of numbers.  The library's induction takes an operator and
  cannot be used here, but a set can be: {n : P(n)}, when it has 0 and the successors of its
  elements, is everything.  By that means recursive functions can be proved to exist and to
  be what their definition says (`ReceivedStepwise`).
- `Content_proofs`: the index, whatever the files are, as long as what is read from a
  line is numbers (`ScenarioAssumption`).  `IInv` says that the entries are of photos
  with a day and a number, and, when the index is ready, that they are sorted and no two
  neighbours are for the same photo.  Sorting is `StableSort`, where the place of an entry
  is how many come before it or are the same: that this is a bijection needs a total order
  and the library's facts about finite sets.  Weeding is a fold over the entries, which is
  shown to be the stepwise thing it is (`WeedStepwise`) by `Induction` over what the fold
  is defined with.  `LowerBoundIsExact`: the binary search is the solution of its recursive
  equation, which is shown unique; if the range is divided at `m`, it is `m`.
  From those follow `RangesAreAlwaysExact` (galleries of days, months and years, and
  the days before and after, where every entry has a timestamp) and `PhotosAreAlwaysLinked`, for which the photos' own
  order must be that of their timestamps; the property says so, and so does `entry.h`.
- `Content_proofs!NoPhotoIsEverLost` has a longer invariant, `KeptInv`: at which file and
  which line the reading is (`PlaceAt`), that the entry being read is one of that file
  which no blank line has ended (`Within`), and that the entries so far, together with
  it, are for exactly the photos named so far (`Collected`).  Empty files may be skipped, so a
  step may move by more than one file (`PlaceMoves`).  The theorem is for dates in
  years where `leapyear()` is right and which `strtou()` accepts
  (`DatesAreOrdinary`): without it, it is false, as a photo named for 29 February 2100 would
  be kept although there is no such day, and one for the year 3000 is refused.
- `Content_proofs!AlbumIsTyped`.  Beside `PagesInv`, its invariant (`Typed`) says that
  entries have timestamps which are ones, or none, and keywords which are texts.  The
  latter takes three folds: joining the lines of an entry, and the parser's stack of
  texts (`Stacks`), which `Put` keeps and which is never empty.  Any fold to the left
  is a solution of a recursive equation (`FoldingExists`, `FoldsTo`), so that
  what holds at first and is kept by each step holds at the end (`ParsedStepwise`).
- `Content_proofs!KeysAreAlwaysParsed`: the parser against a description of keywords
  which has no stack, for every text.  The description goes by positions: how deep in brackets
  each is (`Where`), and which begin a key.  `PutFollows` says that the parser's stack is as deep
  as the text is there (`Agrees`), and pushes, pops and copies when that changes or
  not.  The invariant (`Finds`), by induction over the text, adds two lists, which
  the parser does not have: at which position each key on the stack begins, and each key
  which is done.  A key on the stack has not ended anywhere so far, and is the text since it
  began (`OpenKey`); a key which is done did end, and is what `KeyAt` says (`DoneKey`); no
  bracket is forgotten or listed twice.  In the end the lists are a bijection between the
  keys and the brackets which begin one.  `SquashKeepsWords` is another fold.
- `Content_proofs!PagesAreAlwaysWhole` and `GalleriesAreAlwaysComplete`, for every size of
  piece.  `PagesInv` says that what the client has got are the first `n` pieces of a page
  which it may ask for (`Generated`), and that the positions by keyword and the range of
  years are those of the finished index.  What remains is to join the pieces again
  (`FlattenJoins`), and to see what is in each kind of page: which piece is never empty
  (for a calendar, `WeeksNotNone`), and that only the first piece
  begins the page and only the last one ends it.  The photos of a gallery are those found by binary
  search, of which `RangesAreAlwaysExact` speaks, or, for a keyword, those at the
  positions which `Invert` collected: `GalleryIsChosen` says for both that they are all the
  entries which belong there, in their order.
- `Content_proofs!DatesAreAlwaysRight`.  The months are numbered from the year 0 on, and
  `FirstDaysFollow` has each of them begin where the one before ended, which is the Gregorian
  calendar's leap years in four cases; by `Induction` the first days ascend, and
  every day is in one month (`MonthOfDay`).  Therefore `Find`, which counts the months
  begun so far, returns the one which the time is in (`FindFinds`), and the table's
  date is that time (`FormatIsTime`), like that of `gmtime_r(3)` outside it
  (`GmtimeIsTime`).  `WrittenIsParsed` is the way back, where the length tells the forms apart,
  and a year of two digits is one from 1970 to 2069.
- `Content_proofs!UrisAreAlwaysUnderstood`.  `UrisInv` adds to `AnswersInv` that the answer
  is for what the URI was taken for (`Directed`), and that the index stays as it was
  then.  The rest is about URIs.  First, that the positions of at most five slashes,
  decoding segment by segment and counting segments by positions, give
  the segments which the fold `Split` finds in the whole URI (`RoutesOfOne`,
  `RoutesOfTwo` and `RoutesOfMore`; the last says that nothing but NotFound is left for
  more than two).  Then what a text can be read as: dates (`DatesAreWritten`), and the two forms of
  a photo's name, which is cut at its first "_" and so in one way only (`PhotoInNamed`,
  `NamesAreDated`).  From these, whatever a route fits is an address of its resource
  (`RouteIsAddress`); and, conversely, an address fits its route and no route before it
  (`AddressIsRouted`), since the texts for dates, names and words all differ.
  Finally a gallery is empty just if no entry belongs in it (`GalleryIsThere`).
- `Content_proofs!HostsAreAlwaysMatched`.  The invariant `AnswersInv` ties an answer to
  its request.  The rest is where to cut a host: `TrimCuts` says that `TrimPort`
  cuts at the last colon if no bracket follows; a name
  has no colon, or ends in its only bracket (`IsHostName`), so that what is left is the
  name, with or without a port (`NameIsLeft`).

Only model-checked:

- All liveness (`EveryRequestAnswered` and `AlwaysAnswers`, which hold, and
  `WriteReturns`, which does not), since liveness under fairness and ENABLED are out of
  the prover's reach.
- `CalendarIsRight` and `LinksArrive`.  The one compares the weeks of a year, a
  recursion in which the weekdays and both the ends of months take part, with another
  description of them, and sums of folds with each other: induction over data, to be
  made anew for each.  The other needs that for the links on every kind of page; that an
  address leads where it should is proved, for the forms in the man page.

## Not modelled

- Zlib coding: no response uses it.
- The text of headers, pages and logs; `magic.cc`, splitting, quoting, UTF-8,
  globbing: functions of a string, which their unit tests enumerate.  `HeaderCache`,
  and `match()` with three segments, which the server does not use; `DateConv::parse()`
  is only used by its test too, but is in Dates as the inverse of `format()`.
- Whether an error page is a file in `lib` or built in; HTTP/1.0 against the chunked
  coding is in Session and Response.
- In requests, texts with characters which mean something to a browser ("?", "#") or
  are odd in numbers ("+1", a dash elsewhere): a text is a sequence of words and
  numbers.  Links to keywords with such characters are among those which
  `Addressable` excepts.
  Calendars of years outside 1970-2050 are made but not checked (`calendar.cc` 14).
- `main()` apart from what Content needs: options, daemonising and creating the
  listening socket are run once.
- `CLOCK_REALTIME` set back: times are assumed not to decrease, as `times.cc` 22
  does.
- The death of the server while thumbnails are made.
- The Python tools, which are a separate, older program.

## Plan

Done, in this order: Response, Session with Pipeline, Server, TextReader, the
proofs of Response and TextReader, Request, Thumbnail, Keys, Calendar, Album,
Pages, names in Request, Uri, Dates and Content, and the proofs of Session and its
refinement, Server, Thumbnail, Request, the index, pages, dates, hosts, keywords and URIs.  Next:

1. A fair **Server**: the audit reaches every stuck session; wakeups which make no
   progress (accept(2) which fails with EMFILE, sendfile(2) at the end of a file
   which has shrunk).
2. The server's death in Thumbnail, and a restart which finds the file.
3. Proofs: `CalendarIsRight`, where the weeks of a month have to be related to its days.
