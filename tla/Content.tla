------------------------------ MODULE Content -------------------------------
(***************************************************************************)
(* class Content (content.cc): from a request to its response, by way of   *)
(* the host name (hostnames.cc), the URI, what the segments of the URI can *)
(* be read as (calendar.cc, photo.cc, keyword.h) and the album; and back,  *)
(* by the links on the pages.                                              *)
(*                                                                         *)
(* A request is [method, host, uri, time].  The host is a sequence of      *)
(* strings, so that colons and brackets can be seen.                       *)
(***************************************************************************)
EXTENDS Pages, Uri, Dates

CONSTANTS
    Requests(_),  \* what is asked for, with these index files
    Hosts         \* the names given by --host: main() insists on one at least

ASSUME HostAssumption == Hosts # {}
ASSUME RequestAssumption ==
    \A family \in Scenarios : \A ff \in family : \A r \in Requests(ff) :
        r.uri \in Seq(PossibleMarks) /\ r.time \in 0..TimeMax

VARIABLES
    req,      \* the request being answered, or NoRequest
    answer    \* its status, the resource it is for, and the Date of the response

NoRequest == [method |-> "none", host |-> <<>>, uri |-> <<>>, time |-> 0]
NoAnswer == [status |-> 0, what |-> NoPage, date |-> NoDay]

(* Resources, besides the pages which have a parameter *)
FrontPage == <<"front">>
AllWords == <<"words">>
Redirect == <<"redirect">>
LibFile(name) == <<"file", name>>

-----------------------------------------------------------------------------
(* Is a text numbers with so many digits, separated by dashes? *)
Matches(text, digits) ==
    /\ Len(text) = 2 * Len(digits) - 1
    /\ \A i \in DOMAIN text :
          IF i % 2 = 0 THEN text[i] = Word("-")
          ELSE text[i][1] = "number" /\ text[i][3] = digits[(i + 1) \div 2]

Values(text) == [i \in 1..((Len(text) + 1) \div 2) |-> text[2 * i - 1][2]]

(* Year{a, b}, Month{a, b}, Day{a, b} *)
YearIn(text) == IF Matches(text, <<4>>) THEN Limited(text[1][2], 3000) ELSE 0

MonthIn(text) ==
    IF Matches(text, <<4, 2>>)
    THEN <<Limited(Values(text)[1], 3000), Limited(Values(text)[2], 13)>>
    ELSE <<0, 0>>

DayIn(text) ==
    IF Matches(text, <<4, 2, 2>>) THEN ParsedDay(Values(text)) ELSE NoDay

(* A text as the serial number in a name *)
SerialIn(text) ==
    IF Len(text) = 1 /\ text[1][1] = "number"
    THEN [NoName EXCEPT !.serial = text[1][2], !.digits = text[1][3]]
    ELSE NoName

Underscore == Word("_")
FirstBar(text) == SelectInSeq(text, LAMBDA x : x = Underscore)

(* Photo{a, b}: a date, and behind its "_" a serial number and ".jpg" *)
PhotoFrom(date, tail) ==
    LET yymmdd == date[1][2]
        named == tail # <<>> /\ Last(tail) = Word(".jpg")
        name == [SerialIn(Front(tail)) EXCEPT !.suffix = ".jpg"]
    IN  CASE named /\ Matches(date, <<4, 2, 2>>) ->
                PhotoOf([name EXCEPT !.date = Values(date), !.width = 10])
          [] named /\ Matches(date, <<6>>) ->
                PhotoOf([name EXCEPT !.width = 6,
                    !.date = <<yymmdd \div 10000, (yymmdd \div 100) % 100, yymmdd % 100>>])
          [] OTHER -> NoPhoto

PhotoIn(text) ==
    LET c == FirstBar(text)
    IN  IF c = 0 THEN NoPhoto
        ELSE PhotoFrom(SubSeq(text, 1, c - 1), SubSeq(text, c + 1, Len(text)))

(* Photo{day, serial}, of a pair of texts *)
PairIn(pair) ==
    LET name == SerialIn(pair[2])
    IN  [day |-> DayIn(pair[1]), serial |-> Serial(name), digits |-> name.digits]

(* Key{a, b}; a number in it is like no word in the album. *)
KeyIn(text) ==
    [i \in DOMAIN text |-> IF text[i][1] = "word" THEN text[i][2] ELSE "0"]

-----------------------------------------------------------------------------
(* response_of(): what an URI may be for, in the order in which it is tried *)
Routes(uri) ==
    LET is(word) == Is(uri, <<Word(word)>>)
        year  == YearIn(The(uri))
        month == MonthIn(The(uri))
        day   == DayIn(The(uri))
        image == PhotoIn(The(uri))
        thumb == PhotoIn(TheUnder(uri, <<Word("thumb")>>))
        photo == PairIn(ThePair(uri))
        key   == KeyIn(TheUnder(uri, <<Word("key")>>))
    IN  << <<Is(uri, Nil) \/ is("index.html"),     FrontPage>>,
           <<is("by-date"),                        NotFound>>,
           <<year # 0,                             <<"year", year>>>>,
           <<month[1] # 0 /\ month[2] # 0,         <<"month", month>>>>,
           <<IsDay(day),                           <<"day", day>>>>,
           <<IsPhoto(image),                       <<"image", image>>>>,
           <<IsPhoto(thumb),                       <<"thumb", thumb>>>>,
           <<IsPhoto(photo),                       <<"photo", photo>>>>,
           <<is("keywords") \/ is("key"),          Redirect>>,
           <<IsUnder(uri, <<Word("key")>>, Nil),   AllWords>>,
           <<key # <<>>,                           <<"key", key>>>>,
           <<is("css"),                            LibFile("css")>>,
           <<is("robots.txt"),                     LibFile("robots.txt")>>,
           <<is("icon"),                           LibFile("icon")>>,
           <<TRUE,                                 NotFound>> >>

Route(uri) ==
    LET rr == Routes(uri) IN rr[SelectInSeq(rr, LAMBDA r : r[1])][2]

-----------------------------------------------------------------------------
Colon == ":"
Bracket == "]"

(* Faulty: the colons of an IPv6 address are not considered. *)
TrimAtColon(host) ==
    LET c == SelectLastInSeq(host, LAMBDA ch : ch = Colon)
    IN  IF c <= 1 THEN host ELSE SubSeq(host, 1, c - 1)

(***************************************************************************)
(* trim_port(): up to the last colon, or to a bracket behind it; all of it,*)
(* if it begins with that colon or has none.                               *)
(***************************************************************************)
TrimPort(host) ==
    LET c == SelectLastInSeq(host, LAMBDA ch : ch = Colon)
        behind == {i \in DOMAIN host : i >= c /\ host[i] = Bracket}
    IN  CASE c <= 1 -> host
          [] c > 1 /\ behind # {} -> SubSeq(host, 1, Min(behind))
          [] c > 1 /\ behind = {} -> SubSeq(host, 1, c - 1)

(* Hostnames::match() *)
HostMatches(host) == TrimPort(host) \in Hosts

-----------------------------------------------------------------------------
(***************************************************************************)
(* The status of a response for a resource.  Files are somebody else's: any*)
(* open(2) may fail, with ENOENT or its like or some other error; to make a*)
(* thumbnail (Thumbnail.tla) may fail too, and looks like ENOENT.          *)
(***************************************************************************)
StatusesOf(p) ==
    CASE IsPage(p)                 -> {IF Missing(p) THEN 404 ELSE 200}
      [] p[1] \in {"image", "thumb"} -> IF Has(p[2]) THEN {200, 404, 500} ELSE {404}
      [] p[1] = "file"             -> {200, 404, 500}
      [] p = Redirect              -> {301}
      [] p = NotFound              -> {404}

Answer(status, p, r) == [status |-> status, what |-> p, date |-> Format(r.time)]

(* response_of() *)
ResponseOf(r) ==
    CASE r.method # "GET" -> {Answer(501, NoPage, r)}
      [] r.method = "GET" /\ ~HostMatches(r.host) -> {Answer(400, NoPage, r)}
      [] r.method = "GET" /\ HostMatches(r.host) ->
            {Answer(status, Route(r.uri), r) : status \in StatusesOf(Route(r.uri))}

asked == <<req, answer>>

CInit == PInit /\ req = NoRequest /\ answer = NoAnswer

Build == Next /\ UNCHANGED <<served, asked>>

Request ==
    /\ Ready
    /\ req = NoRequest
    /\ \E r \in Requests(files) : \E a \in ResponseOf(r) :
          /\ req' = r
          /\ answer' = a
          /\ Open(IF a.status = 200 /\ IsPage(a.what) THEN a.what ELSE NotFound)
    /\ UNCHANGED vars

GenerateMore == Tick /\ UNCHANGED asked

(* The response is done, and deleted. *)
Finish ==
    /\ req # NoRequest
    /\ Done
    /\ req' = NoRequest
    /\ answer' = NoAnswer
    /\ Open(NoPage)
    /\ UNCHANGED vars

CNext == Build \/ Request \/ GenerateMore \/ Finish

CSpec == CInit /\ [][CNext]_<<vars, served, asked>>
-----------------------------------------------------------------------------
(***************************************************************************)
(* The links on the pages.  "%4hu" fills a year up with blanks, "%02hu" a  *)
(* month with zeros, and Serial::put() has room for nine characters.  What *)
(* quote() does to a keyword, the client undoes.                           *)
(***************************************************************************)
YearText(y) ==
    IF y >= 1000 THEN <<Number(y, 4)>>
    ELSE <<Word("blanks"), Number(y, IF y < 10 THEN 1 ELSE IF y < 100 THEN 2 ELSE 3)>>

(* Faulty: "%hu" *)
MonthTextShort(m) ==
    YearText(m[1]) \o <<Word("-"), Number(m[2], IF m[2] < 10 THEN 1 ELSE 2)>>

MonthText(m) == YearText(m[1]) \o <<Word("-"), Number(m[2], 2)>>

DayText(d) == MonthText(MonthOf(d)) \o <<Word("-"), Number(d[3], 2)>>

(* Serial::put() *)
SerialText(p) ==
    IF p.digits <= 9 THEN <<Number(p.serial, p.digits)>>
    ELSE <<Number(p.serial \div 10^(p.digits - 9), 9)>>

(* Photo::put() *)
PhotoText(p) == DayText(p.day) \o <<Underscore>> \o SerialText(p) \o <<Word(".jpg")>>

KeyText(k) == [i \in DOMAIN k |-> Word(k[i])]

(* Texts, with a slash before each; a slash in a text is one like any other. *)
Url(texts) ==
    FlattenSeq([i \in DOMAIN texts |->
                    <<Slash>> \o [j \in DOMAIN texts[i] |-> Lit(texts[i][j])]])

(* What a page writes as the address of a resource *)
UrlOf(p) ==
    CASE p[1] = "year"  -> Url(<<YearText(p[2])>>)
      [] p[1] = "month" -> Url(<<MonthText(p[2])>>)
      [] p[1] = "day"   -> Url(<<DayText(p[2])>>)
      [] p[1] = "image" -> Url(<<PhotoText(p[2])>>)
      [] p[1] = "thumb" -> Url(<< <<Word("thumb")>>, PhotoText(p[2])>>)
      [] p[1] = "photo" -> Url(<<DayText(p[2].day), SerialText(p[2])>>)
      [] p[1] = "key"   -> Url(<< <<Word("key")>>, KeyText(p[2])>>)
      [] p[1] = "file"  -> Url(<< <<Word(p[2])>> >>)
      [] p = AllWords   -> Url(<< <<Word("key")>>, Nil>>)

YearWithMonths(y, months) ==
    {<<"year", y>>} \cup {<<"month", <<y, m>>>> : m \in {k \in 1..12 : months[k] > 0}}

(* The days of a week with photos, and the months named at its end *)
InWeek(week, photos, begins) ==
    {<<"day", week[k]>> : k \in {i \in 1..7 : photos[i] > 0}}
        \cup {<<"month", m>> : m \in begins}

(* preamble(): an invalid day gets no link *)
Neighbour(x) ==
    CASE Len(x) = 1 -> {<<"year", x[1]>>}
      [] Len(x) = 2 -> {<<"month", x>>}
      [] Len(x) = 3 -> IF IsDay(x) THEN {<<"day", x>>} ELSE {}

(* Day::put_pretty() and thumbdiv() *)
PrettyDay(d) == {<<"day", d>>, <<"month", MonthOf(d)>>, <<"year", YearOf(d)>>}
ThumbDiv(p) == {<<"photo", p>>, <<"thumb", p>>}

(* The resources to which there are links in an item of a page *)
Linked(item) ==
    CASE item[1] = "preamble" -> {LibFile("css"), LibFile("icon")}
                \cup UNION {Neighbour(item[i]) : i \in 2..Len(item)}
      [] item[1] = "year"  -> YearWithMonths(item[2], item[3])
      [] item[1] = "week"  -> InWeek(item[2], item[3], item[4])
      [] item[1] = "photo" -> ThumbDiv(item[2])
      [] item[1] = "entry" -> PrettyDay(item[3].day)
      [] item[1] = "keys"  -> {<<"key", k>> : k \in item[2]}
      [] item[1] = "words" -> {<<"key", k>> : k \in item[3]}
      [] item[1] = "image" -> {<<"image", item[2]>>}
      [] OTHER -> {}

-----------------------------------------------------------------------------
(***************************************************************************)
(* The addresses in allergyd.1 42-85, as segments: those of a photo with   *)
(* its serial number as it is in the file's name, and in both forms of     *)
(* date which photo.cc 61 knows.                                           *)
(***************************************************************************)
Dated(digits, numbers) ==
    [i \in 1..(2 * Len(digits) - 1) |->
        IF i % 2 = 0 THEN Word("-")
        ELSE Number(numbers[(i + 1) \div 2], digits[(i + 1) \div 2])]

ImageNames(p) ==
    LET serial == <<Underscore, Number(p.serial, p.digits), Word(".jpg")>>
        y == p.day[1]
        short == Number(10000 * (y % 100) + 100 * p.day[2] + p.day[3], 6)
    IN  {Dated(<<4, 2, 2>>, p.day) \o serial}
        \cup IF y \in 2000..2099 THEN {<<short>> \o serial} ELSE {}

Addresses(p) ==
    CASE p[1] = "front" -> {<<Nil>>, << <<Word("index.html")>> >>}
      [] p[1] = "year"  -> {<<Dated(<<4>>, <<p[2]>>)>>}
      [] p[1] = "month" -> {<<Dated(<<4, 2>>, p[2])>>}
      [] p[1] = "day"   -> {<<Dated(<<4, 2, 2>>, p[2])>>}
      [] p[1] = "image" -> {<<name>> : name \in ImageNames(p[2])}
      [] p[1] = "thumb" -> {<< <<Word("thumb")>>, name>> : name \in ImageNames(p[2])}
      [] p[1] = "photo" -> {<<Dated(<<4, 2, 2>>, p[2].day),
                              <<Number(p[2].serial, p[2].digits)>> >>}
      [] p = Redirect   -> {<< <<Word("keywords")>> >>, << <<Word("key")>> >>}
      [] p = AllWords   -> {<< <<Word("key")>>, Nil>>}
      [] p[1] = "file"  -> {<< <<Word(p[2])>> >>}

(* The numbers in a text *)
NumbersIn(text) == {x[2] : x \in {y \in ToSet(text) : y[1] = "number"}}

(***************************************************************************)
(* That of a photo, by any serial number which strtou() makes the same:    *)
(* numbers which do not fit (Album!Meant) are mixed up here too.           *)
(***************************************************************************)
IsPhotoAddress(segments, kind, p) ==
    /\ segments # <<>>
    /\ \E s \in NumbersIn(Last(segments)) :
          /\ Strtou(s, 65000) = p.serial
          /\ segments \in Addresses(<<kind, [p EXCEPT !.serial = s]>>)

(* An URI with these segments is for p; any text is a keyword. *)
IsAddress(segments, p) ==
    CASE p = NotFound -> FALSE
      [] p[1] \in {"image", "thumb", "photo"} -> IsPhotoAddress(segments, p[1], p[2])
      [] p[1] = "key" -> /\ Len(segments) = 2
                         /\ segments[1] = <<Word("key")>>
                         /\ KeyIn(segments[2]) = p[2]
      [] OTHER -> segments \in Addresses(p)

(* Of what is asked for, that of which there can be a photo *)
RealPhotos == {p \in Photos : IsPhoto(p) /\ p.day = ParsedDay(p.day)}

(* All of allergyd.1 42-85 but /by-date, for which the code has only a 404. *)
KnownResources ==
    {FrontPage, AllWords, Redirect, LibFile("css"), LibFile("robots.txt"), LibFile("icon")}
    \cup {<<kind, p>> : kind \in {"image", "thumb", "photo"}, p \in RealPhotos}
    \cup {<<"day", p.day>> : p \in RealPhotos}
    \cup {<<"month", MonthOf(p.day)>> : p \in RealPhotos}
    \cup {<<"year", YearOf(p.day)>> : p \in RealPhotos}
    \cup {<<"key", k>> : k \in DOMAIN byKey \ {<<>>}}

Asked == req # NoRequest
Routed == Asked /\ answer.status \notin {400, 501}

(***************************************************************************)
(* An URI is taken for a known resource if and only if it is an address of *)
(* it: however its characters are encoded, whatever else its segments could*)
(* be read as, and however many there are.  A gallery is there if and only *)
(* if the album has a photo for it, as far as there are timestamps.        *)
(***************************************************************************)
UrisAreUnderstood ==
    Routed =>
        LET segments == Split(req.uri)
            found == answer.what
        IN  /\ found # NotFound => IsAddress(segments, found)
            /\ \A p \in KnownResources : IsAddress(segments, p) => found = p
            /\ IsGallery(found) /\ Timed(found) =>
                  (answer.status = 200 <=> \E e \in ToSet(entries) : Belongs(e, found))

(***************************************************************************)
(* What the name of a host or an address can look like: if it has colons,  *)
(* it ends in its only bracket.  And what Hosts and the requests are to be *)
(* like: a Host is such a name, or none, and perhaps a port.               *)
(***************************************************************************)
Ports == {<<>>, <<Colon>>, <<Colon, "80">>}

IsHostName(name) ==
    /\ name \in Seq(STRING) /\ name # <<>>
    /\ \/ Colon \notin ToSet(name)
       \/ /\ name[1] # Colon
          /\ \A i \in DOMAIN name : name[i] = Bracket <=> i = Len(name)

IsHost(host) ==
    \/ host \in Ports
    \/ \E c \in 1..Len(host) :
          IsHostName(SubSeq(host, 1, c)) /\ SubSeq(host, c + 1, Len(host)) \in Ports

HostsAreNamed ==
    /\ \A name \in Hosts : IsHostName(name)
    /\ \A family \in Scenarios : \A ff \in family : \A r \in Requests(ff) :
          r.host \in Seq(STRING) /\ IsHost(r.host)

(***************************************************************************)
(* A request is let in by the name of its host, IPv6 addresses in brackets *)
(* among them, and whether and which port it gives makes no difference     *)
(* (allergyd.1 102-107).                                                   *)
(***************************************************************************)
HostsAreMatched ==
    Asked /\ req.method = "GET" =>
        (answer.status # 400 <=>
            \E name \in Hosts : \E port \in Ports : req.host = name \o port)

(***************************************************************************)
(* The Date of a response is the time of its request, inside and outside   *)
(* the precalculated table; and what can be written so is read back.       *)
(***************************************************************************)
DatesAreRight == Asked => IsTime(answer.date, req.time)

-----------------------------------------------------------------------------
(***************************************************************************)
(* Where the links are known to be wrong: years which are filled up with   *)
(* blanks or too late for strtou(), serial numbers which are cut, and      *)
(* keywords which are empty or have in them what quote() (keyword.cc 19)   *)
(* leaves as it is, and the URI or its client takes for something else.    *)
(***************************************************************************)
Addressable(p) ==
    CASE p[1] = "year" -> p[2] \in 1000..2999
      [] p[1] \in {"month", "day"} -> p[2][1] \in 1000..2999
      [] p[1] \in {"image", "thumb", "photo"} -> p[2].digits <= 9
      [] p[1] = "key"  -> p[2] # <<>> /\ {"/", "\n", "%", "?", "#"} \cap ToSet(p[2]) = {}
      [] OTHER -> TRUE

(* Months are linked whether or not they have photos; photos are found if   *)
(* they are in the order of their timestamps.                              *)
IsThere(p) ==
    CASE p[1] = "month" -> TRUE
      [] p[1] \in {"image", "thumb", "photo"} -> PhotosInOrder => Has(p[2])
      [] IsPage(p) -> ~Missing(p)
      [] OTHER -> TRUE

(***************************************************************************)
(* Following a link, or a redirection, leads to the resource for which it  *)
(* was made, and it is there: what the pages write and what the URIs are   *)
(* parsed as agree.  The front page and those of photos link only months   *)
(* with photos.                                                            *)
(***************************************************************************)
LinksArrive ==
    /\ \A i \in DOMAIN body : \A k \in DOMAIN body[i] :
          \A p \in Linked(body[i][k]) :
              /\ Addressable(p) => Route(UrlOf(p)) = p /\ IsThere(p)
              /\ body[i][k][1] \in {"year", "entry"} /\ Addressable(p) /\ p[1] = "month"
                    => ~Missing(p)
    /\ Asked /\ answer.status = 301 => Route(UrlOf(AllWords)) = AllWords
=============================================================================
