----------------------------- MODULE MCContent ------------------------------
EXTENDS Content

MCPhoto(d, s) == [day |-> d, serial |-> s, digits |-> 4]
Stamp(d, t) == [day |-> d, time |-> t]

(* Lines: what they say, and what they are read as. *)
FileName(date, width, s, digits, suffix) ==
    [date |-> date, width |-> width, serial |-> s, digits |-> digits, suffix |-> suffix]
Line(name, stamp, text) == [name |-> name, stamp |-> stamp, text |-> text]
Named(f) == Line(f, NoStamp, <<"name">>)
Name(p) == Named(FileName(p.day, 10, p.serial, p.digits, ".jpg"))
Time(s) == Line(NoName, s, <<"time">>)
Prose(s) == Line(NoName, NoStamp, s)

NewYearsEve == <<2020, 12, 31>>
NewYearsDay == <<2021, 1, 1>>

P1 == MCPhoto(NewYearsEve, 1)
P2 == MCPhoto(NewYearsEve, 2)
P4 == MCPhoto(NewYearsEve, 3)
P3 == MCPhoto(NewYearsDay, 1)
MCPhotos == {P1, P2, P3, P4, MCPhoto(<<2021, 1, 3>>, 1)}

(* Reading: up to four lines of any kind, divided into two files. *)
AnyLine == {Name(P1), Name(P2), Time(Stamp(NewYearsEve, 1)), Prose(<<"a">>),
            BlankLine, CommentLine}
Readings ==
    {<<SubSeq(s, 1, k), SubSeq(s, k + 1, 4)>> : s \in [1..4 -> AnyLine], k \in 0..4}

(* Albums: up to five entries, some of them late, repeated or not timed. *)
Entry(p, s, text) == <<Name(p), Time(s), Prose(text), BlankLine>>
Blocks == { Entry(P1, Stamp(NewYearsEve, 1), <<"[", "a", "]">>),
            Entry(P1, Stamp(NewYearsEve, 2), <<"{", "b", "}">>),
            Entry(P2, Stamp(NewYearsEve, 1), Ibid),
            Entry(P4, Stamp(NewYearsEve, 2), <<"[", "a", "]">>),
            Entry(P3, Stamp(NewYearsDay, 1), <<"[", "a", "[", "b", "]">>) }
Undated == <<Name(P2), Prose(<<"{", "b", "}">>), BlankLine>>

AlbumsOf(bb, sizes) ==
    UNION {{<<FlattenSeq(b)>> : b \in [1..k -> bb]} : k \in sizes}
Albums == AlbumsOf(Blocks, 1..5) \cup AlbumsOf(Blocks \cup {Undated}, 3..3)

(* Texts: a line of up to three tokens, and one of up to two. *)
Tokens == {"[", "]", "{", "}", "a", " "}
LinesOf(sizes) == {s \in UNION {[1..k -> Tokens] : k \in sizes} : Last(s) # " "}
Texts ==
    {<<<<Name(P1), Time(Stamp(NewYearsEve, 1)), Prose(s), Prose(t)>>>> :
        s \in LinesOf(1..3), t \in LinesOf(1..2)}

(* Names: two entries, with names good and bad, of several widths *)
Dates == {<<20, 12, 31>>, <<20, 2, 29>>, <<21, 2, 29>>, <<21, 4, 31>>, <<21, 13, 1>>,
          <<21, 0, 1>>, <<21, 1, 0>>}
Long(d) == <<2000 + d[1], d[2], d[3]>>
FileNames ==
    {FileName(d, 6, 1, 4, ".jpg") : d \in Dates}
    \cup {FileName(Long(d), 10, 1, 4, ".jpg") : d \in Dates}
    \cup {FileName(Long(d), 10, 1, 2, ".jpg") : d \in Dates}
    \cup {FileName(<<20, 12, 31>>, 6, s, 7, ".jpg") :
              s \in {64999, 65000, 70000, UnsignedRange + 1, UnsignedRange + 65000}}
    \cup {FileName(<<20, 12, 31>>, 6, 1, 0, ".jpg"),
          FileName(<<20, 12, 31>>, 6, 1, 4, ".png"), FileName(<<20, 12, 31>>, 8, 1, 4, ".jpg")}
Stamps == {NoStamp, Stamp(NewYearsEve, 1), Stamp(<<2021, 2, 29>>, 1)}
Named2 ==
    {<<<<Named(f), Time(s), BlankLine, Named(g)>>>> :
        f \in FileNames, g \in FileNames, s \in Stamps}

(* Odd: keywords with slashes, or empty, and serial numbers which are cut *)
TenDigits == [P1 EXCEPT !.digits = 10]
OddAlbum ==
    <<Entry(TenDigits, Stamp(NewYearsEve, 1), <<"[", "a", "/", "b", "]", "[", "]">>)
        \o Entry(P3, Stamp(NewYearsDay, 1), <<"{", "b", "}">>)>>

(* For URIs, hosts and times: two photos, one of them with two keywords *)
SmallAlbum ==
    <<Entry(P1, Stamp(NewYearsEve, 1), <<"[", "a", "/", "b", "]">>)
        \o Entry(P3, Stamp(NewYearsDay, 1), <<"[", "a", "]">>)>>

(* A file which cannot be opened *)
EmptyAlbum == << <<>> >>

MCScenarios ==
    {Readings, Albums, Texts, Named2, {OddAlbum, SmallAlbum, EmptyAlbum}}

MCHosts == {<<"album">>, <<"[", ":", ":", "1", "]">>}

ATime == 1609459200
GetOf(uri) == [method |-> "GET", host |-> <<"album">>, uri |-> uri, time |-> ATime]

(* Every segment of a URI, alone and in twos; some also in threes and fours *)
Spelled(texts) ==
    {[i \in DOMAIN t |-> Lit(t[i])] : t \in texts}
    \cup {[i \in DOMAIN t |-> IF i = 1 THEN Esc(t[i]) ELSE Lit(t[i])] : t \in texts}
Plain ==
    {<<Word(w)>> : w \in {"index.html", "by-date", "keywords", "key", "css", "robots.txt",
                          "icon", "thumb", "a"}}
    \cup {Nil, YearText(2020), YearText(2999), YearText(3000),
          MonthText(<<2020, 12>>), MonthText(<<2020, 13>>), MonthText(<<2020, 0>>),
          DayText(NewYearsEve), DayText(<<2020, 2, 30>>), DayText(<<2021, 1, 3>>),
          <<Number(1, 4)>>, <<Number(1, 2)>>, <<Number(65000, 5)>>, <<Word("b")>>,
          PhotoText(P1), PhotoText(P2),
          <<Number(201231, 6), Underscore, Number(1, 4), Word(".jpg")>>,
          <<Number(UnsignedRange + 1, 7)>>,
          <<Number(201231, 6), Underscore, Number(UnsignedRange + 1, 7), Word(".jpg")>>,
          <<Number(201231, 6), Underscore, Number(1, 4), Word(".png")>>,
          <<Number(201231, 6), Underscore, Word("a"), Word(".jpg")>>}
Segment1 ==
    Spelled(Plain)
    \cup {<<Lit(Word("a")), Esc(Word("/")), Lit(Word("b"))>>, <<Lit(Word("a")), Bad>>, <<Bad>>,
          <<Esc(Number(2020, 4)), Esc(Word("-")), Lit(Number(12, 2))>>}
Segment3 == Spelled({Nil, <<Word("key")>>, <<Word("a")>>, DayText(NewYearsEve), <<Number(1, 4)>>})

Joined(ss) == FlattenSeq([i \in DOMAIN ss |-> <<Slash>> \o ss[i]])
Uris ==
    {Joined(<<a>>) : a \in Segment1} \cup {Joined(ss) : ss \in Segment1 \X Segment1}
    \cup {Joined(ss) : ss \in Segment3 \X Segment3 \X Segment3}
    \cup {Joined(ss) : ss \in [1..4 -> {Nil, <<Lit(Word("a"))>>, <<Lit(Word("key"))>>}]}
    \cup {Joined(ss) : ss \in [1..5 -> {Nil, <<Lit(Word("key"))>>}]}
    \cup {<<Lit(Word("x"))>> \o Joined(<<a>>) : a \in Segment1} \cup {<<>>}

HostNames == MCHosts \cup {<<>>, <<"other">>, <<"album", "s">>, <<"[", ":", "]">>}
OtherHosts == {name \o port : name \in HostNames, port \in Ports}

(* Around the first second of months, of the table and of its last month *)
Boundaries ==
    {Midnight(y, m, 1) : y \in {1979, 1980, 1999, 2000, 2001, 2020, 2021, 2029, 2030},
                         m \in {1, 2, 3, 12}}
Times ==
    UNION {{t - 1, t, t + 1} : t \in Boundaries} \cup {0, ATime + 12345, 2147483647}

SmallRequests ==
    {GetOf(uri) : uri \in Uris}
    \cup {[GetOf(UrlOf(AllWords)) EXCEPT !.host = h] : h \in OtherHosts}
    \cup {[GetOf(UrlOf(AllWords)) EXCEPT !.time = t] : t \in Times}
    \cup {[GetOf(UrlOf(AllWords)) EXCEPT !.method = "POST"]}

Front1 == GetOf(Joined(<<Nil>>))
Galleries == {<<"month", MonthOf(p.day)>> : p \in MCPhotos}
    \cup {<<"day", p.day>> : p \in MCPhotos}
    \cup {<<"photo", p>> : p \in MCPhotos}
    \cup {<<"key", <<"a">>>>, <<"key", <<"b">>>>, <<"key", <<"c">>>>, AllWords}
Pages1 == {GetOf(UrlOf(p)) : p \in Galleries}
Images == {GetOf(UrlOf(<<kind, p>>)) : kind \in {"image", "thumb"}, p \in MCPhotos}
YearPages(yy) == {GetOf(UrlOf(<<"year", y>>)) : y \in yy}
OddPages == {GetOf(UrlOf(<<"photo", [TenDigits EXCEPT !.digits = 4]>>)),
             GetOf(UrlOf(<<"image", [TenDigits EXCEPT !.digits = 4]>>))}

MCRequests(ff) ==
    CASE ff = SmallAlbum -> SmallRequests
      [] ff = EmptyAlbum -> YearPages(1970..2050) \cup {Front1}
      [] ff = OddAlbum   -> Pages1 \cup OddPages
      [] ff \in AlbumsOf(Blocks, 1..2) ->
            Pages1 \cup Images \cup YearPages(2020..2021) \cup {Front1}
      [] ff \in Albums -> Pages1
      [] OTHER -> {}

ASSUME HostsAreNamed

MCAlphabet == <<{"a"}, {"b", "c"}>>
=============================================================================
