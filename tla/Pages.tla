------------------------------- MODULE Pages --------------------------------
(***************************************************************************)
(* The generated pages of the album (allergy/page.cc) as the client gets   *)
(* them: a page object is made from the index for one request, and then    *)
(* entity::Generated asks it for one piece after another, once per tick.   *)
(* Content.tla has the requests, and the links between pages.              *)
(*                                                                         *)
(* A page is a sequence of items; the HTML around them is left out, except *)
(* what begins and ends a page.                                            *)
(***************************************************************************)
EXTENDS Album

CONSTANTS
    PerPiece,   \* photos in a piece of a gallery
    Alphabet    \* the headings of the page of all keywords, each a set of letters

ASSUME PieceAssumption == PerPiece \in Nat \ {0}
ASSUME AlphabetAssumption == Alphabet \in Seq(SUBSET STRING)

VARIABLES
    page,       \* the page being generated, or NoPage
    n,          \* its Chunk: pieces so far
    body        \* the pieces the client got

NoPage == <<"none">>
NotFound == <<"404">>

Preamble == <<"preamble">>
Epilogue == <<"epilogue">>

-----------------------------------------------------------------------------
(* The kinds of pages, and the photos in those which are galleries. *)
IsGallery(p) == p[1] \in {"month", "day", "key"}

Gallery(p) ==
    CASE p[1] = "month" -> InMonth(p[2])
      [] p[1] = "day"   -> OnDay(p[2])
      [] p[1] = "key"   -> WithKey(p[2])

(* The Chunk types; container::Chunk(20, ee) for a gallery *)
Pieces(p) ==
    LET rounded == (Len(Gallery(p)) + PerPiece - 1) \div PerPiece
    IN  CASE p[1] = "front" -> 2
          [] p[1] = "year"  -> 4
          [] p[1] = "photo" -> 2
          [] p[1] = "words" -> Len(Alphabet)
          [] IsGallery(p)   -> IF rounded = 0 THEN 1 ELSE rounded

(* Faulty: as if it were one past the last piece *)
LastPieceLate(p, i) == i = Pieces(p)

(* Chunk::first(), Chunk::last() *)
FirstPiece(i) == i = 0
LastPiece(p, i) == i + 1 = Pieces(p)

(* Faulty: a piece ends with the photo which begins the next one. *)
PhotographsOverlap(p, i) ==
    LET ee == Gallery(p)
        last == i + 1 = Pieces(p)
    IN  SubSeq(ee, i * PerPiece + 1, IF last THEN Len(ee) ELSE (i + 1) * PerPiece + 1)

(* container::Chunk::val(): the photos of piece i, counted from 0 *)
Photographs(p, i) ==
    LET ee == Gallery(p)
    IN  SubSeq(ee, i * PerPiece + 1,
               IF LastPiece(p, i) THEN Len(ee) ELSE (i + 1) * PerPiece)

-----------------------------------------------------------------------------
(* Years::Years(): photos per month, latest year first, and in all years *)
PhotosPerMonth(y) == [m \in 1..12 |-> Len(InMonth(<<y, m>>))]

Rows ==
    [i \in 1..(years.end - years.begin) |->
        [year |-> years.end - i, months |-> PhotosPerMonth(years.end - i)]]

Total(s) == FoldLeft(LAMBDA a, b : a + b, 0, s)

ColumnTotals ==
    [m \in 1..12 |-> Total([i \in DOMAIN Rows |-> Rows[i].months[m]])]

(* The parts which are there only in the first piece, or the last *)
When(condition, items) == IF condition THEN items ELSE <<>>

FrontItems(p, i) ==
    When(FirstPiece(i), <<Preamble>>)
    \o When(LastPiece(p, i),
            << <<"totals", ColumnTotals, Total(ColumnTotals)>> >>
            \o [r \in DOMAIN Rows |->
                  <<"year", Rows[r].year, Rows[r].months, Total(Rows[r].months)>>]
            \o <<Epilogue>>)

(***************************************************************************)
(* hput(ix, yyyy, quarter): each day, with how many photos there are, and  *)
(* the months which begin in a week (the last one has the word)            *)
(***************************************************************************)
Begins(week) == {MonthOf(d) : d \in {x \in ToSet(week) : IsDay(x) /\ x[3] = 1}}

Quarter(y, q) ==
    LET weeks == Weeks(y, 1 + (q - 1) * 3, 3)
    IN  [w \in DOMAIN weeks |->
            <<"week", weeks[w],
              [k \in 1..7 |->
                IF weeks[w][k] = NoDay THEN 0 ELSE Len(OnDay(weeks[w][k]))],
              Begins(weeks[w])>>]

YearItems(p, i) ==
    When(FirstPiece(i), << <<"preamble", <<p[2] - 1>>, <<p[2] + 1>> >> >>)
    \o Quarter(p[2], i + 1)
    \o When(LastPiece(p, i), <<Epilogue>>)

(* thumbdiv(), for the photos of a piece, and what is around them *)
Thumbnails(p, i, start) ==
    LET ee == Photographs(p, i)
    IN  When(FirstPiece(i), <<start>>)
        \o [k \in DOMAIN ee |-> <<"photo", ee[k].photo>>]
        \o When(LastPiece(p, i), <<Epilogue>>)

MonthItems(p, i) ==
    Thumbnails(p, i, <<"preamble", PrevMonth(p[2]), NextMonth(p[2])>>)
DayItems(p, i) ==
    Thumbnails(p, i, <<"preamble", PrevDay(p[2]), NextDayWithPhotos(p[2])>>)
KeywordItems(p, i) == Thumbnails(p, i, Preamble)

PhotoItems(p, i) ==
    LET e == entries[Search(p[2])]
    IN  When(FirstPiece(i), << Preamble, <<"entry", e.photo, e.stamp, e.text>> >>)
        \o When(LastPiece(p, i), << <<"keys", e.keys>>, <<"image", e.photo>>, Epilogue >>)

(* range(map, letter), for the letters of one heading *)
WordItems(p, i) ==
    LET letters == Alphabet[i + 1]
        keys == {k \in DOMAIN byKey : k # <<>> /\ k[1] \in letters}
    IN  When(FirstPiece(i), <<Preamble>>)
        \o << <<"words", letters, keys>> >>
        \o When(LastPiece(p, i), <<Epilogue>>)

(* Page::put(): the items of piece i *)
Piece(p, i) ==
    CASE p[1] = "front" -> FrontItems(p, i)
      [] p[1] = "year"  -> YearItems(p, i)
      [] p[1] = "photo" -> PhotoItems(p, i)
      [] p[1] = "words" -> WordItems(p, i)
      [] p[1] = "month" -> MonthItems(p, i)
      [] p[1] = "day"   -> DayItems(p, i)
      [] p[1] = "key"   -> KeywordItems(p, i)

-----------------------------------------------------------------------------
served == <<page, n, body>>

PInit == Init /\ page = NoPage /\ n = 0 /\ body = <<>>

(* The constructors throw 404 for a gallery of nothing and an unknown photo *)
Missing(p) ==
    \/ IsGallery(p) /\ Gallery(p) = <<>>
    \/ p[1] = "photo" /\ ~Has(p[2])

IsPage(p) == IsGallery(p) \/ p[1] \in {"front", "year", "photo", "words"}

NoneOpen == page \in {NoPage, NotFound}
Done == NoneOpen \/ (~NoneOpen /\ n = Pieces(page))

(* A page is constructed, or, with NotFound and NoPage, there is none. *)
Open(p) ==
    /\ page' = p
    /\ n' = 0
    /\ body' = <<>>

(* entity::Generated::tick() *)
Tick ==
    /\ Ready
    /\ ~Done
    /\ body' = Append(body, Piece(page, n))
    /\ n' = n + 1
    /\ UNCHANGED <<vars, page>>

-----------------------------------------------------------------------------
Items(kind) ==
    LET all == FlattenSeq(body)
    IN  Picked(all, {i \in DOMAIN all : all[i][1] = kind})

Complete(kind) == Ready /\ page[1] = kind /\ n = Pieces(page)

(***************************************************************************)
(* A page begins once, and ends once, at its end.  On the way no piece is  *)
(* empty: under the chunked coding (filter.cc 32-41) that would be the     *)
(* last-chunk, and end the page for the client.                            *)
(***************************************************************************)
PagesAreWhole ==
    /\ \A i \in DOMAIN body : body[i] # <<>>
    /\ Done =>
        LET all == FlattenSeq(body)
        IN  /\ \A i \in DOMAIN all : all[i][1] = "preamble" <=> i = 1
            /\ \A i \in DOMAIN all : all[i] = Epilogue <=> i = Len(all)

(* The photos of a gallery, by what it is a gallery of *)
Belongs(e, p) ==
    CASE p[1] = "month" -> MonthOf(e.stamp.day) = p[2]
      [] p[1] = "day"   -> e.stamp.day = p[2]
      [] p[1] = "key"   -> p[2] \in e.keys

(* Where the galleries are what the manual says: see AllDated. *)
Timed(p) == p[1] = "key" \/ AllDated

(***************************************************************************)
(* A gallery shows each of its photos once, however it is divided into     *)
(* pieces; for a keyword, that is found by positions which were taken after*)
(* sorting and weeding.  If there are timestamps, those of a month and of  *)
(* a day are shown oldest first (allergyd.1 50), and those of a keyword in *)
(* order of time: which way is left open, as allergyd.1 70 says "newest    *)
(* first" and the code has the oldest first there too.                     *)
(***************************************************************************)
GalleriesAreComplete ==
    Ready /\ IsGallery(page) /\ Done /\ Timed(page) =>
        LET ee == Picked(entries, {i \in DOMAIN entries : Belongs(entries[i], page)})
            photos == [i \in DOMAIN ee |-> <<"photo", ee[i].photo>>]
            shown == Items("photo")
        IN  /\ Len(shown) = Len(photos) /\ ToSet(shown) = ToSet(photos)
            /\ AllDated => \/ shown = photos
                           \/ page[1] = "key" /\ shown = Reverse(photos)

(* Each day of a year is shown once, on its weekday, each month's name once, *)
(* and the numbers of photos add up to those of the year.                  *)
YearIsRight ==
    LET weeks == Items("week")
    IN  /\ ShowsYear([w \in DOMAIN weeks |-> weeks[w][2]], page[2])
        /\ Total([w \in DOMAIN weeks |-> Total(weeks[w][3])]) = Len(InYear(page[2]))
        /\ \A m \in 1..12 :
              Cardinality({w \in DOMAIN weeks : <<page[2], m>> \in weeks[w][4]}) = 1

(* The numbers add up, by rows and by columns, to the photos with a date,  *)
(* and no year is left out.                                                *)
FrontPageAddsUp ==
    LET rows == Items("year")
        all == Items("totals")[1]
        dated == Len(SelectSeq(entries, LAMBDA e : IsDay(e.stamp.day)))
    IN  /\ all[3] = dated
        /\ Total([i \in DOMAIN rows |-> rows[i][4]]) = dated
        /\ \A i \in 1..(Len(rows) - 1) : rows[i][2] = rows[i + 1][2] + 1

(***************************************************************************)
(* The page of a year, of those for which calendar.cc 14 vouches, is right *)
(* as a calendar, and it and the front page agree with the album.          *)
(***************************************************************************)
CalendarIsRight ==
    /\ Complete("year") /\ page[2] \in 1970..2050 => YearIsRight
    /\ Complete("front") => FrontPageAddsUp
=============================================================================
