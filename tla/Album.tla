------------------------------- MODULE Album --------------------------------
(***************************************************************************)
(* The photo album of allergyd: reading the index files (class Files, the  *)
(* constructor of allergy::Index), and looking things up in the result.    *)
(*                                                                         *)
(* A line of a file is BlankLine, CommentLine, or a record of what it can  *)
(* be read as: a file name, a timestamp, a text for Keys.  A date in it is *)
(* the three numbers written there, or NoDay if there is none.             *)
(* Trailing white-space has been trimmed; a file which cannot be opened is *)
(* an empty one.  The time of a Timestamp is a number.                     *)
(***************************************************************************)
EXTENDS Calendar

K == INSTANCE Keys

CONSTANTS
    Scenarios,  \* families of command lines: sequences of files, each one of lines
    Photos,     \* what is asked for
    UnsignedRange  \* how many numbers an unsigned int can be: 2^32 in the builds

(***************************************************************************)
(* What is read from a line are numbers, if that is what is written there; *)
(* an unsigned short can count their digits.                               *)
(***************************************************************************)
MaxDigits == 65535
PossibleNames ==
    [date : [1..3 -> Nat], width : Nat, serial : Nat, digits : 0..MaxDigits, suffix : STRING]
PossibleStamps == [day : [1..3 -> Nat], time : Nat]
PossibleLines ==
    [name : PossibleNames, stamp : PossibleStamps, text : Seq(STRING)]

ASSUME ScenarioAssumption == \A family \in Scenarios : family \subseteq Seq(Seq(PossibleLines))
ASSUME PhotoAssumption ==
    Photos \subseteq [day : [1..3 -> Nat], serial : Nat, digits : Nat]
ASSUME UnsignedAssumption == UnsignedRange \in Nat /\ 65000 < UnsignedRange

VARIABLES
    files,      \* the files which Files was given
    rest,       \* the lines not yet read, of the current and the later files
    line,       \* Files::position().line
    v,          \* the lines of the entry being read
    entries,    \* Index::entries
    byKey,      \* Index::by.key: positions in entries (from 1)
    years,      \* Index::years
    pc          \* "read" or "ready"

(* The text of an entry which repeats the one before. *)
Ibid == <<"ibid">>

(***************************************************************************)
(* A file name is a date of width characters, "_", a serial number of some *)
(* digits (0 if there is anything else in it), and a suffix.               *)
(***************************************************************************)
NoName == [date |-> NoDay, width |-> 0, serial |-> 0, digits |-> 0, suffix |-> ""]

NoPhoto == [day |-> NoDay, serial |-> 0, digits |-> 0]
IsPhoto(p) == IsDay(p.day) /\ p.digits # 0

(* strtou(), with a limit: acc, an unsigned, has wrapped before it is tested. *)
Strtou(number, limit) == Limited(number % UnsignedRange, limit)

(* Serial::Serial(a, b) *)
Serial(name) == Strtou(name.serial, 65000)

(* shortdate() *)
ShortDate(date) == Day(2000 + date[1], date[2], date[3])

(* Photo::Photo(a, b) *)
PhotoOf(name) ==
    IF name.width \in {6, 10} /\ name.suffix = ".jpg"
    THEN [day    |-> IF name.width = 6 THEN ShortDate(name.date) ELSE ParsedDay(name.date),
          serial |-> Serial(name),
          digits |-> name.digits]
    ELSE NoPhoto

(* Timestamp{}: an invalid Day and an empty string *)
NoStamp == [day |-> NoDay, time |-> 0]

(* Timestamp::Timestamp(s) *)
StampOf(stamp) == [stamp EXCEPT !.day = ParsedDay(@)]

BlankLine == [name |-> NoName, stamp |-> NoStamp, text |-> <<>>]
CommentLine == [name |-> NoName, stamp |-> NoStamp, text |-> <<"#">>]

-----------------------------------------------------------------------------
(* Photo::operator== and Photo::operator<: the digits do not matter. *)
SamePhoto(p, q) == p.day = q.day /\ p.serial = q.serial

PhotoBefore(p, q) ==
    IF p.day = q.day THEN p.serial < q.serial ELSE Before(p.day, q.day)

(* Entry::operator<, that is Timestamp::operator< *)
Earlier(a, b) ==
    IF a.stamp.day = b.stamp.day THEN a.stamp.time < b.stamp.time
    ELSE Before(a.stamp.day, b.stamp.day)

JoinLines(lines) ==
    LET step(s, l) == IF s = <<>> THEN <<l.text>> ELSE s \o << <<"\n">>, l.text>>
        parts == FoldLeft(step, <<>>, lines)
    IN  IF parts = <<>> THEN <<>> ELSE FlattenSeq(parts)

(* Entry::Entry(): prev is a sequence of the entry before, if there is one. *)
NewEntry(name, lines, stamp, prev) ==
    LET text == JoinLines(lines)
        own  == [photo |-> PhotoOf(name),
                 stamp |-> stamp,
                 text  |-> K!TextOf(text),
                 keys  |-> ToSet(K!KeysOf(text))]
    IN  IF own.text = Ibid /\ prev # <<>>
        THEN [own EXCEPT !.text = prev[1].text, !.keys = prev[1].keys]
        ELSE own

(* parse(): the entry in these lines, after the entries ee *)
ParseEntry(lines, ee) ==
    LET name  == Head(lines).name
        stamp == StampOf(lines[2].stamp)
        prev  == IF ee = <<>> THEN <<>> ELSE <<Last(ee)>>
    IN  IF Len(lines) = 1 THEN NewEntry(name, <<>>, NoStamp, <<>>)
        ELSE IF ~IsDay(stamp.day) THEN NewEntry(name, Tail(lines), NoStamp, prev)
        ELSE NewEntry(name, Tail(Tail(lines)), stamp, prev)

(* Faulty: bad entries are reported, and kept. *)
EmitAlways(ee, lines) == Append(ee, ParseEntry(lines, ee))

(* emit(): the entry is kept if its photo is valid. *)
Emit(ee, lines) ==
    LET e == ParseEntry(lines, ee)
    IN  IF IsPhoto(e.photo) THEN Append(ee, e) ELSE ee

-----------------------------------------------------------------------------
(* std::stable_sort(): equal elements keep their order. *)
StableSort(ee) ==
    LET rank(i) == Cardinality({j \in DOMAIN ee :
                       \/ Earlier(ee[j], ee[i])
                       \/ ~Earlier(ee[i], ee[j]) /\ j <= i})
    IN  [k \in DOMAIN ee |-> ee[CHOOSE i \in DOMAIN ee : rank(i) = k]]

(* Faulty: duplicates are reported, and kept. *)
WeedNot(ee) == ee

(* weed(): std::unique(), of adjacent entries for the same photo *)
Weed(ee) ==
    LET step(s, e) == IF s # <<>> /\ SamePhoto(Last(s).photo, e.photo)
                      THEN s ELSE Append(s, e)
    IN  FoldLeft(step, <<>>, ee)

(* invert() *)
Invert(ee) ==
    [k \in UNION {e.keys : e \in ToSet(ee)} |->
        Places(ee, {i \in DOMAIN ee : k \in ee[i].keys})]

NoYears == [begin |-> 0, end |-> 0]
YearsOf(ee) ==
    IF ee = <<>> THEN NoYears
    ELSE [begin |-> YearOf(Head(ee).stamp.day),
          end   |-> YearOf(Last(ee).stamp.day) + 1]

-----------------------------------------------------------------------------
vars == <<files, rest, line, v, entries, byKey, years, pc>>

Init ==
    /\ \E family \in Scenarios : files \in family
    /\ rest = files
    /\ line = 0
    /\ v = <<>>
    /\ entries = <<>>
    /\ byKey = <<>>
    /\ years = NoYears
    /\ pc = "read"

(* The first file, from i on, which has lines left *)
Remaining == {i \in DOMAIN rest : rest[i] # <<>>}
Current == CHOOSE i \in Remaining : \A j \in Remaining : i <= j

(* Faulty: an entry which ends with its file is forgotten. *)
FlushNever(first) == entries

(* "if (in.first() && has_entry()) emit()" *)
Flush(first) ==
    IF first /\ v # <<>> THEN Emit(entries, v) ELSE entries

(* One turn of the loop: Files::getline(), and what the line does *)
ReadLine ==
    /\ pc = "read"
    /\ Remaining # {}
    /\ LET i == Current
           l == Head(rest[i])
           first == i # 1 \/ line = 0
           ee == Flush(first)
           lines == IF first THEN <<>> ELSE v
       IN  /\ rest' = <<Tail(rest[i])>> \o SubSeq(rest, i + 1, Len(rest))
           /\ line' = IF first THEN 1 ELSE line + 1
           /\ \/ /\ l = CommentLine
                 /\ entries' = ee /\ v' = lines
              \/ /\ l = BlankLine
                 /\ entries' = (IF lines # <<>> THEN Emit(ee, lines) ELSE ee)
                 /\ v' = <<>>
              \/ /\ l \notin {CommentLine, BlankLine}
                 /\ entries' = ee /\ v' = Append(lines, l)
    /\ UNCHANGED <<files, byKey, years, pc>>

(* The end of all files, and the rest of the constructor *)
EndOfFiles ==
    /\ pc = "read"
    /\ Remaining = {}
    /\ LET read == IF v # <<>> THEN Emit(entries, v) ELSE entries
           ee == Weed(StableSort(read))
       IN  /\ entries' = ee
           /\ byKey' = Invert(ee)
           /\ years' = YearsOf(ee)
    /\ v' = <<>>
    /\ pc' = "ready"
    /\ UNCHANGED <<files, rest, line>>

Next == ReadLine \/ EndOfFiles

Spec == Init /\ [][Next]_vars

-----------------------------------------------------------------------------
(***************************************************************************)
(* lower_bound(): the loop of a binary search over the positions from a to *)
(* b - 1, where S are those which fulfil the predicate.  Positions count   *)
(* from 1.                                                                 *)
(***************************************************************************)
LowerBound(a, b, S) ==
    LET lb[r \in (a..b) \X (a..b)] ==
            LET x == r[1]
                y == r[2]
                c == x + (y - x) \div 2
            IN  IF x = y THEN x
                ELSE IF c \in S THEN lb[<<c + 1, y>>]
                ELSE lb[<<x, c>>]
    IN  lb[<<a, b>>]

End == Len(entries) + 1

(* search(): the position of p, or the end *)
Search(p) ==
    LET i == LowerBound(1, End, {j \in DOMAIN entries : PhotoBefore(entries[j].photo, p)})
    IN  IF i # End /\ SamePhoto(entries[i].photo, p) THEN i ELSE End

Has(p) == Search(p) # End

PrevPhoto(p) ==
    LET i == Search(p)
    IN  IF i \in {1, End} THEN NoPhoto ELSE entries[i - 1].photo

NextPhoto(p) ==
    LET i == Search(p)
    IN  IF i = End \/ i + 1 = End THEN NoPhoto ELSE entries[i + 1].photo

(***************************************************************************)
(* Index::in(), Index::on(): the entries whose date is key.  The second    *)
(* search starts where the first one ended.                                *)
(***************************************************************************)
InRange(dates, key) ==
    LET a == LowerBound(1, End, {i \in DOMAIN dates : Before(dates[i], key)})
        b == LowerBound(a, End, {i \in DOMAIN dates : NotAfter(dates[i], key)})
    IN  SubSeq(entries, a, b - 1)

InYear(y) ==
    InRange([i \in DOMAIN entries |-> <<YearOf(entries[i].stamp.day)>>], <<y>>)
InMonth(m) ==
    InRange([i \in DOMAIN entries |-> MonthOf(entries[i].stamp.day)], m)
OnDay(day) ==
    InRange([i \in DOMAIN entries |-> entries[i].stamp.day], day)

(* Index::prev(day), Index::next(day) *)
PrevDay(day) ==
    LET i == LowerBound(1, End,
                {j \in DOMAIN entries : Before(entries[j].stamp.day, day)})
    IN  IF i = 1 THEN NoDay ELSE entries[i - 1].stamp.day

NextDayWithPhotos(day) ==
    LET i == LowerBound(1, End,
                {j \in DOMAIN entries : NotAfter(entries[j].stamp.day, day)})
    IN  IF i = End THEN NoDay ELSE entries[i].stamp.day

(* Index::key() *)
WithKey(k) ==
    IF k \in DOMAIN byKey
    THEN StableSort([i \in DOMAIN byKey[k] |-> entries[byKey[k][i]]])
    ELSE <<>>

-----------------------------------------------------------------------------
IsStamp(t) == IsDay(t.day) \/ t = NoStamp

TypeOK ==
    /\ line \in Nat
    /\ \A i \in DOMAIN v : v[i] \notin {BlankLine, CommentLine}
    /\ \A e \in ToSet(entries) :
          IsPhoto(e.photo) /\ IsStamp(e.stamp) /\ (\A k \in e.keys : k \in Seq(K!Tokens))
    /\ \A k \in DOMAIN byKey : byKey[k] # <<>> /\ ToSet(byKey[k]) \subseteq DOMAIN entries
    /\ years.begin <= years.end
    /\ pc \in {"read", "ready"}

Ready == pc = "ready"

(***************************************************************************)
(* The file names in the first lines of entries: those which follow a blank*)
(* line, or begin a file, disregarding comments.  After j lines of a file  *)
(* one is Within an entry, unless a blank line has ended it.               *)
(***************************************************************************)
IsText(l) == l \notin {BlankLine, CommentLine}

Within(file, j) ==
    \E i \in 1..j : IsText(file[i]) /\ \A h \in i..j : file[h] # BlankLine

NamesIn(file) ==
    {file[j].name : j \in {i \in DOMAIN file : IsText(file[i]) /\ ~Within(file, i - 1)}}

(***************************************************************************)
(* "yyyy-mm-dd_serial.jpg or yymmdd_serial.jpg" (photo.cc 61), if there is *)
(* such a day.  The code mixes serial numbers up which do not fit: of each *)
(* an unsigned int remains, and from 65000 on that is 0.                   *)
(***************************************************************************)
Meant(name) ==
    LET year == name.date[1] + (IF name.width = 6 THEN 2000 ELSE 0)
        m == name.date[2]
        d == name.date[3]
        acc == name.serial % UnsignedRange
    IN  IF /\ name.width \in {6, 10} /\ name.suffix = ".jpg" /\ name.digits > 0
           /\ m \in 1..12 /\ d \in 1..RealDays(year, m)
        THEN {[day    |-> <<year, m, d>>,
               serial |-> IF acc >= 65000 THEN 0 ELSE acc,
               digits |-> name.digits]}
        ELSE {}

(***************************************************************************)
(* Every photo named in the files is in the index, in whichever form it is *)
(* named, whatever comments, blank lines, ends of files, repetitions and   *)
(* bad entries there are around it; and nothing else is.                   *)
(***************************************************************************)
NoPhotoLost ==
    LET names == UNION {NamesIn(files[i]) : i \in DOMAIN files}
        named == UNION {Meant(name) : name \in names}
    IN  Ready =>
        /\ \A p \in named : \E e \in ToSet(entries) : SamePhoto(e.photo, p)
        /\ \A e \in ToSet(entries) : e.photo \in named

(* Photos in the same order as their timestamps, as entry.h hopes. *)
PhotosInOrder ==
    \A i, j \in DOMAIN entries :
        i < j => ~PhotoBefore(entries[j].photo, entries[i].photo)

(***************************************************************************)
(* If so, has() and get() find the photos of the index and no others, and  *)
(* next() and prev() lead through all of them, each once: the search, the  *)
(* sorting and the weeding agree about what comes first.                   *)
(***************************************************************************)
PhotosAreLinked ==
    Ready /\ PhotosInOrder =>
        /\ \A i \in DOMAIN entries :
              LET p == entries[i].photo
                  at(k) == IF k \in DOMAIN entries THEN entries[k].photo ELSE NoPhoto
              IN  Search(p) = i /\ PrevPhoto(p) = at(i - 1) /\ NextPhoto(p) = at(i + 1)
        /\ \A p \in Photos :
              Has(p) => \E e \in ToSet(entries) : SamePhoto(e.photo, p)

(* These are the entries at the positions S, which are side by side. *)
AreAt(ee, S) ==
    \E a \in 1..End, b \in 0..Len(entries) : S = a..b /\ ee = SubSeq(entries, a, b)

(***************************************************************************)
(* Every entry has a timestamp.  One without is on no day, and before all  *)
(* others, whereas allergy.5 84 says that allergyd orders the photos "by   *)
(* timestamp (or else timestamp in the filename), then by file order".     *)
(***************************************************************************)
AllDated == \A e \in ToSet(entries) : IsDay(e.stamp.day)

(***************************************************************************)
(* In an album with all its timestamps, the photos of a day, of a month    *)
(* and of a year are exactly those, in order of time; prev(day) and        *)
(* next(day) skip just the days without any.                               *)
(***************************************************************************)
RangesAreExact ==
    Ready /\ AllDated => \A day \in {p.day : p \in Photos} :
        /\ AreAt(OnDay(day), {i \in DOMAIN entries : entries[i].stamp.day = day})
        /\ AreAt(InMonth(MonthOf(day)),
                 {i \in DOMAIN entries : MonthOf(entries[i].stamp.day) = MonthOf(day)})
        /\ AreAt(InYear(YearOf(day)),
                 {i \in DOMAIN entries : YearOf(entries[i].stamp.day) = YearOf(day)})
        /\ LET n == NextDayWithPhotos(day)
                p == PrevDay(day)
            IN  \A e \in ToSet(entries) :
                  /\ Before(day, e.stamp.day) => n # NoDay /\ ~Before(e.stamp.day, n)
                  /\ Before(e.stamp.day, day) => ~Before(p, e.stamp.day)
        /\ \A i, j \in DOMAIN entries :
              i < j => ~Earlier(entries[j], entries[i])

(***************************************************************************)
(* The parser for keywords does what keys.h says, with the descriptions in *)
(* the files: every key is found, and the text is what is not in brackets. *)
(***************************************************************************)
KeysAreParsed ==
    Len(v) > 2 =>
        LET text == JoinLines(SubSeq(v, 3, Len(v)))
        IN  K!AllKeysFound(text) /\ K!TextIsStripped(text)
=============================================================================
