------------------------------ MODULE Calendar ------------------------------
(***************************************************************************)
(* Days, months and the week-by-week class Calendar                        *)
(* (allergy/calendar.h, allergy/calendar.cc).                              *)
(*                                                                         *)
(* A Day is <<year, month, day>>, a Month <<year, month>>; the invalid ones*)
(* are all zeros.                                                          *)
(***************************************************************************)
EXTENDS Naturals, Sequences, FiniteSets, SequencesExt, Lists

LeapYear(year) == year % 4 = 0

Days(year, mm) ==
    CASE mm \in {4, 6, 9, 11} -> 30
      [] mm = 2               -> IF LeapYear(year) THEN 29 ELSE 28
      [] OTHER                -> 31

NoDay == <<0, 0, 0>>

(* Day::Day(year, mm, dd) *)
Day(year, mm, dd) ==
    IF mm \in 1..12 /\ dd \in 1..Days(year, mm) THEN <<year, mm, dd>>
    ELSE NoDay

(***************************************************************************)
(* How strtou() ends, with a limit, when the digits have become the        *)
(* unsigned n.  Dates have at most six digits, so n is what they say.      *)
(***************************************************************************)
Limited(n, limit) == IF n < limit THEN n ELSE 0

(* Day::Day(a, b): a date as it is written, yyyy-mm-dd; NoDay if it is not. *)
ParsedDay(date) ==
    LET year == Limited(date[1], 3000)
        mm == Limited(date[2], 13)
    IN  <<year, mm, Limited(date[3], 1 + Days(year, mm))>>

IsDay(day) == day[1] # 0 /\ day[2] # 0 /\ day[3] # 0
YearOf(day) == day[1]
MonthOf(day) == <<day[1], day[2]>>

(* operator< for the std::arrays in Day and Month *)
Before(a, b) ==
    \E i \in DOMAIN a : a[i] < b[i] /\ \A j \in 1..(i - 1) : a[j] = b[j]

(* Faulty: strictly before *)
NotAfterStrict(a, b) == Before(a, b)

NotAfter(a, b) == ~Before(b, a)

(* prev(month), next(month) *)
PrevMonth(m) == IF m[2] = 1 THEN <<m[1] - 1, 12>> ELSE <<m[1], m[2] - 1>>
NextMonth(m) == IF m[2] = 12 THEN <<m[1] + 1, 1>> ELSE <<m[1], m[2] + 1>>

-----------------------------------------------------------------------------
(* The weekday of year-01-01, counting from 1970: 0 is Monday. *)
NewYear(year) ==
    LET years == 1970..(year - 1)
    IN  (3 + Cardinality(years) + Cardinality({y \in years : LeapYear(y)})) % 7

Offsets == <<0, 3, 3, 6, 1, 4, 6, 2, 5, 0, 3, 5>>
LeapOffsets == <<0, 3, 4, 0, 2, 5, 0, 3, 6, 1, 4, 6>>

(* Faulty: the same table in all years. *)
WeekdayCommon(year, mm) == (NewYear(year) + Offsets[mm]) % 7

(* The weekday of the first of a month. *)
Weekday(year, mm) ==
    (NewYear(year) + (IF LeapYear(year) THEN LeapOffsets ELSE Offsets)[mm]) % 7

(* Calendar::Calendar(year, mm, months) *)
From(year, mm, months) ==
    [year |-> year, mm |-> mm, dd |-> 1, mend |-> mm + months, week |-> <<>>]

(* One day of a week, unless the months are over. *)
NextDay(c) ==
    IF c.mm = c.mend THEN [c EXCEPT !.week = Append(@, NoDay)]
    ELSE LET d == [c EXCEPT !.week = Append(@, Day(c.year, c.mm, c.dd))]
         IN  IF c.dd + 1 > Days(c.year, c.mm)
             THEN [d EXCEPT !.dd = 1, !.mm = @ + 1]
             ELSE [d EXCEPT !.dd = @ + 1]

(* Calendar::get(), before the last month has ended *)
Get(c) ==
    LET skip == IF c.dd = 1 THEN Weekday(c.year, c.mm) ELSE 0
        day(x, i) == IF i <= skip THEN [x EXCEPT !.week = Append(@, NoDay)]
                     ELSE NextDay(x)
    IN  FoldLeft(day, [c EXCEPT !.week = <<>>], <<1, 2, 3, 4, 5, 6, 7>>)

(* A month touches at most six weeks. *)
WeekBound(months) == 6 * months

(* All weeks, as the loop "while (calendar.get(week))" sees them. *)
Weeks(year, mm, months) ==
    LET more(x, i) ==
            IF x.c.mm = x.c.mend THEN x
            ELSE LET g == Get(x.c)
                 IN  [weeks |-> Append(x.weeks, g.week), c |-> g]
        start == [weeks |-> <<>>, c |-> From(year, mm, months)]
    IN  FoldLeft(more, start, [i \in 1..WeekBound(months) |-> i]).weeks

-----------------------------------------------------------------------------
(***************************************************************************)
(* The calendar as everybody else has it: the Gregorian rules, and the day *)
(* of the week from the number of days since an epoch.                     *)
(***************************************************************************)
RealLeapYear(y) == y % 4 = 0 /\ (y % 100 # 0 \/ y % 400 = 0)

RealDays(y, m) ==
    IF m = 2 THEN IF RealLeapYear(y) THEN 29 ELSE 28
    ELSE 30 + ((m + m \div 8) % 2)

(* March is the first month of these years. *)
DayNumber(y, m, d) ==
    LET yy == IF m <= 2 THEN y - 1 ELSE y
        mm == (m + 9) % 12
    IN  365 * yy + yy \div 4 - yy \div 100 + yy \div 400
        + (153 * mm + 2) \div 5 + d

RealWeekday(y, m, d) == (DayNumber(y, m, d) + 1) % 7

(* The days of a year, in order. *)
RealYear(y) ==
    FlattenSeq([m \in 1..12 |-> [d \in 1..RealDays(y, m) |-> <<y, m, d>>]])

(* The weeks show exactly these days, in order, each on its weekday. *)
ShowsYear(weeks, y) ==
    /\ SelectSeq(FlattenSeq(weeks), LAMBDA d : d # NoDay) = RealYear(y)
    /\ \A i \in DOMAIN weeks : \A k \in 1..7 :
          LET d == weeks[i][k]
          IN  d # NoDay => RealWeekday(d[1], d[2], d[3]) = k - 1
=============================================================================
