------------------------------- MODULE Dates --------------------------------
(***************************************************************************)
(* HTTP dates (date.h, date.cc, dateparse.cc): class Calendar, which is a  *)
(* table of the first seconds of months, and class DateConv.               *)
(*                                                                         *)
(* A time is a number of seconds since 1970.  A broken-down time is a      *)
(* struct tm; a date is one written down: its form, its fields and, for    *)
(* the parser, its length.                                                 *)
(***************************************************************************)
EXTENDS Calendar

Epoch == 1980
Years == 50

SecondsPerDay == 24 * 60 * 60

(* timegm(3), for the first second of a day; and the weekday it fills in *)
Midnight(y, m, d) == (DayNumber(y, m, d) - DayNumber(1970, 1, 1)) * SecondsPerDay
SundayBased(y, m, d) == (RealWeekday(y, m, d) + 1) % 7

(* Calendar::year(), Calendar::mon() *)
TableYear(k) == Epoch + k \div 12
TableMonth(k) == k % 12

(* Calendar::Calendar() *)
val == [k \in 0..(12 * Years - 1) |-> Midnight(TableYear(k), TableMonth(k) + 1, 1)]
wal == [k \in 0..(12 * Years - 1) |-> SundayBased(TableYear(k), TableMonth(k) + 1, 1)]

TableEnd == 12 * Years

(* Faulty: the first second of a month belongs to the one before. *)
FindStrict(t) ==
    LET p == Cardinality({k \in DOMAIN val : val[k] < t})
    IN  IF p \in {0, TableEnd} THEN TableEnd ELSE p - 1

(* Calendar::find(): p is where std::upper_bound() points *)
Find(t) ==
    LET p == Cardinality({k \in DOMAIN val : val[k] <= t})
    IN  IF p \in {0, TableEnd} THEN TableEnd ELSE p - 1

-----------------------------------------------------------------------------
(* The last second which a time_t of 32 bits can express *)
TimeMax == 2147483647

(* gmtime_r(3), up to then *)
Gmtime(t) ==
    LET at == t \div SecondsPerDay
        left == t % SecondsPerDay
        day(y, m, d) == DayNumber(y, m, d) - DayNumber(1970, 1, 1)
        y == CHOOSE x \in 1970..2038 : day(x, 1, 1) <= at /\ at < day(x + 1, 1, 1)
        m == CHOOSE x \in 1..12 : at - day(y, x, 1) \in 0..(RealDays(y, x) - 1)
        d == at - day(y, m, 1) + 1
    IN  [year |-> y - 1900, mon |-> m - 1, mday |-> d, wday |-> SundayBased(y, m, d),
         hour |-> left \div 3600, min |-> (left \div 60) % 60, sec |-> left % 60]

(* DateConv::format(): the fields, which are written as RFC 1123 has them *)
Format(t) ==
    LET k == Find(t)
        dt == t - val[k]
        days == dt \div SecondsPerDay
    IN  IF k = TableEnd THEN Gmtime(t)
        ELSE [year |-> TableYear(k) - 1900, mon |-> TableMonth(k),
              mday |-> 1 + days, wday |-> (wal[k] + days) % 7,
              hour |-> (dt \div 3600) % 24, min |-> (dt \div 60) % 60,
              sec |-> dt % 60]

-----------------------------------------------------------------------------
(* The three forms of a date, and how long they are *)
Forms == {"RFC1123", "RFC850", "asctime"}

WeekdayLengths == <<6, 6, 7, 9, 8, 6, 8>>

LengthOf(form, tm) ==
    CASE form = "RFC1123" -> 29
      [] form = "RFC850"  -> WeekdayLengths[tm.wday + 1] + 24
      [] form = "asctime"  -> 24

(* A date in each form, as other programs write it *)
InForm(form, tm) ==
    [form |-> form, length |-> LengthOf(form, tm),
     tm |-> [tm EXCEPT !.year = IF form = "RFC850" THEN @ % 100 ELSE @ + 1900]]

(* timegm(3), of the fields which parse() fills in *)
Timegm(tm) ==
    Midnight(tm.year + 1900, tm.mon + 1, tm.mday)
        + 3600 * tm.hour + 60 * tm.min + tm.sec

(* tm_year, of the two or four digits in a date *)
ParsedYear(form, year) ==
    IF form = "RFC850" THEN IF year < 70 THEN year + 100 ELSE year
    ELSE year - 1900

(***************************************************************************)
(* Which form the parser takes a date for: the length decides, and then    *)
(* the punctuation has to be right.                                        *)
(***************************************************************************)
Taken(date) ==
    LET by == CASE date.length = 29 -> "RFC1123"
                [] date.length = 24 -> "asctime"
                [] date.length >= 30 -> "RFC850"
                [] OTHER -> "none"
    IN  IF by = date.form THEN by ELSE "none"

(* DateConv::parse(): 0 for what is none of the forms *)
Parse(date) ==
    IF Taken(date) = "none" THEN 0
    ELSE Timegm([date.tm EXCEPT !.year = ParsedYear(date.form, @)])

-----------------------------------------------------------------------------
(***************************************************************************)
(* What is written is the time in UTC, the day exists, and all three forms *)
(* of it are read back as the same time.                                   *)
(***************************************************************************)
IsTime(tm, t) ==
    LET y == tm.year + 1900
        m == tm.mon + 1
    IN  /\ m \in 1..12 /\ tm.mday \in 1..RealDays(y, m)
        /\ tm.hour \in 0..23 /\ tm.min \in 0..59 /\ tm.sec \in 0..59
        /\ tm.wday = SundayBased(y, m, tm.mday)
        /\ Timegm(tm) = t
        /\ \A form \in Forms : Parse(InForm(form, tm)) = t
=============================================================================
