----------------------------- MODULE Timestamp -----------------------------
(***************************************************************************)
(* APRS timestamps on their way from one station to another:               *)
(* encode_timestamp (src/encode.rs) makes one of the sender's clock, and   *)
(* parse_timestamp (src/timestamp.rs) fills in, from the clock of the      *)
(* receiver, the year, month and day that it leaves out.                   *)
(*                                                                         *)
(* Time passes between the two, and the sender's clock may be fast.  An    *)
(* instant is a day, counted from 1970-01-01, and a second of that day:    *)
(* div_euclid and rem_euclid of the seconds that the code starts from.     *)
(***************************************************************************)
EXTENDS Division, Sequences

CONSTANTS
  Starts,    \* the instants at which the sender may make its timestamp
  Skews,     \* seconds by which the sender's clock may be fast
  Foreign,   \* timestamps of other programs
  Delay,     \* seconds between two looks at the clock
  MaxDays    \* bound: days from the timestamp to its reception

ASSUME ClockAssumption ==
  /\ \A s \in Starts : s.day \in Int /\ s.second \in Nat /\ s.second < 86400
  /\ \A s \in Skews : s \in Nat /\ s <= 86400
  /\ Delay \in Nat \ {0} /\ Delay <= 86400 /\ MaxDays \in Nat

VARIABLES
  start,     \* the instant at which the timestamp was made
  now,       \* the receiver's clock
  skew,      \* how fast the sender's clock is
  own,       \* the timestamp is made by encode_timestamp
  carrier,   \* what carries the timestamp: "object" or another "report"
  step,      \* "new", "sent" or "received"
  raw,       \* the timestamp: three numbers of two digits and a suffix
  decoded    \* the Option that the receiver makes of it: a set of one or none

vars == <<start, now, skew, own, carrier, step, raw, decoded>>

After(instant, seconds) ==
  LET total == instant.second + seconds
  IN  [day |-> instant.day + total \div 86400, second |-> total % 86400]

-----------------------------------------------------------------------------
(* The calendar. *)

\* A mutant of CivilFromDays: centuries are leap years.
CivilFromDaysJulian(days) ==
  LET z == days + 719468
      era == Quotient(IF z >= 0 THEN z ELSE z - 146096, 146097)
      doe == z - era * 146097
      yoe == (doe - doe \div 1460) \div 365
      doy == doe - (365 * yoe + yoe \div 4)
      mp == (5 * doy + 2) \div 153
      month == mp + IF mp < 10 THEN 3 ELSE -9
  IN  [year |-> yoe + era * 400 + (IF month <= 2 THEN 1 ELSE 0),
       month |-> month, day |-> doy - (153 * mp + 2) \div 5 + 1]

\* Both copies of civil_from_days.
CivilFromDays(days) ==
  LET z == days + 719468
      era == Quotient(IF z >= 0 THEN z ELSE z - 146096, 146097)
      doe == z - era * 146097
      yoe == (doe - doe \div 1460 + doe \div 36524 - doe \div 146096) \div 365
      doy == doe - (365 * yoe + yoe \div 4 - yoe \div 100)
      mp == (5 * doy + 2) \div 153
      month == mp + IF mp < 10 THEN 3 ELSE -9
  IN  [year |-> yoe + era * 400 + (IF month <= 2 THEN 1 ELSE 0),
       month |-> month, day |-> doy - (153 * mp + 2) \div 5 + 1]

\* What the system clock shows: nothing before 1970.  A timestamp that a program
\* hands to encode_timestamp itself can be older.
Clock(instant) == IF instant.day < 0 THEN [day |-> 0, second |-> 0] ELSE instant

\* The components of an instant, as current_utc takes them.
CurrentUtc(instant) ==
  LET civil == CivilFromDays(instant.day)
  IN  [year |-> civil.year, month |-> civil.month, day |-> civil.day,
       hour |-> instant.second \div 3600,
       minute |-> (instant.second % 3600) \div 60,
       second |-> instant.second % 60, utc |-> TRUE]

-----------------------------------------------------------------------------
(* encode_timestamp and parse_timestamp. *)

Format == {"DayHourMinute", "HourMinuteSecond"}

Encoded(instant, format) ==
  LET utc == CurrentUtc(instant)
  IN  IF format = "DayHourMinute"
      THEN [numbers |-> <<utc.day, utc.hour, utc.minute>>, suffix |-> "z"]
      ELSE [numbers |-> <<utc.hour, utc.minute, utc.second>>, suffix |-> "h"]

\* The components that the text gives; those of the receiver's clock stay.
Given(text, utc) ==
  IF text.suffix = "h"
  THEN [utc EXCEPT !.hour = text.numbers[1], !.minute = text.numbers[2],
                   !.second = text.numbers[3]]
  ELSE [utc EXCEPT !.day = text.numbers[1], !.hour = text.numbers[2],
                   !.minute = text.numbers[3], !.second = 0,
                   !.utc = (text.suffix = "z")]

InRange(time) ==
  time.hour <= 23 /\ time.minute <= 59 /\ time.second <= 59 /\ time.day # 0

\* A mutant of MonthBefore: the year is forgotten.
MonthBeforeInYear(time) ==
  [time EXCEPT !.month = IF @ = 1 THEN 12 ELSE @ - 1]

MonthBefore(time) ==
  IF time.month = 1 THEN [time EXCEPT !.month = 12, !.year = @ - 1]
                    ELSE [time EXCEPT !.month = @ - 1]

\* A mutant of IsOfLastMonth: tomorrow's date is taken for an old one.
IsOfLastMonthStrictly(text, time, utc) ==
  text.suffix \in {"z", "/"} /\ time.day > utc.day

\* A day that is further ahead than tomorrow was in the month before.
IsOfLastMonth(text, time, utc) ==
  text.suffix \in {"z", "/"} /\ time.day > utc.day + 1

ParseTimestamp(text, utc) ==
  LET time == Given(text, utc)
  IN  IF text.suffix \notin {"h", "z", "/"} \/ ~ InRange(time) THEN {}
      ELSE {IF IsOfLastMonth(text, time, utc) THEN MonthBefore(time) ELSE time}

\* parse_object keeps 111111z as the mark of a permanent object.
Permanent(text) ==
  carrier = "object" /\ text.numbers = <<11, 11, 11>> /\ text.suffix = "z"

NoText == [numbers |-> <<>>, suffix |-> "none"]

Init ==
  /\ start \in Starts /\ now = start
  /\ skew \in Skews /\ carrier \in {"object", "report"}
  /\ \/ own = TRUE /\ step = "new" /\ raw = NoText
     \/ own = FALSE /\ step = "sent" /\ raw \in Foreign
  /\ decoded = {}

\* encode_object gives an object the day-based format.
Encode(format) ==
  /\ step = "new" /\ step' = "sent"
  /\ carrier = "object" => format = "DayHourMinute"
  /\ raw' = Encoded(After(start, skew), format)
  /\ UNCHANGED <<start, now, skew, own, carrier, decoded>>

TimePasses ==
  /\ step = "sent"
  /\ After(now, Delay).day - start.day <= MaxDays
  /\ now' = After(now, Delay)
  /\ UNCHANGED <<start, skew, own, carrier, step, raw, decoded>>

Receive ==
  /\ step = "sent" /\ step' = "received"
  /\ decoded' = IF Permanent(raw) THEN {} ELSE ParseTimestamp(raw, CurrentUtc(Clock(now)))
  /\ UNCHANGED <<start, now, skew, own, carrier, raw>>

Received == step = "received" /\ UNCHANGED vars

Next == (\E format \in Format : Encode(format)) \/ TimePasses \/ Receive \/ Received

Spec == Init /\ [][Next]_vars

-----------------------------------------------------------------------------
(* Properties. *)

IsLeap(year) == year % 4 = 0 /\ (year % 100 # 0 \/ year % 400 = 0)

MonthLength(year, month) ==
  CASE month = 2 -> IF IsLeap(year) THEN 29 ELSE 28
    [] month \in {4, 6, 9, 11} -> 30
    [] OTHER -> 31

\* The leap days before a year, and the days of the year before a month.
LeapDays(year) == (year - 1) \div 4 - (year - 1) \div 100 + (year - 1) \div 400

DaysBefore == <<0, 31, 59, 90, 120, 151, 181, 212, 243, 273, 304, 334>>

DayNumber(date) ==
  365 * (date.year - 1970) + LeapDays(date.year) - LeapDays(1970)
    + DaysBefore[date.month]
    + (IF date.month > 2 /\ IsLeap(date.year) THEN 1 ELSE 0) + date.day - 1

IsDate(date) ==
  date.month \in 1 .. 12 /\ date.day \in 1 .. MonthLength(date.year, date.month)

\* civil_from_days, a chain of integer divisions, is the Gregorian calendar: on
\* leap days, in centuries and before 1970 too; hours, minutes and seconds add up
\* to the second of the day (timestamp.rs:80-111 and encode.rs:79-85,394-406).
CalendarIsGregorian ==
  LET utc == CurrentUtc(now)
  IN  /\ IsDate(utc) /\ DayNumber(utc) = now.day
      /\ InRange(utc) /\ 3600 * utc.hour + 60 * utc.minute + utc.second = now.second

Made == After(start, skew)

MonthNumber(date) == date.year * 12 + date.month

DateIsRecovered(sent) ==
  MonthNumber(sent) <= MonthNumber(CurrentUtc(Clock(now))) =>
    decoded = IF carrier = "object" /\ <<sent.day, sent.hour, sent.minute>> = <<11, 11, 11>>
              THEN {} ELSE {[sent EXCEPT !.second = 0]}

TimeOfDayIsRecovered ==
  decoded = {CurrentUtc([day |-> Clock(now).day, second |-> Made.second])}

\* A day-based timestamp that frap makes is decoded to the moment at which it was
\* made, for as long as 26 days and across the ends of months and years; when
\* the sender's clock is fast, as long as its month has begun for the receiver
\* too.  The exception is an object made at 11:11 on the 11th.  A time of day is
\* decoded to the same time of the receiver's day, to the second
\* (encode.rs:70-90, timestamp.rs:41-77, parser.rs:1134-1140).
MomentIsRecovered ==
  step = "received" /\ own =>
    CASE raw.suffix = "z" -> DateIsRecovered(CurrentUtc(Made))
      [] raw.suffix = "h" -> TimeOfDayIsRecovered

\* Whoever made a timestamp, a date that is decoded from it is not after
\* tomorrow and at most thirty days old (timestamp.rs:69-76).
NeverInTheFuture ==
  \A time \in decoded :
    IsDate(time) => DayNumber(time) \in Clock(now).day - 30 .. Clock(now).day + 1

\* timestamp.rs:15 says of day: "Day of month in the range `1..=31`."
DayOfMonthInRange == \A time \in decoded : time.day \in 1 .. 31
=============================================================================
