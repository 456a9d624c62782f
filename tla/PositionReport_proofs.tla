----------------------- MODULE PositionReport_proofs -----------------------
(***************************************************************************)
(* Proofs about reports, for every day and every position.  The calendar   *)
(* of civil_from_days is the Gregorian one, and what a receiver decodes is *)
(* the date that the sender meant.  A position comes back to the precision *)
(* that its form leaves, with its extensions, and stays where it is,       *)
(* however often it is sent on.                                            *)
(***************************************************************************)
EXTENDS PositionReport, SequenceTheorems, WellFoundedInduction, TLAPS

-----------------------------------------------------------------------------
(* Division.                                                               *)

\* A quotient rounds down.
LEMMA DivBounds ==
  ASSUME NEW z \in Int, NEW k \in Nat, k > 0
  PROVE  z \div k \in Int /\ (z \div k) * k <= z /\ z < (z \div k) * k + k
BY SMT

\* A quotient is the only number that does.
LEMMA DivIs ==
  ASSUME NEW z \in Int, NEW q \in Int, NEW k \in Nat, k > 0, q * k <= z, z < q * k + k
  PROVE  z \div k = q
BY SMT

\* Rounding towards zero, with the correction for negative numbers, is rounding
\* down (encode.rs:394-406, timestamp.rs:99-111).
LEMMA EraIs ==
  ASSUME NEW z \in Int, NEW era \in Int, era * 146097 <= z, z < era * 146097 + 146097
  PROVE  Quotient(IF z >= 0 THEN z ELSE z - 146096, 146097) = era
<1>1. CASE z >= 0
  <2>1. z \div 146097 = era
    BY DivIs, SMT
  <2> QED BY <1>1, <2>1, SMT DEF Quotient
<1>2. CASE ~ (z >= 0)
  <2> DEFINE a == 146096 - z
  <2>1. a \in Int /\ (-era) * 146097 <= a /\ a < (-era) * 146097 + 146097 /\ -(z - 146096) = a
    BY SMT
  <2> HIDE DEF a
  <2>2. a \div 146097 = -era
    BY <2>1, DivIs, SMT
  <2>3. ~ (z - 146096 >= 0) /\ -(-era) = era
    BY <1>2, SMT
  <2> QED BY <1>2, <2>1, <2>2, <2>3, SMT DEF Quotient
<1> QED BY <1>1, <1>2, SMT

-----------------------------------------------------------------------------
(* The calendar.                                                           *)

\* An integer between two others, a range that is not written out.
Between(n, low, high) == n \in Int /\ low <= n /\ n <= high

\* A day of the 400 years of an era, counted from a first of March, is a day of a
\* year of four, of those of a century, and so on; the longer years are the last.
IsDayOf(d, c, q, s, doy) ==
  /\ Between(c, 0, 3) /\ Between(q, 0, 24) /\ Between(s, 0, 3) /\ Between(doy, 0, 365)
  /\ d = 36524 * c + 1461 * q + 365 * s + doy
  /\ doy = 365 => s = 3 /\ (q < 24 \/ c = 3)

\* Every day of an era is one.
LEMMA DayOfEra ==
  ASSUME NEW d, Between(d, 0, 146096)
  PROVE  \E c, q, s, doy \in Int : IsDayOf(d, c, q, s, doy)
<1> USE DEF Between
<1>1. PICK c \in Int : 0 <= c /\ c <= 3 /\ 36524 * c <= d /\ (c < 3 => d < 36524 * (c + 1))
  <2>1. CASE d < 36524
    BY <2>1, SMT
  <2>2. CASE d >= 36524 /\ d < 73048
    BY <2>2, SMT
  <2>3. CASE d >= 73048 /\ d < 109572
    BY <2>3, SMT
  <2>4. CASE d >= 109572
    BY <2>4, SMT
  <2> QED BY <2>1, <2>2, <2>3, <2>4, SMT
<1> DEFINE f == d - 36524 * c
<1>2. f \in Int /\ 0 <= f /\ f <= 36524 /\ (f = 36524 => c = 3) /\ d = 36524 * c + f
  BY <1>1, SMT
<1> HIDE DEF f
<1> DEFINE q == f \div 1461
           g == f - 1461 * q
<1>3. /\ q \in Int /\ 0 <= q /\ q <= 24
      /\ g \in Int /\ 0 <= g /\ g <= 1460 /\ f = 1461 * q + g
  <2>1. q \in Int /\ q * 1461 <= f /\ f < q * 1461 + 1461
    BY <1>2, DivBounds, SMT
  <2> HIDE DEF q
  <2> QED BY <1>2, <2>1, SMT
<1> HIDE DEF q, g
<1>4. g = 1460 => q < 24 \/ c = 3
  BY <1>1, <1>2, <1>3, SMT
<1>5. PICK s \in Int : 0 <= s /\ s <= 3 /\ 365 * s <= g /\ (s < 3 => g < 365 * (s + 1))
  <2>1. CASE g < 365
    BY <1>3, <2>1, SMT
  <2>2. CASE g >= 365 /\ g < 730
    BY <1>3, <2>2, SMT
  <2>3. CASE g >= 730 /\ g < 1095
    BY <1>3, <2>3, SMT
  <2>4. CASE g >= 1095
    BY <1>3, <2>4, SMT
  <2> QED BY <1>3, <2>1, <2>2, <2>3, <2>4, SMT
<1> DEFINE doy == g - 365 * s
<1>6. doy \in Int /\ 0 <= doy /\ doy <= 365 /\ g = 365 * s + doy /\ (doy = 365 => s = 3)
  BY <1>3, <1>5, SMT
<1> HIDE DEF doy
<1>7. doy = 365 => s = 3 /\ (q < 24 \/ c = 3)
  BY <1>3, <1>4, <1>6, SMT
<1>8. d = 36524 * c + 1461 * q + 365 * s + doy
  BY <1>1, <1>2, <1>3, <1>5, <1>6, SMT
<1>9. IsDayOf(d, c, q, s, doy)
  BY <1>1, <1>3, <1>5, <1>6, <1>7, <1>8 DEF IsDayOf
<1> QED BY <1>1, <1>3, <1>5, <1>6, <1>9

\* The formula for the year of the era gives that year.
LEMMA YearOfEra ==
  ASSUME NEW d, Between(d, 0, 146096), NEW c, NEW q, NEW s, NEW doy, IsDayOf(d, c, q, s, doy),
         NEW yoe, yoe = (d - d \div 1460 + d \div 36524 - d \div 146096) \div 365
  PROVE  yoe = 100 * c + 4 * q + s /\ d - (365 * yoe + yoe \div 4 - yoe \div 100) = doy
<1> DEFINE y == 100 * c + 4 * q + s
           more == 24 * c + q + 365 * s + doy
           long == IF more >= 1460 THEN 1 ELSE 0
           n == d - d \div 1460 + d \div 36524 - d \div 146096
<1>0. /\ d \in Int /\ 0 <= d /\ d <= 146096
      /\ c \in Int /\ 0 <= c /\ c <= 3 /\ q \in Int /\ 0 <= q /\ q <= 24
      /\ s \in Int /\ 0 <= s /\ s <= 3 /\ doy \in Int /\ 0 <= doy /\ doy <= 365
      /\ d = 36524 * c + 1461 * q + 365 * s + doy
      /\ (doy = 365 => s = 3 /\ (q < 24 \/ c = 3))
  BY DEF Between, IsDayOf
<1>1. more \in Int /\ d = 1460 * (25 * c + q) + more /\ 0 <= more /\ more < 2920
  BY <1>0, SMT
<1>2. d \div 1460 = 25 * c + q + long
  <2>1. long \in Int /\ 1460 * long <= more /\ more < 1460 * long + 1460
    BY <1>1, SMT
  <2> DEFINE k == 25 * c + q + long
  <2> HIDE DEF more, long
  <2>2. k \in Int /\ k * 1460 <= d /\ d < k * 1460 + 1460
    BY <1>0, <1>1, <2>1, SMT
  <2> HIDE DEF k
  <2>3. d \div 1460 = k
    BY <1>0, <2>2, DivIs, SMT
  <2> QED BY <2>3 DEF k
<1>3. d \div 36524 - d \div 146096 = c
  <2>1. CASE d = 146096
    <3>1. d \div 36524 = 4 /\ d \div 146096 = 1
      BY <2>1, SMT
    <3>2. c = 3
      BY <1>0, <2>1, SMT
    <3> QED BY <3>1, <3>2, SMT
  <2>2. CASE d # 146096
    <3>1. d \div 146096 = 0
      BY <1>0, <2>2, SMT
    <3>2. c * 36524 <= d /\ d < c * 36524 + 36524
      BY <1>0, <2>2, SMT
    <3>3. d \div 36524 = c
      BY <1>0, <3>2, DivIs, SMT
    <3> QED BY <1>0, <3>1, <3>3, SMT
  <2> QED BY <2>1, <2>2
<1>4. /\ long \in Int /\ (doy = 365 => long = 1) /\ (long = 1 => doy >= 1)
      /\ 0 <= long /\ long <= 1
  BY <1>0, SMT
<1>5. n = d - (25 * c + q + long) + c /\ n \in Int
  <2> HIDE DEF long
  <2>1. d \div 1460 \in Int /\ d \div 36524 \in Int /\ d \div 146096 \in Int
    BY <1>0, DivBounds, SMT
  <2> DEFINE a == d \div 1460
             b == d \div 36524
             e == d \div 146096
  <2>2. a = 25 * c + q + long /\ b - e = c /\ a \in Int /\ b \in Int /\ e \in Int
    BY <1>2, <1>3, <2>1
  <2>3. n = d - a + b - e
    OBVIOUS
  <2> HIDE DEF a, b, e, n
  <2> QED BY <1>0, <1>4, <2>2, <2>3, SMT
<1> HIDE DEF n, long, more
<1>6. y \in Int /\ y * 365 <= n /\ n < y * 365 + 365
  BY <1>0, <1>4, <1>5, SMT
<1>7. n \div 365 = y
  <2> HIDE DEF y
  <2> QED BY <1>5, <1>6, DivIs, SMT
<1>8. y \div 4 = 25 * c + q /\ y \div 100 = c
  <2> DEFINE k == 25 * c + q
  <2>1. /\ y \in Int /\ k \in Int /\ k * 4 <= y /\ y < k * 4 + 4
        /\ c * 100 <= y /\ y < c * 100 + 100
    BY <1>0, SMT
  <2> HIDE DEF y, k
  <2>2. y \div 4 = k
    BY <2>1, DivIs, SMT
  <2>3. y \div 100 = c
    BY <1>0, <2>1, DivIs, SMT
  <2> QED BY <2>2, <2>3 DEF k
<1>9. d - (365 * y + y \div 4 - y \div 100) = doy
  <2>1. d - (365 * y + (25 * c + q) - c) = doy
    BY <1>0, SMT
  <2> QED BY <1>8, <2>1
<1>10. yoe = y
  BY <1>7 DEF n
<1> HIDE DEF y
<1>11. d - (365 * yoe + yoe \div 4 - yoe \div 100) = doy
  BY <1>9, <1>10, SMT
<1> QED BY <1>10, <1>11 DEF y

\* The years that are leap years, and the leap days before the year after.
LEMMA LeapOf ==
  ASSUME NEW e \in Int, NEW c, Between(c, 0, 3), NEW q, Between(q, 0, 24), NEW s, Between(s, 0, 3),
         NEW y, y = 400 * e + 100 * c + 4 * q + s
  PROVE  /\ y \in Int
         /\ IsLeap(y) <=> s = 0 /\ (q # 0 \/ c = 0)
         /\ LeapDays(y + 1) = 97 * e + 24 * c + q
<1> USE DEF Between
<1>1. y \in Int /\ (y + 1) - 1 = y
  BY SMT
<1>2. y % 4 = s /\ y \div 4 = 100 * e + 25 * c + q
  <2> DEFINE k == 100 * e + 25 * c + q
  <2>1. k \in Int /\ y = k * 4 + s
    BY SMT
  <2> HIDE DEF k
  <2>2. y % 4 = s /\ y \div 4 = k
    BY <1>1, <2>1, SMT
  <2> QED BY <2>2 DEF k
<1>3. y % 100 = 4 * q + s /\ y \div 100 = 4 * e + c
  <2> DEFINE k == 4 * e + c
             r == 4 * q + s
  <2>1. k \in Int /\ y = k * 100 + r /\ r \in Int /\ 0 <= r /\ r < 100
    BY SMT
  <2> HIDE DEF k, r
  <2>2. y % 100 = r /\ y \div 100 = k
    BY <1>1, <2>1, SMT
  <2> QED BY <2>2 DEF k, r
<1>4. y % 400 = 100 * c + 4 * q + s /\ y \div 400 = e
  <2> DEFINE r == 100 * c + 4 * q + s
  <2>1. y = e * 400 + r /\ r \in Int /\ 0 <= r /\ r < 400
    BY SMT
  <2> HIDE DEF r
  <2>2. y % 400 = r /\ y \div 400 = e
    BY <1>1, <2>1, SMT
  <2> QED BY <2>2 DEF r
<1>5. IsLeap(y) <=> s = 0 /\ (4 * q + s # 0 \/ 100 * c + 4 * q + s = 0)
  BY <1>2, <1>3, <1>4 DEF IsLeap
<1>6. IsLeap(y) <=> s = 0 /\ (q # 0 \/ c = 0)
  BY <1>5, SMT
<1>7. LeapDays(y + 1) = (100 * e + 25 * c + q) - (4 * e + c) + e
  BY <1>1, <1>2, <1>3, <1>4 DEF LeapDays
<1> QED BY <1>1, <1>6, <1>7, SMT

\* A leap year has one leap day.
LEMMA LeapStep ==
  ASSUME NEW y \in Int
  PROVE  LeapDays(y + 1) = LeapDays(y) + (IF IsLeap(y) THEN 1 ELSE 0) /\ LeapDays(y) \in Int
<1>1. /\ y \div 4 = (y - 1) \div 4 + (IF y % 4 = 0 THEN 1 ELSE 0)
      /\ y \div 100 = (y - 1) \div 100 + (IF y % 100 = 0 THEN 1 ELSE 0)
      /\ y \div 400 = (y - 1) \div 400 + (IF y % 400 = 0 THEN 1 ELSE 0)
      /\ (y % 400 = 0 => y % 100 = 0) /\ (y % 100 = 0 => y % 4 = 0)
  BY SMT
<1>2. (y + 1) - 1 = y
  OBVIOUS
<1> QED BY <1>1, <1>2, SMT DEF LeapDays, IsLeap

\* The years before 1970 have 477 leap days.
LEMMA LeapDaysBefore1970 == LeapDays(1970) = 477
BY SMT DEF LeapDays

\* The formulas for the month and for its first day, month by month: March is 0.
LEMMA MonthOfYear ==
  ASSUME NEW doy, Between(doy, 0, 365), NEW mp, mp = (5 * doy + 2) \div 153,
         NEW before, before = (153 * mp + 2) \div 5
  PROVE  \/ mp = 0 /\ before = 0 /\ Between(doy, 0, 30)
         \/ mp = 1 /\ before = 31 /\ Between(doy, 31, 60)
         \/ mp = 2 /\ before = 61 /\ Between(doy, 61, 91)
         \/ mp = 3 /\ before = 92 /\ Between(doy, 92, 121)
         \/ mp = 4 /\ before = 122 /\ Between(doy, 122, 152)
         \/ mp = 5 /\ before = 153 /\ Between(doy, 153, 183)
         \/ mp = 6 /\ before = 184 /\ Between(doy, 184, 213)
         \/ mp = 7 /\ before = 214 /\ Between(doy, 214, 244)
         \/ mp = 8 /\ before = 245 /\ Between(doy, 245, 274)
         \/ mp = 9 /\ before = 275 /\ Between(doy, 275, 305)
         \/ mp = 10 /\ before = 306 /\ Between(doy, 306, 336)
         \/ mp = 11 /\ before = 337 /\ Between(doy, 337, 365)
BY SMT DEF Between

\* civil_from_days in a form without nested divisions: the day of a year that
\* begins in March, and the month and the day of that month.
IsCivil(days, date, e, c, q, s, doy, mp, before) ==
  /\ e \in Int /\ Between(c, 0, 3) /\ Between(q, 0, 24) /\ Between(s, 0, 3)
  /\ Between(doy, 0, 365)
  /\ days = 146097 * e + 36524 * c + 1461 * q + 365 * s + doy - 719468
  /\ doy = 365 => s = 3 /\ (q < 24 \/ c = 3)
  /\ mp = (5 * doy + 2) \div 153 /\ before = (153 * mp + 2) \div 5
  /\ date.month = mp + IF mp < 10 THEN 3 ELSE -9
  /\ date.year = 400 * e + 100 * c + 4 * q + s + (IF date.month <= 2 THEN 1 ELSE 0)
  /\ date.day = doy - before + 1

\* Every day has such a form.
LEMMA CivilIs ==
  ASSUME NEW days \in Int
  PROVE  \E e, c, q, s, doy, mp, before :
           IsCivil(days, CivilFromDays(days), e, c, q, s, doy, mp, before)
<1> DEFINE z == days + 719468
           e == z \div 146097
           d == z - e * 146097
<1>1. e \in Int /\ e * 146097 <= z /\ z < e * 146097 + 146097 /\ z \in Int
  BY DivBounds, SMT
<1>2. Between(d, 0, 146096)
  <2> HIDE DEF e, z
  <2> QED BY <1>1, SMT DEF Between
<1>3. z = 146097 * e + d
  <2> HIDE DEF e, z
  <2> QED BY <1>1, SMT
<1>4. Quotient(IF z >= 0 THEN z ELSE z - 146096, 146097) = e
  <2> HIDE DEF e, z
  <2> QED BY <1>1, EraIs, SMT
<1>5. PICK c, q, s, doy \in Int : IsDayOf(d, c, q, s, doy)
  <2> HIDE DEF d
  <2> QED BY <1>2, DayOfEra
<1> DEFINE yoe == (d - d \div 1460 + d \div 36524 - d \div 146096) \div 365
           mp == (5 * doy + 2) \div 153
           before == (153 * mp + 2) \div 5
           month == mp + IF mp < 10 THEN 3 ELSE -9
<1>6. yoe = 100 * c + 4 * q + s /\ d - (365 * yoe + yoe \div 4 - yoe \div 100) = doy
  <2> DEFINE dd == d
  <2>1. /\ Between(dd, 0, 146096) /\ IsDayOf(dd, c, q, s, doy)
        /\ yoe = (dd - dd \div 1460 + dd \div 36524 - dd \div 146096) \div 365
    BY <1>2, <1>5
  <2> HIDE DEF dd, yoe
  <2>2. yoe = 100 * c + 4 * q + s /\ dd - (365 * yoe + yoe \div 4 - yoe \div 100) = doy
    BY <2>1, YearOfEra
  <2> QED BY <2>2 DEF dd
<1>7. CivilFromDays(days) =
        [year |-> yoe + e * 400 + (IF month <= 2 THEN 1 ELSE 0), month |-> month,
         day |-> doy - before + 1]
  <2> DEFINE era == Quotient(IF z >= 0 THEN z ELSE z - 146096, 146097)
             doe == z - era * 146097
             yy == (doe - doe \div 1460 + doe \div 36524 - doe \div 146096) \div 365
             dy == doe - (365 * yy + yy \div 4 - yy \div 100)
             mm == (5 * dy + 2) \div 153
             m == mm + IF mm < 10 THEN 3 ELSE -9
  <2>1. CivilFromDays(days) =
          [year |-> yy + era * 400 + (IF m <= 2 THEN 1 ELSE 0), month |-> m,
           day |-> dy - (153 * mm + 2) \div 5 + 1]
    BY DEF CivilFromDays
  <2>2. era = e
    BY <1>4
  <2> HIDE DEF e, z, era
  <2>3. doe = d
    BY <2>2
  <2> HIDE DEF doe, d
  <2>4. yy = yoe
    BY <2>3
  <2> HIDE DEF yy, yoe
  <2>5. dy = doy
    BY <2>3, <2>4, <1>6
  <2> HIDE DEF dy
  <2>6. mm = mp
    BY <2>5
  <2> QED BY <2>1, <2>2, <2>4, <2>5, <2>6
<1>8. days = 146097 * e + 36524 * c + 1461 * q + 365 * s + doy - 719468
  <2>1. days = z - 719468
    BY SMT
  <2>2. d = 36524 * c + 1461 * q + 365 * s + doy
    BY <1>5 DEF IsDayOf
  <2> HIDE DEF z, e, d
  <2> QED BY <1>1, <1>3, <1>5, <2>1, <2>2, SMT DEF IsDayOf, Between
<1>9. yoe + e * 400 = 400 * e + 100 * c + 4 * q + s
  <2> HIDE DEF e, yoe
  <2> QED BY <1>1, <1>5, <1>6, SMT
<1>10. IsCivil(days, CivilFromDays(days), e, c, q, s, doy, mp, before)
  <2> DEFINE date == CivilFromDays(days)
  <2>1. /\ Between(c, 0, 3) /\ Between(q, 0, 24) /\ Between(s, 0, 3) /\ Between(doy, 0, 365)
        /\ doy = 365 => s = 3 /\ (q < 24 \/ c = 3)
    BY <1>5 DEF IsDayOf
  <2> HIDE DEF yoe, e, z, d
  <2>2. mp = (5 * doy + 2) \div 153 /\ before = (153 * mp + 2) \div 5
    OBVIOUS
  <2> HIDE DEF mp, before
  <2>3. date.month = mp + IF mp < 10 THEN 3 ELSE -9
    BY <1>7, SMT
  <2>4. date.year = 400 * e + 100 * c + 4 * q + s + (IF date.month <= 2 THEN 1 ELSE 0)
    BY <1>7, <1>9, SMT
  <2>5. date.day = doy - before + 1
    BY <1>7, SMT
  <2> HIDE DEF date
  <2> QED BY <1>1, <1>8, <2>1, <2>2, <2>3, <2>4, <2>5, SMT DEF IsCivil, date
<1> HIDE DEF e, d, z, mp, before
<1> QED BY <1>10

\* The calendar, from any day on: what civil_from_days returns is a date, and the
\* number of that date is the day it came from (encode.rs:394-406,
\* timestamp.rs:99-111).
THEOREM CivilIsGregorian ==
  ASSUME NEW days \in Int
  PROVE  /\ IsDate(CivilFromDays(days))
         /\ DayNumber(CivilFromDays(days)) = days
<1> DEFINE date == CivilFromDays(days)
<1>1. PICK e, c, q, s, doy, mp, before : IsCivil(days, date, e, c, q, s, doy, mp, before)
  BY CivilIs
<1> SUFFICES IsDate(date) /\ DayNumber(date) = days
  OBVIOUS
<1> HIDE DEF date
<1> DEFINE y == 400 * e + 100 * c + 4 * q + s
<1>2. /\ e \in Int /\ Between(c, 0, 3) /\ Between(q, 0, 24) /\ Between(s, 0, 3)
      /\ Between(doy, 0, 365)
      /\ days = 146097 * e + 36524 * c + 1461 * q + 365 * s + doy - 719468
      /\ doy = 365 => s = 3 /\ (q < 24 \/ c = 3)
      /\ mp = (5 * doy + 2) \div 153 /\ before = (153 * mp + 2) \div 5
      /\ date.month = mp + IF mp < 10 THEN 3 ELSE -9
      /\ date.year = y + (IF date.month <= 2 THEN 1 ELSE 0)
      /\ date.day = doy - before + 1
  BY <1>1 DEF IsCivil
<1>3. y \in Int /\ LeapDays(y + 1) = 97 * e + 24 * c + q
  BY <1>2, LeapOf
<1>4. days = 365 * y + LeapDays(y + 1) + doy - 719468
  BY <1>2, <1>3, SMT DEF Between
<1>5. LeapDays(y + 1) = LeapDays(y) + (IF IsLeap(y) THEN 1 ELSE 0) /\ LeapDays(y) \in Int
  BY <1>3, LeapStep
<1>6. doy = 365 => IsLeap(y + 1)
  <2> SUFFICES ASSUME doy = 365 PROVE IsLeap(y + 1)
    OBVIOUS
  <2>1. s = 3 /\ (q < 24 \/ c = 3)
    BY <1>2
  <2>2. CASE q < 24
    <3> DEFINE k == q + 1
    <3>1. Between(k, 0, 24) /\ k # 0 /\ y + 1 = 400 * e + 100 * c + 4 * k + 0 /\ Between(0, 0, 3)
      BY <1>2, <2>1, <2>2, SMT DEF Between
    <3> HIDE DEF k, y
    <3> QED BY <1>2, <3>1, LeapOf
  <2>3. CASE ~ (q < 24)
    <3> DEFINE k == e + 1
               c0 == 0
               q0 == 0
               s0 == 0
    <3>1. /\ k \in Int /\ y + 1 = 400 * k + 100 * c0 + 4 * q0 + s0
          /\ Between(c0, 0, 3) /\ Between(q0, 0, 24) /\ Between(s0, 0, 3)
      BY <1>2, <2>1, <2>3, SMT DEF Between
    <3> HIDE DEF k, c0, q0, s0, y
    <3>2. IsLeap(y + 1) <=> s0 = 0 /\ (q0 # 0 \/ c0 = 0)
      BY <3>1, LeapOf
    <3> QED BY <3>2 DEF c0, s0
  <2> QED BY <2>2, <2>3
<1>7. LeapDays(y) \in Int /\ LeapDays(y + 1) \in Int
  BY <1>3, <1>5, SMT
<1>8. /\ IsDate(date) <=> date.month \in 1 .. 12 /\ date.day \in 1 .. MonthLength(date.year, date.month)
      /\ DayNumber(date) = 365 * (date.year - 1970) + LeapDays(date.year) - 477
           + DaysBefore[date.month] + (IF date.month > 2 /\ IsLeap(date.year) THEN 1 ELSE 0)
           + date.day - 1
  BY LeapDaysBefore1970, SMT DEF IsDate, DayNumber
<1>9. \A year : /\ MonthLength(year, 2) = IF IsLeap(year) THEN 29 ELSE 28
                /\ \A m \in {4, 6, 9, 11} : MonthLength(year, m) = 30
                /\ \A m \in {1, 3, 5, 7, 8, 10, 12} : MonthLength(year, m) = 31
  BY SMT DEF MonthLength
<1>10. /\ DaysBefore[1] = 0 /\ DaysBefore[2] = 31 /\ DaysBefore[3] = 59 /\ DaysBefore[4] = 90 /\ DaysBefore[5] = 120 /\ DaysBefore[6] = 151
       /\ DaysBefore[7] = 181 /\ DaysBefore[8] = 212 /\ DaysBefore[9] = 243 /\ DaysBefore[10] = 273 /\ DaysBefore[11] = 304 /\ DaysBefore[12] = 334
  BY SMT DEF DaysBefore
<1> HIDE DEF y
<1>11. Between(doy, 0, 365) /\ mp = (5 * doy + 2) \div 153 /\ before = (153 * mp + 2) \div 5
  BY <1>2
<1>12. CASE mp = 0 /\ before = 0 /\ Between(doy, 0, 30) \* March
  <2>1. date.month = 3 /\ date.year = y /\ date.day = doy - -1 /\ doy \in Int
    BY <1>2, <1>3, <1>12, SMT DEF Between
  <2>2. IsDate(date)
    BY <1>6, <1>8, <1>9, <1>12, <2>1, SMT DEF Between
  <2>3. DayNumber(date) = days
    BY <1>3, <1>4, <1>5, <1>7, <1>8, <1>10, <2>1, SMT
  <2> QED BY <2>2, <2>3
<1>13. CASE mp = 1 /\ before = 31 /\ Between(doy, 31, 60) \* April
  <2>1. date.month = 4 /\ date.year = y /\ date.day = doy - 30 /\ doy \in Int
    BY <1>2, <1>3, <1>13, SMT DEF Between
  <2>2. IsDate(date)
    BY <1>6, <1>8, <1>9, <1>13, <2>1, SMT DEF Between
  <2>3. DayNumber(date) = days
    BY <1>3, <1>4, <1>5, <1>7, <1>8, <1>10, <2>1, SMT
  <2> QED BY <2>2, <2>3
<1>14. CASE mp = 2 /\ before = 61 /\ Between(doy, 61, 91) \* May
  <2>1. date.month = 5 /\ date.year = y /\ date.day = doy - 60 /\ doy \in Int
    BY <1>2, <1>3, <1>14, SMT DEF Between
  <2>2. IsDate(date)
    BY <1>6, <1>8, <1>9, <1>14, <2>1, SMT DEF Between
  <2>3. DayNumber(date) = days
    BY <1>3, <1>4, <1>5, <1>7, <1>8, <1>10, <2>1, SMT
  <2> QED BY <2>2, <2>3
<1>15. CASE mp = 3 /\ before = 92 /\ Between(doy, 92, 121) \* June
  <2>1. date.month = 6 /\ date.year = y /\ date.day = doy - 91 /\ doy \in Int
    BY <1>2, <1>3, <1>15, SMT DEF Between
  <2>2. IsDate(date)
    BY <1>6, <1>8, <1>9, <1>15, <2>1, SMT DEF Between
  <2>3. DayNumber(date) = days
    BY <1>3, <1>4, <1>5, <1>7, <1>8, <1>10, <2>1, SMT
  <2> QED BY <2>2, <2>3
<1>16. CASE mp = 4 /\ before = 122 /\ Between(doy, 122, 152) \* July
  <2>1. date.month = 7 /\ date.year = y /\ date.day = doy - 121 /\ doy \in Int
    BY <1>2, <1>3, <1>16, SMT DEF Between
  <2>2. IsDate(date)
    BY <1>6, <1>8, <1>9, <1>16, <2>1, SMT DEF Between
  <2>3. DayNumber(date) = days
    BY <1>3, <1>4, <1>5, <1>7, <1>8, <1>10, <2>1, SMT
  <2> QED BY <2>2, <2>3
<1>17. CASE mp = 5 /\ before = 153 /\ Between(doy, 153, 183) \* August
  <2>1. date.month = 8 /\ date.year = y /\ date.day = doy - 152 /\ doy \in Int
    BY <1>2, <1>3, <1>17, SMT DEF Between
  <2>2. IsDate(date)
    BY <1>6, <1>8, <1>9, <1>17, <2>1, SMT DEF Between
  <2>3. DayNumber(date) = days
    BY <1>3, <1>4, <1>5, <1>7, <1>8, <1>10, <2>1, SMT
  <2> QED BY <2>2, <2>3
<1>18. CASE mp = 6 /\ before = 184 /\ Between(doy, 184, 213) \* September
  <2>1. date.month = 9 /\ date.year = y /\ date.day = doy - 183 /\ doy \in Int
    BY <1>2, <1>3, <1>18, SMT DEF Between
  <2>2. IsDate(date)
    BY <1>6, <1>8, <1>9, <1>18, <2>1, SMT DEF Between
  <2>3. DayNumber(date) = days
    BY <1>3, <1>4, <1>5, <1>7, <1>8, <1>10, <2>1, SMT
  <2> QED BY <2>2, <2>3
<1>19. CASE mp = 7 /\ before = 214 /\ Between(doy, 214, 244) \* October
  <2>1. date.month = 10 /\ date.year = y /\ date.day = doy - 213 /\ doy \in Int
    BY <1>2, <1>3, <1>19, SMT DEF Between
  <2>2. IsDate(date)
    BY <1>6, <1>8, <1>9, <1>19, <2>1, SMT DEF Between
  <2>3. DayNumber(date) = days
    BY <1>3, <1>4, <1>5, <1>7, <1>8, <1>10, <2>1, SMT
  <2> QED BY <2>2, <2>3
<1>20. CASE mp = 8 /\ before = 245 /\ Between(doy, 245, 274) \* November
  <2>1. date.month = 11 /\ date.year = y /\ date.day = doy - 244 /\ doy \in Int
    BY <1>2, <1>3, <1>20, SMT DEF Between
  <2>2. IsDate(date)
    BY <1>6, <1>8, <1>9, <1>20, <2>1, SMT DEF Between
  <2>3. DayNumber(date) = days
    BY <1>3, <1>4, <1>5, <1>7, <1>8, <1>10, <2>1, SMT
  <2> QED BY <2>2, <2>3
<1>21. CASE mp = 9 /\ before = 275 /\ Between(doy, 275, 305) \* December
  <2>1. date.month = 12 /\ date.year = y /\ date.day = doy - 274 /\ doy \in Int
    BY <1>2, <1>3, <1>21, SMT DEF Between
  <2>2. IsDate(date)
    BY <1>6, <1>8, <1>9, <1>21, <2>1, SMT DEF Between
  <2>3. DayNumber(date) = days
    BY <1>3, <1>4, <1>5, <1>7, <1>8, <1>10, <2>1, SMT
  <2> QED BY <2>2, <2>3
<1>22. CASE mp = 10 /\ before = 306 /\ Between(doy, 306, 336) \* January
  <2>1. date.month = 1 /\ date.year = y + 1 /\ date.day = doy - 305 /\ doy \in Int
    BY <1>2, <1>3, <1>22, SMT DEF Between
  <2>2. IsDate(date)
    BY <1>6, <1>8, <1>9, <1>22, <2>1, SMT DEF Between
  <2>3. DayNumber(date) = days
    BY <1>3, <1>4, <1>5, <1>7, <1>8, <1>10, <2>1, SMT
  <2> QED BY <2>2, <2>3
<1>23. CASE mp = 11 /\ before = 337 /\ Between(doy, 337, 365) \* February
  <2>1. date.month = 2 /\ date.year = y + 1 /\ date.day = doy - 336 /\ doy \in Int
    BY <1>2, <1>3, <1>23, SMT DEF Between
  <2>2. IsDate(date)
    BY <1>6, <1>8, <1>9, <1>23, <2>1, SMT DEF Between
  <2>3. DayNumber(date) = days
    BY <1>3, <1>4, <1>5, <1>7, <1>8, <1>10, <2>1, SMT
  <2> QED BY <2>2, <2>3
<1> QED BY <1>11, <1>12, <1>13, <1>14, <1>15, <1>16, <1>17, <1>18, <1>19, <1>20, <1>21, <1>22, <1>23, MonthOfYear

-----------------------------------------------------------------------------
(* Months.                                                                 *)

\* A date, from the year and the month of which it is a day.
IsDayOfMonth(date, year, month) ==
  /\ year \in Int /\ month \in 1 .. 12 /\ date.day \in Int
  /\ date.year = year /\ date.month = month

\* The number of the first day of a month.
MonthStart(year, month) ==
  365 * (year - 1970) + LeapDays(year) - 477 + DaysBefore[month]
    + (IF month > 2 /\ IsLeap(year) THEN 1 ELSE 0)

\* The tables of the calendar.
LEMMA DaysBeforeIs ==
  /\ DaysBefore[1] = 0 /\ DaysBefore[2] = 31 /\ DaysBefore[3] = 59 /\ DaysBefore[4] = 90
  /\ DaysBefore[5] = 120 /\ DaysBefore[6] = 151 /\ DaysBefore[7] = 181 /\ DaysBefore[8] = 212
  /\ DaysBefore[9] = 243 /\ DaysBefore[10] = 273 /\ DaysBefore[11] = 304 /\ DaysBefore[12] = 334
BY SMT DEF DaysBefore

\* The lengths of the months.
LEMMA MonthLengthIs ==
  ASSUME NEW year
  PROVE  /\ MonthLength(year, 2) = IF IsLeap(year) THEN 29 ELSE 28
         /\ \A m \in {4, 6, 9, 11} : MonthLength(year, m) = 30
         /\ \A m \in {1, 3, 5, 7, 8, 10, 12} : MonthLength(year, m) = 31
BY SMT DEF MonthLength

\* No month is shorter than 28 days or longer than 31.
LEMMA MonthBounds ==
  ASSUME NEW year \in Int, NEW month \in 1 .. 12
  PROVE  Between(MonthLength(year, month), 28, 31) /\ MonthStart(year, month) \in Int
<1>1. Between(MonthLength(year, month), 28, 31)
  BY MonthLengthIs, SMT DEF Between
<1>2. LeapDays(year) \in Int
  BY LeapStep
<1>3. DaysBefore[month] \in Int
  BY DaysBeforeIs, SMT
<1> QED BY <1>1, <1>2, <1>3, SMT DEF MonthStart

\* The number of a day is that of the first of its month, and the days since.
LEMMA DayInMonth ==
  ASSUME NEW date, NEW year, NEW month, IsDayOfMonth(date, year, month)
  PROVE  DayNumber(date) = MonthStart(year, month) + date.day - 1
<1>1. LeapDays(year) \in Int
  BY LeapStep DEF IsDayOfMonth
<1>2. DaysBefore[month] \in Int
  BY DaysBeforeIs, SMT DEF IsDayOfMonth
<1> QED BY <1>1, <1>2, LeapDaysBefore1970, SMT DEF IsDayOfMonth, DayNumber, MonthStart

\* A month begins when the month before is over.
LEMMA MonthAfterMonth ==
  ASSUME NEW year \in Int, NEW month \in 1 .. 12
  PROVE  IF month = 12
         THEN MonthStart(year + 1, 1) = MonthStart(year, 12) + MonthLength(year, 12)
         ELSE MonthStart(year, month + 1) = MonthStart(year, month) + MonthLength(year, month)
<1>1. LeapDays(year + 1) = LeapDays(year) + (IF IsLeap(year) THEN 1 ELSE 0) /\ LeapDays(year) \in Int
  BY LeapStep
<1>2. CASE month = 12
  BY <1>1, <1>2, DaysBeforeIs, MonthLengthIs, SMT DEF MonthStart
<1>3. CASE month # 12
  BY <1>1, <1>3, DaysBeforeIs, MonthLengthIs, SMT DEF MonthStart
<1> QED BY <1>2, <1>3

\* Leap years are about evenly spread.
LEMMA LeapDaysSpread ==
  ASSUME NEW y \in Int, NEW z \in Int, y <= z
  PROVE  LeapDays(z) - LeapDays(y) >= -2
BY SMT DEF LeapDays

\* Between two months that are not neighbours there is a whole month.
LEMMA MonthsApart ==
  ASSUME NEW y \in Int, NEW m \in 1 .. 12, NEW z \in Int, NEW n \in 1 .. 12,
         12 * z + n >= 12 * y + m + 2
  PROVE  MonthStart(z, n) >= MonthStart(y, m) + 58
<1>1. LeapDays(y) \in Int /\ LeapDays(z) \in Int /\ y <= z /\ LeapDays(z) - LeapDays(y) >= -2
  BY LeapStep, LeapDaysSpread, SMT
<1>2. CASE y = z
  BY <1>1, <1>2, DaysBeforeIs, SMT DEF MonthStart
<1>3. CASE y < z
  BY <1>1, <1>3, DaysBeforeIs, SMT DEF MonthStart
<1> QED BY <1>1, <1>2, <1>3, SMT

-----------------------------------------------------------------------------
(* What a receiver decodes.                                                *)

IsInstant(instant) ==
  instant.day \in Int /\ instant.second \in Int /\ 0 <= instant.second /\ instant.second < 86400

Time(year, month, day, hour, minute, second, utc) ==
  [year |-> year, month |-> month, day |-> day, hour |-> hour, minute |-> minute,
   second |-> second, utc |-> utc]

\* A second of the day is one of a minute of an hour.
LEMMA ClockIs ==
  ASSUME NEW second \in Int, 0 <= second, second < 86400, NEW h, h = second \div 3600,
         NEW n, n = (second % 3600) \div 60, NEW s, s = second % 60
  PROVE  /\ h \in Int /\ n \in Int /\ s \in Int
         /\ 0 <= h /\ h <= 23 /\ 0 <= n /\ n <= 59 /\ 0 <= s /\ s <= 59
         /\ second = 3600 * h + 60 * n + s
<1>1. PICK r \in Int : r = second % 3600 /\ second = 3600 * h + r /\ 0 <= r /\ r < 3600
  BY SMT
<1>2. PICK b \in Int : n = r \div 60 /\ r = 60 * n + b /\ 0 <= b /\ b <= 59
  BY <1>1, SMT
<1>3. h \in Int /\ n \in Int /\ 0 <= h /\ h <= 23 /\ 0 <= n /\ n <= 59 /\ second = 3600 * h + 60 * n + b
  BY <1>1, <1>2, SMT
<1>4. s = b
  BY <1>2, <1>3, SMT
<1> QED BY <1>2, <1>3, <1>4, SMT

\* The components of an instant: those of a day, and of a second of the day.
IsUtc(instant, y, m, d, h, n, s) ==
  /\ y \in Int /\ m \in Int /\ d \in Int /\ h \in Int /\ n \in Int /\ s \in Int
  /\ CurrentUtc(instant) = Time(y, m, d, h, n, s, TRUE)
  /\ m \in 1 .. 12 /\ 1 <= d /\ d <= MonthLength(y, m)
  /\ instant.day = MonthStart(y, m) + d - 1
  /\ 0 <= h /\ h <= 23 /\ 0 <= n /\ n <= 59 /\ 0 <= s /\ s <= 59
  /\ h = instant.second \div 3600 /\ n = (instant.second % 3600) \div 60 /\ s = instant.second % 60
  /\ instant.second = 3600 * h + 60 * n + s

\* The numbers of such a reading are whole, and in their ranges.
LEMMA UtcTypes ==
  ASSUME NEW instant, NEW y, NEW m, NEW d, NEW h, NEW n, NEW s,
         IsUtc(instant, y, m, d, h, n, s)
  PROVE  /\ y \in Int /\ m \in Int /\ d \in Int /\ h \in Int /\ n \in Int /\ s \in Int
         /\ m \in 1 .. 12 /\ 1 <= d /\ d <= MonthLength(y, m)
         /\ 0 <= h /\ h <= 23 /\ 0 <= n /\ n <= 59 /\ 0 <= s /\ s <= 59
BY SMT DEF IsUtc

\* Every instant has such components.
LEMMA UtcIs ==
  ASSUME NEW instant, IsInstant(instant)
  PROVE  \E y, m, d, h, n, s : IsUtc(instant, y, m, d, h, n, s)
<1> DEFINE civil == CivilFromDays(instant.day)
           y == civil.year
           m == civil.month
           d == civil.day
           h == instant.second \div 3600
           n == (instant.second % 3600) \div 60
           s == instant.second % 60
<1>1. CurrentUtc(instant) = Time(y, m, d, h, n, s, TRUE)
  BY DEF CurrentUtc, Time
<1>2. /\ h \in Int /\ n \in Int /\ s \in Int
      /\ 0 <= h /\ h <= 23 /\ 0 <= n /\ n <= 59 /\ 0 <= s /\ s <= 59
      /\ instant.second = 3600 * h + 60 * n + s
  <2> DEFINE second == instant.second
  <2>1. second \in Int /\ 0 <= second /\ second < 86400
    BY DEF IsInstant
  <2>2. h = second \div 3600 /\ n = (second % 3600) \div 60 /\ s = second % 60
    OBVIOUS
  <2> HIDE DEF second, h, n, s
  <2>3. /\ h \in Int /\ n \in Int /\ s \in Int
        /\ 0 <= h /\ h <= 23 /\ 0 <= n /\ n <= 59 /\ 0 <= s /\ s <= 59
        /\ second = 3600 * h + 60 * n + s
    BY <2>1, <2>2, ClockIs, SMT
  <2> QED BY <2>3, SMT DEF second
<1>3. IsDate(civil) /\ DayNumber(civil) = instant.day
  BY CivilIsGregorian DEF IsInstant
<1>4. y \in Int
  <2>1. PICK e, c, q, r, doy, mp, before : IsCivil(instant.day, civil, e, c, q, r, doy, mp, before)
    BY CivilIs DEF IsInstant
  <2> HIDE DEF civil
  <2> QED BY <2>1, SMT DEF IsCivil, Between
<1>5. m \in 1 .. 12 /\ d \in 1 .. MonthLength(y, m)
  BY <1>3 DEF IsDate
<1>6. MonthLength(y, m) \in Int
  BY <1>4, <1>5, MonthBounds DEF Between
<1>7. d \in Int /\ 1 <= d /\ d <= MonthLength(y, m) /\ m \in Int
  BY <1>5, <1>6, SMT
<1>8. instant.day = MonthStart(y, m) + d - 1
  <2> HIDE DEF civil
  <2>1. IsDayOfMonth(civil, y, m)
    BY <1>4, <1>5, <1>7 DEF IsDayOfMonth
  <2> QED BY <1>3, <2>1, DayInMonth
<1>9. IsUtc(instant, y, m, d, h, n, s)
  <2>1. /\ h = instant.second \div 3600 /\ n = (instant.second % 3600) \div 60
        /\ s = instant.second % 60
    OBVIOUS
  <2> HIDE DEF y, m, d, h, n, s
  <2> QED BY <1>1, <1>2, <1>4, <1>5, <1>7, <1>8, <2>1 DEF IsUtc
<1> HIDE DEF y, m, d, h, n, s
<1> QED BY <1>9

\* The components that a text gives take the place of the clock's.
LEMMA GivenIs ==
  ASSUME NEW stamp, NEW y, NEW m, NEW d, NEW h, NEW n, NEW s
  PROVE  Given(stamp, Time(y, m, d, h, n, s, TRUE)) =
           IF stamp.suffix = "h"
           THEN Time(y, m, d, stamp.numbers[1], stamp.numbers[2], stamp.numbers[3], TRUE)
           ELSE Time(y, m, stamp.numbers[1], stamp.numbers[2], stamp.numbers[3], 0, stamp.suffix = "z")
<1> DEFINE a == stamp.numbers[1]
           b == stamp.numbers[2]
           c == stamp.numbers[3]
           z == stamp.suffix = "z"
           u == TRUE
           r == Time(y, m, d, h, n, s, u)
<1>1. [r EXCEPT !.hour = a, !.minute = b, !.second = c] = Time(y, m, d, a, b, c, u)
  <2> HIDE DEF a, b, c, u
  <2>1. [r EXCEPT !.hour = a] = Time(y, m, d, a, n, s, u)
    BY SMT DEF Time
  <2>2. [Time(y, m, d, a, n, s, u) EXCEPT !.minute = b] = Time(y, m, d, a, b, s, u)
    BY SMT DEF Time
  <2>3. [Time(y, m, d, a, b, s, u) EXCEPT !.second = c] = Time(y, m, d, a, b, c, u)
    BY SMT DEF Time
  <2> QED BY <2>1, <2>2, <2>3
<1>2. [r EXCEPT !.day = a, !.hour = b, !.minute = c, !.second = 0, !.utc = z]
        = Time(y, m, a, b, c, 0, z)
  <2> DEFINE o == 0
  <2> HIDE DEF a, b, c, z, u, o
  <2>1. [r EXCEPT !.day = a] = Time(y, m, a, h, n, s, u)
    BY SMT DEF Time
  <2>2. [Time(y, m, a, h, n, s, u) EXCEPT !.hour = b] = Time(y, m, a, b, n, s, u)
    BY SMT DEF Time
  <2>3. [Time(y, m, a, b, n, s, u) EXCEPT !.minute = c] = Time(y, m, a, b, c, s, u)
    BY SMT DEF Time
  <2>4. [Time(y, m, a, b, c, s, u) EXCEPT !.second = o] = Time(y, m, a, b, c, o, u)
    BY SMT DEF Time
  <2>5. [Time(y, m, a, b, c, o, u) EXCEPT !.utc = z] = Time(y, m, a, b, c, o, z)
    BY SMT DEF Time
  <2>6. [r EXCEPT !.day = a, !.hour = b, !.minute = c] = Time(y, m, a, b, c, s, u)
    <3> HIDE DEF r
    <3> QED BY <2>1, <2>2, <2>3
  <2>7. [r EXCEPT !.day = a, !.hour = b, !.minute = c, !.second = o, !.utc = z]
          = [[[r EXCEPT !.day = a, !.hour = b, !.minute = c] EXCEPT !.second = o] EXCEPT !.utc = z]
    <3> HIDE DEF r
    <3> QED OBVIOUS
  <2> QED BY <2>4, <2>5, <2>6, <2>7 DEF o
<1>3. Given(stamp, r) =
        IF stamp.suffix = "h" THEN [r EXCEPT !.hour = a, !.minute = b, !.second = c]
        ELSE [r EXCEPT !.day = a, !.hour = b, !.minute = c, !.second = 0, !.utc = z]
  <2> HIDE DEF r
  <2> QED BY Zenon DEF Given
<1> QED BY <1>1, <1>2, <1>3, Zenon

\* The month before, component by component.
LEMMA MonthBeforeIs ==
  ASSUME NEW y, NEW m, NEW d, NEW h, NEW n, NEW s, NEW u
  PROVE  MonthBefore(Time(y, m, d, h, n, s, u)) =
           IF m = 1 THEN Time(y - 1, 12, d, h, n, s, u) ELSE Time(y, m - 1, d, h, n, s, u)
<1> DEFINE r == Time(y, m, d, h, n, s, u)
           last == 12
           i == y - 1
           j == m - 1
<1>1. r.month = m /\ r.year = y
  BY DEF Time
<1>2. [r EXCEPT !.month = last, !.year = i] = Time(i, last, d, h, n, s, u)
  <2> HIDE DEF last, i
  <2>1. [r EXCEPT !.month = last] = Time(y, last, d, h, n, s, u)
    BY SMT DEF Time
  <2>2. [Time(y, last, d, h, n, s, u) EXCEPT !.year = i] = Time(i, last, d, h, n, s, u)
    BY SMT DEF Time
  <2> QED BY <2>1, <2>2
<1>3. [r EXCEPT !.month = j] = Time(y, j, d, h, n, s, u)
  <2> HIDE DEF j
  <2> QED BY SMT DEF Time
<1>4. MonthBefore(r) =
        IF m = 1 THEN [r EXCEPT !.month = last, !.year = i] ELSE [r EXCEPT !.month = j]
  <2> HIDE DEF r
  <2> QED BY <1>1 DEF MonthBefore
<1> QED BY <1>2, <1>3, <1>4, Zenon

\* A day of a month, in a date that may have other components.
LEMMA DayOfTime ==
  ASSUME NEW y \in Int, NEW m \in 1 .. 12, NEW d, NEW h, NEW n, NEW s, NEW u,
         IsDate(Time(y, m, d, h, n, s, u))
  PROVE  /\ d \in Int /\ 1 <= d /\ d <= MonthLength(y, m)
         /\ DayNumber(Time(y, m, d, h, n, s, u)) = MonthStart(y, m) + d - 1
<1> DEFINE time == Time(y, m, d, h, n, s, u)
<1>1. time.year = y /\ time.month = m /\ time.day = d
  BY DEF Time
<1> HIDE DEF time
<1>2. d \in 1 .. MonthLength(y, m)
  BY <1>1 DEF IsDate, time
<1>3. MonthLength(y, m) \in Int
  BY MonthBounds DEF Between
<1>4. d \in Int /\ 1 <= d /\ d <= MonthLength(y, m)
  BY <1>2, <1>3, SMT
<1>5. IsDayOfMonth(time, y, m)
  BY <1>1, <1>4 DEF IsDayOfMonth
<1>6. DayNumber(time) = MonthStart(y, m) + d - 1
  BY <1>1, <1>5, DayInMonth
<1> QED BY <1>4, <1>6 DEF time

\* Whatever the text, a date that is decoded from it is at most a day ahead of the
\* clock, and at most thirty days behind it (timestamp.rs:69-76).
LEMMA DecodedIsRecent ==
  ASSUME NEW stamp, NEW instant, IsInstant(instant),
         NEW time \in ParseTimestamp(stamp, CurrentUtc(instant)), IsDate(time)
  PROVE  instant.day - 30 <= DayNumber(time) /\ DayNumber(time) <= instant.day + 1 /\ DayNumber(time) \in Int
<1>1. PICK y, m, d, h, n, s : IsUtc(instant, y, m, d, h, n, s)
  BY UtcIs
<1> DEFINE utc == Time(y, m, d, h, n, s, TRUE)
           given == Given(stamp, utc)
<1>2. /\ y \in Int /\ d \in Int /\ m \in 1 .. 12 /\ 1 <= d /\ d <= MonthLength(y, m)
      /\ instant.day = MonthStart(y, m) + d - 1 /\ CurrentUtc(instant) = utc
  BY <1>1 DEF IsUtc
<1>3. Between(MonthLength(y, m), 28, 31) /\ MonthStart(y, m) \in Int
  BY <1>2, MonthBounds
<1>4. /\ stamp.suffix \in {"h", "z", "/"}
      /\ time = IF IsOfLastMonth(stamp, given, utc) THEN MonthBefore(given) ELSE given
  BY <1>2 DEF ParseTimestamp
<1>5. utc.day = d
  BY DEF Time
<1> HIDE DEF utc
<1>6. CASE stamp.suffix = "h"
  <2> DEFINE a == stamp.numbers[1]
             b == stamp.numbers[2]
             c == stamp.numbers[3]
             u == TRUE
  <2>1. given = Time(y, m, d, a, b, c, u)
    BY <1>6, GivenIs DEF utc
  <2>2. ~ IsOfLastMonth(stamp, given, utc)
    BY <1>6 DEF IsOfLastMonth
  <2> HIDE DEF a, b, c, u, given
  <2>3. IsDate(Time(y, m, d, a, b, c, u)) /\ time = Time(y, m, d, a, b, c, u)
    BY <1>4, <2>1, <2>2
  <2>4. DayNumber(time) = MonthStart(y, m) + d - 1
    BY <1>2, <2>3, DayOfTime
  <2> QED BY <1>2, <1>3, <2>4, SMT DEF Between
<1>7. CASE stamp.suffix # "h"
  <2> DEFINE a == stamp.numbers[1]
             b == stamp.numbers[2]
             c == stamp.numbers[3]
             o == 0
             u == stamp.suffix = "z"
  <2>1. given = Time(y, m, a, b, c, o, u)
    BY <1>7, GivenIs DEF utc
  <2>2. IsOfLastMonth(stamp, given, utc) <=> given.day > utc.day + 1
    BY <1>4, <1>7 DEF IsOfLastMonth
  <2>3. given.day = a
    BY <2>1 DEF Time
  <2> HIDE DEF a, b, c, o, u, given
  <2>4. CASE ~ IsOfLastMonth(stamp, given, utc)
    <3>1. IsDate(Time(y, m, a, b, c, o, u)) /\ time = Time(y, m, a, b, c, o, u)
      BY <1>4, <2>1, <2>4
    <3>2. a \in Int /\ 1 <= a /\ a <= MonthLength(y, m) /\ DayNumber(time) = MonthStart(y, m) + a - 1
      BY <1>2, <3>1, DayOfTime
    <3>3. ~ (a > d + 1)
      BY <1>5, <2>2, <2>3, <2>4
    <3> QED BY <1>2, <1>3, <3>2, <3>3, SMT DEF Between
  <2>5. CASE IsOfLastMonth(stamp, given, utc)
    <3> DEFINE py == IF m = 1 THEN y - 1 ELSE y
               pm == IF m = 1 THEN 12 ELSE m - 1
    <3>1. py \in Int /\ pm \in 1 .. 12
      BY <1>2, SMT
    <3>2. MonthStart(y, m) = MonthStart(py, pm) + MonthLength(py, pm)
      <4>1. CASE m = 1
        <5>1. IF 12 = 12 THEN MonthStart((y - 1) + 1, 1) = MonthStart(y - 1, 12) + MonthLength(y - 1, 12) ELSE TRUE
          BY <1>2, MonthAfterMonth
        <5> QED BY <1>2, <4>1, <5>1
      <4>2. CASE m # 1
        <5>1. m - 1 \in 1 .. 12 /\ m - 1 # 12 /\ (m - 1) + 1 = m
          BY <1>2, <4>2, SMT
        <5>2. MonthStart(y, (m - 1) + 1) = MonthStart(y, m - 1) + MonthLength(y, m - 1)
          BY <1>2, <5>1, MonthAfterMonth
        <5> QED BY <4>2, <5>1, <5>2
      <4> QED BY <4>1, <4>2
    <3>3. time = Time(py, pm, a, b, c, o, u)
      <4>1. time = MonthBefore(Time(y, m, a, b, c, o, u))
        BY <1>4, <2>1, <2>5
      <4> QED BY <4>1, MonthBeforeIs
    <3>4. Between(MonthLength(py, pm), 28, 31) /\ MonthStart(py, pm) \in Int
      BY <3>1, MonthBounds
    <3> HIDE DEF py, pm
    <3>5. a \in Int /\ 1 <= a /\ a <= MonthLength(py, pm) /\ DayNumber(time) = MonthStart(py, pm) + a - 1
      BY <3>1, <3>3, DayOfTime
    <3>6. a > d + 1
      BY <1>5, <2>2, <2>3, <2>5
    <3> QED BY <1>2, <1>3, <3>2, <3>4, <3>5, <3>6, SMT DEF Between
  <2> QED BY <2>4, <2>5
<1> QED BY <1>6, <1>7

\* The numbers of a timestamp that frap makes.
LEMMA EncodedIs ==
  ASSUME NEW sent, NEW y, NEW m, NEW d, NEW h, NEW n, NEW s, IsUtc(sent, y, m, d, h, n, s)
  PROVE  /\ Encoded(sent, "DayHourMinute") = [numbers |-> <<d, h, n>>, suffix |-> "z"]
         /\ Encoded(sent, "HourMinuteSecond") = [numbers |-> <<h, n, s>>, suffix |-> "h"]
<1> DEFINE utc == CurrentUtc(sent)
<1>1. utc.day = d /\ utc.hour = h /\ utc.minute = n /\ utc.second = s
  BY SMT DEF IsUtc, Time
<1> HIDE DEF utc
<1>2. /\ Encoded(sent, "DayHourMinute")
           = [numbers |-> <<utc.day, utc.hour, utc.minute>>, suffix |-> "z"]
      /\ Encoded(sent, "HourMinuteSecond")
           = [numbers |-> <<utc.hour, utc.minute, utc.second>>, suffix |-> "h"]
  BY DEF Encoded, utc
<1> QED BY <1>1, <1>2

\* Two dates, the first of which lies at most a day ahead of the second and at most
\* 26 days behind it, in no later month.
AreNear(y, m, d, z, k, e) ==
  /\ y \in Int /\ m \in 1 .. 12 /\ d \in Int /\ 1 <= d /\ d <= MonthLength(y, m)
  /\ z \in Int /\ k \in 1 .. 12 /\ e \in Int /\ 1 <= e /\ e <= MonthLength(z, k)
  /\ 12 * y + m <= 12 * z + k
  /\ MonthStart(y, m) + d <= MonthStart(z, k) + e + 1
  /\ MonthStart(z, k) + e <= MonthStart(y, m) + d + 26

\* The first is of the month of the second; or of the month before, and then its day
\* of the month is at least two ahead.
LEMMA MonthIsKnown ==
  ASSUME NEW y, NEW m, NEW d, NEW z, NEW k, NEW e, AreNear(y, m, d, z, k, e)
  PROVE  \/ y = z /\ m = k /\ d <= e + 1
         \/ /\ d > e + 1
            /\ y = (IF k = 1 THEN z - 1 ELSE z) /\ m = (IF k = 1 THEN 12 ELSE k - 1)
<1> USE DEF AreNear
<1>1. /\ Between(MonthLength(y, m), 28, 31) /\ MonthStart(y, m) \in Int
      /\ Between(MonthLength(z, k), 28, 31) /\ MonthStart(z, k) \in Int
  BY MonthBounds
<1>2. CASE 12 * y + m = 12 * z + k
  <2>1. y = z /\ m = k
    BY <1>2, SMT
  <2> QED BY <1>1, <2>1, SMT
<1>3. CASE 12 * z + k = 12 * y + m + 1
  <2>1. y = (IF k = 1 THEN z - 1 ELSE z) /\ m = (IF k = 1 THEN 12 ELSE k - 1)
    BY <1>3, SMT
  <2>2. MonthStart(z, k) = MonthStart(y, m) + MonthLength(y, m)
    <3>1. CASE m = 12
      <4>1. z = y + 1 /\ k = 1
        BY <2>1, <3>1, SMT
      <4> QED BY <3>1, <4>1, MonthAfterMonth
    <3>2. CASE m # 12
      <4>1. z = y /\ k = m + 1
        BY <2>1, <3>2, SMT
      <4> QED BY <3>2, <4>1, MonthAfterMonth
    <3> QED BY <3>1, <3>2
  <2>3. d > e + 1
    BY <1>1, <2>2, SMT DEF Between
  <2> QED BY <2>1, <2>3
<1>4. CASE 12 * z + k >= 12 * y + m + 2
  <2>1. MonthStart(z, k) >= MonthStart(y, m) + 58
    BY <1>4, MonthsApart
  <2> QED BY <1>1, <2>1, SMT DEF Between
<1> QED BY <1>2, <1>3, <1>4, SMT

\* A day-based timestamp of frap is decoded to the minute at which it was made.
LEMMA DateComesBack ==
  ASSUME NEW sent, IsInstant(sent), NEW at, IsInstant(at),
         sent.day <= at.day + 1, at.day <= sent.day + 26,
         MonthNumber(CurrentUtc(sent)) <= MonthNumber(CurrentUtc(at))
  PROVE  ParseTimestamp(Encoded(sent, "DayHourMinute"), CurrentUtc(at))
           = {[CurrentUtc(sent) EXCEPT !.second = 0]}
<1>1. PICK y, m, d, h, n, s : IsUtc(sent, y, m, d, h, n, s)
  BY UtcIs
<1>2. PICK z, k, e, i, j, l : IsUtc(at, z, k, e, i, j, l)
  BY UtcIs
<1> DEFINE stamp == [numbers |-> <<d, h, n>>, suffix |-> "z"]
           utc == Time(z, k, e, i, j, l, TRUE)
           given == Given(stamp, utc)
           o == 0
           u == TRUE
           made == Time(y, m, d, h, n, o, u)
<1>3. Encoded(sent, "DayHourMinute") = stamp /\ CurrentUtc(at) = utc
  <2>1. CurrentUtc(at) = utc
    BY <1>2 DEF IsUtc
  <2> HIDE DEF utc
  <2> QED BY <1>1, <2>1, EncodedIs
<1>4. [CurrentUtc(sent) EXCEPT !.second = 0] = made
  <2>1. CurrentUtc(sent) = Time(y, m, d, h, n, s, u)
    BY <1>1 DEF IsUtc
  <2> HIDE DEF u
  <2>2. [Time(y, m, d, h, n, s, u) EXCEPT !.second = o] = made
    <3> HIDE DEF o
    <3> QED BY SMT DEF Time
  <2> QED BY <2>1, <2>2
<1>5. given = Time(z, k, d, h, n, o, u) /\ stamp.suffix = "z"
  <2>1. /\ stamp.numbers[1] = d /\ stamp.numbers[2] = h /\ stamp.numbers[3] = n
        /\ stamp.suffix = "z"
    OBVIOUS
  <2> HIDE DEF stamp
  <2> QED BY <2>1, GivenIs
<1>6. InRange(given) /\ given.day = d /\ utc.day = e
  <2>1. given.hour = h /\ given.minute = n /\ given.second = 0 /\ given.day = d /\ utc.day = e
    BY <1>5 DEF Time
  <2>2. h <= 23 /\ n <= 59 /\ 1 <= d /\ d \in Int
    BY <1>1 DEF IsUtc
  <2> HIDE DEF given, utc
  <2> QED BY <2>1, <2>2, SMT DEF InRange
<1>7. \/ y = z /\ m = k /\ d <= e + 1
      \/ /\ d > e + 1
         /\ y = (IF k = 1 THEN z - 1 ELSE z) /\ m = (IF k = 1 THEN 12 ELSE k - 1)
  <2>1. /\ y \in Int /\ m \in 1 .. 12 /\ d \in Int /\ 1 <= d /\ d <= MonthLength(y, m)
        /\ z \in Int /\ k \in 1 .. 12 /\ e \in Int /\ 1 <= e /\ e <= MonthLength(z, k)
        /\ sent.day = MonthStart(y, m) + d - 1 /\ at.day = MonthStart(z, k) + e - 1
    BY <1>1, <1>2 DEF IsUtc
  <2>2. MonthStart(y, m) \in Int /\ MonthStart(z, k) \in Int
    BY <2>1, MonthBounds
  <2>3. y * 12 + m <= z * 12 + k
    <3>1. CurrentUtc(sent).year = y /\ CurrentUtc(sent).month = m
      BY <1>1 DEF IsUtc, Time
    <3>2. CurrentUtc(at).year = z /\ CurrentUtc(at).month = k
      BY <1>2 DEF IsUtc, Time
    <3> QED BY <3>1, <3>2 DEF MonthNumber
  <2>4. /\ 12 * y + m <= 12 * z + k
        /\ MonthStart(y, m) + d <= MonthStart(z, k) + e + 1
        /\ MonthStart(z, k) + e <= MonthStart(y, m) + d + 26
    BY <2>1, <2>2, <2>3, SMT
  <2>5. AreNear(y, m, d, z, k, e)
    BY <2>1, <2>4 DEF AreNear
  <2> QED BY <2>5, MonthIsKnown
<1>8. IsOfLastMonth(stamp, given, utc) <=> d > e + 1
  BY <1>5, <1>6 DEF IsOfLastMonth
<1>9. ParseTimestamp(stamp, utc) =
        {IF IsOfLastMonth(stamp, given, utc) THEN MonthBefore(given) ELSE given}
  <2> HIDE DEF stamp, utc
  <2> QED BY <1>5, <1>6, SMT DEF ParseTimestamp
<1> HIDE DEF stamp, utc, given
<1>10. (IF IsOfLastMonth(stamp, given, utc) THEN MonthBefore(given) ELSE given) = made
  <2>0. d \in Int /\ e \in Int
    BY <1>1, <1>2, UtcTypes, Zenon
  <2>1. CASE y = z /\ m = k /\ d <= e + 1
    <3>1. ~ IsOfLastMonth(stamp, given, utc)
      BY <1>8, <2>0, <2>1, SMT
    <3> QED BY <1>5, <2>1, <3>1
  <2>2. CASE /\ d > e + 1
             /\ y = (IF k = 1 THEN z - 1 ELSE z) /\ m = (IF k = 1 THEN 12 ELSE k - 1)
    <3> HIDE DEF o, u
    <3>1. MonthBefore(given) =
            IF k = 1 THEN Time(z - 1, 12, d, h, n, o, u) ELSE Time(z, k - 1, d, h, n, o, u)
      BY <1>5, MonthBeforeIs
    <3> QED BY <1>8, <2>2, <3>1
  <2> QED BY <1>7, <2>1, <2>2
<1> QED BY <1>3, <1>4, <1>9, <1>10

\* A time of day of frap is decoded to the same time of the receiver's day.
LEMMA TimeOfDayComesBack ==
  ASSUME NEW sent, IsInstant(sent), NEW at, IsInstant(at)
  PROVE  ParseTimestamp(Encoded(sent, "HourMinuteSecond"), CurrentUtc(at))
           = {CurrentUtc([day |-> at.day, second |-> sent.second])}
<1>1. PICK y, m, d, h, n, s : IsUtc(sent, y, m, d, h, n, s)
  BY UtcIs
<1>2. PICK z, k, e, i, j, l : IsUtc(at, z, k, e, i, j, l)
  BY UtcIs
<1> DEFINE stamp == [numbers |-> <<h, n, s>>, suffix |-> "h"]
           utc == Time(z, k, e, i, j, l, TRUE)
           given == Given(stamp, utc)
           both == [day |-> at.day, second |-> sent.second]
<1>3. Encoded(sent, "HourMinuteSecond") = stamp /\ CurrentUtc(at) = utc
  <2>1. CurrentUtc(at) = utc
    BY <1>2 DEF IsUtc
  <2> HIDE DEF utc
  <2> QED BY <1>1, <2>1, EncodedIs
<1>4. given = Time(z, k, e, h, n, s, TRUE) /\ stamp.suffix = "h"
  <2>1. /\ stamp.numbers[1] = h /\ stamp.numbers[2] = n /\ stamp.numbers[3] = s
        /\ stamp.suffix = "h"
    OBVIOUS
  <2> HIDE DEF stamp
  <2> QED BY <2>1, GivenIs
<1>5. InRange(given)
  <2>1. given.hour = h /\ given.minute = n /\ given.second = s /\ given.day = e
    BY <1>4 DEF Time
  <2>2. h <= 23 /\ n <= 59 /\ s <= 59 /\ 1 <= e /\ e \in Int
    BY <1>1, <1>2, UtcTypes, Zenon
  <2> HIDE DEF given
  <2> QED BY <2>1, <2>2, SMT DEF InRange
<1>6. CurrentUtc(both) = Time(z, k, e, h, n, s, TRUE)
  <2> DEFINE civil == CivilFromDays(at.day)
             f == sent.second \div 3600
             g == (sent.second % 3600) \div 60
             q == sent.second % 60
  <2>1. CurrentUtc(both) = Time(civil.year, civil.month, civil.day, f, g, q, TRUE)
    <3> HIDE DEF civil
    <3>1. both.day = at.day /\ both.second = sent.second
      OBVIOUS
    <3> HIDE DEF both
    <3> QED BY <3>1, SMT DEF CurrentUtc, Time, civil
  <2>2. h = f /\ n = g /\ s = q
    BY <1>1 DEF IsUtc
  <2>3. z = civil.year /\ k = civil.month /\ e = civil.day
    <3>1. CurrentUtc(at).year = civil.year /\ CurrentUtc(at).month = civil.month
             /\ CurrentUtc(at).day = civil.day
      <4> HIDE DEF civil
      <4> QED BY SMT DEF CurrentUtc, civil
    <3>2. utc.year = z /\ utc.month = k /\ utc.day = e
      BY DEF Time
    <3> QED BY <1>3, <3>1, <3>2
  <2> HIDE DEF civil, f, g, q
  <2> QED BY <2>1, <2>2, <2>3
<1>7. ParseTimestamp(stamp, utc) = {given}
  <2> HIDE DEF stamp, utc
  <2>1. ~ IsOfLastMonth(stamp, given, utc)
    BY <1>4 DEF IsOfLastMonth
  <2> QED BY <1>4, <1>5, <2>1, SMT DEF ParseTimestamp
<1> HIDE DEF stamp, utc, given, both
<1>8. ParseTimestamp(Encoded(sent, "HourMinuteSecond"), CurrentUtc(at)) = {CurrentUtc(both)}
  BY <1>3, <1>4, <1>6, <1>7
<1> QED BY <1>8 DEF both

-----------------------------------------------------------------------------
(* The invariant of a report on its way.                                   *)

\* The receiver's clock runs on from the moment at which the timestamp was made.
ClockInv ==
  /\ start \in Starts /\ skew \in Skews /\ IsInstant(now)
  /\ start.day <= now.day /\ now.day <= start.day + MaxDays

\* What the timestamp says to the receiver at this moment.
Heard == IF Permanent(raw) THEN {} ELSE ParseTimestamp(raw, CurrentUtc(Clock(now)))

\* The text stays as its sender made it, and what is decoded from it as it was when
\* it was decoded.
TextInv ==
  /\ own /\ step \in {"sent", "received"} =>
       \/ raw = Encoded(Made, "DayHourMinute")
       \/ carrier # "object" /\ raw = Encoded(Made, "HourMinuteSecond")
  /\ decoded = {} \/ decoded = Heard
  /\ step \in {"new", "sent"} => decoded = {}
  /\ step = "received" => decoded = Heard

RInv == ClockInv /\ TextInv

\* Time passes a second or a day at a time.
LEMMA AfterIs ==
  ASSUME NEW instant, IsInstant(instant), NEW seconds \in Int, 0 <= seconds, seconds <= 86400
  PROVE  /\ IsInstant(After(instant, seconds))
         /\ instant.day <= After(instant, seconds).day
         /\ After(instant, seconds).day <= instant.day + 1
<1> DEFINE total == instant.second + seconds
<1>1. total \in Int /\ 0 <= total /\ total < 172800 /\ instant.day \in Int
  BY SMT DEF IsInstant
<1>2. After(instant, seconds) = [day |-> instant.day + total \div 86400, second |-> total % 86400]
  BY DEF After
<1> HIDE DEF total
<1>3. \E q, r \in Int : /\ q = total \div 86400 /\ r = total % 86400
                        /\ 0 <= q /\ q <= 1 /\ 0 <= r /\ r < 86400
  BY <1>1, SMT
<1> QED BY <1>1, <1>2, <1>3, SMT DEF IsInstant

\* The moments of the model.
LEMMA StartIs == \A s \in Starts : IsInstant(s)
BY ClockAssumption, SMT DEF ClockAssumption, IsInstant

\* The clocks of two stations differ by a day at most.
LEMMA SkewIs == \A s \in Skews : s \in Int /\ 0 <= s /\ s <= 86400
BY ClockAssumption, SMT DEF ClockAssumption

\* The bounds of the model are natural numbers, and a packet is on its way for at
\* most a day.
LEMMA BoundsAre == MaxDays \in Int /\ 0 <= MaxDays /\ Delay \in Int /\ 0 <= Delay /\ Delay <= 86400
BY ClockAssumption, SMT DEF ClockAssumption

\* The system clock is never behind, and shows another day only before 1970.
LEMMA ClockShows ==
  ASSUME NEW instant, IsInstant(instant)
  PROVE  /\ IsInstant(Clock(instant)) /\ instant.day <= Clock(instant).day
         /\ Clock(instant).day = instant.day \/ Clock(instant).day = 0
BY SMT DEF IsInstant, Clock

\* What a step of RNext does to the timestamp: it is encoded, time passes, it is
\* received, its packet is refused or lost, or it is sent on as it is.
Keeps == UNCHANGED <<start, now, skew, own, carrier, raw>>

Drops == step' \in {"refused", "lost"} /\ Keeps /\ UNCHANGED decoded

GoesOn == step = "received" /\ step' = "sent" /\ decoded' = {} /\ Keeps

\* Every step is one of these to the timestamp.
LEMMA TimestampStep ==
  ASSUME [RNext]_reportVars
  PROVE  \/ \E format \in Format : Encode(format)
         \/ TimePasses \/ Receive \/ Drops \/ GoesOn \/ UNCHANGED vars
<1>1. CASE UNCHANGED reportVars
  BY <1>1 DEF reportVars
<1>2. CASE \E format \in Format : Send(format)
  <2>1. PICK format \in Format : Send(format)
    BY <1>2
  <2> QED BY <2>1 DEF Send, Drops, Keeps
<1>3. CASE Pass
  BY <1>3 DEF Pass
<1>4. CASE Parse
  BY <1>4 DEF Parse, Drops, Keeps
<1>5. CASE Relay
  BY <1>5 DEF Relay, Drops, GoesOn, Keeps
<1>6. CASE ReportEnds
  BY <1>6 DEF ReportEnds, reportVars
<1> QED BY <1>1, <1>2, <1>3, <1>4, <1>5, <1>6 DEF RNext

\* The invariant holds at first.
LEMMA ReportStart == RInit => RInv
<1> SUFFICES ASSUME RInit PROVE RInv
  OBVIOUS
<1>1. ClockInv
  BY StartIs, BoundsAre, SMT DEF RInit, Init, ClockInv, IsInstant
<1>2. TextInv
  <2>1. decoded = {} /\ (step = "new" \/ (step = "sent" /\ own = FALSE))
    BY DEF RInit, Init
  <2> QED BY <2>1 DEF TextInv
<1> QED BY <1>1, <1>2 DEF RInv

\* Every step keeps the invariant.
LEMMA ReportStep == RInv /\ [RNext]_reportVars => RInv'
<1> SUFFICES ASSUME RInv, [RNext]_reportVars PROVE RInv'
  OBVIOUS
<1> USE DEF RInv
<1>1. CASE \E format \in Format : Encode(format)
  <2>1. PICK format \in Format : Encode(format)
    BY <1>1
  <2>2. ClockInv'
    BY <2>1 DEF Encode, ClockInv
  <2>3. /\ step' = "sent" /\ decoded' = {} /\ raw' = Encoded(Made, format)
        /\ carrier' = carrier /\ (carrier = "object" => format = "DayHourMinute")
        /\ Made' = Made
    BY <2>1 DEF Encode, TextInv, Made
  <2>4. format = "DayHourMinute" \/ format = "HourMinuteSecond"
    BY DEF Format
  <2>5. TextInv'
    BY <2>3, <2>4 DEF TextInv
  <2> QED BY <2>2, <2>5
<1>2. CASE TimePasses
  <2>1. ClockInv'
    <3>1. /\ IsInstant(now') /\ now.day <= now'.day
      BY <1>2, AfterIs, BoundsAre DEF TimePasses, ClockInv
    <3>2. /\ start' = start /\ skew' = skew /\ now'.day - start.day <= MaxDays
          /\ IsInstant(start) /\ IsInstant(now)
      BY <1>2, StartIs DEF TimePasses, ClockInv
    <3> QED BY <3>1, <3>2, BoundsAre, SMT DEF ClockInv, IsInstant
  <2>2. TextInv'
    <3>1. /\ step = "sent" /\ step' = step /\ decoded' = decoded /\ raw' = raw /\ own' = own
          /\ carrier' = carrier /\ Made' = Made
      BY <1>2 DEF TimePasses, Made
    <3> QED BY <3>1 DEF TextInv
  <2> QED BY <2>1, <2>2
<1>3. CASE Receive
  <2>1. ClockInv'
    BY <1>3 DEF Receive, ClockInv
  <2>2. TextInv'
    <3>1. /\ step = "sent" /\ step' = "received" /\ raw' = raw /\ own' = own
          /\ carrier' = carrier /\ Made' = Made
      BY <1>3 DEF Receive, Made
    <3>2. decoded' = Heard'
      BY <1>3 DEF Receive, Heard, Permanent
    <3> QED BY <3>1, <3>2 DEF TextInv
  <2> QED BY <2>1, <2>2
<1>4. CASE Drops
  <2>1. ClockInv'
    BY <1>4 DEF Drops, Keeps, ClockInv
  <2>2. Heard' = Heard /\ step' \notin {"new", "sent", "received"} /\ decoded' = decoded
    BY <1>4 DEF Drops, Keeps, Heard, Permanent
  <2> QED BY <2>1, <2>2 DEF TextInv
<1>5. CASE GoesOn
  <2>1. ClockInv'
    BY <1>5 DEF GoesOn, Keeps, ClockInv
  <2>2. /\ step = "received" /\ step' = "sent" /\ decoded' = {} /\ raw' = raw /\ own' = own
        /\ carrier' = carrier /\ Made' = Made
    BY <1>5 DEF GoesOn, Keeps, Made
  <2> QED BY <2>1, <2>2 DEF TextInv
<1>6. CASE UNCHANGED vars
  <2>1. ClockInv'
    BY <1>6 DEF vars, ClockInv
  <2>2. /\ step' = step /\ decoded' = decoded /\ raw' = raw /\ own' = own
        /\ carrier' = carrier /\ Made' = Made /\ Heard' = Heard
    BY <1>6 DEF vars, Made, Heard, Permanent
  <2> QED BY <2>1, <2>2 DEF TextInv
<1> QED BY <1>1, <1>2, <1>3, <1>4, <1>5, <1>6, TimestampStep

\* RInv is an invariant of the reports and objects that are sent, received and
\* sent on.
THEOREM ReportInvariance == RSpec => []RInv
<1> QED BY ReportStart, ReportStep, PTL DEF RSpec

\* On every day that the clock shows, civil_from_days returns the date of the
\* Gregorian calendar, and the time of day adds up (timestamp.rs:80-111,
\* encode.rs:79-85,394-406).
THEOREM CalendarAlwaysGregorian == RSpec => []CalendarIsGregorian
<1>1. RInv => CalendarIsGregorian
  <2> SUFFICES ASSUME RInv PROVE CalendarIsGregorian
    OBVIOUS
  <2>1. IsInstant(now)
    BY DEF RInv, ClockInv
  <2>2. PICK y, m, d, h, n, s : IsUtc(now, y, m, d, h, n, s)
    BY <2>1, UtcIs
  <2> DEFINE utc == CurrentUtc(now)
  <2>3. /\ utc.year = y /\ utc.month = m /\ utc.day = d
        /\ utc.hour = h /\ utc.minute = n /\ utc.second = s
    BY <2>2, SMT DEF IsUtc, Time
  <2>4. /\ y \in Int /\ d \in Int /\ h \in Int /\ n \in Int /\ s \in Int
        /\ m \in 1 .. 12 /\ 1 <= d /\ d <= MonthLength(y, m)
        /\ now.day = MonthStart(y, m) + d - 1
        /\ h <= 23 /\ n <= 59 /\ s <= 59 /\ now.second = 3600 * h + 60 * n + s
    BY <2>2, SMT DEF IsUtc
  <2> HIDE DEF utc
  <2>5. MonthLength(y, m) \in Int
    <3>1. y \in Int /\ m \in 1 .. 12
      BY <2>2 DEF IsUtc
    <3> QED BY <3>1, MonthBounds DEF Between
  <2>6. IsDate(utc)
    BY <2>3, <2>4, <2>5, SMT DEF IsDate
  <2>7. IsDayOfMonth(utc, y, m)
    BY <2>3, <2>4 DEF IsDayOfMonth
  <2>8. DayNumber(utc) = now.day
    BY <2>3, <2>4, <2>7, DayInMonth
  <2>9. InRange(utc)
    BY <2>3, <2>4, SMT DEF InRange
  <2>10. 3600 * utc.hour + 60 * utc.minute + utc.second = now.second
    BY <2>3, <2>4, SMT
  <2> QED BY <2>6, <2>8, <2>9, <2>10 DEF CalendarIsGregorian, utc
<1> QED BY <1>1, ReportInvariance, PTL

\* Whoever made a timestamp, no date that is decoded from it lies after tomorrow or
\* more than thirty days back (timestamp.rs:69-76).
THEOREM DecodedDatesAreRecent == RSpec => []NeverInTheFuture
<1>1. RInv => NeverInTheFuture
  <2> SUFFICES ASSUME RInv, NEW time \in decoded, IsDate(time)
               PROVE  DayNumber(time) \in Clock(now).day - 30 .. Clock(now).day + 1
    BY DEF NeverInTheFuture
  <2>1. IsInstant(Clock(now))
    BY ClockShows DEF RInv, ClockInv
  <2>2. time \in ParseTimestamp(raw, CurrentUtc(Clock(now)))
    BY DEF RInv, TextInv, Heard
  <2>3. /\ Clock(now).day - 30 <= DayNumber(time) /\ DayNumber(time) <= Clock(now).day + 1
        /\ DayNumber(time) \in Int
    BY <2>1, <2>2, DecodedIsRecent
  <2>4. Clock(now).day \in Int
    BY <2>1 DEF IsInstant
  <2> QED BY <2>3, <2>4, SMT
<1> QED BY <1>1, ReportInvariance, PTL

\* For up to 26 days, across the ends of months and years, what frap sends as the
\* time is what the receiver decodes: the day and the minute, or the time of day
\* (encode.rs:70-90, timestamp.rs:41-77, parser.rs:1134-1140).  A timestamp from
\* before 1970 must not lie further back than that from the first day that a
\* system clock shows.
THEOREM MomentsAreRecovered ==
  ASSUME MaxDays <= 26, \A s \in Starts : s.day >= -26
  PROVE  RSpec => []MomentIsRecovered
<1>1. RInv => MomentIsRecovered
  <2> SUFFICES ASSUME RInv, step = "received", own PROVE
        CASE raw.suffix = "z" -> DateIsRecovered(CurrentUtc(Made))
          [] raw.suffix = "h" -> TimeOfDayIsRecovered
    BY DEF MomentIsRecovered
  <2> DEFINE at == Clock(now)
  <2>1. IsInstant(start) /\ IsInstant(now) /\ skew \in Int /\ 0 <= skew /\ skew <= 86400
    BY StartIs, SkewIs DEF RInv, ClockInv
  <2>2. IsInstant(Made) /\ start.day <= Made.day /\ Made.day <= start.day + 1
    BY <2>1, AfterIs DEF Made
  <2>3. IsInstant(at) /\ now.day <= at.day /\ (at.day = now.day \/ at.day = 0)
    BY <2>1, ClockShows
  <2>4. decoded = Heard
    BY DEF RInv, TextInv
  <2> HIDE DEF at
  <2>5. Made.day <= at.day + 1 /\ at.day <= Made.day + 26
    <3>1. start.day <= now.day /\ now.day <= start.day + MaxDays /\ start.day >= -26
      BY DEF RInv, ClockInv
    <3> QED BY <2>1, <2>2, <2>3, <3>1, BoundsAre, SMT DEF IsInstant
  <2>6. CASE raw = Encoded(Made, "DayHourMinute")
    <3> DEFINE utc == CurrentUtc(Made)
    <3>1. raw = [numbers |-> <<utc.day, utc.hour, utc.minute>>, suffix |-> "z"]
      BY <2>6 DEF Encoded
    <3> HIDE DEF utc
    <3>2. raw.suffix = "z" /\ raw.numbers = <<utc.day, utc.hour, utc.minute>>
      BY <3>1
    <3>3. Permanent(raw) <=>
            carrier = "object" /\ <<utc.day, utc.hour, utc.minute>> = <<11, 11, 11>>
      BY <3>2 DEF Permanent
    <3>4. MonthNumber(utc) <= MonthNumber(CurrentUtc(at)) =>
            ParseTimestamp(raw, CurrentUtc(at)) = {[utc EXCEPT !.second = 0]}
      BY <2>2, <2>3, <2>5, <2>6, DateComesBack DEF utc
    <3>5. DateIsRecovered(utc)
      BY <2>4, <3>3, <3>4 DEF DateIsRecovered, Heard, at
    <3> QED BY <3>2, <3>5 DEF utc
  <2>7. CASE carrier # "object" /\ raw = Encoded(Made, "HourMinuteSecond")
    <3>1. raw.suffix = "h"
      BY <2>7 DEF Encoded
    <3>2. ~ Permanent(raw)
      BY <3>1 DEF Permanent
    <3>3. ParseTimestamp(raw, CurrentUtc(at)) = {CurrentUtc([day |-> at.day, second |-> Made.second])}
      BY <2>2, <2>3, <2>7, TimeOfDayComesBack
    <3>4. TimeOfDayIsRecovered
      BY <2>4, <3>2, <3>3 DEF TimeOfDayIsRecovered, Heard, at
    <3> QED BY <3>1, <3>4
  <2> QED BY <2>6, <2>7 DEF RInv, TextInv
<1> QED BY <1>1, ReportInvariance, PTL

-----------------------------------------------------------------------------
(* Coordinates.                                                            *)

\* The units of an angle.
LEMMA UnitsAre == Minute = 910000 /\ Hundredth = 9100 /\ Degree = 54600000
<1>1. Minute = 910000
  BY DEF Minute
<1>2. 910000 \div 100 = 9100
  BY DivIs, SMT
<1> QED BY <1>1, <1>2 DEF Hundredth, Degree

\* A coordinate, with any number of minutes, and its size in grains.
Angle == [degrees : Nat, grains : Nat, negative : BOOLEAN]
Size(c) == c.degrees * Degree + c.grains

\* Normal is the same angle with less than sixty minutes.
LEMMA NormalIs ==
  ASSUME NEW c \in Angle
  PROVE  /\ Normal(c) \in Angle /\ Normal(c).negative = c.negative
         /\ Normal(c).grains < Degree /\ Size(Normal(c)) = Size(c)
         /\ c.grains < Degree => Normal(c) = c
<1>1. c.degrees \in Nat /\ c.grains \in Nat /\ c.negative \in BOOLEAN
  BY DEF Angle
<1>2. PICK q \in Nat, g \in Nat :
        /\ q = c.grains \div Degree /\ g = c.grains % Degree /\ g < Degree /\ c.grains = q * Degree + g
        /\ c.grains < Degree => q = 0 /\ g = c.grains
  <2>1. \A z \in Nat : \E q, g \in Nat :
          /\ q = z \div 54600000 /\ g = z % 54600000 /\ g < 54600000 /\ z = q * 54600000 + g
          /\ z < 54600000 => q = 0 /\ g = z
    BY SMT
  <2>2. \A z \in Nat : \E q, g \in Nat :
          /\ q = z \div Degree /\ g = z % Degree /\ g < Degree /\ z = q * Degree + g
          /\ z < Degree => q = 0 /\ g = z
    BY <2>1, UnitsAre, SMT
  <2> QED BY <1>1, <2>2, Zenon
<1>3. Normal(c) = [degrees |-> c.degrees + q, grains |-> g, negative |-> c.negative]
  <2> DEFINE x == c.degrees
             y == c.grains
             z == c.negative
  <2>1. c = [degrees |-> x, grains |-> y, negative |-> z]
    BY DEF Angle
  <2>2. Normal(c) = [c EXCEPT !.degrees = x + q, !.grains = g]
    BY <1>1, <1>2, SMT DEF Normal
  <2> DEFINE w == x + q
  <2>3. Normal(c) = [c EXCEPT !.degrees = w, !.grains = g]
    BY <2>2
  <2> HIDE DEF x, y, z, w
  <2>4. Normal(c) = [[c EXCEPT !.degrees = w] EXCEPT !.grains = g]
    BY <2>3
  <2>5. [c EXCEPT !.degrees = w] = [degrees |-> w, grains |-> y, negative |-> z]
    BY <2>1
  <2>6. Normal(c) = [degrees |-> w, grains |-> g, negative |-> z]
    BY <2>4, <2>5
  <2> QED BY <2>6 DEF w, x, z
<1>4. (c.degrees + q) * Degree + g = c.degrees * Degree + c.grains
  BY <1>1, <1>2, UnitsAre
<1>5. c.grains < Degree => Normal(c) = c
  <2> SUFFICES ASSUME c.grains < Degree PROVE Normal(c) = c
    OBVIOUS
  <2>1. c.degrees + q = c.degrees /\ g = c.grains
    BY <1>1, <1>2
  <2> QED BY <1>3, <2>1 DEF Angle
<1>6. Normal(c) \in Angle
  <2>1. c.degrees + q \in Nat
    BY <1>1
  <2> QED BY <1>1, <2>1, <1>3 DEF Angle
<1>7. Normal(c).degrees = c.degrees + q /\ Normal(c).grains = g /\ Normal(c).negative = c.negative
  BY <1>3
<1> QED BY <1>2, <1>4, <1>5, <1>6, <1>7 DEF Size

\* The middle of what the last digits of a number of hundredths leave open.
Mid(n, a) ==
  IF a = 0 THEN n ELSE IF a = 1 THEN 10 * (n \div 10) + 5
  ELSE IF a = 2 THEN 100 * (n \div 100) + 50 ELSE IF a = 3 THEN 1000 * (n \div 1000) + 500 ELSE 3000

\* Numbers of hundredths, counted from the equator or the meridian, that are such middles.
Centred(w, a) ==
  /\ w \in Nat
  /\ a = 1 => \E j \in Nat : w = 10 * j + 5
  /\ a = 2 => \E j \in Nat : w = 100 * j + 50
  /\ a = 3 => \E j \in Nat : w = 1000 * j + 500
  /\ a = 4 => \E j \in Nat : w = 6000 * j + 3000

\* They are their own middles, and those of the next number, unless every digit counts.
LEMMA MidIs ==
  ASSUME NEW w, NEW a \in 0 .. 4, Centred(w, a), w < 6000
  PROVE  Mid(w, a) = w /\ (a # 0 => Mid(w + 1, a) = w /\ w + 1 < 6000)
<1>0. w \in Nat
  BY DEF Centred
<1>1. CASE a = 0
  BY <1>1 DEF Mid
<1>2. CASE a = 1
  <2>1. PICK j \in Nat : w = 10 * j + 5
    BY <1>2 DEF Centred
  <2>2. w \div 10 = j /\ (w + 1) \div 10 = j
    BY <2>1, DivIs, SMT
  <2> QED BY <1>2, <2>1, <2>2, SMT DEF Mid
<1>3. CASE a = 2
  <2>1. PICK j \in Nat : w = 100 * j + 50
    BY <1>3 DEF Centred
  <2>2. w \div 100 = j /\ (w + 1) \div 100 = j
    BY <2>1, DivIs, SMT
  <2> QED BY <1>3, <2>1, <2>2, SMT DEF Mid
<1>4. CASE a = 3
  <2>1. PICK j \in Nat : w = 1000 * j + 500
    BY <1>4 DEF Centred
  <2>2. w \div 1000 = j /\ (w + 1) \div 1000 = j
    BY <2>1, DivIs, SMT
  <2> QED BY <1>4, <2>1, <2>2, SMT DEF Mid
<1>5. CASE a = 4
  <2>1. PICK j \in Nat : w = 6000 * j + 3000
    BY <1>5 DEF Centred
  <2>2. j = 0
    BY <2>1, SMT
  <2> QED BY <1>5, <2>1, <2>2, SMT DEF Mid
<1> QED BY <1>1, <1>2, <1>3, <1>4, <1>5, SMT

\* Whole degrees do not matter to that.
LEMMA CentredModulo ==
  ASSUME NEW w \in Nat, NEW d \in Nat, NEW a \in 0 .. 4
  PROVE  Centred(6000 * d + w, a) <=> Centred(w, a)
<1>1. (\E j \in Nat : 6000 * d + w = 10 * j + 5) <=> \E j \in Nat : w = 10 * j + 5
  <2>1. ASSUME NEW j \in Nat, 6000 * d + w = 10 * j + 5 PROVE \E i \in Nat : w = 10 * i + 5
    <3>1. j - 600 * d \in Nat /\ w = 10 * (j - 600 * d) + 5
      BY <2>1, SMT
    <3> QED BY <3>1
  <2>2. ASSUME NEW j \in Nat, w = 10 * j + 5 PROVE \E i \in Nat : 6000 * d + w = 10 * i + 5
    <3>1. j + 600 * d \in Nat /\ 6000 * d + w = 10 * (j + 600 * d) + 5
      BY <2>2, SMT
    <3> QED BY <3>1
  <2> QED BY <2>1, <2>2
<1>2. (\E j \in Nat : 6000 * d + w = 100 * j + 50) <=> \E j \in Nat : w = 100 * j + 50
  <2>1. ASSUME NEW j \in Nat, 6000 * d + w = 100 * j + 50 PROVE \E i \in Nat : w = 100 * i + 50
    <3>1. j - 60 * d \in Nat /\ w = 100 * (j - 60 * d) + 50
      BY <2>1, SMT
    <3> QED BY <3>1
  <2>2. ASSUME NEW j \in Nat, w = 100 * j + 50 PROVE \E i \in Nat : 6000 * d + w = 100 * i + 50
    <3>1. j + 60 * d \in Nat /\ 6000 * d + w = 100 * (j + 60 * d) + 50
      BY <2>2, SMT
    <3> QED BY <3>1
  <2> QED BY <2>1, <2>2
<1>3. (\E j \in Nat : 6000 * d + w = 1000 * j + 500) <=> \E j \in Nat : w = 1000 * j + 500
  <2>1. ASSUME NEW j \in Nat, 6000 * d + w = 1000 * j + 500 PROVE \E i \in Nat : w = 1000 * i + 500
    <3>1. j - 6 * d \in Nat /\ w = 1000 * (j - 6 * d) + 500
      BY <2>1, SMT
    <3> QED BY <3>1
  <2>2. ASSUME NEW j \in Nat, w = 1000 * j + 500 PROVE \E i \in Nat : 6000 * d + w = 1000 * i + 500
    <3>1. j + 6 * d \in Nat /\ 6000 * d + w = 1000 * (j + 6 * d) + 500
      BY <2>2, SMT
    <3> QED BY <3>1
  <2> QED BY <2>1, <2>2
<1>4. (\E j \in Nat : 6000 * d + w = 6000 * j + 3000) <=> \E j \in Nat : w = 6000 * j + 3000
  <2>1. ASSUME NEW j \in Nat, 6000 * d + w = 6000 * j + 3000 PROVE \E i \in Nat : w = 6000 * i + 3000
    <3>1. j - d \in Nat /\ w = 6000 * (j - d) + 3000
      BY <2>1, SMT
    <3> QED BY <3>1
  <2>2. ASSUME NEW j \in Nat, w = 6000 * j + 3000 PROVE \E i \in Nat : 6000 * d + w = 6000 * i + 3000
    <3>1. j + d \in Nat /\ 6000 * d + w = 6000 * (j + d) + 3000
      BY <2>2, SMT
    <3> QED BY <3>1
  <2> QED BY <2>1, <2>2
<1>5. 6000 * d + w \in Nat
  BY SMT
<1>6. CASE a = 0
  BY <1>5, <1>6 DEF Centred
<1>7. CASE a = 1
  BY <1>1, <1>5, <1>7 DEF Centred
<1>8. CASE a = 2
  BY <1>2, <1>5, <1>8 DEF Centred
<1>9. CASE a = 3
  BY <1>3, <1>5, <1>9 DEF Centred
<1>10. CASE a = 4
  BY <1>4, <1>5, <1>10 DEF Centred
<1> QED BY <1>6, <1>7, <1>8, <1>9, <1>10, SMT

\* A number of ten thousandths of a minute has these digits.
IsScaled(n) == n \in Nat /\ n < 600000
IsNumber(n, d1, d2, d3, d4, s) ==
  /\ d1 \in 0 .. 5 /\ d2 \in 0 .. 9 /\ d3 \in 0 .. 9 /\ d4 \in 0 .. 9 /\ s \in 0 .. 99
  /\ n = 100000 * d1 + 10000 * d2 + 1000 * d3 + 100 * d4 + s

\* Every number of ten thousandths of a minute has four digits and a rest.
LEMMA NumberExists ==
  ASSUME NEW n, IsScaled(n)
  PROVE  \E d1, d2, d3, d4, s : IsNumber(n, d1, d2, d3, d4, s)
<1>0. n \in Nat /\ n < 600000
  BY SMT DEF IsScaled
<1>1. PICK d1 \in Nat, r1 \in Nat : n = d1 * 100000 + r1 /\ r1 < 100000
  <2>1. n \in Nat /\ \E q, g \in Nat : q = n \div 100000 /\ g = n % 100000 /\ n = q * 100000 + g /\ g < 100000
    BY <1>0, SMT
  <2> QED BY <2>1, SMT
<1>2. PICK d2 \in Nat, r2 \in Nat : r1 = d2 * 10000 + r2 /\ r2 < 10000
  <2>1. r1 \in Nat /\ \E q, g \in Nat : q = r1 \div 10000 /\ g = r1 % 10000 /\ r1 = q * 10000 + g /\ g < 10000
    BY SMT
  <2> QED BY <2>1, SMT
<1>3. PICK d3 \in Nat, r3 \in Nat : r2 = d3 * 1000 + r3 /\ r3 < 1000
  <2>1. r2 \in Nat /\ \E q, g \in Nat : q = r2 \div 1000 /\ g = r2 % 1000 /\ r2 = q * 1000 + g /\ g < 1000
    BY SMT
  <2> QED BY <2>1, SMT
<1>4. PICK d4 \in Nat, s \in Nat : r3 = d4 * 100 + s /\ s < 100
  <2>1. r3 \in Nat /\ \E q, g \in Nat : q = r3 \div 100 /\ g = r3 % 100 /\ r3 = q * 100 + g /\ g < 100
    BY SMT
  <2> QED BY <2>1, SMT
<1>6. IsNumber(n, d1, d2, d3, d4, s)
  BY <1>0, <1>1, <1>2, <1>3, <1>4, SMT DEF IsNumber
<1> HIDE <1>0, <1>1, <1>2, <1>3, <1>4
<1> QED BY <1>6, SMT

\* They are what the divisions of the code give.
LEMMA NumberIsOf ==
  ASSUME NEW n, NEW d1, NEW d2, NEW d3, NEW d4, NEW s, IsNumber(n, d1, d2, d3, d4, s)
  PROVE  /\ n \div 100000 = d1 /\ (n \div 10000) % 10 = d2 /\ (n \div 1000) % 10 = d3
         /\ (n \div 100) % 10 = d4 /\ n % 100 = s
         /\ n \div 100 = 1000 * d1 + 100 * d2 + 10 * d3 + d4
<1>1. /\ d1 \in 0 .. 5 /\ d2 \in 0 .. 9 /\ d3 \in 0 .. 9 /\ d4 \in 0 .. 9 /\ s \in 0 .. 99
      /\ n = 100000 * d1 + 10000 * d2 + 1000 * d3 + 100 * d4 + s
  BY SMT DEF IsNumber
<1>2. n \div 100000 = d1
  BY <1>1, DivIs, SMT
<1>3. n \div 10000 = 10 * d1 + d2
  BY <1>1, DivIs, SMT
<1>4. n \div 1000 = 100 * d1 + 10 * d2 + d3
  BY <1>1, DivIs, SMT
<1>5. n \div 100 = 1000 * d1 + 100 * d2 + 10 * d3 + d4
  BY <1>1, DivIs, SMT
<1>6. n % 100 = s
  BY <1>1, SMT
<1>7. (10 * d1 + d2) % 10 = d2
  BY <1>1, SMT
<1>8. (100 * d1 + 10 * d2 + d3) % 10 = d3
  BY <1>1, SMT
<1>9. (1000 * d1 + 100 * d2 + 10 * d3 + d4) % 10 = d4
  BY <1>1, SMT
<1> QED BY <1>2, <1>3, <1>4, <1>5, <1>6, <1>7, <1>8, <1>9, SMT

Middles(c, d1, d2, d3) ==
  /\ Mid(c, 0) = c /\ Mid(c, 1) = 1000 * d1 + 100 * d2 + 10 * d3 + 5
  /\ Mid(c, 2) = 1000 * d1 + 100 * d2 + 50 /\ Mid(c, 3) = 1000 * d1 + 500
  /\ Mid(c, 4) = 3000

\* The middle is that of the digits that are left.
LEMMA MidOfDigits ==
  ASSUME NEW d1 \in 0 .. 9, NEW d2 \in 0 .. 9, NEW d3 \in 0 .. 9, NEW d4 \in 0 .. 9,
         NEW c, c = 1000 * d1 + 100 * d2 + 10 * d3 + d4
  PROVE  Middles(c, d1, d2, d3)
<1>1. c \div 10 = 100 * d1 + 10 * d2 + d3
  BY DivIs, SMT
<1>2. c \div 100 = 10 * d1 + d2
  BY DivIs, SMT
<1>3. c \div 1000 = d1
  BY DivIs, SMT
<1> QED BY <1>1, <1>2, <1>3, SMT DEF Mid, Middles

\* The first digits of a number, and blanks.
IsCut(f, d1, d2, d3, d4, a) ==
  /\ f \in [1 .. 4 -> 0 .. 10]
  /\ f[1] = IF a < 4 THEN d1 ELSE Blank
  /\ f[2] = IF a < 3 THEN d2 ELSE Blank
  /\ f[3] = IF a < 2 THEN d3 ELSE Blank
  /\ f[4] = IF a < 1 THEN d4 ELSE Blank

\* A function on numbers from 1 is a sequence.
LEMMA TupleIs ==
  ASSUME NEW n \in Nat, NEW S, NEW f \in [1 .. n -> S]
  PROVE  f \in Seq(S) /\ Len(f) = n
<1>1. f \in Seq(S)
  BY SeqDef
<1> QED BY <1>1, LenProperties

\* How many blanks a text ends in.
LEMMA BlanksAre ==
  ASSUME NEW d, Len(d) \in Nat, NEW n \in 0 .. Len(d),
         \A i \in Len(d) - n + 1 .. Len(d) : d[i] = Blank,
         n < Len(d) => d[Len(d) - n] # Blank
  PROVE  TrailingBlanks(d) = n
<1> DEFINE L == Len(d)
           P(m) == /\ \A i \in L - m + 1 .. L : d[i] = Blank
                   /\ m < L => d[L - m] # Blank
<1>1. P(n)
  OBVIOUS
<1>2. ASSUME NEW m \in 0 .. L, P(m) PROVE m = n
  <2>1. CASE m < n
    <3>1. L - m \in L - n + 1 .. L /\ m < L
      BY <2>1
    <3> QED BY <1>2, <3>1
  <2>2. CASE n < m
    <3>1. L - n \in L - m + 1 .. L /\ n < L
      BY <2>2
    <3> QED BY <1>2, <3>1
  <2> QED BY <2>1, <2>2
<1>3. TrailingBlanks(d) = CHOOSE m \in 0 .. L : P(m)
  BY DEF TrailingBlanks
<1> HIDE DEF P, L
<1>4. n \in 0 .. L
  BY DEF L
<1> QED BY <1>1, <1>2, <1>3, <1>4

\* A number of grains, its hundredths, and its ten thousandths and hundredths as they
\* are rounded.
IsGrains(g, h, x, m, k) ==
  /\ g \in Nat /\ g < 54600000 /\ h \in Nat /\ x \in Nat /\ x < 9100 /\ g = 9100 * h + x
  /\ m = Least(599999, (2 * g + 91) \div 182)
  /\ k = Least(599999, 100 * ((2 * g + 9100) \div 18200))

\* Rounding grains to ten thousandths, or to hundredths, of a minute keeps the whole hundredths
\* or adds one.
LEMMA RoundedIs ==
  ASSUME NEW g, NEW h, NEW x, NEW m, NEW k, IsGrains(g, h, x, m, k)
  PROVE  /\ IsScaled(m) /\ IsScaled(k) /\ Rounded(x, 91) \in 0 .. 100
         /\ x <= 9000 => m \div 100 = h /\ m % 100 = Rounded(x, 91)
         /\ k \div 100 = h \/ (x # 0 /\ k \div 100 = h + 1)
<1>0. /\ g \in Nat /\ g < 54600000 /\ h \in Nat /\ x \in Nat /\ x < 9100 /\ g = 9100 * h + x
      /\ m = Least(599999, (2 * g + 91) \div 182)
      /\ k = Least(599999, 100 * ((2 * g + 9100) \div 18200))
  BY SMT DEF IsGrains
<1> USE <1>0
<1>1. h < 6000
  BY SMT
<1>4. PICK q \in Nat : q = (2 * x + 91) \div 182 /\ 182 * q <= 2 * x + 91 /\ 2 * x + 91 < 182 * q + 182
  BY DivBounds, SMT
<1>5. (2 * g + 91) \div 182 = 100 * h + q
  BY <1>4, DivIs, SMT
<1>6. q <= 100 /\ (x <= 9000 => q <= 99)
  BY <1>4, SMT
<1>61. q = Rounded(x, 91)
  BY <1>4 DEF Rounded
<1> DEFINE y == 100 * h + q
<1>62. m = Least(599999, y) /\ y \in Nat
  BY <1>5, SMT
<1>7. m \in Nat /\ m < 600000 /\ (x <= 9000 => m = 100 * h + q)
  <2>1. y \in Nat /\ y <= 600000 /\ (x <= 9000 => y <= 599999)
    BY <1>1, <1>6, SMT
  <2>2. m = IF 599999 < y THEN 599999 ELSE y
    BY <1>62 DEF Least
  <2>3. m \in Nat /\ m < 600000 /\ (x <= 9000 => m = y)
    <3> HIDE DEF y
    <3> QED BY <2>1, <2>2, SMT
  <2> QED BY <2>3
<1>8. x <= 9000 => m \div 100 = h /\ m % 100 = q
  <2> SUFFICES ASSUME x <= 9000 PROVE m \div 100 = h /\ m % 100 = q
    OBVIOUS
  <2>1. m \in Nat /\ m = h * 100 + q /\ q < 100
    BY <1>6, <1>7, SMT
  <2>2. m \div 100 = h
    BY <2>1, DivIs, SMT
  <2>3. m % 100 = q
    BY <2>1, SMT
  <2> QED BY <2>2, <2>3
<1>9. PICK w \in Nat : (2 * g + 9100) \div 18200 = w /\ (w = h \/ (x # 0 /\ w = h + 1))
  <2>1. CASE 2 * x < 9100
    <3>1. (2 * g + 9100) \div 18200 = h
      BY <2>1, DivIs, SMT
    <3> QED BY <3>1
  <2>2. CASE ~ (2 * x < 9100)
    <3>1. (2 * g + 9100) \div 18200 = h + 1
      BY <2>2, DivIs, SMT
    <3>2. x # 0 /\ h + 1 \in Nat
      BY <2>2, SMT
    <3> QED BY <3>1, <3>2
  <2> QED BY <2>1, <2>2
<1>10. k = Least(599999, 100 * w) /\ w <= 6000
  BY <1>1, <1>9, SMT
<1>11. k \in Nat /\ k < 600000 /\ (k \div 100 = w \/ (w = 6000 /\ k \div 100 = 5999))
  <2>2. CASE w = 6000
    <3>1. k = 599999
      BY <1>10, <2>2, SMT DEF Least
    <3>2. k \div 100 = 5999
      BY <3>1, DivIs, SMT
    <3> QED BY <2>2, <3>1, <3>2, SMT
  <2>3. CASE w < 6000
    <3> DEFINE z == 100 * w
    <3>1. z \in Nat /\ z <= 599999 /\ z = w * 100
      BY <2>3, SMT
    <3>2. k = IF 599999 < z THEN 599999 ELSE z
      BY <1>10 DEF Least
    <3> HIDE DEF z
    <3>3. k = z
      BY <3>1, <3>2, SMT
    <3>4. k \div 100 = w
      BY <3>1, <3>3, DivIs, SMT
    <3> QED BY <3>1, <3>3, <3>4, SMT
  <2> QED BY <1>10, <2>2, <2>3, SMT
<1>12. k \div 100 = h \/ (x # 0 /\ k \div 100 = h + 1)
  <2>1. w = 6000 => h = 5999
    BY <1>1, <1>9, SMT
  <2> QED BY <1>9, <1>11, <2>1, SMT
<1>13. IsScaled(m) /\ IsScaled(k) /\ Rounded(x, 91) \in 0 .. 100
  BY <1>6, <1>61, <1>7, <1>11, SMT DEF IsScaled
<1> QED BY <1>8, <1>61, <1>12, <1>13, SMT

\* The text of a coordinate has a known number of hundredths, and with DAO a rest.
IsRest(x) == x \in Nat /\ x <= 9000
ScaledAre(c, h, x) ==
  /\ IsScaled(Scaled(c, TRUE)) /\ IsScaled(Scaled(c, FALSE)) /\ Rounded(x, 91) \in 0 .. 100
  /\ IsRest(x) => Scaled(c, TRUE) \div 100 = h /\ Scaled(c, TRUE) % 100 = Rounded(x, 91)
  /\ \/ Scaled(c, FALSE) \div 100 = h
     \/ x # 0 /\ Scaled(c, FALSE) \div 100 = h + 1

\* So does the number that encode_latitude and encode_longitude write.
LEMMA ScaledIs ==
  ASSUME NEW c \in Angle, c.grains < Degree, NEW h \in Nat, NEW x \in Nat, x < Hundredth,
         c.grains = h * Hundredth + x
  PROVE  ScaledAre(c, h, x)
<1> DEFINE g == c.grains
           m == Scaled(c, TRUE)
           k == Scaled(c, FALSE)
<1>0. g \in Nat
  BY DEF Angle
<1>1. m = Least(599999, Rounded(g, 91)) /\ k = Least(599999, 100 * Rounded(g, Hundredth))
  BY DEF Scaled
<1>2. g < Degree /\ g = h * Hundredth + x
  OBVIOUS
<1> HIDE DEF g, m, k
<1>3. Rounded(g, 91) = (2 * g + 91) \div 182
  BY <1>0, SMT DEF Rounded
<1>4. Rounded(g, Hundredth) = (2 * g + 9100) \div 18200
  BY <1>0, UnitsAre, SMT DEF Rounded
<1>5. g < 54600000 /\ g = 9100 * h + x /\ x < 9100
  BY <1>0, <1>2, UnitsAre, SMT
<1>6. m = Least(599999, (2 * g + 91) \div 182) /\ k = Least(599999, 100 * ((2 * g + 9100) \div 18200))
  BY <1>1, <1>3, <1>4
<1>7. /\ IsScaled(m) /\ IsScaled(k) /\ Rounded(x, 91) \in 0 .. 100
      /\ x <= 9000 => m \div 100 = h /\ m % 100 = Rounded(x, 91)
      /\ k \div 100 = h \/ (x # 0 /\ k \div 100 = h + 1)
  <2>1. IsGrains(g, h, x, m, k)
    BY <1>0, <1>5, <1>6, SMT DEF IsGrains
  <2> QED BY <2>1, RoundedIs, SMT
<1>8. IsRest(x) => x <= 9000
  BY SMT DEF IsRest
<1>9. IsRest(x) => m \div 100 = h /\ m % 100 = Rounded(x, 91)
  BY <1>7, <1>8
<1>10. /\ IsScaled(m) /\ IsScaled(k) /\ Rounded(x, 91) \in 0 .. 100
       /\ k \div 100 = h \/ (x # 0 /\ k \div 100 = h + 1)
  BY <1>7
<1> QED BY <1>9, <1>10, Zenon DEF m, k, ScaledAre

\* The blanks of a cut number are its ambiguity.
LEMMA CutBlanks ==
  ASSUME NEW f, NEW a \in 0 .. 4, NEW d1 \in 0 .. 9, NEW d2 \in 0 .. 9, NEW d3 \in 0 .. 9, NEW d4 \in 0 .. 9,
         IsCut(f, d1, d2, d3, d4, a)
  PROVE  TrailingBlanks(f) = a
<1>1. Len(f) = 4
  <2>1. PICK n \in Nat : n = 4
    OBVIOUS
  <2> DEFINE D == 0 .. 10
  <2>2. f \in [1 .. n -> D]
    BY <2>1 DEF IsCut
  <2> HIDE DEF D
  <2>3. Len(f) = n
    BY <2>2, TupleIs
  <2> QED BY <2>1, <2>3
<1>2. \A i \in 4 - a + 1 .. 4 : f[i] = Blank
  BY SMT DEF IsCut
<1>3. a < 4 => f[4 - a] # Blank
  BY SMT DEF IsCut, Blank
<1> HIDE DEF IsCut
<1> DEFINE L == Len(f)
<1>4. L \in Nat /\ a \in 0 .. L /\ (\A i \in L - a + 1 .. L : f[i] = Blank) /\ (a < L => f[L - a] # Blank)
  BY <1>1, <1>2, <1>3, SMT
<1> QED BY <1>4, BlanksAre

\* Any four characters end in some number of blanks, and so do any six.
LEMMA BlanksOf ==
  ASSUME NEW d, Len(d) = 4 \/ Len(d) = 6
  PROVE  TrailingBlanks(d) \in 0 .. Len(d)
<1> DEFINE L == Len(d)
           P(n) == /\ \A i \in L - n + 1 .. L : d[i] = Blank
                   /\ n < L => d[L - n] # Blank
<1>1. \E n \in 0 .. L : P(n)
  <2> SUFFICES ASSUME \A n \in 0 .. L : ~ P(n) PROVE FALSE
    OBVIOUS
  <2> DEFINE Q(n) == \A i \in L - n + 1 .. L : d[i] = Blank
  <2>0. L \in Nat /\ (L = 4 \/ L = 6)
    OBVIOUS
  <2>1. ASSUME NEW n \in Nat, NEW m \in Nat, n < L, Q(n), m = n + 1
        PROVE  Q(m)
    <3>1. d[L - n] = Blank
      BY <2>0, <2>1
    <3>2. ASSUME NEW i \in L - m + 1 .. L PROVE i = L - n \/ i \in L - n + 1 .. L
      BY <2>0, <2>1, SMT
    <3> QED BY <2>1, <3>1, <3>2
  <2>2. Q(0)
    BY <2>0, SMT
  <2>9. ~ Q(L)
    <3>1. P(L) <=> Q(L)
      BY <2>0, SMT
    <3> QED BY <2>0, <3>1
  <2> HIDE DEF Q, P, L
  <2>3. Q(1)
    BY <2>0, <2>1, <2>2, SMT
  <2>4. Q(2)
    BY <2>0, <2>1, <2>3, SMT
  <2>5. Q(3)
    BY <2>0, <2>1, <2>4, SMT
  <2>6. Q(4)
    BY <2>0, <2>1, <2>5, SMT
  <2>7. L = 6 => Q(5)
    BY <2>0, <2>1, <2>6, SMT
  <2>8. L = 6 => Q(6)
    BY <2>0, <2>1, <2>7, SMT
  <2> QED BY <2>0, <2>6, <2>8, <2>9
<1>2. TrailingBlanks(d) = CHOOSE n \in 0 .. L : P(n)
  BY DEF TrailingBlanks
<1> HIDE DEF P
<1>3. TrailingBlanks(d) \in 0 .. L
  BY <1>1, <1>2
<1> QED BY <1>3

\* Digits in the middle of what they leave open.
LEMMA CentredDigits ==
  ASSUME NEW d, NEW a \in 0 .. 4, \A i \in 1 .. 4 - a : d[i] \in Nat
  PROVE  \E w \in Nat : Grains(Centered(d, a)) = w * Hundredth /\ Centred(w, a)
<1> DEFINE e == Centered(d, a)
           v == 1000 * e[1] + 100 * e[2] + 10 * e[3] + e[4]
<1>1. /\ e[1] = (IF 1 <= 4 - a THEN d[1] ELSE IF 1 > 5 - a THEN 0 ELSE IF a = 4 THEN 3 ELSE 5)
      /\ e[2] = (IF 2 <= 4 - a THEN d[2] ELSE IF 2 > 5 - a THEN 0 ELSE IF a = 4 THEN 3 ELSE 5)
      /\ e[3] = (IF 3 <= 4 - a THEN d[3] ELSE IF 3 > 5 - a THEN 0 ELSE IF a = 4 THEN 3 ELSE 5)
      /\ e[4] = (IF 4 <= 4 - a THEN d[4] ELSE IF 4 > 5 - a THEN 0 ELSE IF a = 4 THEN 3 ELSE 5)
  BY SMT DEF Centered
<1>2. Grains(e) = Hundredth * v
  BY DEF Grains
<1> HIDE DEF e
<1>3. v \in Nat /\ Centred(v, a)
  <2>1. CASE a = 0
    <3>1. d[1] \in Nat /\ d[2] \in Nat /\ d[3] \in Nat /\ d[4] \in Nat
      BY <2>1, SMT
    <3> QED BY <1>1, <2>1, <3>1, SMT DEF Centred
  <2>2. CASE a = 1
    <3>1. d[1] \in Nat /\ d[2] \in Nat /\ d[3] \in Nat
      BY <2>2, SMT
    <3> DEFINE j == 100 * d[1] + 10 * d[2] + d[3]
    <3>2. j \in Nat /\ v = 10 * j + 5
      BY <1>1, <2>2, <3>1, SMT
    <3> HIDE DEF j
    <3> QED BY <2>2, <3>2, SMT DEF Centred
  <2>3. CASE a = 2
    <3>1. d[1] \in Nat /\ d[2] \in Nat
      BY <2>3, SMT
    <3> DEFINE j == 10 * d[1] + d[2]
    <3>2. j \in Nat /\ v = 100 * j + 50
      BY <1>1, <2>3, <3>1, SMT
    <3> HIDE DEF j
    <3> QED BY <2>3, <3>2, SMT DEF Centred
  <2>4. CASE a = 3
    <3>1. d[1] \in Nat
      BY <2>4, SMT
    <3> DEFINE j == d[1]
    <3>2. j \in Nat /\ v = 1000 * j + 500
      BY <1>1, <2>4, <3>1, SMT
    <3> HIDE DEF j
    <3> QED BY <2>4, <3>2, SMT DEF Centred
  <2>5. CASE a = 4
    <3>1. v = 6000 * 0 + 3000
      BY <1>1, <2>5, SMT
    <3> HIDE DEF v
    <3> QED BY <2>5, <3>1, SMT DEF Centred
  <2> QED BY <2>1, <2>2, <2>3, <2>4, <2>5, SMT
<1> HIDE DEF v
<1>4. Hundredth * v = v * Hundredth
  BY <1>3, UnitsAre, SMT
<1> QED BY <1>2, <1>3, <1>4 DEF e

\* The grains of a coordinate are hundredths and a rest.
LEMMA HundredthsOf ==
  ASSUME NEW g \in Nat
  PROVE  \E h, x \in Nat : x < Hundredth /\ g = h * Hundredth + x /\ h = g \div Hundredth /\ x = g % Hundredth
<1>1. \E h, x \in Nat : x < 9100 /\ g = h * 9100 + x /\ h = g \div 9100 /\ x = g % 9100
  BY SMT
<1> QED BY <1>1, UnitsAre, SMT

\* A cut number is in the middle of what its blanks leave open.
LEMMA CutGrains ==
  ASSUME NEW f, NEW a \in 0 .. 4, NEW n, NEW d1, NEW d2, NEW d3, NEW d4, NEW s,
         IsNumber(n, d1, d2, d3, d4, s), IsCut(f, d1, d2, d3, d4, a)
  PROVE  Grains(Centered(f, a)) = Hundredth * Mid(n \div 100, a)
<1> DEFINE e == Centered(f, a)
           v == 1000 * e[1] + 100 * e[2] + 10 * e[3] + e[4]
           m == 1000 * d1 + 100 * d2 + 10 * d3 + d4
<1>1. /\ e[1] = (IF 1 <= 4 - a THEN f[1] ELSE IF 1 > 5 - a THEN 0 ELSE IF a = 4 THEN 3 ELSE 5)
      /\ e[2] = (IF 2 <= 4 - a THEN f[2] ELSE IF 2 > 5 - a THEN 0 ELSE IF a = 4 THEN 3 ELSE 5)
      /\ e[3] = (IF 3 <= 4 - a THEN f[3] ELSE IF 3 > 5 - a THEN 0 ELSE IF a = 4 THEN 3 ELSE 5)
      /\ e[4] = (IF 4 <= 4 - a THEN f[4] ELSE IF 4 > 5 - a THEN 0 ELSE IF a = 4 THEN 3 ELSE 5)
  BY SMT DEF Centered
<1>2. Grains(e) = Hundredth * v
  BY DEF Grains
<1>3. n \div 100 = m
  BY NumberIsOf
<1>4. d1 \in 0 .. 9 /\ d2 \in 0 .. 9 /\ d3 \in 0 .. 9 /\ d4 \in 0 .. 9
  BY SMT DEF IsNumber
<1>5. /\ f[1] = IF a < 4 THEN d1 ELSE Blank
      /\ f[2] = IF a < 3 THEN d2 ELSE Blank
      /\ f[3] = IF a < 2 THEN d3 ELSE Blank
      /\ f[4] = IF a < 1 THEN d4 ELSE Blank
  BY DEF IsCut
<1>6. /\ Mid(m, 0) = m /\ Mid(m, 1) = 1000 * d1 + 100 * d2 + 10 * d3 + 5
      /\ Mid(m, 2) = 1000 * d1 + 100 * d2 + 50 /\ Mid(m, 3) = 1000 * d1 + 500
      /\ Mid(m, 4) = 3000
  <2>1. Middles(m, d1, d2, d3)
    BY <1>4, MidOfDigits
  <2> QED BY <2>1 DEF Middles
<1> HIDE DEF e
<1>7. v = Mid(m, a)
  <2>1. CASE a = 0
    BY <1>1, <1>4, <1>5, <1>6, <2>1, SMT
  <2>2. CASE a = 1
    BY <1>1, <1>4, <1>5, <1>6, <2>2, SMT
  <2>3. CASE a = 2
    BY <1>1, <1>4, <1>5, <1>6, <2>3, SMT
  <2>4. CASE a = 3
    BY <1>1, <1>4, <1>5, <1>6, <2>4, SMT
  <2>5. CASE a = 4
    BY <1>1, <1>4, <1>5, <1>6, <2>5, SMT
  <2> QED BY <2>1, <2>2, <2>3, <2>4, <2>5, SMT
<1> QED BY <1>2, <1>3, <1>7 DEF e

\* A coordinate as text.
AngleText == [degrees : Nat, negative : BOOLEAN, digits : [1 .. 4 -> 0 .. 9 \cup {Blank}]]

\* A coordinate that has less than sixty minutes comes back from its text with the
\* hundredths of the text, in the middle of what ambiguity leaves open, and without
\* the sign of a zero (encode.rs:265-303, position.rs:4-81).
ComesBack(c, a, dao, limit, t) ==
  /\ t \in AngleText /\ TrailingBlanks(t.digits) = a
  /\ Coordinate(t, limit, a) =
       {[degrees |-> c.degrees, negative |-> c.negative /\ Size(c) # 0,
         grains |-> Hundredth * Mid(Scaled(c, dao) \div 100, a)]}

\* What the encoder writes of a coordinate, the parser reads (encode.rs, position.rs).
LEMMA CoordinateBack ==
  ASSUME NEW c \in Angle, c.grains < Degree, NEW a \in 0 .. 4, NEW dao \in BOOLEAN,
         NEW limit \in Nat, c.degrees <= limit,
         NEW t, t = EncodedCoordinate(c, a, dao)
  PROVE  ComesBack(c, a, dao, limit, t)
<1> DEFINE n == Scaled(c, dao)
           f == t.digits
<1>0. c.degrees \in Nat /\ c.grains \in Nat /\ c.negative \in BOOLEAN
  BY DEF Angle
<1>1. IsScaled(n)
  <2>1. PICK h \in Nat, x \in Nat : x < Hundredth /\ c.grains = h * Hundredth + x
    BY <1>0, HundredthsOf
  <2>2. IsScaled(Scaled(c, TRUE)) /\ IsScaled(Scaled(c, FALSE))
    BY <2>1, ScaledIs DEF ScaledAre
  <2>3. dao = TRUE \/ dao = FALSE
    OBVIOUS
  <2> QED BY <2>2, <2>3
<1>2. PICK d1, d2, d3, d4, s : IsNumber(n, d1, d2, d3, d4, s)
  BY <1>1, NumberExists
<1>3. /\ n \div 100000 = d1 /\ (n \div 10000) % 10 = d2 /\ (n \div 1000) % 10 = d3
      /\ (n \div 100) % 10 = d4
  BY <1>2, NumberIsOf
<1>4. d1 \in 0 .. 5 /\ d2 \in 0 .. 9 /\ d3 \in 0 .. 9 /\ d4 \in 0 .. 9
  BY <1>2, SMT DEF IsNumber
<1> DEFINE digits == <<d1, d2, d3, d4>>
           negative == c.negative /\ <<c.degrees, c.grains>> # <<0, 0>>
<1>5. t = [degrees |-> c.degrees, negative |-> negative,
           digits |-> [i \in 1 .. 4 |-> IF i <= 4 - a THEN digits[i] ELSE Blank]]
  BY <1>3 DEF EncodedCoordinate
<1>6. /\ t.degrees = c.degrees /\ t.negative = negative
      /\ f = [i \in 1 .. 4 |-> IF i <= 4 - a THEN digits[i] ELSE Blank]
  BY <1>5
<1>7. negative = (c.negative /\ Size(c) # 0)
  <2>1. Size(c) # 0 <=> <<c.degrees, c.grains>> # <<0, 0>>
    BY <1>0, UnitsAre, SMT DEF Size
  <2> QED BY <2>1
<1> HIDE DEF n, negative
<1>8. /\ f[1] = (IF a < 4 THEN d1 ELSE Blank) /\ f[2] = (IF a < 3 THEN d2 ELSE Blank)
      /\ f[3] = (IF a < 2 THEN d3 ELSE Blank) /\ f[4] = (IF a < 1 THEN d4 ELSE Blank)
  BY <1>6, SMT
<1>9. f \in [1 .. 4 -> 0 .. 9 \cup {Blank}]
  <2>1. \A i \in 1 .. 4 : digits[i] \in 0 .. 9
    BY <1>4, SMT
  <2> HIDE DEF digits
  <2> QED BY <1>6, <2>1
<1>10. IsCut(f, d1, d2, d3, d4, a)
  <2>1. 0 .. 9 \cup {Blank} = 0 .. 10
    BY SMT DEF Blank
  <2> QED BY <1>8, <1>9, <2>1 DEF IsCut
<1> HIDE DEF f
<1>11. TrailingBlanks(f) = a
  <2>1. d1 \in 0 .. 9
    BY <1>4, SMT
  <2> QED BY <1>4, <1>10, <2>1, CutBlanks
<1>12. Grains(Centered(f, a)) = Hundredth * Mid(n \div 100, a)
  BY <1>2, <1>10, CutGrains
<1>13. f[1] \in 0 .. 7 \cup {Blank} /\ \A i \in 1 .. 4 - a : f[i] # Blank
  <2>1. f[1] \in 0 .. 7 \cup {Blank}
    BY <1>4, <1>8, SMT
  <2>2. ASSUME NEW i \in 1 .. 4 - a PROVE f[i] # Blank
    <3>1. i = 1 \/ i = 2 \/ i = 3 \/ i = 4
      BY SMT
    <3>2. CASE i = 1
      BY <1>4, <1>8, <2>2, <3>2, SMT DEF Blank
    <3>3. CASE i = 2
      BY <1>4, <1>8, <2>2, <3>3, SMT DEF Blank
    <3>4. CASE i = 3
      BY <1>4, <1>8, <2>2, <3>4, SMT DEF Blank
    <3>5. CASE i = 4
      BY <1>4, <1>8, <2>2, <3>5, SMT DEF Blank
    <3> QED BY <3>1, <3>2, <3>3, <3>4, <3>5
  <2> QED BY <2>1, <2>2
<1>14. Coordinate(t, limit, a) =
         {[degrees |-> t.degrees, negative |-> t.negative, grains |-> Grains(Centered(t.digits, a))]}
  <2>1. t.degrees <= limit
    BY <1>6
  <2> QED BY <1>11, <1>13, <2>1 DEF Coordinate, f
<1>15. t \in AngleText
  <2>1. negative \in BOOLEAN
    BY <1>7
  <2>2. t = [degrees |-> c.degrees, negative |-> negative, digits |-> f]
    BY <1>5, <1>6
  <2> QED BY <1>0, <1>9, <2>1, <2>2 DEF AngleText
<1> QED BY <1>6, <1>7, <1>11, <1>12, <1>14, <1>15 DEF f, n, ComesBack

-----------------------------------------------------------------------------
(* What stands behind a position.                                          *)

IsDao(x) == x.kind = "dao"
IsAltitude(x) == x.kind = "altitude"
NoDao(rest) == \A i \in 1 .. Len(rest) : ~ IsDao(rest[i])

\* A text whose last element is an extension.
EndsIn(rest, x) == Len(rest) > 0 /\ rest[Len(rest)] = x

\* The set of the places of a kind of extension has a first and a last.
LEMMA EndsOf ==
  ASSUME NEW n \in Nat, NEW S, S \subseteq 1 .. n, S # {}
  PROVE  /\ Max(S) \in S /\ \A k \in S : k <= Max(S)
         /\ Min(S) \in S /\ \A k \in S : Min(S) <= k
<1>1. \E b \in S : \A k \in S : b >= k
  <2> DEFINE T == {n - k : k \in S}
  <2>1. T \subseteq Nat /\ T # {}
    <3>1. \A k \in S : n - k \in Nat
      OBVIOUS
    <3> QED BY <3>1
  <2>2. PICK m \in T : \A l \in T : <<l, m>> \notin OpToRel(<, Nat)
    <3> HIDE DEF T
    <3> QED BY <2>1, WFMin, NatLessThanWellFounded
  <2>3. PICK b \in S : m = n - b
    OBVIOUS
  <2>4. ASSUME NEW k \in S PROVE b >= k
    <3>1. n - k \in T /\ n - k \in Nat /\ m \in Nat
      BY <2>1
    <3>2. ~ n - k < m
      <4> HIDE DEF T
      <4> QED BY <2>2, <3>1 DEF OpToRel
    <3> QED BY <2>3, <3>2
  <2> QED BY <2>4
<1>2. \E b \in S : \A k \in S : b <= k
  <2>1. S \subseteq Nat
    OBVIOUS
  <2>2. PICK m \in S : \A l \in S : <<l, m>> \notin OpToRel(<, Nat)
    BY <2>1, WFMin, NatLessThanWellFounded
  <2>3. ASSUME NEW k \in S PROVE m <= k
    <3>1. ~ k < m /\ k \in Nat /\ m \in Nat
      BY <2>1, <2>2 DEF OpToRel
    <3> QED BY <3>1
  <2> QED BY <2>3
<1>3. Max(S) \in S /\ \A k \in S : Max(S) >= k
  BY <1>1 DEF Max
<1>4. Min(S) \in S /\ \A k \in S : Min(S) <= k
  BY <1>2 DEF Min
<1>5. S \subseteq Int
  OBVIOUS
<1> QED BY <1>3, <1>4, <1>5, SMT

\* The last DAO of a text, and its first altitude.
LEMMA LastDaoIs ==
  ASSUME NEW rest \in Seq(Extension), NEW at, at = SelectLastInSeq(rest, LAMBDA x : x.kind = "dao")
  PROVE  \/ at = 0 /\ \A i \in 1 .. Len(rest) : ~ IsDao(rest[i])
         \/ at \in 1 .. Len(rest) /\ IsDao(rest[at]) /\ \A i \in at + 1 .. Len(rest) : ~ IsDao(rest[i])
<1> DEFINE I == {i \in 1 .. Len(rest) : rest[i].kind = "dao"}
<1>0. Len(rest) \in Nat
  BY LenProperties
<1>1. at = IF I # {} THEN Max(I) ELSE 0
  BY DEF SelectLastInSeq
<1>2. CASE I = {}
  BY <1>1, <1>2 DEF IsDao
<1>3. CASE I # {}
  <2>1. I \subseteq 1 .. Len(rest)
    OBVIOUS
  <2>2. Max(I) \in I /\ \A k \in I : k <= Max(I)
    <3> HIDE DEF I
    <3> QED BY <1>0, <1>3, <2>1, EndsOf
  <2>3. ASSUME NEW i \in at + 1 .. Len(rest) PROVE ~ IsDao(rest[i])
    <3>1. at \in 1 .. Len(rest)
      BY <1>1, <1>3, <2>2
    <3>2. i \in 1 .. Len(rest) /\ ~ i <= at
      BY <1>0, <3>1, SMT
    <3> QED BY <1>1, <1>3, <2>2, <3>2 DEF IsDao
  <2> QED BY <1>1, <1>3, <2>2, <2>3 DEF IsDao
<1> QED BY <1>2, <1>3

\* The first altitude of a comment is the one that is found.
LEMMA FirstAltitudeIs ==
  ASSUME NEW rest \in Seq(Extension), NEW at, at = SelectInSeq(rest, LAMBDA x : x.kind = "altitude")
  PROVE  \/ at = 0 /\ \A i \in 1 .. Len(rest) : ~ IsAltitude(rest[i])
         \/ at \in 1 .. Len(rest) /\ IsAltitude(rest[at]) /\ \A i \in 1 .. at - 1 : ~ IsAltitude(rest[i])
<1> DEFINE I == {i \in 1 .. Len(rest) : rest[i].kind = "altitude"}
<1>0. Len(rest) \in Nat
  BY LenProperties
<1>1. at = IF I # {} THEN Min(I) ELSE 0
  BY DEF SelectInSeq
<1>2. CASE I = {}
  BY <1>1, <1>2 DEF IsAltitude
<1>3. CASE I # {}
  <2>1. I \subseteq 1 .. Len(rest)
    OBVIOUS
  <2>2. Min(I) \in I /\ \A k \in I : Min(I) <= k
    <3> HIDE DEF I
    <3> QED BY <1>0, <1>3, <2>1, EndsOf
  <2>3. ASSUME NEW i \in 1 .. at - 1 PROVE ~ IsAltitude(rest[i])
    <3>1. at \in 1 .. Len(rest)
      BY <1>1, <1>3, <2>2
    <3>2. i \in 1 .. Len(rest) /\ ~ at <= i
      BY <1>0, <3>1, SMT
    <3> QED BY <1>1, <1>3, <2>2, <3>2 DEF IsAltitude
  <2> QED BY <1>1, <1>3, <2>2, <2>3 DEF IsAltitude
<1> QED BY <1>2, <1>3

\* What is left when one element is taken out.
LEMMA RemovedIs ==
  ASSUME NEW S, NEW s \in Seq(S), NEW at \in 1 .. Len(s)
  PROVE  /\ RemoveAt(s, at) \in Seq(S) /\ Len(RemoveAt(s, at)) = Len(s) - 1
         /\ \A i \in 1 .. Len(s) - 1 : RemoveAt(s, at)[i] = IF i < at THEN s[i] ELSE s[i + 1]
<1> DEFINE u == SubSeq(s, 1, at - 1)
           v == SubSeq(s, at + 1, Len(s))
<1>0. Len(s) \in Nat
  BY LenProperties
<1>1. u \in Seq(S) /\ Len(u) = at - 1 /\ \A i \in 1 .. at - 1 : u[i] = s[i]
  BY <1>0, SubSeqProperties, SMT
<1>2. v \in Seq(S) /\ Len(v) = Len(s) - at /\ \A i \in 1 .. Len(s) - at : v[i] = s[at + i]
  BY <1>0, SubSeqProperties, SMT
<1>3. RemoveAt(s, at) = u \o v
  BY DEF RemoveAt
<1> HIDE DEF u, v
<1>4. /\ u \o v \in Seq(S) /\ Len(u \o v) = Len(u) + Len(v)
      /\ \A i \in 1 .. Len(u) + Len(v) : (u \o v)[i] = IF i <= Len(u) THEN u[i] ELSE v[i - Len(u)]
  BY <1>1, <1>2, ConcatProperties
<1>5. Len(u) + Len(v) = Len(s) - 1
  BY <1>0, <1>1, <1>2, SMT
<1>6. ASSUME NEW i \in 1 .. Len(s) - 1
      PROVE  (u \o v)[i] = IF i < at THEN s[i] ELSE s[i + 1]
  <2>1. (u \o v)[i] = IF i <= Len(u) THEN u[i] ELSE v[i - Len(u)]
    BY <1>4, <1>5
  <2>2. CASE i < at
    BY <1>0, <1>1, <2>1, <2>2, SMT
  <2>3. CASE ~ i < at
    <3>1. ~ i <= Len(u) /\ i - Len(u) \in 1 .. Len(s) - at /\ at + (i - Len(u)) = i + 1
      BY <1>0, <1>1, <2>3, SMT
    <3> QED BY <1>2, <2>1, <2>3, <3>1
  <2> QED BY <2>2, <2>3
<1> QED BY <1>3, <1>4, <1>5, <1>6

\* Its DAO stays where it is, if it is something else that is taken out.
LEMMA RemovedKeepsDao ==
  ASSUME NEW s \in Seq(Extension), NEW at \in 1 .. Len(s), ~ IsDao(s[at]), NEW u, u = RemoveAt(s, at)
  PROVE  /\ u \in Seq(Extension)
         /\ NoDao(s) => NoDao(u)
         /\ \A b, l : EndsIn(s, Dao("base91", b, l)) => EndsIn(u, Dao("base91", b, l))
<1>0. Len(s) \in Nat
  BY LenProperties
<1>1. /\ u \in Seq(Extension) /\ Len(u) = Len(s) - 1
      /\ \A i \in 1 .. Len(s) - 1 : u[i] = IF i < at THEN s[i] ELSE s[i + 1]
  BY RemovedIs
<1>2. NoDao(s) => NoDao(u)
  <2>1. \A i \in 1 .. Len(u) : i \in 1 .. Len(s) /\ i + 1 \in 1 .. Len(s) /\ i \in 1 .. Len(s) - 1
    BY <1>0, <1>1, SMT
  <2> QED BY <1>1, <2>1 DEF NoDao
<1>3. ASSUME NEW b, NEW l, EndsIn(s, Dao("base91", b, l)) PROVE EndsIn(u, Dao("base91", b, l))
  <2> DEFINE d == Dao("base91", b, l)
  <2>1. d.kind = "dao" /\ s[Len(s)] = d
    BY <1>3 DEF Dao, EndsIn
  <2> HIDE DEF d
  <2>2. at # Len(s)
    BY <2>1 DEF IsDao
  <2>3. Len(u) > 0 /\ Len(u) \in 1 .. Len(s) - 1 /\ Len(u) + 1 = Len(s) /\ ~ Len(u) < at
    BY <1>0, <1>1, <2>2, SMT
  <2>4. u[Len(u)] = d
    BY <1>1, <2>1, <2>3
  <2> QED BY <2>3, <2>4 DEF EndsIn, d
<1> QED BY <1>1, <1>2, <1>3

\* What is left when some is cut off at both ends.
IsPart(u, s, i) ==
  /\ u \in Seq(Extension) /\ i \in Nat /\ Len(u) + i <= Len(s)
  /\ \A k \in 1 .. Len(u) : u[k] = s[i + k]

\* A piece of a text is such a part.
LEMMA PieceIs ==
  ASSUME NEW s \in Seq(Extension), NEW i \in 0 .. Len(s), NEW j \in i .. Len(s)
  PROVE  IsPart(SubSeq(s, i + 1, j), s, i) /\ Len(SubSeq(s, i + 1, j)) = j - i
<1>0. Len(s) \in Nat
  BY LenProperties
<1>1. i \in Nat /\ j \in Nat /\ i <= j /\ j <= Len(s)
  BY <1>0, SMT
<1>2. /\ SubSeq(s, i + 1, j) \in Seq(Extension) /\ Len(SubSeq(s, i + 1, j)) = j - i
      /\ \A k \in 1 .. j - i : SubSeq(s, i + 1, j)[k] = s[i + k]
  <2>1. \A k \in 1 .. j - i : i + 1 + k - 1 = i + k
    BY <1>1, SMT
  <2>2. \A m \in 1 .. Len(s) + 1 : \A n \in m - 1 .. Len(s) :
          /\ SubSeq(s, m, n) \in Seq(Extension) /\ Len(SubSeq(s, m, n)) = n - m + 1
          /\ \A k \in 1 .. n - m + 1 : SubSeq(s, m, n)[k] = s[m + k - 1]
    BY SubSeqProperties
  <2>3. i + 1 \in 1 .. Len(s) + 1 /\ j \in i + 1 - 1 .. Len(s) /\ j - (i + 1) + 1 = j - i
    BY <1>0, <1>1, SMT
  <2> QED BY <2>1, <2>2, <2>3
<1>3. Len(SubSeq(s, i + 1, j)) + i <= Len(s)
  BY <1>0, <1>1, <1>2, SMT
<1> QED BY <1>1, <1>2, <1>3 DEF IsPart

\* What TrimStart cuts off is all of one kind, and no more of it follows.
StartCut(u, s, i, x) ==
  /\ IsPart(u, s, i) /\ i + Len(u) = Len(s)
  /\ \A k \in 1 .. i : s[k] = x
  /\ Len(u) = 0 \/ u[1] # x

\* So it does.
LEMMA TrimStartIs ==
  ASSUME NEW s \in Seq(Extension), NEW x, NEW u, u = TrimStart(s, x)
  PROVE  \E i : StartCut(u, s, i, x)
<1> DEFINE I == {i \in 1 .. Len(s) : s[i] # x}
           at == SelectInSeq(s, LAMBDA y : y # x)
<1>0. Len(s) \in Nat
  BY LenProperties
<1>1. at = IF I # {} THEN Min(I) ELSE 0
  BY DEF SelectInSeq
<1>2. u = IF at = 0 THEN <<>> ELSE SubSeq(s, at, Len(s))
  BY DEF TrimStart
<1>3. CASE I = {}
  <2>1. u = <<>> /\ u \in Seq(Extension) /\ Len(u) = 0
    BY <1>1, <1>2, <1>3, EmptySeq
  <2>2. IsPart(u, s, Len(s))
    BY <1>0, <2>1, SMT DEF IsPart
  <2>3. \A k \in 1 .. Len(s) : s[k] = x
    BY <1>3
  <2>4. StartCut(u, s, Len(s), x)
    BY <1>0, <2>1, <2>2, <2>3, SMT DEF StartCut
  <2> QED BY <2>4
<1>4. CASE I # {}
  <2>1. I \subseteq 1 .. Len(s)
    OBVIOUS
  <2>2. Min(I) \in I /\ \A k \in I : Min(I) <= k
    <3> HIDE DEF I
    <3> QED BY <1>0, <1>4, <2>1, EndsOf
  <2>3. at \in 1 .. Len(s) /\ s[at] # x /\ \A k \in I : at <= k
    BY <1>1, <1>4, <2>2
  <2>4. at # 0 /\ at - 1 \in 0 .. Len(s) /\ Len(s) \in at - 1 .. Len(s) /\ at - 1 + 1 = at
    BY <1>0, <2>3, SMT
  <2>5. u = SubSeq(s, at - 1 + 1, Len(s))
    BY <1>2, <2>4
  <2> DEFINE i == at - 1
  <2>6. IsPart(u, s, i) /\ Len(u) = Len(s) - i
    <3>1. i \in 0 .. Len(s) /\ Len(s) \in i .. Len(s) /\ u = SubSeq(s, i + 1, Len(s))
      BY <2>4, <2>5
    <3> HIDE DEF i
    <3> QED BY <3>1, PieceIs
  <2>7. ASSUME NEW k \in 1 .. i PROVE s[k] = x
    <3>1. k \in 1 .. Len(s) /\ ~ at <= k
      BY <1>0, <2>3, SMT
    <3> QED BY <2>3, <3>1
  <2>8. u[1] # x
    <3>1. 1 \in 1 .. Len(u) /\ i + 1 = at
      BY <1>0, <2>3, <2>6, SMT
    <3>2. u[1] = s[i + 1]
      BY <2>6, <3>1 DEF IsPart
    <3> QED BY <2>3, <3>1, <3>2
  <2>9. i + Len(u) = Len(s)
    <3>1. Len(u) = Len(s) - i /\ i \in Int
      BY <1>0, <2>3, <2>6, SMT
    <3> HIDE DEF i
    <3> QED BY <1>0, <3>1, SMT
  <2>10. StartCut(u, s, i, x)
    <3> HIDE DEF i
    <3> QED BY <2>6, <2>7, <2>8, <2>9 DEF StartCut
  <2> QED BY <2>10
<1> QED BY <1>3, <1>4

\* Of a text without its last blanks none is left behind.
EndCut(u, s) ==
  /\ IsPart(u, s, 0) /\ \A k \in Len(u) + 1 .. Len(s) : s[k] = White
  /\ Len(u) = 0 \/ u[Len(u)] # White

\* So it is.
LEMMA TrimEndIs ==
  ASSUME NEW s \in Seq(Extension), NEW u, u = SubSeq(s, 1, SelectLastInSeq(s, LAMBDA y : y # White))
  PROVE  EndCut(u, s)
<1> DEFINE I == {i \in 1 .. Len(s) : s[i] # White}
           at == SelectLastInSeq(s, LAMBDA y : y # White)
<1>0. Len(s) \in Nat
  BY LenProperties
<1>1. at = IF I # {} THEN Max(I) ELSE 0
  BY DEF SelectLastInSeq
<1>2. at \in 0 .. Len(s) /\ (at = 0 \/ s[at] # White) /\ \A k \in at + 1 .. Len(s) : s[k] = White
  <2>1. CASE I = {}
    <3>1. at = 0 /\ at + 1 = 1
      BY <1>1, <2>1
    <3> HIDE DEF at
    <3>2. at \in 0 .. Len(s)
      BY <1>0, <3>1, SMT
    <3> QED BY <2>1, <3>1, <3>2
  <2>2. CASE I # {}
    <3>1. I \subseteq 1 .. Len(s)
      OBVIOUS
    <3>2. Max(I) \in I /\ \A k \in I : k <= Max(I)
      <4> HIDE DEF I
      <4> QED BY <1>0, <2>2, <3>1, EndsOf
    <3>3. at \in 1 .. Len(s) /\ s[at] # White /\ \A k \in I : k <= at
      BY <1>1, <2>2, <3>2
    <3> HIDE DEF at
    <3>4. ASSUME NEW k \in at + 1 .. Len(s) PROVE s[k] = White
      <4>1. k \in 1 .. Len(s) /\ ~ k <= at
        BY <1>0, <3>3, SMT
      <4> QED BY <3>3, <4>1
    <3>5. at \in 0 .. Len(s)
      BY <1>0, <3>3, SMT
    <3> QED BY <3>3, <3>4, <3>5
  <2> QED BY <2>1, <2>2
<1>3. u = SubSeq(s, 1, at)
  OBVIOUS
<1> HIDE DEF at
<1>4. IsPart(u, s, 0) /\ Len(u) = at
  <2>1. PICK i : i = 0
    OBVIOUS
  <2>2. i \in 0 .. Len(s) /\ at \in i .. Len(s) /\ i + 1 = 1
    BY <1>0, <1>2, <2>1, SMT
  <2>3. IsPart(SubSeq(s, i + 1, at), s, i) /\ Len(SubSeq(s, i + 1, at)) = at - i
    BY <2>2, PieceIs
  <2>4. at - i = at
    BY <1>2, <2>1, SMT
  <2> QED BY <1>3, <2>1, <2>2, <2>3, <2>4
<1>5. at = 0 \/ u[at] = s[at]
  <2>1. at = 0 \/ at \in 1 .. Len(u)
    <3>1. at \in 0 .. Len(s) /\ Len(u) = at
      BY <1>2, <1>4
    <3>2. at = 0 \/ at \in 1 .. at
      BY <1>0, <3>1, SMT
    <3> QED BY <3>1, <3>2, Zenon
  <2>2. 0 + at = at
    BY <1>2, SMT
  <2>3. at \in 1 .. Len(u) => u[at] = s[0 + at]
    BY <1>4 DEF IsPart
  <2> QED BY <2>1, <2>2, <2>3
<1> QED BY <1>2, <1>4, <1>5 DEF EndCut

\* A part of a part is a part.
LEMMA PartOfPart ==
  ASSUME NEW s \in Seq(Extension), NEW u, NEW i, IsPart(u, s, i), NEW v, NEW j, IsPart(v, u, j)
  PROVE  IsPart(v, s, i + j)
<1>1. /\ Len(s) \in Nat /\ u \in Seq(Extension) /\ v \in Seq(Extension) /\ i \in Nat /\ j \in Nat
      /\ Len(u) + i <= Len(s) /\ Len(v) + j <= Len(u)
  BY LenProperties DEF IsPart
<1>2. Len(u) \in Nat /\ Len(v) \in Nat
  BY <1>1, LenProperties
<1>3. i + j \in Nat /\ Len(v) + (i + j) <= Len(s)
  BY <1>1, <1>2, SMT
<1>4. ASSUME NEW k \in 1 .. Len(v) PROVE v[k] = s[i + j + k]
  <2>1. j + k \in 1 .. Len(u) /\ i + (j + k) = i + j + k
    BY <1>1, <1>2, SMT
  <2>2. v[k] = u[j + k] /\ u[j + k] = s[i + (j + k)]
    BY <2>1 DEF IsPart
  <2> QED BY <2>1, <2>2
<1> QED BY <1>1, <1>3, <1>4 DEF IsPart

\* Trim cuts off blanks at both ends.
TrimCut(u, s, i) ==
  /\ IsPart(u, s, i) /\ \A k \in 1 .. i : s[k] = White
  /\ \A k \in i + Len(u) + 1 .. Len(s) : s[k] = White
  /\ Len(u) = 0 \/ u[Len(u)] # White

\* So it does.
LEMMA TrimIs ==
  ASSUME NEW s \in Seq(Extension), NEW u, u = Trim(s)
  PROVE  \E i : TrimCut(u, s, i)
<1> DEFINE e == SubSeq(s, 1, SelectLastInSeq(s, LAMBDA y : y # White))
<1>1. EndCut(e, s)
  BY TrimEndIs
<1>2. u = TrimStart(e, White)
  BY DEF Trim
<1> HIDE DEF e
<1>3. e \in Seq(Extension)
  BY <1>1 DEF EndCut, IsPart
<1>4. PICK i : StartCut(u, e, i, White)
  BY <1>2, <1>3, TrimStartIs
<1>5. /\ IsPart(u, e, i) /\ i + Len(u) = Len(e) /\ \A k \in 1 .. i : e[k] = White
  BY <1>4 DEF StartCut
<1>6. /\ i \in Nat /\ Len(u) \in Nat /\ Len(e) \in Nat /\ Len(s) \in Nat /\ Len(e) <= Len(s)
      /\ \A k \in 1 .. Len(e) : e[k] = s[k]
  <2>1. i \in Nat /\ u \in Seq(Extension)
    BY <1>5 DEF IsPart
  <2>2. /\ Len(e) + 0 <= Len(s) /\ \A k \in 1 .. Len(e) : e[k] = s[0 + k]
    BY <1>1 DEF EndCut, IsPart
  <2>3. Len(u) \in Nat /\ Len(e) \in Nat /\ Len(s) \in Nat
    BY <1>3, <2>1, LenProperties
  <2>4. \A k \in 1 .. Len(e) : 0 + k = k
    BY <2>3, SMT
  <2>5. \A k \in 1 .. Len(e) : e[k] = s[k]
    BY <2>2, <2>4
  <2>6. Len(e) <= Len(s)
    BY <2>2, <2>3, SMT
  <2> QED BY <2>1, <2>3, <2>5, <2>6
<1>7. IsPart(u, s, i)
  <2>1. IsPart(e, s, 0)
    BY <1>1 DEF EndCut
  <2>2. IsPart(u, s, 0 + i)
    BY <1>5, <2>1, PartOfPart
  <2>3. 0 + i = i
    BY <1>6, SMT
  <2> QED BY <2>2, <2>3
<1>8. \A k \in 1 .. i : s[k] = White
  <2>1. \A k \in 1 .. i : k \in 1 .. Len(e)
    BY <1>5, <1>6, SMT
  <2> QED BY <1>5, <1>6, <2>1
<1>9. \A k \in i + Len(u) + 1 .. Len(s) : s[k] = White
  BY <1>1, <1>5 DEF EndCut
<1>10. Len(u) = 0 \/ u[Len(u)] # White
  <2>1. CASE Len(u) # 0
    <3>1. Len(u) \in 1 .. Len(u)
      BY <1>6, <2>1, SMT
    <3>2. u[Len(u)] = e[i + Len(u)]
      BY <1>5, <3>1 DEF IsPart
    <3>3. Len(e) # 0
      BY <1>5, <1>6, <2>1, SMT
    <3> QED BY <1>1, <1>5, <3>2, <3>3 DEF EndCut
  <2> QED BY <2>1
<1> QED BY <1>7, <1>8, <1>9, <1>10 DEF TrimCut

\* What is shown of a comment.
ShownCut(u, s, i) ==
  /\ IsPart(u, s, i) /\ \A k \in 1 .. i : s[k] \in {White, Slash}
  /\ \A k \in i + Len(u) + 1 .. Len(s) : s[k] = White
  /\ Len(u) = 0 \/ (u[1] # Slash /\ u[Len(u)] # White)

\* All but blanks around it and slashes in front.
LEMMA ShownIs ==
  ASSUME NEW s \in Seq(Extension), NEW u, u = Shown(s)
  PROVE  \E i : ShownCut(u, s, i)
<1>1. PICK e : e = Trim(s)
  OBVIOUS
<1>2. PICK j : TrimCut(e, s, j)
  BY <1>1, TrimIs
<1>3. e \in Seq(Extension) /\ u = TrimStart(e, Slash)
  BY <1>1, <1>2 DEF TrimCut, IsPart, Shown
<1>4. PICK i : StartCut(u, e, i, Slash)
  BY <1>3, TrimStartIs
<1>5. /\ IsPart(u, e, i) /\ i + Len(u) = Len(e) /\ \A k \in 1 .. i : e[k] = Slash
      /\ Len(u) = 0 \/ u[1] # Slash
  BY <1>4 DEF StartCut
<1>6. /\ IsPart(e, s, j) /\ \A k \in 1 .. j : s[k] = White
      /\ \A k \in j + Len(e) + 1 .. Len(s) : s[k] = White
      /\ Len(e) = 0 \/ e[Len(e)] # White
  BY <1>2 DEF TrimCut
<1>7. /\ i \in Nat /\ j \in Nat /\ Len(u) \in Nat /\ Len(e) \in Nat /\ Len(s) \in Nat
  BY <1>5, <1>6, LenProperties DEF IsPart
<1>8. IsPart(u, s, j + i)
  BY <1>5, <1>6, PartOfPart
<1>9. ASSUME NEW k \in 1 .. j + i PROVE s[k] \in {White, Slash}
  <2>1. CASE k \in 1 .. j
    BY <1>6, <2>1
  <2>2. CASE k \notin 1 .. j
    <3>1. k - j \in 1 .. i /\ k - j \in 1 .. Len(e) /\ j + (k - j) = k
      BY <1>5, <1>7, <2>2, SMT
    <3>2. e[k - j] = s[j + (k - j)] /\ e[k - j] = Slash
      BY <1>5, <1>6, <3>1 DEF IsPart
    <3> QED BY <3>1, <3>2
  <2> QED BY <2>1, <2>2
<1>10. \A k \in j + i + Len(u) + 1 .. Len(s) : s[k] = White
  <2>1. j + i + Len(u) + 1 = j + Len(e) + 1
    <3>1. i + Len(u) = Len(e)
      BY <1>5
    <3> QED BY <1>7, <3>1, SMT
  <2> QED BY <1>6, <2>1
<1>11. Len(u) = 0 \/ u[Len(u)] # White
  <2>1. CASE Len(u) # 0
    <3>1. Len(u) \in 1 .. Len(u)
      BY <1>7, <2>1, SMT
    <3>2. u[Len(u)] = e[i + Len(u)]
      BY <1>5, <3>1 DEF IsPart
    <3>3. Len(e) # 0
      BY <1>5, <1>7, <2>1, SMT
    <3> QED BY <1>5, <1>6, <3>2, <3>3
  <2> QED BY <2>1
<1>12. ShownCut(u, s, j + i)
  BY <1>5, <1>8, <1>9, <1>10, <1>11 DEF ShownCut
<1> QED BY <1>12

\* No part of a text without DAO has any.
LEMMA PartHasNoDao ==
  ASSUME NEW s \in Seq(Extension), NEW u, NEW i, IsPart(u, s, i), NoDao(s)
  PROVE  NoDao(u)
<1>1. i \in Nat /\ Len(u) \in Nat /\ Len(s) \in Nat /\ Len(u) + i <= Len(s)
  BY LenProperties DEF IsPart
<1>2. ASSUME NEW k \in 1 .. Len(u) PROVE ~ IsDao(u[k])
  <2>1. i + k \in 1 .. Len(s)
    BY <1>1, SMT
  <2> QED BY <2>1 DEF IsPart, NoDao
<1> QED BY <1>2 DEF NoDao

\* Taking telemetry out leaves DAO as it is.
KeepsDao(s, u) ==
  /\ u \in Seq(Extension)
  /\ NoDao(s) => NoDao(u)
  /\ \A b, l : EndsIn(s, Dao("base91", b, l)) => EndsIn(u, Dao("base91", b, l))

\* The last telemetry is taken out, and no DAO with it.
LEMMA WithoutTelemetryIs ==
  ASSUME NEW s \in Seq(Extension)
  PROVE  /\ KeepsDao(s, WithoutTelemetry(s))
         /\ (\A i \in 1 .. Len(s) : s[i] # Telemetry) => WithoutTelemetry(s) = s
<1> DEFINE I == {i \in 1 .. Len(s) : s[i] = Telemetry}
           at == SelectLastInSeq(s, LAMBDA x : x = Telemetry)
<1>0. Len(s) \in Nat
  BY LenProperties
<1>1. at = IF I # {} THEN Max(I) ELSE 0
  BY DEF SelectLastInSeq
<1>2. WithoutTelemetry(s) = IF at = 0 THEN s ELSE RemoveAt(s, at)
  BY DEF WithoutTelemetry
<1>3. CASE I = {}
  BY <1>1, <1>2, <1>3 DEF KeepsDao
<1>4. CASE I # {}
  <2>1. I \subseteq 1 .. Len(s)
    OBVIOUS
  <2>2. Max(I) \in I
    <3> HIDE DEF I
    <3> QED BY <1>0, <1>4, <2>1, EndsOf
  <2>3. at \in 1 .. Len(s) /\ s[at] = Telemetry
    BY <1>1, <1>4, <2>2
  <2> HIDE DEF at
  <2>4. WithoutTelemetry(s) = RemoveAt(s, at)
    <3>1. at # 0
      BY <1>0, <2>3, SMT
    <3> QED BY <1>2, <3>1
  <2>5. ~ IsDao(s[at])
    <3>1. Telemetry.kind = "telemetry"
      BY DEF Telemetry
    <3> QED BY <2>3, <3>1 DEF IsDao
  <2>6. KeepsDao(s, WithoutTelemetry(s))
    BY <2>3, <2>4, <2>5, RemovedKeepsDao DEF KeepsDao
  <2> QED BY <2>3, <2>6
<1> QED BY <1>3, <1>4

\* Nor does trimming what is left cut any off.
LEMMA TelemetryTakenIs ==
  ASSUME NEW s \in Seq(Extension)
  PROVE  /\ KeepsDao(s, TelemetryTaken(s))
         /\ (\A i \in 1 .. Len(s) : s[i] # Telemetry) => TelemetryTaken(s) = s
<1>1. CASE \A i \in 1 .. Len(s) : s[i] # Telemetry
  <2>1. TelemetryTaken(s) = s
    BY <1>1 DEF TelemetryTaken
  <2> QED BY <2>1 DEF KeepsDao
<1>2. CASE \E i \in 1 .. Len(s) : s[i] = Telemetry
  <2>1. PICK w : w = WithoutTelemetry(s)
    OBVIOUS
  <2>2. PICK u : u = Trim(w)
    OBVIOUS
  <2>3. KeepsDao(s, w) /\ TelemetryTaken(s) = u
    <3>1. TelemetryTaken(s) = Trim(WithoutTelemetry(s))
      BY <1>2 DEF TelemetryTaken
    <3> QED BY <2>1, <2>2, <3>1, WithoutTelemetryIs
  <2>4. w \in Seq(Extension)
    BY <2>3 DEF KeepsDao
  <2>5. PICK i : TrimCut(u, w, i)
    BY <2>2, <2>4, TrimIs
  <2>6. /\ u \in Seq(Extension) /\ i \in Nat /\ Len(u) \in Nat /\ Len(w) \in Nat /\ Len(u) + i <= Len(w)
    BY <2>4, <2>5, LenProperties DEF TrimCut, IsPart
  <2>7. NoDao(w) => NoDao(u)
    BY <2>4, <2>5, PartHasNoDao DEF TrimCut
  <2>8. ASSUME NEW b, NEW l, EndsIn(w, Dao("base91", b, l)) PROVE EndsIn(u, Dao("base91", b, l))
    <3> DEFINE d == Dao("base91", b, l)
    <3>1. Len(w) > 0 /\ w[Len(w)] = d /\ d # White
      <4>1. d.kind = "dao" /\ White.kind = "white"
        BY DEF Dao, White
      <4>2. d # White
        BY <4>1
      <4> QED BY <2>8, <4>2 DEF EndsIn
    <3> HIDE DEF d
    <3>2. ~ Len(w) \in 1 .. i /\ ~ Len(w) \in i + Len(u) + 1 .. Len(w)
      BY <2>5, <3>1 DEF TrimCut
    <3>3. i + Len(u) = Len(w) /\ Len(u) > 0 /\ Len(u) \in 1 .. Len(u)
      BY <2>6, <3>1, <3>2, SMT
    <3>4. u[Len(u)] = w[i + Len(u)]
      BY <2>5, <3>3 DEF TrimCut, IsPart
    <3> QED BY <3>1, <3>3, <3>4 DEF EndsIn, d
  <2>9. KeepsDao(s, u)
    BY <2>3, <2>6, <2>7, <2>8 DEF KeepsDao
  <2>10. KeepsDao(s, TelemetryTaken(s))
    BY <2>3, <2>9
  <2> QED BY <1>2, <2>10
<1> QED BY <1>1, <1>2

\* A report, and a coordinate that DAO has moved.
Rep(t, lat, lon, ambiguity, course, speed, altitude, datum, comment) ==
  [form |-> t.form, table |-> t.table, code |-> t.code, lat |-> lat, lon |-> lon,
   ambiguity |-> ambiguity, course |-> course, speed |-> speed,
   altitude |-> altitude, datum |-> datum, comment |-> comment]

Moved(c, grains) == IF grains = 0 THEN c ELSE [c EXCEPT !.grains = @ + grains]

\* What the DAO of a text does, if there is one.
DaoOutcome(rest, datum, lat, lon, comment) ==
  \/ /\ \A i \in 1 .. Len(rest) : ~ IsDao(rest[i])
     /\ datum = "none" /\ lat = 0 /\ lon = 0 /\ comment = rest
  \/ \E at \in 1 .. Len(rest) :
       /\ IsDao(rest[at]) /\ \A i \in at + 1 .. Len(rest) : ~ IsDao(rest[i])
       /\ datum = rest[at].datum /\ comment = RemoveAt(rest, at)
       /\ lat = DaoGrains(datum, rest[at].lat) /\ lon = DaoGrains(datum, rest[at].lon)

\* The last DAO is taken out of the comment and moves both coordinates.
LEMMA ReadDaoIs ==
  ASSUME NEW rest \in Seq(Extension), NEW t, NEW lat, NEW lon, NEW a, NEW course, NEW speed,
         NEW altitude, NoDao(rest) \/ (lat \in Angle /\ lon \in Angle)
  PROVE  \E datum, g, h, comment :
           /\ DaoOutcome(rest, datum, g, h, comment)
           /\ ReadDao(Rep(t, lat, lon, a, course, speed, altitude, "none", <<>>), rest)
                = Rep(t, Moved(lat, g), Moved(lon, h), a, course, speed, altitude, datum, comment)
<1> DEFINE at == SelectLastInSeq(rest, LAMBDA x : x.kind = "dao")
           R == Rep(t, lat, lon, a, course, speed, altitude, "none", <<>>)
<1>1. \/ at = 0 /\ \A i \in 1 .. Len(rest) : ~ IsDao(rest[i])
      \/ at \in 1 .. Len(rest) /\ IsDao(rest[at]) /\ \A i \in at + 1 .. Len(rest) : ~ IsDao(rest[i])
  BY LastDaoIs
<1>2. CASE at = 0
  <2>1. ReadDao(R, rest) = [R EXCEPT !.comment = rest]
    BY <1>2 DEF ReadDao
  <2>2. [R EXCEPT !.comment = rest] = Rep(t, lat, lon, a, course, speed, altitude, "none", rest)
    BY DEF Rep
  <2>3. Moved(lat, 0) = lat /\ Moved(lon, 0) = lon
    BY DEF Moved
  <2>4. ~ at \in 1 .. Len(rest)
    BY <1>2
  <2>5. DaoOutcome(rest, "none", 0, 0, rest)
    BY <1>1, <2>4 DEF DaoOutcome
  <2> HIDE DEF at, R
  <2>6. ReadDao(R, rest) = Rep(t, Moved(lat, 0), Moved(lon, 0), a, course, speed, altitude, "none", rest)
    BY <2>1, <2>2, <2>3
  <2> QED BY <2>5, <2>6 DEF R
<1>3. CASE at # 0
  <2> DEFINE datum == rest[at].datum
             g == DaoGrains(datum, rest[at].lat)
             h == DaoGrains(datum, rest[at].lon)
             comment == RemoveAt(rest, at)
             lat2 == [R["lat"] EXCEPT !.grains = @ + DaoGrains(rest[at].datum, rest[at]["lat"])]
             lon2 == [R["lon"] EXCEPT !.grains = @ + DaoGrains(rest[at].datum, rest[at]["lon"])]
  <2>1. ReadDao(R, rest) = [R EXCEPT !.comment = comment, !.datum = datum, !.lat = lat2, !.lon = lon2]
    BY <1>3 DEF ReadDao
  <2>2. R["lat"] = lat /\ R["lon"] = lon
    BY DEF Rep
  <2>11. lat \in Angle /\ lon \in Angle
    BY <1>1, <1>3 DEF NoDao
  <2>3. lat2 = Moved(lat, g) /\ lon2 = Moved(lon, h)
    <3>1. lat2 = [lat EXCEPT !.grains = @ + g] /\ lon2 = [lon EXCEPT !.grains = @ + h]
      BY <2>2
    <3> HIDE DEF g, h, lat2, lon2
    <3>2. g = 0 => [lat EXCEPT !.grains = @ + g] = lat
      BY <2>11 DEF Angle
    <3>3. h = 0 => [lon EXCEPT !.grains = @ + h] = lon
      BY <2>11 DEF Angle
    <3> QED BY <3>1, <3>2, <3>3 DEF Moved
  <2>4. DaoOutcome(rest, datum, g, h, comment)
    BY <1>1, <1>3 DEF DaoOutcome
  <2> HIDE DEF at, datum, g, h, comment, lat2, lon2
  <2>5. [R EXCEPT !.comment = comment, !.datum = datum, !.lat = lat2, !.lon = lon2]
          = [[[[R EXCEPT !.comment = comment] EXCEPT !.datum = datum] EXCEPT !.lat = lat2] EXCEPT !.lon = lon2]
    OBVIOUS
  <2>6. [R EXCEPT !.comment = comment] = Rep(t, lat, lon, a, course, speed, altitude, "none", comment)
    BY DEF Rep
  <2>7. [Rep(t, lat, lon, a, course, speed, altitude, "none", comment) EXCEPT !.datum = datum]
          = Rep(t, lat, lon, a, course, speed, altitude, datum, comment)
    BY DEF Rep
  <2>8. [Rep(t, lat, lon, a, course, speed, altitude, datum, comment) EXCEPT !.lat = lat2]
          = Rep(t, lat2, lon, a, course, speed, altitude, datum, comment)
    BY DEF Rep
  <2>9. [Rep(t, lat2, lon, a, course, speed, altitude, datum, comment) EXCEPT !.lon = lon2]
          = Rep(t, lat2, lon2, a, course, speed, altitude, datum, comment)
    BY DEF Rep
  <2> HIDE DEF R
  <2>10. ReadDao(R, rest) = Rep(t, Moved(lat, g), Moved(lon, h), a, course, speed, altitude, datum, comment)
    <3>1. ReadDao(R, rest) = [[[[R EXCEPT !.comment = comment] EXCEPT !.datum = datum] EXCEPT !.lat = lat2] EXCEPT !.lon = lon2]
      BY <2>1, <2>5, Zenon
    <3>2. ReadDao(R, rest) = Rep(t, lat2, lon2, a, course, speed, altitude, datum, comment)
      BY <3>1, <2>6, <2>7, <2>8, <2>9, Zenon
    <3> QED BY <3>2, <2>3, Zenon
  <2> QED BY <2>4, <2>10 DEF R
<1> QED BY <1>2, <1>3

\* What parse_dao makes of a report and the text behind it.
DaoReadAs(rest, t, lat, lon, a, course, speed, altitude, datum, g, h, comment) ==
  /\ DaoOutcome(WithoutTelemetry(rest), datum, g, h, comment)
  /\ WithDao(Rep(t, lat, lon, a, course, speed, altitude, "none", <<>>), rest)
       = Rep(t, Moved(lat, g), Moved(lon, h), a, course, speed, altitude, datum, Shown(comment))

\* parse_dao does so with a comment that is trimmed, and with no telemetry in it.
LEMMA WithDaoIs ==
  ASSUME NEW rest \in Seq(Extension), NEW t, NEW lat, NEW lon, NEW a, NEW course, NEW speed,
         NEW altitude, NoDao(rest) \/ (lat \in Angle /\ lon \in Angle)
  PROVE  \E datum, g, h, comment :
           DaoReadAs(rest, t, lat, lon, a, course, speed, altitude, datum, g, h, comment)
<1> DEFINE w == WithoutTelemetry(rest)
           R == Rep(t, lat, lon, a, course, speed, altitude, "none", <<>>)
<1>1. w \in Seq(Extension) /\ (NoDao(rest) => NoDao(w))
  BY WithoutTelemetryIs DEF KeepsDao
<1> HIDE DEF w
<1>2. PICK datum, g, h, comment :
        /\ DaoOutcome(w, datum, g, h, comment)
        /\ ReadDao(R, w) = Rep(t, Moved(lat, g), Moved(lon, h), a, course, speed, altitude, datum, comment)
  <2>1. NoDao(w) \/ (lat \in Angle /\ lon \in Angle)
    BY <1>1
  <2> QED BY <1>1, <2>1, ReadDaoIs
<1>3. WithDao(R, rest) = [ReadDao(R, w) EXCEPT !.comment = Shown(@)]
  BY DEF WithDao, w
<1> HIDE DEF R
<1> DEFINE v == Shown(comment)
           x == Moved(lat, g)
           y == Moved(lon, h)
<1>4. ReadDao(R, w) = Rep(t, x, y, a, course, speed, altitude, datum, comment)
  BY <1>2
<1> HIDE DEF x, y
<1>5. [Rep(t, x, y, a, course, speed, altitude, datum, comment) EXCEPT !.comment = Shown(@)]
        = Rep(t, x, y, a, course, speed, altitude, datum, v)
  BY DEF Rep
<1>6. WithDao(R, rest) = Rep(t, x, y, a, course, speed, altitude, datum, v)
  BY <1>3, <1>4, <1>5
<1>7. DaoReadAs(rest, t, lat, lon, a, course, speed, altitude, datum, g, h, comment)
  BY <1>2, <1>6 DEF R, w, x, y, v, DaoReadAs
<1> QED BY <1>7

\* What course, speed and altitude in a text do.
MotionOutcome(said, course, speed, rest) ==
  IF said # <<>> /\ said[1].kind = "motion"
  THEN /\ course = {IF said[1].course \in 1 .. 360 THEN said[1].course ELSE 0}
       /\ speed = {said[1].speed} /\ rest = Tail(said)
  ELSE rest = said

AltitudeOutcome(said, altitude, rest) ==
  \/ /\ \A i \in 1 .. Len(said) : ~ IsAltitude(said[i])
     /\ altitude = {} /\ rest = said
  \/ \E at \in 1 .. Len(said) :
       /\ IsAltitude(said[at]) /\ \A i \in 1 .. at - 1 : ~ IsAltitude(said[i])
       /\ altitude = {said[at].feet} /\ rest = RemoveAt(said, at)

\* Behind '_' a text is left to the weather report.
IsWeather(t) == t.code = "_"

\* Nothing of it is read as an extension.
LEMMA WeatherIs ==
  ASSUME NEW said, NEW t, IsWeather(t), NEW lat, NEW lon, NEW a, NEW course, NEW speed
  PROVE  WithComment(Rep(t, lat, lon, a, course, speed, {}, "none", <<>>), said)
           = Rep(t, lat, lon, a, course, speed, {}, "none", <<>>)
<1> DEFINE R == Rep(t, lat, lon, a, course, speed, {}, "none", <<>>)
<1>1. R.code = "_"
  <2>1. R.code = t.code
    BY DEF Rep
  <2> HIDE DEF R
  <2> QED BY <2>1 DEF IsWeather
<1> HIDE DEF R
<1>2. WithComment(R, said) = R
  BY <1>1 DEF WithComment, IsWeather
<1> QED BY <1>2 DEF R

\* What is left behind course and speed is a comment.
LEMMA MotionSeq ==
  ASSUME NEW said \in Seq(Extension), NEW course, NEW speed, NEW rest, MotionOutcome(said, course, speed, rest)
  PROVE  rest \in Seq(Extension)
BY HeadTailProperties DEF MotionOutcome

\* How a text is read behind other symbols.
IsRead(t, lat, lon, a, course, speed, said, course2, speed2, u, altitude, v) ==
  /\ MotionOutcome(said, course2, speed2, u)
  /\ u = said => course2 = course /\ speed2 = speed
  /\ AltitudeOutcome(u, altitude, v)
  /\ WithComment(Rep(t, lat, lon, a, course, speed, {}, "none", <<>>), said)
       = WithDao(Rep(t, lat, lon, a, course2, speed2, altitude, "none", <<>>), TelemetryTaken(v))

\* parse_position_comment reads course and speed, an altitude and DAO, in that order.
LEMMA WithCommentIs ==
  ASSUME NEW said \in Seq(Extension), NEW t, ~ IsWeather(t), NEW lat, NEW lon, NEW a, NEW course, NEW speed
  PROVE  \E course2, speed2, u, altitude, v :
           IsRead(t, lat, lon, a, course, speed, said, course2, speed2, u, altitude, v)
<1> DEFINE R == Rep(t, lat, lon, a, course, speed, {}, "none", <<>>)
           moves == said # <<>> /\ said[1].kind = "motion"
           rest == IF moves THEN Tail(said) ELSE said
           at == SelectInSeq(rest, LAMBDA x : x.kind = "altitude")
           course2 == IF moves THEN {IF said[1].course \in 1 .. 360 THEN said[1].course ELSE 0} ELSE course
           speed2 == IF moves THEN {said[1].speed} ELSE speed
           moving == IF moves
                     THEN [R EXCEPT !.course = {IF said[1].course \in 1 .. 360 THEN said[1].course ELSE 0},
                                    !.speed = {said[1].speed}]
                     ELSE R
<1>1. ~ IsWeather(R)
  <2>1. R.code = t.code
    BY DEF Rep
  <2> HIDE DEF R
  <2> QED BY <2>1 DEF IsWeather
<1>2. WithComment(R, said) =
        IF at = 0 THEN WithDao(moving, TelemetryTaken(rest))
        ELSE WithDao([moving EXCEPT !.altitude = {rest[at].feet}], TelemetryTaken(RemoveAt(rest, at)))
  <2> HIDE DEF R
  <2> QED BY <1>1 DEF WithComment, IsWeather
<1>3. MotionOutcome(said, course2, speed2, rest)
  BY DEF MotionOutcome
<1>4. rest = said => course2 = course /\ speed2 = speed
  <2>1. moves => Tail(said) # said
    <3>1. said # <<>> => Len(Tail(said)) = Len(said) - 1
      BY HeadTailProperties
    <3>2. Len(said) \in Nat
      BY LenProperties
    <3>3. said # <<>> => Len(Tail(said)) # Len(said)
      BY <3>1, <3>2, SMT
    <3> QED BY <3>3
  <2> QED BY <2>1
<1>5. moving = Rep(t, lat, lon, a, course2, speed2, {}, "none", <<>>)
  <2>1. CASE moves
    <3> DEFINE c == {IF said[1].course \in 1 .. 360 THEN said[1].course ELSE 0}
               s == {said[1].speed}
    <3>1. moving = [R EXCEPT !.course = c, !.speed = s] /\ course2 = c /\ speed2 = s
      BY <2>1
    <3> DEFINE none == "none"
               unknown == {}
               empty == <<>>
    <3> HIDE DEF c, s, moving, course2, speed2
    <3>2. [R EXCEPT !.course = c, !.speed = s] = [[R EXCEPT !.course = c] EXCEPT !.speed = s]
      OBVIOUS
    <3>5. R = Rep(t, lat, lon, a, course, speed, unknown, none, empty)
      OBVIOUS
    <3> HIDE DEF R, none, unknown, empty
    <3>3. [R EXCEPT !.course = c] = Rep(t, lat, lon, a, c, speed, unknown, none, empty)
      BY <3>5 DEF Rep
    <3>4. [Rep(t, lat, lon, a, c, speed, unknown, none, empty) EXCEPT !.speed = s]
            = Rep(t, lat, lon, a, c, s, unknown, none, empty)
      BY DEF Rep
    <3> QED BY <3>1, <3>2, <3>3, <3>4 DEF none, unknown, empty
  <2>2. CASE ~ moves
    BY <2>2
  <2> QED BY <2>1, <2>2
<1>6. rest \in Seq(Extension)
  <2> HIDE DEF course2, speed2, rest
  <2> QED BY <1>3, MotionSeq
<1> HIDE DEF moving, course2, speed2, R, rest
<1>7. \/ at = 0 /\ \A i \in 1 .. Len(rest) : ~ IsAltitude(rest[i])
      \/ at \in 1 .. Len(rest) /\ IsAltitude(rest[at]) /\ \A i \in 1 .. at - 1 : ~ IsAltitude(rest[i])
  BY <1>6, FirstAltitudeIs
<1>8. CASE at = 0
  <2>1. ~ at \in 1 .. Len(rest)
    <3>1. Len(rest) \in Nat
      BY <1>6, LenProperties
    <3> QED BY <1>8, <3>1, SMT
  <2>2. AltitudeOutcome(rest, {}, rest)
    BY <1>7, <2>1 DEF AltitudeOutcome
  <2>3. WithComment(R, said) = WithDao(Rep(t, lat, lon, a, course2, speed2, {}, "none", <<>>), TelemetryTaken(rest))
    BY <1>2, <1>5, <1>8
  <2>4. IsRead(t, lat, lon, a, course, speed, said, course2, speed2, rest, {}, rest)
    BY <1>3, <1>4, <2>2, <2>3 DEF R, IsRead
  <2> QED BY <2>4
<1>9. CASE at # 0
  <2> DEFINE altitude == {rest[at].feet}
             v == RemoveAt(rest, at)
  <2>1. AltitudeOutcome(rest, altitude, v)
    BY <1>7, <1>9 DEF AltitudeOutcome
  <2>2. WithComment(R, said) = WithDao([moving EXCEPT !.altitude = altitude], TelemetryTaken(v))
    BY <1>2, <1>9
  <2> DEFINE none == "none"
             unknown == {}
             empty == <<>>
  <2>5. moving = Rep(t, lat, lon, a, course2, speed2, unknown, none, empty)
    BY <1>5
  <2> HIDE DEF altitude, v, at, none, unknown, empty
  <2>6. [moving EXCEPT !.altitude = altitude] = Rep(t, lat, lon, a, course2, speed2, altitude, none, empty)
    BY <2>5 DEF Rep
  <2>3. [moving EXCEPT !.altitude = altitude] = Rep(t, lat, lon, a, course2, speed2, altitude, "none", <<>>)
    BY <2>6 DEF none, empty
  <2>4. WithComment(R, said) = WithDao(Rep(t, lat, lon, a, course2, speed2, altitude, "none", <<>>), TelemetryTaken(v))
    BY <2>2, <2>3
  <2>7. IsRead(t, lat, lon, a, course, speed, said, course2, speed2, rest, altitude, v)
    BY <1>3, <1>4, <2>1, <2>4 DEF R, IsRead
  <2> QED BY <2>7
<1> QED BY <1>8, <1>9

\* What DAO of a datum can add to a coordinate.
DaoRest(datum) ==
  IF datum = "none" THEN {0}
  ELSE IF datum = "base91" THEN {100 * b : b \in 0 .. 90} ELSE {910 * d : d \in 0 .. 9}

\* What the extensions of each kind hold.
LEMMA KindsAre ==
  ASSUME NEW x \in Extension
  PROVE  /\ IsDao(x) => /\ \/ x.datum = "base91" /\ x.lat \in 0 .. 90 /\ x.lon \in 0 .. 90
                           \/ x.datum = "decimal" /\ x.lat \in 0 .. 9 /\ x.lon \in 0 .. 9
         /\ x.kind = "motion" => x.course \in Nat /\ x.speed \in Nat
         /\ IsAltitude(x) => x.feet \in SixPlaces
<1>1. CASE x \in [kind : {"motion"}, course : Nat, speed : Nat]
  BY <1>1 DEF IsDao, IsAltitude
<1>2. CASE x \in [kind : {"altitude"}, feet : SixPlaces]
  BY <1>2 DEF IsDao, IsAltitude
<1>3. CASE x \in [kind : {"dao"}, datum : {"base91"}, lat : 0 .. 90, lon : 0 .. 90]
  BY <1>3 DEF IsDao, IsAltitude
<1>4. CASE x \in [kind : {"dao"}, datum : {"decimal"}, lat : 0 .. 9, lon : 0 .. 9]
  BY <1>4 DEF IsDao, IsAltitude
<1>5. CASE x \in {Telemetry, Words, White, Slash}
  <2>1. x.kind \in {"telemetry", "words", "white", "slash"}
    BY <1>5 DEF Telemetry, Words, White, Slash
  <2> QED BY <2>1 DEF IsDao, IsAltitude
<1> QED BY <1>1, <1>2, <1>3, <1>4, <1>5 DEF Extension

\* What a digit of each kind of DAO is worth.
LEMMA DaoGrainsAre ==
  ASSUME NEW b \in Nat
  PROVE  DaoGrains("base91", b) = 100 * b /\ DaoGrains("decimal", b) = 910 * b
<1>1. Hundredth \div 91 = 100 /\ Minute \div 1000 = 910
  <2>1. 9100 \div 91 = 100 /\ 910000 \div 1000 = 910
    BY SMT
  <2> QED BY <2>1, UnitsAre
<1>2. DaoGrains("base91", b) = b * (Hundredth \div 91)
  BY DEF DaoGrains
<1>3. DaoGrains("decimal", b) = b * (Minute \div 1000)
  BY DEF DaoGrains
<1>4. b * 100 = 100 * b /\ b * 910 = 910 * b
  BY SMT
<1> QED BY <1>1, <1>2, <1>3, <1>4

\* DAO adds less than a hundredth of a minute.
LEMMA DaoRestIs ==
  ASSUME NEW x \in Extension, IsDao(x)
  PROVE  /\ x.datum = "base91" \/ x.datum = "decimal"
         /\ DaoGrains(x.datum, x.lat) \in DaoRest(x.datum)
         /\ DaoGrains(x.datum, x.lon) \in DaoRest(x.datum)
<1>1. CASE x.datum = "base91" /\ x.lat \in 0 .. 90 /\ x.lon \in 0 .. 90
  <2>1. DaoGrains("base91", x.lat) = 100 * x.lat /\ DaoGrains("base91", x.lon) = 100 * x.lon
    BY <1>1, DaoGrainsAre
  <2> QED BY <1>1, <2>1 DEF DaoRest
<1>2. CASE x.datum = "decimal" /\ x.lat \in 0 .. 9 /\ x.lon \in 0 .. 9
  <2>1. DaoGrains("decimal", x.lat) = 910 * x.lat /\ DaoGrains("decimal", x.lon) = 910 * x.lon
    BY <1>2, DaoGrainsAre
  <2> QED BY <1>2, <2>1 DEF DaoRest
<1> QED BY <1>1, <1>2, KindsAre

\* It is a number below the size of a hundredth.
LEMMA DaoRestBounds ==
  ASSUME NEW datum, NEW g \in DaoRest(datum)
  PROVE  g \in Nat /\ g <= 9000
<1>1. CASE datum = "none"
  BY <1>1 DEF DaoRest
<1>2. CASE datum # "none" /\ datum = "base91"
  <2>1. PICK b \in 0 .. 90 : g = 100 * b
    BY <1>2 DEF DaoRest
  <2> QED BY <2>1, SMT
<1>3. CASE datum # "none" /\ datum # "base91"
  <2>1. PICK b \in 0 .. 9 : g = 910 * b
    BY <1>3 DEF DaoRest
  <2> QED BY <2>1, SMT
<1> QED BY <1>1, <1>2, <1>3

Datum == {"none", "base91", "decimal"}

DaoKept(rest, datum, g, h, comment) ==
  /\ comment \in Seq(Extension) /\ datum \in Datum
  /\ g \in DaoRest(datum) /\ h \in DaoRest(datum)
  /\ datum = "none" <=> NoDao(rest)
  /\ datum = "none" => comment = rest
  /\ \A b, l \in 0 .. 90 :
       EndsIn(rest, Dao("base91", b, l)) =>
         datum = "base91" /\ g = 100 * b /\ h = 100 * l /\ comment = RemoveAt(rest, Len(rest))

\* Where a text ends in DAO, that is what is read; where it has none, nothing is.
LEMMA DaoIsKept ==
  ASSUME NEW rest \in Seq(Extension), NEW datum, NEW g, NEW h, NEW comment,
         DaoOutcome(rest, datum, g, h, comment)
  PROVE  DaoKept(rest, datum, g, h, comment)
<1>0. Len(rest) \in Nat /\ \A i \in 1 .. Len(rest) : rest[i] \in Extension
  BY LenProperties, ElementOfSeq
<1>1. CASE NoDao(rest) /\ datum = "none" /\ g = 0 /\ h = 0 /\ comment = rest
  <2>1. ASSUME NEW b, NEW l, EndsIn(rest, Dao("base91", b, l)) PROVE FALSE
    <3>1. Len(rest) \in 1 .. Len(rest)
      BY <1>0, <2>1 DEF EndsIn
    <3>2. Dao("base91", b, l).kind = "dao"
      BY DEF Dao
    <3> QED BY <1>1, <2>1, <3>1, <3>2 DEF EndsIn, NoDao, IsDao
  <2>2. g \in DaoRest(datum) /\ h \in DaoRest(datum)
    BY <1>1 DEF DaoRest
  <2> QED BY <1>1, <2>1, <2>2 DEF Datum, DaoKept
<1>2. ASSUME NEW at \in 1 .. Len(rest), IsDao(rest[at]), \A i \in at + 1 .. Len(rest) : ~ IsDao(rest[i]),
             datum = rest[at].datum, comment = RemoveAt(rest, at),
             g = DaoGrains(datum, rest[at].lat), h = DaoGrains(datum, rest[at].lon)
      PROVE  DaoKept(rest, datum, g, h, comment)
  <2>1. comment \in Seq(Extension)
    BY <1>2, RemovedIs
  <2>2. /\ datum = "base91" \/ datum = "decimal"
        /\ g \in DaoRest(datum) /\ h \in DaoRest(datum)
    BY <1>0, <1>2, DaoRestIs
  <2>3. datum # "none"
    BY <2>2
  <2>4. ~ NoDao(rest)
    BY <1>2 DEF NoDao
  <2>5. ASSUME NEW b \in 0 .. 90, NEW l \in 0 .. 90, EndsIn(rest, Dao("base91", b, l))
        PROVE  datum = "base91" /\ g = 100 * b /\ h = 100 * l /\ comment = RemoveAt(rest, Len(rest))
    <3> DEFINE d == Dao("base91", b, l)
    <3>1. d.kind = "dao" /\ d.datum = "base91" /\ d.lat = b /\ d.lon = l
      BY DEF Dao
    <3>2. rest[Len(rest)] = d
      BY <2>5 DEF EndsIn
    <3> HIDE DEF d
    <3>3. IsDao(rest[Len(rest)])
      BY <3>1, <3>2 DEF IsDao
    <3>4. at = Len(rest)
      <4>1. at # Len(rest) => Len(rest) \in at + 1 .. Len(rest)
        BY <1>0, SMT
      <4> QED BY <1>2, <3>3, <4>1
    <3>5. datum = "base91" /\ g = DaoGrains("base91", b) /\ h = DaoGrains("base91", l)
      BY <1>2, <3>1, <3>2, <3>4
    <3>6. b \in Nat /\ l \in Nat
      BY SMT
    <3>7. DaoGrains("base91", b) = 100 * b /\ DaoGrains("base91", l) = 100 * l
      <4>1. \A n \in Nat : DaoGrains("base91", n) = 100 * n
        BY DaoGrainsAre
      <4> QED BY <3>6, <4>1, Zenon
    <3>8. g = 100 * b /\ h = 100 * l
      BY <3>5, <3>7, Zenon
    <3>9. comment = RemoveAt(rest, Len(rest))
      BY <1>2, <3>4, Zenon
    <3> QED BY <3>5, <3>8, <3>9, Zenon
  <2> QED BY <2>1, <2>2, <2>3, <2>4, <2>5 DEF Datum, DaoKept
<1> QED BY <1>1, <1>2 DEF DaoOutcome, NoDao

\* Course, speed and altitude leave the DAO of a text as it is.
LEMMA MotionIsKept ==
  ASSUME NEW said \in Seq(Extension), NEW course, NEW speed, NEW rest, MotionOutcome(said, course, speed, rest)
  PROVE  /\ rest \in Seq(Extension)
         /\ NoDao(said) => NoDao(rest)
         /\ \A b, l : EndsIn(said, Dao("base91", b, l)) => EndsIn(rest, Dao("base91", b, l))
         /\ rest # said => IsOption(course) /\ IsOption(speed) /\ course \subseteq Nat
<1> DEFINE moves == said # <<>> /\ said[1].kind = "motion"
<1>0. Len(said) \in Nat /\ \A i \in 1 .. Len(said) : said[i] \in Extension
  BY LenProperties, ElementOfSeq
<1>1. CASE ~ moves
  <2>1. rest = said
    BY <1>1 DEF MotionOutcome
  <2> QED BY <2>1
<1>2. CASE moves
  <2>1. /\ course = {IF said[1].course \in 1 .. 360 THEN said[1].course ELSE 0}
        /\ speed = {said[1].speed} /\ rest = Tail(said)
    BY <1>2 DEF MotionOutcome
  <2>2. said # <<>> /\ said[1].kind = "motion"
    BY <1>2
  <2>3. /\ rest \in Seq(Extension) /\ Len(rest) = Len(said) - 1
        /\ \A i \in 1 .. Len(rest) : rest[i] = said[i + 1]
    BY <2>1, <2>2, HeadTailProperties
  <2>4. Len(said) >= 1
    BY <1>0, <2>2, EmptySeq
  <2>5. said[1].course \in Nat /\ said[1].speed \in Nat
    <3>1. said[1] \in Extension
      BY <1>0, <2>4
    <3> QED BY <2>2, <3>1, KindsAre
  <2>6. NoDao(said) => NoDao(rest)
    <3>1. \A i \in 1 .. Len(rest) : i + 1 \in 1 .. Len(said)
      BY <1>0, <2>3, SMT
    <3> QED BY <2>3, <3>1 DEF NoDao
  <2>7. ASSUME NEW b, NEW l, EndsIn(said, Dao("base91", b, l)) PROVE EndsIn(rest, Dao("base91", b, l))
    <3> DEFINE d == Dao("base91", b, l)
    <3>1. d.kind = "dao" /\ said[Len(said)] = d
      BY <2>7 DEF Dao, EndsIn
    <3> HIDE DEF d
    <3>2. Len(said) # 1
      BY <2>2, <3>1
    <3>3. Len(rest) > 0 /\ Len(rest) \in 1 .. Len(rest) /\ Len(rest) + 1 = Len(said)
      BY <1>0, <2>3, <2>4, <3>2, SMT
    <3>4. rest[Len(rest)] = d
      BY <2>3, <3>1, <3>3
    <3> QED BY <3>3, <3>4 DEF EndsIn, d
  <2>8. IsOption(course) /\ IsOption(speed) /\ course \subseteq Nat
    <3> DEFINE c == IF said[1].course \in 1 .. 360 THEN said[1].course ELSE 0
               n == said[1].speed
    <3>1. c \in Int /\ n \in Int /\ c \in Nat
      BY <2>5, SMT
    <3>2. course = {c} /\ speed = {n}
      BY <2>1
    <3> HIDE DEF c, n
    <3> QED BY <3>1, <3>2 DEF IsOption
  <2> QED BY <2>3, <2>6, <2>7, <2>8
<1> QED BY <1>1, <1>2

\* Reading an altitude leaves the DAO behind it where it is.
LEMMA AltitudeIsKept ==
  ASSUME NEW said \in Seq(Extension), NEW altitude, NEW rest, AltitudeOutcome(said, altitude, rest)
  PROVE  KeepsDao(said, rest) /\ IsOption(altitude) /\ altitude \subseteq SevenPlaces
<1>0. Len(said) \in Nat /\ \A i \in 1 .. Len(said) : said[i] \in Extension
  BY LenProperties, ElementOfSeq
<1>1. CASE altitude = {} /\ rest = said
  BY <1>1 DEF IsOption, KeepsDao
<1>2. ASSUME NEW at \in 1 .. Len(said), IsAltitude(said[at]), altitude = {said[at].feet},
             rest = RemoveAt(said, at)
      PROVE  KeepsDao(said, rest) /\ IsOption(altitude) /\ altitude \subseteq SevenPlaces
  <2>1. ~ IsDao(said[at])
    BY <1>2 DEF IsAltitude, IsDao
  <2>2. KeepsDao(said, rest)
    BY <1>2, <2>1, RemovedKeepsDao DEF KeepsDao
  <2>3. PICK feet : feet = said[at].feet
    OBVIOUS
  <2>4. feet \in SixPlaces
    BY <1>0, <1>2, <2>3, KindsAre
  <2>5. feet \in Int /\ feet \in SevenPlaces
    BY <2>4, SMT DEF SixPlaces, SevenPlaces
  <2> QED BY <1>2, <2>2, <2>3, <2>5 DEF IsOption
<1> QED BY <1>1, <1>2 DEF AltitudeOutcome

\* What the decoder of a position makes of the text behind it.
Said(t, said, datum, g, h, course, speed, altitude, comment) ==
  /\ comment \in Seq(Extension) /\ datum \in Datum
  /\ g \in DaoRest(datum) /\ h \in DaoRest(datum)
  /\ IsOption(course) /\ IsOption(speed) /\ course \subseteq Nat
  /\ IsOption(altitude) /\ altitude \subseteq SevenPlaces
  /\ datum = "none" => NoDao(comment)
  /\ IsWeather(t) \/ NoDao(said) => datum = "none"
  /\ ~ IsWeather(t) =>
       \A b, l \in 0 .. 90 :
         EndsIn(said, Dao("base91", b, l)) => datum = "base91" /\ g = 100 * b /\ h = 100 * l

Commented(t, said, lat, lon, a, result, datum, g, h, course, speed, altitude, comment) ==
  /\ Said(t, said, datum, g, h, course, speed, altitude, comment)
  /\ result = Rep(t, Moved(lat, g), Moved(lon, h), a, course, speed, altitude, datum, comment)

\* What is shown of a comment has no more DAO than the comment.
LEMMA ShownKeeps ==
  ASSUME NEW c \in Seq(Extension), NEW comment, comment = Shown(c)
  PROVE  /\ comment \in Seq(Extension) /\ (NoDao(c) => NoDao(comment))
         /\ c = <<>> => comment = <<>>
<1>1. PICK i : ShownCut(comment, c, i)
  BY ShownIs
<1>2. IsPart(comment, c, i)
  BY <1>1 DEF ShownCut
<1>3. comment \in Seq(Extension) /\ i \in Nat /\ Len(comment) + i <= Len(c)
  BY <1>2 DEF IsPart
<1>4. c = <<>> => comment = <<>>
  <2>1. c = <<>> => Len(c) = 0
    BY EmptySeq
  <2>2. Len(c) = 0 => Len(comment) = 0
    <3>1. Len(c) \in Nat /\ Len(comment) \in Nat
      BY <1>3, LenProperties
    <3> QED BY <1>3, <3>1, SMT
  <2> QED BY <1>3, <2>1, <2>2, EmptySeq
<1> QED BY <1>2, <1>3, <1>4, PartHasNoDao

\* A position comment is read as one report.
LEMMA CommentIs ==
  ASSUME NEW said \in Seq(Extension), NEW t, NEW lat, NEW lon, NEW a, NEW course, NEW speed,
         NoDao(said) \/ (lat \in Angle /\ lon \in Angle), IsOption(course), IsOption(speed), course \subseteq Nat,
         NEW result, result = WithComment(NewReport(t, lat, lon, a, course, speed), said)
  PROVE  \E datum, g, h, course2, speed2, altitude, comment :
           Commented(t, said, lat, lon, a, result, datum, g, h, course2, speed2, altitude, comment)
<1>0. NewReport(t, lat, lon, a, course, speed) = Rep(t, lat, lon, a, course, speed, {}, "none", <<>>)
  BY DEF NewReport, Rep
<1>1. CASE IsWeather(t)
  <2>1. WithComment(Rep(t, lat, lon, a, course, speed, {}, "none", <<>>), said)
          = Rep(t, lat, lon, a, course, speed, {}, "none", <<>>)
    BY <1>1, WeatherIs
  <2>2. Moved(lat, 0) = lat /\ Moved(lon, 0) = lon
    BY DEF Moved
  <2>3. Said(t, said, "none", 0, 0, course, speed, {}, <<>>)
    <3>1. <<>> \in Seq(Extension) /\ NoDao(<<>>)
      BY EmptySeq DEF NoDao
    <3>2. IsOption({}) /\ {} \subseteq SevenPlaces
      BY DEF IsOption
    <3>3. 0 \in DaoRest("none") /\ "none" \in Datum
      BY DEF DaoRest, Datum
    <3> QED BY <1>1, <3>1, <3>2, <3>3 DEF Said
  <2> DEFINE none == {}
             word == "none"
             void == <<>>
             zero == 0
  <2>4. /\ Said(t, said, word, zero, zero, course, speed, none, void)
        /\ result = Rep(t, Moved(lat, zero), Moved(lon, zero), a, course, speed, none, word, void)
    BY <1>0, <2>1, <2>2, <2>3
  <2> HIDE DEF none, word, void, zero
  <2>5. Commented(t, said, lat, lon, a, result, word, zero, zero, course, speed, none, void)
    BY <2>4 DEF Commented
  <2> QED BY <2>5
<1>2. CASE ~ IsWeather(t)
  <2>0. PICK course2, speed2, u, altitude, v :
          IsRead(t, lat, lon, a, course, speed, said, course2, speed2, u, altitude, v)
    BY <1>2, WithCommentIs
  <2>1. /\ MotionOutcome(said, course2, speed2, u)
        /\ u = said => course2 = course /\ speed2 = speed
        /\ AltitudeOutcome(u, altitude, v)
        /\ WithComment(Rep(t, lat, lon, a, course, speed, {}, "none", <<>>), said)
             = WithDao(Rep(t, lat, lon, a, course2, speed2, altitude, "none", <<>>), TelemetryTaken(v))
    BY <2>0 DEF IsRead
  <2>2. /\ u \in Seq(Extension) /\ IsOption(course2) /\ IsOption(speed2) /\ course2 \subseteq Nat
        /\ NoDao(said) => NoDao(u)
        /\ \A b, l : EndsIn(said, Dao("base91", b, l)) => EndsIn(u, Dao("base91", b, l))
    BY <2>1, MotionIsKept
  <2>3. KeepsDao(u, v) /\ IsOption(altitude) /\ altitude \subseteq SevenPlaces
    BY <2>1, <2>2, AltitudeIsKept
  <2> DEFINE w == TelemetryTaken(v)
             x == WithoutTelemetry(w)
  <2>4. KeepsDao(v, w) /\ KeepsDao(w, x)
    BY <2>3, TelemetryTakenIs, WithoutTelemetryIs DEF KeepsDao
  <2> HIDE DEF w
  <2>5. PICK datum, g, h, c :
          DaoReadAs(w, t, lat, lon, a, course2, speed2, altitude, datum, g, h, c)
    <3>1. w \in Seq(Extension) /\ (NoDao(w) \/ (lat \in Angle /\ lon \in Angle))
      BY <2>2, <2>3, <2>4 DEF KeepsDao
    <3> QED BY <3>1, WithDaoIs
  <2>50. /\ DaoOutcome(x, datum, g, h, c)
         /\ WithDao(Rep(t, lat, lon, a, course2, speed2, altitude, "none", <<>>), w)
              = Rep(t, Moved(lat, g), Moved(lon, h), a, course2, speed2, altitude, datum, Shown(c))
    BY <2>5 DEF DaoReadAs
  <2> HIDE DEF x
  <2>6. PICK comment : comment = Shown(c)
    OBVIOUS
  <2>7. /\ c \in Seq(Extension) /\ datum \in Datum
        /\ g \in DaoRest(datum) /\ h \in DaoRest(datum)
        /\ datum = "none" <=> NoDao(x)
        /\ datum = "none" => c = x
        /\ \A b, l \in 0 .. 90 : EndsIn(x, Dao("base91", b, l)) => datum = "base91" /\ g = 100 * b /\ h = 100 * l
    <3>1. x \in Seq(Extension) /\ DaoOutcome(x, datum, g, h, c)
      BY <2>4, <2>50 DEF KeepsDao
    <3>2. DaoKept(x, datum, g, h, c)
      BY <3>1, DaoIsKept
    <3> QED BY <3>2 DEF DaoKept
  <2>8. Said(t, said, datum, g, h, course2, speed2, altitude, comment)
    <3>1. comment \in Seq(Extension) /\ (datum = "none" => NoDao(comment))
      BY <2>6, <2>7, ShownKeeps
    <3>2. NoDao(said) => datum = "none"
      BY <2>2, <2>3, <2>4, <2>7 DEF KeepsDao
    <3>3. \A b, l \in 0 .. 90 :
            EndsIn(said, Dao("base91", b, l)) => datum = "base91" /\ g = 100 * b /\ h = 100 * l
      BY <2>2, <2>3, <2>4, <2>7 DEF KeepsDao
    <3> QED BY <1>2, <2>2, <2>3, <2>7, <3>1, <3>2, <3>3 DEF Said
  <2>9. Commented(t, said, lat, lon, a, result, datum, g, h, course2, speed2, altitude, comment)
    BY <1>0, <2>1, <2>50, <2>6, <2>8 DEF Commented, w
  <2> QED BY <2>9
<1> QED BY <1>1, <1>2

\* The same for a Mic-E text, which has only DAO.
MiceSaid(t, said, lat, lon, a, course, speed, result, datum, g, h, comment) ==
  /\ comment \in Seq(Extension) /\ datum \in Datum
  /\ g \in DaoRest(datum) /\ h \in DaoRest(datum)
  /\ datum = "none" => NoDao(comment)
  /\ NoDao(said) => datum = "none"
  /\ said = <<>> => comment = <<>>
  /\ result = Rep(t, Moved(lat, g), Moved(lon, h), a, course, speed, {}, datum, comment)

\* In a Mic-E comment only DAO is read.
LEMMA MiceCommentIs ==
  ASSUME NEW said \in Seq(Extension), NEW t, NEW lat \in Angle, NEW lon \in Angle, NEW a, NEW course,
         NEW speed, NEW result,
         result = WithDao(NewReport(t, lat, lon, a, course, speed), TelemetryTaken(said))
  PROVE  \E datum, g, h, comment : MiceSaid(t, said, lat, lon, a, course, speed, result, datum, g, h, comment)
<1>0. NewReport(t, lat, lon, a, course, speed) = Rep(t, lat, lon, a, course, speed, {}, "none", <<>>)
  BY DEF NewReport, Rep
<1> DEFINE w == TelemetryTaken(said)
           x == WithoutTelemetry(w)
<1>1. KeepsDao(said, w) /\ KeepsDao(w, x)
  BY TelemetryTakenIs, WithoutTelemetryIs DEF KeepsDao
<1>2. said = <<>> => x = <<>>
  <2> SUFFICES ASSUME said = <<>> PROVE x = <<>>
    OBVIOUS
  <2>1. \A i \in 1 .. Len(said) : said[i] # Telemetry
    BY EmptySeq, SMT
  <2>2. w = said
    BY <2>1, TelemetryTakenIs
  <2> HIDE DEF w
  <2> QED BY <2>1, <2>2, WithoutTelemetryIs
<1> DEFINE none == {}
<1>3. PICK datum, g, h, c : DaoReadAs(w, t, lat, lon, a, course, speed, none, datum, g, h, c)
  <2>1. w \in Seq(Extension) /\ (NoDao(w) \/ (lat \in Angle /\ lon \in Angle))
    BY <1>1 DEF KeepsDao
  <2> HIDE DEF w, none
  <2> QED BY <2>1, WithDaoIs
<1>30. /\ DaoOutcome(x, datum, g, h, c)
       /\ WithDao(Rep(t, lat, lon, a, course, speed, {}, "none", <<>>), w)
            = Rep(t, Moved(lat, g), Moved(lon, h), a, course, speed, {}, datum, Shown(c))
  BY <1>3 DEF DaoReadAs
<1>4. result = Rep(t, Moved(lat, g), Moved(lon, h), a, course, speed, {}, datum, Shown(c))
  BY <1>0, <1>30
<1> HIDE DEF w, x, none
<1>5. PICK comment : comment = Shown(c)
  OBVIOUS
<1>6. /\ c \in Seq(Extension) /\ datum \in Datum
      /\ g \in DaoRest(datum) /\ h \in DaoRest(datum)
      /\ datum = "none" <=> NoDao(x)
      /\ datum = "none" => c = x
  <2>1. x \in Seq(Extension) /\ DaoOutcome(x, datum, g, h, c)
    BY <1>1, <1>30 DEF KeepsDao
  <2>2. DaoKept(x, datum, g, h, c)
    BY <2>1, DaoIsKept
  <2> QED BY <2>2 DEF DaoKept
<1>7. /\ comment \in Seq(Extension) /\ (datum = "none" => NoDao(comment))
  BY <1>5, <1>6, ShownKeeps
<1>8. NoDao(said) => datum = "none"
  BY <1>1, <1>6 DEF KeepsDao
<1>9. said = <<>> => comment = <<>>
  <2> SUFFICES ASSUME said = <<>> PROVE comment = <<>>
    OBVIOUS
  <2>1. x = <<>> /\ NoDao(x)
    BY <1>2, EmptySeq, SMT DEF NoDao
  <2>2. c = <<>>
    BY <1>6, <2>1
  <2> QED BY <1>5, <1>6, <2>2, ShownKeeps
<1>10. MiceSaid(t, said, lat, lon, a, course, speed, result, datum, g, h, comment)
  BY <1>4, <1>5, <1>6, <1>7, <1>8, <1>9 DEF MiceSaid
<1> QED BY <1>10

\* What the encoder writes behind a position.
MotionText(p) ==
  IF HasMotion(p)
  THEN LET course == CHOOSE c \in p.course : TRUE
           speed == CHOOSE s \in p.speed : TRUE
       IN  <<Motion(IF course > 360 THEN 0 ELSE course, Least(speed, 999))>>
  ELSE <<>>

HasExtensions(p) ==
  /\ p.comment \in Seq(Extension)
  /\ IsOption(p.course) /\ IsOption(p.speed) /\ IsOption(p.altitude) /\ p.altitude \subseteq SevenPlaces

\* An option holds one value or none.
LEMMA OptionIs ==
  ASSUME NEW o, IsOption(o), NEW x \in o
  PROVE  (CHOOSE y \in o : TRUE) = x /\ x \in Int /\ o = {x}
<1>1. (CHOOSE y \in o : TRUE) \in o
  OBVIOUS
<1> QED BY <1>1 DEF IsOption

\* Course and speed are written as an extension or not at all, and never as DAO.
LEMMA MotionTextIs ==
  ASSUME NEW p, HasExtensions(p)
  PROVE  MotionText(p) \in Seq(Extension) /\ NoDao(MotionText(p))
<1>1. CASE ~ HasMotion(p)
  <2>1. MotionText(p) = <<>>
    BY <1>1 DEF MotionText
  <2> QED BY <2>1, EmptySeq DEF NoDao
<1>2. CASE HasMotion(p)
  <2>1. PICK s \in p.speed, c \in p.course : s >= 0 /\ c >= 0
    BY <1>2 DEF HasMotion
  <2>2. (CHOOSE y \in p.course : TRUE) = c /\ c \in Int /\ (CHOOSE y \in p.speed : TRUE) = s /\ s \in Int
    BY OptionIs DEF HasExtensions
  <2> DEFINE x == IF c > 360 THEN 0 ELSE c
             y == Least(s, 999)
  <2>3. x \in Nat /\ y \in Nat
    BY <2>1, <2>2, SMT DEF Least
  <2>4. MotionText(p) = <<Motion(x, y)>>
    BY <1>2, <2>2 DEF MotionText
  <2> HIDE DEF x, y
  <2>5. Motion(x, y) \in [kind : {"motion"}, course : Nat, speed : Nat] /\ Motion(x, y).kind = "motion"
    BY <2>3 DEF Motion
  <2> DEFINE m == Motion(x, y)
  <2>6. m \in Extension /\ ~ IsDao(m)
    BY <2>5 DEF Extension, IsDao
  <2> HIDE DEF m
  <2>7. <<m>> \in Seq(Extension) /\ Len(<<m>>) = 1 /\ <<m>>[1] = m
    BY <2>6
  <2>8. NoDao(<<m>>)
    BY <2>6, <2>7, SMT DEF NoDao
  <2> QED BY <2>4, <2>7, <2>8 DEF m
<1> QED BY <1>1, <1>2

\* Joining texts.
LEMMA Joined ==
  ASSUME NEW u \in Seq(Extension), NEW v \in Seq(Extension), NoDao(u)
  PROVE  u \o v \in Seq(Extension) /\ (NoDao(v) => NoDao(u \o v))
<1>1. /\ u \o v \in Seq(Extension) /\ Len(u \o v) = Len(u) + Len(v)
      /\ \A i \in 1 .. Len(u) + Len(v) : (u \o v)[i] = IF i <= Len(u) THEN u[i] ELSE v[i - Len(u)]
  BY ConcatProperties
<1>2. Len(u) \in Nat /\ Len(v) \in Nat
  BY LenProperties
<1>3. ASSUME NoDao(v), NEW i \in 1 .. Len(u) + Len(v) PROVE ~ IsDao((u \o v)[i])
  <2>1. CASE i <= Len(u)
    <3>1. i \in 1 .. Len(u)
      BY <1>2, <2>1, SMT
    <3> QED BY <1>1, <2>1, <3>1 DEF NoDao
  <2>2. CASE ~ i <= Len(u)
    <3>1. i - Len(u) \in 1 .. Len(v)
      BY <1>2, <2>2, SMT
    <3> QED BY <1>1, <1>3, <2>2, <3>1 DEF NoDao
  <2> QED BY <2>1, <2>2
<1> QED BY <1>1, <1>3 DEF NoDao

\* A tenth of an altitude of seven places has six.
LEMMA TenthIs ==
  ASSUME NEW feet \in SevenPlaces, feet \notin SixPlaces
  PROVE  Quotient(feet, 10) \in SixPlaces
<1>1. feet \in Int /\ -1000000 < feet /\ feet < 10000000
  BY DEF SevenPlaces
<1> DEFINE q == Quotient(feet, 10)
<1>2. q \in Int /\ -100000 < q /\ q < 1000000
  BY <1>1, SMT DEF Quotient
<1> HIDE DEF q
<1>3. q \in SixPlaces
  BY <1>2 DEF SixPlaces
<1> QED BY <1>3 DEF q

\* So is an altitude.
LEMMA AltitudeTextIs ==
  ASSUME NEW feet \in SevenPlaces
  PROVE  EncodedAltitude(feet) \in Seq(Extension) /\ NoDao(EncodedAltitude(feet))
<1>1. \A n \in SixPlaces : Altitude(n) \in Extension /\ ~ IsDao(Altitude(n))
  <2> TAKE n \in SixPlaces
  <2>1. Altitude(n) \in [kind : {"altitude"}, feet : SixPlaces] /\ Altitude(n).kind = "altitude"
    BY DEF Altitude
  <2> DEFINE x == Altitude(n)
  <2>2. x \in Extension /\ ~ IsDao(x)
    BY <2>1 DEF Extension, IsDao
  <2> QED BY <2>2
<1>2. Words \in Extension /\ ~ IsDao(Words)
  <2>1. Words.kind = "words"
    BY DEF Words
  <2> QED BY <2>1 DEF Extension, IsDao
<1> DEFINE n == Quotient(feet, 10)
           x == Altitude(feet)
           y == Altitude(n)
           w == Words
<1>3. feet \notin SixPlaces => n \in SixPlaces
  BY TenthIs
<1>4. w \in Extension /\ ~ IsDao(w)
  BY <1>2
<1>5. \/ feet \in SixPlaces /\ EncodedAltitude(feet) = <<x>>
      \/ feet \notin SixPlaces /\ EncodedAltitude(feet) = <<y, w>>
  BY DEF EncodedAltitude
<1>6. feet \in SixPlaces => x \in Extension /\ ~ IsDao(x)
  BY <1>1
<1>7. feet \notin SixPlaces => y \in Extension /\ ~ IsDao(y)
  <2> HIDE DEF n
  <2> QED BY <1>1, <1>3
<1> HIDE DEF x, y, w, n
<1>8. CASE feet \in SixPlaces
  <2>1. <<x>> \in Seq(Extension) /\ NoDao(<<x>>)
    BY <1>6, <1>8, SMT DEF NoDao
  <2> QED BY <1>5, <1>8, <2>1
<1>9. CASE feet \notin SixPlaces
  <2>1. <<y, w>> \in Seq(Extension) /\ NoDao(<<y, w>>)
    BY <1>4, <1>7, <1>9, SMT DEF NoDao
  <2> QED BY <1>5, <1>9, <2>1
<1> QED BY <1>8, <1>9

\* So is an altitude before a comment that has no DAO.
LEMMA AltitudeAndCommentIs ==
  ASSUME NEW p, HasExtensions(p)
  PROVE  AltitudeAndComment(p) \in Seq(Extension) /\ (NoDao(p.comment) => NoDao(AltitudeAndComment(p)))
<1> DEFINE u == IF p.altitude = {} THEN <<>> ELSE EncodedAltitude(CHOOSE feet \in p.altitude : TRUE)
<1>1. u \in Seq(Extension) /\ NoDao(u)
  <2>1. CASE p.altitude = {}
    <3>1. u = <<>>
      BY <2>1
    <3> HIDE DEF u
    <3> QED BY <3>1, EmptySeq DEF NoDao
  <2>2. CASE p.altitude # {}
    <3>1. PICK feet \in p.altitude : TRUE
      BY <2>2
    <3>2. (CHOOSE y \in p.altitude : TRUE) = feet /\ feet \in SevenPlaces
      BY OptionIs DEF HasExtensions
    <3>3. u = EncodedAltitude(feet)
      BY <2>2, <3>2
    <3> QED BY <3>2, <3>3, AltitudeTextIs
  <2> QED BY <2>1, <2>2
<1>2. AltitudeAndComment(p) = u \o p.comment
  BY DEF AltitudeAndComment
<1>3. p.comment \in Seq(Extension)
  BY DEF HasExtensions
<1> HIDE DEF u
<1> QED BY <1>1, <1>2, <1>3, Joined

-----------------------------------------------------------------------------
(* Coordinates that a decoder makes.                                       *)

\* A coordinate in the middle of what ambiguity leaves open, moved by DAO.
IsWhole(c, a, w) == c \in Angle /\ w \in Nat /\ c.grains = w * Hundredth /\ Centred(w, a)
IsGood(c, a, datum) ==
  /\ c \in Angle
  /\ \E w \in Nat, g \in DaoRest(datum) : Size(c) = w * Hundredth + g /\ Centred(w, a)

\* A coordinate that DAO moves keeps its hemisphere and its hundredths.
LEMMA MovedIs ==
  ASSUME NEW c, NEW a \in 0 .. 4, NEW w, IsWhole(c, a, w), NEW datum, NEW g \in DaoRest(datum)
  PROVE  /\ IsGood(Moved(c, g), a, datum)
         /\ Moved(c, g).negative = c.negative /\ Moved(c, g).degrees = c.degrees
         /\ Moved(c, g).grains = c.grains + g /\ Size(Moved(c, g)) = Size(c) + g
<1>1. c \in Angle /\ w \in Nat /\ c.grains = w * Hundredth /\ Centred(w, a)
  BY DEF IsWhole
<1>2. c.degrees \in Nat /\ c.grains \in Nat /\ c.negative \in BOOLEAN
  BY <1>1 DEF Angle
<1>3. g \in Nat
  BY DaoRestBounds
<1> DEFINE d == Moved(c, g)
<1>4. d = [degrees |-> c.degrees, grains |-> c.grains + g, negative |-> c.negative]
  <2> DEFINE x == c.degrees
             y == c.grains
             z == c.negative
  <2>1. c = [degrees |-> x, grains |-> y, negative |-> z]
    BY <1>1 DEF Angle
  <2>2. CASE g = 0
    <3>1. y + g = y /\ d = c
      BY <1>2, <2>2, SMT DEF Moved
    <3> QED BY <2>1, <3>1
  <2>3. CASE g # 0
    <3>1. d = [c EXCEPT !.grains = y + g]
      BY <2>3, <1>2, SMT DEF Moved
    <3> DEFINE v == y + g
    <3>2. d = [c EXCEPT !.grains = v]
      BY <3>1
    <3> HIDE DEF v, d, x, y, z
    <3>3. d = [degrees |-> x, grains |-> v, negative |-> z]
      BY <2>1, <3>2
    <3> QED BY <3>3 DEF v, x, y, z
  <2> QED BY <2>2, <2>3
<1>5. d.degrees = c.degrees /\ d.grains = c.grains + g /\ d.negative = c.negative
  BY <1>4
<1>6. d \in Angle
  <2>1. c.grains + g \in Nat
    BY <1>2, <1>3, SMT
  <2> QED BY <1>2, <1>4, <2>1 DEF Angle
<1>7. Size(d) = Size(c) + g
  <2> HIDE DEF d
  <2>1. Size(d) = c.degrees * Degree + (c.grains + g)
    BY <1>5 DEF Size
  <2>2. Size(c) = c.degrees * Degree + c.grains
    BY DEF Size
  <2> QED BY <1>2, <1>3, <2>1, <2>2, UnitsAre, SMT
<1>8. PICK v \in Nat : v = 6000 * c.degrees + w
  BY <1>1, <1>2, SMT
<1>9. Centred(v, a)
  <2>1. PICK k \in Nat : k = c.degrees
    BY <1>2
  <2> QED BY <1>1, <1>8, <2>1, CentredModulo, SMT
<1>10. Size(d) = v * Hundredth + g
  <2>1. Size(c) = c.degrees * Degree + w * Hundredth
    BY <1>1 DEF Size
  <2> HIDE DEF d
  <2> QED BY <1>1, <1>2, <1>3, <1>7, <1>8, <2>1, UnitsAre, SMT
<1>11. IsGood(d, a, datum)
  BY <1>6, <1>9, <1>10 DEF IsGood
<1> QED BY <1>5, <1>7, <1>11

\* What an uncompressed coordinate of any sender becomes.
LEMMA CoordinateOf ==
  ASSUME NEW t \in AngleText, NEW limit, NEW a \in 0 .. 4
  PROVE  \/ Coordinate(t, limit, a) = {}
         \/ \E c, w : Coordinate(t, limit, a) = {c} /\ IsWhole(c, a, w)
<1> DEFINE c == [degrees |-> t.degrees, negative |-> t.negative, grains |-> Grains(Centered(t.digits, a))]
<1>1. SUFFICES ASSUME Coordinate(t, limit, a) # {} PROVE \E w : Coordinate(t, limit, a) = {c} /\ IsWhole(c, a, w)
  OBVIOUS
<1>2. Coordinate(t, limit, a) = {c} /\ \A i \in 1 .. 4 - a : t.digits[i] # Blank
  BY <1>1 DEF Coordinate
<1>3. t.degrees \in Nat /\ t.negative \in BOOLEAN /\ t.digits \in [1 .. 4 -> 0 .. 9 \cup {Blank}]
  BY DEF AngleText
<1>4. \A i \in 1 .. 4 - a : t.digits[i] \in Nat
  <2> TAKE i \in 1 .. 4 - a
  <2>1. i \in 1 .. 4
    BY SMT
  <2>2. t.digits[i] \in 0 .. 9
    BY <1>2, <1>3, <2>1
  <2> QED BY <2>2
<1> DEFINE d == t.digits
<1>5. PICK w \in Nat : Grains(Centered(d, a)) = w * Hundredth /\ Centred(w, a)
  <2> HIDE DEF d
  <2>1. \A i \in 1 .. 4 - a : d[i] \in Nat
    BY <1>4 DEF d
  <2> QED BY <2>1, CentredDigits
<1>6. w * Hundredth \in Nat
  BY UnitsAre, SMT
<1>7. c \in Angle /\ c.grains = w * Hundredth
  BY <1>3, <1>5, <1>6 DEF Angle
<1> QED BY <1>2, <1>5, <1>7 DEF IsWhole

\* Whether a position with a datum is sent on with DAO.
SaysDao(dao, datum, a) == dao \in BOOLEAN /\ (dao <=> datum # "none" /\ a = 0)

\* A decoded coordinate that is encoded and decoded again keeps its hundredths; what
\* DAO had moved it by is written as DAO, or lost (encode.rs:265-331).
StepsTo(c, a, datum, dao, limit, t, d, v, w, x) ==
  /\ w \in Nat /\ x \in DaoRest(datum)
  /\ Coordinate(t, limit, a) = {d} /\ IsWhole(d, a, v)
  /\ Size(c) = w * Hundredth + x /\ Size(d) = w * Hundredth /\ Centred(w, a)
  /\ d.negative = (c.negative /\ Size(c) # 0)
  /\ dao => Scaled(Normal(c), TRUE) % 100 = Rounded(x, 91)

\* A parsed coordinate that is written again is parsed with the same hundredths.
LEMMA CoordinateStep ==
  ASSUME NEW a \in 0 .. 4, NEW datum \in Datum, NEW c, IsGood(c, a, datum), NEW limit \in Nat,
         Normal(c).degrees <= limit, NEW dao, SaysDao(dao, datum, a),
         NEW t, t = EncodedCoordinate(Normal(c), a, dao)
  PROVE  /\ t \in AngleText /\ TrailingBlanks(t.digits) = a
         /\ \E d, v, w, x : StepsTo(c, a, datum, dao, limit, t, d, v, w, x)
<1> DEFINE n == Normal(c)
<1>1. /\ n \in Angle /\ n.negative = c.negative /\ n.grains < Degree /\ Size(n) = Size(c)
  BY NormalIs DEF IsGood
<1>2. PICK w \in Nat, x \in DaoRest(datum) : Size(c) = w * Hundredth + x /\ Centred(w, a)
  BY DEF IsGood
<1>3. x \in Nat /\ x <= 9000
  BY DaoRestBounds
<1>4. n.degrees \in Nat /\ n.grains \in Nat /\ n.negative \in BOOLEAN
  BY <1>1 DEF Angle
<1>5. n.degrees * Degree + n.grains = w * Hundredth + x
  BY <1>1, <1>2 DEF Size
<1> HIDE DEF n
<1>6. PICK v \in Nat : w = 6000 * n.degrees + v /\ n.grains = v * Hundredth + x /\ v < 6000
  <2>1. n.degrees * 54600000 + n.grains = w * 9100 + x /\ n.grains < 54600000
    BY <1>1, <1>5, UnitsAre, SMT
  <2> DEFINE v == w - 6000 * n.degrees
  <2>2. v \in Int /\ v >= 0 /\ v < 6000 /\ w = 6000 * n.degrees + v /\ n.grains = v * 9100 + x
    BY <1>3, <1>4, <2>1, SMT
  <2> HIDE DEF v
  <2>3. v \in Nat /\ n.grains = v * Hundredth + x
    BY <2>2, UnitsAre, SMT
  <2> QED BY <2>2, <2>3
<1>7. Centred(v, a)
  <2>1. PICK k \in Nat : k = n.degrees
    BY <1>4
  <2> QED BY <1>2, <1>6, <2>1, CentredModulo, SMT
<1>8. x < Hundredth
  BY <1>3, UnitsAre, SMT
<1>9. /\ Scaled(n, TRUE) \div 100 = v /\ Scaled(n, TRUE) % 100 = Rounded(x, 91)
      /\ \/ Scaled(n, FALSE) \div 100 = v
         \/ x # 0 /\ Scaled(n, FALSE) \div 100 = v + 1
  <2>1. ScaledAre(n, v, x)
    BY <1>1, <1>3, <1>6, <1>8, ScaledIs
  <2>2. IsRest(x)
    BY <1>3, SMT DEF IsRest
  <2> QED BY <2>1, <2>2, Zenon DEF ScaledAre
<1>0. dao \in BOOLEAN
  BY DEF SaysDao
<1>10. Mid(Scaled(n, dao) \div 100, a) = v
  <2>1. Mid(v, a) = v /\ (a # 0 => Mid(v + 1, a) = v)
    BY <1>6, <1>7, MidIs
  <2>2. CASE dao
    BY <1>9, <2>1, <2>2
  <2>3. CASE ~ dao
    <3>1. dao = FALSE
      BY <1>0, <2>3
    <3>2. a = 0 => x = 0
      <4>1. a = 0 => datum = "none"
        BY <2>3 DEF SaysDao
      <4> QED BY <4>1 DEF DaoRest
    <3> QED BY <1>9, <2>1, <3>1, <3>2
  <2> QED BY <2>2, <2>3
<1> DEFINE d == [degrees |-> n.degrees, negative |-> n.negative /\ Size(n) # 0,
                 grains |-> Hundredth * Mid(Scaled(n, dao) \div 100, a)]
<1>11. t \in AngleText /\ TrailingBlanks(t.digits) = a /\ Coordinate(t, limit, a) = {d}
  <2>1. n.degrees <= limit /\ t = EncodedCoordinate(n, a, dao)
    BY DEF n
  <2>2. ComesBack(n, a, dao, limit, t)
    BY <1>0, <1>1, <2>1, CoordinateBack
  <2> QED BY <2>2 DEF ComesBack
<1>12. d.degrees = n.degrees /\ d.negative = (n.negative /\ Size(n) # 0) /\ d.grains = v * Hundredth
  <2>1. Hundredth * v = v * Hundredth
    BY UnitsAre, SMT
  <2> QED BY <1>10, <2>1
<1>13. IsWhole(d, a, v)
  <2>1. v * Hundredth \in Nat
    BY UnitsAre, SMT
  <2>2. d = [degrees |-> n.degrees, negative |-> n.negative /\ Size(n) # 0, grains |-> v * Hundredth]
    BY <1>12
  <2>3. (n.negative /\ Size(n) # 0) \in BOOLEAN
    OBVIOUS
  <2>4. d \in Angle
    BY <1>4, <2>1, <2>2, <2>3 DEF Angle
  <2> QED BY <1>7, <1>12, <2>4 DEF IsWhole
<1>14. Size(d) = w * Hundredth
  <2>1. Size(d) = n.degrees * Degree + v * Hundredth
    BY <1>12 DEF Size
  <2> HIDE DEF d
  <2> QED BY <1>4, <1>6, <2>1, UnitsAre, SMT
<1>15. d.negative = (c.negative /\ Size(c) # 0)
  BY <1>1, <1>12
<1> HIDE DEF d
<1>16. StepsTo(c, a, datum, dao, limit, t, d, v, w, x)
  BY <1>2, <1>9, <1>11, <1>13, <1>14, <1>15 DEF n, StepsTo
<1> QED BY <1>11, <1>16

\* The digit of DAO in base 91 gives its 91sts back, and a tenth of a hundredth nearly.
LEMMA DaoDigitIs ==
  ASSUME NEW datum \in Datum, datum # "none", NEW x \in DaoRest(datum), NEW y, y = 100 * DaoDigit(Rounded(x, 91))
  PROVE  /\ DaoDigit(Rounded(x, 91)) \in 0 .. 90
         /\ datum = "base91" => y = x
         /\ y \in Int /\ y - x <= 100 /\ x - y <= 100 /\ (x = 0 => y = 0)
<1>1. CASE datum = "base91"
  <2>1. PICK b \in 0 .. 90 : x = 100 * b
    BY <1>1 DEF DaoRest
  <2>2. PICK n \in Int : n = Rounded(x, 91) /\ n * 182 <= 200 * b + 91 /\ 200 * b + 91 < n * 182 + 182
    <3>1. Rounded(x, 91) = (200 * b + 91) \div 182
      BY <2>1, SMT DEF Rounded
    <3> QED BY <3>1, DivBounds, SMT
  <2>3. b * 22 <= 20 * n + 11 /\ 20 * n + 11 < b * 22 + 22
    BY <2>2, SMT
  <2>4. (20 * n + 11) \div 22 = b
    BY <2>3, DivIs, SMT
  <2>5. DaoDigit(Rounded(x, 91)) = b
    BY <2>2, <2>4 DEF DaoDigit
  <2> QED BY <2>1, <2>5, SMT
<1>2. CASE datum = "decimal"
  <2>1. PICK b \in 0 .. 9 : x = 910 * b
    BY <1>2 DEF DaoRest
  <2>2. Rounded(x, 91) = 10 * b
    <3>1. Rounded(x, 91) = (1820 * b + 91) \div 182
      BY <2>1, SMT DEF Rounded
    <3>2. (1820 * b + 91) \div 182 = 10 * b
      BY DivIs, SMT
    <3> QED BY <3>1, <3>2
  <2>3. PICK k \in Int : k = (200 * b + 11) \div 22 /\ k * 22 <= 200 * b + 11 /\ 200 * b + 11 < k * 22 + 22
    BY DivBounds, SMT
  <2>4. DaoDigit(Rounded(x, 91)) = k
    <3>1. 20 * (10 * b) + 11 = 200 * b + 11
      BY SMT
    <3> QED BY <2>2, <2>3, <3>1 DEF DaoDigit
  <2> QED BY <1>2, <2>1, <2>3, <2>4, SMT
<1> QED BY <1>1, <1>2 DEF Datum

-----------------------------------------------------------------------------
(* Reports with degrees and minutes.                                       *)

Surveyed(r) ==
  /\ r.form # "compressed" /\ r.ambiguity \in 0 .. 4 /\ r.datum \in Datum
  /\ IsGood(r.lat, r.ambiguity, r.datum) /\ IsGood(r.lon, r.ambiguity, r.datum)
  /\ HasExtensions(r) /\ r.course \subseteq Nat
  /\ r.datum = "none" => NoDao(r.comment)

\* The fields of a report.
LEMMA RepIs ==
  ASSUME NEW t, NEW lat, NEW lon, NEW a, NEW course, NEW speed, NEW altitude, NEW datum, NEW comment,
         NEW r, r = Rep(t, lat, lon, a, course, speed, altitude, datum, comment)
  PROVE  /\ r.form = t.form /\ r.table = t.table /\ r.code = t.code /\ r.lat = lat /\ r.lon = lon
         /\ r.ambiguity = a /\ r.course = course /\ r.speed = speed /\ r.altitude = altitude
         /\ r.datum = datum /\ r.comment = comment
BY DEF Rep

\* An uncompressed text with two coordinates is read as one report.
ReadAs(t, c, d, a, datum, g, h, course, speed, altitude, comment) ==
  /\ Said(t, t.rest, datum, g, h, course, speed, altitude, comment)
  /\ ParsePosition(t)
       = {Rep(t, Moved(c, g), Moved(d, h), a, course, speed, altitude, datum, comment)}

\* An uncompressed text whose coordinates are accepted is read as one report.
LEMMA ParsedAs ==
  ASSUME NEW t, t.form = "uncompressed", t.rest \in Seq(Extension),
         NEW a, a = TrailingBlanks(t.lat.digits),
         NEW c \in Angle, Coordinate(t.lat, 89, a) = {c}, NEW d \in Angle, Coordinate(t.lon, 179, a) = {d}
  PROVE  \E datum, g, h, course, speed, altitude, comment :
           ReadAs(t, c, d, a, datum, g, h, course, speed, altitude, comment)
<1>1. ParsePosition(t) = ParseUncompressed(t)
  BY DEF ParsePosition
<1> DEFINE none == {}
           u == WithComment(NewReport(t, c, d, a, none, none), t.rest)
<1>2. IsOption(none) /\ none \subseteq Nat
  BY DEF IsOption
<1>3. ParseUncompressed(t) = {u}
  <2> DEFINE A == Coordinate(t.lat, 89, TrailingBlanks(t.lat.digits))
             B == Coordinate(t.lon, 179, TrailingBlanks(t.lat.digits))
             F(x, y) == WithComment(NewReport(t, x, y, TrailingBlanks(t.lat.digits), none, none), t.rest)
  <2>1. ParseUncompressed(t) = {F(lat, lon) : lat \in A, lon \in B}
    BY DEF ParseUncompressed
  <2>2. A = {c} /\ B = {d}
    OBVIOUS
  <2>3. F(c, d) = u
    OBVIOUS
  <2> HIDE DEF A, B, F, u, none
  <2> QED BY <2>1, <2>2, <2>3
<1> HIDE DEF none
<1>4. u = WithComment(NewReport(t, c, d, a, none, none), t.rest)
  OBVIOUS
<1> HIDE DEF u
<1>5. PICK datum, g, h, course, speed, altitude, comment :
        Commented(t, t.rest, c, d, a, u, datum, g, h, course, speed, altitude, comment)
  BY <1>2, <1>4, CommentIs
<1>6. ReadAs(t, c, d, a, datum, g, h, course, speed, altitude, comment)
  BY <1>1, <1>3, <1>5 DEF ReadAs, Commented
<1> QED BY <1>6

\* A report of whole hundredths and DAO is one that can be sent on.
LEMMA ReadIsSurveyed ==
  ASSUME NEW t, t.form # "compressed", NEW c, NEW d, NEW a \in 0 .. 4, NEW v, NEW w, IsWhole(c, a, v), IsWhole(d, a, w),
         NEW datum \in Datum, NEW g \in DaoRest(datum), NEW h \in DaoRest(datum),
         NEW course, NEW speed, NEW altitude, NEW comment \in Seq(Extension),
         IsOption(course), IsOption(speed), IsOption(altitude), course \subseteq Nat,
         altitude \subseteq SevenPlaces, datum = "none" => NoDao(comment)
  PROVE  Surveyed(Rep(t, Moved(c, g), Moved(d, h), a, course, speed, altitude, datum, comment))
<1> DEFINE r == Rep(t, Moved(c, g), Moved(d, h), a, course, speed, altitude, datum, comment)
<1>1. /\ r.form = t.form /\ r.lat = Moved(c, g) /\ r.lon = Moved(d, h)
      /\ r.ambiguity = a /\ r.course = course /\ r.speed = speed /\ r.altitude = altitude
      /\ r.datum = datum /\ r.comment = comment
  BY RepIs
<1>2. IsGood(Moved(c, g), a, datum) /\ IsGood(Moved(d, h), a, datum)
  BY MovedIs
<1> HIDE DEF r
<1>3. HasExtensions(r)
  BY <1>1 DEF HasExtensions
<1>4. Surveyed(r)
  BY <1>1, <1>2, <1>3 DEF Surveyed
<1> QED BY <1>4 DEF r

\* Whatever the text, the report is of that kind.
LEMMA UncompressedIsSurveyed ==
  ASSUME NEW t, t.form = "uncompressed", t.rest \in Seq(Extension),
         t.lat \in AngleText, t.lon \in AngleText, ParsePosition(t) # {}
  PROVE  \E r : ParsePosition(t) = {r} /\ Surveyed(r) /\ r.form = t.form
<1> DEFINE a == TrailingBlanks(t.lat.digits)
<1>1. a \in 0 .. 4
  <2>1. PICK n \in Nat : n = 4
    OBVIOUS
  <2> DEFINE D == 0 .. 9 \cup {Blank}
             f == t.lat.digits
  <2>2. f \in [1 .. n -> D]
    BY <2>1 DEF AngleText
  <2> HIDE DEF D, f
  <2>3. Len(f) = n
    BY <2>2, TupleIs
  <2>4. TrailingBlanks(f) \in 0 .. Len(f)
    BY <2>1, <2>3, BlanksOf
  <2> QED BY <2>1, <2>3, <2>4 DEF f
<1>2. Coordinate(t.lat, 89, a) # {} /\ Coordinate(t.lon, 179, a) # {}
  <2>1. ParsePosition(t) = ParseUncompressed(t)
    BY DEF ParsePosition
  <2> QED BY <2>1 DEF ParseUncompressed
<1> HIDE DEF a
<1>3. PICK c, v : Coordinate(t.lat, 89, a) = {c} /\ IsWhole(c, a, v)
  <2>1. PICK limit : limit = 89
    OBVIOUS
  <2>2. Coordinate(t.lat, limit, a) # {}
    BY <1>2, <2>1
  <2>3. \E c, v : Coordinate(t.lat, limit, a) = {c} /\ IsWhole(c, a, v)
    BY <1>1, <2>2, CoordinateOf
  <2> QED BY <2>1, <2>3
<1>4. PICK d, w : Coordinate(t.lon, 179, a) = {d} /\ IsWhole(d, a, w)
  <2>1. PICK limit : limit = 179
    OBVIOUS
  <2>2. Coordinate(t.lon, limit, a) # {}
    BY <1>2, <2>1
  <2>3. \E e, u : Coordinate(t.lon, limit, a) = {e} /\ IsWhole(e, a, u)
    BY <1>1, <2>2, CoordinateOf
  <2> QED BY <2>1, <2>3
<1>5. c \in Angle /\ d \in Angle
  BY <1>3, <1>4 DEF IsWhole
<1>6. PICK datum, g, h, course, speed, altitude, comment :
        ReadAs(t, c, d, a, datum, g, h, course, speed, altitude, comment)
  BY <1>3, <1>4, <1>5, ParsedAs DEF a
<1> DEFINE r == Rep(t, Moved(c, g), Moved(d, h), a, course, speed, altitude, datum, comment)
<1>7. ParsePosition(t) = {r}
  BY <1>6 DEF ReadAs
<1>8. Surveyed(r)
  <2>1. /\ comment \in Seq(Extension) /\ datum \in Datum
        /\ g \in DaoRest(datum) /\ h \in DaoRest(datum)
        /\ IsOption(course) /\ IsOption(speed) /\ IsOption(altitude)
        /\ course \subseteq Nat /\ altitude \subseteq SevenPlaces
        /\ datum = "none" => NoDao(comment)
    BY <1>6 DEF ReadAs, Said
  <2> QED BY <1>1, <1>3, <1>4, <2>1, ReadIsSurveyed
<1>9. r.form = t.form
  BY RepIs
<1> QED BY <1>7, <1>8, <1>9

\* The text that encode_position makes.
DaoText(p, dao) ==
  IF dao
  THEN <<Dao("base91", DaoDigit(Scaled(Normal(p.lat), TRUE) % 100),
                       DaoDigit(Scaled(Normal(p.lon), TRUE) % 100))>>
  ELSE <<>>

\* The parts of an uncompressed text.
LEMMA UncompressedIs ==
  ASSUME NEW p, NEW t, t = Uncompressed(p), NEW dao \in BOOLEAN, dao <=> p.dao /\ p.ambiguity = 0
  PROVE  /\ t.form = "uncompressed" /\ t.table = p.table /\ t.code = p.code
         /\ t.lat = EncodedCoordinate(Normal(p.lat), p.ambiguity, dao)
         /\ t.lon = EncodedCoordinate(Normal(p.lon), p.ambiguity, dao)
         /\ t.rest = MotionText(p) \o AltitudeAndComment(p) \o DaoText(p, dao)
<1> DEFINE q == p.dao /\ p.ambiguity = 0
<1>1. Uncompressed(p) =
        [form |-> "uncompressed", table |-> p.table, code |-> p.code,
         lat |-> EncodedCoordinate(Normal(p.lat), p.ambiguity, q),
         lon |-> EncodedCoordinate(Normal(p.lon), p.ambiguity, q),
         rest |-> MotionText(p) \o AltitudeAndComment(p) \o DaoText(p, q)]
  BY DEF Uncompressed, MotionText, DaoText
<1>2. q = dao
  BY DEF q
<1> HIDE DEF q
<1> QED BY <1>1, <1>2

\* Its comment ends in the DAO that frap adds, or has none.
LEMMA RestIs ==
  ASSUME NEW p, HasExtensions(p), NEW dao \in BOOLEAN,
         NEW b, b = DaoDigit(Scaled(Normal(p.lat), TRUE) % 100),
         NEW l, l = DaoDigit(Scaled(Normal(p.lon), TRUE) % 100),
         dao => b \in 0 .. 90 /\ l \in 0 .. 90,
         NEW rest, rest = MotionText(p) \o AltitudeAndComment(p) \o DaoText(p, dao)
  PROVE  /\ rest \in Seq(Extension)
         /\ dao => EndsIn(rest, Dao("base91", b, l))
         /\ ~ dao /\ NoDao(p.comment) => NoDao(rest)
<1> DEFINE m == MotionText(p)
           e == AltitudeAndComment(p)
           u == m \o e
<1>1. m \in Seq(Extension) /\ NoDao(m) /\ e \in Seq(Extension) /\ (NoDao(p.comment) => NoDao(e))
  BY MotionTextIs, AltitudeAndCommentIs
<1>2. u \in Seq(Extension) /\ (NoDao(p.comment) => NoDao(u))
  <2> HIDE DEF m, e
  <2> QED BY <1>1, Joined
<1>3. rest = u \o DaoText(p, dao)
  OBVIOUS
<1> HIDE DEF u
<1>4. CASE ~ dao
  <2>1. DaoText(p, dao) = <<>>
    BY <1>4 DEF DaoText
  <2>2. rest = u
    BY <1>2, <1>3, <2>1, ConcatEmptySeq
  <2> QED BY <1>2, <1>4, <2>2
<1>5. CASE dao
  <2> DEFINE x == Dao("base91", b, l)
  <2>1. x \in Extension
    <3>1. x \in [kind : {"dao"}, datum : {"base91"}, lat : 0 .. 90, lon : 0 .. 90]
      BY <1>5 DEF Dao
    <3> HIDE DEF x
    <3> QED BY <3>1 DEF Extension
  <2>2. rest = u \o <<x>>
    BY <1>3, <1>5 DEF DaoText
  <2> HIDE DEF x
  <2>3. /\ u \o <<x>> \in Seq(Extension) /\ Len(u \o <<x>>) = Len(u) + 1
        /\ (u \o <<x>>)[Len(u) + 1] = x
    <3>1. <<x>> \in Seq(Extension) /\ Len(<<x>>) = 1 /\ <<x>>[1] = x
      BY <2>1
    <3>2. Len(u) \in Nat
      BY <1>2, LenProperties
    <3> DEFINE y == <<x>>
    <3>3. y \in Seq(Extension) /\ Len(y) = 1 /\ y[1] = x
      BY <3>1
    <3> HIDE DEF y
    <3>4. /\ u \o y \in Seq(Extension) /\ Len(u \o y) = Len(u) + Len(y)
          /\ \A i \in 1 .. Len(u) + Len(y) : (u \o y)[i] = IF i <= Len(u) THEN u[i] ELSE y[i - Len(u)]
      BY <1>2, <3>3, ConcatProperties
    <3>5. Len(u) + 1 \in 1 .. Len(u) + Len(y) /\ ~ Len(u) + 1 <= Len(u) /\ Len(u) + 1 - Len(u) = 1
      BY <3>2, <3>3, SMT
    <3>6. (u \o y)[Len(u) + 1] = y[Len(u) + 1 - Len(u)]
      BY <3>4, <3>5
    <3> QED BY <3>3, <3>4, <3>5, <3>6 DEF y
  <2>4. Len(u) \in Nat
    BY <1>2, LenProperties
  <2>5. EndsIn(rest, x)
    BY <2>2, <2>3, <2>4, SMT DEF EndsIn
  <2> QED BY <1>5, <2>2, <2>3, <2>5 DEF x
<1> QED BY <1>4, <1>5

-----------------------------------------------------------------------------
(* Reports that are sent on.                                               *)

\* Coordinates whose sizes are near are within that distance, unless they are in
\* different hemispheres.
LEMMA WithinIs ==
  ASSUME NEW c \in Angle, NEW d \in Angle, NEW m \in Nat, m < Degree,
         Size(c) - Size(d) <= m, Size(d) - Size(c) <= m,
         c.negative = d.negative \/ Size(c) = 0 \/ Size(d) = 0
  PROVE  IsWithin(d, c, m)
<1> DEFINE p == Normal(d)
           q == Normal(c)
<1>1. /\ p \in Angle /\ p.negative = d.negative /\ p.grains < Degree /\ Size(p) = Size(d)
      /\ q \in Angle /\ q.negative = c.negative /\ q.grains < Degree /\ Size(q) = Size(c)
  BY NormalIs
<1>2. IsWithin(d, c, m) =
        IF p.negative = q.negative
        THEN /\ p.degrees - q.degrees \in -1 .. 1
             /\ (p.degrees - q.degrees) * Degree + p.grains - q.grains \in -m .. m
        ELSE p.degrees = 0 /\ q.degrees = 0 /\ p.grains + q.grains <= m
  BY DEF IsWithin
<1> HIDE DEF p, q
<1>3. /\ p.degrees \in Nat /\ p.grains \in Nat /\ q.degrees \in Nat /\ q.grains \in Nat
  BY <1>1 DEF Angle
<1>4. /\ Size(d) = p.degrees * Degree + p.grains /\ Size(c) = q.degrees * Degree + q.grains
  BY <1>1 DEF Size
<1>5. PICK k \in Nat : k = Degree
  BY UnitsAre
<1>6. CASE p.negative = q.negative
  <2>1. p.degrees - q.degrees \in -1 .. 1
    <3>1. (p.degrees - q.degrees) * 54600000 + p.grains - q.grains <= m
          /\ (q.degrees - p.degrees) * 54600000 + q.grains - p.grains <= m
      BY <1>3, <1>4, UnitsAre, SMT
    <3> QED BY <1>1, <1>3, <3>1, UnitsAre, SMT
  <2>2. (p.degrees - q.degrees) * Degree + p.grains - q.grains \in -m .. m
    BY <1>3, <1>4, UnitsAre, SMT
  <2> QED BY <1>2, <1>6, <2>1, <2>2
<1>7. CASE p.negative # q.negative
  <2>1. Size(c) = 0 \/ Size(d) = 0
    BY <1>1, <1>7
  <2>2. PICK x, y \in Int : x = Size(c) /\ y = Size(d) /\ x >= 0 /\ y >= 0
    <3>1. Size(c) \in Nat /\ Size(d) \in Nat
      BY <1>3, <1>4, UnitsAre, SMT
    <3> QED BY <3>1, SMT
  <2>3. x + y <= m
    BY <2>1, <2>2, SMT
  <2>4. p.degrees * 54600000 + p.grains + q.degrees * 54600000 + q.grains <= m /\ m < 54600000
    BY <1>3, <1>4, <2>2, <2>3, UnitsAre, SMT
  <2>5. p.degrees = 0 /\ q.degrees = 0 /\ p.grains + q.grains <= m
    BY <1>3, <2>4, SMT
  <2> QED BY <1>2, <1>7, <2>5
<1> QED BY <1>6, <1>7

\* The hundredths of a coordinate, and what is left of it.
Parts(c, w, x) == w \in Nat /\ x \in Nat /\ x < Hundredth /\ Size(c) = w * Hundredth + x

\* They are unique.
LEMMA PartsAre ==
  ASSUME NEW c, NEW w, NEW x, Parts(c, w, x), NEW v, NEW y, Parts(c, v, y)
  PROVE  w = v /\ x = y
<1>1. /\ w \in Nat /\ x \in Nat /\ x < 9100 /\ v \in Nat /\ y \in Nat /\ y < 9100
      /\ w * 9100 + x = v * 9100 + y
  BY UnitsAre, SMT DEF Parts
<1> QED BY <1>1, SMT

\* Whether DAO is sent on as it is: not behind an ambiguous position, nor behind the
\* symbol of a weather report.
SendsDao(r) == r.ambiguity = 0 /\ ~ IsWeather(r)

\* What the coordinates of a report and of the one that is made of it have in common.
AxisStep(c, d, r, s) ==
  \E w, x, y :
    /\ Parts(c, w, x) /\ x \in DaoRest(r.datum) /\ Parts(d, w, y) /\ y \in DaoRest(s.datum)
    /\ d.negative = (c.negative /\ Size(c) # 0)
    /\ Size(c) = 0 => Size(d) = 0
    /\ r.datum # "none" /\ SendsDao(r) =>
         /\ s.datum = "base91" /\ y - x <= 100 /\ x - y <= 100
         /\ r.datum = "base91" => y = x

RelayStep(r, s) ==
  /\ Surveyed(s) /\ s.form = "uncompressed" /\ s.table = r.table /\ s.code = r.code
  /\ s.ambiguity = r.ambiguity
  /\ r.datum = "none" => s.datum = "none"
  /\ AxisStep(r.lat, s.lat, r, s) /\ AxisStep(r.lon, s.lon, r, s)

\* The degrees of a coordinate that encode_position accepts.
LEMMA EncodableIs ==
  ASSUME NEW c \in Angle, NEW limit \in Nat, IsEncodable(c, limit)
  PROVE  Normal(c).degrees <= limit
<1>1. Normal(c).degrees \in Nat
  BY NormalIs DEF Angle
<1>2. Normal(c).degrees < limit \/ Normal(c).degrees = limit
  BY DEF IsEncodable
<1> QED BY <1>1, <1>2, SMT

\* The axis of a report that is sent on.
LEMMA AxisStepIs ==
  ASSUME NEW r, NEW s, NEW c, NEW d, NEW a \in 0 .. 4, r.datum \in Datum, s.datum \in Datum, a = r.ambiguity,
         NEW dao, SaysDao(dao, r.datum, a), NEW limit, NEW t, NEW v, NEW w, NEW x,
         StepsTo(c, a, r.datum, dao, limit, t, d, v, w, x),
         NEW g \in DaoRest(s.datum),
         r.datum = "none" => s.datum = "none", IsWeather(r) => s.datum = "none",
         dao /\ ~ IsWeather(r) => s.datum = "base91" /\ g = 100 * DaoDigit(Scaled(Normal(c), TRUE) % 100)
  PROVE  AxisStep(c, Moved(d, g), r, s)
<1> DEFINE e == Moved(d, g)
<1>1. /\ w \in Nat /\ x \in DaoRest(r.datum) /\ IsWhole(d, a, v)
      /\ Size(c) = w * Hundredth + x /\ Size(d) = w * Hundredth /\ Centred(w, a)
      /\ d.negative = (c.negative /\ Size(c) # 0)
      /\ dao => Scaled(Normal(c), TRUE) % 100 = Rounded(x, 91)
  BY DEF StepsTo
<1>2. /\ x \in Nat /\ x <= 9000 /\ g \in Nat /\ g <= 9000
  BY <1>1, DaoRestBounds
<1>3. e.negative = d.negative /\ Size(e) = w * Hundredth + g
  BY <1>1, MovedIs
<1> HIDE DEF e
<1>4. x < Hundredth /\ g < Hundredth
  BY <1>2, UnitsAre, SMT
<1>5. Parts(c, w, x) /\ Parts(e, w, g)
  BY <1>1, <1>2, <1>3, <1>4 DEF Parts
<1>6. r.datum = "none" => x = 0
  BY <1>1 DEF DaoRest
<1>7. s.datum = "none" => g = 0
  BY DEF DaoRest
<1>8. r.datum # "none" /\ a = 0 => dao
  BY DEF SaysDao
<1>9. r.datum # "none" /\ SendsDao(r) =>
         /\ s.datum = "base91" /\ g - x <= 100 /\ x - g <= 100 /\ (x = 0 => g = 0)
         /\ r.datum = "base91" => g = x
  <2> SUFFICES ASSUME r.datum # "none", SendsDao(r)
               PROVE  /\ s.datum = "base91" /\ g - x <= 100 /\ x - g <= 100 /\ (x = 0 => g = 0)
                      /\ r.datum = "base91" => g = x
    OBVIOUS
  <2>1. dao /\ ~ IsWeather(r)
    BY <1>8 DEF SendsDao
  <2>2. s.datum = "base91" /\ g = 100 * DaoDigit(Rounded(x, 91))
    BY <1>1, <2>1
  <2> QED BY <1>1, <2>2, DaoDigitIs
<1>10. Size(c) = 0 => Size(e) = 0
  <2> SUFFICES ASSUME Size(c) = 0 PROVE Size(e) = 0
    OBVIOUS
  <2>1. w = 0 /\ x = 0
    BY <1>1, <1>2, UnitsAre, SMT
  <2>2. a = 0
    <3>1. Centred(0, a)
      BY <1>1, <2>1
    <3> QED BY <3>1, SMT DEF Centred
  <2>3. g = 0
    <3>1. CASE r.datum = "none" \/ IsWeather(r)
      BY <1>7, <3>1
    <3>2. CASE r.datum # "none" /\ ~ IsWeather(r)
      BY <1>9, <2>1, <2>2, <3>2 DEF SendsDao
    <3> QED BY <3>1, <3>2
  <2> QED BY <1>3, <2>1, <2>3, UnitsAre, SMT
<1>11. AxisStep(c, e, r, s)
  BY <1>1, <1>3, <1>5, <1>9, <1>10 DEF AxisStep
<1> QED BY <1>11 DEF e

\* What is sent on uncompressed is parsed, as one report.
Relayed(t, r, s) == ParsePosition(t) = {s} /\ RelayStep(r, s)

\* What encode_position makes of a surveyed report is parsed, one step on.
LEMMA RelayIs ==
  ASSUME NEW r, Surveyed(r), NEW t, t \in EncodePosition(AsReceived(r))
  PROVE  \E s : Relayed(t, r, s)
<1> DEFINE q == AsReceived(r)
           a == r.ambiguity
<1>1. /\ r.form # "compressed" /\ a \in 0 .. 4 /\ r.datum \in Datum
      /\ IsGood(r.lat, a, r.datum) /\ IsGood(r.lon, a, r.datum)
      /\ HasExtensions(r) /\ (r.datum = "none" => NoDao(r.comment))
  BY DEF Surveyed
<1>2. /\ q.lat = r.lat /\ q.lon = r.lon /\ q.ambiguity = a /\ q.dao = (r.datum # "none")
      /\ q.compressed = (r.form = "compressed") /\ q.course = r.course /\ q.speed = r.speed
      /\ q.altitude = r.altitude /\ q.table = r.table /\ q.code = r.code /\ q.comment = r.comment
  BY DEF AsReceived
<1>3. ~ q.compressed
  BY <1>1, <1>2
<1>4. HasExtensions(q)
  BY <1>1, <1>2 DEF HasExtensions
<1>5. PICK dao \in BOOLEAN : dao <=> q.dao /\ q.ambiguity = 0
  OBVIOUS
<1>6. SaysDao(dao, r.datum, a)
  BY <1>2, <1>5 DEF SaysDao
<1> HIDE DEF q
<1>7. t = Uncompressed(q) /\ IsEncodable(q.lat, 89) /\ IsEncodable(q.lon, 179)
  <2>1. EncodePosition(q) =
          IF IsEncodable(q.lat, 89) /\ IsEncodable(q.lon, 179) /\ q.ambiguity <= 4
          THEN {Uncompressed(q)}
          ELSE {}
    BY <1>3 DEF EncodePosition
  <2>2. t \in EncodePosition(q)
    BY DEF q
  <2> QED BY <2>1, <2>2
<1>70. /\ t.form = "uncompressed" /\ t.table = q.table /\ t.code = q.code
       /\ t.lat = EncodedCoordinate(Normal(q.lat), q.ambiguity, dao)
       /\ t.lon = EncodedCoordinate(Normal(q.lon), q.ambiguity, dao)
       /\ t.rest = MotionText(q) \o AltitudeAndComment(q) \o DaoText(q, dao)
  <2>1. t = Uncompressed(q)
    BY <1>7
  <2> QED BY <1>5, <2>1, UncompressedIs
<1>8. r.lat \in Angle /\ r.lon \in Angle
  BY <1>1 DEF IsGood
<1>9. PICK c0, v, w, x : /\ t.lat \in AngleText /\ TrailingBlanks(t.lat.digits) = a
                         /\ StepsTo(r.lat, a, r.datum, dao, 89, t.lat, c0, v, w, x)
  <2>1. PICK limit \in Nat : limit = 89
    OBVIOUS
  <2>2. Normal(r.lat).degrees <= limit
    BY <1>2, <1>7, <1>8, <2>1, EncodableIs
  <2>3. t.lat = EncodedCoordinate(Normal(r.lat), a, dao)
    BY <1>2, <1>70
  <2> QED BY <1>1, <1>6, <2>1, <2>2, <2>3, CoordinateStep
<1>10. PICK d0, v2, w2, x2 : /\ t.lon \in AngleText /\ TrailingBlanks(t.lon.digits) = a
                             /\ StepsTo(r.lon, a, r.datum, dao, 179, t.lon, d0, v2, w2, x2)
  <2>1. PICK limit \in Nat : limit = 179
    OBVIOUS
  <2>2. Normal(r.lon).degrees <= limit
    BY <1>2, <1>7, <1>8, <2>1, EncodableIs
  <2>3. t.lon = EncodedCoordinate(Normal(r.lon), a, dao)
    BY <1>2, <1>70
  <2> QED BY <1>1, <1>6, <2>1, <2>2, <2>3, CoordinateStep
<1> DEFINE b == DaoDigit(Scaled(Normal(r.lat), TRUE) % 100)
           l == DaoDigit(Scaled(Normal(r.lon), TRUE) % 100)
<1>11. dao => b \in 0 .. 90 /\ l \in 0 .. 90
  <2> SUFFICES ASSUME dao PROVE b \in 0 .. 90 /\ l \in 0 .. 90
    OBVIOUS
  <2>1. r.datum # "none"
    BY <1>6 DEF SaysDao
  <2>2. /\ x \in DaoRest(r.datum) /\ Scaled(Normal(r.lat), TRUE) % 100 = Rounded(x, 91)
        /\ x2 \in DaoRest(r.datum) /\ Scaled(Normal(r.lon), TRUE) % 100 = Rounded(x2, 91)
    BY <1>9, <1>10 DEF StepsTo
  <2>3. DaoDigit(Rounded(x, 91)) \in 0 .. 90
    BY <1>1, <2>1, <2>2, DaoDigitIs
  <2>4. DaoDigit(Rounded(x2, 91)) \in 0 .. 90
    BY <1>1, <2>1, <2>2, DaoDigitIs
  <2> QED BY <2>2, <2>3, <2>4
<1>12. b = DaoDigit(Scaled(Normal(q.lat), TRUE) % 100) /\ l = DaoDigit(Scaled(Normal(q.lon), TRUE) % 100)
  BY <1>2
<1> HIDE DEF b, l
<1>13. /\ t.rest \in Seq(Extension)
       /\ dao => EndsIn(t.rest, Dao("base91", b, l))
       /\ ~ dao /\ NoDao(q.comment) => NoDao(t.rest)
  BY <1>4, <1>11, <1>12, <1>70, RestIs
<1>14. /\ Coordinate(t.lat, 89, a) = {c0} /\ IsWhole(c0, a, v)
       /\ Coordinate(t.lon, 179, a) = {d0} /\ IsWhole(d0, a, v2)
  BY <1>9, <1>10 DEF StepsTo
<1>15. c0 \in Angle /\ d0 \in Angle
  BY <1>14 DEF IsWhole
<1>16. PICK datum, g, h, course, speed, altitude, comment :
         ReadAs(t, c0, d0, a, datum, g, h, course, speed, altitude, comment)
  BY <1>9, <1>13, <1>14, <1>15, <1>70, ParsedAs
<1> DEFINE s == Rep(t, Moved(c0, g), Moved(d0, h), a, course, speed, altitude, datum, comment)
<1>17. ParsePosition(t) = {s} /\ Said(t, t.rest, datum, g, h, course, speed, altitude, comment)
  BY <1>16 DEF ReadAs
<1>18. /\ comment \in Seq(Extension) /\ datum \in Datum
       /\ g \in DaoRest(datum) /\ h \in DaoRest(datum)
       /\ IsOption(course) /\ IsOption(speed) /\ IsOption(altitude)
       /\ course \subseteq Nat /\ altitude \subseteq SevenPlaces
       /\ datum = "none" => NoDao(comment)
       /\ IsWeather(t) \/ NoDao(t.rest) => datum = "none"
       /\ ~ IsWeather(t) =>
            \A i, j \in 0 .. 90 :
              EndsIn(t.rest, Dao("base91", i, j)) => datum = "base91" /\ g = 100 * i /\ h = 100 * j
  BY <1>17 DEF Said
<1>19. /\ s.form = "uncompressed" /\ s.table = r.table /\ s.code = r.code
       /\ s.lat = Moved(c0, g) /\ s.lon = Moved(d0, h) /\ s.ambiguity = a /\ s.datum = datum
  BY <1>2, <1>70, RepIs
<1>20. Surveyed(s)
  <2>1. t.form # "compressed"
    BY <1>70
  <2> QED BY <1>1, <1>14, <1>18, <2>1, ReadIsSurveyed
<1> HIDE DEF s
<1>21. IsWeather(t) <=> IsWeather(r)
  <2>1. t.code = r.code
    BY <1>2, <1>70
  <2> QED BY <2>1 DEF IsWeather
<1>22. r.datum = "none" => datum = "none"
  <2> SUFFICES ASSUME r.datum = "none" PROVE datum = "none"
    OBVIOUS
  <2>1. ~ dao
    BY <1>6 DEF SaysDao
  <2>2. NoDao(t.rest)
    BY <1>1, <1>2, <1>13, <2>1
  <2> QED BY <1>18, <2>2
<1>23. IsWeather(r) => datum = "none"
  BY <1>18, <1>21
<1>24. dao /\ ~ IsWeather(r) => datum = "base91" /\ g = 100 * b /\ h = 100 * l
  BY <1>11, <1>13, <1>18, <1>21
<1>25. AxisStep(r.lat, Moved(c0, g), r, s)
  <2>1. dao /\ ~ IsWeather(r) => s.datum = "base91" /\ g = 100 * DaoDigit(Scaled(Normal(r.lat), TRUE) % 100)
    BY <1>19, <1>24 DEF b
  <2>2. PICK limit : limit = 89
    OBVIOUS
  <2>3. StepsTo(r.lat, a, r.datum, dao, limit, t.lat, c0, v, w, x)
    BY <1>9, <2>2
  <2>4. /\ s.datum \in Datum /\ g \in DaoRest(s.datum) /\ (r.datum = "none" => s.datum = "none")
        /\ (IsWeather(r) => s.datum = "none")
    BY <1>18, <1>19, <1>22, <1>23
  <2> HIDE DEF a
  <2> QED BY <1>1, <1>6, <2>1, <2>3, <2>4, AxisStepIs DEF a
<1>26. AxisStep(r.lon, Moved(d0, h), r, s)
  <2>1. dao /\ ~ IsWeather(r) => s.datum = "base91" /\ h = 100 * DaoDigit(Scaled(Normal(r.lon), TRUE) % 100)
    BY <1>19, <1>24 DEF l
  <2>2. PICK limit : limit = 179
    OBVIOUS
  <2>3. StepsTo(r.lon, a, r.datum, dao, limit, t.lon, d0, v2, w2, x2)
    BY <1>10, <2>2
  <2>4. /\ s.datum \in Datum /\ h \in DaoRest(s.datum) /\ (r.datum = "none" => s.datum = "none")
        /\ (IsWeather(r) => s.datum = "none")
    BY <1>18, <1>19, <1>22, <1>23
  <2> QED BY <1>1, <1>6, <2>1, <2>3, <2>4, AxisStepIs
<1>27. RelayStep(r, s)
  BY <1>19, <1>20, <1>22, <1>25, <1>26 DEF RelayStep
<1>28. Relayed(t, r, s)
  BY <1>17, <1>27 DEF Relayed
<1> QED BY <1>28

-----------------------------------------------------------------------------
(* Compressed reports.                                                     *)

\* A number that has four digits in base 91.
IsCell(n) == n \in Nat /\ n < 68574961

\* A number and its last digit.
LEMMA LastDigit ==
  ASSUME NEW n \in Nat
  PROVE  \E a, d \in Nat : n = 91 * a + d /\ d < 91
<1> DEFINE a == n \div 91
           d == n - 91 * a
<1>1. a \in Int /\ a * 91 <= n /\ n < a * 91 + 91
  BY SMT
<1> HIDE DEF a
<1>2. a \in Nat /\ d \in Nat /\ n = 91 * a + d /\ d < 91
  BY <1>1, SMT
<1> QED BY <1>2

\* The digits of a cell give it back.
LEMMA Base91Is ==
  ASSUME NEW n, IsCell(n)
  PROVE  /\ Base91(n) \in [1 .. 4 -> 0 .. 90]
         /\ Number91(Base91(n)) = n
<1>1. n \in Nat /\ n < 68574961
  BY DEF IsCell
<1>2. PICK a, d4 \in Nat : n = 91 * a + d4 /\ d4 < 91
  BY <1>1, LastDigit
<1>3. PICK b, d3 \in Nat : a = 91 * b + d3 /\ d3 < 91
  BY <1>2, LastDigit
<1>4. PICK c, d2 \in Nat : b = 91 * c + d2 /\ d2 < 91
  BY <1>3, LastDigit
<1>5. n = 753571 * c + 8281 * d2 + 91 * d3 + d4 /\ c < 91
  BY <1>1, <1>2, <1>3, <1>4, SMT
<1>6. n \div 753571 = c /\ n \div 8281 = b /\ n \div 91 = a /\ n \div 1 = n
  <2>1. c * 753571 <= n /\ n < c * 753571 + 753571
    BY <1>2, <1>3, <1>4, <1>5, SMT
  <2>2. b * 8281 <= n /\ n < b * 8281 + 8281
    BY <1>2, <1>3, <1>4, <1>5, SMT
  <2> QED BY <1>1, <1>2, <1>3, <1>4, <2>1, <2>2, SMT
<1>7. c % 91 = c /\ b % 91 = d2 /\ a % 91 = d3 /\ n % 91 = d4
  BY <1>2, <1>3, <1>4, <1>5, SMT
<1> DEFINE f == Base91(n)
<1>8. f = [i \in 1 .. 4 |-> (n \div <<753571, 8281, 91, 1>>[i]) % 91]
  BY DEF Base91
<1>9. f[1] = (n \div 753571) % 91 /\ f[2] = (n \div 8281) % 91 /\ f[3] = (n \div 91) % 91 /\ f[4] = (n \div 1) % 91
  BY <1>8, SMT
<1>10. f[1] = c /\ f[2] = d2 /\ f[3] = d3 /\ f[4] = d4
  BY <1>6, <1>7, <1>9
<1>11. \A i \in 1 .. 4 : f[i] \in 0 .. 90
  <2> TAKE i \in 1 .. 4
  <2>1. i = 1 \/ i = 2 \/ i = 3 \/ i = 4
    OBVIOUS
  <2> HIDE DEF f
  <2>2. f[1] \in 0 .. 90 /\ f[2] \in 0 .. 90 /\ f[3] \in 0 .. 90 /\ f[4] \in 0 .. 90
    BY <1>2, <1>3, <1>4, <1>5, <1>10, SMT
  <2> QED BY <2>1, <2>2
<1>12. DOMAIN f = 1 .. 4 /\ f = [i \in 1 .. 4 |-> f[i]]
  BY <1>8
<1> HIDE DEF f
<1>13. f \in [1 .. 4 -> 0 .. 90]
  BY <1>11, <1>12
<1>14. Number91(f) = n
  BY <1>5, <1>10 DEF Number91
<1> QED BY <1>13, <1>14 DEF f

\* A decoded compressed report; its coordinates lie at the edges of cells.
IsEdge(c) == c.cell \in Nat /\ c.exact = TRUE
IsBrace(r) == r.code = "}"
Gridded(r) ==
  /\ r.form = "compressed" /\ r.ambiguity = 0 /\ r.datum = "none" /\ ~ IsBrace(r)
  /\ IsEdge(r.lat) /\ IsEdge(r.lon)
  /\ HasExtensions(r) /\ NoDao(r.comment)

\* Compressed text is read as one report, or refused.
Restored(x) == IF x = "a" THEN "0" ELSE IF x = "b" THEN "1" ELSE x
CellText == [1 .. 4 -> {Blank91} \cup 0 .. 90]
IsFilled(t) == \A i \in 1 .. 4 : t.lat[i] # Blank91 /\ t.lon[i] # Blank91
IsPlainTable(x) == x # "0" /\ x # "1"
GridAs(t, s) ==
  /\ ParsePosition(t) = {s} /\ Gridded(s)
  /\ s.lat.cell = Number91(t.lat) /\ s.lon.cell = Number91(t.lon)
  /\ s.code = t.code /\ s.table = Restored(t.table)

\* A compressed text without gaps is read as one report, at the edge of a cell.
LEMMA GridIs ==
  ASSUME NEW t, t.form = "compressed", t.rest \in Seq(Extension), NoDao(t.rest),
         t.lat \in CellText, t.lon \in CellText, ~ IsBrace(t), IsPlainTable(t.table), IsFilled(t),
         t.course \in Int, t.speed \in Int
  PROVE  \E s : GridAs(t, s)
<1> DEFINE lat == [cell |-> Number91(t.lat), exact |-> TRUE]
           lon == [cell |-> Number91(t.lon), exact |-> TRUE]
           table == {x \in DOMAIN Overlay : Overlay[x] = t.table}
           X == IF table = {} THEN t.table ELSE CHOOSE x \in table : TRUE
           moves == t.course \in 0 .. 89 /\ t.speed >= 0
           course == IF moves THEN {IF t.course = 0 THEN 360 ELSE 4 * t.course} ELSE {}
           speed == IF moves THEN {t.speed} ELSE {}
           u == WithComment([NewReport(t, lat, lon, 0, course, speed) EXCEPT !.table = X], t.rest)
<1>1. ParsePosition(t) = ParseCompressed(t)
  BY DEF ParsePosition
<1>2. ~ (\/ t.table \in DOMAIN Overlay \/ t.code = "}"
         \/ \E i \in 1 .. 4 : Blank91 \in {t.lat[i], t.lon[i]})
  BY DEF IsBrace, IsPlainTable, IsFilled, Overlay
<1> DEFINE n == NewReport(t, lat, lon, 0, course, speed)
<1>3. ParseCompressed(t) = {u}
  <2> DEFINE bad == \/ t.table \in DOMAIN Overlay \/ t.code = "}"
                    \/ \E i \in 1 .. 4 : Blank91 \in {t.lat[i], t.lon[i]}
             Read(y) == {WithComment([n EXCEPT !.table = IF table = {} THEN y ELSE CHOOSE x \in table : TRUE],
                                     t.rest)}
             v == Read(n.table)
  <2>1. ParseCompressed(t) = IF bad THEN {} ELSE v
    BY DEF ParseCompressed
  <2>2. n.table = t.table
    BY DEF NewReport
  <2>3. ~ bad
    BY <1>2
  <2>4. v = {u}
    <3>1. Read(t.table) = {u}
      OBVIOUS
    <3> HIDE DEF Read, n, u
    <3>2. v = Read(t.table)
      BY <2>2
    <3> QED BY <3>1, <3>2
  <2> HIDE DEF bad, v, u, Read
  <2> QED BY <2>1, <2>3, <2>4
<1>4. X = Restored(t.table)
  <2>1. DOMAIN Overlay = {"0", "1"} /\ Overlay["0"] = "a" /\ Overlay["1"] = "b"
    BY DEF Overlay
  <2>2. CASE t.table = "a"
    <3>1. table = {"0"}
      BY <2>1, <2>2
    <3> QED BY <2>2, <3>1 DEF Restored
  <2>3. CASE t.table = "b"
    <3>1. table = {"1"}
      BY <2>1, <2>3
    <3> QED BY <2>3, <3>1 DEF Restored
  <2>4. CASE t.table # "a" /\ t.table # "b"
    <3>1. table = {}
      BY <2>1, <2>4
    <3> QED BY <2>4, <3>1 DEF Restored
  <2> QED BY <2>2, <2>3, <2>4
<1> DEFINE t2 == [form |-> t.form, table |-> X, code |-> t.code]
           zero == 0
<1>5. u = WithComment(NewReport(t2, lat, lon, zero, course, speed), t.rest)
  <2> DEFINE none == {}
             word == "none"
             void == <<>>
  <2>1. n = [form |-> t.form, table |-> t.table, code |-> t.code, lat |-> lat, lon |-> lon,
             ambiguity |-> zero, course |-> course, speed |-> speed,
             altitude |-> none, datum |-> word, comment |-> void]
    BY DEF NewReport
  <2>2. t2.form = t.form /\ t2.table = X /\ t2.code = t.code
    OBVIOUS
  <2>3. NewReport(t2, lat, lon, zero, course, speed) =
          [form |-> t2.form, table |-> t2.table, code |-> t2.code, lat |-> lat, lon |-> lon,
           ambiguity |-> zero, course |-> course, speed |-> speed,
           altitude |-> none, datum |-> word, comment |-> void]
    BY DEF NewReport
  <2>4. u = WithComment([n EXCEPT !.table = X], t.rest)
    OBVIOUS
  <2> HIDE DEF none, word, void, n, t2, X, lat, lon, course, speed, zero, u
  <2>5. [n EXCEPT !.table = X] = NewReport(t2, lat, lon, zero, course, speed)
    BY <2>1, <2>2, <2>3
  <2> QED BY <2>4, <2>5
<1>6. IsOption(course) /\ IsOption(speed) /\ course \subseteq Nat
  <2>0. \A q \in 0 .. 89 : (IF q = 0 THEN 360 ELSE 4 * q) \in Nat
    BY SMT
  <2>1. moves => (IF t.course = 0 THEN 360 ELSE 4 * t.course) \in Nat
    BY <2>0
  <2> QED BY <2>1 DEF IsOption
<1>7. IsEdge(lat) /\ IsEdge(lon) /\ lat.cell = Number91(t.lat) /\ lon.cell = Number91(t.lon)
  <2>1. \A f \in CellText : (\A i \in 1 .. 4 : f[i] # Blank91) => Number91(f) \in Nat
    <3> TAKE f \in CellText
    <3> HAVE \A i \in 1 .. 4 : f[i] # Blank91
    <3>1. 1 \in 1 .. 4 /\ 2 \in 1 .. 4 /\ 3 \in 1 .. 4 /\ 4 \in 1 .. 4
      BY SMT
    <3>2. f[1] \in 0 .. 90 /\ f[2] \in 0 .. 90 /\ f[3] \in 0 .. 90 /\ f[4] \in 0 .. 90
      BY <3>1 DEF CellText
    <3>3. Number91(f) = 753571 * f[1] + 8281 * f[2] + 91 * f[3] + f[4]
      BY SMT DEF Number91
    <3>4. PICK i, j, k, l \in Nat : i = f[1] /\ j = f[2] /\ k = f[3] /\ l = f[4]
      <4>1. f[1] \in Nat /\ f[2] \in Nat /\ f[3] \in Nat /\ f[4] \in Nat
        <5>1. \A x \in 0 .. 90 : x \in Nat
          BY SMT
        <5> QED BY <3>2, <5>1
      <4> QED BY <4>1
    <3>5. Number91(f) = 753571 * i + 8281 * j + 91 * k + l
      BY <3>3, <3>4, SMT
    <3> QED BY <3>5, SMT
  <2>2. Number91(t.lat) \in Nat /\ Number91(t.lon) \in Nat
    BY <2>1 DEF IsFilled
  <2> QED BY <2>2 DEF IsEdge
<1>8. t2.form = "compressed" /\ t2.table = Restored(t.table) /\ t2.code = t.code
  BY <1>4
<1> HIDE DEF t2, X, table, u, n, lat, lon, course, speed, zero
<1>9. PICK datum, g, h, course2, speed2, altitude, comment :
        Commented(t2, t.rest, lat, lon, zero, u, datum, g, h, course2, speed2, altitude, comment)
  BY <1>5, <1>6, CommentIs
<1>10. /\ Said(t2, t.rest, datum, g, h, course2, speed2, altitude, comment)
       /\ u = Rep(t2, Moved(lat, g), Moved(lon, h), zero, course2, speed2, altitude, datum, comment)
  BY <1>9 DEF Commented
<1>11. /\ comment \in Seq(Extension) /\ datum = "none" /\ g = 0 /\ h = 0 /\ NoDao(comment)
       /\ IsOption(course2) /\ IsOption(speed2) /\ IsOption(altitude)
       /\ altitude \subseteq SevenPlaces
  <2>1. datum = "none" /\ g \in DaoRest(datum) /\ h \in DaoRest(datum)
    BY <1>10 DEF Said
  <2>2. g = 0 /\ h = 0
    BY <2>1 DEF DaoRest
  <2> QED BY <1>10, <2>1, <2>2 DEF Said
<1>12. /\ u.form = t2.form /\ u.table = t2.table /\ u.code = t2.code /\ u.lat = Moved(lat, g)
       /\ u.lon = Moved(lon, h) /\ u.ambiguity = zero /\ u.course = course2 /\ u.speed = speed2
       /\ u.altitude = altitude /\ u.datum = datum /\ u.comment = comment
  BY <1>10, RepIs
<1>13. u.lat = lat /\ u.lon = lon
  BY <1>11, <1>12 DEF Moved
<1>14. Gridded(u)
  <2>1. u.ambiguity = 0
    BY <1>12 DEF zero
  <2>2. ~ IsBrace(u)
    BY <1>8, <1>12 DEF IsBrace
  <2>3. HasExtensions(u)
    BY <1>11, <1>12 DEF HasExtensions
  <2> QED BY <1>7, <1>8, <1>11, <1>12, <1>13, <2>1, <2>2, <2>3 DEF Gridded
<1>15. GridAs(t, u)
  BY <1>1, <1>3, <1>7, <1>8, <1>12, <1>13, <1>14 DEF GridAs
<1> QED BY <1>15

\* The cells that a coordinate may be written as are within the limits.
LEMMA CellsAre ==
  ASSUME NEW c, c.exact \in BOOLEAN, NEW cells \in Nat, cells > 1, NEW last \in Nat, IsEncodableCell(c, cells, last),
         NEW n \in Cells(c)
  PROVE  /\ n \in Nat /\ n <= last /\ c.cell \in Nat
         /\ n = c.cell \/ (c.exact /\ n = c.cell - 1)
<1>1. c.cell \in Nat /\ c.cell <= last /\ (c.exact => c.cell >= cells)
  <2>1. CASE c.exact
    <3>1. c.cell \in cells .. last
      BY <2>1 DEF IsEncodableCell
    <3> QED BY <3>1, SMT
  <2>2. CASE ~ c.exact
    <3>1. c.cell \in cells - 1 .. last
      BY <2>2 DEF IsEncodableCell
    <3> QED BY <2>2, <3>1, SMT
  <2> QED BY <2>1, <2>2
<1>2. n = c.cell \/ (c.exact /\ n = c.cell - 1)
  BY DEF Cells
<1> QED BY <1>1, <1>2, SMT

\* The compressed text that encode_position makes.
CompressedAs(p, t, lat, lon) ==
  /\ IsCell(lat) /\ IsCell(lon) /\ p.lat.cell \in Nat /\ p.lon.cell \in Nat
  /\ lat = p.lat.cell \/ (p.lat.exact /\ lat = p.lat.cell - 1)
  /\ lon = p.lon.cell \/ (p.lon.exact /\ lon = p.lon.cell - 1)
  /\ p.ambiguity = 0 /\ ~ p.dao
  /\ t.form = "compressed" /\ t.code = p.code
  /\ t.table = IF p.table = "0" THEN "a" ELSE IF p.table = "1" THEN "b" ELSE p.table
  /\ t.lat = Base91(lat) /\ t.lon = Base91(lon)
  /\ LET moves == HasMotion(p) /\ \E course \in p.course : course \in 1 .. 360
     IN  /\ t.course = IF moves THEN CompressedCourse(CHOOSE c \in p.course : TRUE) ELSE Blank91
         /\ t.speed = IF moves THEN Least(CHOOSE s \in p.speed : TRUE, 89) ELSE Blank91
  /\ t.rest = AltitudeAndComment(p)

\* The parts of a compressed text.
LEMMA CompressedIs ==
  ASSUME NEW p, p.compressed, p.lat.exact \in BOOLEAN, p.lon.exact \in BOOLEAN, NEW t \in EncodePosition(p)
  PROVE  \E lat, lon : CompressedAs(p, t, lat, lon)
<1> DEFINE ok == /\ IsEncodableCell(p.lat, 4, 68566676) /\ IsEncodableCell(p.lon, 2, 68566678)
                 /\ p.ambiguity = 0 /\ ~ p.dao
<1>1. EncodePosition(p) = IF ok THEN {Compressed(p, lat, lon) : lat \in Cells(p.lat), lon \in Cells(p.lon)}
                          ELSE {}
  BY DEF EncodePosition
<1>2. ok
  <2> HIDE DEF ok
  <2> QED BY <1>1
<1>3. PICK lat \in Cells(p.lat), lon \in Cells(p.lon) : t = Compressed(p, lat, lon)
  <2> DEFINE F(x, y) == Compressed(p, x, y)
             A == Cells(p.lat)
             B == Cells(p.lon)
  <2>1. t \in {F(x, y) : x \in A, y \in B}
    <3> HIDE DEF ok
    <3> QED BY <1>1, <1>2
  <2> HIDE DEF F, A, B
  <2>2. \E x \in A, y \in B : t = F(x, y)
    BY <2>1
  <2> QED BY <2>2 DEF A, B, F
<1>4. lat \in Nat /\ p.lat.cell \in Nat /\ lat < 68574961 /\ (lat = p.lat.cell \/ (p.lat.exact /\ lat = p.lat.cell - 1))
  <2>1. PICK cells, last \in Nat : cells = 4 /\ last = 68566676
    BY SMT
  <2>2. cells > 1 /\ last < 68574961
    BY <2>1, SMT
  <2>3. IsEncodableCell(p.lat, cells, last)
    BY <1>2, <2>1
  <2>4. lat \in Nat /\ lat <= last /\ p.lat.cell \in Nat /\ (lat = p.lat.cell \/ (p.lat.exact /\ lat = p.lat.cell - 1))
    BY <2>2, <2>3, CellsAre
  <2> QED BY <2>2, <2>4, SMT
<1>5. lon \in Nat /\ p.lon.cell \in Nat /\ lon < 68574961 /\ (lon = p.lon.cell \/ (p.lon.exact /\ lon = p.lon.cell - 1))
  <2>1. PICK cells, last \in Nat : cells = 2 /\ last = 68566678
    BY SMT
  <2>2. cells > 1 /\ last < 68574961
    BY <2>1, SMT
  <2>3. IsEncodableCell(p.lon, cells, last)
    BY <1>2, <2>1
  <2>4. lon \in Nat /\ lon <= last /\ p.lon.cell \in Nat /\ (lon = p.lon.cell \/ (p.lon.exact /\ lon = p.lon.cell - 1))
    BY <2>2, <2>3, CellsAre
  <2> QED BY <2>2, <2>4, SMT
<1>6. IsCell(lat) /\ IsCell(lon)
  BY <1>4, <1>5 DEF IsCell
<1>7. /\ t.form = "compressed" /\ t.code = p.code
      /\ t.table = IF p.table \in DOMAIN Overlay THEN Overlay[p.table] ELSE p.table
      /\ t.lat = Base91(lat) /\ t.lon = Base91(lon)
      /\ LET moves == HasMotion(p) /\ \E course \in p.course : course \in 1 .. 360
         IN  /\ t.course = IF moves THEN CompressedCourse(CHOOSE c \in p.course : TRUE) ELSE Blank91
             /\ t.speed = IF moves THEN Least(CHOOSE s \in p.speed : TRUE, 89) ELSE Blank91
      /\ t.rest = AltitudeAndComment(p)
  <2> HIDE DEF ok
  <2> QED BY <1>3 DEF Compressed
<1>8. t.table = IF p.table = "0" THEN "a" ELSE IF p.table = "1" THEN "b" ELSE p.table
  <2> HIDE DEF ok
  <2>1. DOMAIN Overlay = {"0", "1"} /\ Overlay["0"] = "a" /\ Overlay["1"] = "b"
    BY DEF Overlay
  <2> QED BY <1>7, <2>1
<1>9. p.ambiguity = 0 /\ ~ p.dao
  BY <1>2
<1> HIDE DEF ok
<1>10. CompressedAs(p, t, lat, lon)
  BY <1>4, <1>5, <1>6, <1>7, <1>8, <1>9 DEF CompressedAs
<1> QED BY <1>10

\* It is parsed, if it has not the code that the parser refuses.
GridOf(p, t, lat, lon, s) ==
  /\ GridAs(t, s) /\ s.lat.cell = lat /\ s.lon.cell = lon /\ s.code = p.code
  /\ s.table = p.table \/ p.table \in {"a", "b"}

\* It is read as it was meant, unless its code is '}'.
LEMMA GridOfIs ==
  ASSUME NEW p, HasExtensions(p), NoDao(p.comment), ~ IsBrace(p),
         NEW t, NEW lat, NEW lon, CompressedAs(p, t, lat, lon)
  PROVE  \E s : GridOf(p, t, lat, lon, s)
<1>1. /\ IsCell(lat) /\ IsCell(lon)
      /\ t.form = "compressed" /\ t.code = p.code
      /\ t.table = IF p.table = "0" THEN "a" ELSE IF p.table = "1" THEN "b" ELSE p.table
      /\ t.lat = Base91(lat) /\ t.lon = Base91(lon)
      /\ LET moves == HasMotion(p) /\ \E course \in p.course : course \in 1 .. 360
         IN  /\ t.course = IF moves THEN CompressedCourse(CHOOSE c \in p.course : TRUE) ELSE Blank91
             /\ t.speed = IF moves THEN Least(CHOOSE s \in p.speed : TRUE, 89) ELSE Blank91
      /\ t.rest = AltitudeAndComment(p)
  BY DEF CompressedAs
<1>2. /\ t.lat \in [1 .. 4 -> 0 .. 90] /\ Number91(t.lat) = lat
      /\ t.lon \in [1 .. 4 -> 0 .. 90] /\ Number91(t.lon) = lon
  BY <1>1, Base91Is
<1>3. t.lat \in CellText /\ t.lon \in CellText
  BY <1>2 DEF CellText
<1>4. IsFilled(t)
  <2>1. \A x \in 0 .. 90 : x # Blank91
    BY SMT DEF Blank91
  <2> QED BY <1>2, <2>1 DEF IsFilled
<1>5. IsPlainTable(t.table)
  BY <1>1 DEF IsPlainTable
<1>6. t.rest \in Seq(Extension) /\ NoDao(t.rest)
  BY <1>1, AltitudeAndCommentIs
<1>7. ~ IsBrace(t)
  BY <1>1 DEF IsBrace
<1>8. t.course \in Int /\ t.speed \in Int
  <2> DEFINE moves == HasMotion(p) /\ \E course \in p.course : course \in 1 .. 360
             course == CHOOSE c \in p.course : TRUE
             speed == CHOOSE c \in p.speed : TRUE
  <2>1. t.course = (IF moves THEN CompressedCourse(course) ELSE Blank91)
        /\ t.speed = (IF moves THEN Least(speed, 89) ELSE Blank91)
    BY <1>1
  <2>2. moves => course \in Int /\ speed \in Int
    BY OptionIs DEF HasMotion, HasExtensions
  <2> HIDE DEF moves, course, speed
  <2>3. Blank91 \in Int
    BY SMT DEF Blank91
  <2>4. course \in Int => CompressedCourse(course) \in Int
    <3> SUFFICES ASSUME course \in Int PROVE CompressedCourse(course) \in Int
      OBVIOUS
    <3>1. (course + 2) \div 4 \in Int
      BY SMT
    <3> QED BY <3>1 DEF CompressedCourse
  <2>5. speed \in Int => Least(speed, 89) \in Int
    BY SMT DEF Least
  <2> QED BY <2>1, <2>2, <2>3, <2>4, <2>5
<1>9. PICK s : GridAs(t, s)
  BY <1>1, <1>3, <1>4, <1>5, <1>6, <1>7, <1>8, GridIs
<1>10. s.lat.cell = Number91(t.lat) /\ s.lon.cell = Number91(t.lon) /\ s.code = t.code /\ s.table = Restored(t.table)
  BY <1>9 DEF GridAs
<1>11. s.table = p.table \/ p.table \in {"a", "b"}
  BY <1>1, <1>10 DEF Restored
<1>12. GridOf(p, t, lat, lon, s)
  BY <1>1, <1>2, <1>9, <1>10, <1>11 DEF GridOf
<1> QED BY <1>12

\* A compressed report that is sent on is parsed, and moves by one cell at most.
GridStep(r, s) ==
  /\ Gridded(s) /\ s.code = r.code /\ s.ambiguity = r.ambiguity
  /\ r.lat.cell - s.lat.cell \in 0 .. 1 /\ r.lon.cell - s.lon.cell \in 0 .. 1
GridRelayed(t, r, s) == ParsePosition(t) = {s} /\ GridStep(r, s)

\* What encode_position makes of a compressed report is such a text.
LEMMA GridRelayIs ==
  ASSUME NEW r, Gridded(r), NEW t \in EncodePosition(AsReceived(r))
  PROVE  \E s : GridRelayed(t, r, s)
<1> DEFINE q == AsReceived(r)
<1>1. /\ r.form = "compressed" /\ r.ambiguity = 0 /\ ~ IsBrace(r)
      /\ IsEdge(r.lat) /\ IsEdge(r.lon) /\ HasExtensions(r) /\ NoDao(r.comment)
  BY DEF Gridded
<1>2. /\ q.lat = r.lat /\ q.lon = r.lon /\ q.code = r.code /\ q.comment = r.comment
      /\ q.compressed = (r.form = "compressed") /\ q.course = r.course /\ q.speed = r.speed
      /\ q.altitude = r.altitude
  BY DEF AsReceived
<1>3. t \in EncodePosition(q)
  OBVIOUS
<1> HIDE DEF q
<1>4. q.compressed /\ HasExtensions(q) /\ NoDao(q.comment) /\ ~ IsBrace(q)
  BY <1>1, <1>2 DEF HasExtensions, IsBrace
<1>5. q.lat.exact \in BOOLEAN /\ q.lon.exact \in BOOLEAN
  BY <1>1, <1>2 DEF IsEdge
<1>6. PICK lat, lon : CompressedAs(q, t, lat, lon)
  BY <1>3, <1>4, <1>5, CompressedIs
<1>7. PICK s : GridOf(q, t, lat, lon, s)
  BY <1>4, <1>6, GridOfIs
<1>8. /\ ParsePosition(t) = {s} /\ Gridded(s) /\ s.lat.cell = lat /\ s.lon.cell = lon /\ s.code = r.code
  BY <1>2, <1>7 DEF GridOf, GridAs
<1>9. /\ r.lat.cell \in Nat /\ r.lon.cell \in Nat
      /\ lat = r.lat.cell \/ lat = r.lat.cell - 1
      /\ lon = r.lon.cell \/ lon = r.lon.cell - 1
  BY <1>2, <1>6 DEF CompressedAs
<1>10. r.lat.cell - lat \in 0 .. 1 /\ r.lon.cell - lon \in 0 .. 1
  BY <1>9, SMT
<1>11. s.ambiguity = r.ambiguity
  BY <1>1, <1>8 DEF Gridded
<1>12. GridRelayed(t, r, s)
  BY <1>8, <1>10, <1>11 DEF GridRelayed, GridStep
<1> QED BY <1>12

-----------------------------------------------------------------------------
(* What the first report and any later one have in common.                 *)

Reported(r) == Surveyed(r) \/ Gridded(r)

KeptAxis(c, d, f, r) ==
  \E w, x, y :
    /\ Parts(c, w, x) /\ x \in DaoRest(f.datum) /\ Parts(d, w, y) /\ y \in DaoRest(r.datum)
    /\ c.negative = d.negative \/ Size(c) = 0 \/ Size(d) = 0
    /\ f.datum # "none" /\ SendsDao(f) =>
         \/ r.datum = f.datum /\ y = x
         \/ r.datum = "base91" /\ f.datum = "decimal" /\ y - x <= 100 /\ x - y <= 100

Near(f, r, n) == f.lat.cell - r.lat.cell \in 0 .. n /\ f.lon.cell - r.lon.cell \in 0 .. n

Kept(f, r, n) ==
  /\ r.ambiguity = f.ambiguity /\ r.code = f.code
  /\ \/ Gridded(f) /\ Gridded(r) /\ Near(f, r, n)
     \/ /\ Surveyed(f) /\ Surveyed(r)
        /\ f.datum = "none" => r.datum = "none"
        /\ KeptAxis(f.lat, r.lat, f, r) /\ KeptAxis(f.lon, r.lon, f, r)

\* At the first receiver it is the same report.
LEMMA KeptStarts ==
  ASSUME NEW f, Reported(f)
  PROVE  Kept(f, f, 0)
<1>1. CASE Gridded(f)
  <2>1. f.lat.cell \in Nat /\ f.lon.cell \in Nat
    BY <1>1 DEF Gridded, IsEdge
  <2>2. Near(f, f, 0)
    BY <2>1, SMT DEF Near
  <2> QED BY <1>1, <2>2 DEF Kept
<1>2. CASE Surveyed(f)
  <2>1. \A c : IsGood(c, f.ambiguity, f.datum) => KeptAxis(c, c, f, f)
    <3> TAKE c
    <3> HAVE IsGood(c, f.ambiguity, f.datum)
    <3>1. PICK w \in Nat, x \in DaoRest(f.datum) : Size(c) = w * Hundredth + x
      BY DEF IsGood
    <3>2. x \in Nat /\ x <= 9000
      BY <3>1, DaoRestBounds
    <3>3. x < Hundredth
      BY <3>2, UnitsAre, SMT
    <3>4. Parts(c, w, x)
      BY <3>1, <3>2, <3>3 DEF Parts
    <3> QED BY <3>1, <3>4 DEF KeptAxis
  <2>2. KeptAxis(f.lat, f.lat, f, f) /\ KeptAxis(f.lon, f.lon, f, f)
    BY <1>2, <2>1 DEF Surveyed
  <2> QED BY <1>2, <2>2 DEF Kept
<1> QED BY <1>1, <1>2 DEF Reported

\* Each relay keeps an axis.
LEMMA KeptAxisStep ==
  ASSUME NEW f, NEW r, NEW s, NEW b, NEW c, NEW d, KeptAxis(b, c, f, r), AxisStep(c, d, r, s),
         r.ambiguity = f.ambiguity, r.code = f.code, c \in Angle, f.datum \in Datum
  PROVE  KeptAxis(b, d, f, s)
<1>1. PICK w, x, y :
        /\ Parts(b, w, x) /\ x \in DaoRest(f.datum) /\ Parts(c, w, y) /\ y \in DaoRest(r.datum)
        /\ b.negative = c.negative \/ Size(b) = 0 \/ Size(c) = 0
        /\ f.datum # "none" /\ SendsDao(f) =>
             \/ r.datum = f.datum /\ y = x
             \/ r.datum = "base91" /\ f.datum = "decimal" /\ y - x <= 100 /\ x - y <= 100
  BY DEF KeptAxis
<1>2. PICK v, z, u :
        /\ Parts(c, v, z) /\ z \in DaoRest(r.datum) /\ Parts(d, v, u) /\ u \in DaoRest(s.datum)
        /\ d.negative = (c.negative /\ Size(c) # 0)
        /\ Size(c) = 0 => Size(d) = 0
        /\ r.datum # "none" /\ SendsDao(r) =>
             /\ s.datum = "base91" /\ u - z <= 100 /\ z - u <= 100
             /\ r.datum = "base91" => u = z
  BY DEF AxisStep
<1>3. v = w /\ z = y
  BY <1>1, <1>2, PartsAre
<1>4. b.negative = d.negative \/ Size(b) = 0 \/ Size(d) = 0
  <2>1. CASE Size(c) = 0
    BY <1>2, <2>1
  <2>2. CASE Size(c) # 0
    <3>1. CASE b.negative = c.negative
      <4>1. c.negative \in BOOLEAN
        BY DEF Angle
      <4>2. d.negative = c.negative
        BY <1>2, <2>2, <4>1
      <4> QED BY <3>1, <4>2
    <3>2. CASE b.negative # c.negative
      BY <1>1, <2>2, <3>2
    <3> QED BY <3>1, <3>2
  <2> QED BY <2>1, <2>2
<1>5. ASSUME f.datum # "none", SendsDao(f)
      PROVE  \/ s.datum = f.datum /\ u = x
             \/ s.datum = "base91" /\ f.datum = "decimal" /\ u - x <= 100 /\ x - u <= 100
  <2>1. SendsDao(r)
    BY <1>5 DEF SendsDao, IsWeather
  <2>2. CASE r.datum = f.datum /\ y = x
    <3>1. s.datum = "base91" /\ u - x <= 100 /\ x - u <= 100 /\ (f.datum = "base91" => u = x)
      BY <1>2, <1>3, <1>5, <2>1, <2>2
    <3>2. CASE f.datum = "base91"
      BY <3>1, <3>2
    <3>3. CASE f.datum # "base91"
      <4>1. f.datum = "decimal"
        BY <1>5, <3>3 DEF Datum
      <4> QED BY <3>1, <4>1
    <3> QED BY <3>2, <3>3
  <2>3. CASE r.datum = "base91" /\ f.datum = "decimal" /\ y - x <= 100 /\ x - y <= 100
    <3>1. s.datum = "base91" /\ u = y
      <4>1. r.datum # "none"
        BY <2>3
      <4> QED BY <1>2, <1>3, <2>1, <2>3, <4>1
    <3> QED BY <2>3, <3>1
  <2> QED BY <1>1, <1>5, <2>2, <2>3
<1>6. /\ Parts(b, w, x) /\ x \in DaoRest(f.datum) /\ Parts(d, w, u) /\ u \in DaoRest(s.datum)
  BY <1>1, <1>2, <1>3
<1> QED BY <1>4, <1>5, <1>6 DEF KeptAxis

\* What is sent on is parsed, as one report, and that is kept too.
KeptBy(t, f, s, n) == ParsePosition(t) = {s} /\ Kept(f, s, n)

\* A relay keeps what was kept before it.
LEMMA KeptStep ==
  ASSUME NEW f, NEW r, NEW n \in Nat, Kept(f, r, n), NEW t \in EncodePosition(AsReceived(r))
  PROVE  \E s : KeptBy(t, f, s, n + 1)
<1>1. r.ambiguity = f.ambiguity /\ r.code = f.code
  BY DEF Kept
<1>2. CASE Gridded(f) /\ Gridded(r) /\ Near(f, r, n)
  <2>1. PICK s : GridRelayed(t, r, s)
    BY <1>2, GridRelayIs
  <2>2. /\ ParsePosition(t) = {s} /\ Gridded(s) /\ s.code = r.code /\ s.ambiguity = r.ambiguity
        /\ r.lat.cell - s.lat.cell \in 0 .. 1 /\ r.lon.cell - s.lon.cell \in 0 .. 1
    BY <2>1 DEF GridRelayed, GridStep
  <2>3. Near(f, s, n + 1)
    <3>1. \A i, j, k \in Nat : i - j \in 0 .. n /\ j - k \in 0 .. 1 => i - k \in 0 .. n + 1
      BY SMT
    <3>2. /\ f.lat.cell \in Nat /\ f.lon.cell \in Nat /\ r.lat.cell \in Nat /\ r.lon.cell \in Nat
          /\ s.lat.cell \in Nat /\ s.lon.cell \in Nat
      BY <1>2, <2>2 DEF Gridded, IsEdge
    <3> QED BY <1>2, <2>2, <3>1, <3>2 DEF Near
  <2>4. Kept(f, s, n + 1)
    BY <1>1, <1>2, <2>2, <2>3 DEF Kept
  <2>5. KeptBy(t, f, s, n + 1)
    BY <2>2, <2>4 DEF KeptBy
  <2> QED BY <2>5
<1>3. CASE /\ Surveyed(f) /\ Surveyed(r)
           /\ f.datum = "none" => r.datum = "none"
           /\ KeptAxis(f.lat, r.lat, f, r) /\ KeptAxis(f.lon, r.lon, f, r)
  <2>1. PICK s : Relayed(t, r, s)
    BY <1>3, RelayIs
  <2>2. /\ ParsePosition(t) = {s} /\ Surveyed(s) /\ s.code = r.code /\ s.ambiguity = r.ambiguity
        /\ r.datum = "none" => s.datum = "none"
        /\ AxisStep(r.lat, s.lat, r, s) /\ AxisStep(r.lon, s.lon, r, s)
    BY <2>1 DEF Relayed, RelayStep
  <2>3. r.lat \in Angle /\ r.lon \in Angle /\ f.datum \in Datum
    BY <1>3 DEF Surveyed, IsGood
  <2>4. KeptAxis(f.lat, s.lat, f, s) /\ KeptAxis(f.lon, s.lon, f, s)
    BY <1>1, <1>3, <2>2, <2>3, KeptAxisStep
  <2>5. Kept(f, s, n + 1)
    BY <1>1, <1>3, <2>2, <2>4 DEF Kept
  <2>6. KeptBy(t, f, s, n + 1)
    BY <2>2, <2>5 DEF KeptBy
  <2> QED BY <2>6
<1> QED BY <1>2, <1>3 DEF Kept

\* What is kept is within the distance that the three exceptions leave.
MovedBy(f) ==
  IF f.datum # "none" /\ (f.ambiguity # 0 \/ f.code = "_") THEN Hundredth
  ELSE IF f.datum = "decimal" THEN 100 ELSE 0

\* A coordinate that is kept lies where it was, but for the exceptions.
LEMMA KeptAxisIs ==
  ASSUME NEW f, NEW r, NEW c \in Angle, NEW d \in Angle, KeptAxis(c, d, f, r), f.datum \in Datum,
         f.datum = "none" => r.datum = "none"
  PROVE  IsWithin(d, c, MovedBy(f))
<1>1. PICK w, x, y :
        /\ Parts(c, w, x) /\ x \in DaoRest(f.datum) /\ Parts(d, w, y) /\ y \in DaoRest(r.datum)
        /\ c.negative = d.negative \/ Size(c) = 0 \/ Size(d) = 0
        /\ f.datum # "none" /\ SendsDao(f) =>
             \/ r.datum = f.datum /\ y = x
             \/ r.datum = "base91" /\ f.datum = "decimal" /\ y - x <= 100 /\ x - y <= 100
  BY DEF KeptAxis
<1>2. PICK m \in Nat : m = MovedBy(f) /\ m < Degree
  <2>1. Hundredth \in Nat /\ Hundredth < Degree /\ 100 < Degree /\ 0 < Degree
    BY UnitsAre, SMT
  <2> QED BY <2>1 DEF MovedBy
<1>3. /\ x \in Nat /\ x <= 9000 /\ y \in Nat /\ y <= 9000
  BY <1>1, DaoRestBounds
<1>4. x - y <= m /\ y - x <= m
  <2>1. CASE f.datum = "none"
    <3>1. x = 0 /\ y = 0
      BY <1>1, <2>1 DEF DaoRest
    <3> QED BY <1>2, <3>1, SMT
  <2>2. CASE f.datum # "none" /\ ~ SendsDao(f)
    <3>1. m = Hundredth
      BY <1>2, <2>2 DEF MovedBy, SendsDao, IsWeather
    <3> QED BY <1>3, <3>1, UnitsAre, SMT
  <2>3. CASE f.datum # "none" /\ SendsDao(f)
    <3>1. ~ (f.ambiguity # 0 \/ f.code = "_")
      BY <2>3 DEF SendsDao, IsWeather
    <3>2. CASE y = x
      BY <1>2, <1>3, <3>2, SMT
    <3>3. CASE f.datum = "decimal" /\ y - x <= 100 /\ x - y <= 100
      <4>1. m = 100
        BY <1>2, <3>1, <3>3 DEF MovedBy
      <4> QED BY <3>3, <4>1
    <3> QED BY <1>1, <2>3, <3>2, <3>3
  <2> QED BY <2>1, <2>2, <2>3
<1>5. Size(c) - Size(d) <= m /\ Size(d) - Size(c) <= m
  <2>1. w \in Nat /\ Size(c) = w * Hundredth + x /\ Size(d) = w * Hundredth + y
    BY <1>1 DEF Parts
  <2> QED BY <1>2, <1>3, <1>4, <2>1, UnitsAre, SMT
<1>6. IsWithin(d, c, m)
  BY <1>1, <1>2, <1>5, WithinIs
<1> QED BY <1>2, <1>6

KeptEnough(f, r, n) ==
  /\ r.ambiguity = f.ambiguity
  /\ IF f.form = "compressed"
     THEN f.lat.cell - r.lat.cell \in 0 .. n /\ f.lon.cell - r.lon.cell \in 0 .. n
     ELSE IsWithin(r.lat, f.lat, MovedBy(f)) /\ IsWithin(r.lon, f.lon, MovedBy(f))

\* So does the whole report.
LEMMA KeptIsEnough ==
  ASSUME NEW f, NEW r, NEW n, Kept(f, r, n)
  PROVE  KeptEnough(f, r, n)
<1>1. CASE Gridded(f) /\ Gridded(r) /\ Near(f, r, n)
  <2>1. f.form = "compressed"
    BY <1>1 DEF Gridded
  <2> QED BY <1>1, <2>1 DEF KeptEnough, Kept, Near
<1>2. CASE /\ Surveyed(f) /\ Surveyed(r)
           /\ f.datum = "none" => r.datum = "none"
           /\ KeptAxis(f.lat, r.lat, f, r) /\ KeptAxis(f.lon, r.lon, f, r)
  <2>1. /\ f.form # "compressed" /\ f.datum \in Datum
        /\ f.lat \in Angle /\ f.lon \in Angle /\ r.lat \in Angle /\ r.lon \in Angle
    BY <1>2 DEF Surveyed, IsGood
  <2>2. IsWithin(r.lat, f.lat, MovedBy(f)) /\ IsWithin(r.lon, f.lon, MovedBy(f))
    BY <1>2, <2>1, KeptAxisIs
  <2> QED BY <2>1, <2>2 DEF KeptEnough, Kept
<1> QED BY <1>1, <1>2 DEF Kept

-----------------------------------------------------------------------------
(* Mic-E text.                                                             *)

MiceForm(t) ==
  /\ t.form = "mice" /\ t.rest \in Seq(Extension)
  /\ t.digits \in [1 .. 6 -> 0 .. 9 \cup {Blank}] /\ t.bytes \in [1 .. 6 -> 0 .. 255]
  /\ t.north \in BOOLEAN /\ t.west \in BOOLEAN /\ t.far \in BOOLEAN
MiceMinutes(t) == IF t.bytes[2] - 28 >= 60 THEN t.bytes[2] - 88 ELSE t.bytes[2] - 28
MiceLat(t, a) ==
  [degrees |-> 10 * t.digits[1] + t.digits[2], negative |-> ~ t.north,
   grains |-> Grains(Centered(SubSeq(t.digits, 3, 6), a))]
MiceLon(t, a) ==
  [degrees |-> MiceLongitude(t.bytes[1], t.far), negative |-> t.west,
   grains |-> Grains(Centered(<<MiceMinutes(t) \div 10, MiceMinutes(t) % 10,
                                (t.bytes[3] - 28) \div 10, (t.bytes[3] - 28) % 10>>, a))]
MiceCourse(t) ==
  LET course == 100 * Remainder(t.bytes[5] - 28, 10) + t.bytes[6] - 28
  IN  (IF course >= 400 THEN course - 400 ELSE course) % 65536
MiceSpeed(t) ==
  LET speed == 10 * (t.bytes[4] - 28) + Quotient(t.bytes[5] - 28, 10)
  IN  IF speed >= 800 THEN speed - 800 ELSE speed
IsMice(t, a) ==
  /\ a <= 4 /\ \A i \in 1 .. 6 - a : t.digits[i] # Blank
  /\ ~ MiceLongitude(t.bytes[1], t.far) < 0 /\ ~ MiceMinutes(t) < 0 /\ ~ t.bytes[3] - 28 < 0

\* How a text is read, if it is accepted.
LEMMA MiceParsed ==
  ASSUME NEW t, t.form = "mice", NEW a, a = TrailingBlanks(t.digits), a \in Nat
  PROVE  ParsePosition(t) =
           IF IsMice(t, a)
           THEN {WithDao(NewReport(t, MiceLat(t, a), MiceLon(t, a), a, {MiceCourse(t)}, {MiceSpeed(t)}),
                         TelemetryTaken(t.rest))}
           ELSE {}
<1>1. ParsePosition(t) = ParseMice(t)
  BY DEF ParsePosition
<1> DEFINE u == WithDao(NewReport(t, MiceLat(t, a), MiceLon(t, a), a, {MiceCourse(t)}, {MiceSpeed(t)}),
                        TelemetryTaken(t.rest))
           bad == \/ \E i \in 1 .. 6 - a : t.digits[i] = Blank
                  \/ a > 4 \/ MiceLongitude(t.bytes[1], t.far) < 0 \/ MiceMinutes(t) < 0 \/ t.bytes[3] - 28 < 0
<1>2. ParseMice(t) = IF bad THEN {} ELSE {u}
  BY DEF ParseMice, MiceMinutes, MiceLat, MiceLon, MiceCourse, MiceSpeed
<1>3. IsMice(t, a) <=> ~ bad
  <2>1. a > 4 <=> ~ a <= 4
    BY SMT
  <2> QED BY <2>1 DEF IsMice
<1> HIDE DEF u, bad
<1>4. ParsePosition(t) = IF IsMice(t, a) THEN {u} ELSE {}
  BY <1>1, <1>2, <1>3
<1> QED BY <1>4 DEF u

\* Its bytes are numbers.
LEMMA MiceNumbers ==
  ASSUME NEW t, MiceForm(t)
  PROVE  /\ MiceMinutes(t) \in Int /\ t.bytes[3] - 28 \in Int
         /\ MiceLongitude(t.bytes[1], t.far) \in Int
         /\ MiceCourse(t) \in Nat /\ MiceSpeed(t) \in Int
<1>1. \A i \in 1 .. 6 : t.bytes[i] \in Nat
  <2>1. \A x \in 0 .. 255 : x \in Nat
    BY SMT
  <2> QED BY <2>1 DEF MiceForm
<1>2. 1 \in 1 .. 6 /\ 2 \in 1 .. 6 /\ 3 \in 1 .. 6 /\ 4 \in 1 .. 6 /\ 5 \in 1 .. 6 /\ 6 \in 1 .. 6
  BY SMT
<1>3. PICK b1, b2, b3, b4, b5, b6 \in Nat :
        /\ b1 = t.bytes[1] /\ b2 = t.bytes[2] /\ b3 = t.bytes[3]
        /\ b4 = t.bytes[4] /\ b5 = t.bytes[5] /\ b6 = t.bytes[6]
  BY <1>1, <1>2
<1>4. MiceMinutes(t) \in Int /\ b3 - 28 \in Int
  BY <1>3, SMT DEF MiceMinutes
<1>5. MiceLongitude(b1, t.far) \in Int
  <2>1. b1 - 28 + (IF t.far THEN 100 ELSE 0) \in Int
    BY SMT
  <2> DEFINE d == b1 - 28 + (IF t.far THEN 100 ELSE 0)
  <2>2. MiceLongitude(b1, t.far) = CASE d \in 180 .. 189 -> d - 80
                                     [] d \in 190 .. 199 -> d - 190
                                     [] OTHER -> d
    BY DEF MiceLongitude
  <2> HIDE DEF d
  <2>3. d \in Int
    BY <2>1 DEF d
  <2> QED BY <2>2, <2>3, SMT
<1>6. PICK q \in Int : q = Quotient(b5 - 28, 10)
  <2>1. Quotient(b5 - 28, 10) \in Int
    BY SMT DEF Quotient
  <2> QED BY <2>1
<1>7. MiceSpeed(t) \in Int
  <2> DEFINE speed == 10 * (b4 - 28) + q
  <2>1. MiceSpeed(t) = IF speed >= 800 THEN speed - 800 ELSE speed
    BY <1>3, <1>6 DEF MiceSpeed
  <2> QED BY <2>1, SMT
<1>8. MiceCourse(t) \in Nat
  <2> DEFINE course == 100 * Remainder(b5 - 28, 10) + b6 - 28
             z == IF course >= 400 THEN course - 400 ELSE course
  <2>1. MiceCourse(t) = z % 65536
    BY <1>3 DEF MiceCourse
  <2>2. Remainder(b5 - 28, 10) = b5 - 28 - 10 * q
    BY <1>6 DEF Remainder
  <2>3. z \in Int
    BY <2>2, SMT
  <2> HIDE DEF z
  <2>4. z % 65536 \in Nat
    BY <2>3, SMT
  <2> QED BY <2>1, <2>4
<1> QED BY <1>3, <1>4, <1>5, <1>7, <1>8

\* The coordinates of an accepted Mic-E text are whole hundredths.
LEMMA MiceWhole ==
  ASSUME NEW t, MiceForm(t), NEW a \in 0 .. 4, IsMice(t, a)
  PROVE  \E v, w : IsWhole(MiceLat(t, a), a, v) /\ IsWhole(MiceLon(t, a), a, w)
<1>1. /\ MiceMinutes(t) \in Nat /\ t.bytes[3] - 28 \in Nat /\ MiceLongitude(t.bytes[1], t.far) \in Nat
  <2>1. \A z \in Int : ~ z < 0 => z \in Nat
    BY SMT
  <2> QED BY <2>1, MiceNumbers DEF IsMice
<1>2. \A i \in 1 .. 6 - a : t.digits[i] \in Nat
  <2> TAKE i \in 1 .. 6 - a
  <2>1. i \in 1 .. 6
    BY SMT
  <2>2. t.digits[i] \in 0 .. 9
    BY <2>1 DEF MiceForm, IsMice
  <2> QED BY <2>2, SMT
<1>3. PICK v \in Nat : MiceLat(t, a).grains = v * Hundredth /\ Centred(v, a)
  <2> DEFINE d == SubSeq(t.digits, 3, 6)
  <2>1. \A i \in 1 .. 4 - a : d[i] \in Nat
    <3> TAKE i \in 1 .. 4 - a
    <3>1. PICK m, n \in Int : m = 3 /\ n = 6
      BY SMT
    <3> DEFINE D == 0 .. 9 \cup {Blank}
               f == t.digits
    <3>2. \A j \in m .. n : f[j] \in D
      <4>1. \A j \in m .. n : j \in 1 .. 6
        BY <3>1, SMT
      <4> QED BY <4>1 DEF MiceForm
    <3> HIDE DEF D, f
    <3>3. \A j \in 1 .. n - m + 1 : SubSeq(f, m, n)[j] = f[m + j - 1]
      BY <3>2, SubSeqProperties
    <3>4. i \in 1 .. n - m + 1 /\ m + i - 1 = i + 2 /\ i + 2 \in 1 .. 6 - a
      BY <3>1, SMT
    <3>5. d[i] = t.digits[i + 2]
      BY <3>1, <3>3, <3>4 DEF f
    <3> QED BY <1>2, <3>4, <3>5
  <2> HIDE DEF d
  <2>2. PICK v \in Nat : Grains(Centered(d, a)) = v * Hundredth /\ Centred(v, a)
    BY <2>1, CentredDigits
  <2> QED BY <2>2 DEF MiceLat, d
<1>4. PICK w \in Nat : MiceLon(t, a).grains = w * Hundredth /\ Centred(w, a)
  <2> DEFINE m == MiceMinutes(t)
             h == t.bytes[3] - 28
             d == <<m \div 10, m % 10, h \div 10, h % 10>>
  <2>1. \A i \in 1 .. 4 - a : d[i] \in Nat
    <3> TAKE i \in 1 .. 4 - a
    <3>1. i = 1 \/ i = 2 \/ i = 3 \/ i = 4
      BY SMT
    <3>2. \A z \in Nat : z \div 10 \in Nat /\ z % 10 \in Nat
      BY SMT
    <3>3. d[1] = m \div 10 /\ d[2] = m % 10 /\ d[3] = h \div 10 /\ d[4] = h % 10
      OBVIOUS
    <3>4. m \in Nat /\ h \in Nat
      BY <1>1
    <3> HIDE DEF d, m, h
    <3> QED BY <3>1, <3>2, <3>3, <3>4
  <2>2. MiceLon(t, a).grains = Grains(Centered(d, a))
    BY DEF MiceLon
  <2> HIDE DEF d
  <2>3. PICK w \in Nat : Grains(Centered(d, a)) = w * Hundredth /\ Centred(w, a)
    BY <2>1, CentredDigits
  <2> QED BY <2>2, <2>3
<1>5. v * Hundredth \in Nat /\ w * Hundredth \in Nat
  BY UnitsAre, SMT
<1>6. IsWhole(MiceLat(t, a), a, v)
  <2> DEFINE c == MiceLat(t, a)
             n == 10 * t.digits[1] + t.digits[2]
             g == c.grains
             south == ~ t.north
  <2>1. c = [degrees |-> n, negative |-> south, grains |-> g]
    BY DEF MiceLat
  <2>2. n \in Nat
    <3>1. 1 \in 1 .. 6 - a /\ 2 \in 1 .. 6 - a
      BY SMT
    <3>2. t.digits[1] \in Nat /\ t.digits[2] \in Nat
      BY <1>2, <3>1
    <3> QED BY <3>2, SMT
  <2>3. g \in Nat /\ south \in BOOLEAN
    BY <1>3, <1>5
  <2>4. g = v * Hundredth
    BY <1>3
  <2> HIDE DEF c, n, south, g
  <2>5. c \in Angle
    BY <2>1, <2>2, <2>3 DEF Angle
  <2>6. c.grains = g
    BY DEF g
  <2> QED BY <1>3, <2>4, <2>5, <2>6 DEF IsWhole, c
<1>7. IsWhole(MiceLon(t, a), a, w)
  <2> DEFINE c == MiceLon(t, a)
             n == MiceLongitude(t.bytes[1], t.far)
             g == c.grains
             west == t.west
  <2>1. c = [degrees |-> n, negative |-> west, grains |-> g]
    BY DEF MiceLon
  <2>2. n \in Nat /\ west \in BOOLEAN
    BY <1>1 DEF MiceForm
  <2>3. g \in Nat
    BY <1>4, <1>5
  <2>4. g = w * Hundredth
    BY <1>4
  <2> HIDE DEF c, n, west, g
  <2>5. c \in Angle
    BY <2>1, <2>2, <2>3 DEF Angle
  <2>6. c.grains = g
    BY DEF g
  <2> QED BY <1>4, <2>4, <2>5, <2>6 DEF IsWhole, c
<1> QED BY <1>6, <1>7

\* A Mic-E text is read as one report, or refused.
MiceRead(t, a, s) ==
  /\ ParsePosition(t) = {s} /\ Surveyed(s)
  /\ s.code = t.code /\ s.table = t.table /\ s.ambiguity = a
  /\ s.course = {MiceCourse(t)} /\ s.speed = {MiceSpeed(t)} /\ s.altitude = {}
  /\ NoDao(t.rest) => s.lat = MiceLat(t, a) /\ s.lon = MiceLon(t, a) /\ s.datum = "none"
  /\ t.rest = <<>> => s.comment = <<>>

\* An accepted Mic-E text is read as one report.
LEMMA MiceIs ==
  ASSUME NEW t, MiceForm(t), NEW a \in 0 .. 4, a = TrailingBlanks(t.digits), IsMice(t, a)
  PROVE  \E s : MiceRead(t, a, s)
<1>1. PICK v, w : IsWhole(MiceLat(t, a), a, v) /\ IsWhole(MiceLon(t, a), a, w)
  BY MiceWhole
<1> DEFINE lat == MiceLat(t, a)
           lon == MiceLon(t, a)
           course == {MiceCourse(t)}
           speed == {MiceSpeed(t)}
           none == {}
           s == WithDao(NewReport(t, lat, lon, a, course, speed), TelemetryTaken(t.rest))
<1>2. ParsePosition(t) = {s}
  <2>1. t.form = "mice"
    BY DEF MiceForm
  <2>2. a \in Nat
    BY SMT
  <2> HIDE DEF s
  <2>3. ParsePosition(t) =
           IF IsMice(t, a)
           THEN {WithDao(NewReport(t, MiceLat(t, a), MiceLon(t, a), a, {MiceCourse(t)}, {MiceSpeed(t)}),
                         TelemetryTaken(t.rest))}
           ELSE {}
    BY <2>1, <2>2, MiceParsed
  <2>4. ParsePosition(t) =
           {WithDao(NewReport(t, MiceLat(t, a), MiceLon(t, a), a, {MiceCourse(t)}, {MiceSpeed(t)}),
                    TelemetryTaken(t.rest))}
    BY <2>3
  <2> QED BY <2>4 DEF s
<1>3. lat \in Angle /\ lon \in Angle /\ t.rest \in Seq(Extension) /\ t.form = "mice"
  BY <1>1 DEF IsWhole, MiceForm
<1>4. IsOption(course) /\ IsOption(speed) /\ IsOption(none) /\ course \subseteq Nat /\ none \subseteq SevenPlaces
  <2>1. MiceCourse(t) \in Int /\ MiceSpeed(t) \in Int /\ MiceCourse(t) \in Nat
    <3>1. \A z \in Nat : z \in Int
      BY SMT
    <3> QED BY <3>1, MiceNumbers
  <2> QED BY <2>1 DEF IsOption
<1> HIDE DEF lat, lon, course, speed
<1>50. s = WithDao(NewReport(t, lat, lon, a, course, speed), TelemetryTaken(t.rest))
  OBVIOUS
<1> HIDE DEF s, none
<1>5. PICK datum, g, h, comment : MiceSaid(t, t.rest, lat, lon, a, course, speed, s, datum, g, h, comment)
  BY <1>3, <1>50, MiceCommentIs
<1>6. /\ comment \in Seq(Extension) /\ datum \in Datum
      /\ g \in DaoRest(datum) /\ h \in DaoRest(datum)
      /\ datum = "none" => NoDao(comment)
      /\ NoDao(t.rest) => datum = "none"
      /\ t.rest = <<>> => comment = <<>>
      /\ s = Rep(t, Moved(lat, g), Moved(lon, h), a, course, speed, none, datum, comment)
  BY <1>5 DEF MiceSaid, none
<1>7. /\ s.form = t.form /\ s.table = t.table /\ s.code = t.code /\ s.lat = Moved(lat, g)
      /\ s.lon = Moved(lon, h) /\ s.ambiguity = a /\ s.course = course /\ s.speed = speed
      /\ s.altitude = none /\ s.datum = datum /\ s.comment = comment
  BY <1>6, RepIs
<1>8. Surveyed(s)
  <2>1. t.form # "compressed"
    BY <1>3
  <2>2. IsWhole(lat, a, v) /\ IsWhole(lon, a, w)
    BY <1>1 DEF lat, lon
  <2>3. datum = "none" => NoDao(comment)
    BY <1>6
  <2> QED BY <1>4, <1>6, <2>1, <2>2, <2>3, ReadIsSurveyed
<1>9. NoDao(t.rest) => s.lat = lat /\ s.lon = lon /\ s.datum = "none"
  <2> SUFFICES ASSUME NoDao(t.rest) PROVE s.lat = lat /\ s.lon = lon /\ s.datum = "none"
    OBVIOUS
  <2>1. datum = "none"
    BY <1>6
  <2>2. g = 0 /\ h = 0
    BY <1>6, <2>1 DEF DaoRest
  <2> QED BY <1>7, <2>1, <2>2 DEF Moved
<1>10. MiceRead(t, a, s)
  BY <1>2, <1>6, <1>7, <1>8, <1>9 DEF MiceRead, lat, lon, course, speed, none
<1> QED BY <1>10

-----------------------------------------------------------------------------
(* Any text.                                                               *)

\* What is parsed is one report.
LEMMA TextIs ==
  ASSUME NEW t, IsText(t), ParsePosition(t) # {}
  PROVE  \E r : ParsePosition(t) = {r} /\ Reported(r)
<1>1. t.rest \in Seq(Extension)
  BY DEF IsText, IsComment
<1>2. CASE t.form = "uncompressed"
  <2>1. t.lat \in AngleText /\ t.lon \in AngleText
    BY <1>2 DEF IsText, AngleText
  <2>2. PICK r : ParsePosition(t) = {r} /\ Surveyed(r)
    BY <1>1, <1>2, <2>1, UncompressedIsSurveyed
  <2> QED BY <2>2 DEF Reported
<1>3. CASE t.form = "compressed"
  <2>1. /\ t.lat \in CellText /\ t.lon \in CellText
        /\ t.course \in {Blank91} \cup 0 .. 90 /\ t.speed \in {Blank91} \cup 0 .. 90
    BY <1>3 DEF IsText, CellText
  <2>2. t.course \in Int /\ t.speed \in Int
    BY <2>1, SMT DEF Blank91
  <2>3. NoDao(t.rest)
    BY <1>3 DEF IsText, IsComment, NoDao, IsDao
  <2>4. ParseCompressed(t) # {}
    BY <1>3 DEF ParsePosition
  <2>5. ~ (\/ t.table \in DOMAIN Overlay \/ t.code = "}"
           \/ \E i \in 1 .. 4 : Blank91 \in {t.lat[i], t.lon[i]})
    BY <2>4 DEF ParseCompressed
  <2>6. ~ IsBrace(t) /\ IsPlainTable(t.table) /\ IsFilled(t)
    BY <2>5 DEF IsBrace, IsPlainTable, IsFilled, Overlay
  <2>7. PICK r : GridAs(t, r)
    BY <1>1, <1>3, <2>1, <2>2, <2>3, <2>6, GridIs
  <2> QED BY <2>7 DEF GridAs, Reported
<1>4. CASE t.form = "mice"
  <2>1. MiceForm(t)
    BY <1>1, <1>4 DEF IsText, MiceForm
  <2> DEFINE a == TrailingBlanks(t.digits)
  <2>2. a \in 0 .. 6
    <3>1. PICK n \in Nat : n = 6
      BY SMT
    <3> DEFINE D == 0 .. 9 \cup {Blank}
               f == t.digits
    <3>2. f \in [1 .. n -> D]
      BY <2>1, <3>1 DEF MiceForm
    <3> HIDE DEF D, f
    <3>3. Len(f) = n
      BY <3>2, TupleIs
    <3>4. TrailingBlanks(f) \in 0 .. Len(f)
      BY <3>1, <3>3, BlanksOf
    <3> QED BY <3>1, <3>3, <3>4 DEF f
  <2>3. a \in Nat
    BY <2>2, SMT
  <2> HIDE DEF a
  <2>4. IsMice(t, a)
    BY <1>4, <2>3, MiceParsed DEF a
  <2>5. a \in 0 .. 4
    BY <2>3, <2>4, SMT DEF IsMice
  <2>6. PICK r : MiceRead(t, a, r)
    BY <2>1, <2>4, <2>5, MiceIs DEF a
  <2> QED BY <2>6 DEF MiceRead, Reported
<1> QED BY <1>2, <1>3, <1>4 DEF IsText

-----------------------------------------------------------------------------
(* How near a text is to the position that it is made of.                  *)

\* Half of what ambiguity leaves open, in hundredths.
Half(a) == IF a = 0 THEN 0 ELSE IF a = 1 THEN 5 ELSE IF a = 2 THEN 50 ELSE IF a = 3 THEN 500 ELSE 3000

\* The middle is that near to every number that it stands for.
LEMMA MidNear ==
  ASSUME NEW n \in Nat, n < 6000, NEW a \in 0 .. 4
  PROVE  /\ Mid(n, a) \in Nat /\ Mid(n, a) - n <= Half(a) /\ n - Mid(n, a) <= Half(a)
         /\ Half(a) \in Nat /\ Half(a) <= 3000
<1>1. CASE a = 0
  BY <1>1, SMT DEF Mid, Half
<1>2. CASE a = 1
  <2>1. n \div 10 \in Nat /\ 10 * (n \div 10) <= n /\ n < 10 * (n \div 10) + 10
    BY SMT
  <2> QED BY <1>2, <2>1, SMT DEF Mid, Half
<1>3. CASE a = 2
  <2>1. n \div 100 \in Nat /\ 100 * (n \div 100) <= n /\ n < 100 * (n \div 100) + 100
    BY SMT
  <2> QED BY <1>3, <2>1, SMT DEF Mid, Half
<1>4. CASE a = 3
  <2>1. n \div 1000 \in Nat /\ 1000 * (n \div 1000) <= n /\ n < 1000 * (n \div 1000) + 1000
    BY SMT
  <2> QED BY <1>4, <2>1, SMT DEF Mid, Half
<1>5. CASE a = 4
  BY <1>5, SMT DEF Mid, Half
<1> QED BY <1>1, <1>2, <1>3, <1>4, <1>5, SMT

\* The precision of a report without DAO.
LEMMA PrecisionIs ==
  ASSUME NEW r, r.datum = "none", NEW a \in 0 .. 4, r.ambiguity = a
  PROVE  Precision(r) = Hundredth + Hundredth * Half(a)
<1>1. Minute \div 20 = 45500 /\ Minute \div 2 = 455000 /\ 5 * Minute = 4550000 /\ 30 * Minute = 27300000
  BY UnitsAre, SMT
<1>2. CASE a = 0
  BY <1>2, UnitsAre, SMT DEF Precision, Half
<1>3. CASE a = 1
  BY <1>1, <1>3, UnitsAre, SMT DEF Precision, Half
<1>4. CASE a = 2
  BY <1>1, <1>4, UnitsAre, SMT DEF Precision, Half
<1>5. CASE a = 3
  BY <1>1, <1>5, UnitsAre, SMT DEF Precision, Half
<1>6. CASE a = 4
  BY <1>1, <1>6, UnitsAre, SMT DEF Precision, Half
<1> QED BY <1>2, <1>3, <1>4, <1>5, <1>6, SMT

\* A number of hundredths that differs by less than one from the grains of a coordinate
\* is, in the middle of what it leaves open, within the precision.
LEMMA MiddleNear ==
  ASSUME NEW c \in Angle, NEW d \in Angle, NEW r, r.datum = "none", NEW a \in 0 .. 4, r.ambiguity = a,
         NEW n \in Nat, n < 6000,
         Hundredth * n - c.grains <= Hundredth, c.grains - Hundredth * n <= Hundredth,
         d.degrees = c.degrees, d.grains = Hundredth * Mid(n, a),
         d.negative = c.negative \/ Size(c) = 0
  PROVE  IsWithin(d, c, Precision(r))
<1>1. PICK m, k \in Nat : m = Mid(n, a) /\ k = Half(a) /\ m - n <= k /\ n - m <= k /\ k <= 3000
  BY MidNear
<1>2. PICK p \in Nat : p = Precision(r) /\ p = 9100 + 9100 * k
  <2>1. 9100 + 9100 * k \in Nat
    BY SMT
  <2> QED BY <1>1, <2>1, PrecisionIs, UnitsAre
<1>3. c.degrees \in Nat /\ c.grains \in Nat
  BY DEF Angle
<1>4. Size(c) = c.degrees * Degree + c.grains /\ Size(d) = c.degrees * Degree + Hundredth * m
  BY <1>1 DEF Size
<1>5. Size(c) - Size(d) <= p /\ Size(d) - Size(c) <= p /\ p < Degree
  BY <1>1, <1>2, <1>3, <1>4, UnitsAre, SMT
<1>6. IsWithin(d, c, p)
  BY <1>5, WithinIs
<1> QED BY <1>2, <1>6

\* Ten thousandths of a minute are near.
IsClipped(m) == m = 599999
FineNear(m, g) ==
  /\ IsScaled(m) /\ 91 * m - g <= 46
  /\ g - 91 * m <= 46 \/ (IsClipped(m) /\ g - 91 * m <= 90)

Fine(c) == Scaled(c, TRUE)

\* Scaling for DAO rounds to the nearest ten thousandth, except at the end of a degree.
LEMMA FineIs ==
  ASSUME NEW c \in Angle, c.grains < Degree
  PROVE  FineNear(Fine(c), c.grains)
<1>1. PICK g, m \in Int : g = c.grains /\ m = Fine(c) /\ g >= 0 /\ g < 54600000
                        /\ m = Least(599999, (2 * g + 91) \div 182)
  <2>1. c.grains \in Nat
    BY DEF Angle
  <2>2. PICK g \in Nat : g = c.grains
    BY <2>1
  <2>3. Rounded(g, 91) = (2 * g + 91) \div 182
    BY SMT DEF Rounded
  <2>4. Fine(c) = Least(599999, (2 * g + 91) \div 182)
    BY <2>2, <2>3 DEF Scaled, Fine
  <2>5. Least(599999, (2 * g + 91) \div 182) \in Int
    BY SMT DEF Least
  <2>6. g \in Int /\ g >= 0 /\ g < 54600000
    BY <2>2, UnitsAre, SMT
  <2> QED BY <2>2, <2>4, <2>5, <2>6
<1>2. PICK q \in Int : q = (2 * g + 91) \div 182 /\ q * 182 <= 2 * g + 91 /\ 2 * g + 91 < q * 182 + 182
  BY DivBounds, SMT
<1>3. m = IF 599999 < q THEN 599999 ELSE q
  BY <1>1, <1>2, SMT DEF Least
<1>4. m \in Nat /\ m < 600000 /\ 91 * m - g <= 46 /\ (g - 91 * m <= 46 \/ (m = 599999 /\ g - 91 * m <= 90))
  <2>1. q * 182 <= 2 * g + 91 /\ 2 * g + 91 < q * 182 + 182 /\ g >= 0 /\ g < 54600000
    BY <1>1, <1>2
  <2> QED BY <1>3, <2>1, SMT
<1>5. FineNear(m, g)
  <2>1. IsScaled(m)
    BY <1>4 DEF IsScaled
  <2>2. m = 599999 => IsClipped(m)
    BY DEF IsClipped
  <2>3. g - 91 * m <= 46 \/ (IsClipped(m) /\ g - 91 * m <= 90)
    BY <1>4, <2>2
  <2> QED BY <1>4, <2>1, <2>3 DEF FineNear
<1> QED BY <1>1, <1>5

\* The hundredths that are written of a coordinate are that near.
LEMMA WrittenNear ==
  ASSUME NEW c \in Angle, c.grains < Degree, NEW dao \in BOOLEAN, NEW n, n = Scaled(c, dao) \div 100
  PROVE  /\ n \in Nat /\ n < 6000
         /\ Hundredth * n - c.grains <= Hundredth /\ c.grains - Hundredth * n <= Hundredth
<1>1. c.grains \in Nat
  BY DEF Angle
<1>2. PICK h, x \in Nat : x < Hundredth /\ c.grains = h * Hundredth + x
  BY <1>1, HundredthsOf
<1>3. ScaledAre(c, h, x)
  BY <1>2, ScaledIs
<1>4. CASE dao
  <2>1. FineNear(Scaled(c, dao), c.grains)
    <3>1. dao = TRUE
      BY <1>4
    <3> QED BY <3>1, FineIs, Zenon DEF Fine
  <2>2. PICK m \in Nat : m = Scaled(c, dao) /\ m < 600000 /\ 91 * m - c.grains <= 46 /\ c.grains - 91 * m <= 90
    <3>1. PICK m : m = Scaled(c, dao)
      OBVIOUS
    <3>2. m \in Nat /\ m < 600000 /\ 91 * m - c.grains <= 46 /\ c.grains - 91 * m <= 90
      BY <1>1, <2>1, <3>1, SMT DEF FineNear, IsScaled, IsClipped
    <3> QED BY <3>1, <3>2
  <2>3. n \in Int /\ n * 100 <= m /\ m < n * 100 + 100
    BY <2>2, DivBounds, SMT
  <2> QED BY <1>1, <2>2, <2>3, UnitsAre, SMT
<1>5. CASE ~ dao
  <2>1. IsScaled(Scaled(c, dao)) /\ (n = h \/ (x # 0 /\ n = h + 1))
    <3>1. dao = FALSE
      BY <1>5
    <3> QED BY <1>3, <3>1 DEF ScaledAre
  <2>2. PICK m \in Nat : m = Scaled(c, dao) /\ m < 600000
    BY <2>1 DEF IsScaled
  <2>3. n \in Int /\ n * 100 <= m /\ m < n * 100 + 100
    BY <2>2, DivBounds, SMT
  <2>4. n \in Nat /\ n < 6000
    BY <2>2, <2>3, SMT
  <2> QED BY <1>1, <1>2, <2>1, <2>4, UnitsAre, SMT
<1> QED BY <1>4, <1>5

\* With DAO they are within a step of base 91.
LEMMA WithDaoNear ==
  ASSUME NEW c \in Angle, c.grains < Degree, NEW n, n = Fine(c) \div 100,
         NEW b, b = DaoDigit(Fine(c) % 100)
  PROVE  /\ n \in Nat /\ n < 6000 /\ b \in 0 .. 90
         /\ Hundredth * n + 100 * b - c.grains <= 100 /\ c.grains - (Hundredth * n + 100 * b) <= 100
<1>1. PICK g \in Nat : g = c.grains
  BY DEF Angle
<1>2. FineNear(Fine(c), g)
  BY <1>1, FineIs
<1>3. PICK m \in Nat : m = Fine(c) /\ m < 600000
                   /\ 91 * m - g <= 46 /\ (g - 91 * m <= 46 \/ (m = 599999 /\ g - 91 * m <= 90))
  <2>1. PICK m : m = Fine(c)
    OBVIOUS
  <2>2. m \in Nat /\ m < 600000 /\ 91 * m - g <= 46 /\ (g - 91 * m <= 46 \/ (m = 599999 /\ g - 91 * m <= 90))
    BY <1>2, <2>1, SMT DEF FineNear, IsScaled, IsClipped
  <2> QED BY <2>1, <2>2
<1>4. n \in Int /\ n * 100 <= m /\ m < n * 100 + 100
  BY <1>3, DivBounds, SMT
<1>5. PICK s \in Nat : s = m % 100 /\ m = 100 * n + s /\ s < 100
  BY <1>3, <1>4, SMT
<1>6. n \in Nat /\ n < 6000
  BY <1>3, <1>4, SMT
<1>7. b \in Int /\ b * 22 <= 20 * s + 11 /\ 20 * s + 11 < b * 22 + 22
  <2>1. b = (20 * s + 11) \div 22
    BY <1>3, <1>5 DEF DaoDigit
  <2> QED BY <2>1, DivBounds, SMT
<1>8. b \in 0 .. 90
  BY <1>5, <1>7, SMT
<1>9. 9100 * n + 100 * b - g <= 100
  BY <1>3, <1>5, <1>7, SMT
<1>10. g - (9100 * n + 100 * b) <= 100
  <2>1. CASE g - 91 * m <= 46
    BY <1>3, <1>5, <1>7, <2>1, SMT
  <2>2. CASE m = 599999 /\ g - 91 * m <= 90
    <3>1. s = 99
      BY <1>4, <1>5, <2>2, SMT
    <3> QED BY <1>3, <1>5, <1>7, <2>2, <3>1, SMT
  <2> QED BY <1>3, <2>1, <2>2
<1> QED BY <1>1, <1>6, <1>8, <1>9, <1>10, UnitsAre, SMT

\* What becomes of a coordinate that is written and read.
EncodedTo(c, a, dao, limit, t, d, v) ==
  /\ t \in AngleText /\ TrailingBlanks(t.digits) = a /\ Coordinate(t, limit, a) = {d} /\ IsWhole(d, a, v)
  /\ d.degrees = c.degrees /\ d.negative = (c.negative /\ Size(c) # 0)
  /\ d.grains = Hundredth * Mid(Scaled(c, dao) \div 100, a)

\* A coordinate within its limit is written and read so.
LEMMA EncodedComesBack ==
  ASSUME NEW c \in Angle, c.grains < Degree, NEW a \in 0 .. 4, NEW dao \in BOOLEAN,
         NEW limit \in Nat, c.degrees <= limit, NEW t, t = EncodedCoordinate(c, a, dao)
  PROVE  \E d, v : EncodedTo(c, a, dao, limit, t, d, v)
<1> DEFINE e == [degrees |-> c.degrees, negative |-> c.negative /\ Size(c) # 0,
                 grains |-> Hundredth * Mid(Scaled(c, dao) \div 100, a)]
<1>1. t \in AngleText /\ TrailingBlanks(t.digits) = a /\ Coordinate(t, limit, a) = {e}
  <2>1. ComesBack(c, a, dao, limit, t)
    BY CoordinateBack
  <2> QED BY <2>1 DEF ComesBack
<1>2. /\ e.degrees = c.degrees /\ e.negative = (c.negative /\ Size(c) # 0)
      /\ e.grains = Hundredth * Mid(Scaled(c, dao) \div 100, a)
  OBVIOUS
<1> HIDE DEF e
<1>3. PICK d, v : Coordinate(t, limit, a) = {d} /\ IsWhole(d, a, v)
  <2>1. Coordinate(t, limit, a) # {}
    BY <1>1
  <2> QED BY <1>1, <2>1, CoordinateOf
<1>4. d = e
  BY <1>1, <1>3
<1>5. EncodedTo(c, a, dao, limit, t, d, v)
  BY <1>1, <1>2, <1>3, <1>4 DEF EncodedTo
<1> QED BY <1>5

\* With or without DAO it is within the precision.
LEMMA EncodedNear ==
  ASSUME NEW c \in Angle, c.grains < Degree, NEW a \in 0 .. 4, NEW dao \in BOOLEAN,
         NEW limit, NEW t, NEW d, NEW v, EncodedTo(c, a, dao, limit, t, d, v),
         NEW r, r.ambiguity = a, NEW g \in Nat,
         \/ r.datum = "none" /\ g = 0
         \/ r.datum # "none" /\ dao /\ a = 0 /\ g = 100 * DaoDigit(Scaled(c, TRUE) % 100)
  PROVE  IsWithin(Moved(d, g), c, Precision(r))
<1> DEFINE n == Scaled(c, dao) \div 100
<1>1. /\ IsWhole(d, a, v)
      /\ d.degrees = c.degrees /\ d.negative = (c.negative /\ Size(c) # 0)
      /\ d.grains = Hundredth * Mid(n, a)
  BY DEF EncodedTo
<1>2. d \in Angle
  BY <1>1 DEF IsWhole
<1>3. c.negative \in BOOLEAN
  BY DEF Angle
<1>4. d.negative = c.negative \/ Size(c) = 0
  BY <1>1, <1>3
<1>5. /\ n \in Nat /\ n < 6000
      /\ Hundredth * n - c.grains <= Hundredth /\ c.grains - Hundredth * n <= Hundredth
  BY WrittenNear
<1> HIDE DEF n
<1>6. CASE r.datum = "none" /\ g = 0
  <2>1. IsWithin(d, c, Precision(r))
    BY <1>1, <1>2, <1>4, <1>5, <1>6, MiddleNear
  <2> QED BY <1>6, <2>1 DEF Moved
<1>7. CASE r.datum # "none" /\ dao /\ a = 0 /\ g = 100 * DaoDigit(Scaled(c, TRUE) % 100)
  <2>1. n = Fine(c) \div 100 /\ g = 100 * DaoDigit(Fine(c) % 100)
    <3>1. dao = TRUE
      BY <1>7
    <3> QED BY <1>7, <3>1, Zenon DEF Fine, n
  <2>2. Mid(n, a) = n
    BY <1>7 DEF Mid
  <2>3. PICK b : b = DaoDigit(Fine(c) % 100)
    OBVIOUS
  <2>4. /\ b \in 0 .. 90
        /\ Hundredth * n + 100 * b - c.grains <= 100 /\ c.grains - (Hundredth * n + 100 * b) <= 100
    BY <2>1, <2>3, WithDaoNear
  <2>5. g = 100 * b
    BY <2>1, <2>3
  <2> DEFINE e == Moved(d, g)
  <2>6. e \in Angle /\ e.negative = d.negative /\ e.degrees = d.degrees /\ e.grains = d.grains + g
    <3>1. PICK datum : datum = "base91"
      OBVIOUS
    <3>2. g \in DaoRest(datum)
      BY <2>4, <2>5, <3>1 DEF DaoRest
    <3> HIDE DEF e
    <3>3. IsGood(Moved(d, g), a, datum) /\ Moved(d, g).negative = d.negative /\ Moved(d, g).degrees = d.degrees
          /\ Moved(d, g).grains = d.grains + g
      BY <1>1, <3>2, MovedIs
    <3> QED BY <3>3 DEF IsGood, e
  <2> HIDE DEF e
  <2>7. PICK m \in Nat : m = 100 /\ m = Precision(r) /\ m < Degree
    <3>1. 100 \in Nat /\ 100 < Degree
      BY UnitsAre, SMT
    <3>2. Precision(r) = 100
      BY <1>7 DEF Precision
    <3> QED BY <3>1, <3>2
  <2>8. Size(c) - Size(e) <= m /\ Size(e) - Size(c) <= m
    <3>1. Size(c) = c.degrees * Degree + c.grains
      BY DEF Size
    <3>2. Size(e) = c.degrees * Degree + (Hundredth * n + 100 * b)
      BY <1>1, <2>2, <2>5, <2>6 DEF Size
    <3>3. c.degrees \in Nat /\ c.grains \in Nat
      BY DEF Angle
    <3> QED BY <1>5, <2>4, <2>7, <3>1, <3>2, <3>3, UnitsAre, SMT
  <2>9. IsWithin(e, c, m)
    BY <1>4, <2>6, <2>7, <2>8, WithinIs
  <2> QED BY <2>7, <2>9 DEF e
<1> QED BY <1>6, <1>7

-----------------------------------------------------------------------------
(* What the first receiver makes of what is sent.                          *)

Arrives(p, r) ==
  /\ <<r.code, r.ambiguity>> = <<p.code, p.ambiguity>>
  /\ r.table = p.table \/ (p.compressed /\ p.table \in Range(Overlay))
  /\ IF p.compressed
     THEN r.lat.cell = p.lat.cell /\ r.lon.cell = p.lon.cell
     ELSE (p.dao /\ p.ambiguity = 0) \/ IsPlain(p.comment) =>
            IsWithin(r.lat, p.lat, Precision(r)) /\ IsWithin(r.lon, p.lon, Precision(r))
ArrivesAs(p, t, r) == ParsePosition(t) = {r} /\ Reported(r) /\ Arrives(p, r)

\* A plain comment has no DAO.
LEMMA PlainIs ==
  ASSUME NEW comment, IsPlain(comment)
  PROVE  NoDao(comment)
<1>1. \A x \in {Words, White, Slash} : x.kind # "dao"
  BY DEF Words, White, Slash
<1> QED BY <1>1 DEF IsPlain, NoDao, IsDao

\* Coordinates of a position that is not compressed.
LEMMA PositionIs ==
  ASSUME NEW p, IsPosition(p)
  PROVE  /\ HasExtensions(p) /\ p.ambiguity \in Nat /\ p.dao \in BOOLEAN /\ p.compressed \in BOOLEAN
         /\ ~ p.compressed => /\ p.lat \in Angle /\ p.lat.grains < Degree
                              /\ p.lon \in Angle /\ p.lon.grains < Degree
         /\ p.compressed => /\ p.lat.exact = FALSE /\ p.lon.exact = FALSE /\ NoDao(p.comment)
<1>1. HasExtensions(p)
  BY DEF IsPosition, IsComment, HasExtensions
<1>2. ASSUME ~ p.compressed
      PROVE  /\ p.lat \in Angle /\ p.lat.grains < Degree
             /\ p.lon \in Angle /\ p.lon.grains < Degree
  <2>0. PICK k \in Nat : k = Degree
    BY UnitsAre, SMT
  <2> DEFINE G == 0 .. k - 1
  <2>1. {p.lat, p.lon} \subseteq [degrees : Nat, grains : G, negative : BOOLEAN]
    BY <1>2, <2>0 DEF IsPosition
  <2>2. \A x \in G : x \in Nat /\ x < Degree
    BY <2>0, SMT
  <2> HIDE DEF G
  <2> QED BY <2>1, <2>2 DEF Angle
<1>3. ASSUME p.compressed
      PROVE  p.lat.exact = FALSE /\ p.lon.exact = FALSE /\ NoDao(p.comment)
  <2>1. {p.lat, p.lon} \subseteq [cell : Nat, exact : {FALSE}]
    BY <1>3 DEF IsPosition
  <2>2. NoDao(p.comment)
    BY <1>3 DEF IsPosition, IsComment, NoDao, IsDao
  <2> QED BY <2>1, <2>2
<1>4. p.ambiguity \in Nat /\ p.dao \in BOOLEAN /\ p.compressed \in BOOLEAN
  BY DEF IsPosition
<1> QED BY <1>1, <1>2, <1>3, <1>4

\* What encode_position makes of an uncompressed position arrives.
LEMMA UncompressedArrives ==
  ASSUME NEW p, IsPosition(p), ~ p.compressed, NEW t \in EncodePosition(p)
  PROVE  \E r : ArrivesAs(p, t, r)
<1> DEFINE a == p.ambiguity
           b == DaoDigit(Scaled(p.lat, TRUE) % 100)
           l == DaoDigit(Scaled(p.lon, TRUE) % 100)
<1>1. /\ HasExtensions(p) /\ a \in Nat /\ p.dao \in BOOLEAN
      /\ p.lat \in Angle /\ p.lat.grains < Degree
      /\ p.lon \in Angle /\ p.lon.grains < Degree
  BY PositionIs
<1>2. Normal(p.lat) = p.lat /\ Normal(p.lon) = p.lon
  BY <1>1, NormalIs
<1>3. t = Uncompressed(p) /\ IsEncodable(p.lat, 89) /\ IsEncodable(p.lon, 179) /\ a \in 0 .. 4
  <2>1. EncodePosition(p) =
          IF IsEncodable(p.lat, 89) /\ IsEncodable(p.lon, 179) /\ p.ambiguity <= 4
          THEN {Uncompressed(p)}
          ELSE {}
    BY DEF EncodePosition
  <2>2. a <= 4
    BY <2>1
  <2>3. a \in 0 .. 4
    BY <1>1, <2>2, SMT
  <2> QED BY <2>1, <2>3
<1>4. PICK dao \in BOOLEAN : dao <=> p.dao /\ p.ambiguity = 0
  OBVIOUS
<1>5. /\ t.form = "uncompressed" /\ t.table = p.table /\ t.code = p.code
      /\ t.lat = EncodedCoordinate(Normal(p.lat), p.ambiguity, dao)
      /\ t.lon = EncodedCoordinate(Normal(p.lon), p.ambiguity, dao)
      /\ t.rest = MotionText(p) \o AltitudeAndComment(p) \o DaoText(p, dao)
  <2>1. t = Uncompressed(p)
    BY <1>3
  <2> QED BY <1>4, <2>1, UncompressedIs
<1>6. t.lat = EncodedCoordinate(p.lat, a, dao) /\ t.lon = EncodedCoordinate(p.lon, a, dao)
  BY <1>2, <1>5
<1>7. b \in 0 .. 90 /\ l \in 0 .. 90
  <2>1. DaoDigit(Fine(p.lat) % 100) \in 0 .. 90 /\ DaoDigit(Fine(p.lon) % 100) \in 0 .. 90
    BY <1>1, WithDaoNear
  <2> QED BY <2>1, Zenon DEF Fine
<1>8. b = DaoDigit(Scaled(Normal(p.lat), TRUE) % 100) /\ l = DaoDigit(Scaled(Normal(p.lon), TRUE) % 100)
  BY <1>2
<1> HIDE DEF a, b, l
<1>9. PICK c, v : EncodedTo(p.lat, a, dao, 89, t.lat, c, v)
  <2>1. PICK limit \in Nat : limit = 89
    BY SMT
  <2>2. p.lat.degrees <= limit
    BY <1>1, <1>2, <1>3, <2>1, EncodableIs
  <2> QED BY <1>1, <1>3, <1>6, <2>1, <2>2, EncodedComesBack
<1>10. PICK d, w : EncodedTo(p.lon, a, dao, 179, t.lon, d, w)
  <2>1. PICK limit \in Nat : limit = 179
    BY SMT
  <2>2. p.lon.degrees <= limit
    BY <1>1, <1>2, <1>3, <2>1, EncodableIs
  <2> QED BY <1>1, <1>3, <1>6, <2>1, <2>2, EncodedComesBack
<1>11. /\ Coordinate(t.lat, 89, a) = {c} /\ IsWhole(c, a, v) /\ TrailingBlanks(t.lat.digits) = a
       /\ Coordinate(t.lon, 179, a) = {d} /\ IsWhole(d, a, w)
  BY <1>9, <1>10 DEF EncodedTo
<1>12. c \in Angle /\ d \in Angle
  BY <1>11 DEF IsWhole
<1>13. /\ t.rest \in Seq(Extension)
       /\ dao => EndsIn(t.rest, Dao("base91", b, l))
       /\ ~ dao /\ NoDao(p.comment) => NoDao(t.rest)
  BY <1>1, <1>5, <1>7, <1>8, RestIs
<1>14. PICK datum, g, h, course, speed, altitude, comment :
         ReadAs(t, c, d, a, datum, g, h, course, speed, altitude, comment)
  BY <1>5, <1>11, <1>12, <1>13, ParsedAs
<1> DEFINE r == Rep(t, Moved(c, g), Moved(d, h), a, course, speed, altitude, datum, comment)
<1>15. ParsePosition(t) = {r} /\ Said(t, t.rest, datum, g, h, course, speed, altitude, comment)
  BY <1>14 DEF ReadAs
<1>16. /\ comment \in Seq(Extension) /\ datum \in Datum
       /\ g \in DaoRest(datum) /\ h \in DaoRest(datum)
       /\ IsOption(course) /\ IsOption(speed) /\ IsOption(altitude)
       /\ course \subseteq Nat /\ altitude \subseteq SevenPlaces
       /\ datum = "none" => NoDao(comment)
       /\ IsWeather(t) \/ NoDao(t.rest) => datum = "none"
       /\ ~ IsWeather(t) =>
            \A i, j \in 0 .. 90 :
              EndsIn(t.rest, Dao("base91", i, j)) => datum = "base91" /\ g = 100 * i /\ h = 100 * j
  BY <1>15 DEF Said
<1>17. /\ r.table = p.table /\ r.code = p.code /\ r.ambiguity = a /\ r.datum = datum
       /\ r.lat = Moved(c, g) /\ r.lon = Moved(d, h)
  BY <1>5, RepIs
<1>18. Surveyed(r)
  <2>1. t.form # "compressed"
    BY <1>5
  <2> QED BY <1>3, <1>11, <1>16, <2>1, ReadIsSurveyed DEF a
<1> HIDE DEF r
<1>19. g \in Nat /\ h \in Nat
  <2>1. \A x \in DaoRest(datum) : x \in Nat
    BY DaoRestBounds
  <2> QED BY <1>16, <2>1
<1>20. ASSUME dao \/ IsPlain(p.comment)
       PROVE  IsWithin(r.lat, p.lat, Precision(r)) /\ IsWithin(r.lon, p.lon, Precision(r))
  <2>1. /\ \/ r.datum = "none" /\ g = 0
           \/ r.datum # "none" /\ dao /\ a = 0 /\ g = 100 * b
        /\ \/ r.datum = "none" /\ h = 0
           \/ r.datum # "none" /\ dao /\ a = 0 /\ h = 100 * l
    <3>1. CASE datum = "none"
      <4>1. g = 0 /\ h = 0
        BY <1>16, <3>1 DEF DaoRest
      <4> QED BY <1>17, <3>1, <4>1
    <3>2. CASE datum # "none"
      <4>1. ~ IsWeather(t) /\ ~ NoDao(t.rest)
        BY <1>16, <3>2
      <4>2. dao
        BY <1>13, <1>20, <4>1, PlainIs
      <4>3. g = 100 * b /\ h = 100 * l
        BY <1>7, <1>13, <1>16, <4>1, <4>2
      <4>4. a = 0
        BY <1>4, <4>2 DEF a
      <4> QED BY <1>17, <3>2, <4>2, <4>3, <4>4
    <3> QED BY <3>1, <3>2
  <2>2. IsWithin(Moved(c, g), p.lat, Precision(r))
    <3>1. PICK limit : limit = 89
      OBVIOUS
    <3>2. EncodedTo(p.lat, a, dao, limit, t.lat, c, v)
      BY <1>9, <3>1
    <3>3. a \in 0 .. 4
      BY <1>3 DEF a
    <3> QED BY <1>1, <1>17, <1>19, <2>1, <3>2, <3>3, EncodedNear DEF b
  <2>3. IsWithin(Moved(d, h), p.lon, Precision(r))
    <3>1. PICK limit : limit = 179
      OBVIOUS
    <3>2. EncodedTo(p.lon, a, dao, limit, t.lon, d, w)
      BY <1>10, <3>1
    <3>3. a \in 0 .. 4
      BY <1>3 DEF a
    <3> QED BY <1>1, <1>17, <1>19, <2>1, <3>2, <3>3, EncodedNear DEF l
  <2> QED BY <1>17, <2>2, <2>3
<1>21. Arrives(p, r)
  BY <1>4, <1>17, <1>20 DEF Arrives, a
<1>22. ArrivesAs(p, t, r)
  BY <1>15, <1>18, <1>21 DEF ArrivesAs, Reported, r
<1> QED BY <1>22

\* A compressed position arrives in its cell, unless the parser refuses its code.
LEMMA CompressedArrives ==
  ASSUME NEW p, IsPosition(p), p.compressed, NEW t \in EncodePosition(p)
  PROVE  (ParsePosition(t) = {} /\ IsBrace(p)) \/ \E r : ArrivesAs(p, t, r)
<1>1. HasExtensions(p) /\ p.lat.exact = FALSE /\ p.lon.exact = FALSE /\ NoDao(p.comment)
  BY PositionIs
<1>2. PICK lat, lon : CompressedAs(p, t, lat, lon)
  BY <1>1, CompressedIs
<1>3. t.form = "compressed" /\ t.code = p.code /\ lat = p.lat.cell /\ lon = p.lon.cell /\ p.ambiguity = 0
  BY <1>1, <1>2 DEF CompressedAs
<1>4. CASE IsBrace(p)
  <2>1. ParsePosition(t) = ParseCompressed(t)
    BY <1>3 DEF ParsePosition
  <2>2. t.code = "}"
    BY <1>3, <1>4 DEF IsBrace
  <2>3. ParseCompressed(t) = {}
    BY <2>2 DEF ParseCompressed
  <2> QED BY <1>4, <2>1, <2>3
<1>5. CASE ~ IsBrace(p)
  <2>1. PICK r : GridOf(p, t, lat, lon, r)
    BY <1>1, <1>2, <1>5, GridOfIs
  <2>2. /\ ParsePosition(t) = {r} /\ Gridded(r) /\ r.lat.cell = lat /\ r.lon.cell = lon /\ r.code = p.code
        /\ r.table = p.table \/ p.table \in {"a", "b"}
    BY <2>1 DEF GridOf, GridAs
  <2>3. r.ambiguity = p.ambiguity
    BY <1>3, <2>2 DEF Gridded
  <2>4. Range(Overlay) = {"a", "b"}
    <3>1. DOMAIN Overlay = {"0", "1"} /\ Overlay["0"] = "a" /\ Overlay["1"] = "b"
      BY DEF Overlay
    <3> QED BY <3>1 DEF Range
  <2>5. Arrives(p, r)
    BY <1>3, <2>2, <2>3, <2>4 DEF Arrives
  <2>6. ArrivesAs(p, t, r)
    BY <2>2, <2>5 DEF ArrivesAs, Reported
  <2> QED BY <2>6
<1> QED BY <1>4, <1>5

-----------------------------------------------------------------------------
(* Mic-E radios.                                                           *)

\* The digits of a number of hundredths.
FourDigits(n, d1, d2, d3, d4) ==
  /\ IsNumber(100 * n, d1, d2, d3, d4, 0) /\ (100 * n) \div 100 = n
  /\ n \div 1000 = d1 /\ (n \div 100) % 10 = d2 /\ (n \div 10) % 10 = d3 /\ n % 10 = d4
  /\ n \div 100 = 10 * d1 + d2 /\ n % 100 = 10 * d3 + d4

\* A number is its tens and a last digit.
LEMMA LastDecimal ==
  ASSUME NEW n \in Nat
  PROVE  \E a, d \in Nat : n = 10 * a + d /\ d < 10 /\ a = n \div 10 /\ d = n % 10
<1> DEFINE a == n \div 10
           d == n - 10 * a
<1>1. a \in Int /\ a * 10 <= n /\ n < a * 10 + 10 /\ n % 10 = n - 10 * a
  BY SMT
<1> HIDE DEF a
<1>2. a \in Nat /\ d \in Nat /\ n = 10 * a + d /\ d < 10 /\ d = n % 10
  BY <1>1, SMT
<1> QED BY <1>2 DEF a

\* A number of hundredths below a degree has four digits.
LEMMA DigitsAre ==
  ASSUME NEW n \in Nat, n < 6000
  PROVE  \E d1, d2, d3, d4 : FourDigits(n, d1, d2, d3, d4)
<1>1. PICK a, d4 \in Nat : n = 10 * a + d4 /\ d4 < 10 /\ a = n \div 10 /\ d4 = n % 10
  BY LastDecimal
<1>2. PICK b, d3 \in Nat : a = 10 * b + d3 /\ d3 < 10 /\ b = a \div 10 /\ d3 = a % 10
  BY LastDecimal
<1>3. PICK d1, d2 \in Nat : b = 10 * d1 + d2 /\ d2 < 10 /\ d1 = b \div 10 /\ d2 = b % 10
  BY LastDecimal
<1>40. n = 10 * a + d4 /\ d4 < 10 /\ a = 10 * b + d3 /\ d3 < 10 /\ b = 10 * d1 + d2 /\ d2 < 10
  BY <1>1, <1>2, <1>3
<1>4. n = 1000 * d1 + 100 * d2 + 10 * d3 + d4 /\ d1 < 6
  BY <1>40, SMT
<1>5. n \div 1000 = d1 /\ n \div 100 = b /\ n % 100 = 10 * d3 + d4 /\ (100 * n) \div 100 = n
  <2>1. n = 100 * b + (10 * d3 + d4) /\ 10 * d3 + d4 < 100
    BY <1>40, SMT
  <2>2. n \div 100 = b
    BY <2>1, DivIs, SMT
  <2>3. n % 100 = 10 * d3 + d4
    BY <2>1, SMT
  <2>4. n \div 1000 = d1
    <3>1. d1 * 1000 <= n /\ n < d1 * 1000 + 1000
      BY <1>4, <1>40, SMT
    <3> QED BY <3>1, DivIs, SMT
  <2>5. (100 * n) \div 100 = n
    BY SMT
  <2> QED BY <2>2, <2>3, <2>4, <2>5
<1>6. IsNumber(100 * n, d1, d2, d3, d4, 0)
  <2>1. /\ d1 \in 0 .. 5 /\ d2 \in 0 .. 9 /\ d3 \in 0 .. 9 /\ d4 \in 0 .. 9 /\ 0 \in 0 .. 99
        /\ 100 * n = 100000 * d1 + 10000 * d2 + 1000 * d3 + 100 * d4 + 0
    BY <1>40, <1>4, SMT
  <2> QED BY <2>1, SMT DEF IsNumber
<1>7. FourDigits(n, d1, d2, d3, d4)
  <2>1. (n \div 100) % 10 = d2 /\ (n \div 10) % 10 = d3 /\ n % 10 = d4 /\ n \div 100 = 10 * d1 + d2
    <3>1. n \div 100 = b /\ d2 = b % 10 /\ a = n \div 10 /\ d3 = a % 10 /\ d4 = n % 10
      BY <1>1, <1>2, <1>3, <1>5
    <3>2. b = 10 * d1 + d2
      BY <1>40
    <3>3. (n \div 100) % 10 = d2
      BY <3>1
    <3>4. (n \div 10) % 10 = d3
      BY <3>1
    <3>5. n \div 100 = 10 * d1 + d2
      BY <3>1, <3>2
    <3> QED BY <3>1, <3>3, <3>4, <3>5
  <2> QED BY <1>5, <1>6, <2>1 DEF FourDigits
<1> QED BY <1>7

\* What a radio can say, and its text.
RadioSays(p, n, m, course, speed) ==
  /\ HasExtensions(p) /\ p.ambiguity \in 0 .. 4 /\ p.comment = <<>> /\ p.altitude = {}
  /\ p.lat \in Angle /\ p.lat.grains < Degree /\ p.lat.degrees < 90
  /\ p.lon \in Angle /\ p.lon.grains < Degree /\ p.lon.degrees < 180
  /\ n = p.lat.grains \div Hundredth /\ m = p.lon.grains \div Hundredth
  /\ p.course = {course} /\ p.speed = {speed} /\ course \in 0 .. 360 /\ speed \in 0 .. 799
  /\ (CHOOSE c \in p.course : TRUE) = course /\ (CHOOSE s \in p.speed : TRUE) = speed

\* A radio's position says one course and one speed.
LEMMA RadioIs ==
  ASSUME NEW p, IsRadio(p)
  PROVE  \E n, m, course, speed : RadioSays(p, n, m, course, speed)
<1>1. IsPosition(p) /\ ~ p.compressed
  BY DEF IsRadio
<1>2. /\ HasExtensions(p) /\ p.lat \in Angle /\ p.lat.grains < Degree /\ p.lon \in Angle /\ p.lon.grains < Degree
  BY <1>1, PositionIs
<1>3. PICK course \in p.course : course \in 0 .. 360
  BY DEF IsRadio
<1>4. PICK speed \in p.speed : speed \in 0 .. 799
  BY DEF IsRadio
<1>5. /\ (CHOOSE c \in p.course : TRUE) = course /\ p.course = {course}
      /\ (CHOOSE s \in p.speed : TRUE) = speed /\ p.speed = {speed}
  BY <1>2, <1>3, <1>4, OptionIs DEF HasExtensions
<1> DEFINE n == p.lat.grains \div Hundredth
           m == p.lon.grains \div Hundredth
<1>6. /\ p.ambiguity \in 0 .. 4 /\ p.comment = <<>> /\ p.altitude = {}
      /\ p.lat.degrees < 90 /\ p.lon.degrees < 180
  BY DEF IsRadio
<1>7. RadioSays(p, n, m, course, speed)
  BY <1>2, <1>3, <1>4, <1>5, <1>6 DEF RadioSays
<1> QED BY <1>7

FourOf(n) == <<n \div 1000, (n \div 100) % 10, (n \div 10) % 10, n % 10>>
RadioText(p, t, n, m, course, speed) ==
  /\ t.form = "mice" /\ t.table = p.table /\ t.code = p.code /\ t.rest = <<>>
  /\ t.digits = [i \in 1 .. 6 |-> IF i <= 6 - p.ambiguity
                                  THEN (<<p.lat.degrees \div 10, p.lat.degrees % 10>> \o FourOf(n))[i] ELSE Blank]
  /\ t.north = ~ p.lat.negative /\ t.west = p.lon.negative
  /\ t.far = (p.lon.degrees < 10 \/ p.lon.degrees >= 100)
  /\ t.bytes = <<28 + CASE p.lon.degrees < 10 -> p.lon.degrees + 90
                        [] p.lon.degrees \in 100 .. 109 -> p.lon.degrees - 20
                        [] p.lon.degrees >= 110 -> p.lon.degrees - 100
                        [] OTHER -> p.lon.degrees,
                 28 + (IF m \div 100 < 10 THEN (m \div 100) + 60 ELSE m \div 100),
                 28 + (m % 100),
                 28 + (speed \div 10) + (IF speed < 200 THEN 80 ELSE 0),
                 32 + 10 * (speed % 10) + (course \div 100),
                 28 + (course % 100)>>

\* The parts of a radio's text.
LEMMA RadioTextIs ==
  ASSUME NEW p, NEW n, NEW m, NEW course, NEW speed, RadioSays(p, n, m, course, speed), NEW t, t = MiceText(p)
  PROVE  RadioText(p, t, n, m, course, speed)
<1>1. /\ n = p.lat.grains \div Hundredth /\ m = p.lon.grains \div Hundredth
      /\ (CHOOSE c \in p.course : TRUE) = course /\ (CHOOSE s \in p.speed : TRUE) = speed
  BY DEF RadioSays
<1> DEFINE c == CHOOSE x \in p.course : TRUE
           s == CHOOSE x \in p.speed : TRUE
           k == p.lat.grains \div Hundredth
           l == p.lon.grains \div Hundredth
<1>2. c = course /\ s = speed /\ k = n /\ l = m
  BY <1>1
<1>3. t.form = "mice" /\ t.table = p.table /\ t.code = p.code /\ t.rest = <<>>
  BY DEF MiceText
<1>4. /\ t.north = ~ p.lat.negative /\ t.west = p.lon.negative
      /\ t.far = (p.lon.degrees < 10 \/ p.lon.degrees >= 100)
  BY DEF MiceText
<1>5. t.digits = [i \in 1 .. 6 |-> IF i <= 6 - p.ambiguity
                                   THEN (<<p.lat.degrees \div 10, p.lat.degrees % 10>> \o FourOf(k))[i] ELSE Blank]
  BY DEF MiceText, FourOf
<1>6. t.bytes = <<28 + CASE p.lon.degrees < 10 -> p.lon.degrees + 90
                         [] p.lon.degrees \in 100 .. 109 -> p.lon.degrees - 20
                         [] p.lon.degrees >= 110 -> p.lon.degrees - 100
                         [] OTHER -> p.lon.degrees,
                  28 + (IF l \div 100 < 10 THEN (l \div 100) + 60 ELSE l \div 100),
                  28 + (l % 100),
                  28 + (s \div 10) + (IF s < 200 THEN 80 ELSE 0),
                  32 + 10 * (s % 10) + (c \div 100),
                  28 + (c % 100)>>
  BY DEF MiceText
<1> HIDE DEF c, s, k, l
<1> QED BY <1>2, <1>3, <1>4, <1>5, <1>6 DEF RadioText

\* Its numbers come back.
SpeedBytes(course, speed, b4, b5, b6) ==
  /\ b4 = 28 + (speed \div 10) + (IF speed < 200 THEN 80 ELSE 0)
  /\ b5 = 32 + 10 * (speed % 10) + (course \div 100)
  /\ b6 = 28 + (course % 100)

SpeedReads(course, speed, b4, b5, b6) ==
  /\ b4 \in 0 .. 255 /\ b5 \in 0 .. 255 /\ b6 \in 0 .. 255
  /\ 10 * (b4 - 28) + Quotient(b5 - 28, 10) = (IF speed < 200 THEN speed + 800 ELSE speed)
  /\ 100 * Remainder(b5 - 28, 10) + b6 - 28 = course + 400

\* Course and speed come back from three bytes.
LEMMA SpeedBack ==
  ASSUME NEW course \in 0 .. 360, NEW speed \in 0 .. 799, NEW b4, NEW b5, NEW b6,
         SpeedBytes(course, speed, b4, b5, b6)
  PROVE  SpeedReads(course, speed, b4, b5, b6)
<1>1. PICK q, r \in Nat : speed = 10 * q + r /\ r < 10 /\ q = speed \div 10 /\ r = speed % 10
  BY LastDecimal, SMT
<1>2. PICK e, f \in Nat : course = 100 * e + f /\ f < 100 /\ e = course \div 100 /\ f = course % 100
  <2> DEFINE e == course \div 100
             f == course - 100 * e
  <2>1. e \in Int /\ e * 100 <= course /\ course < e * 100 + 100 /\ course % 100 = course - 100 * e
    BY SMT
  <2> HIDE DEF e
  <2>2. e \in Nat /\ f \in Nat /\ course = 100 * e + f /\ f < 100 /\ f = course % 100
    BY <2>1, SMT
  <2> QED BY <2>2 DEF e
<1>3. /\ b4 = 28 + q + (IF speed < 200 THEN 80 ELSE 0) /\ b5 = 32 + 10 * r + e /\ b6 = 28 + f
  BY <1>1, <1>2 DEF SpeedBytes
<1>4. speed = 10 * q + r /\ r < 10 /\ course = 100 * e + f /\ f < 100 /\ e <= 3 /\ q <= 79
  BY <1>1, <1>2, SMT
<1>5. b4 \in 0 .. 255 /\ b5 \in 0 .. 255 /\ b6 \in 0 .. 255
  BY <1>3, <1>4, SMT
<1>6. Quotient(b5 - 28, 10) = r
  <2>1. b5 - 28 \in Nat /\ b5 - 28 = 10 * r + (e + 4) /\ e + 4 < 10
    BY <1>3, <1>4, SMT
  <2>2. (b5 - 28) \div 10 = r
    BY <2>1, DivIs, SMT
  <2>3. b5 - 28 >= 0
    BY <2>1, SMT
  <2> QED BY <2>2, <2>3 DEF Quotient
<1>7. Remainder(b5 - 28, 10) = e + 4
  <2>1. Remainder(b5 - 28, 10) = b5 - 28 - 10 * r
    BY <1>6 DEF Remainder
  <2> QED BY <1>3, <1>4, <2>1, SMT
<1>8. 10 * (b4 - 28) + r = (IF speed < 200 THEN speed + 800 ELSE speed)
  BY <1>3, <1>4, SMT
<1>9. 100 * (e + 4) + b6 - 28 = course + 400
  BY <1>3, <1>4, SMT
<1> QED BY <1>5, <1>6, <1>7, <1>8, <1>9 DEF SpeedReads

DegreesByte(degrees) ==
  28 + CASE degrees < 10 -> degrees + 90
         [] degrees \in 100 .. 109 -> degrees - 20
         [] degrees >= 110 -> degrees - 100
         [] OTHER -> degrees

\* The degrees of the longitude come back from a byte and a flag.
LEMMA DegreesBack ==
  ASSUME NEW degrees \in Nat, degrees < 180, NEW far, far <=> (degrees < 10 \/ degrees >= 100)
  PROVE  DegreesByte(degrees) \in 0 .. 255 /\ MiceLongitude(DegreesByte(degrees), far) = degrees
<1>1. CASE degrees < 10
  <2>0. far
    <3>1. degrees < 10 \/ degrees >= 100
      BY <1>1, SMT
    <3> QED BY <3>1
  <2>1. DegreesByte(degrees) = degrees + 118
    BY <1>1, SMT DEF DegreesByte
  <2>2. MiceLongitude(degrees + 118, far) = degrees
    BY <1>1, <2>0, SMT DEF MiceLongitude
  <2>3. degrees + 118 \in 0 .. 255
    BY <1>1, SMT
  <2> QED BY <2>1, <2>2, <2>3
<1>2. CASE degrees \in 100 .. 109
  <2>0. far
    <3>1. degrees < 10 \/ degrees >= 100
      BY <1>2, SMT
    <3> QED BY <3>1
  <2>1. DegreesByte(degrees) = degrees + 8
    BY <1>2, SMT DEF DegreesByte
  <2>2. MiceLongitude(degrees + 8, far) = degrees
    BY <1>2, <2>0, SMT DEF MiceLongitude
  <2>3. degrees + 8 \in 0 .. 255
    BY <1>2, SMT
  <2> QED BY <2>1, <2>2, <2>3
<1>3. CASE degrees >= 110
  <2>0. far
    <3>1. degrees < 10 \/ degrees >= 100
      BY <1>3, SMT
    <3> QED BY <3>1
  <2>1. DegreesByte(degrees) = degrees - 72
    BY <1>3, SMT DEF DegreesByte
  <2>2. MiceLongitude(degrees - 72, far) = degrees
    BY <1>3, <2>0, SMT DEF MiceLongitude
  <2>3. degrees - 72 \in 0 .. 255
    BY <1>3, SMT
  <2> QED BY <2>1, <2>2, <2>3
<1>4. CASE degrees \in 10 .. 99
  <2>0. ~ far
    <3>1. ~ (degrees < 10 \/ degrees >= 100)
      BY <1>4, SMT
    <3> QED BY <3>1
  <2>1. DegreesByte(degrees) = degrees + 28
    BY <1>4, SMT DEF DegreesByte
  <2>2. MiceLongitude(degrees + 28, far) = degrees
    BY <1>4, <2>0, SMT DEF MiceLongitude
  <2>3. degrees + 28 \in 0 .. 255
    BY <1>4, SMT
  <2> QED BY <2>1, <2>2, <2>3
<1>5. degrees < 10 \/ degrees \in 100 .. 109 \/ degrees >= 110 \/ degrees \in 10 .. 99
  BY SMT
<1> QED BY <1>1, <1>2, <1>3, <1>4, <1>5

\* Two digits and four, as a sequence.
LEMMA SixDigits ==
  ASSUME NEW a \in Nat, NEW b \in Nat, NEW c \in Nat, NEW d \in Nat, NEW e \in Nat, NEW f \in Nat,
         NEW s, s = <<a, b>> \o <<c, d, e, f>>
  PROVE  s[1] = a /\ s[2] = b /\ s[3] = c /\ s[4] = d /\ s[5] = e /\ s[6] = f
BY SMT

\* The digits of a radio's latitude.
LatitudeDigits(f, a, e1, e2, d1, d2, d3, d4) ==
  /\ f \in [1 .. 6 -> 0 .. 10] /\ \A i \in 1 .. 6 - a : f[i] # Blank
  /\ TrailingBlanks(f) = a /\ f[1] = e1 /\ f[2] = e2
  /\ IsCut(SubSeq(f, 3, 6), d1, d2, d3, d4, a)

\* Six characters of which the last ones are blank hold them.
LEMMA LatitudeIs ==
  ASSUME NEW a \in 0 .. 4, NEW e1 \in 0 .. 9, NEW e2 \in 0 .. 9,
         NEW d1 \in 0 .. 9, NEW d2 \in 0 .. 9, NEW d3 \in 0 .. 9, NEW d4 \in 0 .. 9,
         NEW f, f = [i \in 1 .. 6 |-> IF i <= 6 - a THEN (<<e1, e2>> \o <<d1, d2, d3, d4>>)[i] ELSE Blank]
  PROVE  LatitudeDigits(f, a, e1, e2, d1, d2, d3, d4)
<1> DEFINE s == <<e1, e2>> \o <<d1, d2, d3, d4>>
<1>1. s[1] = e1 /\ s[2] = e2 /\ s[3] = d1 /\ s[4] = d2 /\ s[5] = d3 /\ s[6] = d4
  <2>1. \A x \in 0 .. 9 : x \in Nat
    BY SMT
  <2> QED BY <2>1, SixDigits
<1>2. f = [i \in 1 .. 6 |-> IF i <= 6 - a THEN s[i] ELSE Blank]
  OBVIOUS
<1> HIDE DEF s
<1>3. /\ f[1] = e1 /\ f[2] = e2
      /\ f[3] = IF a < 4 THEN d1 ELSE Blank
      /\ f[4] = IF a < 3 THEN d2 ELSE Blank
      /\ f[5] = IF a < 2 THEN d3 ELSE Blank
      /\ f[6] = IF a < 1 THEN d4 ELSE Blank
  <2>1. \A i \in 1 .. 6 : f[i] = IF i <= 6 - a THEN s[i] ELSE Blank
    BY <1>2
  <2>2. /\ f[1] = (IF 1 <= 6 - a THEN s[1] ELSE Blank) /\ f[2] = (IF 2 <= 6 - a THEN s[2] ELSE Blank)
        /\ f[3] = (IF 3 <= 6 - a THEN s[3] ELSE Blank) /\ f[4] = (IF 4 <= 6 - a THEN s[4] ELSE Blank)
        /\ f[5] = (IF 5 <= 6 - a THEN s[5] ELSE Blank) /\ f[6] = (IF 6 <= 6 - a THEN s[6] ELSE Blank)
    BY <2>1, SMT
  <2>3. /\ 1 <= 6 - a /\ 2 <= 6 - a /\ (3 <= 6 - a <=> a < 4) /\ (4 <= 6 - a <=> a < 3)
        /\ (5 <= 6 - a <=> a < 2) /\ (6 <= 6 - a <=> a < 1)
    BY SMT
  <2> QED BY <1>1, <2>2, <2>3
<1>4. \A i \in 1 .. 6 : f[i] \in 0 .. 10 /\ (i <= 6 - a => f[i] # Blank)
  <2> TAKE i \in 1 .. 6
  <2>1. i = 1 \/ i = 2 \/ i = 3 \/ i = 4 \/ i = 5 \/ i = 6
    BY SMT
  <2>2. \A x \in 0 .. 9 : x \in 0 .. 10 /\ x # Blank
    BY SMT DEF Blank
  <2>3. Blank \in 0 .. 10
    BY SMT DEF Blank
  <2>4. s[i] \in 0 .. 9
    BY <1>1, <2>1
  <2> QED BY <1>2, <2>2, <2>3, <2>4
<1>5. f \in [1 .. 6 -> 0 .. 10]
  BY <1>2, <1>4
<1>6. TrailingBlanks(f) = a
  <2>1. PICK n \in Nat : n = 6
    BY SMT
  <2> DEFINE D == 0 .. 10
  <2>2. f \in [1 .. n -> D]
    BY <1>5, <2>1
  <2> HIDE DEF D
  <2>3. Len(f) = n
    BY <2>2, TupleIs
  <2>4. \A i \in n - a + 1 .. n : f[i] = Blank
    <3> TAKE i \in n - a + 1 .. n
    <3>1. i \in 1 .. 6 /\ ~ i <= 6 - a
      BY <2>1, SMT
    <3> QED BY <1>2, <3>1
  <2>5. f[n - a] # Blank /\ a \in 0 .. n
    <3>1. n - a \in 1 .. 6 /\ n - a <= 6 - a /\ a \in 0 .. n
      BY <2>1, SMT
    <3> QED BY <1>4, <3>1
  <2> QED BY <2>3, <2>4, <2>5, BlanksAre
<1>7. IsCut(SubSeq(f, 3, 6), d1, d2, d3, d4, a)
  <2>1. PICK k, n \in Int : k = 3 /\ n = 6
    BY SMT
  <2> DEFINE D == 0 .. 10
             g == SubSeq(f, k, n)
  <2>2. \A j \in k .. n : f[j] \in D
    <3>1. \A j \in k .. n : j \in 1 .. 6
      BY <2>1, SMT
    <3> QED BY <1>4, <3>1
  <2> HIDE DEF D
  <2>3. /\ g \in Seq(D) /\ Len(g) = (IF k <= n THEN n - k + 1 ELSE 0)
        /\ \A j \in 1 .. n - k + 1 : g[j] = f[k + j - 1]
    BY <2>2, SubSeqProperties
  <2> HIDE DEF g
  <2>4. Len(g) = 4 /\ n - k + 1 = 4
    BY <2>1, <2>3, SMT
  <2>5. g[1] = f[3] /\ g[2] = f[4] /\ g[3] = f[5] /\ g[4] = f[6]
    <3>1. \A j \in 1 .. 4 : g[j] = f[k + j - 1]
      BY <2>3, <2>4
    <3>2. k + 1 - 1 = 3 /\ k + 2 - 1 = 4 /\ k + 3 - 1 = 5 /\ k + 4 - 1 = 6
      BY <2>1, SMT
    <3>3. 1 \in 1 .. 4 /\ 2 \in 1 .. 4 /\ 3 \in 1 .. 4 /\ 4 \in 1 .. 4
      BY SMT
    <3>4. g[1] = f[k + 1 - 1] /\ g[2] = f[k + 2 - 1] /\ g[3] = f[k + 3 - 1] /\ g[4] = f[k + 4 - 1]
      BY <3>1, <3>3
    <3> QED BY <3>2, <3>4
  <2>6. g \in [1 .. 4 -> 0 .. 10]
    <3>1. g \in [1 .. Len(g) -> D]
      BY <2>3, LenProperties
    <3> QED BY <2>4, <3>1 DEF D
  <2>7. IsCut(g, d1, d2, d3, d4, a)
    BY <1>3, <2>5, <2>6 DEF IsCut
  <2> QED BY <2>1, <2>7 DEF g
<1> QED BY <1>3, <1>4, <1>5, <1>6, <1>7, SMT DEF LatitudeDigits

\* Four digits are read, like a cut text, in the middle of what their ambiguity leaves open.
LEMMA TupleGrains ==
  ASSUME NEW a \in 0 .. 4, NEW n, NEW d1, NEW d2, NEW d3, NEW d4, FourDigits(n, d1, d2, d3, d4)
  PROVE  Grains(Centered(<<d1, d2, d3, d4>>, a)) = Hundredth * Mid(n, a)
<1>1. IsNumber(100 * n, d1, d2, d3, d4, 0) /\ (100 * n) \div 100 = n
  BY DEF FourDigits
<1> DEFINE f == <<d1, d2, d3, d4>>
           g == [i \in 1 .. 4 |-> IF i <= 4 - a THEN f[i] ELSE Blank]
<1>2. f[1] = d1 /\ f[2] = d2 /\ f[3] = d3 /\ f[4] = d4
  OBVIOUS
<1>3. d1 \in 0 .. 9 /\ d2 \in 0 .. 9 /\ d3 \in 0 .. 9 /\ d4 \in 0 .. 9
  BY <1>1, SMT DEF IsNumber
<1> HIDE DEF f
<1>4. Centered(f, a) = Centered(g, a)
  <2>1. \A i \in 1 .. 4 : i <= 4 - a => g[i] = f[i]
    OBVIOUS
  <2> HIDE DEF g
  <2> QED BY <2>1, Zenon DEF Centered
<1>5. IsCut(g, d1, d2, d3, d4, a)
  <2>1. /\ g[1] = (IF 1 <= 4 - a THEN d1 ELSE Blank) /\ g[2] = (IF 2 <= 4 - a THEN d2 ELSE Blank)
        /\ g[3] = (IF 3 <= 4 - a THEN d3 ELSE Blank) /\ g[4] = (IF 4 <= 4 - a THEN d4 ELSE Blank)
    BY <1>2
  <2>2. (1 <= 4 - a <=> a < 4) /\ (2 <= 4 - a <=> a < 3) /\ (3 <= 4 - a <=> a < 2) /\ (4 <= 4 - a <=> a < 1)
    BY SMT
  <2>3. \A i \in 1 .. 4 : g[i] \in 0 .. 10
    <3>1. \A x \in 0 .. 9 : x \in 0 .. 10
      BY SMT
    <3>2. Blank \in 0 .. 10
      BY SMT DEF Blank
    <3>3. \A i \in 1 .. 4 : i = 1 \/ i = 2 \/ i = 3 \/ i = 4
      BY SMT
    <3>4. g[1] \in 0 .. 10 /\ g[2] \in 0 .. 10 /\ g[3] \in 0 .. 10 /\ g[4] \in 0 .. 10
      BY <1>3, <2>1, <3>1, <3>2
    <3> HIDE DEF g
    <3> QED BY <3>3, <3>4
  <2>4. g \in [1 .. 4 -> 0 .. 10]
    BY <2>3
  <2> HIDE DEF g
  <2> QED BY <2>1, <2>2, <2>4 DEF IsCut
<1> HIDE DEF g
<1>6. Grains(Centered(g, a)) = Hundredth * Mid((100 * n) \div 100, a)
  BY <1>1, <1>5, CutGrains
<1> QED BY <1>1, <1>4, <1>6 DEF f

\* The minutes of a radio's longitude.
LEMMA MinutesBack ==
  ASSUME NEW m \in Nat, m < 6000, NEW d1, NEW d2, NEW d3, NEW d4, FourDigits(m, d1, d2, d3, d4),
         NEW b2, b2 = 28 + (IF m \div 100 < 10 THEN (m \div 100) + 60 ELSE m \div 100),
         NEW b3, b3 = 28 + (m % 100)
  PROVE  /\ b2 \in 0 .. 255 /\ b3 \in 0 .. 255
         /\ (IF b2 - 28 >= 60 THEN b2 - 88 ELSE b2 - 28) = 10 * d1 + d2
         /\ b3 - 28 = 10 * d3 + d4
         /\ (10 * d1 + d2) \div 10 = d1 /\ (10 * d1 + d2) % 10 = d2
         /\ (10 * d3 + d4) \div 10 = d3 /\ (10 * d3 + d4) % 10 = d4
         /\ 10 * d1 + d2 \in Nat /\ 10 * d3 + d4 \in Nat
<1>1. m \div 100 = 10 * d1 + d2 /\ m % 100 = 10 * d3 + d4
  BY DEF FourDigits
<1>2. d1 \in 0 .. 5 /\ d2 \in 0 .. 9 /\ d3 \in 0 .. 9 /\ d4 \in 0 .. 9
  BY SMT DEF FourDigits, IsNumber
<1>3. PICK x, y \in Nat : x = 10 * d1 + d2 /\ y = 10 * d3 + d4 /\ x < 60 /\ y < 100
  BY <1>2, SMT
<1>4. b2 = 28 + (IF x < 10 THEN x + 60 ELSE x) /\ b3 = 28 + y
  BY <1>1, <1>3
<1>5. b2 \in 0 .. 255 /\ b3 \in 0 .. 255 /\ b3 - 28 = y
  BY <1>3, <1>4, SMT
<1>6. (IF b2 - 28 >= 60 THEN b2 - 88 ELSE b2 - 28) = x
  BY <1>3, <1>4, SMT
<1>7. x \div 10 = d1 /\ y \div 10 = d3
  BY <1>2, <1>3, DivIs, SMT
<1>8. x % 10 = d2 /\ y % 10 = d4
  BY <1>2, <1>3, SMT
<1> QED BY <1>3, <1>5, <1>6, <1>7, <1>8

\* The hundredths of a coordinate.
LEMMA HundredthsNear ==
  ASSUME NEW c \in Angle, c.grains < Degree, NEW n, n = c.grains \div Hundredth
  PROVE  /\ n \in Nat /\ n < 6000
         /\ Hundredth * n - c.grains <= Hundredth /\ c.grains - Hundredth * n <= Hundredth
<1>1. PICK g \in Nat : g = c.grains
  BY DEF Angle
<1>2. PICK h, x \in Nat : x < Hundredth /\ g = h * Hundredth + x /\ h = g \div Hundredth
  BY HundredthsOf
<1>3. h = n
  BY <1>1, <1>2
<1>4. x < Hundredth /\ g = h * Hundredth + x /\ g < Degree
  BY <1>1, <1>2
<1>5. h < 6000 /\ Hundredth * h - g <= Hundredth /\ g - Hundredth * h <= Hundredth
  BY <1>4, UnitsAre, SMT
<1> QED BY <1>1, <1>3, <1>5

\* The latitude of a radio is read as its hundredths.
RadioLat(p, t, a, n) ==
  /\ t.digits \in [1 .. 6 -> 0 .. 9 \cup {Blank}]
  /\ TrailingBlanks(t.digits) = a /\ \A i \in 1 .. 6 - a : t.digits[i] # Blank
  /\ MiceLat(t, a).degrees = p.lat.degrees /\ MiceLat(t, a).negative = p.lat.negative
  /\ MiceLat(t, a).grains = Hundredth * Mid(n, a)

\* The parser finds it in the destination.
LEMMA RadioLatIs ==
  ASSUME NEW p, NEW n, NEW m, NEW course, NEW speed, RadioSays(p, n, m, course, speed),
         NEW t, RadioText(p, t, n, m, course, speed), NEW a, a = p.ambiguity
  PROVE  RadioLat(p, t, a, n)
<1>1. /\ a \in 0 .. 4 /\ p.lat \in Angle /\ p.lat.grains < Degree /\ p.lat.degrees < 90
      /\ n = p.lat.grains \div Hundredth
  BY DEF RadioSays
<1>2. n \in Nat /\ n < 6000
  BY <1>1, HundredthsNear
<1>3. PICK d1, d2, d3, d4 : FourDigits(n, d1, d2, d3, d4)
  BY <1>2, DigitsAre
<1>4. /\ n \div 1000 = d1 /\ (n \div 100) % 10 = d2 /\ (n \div 10) % 10 = d3 /\ n % 10 = d4
      /\ IsNumber(100 * n, d1, d2, d3, d4, 0) /\ (100 * n) \div 100 = n
  BY <1>3 DEF FourDigits
<1>5. d1 \in 0 .. 9 /\ d2 \in 0 .. 9 /\ d3 \in 0 .. 9 /\ d4 \in 0 .. 9
  <2>1. IsNumber(100 * n, d1, d2, d3, d4, 0)
    BY <1>4
  <2> QED BY <2>1, SMT DEF IsNumber
<1>6. p.lat.degrees \in Nat /\ p.lat.negative \in BOOLEAN
  BY <1>1 DEF Angle
<1>7. PICK e1, e2 \in Nat :
        /\ p.lat.degrees = 10 * e1 + e2 /\ e2 < 10
        /\ e1 = p.lat.degrees \div 10 /\ e2 = p.lat.degrees % 10
  BY <1>6, LastDecimal
<1>8. e1 \in 0 .. 9 /\ e2 \in 0 .. 9
  <2>1. 10 * e1 + e2 < 90 /\ e2 < 10
    BY <1>1, <1>7
  <2> QED BY <2>1, SMT
<1> DEFINE f == t.digits
<1>9. f = [i \in 1 .. 6 |-> IF i <= 6 - a THEN (<<e1, e2>> \o <<d1, d2, d3, d4>>)[i] ELSE Blank]
  <2>1. FourOf(n) = <<d1, d2, d3, d4>>
    BY <1>4 DEF FourOf
  <2>2. f = [i \in 1 .. 6 |-> IF i <= 6 - a
                              THEN (<<p.lat.degrees \div 10, p.lat.degrees % 10>> \o FourOf(n))[i] ELSE Blank]
    BY DEF RadioText
  <2>3. p.lat.degrees \div 10 = e1 /\ p.lat.degrees % 10 = e2
    BY <1>7
  <2> HIDE DEF f
  <2> QED BY <2>1, <2>2, <2>3
<1>10. LatitudeDigits(f, a, e1, e2, d1, d2, d3, d4)
  BY <1>1, <1>5, <1>8, <1>9, LatitudeIs
<1> HIDE DEF f
<1>11. /\ f \in [1 .. 6 -> 0 .. 10] /\ \A i \in 1 .. 6 - a : f[i] # Blank
       /\ TrailingBlanks(f) = a /\ f[1] = e1 /\ f[2] = e2
       /\ IsCut(SubSeq(f, 3, 6), d1, d2, d3, d4, a)
  BY <1>10 DEF LatitudeDigits
<1>12. f \in [1 .. 6 -> 0 .. 9 \cup {Blank}]
  <2>1. \A x \in 0 .. 10 : x \in 0 .. 9 \cup {Blank}
    BY SMT DEF Blank
  <2> DEFINE D == 0 .. 10
             E == 0 .. 9 \cup {Blank}
  <2>2. f \in [1 .. 6 -> D] /\ \A x \in D : x \in E
    BY <1>11, <2>1
  <2> HIDE DEF D, E
  <2>3. f \in [1 .. 6 -> E]
    BY <2>2
  <2> QED BY <2>3 DEF E
<1>13. Grains(Centered(SubSeq(f, 3, 6), a)) = Hundredth * Mid(n, a)
  <2>1. Grains(Centered(SubSeq(f, 3, 6), a)) = Hundredth * Mid((100 * n) \div 100, a)
    BY <1>1, <1>4, <1>11, CutGrains
  <2> QED BY <1>4, <2>1
<1>14. MiceLat(t, a).degrees = p.lat.degrees
  <2>1. MiceLat(t, a).degrees = 10 * f[1] + f[2]
    BY DEF MiceLat, f
  <2>2. 10 * f[1] + f[2] = 10 * e1 + e2
    BY <1>11
  <2> QED BY <1>7, <2>1, <2>2
<1>15. MiceLat(t, a).negative = p.lat.negative
  <2>1. t.north = ~ p.lat.negative
    BY DEF RadioText
  <2>2. MiceLat(t, a).negative = ~ t.north
    BY DEF MiceLat
  <2> QED BY <1>6, <2>1, <2>2
<1>16. MiceLat(t, a).grains = Hundredth * Mid(n, a)
  BY <1>13 DEF MiceLat, f
<1> QED BY <1>11, <1>12, <1>14, <1>15, <1>16 DEF RadioLat, f

\* So are its longitude, course and speed.
RadioLon(p, t, a, m, course, speed) ==
  /\ t.bytes \in [1 .. 6 -> 0 .. 255] /\ t.far \in BOOLEAN
  /\ ~ MiceLongitude(t.bytes[1], t.far) < 0 /\ ~ MiceMinutes(t) < 0 /\ ~ t.bytes[3] - 28 < 0
  /\ MiceLon(t, a).degrees = p.lon.degrees /\ MiceLon(t, a).negative = p.lon.negative
  /\ MiceLon(t, a).grains = Hundredth * Mid(m, a)
  /\ MiceCourse(t) = course /\ MiceSpeed(t) = speed

\* The parser finds them in the six bytes.
LEMMA RadioLonIs ==
  ASSUME NEW p, NEW n, NEW m, NEW course, NEW speed, RadioSays(p, n, m, course, speed),
         NEW t, RadioText(p, t, n, m, course, speed), NEW a, a = p.ambiguity
  PROVE  RadioLon(p, t, a, m, course, speed)
<1>1. /\ a \in 0 .. 4 /\ p.lon \in Angle /\ p.lon.grains < Degree /\ p.lon.degrees < 180
      /\ m = p.lon.grains \div Hundredth /\ course \in 0 .. 360 /\ speed \in 0 .. 799
  BY DEF RadioSays
<1>2. m \in Nat /\ m < 6000
  BY <1>1, HundredthsNear
<1>3. PICK d1, d2, d3, d4 : FourDigits(m, d1, d2, d3, d4)
  BY <1>2, DigitsAre
<1>4. p.lon.degrees \in Nat
  BY <1>1 DEF Angle
<1>5. PICK b1, b2, b3, b4, b5, b6 :
        /\ t.bytes = <<b1, b2, b3, b4, b5, b6>>
        /\ b1 = DegreesByte(p.lon.degrees)
        /\ b2 = 28 + (IF m \div 100 < 10 THEN (m \div 100) + 60 ELSE m \div 100)
        /\ b3 = 28 + (m % 100)
        /\ SpeedBytes(course, speed, b4, b5, b6)
  <2> DEFINE b1 == DegreesByte(p.lon.degrees)
             b2 == 28 + (IF m \div 100 < 10 THEN (m \div 100) + 60 ELSE m \div 100)
             b3 == 28 + (m % 100)
             b4 == 28 + (speed \div 10) + (IF speed < 200 THEN 80 ELSE 0)
             b5 == 32 + 10 * (speed % 10) + (course \div 100)
             b6 == 28 + (course % 100)
  <2>1. t.bytes = <<b1, b2, b3, b4, b5, b6>>
    BY Zenon DEF RadioText, DegreesByte
  <2>2. SpeedBytes(course, speed, b4, b5, b6)
    BY DEF SpeedBytes
  <2> HIDE DEF b1, b4, b5, b6
  <2>3. b1 = DegreesByte(p.lon.degrees)
    BY DEF b1
  <2> QED BY <2>1, <2>2, <2>3
<1>6. /\ t.bytes[1] = b1 /\ t.bytes[2] = b2 /\ t.bytes[3] = b3
      /\ t.bytes[4] = b4 /\ t.bytes[5] = b5 /\ t.bytes[6] = b6
  BY <1>5
<1>7. /\ b2 \in 0 .. 255 /\ b3 \in 0 .. 255
      /\ (IF b2 - 28 >= 60 THEN b2 - 88 ELSE b2 - 28) = 10 * d1 + d2
      /\ b3 - 28 = 10 * d3 + d4
      /\ (10 * d1 + d2) \div 10 = d1 /\ (10 * d1 + d2) % 10 = d2
      /\ (10 * d3 + d4) \div 10 = d3 /\ (10 * d3 + d4) % 10 = d4
      /\ 10 * d1 + d2 \in Nat /\ 10 * d3 + d4 \in Nat
  BY <1>2, <1>3, <1>5, MinutesBack
<1>8. /\ b4 \in 0 .. 255 /\ b5 \in 0 .. 255 /\ b6 \in 0 .. 255
      /\ 10 * (b4 - 28) + Quotient(b5 - 28, 10) = (IF speed < 200 THEN speed + 800 ELSE speed)
      /\ 100 * Remainder(b5 - 28, 10) + b6 - 28 = course + 400
  <2>1. course \in 0 .. 360 /\ speed \in 0 .. 799 /\ SpeedBytes(course, speed, b4, b5, b6)
    BY <1>1, <1>5
  <2>2. SpeedReads(course, speed, b4, b5, b6)
    BY <2>1, SpeedBack, Zenon
  <2> QED BY <2>2, Zenon DEF SpeedReads
<1>9. t.far \in BOOLEAN /\ (t.far <=> (p.lon.degrees < 10 \/ p.lon.degrees >= 100))
  <2>1. t.far = (p.lon.degrees < 10 \/ p.lon.degrees >= 100)
    BY DEF RadioText
  <2> QED BY <2>1, Zenon
<1>10. b1 \in 0 .. 255 /\ MiceLongitude(b1, t.far) = p.lon.degrees
  <2>1. DegreesByte(p.lon.degrees) \in 0 .. 255 /\ MiceLongitude(DegreesByte(p.lon.degrees), t.far) = p.lon.degrees
    BY <1>1, <1>4, <1>9, DegreesBack
  <2> QED BY <1>5, <2>1
<1>11. MiceMinutes(t) = 10 * d1 + d2
  BY <1>6, <1>7 DEF MiceMinutes
<1>12. t.bytes \in [1 .. 6 -> 0 .. 255]
  <2> DEFINE D == 0 .. 255
  <2>1. b1 \in D /\ b2 \in D /\ b3 \in D /\ b4 \in D /\ b5 \in D /\ b6 \in D
    BY <1>7, <1>8, <1>10
  <2> HIDE DEF D
  <2>2. <<b1, b2, b3, b4, b5, b6>> \in [1 .. 6 -> D]
    BY <2>1, SMT
  <2> QED BY <1>5, <2>2 DEF D
<1>13. ~ MiceLongitude(t.bytes[1], t.far) < 0 /\ ~ MiceMinutes(t) < 0 /\ ~ t.bytes[3] - 28 < 0
  <2>1. \A z \in Nat : ~ z < 0
    BY SMT
  <2> QED BY <1>4, <1>6, <1>7, <1>10, <1>11, <2>1
<1>14. MiceLon(t, a).degrees = p.lon.degrees /\ MiceLon(t, a).negative = p.lon.negative
  <2>1. t.west = p.lon.negative
    BY DEF RadioText
  <2>2. MiceLon(t, a).degrees = MiceLongitude(t.bytes[1], t.far) /\ MiceLon(t, a).negative = t.west
    BY DEF MiceLon
  <2> QED BY <1>6, <1>10, <2>1, <2>2
<1>15. MiceLon(t, a).grains = Hundredth * Mid(m, a)
  <2>1. MiceLon(t, a).grains = Grains(Centered(<<MiceMinutes(t) \div 10, MiceMinutes(t) % 10,
                                (t.bytes[3] - 28) \div 10, (t.bytes[3] - 28) % 10>>, a))
    BY DEF MiceLon
  <2>2. MiceMinutes(t) \div 10 = d1 /\ MiceMinutes(t) % 10 = d2
    BY <1>7, <1>11, Zenon
  <2>3. (t.bytes[3] - 28) \div 10 = d3 /\ (t.bytes[3] - 28) % 10 = d4
    BY <1>6, <1>7, Zenon
  <2>4. Grains(Centered(<<d1, d2, d3, d4>>, a)) = Hundredth * Mid(m, a)
    BY <1>1, <1>3, TupleGrains
  <2> QED BY <2>1, <2>2, <2>3, <2>4, Zenon
<1>16. MiceCourse(t) = course
  <2>1. 100 * Remainder(t.bytes[5] - 28, 10) + t.bytes[6] - 28 = course + 400
    BY <1>6, <1>8
  <2> DEFINE z == 100 * Remainder(t.bytes[5] - 28, 10) + t.bytes[6] - 28
  <2>2. MiceCourse(t) = (IF z >= 400 THEN z - 400 ELSE z) % 65536
    BY DEF MiceCourse
  <2> HIDE DEF z
  <2>3. z = course + 400
    BY <2>1 DEF z
  <2>4. (IF z >= 400 THEN z - 400 ELSE z) = course
    BY <1>1, <2>3, SMT
  <2>5. course % 65536 = course
    BY <1>1, SMT
  <2> QED BY <2>2, <2>4, <2>5
<1>17. MiceSpeed(t) = speed
  <2> DEFINE z == 10 * (t.bytes[4] - 28) + Quotient(t.bytes[5] - 28, 10)
  <2>1. z = IF speed < 200 THEN speed + 800 ELSE speed
    BY <1>6, <1>8
  <2>2. MiceSpeed(t) = IF z >= 800 THEN z - 800 ELSE z
    BY DEF MiceSpeed
  <2> HIDE DEF z
  <2>3. (IF z >= 800 THEN z - 800 ELSE z) = speed
    BY <1>1, <2>1, SMT
  <2> QED BY <2>2, <2>3
<1> QED BY <1>9, <1>12, <1>13, <1>14, <1>15, <1>16, <1>17 DEF RadioLon

\* What a radio sends arrives, with its course and speed.
HeardAs(p, t, r) ==
  /\ ArrivesAs(p, t, r) /\ Surveyed(r)
  /\ r.course = p.course /\ r.speed = p.speed /\ r.altitude = p.altitude /\ r.comment = p.comment

\* Every Mic-E radio is heard.
LEMMA RadioArrives ==
  ASSUME NEW p, IsRadio(p), NEW t, t = MiceText(p)
  PROVE  \E r : HeardAs(p, t, r)
<1>1. PICK n, m, course, speed : RadioSays(p, n, m, course, speed)
  BY RadioIs
<1>2. RadioText(p, t, n, m, course, speed)
  BY <1>1, RadioTextIs
<1> DEFINE a == p.ambiguity
<1>3. RadioLat(p, t, a, n) /\ RadioLon(p, t, a, m, course, speed)
  BY <1>1, <1>2, RadioLatIs, RadioLonIs
<1>4. /\ a \in 0 .. 4 /\ p.comment = <<>> /\ p.altitude = {} /\ p.course = {course} /\ p.speed = {speed}
      /\ p.lat \in Angle /\ p.lat.grains < Degree /\ n = p.lat.grains \div Hundredth
      /\ p.lon \in Angle /\ p.lon.grains < Degree /\ m = p.lon.grains \div Hundredth
  BY <1>1 DEF RadioSays
<1>5. /\ t.form = "mice" /\ t.table = p.table /\ t.code = p.code /\ t.rest = <<>>
      /\ t.north \in BOOLEAN /\ t.west \in BOOLEAN
  <2>1. t.north = ~ p.lat.negative /\ t.west = p.lon.negative
    BY <1>2 DEF RadioText
  <2>2. p.lon.negative \in BOOLEAN
    BY <1>4 DEF Angle
  <2> QED BY <1>2, <2>1, <2>2 DEF RadioText
<1>6. MiceForm(t)
  <2>1. <<>> \in Seq(Extension)
    BY EmptySeq
  <2>2. /\ t.digits \in [1 .. 6 -> 0 .. 9 \cup {Blank}] /\ t.bytes \in [1 .. 6 -> 0 .. 255]
        /\ t.far \in BOOLEAN
    BY <1>3 DEF RadioLat, RadioLon
  <2> QED BY <1>5, <2>1, <2>2 DEF MiceForm
<1>7. TrailingBlanks(t.digits) = a /\ IsMice(t, a)
  <2>1. a <= 4
    BY <1>4, SMT
  <2>2. TrailingBlanks(t.digits) = a /\ \A i \in 1 .. 6 - a : t.digits[i] # Blank
    BY <1>3 DEF RadioLat
  <2>3. ~ MiceLongitude(t.bytes[1], t.far) < 0 /\ ~ MiceMinutes(t) < 0 /\ ~ t.bytes[3] - 28 < 0
    BY <1>3 DEF RadioLon
  <2> QED BY <2>1, <2>2, <2>3 DEF IsMice
<1> HIDE DEF a
<1>8. PICK r : MiceRead(t, a, r)
  BY <1>4, <1>6, <1>7, MiceIs
<1>9. NoDao(t.rest)
  <2>1. Len(<<>>) = 0
    BY EmptySeq
  <2>2. \A i \in 1 .. Len(t.rest) : FALSE
    BY <1>5, <2>1, SMT
  <2> QED BY <2>2 DEF NoDao
<1>10. /\ ParsePosition(t) = {r} /\ Surveyed(r)
       /\ r.code = p.code /\ r.table = p.table /\ r.ambiguity = a
       /\ r.course = {MiceCourse(t)} /\ r.speed = {MiceSpeed(t)} /\ r.altitude = {}
       /\ r.lat = MiceLat(t, a) /\ r.lon = MiceLon(t, a)
       /\ r.datum = "none" /\ r.comment = <<>>
  BY <1>5, <1>8, <1>9 DEF MiceRead
<1>11. r.course = p.course /\ r.speed = p.speed /\ r.altitude = p.altitude /\ r.comment = p.comment
  <2>1. MiceCourse(t) = course /\ MiceSpeed(t) = speed
    BY <1>3 DEF RadioLon
  <2> QED BY <1>4, <1>10, <2>1
<1>12. r.lat \in Angle /\ r.lon \in Angle
  BY <1>10 DEF Surveyed, IsGood
<1>13. IsWithin(r.lat, p.lat, Precision(r))
  <2>1. r.lat.degrees = p.lat.degrees /\ r.lat.negative = p.lat.negative /\ r.lat.grains = Hundredth * Mid(n, a)
    BY <1>3, <1>10 DEF RadioLat
  <2>2. /\ n \in Nat /\ n < 6000
        /\ Hundredth * n - p.lat.grains <= Hundredth /\ p.lat.grains - Hundredth * n <= Hundredth
    BY <1>4, HundredthsNear
  <2> QED BY <1>4, <1>10, <1>12, <2>1, <2>2, MiddleNear
<1>14. IsWithin(r.lon, p.lon, Precision(r))
  <2>1. r.lon.degrees = p.lon.degrees /\ r.lon.negative = p.lon.negative /\ r.lon.grains = Hundredth * Mid(m, a)
    BY <1>3, <1>10 DEF RadioLon
  <2>2. /\ m \in Nat /\ m < 6000
        /\ Hundredth * m - p.lon.grains <= Hundredth /\ p.lon.grains - Hundredth * m <= Hundredth
    BY <1>4, HundredthsNear
  <2> QED BY <1>4, <1>10, <1>12, <2>1, <2>2, MiddleNear
<1>15. ArrivesAs(p, t, r)
  <2>1. ~ p.compressed
    BY DEF IsRadio
  <2>2. <<r.code, r.ambiguity>> = <<p.code, p.ambiguity>>
    BY <1>10 DEF a
  <2>3. Arrives(p, r)
    BY <1>10, <1>13, <1>14, <2>1, <2>2 DEF Arrives
  <2> QED BY <1>10, <2>3 DEF ArrivesAs, Reported
<1>16. HeardAs(p, t, r)
  BY <1>10, <1>11, <1>15 DEF HeardAs
<1> QED BY <1>16

-----------------------------------------------------------------------------
(* What is read of course, speed, altitude and comment.                    *)

\* One element before a text.
Before(S, s, x, rest) ==
  /\ s \in Seq(S) /\ RemoveAt(s, 1) = rest
  /\ s # <<>> /\ s[1] = x /\ Tail(s) = rest /\ Len(s) = Len(rest) + 1
  /\ \A i \in 1 .. Len(rest) : s[i + 1] = rest[i]

\* That element is the first.
LEMMA BeforeIs ==
  ASSUME NEW S, NEW x \in S, NEW rest \in Seq(S), NEW s, s = <<x>> \o rest
  PROVE  Before(S, s, x, rest)
<1> DEFINE o == <<x>>
<1>1. o \in Seq(S) /\ Len(o) = 1 /\ o[1] = x
  OBVIOUS
<1>2. Len(rest) \in Nat
  BY LenProperties
<1> HIDE DEF o
<1>3. /\ s \in Seq(S) /\ Len(s) = Len(o) + Len(rest)
      /\ \A i \in 1 .. Len(o) + Len(rest) : s[i] = IF i <= Len(o) THEN o[i] ELSE rest[i - Len(o)]
  <2>1. s = o \o rest
    BY DEF o
  <2> QED BY <1>1, <2>1, ConcatProperties
<1>4. Len(s) = Len(rest) + 1 /\ s[1] = x
  BY <1>1, <1>2, <1>3, SMT
<1>5. \A i \in 1 .. Len(rest) : s[i + 1] = rest[i]
  <2> TAKE i \in 1 .. Len(rest)
  <2>1. i + 1 \in 1 .. Len(o) + Len(rest) /\ ~ i + 1 <= Len(o) /\ i + 1 - Len(o) = i
    BY <1>1, <1>2, SMT
  <2> QED BY <1>3, <2>1
<1>6. s # <<>>
  <2>1. Len(s) # 0
    BY <1>2, <1>4, SMT
  <2> QED BY <1>3, <2>1, EmptySeq
<1>7. Tail(s) = rest
  <2>1. /\ Tail(s) \in Seq(S) /\ Len(Tail(s)) = Len(s) - 1
        /\ \A i \in 1 .. Len(Tail(s)) : Tail(s)[i] = s[i + 1]
    BY <1>3, <1>6, HeadTailProperties
  <2>2. Len(Tail(s)) = Len(rest)
    BY <1>2, <1>4, <2>1, SMT
  <2>3. \A i \in 1 .. Len(Tail(s)) : Tail(s)[i] = rest[i]
    BY <1>5, <2>1, <2>2
  <2> QED BY <2>1, <2>2, <2>3, SeqEqual
<1>8. RemoveAt(s, 1) = rest
  <2>1. PICK k \in 1 .. Len(s) : k = 1
    BY <1>2, <1>4, SMT
  <2> DEFINE v == RemoveAt(s, k)
  <2>2. /\ v \in Seq(S) /\ Len(v) = Len(s) - 1
        /\ \A i \in 1 .. Len(s) - 1 : v[i] = IF i < k THEN s[i] ELSE s[i + 1]
    BY <1>3, RemovedIs
  <2> HIDE DEF v
  <2>3. Len(v) = Len(rest) /\ Len(s) - 1 = Len(rest)
    BY <1>2, <1>4, <2>2, SMT
  <2>4. \A i \in 1 .. Len(v) : v[i] = rest[i]
    <3> TAKE i \in 1 .. Len(v)
    <3>1. i \in 1 .. Len(rest) /\ ~ i < k
      BY <1>2, <2>1, <2>3, SMT
    <3> QED BY <1>5, <2>2, <2>3, <3>1
  <2>5. v = rest
    BY <2>2, <2>3, <2>4, SeqEqual
  <2> QED BY <2>1, <2>5 DEF v
<1> QED BY <1>3, <1>4, <1>5, <1>6, <1>7, <1>8 DEF Before

\* One element behind a text.
Behind(S, s, x, rest) ==
  /\ s \in Seq(S) /\ Len(s) = Len(rest) + 1 /\ s[Len(s)] = x
  /\ \A i \in 1 .. Len(rest) : s[i] = rest[i]
  /\ RemoveAt(s, Len(s)) = rest

\* That element is the last.
LEMMA BehindIs ==
  ASSUME NEW S, NEW x \in S, NEW rest \in Seq(S), NEW s, s = rest \o <<x>>
  PROVE  Behind(S, s, x, rest)
<1> DEFINE o == <<x>>
<1>1. o \in Seq(S) /\ Len(o) = 1 /\ o[1] = x
  OBVIOUS
<1>2. Len(rest) \in Nat
  BY LenProperties
<1> HIDE DEF o
<1>3. /\ s \in Seq(S) /\ Len(s) = Len(rest) + Len(o)
      /\ \A i \in 1 .. Len(rest) + Len(o) : s[i] = IF i <= Len(rest) THEN rest[i] ELSE o[i - Len(rest)]
  <2>1. s = rest \o o
    BY DEF o
  <2> QED BY <1>1, <2>1, ConcatProperties
<1>4. Len(s) = Len(rest) + 1
  BY <1>1, <1>3
<1>5. s[Len(s)] = x
  <2>1. Len(s) \in 1 .. Len(rest) + Len(o) /\ ~ Len(s) <= Len(rest) /\ Len(s) - Len(rest) = 1
    BY <1>1, <1>2, <1>4, SMT
  <2> QED BY <1>1, <1>3, <2>1
<1>6. \A i \in 1 .. Len(rest) : s[i] = rest[i]
  <2> TAKE i \in 1 .. Len(rest)
  <2>1. i \in 1 .. Len(rest) + Len(o) /\ i <= Len(rest)
    BY <1>1, <1>2, SMT
  <2> QED BY <1>3, <2>1
<1>7. RemoveAt(s, Len(s)) = rest
  <2>1. PICK k \in 1 .. Len(s) : k = Len(s)
    BY <1>2, <1>4, SMT
  <2> DEFINE v == RemoveAt(s, k)
  <2>2. /\ v \in Seq(S) /\ Len(v) = Len(s) - 1
        /\ \A i \in 1 .. Len(s) - 1 : v[i] = IF i < k THEN s[i] ELSE s[i + 1]
    BY <1>3, RemovedIs
  <2> HIDE DEF v
  <2>3. Len(v) = Len(rest) /\ Len(s) - 1 = Len(rest)
    BY <1>2, <1>4, <2>2, SMT
  <2>4. \A i \in 1 .. Len(v) : v[i] = rest[i]
    <3> TAKE i \in 1 .. Len(v)
    <3>1. i \in 1 .. Len(rest) /\ i < k
      BY <1>2, <1>4, <2>1, <2>3, SMT
    <3> QED BY <1>6, <2>2, <2>3, <3>1
  <2>5. v = rest
    BY <2>2, <2>3, <2>4, SeqEqual
  <2> QED BY <2>1, <2>5 DEF v
<1> QED BY <1>3, <1>4, <1>5, <1>6, <1>7 DEF Behind

IsMotion(x) == x.kind = "motion"

\* The kinds of what is written behind a position.
LEMMA WrittenKinds ==
  /\ \A x \in {Words, White, Slash} :
       x \in Extension /\ ~ IsMotion(x) /\ ~ IsAltitude(x) /\ ~ IsDao(x) /\ x # Telemetry
  /\ \A b, l \in 0 .. 90 :
       LET d == Dao("base91", b, l) IN d \in Extension /\ ~ IsMotion(d) /\ ~ IsAltitude(d) /\ IsDao(d) /\ d # Telemetry
  /\ \A feet \in SixPlaces :
       LET o == Altitude(feet) IN o \in Extension /\ ~ IsMotion(o) /\ IsAltitude(o) /\ o.feet = feet
  /\ \A c, s \in Nat :
       LET m == Motion(c, s) IN m \in Extension /\ IsMotion(m) /\ m.course = c /\ m.speed = s
<1>1. ASSUME NEW x \in {Words, White, Slash}
      PROVE  x \in Extension /\ ~ IsMotion(x) /\ ~ IsAltitude(x) /\ ~ IsDao(x) /\ x # Telemetry
  <2>1. x.kind \in {"words", "white", "slash"} /\ Telemetry.kind = "telemetry"
    BY DEF Words, White, Slash, Telemetry
  <2>2. x \in Extension
    BY DEF Extension
  <2>3. x # Telemetry
    BY <2>1
  <2> QED BY <2>1, <2>2, <2>3 DEF IsMotion, IsAltitude, IsDao
<1>2. ASSUME NEW b \in 0 .. 90, NEW l \in 0 .. 90, NEW d, d = Dao("base91", b, l)
      PROVE  d \in Extension /\ ~ IsMotion(d) /\ ~ IsAltitude(d) /\ IsDao(d) /\ d # Telemetry
  <2> DEFINE D == 0 .. 90
  <2>1. b \in D /\ l \in D
    OBVIOUS
  <2>2. Extension = Extension \cup [kind : {"dao"}, datum : {"base91"}, lat : D, lon : D]
    BY DEF Extension
  <2> HIDE DEF D
  <2>3. d.kind = "dao" /\ d \in [kind : {"dao"}, datum : {"base91"}, lat : D, lon : D]
    BY <1>2, <2>1 DEF Dao
  <2>4. d # Telemetry
    <3>1. Telemetry.kind = "telemetry"
      BY DEF Telemetry
    <3> QED BY <2>3, <3>1
  <2> QED BY <2>2, <2>3, <2>4 DEF IsMotion, IsAltitude, IsDao
<1>3. ASSUME NEW feet \in SixPlaces, NEW o, o = Altitude(feet)
      PROVE  o \in Extension /\ ~ IsMotion(o) /\ IsAltitude(o) /\ o.feet = feet
  <2>1. o \in [kind : {"altitude"}, feet : SixPlaces] /\ o.kind = "altitude" /\ o.feet = feet
    BY <1>3 DEF Altitude
  <2> QED BY <2>1 DEF Extension, IsMotion, IsAltitude
<1>4. ASSUME NEW c \in Nat, NEW s \in Nat, NEW m, m = Motion(c, s)
      PROVE  m \in Extension /\ IsMotion(m) /\ m.course = c /\ m.speed = s
  <2>1. m \in [kind : {"motion"}, course : Nat, speed : Nat] /\ m.kind = "motion" /\ m.course = c /\ m.speed = s
    BY <1>4 DEF Motion
  <2> QED BY <2>1 DEF Extension, IsMotion
<1> QED BY <1>1, <1>2, <1>3, <1>4

\* A text without course, speed and altitude.
Bare(v) == v \in Seq(Extension) /\ \A i \in 1 .. Len(v) : ~ IsMotion(v[i]) /\ ~ IsAltitude(v[i])

\* Course and speed are read where they stand first, and nowhere else.
LEMMA NoMotionRead ==
  ASSUME NEW said \in Seq(Extension), \A i \in 1 .. Len(said) : ~ IsMotion(said[i]),
         NEW course, NEW speed, NEW u, MotionOutcome(said, course, speed, u)
  PROVE  u = said
<1>1. said # <<>> => 1 \in 1 .. Len(said)
  <2>1. Len(said) \in Nat /\ (Len(said) = 0 => said = <<>>)
    BY EmptySeq, LenProperties
  <2> QED BY <2>1, SMT
<1>2. ~ (said # <<>> /\ said[1].kind = "motion")
  BY <1>1 DEF IsMotion
<1> QED BY <1>2 DEF MotionOutcome

\* The course that is read: 0 unless it is one of the 360.
MotionOf(x) == IF x.course \in 1 .. 360 THEN x.course ELSE 0

\* Behind them the rest of the text is left.
LEMMA MotionRead ==
  ASSUME NEW x \in Extension, IsMotion(x), NEW rest \in Seq(Extension), NEW said, said = <<x>> \o rest,
         NEW course, NEW speed, NEW u, MotionOutcome(said, course, speed, u)
  PROVE  u = rest /\ course = {MotionOf(x)} /\ speed = {x.speed}
<1>1. said # <<>> /\ said[1] = x /\ Tail(said) = rest
  <2>1. Before(Extension, said, x, rest)
    BY BeforeIs
  <2> QED BY <2>1 DEF Before
<1>2. said # <<>> /\ said[1].kind = "motion"
  BY <1>1 DEF IsMotion
<1>3. /\ course = {IF said[1].course \in 1 .. 360 THEN said[1].course ELSE 0}
      /\ speed = {said[1].speed} /\ u = Tail(said)
  BY <1>2 DEF MotionOutcome
<1> QED BY <1>1, <1>3, Zenon DEF MotionOf

\* A text without an altitude has none.
LEMMA NoAltitudeRead ==
  ASSUME NEW said, Bare(said), NEW altitude, NEW v, AltitudeOutcome(said, altitude, v)
  PROVE  v = said /\ altitude = {}
BY DEF Bare, AltitudeOutcome

\* An altitude is read where there is one.
LEMMA AltitudeRead ==
  ASSUME NEW feet \in SixPlaces, NEW rest \in Seq(Extension), NEW said, said = <<Altitude(feet)>> \o rest,
         NEW altitude, NEW v, AltitudeOutcome(said, altitude, v)
  PROVE  v = rest /\ altitude = {feet}
<1> DEFINE o == Altitude(feet)
<1>1. o \in Extension /\ IsAltitude(o) /\ o.feet = feet
  BY WrittenKinds
<1> HIDE DEF o
<1>2. /\ said \in Seq(Extension) /\ RemoveAt(said, 1) = rest
      /\ said[1] = o /\ Len(said) = Len(rest) + 1
  <2>1. said = <<o>> \o rest
    BY DEF o
  <2>2. Before(Extension, said, o, rest)
    BY <1>1, <2>1, BeforeIs
  <2> QED BY <2>2 DEF Before
<1>3. said[1] = o /\ Len(said) = Len(rest) + 1 /\ Len(rest) \in Nat
  BY <1>2, LenProperties
<1>4. 1 \in 1 .. Len(said)
  BY <1>3, SMT
<1>5. PICK at \in 1 .. Len(said) :
        /\ IsAltitude(said[at]) /\ \A i \in 1 .. at - 1 : ~ IsAltitude(said[i])
        /\ altitude = {said[at].feet} /\ v = RemoveAt(said, at)
  BY <1>1, <1>3, <1>4 DEF AltitudeOutcome
<1>6. at = 1
  <2>1. at # 1 => 1 \in 1 .. at - 1
    BY <1>3, SMT
  <2> QED BY <1>1, <1>3, <1>5, <2>1
<1> QED BY <1>1, <1>2, <1>3, <1>5, <1>6

\* What a report says besides its place.
SaidOf(r, t, course, speed, altitude, comment) ==
  /\ r.form = t.form /\ r.code = t.code
  /\ r.course = course /\ r.speed = speed /\ r.altitude = altitude /\ r.comment = comment

\* A report with whatever place.
Placed(q, t, a, course, speed, altitude, comment) ==
  \E lat, lon, datum : q = Rep(t, lat, lon, a, course, speed, altitude, datum, comment)

\* The DAO that frap adds is taken out of the comment again; a plain comment stays.
LEMMA DaoTaken ==
  ASSUME NEW c \in Seq(Extension), IsPlain(c), NEW b \in 0 .. 90, NEW l \in 0 .. 90,
         NEW v, v = c \/ v = c \o <<Dao("base91", b, l)>>,
         NEW t, NEW lat, NEW lon, NEW a, NEW course, NEW speed, NEW altitude,
         NEW q, q = ReadDao(Rep(t, lat, lon, a, course, speed, altitude, "none", <<>>), v)
  PROVE  Placed(q, t, a, course, speed, altitude, c)
<1> DEFINE at == SelectLastInSeq(v, LAMBDA x : x.kind = "dao")
           R == Rep(t, lat, lon, a, course, speed, altitude, "none", <<>>)
           d == Dao("base91", b, l)
<1>0. d \in Extension /\ IsDao(d)
  BY WrittenKinds
<1>1. \A i \in 1 .. Len(c) : ~ IsDao(c[i])
  BY WrittenKinds DEF IsPlain
<1>2. CASE v = c
  <2>1. v \in Seq(Extension) /\ \A i \in 1 .. Len(v) : ~ IsDao(v[i])
    BY <1>1, <1>2
  <2>2. at = 0
    <3> HIDE DEF d, R
    <3> QED BY <2>1, LastDaoIs
  <2>3. ReadDao(R, v) = [R EXCEPT !.comment = v]
    BY <2>2 DEF ReadDao
  <2> HIDE DEF at
  <2>4. q = [R EXCEPT !.comment = v]
    BY <2>3
  <2> DEFINE none == "none"
             void == <<>>
  <2>5. R = Rep(t, lat, lon, a, course, speed, altitude, none, void)
    OBVIOUS
  <2> HIDE DEF R, none, void
  <2>6. q = Rep(t, lat, lon, a, course, speed, altitude, none, c)
    BY <1>2, <2>4, <2>5 DEF Rep
  <2> QED BY <2>6 DEF Placed
<1>3. CASE v = c \o <<Dao("base91", b, l)>>
  <2>1. Behind(Extension, v, d, c)
    <3>1. v = c \o <<d>>
      BY <1>3
    <3> HIDE DEF d
    <3> QED BY <1>0, <3>1, BehindIs
  <2>2. v \in Seq(Extension) /\ Len(v) = Len(c) + 1 /\ v[Len(v)] = d /\ RemoveAt(v, Len(v)) = c
    BY <2>1 DEF Behind
  <2>3. Len(c) \in Nat
    BY LenProperties
  <2> HIDE DEF d
  <2>4. at = Len(v)
    <3> HIDE DEF R
    <3>1. \/ at = 0 /\ \A i \in 1 .. Len(v) : ~ IsDao(v[i])
          \/ at \in 1 .. Len(v) /\ IsDao(v[at]) /\ \A i \in at + 1 .. Len(v) : ~ IsDao(v[i])
      BY <2>2, LastDaoIs
    <3> HIDE DEF at
    <3>2. Len(v) \in 1 .. Len(v) /\ IsDao(v[Len(v)])
      BY <1>0, <2>2, <2>3, SMT
    <3>3. at \in 1 .. Len(v) /\ \A i \in at + 1 .. Len(v) : ~ IsDao(v[i])
      BY <3>1, <3>2
    <3>4. at # Len(v) => Len(v) \in at + 1 .. Len(v)
      BY <2>2, <2>3, <3>3, SMT
    <3> QED BY <3>2, <3>3, <3>4
  <2>5. at # 0
    BY <2>2, <2>3, <2>4, SMT
  <2> DEFINE datum == v[at].datum
             comment == RemoveAt(v, at)
             lat2 == [R["lat"] EXCEPT !.grains = @ + DaoGrains(v[at].datum, v[at]["lat"])]
             lon2 == [R["lon"] EXCEPT !.grains = @ + DaoGrains(v[at].datum, v[at]["lon"])]
  <2>6. ReadDao(R, v) = [R EXCEPT !.comment = comment, !.datum = datum, !.lat = lat2, !.lon = lon2]
    BY <2>5 DEF ReadDao
  <2>7. comment = c
    BY <2>2, <2>4
  <2> HIDE DEF at, datum, comment, lat2, lon2
  <2>8. q = [R EXCEPT !.comment = comment, !.datum = datum, !.lat = lat2, !.lon = lon2]
    BY <2>6
  <2> DEFINE none == "none"
             void == <<>>
  <2>9. R = [form |-> t.form, table |-> t.table, code |-> t.code, lat |-> lat, lon |-> lon,
             ambiguity |-> a, course |-> course, speed |-> speed,
             altitude |-> altitude, datum |-> none, comment |-> void]
    BY DEF Rep
  <2> HIDE DEF R, none, void
  <2>10. q = [form |-> t.form, table |-> t.table, code |-> t.code, lat |-> lat2, lon |-> lon2,
              ambiguity |-> a, course |-> course, speed |-> speed,
              altitude |-> altitude, datum |-> datum, comment |-> comment]
    BY <2>8, <2>9
  <2>11. q = Rep(t, lat2, lon2, a, course, speed, altitude, datum, c)
    BY <2>7, <2>10 DEF Rep
  <2> QED BY <2>11 DEF Placed
<1> QED BY <1>2, <1>3

\* There is no telemetry in it.
LEMMA NoTelemetry ==
  ASSUME NEW c \in Seq(Extension), IsPlain(c), NEW b \in 0 .. 90, NEW l \in 0 .. 90,
         NEW v, v = c \/ v = c \o <<Dao("base91", b, l)>>
  PROVE  WithoutTelemetry(v) = v /\ TelemetryTaken(v) = v
<1> DEFINE d == Dao("base91", b, l)
<1>1. \A i \in 1 .. Len(c) : c[i] # Telemetry
  BY WrittenKinds DEF IsPlain
<1>2. d \in Extension /\ d # Telemetry
  BY WrittenKinds
<1>3. v \in Seq(Extension) /\ \A i \in 1 .. Len(v) : v[i] # Telemetry
  <2>1. CASE v = c
    BY <1>1, <2>1
  <2>2. CASE v = c \o <<d>>
    <3> HIDE DEF d
    <3>1. Behind(Extension, v, d, c)
      BY <1>2, <2>2, BehindIs
    <3>2. /\ v \in Seq(Extension) /\ Len(v) = Len(c) + 1 /\ v[Len(v)] = d /\ Len(c) \in Nat
          /\ \A i \in 1 .. Len(c) : v[i] = c[i]
      BY <3>1, LenProperties DEF Behind
    <3>3. \A i \in 1 .. Len(v) : i = Len(v) \/ i \in 1 .. Len(c)
      BY <3>2, SMT
    <3> QED BY <1>1, <1>2, <3>2, <3>3
  <2> QED BY <2>1, <2>2
<1> QED BY <1>3, WithoutTelemetryIs, TelemetryTakenIs

\* What is shown of the comment is all that changes.
LEMMA DaoRead ==
  ASSUME NEW c \in Seq(Extension), IsPlain(c), NEW b \in 0 .. 90, NEW l \in 0 .. 90,
         NEW v, v = c \/ v = c \o <<Dao("base91", b, l)>>,
         NEW t, NEW lat, NEW lon, NEW a, NEW course, NEW speed, NEW altitude,
         NEW r, r = WithDao(Rep(t, lat, lon, a, course, speed, altitude, "none", <<>>), TelemetryTaken(v))
  PROVE  SaidOf(r, t, course, speed, altitude, Shown(c))
<1> DEFINE R == Rep(t, lat, lon, a, course, speed, altitude, "none", <<>>)
           q == ReadDao(R, v)
<1>1. WithoutTelemetry(v) = v /\ TelemetryTaken(v) = v
  BY NoTelemetry
<1>2. r = [q EXCEPT !.comment = Shown(@)]
  BY <1>1 DEF WithDao
<1>3. Placed(q, t, a, course, speed, altitude, c)
  BY DaoTaken
<1>4. PICK lat2, lon2, datum : q = Rep(t, lat2, lon2, a, course, speed, altitude, datum, c)
  BY <1>3 DEF Placed
<1>5. PICK comment : comment = Shown(c)
  OBVIOUS
<1> HIDE DEF q
<1>6. r = Rep(t, lat2, lon2, a, course, speed, altitude, datum, comment)
  BY <1>2, <1>4, <1>5 DEF Rep
<1> QED BY <1>5, <1>6, RepIs DEF SaidOf

\* An altitude, or none, before a text without one.
AltitudeBefore(w, altitude, v) ==
  \/ altitude = {} /\ w = v
  \/ \E feet \in SixPlaces : altitude = {feet} /\ w = <<Altitude(feet)>> \o v

\* It is taken out, and there is no course before it.
LEMMA AltitudeBeforeIs ==
  ASSUME NEW v, Bare(v), NEW altitude, NEW w, AltitudeBefore(w, altitude, v)
  PROVE  /\ w \in Seq(Extension) /\ \A i \in 1 .. Len(w) : ~ IsMotion(w[i])
         /\ \A altitude2, v2 : AltitudeOutcome(w, altitude2, v2) => v2 = v /\ altitude2 = altitude
<1>1. CASE altitude = {} /\ w = v
  BY <1>1, NoAltitudeRead DEF Bare
<1>2. ASSUME NEW feet \in SixPlaces, altitude = {feet}, w = <<Altitude(feet)>> \o v
      PROVE  /\ w \in Seq(Extension) /\ \A i \in 1 .. Len(w) : ~ IsMotion(w[i])
             /\ \A altitude2, v2 : AltitudeOutcome(w, altitude2, v2) => v2 = v /\ altitude2 = altitude
  <2> DEFINE o == Altitude(feet)
  <2>1. o \in Extension /\ ~ IsMotion(o)
    BY WrittenKinds
  <2>2. v \in Seq(Extension)
    BY DEF Bare
  <2>3. Before(Extension, w, o, v)
    <3>1. w = <<o>> \o v
      BY <1>2
    <3> HIDE DEF o
    <3> QED BY <2>1, <2>2, <3>1, BeforeIs
  <2> HIDE DEF o
  <2>4. /\ w \in Seq(Extension) /\ w[1] = o /\ Len(w) = Len(v) + 1 /\ Len(v) \in Nat
        /\ \A i \in 1 .. Len(v) : w[i + 1] = v[i]
    BY <2>2, <2>3, LenProperties DEF Before
  <2>5. ASSUME NEW i \in 1 .. Len(w) PROVE ~ IsMotion(w[i])
    <3>1. CASE i = 1
      BY <2>1, <2>4, <3>1
    <3>2. CASE i # 1
      <4>1. i - 1 \in 1 .. Len(v) /\ (i - 1) + 1 = i
        BY <2>4, <3>2, SMT
      <4>2. w[(i - 1) + 1] = v[i - 1]
        BY <2>4, <4>1
      <4>3. w[i] = v[i - 1]
        BY <4>1, <4>2
      <4> QED BY <4>1, <4>3 DEF Bare
    <3> QED BY <3>1, <3>2
  <2>6. ASSUME NEW altitude2, NEW v2, AltitudeOutcome(w, altitude2, v2)
        PROVE  v2 = v /\ altitude2 = altitude
    BY <1>2, <2>2, <2>6, AltitudeRead
  <2> QED BY <2>4, <2>5, <2>6
<1> QED BY <1>1, <1>2 DEF AltitudeBefore

\* A comment is trimmed.
Cut(u, s) == s \in Seq(Extension) /\ \E i : ShownCut(u, s, i)

\* However often, it is one.
LEMMA CutAgain ==
  ASSUME NEW s, NEW u, Cut(u, s), NEW v, Cut(v, u)
  PROVE  Cut(v, s)
<1>1. PICK i, j : s \in Seq(Extension) /\ ShownCut(u, s, i) /\ ShownCut(v, u, j)
  BY DEF Cut
<1>2. /\ IsPart(u, s, i) /\ \A k \in 1 .. i : s[k] \in {White, Slash}
      /\ \A k \in i + Len(u) + 1 .. Len(s) : s[k] = White
      /\ IsPart(v, u, j) /\ \A k \in 1 .. j : u[k] \in {White, Slash}
      /\ \A k \in j + Len(v) + 1 .. Len(u) : u[k] = White
      /\ Len(v) = 0 \/ (v[1] # Slash /\ v[Len(v)] # White)
  BY <1>1 DEF ShownCut
<1>3. IsPart(v, s, i + j)
  BY <1>1, <1>2, PartOfPart
<1>4. /\ i \in Nat /\ j \in Nat /\ Len(u) \in Nat /\ Len(v) \in Nat /\ Len(s) \in Nat
      /\ Len(v) + j <= Len(u) /\ Len(u) + i <= Len(s)
      /\ \A k \in 1 .. Len(u) : u[k] = s[i + k]
  BY <1>1, <1>2, LenProperties DEF IsPart
<1>5. ASSUME NEW k \in 1 .. i + j PROVE s[k] \in {White, Slash}
  <2>1. CASE k \in 1 .. i
    BY <1>2, <2>1
  <2>2. CASE k \notin 1 .. i
    <3>1. k - i \in 1 .. j /\ k - i \in 1 .. Len(u) /\ i + (k - i) = k
      BY <1>4, <2>2, SMT
    <3>2. u[k - i] = s[i + (k - i)] /\ u[k - i] \in {White, Slash}
      BY <1>2, <1>4, <3>1
    <3> QED BY <3>1, <3>2
  <2> QED BY <2>1, <2>2
<1>6. ASSUME NEW k \in i + j + Len(v) + 1 .. Len(s) PROVE s[k] = White
  <2>1. CASE k \in i + Len(u) + 1 .. Len(s)
    BY <1>2, <2>1
  <2>2. CASE k \notin i + Len(u) + 1 .. Len(s)
    <3>1. k - i \in j + Len(v) + 1 .. Len(u) /\ k - i \in 1 .. Len(u) /\ i + (k - i) = k
      BY <1>4, <2>2, SMT
    <3>2. u[k - i] = s[i + (k - i)] /\ u[k - i] = White
      BY <1>2, <1>4, <3>1
    <3> QED BY <3>1, <3>2
  <2> QED BY <2>1, <2>2
<1>7. ShownCut(v, s, i + j)
  BY <1>2, <1>3, <1>5, <1>6 DEF ShownCut
<1> QED BY <1>1, <1>7 DEF Cut

\* What is shown of a plain comment is trimmed, and plain.
LEMMA ShownIsCut ==
  ASSUME NEW s \in Seq(Extension), IsPlain(s), NEW u, u = Shown(s)
  PROVE  Cut(u, s) /\ IsPlain(u) /\ u \in Seq(Extension)
<1>1. PICK i : ShownCut(u, s, i)
  BY ShownIs
<1>2. /\ u \in Seq(Extension) /\ i \in Nat /\ Len(u) + i <= Len(s)
      /\ \A k \in 1 .. Len(u) : u[k] = s[i + k]
  BY <1>1 DEF ShownCut, IsPart
<1>3. ASSUME NEW k \in 1 .. Len(u) PROVE u[k] \in {Words, White, Slash}
  <2>1. Len(u) \in Nat /\ Len(s) \in Nat
    BY <1>2, LenProperties
  <2>2. i + k \in 1 .. Len(s)
    BY <1>2, <2>1, SMT
  <2>3. s[i + k] \in {Words, White, Slash}
    BY <2>2 DEF IsPlain
  <2> QED BY <1>2, <2>3
<1> QED BY <1>1, <1>2, <1>3 DEF Cut, IsPlain

\* That is what the property calls trimmed.
LEMMA CutIsTrimmed ==
  ASSUME NEW s, NEW u, Cut(u, s)
  PROVE  IsTrimmed(u, s)
<1>1. PICK i : s \in Seq(Extension) /\ ShownCut(u, s, i)
  BY DEF Cut
<1>2. /\ IsPart(u, s, i) /\ \A k \in 1 .. i : s[k] \in {White, Slash}
      /\ \A k \in i + Len(u) + 1 .. Len(s) : s[k] = White
      /\ Len(u) = 0 \/ (u[1] # Slash /\ u[Len(u)] # White)
  BY <1>1 DEF ShownCut
<1>3. /\ i \in Nat /\ Len(u) \in Nat /\ Len(s) \in Nat /\ u \in Seq(Extension)
      /\ Len(u) + i <= Len(s) /\ \A k \in 1 .. Len(u) : u[k] = s[i + k]
  BY <1>1, <1>2, LenProperties DEF IsPart
<1> DEFINE v == SubSeq(s, i + 1, i + Len(u))
<1>4. IsPart(v, s, i) /\ Len(v) = Len(u)
  <2>1. i \in 0 .. Len(s) /\ i + Len(u) \in i .. Len(s) /\ i + Len(u) - i = Len(u)
    BY <1>3, SMT
  <2>2. IsPart(SubSeq(s, i + 1, i + Len(u)), s, i)
        /\ Len(SubSeq(s, i + 1, i + Len(u))) = i + Len(u) - i
    BY <1>1, <2>1, PieceIs
  <2> QED BY <2>1, <2>2
<1> HIDE DEF v
<1>5. v \in Seq(Extension) /\ \A k \in 1 .. Len(u) : v[k] = s[i + k]
  BY <1>4 DEF IsPart
<1>6. \A k \in 1 .. Len(u) : u[k] = v[k]
  BY <1>3, <1>5
<1>7. u = v
  BY <1>3, <1>4, <1>5, <1>6, SeqEqual
<1>8. i \in 0 .. Len(s) - Len(u) /\ u = SubSeq(s, i + 1, i + Len(u))
  <2>1. i \in 0 .. Len(s) - Len(u)
    BY <1>3, SMT
  <2> QED BY <1>7, <2>1 DEF v
<1>9. Len(u) = 0 => u = <<>>
  BY <1>3, EmptySeq
<1> QED BY <1>2, <1>8, <1>9 DEF IsTrimmed

\* What is to become of an altitude and the comment behind it: one of seven places
\* runs into the comment, which is trimmed.
IsSaid(p) == HasExtensions(p) /\ p.altitude \subseteq SevenPlaces /\ IsPlain(p.comment)
AltitudeMeant(p, altitude, comment) ==
  /\ altitude \subseteq SixPlaces /\ comment \in Seq(Extension) /\ IsPlain(comment)
  /\ IF p.altitude \subseteq SixPlaces
     THEN altitude = p.altitude /\ comment = p.comment
     ELSE altitude = {Quotient(feet, 10) : feet \in p.altitude} /\ comment = <<Words>> \o p.comment
AltitudeTold(p, altitude, comment) ==
  /\ altitude \subseteq SixPlaces /\ comment \in Seq(Extension) /\ IsPlain(comment)
  /\ IF p.altitude \subseteq SixPlaces
     THEN altitude = p.altitude /\ Cut(comment, p.comment)
     ELSE altitude = {Quotient(feet, 10) : feet \in p.altitude} /\ Cut(comment, <<Words>> \o p.comment)
AltitudeAs(p, altitude, comment) ==
  AltitudeMeant(p, altitude, comment) /\ AltitudeBefore(AltitudeAndComment(p), altitude, comment)

\* A plain comment with words before it is plain.
LEMMA PlainBefore ==
  ASSUME NEW c \in Seq(Extension), IsPlain(c), NEW d, d = <<Words>> \o c
  PROVE  d \in Seq(Extension) /\ IsPlain(d)
<1> DEFINE w == Words
<1>1. w \in Extension
  BY WrittenKinds
<1>2. Before(Extension, d, w, c)
  <2>1. d = <<w>> \o c
    OBVIOUS
  <2> HIDE DEF w
  <2> QED BY <1>1, <2>1, BeforeIs
<1>3. /\ d \in Seq(Extension) /\ d[1] = w /\ Len(d) = Len(c) + 1 /\ Len(c) \in Nat
      /\ \A i \in 1 .. Len(c) : d[i + 1] = c[i]
  <2> HIDE DEF w
  <2> QED BY <1>2, LenProperties DEF Before
<1>4. ASSUME NEW i \in 1 .. Len(d) PROVE d[i] \in {Words, White, Slash}
  <2>1. CASE i = 1
    BY <1>3, <2>1
  <2>2. CASE i # 1
    <3>1. i - 1 \in 1 .. Len(c) /\ (i - 1) + 1 = i
      BY <1>3, <2>2, SMT
    <3>2. d[(i - 1) + 1] = c[i - 1]
      BY <1>3, <3>1
    <3>3. d[i] = c[i - 1]
      BY <3>1, <3>2
    <3> QED BY <3>1, <3>3 DEF IsPlain
  <2> QED BY <2>1, <2>2
<1> QED BY <1>3, <1>4 DEF IsPlain

\* Two elements are one before the other.
LEMMA PairIs ==
  ASSUME NEW S, NEW x \in S, NEW w \in S
  PROVE  <<x>> \o <<w>> = <<x, w>>
<1> DEFINE v == <<w>>
           z == <<x>> \o v
           y == <<x, w>>
<1>1. v \in Seq(S) /\ Len(v) = 1 /\ v[1] = w
  OBVIOUS
<1>2. y \in Seq(S) /\ Len(y) = 2 /\ y[1] = x /\ y[2] = w
  OBVIOUS
<1>3. /\ z \in Seq(S) /\ Len(z) = Len(v) + 1 /\ z[1] = x
      /\ \A i \in 1 .. Len(v) : z[i + 1] = v[i]
  <2>1. z = <<x>> \o v
    OBVIOUS
  <2> HIDE DEF v, z
  <2>2. Before(S, z, x, v)
    BY <1>1, <2>1, BeforeIs
  <2> QED BY <2>2 DEF Before
<1> HIDE DEF v, y, z
<1>4. z[2] = w /\ Len(z) = 2
  <2>1. 1 \in 1 .. Len(v) /\ 1 + 1 = 2
    BY <1>1, SMT
  <2>2. z[1 + 1] = v[1]
    BY <1>3, <2>1
  <2> QED BY <1>1, <1>3, <2>1, <2>2
<1>5. \A i \in 1 .. Len(z) : z[i] = y[i]
  <2>1. \A i \in 1 .. 2 : i = 1 \/ i = 2
    BY SMT
  <2> QED BY <1>2, <1>3, <1>4, <2>1
<1>6. z = y
  BY <1>2, <1>3, <1>4, <1>5, SeqEqual
<1> QED BY <1>6 DEF v, y, z

\* So it is written.
LEMMA AltitudeWritten ==
  ASSUME NEW p, IsSaid(p)
  PROVE  \E altitude, comment : AltitudeAs(p, altitude, comment)
<1> DEFINE c == p.comment
           e == IF p.altitude = {} THEN <<>> ELSE EncodedAltitude(CHOOSE feet \in p.altitude : TRUE)
<1>1. c \in Seq(Extension) /\ IsPlain(c) /\ IsOption(p.altitude) /\ p.altitude \subseteq SevenPlaces
  BY DEF IsSaid, HasExtensions
<1>2. AltitudeAndComment(p) = e \o c
  BY DEF AltitudeAndComment
<1> HIDE DEF c
<1>3. CASE p.altitude = {}
  <2>1. e = <<>>
    BY <1>3
  <2> HIDE DEF e
  <2>2. AltitudeAndComment(p) = c
    BY <1>1, <1>2, <2>1, ConcatEmptySeq
  <2>3. p.altitude \subseteq SixPlaces
    BY <1>3
  <2>4. AltitudeBefore(AltitudeAndComment(p), p.altitude, c)
    BY <1>3, <2>2 DEF AltitudeBefore
  <2>5. AltitudeAs(p, p.altitude, c)
    BY <1>1, <2>3, <2>4 DEF AltitudeAs, AltitudeMeant, c
  <2> QED BY <2>5
<1>4. CASE p.altitude # {}
  <2>1. PICK feet \in p.altitude : TRUE
    BY <1>4
  <2>2. (CHOOSE y \in p.altitude : TRUE) = feet /\ feet \in Int /\ p.altitude = {feet} /\ feet \in SevenPlaces
    BY <1>1, <2>1, OptionIs
  <2>3. e = EncodedAltitude(feet)
    BY <1>4, <2>2
  <2> HIDE DEF e
  <2>4. CASE feet \in SixPlaces
    <3>1. e = <<Altitude(feet)>>
      BY <2>3, <2>4 DEF EncodedAltitude
    <3>2. AltitudeBefore(AltitudeAndComment(p), p.altitude, c)
      BY <1>2, <2>2, <2>4, <3>1 DEF AltitudeBefore
    <3>3. p.altitude \subseteq SixPlaces
      BY <2>2, <2>4
    <3>4. AltitudeAs(p, p.altitude, c)
      BY <1>1, <3>2, <3>3 DEF AltitudeAs, AltitudeMeant, c
    <3> QED BY <3>4
  <2>5. CASE feet \notin SixPlaces
    <3> DEFINE q == Quotient(feet, 10)
               x == Altitude(q)
               w == Words
               d == <<w>> \o c
    <3>1. q \in SixPlaces /\ q \in Int
      <4>1. Quotient(feet, 10) \in SixPlaces
        BY <2>2, <2>5, TenthIs
      <4> QED BY <4>1 DEF SixPlaces
    <3>2. e = <<x, w>>
      BY <2>3, <2>5 DEF EncodedAltitude
    <3>3. x \in Extension /\ w \in Extension
      <4> HIDE DEF q
      <4> QED BY <3>1, WrittenKinds
    <3>4. d \in Seq(Extension) /\ IsPlain(d)
      BY <1>1, PlainBefore
    <3>5. AltitudeAndComment(p) = <<x>> \o d
      <4> HIDE DEF x, w
      <4>1. <<x>> \in Seq(Extension) /\ <<w>> \in Seq(Extension)
        BY <3>3
      <4>0. <<x>> \o <<w>> = <<x, w>>
        BY <3>3, PairIs
      <4> DEFINE u == <<x>>
                 v == <<w>>
      <4>2. u \in Seq(Extension) /\ v \in Seq(Extension) /\ e = u \o v
        BY <3>2, <4>0, <4>1
      <4>3. d = v \o c
        OBVIOUS
      <4> HIDE DEF u, v, d
      <4>4. (u \o v) \o c = u \o d
        BY <1>1, <4>2, <4>3, ConcatAssociative
      <4> QED BY <1>2, <4>2, <4>4 DEF u
    <3>6. AltitudeBefore(AltitudeAndComment(p), {q}, d)
      <4>1. AltitudeAndComment(p) = <<Altitude(q)>> \o d
        BY <3>5
      <4> HIDE DEF q, d
      <4> QED BY <3>1, <4>1 DEF AltitudeBefore
    <3>7. ~ p.altitude \subseteq SixPlaces
      BY <2>2, <2>5
    <3>8. {q} = {Quotient(f, 10) : f \in p.altitude}
      BY <2>2
    <3>9. {q} \subseteq SixPlaces
      <4> HIDE DEF q
      <4> QED BY <3>1
    <3>10. d = <<Words>> \o p.comment
      BY DEF c
    <3> HIDE DEF q, d
    <3>11. AltitudeAs(p, {q}, d)
      BY <3>4, <3>6, <3>7, <3>8, <3>9, <3>10 DEF AltitudeAs, AltitudeMeant
    <3> QED BY <3>11
  <2> QED BY <2>4, <2>5
<1> QED BY <1>3, <1>4

\* Course and speed, or none, before a text; DAO in base 91, or none, behind it.
MotionBefore(m, course, speed, course2, speed2) ==
  \/ m = <<>> /\ course2 = course /\ speed2 = speed
  \/ \E x \in Extension : IsMotion(x) /\ m = <<x>> /\ course2 = {MotionOf(x)} /\ speed2 = {x.speed}
IsDaoText(d) == d = <<>> \/ \E b, l \in 0 .. 90 : d = <<Dao("base91", b, l)>>

\* The end of a text that the encoder has written.
IsEnd(c, d, v) ==
  /\ d \in Seq(Extension) /\ Bare(v)
  /\ \E b, l \in 0 .. 90 : v = c \/ v = c \o <<Dao("base91", b, l)>>

\* A plain comment, with such DAO behind it, has neither course nor altitude.
LEMMA EndIs ==
  ASSUME NEW c \in Seq(Extension), IsPlain(c), NEW d, IsDaoText(d), NEW v, v = c \o d
  PROVE  IsEnd(c, d, v)
<1>1. \A i \in 1 .. Len(c) : ~ IsMotion(c[i]) /\ ~ IsAltitude(c[i])
  BY WrittenKinds DEF IsPlain
<1>2. CASE d = <<>>
  <2>1. v = c /\ <<>> \in Seq(Extension)
    BY <1>2, ConcatEmptySeq, EmptySeq
  <2>2. 0 \in 0 .. 90
    BY SMT
  <2> QED BY <1>1, <1>2, <2>1, <2>2 DEF IsEnd, Bare
<1>3. ASSUME NEW b \in 0 .. 90, NEW l \in 0 .. 90, d = <<Dao("base91", b, l)>>
      PROVE  IsEnd(c, d, v)
  <2> DEFINE x == Dao("base91", b, l)
  <2>1. x \in Extension /\ ~ IsMotion(x) /\ ~ IsAltitude(x)
    BY WrittenKinds
  <2>2. d = <<x>> /\ v = c \o <<x>>
    BY <1>3
  <2> HIDE DEF x
  <2>3. d \in Seq(Extension)
    BY <2>1, <2>2
  <2>4. Behind(Extension, v, x, c)
    BY <2>1, <2>2, BehindIs
  <2>5. /\ v \in Seq(Extension) /\ v[Len(v)] = x /\ Len(v) = Len(c) + 1 /\ Len(c) \in Nat
        /\ \A i \in 1 .. Len(c) : v[i] = c[i]
    BY <2>4, LenProperties DEF Behind
  <2>6. ASSUME NEW i \in 1 .. Len(v) PROVE ~ IsMotion(v[i]) /\ ~ IsAltitude(v[i])
    <3>1. CASE i = Len(v)
      BY <2>1, <2>5, <3>1
    <3>2. CASE i # Len(v)
      <4>1. i \in 1 .. Len(c)
        BY <2>5, <3>2, SMT
      <4> QED BY <1>1, <2>5, <4>1
    <3> QED BY <3>1, <3>2
  <2> QED BY <2>2, <2>3, <2>5, <2>6 DEF IsEnd, Bare, x
<1> QED BY <1>2, <1>3 DEF IsDaoText

\* Behind an altitude the same.
LEMMA AltitudeJoined ==
  ASSUME NEW c \in Seq(Extension), NEW d \in Seq(Extension), NEW altitude, NEW e, AltitudeBefore(e, altitude, c)
  PROVE  AltitudeBefore(e \o d, altitude, c \o d)
<1>1. CASE altitude = {} /\ e = c
  BY <1>1 DEF AltitudeBefore
<1>2. ASSUME NEW feet \in SixPlaces, altitude = {feet}, e = <<Altitude(feet)>> \o c
      PROVE  AltitudeBefore(e \o d, altitude, c \o d)
  <2> DEFINE o == Altitude(feet)
             u == <<o>>
  <2>1. o \in Extension
    BY WrittenKinds
  <2>2. u \in Seq(Extension)
    <3> HIDE DEF o
    <3> QED BY <2>1
  <2>3. e = u \o c
    BY <1>2
  <2> HIDE DEF u
  <2>4. e \o d = u \o (c \o d)
    BY <2>2, <2>3, ConcatAssociative
  <2>5. e \o d = <<Altitude(feet)>> \o (c \o d)
    BY <2>4 DEF u
  <2> QED BY <1>2, <2>5 DEF AltitudeBefore
<1> QED BY <1>1, <1>2 DEF AltitudeBefore

\* What is read of course and speed, and what is left.
MotionReadIn(said, course, speed, course3, speed3, u) ==
  MotionOutcome(said, course3, speed3, u) /\ (u = said => course3 = course /\ speed3 = speed)
IsLeft(u, w, course3, speed3, course2, speed2) == u = w /\ course3 = course2 /\ speed3 = speed2

\* Course and speed are read if they are there, and nothing else is lost.
LEMMA MotionIsRead ==
  ASSUME NEW m, NEW course, NEW speed, NEW course2, NEW speed2, MotionBefore(m, course, speed, course2, speed2),
         NEW w \in Seq(Extension), \A i \in 1 .. Len(w) : ~ IsMotion(w[i]), NEW said, said = m \o w,
         NEW course3, NEW speed3, NEW u, MotionReadIn(said, course, speed, course3, speed3, u)
  PROVE  IsLeft(u, w, course3, speed3, course2, speed2)
<1>0. MotionOutcome(said, course3, speed3, u) /\ (u = said => course3 = course /\ speed3 = speed)
  BY DEF MotionReadIn
<1>1. CASE m = <<>> /\ course2 = course /\ speed2 = speed
  <2>1. said = w
    BY <1>1, ConcatEmptySeq
  <2>2. u = said
    BY <1>0, <2>1, NoMotionRead
  <2> QED BY <1>0, <1>1, <2>1, <2>2 DEF IsLeft
<1>2. ASSUME NEW x \in Extension, IsMotion(x), m = <<x>>, course2 = {MotionOf(x)}, speed2 = {x.speed}
      PROVE  IsLeft(u, w, course3, speed3, course2, speed2)
  <2>1. said = <<x>> \o w
    BY <1>2
  <2>2. u = w /\ course3 = {MotionOf(x)} /\ speed3 = {x.speed}
    BY <1>0, <1>2, <2>1, MotionRead
  <2> QED BY <1>2, <2>2 DEF IsLeft
<1> QED BY <1>1, <1>2 DEF MotionBefore

\* What the decoder makes of a text that the encoder has written: course and speed are
\* those before it, altitude and comment as they were meant.
TextSaid(p, r, t, course, speed, altitude, comment) ==
  AltitudeTold(p, altitude, comment) /\ SaidOf(r, t, course, speed, altitude, comment)
TellsText(p, r, t, course, speed) ==
  \E altitude, comment : TextSaid(p, r, t, course, speed, altitude, comment)
TextOf(p, m, d, said) == said = m \o AltitudeAndComment(p) \o d
IsReadAs(t, lat, lon, a, course, speed, said, r) ==
  r = WithComment(Rep(t, lat, lon, a, course, speed, {}, "none", <<>>), said)

\* Every text that it has written is read so.
LEMMA TextSays ==
  ASSUME NEW p, IsSaid(p),
         NEW m \in Seq(Extension), NEW course, NEW speed, NEW course2, NEW speed2,
         MotionBefore(m, course, speed, course2, speed2),
         NEW d, IsDaoText(d), NEW said, TextOf(p, m, d, said),
         NEW t, ~ IsWeather(t), NEW lat, NEW lon, NEW a,
         NEW r, IsReadAs(t, lat, lon, a, course, speed, said, r)
  PROVE  TellsText(p, r, t, course2, speed2)
<1> DEFINE e == AltitudeAndComment(p)
           w == e \o d
<1>1. PICK altitude, c : AltitudeAs(p, altitude, c)
  BY AltitudeWritten
<1>2. /\ AltitudeMeant(p, altitude, c) /\ AltitudeBefore(e, altitude, c)
      /\ c \in Seq(Extension) /\ IsPlain(c)
  BY <1>1 DEF AltitudeAs, AltitudeMeant
<1>3. e \in Seq(Extension)
  BY AltitudeAndCommentIs DEF IsSaid
<1> HIDE DEF e
<1> DEFINE v == c \o d
<1>4. d \in Seq(Extension) /\ Bare(v) /\ \E b, l \in 0 .. 90 : v = c \/ v = c \o <<Dao("base91", b, l)>>
  <2>1. v = c \o d
    OBVIOUS
  <2> HIDE DEF v
  <2>2. IsEnd(c, d, v)
    BY <1>2, <2>1, EndIs
  <2> QED BY <2>2 DEF IsEnd
<1>5. AltitudeBefore(w, altitude, v)
  BY <1>2, <1>4, AltitudeJoined
<1>6. said = m \o w
  <2>1. said = (m \o e) \o d
    BY DEF TextOf, e
  <2>2. (m \o e) \o d = m \o (e \o d)
    <3>1. m \in Seq(Extension) /\ e \in Seq(Extension) /\ d \in Seq(Extension)
      BY <1>3, <1>4
    <3> QED BY <3>1, ConcatAssociative, SMT
  <2> QED BY <2>1, <2>2 DEF w
<1> HIDE DEF w, v
<1>7. /\ w \in Seq(Extension) /\ \A i \in 1 .. Len(w) : ~ IsMotion(w[i])
      /\ \A altitude2, v2 : AltitudeOutcome(w, altitude2, v2) => v2 = v /\ altitude2 = altitude
  BY <1>4, <1>5, AltitudeBeforeIs
<1>8. said \in Seq(Extension)
  BY <1>6, <1>7, ConcatProperties
<1>9. PICK course3, speed3, u, altitude3, v3 :
        IsRead(t, lat, lon, a, course, speed, said, course3, speed3, u, altitude3, v3)
  BY <1>8, WithCommentIs
<1>10. /\ MotionOutcome(said, course3, speed3, u)
       /\ u = said => course3 = course /\ speed3 = speed
       /\ AltitudeOutcome(u, altitude3, v3)
       /\ WithComment(Rep(t, lat, lon, a, course, speed, {}, "none", <<>>), said)
            = WithDao(Rep(t, lat, lon, a, course3, speed3, altitude3, "none", <<>>), TelemetryTaken(v3))
  BY <1>9 DEF IsRead
<1>11. u = w /\ course3 = course2 /\ speed3 = speed2
  <2>1. MotionReadIn(said, course, speed, course3, speed3, u)
    BY <1>10 DEF MotionReadIn
  <2>2. w \in Seq(Extension) /\ \A i \in 1 .. Len(w) : ~ IsMotion(w[i])
    BY <1>7
  <2>3. IsLeft(u, w, course3, speed3, course2, speed2)
    BY <1>6, <2>1, <2>2, MotionIsRead
  <2> QED BY <2>3 DEF IsLeft
<1>12. v3 = v /\ altitude3 = altitude
  BY <1>7, <1>10, <1>11
<1>13. r = WithDao(Rep(t, lat, lon, a, course2, speed2, altitude, "none", <<>>), TelemetryTaken(v))
  BY <1>10, <1>11, <1>12 DEF IsReadAs
<1>14. PICK b, l \in 0 .. 90 : v = c \/ v = c \o <<Dao("base91", b, l)>>
  BY <1>4
<1>15. PICK comment : comment = Shown(c)
  OBVIOUS
<1>16. SaidOf(r, t, course2, speed2, altitude, comment)
  BY <1>2, <1>13, <1>14, <1>15, DaoRead
<1>17. Cut(comment, c) /\ IsPlain(comment) /\ comment \in Seq(Extension)
  BY <1>2, <1>15, ShownIsCut
<1>18. AltitudeTold(p, altitude, comment)
  BY <1>2, <1>17 DEF AltitudeMeant, AltitudeTold
<1>19. TextSaid(p, r, t, course2, speed2, altitude, comment)
  BY <1>16, <1>18 DEF TextSaid
<1> QED BY <1>19 DEF TellsText

\* What is to become of course and speed.
Moves(p) == HasMotion(p) /\ (p.compressed => \E c \in p.course : c \in 1 .. 360)
CourseOf(p, course) ==
  IF p.compressed THEN IF CompressedCourse(course) = 0 THEN 360 ELSE 4 * CompressedCourse(course)
  ELSE IF course > 360 THEN 0 ELSE course
SpeedOf(p, speed) == IF p.compressed THEN Least(speed, 89) ELSE Least(speed, 999)
MotionTold(p, course, speed) ==
  IF Moves(p) THEN \A c \in p.course, s \in p.speed : course = {CourseOf(p, c)} /\ speed = {SpeedOf(p, s)}
  ELSE course = {} /\ speed = {}

\* A report tells what the position said.
Tells(p, r) ==
  /\ r.form = "compressed" <=> p.compressed
  /\ MotionTold(p, r.course, r.speed) /\ AltitudeTold(p, r.altitude, r.comment)

\* Course and speed as they are written before an uncompressed comment.
MotionAs(p, none, course, speed) ==
  /\ MotionText(p) \in Seq(Extension)
  /\ MotionBefore(MotionText(p), none, none, course, speed) /\ MotionTold(p, course, speed)

\* They are written before any uncompressed comment.
LEMMA MotionWritten ==
  ASSUME NEW p, HasExtensions(p), ~ p.compressed, NEW none, none = {}
  PROVE  \E course, speed : MotionAs(p, none, course, speed)
<1>1. Moves(p) <=> HasMotion(p)
  BY DEF Moves
<1>2. MotionText(p) \in Seq(Extension)
  BY MotionTextIs
<1>3. CASE ~ HasMotion(p)
  <2>1. MotionText(p) = <<>>
    BY <1>3 DEF MotionText
  <2>2. MotionTold(p, none, none)
    BY <1>1, <1>3 DEF MotionTold
  <2>3. MotionBefore(MotionText(p), none, none, none, none)
    BY <2>1 DEF MotionBefore
  <2>4. MotionAs(p, none, none, none)
    BY <1>2, <2>2, <2>3 DEF MotionAs
  <2> QED BY <2>4
<1>4. CASE HasMotion(p)
  <2>1. PICK s \in p.speed, c \in p.course : s >= 0 /\ c >= 0
    BY <1>4 DEF HasMotion
  <2>2. /\ (CHOOSE y \in p.course : TRUE) = c /\ c \in Int /\ p.course = {c}
        /\ (CHOOSE y \in p.speed : TRUE) = s /\ s \in Int /\ p.speed = {s}
    BY OptionIs DEF HasExtensions
  <2> DEFINE x == IF c > 360 THEN 0 ELSE c
             y == Least(s, 999)
             m == Motion(x, y)
  <2>3. x \in Nat /\ y \in Nat /\ x = CourseOf(p, c) /\ y = SpeedOf(p, s)
    <3>1. x \in Nat /\ y \in Nat
      BY <2>1, <2>2, SMT DEF Least
    <3> QED BY <3>1 DEF CourseOf, SpeedOf
  <2>4. MotionText(p) = <<m>>
    BY <1>4, <2>2 DEF MotionText
  <2>5. x \in 1 .. 360 \/ x = 0
    BY <2>1, <2>2, SMT
  <2> HIDE DEF x, y
  <2>6. m \in Extension /\ IsMotion(m) /\ m.course = x /\ m.speed = y
    BY <2>3, WrittenKinds
  <2> HIDE DEF m
  <2>7. MotionOf(m) = x
    BY <2>5, <2>6 DEF MotionOf
  <2>8. MotionBefore(MotionText(p), none, none, {x}, {y})
    BY <2>4, <2>6, <2>7 DEF MotionBefore
  <2>9. MotionTold(p, {x}, {y})
    BY <1>1, <1>4, <2>2, <2>3 DEF MotionTold
  <2>10. MotionAs(p, none, {x}, {y})
    BY <1>2, <2>8, <2>9 DEF MotionAs
  <2> QED BY <2>10
<1> QED BY <1>3, <1>4

\* What is read of an uncompressed text is what was written.
LEMMA UncompressedSays ==
  ASSUME NEW p, IsSaid(p), ~ p.compressed, ~ IsWeather(p), p.lat \in Angle, p.lon \in Angle,
         NEW t, t = Uncompressed(p), NEW r, ParsePosition(t) = {r}
  PROVE  Tells(p, r)
<1>1. PICK dao \in BOOLEAN : dao <=> p.dao /\ p.ambiguity = 0
  OBVIOUS
<1>2. /\ t.form = "uncompressed" /\ t.code = p.code
      /\ t.rest = MotionText(p) \o AltitudeAndComment(p) \o DaoText(p, dao)
  BY <1>1, UncompressedIs
<1>3. PICK none : none = {}
  OBVIOUS
<1>4. \E lat, lon, a : r = WithComment(Rep(t, lat, lon, a, none, none, {}, "none", <<>>), t.rest)
  <2> DEFINE A == Coordinate(t.lat, 89, TrailingBlanks(t.lat.digits))
             B == Coordinate(t.lon, 179, TrailingBlanks(t.lat.digits))
             F(x, y) == WithComment(NewReport(t, x, y, TrailingBlanks(t.lat.digits), {}, {}), t.rest)
             G(x, y, a) == WithComment(Rep(t, x, y, a, none, none, {}, "none", <<>>), t.rest)
  <2>1. ParseUncompressed(t) = {F(lat, lon) : lat \in A, lon \in B}
    BY DEF ParseUncompressed
  <2>2. ParsePosition(t) = ParseUncompressed(t)
    BY <1>2 DEF ParsePosition
  <2>3. \A x, y : F(x, y) = G(x, y, TrailingBlanks(t.lat.digits))
    BY <1>3 DEF NewReport, Rep
  <2> HIDE DEF A, B, F, G
  <2>4. r \in {F(lat, lon) : lat \in A, lon \in B}
    BY <2>1, <2>2
  <2>5. PICK x \in A, y \in B : r = F(x, y)
    BY <2>4
  <2>6. r = G(x, y, TrailingBlanks(t.lat.digits))
    BY <2>3, <2>5
  <2> QED BY <2>6 DEF G
<1>5. PICK lat, lon, a : r = WithComment(Rep(t, lat, lon, a, none, none, {}, "none", <<>>), t.rest)
  BY <1>4
<1>6. HasExtensions(p)
  BY DEF IsSaid
<1>7. PICK course, speed : MotionAs(p, none, course, speed)
  BY <1>3, <1>6, MotionWritten
<1> DEFINE m == MotionText(p)
           d == DaoText(p, dao)
<1>8. /\ m \in Seq(Extension) /\ MotionBefore(m, none, none, course, speed)
      /\ MotionTold(p, course, speed)
  BY <1>7 DEF MotionAs
<1>9. IsDaoText(d)
  <2> DEFINE x == Normal(p.lat)
             y == Normal(p.lon)
             b == DaoDigit(Fine(x) % 100)
             l == DaoDigit(Fine(y) % 100)
  <2>1. x \in Angle /\ x.grains < Degree /\ y \in Angle /\ y.grains < Degree
    BY NormalIs
  <2>2. d = IF dao THEN <<Dao("base91", b, l)>> ELSE <<>>
    BY Zenon DEF DaoText, Fine
  <2> HIDE DEF x, y, d
  <2>3. b \in 0 .. 90 /\ l \in 0 .. 90
    BY <2>1, WithDaoNear
  <2> HIDE DEF b, l
  <2> QED BY <2>2, <2>3 DEF IsDaoText
<1>10. ~ IsWeather(t)
  BY <1>2 DEF IsWeather
<1>11. t.rest = m \o AltitudeAndComment(p) \o d
  BY <1>2
<1> HIDE DEF m, d
<1>12. PICK altitude, comment : TextSaid(p, r, t, course, speed, altitude, comment)
  <2>1. PICK said : said = t.rest
    OBVIOUS
  <2>2. TextOf(p, m, d, said) /\ IsReadAs(t, lat, lon, a, none, none, said, r)
    BY <1>5, <1>11, <2>1 DEF TextOf, IsReadAs
  <2>3. TellsText(p, r, t, course, speed)
    BY <1>8, <1>9, <1>10, <2>2, TextSays
  <2> QED BY <2>3 DEF TellsText
<1>13. /\ r.form = t.form /\ r.course = course /\ r.speed = speed
       /\ r.altitude = altitude /\ r.comment = comment /\ AltitudeTold(p, altitude, comment)
  BY <1>12 DEF TextSaid, SaidOf
<1>14. ~ r.form = "compressed"
  BY <1>2, <1>13
<1> QED BY <1>8, <1>13, <1>14 DEF Tells

\* The course of a step of compressed text.
IsStep(k, c) == k \in 0 .. 89 /\ c = IF k = 0 THEN 360 ELSE 4 * k

\* A course is rounded to its step once.
LEMMA CourseRounded ==
  ASSUME NEW k, NEW c, IsStep(k, c)
  PROVE  c \in 1 .. 360 /\ CompressedCourse(c) = k
<1>1. k \in 0 .. 89 /\ c = (IF k = 0 THEN 360 ELSE 4 * k)
  BY DEF IsStep
<1>2. c \in 1 .. 360
  BY <1>1, SMT
<1>3. (c + 2) \div 4 = IF k = 0 THEN 90 ELSE k
  BY <1>1, SMT
<1>4. CompressedCourse(c) = IF (c + 2) \div 4 > 89 THEN 0 ELSE (c + 2) \div 4
  BY DEF CompressedCourse
<1>5. CompressedCourse(c) = k
  BY <1>1, <1>3, <1>4, SMT
<1> QED BY <1>2, <1>5

\* It has 90 steps.
LEMMA CourseSteps ==
  ASSUME NEW c \in 1 .. 360
  PROVE  CompressedCourse(c) \in 0 .. 89
<1> DEFINE k == (c + 2) \div 4
<1>1. k \in 0 .. 90
  BY SMT
<1>2. CompressedCourse(c) = IF k > 89 THEN 0 ELSE k
  BY DEF CompressedCourse
<1> HIDE DEF k
<1> QED BY <1>1, <1>2, SMT

\* What a report tells is told by what is sent on.
LEMMA MotionKept ==
  ASSUME NEW p, HasExtensions(p), NEW q, p.compressed <=> q.compressed, MotionTold(p, q.course, q.speed),
         NEW course, NEW speed, MotionTold(q, course, speed)
  PROVE  MotionTold(p, course, speed)
<1>1. CASE ~ Moves(p)
  <2>1. q.course = {}
    BY <1>1 DEF MotionTold
  <2>2. ~ Moves(q)
    BY <2>1 DEF Moves, HasMotion
  <2> QED BY <1>1, <2>2 DEF MotionTold
<1>2. CASE Moves(p)
  <2>1. PICK s \in p.speed, c \in p.course : s >= 0 /\ c >= 0
    BY <1>2 DEF Moves, HasMotion
  <2>2. c \in Int /\ p.course = {c} /\ s \in Int /\ p.speed = {s}
    BY OptionIs DEF HasExtensions
  <2> DEFINE x == CourseOf(p, c)
             y == SpeedOf(p, s)
  <2>3. q.course = {x} /\ q.speed = {y}
    BY <1>2, <2>1 DEF MotionTold
  <2>4. y \in Int /\ y >= 0 /\ SpeedOf(q, y) = y
    <3>1. CASE p.compressed
      <4>1. Least(s, 89) \in Int /\ Least(s, 89) >= 0 /\ Least(Least(s, 89), 89) = Least(s, 89)
        BY <2>1, <2>2, SMT DEF Least
      <4> QED BY <3>1, <4>1 DEF SpeedOf
    <3>2. CASE ~ p.compressed
      <4>1. Least(s, 999) \in Int /\ Least(s, 999) >= 0 /\ Least(Least(s, 999), 999) = Least(s, 999)
        BY <2>1, <2>2, SMT DEF Least
      <4> QED BY <3>2, <4>1 DEF SpeedOf
    <3> QED BY <3>1, <3>2
  <2>5. x \in Int /\ x >= 0 /\ CourseOf(q, x) = x /\ (p.compressed => x \in 1 .. 360)
    <3>1. CASE p.compressed
      <4>1. c \in 1 .. 360
        BY <1>2, <2>2, <3>1 DEF Moves
      <4>2. PICK k \in 0 .. 89 : k = CompressedCourse(c)
        BY <4>1, CourseSteps
      <4>3. IsStep(k, x)
        BY <3>1, <4>2 DEF CourseOf, IsStep
      <4> HIDE DEF x
      <4>4. x \in 1 .. 360 /\ CompressedCourse(x) = k
        BY <4>3, CourseRounded
      <4>5. CourseOf(q, x) = x
        BY <3>1, <4>3, <4>4 DEF CourseOf, IsStep
      <4>6. \A i \in 1 .. 360 : i \in Int /\ i >= 0
        BY SMT
      <4> QED BY <4>4, <4>5, <4>6
    <3>2. CASE ~ p.compressed
      <4>1. x = IF c > 360 THEN 0 ELSE c
        BY <3>2 DEF CourseOf
      <4> HIDE DEF x
      <4>2. x \in Int /\ x >= 0 /\ ~ x > 360
        BY <2>1, <2>2, <4>1, SMT
      <4>3. CourseOf(q, x) = x
        BY <3>2, <4>2 DEF CourseOf
      <4> QED BY <3>2, <4>2, <4>3
    <3> QED BY <3>1, <3>2
  <2> HIDE DEF x, y
  <2>6. Moves(q)
    BY <2>3, <2>4, <2>5 DEF Moves, HasMotion
  <2>7. course = {x} /\ speed = {y}
    BY <2>3, <2>4, <2>5, <2>6 DEF MotionTold
  <2>8. \A i \in p.course, j \in p.speed : course = {CourseOf(p, i)} /\ speed = {SpeedOf(p, j)}
    BY <2>2, <2>7 DEF x, y
  <2> QED BY <1>2, <2>8 DEF MotionTold
<1> QED BY <1>1, <1>2

\* So it is of everything.
LEMMA TellsOn ==
  ASSUME NEW p, HasExtensions(p), NEW r, Tells(p, r), NEW s, Tells(AsReceived(r), s)
  PROVE  Tells(p, s)
<1> DEFINE q == AsReceived(r)
<1>1. /\ q.compressed = (r.form = "compressed") /\ q.course = r.course /\ q.speed = r.speed
      /\ q.altitude = r.altitude /\ q.comment = r.comment
  BY DEF AsReceived
<1>2. Tells(q, s)
  OBVIOUS
<1> HIDE DEF q
<1>3. p.compressed <=> q.compressed
  BY <1>1 DEF Tells
<1>4. MotionTold(p, q.course, q.speed) /\ MotionTold(q, s.course, s.speed)
  BY <1>1, <1>2 DEF Tells
<1>5. MotionTold(p, s.course, s.speed)
  BY <1>3, <1>4, MotionKept
<1>6. AltitudeTold(p, q.altitude, q.comment) /\ AltitudeTold(q, s.altitude, s.comment)
  BY <1>1, <1>2 DEF Tells
<1>7. AltitudeTold(p, s.altitude, s.comment)
  <2>1. s.altitude = q.altitude /\ Cut(s.comment, q.comment) /\ IsPlain(s.comment) /\ s.comment \in Seq(Extension)
    BY <1>6 DEF AltitudeTold
  <2> QED BY <1>6, <2>1, CutAgain DEF AltitudeTold
<1>8. s.form = "compressed" <=> p.compressed
  BY <1>2, <1>3 DEF Tells
<1> QED BY <1>5, <1>7, <1>8 DEF Tells

\* How compressed text is read, its place apart.
IsMoving(t) == t.course \in 0 .. 89 /\ t.speed >= 0
CellsRead(t, r, t2, lat, lon, course, speed) ==
  /\ t2.form = t.form /\ t2.code = t.code
  /\ course = IF IsMoving(t) THEN {IF t.course = 0 THEN 360 ELSE 4 * t.course} ELSE {}
  /\ speed = IF IsMoving(t) THEN {t.speed} ELSE {}
  /\ r = WithComment(Rep(t2, lat, lon, 0, course, speed, {}, "none", <<>>), t.rest)

\* Every compressed text that is not refused is read so.
LEMMA CellsAreRead ==
  ASSUME NEW t, t.form = "compressed", NEW r, ParsePosition(t) = {r}
  PROVE  \E t2, lat, lon, course, speed : CellsRead(t, r, t2, lat, lon, course, speed)
<1> DEFINE lat == [cell |-> Number91(t.lat), exact |-> TRUE]
           lon == [cell |-> Number91(t.lon), exact |-> TRUE]
           table == {x \in DOMAIN Overlay : Overlay[x] = t.table}
           X == IF table = {} THEN t.table ELSE CHOOSE x \in table : TRUE
           moves == t.course \in 0 .. 89 /\ t.speed >= 0
           course == IF moves THEN {IF t.course = 0 THEN 360 ELSE 4 * t.course} ELSE {}
           speed == IF moves THEN {t.speed} ELSE {}
           n == NewReport(t, lat, lon, 0, course, speed)
           u == WithComment([n EXCEPT !.table = X], t.rest)
<1>1. ParsePosition(t) = ParseCompressed(t)
  BY DEF ParsePosition
<1>2. r = u
  <2> DEFINE bad == \/ t.table \in DOMAIN Overlay \/ t.code = "}"
                    \/ \E i \in 1 .. 4 : Blank91 \in {t.lat[i], t.lon[i]}
             Read(y) == {WithComment([n EXCEPT !.table = IF table = {} THEN y ELSE CHOOSE x \in table : TRUE],
                                     t.rest)}
             v == Read(n.table)
  <2>1. ParseCompressed(t) = IF bad THEN {} ELSE v
    BY DEF ParseCompressed
  <2>2. n.table = t.table
    BY DEF NewReport
  <2>3. v = {u}
    <3>1. Read(t.table) = {u}
      OBVIOUS
    <3> HIDE DEF Read, n, u
    <3>2. v = Read(t.table)
      BY <2>2
    <3> QED BY <3>1, <3>2
  <2> HIDE DEF bad, v, u, Read
  <2> QED BY <1>1, <2>1, <2>3
<1> DEFINE t2 == [form |-> t.form, table |-> X, code |-> t.code]
<1>3. u = WithComment(Rep(t2, lat, lon, 0, course, speed, {}, "none", <<>>), t.rest)
  <2> DEFINE none == {}
             word == "none"
             void == <<>>
             zero == 0
  <2>1. n = [form |-> t.form, table |-> t.table, code |-> t.code, lat |-> lat, lon |-> lon,
             ambiguity |-> zero, course |-> course, speed |-> speed,
             altitude |-> none, datum |-> word, comment |-> void]
    BY DEF NewReport
  <2>2. t2.form = t.form /\ t2.table = X /\ t2.code = t.code
    OBVIOUS
  <2>3. Rep(t2, lat, lon, 0, course, speed, {}, "none", <<>>) =
          [form |-> t2.form, table |-> t2.table, code |-> t2.code, lat |-> lat, lon |-> lon,
           ambiguity |-> zero, course |-> course, speed |-> speed,
           altitude |-> none, datum |-> word, comment |-> void]
    BY DEF Rep
  <2> DEFINE R == Rep(t2, lat, lon, 0, course, speed, {}, "none", <<>>)
  <2>4. u = WithComment([n EXCEPT !.table = X], t.rest)
    OBVIOUS
  <2>5. R = [form |-> t2.form, table |-> t2.table, code |-> t2.code, lat |-> lat, lon |-> lon,
             ambiguity |-> zero, course |-> course, speed |-> speed,
             altitude |-> none, datum |-> word, comment |-> void]
    BY <2>3
  <2> HIDE DEF none, word, void, n, t2, X, lat, lon, course, speed, zero, u, R
  <2>6. [n EXCEPT !.table = X] = R
    BY <2>1, <2>2, <2>5
  <2>7. u = WithComment(R, t.rest)
    BY <2>4, <2>6
  <2> QED BY <2>7 DEF R
<1>4. moves <=> IsMoving(t)
  BY DEF IsMoving
<1>5. /\ course = IF IsMoving(t) THEN {IF t.course = 0 THEN 360 ELSE 4 * t.course} ELSE {}
      /\ speed = IF IsMoving(t) THEN {t.speed} ELSE {}
  <2> HIDE DEF moves
  <2> QED BY <1>4
<1>6. t2.form = t.form /\ t2.code = t.code
  OBVIOUS
<1> HIDE DEF t2, X, table, u, n, lat, lon, course, speed, moves
<1>7. r = WithComment(Rep(t2, lat, lon, 0, course, speed, {}, "none", <<>>), t.rest)
  BY <1>2, <1>3
<1>8. CellsRead(t, r, t2, lat, lon, course, speed)
  BY <1>5, <1>6, <1>7 DEF CellsRead
<1> QED BY <1>8

\* What is read of a compressed text is what was written.
LEMMA CompressedSays ==
  ASSUME NEW p, IsSaid(p), p.compressed, ~ IsWeather(p),
         NEW t, NEW north, NEW west, CompressedAs(p, t, north, west), NEW r, ParsePosition(t) = {r}
  PROVE  Tells(p, r)
<1>1. /\ t.form = "compressed" /\ t.code = p.code /\ t.rest = AltitudeAndComment(p)
      /\ LET moves == HasMotion(p) /\ \E course \in p.course : course \in 1 .. 360
         IN  /\ t.course = IF moves THEN CompressedCourse(CHOOSE c \in p.course : TRUE) ELSE Blank91
             /\ t.speed = IF moves THEN Least(CHOOSE s \in p.speed : TRUE, 89) ELSE Blank91
  BY DEF CompressedAs
<1>2. PICK t2, lat, lon, course, speed : CellsRead(t, r, t2, lat, lon, course, speed)
  BY <1>1, CellsAreRead
<1>3. /\ t2.form = "compressed" /\ t2.code = p.code
      /\ course = IF IsMoving(t) THEN {IF t.course = 0 THEN 360 ELSE 4 * t.course} ELSE {}
      /\ speed = IF IsMoving(t) THEN {t.speed} ELSE {}
      /\ r = WithComment(Rep(t2, lat, lon, 0, course, speed, {}, "none", <<>>), t.rest)
  BY <1>1, <1>2 DEF CellsRead
<1>4. HasExtensions(p)
  BY DEF IsSaid
<1>5. MotionTold(p, course, speed)
  <2>1. CASE ~ Moves(p)
    <3>1. t.course = Blank91
      BY <1>1, <2>1 DEF Moves
    <3>2. ~ IsMoving(t)
      <4>1. Blank91 \notin 0 .. 89
        BY SMT DEF Blank91
      <4> QED BY <3>1, <4>1 DEF IsMoving
    <3> QED BY <1>3, <2>1, <3>2 DEF MotionTold
  <2>2. CASE Moves(p)
    <3>1. PICK s \in p.speed, c \in p.course : s >= 0 /\ c >= 0
      BY <2>2 DEF Moves, HasMotion
    <3>2. /\ (CHOOSE y \in p.course : TRUE) = c /\ c \in Int /\ p.course = {c}
          /\ (CHOOSE y \in p.speed : TRUE) = s /\ s \in Int /\ p.speed = {s}
      BY <1>4, OptionIs DEF HasExtensions
    <3>3. c \in 1 .. 360
      BY <2>2, <3>2 DEF Moves
    <3>4. t.course = CompressedCourse(c) /\ t.speed = Least(s, 89)
      BY <1>1, <2>2, <3>2 DEF Moves
    <3>5. CompressedCourse(c) \in 0 .. 89
      BY <3>3, CourseSteps
    <3>6. Least(s, 89) >= 0
      BY <3>1, <3>2, SMT DEF Least
    <3>7. IsMoving(t)
      BY <3>4, <3>5, <3>6 DEF IsMoving
    <3>8. course = {CourseOf(p, c)} /\ speed = {SpeedOf(p, s)}
      BY <1>3, <3>4, <3>7 DEF CourseOf, SpeedOf
    <3> QED BY <2>2, <3>2, <3>8 DEF MotionTold
  <2> QED BY <2>1, <2>2
<1> DEFINE void == <<>>
<1>6. void \in Seq(Extension)
  BY EmptySeq
<1>7. MotionBefore(void, course, speed, course, speed) /\ IsDaoText(void)
  BY DEF MotionBefore, IsDaoText
<1>8. t.rest = void \o AltitudeAndComment(p) \o void
  <2> DEFINE e == AltitudeAndComment(p)
  <2>1. e \in Seq(Extension)
    BY <1>4, AltitudeAndCommentIs
  <2> HIDE DEF e
  <2>2. void \o e = e /\ e \o void = e
    BY <2>1, ConcatEmptySeq
  <2> QED BY <1>1, <2>2 DEF e
<1>9. ~ IsWeather(t2)
  BY <1>3 DEF IsWeather
<1> HIDE DEF void
<1>10. PICK zero : zero = 0
  OBVIOUS
<1>11. r = WithComment(Rep(t2, lat, lon, zero, course, speed, {}, "none", <<>>), t.rest)
  BY <1>3, <1>10
<1>12. PICK altitude, comment : TextSaid(p, r, t2, course, speed, altitude, comment)
  <2>1. PICK said : said = t.rest
    OBVIOUS
  <2>2. TextOf(p, void, void, said) /\ IsReadAs(t2, lat, lon, zero, course, speed, said, r)
    BY <1>8, <1>11, <2>1 DEF TextOf, IsReadAs
  <2>3. TellsText(p, r, t2, course, speed)
    BY <1>6, <1>7, <1>9, <2>2, TextSays
  <2> QED BY <2>3 DEF TellsText
<1>13. /\ r.form = t2.form /\ r.course = course /\ r.speed = speed
       /\ r.altitude = altitude /\ r.comment = comment /\ AltitudeTold(p, altitude, comment)
  BY <1>12 DEF TextSaid, SaidOf
<1>14. r.form = "compressed"
  BY <1>3, <1>13
<1> QED BY <1>5, <1>13, <1>14 DEF Tells

\* The reports that the property is about tell what the position said.
Told(p, r) == ~ IsWeather(p) /\ IsPlain(p.comment) => Tells(p, r)

\* One that frap sends is told by the first receiver.
LEMMA SentTells ==
  ASSUME NEW p, IsPosition(p), NEW t \in EncodePosition(p), NEW r, ParsePosition(t) = {r}
  PROVE  Told(p, r)
<1> SUFFICES ASSUME ~ IsWeather(p), IsPlain(p.comment) PROVE Tells(p, r)
  BY DEF Told
<1>1. /\ HasExtensions(p) /\ p.compressed \in BOOLEAN
      /\ ~ p.compressed => p.lat \in Angle /\ p.lon \in Angle
      /\ p.compressed => p.lat.exact = FALSE /\ p.lon.exact = FALSE
  BY PositionIs
<1>2. IsSaid(p)
  <2>1. p.altitude \subseteq SevenPlaces
    BY DEF IsPosition
  <2> QED BY <1>1, <2>1 DEF IsSaid
<1>3. CASE p.compressed
  <2>1. p.lat.exact \in BOOLEAN /\ p.lon.exact \in BOOLEAN
    BY <1>1, <1>3
  <2>2. PICK north, west : CompressedAs(p, t, north, west)
    BY <1>3, <2>1, CompressedIs
  <2> QED BY <1>2, <1>3, <2>2, CompressedSays
<1>4. CASE ~ p.compressed
  <2>1. EncodePosition(p) =
          IF IsEncodable(p.lat, 89) /\ IsEncodable(p.lon, 179) /\ p.ambiguity <= 4
          THEN {Uncompressed(p)}
          ELSE {}
    BY <1>4 DEF EncodePosition
  <2>2. t = Uncompressed(p)
    BY <2>1
  <2> QED BY <1>1, <1>2, <1>4, <2>2, UncompressedSays
<1> QED BY <1>3, <1>4

\* One that is sent on is told by the next.
LEMMA RelayTells ==
  ASSUME NEW p, HasExtensions(p), NEW r, Told(p, r), Reported(r), r.code = p.code,
         NEW t \in EncodePosition(AsReceived(r)), NEW s, ParsePosition(t) = {s}
  PROVE  Told(p, s)
<1> SUFFICES ASSUME ~ IsWeather(p), IsPlain(p.comment) PROVE Tells(p, s)
  BY DEF Told
<1> DEFINE q == AsReceived(r)
<1>1. /\ q.lat = r.lat /\ q.lon = r.lon /\ q.code = r.code /\ q.comment = r.comment
      /\ q.compressed = (r.form = "compressed") /\ q.course = r.course /\ q.speed = r.speed
      /\ q.altitude = r.altitude
  BY DEF AsReceived
<1>2. t \in EncodePosition(q)
  OBVIOUS
<1>3. Tells(p, r)
  BY DEF Told
<1>4. r.altitude \subseteq SixPlaces /\ IsPlain(r.comment)
  BY <1>3 DEF Tells, AltitudeTold
<1>5. HasExtensions(r)
  BY DEF Reported, Surveyed, Gridded
<1>6. ~ IsWeather(q)
  BY <1>1 DEF IsWeather
<1> HIDE DEF q
<1>7. IsSaid(q)
  <2>1. \A x \in SixPlaces : x \in SevenPlaces
    <3> TAKE x \in SixPlaces
    <3>1. x \in Int /\ -100000 < x /\ x < 1000000
      BY DEF SixPlaces
    <3>2. -1000000 < x /\ x < 10000000
      BY <3>1, SMT
    <3> QED BY <3>1, <3>2 DEF SevenPlaces
  <2>2. q.altitude \subseteq SevenPlaces
    BY <1>1, <1>4, <2>1
  <2>3. HasExtensions(q)
    BY <1>1, <1>5 DEF HasExtensions
  <2>4. IsPlain(q.comment)
    BY <1>1, <1>4
  <2> QED BY <2>2, <2>3, <2>4 DEF IsSaid
<1>8. CASE Surveyed(r)
  <2>1. ~ q.compressed
    BY <1>1, <1>8 DEF Surveyed
  <2>2. q.lat \in Angle /\ q.lon \in Angle
    BY <1>1, <1>8 DEF Surveyed, IsGood
  <2>3. EncodePosition(q) =
          IF IsEncodable(q.lat, 89) /\ IsEncodable(q.lon, 179) /\ q.ambiguity <= 4
          THEN {Uncompressed(q)}
          ELSE {}
    BY <2>1 DEF EncodePosition
  <2>4. t = Uncompressed(q)
    BY <1>2, <2>3
  <2>5. Tells(q, s)
    BY <1>6, <1>7, <2>1, <2>2, <2>4, UncompressedSays
  <2> QED BY <1>3, <2>5, TellsOn DEF q
<1>9. CASE Gridded(r)
  <2>1. q.compressed /\ q.lat.exact \in BOOLEAN /\ q.lon.exact \in BOOLEAN
    BY <1>1, <1>9 DEF Gridded, IsEdge
  <2>2. PICK north, west : CompressedAs(q, t, north, west)
    BY <1>2, <2>1, CompressedIs
  <2>3. Tells(q, s)
    BY <1>6, <1>7, <2>1, <2>2, CompressedSays
  <2> QED BY <1>3, <2>3, TellsOn DEF q
<1> QED BY <1>8, <1>9 DEF Reported

\* What of a plain report is encoded again.
SendsOn(r, q) ==
  /\ IsSaid(q) /\ ~ q.compressed /\ ~ IsWeather(q) /\ q.lat \in Angle /\ q.lon \in Angle

\* It can be said.
LEMMA SentOnIs ==
  ASSUME NEW r, Surveyed(r), IsPlain(r.comment), ~ IsWeather(r), NEW q, q = AsReceived(r)
  PROVE  SendsOn(r, q)
<1>1. /\ q.lat = r.lat /\ q.lon = r.lon /\ q.code = r.code /\ q.comment = r.comment
      /\ q.compressed = (r.form = "compressed") /\ q.course = r.course /\ q.speed = r.speed
      /\ q.altitude = r.altitude
  BY DEF AsReceived
<1>2. HasExtensions(r) /\ ~ q.compressed /\ q.lat \in Angle /\ q.lon \in Angle
  BY <1>1 DEF Surveyed, IsGood
<1>3. HasExtensions(q) /\ q.altitude \subseteq SevenPlaces
  BY <1>1, <1>2 DEF HasExtensions
<1>4. ~ IsWeather(q)
  BY <1>1 DEF IsWeather
<1> QED BY <1>1, <1>2, <1>3, <1>4 DEF SendsOn, IsSaid

\* So is what a radio sends.
LEMMA RadioTells ==
  ASSUME NEW p, IsRadio(p), NEW t, NEW r, HeardAs(p, t, r)
  PROVE  Told(p, r)
<1> SUFFICES ASSUME IsPlain(p.comment) PROVE Tells(p, r)
  BY DEF Told
<1>1. PICK n, m, course, speed : RadioSays(p, n, m, course, speed)
  BY RadioIs
<1>2. /\ p.comment = <<>> /\ p.altitude = {} /\ p.course = {course} /\ p.speed = {speed}
      /\ course \in 0 .. 360 /\ speed \in 0 .. 799
  BY <1>1 DEF RadioSays
<1>3. ~ p.compressed
  BY DEF IsRadio
<1>4. /\ r.course = p.course /\ r.speed = p.speed /\ r.altitude = p.altitude /\ r.comment = p.comment
      /\ ~ r.form = "compressed"
  BY DEF HeardAs, Surveyed
<1>5. AltitudeTold(p, r.altitude, r.comment)
  <2>1. <<>> \in Seq(Extension)
    BY EmptySeq
  <2>2. r.altitude \subseteq SixPlaces /\ p.altitude \subseteq SixPlaces
    BY <1>2, <1>4
  <2>3. Cut(p.comment, p.comment) /\ IsPlain(p.comment)
    <3>1. PICK void : void = <<>>
      OBVIOUS
    <3>2. void \in Seq(Extension) /\ Len(void) = 0
      BY <3>1, EmptySeq
    <3>3. PICK zero : zero = 0
      OBVIOUS
    <3>4. /\ zero \in Nat /\ Len(void) + zero <= Len(void)
          /\ \A k \in 1 .. Len(void) : FALSE
          /\ \A k \in 1 .. zero : FALSE
          /\ \A k \in zero + Len(void) + 1 .. Len(void) : FALSE
      BY <3>2, <3>3, SMT
    <3>5. ShownCut(void, void, zero)
      BY <3>2, <3>4 DEF ShownCut, IsPart
    <3>6. Cut(void, void)
      BY <3>2, <3>5 DEF Cut
    <3> QED BY <1>2, <3>1, <3>6
  <2> QED BY <1>2, <1>4, <2>1, <2>2, <2>3 DEF AltitudeTold
<1>6. MotionTold(p, r.course, r.speed)
  <2>1. ~ course > 360 /\ Least(speed, 999) = speed /\ course >= 0 /\ speed >= 0
    BY <1>2, SMT DEF Least
  <2>2. CourseOf(p, course) = course /\ SpeedOf(p, speed) = speed
    BY <1>3, <2>1 DEF CourseOf, SpeedOf
  <2>3. Moves(p)
    BY <1>2, <1>3, <2>1 DEF Moves, HasMotion
  <2> QED BY <1>2, <1>4, <2>2, <2>3 DEF MotionTold
<1> QED BY <1>3, <1>4, <1>5, <1>6 DEF Tells

-----------------------------------------------------------------------------
(* The way of a report.                                                    *)

\* A text that its first sender makes.
Sent(t) ==
  \/ place = {} /\ t \in Others
  \/ \E p \in Positions : place = {p} /\ t \in EncodePosition(p)
  \/ \E p \in Radios : place = {p} /\ t = MiceText(p)

\* Course and speed, and a plain comment, stay what they have become.
MoveKept(f, r, n) ==
  Surveyed(f) /\ ~ IsWeather(f) /\ IsPlain(f.comment) =>
    IsPlain(r.comment) /\ (IF n = 0 THEN r = f ELSE KeepsMotion(f, r))

\* A report keeps them when it is sent on.
LEMMA MotionKeeps ==
  ASSUME NEW r, Surveyed(r), NEW q, q = AsReceived(r), NEW s, Tells(q, s)
  PROVE  KeepsMotion(r, s)
<1>1. /\ q.course = r.course /\ q.speed = r.speed /\ (q.compressed <=> r.form = "compressed")
      /\ ~ q.compressed
  BY DEF AsReceived, Surveyed
<1>2. IsOption(r.course) /\ IsOption(r.speed) /\ r.course \subseteq Nat
  BY DEF Surveyed, HasExtensions
<1>3. MotionTold(q, s.course, s.speed)
  BY DEF Tells
<1>4. CASE r.course # {} /\ \E speed \in r.speed : speed >= 0
  <2>1. PICK c \in r.course, v \in r.speed : v >= 0
    BY <1>4
  <2>2. r.course = {c} /\ r.speed = {v} /\ c \in Nat /\ c >= 0
    <3>1. r.course = {c} /\ r.speed = {v} /\ c \in Nat
      BY <1>2, <2>1 DEF IsOption
    <3> QED BY <3>1, SMT
  <2>3. Moves(q)
    BY <1>1, <2>1, <2>2 DEF Moves, HasMotion
  <2>4. s.course = {CourseOf(q, c)} /\ s.speed = {SpeedOf(q, v)}
    BY <1>1, <1>3, <2>2, <2>3 DEF MotionTold
  <2>5. CourseOf(q, c) = (IF c \in 1 .. 360 THEN c ELSE 0) /\ SpeedOf(q, v) = Least(v, 999)
    <3>1. c > 360 <=> ~ (c \in 0 .. 360)
      BY <2>2, SMT
    <3>2. c \in 0 .. 360 /\ c \notin 1 .. 360 => c = 0
      BY <2>2, SMT
    <3>3. c \in 1 .. 360 => c \in 0 .. 360
      BY <2>2, SMT
    <3>4. CourseOf(q, c) = IF c > 360 THEN 0 ELSE c
      BY <1>1 DEF CourseOf
    <3>5. CourseOf(q, c) = IF c \in 1 .. 360 THEN c ELSE 0
      BY <3>1, <3>2, <3>3, <3>4
    <3>6. SpeedOf(q, v) = Least(v, 999)
      BY <1>1 DEF SpeedOf
    <3> QED BY <3>5, <3>6
  <2>6. /\ s.course = {IF i \in 1 .. 360 THEN i ELSE 0 : i \in r.course}
        /\ s.speed = {Least(i, 999) : i \in r.speed}
    BY <2>2, <2>4, <2>5
  <2> QED BY <1>4, <2>6 DEF KeepsMotion
<1>5. CASE ~ (r.course # {} /\ \E speed \in r.speed : speed >= 0)
  <2>1. ~ Moves(q)
    BY <1>1, <1>5 DEF Moves, HasMotion
  <2>2. s.course = {} /\ s.speed = {}
    BY <1>3, <2>1 DEF MotionTold
  <2> QED BY <1>5, <2>2 DEF KeepsMotion
<1> QED BY <1>4, <1>5

\* So it does when it is sent on again.
LEMMA MotionKeepsOn ==
  ASSUME NEW f, Surveyed(f), NEW r, KeepsMotion(f, r), NEW s, KeepsMotion(r, s)
  PROVE  KeepsMotion(f, s)
<1>1. IsOption(f.course) /\ IsOption(f.speed)
  BY DEF Surveyed, HasExtensions
<1>2. CASE f.course # {} /\ \E speed \in f.speed : speed >= 0
  <2>1. PICK c \in f.course, v \in f.speed : v >= 0
    BY <1>2
  <2>2. f.course = {c} /\ f.speed = {v} /\ c \in Int /\ v \in Int
    BY <1>1, <2>1 DEF IsOption
  <2>3. PICK d : d = IF c \in 1 .. 360 THEN c ELSE 0
    OBVIOUS
  <2>4. PICK w : w = Least(v, 999)
    OBVIOUS
  <2>5. r.course = {d} /\ r.speed = {w}
    <3>1. /\ r.course = {IF i \in 1 .. 360 THEN i ELSE 0 : i \in f.course}
          /\ r.speed = {Least(i, 999) : i \in f.speed}
      BY <1>2 DEF KeepsMotion
    <3> QED BY <2>2, <2>3, <2>4, <3>1
  <2>6. d = IF d \in 1 .. 360 THEN d ELSE 0
    <3>1. 0 \notin 1 .. 360
      BY SMT
    <3> QED BY <2>3, <3>1
  <2>7. w >= 0 /\ w = Least(w, 999)
    BY <2>1, <2>2, <2>4, SMT DEF Least
  <2>8. s.course = {d} /\ s.speed = {w}
    <3>1. r.course # {} /\ \E speed \in r.speed : speed >= 0
      BY <2>5, <2>7
    <3>2. /\ s.course = {IF i \in 1 .. 360 THEN i ELSE 0 : i \in r.course}
          /\ s.speed = {Least(i, 999) : i \in r.speed}
      BY <3>1 DEF KeepsMotion
    <3>3. s.course = {IF d \in 1 .. 360 THEN d ELSE 0} /\ s.speed = {Least(w, 999)}
      BY <2>5, <3>2
    <3> QED BY <2>6, <2>7, <3>3
  <2>9. s.course = r.course /\ s.speed = r.speed
    BY <2>5, <2>8
  <2> QED BY <2>9 DEF KeepsMotion
<1>3. CASE ~ (f.course # {} /\ \E speed \in f.speed : speed >= 0)
  <2>1. r.course = {} /\ r.speed = {}
    BY <1>3 DEF KeepsMotion
  <2>2. s.course = {} /\ s.speed = {}
    BY <2>1 DEF KeepsMotion
  <2> QED BY <1>3, <2>2 DEF KeepsMotion
<1> QED BY <1>2, <1>3

\* One that is sent on, and what is made of one.
SentOn ==
  \E f, r : \E n \in Nat :
    /\ first = {f} /\ relays = n + 1 /\ Kept(f, r, n) /\ MoveKept(f, r, n)
    /\ \A p \in place : Told(p, r)
    /\ \E t \in EncodePosition(AsReceived(r)) : text = {t}
Nothing == first = {} /\ report = {}
Known ==
  \E f, s :
    /\ first = {f} /\ report = {s} /\ Kept(f, s, relays) /\ MoveKept(f, s, relays)
    /\ \A p \in place : Told(p, s)

RelayInv ==
  /\ relays \in Nat
  /\ step = "new" => Nothing /\ relays = 0 /\ \E p \in Positions : place = {p}
  /\ step = "sent" => /\ report = {}
                      /\ (relays = 0 /\ first = {} /\ \A t \in text : Sent(t)) \/ SentOn
  /\ step = "received" => Known
  /\ step = "refused" => Nothing \/ Known
  /\ step = "lost" => Nothing /\ \A p \in place : p.compressed /\ IsBrace(p)
  /\ step \in {"new", "sent", "received", "refused", "lost"}
  /\ \A p \in place : HasExtensions(p) /\ \A f \in first : Arrives(p, f)

\* A text of the first sender arrives, or is that of a position with the code '}'.
SentArrives(t) ==
  \E r : ParsePosition(t) = {r} /\ Reported(r) /\ \A p \in place : Arrives(p, r) /\ Told(p, r)

\* One of the two is what becomes of it.
LEMMA SentIsRead ==
  ASSUME NEW t, Sent(t)
  PROVE  \/ SentArrives(t)
         \/ ParsePosition(t) = {} /\ \A p \in place : p.compressed /\ IsBrace(p)
<1>1. CASE place = {} /\ t \in Others
  <2>1. IsText(t)
    BY <1>1, ReportAssumption
  <2>2. CASE ParsePosition(t) # {}
    <3>1. PICK r : ParsePosition(t) = {r} /\ Reported(r)
      BY <2>1, <2>2, TextIs
    <3> QED BY <1>1, <3>1 DEF SentArrives
  <2> QED BY <1>1, <2>2
<1>2. ASSUME NEW p \in Positions, place = {p}, t \in EncodePosition(p)
      PROVE  \/ SentArrives(t)
             \/ ParsePosition(t) = {} /\ \A q \in place : q.compressed /\ IsBrace(q)
  <2>1. IsPosition(p)
    BY ReportAssumption
  <2>2. CASE p.compressed
    <3>1. (ParsePosition(t) = {} /\ IsBrace(p)) \/ \E r : ArrivesAs(p, t, r)
      BY <1>2, <2>1, <2>2, CompressedArrives
    <3>2. \A r : ParsePosition(t) = {r} => Told(p, r)
      BY <1>2, <2>1, SentTells
    <3> QED BY <1>2, <2>2, <3>1, <3>2 DEF ArrivesAs, SentArrives
  <2>3. CASE ~ p.compressed
    <3>1. PICK r : ArrivesAs(p, t, r)
      BY <1>2, <2>1, <2>3, UncompressedArrives
    <3>2. Told(p, r)
      BY <1>2, <2>1, <3>1, SentTells DEF ArrivesAs
    <3> QED BY <1>2, <3>1, <3>2 DEF ArrivesAs, SentArrives
  <2> QED BY <2>2, <2>3
<1>3. ASSUME NEW p \in Radios, place = {p}, t = MiceText(p)
      PROVE  SentArrives(t)
  <2>1. PICK r : HeardAs(p, t, r)
    BY <1>3, RadioArrives, ReportAssumption
  <2>2. Told(p, r)
    BY <1>3, <2>1, RadioTells, ReportAssumption
  <2> QED BY <1>3, <2>1, <2>2 DEF HeardAs, ArrivesAs, SentArrives
<1> QED BY <1>1, <1>2, <1>3 DEF Sent

\* Course and speed are kept by every relay.
LEMMA MoveStep ==
  ASSUME NEW f, NEW r, NEW n, Kept(f, r, n), MoveKept(f, r, n),
         NEW t \in EncodePosition(AsReceived(r)), NEW s, ParsePosition(t) = {s}, NEW m, m # 0
  PROVE  MoveKept(f, s, m)
<1> SUFFICES ASSUME Surveyed(f), ~ IsWeather(f), IsPlain(f.comment)
             PROVE  IsPlain(s.comment) /\ KeepsMotion(f, s)
  BY DEF MoveKept
<1> DEFINE q == AsReceived(r)
<1>1. Surveyed(r) /\ r.code = f.code
  BY DEF Kept, Surveyed, Gridded
<1>2. IsPlain(r.comment) /\ (r = f \/ KeepsMotion(f, r))
  BY DEF MoveKept
<1>3. SendsOn(r, q)
  BY <1>1, <1>2, SentOnIs DEF IsWeather
<1>4. t = Uncompressed(q)
  BY <1>3 DEF EncodePosition, SendsOn
<1>5. Tells(q, s)
  <2> HIDE DEF q
  <2> QED BY <1>3, <1>4, UncompressedSays DEF SendsOn
<1>6. KeepsMotion(r, s)
  BY <1>1, <1>5, MotionKeeps
<1>7. IsPlain(s.comment)
  BY <1>5 DEF Tells, AltitudeTold
<1>8. KeepsMotion(f, s)
  BY <1>2, <1>6, MotionKeepsOn
<1> QED BY <1>7, <1>8

\* It holds when a report is made, or on its way.
LEMMA RelayInit == RInit => RelayInv
<1> SUFFICES ASSUME RInit PROVE RelayInv
  OBVIOUS
<1>1. /\ report = {} /\ first = {} /\ relays = 0 /\ 0 \in Nat
      /\ (own /\ step = "new") \/ (~ own /\ step = "sent")
  BY DEF RInit, Init
<1>4. \A p \in place : HasExtensions(p)
  <2>1. \A p \in Positions : HasExtensions(p)
    BY ReportAssumption, PositionIs
  <2>2. \A p \in Radios : HasExtensions(p)
    BY ReportAssumption, PositionIs DEF IsRadio
  <2>3. CASE own
    BY <2>1, <2>3 DEF RInit
  <2>4. CASE ~ own
    BY <2>1, <2>2, <2>4, ReportAssumption DEF RInit
  <2> QED BY <2>3, <2>4
<1>2. CASE own
  <2>1. PICK p \in Positions : place = {p}
    BY <1>2 DEF RInit
  <2> QED BY <1>1, <1>2, <1>4, <2>1 DEF RelayInv, Nothing
<1>3. CASE ~ own
  <2>1. \A t \in text : Sent(t)
    <3>1. CASE place = {Ordinary} /\ text = EncodePosition(Ordinary)
      BY <3>1, ReportAssumption DEF Sent
    <3>2. CASE \E p \in Radios : place = {p} /\ text = {MiceText(p)}
      BY <3>2 DEF Sent
    <3>3. CASE place = {} /\ \E t \in Others : text = {t}
      BY <3>3 DEF Sent
    <3> QED BY <1>3, <3>1, <3>2, <3>3 DEF RInit
  <2> QED BY <1>1, <1>3, <1>4, <2>1 DEF RelayInv
<1> QED BY <1>2, <1>3

\* Every step keeps it.
LEMMA RelayKept == RelayInv /\ [RNext]_reportVars => RelayInv'
<1> SUFFICES ASSUME RelayInv, [RNext]_reportVars PROVE RelayInv'
  OBVIOUS
<1>1. ASSUME NEW format \in Format, Send(format)
      PROVE  RelayInv'
  <2>1. PICK p \in place :
          \/ /\ Encode(format)
             /\ \E t \in EncodePosition(p) : text' = {t}
             /\ UNCHANGED <<place, report, first, relays>>
          \/ /\ step = "new" /\ EncodePosition(p) = {} /\ step' = "refused"
             /\ UNCHANGED <<start, now, skew, own, carrier, raw, decoded, position>>
    BY <1>1 DEF Send
  <2>2. step = "new"
    BY <2>1 DEF Encode
  <2>3. Nothing /\ relays = 0 /\ relays \in Nat /\ place = {p} /\ p \in Positions
    BY <2>2 DEF RelayInv
  <2>4. UNCHANGED <<place, report, first, relays>>
    BY <2>1 DEF position
  <2>5. CASE step' = "refused"
    BY <2>3, <2>4, <2>5 DEF RelayInv, Nothing
  <2>6. CASE Encode(format) /\ \E t \in EncodePosition(p) : text' = {t}
    <3>1. step' = "sent"
      BY <2>6 DEF Encode
    <3>2. PICK t \in EncodePosition(p) : text' = {t}
      BY <2>6
    <3>3. \A u \in text' : Sent(u)'
      BY <2>3, <2>4, <3>2 DEF Sent
    <3> QED BY <2>3, <2>4, <3>1, <3>3 DEF RelayInv, Nothing
  <2> QED BY <2>1, <2>5, <2>6
<1>2. ASSUME Pass
      PROVE  RelayInv'
  <2>1. step' = step /\ UNCHANGED position
    BY <1>2 DEF Pass, TimePasses
  <2> QED BY <2>1 DEF RelayInv, Nothing, Known, SentOn, Sent, position
<1>3. ASSUME Parse
      PROVE  RelayInv'
  <2>1. PICK t \in text :
          \/ /\ ParsePosition(t) # {} /\ Receive /\ report' = ParsePosition(t)
             /\ first' = IF relays = 0 THEN report' ELSE first
             /\ UNCHANGED <<place, text, relays>>
          \/ /\ step = "sent" /\ ParsePosition(t) = {} /\ step' = "lost"
             /\ UNCHANGED <<start, now, skew, own, carrier, raw, decoded, position>>
    BY <1>3 DEF Parse
  <2>2. step = "sent" /\ UNCHANGED <<place, relays>> /\ relays \in Nat
    BY <2>1 DEF Receive, position, RelayInv
  <2>3. CASE relays = 0 /\ first = {} /\ (\A u \in text : Sent(u))
    <3>1. report = {}
      BY <2>2 DEF RelayInv
    <3>2. \/ SentArrives(t)
          \/ ParsePosition(t) = {} /\ \A p \in place : p.compressed /\ IsBrace(p)
      BY <2>3, SentIsRead
    <3>3. CASE SentArrives(t)
      <4>1. PICK r : ParsePosition(t) = {r} /\ Reported(r) /\ \A p \in place : Arrives(p, r) /\ Told(p, r)
        BY <3>3 DEF SentArrives
      <4>2. step' = "received" /\ report' = {r} /\ first' = {r}
        BY <2>1, <2>3, <4>1 DEF Receive
      <4>3. Kept(r, r, 0) /\ MoveKept(r, r, 0)
        BY <4>1, KeptStarts DEF MoveKept
      <4>4. Known'
        BY <2>2, <2>3, <4>1, <4>2, <4>3 DEF Known
      <4>5. \A p \in place' : HasExtensions(p) /\ \A f \in first' : Arrives(p, f)
        BY <2>2, <4>1, <4>2 DEF RelayInv
      <4> QED BY <2>2, <4>2, <4>4, <4>5 DEF RelayInv
    <3>4. CASE ParsePosition(t) = {} /\ \A p \in place : p.compressed /\ IsBrace(p)
      <4>1. step' = "lost" /\ UNCHANGED position
        BY <2>1, <3>4
      <4> QED BY <2>2, <2>3, <3>1, <3>4, <4>1 DEF RelayInv, Nothing, position
    <3> QED BY <3>2, <3>3, <3>4
  <2>4. CASE SentOn
    <3>1. PICK f, r : \E n \in Nat :
            /\ first = {f} /\ relays = n + 1 /\ Kept(f, r, n) /\ MoveKept(f, r, n)
            /\ \A p \in place : Told(p, r)
            /\ \E u \in EncodePosition(AsReceived(r)) : text = {u}
      BY <2>4 DEF SentOn
    <3>2. PICK n \in Nat :
            /\ first = {f} /\ relays = n + 1 /\ Kept(f, r, n) /\ MoveKept(f, r, n)
            /\ \A p \in place : Told(p, r)
            /\ \E u \in EncodePosition(AsReceived(r)) : text = {u}
      BY <3>1
    <3>3. t \in EncodePosition(AsReceived(r)) /\ Kept(f, r, n)
      BY <3>2
    <3>4. PICK s : KeptBy(t, f, s, n + 1)
      BY <3>3, KeptStep
    <3>5. ParsePosition(t) = {s} /\ Kept(f, s, relays)
      BY <3>2, <3>4 DEF KeptBy
    <3>6. relays # 0
      <4>1. n + 1 # 0
        BY SMT
      <4> QED BY <3>2, <4>1
    <3>7. step' = "received" /\ report' = {s} /\ first' = first
      BY <2>1, <3>5, <3>6 DEF Receive
    <3>9. \A p \in place : Told(p, s)
      <4> TAKE p \in place
      <4>1. HasExtensions(p) /\ Arrives(p, f)
        BY <3>2 DEF RelayInv
      <4>2. Reported(r) /\ r.code = f.code /\ Told(p, r)
        BY <3>2 DEF Kept, Reported
      <4>3. r.code = p.code
        BY <4>1, <4>2 DEF Arrives
      <4> QED BY <3>3, <3>5, <4>1, <4>2, <4>3, RelayTells
    <3>10. MoveKept(f, s, relays)
      BY <3>2, <3>3, <3>5, <3>6, MoveStep
    <3>8. Known'
      BY <2>2, <3>2, <3>5, <3>7, <3>9, <3>10 DEF Known
    <3> QED BY <2>2, <3>7, <3>8 DEF RelayInv
  <2> QED BY <2>2, <2>3, <2>4 DEF RelayInv
<1>4. ASSUME Relay
      PROVE  RelayInv'
  <2>1. step = "received" /\ relays \in Nat
    BY <1>4 DEF Relay, RelayInv
  <2>2. PICK f, s : first = {f} /\ report = {s} /\ Kept(f, s, relays) /\ MoveKept(f, s, relays) /\ \A p \in place : Told(p, s)
    BY <2>1 DEF RelayInv, Known
  <2>3. \/ /\ \E t \in EncodePosition(AsReceived(s)) : text' = {t}
           /\ step' = "sent" /\ relays' = relays + 1 /\ report' = {}
           /\ UNCHANGED <<place, first>>
        \/ step' = "refused" /\ UNCHANGED position
    BY <1>4, <2>2 DEF Relay
  <2>4. CASE step' = "refused" /\ UNCHANGED position
    <3>1. Known'
      BY <2>2, <2>4 DEF Known, position
    <3> QED BY <2>4, <3>1 DEF RelayInv, position
  <2>5. CASE /\ \E t \in EncodePosition(AsReceived(s)) : text' = {t}
             /\ step' = "sent" /\ relays' = relays + 1 /\ report' = {}
             /\ UNCHANGED <<place, first>>
    <3>1. SentOn'
      BY <2>1, <2>2, <2>5 DEF SentOn
    <3>2. relays' \in Nat
      BY <2>1, <2>5, SMT
    <3> QED BY <2>5, <3>1, <3>2 DEF RelayInv
  <2> QED BY <2>3, <2>4, <2>5
<1>5. ASSUME UNCHANGED reportVars
      PROVE  RelayInv'
  BY <1>5 DEF RelayInv, Nothing, Known, SentOn, Sent, position, reportVars, vars
<1>6. ASSUME ReportEnds
      PROVE  RelayInv'
  BY <1>5, <1>6 DEF ReportEnds
<1> QED BY <1>1, <1>2, <1>3, <1>4, <1>5, <1>6 DEF RNext

\* So it holds of every report: what was made of it first says where its sender is, and
\* what was made of it last says the same, to what each relay may change.
THEOREM RelayInvariance == RSpec => []RelayInv
BY RelayInit, RelayKept, PTL DEF RSpec

\* What frap or a radio sends arrives where the sender is: to the precision that its
\* ambiguity, DAO or compression leave, in its hemisphere, with its symbol
\* (encode.rs:265-345, position.rs:4-164, parser.rs:440-543).
THEOREM PositionsComeBack == RSpec => []PositionComesBack
<1>1. RelayInv => PositionComesBack
  <2> SUFFICES ASSUME RelayInv, NEW p \in place
               PROVE  /\ step = "lost" => p.compressed /\ p.code = "}"
                      /\ \A r \in first :
                           /\ <<r.code, r.ambiguity>> = <<p.code, p.ambiguity>>
                           /\ r.table = p.table \/ (p.compressed /\ p.table \in Range(Overlay))
                           /\ IF p.compressed
                              THEN r.lat.cell = p.lat.cell /\ r.lon.cell = p.lon.cell
                              ELSE (p.dao /\ p.ambiguity = 0) \/ IsPlain(p.comment) =>
                                     IsWithin(r.lat, p.lat, Precision(r)) /\ IsWithin(r.lon, p.lon, Precision(r))
    BY DEF PositionComesBack
  <2>1. step = "lost" => p.compressed /\ p.code = "}"
    BY DEF RelayInv, IsBrace
  <2>2. \A r \in first : Arrives(p, r)
    BY DEF RelayInv
  <2> QED BY <2>1, <2>2 DEF Arrives
<1> QED BY <1>1, RelayInvariance, PTL

\* However often a report is sent on, it keeps its place, but for the three exceptions:
\* a cell for each time that it is compressed, a step of DAO, and the DAO that is left
\* out (encode.rs:328, position.rs:196-203, parser.rs:577).
THEOREM PositionsAreKept == RSpec => []RelaysKeepPosition
<1>1. RelayInv => RelaysKeepPosition
  <2> SUFFICES ASSUME RelayInv, NEW f \in first, NEW r \in report
               PROVE  KeptEnough(f, r, relays)
    BY DEF RelaysKeepPosition, KeptEnough, MovedBy
  <2>1. Known
    BY DEF RelayInv, Nothing
  <2>2. Kept(f, r, relays)
    BY <2>1 DEF Known
  <2> QED BY <2>2, KeptIsEnough
<1> QED BY <1>1, RelayInvariance, PTL

\* A compressed course is within two degrees of what was sent.
LEMMA CourseNear ==
  ASSUME NEW course \in 1 .. 360, NEW k, k = CompressedCourse(course),
         NEW c, c = IF k = 0 THEN 360 ELSE 4 * k
  PROVE  CourseDiffers(c, course, 2)
<1> DEFINE q == (course + 2) \div 4
           d == c - course
<1>1. k = IF q > 89 THEN 0 ELSE q
  BY DEF CompressedCourse
<1>2. q \in Int /\ 4 * q <= course + 2 /\ course + 2 < 4 * q + 4
  BY SMT
<1> HIDE DEF q
<1>3. c \in Int /\ (d = 359 \/ (d <= 2 /\ -1 <= d))
  BY <1>1, <1>2, SMT
<1>4. d \in Int
  BY <1>3, SMT
<1> HIDE DEF d
<1>5. d % 360 \in 0 .. 2 \/ d % 360 \in 358 .. 359
  BY <1>3, <1>4, SMT
<1>6. (c - course) % 360 \in 0 .. 2 \/ (c - course) % 360 \in 358 .. 359
  BY <1>5 DEF d
<1>7. 360 - 2 = 358
  BY SMT
<1>8. (c - course) % 360 \in 360 - 2 .. 359 \/ (c - course) % 360 \in 0 .. 2
  BY <1>6, <1>7
<1> QED BY <1>8, Zenon DEF CourseDiffers

MotionNear(p, course, speed, c, s) ==
  IF p.compressed
  THEN CourseDiffers(c, course, 2) /\ s = Least(speed, 89)
  ELSE c = (IF course > 360 THEN 0 ELSE course) /\ s = Least(speed, 999)

\* Course, speed and altitude come back as the code means them, and the comment trimmed,
\* after any number of relays; course and speed of any station stay what the first
\* receiver has read (encode.rs:312-347,373-392, position.rs:180-258,318, parser.rs:529).
THEOREM ExtensionsAreKept == RSpec => []ExtensionsComeBack
<1>0. \A n \in Nat : n > 0 => n # 0
  BY SMT
<1>2. RelayInv => \A f \in first, r \in report :
        relays > 0 /\ f.form # "compressed" /\ f.code # "_" /\ IsPlain(f.comment) => KeepsMotion(f, r)
  <2> SUFFICES ASSUME RelayInv, NEW f \in first, NEW r \in report,
                      relays > 0, f.form # "compressed", f.code # "_", IsPlain(f.comment)
               PROVE  KeepsMotion(f, r)
    OBVIOUS
  <2>1. Known
    BY DEF RelayInv, Nothing
  <2>2. Kept(f, r, relays) /\ MoveKept(f, r, relays)
    BY <2>1 DEF Known
  <2>3. Surveyed(f) /\ ~ IsWeather(f)
    BY <2>2 DEF Kept, Gridded, IsWeather
  <2>4. relays # 0
    <3>1. relays \in Nat
      BY DEF RelayInv
    <3> QED BY <1>0, <3>1, Zenon
  <2> QED BY <2>2, <2>3, <2>4 DEF MoveKept
<1>1. RelayInv => \A p \in place, r \in report :
        p.code # "_" /\ IsPlain(p.comment) =>
          /\ IF HasMotion(p) /\ (p.compressed => \E c \in p.course : c \in 1 .. 360)
             THEN \A course \in p.course, speed \in p.speed :
                    \E c \in r.course, s \in r.speed :
                      IF p.compressed
                      THEN CourseDiffers(c, course, 2) /\ s = Least(speed, 89)
                      ELSE c = (IF course > 360 THEN 0 ELSE course) /\ s = Least(speed, 999)
             ELSE r.course = {} /\ r.speed = {}
          /\ IF p.altitude \subseteq SixPlaces
             THEN r.altitude = p.altitude /\ IsTrimmed(r.comment, p.comment)
             ELSE /\ r.altitude = {Quotient(feet, 10) : feet \in p.altitude}
                  /\ IsTrimmed(r.comment, <<Words>> \o p.comment)
  <2> SUFFICES ASSUME RelayInv, NEW p \in place, NEW r \in report, p.code # "_", IsPlain(p.comment)
               PROVE  /\ IF HasMotion(p) /\ (p.compressed => \E c \in p.course : c \in 1 .. 360)
                         THEN \A course \in p.course, speed \in p.speed :
                                \E c \in r.course, s \in r.speed :
                                  IF p.compressed
                                  THEN CourseDiffers(c, course, 2) /\ s = Least(speed, 89)
                                  ELSE c = (IF course > 360 THEN 0 ELSE course) /\ s = Least(speed, 999)
                         ELSE r.course = {} /\ r.speed = {}
                      /\ IF p.altitude \subseteq SixPlaces
                         THEN r.altitude = p.altitude /\ IsTrimmed(r.comment, p.comment)
                         ELSE /\ r.altitude = {Quotient(feet, 10) : feet \in p.altitude}
                              /\ IsTrimmed(r.comment, <<Words>> \o p.comment)
    OBVIOUS
  <2>1. HasExtensions(p)
    BY DEF RelayInv
  <2>2. Known
    BY DEF RelayInv, Nothing
  <2>3. Told(p, r)
    BY <2>2 DEF Known
  <2>4. MotionTold(p, r.course, r.speed) /\ AltitudeTold(p, r.altitude, r.comment)
    BY <2>3 DEF Told, Tells, IsWeather
  <2>8. IF p.altitude \subseteq SixPlaces
        THEN r.altitude = p.altitude /\ IsTrimmed(r.comment, p.comment)
        ELSE /\ r.altitude = {Quotient(feet, 10) : feet \in p.altitude}
             /\ IsTrimmed(r.comment, <<Words>> \o p.comment)
    BY <2>4, CutIsTrimmed DEF AltitudeTold
  <2>5. Moves(p) <=> HasMotion(p) /\ (p.compressed => \E c \in p.course : c \in 1 .. 360)
    BY DEF Moves
  <2>6. CASE Moves(p)
    <3>1. ASSUME NEW course \in p.course, NEW speed \in p.speed
          PROVE  \E c \in r.course, s \in r.speed : MotionNear(p, course, speed, c, s)
      <4>1. r.course = {CourseOf(p, course)} /\ r.speed = {SpeedOf(p, speed)}
        BY <2>4, <2>6 DEF MotionTold
      <4>2. CASE p.compressed
        <5>1. course \in 1 .. 360
          <6>1. PICK c \in p.course : c \in 1 .. 360
            BY <2>6, <4>2 DEF Moves
          <6> QED BY <2>1, <6>1 DEF HasExtensions, IsOption
        <5>2. PICK k : k = CompressedCourse(course)
          OBVIOUS
        <5>3. PICK c : c = IF k = 0 THEN 360 ELSE 4 * k
          OBVIOUS
        <5>4. c = CourseOf(p, course) /\ Least(speed, 89) = SpeedOf(p, speed)
          BY <4>2, <5>2, <5>3 DEF CourseOf, SpeedOf
        <5>5. CourseDiffers(c, course, 2)
          BY <5>1, <5>2, <5>3, CourseNear
        <5>6. PICK s : s = Least(speed, 89)
          OBVIOUS
        <5>7. c \in r.course /\ s \in r.speed
          BY <4>1, <5>4, <5>6
        <5>8. MotionNear(p, course, speed, c, s)
          BY <4>2, <5>5, <5>6 DEF MotionNear
        <5> QED BY <5>7, <5>8
      <4>3. CASE ~ p.compressed
        <5>1. PICK c : c = IF course > 360 THEN 0 ELSE course
          OBVIOUS
        <5>2. PICK s : s = Least(speed, 999)
          OBVIOUS
        <5>3. c = CourseOf(p, course) /\ s = SpeedOf(p, speed)
          <6>1. c = CourseOf(p, course)
            BY <4>3, <5>1 DEF CourseOf
          <6>2. s = SpeedOf(p, speed)
            BY <4>3, <5>2 DEF SpeedOf
          <6> QED BY <6>1, <6>2
        <5>4. c \in r.course /\ s \in r.speed
          BY <4>1, <5>3
        <5>5. MotionNear(p, course, speed, c, s)
          BY <4>3, <5>1, <5>2 DEF MotionNear
        <5> QED BY <5>4, <5>5
      <4> QED BY <4>2, <4>3
    <3> QED BY <2>5, <2>6, <2>8, <3>1 DEF MotionNear
  <2>7. CASE ~ Moves(p)
    BY <2>4, <2>5, <2>7, <2>8 DEF MotionTold
  <2> QED BY <2>6, <2>7
<1>3. RelayInv => ExtensionsComeBack
  BY <1>1, <1>2 DEF ExtensionsComeBack
<1> QED BY <1>3, RelayInvariance, PTL
=============================================================================
