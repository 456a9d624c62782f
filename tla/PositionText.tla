---------------------------- MODULE PositionText ----------------------------
(***************************************************************************)
(* Positions as text: encode_position (src/encode.rs), the decoders of     *)
(* uncompressed and compressed positions with the extensions behind them   *)
(* (src/position.rs), and the numbers of Mic-E (src/packet/parser.rs).     *)
(*                                                                         *)
(* The code calculates with f64.  Here an angle is an exact number of      *)
(* degrees and grains; a minute has 910000 grains, so that the hundredths  *)
(* of the text and the 91sts of a hundredth of DAO are whole numbers.  A   *)
(* compressed coordinate is the number of its cell, counted from the north *)
(* pole or the antimeridian.  Speed is in knots, or in compressed text in  *)
(* the steps of its logarithmic scale; altitude is in feet.  What follows  *)
(* the symbol is a sequence of what it is read as: extensions, and in the  *)
(* text between them white space, slashes and words.  A blank that is part *)
(* of a course, or a slash of an altitude, is not one of these.            *)
(***************************************************************************)
EXTENDS Division, SequencesExt

Minute    == 910000
Hundredth == Minute \div 100
Degree    == 60 * Minute

\* A digit of a text that is a space: one more than any digit of a coordinate,
\* one less than any of base 91.
Blank  == 10
Blank91 == -1

Least(a, b) == IF a < b THEN a ELSE b
Rounded(n, d) == (2 * n + d) \div (2 * d)

\* Extensions, and other text; telemetry has its own numbers, which are left out.
Motion(course, speed) == [kind |-> "motion", course |-> course, speed |-> speed]
Altitude(feet) == [kind |-> "altitude", feet |-> feet]
Telemetry == [kind |-> "telemetry"]
Words == [kind |-> "words"]
White == [kind |-> "white"]
Slash == [kind |-> "slash"]

\* DAO: digits that are 91sts of a hundredth of a minute, or tenths of one.
Dao(datum, lat, lon) == [kind |-> "dao", datum |-> datum, lat |-> lat, lon |-> lon]
DaoGrains(datum, digit) == digit * (IF datum = "base91" THEN Hundredth \div 91 ELSE Minute \div 1000)

-----------------------------------------------------------------------------
(* encode_position, of [lat, lon, ambiguity, dao, compressed, course,      *)
(* speed, altitude, table, code, comment]; course, speed and altitude are  *)
(* Options.                                                                *)

\* A decoded coordinate can have more than sixty minutes.
Normal(c) == [c EXCEPT !.degrees = @ + c.grains \div Degree, !.grains = @ % Degree]

\* At most 89.99999 or 179.99999 degrees.
IsEncodable(c, limit) ==
  \/ Normal(c).degrees < limit
  \/ Normal(c).degrees = limit /\ Normal(c).grains <= Degree - 6 * (Minute \div 10000)

\* Ten thousandths of a minute: hundredths unless DAO takes the rest.
Scaled(c, dao) ==
  Least(599999, IF dao THEN Rounded(c.grains, 91) ELSE 100 * Rounded(c.grains, Hundredth))

\* Zero has no sign in the text, though it may have one in the decoder.
EncodedCoordinate(c, ambiguity, dao) ==
  LET n == Scaled(c, dao)
      digits == <<n \div 100000, (n \div 10000) % 10, (n \div 1000) % 10, (n \div 100) % 10>>
  IN  [degrees |-> c.degrees, negative |-> c.negative /\ <<c.degrees, c.grains>> # <<0, 0>>,
       digits |-> [i \in 1 .. 4 |-> IF i <= 4 - ambiguity THEN digits[i] ELSE Blank]]

\* A mutant of DaoDigit: it rounds down.
DaoDigitDown(n) == (10 * n) \div 11

DaoDigit(n) == (20 * n + 11) \div 22

\* Six places, of which a minus sign takes one.  What is longer runs into the
\* text behind it.
SixPlaces == {n \in Int : -100000 < n /\ n < 1000000}
EncodedAltitude(feet) ==
  CASE feet \in SixPlaces -> <<Altitude(feet)>>
    [] OTHER -> <<Altitude(Quotient(feet, 10)), Words>>

AltitudeAndComment(p) ==
  (IF p.altitude = {} THEN <<>> ELSE EncodedAltitude(CHOOSE feet \in p.altitude : TRUE)) \o p.comment

HasMotion(p) ==
  \E speed \in p.speed, course \in p.course : speed >= 0 /\ course >= 0

Uncompressed(p) ==
  LET dao == p.dao /\ p.ambiguity = 0
      lat == Normal(p.lat)
      lon == Normal(p.lon)
  IN  [form |-> "uncompressed", table |-> p.table, code |-> p.code,
       lat |-> EncodedCoordinate(lat, p.ambiguity, dao),
       lon |-> EncodedCoordinate(lon, p.ambiguity, dao),
       rest |->
         (IF HasMotion(p)
          THEN LET course == CHOOSE c \in p.course : TRUE
                   speed == CHOOSE s \in p.speed : TRUE
               IN  <<Motion(IF course > 360 THEN 0 ELSE course, Least(speed, 999))>>
          ELSE <<>>)
         \o AltitudeAndComment(p)
         \o (IF dao THEN <<Dao("base91", DaoDigit(Scaled(lat, TRUE) % 100),
                                         DaoDigit(Scaled(lon, TRUE) % 100))>>
             ELSE <<>>)]

\* Digits of a base-91 number, and the letters that stand for digits where the
\* first character of a position tells its form.
Base91(n) == [i \in 1 .. 4 |-> (n \div <<753571, 8281, 91, 1>>[i]) % 91]
Overlay == [x \in {"0", "1"} |-> IF x = "0" THEN "a" ELSE "b"]

\* A mutant of CompressedCourse: it rounds down.
CompressedCourseDown(course) == course \div 4

CompressedCourse(course) ==
  LET quarters == (course + 2) \div 4 IN IF quarters > 89 THEN 0 ELSE quarters

Compressed(p, lat, lon) ==
  LET moves == HasMotion(p) /\ \E course \in p.course : course \in 1 .. 360
  IN  [form |-> "compressed", code |-> p.code,
       table |-> IF p.table \in DOMAIN Overlay THEN Overlay[p.table] ELSE p.table,
       lat |-> Base91(lat), lon |-> Base91(lon),
       course |-> IF moves THEN CompressedCourse(CHOOSE c \in p.course : TRUE) ELSE Blank91,
       speed |-> IF moves THEN Least(CHOOSE s \in p.speed : TRUE, 89) ELSE Blank91,
       rest |-> AltitudeAndComment(p)]

\* The cast to u32 cuts off the fraction.  At the very edge of a cell, where a
\* decoded coordinate lies, the product can fall short of the whole number that
\* it stands for, since f64 is not exact.
Cells(c) == IF c.exact THEN {c.cell - 1, c.cell} ELSE {c.cell}

\* 89.99999 and 179.99999 degrees on either side, in cells.
IsEncodableCell(c, cells, last) ==
  c.cell \in (IF c.exact THEN cells ELSE cells - 1) .. last

\* What encode_position may make of a position: nothing if it refuses it.
EncodePosition(p) ==
  CASE p.compressed ->
         IF /\ IsEncodableCell(p.lat, 4, 68566676) /\ IsEncodableCell(p.lon, 2, 68566678)
            /\ p.ambiguity = 0 /\ ~ p.dao
         THEN {Compressed(p, lat, lon) : lat \in Cells(p.lat), lon \in Cells(p.lon)}
         ELSE {}
    [] OTHER ->
         IF IsEncodable(p.lat, 89) /\ IsEncodable(p.lon, 179) /\ p.ambiguity <= 4
         THEN {Uncompressed(p)}
         ELSE {}

-----------------------------------------------------------------------------
(* The decoders: each gives a report, or nothing if it refuses the text.   *)

TrailingBlanks(digits) ==
  CHOOSE n \in 0 .. Len(digits) :
    /\ \A i \in Len(digits) - n + 1 .. Len(digits) : digits[i] = Blank
    /\ n < Len(digits) => digits[Len(digits) - n] # Blank

\* A mutant of Centered: the lost digits are zeros.
CenteredLow(digits, ambiguity) ==
  [i \in 1 .. 4 |-> IF i <= 4 - ambiguity THEN digits[i] ELSE 0]

\* The four digits of the minutes, in the middle of what they leave open.
Centered(digits, ambiguity) ==
  [i \in 1 .. 4 |-> IF i <= 4 - ambiguity THEN digits[i]
                    ELSE IF i > 5 - ambiguity THEN 0
                    ELSE IF ambiguity = 4 THEN 3 ELSE 5]

Grains(digits) == Hundredth * (1000 * digits[1] + 100 * digits[2] + 10 * digits[3] + digits[4])

\* The ambiguity of the latitude is that of the longitude too.
Coordinate(t, limit, ambiguity) ==
  IF /\ t.degrees <= limit
     /\ t.digits[1] \in 0 .. 7 \cup {Blank}
     /\ \A i \in 1 .. 4 - TrailingBlanks(t.digits) : t.digits[i] # Blank
     /\ \A i \in 1 .. 4 - ambiguity : t.digits[i] # Blank
  THEN {[degrees |-> t.degrees, negative |-> t.negative,
         grains |-> Grains(Centered(t.digits, ambiguity))]}
  ELSE {}

TrimStart(s, x) ==
  LET start == SelectInSeq(s, LAMBDA y : y # x)
  IN  IF start = 0 THEN <<>> ELSE SubSeq(s, start, Len(s))
Trim(s) == TrimStart(SubSeq(s, 1, SelectLastInSeq(s, LAMBDA y : y # White)), White)

\* strip_inline_telemetry: the last one is taken out.
WithoutTelemetry(s) ==
  LET at == SelectLastInSeq(s, LAMBDA x : x = Telemetry)
  IN  IF at = 0 THEN s ELSE RemoveAt(s, at)

\* parse_base91_telemetry, which trims what it has found telemetry in.
TelemetryTaken(s) ==
  IF \E i \in 1 .. Len(s) : s[i] = Telemetry THEN Trim(WithoutTelemetry(s)) ELSE s

\* The last DAO moves both coordinates away from zero.
ReadDao(report, rest) ==
  LET at == SelectLastInSeq(rest, LAMBDA x : x.kind = "dao")
      Moved(axis) == [report[axis] EXCEPT !.grains = @ + DaoGrains(rest[at].datum, rest[at][axis])]
  IN  IF at = 0 THEN [report EXCEPT !.comment = rest]
      ELSE [report EXCEPT !.comment = RemoveAt(rest, at), !.datum = rest[at].datum,
                          !.lat = Moved("lat"), !.lon = Moved("lon")]

\* What is left of a comment: no blanks around it, and no slashes in front.
Shown(comment) == TrimStart(Trim(comment), Slash)

\* parse_dao: DAO is not looked for in telemetry.
WithDao(report, original) ==
  LET read == ReadDao(report, WithoutTelemetry(original))
  IN  [read EXCEPT !.comment = Shown(@)]

\* parse_position_comment: course and speed at the start, then the first altitude.
\* The weather report behind '_' is left to WeatherScan.
WithComment(report, text) ==
  LET moves == text # <<>> /\ text[1].kind = "motion"
      rest == IF moves THEN Tail(text) ELSE text
      at == SelectInSeq(rest, LAMBDA x : x.kind = "altitude")
      moving == IF moves
                THEN [report EXCEPT !.course = {IF text[1].course \in 1 .. 360 THEN text[1].course ELSE 0},
                                    !.speed = {text[1].speed}]
                ELSE report
  IN  CASE report.code = "_" -> report
        [] OTHER ->
             IF at = 0 THEN WithDao(moving, TelemetryTaken(rest))
             ELSE WithDao([moving EXCEPT !.altitude = {rest[at].feet}], TelemetryTaken(RemoveAt(rest, at)))

NewReport(t, lat, lon, ambiguity, course, speed) ==
  [form |-> t.form, table |-> t.table, code |-> t.code, lat |-> lat, lon |-> lon,
   ambiguity |-> ambiguity, course |-> course, speed |-> speed,
   altitude |-> {}, datum |-> "none", comment |-> <<>>]

ParseUncompressed(t) ==
  LET ambiguity == TrailingBlanks(t.lat.digits)
  IN  {WithComment(NewReport(t, lat, lon, ambiguity, {}, {}), t.rest) :
         lat \in Coordinate(t.lat, 89, ambiguity), lon \in Coordinate(t.lon, 179, ambiguity)}

Number91(digits) == 753571 * digits[1] + 8281 * digits[2] + 91 * digits[3] + digits[4]

\* A digit as the first character makes the text an uncompressed position; '}' is
\* beyond base 91.
ParseCompressed(t) ==
  IF \/ t.table \in DOMAIN Overlay \/ t.code = "}"
     \/ \E i \in 1 .. 4 : Blank91 \in {t.lat[i], t.lon[i]}
  THEN {}
  ELSE LET Edge(digits) == [cell |-> Number91(digits), exact |-> TRUE]
           table == {x \in DOMAIN Overlay : Overlay[x] = t.table}
           moves == t.course \in 0 .. 89 /\ t.speed >= 0
           report == NewReport(t, Edge(t.lat), Edge(t.lon), 0,
                            IF moves THEN {IF t.course = 0 THEN 360 ELSE 4 * t.course} ELSE {},
                            IF moves THEN {t.speed} ELSE {})
       IN  {WithComment([report EXCEPT !.table = IF table = {} THEN @ ELSE CHOOSE x \in table : TRUE],
                        t.rest)}

\* Degrees below 10 and from 100 to 109 are sent above 180.
MiceLongitude(byte, far) ==
  LET degrees == byte - 28 + (IF far THEN 100 ELSE 0)
  IN  CASE degrees \in 180 .. 189 -> degrees - 80
        [] degrees \in 190 .. 199 -> degrees - 190
        [] OTHER -> degrees

\* parse_mice: the latitude is in the six characters of the destination, with
\* three flags; the rest is in the bytes of the body.  The course is cast to u16.
\* The altitude and the hexadecimal telemetry of Mic-E are not modelled.
ParseMice(t) ==
  LET ambiguity == TrailingBlanks(t.digits)
      degrees == MiceLongitude(t.bytes[1], t.far)
      minutes == IF t.bytes[2] - 28 >= 60 THEN t.bytes[2] - 88 ELSE t.bytes[2] - 28
      hundredths == t.bytes[3] - 28
      speed == 10 * (t.bytes[4] - 28) + Quotient(t.bytes[5] - 28, 10)
      course == 100 * Remainder(t.bytes[5] - 28, 10) + t.bytes[6] - 28
  IN  IF \/ \E i \in 1 .. 6 - ambiguity : t.digits[i] = Blank
         \/ ambiguity > 4 \/ degrees < 0 \/ minutes < 0 \/ hundredths < 0
      THEN {}
      ELSE {WithDao(
              NewReport(t,
                [degrees |-> 10 * t.digits[1] + t.digits[2], negative |-> ~ t.north,
                 grains |-> Grains(Centered(SubSeq(t.digits, 3, 6), ambiguity))],
                [degrees |-> degrees, negative |-> t.west,
                 grains |-> Grains(Centered(<<minutes \div 10, minutes % 10,
                                              hundredths \div 10, hundredths % 10>>, ambiguity))],
                ambiguity,
                {(IF course >= 400 THEN course - 400 ELSE course) % 65536},
                {IF speed >= 800 THEN speed - 800 ELSE speed}),
              TelemetryTaken(t.rest))}

ParsePosition(t) ==
  CASE t.form = "uncompressed" -> ParseUncompressed(t)
    [] t.form = "compressed" -> ParseCompressed(t)
    [] t.form = "mice" -> ParseMice(t)
=============================================================================
