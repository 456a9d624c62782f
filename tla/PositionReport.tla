--------------------------- MODULE PositionReport ---------------------------
(***************************************************************************)
(* A position report or object: a sender encodes a position (PositionText) *)
(* with a timestamp (Timestamp), a receiver parses both some days later,   *)
(* and a program at the receiver may send on what it has parsed, by        *)
(* encode_position again, with the timestamp as it was.  Other senders are *)
(* Mic-E radios, which have no timestamp, and programs of which only the   *)
(* text is known.                                                          *)
(***************************************************************************)
EXTENDS Timestamp, PositionText

CONSTANTS
  Positions,  \* the positions that frap sends at that time
  Ordinary,   \* the one that it sends at other times
  UsualStart,       \* an instant
  Radios,     \* the positions that Mic-E radios send, with nothing behind them
  Others,     \* texts of other programs
  MaxRelays   \* bound: times that a report is sent on

Extension ==
  [kind : {"motion"}, course : Nat, speed : Nat] \cup [kind : {"altitude"}, feet : SixPlaces]
  \cup [kind : {"dao"}, datum : {"base91"}, lat : 0 .. 90, lon : 0 .. 90]
  \cup [kind : {"dao"}, datum : {"decimal"}, lat : 0 .. 9, lon : 0 .. 9]
  \cup {Telemetry, Words, White, Slash}

\* DAO behind a compressed position, which would move it, is not modelled.
IsComment(comment, compressed) ==
  /\ comment \in Seq(Extension)
  /\ compressed => \A i \in 1 .. Len(comment) : comment[i].kind # "dao"

IsOption(o) == o \subseteq Int /\ \A x, y \in o : x = y

\* An altitude has seven places at most, so that one of them runs into the comment.
SevenPlaces == {n \in Int : -1000000 < n /\ n < 10000000}
IsPosition(p) ==
  /\ p.compressed \in BOOLEAN /\ p.dao \in BOOLEAN /\ p.ambiguity \in Nat
  /\ {p.lat, p.lon} \subseteq
       (IF p.compressed THEN [cell : Nat, exact : {FALSE}]
        ELSE [degrees : Nat, grains : 0 .. Degree - 1, negative : BOOLEAN])
  /\ IsOption(p.course) /\ IsOption(p.speed) /\ IsOption(p.altitude)
  /\ p.altitude \subseteq SevenPlaces
  /\ IsComment(p.comment, p.compressed)

\* What a Mic-E radio can say.
IsRadio(p) ==
  /\ IsPosition(p) /\ ~ p.compressed /\ ~ p.dao
  /\ p.ambiguity \in 0 .. 4 /\ p.lat.degrees < 90 /\ p.lon.degrees < 180
  /\ p.altitude = {} /\ p.comment = <<>>
  /\ p.course # {} /\ p.course \subseteq 0 .. 360 /\ p.speed # {} /\ p.speed \subseteq 0 .. 799

\* Any text of one of the three forms.
IsText(t) ==
  /\ IsComment(t.rest, t.form = "compressed")
  /\ \/ /\ t.form = "uncompressed"
        /\ {t.lat, t.lon} \subseteq
             [degrees : Nat, negative : BOOLEAN, digits : [1 .. 4 -> 0 .. 9 \cup {Blank}]]
     \/ /\ t.form = "compressed"
        /\ {t.lat, t.lon} \subseteq [1 .. 4 -> {Blank91} \cup 0 .. 90]
        /\ {t.course, t.speed} \subseteq {Blank91} \cup 0 .. 90
     \/ /\ t.form = "mice"
        /\ t.digits \in [1 .. 6 -> 0 .. 9 \cup {Blank}] /\ t.bytes \in [1 .. 6 -> 0 .. 255]
        /\ {t.north, t.west, t.far} \subseteq BOOLEAN

ASSUME ReportAssumption ==
  /\ Ordinary \in Positions /\ UsualStart \in Starts /\ 0 \in Skews /\ NoText \in Foreign
  /\ MaxRelays \in Nat
  /\ \A p \in Positions : IsPosition(p)
  /\ \A p \in Radios : IsRadio(p)
  /\ \A t \in Others : IsText(t)

VARIABLES
  place,   \* the position as the sender means it, {} if that is not known
  text,    \* the text on its way, {} while there is none
  report,  \* what the receiver has made of it, {} while there is nothing
  first,   \* what the first receiver has made of it
  relays   \* times that it has been sent on

position == <<place, text, report, first, relays>>
reportVars == <<vars, position>>

-----------------------------------------------------------------------------
(* A Mic-E radio: the inverse of what parse_mice undoes.                   *)

MiceText(p) ==
  LET Hundredths(c) == c.grains \div Hundredth
      Digits(n) == <<n \div 1000, (n \div 100) % 10, (n \div 10) % 10, n % 10>>
      latitude == <<p.lat.degrees \div 10, p.lat.degrees % 10>> \o Digits(Hundredths(p.lat))
      degrees == p.lon.degrees
      minutes == Hundredths(p.lon) \div 100
      speed == CHOOSE s \in p.speed : TRUE
      course == CHOOSE c \in p.course : TRUE
  IN  [form |-> "mice", table |-> p.table, code |-> p.code, rest |-> <<>>,
       digits |-> [i \in 1 .. 6 |-> IF i <= 6 - p.ambiguity THEN latitude[i] ELSE Blank],
       north |-> ~ p.lat.negative, west |-> p.lon.negative,
       far |-> degrees < 10 \/ degrees >= 100,
       bytes |-> <<28 + CASE degrees < 10 -> degrees + 90
                          [] degrees \in 100 .. 109 -> degrees - 20
                          [] degrees >= 110 -> degrees - 100
                          [] OTHER -> degrees,
                   28 + (IF minutes < 10 THEN minutes + 60 ELSE minutes),
                   28 + (Hundredths(p.lon) % 100),
                   28 + (speed \div 10) + (IF speed < 200 THEN 80 ELSE 0),
                   32 + 10 * (speed % 10) + (course \div 100),
                   28 + (course % 100)>>]

-----------------------------------------------------------------------------
AtUsualTime == start = UsualStart /\ skew = 0

RInit ==
  /\ Init /\ report = {} /\ first = {} /\ relays = 0
  /\ \/ /\ own /\ text = {}
        /\ \E p \in Positions : place = {p} /\ (AtUsualTime \/ p = Ordinary)
     \/ /\ ~ own /\ raw # NoText
        /\ place = {Ordinary} /\ text = EncodePosition(Ordinary)
     \/ /\ ~ own /\ raw = NoText /\ AtUsualTime /\ carrier = "report"
        /\ \/ \E p \in Radios : place = {p} /\ text = {MiceText(p)}
           \/ place = {} /\ \E t \in Others : text = {t}

\* encode_position or encode_object, with encode_timestamp.
Send(format) ==
  \E p \in place :
    \/ /\ Encode(format)
       /\ \E t \in EncodePosition(p) : text' = {t}
       /\ UNCHANGED <<place, report, first, relays>>
    \/ /\ step = "new" /\ EncodePosition(p) = {}
       /\ step' = "refused"
       /\ UNCHANGED <<start, now, skew, own, carrier, raw, decoded, position>>

Pass == TimePasses /\ UNCHANGED position

\* A packet whose position is refused is lost, with its timestamp.
Parse ==
  \E t \in text :
    \/ /\ ParsePosition(t) # {}
       /\ Receive /\ report' = ParsePosition(t)
       /\ first' = IF relays = 0 THEN report' ELSE first
       /\ UNCHANGED <<place, text, relays>>
    \/ /\ step = "sent" /\ ParsePosition(t) = {}
       /\ step' = "lost"
       /\ UNCHANGED <<start, now, skew, own, carrier, raw, decoded, position>>

\* The options with which a report is sent on as it is.
AsReceived(r) ==
  [lat |-> r.lat, lon |-> r.lon, ambiguity |-> r.ambiguity, dao |-> r.datum # "none",
   compressed |-> r.form = "compressed", course |-> r.course, speed |-> r.speed,
   altitude |-> r.altitude, table |-> r.table, code |-> r.code, comment |-> r.comment]

Relay ==
  /\ step = "received" /\ carrier = "report" /\ relays < MaxRelays
  /\ \E r \in report :
       \/ /\ \E t \in EncodePosition(AsReceived(r)) : text' = {t}
          /\ step' = "sent" /\ relays' = relays + 1 /\ report' = {} /\ decoded' = {}
          /\ UNCHANGED <<start, now, skew, own, carrier, raw, place, first>>
       \/ /\ EncodePosition(AsReceived(r)) = {}
          /\ step' = "refused"
          /\ UNCHANGED <<start, now, skew, own, carrier, raw, decoded, position>>

ReportEnds == step \in {"received", "refused", "lost"} /\ UNCHANGED reportVars

RNext ==
  \/ \E format \in Format : Send(format)
  \/ Pass \/ Parse \/ Relay \/ ReportEnds

RSpec == RInit /\ [][RNext]_reportVars

-----------------------------------------------------------------------------
(* Properties. *)

\* The distance of two coordinates; zero lies in both hemispheres.
IsWithin(c, d, grains) ==
  LET m == Normal(c)
      n == Normal(d)
  IN  IF m.negative = n.negative
      THEN /\ m.degrees - n.degrees \in -1 .. 1
           /\ (m.degrees - n.degrees) * Degree + m.grains - n.grains \in -grains .. grains
      ELSE m.degrees = 0 /\ n.degrees = 0 /\ m.grains + n.grains <= grains

\* Half of what the ambiguity leaves open, and the hundredth that is rounded; with
\* DAO a step of base 91.
Precision(r) ==
  IF r.datum # "none" THEN 100
  ELSE CASE r.ambiguity = 0 -> Hundredth
         [] r.ambiguity = 1 -> Hundredth + Minute \div 20
         [] r.ambiguity = 2 -> Hundredth + Minute \div 2
         [] r.ambiguity = 3 -> Hundredth + 5 * Minute
         [] r.ambiguity = 4 -> Hundredth + 30 * Minute

\* A comment that is not itself read as an extension.
IsPlain(comment) == \A i \in 1 .. Len(comment) : comment[i] \in {Words, White, Slash}

\* What frap or a radio sends arrives, and says where the sender is: in its
\* hemisphere, to the precision that ambiguity, DAO or compression leave, with its
\* symbol.  encode_position accepts two symbols that compressed text cannot
\* carry: one with the code '}', which the parser refuses, and one with a
\* letter that stands for a digit there (encode.rs:265-345, position.rs:4-164,
\* parser.rs:440-543).
PositionComesBack ==
  \A p \in place :
    /\ step = "lost" => p.compressed /\ p.code = "}"
    /\ \A r \in first :
         /\ <<r.code, r.ambiguity>> = <<p.code, p.ambiguity>>
         /\ r.table = p.table \/ (p.compressed /\ p.table \in Range(Overlay))
         /\ IF p.compressed
            THEN r.lat.cell = p.lat.cell /\ r.lon.cell = p.lon.cell
            ELSE (p.dao /\ p.ambiguity = 0) \/ IsPlain(p.comment) =>
                   IsWithin(r.lat, p.lat, Precision(r)) /\ IsWithin(r.lon, p.lon, Precision(r))

\* A report that is decoded and encoded again says the same, however often: what
\* rounding there is has been done the first time.  Three exceptions: each time
\* compressed text is made, its coordinates may move by one cell, to the north and
\* to the west; decimal DAO becomes one in base 91; and DAO of an ambiguous position,
\* or of the weather report of a Mic-E station, is not sent on (encode.rs:328,
\* position.rs:196-203, parser.rs:577).
RelaysKeepPosition ==
  \A f \in first, r \in report :
    /\ r.ambiguity = f.ambiguity
    /\ IF f.form = "compressed"
       THEN f.lat.cell - r.lat.cell \in 0 .. relays /\ f.lon.cell - r.lon.cell \in 0 .. relays
       ELSE LET moved == IF f.datum # "none" /\ (f.ambiguity # 0 \/ f.code = "_") THEN Hundredth
                         ELSE IF f.datum = "decimal" THEN 100 ELSE 0
            IN  IsWithin(r.lat, f.lat, moved) /\ IsWithin(r.lon, f.lon, moved)

CourseDiffers(c, d, degrees) == (c - d) % 360 \in 0 .. degrees \cup 360 - degrees .. 359

\* A comment comes back without the blanks around it, and without what slashes and
\* blanks are in front: each time that it is decoded it can lose more of them.
IsTrimmed(comment, sent) ==
  /\ \E i \in 0 .. Len(sent) - Len(comment) :
       /\ comment = SubSeq(sent, i + 1, i + Len(comment))
       /\ \A k \in 1 .. i : sent[k] \in {White, Slash}
       /\ \A k \in i + Len(comment) + 1 .. Len(sent) : sent[k] = White
  /\ comment = <<>> \/ (comment[1] # Slash /\ comment[Len(comment)] # White)

\* A report of f that is sent on has course and speed, unless Mic-E bytes below
\* the printable ones gave a negative speed; a course that is none is 0.
KeepsMotion(f, r) ==
  IF f.course # {} /\ \E speed \in f.speed : speed >= 0
  THEN /\ r.course = {IF c \in 1 .. 360 THEN c ELSE 0 : c \in f.course}
       /\ r.speed = {Least(speed, 999) : speed \in f.speed}
  ELSE r.course = {} /\ r.speed = {}

\* Course and speed come back together, the altitude as it was sent and the comment
\* trimmed, after any number of relays.  The exceptions are what the code leaves
\* out: course or speed alone or negative, a compressed course of 0 and its
\* speed, an altitude of seven places, which becomes a tenth of it and words, a course
\* beyond 360 degrees, and blanks and slashes at the ends of a comment
\* (encode.rs:312-347,373-392, position.rs:180-258,318).  A speed that was read is
\* sent on whatever the course with it, even one out of range, as Mic-E bytes can
\* give it (parser.rs:529-550).
ExtensionsComeBack ==
  /\ \A p \in place, r \in report :
       p.code # "_" /\ IsPlain(p.comment) =>
         /\ IF HasMotion(p) /\ (p.compressed => \E c \in p.course : c \in 1 .. 360)
            THEN \A course \in p.course, speed \in p.speed :
                   \E c \in r.course, s \in r.speed :
                     IF p.compressed
                     THEN CourseDiffers(c, course, 2) /\ s = Least(speed, 89)
                     ELSE c = (IF course > 360 THEN 0 ELSE course) /\ s = Least(speed, 999)
            ELSE r.course = {} /\ r.speed = {}
         /\ IF p.altitude \subseteq SixPlaces
            THEN r.altitude = p.altitude /\ IsTrimmed(r.comment, p.comment)
            ELSE /\ r.altitude = {Quotient(feet, 10) : feet \in p.altitude}
                 /\ IsTrimmed(r.comment, <<Words>> \o p.comment)
  /\ \A f \in first, r \in report :
       relays > 0 /\ f.form # "compressed" /\ f.code # "_" /\ IsPlain(f.comment) => KeepsMotion(f, r)
=============================================================================
