---------------------------- MODULE WeatherScan ----------------------------
(***************************************************************************)
(* weather_from_comment (src/position.rs): the scanner that takes weather  *)
(* readings out of the text of a weather report, and the inline telemetry  *)
(* that its callers take out of what is left.                              *)
(*                                                                         *)
(* The code edits the text while a cursor walks along it, and keeps a few  *)
(* positions in the edited text to use again at the end.  A text is a      *)
(* sequence of characters; what remains of it is kept as the positions in  *)
(* the text of the characters that remain, so that the properties can say  *)
(* where each one came from.  A reading is the characters it was read      *)
(* from, not the number.  Numbers too long for an i32 are not modelled.    *)
(***************************************************************************)
EXTENDS Integers, Sequences, FiniteSets, SequencesExt

CONSTANTS
  Words,   \* letters that begin no field
  Marks,   \* other characters without a meaning to the scanner, no space
  Texts    \* bound: the texts that are scanned

Digit == {"0", "1", "2", "3", "4", "5", "6", "7", "8", "9"}
Blank == {".", " "}

\* The letters of the fields, with the number of characters each has unless it
\* shows otherwise, and those whose number may have a sign.
Width == [c |-> 3, s |-> 3, g |-> 3, r |-> 3, p |-> 3, P |-> 3, L |-> 3, l |-> 3,
          X |-> 3, V |-> 3, t |-> 3, h |-> 2, b |-> 5, F |-> 4]
Field == DOMAIN Width
Signed == {"t", "F"}

Alphabetic == Field \cup {"v"} \cup Words
Base91 == Alphabetic \cup Digit \cup Marks \cup {".", "-", "+", "/", "#"}
Char == Base91 \cup {" ", "|"}

ASSUME TextAssumption ==
  /\ Texts \subseteq Seq(Char)
  /\ (Words \cup Marks) \cap (Field \cup Digit \cup Blank \cup {"v", "-", "+", "/", "#", "|"}) = {}
  /\ "_" \notin Words

Quantity == {"wind_direction_deg", "wind_speed_ms", "snow_24h_mm", "wind_gust_ms",
             "temperature_c", "rain_1h_mm", "rain_24h_mm", "rain_since_midnight_mm",
             "humidity_percent", "pressure_mbar", "luminosity_wm2", "water_level_m",
             "radiation_nsvh", "battery_voltage", "software"}

VARIABLES
  text,       \* the text: never changes
  phase,      \* the part of the code that goes on next
  remaining,  \* the text as edited: positions in text
  cursor,     \* bytes of remaining before the one that is looked at
  sequence,   \* field_sequence_cursor, None before the first field
  seen,       \* seen_numeric_field: letters whose number has been read
  preserved,  \* preserved_comment_placeholders
  consumed,   \* which of the legacy tokens v and # has been removed
  capacity,   \* leading_placeholder_separator_capacity
  weather,    \* Weather: the characters of each reading, <<>> for None
  telemetry   \* ParseState::telemetry: the characters of the payload

scanner == <<cursor, sequence, seen, preserved, consumed, capacity>>
vars == <<text, phase, remaining, scanner, weather, telemetry>>

None == -1

Init ==
  /\ text \in Texts
  /\ phase = "wind" /\ remaining = <<>>
  /\ cursor = 0 /\ sequence = None /\ seen = {} /\ preserved = <<>>
  /\ consumed = {} /\ capacity = 0
  /\ weather = [q \in Quantity |-> <<>>] /\ telemetry = <<>>

-----------------------------------------------------------------------------
(* The text at the cursor. *)

\* The character i places after the cursor, "" where the text has ended.
At(i) == LET k == cursor + i + 1
         IN  IF k \in 1 .. Len(remaining) THEN text[remaining[k]] ELSE ""

\* How many characters of a set follow one another from place i on.
Count(set, i) ==
  CHOOSE n \in 0 .. Len(remaining) :
    (\A k \in 0 .. n - 1 : At(i + k) \in set) /\ At(i + n) \notin set

\* remaining without n characters at the cursor.
Without(n) == SubSeq(remaining, 1, cursor) \o SubSeq(remaining, cursor + n + 1, Len(remaining))

Least(a, b) == IF a < b THEN a ELSE b

\* Which pairs of bars in a sequence of positions enclose inline telemetry.
Blocks(s) ==
  {block \in (1 .. Len(s)) \X (1 .. Len(s)) :
     LET a == block[1]
         b == block[2]
     IN  /\ text[s[a]] = "|" /\ text[s[b]] = "|"
         /\ b - a - 1 \in 4 .. 14 /\ (b - a - 1) % 2 = 0
         /\ \A k \in a + 1 .. b - 1 : text[s[k]] \in Base91}

Identifier == At(0)
Sign == IF Identifier \in Signed /\ At(1) = "-" THEN 1 ELSE 0
Digits == Count(Digit, 1 + Sign)
Placeholders == Count(Blank, 1)

\* A number in a word, a callsign or a date.
InWord == cursor # 0 /\ At(-1) \in Alphabetic
EndsInWord == At(1 + Sign + Digits) \in Alphabetic \ (Field \ {Identifier})

Lookalike ==
  \/ Identifier = "h" /\ Digits = 1 /\ InWord /\ At(2) \in Alphabetic /\ seen = {}
  \/ Identifier \in {"F", "X", "V"} /\ sequence # cursor /\ cursor # 0
  \/ Identifier = "s" /\ Digits # 0 /\ seen = {} /\ (InWord \/ EndsInWord)
  \/ Identifier \in {"L", "l"} /\ Digits # 0 /\ cursor # 0 /\ seen = {} /\ (Digits < 3 \/ InWord)
  \/ Identifier = "c" /\ Digits # 0 /\ InWord
  \/ Identifier = "g" /\ Digits # 0 /\ (InWord \/ EndsInWord)
  \/ /\ Identifier = "s" /\ cursor # 0
     /\ At(1 + Placeholders) = "V" /\ At(2 + Placeholders) \in Digit

NumericWidth ==
  CASE Identifier = "g" -> Digits
    [] Identifier = "t" -> Least(Digits, 4)
    [] Identifier \in {"r", "p", "P", "h", "L", "l", "s"} -> Least(Digits, 3)
    [] Identifier = "b" /\ Digits \in {4, 5} -> Digits
    [] OTHER -> 0

FieldWidth ==
  IF NumericWidth # 0 THEN Sign + NumericWidth
  ELSE IF Placeholders # 0 THEN Least(Placeholders, 5)
  ELSE Width[Identifier]

\* The positions of the field after its letter, and what they say.
FieldAt == SubSeq(remaining, cursor + 2, cursor + 1 + FieldWidth)

Trim(s) == LET Kept == {k \in 1 .. Len(s) : text[s[k]] # " "}
           IN  IF Kept = {} THEN <<>>
               ELSE SubSeq(s, CHOOSE k \in Kept : \A j \in Kept : k <= j,
                              CHOOSE k \in Kept : \A j \in Kept : j <= k)

AllIn(s, set) == \A k \in 1 .. Len(s) : text[s[k]] \in set

\* parse_weather_number, and str::parse::<i32> for a field with a sign.
IsNumber(s) ==
  LET t == Trim(s)
      u == IF Identifier \in Signed /\ t # <<>> /\ text[t[1]] \in {"-", "+"} THEN Tail(t) ELSE t
  IN  u # <<>> /\ AllIn(u, Digit)

\* At two digits or less, 100 or 000 a humidity is a percentage.
IsPercentage(s) ==
  LET t == Trim(s)
  IN  Len(t) < 3 \/ text[t[1]] = "0"
        \/ (text[t[1]] = "1" /\ text[t[2]] = "0" /\ text[t[3]] = "0")

QuantityOf ==
  CASE Identifier = "c" -> "wind_direction_deg"
    [] Identifier = "s" -> IF "c" \in seen THEN "wind_speed_ms" ELSE "snow_24h_mm"
    [] Identifier = "g" -> "wind_gust_ms"
    [] Identifier = "t" -> "temperature_c"
    [] Identifier = "r" -> "rain_1h_mm"
    [] Identifier = "p" -> "rain_24h_mm"
    [] Identifier = "P" -> "rain_since_midnight_mm"
    [] Identifier = "h" -> "humidity_percent"
    [] Identifier = "b" -> "pressure_mbar"
    [] Identifier \in {"L", "l"} -> "luminosity_wm2"
    [] Identifier = "F" -> "water_level_m"
    [] Identifier = "X" -> "radiation_nsvh"
    [] Identifier = "V" -> "battery_voltage"

-----------------------------------------------------------------------------
(* What the loop can find at the cursor, in the order it looks. *)

IsTelemetry == \E block \in Blocks(remaining) : block[1] = cursor + 1

VoltageSign == IF At(1) \in {"+", "-"} THEN 1 ELSE 0
IsVoltage == Identifier = "v" /\ "v" \notin consumed /\ Count(Digit, 1 + VoltageSign) # 0

IsCounter == Identifier = "#" /\ "#" \notin consumed /\ Count(Digit, 1) # 0
IsEmptyCounter ==
  /\ Identifier = "#" /\ "#" \notin consumed /\ Count(Digit, 1) = 0
  /\ cursor = 0 /\ Placeholders # 0

IsField == Identifier \in Field /\ Identifier \notin seen

\* The first temperature, mixed with points or spaces.
TemperatureWidth == Count(Digit \cup Blank, 1 + Sign)
IsMixedTemperature ==
  /\ IsField /\ Identifier = "t" /\ sequence = cursor
  /\ TemperatureWidth > Digits
  /\ \E k \in 1 .. TemperatureWidth : At(Sign + k) \in Digit

Fits == /\ IsField /\ ~ IsMixedTemperature /\ ~ Lookalike
        /\ cursor + FieldWidth + 1 <= Len(remaining)
IsReading == Fits /\ IsNumber(FieldAt)
IsPlaceholder == Fits /\ AllIn(FieldAt, Blank)

-----------------------------------------------------------------------------
(* The wind at the start of the text. *)

\* What the first characters of s say of the wind: dir/spd or cdirsspd.
WindPair(s) ==
  LET Reads(from) == LET d == SubSeq(s, from, from + 2) IN
                     IF Trim(d) # <<>> /\ AllIn(Trim(d), Digit) THEN d ELSE <<>>
  IN  IF Len(s) >= 7 /\ text[s[4]] = "/"
      THEN [width |-> 7, direction |-> Reads(1), speed |-> Reads(5)]
      ELSE IF Len(s) >= 8 /\ text[s[1]] = "c" /\ text[s[5]] = "s"
      THEN [width |-> 8, direction |-> Reads(2), speed |-> Reads(6)]
      ELSE [width |-> 0, direction |-> <<>>, speed |-> <<>>]

Positions(from) == [k \in 1 .. Len(text) - from |-> from + k]
Rest == Positions(IF text # <<>> /\ text[1] = "_" THEN 1 ELSE 0)

TakeWind ==
  /\ phase = "wind"
  /\ LET wind == WindPair(Rest)
     IN  /\ remaining' = SubSeq(Rest, wind.width + 1, Len(Rest))
         /\ weather' = [weather EXCEPT !["wind_direction_deg"] = wind.direction,
                                       !["wind_speed_ms"] = wind.speed]
         /\ sequence' = IF wind.width = 0 THEN None ELSE 0
  /\ phase' = "scan"
  /\ UNCHANGED <<text, cursor, seen, preserved, consumed, capacity, telemetry>>

-----------------------------------------------------------------------------
(* The loop: one action for each way around it. *)

Scanning == phase = "scan" /\ cursor < Len(remaining)

\* The part of the state that the branches without a reading leave alone.
found == <<text, phase, weather, telemetry>>

\* Mutants of SkipTelemetry: only the bar is skipped; the place that was found
\* is taken for one in the text, and not in the text after the cursor.
SkipBar ==
  /\ Scanning /\ IsTelemetry
  /\ cursor' = cursor + 1
  /\ UNCHANGED <<found, remaining, sequence, seen, preserved, consumed, capacity>>

SkipTelemetryRelative ==
  /\ Scanning /\ IsTelemetry
  /\ cursor' = CHOOSE n \in 1 .. Len(remaining) : <<cursor + 1, cursor + 1 + n>> \in Blocks(remaining)
  /\ UNCHANGED <<found, remaining, sequence, seen, preserved, consumed, capacity>>

SkipTelemetry ==
  /\ Scanning /\ IsTelemetry
  /\ cursor' = CHOOSE b \in 1 .. Len(remaining) : <<cursor + 1, b>> \in Blocks(remaining)
  /\ UNCHANGED <<found, remaining, sequence, seen, preserved, consumed, capacity>>

\* A mutant of DropVoltage: the scan starts again.
DropVoltageRestart ==
  /\ Scanning /\ IsVoltage
  /\ remaining' = Without(1 + VoltageSign + Count(Digit, 1 + VoltageSign))
  /\ consumed' = consumed \cup {"v"} /\ cursor' = 0
  /\ UNCHANGED <<found, sequence, seen, preserved, capacity>>

DropVoltage ==
  /\ Scanning /\ IsVoltage
  /\ remaining' = Without(1 + VoltageSign + Count(Digit, 1 + VoltageSign))
  /\ consumed' = consumed \cup {"v"}
  /\ UNCHANGED <<found, cursor, sequence, seen, preserved, capacity>>

DropCounter ==
  /\ Scanning /\ IsCounter
  /\ remaining' = Without(1 + Count(Digit, 1))
  /\ consumed' = consumed \cup {"#"}
  /\ UNCHANGED <<found, cursor, sequence, seen, preserved, capacity>>

DropEmptyCounter ==
  /\ Scanning /\ IsEmptyCounter
  /\ remaining' = Without(1 + Least(Placeholders, 5))
  /\ capacity' = 5 - Least(Placeholders, 5)
  /\ UNCHANGED <<found, cursor, sequence, seen, preserved, consumed>>

DropMixedTemperature ==
  /\ Scanning /\ IsMixedTemperature
  /\ remaining' = Without(1 + Sign + TemperatureWidth)
  /\ sequence' = cursor
  /\ UNCHANGED <<found, cursor, seen, preserved, consumed, capacity>>

TakeReading ==
  /\ Scanning /\ IsReading
  /\ weather' = IF weather[QuantityOf] # <<>> \/ (Identifier = "h" /\ ~ IsPercentage(FieldAt))
                THEN weather ELSE [weather EXCEPT ![QuantityOf] = FieldAt]
  /\ seen' = seen \cup IF Identifier \in {"L", "l"} THEN {"L", "l"} ELSE {Identifier}
  /\ remaining' = Without(FieldWidth + 1)
  /\ sequence' = cursor
  /\ UNCHANGED <<text, phase, telemetry, cursor, preserved, consumed, capacity>>

\* A mutant of TakePlaceholder: none is kept aside.
LosePlaceholder ==
  /\ Scanning /\ IsPlaceholder
  /\ capacity' = IF cursor = 0 /\ Identifier \in {"r", "P", "p", "h", "b", "l", "L", "s"}
                 THEN 5 - FieldWidth ELSE capacity
  /\ remaining' = Without(FieldWidth + 1)
  /\ sequence' = cursor
  /\ UNCHANGED <<found, cursor, seen, preserved, consumed>>

\* A placeholder is kept aside if it is not at the start; one of some fields at
\* the start leaves room for separators to be removed.
TakePlaceholder ==
  /\ Scanning /\ IsPlaceholder
  /\ IF cursor # 0
     THEN /\ preserved' = Append(preserved,
               [position |-> cursor, piece |-> SubSeq(remaining, cursor + 1, cursor + FieldWidth + 1)])
          /\ UNCHANGED capacity
     ELSE /\ capacity' = IF cursor = 0 /\ Identifier \in {"r", "P", "p", "h", "b", "l", "L", "s"}
                         THEN 5 - FieldWidth ELSE capacity
          /\ UNCHANGED preserved
  /\ remaining' = Without(FieldWidth + 1)
  /\ sequence' = cursor
  /\ UNCHANGED <<found, cursor, seen, consumed>>

PassOver ==
  /\ Scanning
  /\ ~ (IsTelemetry \/ IsVoltage \/ IsCounter \/ IsEmptyCounter)
  /\ ~ (IsMixedTemperature \/ IsReading \/ IsPlaceholder)
  /\ cursor' = cursor + 1
  /\ UNCHANGED <<found, remaining, sequence, seen, preserved, consumed, capacity>>

-----------------------------------------------------------------------------
(* After the loop, and in the caller. *)

Put(entry, s) ==
  SubSeq(s, 1, entry.position) \o entry.piece \o SubSeq(s, entry.position + 1, Len(s))

\* Each of some entries put into a text, the last one first.
PutAll(entries, s) ==
  LET n == Len(entries)
      put[k \in 0 .. n] == IF k = 0 THEN s ELSE Put(entries[n - k + 1], put[k - 1])
  IN  put[n]

\* A mutant of Reinserted: the first placeholder is put back first.
ReinsertedInOrder(s) == PutAll(Reverse(preserved), s)

\* From the last to the first, so that the earlier positions stay right.
Reinserted(s) == PutAll(preserved, s)

\* As many separators at the start as there is room for.
WithoutSeparators(s) ==
  LET n == CHOOSE k \in 0 .. capacity :
             /\ k <= Len(s) /\ AllIn(SubSeq(s, 1, k), Blank)
             /\ k = capacity \/ k = Len(s) \/ text[s[k + 1]] \notin Blank
  IN  SubSeq(s, n + 1, Len(s))

\* The first run of spaces becomes one.
Squeezed(s) ==
  IF \A k \in 1 .. Len(s) : text[s[k]] # " " THEN s
  ELSE LET first == CHOOSE k \in 1 .. Len(s) :
                      text[s[k]] = " " /\ \A j \in 1 .. k - 1 : text[s[j]] # " "
           last == CHOOSE k \in first .. Len(s) :
                     /\ \A j \in first .. k : text[s[j]] = " "
                     /\ k < Len(s) => text[s[k + 1]] # " "
       IN  SubSeq(s, 1, first) \o SubSeq(s, last + 1, Len(s))

IsSoftware(s) ==
  Len(s) \in 3 .. 5 /\ AllIn(s, (Alphabetic \cup Digit \cup {"-", "_"}))

Finish ==
  /\ phase = "scan" /\ cursor >= Len(remaining)
  /\ LET comment == Squeezed(Trim(WithoutSeparators(Reinserted(remaining))))
     IN  IF IsSoftware(comment)
         THEN weather' = [weather EXCEPT !["software"] = comment] /\ remaining' = <<>>
         ELSE remaining' = comment /\ UNCHANGED weather
  /\ phase' = "telemetry"
  /\ UNCHANGED <<text, scanner, telemetry>>

\* parse_base91_telemetry: the last two bars that enclose a payload.
TakeTelemetry ==
  /\ phase = "telemetry"
  /\ IF Blocks(remaining) = {} THEN UNCHANGED <<remaining, telemetry>>
     ELSE LET last == CHOOSE block \in Blocks(remaining) :
                        \A other \in Blocks(remaining) : other[2] <= block[2]
          IN  /\ telemetry' = SubSeq(remaining, last[1] + 1, last[2] - 1)
              /\ remaining' = Trim(SubSeq(remaining, 1, last[1] - 1)
                                     \o SubSeq(remaining, last[2] + 1, Len(remaining)))
  /\ phase' = "done"
  /\ UNCHANGED <<text, scanner, weather>>

Done == phase = "done" /\ UNCHANGED vars

Scan ==
  \/ TakeWind \/ SkipTelemetry \/ DropVoltage \/ DropCounter \/ DropEmptyCounter
  \/ DropMixedTemperature \/ TakeReading \/ TakePlaceholder \/ PassOver
  \/ Finish \/ TakeTelemetry

Next == Scan \/ Done

Spec == Init /\ [][Next]_vars

-----------------------------------------------------------------------------
(* Properties. *)

\* The text that the cursor has not reached is still the end of the text as it
\* was received, and the positions kept for later lie in the part that it has
\* passed and in their order: no slice and no insert_str is out of bounds,
\* whatever the edits were (position.rs:370-374,664-679).
PositionsStayValid ==
  phase = "scan" =>
    /\ cursor <= Len(remaining)
    /\ \A k \in cursor + 1 .. Len(remaining) : remaining[k] = Len(text) - Len(remaining) + k
    /\ sequence <= cursor
    /\ \A i \in 1 .. Len(preserved) :
         /\ preserved[i].position <= cursor
         /\ \A j \in 1 .. i : preserved[j].position <= preserved[i].position

Increasing(s) == \A j, k \in 1 .. Len(s) : j < k => s[j] < s[k]

\* A reading is a run of characters that stood together in the text: no number
\* is put together from what was left around a token that has been removed.  No
\* character is in two readings, or in a reading and in the comment.  What is
\* left is in the order in which it was received: placeholders go back to where
\* they were, although the text around them has been edited since their
\* positions were noted (position.rs:588-679).
ReadingsAreWhole ==
  LET read == {q \in Quantity : weather[q] # <<>>}
  IN  /\ phase \in {"telemetry", "done"} => Increasing(remaining)
      /\ \A q \in read \ {"software"} :
           Increasing(weather[q]) /\ Last(weather[q]) - Head(weather[q]) = Len(weather[q]) - 1
      /\ \A q, r \in read : q # r => Range(weather[q]) \cap Range(weather[r]) = {}
      /\ phase \in {"telemetry", "done"} =>
           \A q \in read : Range(weather[q]) \cap Range(remaining) = {}

\* Without a number, a bar or a field at its start the text is only a comment.
IsProse ==
  /\ \A k \in 1 .. Len(text) : text[k] \notin Digit \cup {"|"}
  /\ text # <<>> /\ text[1] \notin Field \cup {"#", "_"}
  /\ WindPair(Rest).width = 0

\* Prose keeps every letter that looks like a field without a number, as in
\* "sensor" and "Buenos Aires" (the comment at position.rs:571-575).
ProseIsKept ==
  phase = "done" /\ IsProse =>
    remaining \o weather["software"] = Squeezed(Trim(Rest))

\* README.md:333 says that inline telemetry is decoded in positioned weather.
\* If the two bars of a text enclose a payload, behind any wind pair, that is
\* the telemetry: the scanner takes nothing out of it and puts nothing into it.
TelemetryIsKept ==
  phase = "done" =>
    \A block \in Blocks(Rest) :
      (/\ block[1] > WindPair(Rest).width
       /\ {k \in 1 .. Len(Rest) : text[Rest[k]] = "|"} = {block[1], block[2]})
      => telemetry = SubSeq(Rest, block[1] + 1, block[2] - 1)

\* The scan ends: each time around the loop the cursor moves on in the text, or
\* the text becomes shorter behind it (position.rs:370-663).
ScanAdvances ==
  [][phase = "scan" /\ phase' = "scan" =>
       Len(remaining') - cursor' < Len(remaining) - cursor]_vars
=============================================================================
