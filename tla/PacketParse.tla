---------------------------- MODULE PacketParse ----------------------------
(***************************************************************************)
(* frap::parse from the raw packet to the PacketBody it returns            *)
(* (src/packet/parser.rs, src/position.rs, src/packet/types.rs).           *)
(*                                                                         *)
(* The parser fills the flat ParseState while it works its way along the   *)
(* information field, and into_packet_ref then moves what it has filled    *)
(* into the variant of PacketBody that the packet type calls for.  The     *)
(* model keeps which Options of the ParseState are Some, the packet type,  *)
(* and how many bytes of text are left; what the bytes say is an arbitrary *)
(* choice at each test the code makes of them.  Only Mic-E reads the same  *)
(* bytes twice, so what they say is part of its input.                     *)
(*                                                                         *)
(* The text is ASCII (view.rs), so a slice panics only out of bounds.      *)
(***************************************************************************)
EXTENDS Integers, Sequences, FiniteSets

CONSTANT BodyLengths   \* lengths of the information fields that are parsed

ASSUME LengthsAssumption == BodyLengths \subseteq Nat

VARIABLES
  input,         \* the packet and the options: never changes
  step,          \* the function that goes on next, or how the parse ended
  rest,          \* bytes of text left to it
  todo,          \* the comment extensions it has still to look for
  fields,        \* the Options of the ParseState that are Some
  packet_type,   \* ParseState::packet_type
  mice_mangled,  \* ParseState::mice_mangled
  report         \* the PacketBody: its own fields and those of its position

state == <<fields, packet_type, mice_mangled>>
vars == <<input, step, rest, todo, state, report>>

\* The data type identifiers that parse_body_inner tells apart.  A Beacon is an
\* unknown identifier under one of the destinations of line 401.
Identifier == {"!!", "!", "=", "/", "@", "mic-e", ":", ";", ")", ">", "<",
               "$ULTW", "$", "T#", "_", "{{", "beacon", "unknown"}

\* Bytes that the identifier itself takes.
Prefix(id) == CASE id \in {"!!", "T#", "{{"} -> 2 [] id = "$ULTW" -> 5 [] OTHER -> 1

\* What Mic-E reads twice: the destination and position bytes are valid, byte
\* 4 is a space, and which of the bytes 6 and 7 can be a symbol table.
Mice == [destination : {"valid", "short", "invalid"}, position : BOOLEAN,
         gap : BOOLEAN, tables : SUBSET {6, 7}]

OtherMice == [destination |-> "valid", position |-> TRUE,
              gap |-> FALSE, tables |-> {}]

Input ==
  {i \in [identifier : Identifier, length : BodyLengths, mice : Mice,
          accept_broken_mice : BOOLEAN] :
     /\ i.length = 0 \/ i.length >= Prefix(i.identifier)
     /\ i.identifier # "mic-e" => i.mice = OtherMice /\ ~ i.accept_broken_mice}

Coordinates == {"format", "latitude", "longitude", "position_resolution_m",
                "symbol_table", "symbol_code"}

PositionFields ==
  Coordinates \cup
  {"position_ambiguity", "speed_kmh", "course_deg", "altitude_m",
   "radio_range_km", "raw_timestamp", "timestamp", "nmea_checksum_ok",
   "dao_datum", "phg", "mice_message_bits", "weather", "telemetry", "comment"}

OwnFields == {"messaging", "object_name", "item_name", "alive", "message",
              "status", "capabilities"}

Field == PositionFields \cup OwnFields

PacketType == {"Location", "Object", "Item", "Message", "TelemetryMessage",
               "Status", "Capabilities", "Beacon", "Weather", "Telemetry"}

NoReport == [own |-> {}, position |-> {}]

Ended == {"ok", "error", "panic"}

Init ==
  /\ input \in Input
  /\ step = "header" /\ rest = 0 /\ todo = <<>>
  /\ fields = {} /\ packet_type = "None" /\ mice_mangled = FALSE
  /\ report = NoReport

-----------------------------------------------------------------------------
(* Steps. *)

Fail == step' = "error" /\ UNCHANGED <<input, rest, todo, state, report>>
Panic == step' = "panic" /\ UNCHANGED <<input, rest, todo, state, report>>

\* Go on to next after the first n bytes of the text: a slice out of bounds panics.
Slice(n, next) ==
  IF n > rest THEN Panic
  ELSE /\ step' = next /\ rest' = rest - n
       /\ UNCHANGED <<input, todo, state, report>>

\* The same, having set the packet type and the fields in some.
Decoded(n, next, type, some) ==
  IF n > rest THEN Panic
  ELSE /\ step' = next /\ rest' = rest - n
       /\ packet_type' = type /\ fields' = fields \cup some
       /\ UNCHANGED <<input, todo, mice_mangled, report>>

\* A field that the text may or may not hold.
Perhaps(field) == {{}, {field}}

At(id) == step = "body" /\ input.identifier = id

\* split_packet and parse_header_fields: a header that is not valid, or an
\* empty information field, ends the parse.
ParseHeader ==
  /\ step = "header"
  /\ \/ Fail
     \/ /\ input.length > 0
        /\ step' = "body" /\ rest' = input.length
        /\ UNCHANGED <<input, todo, state, report>>

-----------------------------------------------------------------------------
(* parse_body_inner, by identifier. *)

UltwLogging == At("!!") /\ Decoded(2, "ultw", packet_type, {"messaging"})

Ultw == At("$ULTW") /\ Slice(5, "ultw")

Location ==
  /\ At("!") \/ At("=")
  /\ Decoded(1, "position", "Location", {"messaging"})

\* A mutant of TimestampedLocation: the identifier is not counted.
TimestampedLocationShort ==
  /\ At("/") \/ At("@")
  /\ IF rest < 7 THEN Fail
     ELSE \E time \in Perhaps("timestamp") :
            Decoded(8, "position", "Location",
                    {"messaging", "raw_timestamp"} \cup time)

\* body[1..8] is the timestamp; one that does not decode is left undecoded.
TimestampedLocation ==
  /\ At("/") \/ At("@")
  /\ IF rest < 8 THEN Fail
     ELSE \E time \in Perhaps("timestamp") :
            Decoded(8, "position", "Location",
                    {"messaging", "raw_timestamp"} \cup time)

Message ==
  /\ At(":")
  /\ \/ Fail
     \/ /\ rest >= 12
        /\ \E type \in {"Message", "TelemetryMessage"} :
             Decoded(11, "finish", type, {"message"})

Object ==
  /\ At(";")
  /\ \/ Fail
     \/ /\ rest >= 31
        /\ \E time \in Perhaps("timestamp") :
             Decoded(18, "position", "Object",
                     {"object_name", "alive", "raw_timestamp"} \cup time)

\* end is the index of the byte that ends the name.
Item ==
  /\ At(")")
  /\ \/ Fail
     \/ \E end \in 1 .. 10 :
          /\ end < rest /\ rest - (end + 1) >= 13
          /\ Decoded(end + 1, "position", "Item", {"item_name", "alive"})

Status ==
  /\ At(">")
  /\ \/ Decoded(1, "finish", "Status", {"status"})
     \/ /\ rest - 1 >= 7
        /\ \E time \in Perhaps("timestamp") :
             Decoded(8, "finish", "Status", {"status", "raw_timestamp"} \cup time)

Capabilities == At("<") /\ Decoded(1, "finish", "Capabilities", {"capabilities"})

\* The fields of the three sentences; the course is there whenever the speed is read.
NmeaFields ==
  {{}} \cup Perhaps("altitude_m")
       \cup {{"course_deg", "raw_timestamp"} \cup speed : speed \in Perhaps("speed_kmh")}

Nmea ==
  /\ At("$")
  /\ \/ Fail
     \/ \E some \in NmeaFields, sum \in Perhaps("nmea_checksum_ok") :
          Decoded(rest, "finish", "Location", Coordinates \cup some \cup sum)

Telemetry ==
  /\ At("T#")
  /\ Fail \/ Decoded(2, "finish", "Telemetry", {"telemetry"})

PositionlessWeather ==
  /\ At("_")
  /\ IF rest < 9 THEN Fail
     ELSE \E text \in Perhaps("comment") :
            Decoded(9, "finish", "Weather", {"weather"} \cup text)

Experimental == At("{{") /\ Fail

Beacon == At("beacon") /\ Decoded(1, "finish", "Beacon", {})

\* A position may begin after a '!' among the first forty bytes.
Unknown ==
  /\ At("unknown")
  /\ \/ Fail
     \/ \E index \in 1 .. 39 :
          /\ index < rest
          /\ Decoded(index + 1, "position", "Location", {"messaging"})

\* parse_ultw: four characters at least, and the first four must be a number.
UltwData ==
  /\ step = "ultw"
  /\ Fail \/ (rest >= 4 /\ Decoded(rest, "finish", "Weather", {"weather"}))

-----------------------------------------------------------------------------
(* parse_position and the text after it. *)

\* What the course, speed and type bytes of a compressed position can say.
CompressedExtras == {{}, {"altitude_m"}, {"course_deg", "speed_kmh"}, {"radio_range_km"}}

\* The symbol '_' makes a weather report of the text that follows.
Position(n, some) ==
  \E next \in {"weather", "comment"} :
    Decoded(n, next, packet_type, Coordinates \cup some)

NoPosition == step = "position" /\ Fail

Uncompressed ==
  /\ step = "position" /\ rest >= 19
  /\ Position(19, {"position_ambiguity"})

Compressed ==
  /\ step = "position" /\ rest >= 13
  /\ \E some \in CompressedExtras : Position(13, some)

WeatherText ==
  /\ step = "weather"
  /\ \E inline \in Perhaps("telemetry"), text \in Perhaps("comment") :
       Decoded(rest, "return", "Weather", {"weather"} \cup inline \cup text)

\* The extensions parse_position_comment looks for, in its order, and those of
\* a Mic-E comment: what each sets and how many bytes it takes.
Extension == [some : SUBSET PositionFields, size : SUBSET Nat]

Inline == [some |-> {"telemetry"}, size |-> {6, 8, 10, 12, 14, 16}]
Dao == [some |-> {"dao_datum"}, size |-> {5}]

PlainExtensions ==
  << [some |-> {"phg"}, size |-> {7, 8}],
     [some |-> {"radio_range_km"}, size |-> {7}],
     [some |-> {"course_deg", "speed_kmh"}, size |-> {7}],
     [some |-> {"altitude_m"}, size |-> {9}],
     Inline, Dao >>

MiceExtensions ==
  << Inline,
     [some |-> {"altitude_m"}, size |-> {4}],
     [some |-> {"telemetry"}, size |-> {5, 11}],
     Dao >>

PlainComment ==
  /\ step = "comment"
  /\ step' = "extensions" /\ todo' = PlainExtensions
  /\ UNCHANGED <<input, rest, state, report>>

\* A mutant of LookFor: an extension is taken from a comment that is too short.
LookForBeyond ==
  /\ step = "extensions" /\ todo # <<>>
  /\ todo' = Tail(todo)
  /\ \/ UNCHANGED <<rest, fields>>
     \/ \E n \in Head(todo).size :
          /\ rest > 0 /\ rest' = rest - n
          /\ fields' = fields \cup Head(todo).some
  /\ UNCHANGED <<input, step, packet_type, mice_mangled, report>>

\* The next extension is there, or it is not.  A speed that is not a number
\* clears the speed that a compressed position has set (line 243).
LookFor ==
  /\ step = "extensions" /\ todo # <<>>
  /\ todo' = Tail(todo)
  /\ \/ UNCHANGED <<rest, fields>>
     \/ \E n \in Head(todo).size :
          /\ n <= rest /\ rest' = rest - n
          /\ \/ fields' = fields \cup Head(todo).some
             \/ "speed_kmh" \in Head(todo).some
                  /\ fields' = (fields \ {"speed_kmh"}) \cup {"course_deg"}
  /\ UNCHANGED <<input, step, packet_type, mice_mangled, report>>

KeepComment ==
  /\ step = "extensions" /\ todo = <<>>
  /\ \/ Slice(0, "return")
     \/ rest > 0 /\ Decoded(rest, "return", packet_type, {"comment"})

\* A mutant of Return: parse_item leaves the type as it finds it.
ReturnFromItem ==
  /\ step = "return"
  /\ packet_type' = IF input.identifier = ";" THEN "Object" ELSE packet_type
  /\ step' = "finish"
  /\ UNCHANGED <<input, rest, todo, fields, mice_mangled, report>>

\* parse_object and parse_item put back the type that a weather report has changed.
Return ==
  /\ step = "return"
  /\ packet_type' = CASE input.identifier = ";" -> "Object"
                      [] input.identifier = ")" -> "Item"
                      [] OTHER -> packet_type
  /\ step' = "finish"
  /\ UNCHANGED <<input, rest, todo, fields, mice_mangled, report>>

-----------------------------------------------------------------------------
(* parse_mice, and its second attempt with repair. *)

\* The information bytes after the identifier, and the repair of a collapsed space.
Information == input.length - 1

Mangles(repair) == repair /\ Information >= 7 /\ input.mice.gap

\* Length and symbol table of the information that is decoded.
Repaired(repair) == IF Mangles(repair) THEN Information + 1 ELSE Information
TableByte(repair) == IF Mangles(repair) THEN 6 ELSE 7

MiceDecodes(repair) ==
  /\ input.mice.destination = "valid" /\ input.mice.position
  /\ Repaired(repair) >= 8 /\ TableByte(repair) \in input.mice.tables

\* A mutant of ParseMice: the repair is tried until it helps.
ParseMiceAgain(repair) ==
  IF rest < 1 THEN Panic
  ELSE
    /\ mice_mangled' = (mice_mangled \/ (Mangles(repair) /\ input.mice.destination # "short"))
    /\ IF MiceDecodes(repair)
       THEN /\ step' = "extensions" /\ todo' = MiceExtensions
            /\ rest' = Repaired(repair) - 8
            /\ packet_type' = "Location"
            /\ fields' = fields \cup Coordinates
                 \cup {"position_ambiguity", "mice_message_bits"}
                 \cup (IF mice_mangled' THEN {} ELSE {"speed_kmh", "course_deg"})
       ELSE /\ step' = IF input.accept_broken_mice THEN "repair" ELSE "error"
            /\ UNCHANGED <<rest, todo, packet_type, fields>>
    /\ UNCHANGED <<input, report>>

ParseMice(repair) ==
  IF rest < 1 THEN Panic
  ELSE
    /\ mice_mangled' = (mice_mangled \/ (Mangles(repair) /\ input.mice.destination # "short"))
    /\ IF MiceDecodes(repair)
       THEN /\ step' = "extensions" /\ todo' = MiceExtensions
            /\ rest' = Repaired(repair) - 8
            /\ packet_type' = "Location"
            /\ fields' = fields \cup Coordinates
                 \cup {"position_ambiguity", "mice_message_bits"}
                 \cup (IF mice_mangled' THEN {} ELSE {"speed_kmh", "course_deg"})
       ELSE /\ step' = IF ~ repair /\ input.accept_broken_mice THEN "repair" ELSE "error"
            /\ UNCHANGED <<rest, todo, packet_type, fields>>
    /\ UNCHANGED <<input, report>>

\* A mutant of MiceAsSent: the repair comes first.
MiceRepairedFirst == At("mic-e") /\ ParseMice(input.accept_broken_mice)

MiceAsSent == At("mic-e") /\ ParseMice(FALSE)
MiceRepaired == step = "repair" /\ ParseMice(TRUE)

-----------------------------------------------------------------------------
(* into_packet_ref. *)

\* What the variant of each type takes out of the ParseState with expect.
Expected(type) ==
  CASE type = "Object" -> {"object_name", "alive"}
    [] type = "Item" -> {"item_name", "alive"}
    [] type \in {"Message", "TelemetryMessage"} -> {"message"}
    [] type = "Status" -> {"status"}
    [] type = "Weather" -> {"weather"}
    [] type = "Telemetry" -> {"telemetry"}
    [] OTHER -> {}

\* What it takes if it is there, before and after it takes the position.
TakenFirst(type) ==
  CASE type = "Location" -> {"messaging"}
    [] type = "Status" -> {"raw_timestamp", "timestamp"}
    [] type = "Capabilities" -> {"capabilities"}
    [] OTHER -> {}

\* A mutant of TakenLast: the comment is left to the position.
TakenLastNoComment(type) == IF type = "Weather" THEN {"messaging", "telemetry"} ELSE {}

TakenLast(type) ==
  IF type = "Weather" THEN {"messaging", "telemetry", "comment"} ELSE {}

HasPosition(type) ==
  type \in {"Location", "Object", "Item"} \/ (type = "Weather" /\ "latitude" \in fields)

IntoPacketRef ==
  LET first == fields \cap (Expected(packet_type) \cup TakenFirst(packet_type))
      position == IF HasPosition(packet_type)
                  THEN (fields \ first) \cap PositionFields ELSE {}
      last == (fields \ (first \cup position)) \cap TakenLast(packet_type)
  IN  /\ step = "finish"
      /\ IF \/ packet_type = "None"
            \/ ~ Expected(packet_type) \subseteq fields
            \/ HasPosition(packet_type) /\ ~ {"latitude", "longitude"} \subseteq fields
         THEN Panic
         ELSE /\ step' = "ok"
              /\ report' = [own |-> first \cup last, position |-> position]
              /\ UNCHANGED <<input, rest, todo, state>>

Done == step \in Ended /\ UNCHANGED vars

-----------------------------------------------------------------------------
Dispatch ==
  \/ UltwLogging \/ Ultw \/ Location \/ TimestampedLocation \/ Message
  \/ Object \/ Item \/ Status \/ Capabilities \/ Nmea \/ Telemetry
  \/ PositionlessWeather \/ Experimental \/ Beacon \/ Unknown
  \/ MiceAsSent

PositionStep ==
  \/ NoPosition \/ Uncompressed \/ Compressed \/ WeatherText
  \/ PlainComment \/ LookFor \/ KeepComment \/ Return

Parse ==
  \/ ParseHeader \/ Dispatch \/ UltwData \/ PositionStep
  \/ MiceRepaired \/ IntoPacketRef

Next == Parse \/ Done

Spec == Init /\ [][Next]_vars

\* parse is one call that runs to its end.
FairSpec == Spec /\ WF_vars(Parse)

-----------------------------------------------------------------------------
(* Properties. *)

\* Every variable has its type (ParseState, types.rs:294-332).
TypeOK ==
  /\ input \in Input
  /\ step \in Ended \cup {"header", "body", "repair", "ultw", "position", "weather",
                         "comment", "extensions", "return", "finish"}
  /\ rest \in Nat /\ todo \in Seq(Extension)
  /\ fields \subseteq Field /\ packet_type \in PacketType \cup {"None"}
  /\ mice_mangled \in BOOLEAN
  /\ report \in [own : SUBSET Field, position : SUBSET Field]

\* Whatever the packet, no slice is out of bounds and every expect of
\* into_packet_ref finds its value: an object that turns out to be a weather
\* report still has its position, and so on (types.rs:359-433).
NoPanic == step # "panic"

\* What the accessors of types.rs:449-668 look for in each variant.
Accessors(type) ==
  CASE type = "Location" -> {"messaging"}
    [] type = "Object" -> {"object_name", "alive"}
    [] type = "Item" -> {"item_name", "alive"}
    [] type \in {"Message", "TelemetryMessage"} -> {"message"}
    [] type = "Status" -> {"status", "raw_timestamp", "timestamp"}
    [] type = "Capabilities" -> {"capabilities"}
    [] type = "Weather" -> {"weather", "messaging", "telemetry", "comment"}
    [] type = "Telemetry" -> {"telemetry"}
    [] OTHER -> {}

\* Whatever route the parser took, everything it decoded can be had from the
\* packet through an accessor, and in one place only: moving the flat ParseState
\* into a variant loses nothing (types.rs:385-433 against 449-668).
NothingDecodedIsLost ==
  step = "ok" =>
    /\ report.position \cup (report.own \cap Accessors(packet_type)) = fields
    /\ report.own \cap report.position = {}

TypesOf(id) ==
  CASE id \in {"!", "=", "/", "@", "unknown"} -> {"Location", "Weather"}
    [] id \in {"mic-e", "$"} -> {"Location"}
    [] id = ":" -> {"Message", "TelemetryMessage"}
    [] id = ";" -> {"Object"}
    [] id = ")" -> {"Item"}
    [] id = ">" -> {"Status"}
    [] id = "<" -> {"Capabilities"}
    [] id \in {"!!", "$ULTW", "_"} -> {"Weather"}
    [] id = "T#" -> {"Telemetry"}
    [] id = "beacon" -> {"Beacon"}
    [] OTHER -> {}

\* The variant of a packet follows from its identifier, however the text that
\* follows is decoded: weather in an object or item leaves it one
\* (parser.rs:1142,1161; position.rs:185,198).
TypeFollowsIdentifier == step = "ok" => packet_type \in TypesOf(input.identifier)

\* The Mic-E repair touches only packets that do not decode as they are, only
\* when it was asked for, and a repaired packet reports no course and no speed;
\* what is not repaired reports both (parser.rs:345-351,423-435,556-557).
RepairIsLastResort ==
  step = "ok" /\ input.identifier = "mic-e" =>
    /\ mice_mangled <=> ~ MiceDecodes(FALSE)
    /\ mice_mangled => input.accept_broken_mice
    /\ IF mice_mangled THEN report.position \cap {"course_deg", "speed_kmh"} = {}
                       ELSE {"course_deg", "speed_kmh"} \subseteq report.position

\* Every parse returns, with a packet or an error: a second attempt at Mic-E is
\* not followed by a third (parser.rs:346-351).
ParseEnds == <>(step \in {"ok", "error"})

\* types.rs:154 says of radio_range_km that it is "Estimated radio range in
\* kilometres from an RNG or PHG extension."
PhgGivesRadioRange ==
  step = "ok" /\ "phg" \in report.position => "radio_range_km" \in report.position
=============================================================================
