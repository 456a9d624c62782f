------------------------- MODULE PacketParse_proofs -------------------------
(***************************************************************************)
(* Proofs about PacketParse for information fields of every length: a      *)
(* parse never panics, loses nothing that it has decoded, and returns the  *)
(* variant that the identifier calls for.                                  *)
(***************************************************************************)
EXTENDS PacketParse, SequenceTheorems, TLAPS

-----------------------------------------------------------------------------
(* The inductive invariant: which fields the ParseState has at each step.  *)

\* The identifiers whose handlers call parse_position.
Positioned == {"!", "=", "/", "@", "unknown", ";", ")"}

\* What the handler of such an identifier sets besides fields of the position.
OwnOf(id) ==
  CASE id = ";" -> {"object_name", "alive"}
    [] id = ")" -> {"item_name", "alive"}
    [] id = "mic-e" -> {}
    [] OTHER -> {"messaging"}

BaseType(id) ==
  CASE id = ";" -> "Object" [] id = ")" -> "Item" [] OTHER -> "Location"

Untouched == fields = {} /\ packet_type = "None"

Carried ==
  /\ OwnOf(input.identifier) \subseteq fields
  /\ fields \subseteq OwnOf(input.identifier) \cup PositionFields

Begun ==
  /\ input.identifier \in Positioned \cup {"mic-e"}
  /\ packet_type = BaseType(input.identifier)
  /\ Carried

\* What into_packet_ref needs.
Ready ==
  /\ packet_type \in TypesOf(input.identifier)
  /\ Expected(packet_type) \subseteq fields
  /\ HasPosition(packet_type) => {"latitude", "longitude"} \subseteq fields
  /\ fields \subseteq Accessors(packet_type) \cup
                        (IF HasPosition(packet_type) THEN PositionFields ELSE {})

Progress ==
  /\ step = "header" => Untouched
  /\ step \in {"body", "repair"} =>
       Untouched /\ rest = input.length /\ rest > 0
  /\ step = "repair" => input.identifier = "mic-e"
  /\ step = "ultw" =>
       input.identifier \in {"!!", "$ULTW"} /\ fields \subseteq {"messaging"}
  /\ step \in {"position", "weather", "comment"} =>
       Begun /\ input.identifier \in Positioned
  /\ step = "extensions" => Begun
  /\ step \in {"weather", "comment", "extensions", "return"} => Coordinates \subseteq fields
  /\ step = "return" =>
       /\ input.identifier \in Positioned \cup {"mic-e"} /\ Carried
       /\ \/ packet_type = BaseType(input.identifier)
          \/ /\ packet_type = "Weather" /\ "weather" \in fields
             /\ input.identifier \in Positioned
  /\ step = "finish" => Ready

IInv == TypeOK /\ Progress /\ NoPanic /\ NothingDecodedIsLost /\ TypeFollowsIdentifier

-----------------------------------------------------------------------------
(* Type correctness. *)

Steps == Ended \cup {"header", "body", "repair", "ultw", "position", "weather",
                     "comment", "extensions", "return", "finish"}

\* The two lists of comment extensions are sequences of extensions.
LEMMA ExtensionLists ==
  PlainExtensions \in Seq(Extension) /\ MiceExtensions \in Seq(Extension)
<1> DEFINE phg == [some |-> {"phg"}, size |-> {7, 8}]
           range == [some |-> {"radio_range_km"}, size |-> {7}]
           course == [some |-> {"course_deg", "speed_kmh"}, size |-> {7}]
           altitude == [some |-> {"altitude_m"}, size |-> {9}]
           mice_altitude == [some |-> {"altitude_m"}, size |-> {4}]
           hex == [some |-> {"telemetry"}, size |-> {5, 11}]
<1>1. /\ phg \in Extension /\ range \in Extension /\ course \in Extension
      /\ altitude \in Extension /\ mice_altitude \in Extension /\ hex \in Extension
  BY DEF Extension, PositionFields, Coordinates
<1>2. Inline \in Extension /\ Dao \in Extension
  BY DEF Inline, Dao, Extension, PositionFields, Coordinates
<1>3. PlainExtensions = <<phg, range, course, altitude, Inline, Dao>>
  BY DEF PlainExtensions
<1>4. MiceExtensions = <<Inline, mice_altitude, hex, Dao>>
  BY DEF MiceExtensions
<1> HIDE DEF phg, range, course, altitude, mice_altitude, hex
<1>5. <<phg, range, course, altitude, Inline, Dao>> \in Seq(Extension)
  BY <1>1, <1>2
<1>6. <<Inline, mice_altitude, hex, Dao>> \in Seq(Extension)
  BY <1>1, <1>2
<1> QED BY <1>3, <1>4, <1>5, <1>6, Zenon

\* What the input's fields are.
LEMMA InputType ==
  ASSUME TypeOK
  PROVE  /\ input.identifier \in Identifier
         /\ input.length \in Nat
         /\ input.length = 0 \/ input.length >= Prefix(input.identifier)
BY LengthsAssumption DEF TypeOK, Input

\* Fail, Panic, Slice and Decoded keep the types.
LEMMA EndType ==
  ASSUME TypeOK, Fail \/ Panic
  PROVE  TypeOK'
<1>1. mice_mangled' \in BOOLEAN
  BY Zenon DEF TypeOK, Fail, Panic, state
<1> QED BY <1>1 DEF TypeOK, Fail, Panic, state, Ended

\* The same for a step that decodes fields.
LEMMA DecodedType ==
  ASSUME TypeOK, NEW n \in Nat, NEW next \in Steps,
         NEW type \in PacketType \cup {"None"}, NEW some \in SUBSET Field,
         Decoded(n, next, type, some)
  PROVE  TypeOK'
<1>1. CASE n > rest
  BY <1>1, EndType DEF Decoded
<1>2. CASE n <= rest
  <2>1. mice_mangled' \in BOOLEAN
    BY <1>2, Zenon DEF TypeOK, Decoded, Panic, state
  <2>2. rest' = rest - n /\ rest' \in Nat
    BY <1>2 DEF Decoded, TypeOK
  <2> QED BY <1>2, <2>1, <2>2 DEF TypeOK, Decoded, Steps
<1> QED BY <1>1, <1>2 DEF TypeOK

\* The same for a step that only goes on.
LEMMA SliceType ==
  ASSUME TypeOK, NEW n \in Nat, NEW next \in Steps, Slice(n, next)
  PROVE  TypeOK'
<1>1. CASE n > rest
  BY <1>1, EndType DEF Slice
<1>2. CASE n <= rest
  <2>1. mice_mangled' \in BOOLEAN
    BY <1>2, Zenon DEF TypeOK, Slice, Panic, state
  <2>2. rest' = rest - n /\ rest' \in Nat
    BY <1>2 DEF Slice, TypeOK
  <2> QED BY <1>2, <2>1, <2>2 DEF TypeOK, Slice, Steps, state
<1> QED BY <1>1, <1>2 DEF TypeOK

\* An attempt at Mic-E keeps the types (parser.rs:423-579).
LEMMA MiceType == ASSUME TypeOK, NEW repair \in BOOLEAN, ParseMice(repair)
                  PROVE  TypeOK'
<1>1. CASE rest < 1
  BY <1>1, EndType DEF ParseMice
<1>2. CASE ~ (rest < 1)
  <2>1. mice_mangled' \in BOOLEAN
    BY <1>2, Zenon DEF TypeOK, ParseMice
  <2>2. Repaired(repair) \in Int
    BY InputType DEF Repaired, Information
  <2>3. CASE MiceDecodes(repair)
    <3>1. rest' \in Nat
      BY <1>2, <2>2, <2>3 DEF ParseMice, MiceDecodes
    <3>2. fields' \subseteq Field
      BY <1>2, <2>3 DEF ParseMice, TypeOK, Field, PositionFields
    <3> QED BY <1>2, <2>1, <2>3, <3>1, <3>2, ExtensionLists
            DEF ParseMice, TypeOK, PacketType
  <2>4. CASE ~ MiceDecodes(repair)
    BY <1>2, <2>1, <2>4 DEF ParseMice, TypeOK, Ended
  <2> QED BY <2>3, <2>4
<1> QED BY <1>1, <1>2

\* A parse starts with its types (parser.rs:96-105).
LEMMA InitType == Init => TypeOK
<1> SUFFICES ASSUME Init PROVE TypeOK
  OBVIOUS
<1>1. mice_mangled \in BOOLEAN /\ todo \in Seq(Extension)
  BY EmptySeq, Zenon DEF Init
<1> QED BY <1>1 DEF Init, TypeOK, NoReport, Ended

\* The handler of each identifier keeps the types (parser.rs:316-421).
LEMMA DispatchType == TypeOK /\ Dispatch => TypeOK'
<1> SUFFICES ASSUME TypeOK, Dispatch PROVE TypeOK'
  OBVIOUS
<1> USE DEF Field, OwnFields, PositionFields, Coordinates, PacketType, Steps, Ended
<1>0. rest \in Nat /\ packet_type \in PacketType \cup {"None"}
  BY DEF TypeOK
<1>1. CASE UltwLogging \/ Ultw \/ Location
  BY <1>0, <1>1, DecodedType, SliceType DEF UltwLogging, Ultw, Location
<1>2. CASE TimestampedLocation
  BY <1>0, <1>2, DecodedType, EndType DEF TimestampedLocation, Perhaps
<1>3. CASE Message
  BY <1>0, <1>3, DecodedType, EndType DEF Message
<1>4. CASE Object
  BY <1>0, <1>4, DecodedType, EndType DEF Object, Perhaps
<1>5. CASE Item
  BY <1>0, <1>5, DecodedType, EndType DEF Item
<1>6. CASE Status
  BY <1>0, <1>6, DecodedType DEF Status, Perhaps
<1>7. CASE Capabilities \/ Beacon
  BY <1>0, <1>7, DecodedType DEF Capabilities, Beacon
<1>8. CASE Nmea
  <2>1. \A some \in NmeaFields : some \subseteq Field
    <3>1. \A some \in NmeaFields :
            some \subseteq {"altitude_m", "course_deg", "raw_timestamp", "speed_kmh"}
      BY DEF NmeaFields, Perhaps
    <3> QED BY <3>1
  <2>2. \A sum \in Perhaps("nmea_checksum_ok") : sum \subseteq Field
    BY DEF Perhaps
  <2>3. "finish" \in Steps /\ "Location" \in PacketType /\ Coordinates \subseteq Field
    OBVIOUS
  <2>4. CASE Fail
    BY <2>4, EndType
  <2>5. CASE \E some \in NmeaFields, sum \in Perhaps("nmea_checksum_ok") :
               Decoded(rest, "finish", "Location", Coordinates \cup some \cup sum)
    <3>1. PICK more \in SUBSET Field : Decoded(rest, "finish", "Location", more)
      BY <2>1, <2>2, <2>3, <2>5
    <3> QED BY <1>0, <2>3, <3>1, DecodedType
  <2> QED BY <1>8, <2>4, <2>5 DEF Nmea
<1>9. CASE Telemetry \/ Experimental
  BY <1>0, <1>9, DecodedType, EndType DEF Telemetry, Experimental
<1>10. CASE PositionlessWeather
  BY <1>0, <1>10, DecodedType, EndType DEF PositionlessWeather, Perhaps
<1>11. CASE Unknown
  BY <1>0, <1>11, DecodedType, EndType DEF Unknown
<1>12. CASE MiceAsSent
  BY <1>12, MiceType DEF MiceAsSent
<1> QED BY <1>1, <1>2, <1>3, <1>4, <1>5, <1>6, <1>7, <1>8, <1>9, <1>10,
           <1>11, <1>12 DEF Dispatch

\* Positions, their text and their extensions keep the types (position.rs:4-320).
LEMMA PositionType == TypeOK /\ PositionStep => TypeOK'
<1> SUFFICES ASSUME TypeOK, PositionStep PROVE TypeOK'
  OBVIOUS
<1>0. rest \in Nat /\ packet_type \in PacketType \cup {"None"}
  BY DEF TypeOK
<1>1. CASE NoPosition
  BY <1>1, EndType DEF NoPosition
<1>2. CASE Uncompressed
  BY <1>0, <1>2, DecodedType
  DEF Uncompressed, Position, Field, PositionFields, Coordinates, Steps
<1>3. CASE Compressed
  <2>1. PICK some \in CompressedExtras : Position(13, some)
    BY <1>3 DEF Compressed
  <2>2. some \in SUBSET PositionFields
    BY DEF CompressedExtras, PositionFields
  <2> QED BY <1>0, <2>1, <2>2, DecodedType
          DEF Position, Field, PositionFields, Steps
<1>4. CASE WeatherText
  BY <1>0, <1>4, DecodedType
  DEF WeatherText, Perhaps, Field, PositionFields, Steps, PacketType
<1>5. CASE PlainComment
  <2>1. mice_mangled' \in BOOLEAN
    BY <1>5, Zenon DEF PlainComment, TypeOK, state
  <2> QED BY <1>5, <2>1, ExtensionLists DEF PlainComment, TypeOK, state
<1>6. CASE LookFor
  <2>1. mice_mangled' \in BOOLEAN
    BY <1>6, Zenon DEF LookFor, TypeOK
  <2>2. Head(todo) \in Extension /\ todo' \in Seq(Extension)
    BY <1>6 DEF LookFor, TypeOK
  <2>3. Head(todo).some \subseteq PositionFields /\ Head(todo).size \subseteq Nat
    BY <2>2 DEF Extension
  <2>4. rest' \in Nat
    BY <1>6, <2>3 DEF LookFor, TypeOK
  <2>5. fields' \subseteq Field
    BY <1>6, <2>3 DEF LookFor, TypeOK, Field, PositionFields
  <2> QED BY <1>6, <2>1, <2>2, <2>4, <2>5 DEF LookFor, TypeOK
<1>7. CASE KeepComment
  BY <1>0, <1>7, DecodedType, SliceType DEF KeepComment, Field, PositionFields, Steps
<1>8. CASE Return
  <2>1. mice_mangled' \in BOOLEAN
    BY <1>8, Zenon DEF Return, TypeOK
  <2> QED BY <1>8, <2>1 DEF Return, TypeOK, PacketType
<1> QED BY <1>1, <1>2, <1>3, <1>4, <1>5, <1>6, <1>7, <1>8 DEF PositionStep

\* So does moving the ParseState into its variant (types.rs:385-433).
LEMMA ReportType == TypeOK /\ IntoPacketRef => TypeOK'
<1> SUFFICES ASSUME TypeOK, IntoPacketRef PROVE TypeOK'
  OBVIOUS
<1>1. CASE Panic
  BY <1>1, EndType
<1>2. CASE ~ Panic
  <2>1. mice_mangled' \in BOOLEAN
    BY <1>2, Zenon DEF IntoPacketRef, TypeOK, state
  <2>2. report' \in [own : SUBSET Field, position : SUBSET Field]
    BY <1>2 DEF IntoPacketRef, TypeOK
  <2> QED BY <1>2, <2>1, <2>2 DEF IntoPacketRef, TypeOK, Ended, state
<1> QED BY <1>1, <1>2

\* Every step of a parse keeps the types.
LEMMA NextType == TypeOK /\ [Next]_vars => TypeOK'
<1> SUFFICES ASSUME TypeOK, [Next]_vars PROVE TypeOK'
  OBVIOUS
<1>1. CASE ParseHeader
  <2>1. mice_mangled' \in BOOLEAN
    BY <1>1, Zenon DEF ParseHeader, Fail, TypeOK, state
  <2> QED BY <1>1, <2>1, EndType, InputType DEF ParseHeader, TypeOK, state
<1>2. CASE UltwData
  BY <1>2, EndType, DecodedType
  DEF UltwData, TypeOK, Steps, PacketType, Field, PositionFields
<1>3. CASE MiceRepaired
  BY <1>3, MiceType DEF MiceRepaired
<1>4. CASE UNCHANGED vars
  <2>1. mice_mangled' \in BOOLEAN
    BY <1>4, Zenon DEF TypeOK, vars, state
  <2> QED BY <1>4, <2>1 DEF TypeOK, vars, state
<1> QED BY <1>1, <1>2, <1>3, <1>4, DispatchType, PositionType, ReportType
        DEF Next, Parse, Done

\* Every variable of a parse has its type (ParseState, types.rs:294-332).
THEOREM ParseTypeCorrect == Spec => []TypeOK
<1> QED BY InitType, NextType, PTL DEF Spec

-----------------------------------------------------------------------------
(* The parse never panics, loses nothing and keeps to its identifier. *)

\* What holds at each step, and of the packet at the end.
Inductive == Progress /\ NoPanic /\ NothingDecodedIsLost /\ TypeFollowsIdentifier

\* An error ends the parse with nothing left to show.
LEMMA FailKeeps == TypeOK /\ Fail => Inductive'
BY DEF Fail, Inductive, Progress, NoPanic, NothingDecodedIsLost, TypeFollowsIdentifier

\* What IInv says while the handlers run.
LEMMA AtBody ==
  ASSUME TypeOK, Inductive, step = "body"
  PROVE  /\ fields = {} /\ packet_type = "None"
         /\ rest = input.length /\ rest \in Nat /\ rest > 0
         /\ rest >= Prefix(input.identifier)
BY InputType DEF TypeOK, Inductive, Progress, Untouched

\* An attempt at Mic-E sets the whole position or leaves the ParseState as it
\* was, so that the second attempt starts as the first did.
LEMMA MiceProgress ==
  ASSUME TypeOK, NEW repair \in BOOLEAN, ParseMice(repair),
         input.identifier = "mic-e", Untouched, rest = input.length, rest > 0
  PROVE  Inductive'
<1>1. rest \in Nat /\ ~ (rest < 1)
  BY DEF TypeOK
<1>2. CASE MiceDecodes(repair)
  <2>1. /\ step' = "extensions" /\ packet_type' = "Location" /\ input' = input
        /\ Coordinates \subseteq fields' /\ fields' \subseteq PositionFields
    BY <1>1, <1>2 DEF ParseMice, Untouched, PositionFields
  <2>2. Begun'
    BY <2>1 DEF Begun, Carried, BaseType, OwnOf
  <2> QED BY <2>1, <2>2
          DEF Inductive, Progress, NoPanic, NothingDecodedIsLost, TypeFollowsIdentifier
<1>3. CASE ~ MiceDecodes(repair)
  <2>1. /\ step' \in {"repair", "error"} /\ input' = input /\ rest' = rest
        /\ Untouched'
    BY <1>1, <1>3 DEF ParseMice, Untouched
  <2> QED BY <2>1
          DEF Inductive, Progress, NoPanic, NothingDecodedIsLost, TypeFollowsIdentifier
<1> QED BY <1>2, <1>3

\* A handler that has decoded all it can leaves a ParseState ready to be moved.
LEMMA Finishes ==
  ASSUME Ready', step' = "finish"
  PROVE  Inductive'
BY DEF Inductive, Progress, NoPanic, NothingDecodedIsLost, TypeFollowsIdentifier

\* A handler that goes on to the position.
LEMMA GoesOn ==
  ASSUME Begun', step' = "position", input.identifier' \in Positioned
  PROVE  Inductive'
BY DEF Inductive, Progress, NoPanic, NothingDecodedIsLost, TypeFollowsIdentifier

\* The first thing decoded, within the bytes there are.
LEMMA DecodedFirst ==
  ASSUME TypeOK, Inductive, step = "body", NEW n \in 0 .. rest, NEW next, NEW type, NEW some,
         Decoded(n, next, type, some)
  PROVE  step' = next /\ packet_type' = type /\ fields' = some /\ input' = input
<1>1. fields = {} /\ rest \in Nat
  BY AtBody
<1> QED BY <1>1 DEF Decoded

\* Each identifier's handler sets what the next step counts on, within the
\* bytes there are.
LEMMA DispatchProgress ==
  ASSUME TypeOK, Inductive, Dispatch
  PROVE  Inductive'
<1>1. step = "body"
  BY DEF Dispatch, At, UltwLogging, Ultw, Location, TimestampedLocation, Message,
         Object, Item, Status, Capabilities, Nmea, Telemetry, PositionlessWeather,
         Experimental, Beacon, Unknown, MiceAsSent
<1>2. /\ fields = {} /\ packet_type = "None"
      /\ rest = input.length /\ rest \in Nat /\ rest > 0
      /\ rest >= Prefix(input.identifier)
  BY <1>1, AtBody
<1> USE DEF Perhaps, Ready, TypesOf, Expected, HasPosition, Accessors
<1>3. CASE UltwLogging
  <2>1. 2 \in 0 .. rest
    BY <1>2, <1>3 DEF UltwLogging, At, Prefix
  <2>2. step' = "ultw" /\ fields' = {"messaging"} /\ input' = input
    BY <1>1, <1>3, <2>1, DecodedFirst DEF UltwLogging
  <2> QED BY <1>3, <2>2
          DEF UltwLogging, At, Inductive, Progress, NoPanic, NothingDecodedIsLost,
              TypeFollowsIdentifier
<1>4. CASE Ultw
  <2>1. 5 \in 0 .. rest
    BY <1>2, <1>4 DEF Ultw, At, Prefix
  <2>2. step' = "ultw" /\ fields' = {} /\ input' = input
    BY <1>2, <1>4, <2>1 DEF Ultw, Slice, state
  <2> QED BY <1>4, <2>2
          DEF Ultw, At, Inductive, Progress, NoPanic, NothingDecodedIsLost,
              TypeFollowsIdentifier
<1>5. CASE Location
  <2>1. /\ step' = "position" /\ packet_type' = "Location"
        /\ fields' = {"messaging"} /\ input' = input
    BY <1>1, <1>2, <1>5, DecodedFirst DEF Location
  <2> QED BY <1>5, <2>1, GoesOn
          DEF Location, At, Begun, Carried, BaseType, OwnOf, Positioned
<1>6. CASE TimestampedLocation
  <2>1. CASE Fail
    BY <2>1, FailKeeps
  <2>2. CASE ~ Fail
    <3>1. PICK time \in Perhaps("timestamp") :
            8 \in 0 .. rest /\ Decoded(8, "position", "Location",
                                      {"messaging", "raw_timestamp"} \cup time)
      BY <1>2, <1>6, <2>2 DEF TimestampedLocation
    <3>2. /\ step' = "position" /\ packet_type' = "Location"
          /\ fields' = {"messaging", "raw_timestamp"} \cup time /\ input' = input
      BY <1>1, <3>1, DecodedFirst
    <3> QED BY <1>6, <3>2, GoesOn
            DEF TimestampedLocation, At, Begun, Carried, BaseType, OwnOf,
                Positioned, PositionFields
  <2> QED BY <2>1, <2>2
<1>7. CASE Message
  <2>1. CASE Fail
    BY <2>1, FailKeeps
  <2>2. CASE ~ Fail
    <3>1. PICK type \in {"Message", "TelemetryMessage"} :
            11 \in 0 .. rest /\ Decoded(11, "finish", type, {"message"})
      BY <1>2, <1>7, <2>2 DEF Message
    <3>2. /\ step' = "finish" /\ packet_type' = type
          /\ fields' = {"message"} /\ input' = input
      BY <1>1, <3>1, DecodedFirst
    <3> QED BY <1>7, <3>2, Finishes DEF Message, At
  <2> QED BY <2>1, <2>2
<1>8. CASE Object
  <2>1. CASE Fail
    BY <2>1, FailKeeps
  <2>2. CASE ~ Fail
    <3>0. rest >= 31
      BY <1>8, <2>2, Zenon DEF Object
    <3>1. PICK time \in Perhaps("timestamp") :
            Decoded(18, "position", "Object",
                    {"object_name", "alive", "raw_timestamp"} \cup time)
      BY <1>8, <2>2, Zenon DEF Object
    <3>2. /\ step' = "position" /\ packet_type' = "Object" /\ input' = input
          /\ fields' = {"object_name", "alive", "raw_timestamp"} \cup time
      BY <1>1, <1>2, <3>0, <3>1, DecodedFirst
    <3> QED BY <1>8, <3>2, GoesOn
            DEF Object, At, Begun, Carried, BaseType, OwnOf, Positioned, PositionFields
  <2> QED BY <2>1, <2>2
<1>9. CASE Item
  <2>1. CASE Fail
    BY <2>1, FailKeeps
  <2>2. CASE ~ Fail
    <3>1. PICK end \in 1 .. 10 :
            /\ end + 1 \in 0 .. rest
            /\ Decoded(end + 1, "position", "Item", {"item_name", "alive"})
      BY <1>2, <1>9, <2>2 DEF Item
    <3>2. /\ step' = "position" /\ packet_type' = "Item" /\ input' = input
          /\ fields' = {"item_name", "alive"}
      BY <1>1, <3>1, DecodedFirst
    <3> QED BY <1>9, <3>2, GoesOn
            DEF Item, At, Begun, Carried, BaseType, OwnOf, Positioned
  <2> QED BY <2>1, <2>2
<1>10. CASE Status
  <2>1. PICK n \in {1, 8}, some \in {{"status"}, {"status", "raw_timestamp"},
                                   {"status", "raw_timestamp", "timestamp"}} :
          n \in 0 .. rest /\ Decoded(n, "finish", "Status", some)
    BY <1>2, <1>10 DEF Status
  <2>2. /\ step' = "finish" /\ packet_type' = "Status"
        /\ fields' = some /\ input' = input
    BY <1>1, <2>1, DecodedFirst
  <2> QED BY <1>10, <2>2, Finishes DEF Status, At
<1>11. CASE Capabilities
  <2>1. /\ step' = "finish" /\ packet_type' = "Capabilities"
        /\ fields' = {"capabilities"} /\ input' = input
    BY <1>1, <1>2, <1>11, DecodedFirst DEF Capabilities
  <2> QED BY <1>11, <2>1, Finishes DEF Capabilities, At
<1>12. CASE Beacon
  <2>1. step' = "finish" /\ packet_type' = "Beacon" /\ fields' = {} /\ input' = input
    BY <1>1, <1>2, <1>12, DecodedFirst DEF Beacon
  <2> QED BY <1>12, <2>1, Finishes DEF Beacon, At
<1>13. CASE Nmea
  <2>1. CASE Fail
    BY <2>1, FailKeeps
  <2>2. CASE ~ Fail
    <3>1. PICK some \in NmeaFields, sum \in Perhaps("nmea_checksum_ok") :
               Decoded(rest, "finish", "Location", Coordinates \cup some \cup sum)
      BY <1>13, <2>2 DEF Nmea
    <3>2. some \subseteq PositionFields /\ sum \subseteq PositionFields
      BY DEF NmeaFields, PositionFields
    <3>3. /\ step' = "finish" /\ packet_type' = "Location"
          /\ fields' = Coordinates \cup some \cup sum /\ input' = input
      BY <1>1, <1>2, <3>1, DecodedFirst
    <3> QED BY <1>13, <3>2, <3>3, Finishes DEF Nmea, At, PositionFields, Coordinates
  <2> QED BY <2>1, <2>2
<1>14. CASE Telemetry
  <2>1. CASE Fail
    BY <2>1, FailKeeps
  <2>2. CASE ~ Fail
    <3>1. 2 \in 0 .. rest
      BY <1>2, <1>14 DEF Telemetry, At, Prefix
    <3>2. /\ step' = "finish" /\ packet_type' = "Telemetry"
          /\ fields' = {"telemetry"} /\ input' = input
      BY <1>1, <1>14, <2>2, <3>1, DecodedFirst DEF Telemetry
    <3> QED BY <1>14, <3>2, Finishes DEF Telemetry, At
  <2> QED BY <2>1, <2>2
<1>15. CASE PositionlessWeather
  <2>1. CASE Fail
    BY <2>1, FailKeeps
  <2>2. CASE ~ Fail
    <3>0. ~ (rest < 9)
      BY <1>15, <2>2, Zenon DEF PositionlessWeather
    <3>1. PICK text \in Perhaps("comment") :
            Decoded(9, "finish", "Weather", {"weather"} \cup text)
      BY <1>15, <2>2, Zenon DEF PositionlessWeather
    <3>2. /\ step' = "finish" /\ packet_type' = "Weather"
          /\ fields' = {"weather"} \cup text /\ input' = input
      BY <1>1, <1>2, <3>0, <3>1, DecodedFirst
    <3> QED BY <1>15, <3>2, Finishes DEF PositionlessWeather, At
  <2> QED BY <2>1, <2>2
<1>16. CASE Experimental
  BY <1>16, FailKeeps DEF Experimental
<1>17. CASE Unknown
  <2>1. CASE Fail
    BY <2>1, FailKeeps
  <2>2. CASE ~ Fail
    <3>1. PICK index \in 1 .. 39 :
            /\ index + 1 \in 0 .. rest
            /\ Decoded(index + 1, "position", "Location", {"messaging"})
      BY <1>2, <1>17, <2>2 DEF Unknown
    <3>2. /\ step' = "position" /\ packet_type' = "Location" /\ input' = input
          /\ fields' = {"messaging"}
      BY <1>1, <3>1, DecodedFirst
    <3> QED BY <1>17, <3>2, GoesOn
            DEF Unknown, At, Begun, Carried, BaseType, OwnOf, Positioned
  <2> QED BY <2>1, <2>2
<1>18. CASE MiceAsSent
  BY <1>2, <1>18, MiceProgress DEF MiceAsSent, At, Untouched
<1> QED BY <1>3, <1>4, <1>5, <1>6, <1>7, <1>8, <1>9, <1>10, <1>11, <1>12, <1>13,
           <1>14, <1>15, <1>16, <1>17, <1>18 DEF Dispatch

\* The position and the text after it add only fields of the position, and a
\* weather report always adds the weather.
LEMMA PositionProgress ==
  ASSUME TypeOK, Inductive, PositionStep
  PROVE  Inductive'
<1> USE DEF Inductive, Progress, NoPanic, NothingDecodedIsLost, TypeFollowsIdentifier
<1>0. rest \in Nat
  BY DEF TypeOK
<1>1. CASE NoPosition
  BY <1>1, FailKeeps DEF NoPosition
<1>2. CASE Uncompressed
  BY <1>0, <1>2 DEF Uncompressed, Position, Decoded, Begun, Carried, PositionFields
<1>3. CASE Compressed
  <2>1. PICK some \in CompressedExtras : Position(13, some)
    BY <1>3 DEF Compressed
  <2>2. some \subseteq PositionFields
    BY DEF CompressedExtras, PositionFields
  <2> QED BY <1>0, <1>3, <2>1, <2>2
          DEF Compressed, Position, Decoded, Begun, Carried, PositionFields
<1>4. CASE WeatherText
  BY <1>0, <1>4
  DEF WeatherText, Decoded, Perhaps, Begun, Carried, PositionFields
<1>5. CASE PlainComment
  BY <1>5 DEF PlainComment, state, Begun, Carried
<1>6. CASE LookFor
  <2>1. Head(todo) \in Extension
    BY <1>6 DEF LookFor, TypeOK
  <2>2. Head(todo).some \subseteq PositionFields
    BY <2>1 DEF Extension
  <2>3. "speed_kmh" \notin Coordinates /\ "speed_kmh" \notin OwnOf(input.identifier)
    BY DEF Coordinates, OwnOf
  <2>4. "course_deg" \in PositionFields
    BY DEF PositionFields
  <2> QED BY <1>6, <2>2, <2>3, <2>4 DEF LookFor, Begun, Carried
<1>7. CASE KeepComment
  BY <1>0, <1>7
  DEF KeepComment, Slice, Decoded, state, Begun, Carried, PositionFields
<1>8. CASE Return
  <2>1. packet_type' \in TypesOf(input.identifier)
    BY <1>8 DEF Return, TypesOf, BaseType, Positioned
  <2>2. {"latitude", "longitude"} \subseteq fields
    BY <1>8 DEF Return, Coordinates
  <2>3. Expected(packet_type') \subseteq fields
    BY <1>8 DEF Return, Expected, Carried, BaseType, OwnOf, Positioned
  <2>4. HasPosition(packet_type)'
    BY <1>8, <2>2 DEF Return, HasPosition, BaseType
  <2>5. OwnOf(input.identifier) \subseteq Accessors(packet_type')
    BY <1>8 DEF Return, Accessors, BaseType, OwnOf, Positioned
  <2>6. fields' = fields /\ input' = input
    BY <1>8 DEF Return
  <2>7. Carried
    BY <1>8 DEF Return
  <2>8. Ready'
    BY <2>1, <2>2, <2>3, <2>4, <2>5, <2>6, <2>7 DEF Ready, Carried
  <2> QED BY <1>8, <2>8, Finishes DEF Return
<1> QED BY <1>1, <1>2, <1>3, <1>4, <1>5, <1>6, <1>7, <1>8 DEF PositionStep

\* The variant of each type takes exactly what its accessors look for.
LEMMA VariantsMatchAccessors ==
  \A type \in PacketType :
    Expected(type) \cup TakenFirst(type) \cup TakenLast(type) = Accessors(type)
BY DEF PacketType, Expected, TakenFirst, TakenLast, Accessors

\* Moving the ParseState into its variant finds what it expects and leaves
\* nothing behind.
LEMMA ReportProgress ==
  ASSUME TypeOK, Inductive, IntoPacketRef
  PROVE  Inductive'
<1> DEFINE first == fields \cap (Expected(packet_type) \cup TakenFirst(packet_type))
           position == IF HasPosition(packet_type)
                       THEN (fields \ first) \cap PositionFields ELSE {}
           last == (fields \ (first \cup position)) \cap TakenLast(packet_type)
<1>1. Ready
  BY DEF IntoPacketRef, Inductive, Progress
<1>2. packet_type \in PacketType
  BY <1>1 DEF Ready, TypesOf, PacketType
<1>3. ~ Panic /\ step' = "ok" /\ UNCHANGED <<input, state>>
      /\ report' = [own |-> first \cup last, position |-> position]
  BY <1>1, <1>2 DEF Ready, IntoPacketRef, Panic, PacketType
<1>4. fields \subseteq first \cup last \cup position
  BY <1>1, <1>2, VariantsMatchAccessors DEF Ready
<1>5. first \cup last \subseteq Accessors(packet_type)
  BY <1>2, VariantsMatchAccessors
<1>6. NothingDecodedIsLost'
  BY <1>3, <1>4, <1>5 DEF NothingDecodedIsLost, state
<1>7. TypeFollowsIdentifier'
  BY <1>1, <1>3 DEF TypeFollowsIdentifier, Ready, state
<1> QED BY <1>3, <1>6, <1>7 DEF Inductive, Progress, NoPanic

\* A parse starts with an untouched ParseState.
LEMMA InitInductive == Init => Inductive
BY DEF Init, Inductive, Progress, NoPanic, NothingDecodedIsLost,
       TypeFollowsIdentifier, Untouched

\* Every step leaves what the next one counts on.
LEMMA NextInductive == TypeOK /\ Inductive /\ [Next]_vars => Inductive'
<1> SUFFICES ASSUME TypeOK, Inductive, [Next]_vars PROVE Inductive'
  OBVIOUS
<1> USE DEF Inductive, Progress, NoPanic, NothingDecodedIsLost, TypeFollowsIdentifier
<1>1. CASE ParseHeader
  BY <1>1, FailKeeps DEF ParseHeader, state, Untouched
<1>2. CASE UltwData
  <2>1. CASE Fail
    BY <2>1, FailKeeps
  <2>2. CASE ~ Fail
    <3>1. /\ step' = "finish" /\ packet_type' = "Weather" /\ input' = input
          /\ fields' = fields \cup {"weather"}
      BY <1>2, <2>2 DEF UltwData, Decoded, TypeOK
    <3>2. input.identifier \in {"!!", "$ULTW"} /\ fields \subseteq {"messaging"}
      BY <1>2 DEF UltwData
    <3>3. Ready'
      BY <3>1, <3>2 DEF Ready, TypesOf, Expected, HasPosition, Accessors
    <3> QED BY <3>1, <3>3, Finishes
  <2> QED BY <2>1, <2>2
<1>3. CASE MiceRepaired
  BY <1>3, MiceProgress DEF MiceRepaired
<1>4. CASE UNCHANGED vars
  BY <1>4
  DEF vars, state, Untouched, Begun, Carried, Ready, HasPosition
<1> QED BY <1>1, <1>2, <1>3, <1>4, DispatchProgress, PositionProgress, ReportProgress
        DEF Next, Parse, Done

\* What IInv says holds at every step of every parse.
THEOREM ParseInvariance == Spec => []IInv
<1>1. Init => TypeOK /\ Inductive
  BY InitType, InitInductive
<1>2. TypeOK /\ Inductive /\ [Next]_vars => (TypeOK /\ Inductive)'
  BY NextType, NextInductive
<1>3. TypeOK /\ Inductive => IInv
  BY DEF IInv, Inductive
<1> QED BY <1>1, <1>2, <1>3, PTL DEF Spec

\* A parse never panics, whatever the packet: no slice is out of bounds and no
\* expect of into_packet_ref fails (parser.rs:316-421, types.rs:359-433).
THEOREM ParseNeverPanics == Spec => []NoPanic
<1>1. IInv => NoPanic
  BY DEF IInv
<1> QED BY <1>1, ParseInvariance, PTL

\* Everything a parse has decoded can be had from its packet, in one place only
\* (types.rs:385-433 against 449-668).
THEOREM ParseLosesNothing == Spec => []NothingDecodedIsLost
<1>1. IInv => NothingDecodedIsLost
  BY DEF IInv
<1> QED BY <1>1, ParseInvariance, PTL

\* The variant of a packet follows from its identifier (parser.rs:321-420,
\* 1142, 1161).
THEOREM ParseKeepsIdentifier == Spec => []TypeFollowsIdentifier
<1>1. IInv => TypeFollowsIdentifier
  BY DEF IInv
<1> QED BY <1>1, ParseInvariance, PTL
-----------------------------------------------------------------------------
(* The repair of Mic-E packets.                                            *)

Course == {"course_deg", "speed_kmh"}

\* The repair has changed exactly the packets that do not decode as they are,
\* and course and speed are there unless it has.
Settled ==
  /\ mice_mangled = ~ MiceDecodes(FALSE)
  /\ mice_mangled => input.accept_broken_mice
  /\ mice_mangled => fields \cap Course = {}
  /\ ~ mice_mangled => Course \subseteq fields

\* No extension still to be looked for sets course or speed: PlainExtensions
\* does, MiceExtensions does not.
NoCourseToCome == \A i \in DOMAIN todo : todo[i].some \cap Course = {}

\* What holds of a Mic-E packet at each step.
MiceProgressed ==
  /\ step \in {"header", "body"} => mice_mangled = FALSE
  /\ step = "repair" =>
       /\ mice_mangled = FALSE
       /\ ~ MiceDecodes(FALSE) /\ input.accept_broken_mice
  /\ step \in {"extensions", "return", "finish", "ok"} => Settled
  /\ step = "extensions" => NoCourseToCome
  /\ step = "ok" => report.position \cap Course = fields \cap Course

MiceInductive == input.identifier = "mic-e" => MiceProgressed

\* The comment of a Mic-E packet is searched for nothing that sets a course.
LEMMA MiceExtensionsSetNoCourse ==
  \A i \in DOMAIN MiceExtensions : MiceExtensions[i].some \cap Course = {}
<1> DEFINE altitude == [some |-> {"altitude_m"}, size |-> {4}]
           hex == [some |-> {"telemetry"}, size |-> {5, 11}]
<1>1. MiceExtensions = <<Inline, altitude, hex, Dao>>
  BY DEF MiceExtensions
<1>2. /\ Inline.some \cap Course = {} /\ altitude.some \cap Course = {}
      /\ hex.some \cap Course = {} /\ Dao.some \cap Course = {}
  BY DEF Inline, Dao, Course
<1> HIDE DEF altitude, hex
<1>3. DOMAIN <<Inline, altitude, hex, Dao>> = 1 .. 4
  OBVIOUS
<1> QED BY <1>1, <1>2, <1>3

\* An attempt at Mic-E: the first repairs nothing, the second decodes only what
\* it has repaired (parser.rs:423-435, 556-557).
LEMMA MiceAttempt ==
  ASSUME TypeOK, NEW repair \in BOOLEAN, ParseMice(repair), rest \in Nat, rest > 0,
         fields = {}, mice_mangled = FALSE,
         repair => ~ MiceDecodes(FALSE) /\ input.accept_broken_mice
  PROVE  MiceProgressed'
<1>1. ~ (rest < 1) /\ input' = input /\ report' = report
  BY DEF ParseMice
<1>2. MiceDecodes(FALSE)' = MiceDecodes(FALSE)
  BY <1>1 DEF MiceDecodes, Repaired, Mangles, TableByte, Information
<1>3. CASE MiceDecodes(repair)
  <2>1. mice_mangled' = ~ MiceDecodes(FALSE)
    <3>1. CASE repair
      <4>1. Mangles(TRUE)
        BY <1>3, <3>1 DEF MiceDecodes, Repaired, TableByte, Mangles
      <4>2. input.mice.destination # "short"
        BY <1>3 DEF MiceDecodes
      <4>3. mice_mangled' = TRUE
        BY <1>1, <3>1, <4>1, <4>2 DEF ParseMice
      <4> QED BY <3>1, <4>3
    <3>2. CASE ~ repair
      <4>1. repair = FALSE
        BY <3>2
      <4>2. ~ Mangles(FALSE)
        BY DEF Mangles
      <4>3. mice_mangled' = FALSE
        BY <1>1, <4>1, <4>2 DEF ParseMice
      <4> QED BY <1>3, <4>1, <4>3
    <3> QED BY <3>1, <3>2
  <2>2. /\ step' = "extensions" /\ todo' = MiceExtensions
        /\ fields' = fields \cup Coordinates
                 \cup {"position_ambiguity", "mice_message_bits"}
                 \cup (IF mice_mangled' THEN {} ELSE {"speed_kmh", "course_deg"})
    BY <1>1, <1>3 DEF ParseMice
  <2>3. NoCourseToCome'
    BY <2>2, MiceExtensionsSetNoCourse DEF NoCourseToCome
  <2>4. mice_mangled' => fields' \cap Course = {}
    BY <2>2 DEF Course, Coordinates
  <2>5. ~ mice_mangled' => Course \subseteq fields'
    BY <2>2 DEF Course
  <2>6. mice_mangled' => input.accept_broken_mice
    <3>1. CASE repair
      BY <3>1
    <3>2. CASE ~ repair
      BY <1>3, <2>1, <3>2
    <3> QED BY <3>1, <3>2
  <2> QED BY <1>1, <1>2, <2>1, <2>2, <2>3, <2>4, <2>5, <2>6 DEF MiceProgressed, Settled
<1>4. CASE ~ MiceDecodes(repair)
  <2>1. step' = IF ~ repair /\ input.accept_broken_mice THEN "repair" ELSE "error"
    BY <1>1, <1>4 DEF ParseMice
  <2>2. CASE step' = "repair"
    <3>1. repair = FALSE /\ input.accept_broken_mice
      BY <2>1, <2>2
    <3>2. mice_mangled' = FALSE
      BY <1>1, <3>1 DEF ParseMice, Mangles
    <3> QED BY <1>1, <1>2, <1>4, <2>2, <3>1, <3>2 DEF MiceProgressed
  <2>3. CASE step' = "error"
    BY <2>3 DEF MiceProgressed
  <2> QED BY <2>1, <2>2, <2>3
<1> QED BY <1>3, <1>4

\* The choice a step makes of course and speed is settled once: what follows
\* adds neither.
LEMMA SettledStays ==
  ASSUME Settled, input' = input, mice_mangled' = mice_mangled,
         fields' \cap Course = fields \cap Course
  PROVE  Settled'
<1>1. MiceDecodes(FALSE)' = MiceDecodes(FALSE)
  BY DEF MiceDecodes, Repaired, Mangles, TableByte, Information
<1>2. Course \subseteq fields => Course \subseteq fields'
  OBVIOUS
<1> QED BY <1>1, <1>2 DEF Settled

\* Every step of a Mic-E packet, the two attempts included.
LEMMA MiceStep ==
  ASSUME TypeOK, Inductive, MiceInductive, [Next]_vars
  PROVE  MiceInductive'
<1> SUFFICES ASSUME input'.identifier = "mic-e" PROVE MiceProgressed'
  BY DEF MiceInductive
<1>0. input' = input
  BY DEF Next, Parse, Done, ParseHeader, Dispatch, UltwLogging, Ultw, Location,
         TimestampedLocation, Message, Object, Item, Status, Capabilities, Nmea,
         Telemetry, PositionlessWeather, Experimental, Beacon, Unknown, MiceAsSent,
         MiceRepaired, ParseMice, UltwData, PositionStep, NoPosition, Uncompressed,
         Compressed, Position, WeatherText, PlainComment, LookFor, KeepComment, Return,
         IntoPacketRef, Decoded, Slice, Fail, Panic, vars
<1>1. input.identifier = "mic-e" /\ MiceProgressed
  BY <1>0 DEF MiceInductive
<1>2. step \notin {"ultw", "position", "weather", "comment"}
  BY <1>1 DEF Inductive, Progress, Positioned
<1>3. ASSUME Fail \/ Panic PROVE MiceProgressed'
  BY <1>3 DEF Fail, Panic, MiceProgressed
<1>4. CASE ParseHeader
  <2>1. CASE Fail
    BY <1>3, <2>1
  <2>2. CASE ~ Fail
    <3>1. step = "header" /\ step' = "body" /\ mice_mangled' = mice_mangled
      BY <1>4, <2>2 DEF ParseHeader, state
    <3> QED BY <1>1, <3>1 DEF MiceProgressed
  <2> QED BY <2>1, <2>2
<1>5. CASE Dispatch
  <2>1. MiceAsSent
    BY <1>1, <1>5
    DEF Dispatch, At, UltwLogging, Ultw, Location, TimestampedLocation, Message,
        Object, Item, Status, Capabilities, Nmea, Telemetry, PositionlessWeather,
        Experimental, Beacon, Unknown
  <2>2. step = "body" /\ mice_mangled = FALSE
    BY <1>1, <2>1 DEF MiceAsSent, At, MiceProgressed
  <2>3. ParseMice(FALSE)
    BY <2>1 DEF MiceAsSent
  <2>4. fields = {} /\ rest \in Nat /\ rest > 0
    BY <2>2, AtBody
  <2> QED BY <2>2, <2>3, <2>4, MiceAttempt
<1>6. CASE MiceRepaired
  <2>1. step = "repair" /\ ParseMice(TRUE)
    BY <1>6 DEF MiceRepaired
  <2>2. /\ mice_mangled = FALSE
        /\ ~ MiceDecodes(FALSE) /\ input.accept_broken_mice
    BY <1>1, <2>1 DEF MiceProgressed
  <2>3. fields = {} /\ rest \in Nat /\ rest > 0
    BY <2>1, InputType DEF Inductive, Progress, Untouched
  <2> QED BY <2>1, <2>2, <2>3, MiceAttempt
<1>7. CASE UltwData
  BY <1>2, <1>7 DEF UltwData
<1>8. CASE PositionStep
  <2>1. CASE LookFor
    <3>1. step = "extensions" /\ step' = "extensions" /\ todo # <<>> /\ todo' = Tail(todo)
      BY <2>1 DEF LookFor
    <3>2. NoCourseToCome /\ Settled
      BY <1>1, <3>1 DEF MiceProgressed
    <3>3. todo \in Seq(Extension)
      BY DEF TypeOK
    <3>4. NoCourseToCome'
      BY <3>1, <3>2, <3>3, HeadTailProperties DEF NoCourseToCome
    <3>5. Head(todo).some \cap Course = {}
      BY <3>1, <3>2, <3>3 DEF NoCourseToCome
    <3>6. fields' \cap Course = fields \cap Course
      BY <2>1, <3>5 DEF LookFor, Course
    <3>7. mice_mangled' = mice_mangled
      BY <2>1 DEF LookFor
    <3> QED BY <1>0, <3>1, <3>2, <3>4, <3>6, <3>7, SettledStays DEF MiceProgressed
  <2>2. CASE KeepComment
    <3>1. /\ step = "extensions" /\ step' = "return"
          /\ fields' \cap Course = fields \cap Course
          /\ mice_mangled' = mice_mangled
      BY <2>2 DEF KeepComment, Slice, Decoded, state, Course, TypeOK
    <3> QED BY <1>0, <1>1, <3>1, SettledStays DEF MiceProgressed
  <2>3. CASE Return
    <3>1. step = "return" /\ step' = "finish" /\ UNCHANGED <<fields, mice_mangled>>
      BY <2>3 DEF Return
    <3> QED BY <1>0, <1>1, <3>1, SettledStays DEF MiceProgressed
  <2> QED BY <1>2, <1>8, <2>1, <2>2, <2>3
          DEF PositionStep, NoPosition, Uncompressed, Compressed, WeatherText, PlainComment
<1>9. CASE IntoPacketRef
  <2>1. CASE Panic
    BY <1>3, <2>1
  <2>2. CASE ~ Panic
    <3>1. step = "finish" /\ Ready
      BY <1>9 DEF IntoPacketRef, Inductive, Progress
    <3>2. packet_type = "Location"
      BY <1>1, <3>1 DEF Ready, TypesOf
    <3>3. /\ step' = "ok" /\ UNCHANGED <<fields, mice_mangled>>
          /\ report'.position =
               (fields \ (fields \cap (Expected("Location") \cup TakenFirst("Location"))))
                  \cap PositionFields
      BY <1>9, <2>2, <3>2 DEF IntoPacketRef, state, HasPosition
    <3>4. report'.position \cap Course = fields \cap Course
      BY <3>3 DEF Expected, TakenFirst, Course, PositionFields
    <3> QED BY <1>0, <1>1, <3>1, <3>3, <3>4, SettledStays DEF MiceProgressed
  <2> QED BY <2>1, <2>2
<1>10. CASE UNCHANGED vars
  <2>1. UNCHANGED <<step, todo, fields, mice_mangled, report>>
    BY <1>10 DEF vars, state
  <2>2. MiceDecodes(FALSE)' = MiceDecodes(FALSE)
    BY <1>0 DEF MiceDecodes, Repaired, Mangles, TableByte, Information
  <2>3. Settled' = Settled /\ NoCourseToCome' = NoCourseToCome
    BY <1>0, <2>1, <2>2 DEF Settled, NoCourseToCome
  <2> QED BY <1>0, <1>1, <2>1, <2>2, <2>3 DEF MiceProgressed
<1> QED BY <1>4, <1>5, <1>6, <1>7, <1>8, <1>9, <1>10 DEF Next, Parse, Done

\* Only Mic-E packets that do not decode as they are, and only when it was asked
\* for, are repaired; a repaired packet reports no course and no speed, and any
\* other Mic-E packet both (parser.rs:345-351, 423-435, 556-557).
THEOREM ParseRepairsLast == Spec => []RepairIsLastResort
<1>1. Init => TypeOK /\ Inductive /\ MiceInductive
  BY InitType, InitInductive DEF Init, MiceInductive, MiceProgressed
<1>2. TypeOK /\ Inductive /\ MiceInductive /\ [Next]_vars
        => (TypeOK /\ Inductive /\ MiceInductive)'
  BY NextType, NextInductive, MiceStep
<1>3. MiceInductive => RepairIsLastResort
  BY DEF MiceInductive, MiceProgressed, Settled, RepairIsLastResort, Course
<1> QED BY <1>1, <1>2, <1>3, PTL DEF Spec
=============================================================================
