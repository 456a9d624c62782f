---------------------------- MODULE OutcomeDiff ----------------------------
(***************************************************************************)
(* What examples/fap-diff.rs makes of one packet that both parsers accept: *)
(* which fields it compares, what it counts as a difference and which      *)
(* differences it takes to be intentional.                                 *)
(*                                                                         *)
(* A field that may be missing is a set with at most one element.  Course  *)
(* and gust stand for all numbers, message_ack for all strings compared    *)
(* as they are, the water level for the fields that only frap has.  A      *)
(* string is a sequence of characters; "u" is any that is not ASCII and    *)
(* has two bytes, and every other character here is ASCII.                 *)
(***************************************************************************)
EXTENDS Integers, SequencesExt

CONSTANTS
  Tolerance,     \* the difference between two numbers that is let pass
  PayloadSizes   \* the lengths of inline telemetry: 4, 6, .. 14 in the code

ASSUME OutcomeAssumption == Tolerance \in Nat /\ PayloadSizes \subseteq Nat \ {0}

Character == {"a", "X", ".", " ", "|", "}", "?", "u"}

\* FrapOutcome and FapOutcome: what a parser makes of a packet.
Outcome ==
  [ok : BOOLEAN, packet_type : STRING, position : SUBSET (Int \X Int),
   course : SUBSET Int, gust : SUBSET Int, water_level : SUBSET Int, weather : BOOLEAN,
   message_text : SUBSET Seq(Character), message_id : SUBSET Seq(Character),
   message_ack : SUBSET Seq(Character), comment : SUBSET Seq(Character)]

\* Of a packet that frap refuses there is only the error.
IsFrapOutcome(o) ==
  /\ o \in Outcome
  /\ ~ o.ok => /\ o.position \cup o.course \cup o.gust \cup o.water_level = {}
               /\ o.message_text \cup o.message_id \cup o.message_ack \cup o.comment = {}
               /\ ~ o.weather

Text(option) == IF option = {} THEN <<>> ELSE CHOOSE t \in option : TRUE

\* A weather report with a position counts as a location (fap-diff.rs:893-909).
FrapPacketType(frap) ==
  IF frap.packet_type # "weather" THEN frap.packet_type
  ELSE IF frap.position # {} THEN "location" ELSE "wx"

IsNear(a, b) == a - b \in -Tolerance .. Tolerance

ComparePositions(left, right) ==
  IF left = {} /\ right = {} THEN "same"
  ELSE IF left = {} \/ right = {} THEN "presence"
  ELSE IF \E l \in left, r \in right : IsNear(l[1], r[1]) /\ IsNear(l[2], r[2]) THEN "same"
  ELSE "value"

MismatchKind(frap, fap) ==
  IF fap = {} THEN "frap_only" ELSE IF frap = {} THEN "fap_only" ELSE "value"

\* A row of a report; a reason makes it one of intentional-differences.tsv.
Row(name, kind, reason) == [name |-> name, kind |-> kind, reason |-> reason]
IsIntentional(row) == row.reason # ""

\* The rows that one comparison writes: one or none.
CompareNumber(name, frap, fap) ==
  IF (frap = {} /\ fap = {}) \/ (\E a \in frap, b \in fap : IsNear(a, b)) THEN {}
  ELSE {Row(name, MismatchKind(frap, fap), "")}

CompareString(name, frap, fap) ==
  IF frap = fap THEN {} ELSE {Row(name, MismatchKind(frap, fap), "")}

CompareOrRecord(name, frap, fap, reason) ==
  IF frap = fap \/ reason = "" THEN CompareString(name, frap, fap)
  ELSE {Row(name, MismatchKind(frap, fap), reason)}

\* The '?' of the parser view, one for each byte (fap-diff.rs:814-829).
AsViewed(text) ==
  FlattenSeq([i \in 1 .. Len(text) |-> IF text[i] = "u" THEN <<"?", "?">> ELSE <<text[i]>>])

IsUtf8Restoration(frap, fap) ==
  \E f \in frap, p \in fap : Contains(f, "u") /\ AsViewed(f) = p

IsExtensionPlaceholder(frap, fap) ==
  \E f \in frap, p \in fap : p \in {<<"X", " ">> \o f, <<"X", ".">> \o f}

\* The bars of the last inline telemetry in a comment (fap-diff.rs:840-863).
\* What they enclose has no bar in it: '|' follows '{', the last digit.
InlineBars(text) ==
  {b \in (1 .. Len(text)) \X (1 .. Len(text)) :
     /\ b[1] < b[2] /\ text[b[1]] = "|" /\ text[b[2]] = "|"
     /\ b[2] - b[1] - 1 \in PayloadSizes
     /\ \A k \in b[1] + 1 .. b[2] - 1 : text[k] \notin {"|", " ", "u"}}

WithoutTelemetry(text) ==
  LET last == CHOOSE b \in InlineBars(text) : \A c \in InlineBars(text) : c[2] <= b[2]
  IN  SubSeq(text, 1, last[1] - 1) \o SubSeq(text, last[2] + 1, Len(text))

Trimmed(text) ==
  LET kept == {i \in 1 .. Len(text) : text[i] # " "}
  IN  IF kept = {} THEN <<>> ELSE SubSeq(text, Min(kept), Max(kept))

IsInlineTelemetry(frap, fap) ==
  \E p \in fap : InlineBars(p) # {} /\ Text(frap) = Trimmed(WithoutTelemetry(p))

IsReplyAck(frap, fap) ==
  frap.message_ack # {} \/ (\E id \in fap.message_id : Contains(id, "}"))

ReplyAckReason(frap, fap) == IF IsReplyAck(frap, fap) THEN "aprs_1_1_reply_ack" ELSE ""

MessageTextReason(frap, fap) ==
  IF IsReplyAck(frap, fap) THEN "aprs_1_1_reply_ack"
  ELSE IF IsUtf8Restoration(frap.message_text, fap.message_text) THEN "utf8_free_text" ELSE ""

\* The chain of fap-diff.rs:376-408: the first reason that fits.
CommentReason(frap, fap, hasDel) ==
  IF (frap.water_level # {} \/ IsExtensionPlaceholder(frap.comment, fap.comment))
       /\ frap.comment # fap.comment THEN "frap_weather_extension"
  ELSE IF IsInlineTelemetry(frap.comment, fap.comment) THEN "positioned_weather_inline_telemetry"
  ELSE IF hasDel /\ frap.comment # fap.comment THEN "ascii_parser_view_del"
  ELSE IF IsUtf8Restoration(frap.comment, fap.comment) THEN "utf8_free_text"
  ELSE IF frap.gust # {} /\ fap.gust = {} THEN "preserved_partial_weather_field"
  ELSE ""

\* The comparisons in their order (fap-diff.rs:176-423).
Compared ==
  <<"course", "message_text", "message_id", "message_ack", "gust", "water_level", "comment">>

Compare(name, frap, fap, hasDel) ==
  CASE name \in {"course", "gust"} -> CompareNumber(name, frap[name], fap[name])
    [] name = "water_level" -> CompareNumber(name, frap.water_level, {})
    [] name = "message_ack" -> CompareString(name, frap[name], fap[name])
    [] name = "message_text" ->
         CompareOrRecord(name, frap[name], fap[name], MessageTextReason(frap, fap))
    [] name = "message_id" ->
         CompareOrRecord(name, frap[name], fap[name], ReplyAckReason(frap, fap))
    [] name = "comment" ->
         IF frap.weather /\ fap.weather
         THEN CompareOrRecord(name, frap.comment, fap.comment, CommentReason(frap, fap, hasDel))
         ELSE {}

\* Where two comments part, without the prefix and the suffix they share; the
\* suffix leaves the prefix alone (fap-diff.rs:945-966).
CommentDelta(frap, fap) ==
  LET least  == Min({Len(frap), Len(fap)})
      prefix == Max({k \in 0 .. least : SubSeq(frap, 1, k) = SubSeq(fap, 1, k)})
      End(s, k) == SubSeq(s, Len(s) - k + 1, Len(s))
      suffix == Max({k \in 0 .. least - prefix : End(frap, k) = End(fap, k)})
  IN  <<SubSeq(frap, prefix + 1, Len(frap) - suffix), SubSeq(fap, prefix + 1, Len(fap) - suffix)>>
=============================================================================
