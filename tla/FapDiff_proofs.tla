--------------------------- MODULE FapDiff_proofs ---------------------------
(***************************************************************************)
(* Proofs about FapDiff: the summary of a run is that of an earlier run,   *)
(* or it is whole and true, whatever fails and however the two processes   *)
(* and dataset-capture interleave.                                         *)
(***************************************************************************)
EXTENDS FapDiff, FiniteSetTheorems, TLAPS

-----------------------------------------------------------------------------
(* The tally.                                                              *)

IsTally(t) == \A key \in DOMAIN t : t[key] \in Nat

\* The empty tally has counted nothing.
LEMMA NothingCounted ==
  /\ IsTally(EmptyBag)
  /\ \A key : CountOf(key, EmptyBag) = 0
BY SMT DEF IsTally, EmptyBag, SetToBag, CountOf, BagIn, BagToSet

\* A tally counts natural numbers.
LEMMA CountIsNat ==
  ASSUME NEW t, IsTally(t), NEW key
  PROVE  CountOf(key, t) \in Nat
BY SMT DEF IsTally, CountOf, BagIn, BagToSet

\* Counting keys adds one to each of them and leaves the others alone.
LEMMA Counting ==
  ASSUME NEW t, IsTally(t), NEW keys
  PROVE  /\ IsTally(Count(t, keys))
         /\ \A key : CountOf(key, Count(t, keys))
                       = CountOf(key, t) + (IF key \in keys THEN 1 ELSE 0)
         /\ \A key : key \notin keys => CountOf(key, Count(t, keys)) = CountOf(key, t)
<1>1. IsTally(Count(t, keys))
  BY SMT DEF IsTally, Count, SetToBag, BagIn, BagToSet, (+)
<1>2. ASSUME NEW key
      PROVE  CountOf(key, Count(t, keys)) = CountOf(key, t) + (IF key \in keys THEN 1 ELSE 0)
  BY SMT DEF IsTally, Count, CountOf, SetToBag, BagIn, BagToSet, (+)
<1>3. ASSUME NEW key, key \notin keys
      PROVE  CountOf(key, Count(t, keys)) = CountOf(key, t)
  BY <1>2, <1>3, CountIsNat, SMT
<1> QED BY <1>1, <1>2, <1>3

-----------------------------------------------------------------------------
(* Numbers of elements.                                                    *)

\* A subset of an interval is finite.
LEMMA SubsetIsFinite ==
  ASSUME NEW n \in Nat, NEW S, S \subseteq 1 .. n
  PROVE  IsFiniteSet(S) /\ Cardinality(S) \in Nat
<1>1. IsFiniteSet(1 .. n)
  BY FS_Interval, SMT
<1>2. IsFiniteSet(S)
  BY <1>1, FS_Subset
<1> QED BY <1>2, FS_CardinalityType

\* One more place to look at is one more element, or none.
LEMMA OneMore ==
  ASSUME NEW n \in Nat, NEW S, S \subseteq 1 .. n, NEW T,
         T = S \/ T = S \cup {n + 1}
  PROVE  Cardinality(T) = Cardinality(S) + (IF n + 1 \in T THEN 1 ELSE 0)
<1>1. IsFiniteSet(S) /\ Cardinality(S) \in Nat
  BY SubsetIsFinite
<1>2. n + 1 \notin S
  BY SMT
<1>3. CASE T = S
  BY <1>1, <1>2, <1>3, SMT
<1>4. CASE T = S \cup {n + 1}
  <2>1. Cardinality(S \cup {n + 1}) = Cardinality(S) + 1
    BY <1>1, <1>2, FS_AddElement
  <2> QED BY <1>4, <2>1
<1> QED BY <1>3, <1>4

-----------------------------------------------------------------------------
(* One packet.                                                             *)

IsPacket(p) == p.frap.ok \in BOOLEAN /\ p.fap.ok \in BOOLEAN

\* What is known of the packets of a dataset.
LEMMA PacketsAre ==
  ASSUME NEW p \in Packets
  PROVE  /\ IsPacket(p)
         /\ [p.fap EXCEPT !.weather = FALSE].ok = p.fap.ok
<1>1. p.frap \in Outcome /\ p.fap \in Outcome
  BY PacketAssumption DEF PacketAssumption, IsFrapOutcome
<1>2. \A o \in Outcome : o.ok \in BOOLEAN /\ [o EXCEPT !.weather = FALSE].ok = o.ok
  BY DEF Outcome
<1> QED BY <1>1, <1>2 DEF IsPacket

Arms == {"both_pass", "both_fail", "frap_only", "fap_only"}

\* The arm of a packet tells which of the two parsers accept it.
LEMMA ArmIs ==
  ASSUME NEW frap, NEW reference, frap.ok \in BOOLEAN, reference.ok \in BOOLEAN
  PROVE  /\ Arm(frap, reference) \in Arms
         /\ frap.ok <=> Arm(frap, reference) \in {"both_pass", "frap_only"}
         /\ reference.ok <=> Arm(frap, reference) \in {"both_pass", "fap_only"}
<1>1. CASE frap.ok /\ reference.ok
  BY <1>1 DEF Arm, Arms
<1>2. CASE frap.ok /\ ~ reference.ok
  BY <1>2 DEF Arm, Arms
<1>3. CASE ~ frap.ok /\ reference.ok
  BY <1>3 DEF Arm, Arms
<1>4. CASE ~ frap.ok /\ ~ reference.ok
  BY <1>4 DEF Arm, Arms
<1> QED BY <1>1, <1>2, <1>3, <1>4

Kinds == {"frap_only", "fap_only", "value"}

\* A packet is counted once, and not yet for any of its fields.
LEMMA PacketKeysAre ==
  ASSUME NEW frap, NEW reference, NEW keys, keys = PacketKeys(frap, reference)
  PROVE  /\ Counter("total") \notin keys
         /\ \A arm \in Arms : Counter(arm) \in keys <=> Arm(frap, reference) = arm
         /\ \A kind \in Kinds \cup {"intentional"} : \A n : n # "packets" => <<kind, n>> \notin keys
         /\ <<"position_mismatches", "value">> \in keys
              <=> Arm(frap, reference) = "both_pass" /\ Position(frap, reference) = "value"
<1> DEFINE arm == Arm(frap, reference)
           place == Position(frap, reference)
<1>1. \A key : key \in keys <=>
        \/ key = <<arm, "packets">>
        \/ key = <<"non_utf8", "packets">> /\ ~ Current.utf8
        \/ key = <<"position_mismatches", place>> /\ arm = "both_pass" /\ place # "same"
        \/ key = <<"type_mismatches", "packets">> /\ arm = "both_pass"
             /\ FrapPacketType(frap) # reference.packet_type
  BY DEF PacketKeys, Counter
<1>2. arm \in Arms
  BY DEF Arm, Arms
<1> HIDE DEF arm, place
<1> SUFFICES
      /\ Counter("total") \notin keys
      /\ \A a \in Arms : Counter(a) \in keys <=> arm = a
      /\ \A kind \in Kinds \cup {"intentional"} : \A n : n # "packets" => <<kind, n>> \notin keys
      /\ <<"position_mismatches", "value">> \in keys <=> arm = "both_pass" /\ place = "value"
  BY DEF arm, place
<1>3. Counter("total") \notin keys
  BY <1>1, <1>2, SMT DEF Counter, Arms
<1>4. \A a \in Arms : Counter(a) \in keys <=> arm = a
  BY <1>1, <1>2, SMT DEF Counter, Arms
<1>5. \A kind \in Kinds \cup {"intentional"} : \A n : n # "packets" => <<kind, n>> \notin keys
  BY <1>1, <1>2, SMT DEF Kinds, Arms
<1>6. <<"position_mismatches", "value">> \in keys <=> arm = "both_pass" /\ place = "value"
  BY <1>1, <1>2, SMT DEF Arms
<1> QED BY <1>3, <1>4, <1>5, <1>6

-----------------------------------------------------------------------------
(* One field of a packet.                                                  *)

Names ==
  {"course", "message_text", "message_id", "message_ack", "gust", "water_level", "comment"}

\* The fields that are compared have different names.
LEMMA ComparedAre ==
  /\ Len(Compared) = 7
  /\ \A f \in 1 .. 7 : Compared[f] \in Names
  /\ \A f, g \in 1 .. 7 : Compared[f] = Compared[g] => f = g
<1>1. Len(Compared) = 7
  BY DEF Compared
<1>2. /\ Compared[1] = "course" /\ Compared[2] = "message_text" /\ Compared[3] = "message_id"
      /\ Compared[4] = "message_ack" /\ Compared[5] = "gust" /\ Compared[6] = "water_level"
      /\ Compared[7] = "comment"
  BY DEF Compared
<1>3. \A f \in 1 .. 7 : f = 1 \/ f = 2 \/ f = 3 \/ f = 4 \/ f = 5 \/ f = 6 \/ f = 7
  BY SMT
<1>4. \A f \in 1 .. 7 : Compared[f] \in Names
  BY <1>2, <1>3 DEF Names
<1>5. \A f, g \in 1 .. 7 : Compared[f] = Compared[g] => f = g
  BY <1>2, <1>3, SMT
<1> QED BY <1>1, <1>4, <1>5

\* The reasons for a difference, and the rows.
Reasons ==
  {"", "aprs_1_1_reply_ack", "utf8_free_text", "frap_weather_extension",
   "positioned_weather_inline_telemetry", "ascii_parser_view_del",
   "preserved_partial_weather_field"}
AnyRow == [name : Names \cup Report, kind : Kinds \cup {""}, reason : Reasons]

\* There is a row, and it is the only one.
Finds(found, name) ==
  \E kind \in Kinds, reason \in Reasons : found = {Row(name, kind, reason)}

\* One of two values is missing, or both are there.
LEMMA MismatchIs ==
  ASSUME NEW left, NEW right
  PROVE  MismatchKind(left, right) \in Kinds
BY DEF MismatchKind, Kinds

\* Two numbers differ if one is missing or they are not near one another.
LEMMA NumbersDiffer ==
  ASSUME NEW name, NEW left, NEW right
  PROVE  LET differ == /\ left \cup right # {}
                       /\ \A a \in left, b \in right : a - b \notin -Tolerance .. Tolerance
             found == CompareNumber(name, left, right)
         IN  /\ differ => Finds(found, name)
             /\ ~ differ => found = {}
<1> DEFINE none == left = {} /\ right = {}
           near == \E a \in left, b \in right : IsNear(a, b)
<1>1. CompareNumber(name, left, right)
        = IF none \/ near THEN {} ELSE {Row(name, MismatchKind(left, right), "")}
  BY DEF CompareNumber
<1>2. none <=> left \cup right = {}
  OBVIOUS
<1>3. near <=> ~ \A a \in left, b \in right : a - b \notin -Tolerance .. Tolerance
  BY DEF IsNear
<1> HIDE DEF none, near
<1> QED BY <1>1, <1>2, <1>3, MismatchIs DEF Finds, Reasons

\* Two strings differ if they are not the same.
LEMMA StringsDiffer ==
  ASSUME NEW name, NEW left, NEW right
  PROVE  LET found == CompareString(name, left, right)
         IN  /\ left # right => Finds(found, name)
             /\ left = right => found = {}
BY MismatchIs DEF CompareString, Finds, Reasons

\* Whatever the reason for it is.
LEMMA RecordsDiffer ==
  ASSUME NEW name, NEW left, NEW right, NEW reason \in Reasons
  PROVE  LET found == CompareOrRecord(name, left, right, reason)
         IN  /\ left # right => Finds(found, name)
             /\ left = right => found = {}
<1> DEFINE plain == left = right \/ reason = ""
<1>1. CompareOrRecord(name, left, right, reason)
        = IF plain THEN CompareString(name, left, right)
          ELSE {Row(name, MismatchKind(left, right), reason)}
  BY DEF CompareOrRecord
<1>2. left = right => plain
  OBVIOUS
<1> HIDE DEF plain
<1>3. CASE plain
  BY <1>1, <1>3, StringsDiffer
<1>4. CASE ~ plain
  BY <1>1, <1>2, <1>4, MismatchIs DEF Finds
<1> QED BY <1>3, <1>4

\* The comparison of a field finds a difference if and only if there is one.
LEMMA CompareFinds ==
  ASSUME NEW name \in Names, NEW frap, NEW reference, NEW del, frap.ok, reference.ok
  PROVE  LET found == Compare(name, frap, reference, del)
         IN  /\ Disagree(name, frap, reference) => Finds(found, name)
             /\ ~ Disagree(name, frap, reference) => found = {}
<1> DEFINE found == Compare(name, frap, reference, del)
<1> SUFFICES /\ Disagree(name, frap, reference) => Finds(found, name)
             /\ ~ Disagree(name, frap, reference) => found = {}
  OBVIOUS
<1>0. /\ MessageTextReason(frap, reference) \in Reasons
      /\ ReplyAckReason(frap, reference) \in Reasons
      /\ CommentReason(frap, reference, del) \in Reasons
  BY DEF MessageTextReason, ReplyAckReason, CommentReason, Reasons
<1>1. CASE name \in {"course", "gust"}
  <2>1. found = CompareNumber(name, frap[name], reference[name])
    BY <1>1 DEF Compare
  <2>2. Disagree(name, frap, reference)
          <=> /\ frap[name] \cup reference[name] # {}
              /\ \A a \in frap[name], b \in reference[name] :
                   a - b \notin -Tolerance .. Tolerance
    BY <1>1 DEF Disagree
  <2> QED BY <2>1, <2>2, NumbersDiffer
<1>2. CASE name = "water_level"
  <2>1. found = CompareNumber(name, frap.water_level, {})
    BY <1>2 DEF Compare
  <2>2. Disagree(name, frap, reference) <=> frap.water_level # {}
    BY <1>2 DEF Disagree
  <2>3. frap.water_level # {}
          <=> /\ frap.water_level \cup {} # {}
              /\ \A a \in frap.water_level, b \in {} : a - b \notin -Tolerance .. Tolerance
    OBVIOUS
  <2> QED BY <2>1, <2>2, <2>3, NumbersDiffer
<1>3. CASE name = "message_ack"
  <2>1. found = CompareString(name, frap[name], reference[name])
    BY <1>3 DEF Compare
  <2>2. Disagree(name, frap, reference) <=> frap[name] # reference[name]
    BY <1>3 DEF Disagree
  <2> QED BY <2>1, <2>2, StringsDiffer
<1>4. CASE name = "message_text"
  <2>1. found = CompareOrRecord(name, frap[name], reference[name], MessageTextReason(frap, reference))
    BY <1>4 DEF Compare
  <2>2. Disagree(name, frap, reference) <=> frap[name] # reference[name]
    BY <1>4 DEF Disagree
  <2> QED BY <1>0, <2>1, <2>2, RecordsDiffer
<1>5. CASE name = "message_id"
  <2>1. found = CompareOrRecord(name, frap[name], reference[name], ReplyAckReason(frap, reference))
    BY <1>5 DEF Compare
  <2>2. Disagree(name, frap, reference) <=> frap[name] # reference[name]
    BY <1>5 DEF Disagree
  <2> QED BY <1>0, <2>1, <2>2, RecordsDiffer
<1>6. CASE name = "comment"
  <2>1. found = IF frap.weather /\ reference.weather
                THEN CompareOrRecord(name, frap.comment, reference.comment,
                                     CommentReason(frap, reference, del))
                ELSE {}
    BY <1>6 DEF Compare
  <2>2. Disagree(name, frap, reference)
          <=> frap.weather /\ reference.weather /\ frap.comment # reference.comment
    BY <1>6 DEF Disagree
  <2> QED BY <1>0, <2>1, <2>2, RecordsDiffer
<1> QED BY <1>1, <1>2, <1>3, <1>4, <1>5, <1>6 DEF Names

\* The kind under which the row of a field is counted, and the report it goes to.
KindOf(row) == IF IsIntentional(row) THEN "intentional" ELSE row.kind
ReportOf(row) == IF IsIntentional(row) THEN "intentional" ELSE "field"

\* A row counts one difference of its field, of one kind, and no packet.
LEMMA FieldKeysAre ==
  ASSUME NEW name \in Names, NEW kind \in Kinds, NEW row, row.name = name, row.kind = kind,
         NEW frap, NEW reference, NEW keys, keys = FieldKeys(row, frap, reference)
  PROVE  /\ \A a \in Arms \cup {"total"} : Counter(a) \notin keys
         /\ \A k \in Kinds \cup {"intentional"}, n \in Names :
              <<k, n>> \in keys <=> k = KindOf(row) /\ n = name
         /\ <<"position_mismatches", "value">> \notin keys
<1> DEFINE k0 == KindOf(row)
           delta == CommentDelta(Text(frap.comment), Text(reference.comment))
           b == row.name = "comment" /\ row.kind = "value" /\ ~ IsIntentional(row)
<1>1. keys = {<<k0, name>>} \cup (IF b THEN {<<"comment_deltas", delta>>} ELSE {})
  BY DEF FieldKeys, KindOf
<1>2. \A key : key \in keys => key = <<k0, name>> \/ key = <<"comment_deltas", delta>>
  BY <1>1
<1>3. <<k0, name>> \in keys
  BY <1>1
<1>4. k0 \in Kinds \cup {"intentional"}
  BY DEF KindOf
<1> HIDE DEF k0, delta, b
<1>5. \A a \in Arms \cup {"total"} : Counter(a) \notin keys
  BY <1>2, <1>4, SMT DEF Arms, Kinds, Names, Counter
<1>6. \A k \in Kinds \cup {"intentional"}, n \in Names : <<k, n>> \in keys <=> k = k0 /\ n = name
  BY <1>2, <1>3, <1>4, SMT DEF Kinds, Names
<1>7. <<"position_mismatches", "value">> \notin keys
  BY <1>2, <1>4, SMT DEF Kinds, Names
<1> QED BY <1>5, <1>6, <1>7 DEF k0

-----------------------------------------------------------------------------
(* What the counts and the rows must agree with.                           *)

Passing(data, n) == {i \in 1 .. n : data[i].frap.ok}
Accepted(data, n) == {i \in 1 .. n : data[i].fap.ok}
Differing(data, name, n) == {i \in 1 .. n : Disagree(name, data[i].frap, data[i].fap)}

\* The counts t are those of the first n packets, for what the parsers make of them.
PassesAgree(data, n, t) ==
  /\ Cardinality(Passing(data, n)) = CopiesOf("both_pass", t) + CopiesOf("frap_only", t)
  /\ Cardinality(Accepted(data, n)) = CopiesOf("both_pass", t) + CopiesOf("fap_only", t)
  /\ n = CopiesOf("both_pass", t) + CopiesOf("both_fail", t)
           + CopiesOf("frap_only", t) + CopiesOf("fap_only", t)

\* The counts t are those of the first n packets, for one of the fields.
FieldAgrees(data, name, n, t) == Cardinality(Differing(data, name, n)) = Differences(name, t)

RowsIn(s, name, kinds) ==
  {i \in 1 .. Len(s) : s[i][2].name = name /\ s[i][2].kind \in kinds}

\* What has been counted has been written.
FieldRowsAgree(s, t) ==
  \A name \in Names :
    /\ Cardinality(RowsIn(s["intentional"], name, Kinds)) = CountOf(<<"intentional", name>>, t)
    /\ \A kind \in Kinds :
         Cardinality(RowsIn(s["field"], name, {kind})) = CountOf(<<kind, name>>, t)
RowsAgree(s, t) ==
  /\ Len(s["outcome"]) = CopiesOf("frap_only", t) + CopiesOf("fap_only", t)
  /\ Len(s["position"]) = CountOf(<<"position_mismatches", "value">>, t)
  /\ FieldRowsAgree(s, t)

-----------------------------------------------------------------------------
(* The inductive invariant.                                                *)

Stage == {"create", "read", "line", "compare", "extra", "wait", "flush", "summarise",
          "writing", "rename"} \cup Ended
Settled == {"flush", "summarise", "writing", "rename", "done"}

\* The types, and how far the child can have come.
DataInv ==
  /\ dataset \in Seq(Packets) /\ child \in {"parsing", "ending"} \cup ChildEnded
  /\ parsed \in Nat /\ sent \in Nat /\ received \in Nat /\ pc \in Stage /\ index \in 0 .. 7
  /\ parsed <= Len(dataset) /\ sent <= 2 * parsed
  /\ child = "exited" => sent = 2 * parsed
  /\ IsTally(tally)
  /\ rows \in [Report -> Seq(Nat \X AnyRow)]

\* No run that fails leaves a summary, and a summary is put in place when it is whole.
SummaryInv ==
  /\ pc = "rename" => temporary = BuildSummary(tally)
  /\ summary = IF pc = "done" THEN BuildSummary(tally) ELSE Previous

\* Two pieces have been taken for each packet, and perhaps one for the next; more
\* than were sent only when the child has failed.
CursorInv ==
  /\ received = 2 * total
       \/ (pc \in {"line", "extra"} /\ received = 2 * total + 1 /\ received <= sent)
  /\ received > sent => child = "failed"
  /\ total <= Len(dataset) /\ (pc = "line" => total < Len(dataset))

\* The outcome that main compares is that of the packet, unless its line was cut.
OutcomeInv ==
  pc = "compare" =>
    /\ 1 <= total
    /\ \E o \in fap : /\ fap = {o} /\ o.ok = Current.fap.ok
                      /\ o = Current.fap \/ received > sent
    /\ index > 0 => Current.frap.ok /\ Current.fap.ok

\* The child has said all it had to say when main waits for it, and the reports are
\* on the disk before the summary.
EndInv ==
  /\ pc \in {"wait"} \cup Settled => child \in ChildEnded /\ sent <= received
  /\ pc \in Settled => child = "exited"
  /\ pc \in Settled \ {"flush"} => \A r \in Report : stored[r] = Len(rows[r])

ControlInv == CursorInv /\ OutcomeInv /\ EndInv

\* The packets that have been looked at, and those whose field f has been.
Counted == IF pc = "compare" /\ index = 0 THEN total - 1 ELSE total
Seen(f) == IF pc = "compare" /\ index <= f THEN total - 1 ELSE total

\* The tally so far is that of the packets so far.  A line that was cut may hide a
\* difference: then the child has failed, and no summary will come of it.
TallyInv ==
  /\ PassesAgree(dataset, Counted, tally)
  /\ received <= sent => \A f \in 1 .. 7 : FieldAgrees(dataset, Compared[f], Seen(f), tally)
  /\ RowsAgree(rows, tally)

Open == pc \notin {"failed", "killed"}
DiffInv == DataInv /\ SummaryInv /\ (Open => ControlInv /\ TallyInv)

-----------------------------------------------------------------------------
(* What one step does to the counts and the rows.                          *)

\* A packet that is appended is none of the first n.
LEMMA GrowKeeps ==
  ASSUME NEW data \in Seq(Packets), NEW p \in Packets, NEW n \in Int, n <= Len(data)
  PROVE  /\ \A t : PassesAgree(Append(data, p), n, t) <=> PassesAgree(data, n, t)
         /\ \A name, t : FieldAgrees(Append(data, p), name, n, t) <=> FieldAgrees(data, name, n, t)
<1>1. \A i \in 1 .. n : Append(data, p)[i] = data[i]
  BY SMT
<1>2. /\ Passing(Append(data, p), n) = Passing(data, n)
      /\ Accepted(Append(data, p), n) = Accepted(data, n)
      /\ \A name : Differing(Append(data, p), name, n) = Differing(data, name, n)
  BY <1>1 DEF Passing, Accepted, Differing
<1> QED BY <1>2 DEF PassesAgree, FieldAgrees

\* The next packet is counted once, in each of the three numbers that it belongs to.
LEMMA OnePassMore ==
  ASSUME NEW data, NEW n \in Nat, IsPacket(data[n + 1])
  PROVE  /\ Cardinality(Passing(data, n + 1))
              = Cardinality(Passing(data, n)) + (IF data[n + 1].frap.ok THEN 1 ELSE 0)
         /\ Cardinality(Accepted(data, n + 1))
              = Cardinality(Accepted(data, n)) + (IF data[n + 1].fap.ok THEN 1 ELSE 0)
<1>1. /\ Passing(data, n) \subseteq 1 .. n
      /\ \/ Passing(data, n + 1) = Passing(data, n)
         \/ Passing(data, n + 1) = Passing(data, n) \cup {n + 1}
      /\ n + 1 \in Passing(data, n + 1) <=> data[n + 1].frap.ok
  BY SMT DEF Passing, IsPacket
<1>2. /\ Accepted(data, n) \subseteq 1 .. n
      /\ \/ Accepted(data, n + 1) = Accepted(data, n)
         \/ Accepted(data, n + 1) = Accepted(data, n) \cup {n + 1}
      /\ n + 1 \in Accepted(data, n + 1) <=> data[n + 1].fap.ok
  BY SMT DEF Accepted, IsPacket
<1>3. Cardinality(Passing(data, n + 1))
        = Cardinality(Passing(data, n)) + (IF n + 1 \in Passing(data, n + 1) THEN 1 ELSE 0)
  BY <1>1, OneMore
<1>4. Cardinality(Accepted(data, n + 1))
        = Cardinality(Accepted(data, n)) + (IF n + 1 \in Accepted(data, n + 1) THEN 1 ELSE 0)
  BY <1>2, OneMore
<1> QED BY <1>1, <1>2, <1>3, <1>4

\* The next packet has a disagreement on a field, or none.
LEMMA OneDifferenceMore ==
  ASSUME NEW data, NEW n \in Nat, NEW name
  PROVE  Cardinality(Differing(data, name, n + 1))
           = Cardinality(Differing(data, name, n))
               + (IF Disagree(name, data[n + 1].frap, data[n + 1].fap) THEN 1 ELSE 0)
<1> DEFINE Differs(i) == Disagree(name, data[i].frap, data[i].fap)
<1>1. \A k : Differing(data, name, k) = {i \in 1 .. k : Differs(i)}
  BY DEF Differing
<1> HIDE DEF Differs
<1>2. /\ Differing(data, name, n) \subseteq 1 .. n
      /\ \/ Differing(data, name, n + 1) = Differing(data, name, n)
         \/ Differing(data, name, n + 1) = Differing(data, name, n) \cup {n + 1}
      /\ n + 1 \in Differing(data, name, n + 1) <=> Differs(n + 1)
  BY <1>1, SMT
<1>3. Cardinality(Differing(data, name, n + 1))
        = Cardinality(Differing(data, name, n))
            + (IF n + 1 \in Differing(data, name, n + 1) THEN 1 ELSE 0)
  BY <1>2, OneMore
<1> QED BY <1>2, <1>3 DEF Differs

\* Whether a row is one of those of a name and some kinds: 1 or 0.
Matches(row, name, kinds) == IF row.name = name /\ row.kind \in kinds THEN 1 ELSE 0

Written(s, r, k, row, after) == after = [s EXCEPT ![r] = Append(@, <<k, row>>)]

\* A row is written to one report, and to the end of it.
LEMMA RowWritten ==
  ASSUME NEW s \in [Report -> Seq(Nat \X AnyRow)], NEW r \in Report,
         NEW k \in Nat, NEW row \in AnyRow,
         NEW after, Written(s, r, k, row, after)
  PROVE  /\ after \in [Report -> Seq(Nat \X AnyRow)]
         /\ \A q \in Report \ {r} : after[q] = s[q]
         /\ Len(after[r]) = Len(s[r]) + 1
         /\ \A name, kinds :
              Cardinality(RowsIn(after[r], name, kinds))
                = Cardinality(RowsIn(s[r], name, kinds))
                    + Matches(row, name, kinds)
<1> DEFINE old == s[r]
           new == after[r]
           n == Len(old)
<1>0. after = [s EXCEPT ![r] = Append(@, <<k, row>>)]
  BY DEF Written
<1>1. after \in [Report -> Seq(Nat \X AnyRow)] /\ \A q \in Report \ {r} : after[q] = s[q]
  BY <1>0
<1>2. new = Append(old, <<k, row>>) /\ old \in Seq(Nat \X AnyRow)
  BY <1>0
<1>3. n \in Nat /\ Len(new) = n + 1
  BY <1>2
<1>4. new[n + 1] = <<k, row>> /\ \A i \in 1 .. n : new[i] = old[i]
  BY <1>2
<1> HIDE DEF old, new, n
<1>5. ASSUME NEW name, NEW kinds
      PROVE  Cardinality(RowsIn(new, name, kinds))
               = Cardinality(RowsIn(old, name, kinds))
                   + Matches(row, name, kinds)
  <2> DEFINE Is(x) == x[2].name = name /\ x[2].kind \in kinds
  <2>1. /\ RowsIn(new, name, kinds) = {i \in 1 .. n + 1 : Is(new[i])}
        /\ RowsIn(old, name, kinds) = {i \in 1 .. n : Is(old[i])}
    BY <1>3 DEF RowsIn, n
  <2>2. Is(<<k, row>>) <=> row.name = name /\ row.kind \in kinds
    OBVIOUS
  <2> HIDE DEF Is
  <2>3. /\ RowsIn(old, name, kinds) \subseteq 1 .. n
        /\ \/ RowsIn(new, name, kinds) = RowsIn(old, name, kinds)
           \/ RowsIn(new, name, kinds) = RowsIn(old, name, kinds) \cup {n + 1}
        /\ n + 1 \in RowsIn(new, name, kinds) <=> Is(<<k, row>>)
    <3>1. RowsIn(old, name, kinds) \subseteq 1 .. n
      BY <2>1
    <3>2. n + 1 \in RowsIn(new, name, kinds) <=> Is(<<k, row>>)
      <4>1. n + 1 \in 1 .. n + 1
        BY <1>3, SMT
      <4>2. Is(new[n + 1]) <=> Is(<<k, row>>)
        BY <1>4
      <4> QED BY <2>1, <4>1, <4>2
    <3>3. \A i : i \in 1 .. n + 1 <=> i \in 1 .. n \/ i = n + 1
      BY <1>3, SMT
    <3>4. \A i \in 1 .. n : i \in RowsIn(new, name, kinds) <=> i \in RowsIn(old, name, kinds)
      BY <1>4, <2>1, <3>3
    <3>5. RowsIn(new, name, kinds) \subseteq 1 .. n + 1
      BY <2>1
    <3> QED BY <3>1, <3>2, <3>3, <3>4, <3>5
  <2>4. Cardinality(RowsIn(new, name, kinds))
          = Cardinality(RowsIn(old, name, kinds))
              + (IF n + 1 \in RowsIn(new, name, kinds) THEN 1 ELSE 0)
    BY <1>3, <2>3, OneMore
  <2> QED BY <2>2, <2>3, <2>4 DEF Matches
<1> QED BY <1>1, <1>3, <1>5 DEF old, new, n

\* A packet that has been taken is not yet counted for anything else.
LEMMA TotalCounted ==
  ASSUME NEW t, IsTally(t), NEW after, after = Count(t, {Counter("total")})
  PROVE  /\ IsTally(after)
         /\ CopiesOf("total", after) = CopiesOf("total", t) + 1
         /\ \A data, n : PassesAgree(data, n, t) => PassesAgree(data, n, after)
         /\ \A data, n : \A name \in Names :
              FieldAgrees(data, name, n, t) => FieldAgrees(data, name, n, after)
         /\ \A s : RowsAgree(s, t) => RowsAgree(s, after)
<1> DEFINE keys == {Counter("total")}
<1>1. /\ IsTally(after)
      /\ \A key : CountOf(key, after) = CountOf(key, t) + (IF key \in keys THEN 1 ELSE 0)
      /\ \A key : key \notin keys => CountOf(key, after) = CountOf(key, t)
  BY Counting
<1>2. /\ \A arm \in Arms : Counter(arm) \notin keys
      /\ \A kind \in Kinds \cup {"intentional"}, name \in Names : <<kind, name>> \notin keys
      /\ <<"position_mismatches", "value">> \notin keys
  BY SMT DEF Counter, Arms, Kinds, Names
<1>3. Counter("total") \in keys
  OBVIOUS
<1> HIDE DEF keys
<1>4. \A key : CountOf(key, t) \in Nat
  BY CountIsNat
<1>5. CopiesOf("total", after) = CopiesOf("total", t) + 1
  BY <1>1, <1>3 DEF CopiesOf
<1>7. \A arm \in Arms : CopiesOf(arm, after) = CopiesOf(arm, t)
  BY <1>1, <1>2 DEF CopiesOf
<1>8. \A data, n : PassesAgree(data, n, t) => PassesAgree(data, n, after)
  BY <1>7 DEF PassesAgree, Arms
<1>9. \A kind \in Kinds \cup {"intentional"}, name \in Names :
        CountOf(<<kind, name>>, after) = CountOf(<<kind, name>>, t)
  BY <1>1, <1>2
<1>10. \A name \in Names : Differences(name, after) = Differences(name, t)
  BY <1>9 DEF Differences, Kinds
<1>11. \A s : RowsAgree(s, t) => RowsAgree(s, after)
  <2>1. \A s : FieldRowsAgree(s, t) => FieldRowsAgree(s, after)
    BY <1>9 DEF FieldRowsAgree
  <2> QED BY <1>1, <1>2, <1>7, <2>1 DEF RowsAgree, Arms
<1> QED BY <1>1, <1>5, <1>8, <1>10, <1>11 DEF FieldAgrees

\* What is counted of a packet before its fields are looked at.
LEMMA PacketCounted ==
  ASSUME NEW t, IsTally(t), NEW frap, NEW reference, frap.ok \in BOOLEAN, reference.ok \in BOOLEAN,
         NEW after, after = Count(t, PacketKeys(frap, reference))
  PROVE  /\ IsTally(after)
         /\ CopiesOf("total", after) = CopiesOf("total", t)
         /\ \A data : \A n \in Nat :
              /\ PassesAgree(data, n, t)
              /\ data[n + 1].frap = frap /\ data[n + 1].fap.ok = reference.ok
              => PassesAgree(data, n + 1, after)
         /\ \A data, n : \A name \in Names :
              FieldAgrees(data, name, n, t) => FieldAgrees(data, name, n, after)
<1> DEFINE keys == PacketKeys(frap, reference)
           arm == Arm(frap, reference)
<1>1. /\ IsTally(after)
      /\ \A key : CountOf(key, after) = CountOf(key, t) + (IF key \in keys THEN 1 ELSE 0)
      /\ \A key : key \notin keys => CountOf(key, after) = CountOf(key, t)
  BY Counting
<1>2. /\ Counter("total") \notin keys
      /\ \A a \in Arms : Counter(a) \in keys <=> arm = a
      /\ \A kind \in Kinds \cup {"intentional"} : \A n : n # "packets" => <<kind, n>> \notin keys
  BY PacketKeysAre
<1>3. /\ arm \in Arms
      /\ frap.ok <=> arm \in {"both_pass", "frap_only"}
      /\ reference.ok <=> arm \in {"both_pass", "fap_only"}
  BY ArmIs
<1>4. \A key : CountOf(key, t) \in Nat
  BY CountIsNat
<1> HIDE DEF keys, arm
<1>6. CopiesOf("total", after) = CopiesOf("total", t)
  BY <1>1, <1>2 DEF CopiesOf
<1>7. \A a \in Arms : /\ CopiesOf(a, t) \in Nat
                      /\ CopiesOf(a, after) = CopiesOf(a, t) + (IF arm = a THEN 1 ELSE 0)
  BY <1>1, <1>2, <1>4 DEF CopiesOf
<1>8. ASSUME NEW data, NEW n \in Nat, PassesAgree(data, n, t),
             data[n + 1].frap = frap, data[n + 1].fap.ok = reference.ok
      PROVE  PassesAgree(data, n + 1, after)
  <2>1. /\ Cardinality(Passing(data, n + 1))
             = Cardinality(Passing(data, n)) + (IF frap.ok THEN 1 ELSE 0)
        /\ Cardinality(Accepted(data, n + 1))
             = Cardinality(Accepted(data, n)) + (IF reference.ok THEN 1 ELSE 0)
    BY <1>8, OnePassMore DEF IsPacket
  <2> DEFINE C(a) == CopiesOf(a, t)
             D(a) == CopiesOf(a, after)
  <2>2. /\ Cardinality(Passing(data, n)) = C("both_pass") + C("frap_only")
        /\ Cardinality(Accepted(data, n)) = C("both_pass") + C("fap_only")
        /\ n = C("both_pass") + C("both_fail") + C("frap_only") + C("fap_only")
    BY <1>8 DEF PassesAgree
  <2>3. /\ C("both_pass") \in Nat /\ C("both_fail") \in Nat
        /\ C("frap_only") \in Nat /\ C("fap_only") \in Nat
        /\ D("both_pass") = C("both_pass") + (IF arm = "both_pass" THEN 1 ELSE 0)
        /\ D("both_fail") = C("both_fail") + (IF arm = "both_fail" THEN 1 ELSE 0)
        /\ D("frap_only") = C("frap_only") + (IF arm = "frap_only" THEN 1 ELSE 0)
        /\ D("fap_only") = C("fap_only") + (IF arm = "fap_only" THEN 1 ELSE 0)
    BY <1>7 DEF Arms
  <2> HIDE DEF C, D
  <2>4. /\ Cardinality(Passing(data, n + 1)) = D("both_pass") + D("frap_only")
        /\ Cardinality(Accepted(data, n + 1)) = D("both_pass") + D("fap_only")
        /\ n + 1 = D("both_pass") + D("both_fail") + D("frap_only") + D("fap_only")
    BY <1>3, <2>1, <2>2, <2>3, SMT DEF Arms
  <2> QED BY <2>4 DEF PassesAgree, D
<1>9. \A name \in Names : Differences(name, after) = Differences(name, t)
  <2>1. \A name \in Names : name # "packets"
    BY SMT DEF Names
  <2> QED BY <1>1, <1>2, <2>1 DEF Differences, Kinds
<1> QED BY <1>1, <1>6, <1>8, <1>9 DEF FieldAgrees

\* The row of a packet that is not about one of its fields.
PlainRow(r) == Row(r, "", "")

\* And what is written of it.
LEMMA PacketWritten ==
  ASSUME NEW t, IsTally(t), NEW frap, NEW reference, NEW k \in Nat,
         NEW after, after = Count(t, PacketKeys(frap, reference)),
         NEW s \in [Report -> Seq(Nat \X AnyRow)], RowsAgree(s, t), NEW new,
         \/ PacketRows(frap, reference) = {} /\ new = s
         \/ \E r \in PacketRows(frap, reference) :
              Written(s, r, k, PlainRow(r), new)
  PROVE  /\ new \in [Report -> Seq(Nat \X AnyRow)]
         /\ RowsAgree(new, after)
<1> DEFINE keys == PacketKeys(frap, reference)
           arm == Arm(frap, reference)
           apart == arm = "both_pass" /\ Position(frap, reference) = "value"
           lone == arm \in {"frap_only", "fap_only"}
<1>1. /\ \A key : CountOf(key, after) = CountOf(key, t) + (IF key \in keys THEN 1 ELSE 0)
      /\ \A key : key \notin keys => CountOf(key, after) = CountOf(key, t)
  BY Counting
<1>2. /\ \A a \in Arms : Counter(a) \in keys <=> arm = a
      /\ \A kind \in Kinds \cup {"intentional"} : \A n : n # "packets" => <<kind, n>> \notin keys
      /\ <<"position_mismatches", "value">> \in keys <=> apart
  BY PacketKeysAre
<1>3. PacketRows(frap, reference)
        = IF lone THEN {"outcome"} ELSE IF apart THEN {"position"} ELSE {}
  BY DEF PacketRows
<1>4. \A key : CountOf(key, t) \in Nat
  BY CountIsNat
<1>5. lone <=> Counter("frap_only") \in keys \/ Counter("fap_only") \in keys
  BY <1>2 DEF Arms
<1>6. ~ (Counter("frap_only") \in keys /\ Counter("fap_only") \in keys)
  BY <1>2 DEF Arms
<1>7. ~ (lone /\ apart)
  OBVIOUS
<1> HIDE DEF keys, arm, apart, lone
<1>8. /\ CopiesOf("frap_only", after) + CopiesOf("fap_only", after)
           = CopiesOf("frap_only", t) + CopiesOf("fap_only", t) + (IF lone THEN 1 ELSE 0)
      /\ CountOf(<<"position_mismatches", "value">>, after)
           = CountOf(<<"position_mismatches", "value">>, t) + (IF apart THEN 1 ELSE 0)
  BY <1>1, <1>2, <1>4, <1>5, <1>6, SMT DEF CopiesOf
<1>9. \A kind \in Kinds \cup {"intentional"}, name \in Names :
        CountOf(<<kind, name>>, after) = CountOf(<<kind, name>>, t)
  <2>1. \A name \in Names : name # "packets"
    BY SMT DEF Names
  <2> QED BY <1>1, <1>2, <2>1
<1> DEFINE outcomes == CopiesOf("frap_only", t) + CopiesOf("fap_only", t)
           positions == CountOf(<<"position_mismatches", "value">>, t)
<1>10. outcomes \in Nat /\ positions \in Nat
  BY <1>4, SMT DEF CopiesOf
<1>11. ASSUME NEW r \in {"outcome", "position"}, Written(s, r, k, PlainRow(r), new)
       PROVE  /\ new \in [Report -> Seq(Nat \X AnyRow)]
              /\ \A q \in Report \ {r} : new[q] = s[q]
              /\ Len(new[r]) = Len(s[r]) + 1
  <2>1. r \in Report /\ PlainRow(r) \in AnyRow
    BY DEF Report, PlainRow, Row, AnyRow, Reasons
  <2> QED BY <1>11, <2>1, RowWritten
<1>15. ASSUME new["field"] = s["field"], new["intentional"] = s["intentional"]
       PROVE  FieldRowsAgree(new, after)
  <2>1. FieldRowsAgree(s, t)
    BY DEF RowsAgree
  <2> QED BY <1>9, <1>15, <2>1 DEF FieldRowsAgree
<1>12. CASE lone
  <2>1. Written(s, "outcome", k, PlainRow("outcome"), new)
    BY <1>3, <1>12
  <2>2. /\ new \in [Report -> Seq(Nat \X AnyRow)]
        /\ \A q \in Report \ {"outcome"} : new[q] = s[q]
        /\ Len(new["outcome"]) = Len(s["outcome"]) + 1
    BY <1>11, <2>1
  <2>3. /\ new["position"] = s["position"] /\ new["field"] = s["field"]
        /\ new["intentional"] = s["intentional"]
    BY <2>2, SMT DEF Report
  <2>4. Len(s["outcome"]) = outcomes /\ Len(s["position"]) = positions
    BY DEF RowsAgree
  <2>5. ~ apart
    BY <1>7, <1>12
  <2>6. /\ Len(new["outcome"]) = CopiesOf("frap_only", after) + CopiesOf("fap_only", after)
        /\ Len(new["position"]) = CountOf(<<"position_mismatches", "value">>, after)
    BY <1>8, <1>10, <1>12, <2>2, <2>3, <2>4, <2>5
  <2> QED BY <1>15, <2>2, <2>3, <2>6 DEF RowsAgree
<1>13. CASE apart
  <2>1. Written(s, "position", k, PlainRow("position"), new)
    BY <1>3, <1>7, <1>13
  <2>2. /\ new \in [Report -> Seq(Nat \X AnyRow)]
        /\ \A q \in Report \ {"position"} : new[q] = s[q]
        /\ Len(new["position"]) = Len(s["position"]) + 1
    BY <1>11, <2>1
  <2>3. /\ new["outcome"] = s["outcome"] /\ new["field"] = s["field"]
        /\ new["intentional"] = s["intentional"]
    BY <2>2, SMT DEF Report
  <2>4. Len(s["outcome"]) = outcomes /\ Len(s["position"]) = positions
    BY DEF RowsAgree
  <2>5. ~ lone
    BY <1>7, <1>13
  <2>6. /\ Len(new["outcome"]) = CopiesOf("frap_only", after) + CopiesOf("fap_only", after)
        /\ Len(new["position"]) = CountOf(<<"position_mismatches", "value">>, after)
    BY <1>8, <1>10, <1>13, <2>2, <2>3, <2>4, <2>5
  <2> QED BY <1>15, <2>2, <2>3, <2>6 DEF RowsAgree
<1>14. CASE ~ lone /\ ~ apart
  <2>1. new = s
    BY <1>3, <1>14
  <2>2. Len(s["outcome"]) = outcomes /\ Len(s["position"]) = positions
    BY DEF RowsAgree
  <2>3. /\ Len(new["outcome"]) = CopiesOf("frap_only", after) + CopiesOf("fap_only", after)
        /\ Len(new["position"]) = CountOf(<<"position_mismatches", "value">>, after)
    BY <1>8, <1>10, <1>14, <2>1, <2>2
  <2> QED BY <1>15, <2>1, <2>3 DEF RowsAgree
<1> QED BY <1>12, <1>13, <1>14

FoundKeys(found, frap, reference) == UNION {FieldKeys(r, frap, reference) : r \in found}

\* A row is one of a report.
LEMMA RowIs ==
  ASSUME NEW name \in Names, NEW kind \in Kinds, NEW reason \in Reasons,
         NEW row, row = Row(name, kind, reason)
  PROVE  row \in AnyRow /\ row.name = name /\ row.kind = kind
BY DEF Row, AnyRow

\* A field on which the parsers agree counts nothing; one on which they do not is
\* counted once, under its name, and that has a row of the same name and kind.
LEMMA FieldCounted ==
  ASSUME NEW t, IsTally(t), NEW name \in Names, NEW found, NEW frap, NEW reference,
         found = {} \/ Finds(found, name),
         NEW after, after = Count(t, FoundKeys(found, frap, reference))
  PROVE  /\ IsTally(after)
         /\ CopiesOf("total", after) = CopiesOf("total", t)
         /\ \A data, n : PassesAgree(data, n, t) => PassesAgree(data, n, after)
         /\ Differences(name, after) = Differences(name, t) + (IF found = {} THEN 0 ELSE 1)
         /\ \A other \in Names \ {name} : Differences(other, after) = Differences(other, t)
         /\ \A a \in Arms : CopiesOf(a, after) = CopiesOf(a, t)
         /\ CountOf(<<"position_mismatches", "value">>, after)
              = CountOf(<<"position_mismatches", "value">>, t)
         /\ \A k \in Kinds \cup {"intentional"}, n \in Names :
              CountOf(<<k, n>>, after)
                = CountOf(<<k, n>>, t)
                    + (IF n = name /\ \E r \in found : k = KindOf(r) THEN 1 ELSE 0)
<1> DEFINE keys == FoundKeys(found, frap, reference)
<1>1. /\ IsTally(after)
      /\ \A key : CountOf(key, after) = CountOf(key, t) + (IF key \in keys THEN 1 ELSE 0)
      /\ \A key : key \notin keys => CountOf(key, after) = CountOf(key, t)
  BY Counting
<1>2. \A key : CountOf(key, t) \in Nat
  BY CountIsNat
<1>3. /\ \A a \in Arms \cup {"total"} : Counter(a) \notin keys
      /\ \A k \in Kinds \cup {"intentional"}, n \in Names :
           <<k, n>> \in keys <=> n = name /\ \E r \in found : k = KindOf(r)
      /\ <<"position_mismatches", "value">> \notin keys
  <2>1. CASE found = {}
    <3>1. keys = {}
      BY <2>1 DEF FoundKeys
    <3> QED BY <2>1, <3>1
  <2>2. CASE Finds(found, name)
    <3>1. PICK kind \in Kinds, reason \in Reasons : found = {Row(name, kind, reason)}
      BY <2>2 DEF Finds
    <3> DEFINE row == Row(name, kind, reason)
    <3>2. row.name = name /\ row.kind = kind
      BY RowIs
    <3>3. keys = FieldKeys(row, frap, reference)
      BY <3>1 DEF FoundKeys
    <3>4. found = {row}
      BY <3>1
    <3> HIDE DEF row, keys
    <3>5. /\ \A a \in Arms \cup {"total"} : Counter(a) \notin keys
          /\ \A k \in Kinds \cup {"intentional"}, n \in Names :
               <<k, n>> \in keys <=> k = KindOf(row) /\ n = name
          /\ <<"position_mismatches", "value">> \notin keys
      BY <3>2, <3>3, FieldKeysAre
    <3> QED BY <3>4, <3>5
  <2> QED BY <2>1, <2>2
<1>4. \A k \in Kinds \cup {"intentional"}, n \in Names :
        CountOf(<<k, n>>, after)
          = CountOf(<<k, n>>, t) + (IF n = name /\ \E r \in found : k = KindOf(r) THEN 1 ELSE 0)
  BY <1>1, <1>3
<1>5. \A a \in Arms \cup {"total"} : CopiesOf(a, after) = CopiesOf(a, t)
  BY <1>1, <1>3 DEF CopiesOf
<1>6. \A data, n : PassesAgree(data, n, t) => PassesAgree(data, n, after)
  BY <1>5 DEF PassesAgree, Arms
<1>7. \A other \in Names \ {name} : Differences(other, after) = Differences(other, t)
  <2>1. \A k \in Kinds \cup {"intentional"}, n \in Names \ {name} :
          CountOf(<<k, n>>, after) = CountOf(<<k, n>>, t)
    BY <1>1, <1>3
  <2> QED BY <2>1 DEF Differences, Kinds
<1>8. Differences(name, after) = Differences(name, t) + (IF found = {} THEN 0 ELSE 1)
  <2> DEFINE C(k) == CountOf(<<k, name>>, t)
             D(k) == CountOf(<<k, name>>, after)
  <2>1. /\ Differences(name, t) = C("frap_only") + C("fap_only") + C("value") + C("intentional")
        /\ Differences(name, after) = D("frap_only") + D("fap_only") + D("value") + D("intentional")
    BY DEF Differences
  <2>2. \A k \in Kinds \cup {"intentional"} :
          C(k) \in Nat /\ D(k) = C(k) + (IF \E r \in found : k = KindOf(r) THEN 1 ELSE 0)
    BY <1>2, <1>4
  <2> HIDE DEF C, D
  <2>3. CASE found = {}
    BY <2>1, <2>2, <2>3, SMT DEF Kinds
  <2>4. CASE Finds(found, name)
    <3>1. PICK kind \in Kinds, reason \in Reasons : found = {Row(name, kind, reason)}
      BY <2>4 DEF Finds
    <3>2. PICK row : found = {row} /\ KindOf(row) \in Kinds \cup {"intentional"}
      BY <3>1, RowIs DEF KindOf
    <3> HIDE <2>4, <3>1
    <3>3. \A k : (\E r \in found : k = KindOf(r)) <=> k = KindOf(row)
      BY <3>2
    <3>4. \A k \in Kinds \cup {"intentional"} :
            C(k) \in Nat /\ D(k) = C(k) + (IF k = KindOf(row) THEN 1 ELSE 0)
      BY <2>2, <3>3
    <3>5. found # {}
      BY <3>2
    <3> QED BY <2>1, <3>2, <3>4, <3>5, SMT DEF Kinds
  <2> QED BY <2>3, <2>4
<1> QED BY <1>1, <1>3, <1>4, <1>5, <1>6, <1>7, <1>8

Recorded(s, found, name, k, new) ==
  \/ found = {} /\ new = s
  \/ Finds(found, name) /\ \E r \in found : Written(s, ReportOf(r), k, r, new)

\* And what is written of it.
LEMMA FieldWritten ==
  ASSUME NEW t, IsTally(t), NEW name \in Names, NEW found, NEW frap, NEW reference, NEW k \in Nat,
         NEW after, after = Count(t, FoundKeys(found, frap, reference)),
         NEW s \in [Report -> Seq(Nat \X AnyRow)], RowsAgree(s, t), NEW new,
         Recorded(s, found, name, k, new)
  PROVE  /\ new \in [Report -> Seq(Nat \X AnyRow)]
         /\ RowsAgree(new, after)
<1>0. found = {} \/ Finds(found, name)
  BY DEF Recorded
<1>1. /\ \A a \in Arms : CopiesOf(a, after) = CopiesOf(a, t)
      /\ CountOf(<<"position_mismatches", "value">>, after)
           = CountOf(<<"position_mismatches", "value">>, t)
      /\ \A kind \in Kinds \cup {"intentional"}, n \in Names :
           CountOf(<<kind, n>>, after)
             = CountOf(<<kind, n>>, t)
                 + (IF n = name /\ \E r \in found : kind = KindOf(r) THEN 1 ELSE 0)
  BY <1>0, FieldCounted
<1>2. \A kind, n : CountOf(<<kind, n>>, t) \in Nat
  BY CountIsNat
<1>3. CASE found = {} /\ new = s
  <2>1. \A kind \in Kinds \cup {"intentional"}, n \in Names :
          CountOf(<<kind, n>>, after) = CountOf(<<kind, n>>, t)
    <3>1. ~ \E r \in found : TRUE
      BY <1>3
    <3>2. \A kind \in Kinds \cup {"intentional"}, n \in Names :
            CountOf(<<kind, n>>, after) = CountOf(<<kind, n>>, t) + 0
      BY <1>1, <3>1
    <3>3. ASSUME NEW kind \in Kinds \cup {"intentional"}, NEW n \in Names
          PROVE  CountOf(<<kind, n>>, after) = CountOf(<<kind, n>>, t)
      <4>1. CountOf(<<kind, n>>, t) \in Nat /\ CountOf(<<kind, n>>, after) = CountOf(<<kind, n>>, t) + 0
        BY <1>2, <3>2
      <4> QED BY <4>1, SMT
    <3> QED BY <3>3
  <2>2. FieldRowsAgree(s, after)
    BY <2>1 DEF RowsAgree, FieldRowsAgree
  <2> QED BY <1>1, <1>3, <2>2 DEF RowsAgree, Arms
<1>4. CASE /\ Finds(found, name)
           /\ \E r \in found : Written(s, ReportOf(r), k, r, new)
  <2>1. PICK kind \in Kinds, reason \in Reasons : found = {Row(name, kind, reason)}
    BY <1>4 DEF Finds
  <2>2. PICK row : found = {row} /\ row \in AnyRow /\ row.name = name /\ row.kind = kind
    BY <2>1, RowIs
  <2> HIDE <2>1
  <2>3. Written(s, ReportOf(row), k, row, new)
    BY <1>4, <2>2
  <2>4. ReportOf(row) \in Report
    BY DEF ReportOf, Report
  <2> DEFINE report == ReportOf(row)
  <2>5. /\ new \in [Report -> Seq(Nat \X AnyRow)]
        /\ \A q \in Report \ {report} : new[q] = s[q]
        /\ \A n, kinds :
              Cardinality(RowsIn(new[report], n, kinds))
                = Cardinality(RowsIn(s[report], n, kinds))
                    + (IF name = n /\ kind \in kinds THEN 1 ELSE 0)
    <3>0. report \in Report /\ row \in AnyRow /\ Written(s, report, k, row, new)
      BY <2>2, <2>3, <2>4
    <3> HIDE DEF report
    <3>1. /\ new \in [Report -> Seq(Nat \X AnyRow)]
          /\ \A q \in Report \ {report} : new[q] = s[q]
          /\ \A n, kinds :
                Cardinality(RowsIn(new[report], n, kinds))
                  = Cardinality(RowsIn(s[report], n, kinds))
                      + Matches(row, n, kinds)
      BY <3>0, RowWritten
    <3> QED BY <2>2, <3>1 DEF Matches
  <2>6. /\ IsIntentional(row) => report = "intentional" /\ KindOf(row) = "intentional"
        /\ ~ IsIntentional(row) => report = "field" /\ KindOf(row) = kind
    BY <2>2 DEF ReportOf, KindOf
  <2> HIDE DEF report
  <2>7. new["outcome"] = s["outcome"] /\ new["position"] = s["position"]
    BY <2>5, <2>6, SMT DEF Report
  <2>8. \A c \in Kinds \cup {"intentional"}, n \in Names :
          CountOf(<<c, n>>, after)
            = CountOf(<<c, n>>, t) + (IF n = name /\ c = KindOf(row) THEN 1 ELSE 0)
    BY <1>1, <2>2
  <2>9. ASSUME NEW n \in Names
        PROVE  /\ Cardinality(RowsIn(s["intentional"], n, Kinds)) = CountOf(<<"intentional", n>>, t)
               /\ \A c \in Kinds :
                    Cardinality(RowsIn(s["field"], n, {c})) = CountOf(<<c, n>>, t)
    BY DEF RowsAgree, FieldRowsAgree
  <2>10. ASSUME IsIntentional(row) PROVE FieldRowsAgree(new, after)
    <3>1. new["field"] = s["field"]
      BY <2>5, <2>6, <2>10, SMT DEF Report
    <3>2. ASSUME NEW n \in Names
          PROVE  /\ Cardinality(RowsIn(new["intentional"], n, Kinds)) = CountOf(<<"intentional", n>>, after)
                 /\ \A c \in Kinds :
                      Cardinality(RowsIn(new["field"], n, {c})) = CountOf(<<c, n>>, after)
      <4>1. Cardinality(RowsIn(new["intentional"], n, Kinds))
              = CountOf(<<"intentional", n>>, t) + (IF name = n THEN 1 ELSE 0)
        BY <2>5, <2>6, <2>9, <2>10
      <4>2. \A c \in Kinds : c # "intentional"
        BY SMT DEF Kinds
      <4>3. \A c \in Kinds : CountOf(<<c, n>>, after) = CountOf(<<c, n>>, t)
        BY <1>2, <2>6, <2>8, <2>10, <4>2, SMT
      <4>4. CountOf(<<"intentional", n>>, after)
              = CountOf(<<"intentional", n>>, t) + (IF name = n THEN 1 ELSE 0)
        BY <2>6, <2>8, <2>10
      <4> QED BY <2>9, <3>1, <4>1, <4>3, <4>4
    <3> QED BY <3>2 DEF FieldRowsAgree
  <2>11. ASSUME ~ IsIntentional(row) PROVE FieldRowsAgree(new, after)
    <3>1. new["intentional"] = s["intentional"]
      BY <2>5, <2>6, <2>11, SMT DEF Report
    <3>2. ASSUME NEW n \in Names
          PROVE  /\ Cardinality(RowsIn(new["intentional"], n, Kinds)) = CountOf(<<"intentional", n>>, after)
                 /\ \A c \in Kinds :
                      Cardinality(RowsIn(new["field"], n, {c})) = CountOf(<<c, n>>, after)
      <4>1. kind # "intentional"
        BY SMT DEF Kinds
      <4>2. CountOf(<<"intentional", n>>, after) = CountOf(<<"intentional", n>>, t)
        <5>1. CountOf(<<"intentional", n>>, after) = CountOf(<<"intentional", n>>, t) + 0
          BY <2>6, <2>8, <2>11, <4>1
        <5> QED BY <1>2, <5>1, SMT
      <4>3. ASSUME NEW c \in Kinds
            PROVE  Cardinality(RowsIn(new["field"], n, {c})) = CountOf(<<c, n>>, after)
        <5>1. Cardinality(RowsIn(new["field"], n, {c}))
                = CountOf(<<c, n>>, t) + (IF name = n /\ kind \in {c} THEN 1 ELSE 0)
          <6>1. report = "field"
            BY <2>6, <2>11
          <6>2. Cardinality(RowsIn(new["field"], n, {c}))
                  = Cardinality(RowsIn(s["field"], n, {c})) + (IF name = n /\ kind \in {c} THEN 1 ELSE 0)
            BY <2>5, <6>1
          <6> QED BY <2>9, <6>2
        <5>2. CountOf(<<c, n>>, after)
                = CountOf(<<c, n>>, t) + (IF n = name /\ c = kind THEN 1 ELSE 0)
          BY <2>6, <2>8, <2>11
        <5>3. (name = n /\ kind \in {c}) <=> (n = name /\ c = kind)
          OBVIOUS
        <5> QED BY <5>1, <5>2, <5>3
      <4> QED BY <2>9, <3>1, <4>2, <4>3
    <3> QED BY <3>2 DEF FieldRowsAgree
  <2>12. FieldRowsAgree(new, after)
    BY <2>10, <2>11
  <2>13. CopiesOf("frap_only", after) = CopiesOf("frap_only", t)
         /\ CopiesOf("fap_only", after) = CopiesOf("fap_only", t)
    BY <1>1 DEF Arms
  <2> QED BY <1>1, <2>5, <2>7, <2>12, <2>13 DEF RowsAgree
<1> QED BY <1>3, <1>4 DEF Recorded

-----------------------------------------------------------------------------
(* The invariant holds at first, and every step keeps it.                  *)

\* Before the first packet there is nothing to agree with.
LEMMA NothingSeen ==
  ASSUME NEW data
  PROVE  /\ PassesAgree(data, 0, EmptyBag)
         /\ \A name \in Names : FieldAgrees(data, name, 0, EmptyBag)
         /\ RowsAgree([r \in Report |-> <<>>], EmptyBag)
<1>1. \A key : CountOf(key, EmptyBag) = 0
  BY NothingCounted
<1>2. /\ Passing(data, 0) = {} /\ Accepted(data, 0) = {}
      /\ \A name : Differing(data, name, 0) = {}
  BY SMT DEF Passing, Accepted, Differing
<1>3. Cardinality({}) = 0
  BY FS_EmptySet
<1>4. PassesAgree(data, 0, EmptyBag)
  BY <1>1, <1>2, <1>3, SMT DEF PassesAgree, CopiesOf
<1>5. \A name \in Names : FieldAgrees(data, name, 0, EmptyBag)
  BY <1>1, <1>2, <1>3, SMT DEF FieldAgrees, Differences
<1>6. \A name, kinds : RowsIn(<<>>, name, kinds) = {}
  BY SMT DEF RowsIn
<1>7. RowsAgree([r \in Report |-> <<>>], EmptyBag)
  <2> DEFINE s == [r \in Report |-> <<>>]
  <2>1. /\ s["outcome"] = <<>> /\ s["position"] = <<>> /\ s["field"] = <<>>
        /\ s["intentional"] = <<>>
    BY DEF Report
  <2> HIDE DEF s
  <2>2. FieldRowsAgree(s, EmptyBag)
    BY <1>1, <1>3, <1>6, <2>1 DEF FieldRowsAgree
  <2>3. Len(s["outcome"]) = 0 /\ Len(s["position"]) = 0
    BY <2>1, SMT
  <2>4. 0 = CopiesOf("frap_only", EmptyBag) + CopiesOf("fap_only", EmptyBag)
    BY <1>1, SMT DEF CopiesOf
  <2> QED BY <1>1, <2>2, <2>3, <2>4 DEF RowsAgree, s
<1> QED BY <1>4, <1>5, <1>7

\* The number of packets taken is a natural number.
LEMMA TotalIs ==
  ASSUME IsTally(tally)
  PROVE  total \in Nat
BY CountIsNat DEF total, CopiesOf

\* The invariant holds at first.
LEMMA DiffStart == Init => DiffInv
<1> SUFFICES ASSUME Init PROVE DiffInv
  OBVIOUS
<1>1. total = 0
  BY NothingCounted DEF Init, total, CopiesOf
<1>2. dataset \in Seq(Packets)
  BY PipeAssumption, SMT DEF Init, BoundedSeq, SeqOf, PipeAssumption
<1>3. DataInv
  <2>1. Len(dataset) \in Nat
    BY <1>2, SMT
  <2>2. rows \in [Report -> Seq(Nat \X AnyRow)]
    BY SMT DEF Init
  <2>3. IsTally(tally)
    BY NothingCounted DEF Init
  <2> QED BY <1>2, <2>1, <2>2, <2>3, SMT DEF Init, DataInv, Stage
<1>4. SummaryInv
  BY DEF Init, SummaryInv
<1>5. ControlInv
  <2>1. Len(dataset) \in Nat
    BY <1>2, SMT
  <2>2. CursorInv
    BY <1>1, <2>1, SMT DEF Init, CursorInv
  <2>3. OutcomeInv
    BY DEF Init, OutcomeInv
  <2>4. EndInv
    BY DEF Init, EndInv, Settled
  <2> QED BY <2>2, <2>3, <2>4 DEF ControlInv
<1>6. TallyInv
  <2>1. Counted = 0 /\ \A f \in 1 .. 7 : Seen(f) = 0
    BY <1>1 DEF Init, Counted, Seen
  <2>2. tally = EmptyBag /\ rows = [r \in Report |-> <<>>]
    BY DEF Init
  <2>3. PassesAgree(dataset, Counted, tally)
    BY <2>1, <2>2, NothingSeen
  <2>4. \A f \in 1 .. 7 : FieldAgrees(dataset, Compared[f], Seen(f), tally)
    <3>1. \A name \in Names : FieldAgrees(dataset, name, 0, tally)
      BY <2>2, NothingSeen
    <3> QED BY <2>1, <3>1, ComparedAre
  <2>5. RowsAgree(rows, tally)
    BY <2>2, NothingSeen
  <2> QED BY <2>3, <2>4, <2>5 DEF TallyInv
<1> QED BY <1>3, <1>4, <1>5, <1>6 DEF DiffInv

\* A number of whole lines leaves no part of one.
LEMMA Parity ==
  ASSUME NEW n \in Nat
  PROVE  (2 * n) % 2 = 0 /\ (2 * n + 1) % 2 = 1
BY SMT

\* Where main is within a line, when it looks for one.
LEMMA WithinIs ==
  ASSUME DataInv, CursorInv
  PROVE  IsWithin <=> received = 2 * total + 1
<1>1. total \in Nat
  BY TotalIs DEF DataInv
<1>2. (2 * total) % 2 = 0 /\ (2 * total + 1) % 2 = 1
  BY <1>1, Parity
<1>3. received = 2 * total \/ received = 2 * total + 1
  BY DEF CursorInv
<1>4. CASE received = 2 * total
  BY <1>1, <1>2, <1>4, SMT DEF IsWithin
<1>5. CASE received = 2 * total + 1
  BY <1>1, <1>2, <1>5, SMT DEF IsWithin
<1> QED BY <1>3, <1>4, <1>5

\* What is counted and written stays right while nothing is added to either.
LEMMA TallyKept ==
  ASSUME TallyInv, UNCHANGED <<dataset, tally, rows>>, Counted' = Counted,
         \A f \in 1 .. 7 : Seen(f)' = Seen(f), received' <= sent' => received <= sent
  PROVE  TallyInv'
<1>1. PassesAgree(dataset, Counted, tally)'
  BY DEF TallyInv, PassesAgree, Passing, Accepted, CopiesOf, CountOf
<1>2. ASSUME (received <= sent)', NEW f \in 1 .. 7
      PROVE  FieldAgrees(dataset, Compared[f], Seen(f), tally)'
  <2>1. FieldAgrees(dataset, Compared[f], Seen(f), tally)
    BY <1>2 DEF TallyInv
  <2> QED BY <2>1 DEF FieldAgrees, Differing
<1>3. RowsAgree(rows, tally)'
  BY DEF TallyInv
<1> QED BY <1>1, <1>2, <1>3 DEF TallyInv

\* dataset-capture appends a packet.
LEMMA GrowStep ==
  ASSUME DiffInv, Grow
  PROVE  DiffInv'
<1> USE DEF DiffInv
<1>1. PICK p \in Packets : dataset' = Append(dataset, p)
  BY DEF Grow
<1>2. dataset \in Seq(Packets)
  BY DEF DataInv
<1>3. /\ dataset' \in Seq(Packets) /\ Len(dataset') = Len(dataset) + 1
      /\ Len(dataset) \in Nat /\ \A i \in 1 .. Len(dataset) : dataset'[i] = dataset[i]
  BY <1>1, <1>2, SMT
<1>4. UNCHANGED <<childVars, received, pc, fap, working, files>>
  BY DEF Grow
<1>5. total' = total /\ total \in Nat
  BY <1>4, TotalIs DEF total, working, DataInv
<1>6. DataInv'
  BY <1>3, <1>4, SMT DEF DataInv, childVars, working
<1>7. SummaryInv'
  BY <1>4 DEF SummaryInv, working, files
<1>8. ASSUME Open' PROVE ControlInv' /\ TallyInv'
  <2>1. ControlInv /\ TallyInv
    BY <1>4, <1>8 DEF Open
  <2>2. CursorInv'
    BY <1>3, <1>4, <1>5, <2>1, SMT DEF ControlInv, CursorInv, childVars
  <2>3. OutcomeInv'
    <3> SUFFICES ASSUME pc' = "compare" PROVE OutcomeInv'
      BY DEF OutcomeInv
    <3>1. Current' = Current
      BY <1>3, <1>4, <1>5, <2>1, SMT DEF ControlInv, CursorInv, OutcomeInv, Current
    <3> QED BY <1>4, <1>5, <2>1, <3>1 DEF ControlInv, OutcomeInv, childVars, working
  <2>4. EndInv'
    BY <1>4, <2>1 DEF ControlInv, EndInv, childVars, working
  <2>5. /\ Counted' = Counted /\ Counted \in Int /\ Counted <= Len(dataset)
        /\ \A f \in 1 .. 7 : Seen(f)' = Seen(f) /\ Seen(f) \in Int /\ Seen(f) <= Len(dataset)
    BY <1>3, <1>4, <1>5, <2>1, SMT DEF ControlInv, CursorInv, Counted, Seen, working
  <2>6. PassesAgree(dataset', Counted', tally')
    <3>1. PassesAgree(dataset, Counted, tally)
      BY <2>1 DEF TallyInv
    <3> QED BY <1>1, <1>2, <1>4, <2>5, <3>1, GrowKeeps DEF working
  <2>7. ASSUME (received <= sent)', NEW f \in 1 .. 7
        PROVE  FieldAgrees(dataset', Compared[f], Seen(f)', tally')
    <3>1. FieldAgrees(dataset, Compared[f], Seen(f), tally)
      BY <1>4, <2>1, <2>7 DEF TallyInv, childVars
    <3>2. Seen(f)' = Seen(f) /\ Seen(f) \in Int /\ Seen(f) <= Len(dataset)
      BY <2>5
    <3> QED BY <1>1, <1>2, <1>4, <3>1, <3>2, GrowKeeps DEF working
  <2>8. RowsAgree(rows', tally')
    BY <1>4, <2>1 DEF TallyInv, working
  <2> QED BY <2>2, <2>3, <2>4, <2>6, <2>7, <2>8 DEF ControlInv, TallyInv
<1> QED BY <1>6, <1>7, <1>8

\* A step of the child: the pieces go into the pipe, and it ends or is at an end.
LEMMA ChildStep ==
  ASSUME DiffInv, Child \/ ChildDies
  PROVE  DiffInv'
<1> USE DEF DiffInv
<1>1. UNCHANGED <<dataset, received, pc, fap, working, files>>
  BY DEF Child, ChildParse, ChildEof, ChildSend, ChildBrokenPipe, ChildExit, ChildDies
<1>2. total' = total /\ total \in Nat /\ Current' = Current
  BY <1>1, TotalIs DEF total, Current, working, DataInv
<1>3. dataset \in Seq(Packets) /\ Len(dataset) \in Nat
  BY SMT DEF DataInv
<1>4. /\ parsed' \in Nat /\ sent' \in Nat /\ parsed' <= Len(dataset) /\ sent' <= 2 * parsed'
      /\ child' \in {"parsing", "ending"} \cup ChildEnded
      /\ child' = "exited" => sent' = 2 * parsed'
  BY <1>3, SMT DEF DataInv, ChildEnded, Child, ChildParse, ChildEof, ChildSend,
                   ChildBrokenPipe, ChildExit, ChildDies
<1>5. /\ child \in {"parsing", "ending"}
      /\ sent' = sent \/ (sent' = sent + 1 /\ pc \notin Ended)
  BY SMT DEF Child, ChildParse, ChildEof, ChildSend, ChildBrokenPipe, ChildExit, ChildDies
<1>6. DataInv'
  BY <1>1, <1>3, <1>4 DEF DataInv, working
<1>7. SummaryInv'
  BY <1>1 DEF SummaryInv, working, files
<1>8. ASSUME Open' PROVE ControlInv' /\ TallyInv'
  <2>1. ControlInv /\ TallyInv
    BY <1>1, <1>8 DEF Open
  <2>2. received <= sent /\ received' <= sent'
    BY <1>1, <1>5, <2>1, SMT DEF ControlInv, CursorInv, DataInv
  <2>3. CursorInv'
    BY <1>1, <1>2, <1>3, <1>4, <2>1, <2>2, SMT DEF ControlInv, CursorInv, DataInv
  <2>4. ~ (received > sent)
    BY <2>2, SMT DEF DataInv
  <2>5. OutcomeInv'
    BY <1>1, <1>2, <2>1, <2>4 DEF ControlInv, OutcomeInv, working
  <2>6. EndInv'
    BY <1>1, <1>5, <2>1, SMT DEF ControlInv, EndInv, ChildEnded, Settled
  <2>7. Counted' = Counted /\ \A f \in 1 .. 7 : Seen(f)' = Seen(f)
    BY <1>1, <1>2 DEF Counted, Seen, working
  <2>8. TallyInv'
    BY <1>1, <2>1, <2>2, <2>7, TallyKept DEF working
  <2> QED BY <2>3, <2>5, <2>6, <2>8 DEF ControlInv
<1> QED BY <1>6, <1>7, <1>8

\* The parts of the state that a step of main leaves alone while it compares nothing.
idle == <<dataset, childVars, index, tally, rows>>

\* A step of main that compares nothing keeps the tally as it is.
LEMMA IdleStep ==
  ASSUME DiffInv, UNCHANGED idle, pc # "compare" \/ ~ Open', pc' # "compare",
         received' \in Nat, pc' \in Stage, SummaryInv',
         Open' => Open /\ (received' <= sent' => received <= sent) /\ CursorInv' /\ EndInv'
  PROVE  DiffInv'
<1> USE DEF DiffInv
<1>1. DataInv'
  BY DEF DataInv, idle, childVars
<1>2. ASSUME Open' PROVE ControlInv' /\ TallyInv'
  <2>1. ControlInv /\ TallyInv /\ pc # "compare"
    BY <1>2
  <2>2. OutcomeInv'
    BY DEF OutcomeInv
  <2>3. total' = total
    BY DEF total, idle
  <2>4. Counted' = Counted /\ \A f \in 1 .. 7 : Seen(f)' = Seen(f)
    BY <2>1, <2>3 DEF Counted, Seen
  <2>5. TallyInv'
    BY <1>2, <2>1, <2>4, TallyKept DEF idle
  <2> QED BY <1>2, <2>2, <2>5 DEF ControlInv
<1> QED BY <1>1, <1>2

\* main stops: an error, or a signal.
LEMMA StopStep ==
  ASSUME DiffInv, UNCHANGED <<dataset, childVars, files>>, pc \notin Ended,
         pc' \in {"failed", "killed"}, received' \in Nat, index' \in 0 .. 7, IsTally(tally'),
         rows' \in [Report -> Seq(Nat \X AnyRow)]
  PROVE  DiffInv'
<1> USE DEF DiffInv
<1>1. DataInv'
  BY DEF DataInv, childVars, Stage, Ended
<1>2. SummaryInv'
  BY DEF SummaryInv, files, Ended
<1>3. ~ Open'
  BY DEF Open
<1> QED BY <1>1, <1>2, <1>3

\* main opens its files, and takes the next packet of the dataset.
LEMMA ReadStep ==
  ASSUME DiffInv, Create \/ ReadPacket
  PROVE  DiffInv'
<1> USE DEF DiffInv
<1>1. /\ UNCHANGED <<dataset, childVars, received, fap, working, files>>
      /\ pc \in {"create", "read"}
      /\ pc' \in {"read", "line", "extra", "failed"}
      /\ pc' = "line" => total < Len(dataset)
  BY DEF Create, ReadPacket
<1>2. total' = total /\ total \in Nat
  BY <1>1, TotalIs DEF total, working, DataInv
<1>3. UNCHANGED idle
  BY <1>1 DEF idle, working
<1>4. SummaryInv'
  BY <1>1 DEF SummaryInv, working, files
<1>5. ASSUME Open' PROVE Open /\ CursorInv' /\ EndInv'
  <2>1. Open
    BY <1>1 DEF Open
  <2>2. CursorInv'
    BY <1>1, <1>2, <2>1 DEF ControlInv, CursorInv, childVars
  <2>3. EndInv'
    BY <1>1 DEF EndInv, Settled
  <2> QED BY <2>1, <2>2, <2>3
<1>6. pc # "compare" /\ pc' # "compare" /\ pc' \in Stage /\ received' \in Nat
  BY <1>1 DEF DataInv, Stage, Ended
<1>7. received' <= sent' => received <= sent
  BY <1>1 DEF childVars
<1> QED BY <1>3, <1>4, <1>5, <1>6, <1>7, IdleStep

\* main takes the first piece of a line.
LEMMA FrontStep ==
  ASSUME DiffInv, TakeFront
  PROVE  DiffInv'
<1> USE DEF DiffInv
<1>1. /\ UNCHANGED <<dataset, childVars, pc, fap, working, files>>
      /\ pc \in {"line", "extra"} /\ received < sent /\ ~ IsWithin /\ received' = received + 1
  BY DEF TakeFront
<1>2. total' = total /\ total \in Nat
  BY <1>1, TotalIs DEF total, working, DataInv
<1>3. UNCHANGED idle
  BY <1>1 DEF idle, working
<1>4. SummaryInv'
  BY <1>1 DEF SummaryInv, working, files
<1>5. Open /\ ControlInv
  BY <1>1 DEF Open
<1>6. received = 2 * total
  BY <1>1, <1>5, WithinIs DEF ControlInv, CursorInv
<1>7. received' = 2 * total' + 1 /\ received' <= sent' /\ ~ (received' > sent')
  BY <1>1, <1>2, <1>6, SMT DEF DataInv, childVars
<1>8. CursorInv'
  BY <1>1, <1>2, <1>5, <1>7 DEF ControlInv, CursorInv
<1>9. EndInv'
  BY <1>1 DEF EndInv, Settled
<1>10. pc # "compare" /\ pc' # "compare" /\ pc' \in Stage /\ received' \in Nat /\ received <= sent
  BY <1>1, SMT DEF DataInv
<1> QED BY <1>3, <1>4, <1>5, <1>8, <1>9, <1>10, IdleStep

\* There is no line, or a part of one too many: main stops.  Or there is none, as
\* there should be: the child has ended, and main waits for it.
LEMMA LinesEndStep ==
  ASSUME DiffInv, NoLine \/ NoMoreLines
  PROVE  DiffInv'
<1> USE DEF DiffInv
<1>1. /\ UNCHANGED <<dataset, childVars, index, tally, files>> /\ UNCHANGED rows
      /\ pc \in {"line", "extra"} /\ pc' \in {"wait", "failed"}
      /\ received' = received \/ received' = received + 1
      /\ pc' = "wait" => received' = received /\ IsEof /\ ~ IsWithin
  BY DEF NoLine, NoMoreLines, Fail, working
<1>2. received' \in Nat
  BY <1>1, SMT DEF DataInv
<1>3. CASE pc' = "failed"
  BY <1>1, <1>2, <1>3, StopStep DEF DataInv, Ended
<1>4. CASE pc' = "wait"
  <2>1. total' = total /\ total \in Nat
    BY <1>1, TotalIs DEF total, DataInv
  <2>2. UNCHANGED idle
    BY <1>1 DEF idle
  <2>3. SummaryInv'
    BY <1>1, <1>4 DEF SummaryInv, files
  <2>4. Open /\ ControlInv
    BY <1>1 DEF Open
  <2>5. received = 2 * total /\ received' = received
    BY <1>1, <1>4, <2>4, WithinIs DEF ControlInv, CursorInv
  <2>6. CursorInv'
    BY <1>1, <1>4, <2>1, <2>4, <2>5 DEF ControlInv, CursorInv, childVars
  <2>7. EndInv'
    BY <1>1, <1>4, <2>5 DEF EndInv, Settled, IsEof, childVars
  <2>8. pc # "compare" /\ pc' # "compare" /\ pc' \in Stage
    BY <1>1 DEF Stage, Ended
  <2>9. received' <= sent' => received <= sent
    BY <1>1, <2>5 DEF childVars
  <2> QED BY <1>2, <2>2, <2>3, <2>4, <2>6, <2>7, <2>8, <2>9, IdleStep
<1> QED BY <1>1, <1>3, <1>4

\* main takes the rest of a line, and the packet it is about.
LEMMA ComparesStep ==
  ASSUME DiffInv, pc = "line", IsWithin, received' = received + 1, NEW o, Compares(o),
         o.ok = dataset[total + 1].fap.ok,
         \/ o = dataset[total + 1].fap /\ received < sent
         \/ child = "failed" /\ sent <= received
  PROVE  DiffInv'
<1> USE DEF DiffInv
<1>1. /\ pc' = "compare" /\ fap' = {o} /\ index' = 0
      /\ tally' = Count(tally, {Counter("total")})
      /\ UNCHANGED <<dataset, childVars, rows, stored, files>>
  BY DEF Compares
<1>2. Open /\ ControlInv /\ TallyInv /\ IsTally(tally) /\ total \in Nat
  BY TotalIs DEF Open, DataInv
<1>3. /\ IsTally(tally') /\ total' = total + 1
      /\ \A data, n : PassesAgree(data, n, tally) => PassesAgree(data, n, tally')
      /\ \A data, n : \A name \in Names :
           FieldAgrees(data, name, n, tally) => FieldAgrees(data, name, n, tally')
      /\ \A s : RowsAgree(s, tally) => RowsAgree(s, tally')
  BY <1>1, <1>2, TotalCounted DEF total
<1>4. received = 2 * total + 1
  BY <1>2, WithinIs DEF ControlInv
<1>5. received' \in Nat /\ received' = 2 * total' /\ (received' <= sent' => received <= sent)
  BY <1>1, <1>2, <1>3, <1>4, SMT DEF DataInv, childVars
<1>6. Len(dataset) \in Nat /\ total < Len(dataset)
  BY <1>2, SMT DEF DataInv, ControlInv, CursorInv
<1>7. DataInv'
  BY <1>1, <1>3, <1>5 DEF DataInv, childVars, Stage
<1>8. SummaryInv'
  BY <1>1 DEF SummaryInv, files
<1>9. CursorInv'
  <2>1. total' <= Len(dataset)
    BY <1>2, <1>3, <1>6, SMT
  <2>2. received' > sent' => child' = "failed"
    BY <1>1, SMT DEF DataInv, childVars
  <2> QED BY <1>1, <1>5, <2>1, <2>2 DEF CursorInv
<1>10. OutcomeInv'
  <2>1. 1 <= total'
    BY <1>2, <1>3, SMT
  <2>2. Current' = dataset[total + 1]
    BY <1>1, <1>3 DEF Current
  <2>3. o = dataset[total + 1].fap \/ received' > sent'
    BY <1>1, SMT DEF DataInv, childVars
  <2>4. ~ (index' > 0)
    BY <1>1, SMT
  <2> QED BY <1>1, <2>1, <2>2, <2>3, <2>4 DEF OutcomeInv
<1>11. EndInv'
  BY <1>1 DEF EndInv, Settled
<1>12. TallyInv'
  <2>1. /\ Counted' = Counted
        /\ \A f \in 1 .. 7 : Seen(f)' = Seen(f)
    BY <1>1, <1>2, <1>3, SMT DEF Counted, Seen
  <2>2. PassesAgree(dataset', Counted', tally')
    BY <1>1, <1>2, <1>3, <2>1 DEF TallyInv
  <2>3. ASSUME (received <= sent)', NEW f \in 1 .. 7
        PROVE  FieldAgrees(dataset', Compared[f], Seen(f)', tally')
    <3>1. FieldAgrees(dataset, Compared[f], Seen(f), tally) /\ Compared[f] \in Names
      BY <1>2, <1>5, <2>3, ComparedAre DEF TallyInv
    <3> QED BY <1>1, <1>3, <2>1, <3>1
  <2>4. RowsAgree(rows', tally')
    BY <1>1, <1>2, <1>3 DEF TallyInv
  <2> QED BY <2>2, <2>3, <2>4 DEF TallyInv
<1> QED BY <1>7, <1>8, <1>9, <1>10, <1>11, <1>12 DEF ControlInv

\* main takes a line: whole, or cut by the end of the child.
LEMMA LineStep ==
  ASSUME DiffInv, TakeLine \/ TakeCutLine
  PROVE  DiffInv'
<1> USE DEF DiffInv
<1>1. pc = "line" /\ IsWithin /\ received' = received + 1
  BY DEF TakeLine, TakeCutLine
<1>2. Open /\ ControlInv /\ total \in Nat
  BY <1>1, TotalIs DEF Open, DataInv
<1> DEFINE given == dataset[total + 1].fap
           cut == [given EXCEPT !.weather = FALSE]
<1>3. given.ok = cut.ok
  <2>1. dataset[total + 1] \in Packets
    BY <1>1, <1>2, SMT DEF DataInv, ControlInv, CursorInv
  <2> QED BY <2>1, PacketsAre
<1>4. CASE TakeLine
  <2>1. received < sent /\ Compares(given)
    BY <1>4 DEF TakeLine
  <2> QED BY <1>1, <2>1, ComparesStep
<1>5. CASE TakeCutLine
  <2>1. received = 2 * total + 1 /\ received <= sent
    BY <1>1, <1>2, WithinIs, SMT DEF ControlInv, CursorInv, DataInv
  <2>2. child \in ChildEnded /\ sent <= received
    BY <1>5 DEF TakeCutLine, IsEof
  <2>3. child = "failed"
    BY <1>2, <2>1, <2>2, SMT DEF DataInv, ChildEnded
  <2>4. CASE Compares(given)
    BY <1>1, <2>2, <2>3, <2>4, ComparesStep
  <2>5. CASE Compares(cut)
    <3> HIDE DEF cut
    <3> QED BY <1>1, <1>3, <2>2, <2>3, <2>5, ComparesStep
  <2>6. CASE Fail /\ UNCHANGED <<tally, rows, stored>>
    <3>1. received' \in Nat
      BY <1>1, SMT DEF DataInv
    <3> QED BY <1>1, <2>6, <3>1, StopStep DEF Fail, DataInv, Ended
  <2> QED BY <1>5, <2>4, <2>5, <2>6 DEF TakeCutLine
<1> QED BY <1>4, <1>5

\* main compares a packet further, or is done with it.
LEMMA MoveOnStep ==
  ASSUME DiffInv, pc = "compare", MoveOn, UNCHANGED received, IsTally(tally'), total' = total,
         rows' \in [Report -> Seq(Nat \X AnyRow)],
         PassesAgree(dataset, total, tally'), RowsAgree(rows', tally'),
         received <= sent => \A f \in 1 .. 7 : FieldAgrees(dataset, Compared[f], Seen(f)', tally'),
         pc' = "compare" => Current.frap.ok /\ Current.fap.ok
  PROVE  DiffInv'
<1> USE DEF DiffInv
<1>1. UNCHANGED <<dataset, childVars, files>>
  BY DEF MoveOn
<1>2. \/ pc' = "compare" /\ fap' = fap /\ index' = index + 1 /\ index < 7
      \/ pc' = "read" /\ index' = 0
  BY ComparedAre DEF MoveOn
<1>3. Open /\ ControlInv /\ total \in Nat
  BY TotalIs DEF Open, DataInv
<1>4. index' \in 0 .. 7
  BY <1>2, SMT DEF DataInv
<1>5. DataInv'
  BY <1>1, <1>2, <1>4 DEF DataInv, childVars, Stage
<1>6. SummaryInv'
  BY <1>1, <1>2 DEF SummaryInv, files
<1>7. CursorInv'
  BY <1>1, <1>2, <1>3 DEF ControlInv, CursorInv, childVars
<1>8. OutcomeInv'
  <2>1. Current' = Current
    BY <1>1 DEF Current
  <2> QED BY <1>1, <1>2, <1>3, <2>1 DEF ControlInv, OutcomeInv, childVars
<1>9. EndInv'
  BY <1>2 DEF EndInv, Settled
<1>10. Counted' = total
  BY <1>2, SMT DEF Counted, DataInv
<1>11. TallyInv'
  BY <1>1, <1>10 DEF TallyInv, childVars
<1> QED BY <1>5, <1>6, <1>7, <1>8, <1>9, <1>11 DEF ControlInv

\* A packet is counted, and its row written if it has one.
LEMMA MatchStep ==
  ASSUME DiffInv, Match
  PROVE  DiffInv'
<1> USE DEF DiffInv
<1>1. pc = "compare" /\ index = 0 /\ UNCHANGED received
  BY DEF Match
<1>2. Open /\ ControlInv /\ TallyInv /\ IsTally(tally) /\ total \in Nat
  BY <1>1, TotalIs DEF Open, DataInv
<1>3. PICK reference \in fap :
        /\ tally' = Count(tally, PacketKeys(Current.frap, reference))
        /\ \/ PacketRows(Current.frap, reference) = {} /\ MoveOn /\ UNCHANGED <<rows, stored>>
           \/ \E r \in PacketRows(Current.frap, reference) : Write(r, Row(r, "", "")) /\ MoveOn
           \/ WriteFails
  BY DEF Match
<1> DEFINE frap == Current.frap
<1>4. /\ 1 <= total /\ fap = {reference} /\ reference.ok = Current.fap.ok
  BY <1>1, <1>2 DEF ControlInv, OutcomeInv
<1>5. total \in 1 .. Len(dataset) /\ total - 1 \in Nat /\ total - 1 + 1 = total
  BY <1>2, <1>4, SMT DEF DataInv, ControlInv, CursorInv
<1>6. frap.ok \in BOOLEAN /\ reference.ok \in BOOLEAN /\ IsPacket(Current)
  <2>1. Current \in Packets
    BY <1>5, SMT DEF Current, DataInv
  <2> QED BY <1>4, <2>1, PacketsAre DEF IsPacket
<1>7. /\ IsTally(tally') /\ total' = total
      /\ \A data : \A n \in Nat :
           /\ PassesAgree(data, n, tally)
           /\ data[n + 1].frap = frap /\ data[n + 1].fap.ok = reference.ok
           => PassesAgree(data, n + 1, tally')
      /\ \A data, n : \A name \in Names :
           FieldAgrees(data, name, n, tally) => FieldAgrees(data, name, n, tally')
  <2> HIDE DEF frap
  <2>1. tally' = Count(tally, PacketKeys(frap, reference))
    BY <1>3 DEF frap
  <2> QED BY <1>2, <1>6, <2>1, PacketCounted DEF total
<1>8. PassesAgree(dataset, total, tally')
  <2>1. PassesAgree(dataset, total - 1, tally)
    BY <1>1, <1>2 DEF TallyInv, Counted
  <2>2. dataset[total - 1 + 1].frap = frap /\ dataset[total - 1 + 1].fap.ok = reference.ok
    BY <1>4, <1>5 DEF Current
  <2>3. PassesAgree(dataset, total - 1 + 1, tally')
    BY <1>5, <1>7, <2>1, <2>2
  <2> QED BY <1>5, <2>3
<1>9. CASE WriteFails
  <2>1. rows' \in [Report -> Seq(Nat \X AnyRow)] /\ index' \in 0 .. 7 /\ received' \in Nat
    BY <1>1, <1>9 DEF WriteFails, Fail, DataInv
  <2> QED BY <1>1, <1>7, <1>9, <2>1, StopStep DEF WriteFails, Fail, Ended
<1>10. ASSUME MoveOn,
              \/ PacketRows(frap, reference) = {} /\ rows' = rows
              \/ \E r \in PacketRows(frap, reference) : Write(r, Row(r, "", ""))
       PROVE  DiffInv'
  <2>1. \/ PacketRows(frap, reference) = {} /\ rows' = rows
        \/ \E r \in PacketRows(frap, reference) :
             Written(rows, r, total, PlainRow(r), rows')
    BY <1>10 DEF Write, PlainRow, Written
  <2>2. rows \in [Report -> Seq(Nat \X AnyRow)] /\ RowsAgree(rows, tally)
    BY <1>2 DEF DataInv, TallyInv
  <2>3. rows' \in [Report -> Seq(Nat \X AnyRow)] /\ RowsAgree(rows', tally')
    <3> HIDE DEF frap
    <3>1. tally' = Count(tally, PacketKeys(frap, reference))
      BY <1>3 DEF frap
    <3> QED BY <1>2, <2>1, <2>2, <3>1, PacketWritten
  <2>4. (\E r \in fap : Arm(frap, r) = "both_pass") <=> frap.ok /\ reference.ok
    <3>1. frap.ok /\ reference.ok <=> Arm(frap, reference) = "both_pass"
      <4> HIDE DEF frap
      <4> QED BY <1>6, ArmIs, SMT DEF Arms
    <3> QED BY <1>4, <3>1
  <2>5. IF frap.ok /\ reference.ok THEN pc' = "compare" /\ index' = 1 ELSE pc' = "read"
    <3>1. 0 < 7 /\ 0 + 1 = 1
      BY SMT
    <3> QED BY <1>1, <1>10, <2>4, <3>1, ComparedAre DEF MoveOn
  <2>6. ASSUME received <= sent, NEW f \in 1 .. 7
        PROVE  FieldAgrees(dataset, Compared[f], Seen(f)', tally')
    <3>1. Compared[f] \in Names
      BY ComparedAre
    <3>2. Seen(f) = total - 1
      BY <1>1, SMT DEF Seen
    <3>3. FieldAgrees(dataset, Compared[f], total - 1, tally')
      BY <1>2, <1>7, <2>6, <3>1, <3>2 DEF TallyInv
    <3>4. CASE frap.ok /\ reference.ok
      <4>1. Seen(f)' = total - 1
        BY <1>7, <2>5, <3>4, SMT DEF Seen
      <4> QED BY <3>3, <4>1
    <3>5. CASE ~ (frap.ok /\ reference.ok)
      <4>1. Seen(f)' = total
        BY <1>7, <2>5, <3>5 DEF Seen
      <4>2. ~ Disagree(Compared[f], Current.frap, Current.fap)
        BY <1>4, <3>5 DEF Disagree
      <4>3. Cardinality(Differing(dataset, Compared[f], total - 1 + 1))
              = Cardinality(Differing(dataset, Compared[f], total - 1)) + 0
        BY <1>5, <4>2, OneDifferenceMore DEF Current
      <4>4. Cardinality(Differing(dataset, Compared[f], total - 1)) \in Nat
        <5>1. Differing(dataset, Compared[f], total - 1) \subseteq 1 .. (total - 1)
          BY DEF Differing
        <5> QED BY <1>5, <5>1, SubsetIsFinite
      <4>5. Cardinality(Differing(dataset, Compared[f], total))
              = Cardinality(Differing(dataset, Compared[f], total - 1))
        BY <1>5, <4>3, <4>4, SMT
      <4> QED BY <3>3, <4>1, <4>5 DEF FieldAgrees
    <3> QED BY <3>4, <3>5
  <2>7. pc' = "compare" => Current.frap.ok /\ Current.fap.ok
    BY <1>4, <2>5
  <2> QED BY <1>1, <1>7, <1>8, <1>10, <2>3, <2>6, <2>7, MoveOnStep
<1> QED BY <1>3, <1>9, <1>10

\* A field is compared: a difference is counted, and its row written.
LEMMA CompareFieldStep ==
  ASSUME DiffInv, CompareField
  PROVE  DiffInv'
<1> USE DEF DiffInv
<1>1. pc = "compare" /\ index > 0 /\ UNCHANGED received
  BY DEF CompareField
<1>2. Open /\ ControlInv /\ TallyInv /\ IsTally(tally) /\ total \in Nat
  BY <1>1, TotalIs DEF Open, DataInv
<1> DEFINE frap == Current.frap
           name == Compared[index]
           Found(r) == Compare(name, frap, r, Current.del)
<1>3. PICK reference \in fap :
        /\ tally' = Count(tally, FoundKeys(Found(reference), frap, reference))
        /\ \/ Found(reference) = {} /\ MoveOn /\ UNCHANGED <<rows, stored>>
           \/ \E r \in Found(reference) : Write(ReportOf(r), r) /\ MoveOn
           \/ WriteFails
  BY DEF CompareField, FoundKeys, ReportOf
<1> DEFINE found == Found(reference)
<1>4. /\ 1 <= total /\ fap = {reference} /\ reference.ok = Current.fap.ok
      /\ reference = Current.fap \/ received > sent
      /\ frap.ok /\ Current.fap.ok
  BY <1>1, <1>2 DEF ControlInv, OutcomeInv
<1>5. total - 1 \in Nat /\ total - 1 + 1 = total /\ index \in 1 .. 7
  BY <1>1, <1>2, <1>4, SMT DEF DataInv
<1>6. name \in Names /\ \A f \in 1 .. 7 : f # index => Compared[f] # name
  BY <1>5, ComparedAre
<1>7. /\ Disagree(name, frap, reference) => Finds(found, name)
      /\ ~ Disagree(name, frap, reference) => found = {}
  <2> HIDE DEF name, frap
  <2>1. frap.ok /\ reference.ok
    BY <1>4
  <2> QED BY <1>6, <2>1, CompareFinds
<1>8. found = {} \/ Finds(found, name)
  BY <1>7
<1>9. Finds(found, name) => found # {}
  BY DEF Finds
<1> HIDE DEF found
<1>10. /\ IsTally(tally') /\ total' = total
       /\ \A data, n : PassesAgree(data, n, tally) => PassesAgree(data, n, tally')
       /\ Differences(name, tally') = Differences(name, tally) + (IF found = {} THEN 0 ELSE 1)
       /\ \A other \in Names \ {name} : Differences(other, tally') = Differences(other, tally)
  <2> HIDE DEF name, frap
  <2>1. tally' = Count(tally, FoundKeys(found, frap, reference))
    BY <1>3 DEF found, name, frap
  <2> QED BY <1>2, <1>6, <1>8, <2>1, FieldCounted DEF total
<1>11. PassesAgree(dataset, total, tally')
  <2>1. Counted = total
    BY <1>1, SMT DEF Counted, DataInv
  <2> QED BY <1>2, <1>10, <2>1 DEF TallyInv
<1>12. CASE WriteFails
  <2>1. rows' \in [Report -> Seq(Nat \X AnyRow)] /\ index' \in 0 .. 7 /\ received' \in Nat
    BY <1>1, <1>12 DEF WriteFails, Fail, DataInv
  <2> QED BY <1>1, <1>10, <1>12, <2>1, StopStep DEF WriteFails, Fail, Ended
<1>13. ASSUME MoveOn,
              \/ found = {} /\ rows' = rows
              \/ \E r \in found : Write(ReportOf(r), r)
       PROVE  DiffInv'
  <2>1. Recorded(rows, found, name, total, rows')
    <3> HIDE DEF name
    <3> QED BY <1>8, <1>13 DEF Write, Written, Recorded
  <2>2. rows \in [Report -> Seq(Nat \X AnyRow)] /\ RowsAgree(rows, tally)
    BY <1>2 DEF DataInv, TallyInv
  <2>3. rows' \in [Report -> Seq(Nat \X AnyRow)] /\ RowsAgree(rows', tally')
    <3> HIDE DEF name, frap
    <3>1. tally' = Count(tally, FoundKeys(found, frap, reference))
      BY <1>3 DEF found, name, frap
    <3> QED BY <1>2, <1>6, <2>1, <2>2, <3>1, FieldWritten
  <2>4. \E r \in fap : Arm(frap, r) = "both_pass"
    <3>1. Arm(frap, reference) = "both_pass"
      BY <1>4 DEF Arm
    <3> QED BY <3>1
  <2>5. \/ pc' = "compare" /\ index' = index + 1
        \/ pc' = "read" /\ ~ (index < 7)
    <3>1. IF index < 7 THEN index' = index + 1 /\ UNCHANGED <<pc, fap>>
          ELSE index' = 0 /\ pc' = "read" /\ fap' = {}
      BY <1>13, <2>4, ComparedAre DEF MoveOn
    <3> QED BY <1>1, <3>1
  <2>6. ASSUME received <= sent, NEW f \in 1 .. 7
        PROVE  FieldAgrees(dataset, Compared[f], Seen(f)', tally')
    <3>1. FieldAgrees(dataset, Compared[f], Seen(f), tally)
      BY <1>2, <2>6 DEF TallyInv
    <3>2. CASE f # index
      <4>1. Seen(f)' = Seen(f)
        BY <1>1, <1>5, <1>10, <2>5, <3>2, SMT DEF Seen
      <4>2. Differences(Compared[f], tally') = Differences(Compared[f], tally)
        BY <1>6, <1>10, <3>2, ComparedAre
      <4> QED BY <3>1, <4>1, <4>2 DEF FieldAgrees
    <3>3. CASE f = index
      <4>1. Seen(f) = total - 1 /\ Seen(f)' = total
        BY <1>1, <1>5, <1>10, <2>5, <3>3, SMT DEF Seen
      <4>2. reference = Current.fap
        BY <1>4, <2>6, SMT DEF DataInv
      <4>3. Cardinality(Differing(dataset, name, total))
              = Cardinality(Differing(dataset, name, total - 1))
                  + (IF Disagree(name, frap, reference) THEN 1 ELSE 0)
        <5> HIDE DEF name
        <5>1. Cardinality(Differing(dataset, name, total - 1 + 1))
                = Cardinality(Differing(dataset, name, total - 1))
                    + (IF Disagree(name, dataset[total - 1 + 1].frap, dataset[total - 1 + 1].fap)
                       THEN 1 ELSE 0)
          BY <1>5, OneDifferenceMore
        <5> QED BY <1>5, <4>2, <5>1 DEF Current
      <4>4. Cardinality(Differing(dataset, name, total - 1)) = Differences(name, tally)
        BY <3>1, <3>3, <4>1 DEF FieldAgrees
      <4>5. Disagree(name, frap, reference) <=> found # {}
        BY <1>7, <1>9
      <4>6. Cardinality(Differing(dataset, name, total)) = Differences(name, tally')
        <5> HIDE DEF name, frap
        <5> QED BY <1>10, <4>3, <4>4, <4>5
      <4> QED BY <3>3, <4>1, <4>6 DEF FieldAgrees
    <3> QED BY <3>2, <3>3
  <2> QED BY <1>1, <1>4, <1>10, <1>11, <1>13, <2>3, <2>6, MoveOnStep
<1> QED BY <1>3, <1>12, <1>13 DEF found

\* main waits for the child, flushes the reports, writes the summary aside and puts
\* it in the place of the old one.
LEMMA EndingStep ==
  ASSUME DiffInv, Wait \/ Flush \/ WriteSummary \/ Rename
  PROVE  DiffInv'
<1> USE DEF DiffInv
<1>1. /\ UNCHANGED <<dataset, childVars, received, index, tally, rows>>
      /\ pc \in {"wait"} \cup (Settled \ {"done"})
      /\ pc' \in Settled \cup {"failed"}
      /\ pc' = "failed" \/ child = "exited" \/ pc # "wait"
  BY DEF Wait, Flush, WriteSummary, Rename, Fail, working, Settled
<1>2. Open /\ ControlInv
  BY <1>1 DEF Open, Settled
<1>3. pc' \in Stage /\ received' \in Nat /\ pc # "compare" /\ pc' # "compare"
  BY <1>1 DEF Stage, Settled, Ended, DataInv
<1>4. UNCHANGED idle
  BY <1>1 DEF idle
<1>5. SummaryInv'
  <2>1. CASE Wait \/ Flush
    BY <2>1 DEF SummaryInv, Wait, Flush, Fail, working, files
  <2>2. CASE WriteSummary
    BY <2>2 DEF SummaryInv, WriteSummary, working
  <2>3. CASE Rename
    BY <2>3 DEF SummaryInv, Rename, working
  <2> QED BY <2>1, <2>2, <2>3
<1>6. total' = total
  BY <1>1 DEF total
<1>7. received = 2 * total
  BY <1>1, <1>2 DEF ControlInv, CursorInv, Settled
<1>8. CursorInv'
  BY <1>1, <1>2, <1>6, <1>7 DEF ControlInv, CursorInv, childVars, Settled
<1>9. ASSUME Open' PROVE EndInv'
  <2>1. child \in ChildEnded /\ sent <= received /\ child = "exited"
    BY <1>1, <1>2, <1>9 DEF ControlInv, EndInv, Open
  <2>2. CASE Wait
    BY <1>1, <1>9, <2>1, <2>2 DEF Wait, EndInv, Settled, Open, childVars
  <2>3. CASE Flush
    <3>1. pc' = "summarise" /\ stored' = [r \in Report |-> Len(rows[r])]
      BY <1>9, <2>3 DEF Flush, Fail, Open
    <3> QED BY <1>1, <2>1, <3>1 DEF EndInv, childVars
  <2>4. CASE WriteSummary \/ Rename
    <3>1. /\ pc \in Settled \ {"flush"} /\ pc' \in Settled \ {"flush"} /\ UNCHANGED stored
      BY <1>9, <2>4 DEF WriteSummary, Rename, working, Settled, Open
    <3> QED BY <1>1, <1>2, <2>1, <3>1 DEF ControlInv, EndInv, childVars
  <2> QED BY <2>2, <2>3, <2>4
<1>10. received' <= sent' => received <= sent
  BY <1>1 DEF childVars
<1> QED BY <1>2, <1>3, <1>4, <1>5, <1>8, <1>9, <1>10, IdleStep

\* Every step keeps the invariant.
LEMMA DiffStep == DiffInv /\ [Next]_vars => DiffInv'
<1> SUFFICES ASSUME DiffInv, [Next]_vars PROVE DiffInv'
  OBVIOUS
<1>1. CASE Grow
  BY <1>1, GrowStep
<1>2. CASE Child \/ ChildDies
  BY <1>2, ChildStep
<1>3. CASE Create \/ ReadPacket
  BY <1>3, ReadStep
<1>4. CASE TakeFront
  BY <1>4, FrontStep
<1>5. CASE TakeLine \/ TakeCutLine
  BY <1>5, LineStep
<1>6. CASE NoLine \/ NoMoreLines
  BY <1>6, LinesEndStep
<1>7. CASE Match
  BY <1>7, MatchStep
<1>8. CASE CompareField
  BY <1>8, CompareFieldStep
<1>9. CASE Wait \/ Flush \/ WriteSummary \/ Rename
  BY <1>9, EndingStep
<1>10. CASE Killed
  <2>1. /\ UNCHANGED <<dataset, childVars, received, fap, working, files>>
        /\ pc \notin Ended /\ pc' \in {"failed", "killed"}
    BY <1>10 DEF Killed
  <2>2. /\ received' \in Nat /\ index' \in 0 .. 7 /\ IsTally(tally')
        /\ rows' \in [Report -> Seq(Nat \X AnyRow)]
    BY <2>1 DEF DiffInv, DataInv, working
  <2> QED BY <2>1, <2>2, StopStep
<1>11. CASE UNCHANGED vars
  <2>1. UNCHANGED <<dataset, childVars, received, pc, fap, working, files>>
    BY <1>11 DEF vars
  <2>2. UNCHANGED <<child, parsed, sent, index, tally, rows, stored, temporary, summary>>
    BY <2>1 DEF childVars, working, files
  <2>3. DataInv' /\ SummaryInv'
    BY <2>1, <2>2 DEF DiffInv, DataInv, SummaryInv
  <2>4. total' = total /\ Current' = Current
    BY <2>1, <2>2 DEF total, Current
  <2>5. ASSUME Open' PROVE ControlInv' /\ TallyInv'
    <3>1. ControlInv /\ TallyInv
      BY <2>1, <2>5 DEF DiffInv, Open
    <3>2. CursorInv'
      BY <2>1, <2>2, <2>4, <3>1 DEF ControlInv, CursorInv
    <3>3. OutcomeInv'
      BY <2>1, <2>2, <2>4, <3>1 DEF ControlInv, OutcomeInv
    <3>4. EndInv'
      BY <2>1, <2>2, <3>1 DEF ControlInv, EndInv
    <3>5. Counted' = Counted /\ \A f \in 1 .. 7 : Seen(f)' = Seen(f)
      BY <2>1, <2>2, <2>4 DEF Counted, Seen
    <3>6. TallyInv'
      BY <2>1, <2>2, <3>1, <3>5, TallyKept
    <3> QED BY <3>2, <3>3, <3>4, <3>6 DEF ControlInv
  <2> QED BY <2>3, <2>5 DEF DiffInv
<1> QED BY <1>1, <1>2, <1>3, <1>4, <1>5, <1>6, <1>7, <1>8, <1>9, <1>10, <1>11
        DEF Next, Main, Over

-----------------------------------------------------------------------------
(* Theorems.                                                               *)

\* The types, and how the tally, the reports, the lines and the two processes go
\* together, hold in every state (fap-diff.rs:51-475).
THEOREM DiffInvariance == Spec => []DiffInv
BY DiffStart, DiffStep, PTL DEF Spec

\* With a summary of its own main is done, and everything has been counted.
LEMMA DoneIs ==
  ASSUME DiffInv, summary # Previous
  PROVE  /\ summary = BuildSummary(tally) /\ child = "exited" /\ total = parsed
         /\ total \in Nat /\ total <= Len(dataset)
         /\ PassesAgree(dataset, total, tally) /\ RowsAgree(rows, tally)
         /\ \A f \in 1 .. 7 : FieldAgrees(dataset, Compared[f], total, tally)
         /\ \A r \in Report : stored[r] = Len(rows[r])
<1>1. pc = "done" /\ summary = BuildSummary(tally)
  BY DEF DiffInv, SummaryInv
<1>2. DataInv /\ ControlInv /\ TallyInv
  BY <1>1 DEF DiffInv, Open
<1>3. child = "exited" /\ sent <= received
  BY <1>1, <1>2 DEF ControlInv, EndInv, Settled
<1>4. total \in Nat /\ total <= Len(dataset) /\ received = 2 * total /\ sent = 2 * parsed
  BY <1>1, <1>2, <1>3, TotalIs DEF DataInv, ControlInv, CursorInv
<1>5. ~ (received > sent)
  BY <1>2, <1>3 DEF ControlInv, CursorInv
<1>6. total = parsed /\ received <= sent
  BY <1>2, <1>3, <1>4, <1>5, SMT DEF DataInv
<1>7. Counted = total /\ \A f \in 1 .. 7 : Seen(f) = total
  BY <1>1 DEF Counted, Seen
<1>8. \A r \in Report : stored[r] = Len(rows[r])
  BY <1>1, <1>2 DEF ControlInv, EndInv, Settled
<1> QED BY <1>1, <1>2, <1>3, <1>4, <1>6, <1>7, <1>8 DEF TallyInv

\* Whatever fails, dies or is killed, summary.txt is that of an earlier run or tells
\* of every packet that the reference parser has read (fap-diff.rs:109-475).
THEOREM SummariesAreTrue == Spec => []SummaryIsTrue
<1>1. DiffInv => SummaryIsTrue
  <2> SUFFICES ASSUME DiffInv, summary # Previous PROVE SummaryIsTrue
    BY DEF SummaryIsTrue
  <2>1. /\ summary = BuildSummary(tally) /\ child = "exited" /\ total = parsed
        /\ PassesAgree(dataset, parsed, tally)
    BY DoneIs
  <2>2. /\ summary.state = "whole" /\ summary.packets = total
        /\ summary.frap_passes = CopiesOf("both_pass", tally) + CopiesOf("frap_only", tally)
        /\ summary.fap_passes = CopiesOf("both_pass", tally) + CopiesOf("fap_only", tally)
        /\ summary.counts = tally
    BY <2>1 DEF BuildSummary, total
  <2> QED BY <2>1, <2>2 DEF SummaryIsTrue, PassesAgree, Passing, Accepted
<1> QED BY <1>1, DiffInvariance, PTL

\* The differences that the summary gives for a field are those of the packets it
\* tells of: none is left out and none is counted twice (fap-diff.rs:128-424).
THEOREM DifferencesAreCounted == Spec => []EveryDifferenceIsCounted
<1>1. DiffInv => EveryDifferenceIsCounted
  <2> SUFFICES ASSUME DiffInv, summary # Previous PROVE EveryDifferenceIsCounted
    BY DEF EveryDifferenceIsCounted
  <2>1. /\ summary = BuildSummary(tally) /\ total \in Nat /\ total <= Len(dataset)
        /\ \A f \in 1 .. 7 : FieldAgrees(dataset, Compared[f], total, tally)
    BY DoneIs
  <2>2. summary.packets = total /\ summary.counts = tally
    BY <2>1 DEF BuildSummary, total
  <2>3. Len(dataset) \in Nat
    BY SMT DEF DiffInv, DataInv
  <2>4. ASSUME NEW f \in 1 .. 7
        PROVE  Cardinality({i \in 1 .. Len(dataset) :
                  i <= summary.packets /\ Disagree(Compared[f], dataset[i].frap, dataset[i].fap)})
                 = Differences(Compared[f], summary.counts)
    <3> DEFINE Differs(i) == Disagree(Compared[f], dataset[i].frap, dataset[i].fap)
    <3>1. Differing(dataset, Compared[f], total) = {i \in 1 .. total : Differs(i)}
      BY DEF Differing
    <3>2. \A i : i \in 1 .. Len(dataset) /\ i <= total <=> i \in 1 .. total
      BY <2>1, <2>3, SMT
    <3> HIDE DEF Differs
    <3>3. {i \in 1 .. Len(dataset) : i <= total /\ Differs(i)} = {i \in 1 .. total : Differs(i)}
      BY <3>2
    <3>4. Cardinality({i \in 1 .. total : Differs(i)}) = Differences(Compared[f], tally)
      BY <2>1, <3>1 DEF FieldAgrees
    <3> QED BY <2>2, <3>3, <3>4 DEF Differs
  <2> QED BY <2>4, ComparedAre DEF EveryDifferenceIsCounted
<1> QED BY <1>1, DiffInvariance, PTL

\* Each difference of the summary has its row in a report, of its field and its kind,
\* and every row is on the disk (fap-diff.rs:443-474).
THEOREM ReportsAlwaysBearItOut == Spec => []ReportsBearItOut
<1>1. DiffInv => ReportsBearItOut
  <2> SUFFICES ASSUME DiffInv, summary # Previous PROVE ReportsBearItOut
    BY DEF ReportsBearItOut
  <2>1. /\ summary = BuildSummary(tally) /\ RowsAgree(rows, tally)
        /\ \A r \in Report : stored[r] = Len(rows[r])
    BY DoneIs
  <2>2. summary.counts = tally
    BY <2>1 DEF BuildSummary
  <2>3. \A f \in 1 .. Len(Compared) :
          /\ Cardinality(RowsIn(rows["intentional"], Compared[f], Kinds))
               = CountOf(<<"intentional", Compared[f]>>, tally)
          /\ \A kind \in Kinds :
               Cardinality(RowsIn(rows["field"], Compared[f], {kind}))
                 = CountOf(<<kind, Compared[f]>>, tally)
    BY <2>1, ComparedAre DEF RowsAgree, FieldRowsAgree
  <2>4. /\ Len(rows["outcome"]) = CopiesOf("frap_only", tally) + CopiesOf("fap_only", tally)
        /\ Len(rows["position"]) = CountOf(<<"position_mismatches", "value">>, tally)
    BY <2>1 DEF RowsAgree
  <2> QED BY <2>1, <2>2, <2>3, <2>4 DEF ReportsBearItOut, RowsIn, Kinds
<1> QED BY <1>1, DiffInvariance, PTL
=============================================================================
