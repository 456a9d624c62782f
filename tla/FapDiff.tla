------------------------------ MODULE FapDiff ------------------------------
(***************************************************************************)
(* examples/fap-diff.rs: a reference parser runs as a child process and    *)
(* prints one line for each packet of the dataset; main reads the dataset  *)
(* and the lines side by side, tallies the differences, writes them to     *)
(* reports and at last puts a new summary in the place of the old one.     *)
(*                                                                         *)
(* The lines pass through the child's buffer and a pipe, in pieces: the    *)
(* model cuts each line in two.  Cursors into the sequence of pieces stand *)
(* for both, as pieces are neither lost nor reordered in between.  The     *)
(* child may die at any time, with what it has not yet sent; the disk may  *)
(* be full; main may be killed; and dataset-capture may still be adding    *)
(* packets to the dataset.  Which report a row goes to, and how its buffer *)
(* is written, is kept; the wording of rows and of the summary is not.     *)
(***************************************************************************)
EXTENDS OutcomeDiff, Bags

CONSTANTS
  Packets,     \* packets, each with what either parser makes of it
  MaxPackets,  \* bound: the packets of the dataset
  PipeSize     \* the pieces that the pipe holds

ASSUME PipeAssumption == MaxPackets \in Nat /\ PipeSize \in Nat \ {0}

\* A packet, whether its bytes are UTF-8 and whether they hold a DEL.
ASSUME PacketAssumption ==
  \A p \in Packets : IsFrapOutcome(p.frap) /\ p.fap \in Outcome /\ {p.utf8, p.del} \subseteq BOOLEAN

Report == {"outcome", "position", "field", "intentional"}

VARIABLES
  dataset,    \* the file that both processes read
  child,      \* the reference parser: "parsing", "ending", "exited" or "failed"
  parsed,     \* the packets for which the child has made a line
  sent,       \* the pieces of lines that the child has put into the pipe
  received,   \* the pieces that main has taken out of it
  pc,         \* what main does next
  fap,        \* the outcome that main compares: FapOutcome, or none
  index,      \* the next comparison of that packet; 0 before the first
  tally,      \* the Comparison: a bag of what has been counted
  rows,       \* the rows written to each report, with their lines
  stored,     \* how many of them have left main's buffers for the disk
  temporary,  \* summary.txt.tmp
  summary     \* summary.txt

childVars == <<child, parsed, sent>>
files == <<temporary, summary>>
working == <<index, tally, rows, stored>>
vars == <<dataset, childVars, received, pc, fap, working, files>>

\* The tally counts packets, or differences of a field.
Counter(name) == <<name, "packets">>
Count(t, keys) == t (+) SetToBag(keys)
CountOf(key, t) == IF BagIn(key, t) THEN t[key] ELSE 0
CopiesOf(name, t) == CountOf(Counter(name), t)
total == CopiesOf("total", tally)
Current == dataset[total]

\* A file with a summary in it: that of an earlier run, a part of one, or whole.
Previous == [state |-> "previous"]
Partial  == [state |-> "partial"]

BuildSummary(t) ==
  [state |-> "whole", packets |-> CopiesOf("total", t),
   frap_passes |-> CopiesOf("both_pass", t) + CopiesOf("frap_only", t),
   fap_passes  |-> CopiesOf("both_pass", t) + CopiesOf("fap_only", t),
   counts |-> t]

Ended == {"done", "failed", "killed"}
ChildEnded == {"exited", "failed"}

Init ==
  /\ dataset \in BoundedSeq(Packets, MaxPackets)
  /\ child = "parsing" /\ parsed = 0 /\ sent = 0 /\ received = 0
  /\ pc = "create" /\ fap = {} /\ index = 0 /\ tally = EmptyBag
  /\ rows = [r \in Report |-> <<>>] /\ stored = [r \in Report |-> 0]
  /\ temporary = Previous /\ summary = Previous

\* dataset-capture appends to the dataset while the two read it.
Grow ==
  /\ Len(dataset) < MaxPackets
  /\ \E p \in Packets : dataset' = Append(dataset, p)
  /\ UNCHANGED <<childVars, received, pc, fap, working, files>>

-----------------------------------------------------------------------------
(* The child: tools/perl-fap-outcomes.pl or tools/libfap-outcomes.c.       *)

ChildParse ==
  /\ child = "parsing" /\ parsed < Len(dataset)
  /\ parsed' = parsed + 1
  /\ UNCHANGED <<dataset, child, sent, received, pc, fap, working, files>>

ChildEof ==
  /\ child = "parsing" /\ parsed = Len(dataset)
  /\ child' = "ending"
  /\ UNCHANGED <<dataset, parsed, sent, received, pc, fap, working, files>>

\* A full buffer, or the end of the program, sends; a full pipe blocks.
ChildSend ==
  /\ child \in {"parsing", "ending"} /\ sent < 2 * parsed
  /\ pc \notin Ended /\ sent - received < PipeSize
  /\ sent' = sent + 1
  /\ UNCHANGED <<dataset, child, parsed, received, pc, fap, working, files>>

\* main has ended and closed the pipe: the next write is the child's last.
ChildBrokenPipe ==
  /\ child \in {"parsing", "ending"} /\ sent < 2 * parsed /\ pc \in Ended
  /\ child' = "failed"
  /\ UNCHANGED <<dataset, parsed, sent, received, pc, fap, working, files>>

ChildExit ==
  /\ child = "ending" /\ sent = 2 * parsed
  /\ child' = "exited"
  /\ UNCHANGED <<dataset, parsed, sent, received, pc, fap, working, files>>

ChildDies ==
  /\ child \in {"parsing", "ending"}
  /\ child' = "failed"
  /\ UNCHANGED <<dataset, parsed, sent, received, pc, fap, working, files>>

-----------------------------------------------------------------------------
(* main.                                                                   *)

\* An I/O error passes out of main through a question mark: the process ends.
Fail == pc' = "failed" /\ UNCHANGED <<dataset, childVars, fap, index, files>>

Create ==
  /\ pc = "create" /\ pc' \in {"read", "failed"}
  /\ UNCHANGED <<dataset, childVars, received, fap, working, files>>

\* The for loop takes the next packet of the dataset, or leaves.
ReadPacket ==
  /\ pc = "read"
  /\ pc' \in {IF total < Len(dataset) THEN "line" ELSE "extra", "failed"}
  /\ UNCHANGED <<dataset, childVars, received, fap, working, files>>

IsWithin == received % 2 = 1
IsEof == child \in ChildEnded /\ sent <= received

\* The BufReader takes the first piece of a line and waits for the rest.
TakeFront ==
  /\ pc \in {"line", "extra"} /\ received < sent /\ ~ IsWithin
  /\ received' = received + 1
  /\ UNCHANGED <<dataset, childVars, pc, fap, working, files>>

Compares(outcome) ==
  /\ pc' = "compare" /\ fap' = {outcome} /\ index' = 0
  /\ tally' = Count(tally, {Counter("total")})
  /\ UNCHANGED <<dataset, childVars, rows, stored, files>>

\* A whole line has forty fields.
TakeLine ==
  /\ pc = "line" /\ received < sent /\ IsWithin
  /\ received' = received + 1
  /\ Compares(dataset[total + 1].fap)

\* The child has gone in the middle of a line.  What is there has too few
\* fields, unless it lacks only the flag for weather, or the end of the line.  The
\* line is used up: received goes one beyond sent.
TakeCutLine ==
  /\ pc = "line" /\ IsEof /\ IsWithin
  /\ received' = received + 1
  /\ LET given == dataset[total + 1].fap IN
       \/ Compares(given)
       \/ Compares([given EXCEPT !.weather = FALSE])
       \/ Fail /\ UNCHANGED <<tally, rows, stored>>

\* "produced fewer outcomes than the dataset"
NoLine ==
  /\ pc = "line" /\ IsEof /\ ~ IsWithin
  /\ Fail /\ UNCHANGED <<received, tally, rows, stored>>

\* What is counted of a packet before its fields are looked at.
Arm(frap, reference) ==
  CASE frap.ok /\ reference.ok -> "both_pass"
    [] ~ frap.ok /\ ~ reference.ok -> "both_fail"
    [] frap.ok /\ ~ reference.ok -> "frap_only"
    [] ~ frap.ok /\ reference.ok -> "fap_only"

Position(frap, reference) == ComparePositions(frap.position, reference.position)

PacketKeys(frap, reference) ==
  {Counter(Arm(frap, reference))}
  \cup (IF Current.utf8 THEN {} ELSE {Counter("non_utf8")})
  \cup (IF Arm(frap, reference) = "both_pass" /\ Position(frap, reference) # "same"
        THEN {<<"position_mismatches", Position(frap, reference)>>} ELSE {})
  \cup (IF Arm(frap, reference) = "both_pass" /\ FrapPacketType(frap) # reference.packet_type
        THEN {Counter("type_mismatches")} ELSE {})

\* A position that differs, or a packet that only one parser accepts, has a row.
PacketRows(frap, reference) ==
  CASE Arm(frap, reference) \in {"frap_only", "fap_only"} -> {"outcome"}
    [] Arm(frap, reference) = "both_pass" /\ Position(frap, reference) = "value" -> {"position"}
    [] OTHER -> {}

\* What the row of a field adds to the tally.
FieldKeys(row, frap, reference) ==
  {<<IF IsIntentional(row) THEN "intentional" ELSE row.kind, row.name>>}
  \cup (IF row.name = "comment" /\ row.kind = "value" /\ ~ IsIntentional(row)
        THEN {<<"comment_deltas", CommentDelta(Text(frap.comment), Text(reference.comment))>>}
        ELSE {})

\* The row may be the one that makes the BufWriter write out those before it.
Write(report, row) ==
  /\ rows' = [rows EXCEPT ![report] = Append(@, <<total, row>>)]
  /\ stored' = stored \/ stored' = [stored EXCEPT ![report] = Len(rows[report])]

\* On to the next comparison, or to the next packet.
MoveOn ==
  /\ IF index < Len(Compared) /\ \E r \in fap : Arm(Current.frap, r) = "both_pass"
     THEN index' = index + 1 /\ UNCHANGED <<pc, fap>>
     ELSE index' = 0 /\ pc' = "read" /\ fap' = {}
  /\ UNCHANGED <<dataset, childVars, files>>

\* A mutant of WriteFails: the error is ignored.
WriteFailsUnnoticed == MoveOn /\ UNCHANGED <<rows, stored>>

WriteFails == Fail /\ UNCHANGED <<rows, stored>>

\* The match on both outcomes, and the first row.
Match ==
  /\ pc = "compare" /\ index = 0
  /\ \E reference \in fap :
       LET found == PacketRows(Current.frap, reference) IN
       /\ tally' = Count(tally, PacketKeys(Current.frap, reference))
       /\ \/ found = {} /\ MoveOn /\ UNCHANGED <<rows, stored>>
          \/ \E r \in found : Write(r, Row(r, "", "")) /\ MoveOn
          \/ found # {} /\ WriteFails
  /\ UNCHANGED received

\* One comparison of a field: a difference is counted, then written.
CompareField ==
  /\ pc = "compare" /\ index > 0
  /\ \E reference \in fap :
       LET found == Compare(Compared[index], Current.frap, reference, Current.del) IN
       /\ tally' = Count(tally, UNION {FieldKeys(r, Current.frap, reference) : r \in found})
       /\ \/ found = {} /\ MoveOn /\ UNCHANGED <<rows, stored>>
          \/ \E r \in found :
               Write(IF IsIntentional(r) THEN "intentional" ELSE "field", r) /\ MoveOn
          \/ found # {} /\ WriteFails
  /\ UNCHANGED received

\* A mutant of NoMoreLines: main waits for the child without a look at the pipe.
NoMoreLinesUnread ==
  /\ pc = "extra" /\ pc' = "wait"
  /\ UNCHANGED <<dataset, childVars, received, fap, working, files>>

\* One more line, or a part of it, is one too many.
NoMoreLines ==
  /\ pc = "extra"
  /\ \/ IsEof /\ ~ IsWithin /\ pc' = "wait" /\ UNCHANGED received
     \/ IsEof /\ IsWithin /\ pc' = "failed" /\ UNCHANGED received
     \/ received < sent /\ IsWithin /\ received' = received + 1 /\ pc' = "failed"
  /\ UNCHANGED <<dataset, childVars, fap, working, files>>

\* A mutant of Wait: how the child has ended is not looked at.
WaitForAny ==
  /\ pc = "wait" /\ child \in ChildEnded /\ pc' = "flush"
  /\ UNCHANGED <<dataset, childVars, received, fap, working, files>>

Wait ==
  /\ pc = "wait" /\ child \in ChildEnded
  /\ pc' = IF child = "exited" THEN "flush" ELSE "failed"
  /\ UNCHANGED <<dataset, childVars, received, fap, working, files>>

\* Four flushes, one after the other; then comment-deltas.tsv, from the tally.
Flush ==
  /\ pc = "flush"
  /\ \/ pc' = "summarise" /\ stored' = [r \in Report |-> Len(rows[r])]
     \/ Fail /\ UNCHANGED stored
  /\ UNCHANGED <<dataset, childVars, received, fap, index, tally, rows, files>>

\* A mutant of WriteSummary: it writes to summary.txt itself.
WriteSummaryInPlace ==
  \/ /\ pc = "summarise" /\ summary' = Partial /\ pc' = "writing"
     /\ UNCHANGED <<dataset, childVars, received, fap, working, temporary>>
  \/ /\ pc = "writing" /\ summary' = BuildSummary(tally) /\ pc' = "done"
     /\ UNCHANGED <<dataset, childVars, received, fap, working, temporary>>

\* fs::write truncates the file before it fills it.
WriteSummary ==
  /\ \/ pc = "summarise" /\ temporary' = Partial /\ pc' = "writing"
     \/ pc = "writing" /\ temporary' = BuildSummary(tally) /\ pc' = "rename"
     \/ pc \in {"summarise", "writing"} /\ pc' = "failed" /\ UNCHANGED temporary
  /\ UNCHANGED <<dataset, childVars, received, fap, working, summary>>

Rename ==
  /\ pc = "rename"
  /\ \/ pc' = "done" /\ summary' = temporary
     \/ pc' = "failed" /\ UNCHANGED summary
  /\ temporary' = IF pc' = "done" THEN Previous ELSE temporary
  /\ UNCHANGED <<dataset, childVars, received, fap, working>>

Killed ==
  /\ pc \notin Ended /\ pc' = "killed"
  /\ UNCHANGED <<dataset, childVars, received, fap, working, files>>

Over ==
  /\ pc \in Ended /\ child \in ChildEnded
  /\ UNCHANGED vars

-----------------------------------------------------------------------------
Child == ChildParse \/ ChildEof \/ ChildSend \/ ChildBrokenPipe \/ ChildExit

Main ==
  \/ Create \/ ReadPacket \/ TakeFront \/ TakeLine \/ TakeCutLine \/ NoLine
  \/ Match \/ CompareField \/ NoMoreLines \/ Wait \/ Flush \/ WriteSummary \/ Rename

Next == Grow \/ Child \/ ChildDies \/ Main \/ Killed \/ Over

Spec == Init /\ [][Next]_vars

\* Both processes are scheduled; parsing one packet takes finite time.
FairSpec == Spec /\ WF_vars(Child) /\ WF_vars(Main)

-----------------------------------------------------------------------------
\* README.md:268: "every run atomically refreshes `target/fap-diff/summary.txt`."
\* Whatever fails, dies or is killed, the file is that of an earlier run or whole;
\* and then it tells of every packet that the reference parser has read, each one
\* counted once, for what either parser makes of it (fap-diff.rs:109-475).
SummaryIsTrue ==
  \/ summary = Previous
  \/ /\ summary.state = "whole" /\ child = "exited" /\ summary.packets = parsed
     /\ summary.frap_passes = Cardinality({i \in 1 .. parsed : dataset[i].frap.ok})
     /\ summary.fap_passes = Cardinality({i \in 1 .. parsed : dataset[i].fap.ok})
     /\ parsed = CopiesOf("both_pass", summary.counts) + CopiesOf("both_fail", summary.counts)
                   + CopiesOf("frap_only", summary.counts) + CopiesOf("fap_only", summary.counts)

\* Do the parsers disagree on a field of a packet that both accept?
Disagree(name, frap, reference) ==
  /\ frap.ok /\ reference.ok
  /\ CASE name \in {"course", "gust"} ->
            /\ frap[name] \cup reference[name] # {}
            /\ \A a \in frap[name], b \in reference[name] : a - b \notin -Tolerance .. Tolerance
       [] name = "water_level" -> frap.water_level # {}
       [] name = "comment" ->
            frap.weather /\ reference.weather /\ frap.comment # reference.comment
       [] OTHER -> frap[name] # reference[name]

Differences(name, t) ==
  CountOf(<<"frap_only", name>>, t) + CountOf(<<"fap_only", name>>, t)
    + CountOf(<<"value", name>>, t) + CountOf(<<"intentional", name>>, t)

\* No disagreement is left out of the summary, and none is counted twice: not one
\* behind a line that the reference parser did not finish (fap-diff.rs:128-424).
EveryDifferenceIsCounted ==
  summary # Previous =>
    \A f \in 1 .. Len(Compared) :
      LET name == Compared[f] IN
        Cardinality({i \in 1 .. Len(dataset) :
                      i <= summary.packets /\ Disagree(name, dataset[i].frap, dataset[i].fap)})
        = Differences(name, summary.counts)

\* The summary points to reports that bear it out: when it is there, each of its
\* differences has had its row, and every row is on the disk (fap-diff.rs:443-474).
ReportsBearItOut ==
  summary # Previous =>
    /\ \A r \in Report : stored[r] = Len(rows[r])
    /\ Len(rows["outcome"]) = CopiesOf("frap_only", summary.counts) + CopiesOf("fap_only", summary.counts)
    /\ Len(rows["position"]) = CountOf(<<"position_mismatches", "value">>, summary.counts)
    /\ \A f \in 1 .. Len(Compared) :
         LET name == Compared[f]
             RowsIn(r, kinds) == Cardinality({i \in 1 .. Len(rows[r]) :
                                    rows[r][i][2].name = name /\ rows[r][i][2].kind \in kinds})
         IN  /\ RowsIn("intentional", {"frap_only", "fap_only", "value"})
                  = CountOf(<<"intentional", name>>, summary.counts)
             /\ \A kind \in {"frap_only", "fap_only", "value"} :
                  RowsIn("field", {kind}) = CountOf(<<kind, name>>, summary.counts)

\* The two processes end, whichever of them has more to say than the other: main
\* never waits for a child that waits for main (fap-diff.rs:456-462).
RunEnds == <>(pc \in Ended /\ child \in ChildEnded)
=============================================================================
