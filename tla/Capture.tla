------------------------------ MODULE Capture ------------------------------
(***************************************************************************)
(* The loop of examples/dataset-capture.rs over the client of AprsIs: it   *)
(* calls read_packet until it has written packet_limit packets, goes on    *)
(* after a timeout and gives up at any other error.                        *)
(*                                                                         *)
(* Between the return of one read_packet and the next call the loop does   *)
(* not await, so what it makes of a reply is part of the step that         *)
(* answers.                                                                *)
(***************************************************************************)
EXTENDS AprsIs, FiniteSets

CONSTANT PacketLimit

ASSUME PacketLimitAssumption == PacketLimit \in Nat \ {0}

VARIABLES
  phase,     \* "running", "flushing", "done" or "failed"
  written    \* the packets written to the output; captured is their number

loopVars == <<phase, written>>
allVars == <<vars, loopVars>>

captured == Len(written)

CInit == Init /\ phase = "running" /\ written = <<>>

ReadPacket ==
  /\ phase = "running" /\ captured < PacketLimit
  /\ StartRead("read_packet")
  /\ UNCHANGED loopVars

\* Ok: the packet goes to the output, unless writing it fails.
Keep(text) ==
  \/ /\ written' = Append(written, text)
     /\ phase' = IF captured + 1 < PacketLimit THEN "running" ELSE "flushing"
  \/ phase' = "failed" /\ UNCHANGED written

\* The match on what read_packet returned; TimedOut never comes this way.
Handle(reply) ==
  IF reply.kind = "line" THEN Keep(reply.text)
  ELSE phase' = "failed" /\ UNCHANGED written

Answered ==
  /\ TakeLine \/ ReadEof \/ ReadError
  /\ IF call' = "idle" THEN Handle(results'[Len(results')].reply)
     ELSE UNCHANGED loopVars

\* The arm that continues: nothing is kept of a call that timed out.
TimedOut == Timeout /\ UNCHANGED loopVars

Flush ==
  /\ phase = "flushing" /\ phase' \in {"done", "failed"}
  /\ UNCHANGED <<vars, written>>

Exited ==
  /\ phase \in {"done", "failed"}
  /\ UNCHANGED allVars

CNext ==
  \/ Server /\ UNCHANGED loopVars
  \/ ReadPacket \/ TimedOut
  \/ (FillBuf \/ TakeAll) /\ UNCHANGED loopVars
  \/ Answered
  \/ Flush \/ Exited

CSpec == CInit /\ [][CNext]_allVars

\* As for AprsIs; the loop calls again whenever a call has timed out.
CFairness ==
  /\ WF_allVars(ReadPacket)
  /\ SF_allVars(FillBuf /\ UNCHANGED loopVars)
  /\ WF_allVars(TakeAll /\ UNCHANGED loopVars)
  /\ SF_allVars(Answered)
  /\ WF_allVars(Flush)

CFairSpec == CSpec /\ CFairness

-----------------------------------------------------------------------------
(* Properties. *)

\* The finished lines of the stream, and what LineStream answers to each.
LineEnds == {i \in 1 .. Len(stream) : stream[i] = "LF"}

Lines ==
  {line \in [from : {0} \cup LineEnds, upto : LineEnds] :
     line.from < line.upto /\ \A i \in line.from+1 .. line.upto-1 : stream[i] # "LF"}

ReplyTo(line) == Abstract!LineReply(line.from, line.upto)

\* The packets before the first line that cannot be decoded.
Packets ==
  {line \in Lines :
     /\ \A earlier \in Lines : earlier.upto <= line.upto => ReplyTo(earlier).kind = "line"
     /\ ~ IsComment(ReplyTo(line).text)}

\* The loop writes the packets of the stream, without its comments, in order
\* and without a gap, whatever timeouts interrupt it (dataset-capture.rs:53-63,
\* aprsis.rs:151-158).  It fails only because of a line that cannot be decoded,
\* the end of the connection or the output, never because of a timeout
\* (dataset-capture.rs:60), and does not end with packets unread that it wanted.
WritesThePackets ==
  /\ \E kept \in [1 .. captured -> Packets] :
       /\ \A k \in 1 .. captured : written[k] = ReplyTo(kept[k]).text
       /\ \A j, k \in 1 .. captured : j < k => kept[j].upto < kept[k].upto
       /\ \A packet \in Packets, k \in 1 .. captured :
            packet.upto <= kept[k].upto => \E j \in 1 .. captured : packet = kept[j]
       /\ phase = "failed" =>
            \/ results # <<>> /\ results[Len(results)].reply.kind # "line"
            \/ \E packet \in Packets : \A k \in 1 .. captured : packet # kept[k]
            \/ captured = PacketLimit
  /\ phase = "done" => captured = PacketLimit

\* When the server has sent enough packets, or has closed the connection, the
\* capture ends, however many reads time out first.
CaptureEnds ==
  (net = "fin" \/ (Cardinality(Packets) >= PacketLimit /\ net # "reset"))
     ~> (phase \in {"done", "failed"} \/ net = "reset")
=============================================================================
