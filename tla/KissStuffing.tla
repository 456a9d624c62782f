---------------------------- MODULE KissStuffing ----------------------------
(***************************************************************************)
(* KISS byte stuffing: the loop of tnc2_to_kiss that writes an AX.25 frame *)
(* between two FENDs, and the loop of kiss_to_tnc2 that reads what stands  *)
(* between them (src/frame.rs).  One step is one turn of a loop.           *)
(***************************************************************************)
EXTENDS Integers, Sequences

CONSTANTS
  Byte,                      \* what a frame is made of: bytes, and cells of them
  FEND, FESC, TFEND, TFESC   \* the four bytes of KISS

ASSUME KissAssumption ==
  /\ {FEND, FESC, TFEND, TFESC} \subseteq Byte
  /\ FEND \notin {FESC, TFEND, TFESC}
  /\ FESC \notin {TFEND, TFESC} /\ TFEND # TFESC

VARIABLES
  phase,       \* "idle", "stuffing", "unstuffing" or "done"
  ax25,        \* the frame
  sent,        \* bytes of the frame that are on the wire
  wire,        \* the bytes between the FENDs
  marks,       \* the length of the wire before the frame and after each byte of it
  index,       \* bytes of the wire that have been read
  unstuffed    \* what they stand for

vars == <<phase, ax25, sent, wire, marks, index, unstuffed>>

Init ==
  /\ phase = "idle" /\ ax25 = <<>>
  /\ sent = 0 /\ wire = <<>> /\ marks = <<0>>
  /\ index = 0 /\ unstuffed = <<>>

\* Each call of the two functions starts afresh.
Load(frame) ==
  /\ phase \in {"idle", "done"} /\ phase' = "stuffing"
  /\ ax25' = frame
  /\ sent' = 0 /\ wire' = <<>> /\ marks' = <<0>>
  /\ index' = 0 /\ unstuffed' = <<>>

\* Two mutants of Stuffed: one of the bytes with a meaning is written as it is.
StuffedFend(byte) == IF byte = FEND THEN <<FESC, TFEND>> ELSE <<byte>>
StuffedFesc(byte) == IF byte = FESC THEN <<FESC, TFESC>> ELSE <<byte>>

Stuffed(byte) ==
  IF byte = FEND THEN <<FESC, TFEND>>
  ELSE IF byte = FESC THEN <<FESC, TFESC>>
  ELSE <<byte>>

StuffByte ==
  /\ phase = "stuffing" /\ sent < Len(ax25)
  /\ wire' = wire \o Stuffed(ax25[sent + 1])
  /\ sent' = sent + 1
  /\ marks' = Append(marks, Len(wire'))
  /\ UNCHANGED <<phase, ax25, index, unstuffed>>

StuffEnd ==
  /\ phase = "stuffing" /\ sent = Len(ax25)
  /\ phase' = "unstuffing"
  /\ UNCHANGED <<ax25, sent, wire, marks, index, unstuffed>>

\* A mutant of Escaped: an escape at the very end is not expected.
EscapedBeforeEnd ==
  /\ index + 2 < Len(wire) /\ wire[index + 1] = FESC
  /\ wire[index + 2] \in {TFEND, TFESC}

Escaped ==
  /\ index + 1 < Len(wire) /\ wire[index + 1] = FESC
  /\ wire[index + 2] \in {TFEND, TFESC}

UnstuffEscape ==
  /\ phase = "unstuffing" /\ Escaped
  /\ unstuffed' = Append(unstuffed, IF wire[index + 2] = TFEND THEN FEND ELSE FESC)
  /\ index' = index + 2
  /\ UNCHANGED <<phase, ax25, sent, wire, marks>>

UnstuffByte ==
  /\ phase = "unstuffing" /\ index < Len(wire) /\ ~ Escaped
  /\ unstuffed' = Append(unstuffed, wire[index + 1])
  /\ index' = index + 1
  /\ UNCHANGED <<phase, ax25, sent, wire, marks>>

UnstuffEnd ==
  /\ phase = "unstuffing" /\ index = Len(wire)
  /\ phase' = "done"
  /\ UNCHANGED <<ax25, sent, wire, marks, index, unstuffed>>

Carry == StuffByte \/ StuffEnd \/ UnstuffEscape \/ UnstuffByte \/ UnstuffEnd

Next == (\E frame \in Seq(Byte) : Load(frame)) \/ Carry

Spec == Init /\ [][Next]_vars

-----------------------------------------------------------------------------
(* Properties. *)

TypeOK ==
  /\ phase \in {"idle", "stuffing", "unstuffing", "done"}
  /\ ax25 \in Seq(Byte) /\ wire \in Seq(Byte) /\ unstuffed \in Seq(Byte)
  /\ sent \in Nat /\ index \in 0 .. Len(wire)
  /\ marks \in Seq(Nat)

\* No FEND stands inside a frame, so that a receiver which cuts the wire at the
\* FENDs gets one frame for each that was sent (frame.rs:144-153).
OneFrameOnTheWire == \A i \in 1 .. Len(wire) : wire[i] # FEND

\* What is read is what was sent, byte for byte: no data byte is taken for an
\* escape and no escape for data, wherever they stand (frame.rs:16-34,146-152).
ReadsWhatWasSent ==
  /\ Len(unstuffed) <= Len(ax25)
  /\ \A i \in 1 .. Len(unstuffed) : unstuffed[i] = ax25[i]
  /\ phase = "done" => unstuffed = ax25

\* Each byte that is on the wire has its own stretch of it.
WireIsStuffed ==
  /\ sent <= Len(ax25) /\ Len(marks) = sent + 1
  /\ marks[1] = 0 /\ marks[sent + 1] = Len(wire)
  /\ \A k \in 1 .. sent :
       /\ marks[k + 1] = marks[k] + Len(Stuffed(ax25[k]))
       /\ marks[k + 1] <= Len(wire)
       /\ \A j \in 1 .. Len(Stuffed(ax25[k])) :
            wire[marks[k] + j] = Stuffed(ax25[k])[j]

\* The reader stands at the end of a byte of the frame, never in an escape.
ReaderAtMark ==
  /\ Len(unstuffed) <= sent /\ index = marks[Len(unstuffed) + 1]
  /\ phase \in {"unstuffing", "done"} => sent = Len(ax25)
  /\ phase \in {"idle", "stuffing"} => index = 0 /\ unstuffed = <<>>
  /\ phase = "idle" => sent = 0
=============================================================================
