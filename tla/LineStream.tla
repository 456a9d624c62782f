----------------------------- MODULE LineStream -----------------------------
(***************************************************************************)
(* What AprsIsConnection promises about the byte stream of its server,     *)
(* without its buffers: the stream is cut into lines, each line is         *)
(* answered once, in order, by the reply its bytes call for, and a call    *)
(* that is given up leaves the stream as it found it.                      *)
(*                                                                         *)
(* AprsIs, the model of the code, implements this specification.           *)
(***************************************************************************)
EXTENDS LineText

CONSTANTS
  Byte,      \* the bytes a server sends
  MaxLine    \* MAX_APRS_IS_LINE_BYTES: the longest line, terminator included

VARIABLES
  stream,    \* every byte that reaches this end of the connection, in order
  net,       \* "open", "fin" (the server closed) or "reset"
  start,     \* how many bytes of stream earlier replies account for
  call,      \* "idle", or the call in progress
  results    \* every reply, with the bytes start+1 .. upto it accounts for

vars == <<stream, net, start, call, results>>

\* The reply that a whole line, stream[from+1 .. upto], calls for.
LineReply(from, upto) ==
  IF upto - from > MaxLine THEN Reply("oversized")
                           ELSE Decode(SubSeq(stream, from + 1, upto))

\* The reply that the end of the stream calls for after an unfinished line.
EndReply(from, upto) ==
  IF upto - from > MaxLine THEN Reply("oversized")
  ELSE IF upto = from THEN Reply("eof")
  ELSE Reply("partial")

\* read_packet goes on to the next line after a comment.
Skips(reply) ==
  call = "read_packet" /\ reply.kind = "line" /\ IsComment(reply.text)

Record(reply, upto) ==
  results' = Append(results, [reply |-> reply, from |-> start, upto |-> upto,
                              skipped |-> Skips(reply)])

Init ==
  /\ stream = <<>> /\ net = "open" /\ start = 0
  /\ call = "idle" /\ results = <<>>

Write ==
  /\ net = "open"
  /\ \E b \in Byte : stream' = Append(stream, b)
  /\ UNCHANGED <<net, start, call, results>>

Finish ==
  /\ net = "open" /\ net' = "fin"
  /\ UNCHANGED <<stream, start, call, results>>

\* A reset connection may lose bytes that no reply accounts for yet.
Reset ==
  /\ net = "open" /\ net' = "reset"
  /\ \E n \in start .. Len(stream) : stream' = SubSeq(stream, 1, n)
  /\ UNCHANGED <<start, call, results>>

Call ==
  /\ call = "idle" /\ call' \in {"read_line", "read_packet"}
  /\ UNCHANGED <<stream, net, start, results>>

GiveUp ==
  /\ call # "idle" /\ call' = "idle"
  /\ UNCHANGED <<stream, net, start, results>>

AnswerLine ==
  /\ call # "idle"
  /\ \E upto \in start+1 .. Len(stream) :
       /\ stream[upto] = "LF"
       /\ \A i \in start+1 .. upto-1 : stream[i] # "LF"
       /\ LET reply == LineReply(start, upto)
          IN  /\ Record(reply, upto)
              /\ call' = IF Skips(reply) THEN call ELSE "idle"
       /\ start' = upto
  /\ UNCHANGED <<stream, net>>

NoLineLeft == \A i \in start+1 .. Len(stream) : stream[i] # "LF"

AnswerEnd ==
  /\ call # "idle" /\ call' = "idle"
  /\ net = "fin" /\ NoLineLeft
  /\ Record(EndReply(start, Len(stream)), Len(stream))
  /\ start' = Len(stream)
  /\ UNCHANGED <<stream, net>>

\* A reset is reported once; after it the connection reads as closed.
AnswerReset ==
  /\ call # "idle" /\ call' = "idle"
  /\ net = "reset" /\ net' = "fin" /\ NoLineLeft
  /\ Record(Reply("io_error"), start)
  /\ UNCHANGED <<stream, start>>

Next ==
  \/ Write \/ Finish \/ Reset
  \/ Call \/ GiveUp
  \/ AnswerLine \/ AnswerEnd \/ AnswerReset

Spec == Init /\ [][Next]_vars
=============================================================================
