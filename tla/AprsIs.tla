------------------------------- MODULE AprsIs -------------------------------
(***************************************************************************)
(* The receiving half of AprsIsConnection (src/aprsis.rs): read_line and   *)
(* read_packet over a BufReader over a TCP stream.                         *)
(*                                                                         *)
(* stream holds every byte the server gets through to this side.  Three    *)
(* cursors cut it up: bytes up to filled have been read into the           *)
(* BufReader, bytes up to taken have been consumed from it by read_line,   *)
(* bytes up to start belong to lines that have been answered.  Only        *)
(* taken, filled, line_buffer and discarding are state of the code; start  *)
(* and results record what it did.                                         *)
(*                                                                         *)
(* A read is a future: its one await is fill_buf (line 93), so a timeout,  *)
(* or a caller that drops the future, can end it only there.               *)
(***************************************************************************)
EXTENDS LineText

CONSTANTS
  Byte,        \* the classes of bytes the server sends
  MaxLine,     \* MAX_APRS_IS_LINE_BYTES, terminator included
  BufSize,     \* capacity of the BufReader
  Streams,     \* bound: what the server may have sent at some time
  MaxResults   \* bound: replies after which the caller stops calling

ASSUME ByteAssumption == Byte \subseteq ByteClass
ASSUME SizeAssumption == MaxLine \in Nat /\ BufSize \in Nat \ {0}
ASSUME BoundAssumption == MaxResults \in Nat

VARIABLES
  stream,       \* the bytes sent to this side
  net,          \* "open", "fin" or "reset"
  filled,       \* bytes read from the socket into the BufReader
  taken,        \* bytes consumed from the BufReader
  line_buffer,  \* the unfinished line, kept across calls
  discarding,   \* discarding_oversized_line
  call,         \* "idle", "read_line" or "read_packet"
  start,        \* bytes accounted for by the replies so far
  results       \* the replies, each with the bytes it accounts for

netVars == <<stream, net>>
readerVars == <<filled, taken, line_buffer, discarding>>
replyVars == <<call, start, results>>
vars == <<netVars, readerVars, replyVars>>

Init ==
  /\ stream = <<>> /\ net = "open"
  /\ filled = 0 /\ taken = 0 /\ line_buffer = <<>> /\ discarding = FALSE
  /\ call = "idle" /\ start = 0 /\ results = <<>>

-----------------------------------------------------------------------------
(* The server and the network. *)

ServerWrite ==
  /\ net = "open"
  /\ \E b \in Byte : stream' = Append(stream, b)
  /\ stream' \in Streams
  /\ UNCHANGED <<net, readerVars, replyVars>>

ServerClose ==
  /\ net = "open" /\ net' = "fin"
  /\ UNCHANGED <<stream, readerVars, replyVars>>

\* A reset: bytes the BufReader has not read yet may be lost.
Reset ==
  /\ net = "open" /\ net' = "reset"
  /\ \E n \in filled .. Len(stream) : stream' = SubSeq(stream, 1, n)
  /\ UNCHANGED <<readerVars, replyVars>>

-----------------------------------------------------------------------------
(* The caller: one call at a time, for both methods take &mut self. *)

StartRead(method) ==
  /\ call = "idle" /\ Len(results) < MaxResults
  /\ call' = method
  /\ UNCHANGED <<netVars, readerVars, start, results>>

\* A mutant of Timeout: the unfinished line is lost with the call.
TimeoutForgetsLine ==
  /\ call # "idle" /\ taken = filled
  /\ call' = "idle" /\ line_buffer' = <<>>
  /\ UNCHANGED <<netVars, filled, taken, discarding, start, results>>

\* A mutant of Timeout: the timer runs only until a line begins.
TimeoutBetweenLines ==
  /\ call # "idle" /\ taken = filled /\ line_buffer = <<>> /\ ~ discarding
  /\ call' = "idle"
  /\ UNCHANGED <<netVars, readerVars, start, results>>

\* fill_buf waits for bytes: the timer fires, or the caller drops the future.
\* While the BufReader holds bytes the loop runs on without waiting.
Timeout ==
  /\ call # "idle" /\ taken = filled
  /\ call' = "idle"
  /\ UNCHANGED <<netVars, readerVars, start, results>>

CallerStops ==
  /\ call = "idle" /\ net # "open" /\ Len(results) >= MaxResults
  /\ UNCHANGED vars

-----------------------------------------------------------------------------
(* The loop of read_line. *)

\* An empty BufReader reads what has arrived, up to its capacity.
FillBuf ==
  /\ call # "idle" /\ taken = filled
  /\ \E n \in 1 .. BufSize :
       /\ filled + n <= Len(stream)
       /\ filled' = filled + n
  /\ UNCHANGED <<netVars, taken, line_buffer, discarding, replyVars>>

\* A mutant of Overflows: a line that just fits is refused.
OverflowsAtLimit(upto) == Len(line_buffer) + (upto - taken) >= MaxLine

\* Lines 110-117 for the bytes taken+1 .. upto.
Overflows(upto) == Len(line_buffer) + (upto - taken) > MaxLine

DiscardingAfter(upto) == discarding \/ Overflows(upto)

BufferAfter(upto) ==
  IF discarding THEN line_buffer
  ELSE IF Overflows(upto) THEN <<>>
  ELSE line_buffer \o SubSeq(stream, taken + 1, upto)

\* A mutant of TakeAll: the rest of an oversized line is dropped together with
\* the lines after it.
TakeAllDiscards ==
  /\ call # "idle" /\ taken < filled
  /\ discarding \/ \A i \in taken+1 .. filled : stream[i] # "LF"
  /\ line_buffer' = BufferAfter(filled)
  /\ discarding' = DiscardingAfter(filled)
  /\ taken' = filled
  /\ UNCHANGED <<netVars, filled, replyVars>>

\* The bytes in the BufReader do not finish the line: keep them all and loop.
TakeAll ==
  /\ call # "idle" /\ taken < filled
  /\ \A i \in taken+1 .. filled : stream[i] # "LF"
  /\ line_buffer' = BufferAfter(filled)
  /\ discarding' = DiscardingAfter(filled)
  /\ taken' = filled
  /\ UNCHANGED <<netVars, filled, replyVars>>

\* read_packet drops a comment and reads the next line, with a new timer.
Skips(reply) ==
  call = "read_packet" /\ reply.kind = "line" /\ IsComment(reply.text)

Answer(reply, upto) ==
  /\ results' = Append(results, [reply |-> reply, from |-> start,
                                 upto |-> upto, skipped |-> Skips(reply)])
  /\ call' = IF Skips(reply) THEN call ELSE "idle"
  /\ start' = upto

\* What lines 124-139 make of the buffer when the loop has broken.
FinishedReply(buffer, oversized) ==
  IF oversized THEN Reply("oversized") ELSE Decode(buffer)

\* A mutant of TakeLine: one byte too many is consumed.
TakeLineAndOne ==
  /\ call # "idle" /\ taken < filled
  /\ \E upto \in taken+1 .. filled :
       /\ stream[upto] = "LF"
       /\ \A i \in taken+1 .. upto-1 : stream[i] # "LF"
       /\ taken' = upto + 1
       /\ line_buffer' = IF DiscardingAfter(upto) THEN BufferAfter(upto)
                                                  ELSE <<>>
       /\ Answer(FinishedReply(BufferAfter(upto), DiscardingAfter(upto)), upto)
  /\ discarding' = FALSE
  /\ UNCHANGED <<netVars, filled>>

\* A mutant of TakeLine: the flag of an oversized line is not cleared.
TakeLineKeepsFlag ==
  /\ call # "idle" /\ taken < filled
  /\ \E upto \in taken+1 .. filled :
       /\ stream[upto] = "LF"
       /\ \A i \in taken+1 .. upto-1 : stream[i] # "LF"
       /\ taken' = upto
       /\ line_buffer' = <<>>
       /\ discarding' = DiscardingAfter(upto)
       /\ Answer(FinishedReply(BufferAfter(upto), DiscardingAfter(upto)), upto)
  /\ UNCHANGED <<netVars, filled>>

\* The bytes up to the first line feed finish the line.
TakeLine ==
  /\ call # "idle" /\ taken < filled
  /\ \E upto \in taken+1 .. filled :
       /\ stream[upto] = "LF"
       /\ \A i \in taken+1 .. upto-1 : stream[i] # "LF"
       /\ taken' = upto
       /\ line_buffer' = IF DiscardingAfter(upto) THEN BufferAfter(upto)
                                                  ELSE <<>>
       /\ Answer(FinishedReply(BufferAfter(upto), DiscardingAfter(upto)), upto)
  /\ discarding' = FALSE
  /\ UNCHANGED <<netVars, filled>>

Drained == taken = filled /\ filled = Len(stream)

\* A mutant of EofReply: what is left of an oversized line is forgotten.
EofReplyOfBuffer ==
  IF line_buffer = <<>> THEN Reply("eof") ELSE Reply("partial")

\* The reply at the end of the stream, lines 94-105 and 124-130.
EofReply ==
  IF discarding THEN Reply("oversized")
  ELSE IF line_buffer = <<>> THEN Reply("eof")
  ELSE Reply("partial")

\* A mutant of ReadEof: an oversized line must end before the loop does.
ReadEofOfLine ==
  /\ call # "idle" /\ net = "fin" /\ Drained /\ ~ discarding
  /\ Answer(EofReply, taken)
  /\ line_buffer' = <<>>
  /\ UNCHANGED <<netVars, filled, taken, discarding>>

ReadEof ==
  /\ call # "idle" /\ net = "fin" /\ Drained
  /\ Answer(EofReply, taken)
  /\ line_buffer' = IF discarding THEN line_buffer ELSE <<>>
  /\ discarding' = FALSE
  /\ UNCHANGED <<netVars, filled, taken>>

\* The ? on fill_buf: the error passes out, the unfinished line stays.
ReadError ==
  /\ call # "idle" /\ net = "reset" /\ Drained
  /\ net' = "fin"
  /\ Answer(Reply("io_error"), start)
  /\ UNCHANGED <<stream, readerVars>>

-----------------------------------------------------------------------------
Server == ServerWrite \/ ServerClose \/ Reset

Caller == (\E m \in {"read_line", "read_packet"} : StartRead(m)) \/ CallerStops

Reader == FillBuf \/ TakeAll \/ TakeLine \/ ReadEof \/ ReadError

Next == Server \/ Caller \/ Timeout \/ Reader

Spec == Init /\ [][Next]_vars

(***************************************************************************)
(* The caller goes on calling and the runtime polls a future that can go   *)
(* on.  Bytes on their way arrive however many calls time out meanwhile,   *)
(* so reading them is strongly fair.  The timer of a call fires.           *)
(***************************************************************************)
Fairness ==
  /\ WF_vars(\E m \in {"read_line", "read_packet"} : StartRead(m))
  /\ SF_vars(FillBuf)
  /\ WF_vars(TakeAll \/ TakeLine)
  /\ SF_vars(ReadEof) /\ SF_vars(ReadError)
  /\ WF_vars(Timeout)

FairSpec == Spec /\ Fairness

-----------------------------------------------------------------------------
(* Properties. *)

Result == [reply : [kind : Kinds, text : Seq(Byte)],
           from : Nat, upto : Nat, skipped : BOOLEAN]

\* Every variable has its type and the cursors are in order (the fields of
\* AprsIsConnection, aprsis.rs:42-47, and the stream they read).
TypeOK ==
  /\ stream \in Seq(Byte) /\ net \in {"open", "fin", "reset"}
  /\ start \in Nat /\ taken \in Nat /\ filled \in Nat
  /\ start <= taken /\ taken <= filled /\ filled <= Len(stream)
  /\ line_buffer \in Seq(Byte) /\ discarding \in BOOLEAN
  /\ call \in {"idle", "read_line", "read_packet"}
  /\ results \in Seq(Result)

\* Whatever calls timed out, were dropped or failed since, line_buffer holds
\* exactly the bytes of the unfinished line, within MAX_APRS_IS_LINE_BYTES;
\* when the line has outgrown the limit nothing of it is kept (aprsis.rs:110-117).
BufferHoldsLine ==
  /\ \A i \in start+1 .. taken : stream[i] # "LF"
  /\ IF discarding THEN taken - start > MaxLine /\ line_buffer = <<>>
     ELSE /\ taken - start <= MaxLine
          /\ line_buffer = SubSeq(stream, start + 1, taken)

\* The replies account for the bytes of the stream one after another
\* (aprsis.rs:90-144).
RepliesTileStream ==
  /\ \A i \in 1 .. Len(results) :
       /\ results[i].from <= results[i].upto /\ results[i].upto <= start
       /\ results[i].from = IF i = 1 THEN 0 ELSE results[i-1].upto
  /\ start = IF results = <<>> THEN 0 ELSE results[Len(results)].upto

FinishesLine(r) == r.upto > r.from /\ stream[r.upto] = "LF"

\* Each reply covers bytes of one line only, and a line that ends in a line
\* feed is answered by its own bytes, decoded (aprsis.rs:131-137), and by
\* InvalidData exactly when they are more than MAX_APRS_IS_LINE_BYTES.
RepliesDecodeLines ==
  \A i \in 1 .. Len(results) :
    LET r == results[i] IN
      /\ \A j \in r.from+1 .. r.upto-1 : stream[j] # "LF"
      /\ FinishesLine(r) =>
            r.reply = IF r.upto - r.from > MaxLine THEN Reply("oversized")
                      ELSE Decode(SubSeq(stream, r.from + 1, r.upto))

\* No byte of a line is lost, answered twice or moved to another line, and every
\* line gets the reply that its bytes call for, whatever the chunks, timeouts,
\* overflows and errors in between (aprsis.rs:90-144).
RepliesAreTheLines == RepliesTileStream /\ RepliesDecodeLines

EndKind(length) ==
  IF length > MaxLine THEN "oversized" ELSE IF length = 0 THEN "eof" ELSE "partial"

\* A reply that covers no finished line comes only at the end of the stream,
\* nothing that was sent and not lost is left unread behind it, and it tells an
\* oversized, an unfinished and no line apart (aprsis.rs:94-105,124-130).
EndRepliesAtEnd ==
  \A i \in 1 .. Len(results) :
    LET r == results[i] IN
      ~ FinishesLine(r) =>
         /\ net # "open" /\ taken = Len(stream)
         /\ r.reply \in {Reply("io_error"), Reply(EndKind(r.upto - r.from))}

\* A line that the server has finished is answered, unless a reset loses it:
\* timeouts, oversized lines before it and comments cannot hold it up for ever.
LinesAnswered ==
  (\E i \in start+1 .. Len(stream) : stream[i] = "LF")
     ~> (\A i \in start+1 .. Len(stream) : stream[i] # "LF")

\* No call of read_line or read_packet hangs: the answer or the timer ends it.
CallsReturn == (call # "idle") ~> (call = "idle")

\* The client implements what LineStream promises: the cursors of the BufReader,
\* the buffer and the flag are hidden.
Abstract == INSTANCE LineStream WITH
  Byte <- Byte, MaxLine <- MaxLine,
  stream <- stream, net <- net, start <- start, call <- call, results <- results
ImplementsLineStream == Abstract!Spec
=============================================================================
