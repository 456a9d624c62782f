------------------------------ MODULE LineText ------------------------------
(***************************************************************************)
(* The bytes of an APRS-IS line, by what AprsIsConnection tells apart, and *)
(* what read_line makes of the bytes of one line (aprsis.rs:131-137).      *)
(*                                                                         *)
(* A byte is a line feed, a carriage return, the '#' that opens a server   *)
(* comment, the first or the second byte of a two-byte UTF-8 character, or *)
(* any other ASCII byte.  Two halves of a character let a line be cut in   *)
(* the middle of one.                                                      *)
(***************************************************************************)
EXTENDS Integers, Sequences

ByteClass == {"LF", "CR", "#", "lead", "cont", "x"}

Terminator == {"LF", "CR"}

\* n bytes of line are left once every trailing CR and LF is popped.
Keeps(line, n) ==
  /\ n > 0 => line[n] \notin Terminator
  /\ \A i \in n+1 .. Len(line) : line[i] \in Terminator

StripTerminator(line) ==
  SubSeq(line, 1, CHOOSE n \in 0 .. Len(line) : Keeps(line, n))

\* What String::from_utf8 accepts: both halves of a character, side by side.
IsUtf8(text) ==
  \A i \in 1 .. Len(text) :
    /\ text[i] = "lead" => i < Len(text) /\ text[i+1] = "cont"
    /\ text[i] = "cont" => i > 1 /\ text[i-1] = "lead"

IsComment(text) == text # <<>> /\ Head(text) = "#"

(***************************************************************************)
(* What one call of read_line tells its caller about a stretch of bytes.   *)
(* "eof" and "partial" are the two messages of UnexpectedEof, "oversized"  *)
(* and "not_utf8" those of InvalidData.  Only "line" carries text.         *)
(***************************************************************************)
Kinds == {"line", "oversized", "not_utf8", "eof", "partial", "io_error"}

Reply(kind) == [kind |-> kind, text |-> <<>>]

\* The reply for the bytes of a line that fits the buffer.
Decode(line) ==
  LET text == StripTerminator(line)
  IN  IF IsUtf8(text) THEN [kind |-> "line", text |-> text]
                      ELSE Reply("not_utf8")
=============================================================================
