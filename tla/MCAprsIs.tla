------------------------------ MODULE MCAprsIs ------------------------------
(***************************************************************************)
(* The instance of AprsIs that TLC checks.  Framing needs only line feeds  *)
(* and other bytes, but many of them; decoding needs every class of byte   *)
(* but short lines.  A longer stream has two oversized lines with a line   *)
(* between them.                                                           *)
(***************************************************************************)
EXTENDS AprsIs, SequencesExt

UpTo(n, bytes) == UNION {[1 .. k -> bytes] : k \in 0 .. n}

LongStream == <<"x", "x", "x", "LF", "LF", "x", "x", "x", "LF">>

TextBytes == ByteClass \ {"x"}
TwoLines == {<<a, b, "LF", c>> : a \in TextBytes, b \in TextBytes, c \in {"#", "lead"}}

SomeStreams ==
  UpTo(6, {"LF", "x"}) \cup UpTo(3, TextBytes)
    \cup UNION {Prefixes(s) : s \in TwoLines \cup {LongStream}}
=============================================================================
