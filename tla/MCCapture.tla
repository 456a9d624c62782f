----------------------------- MODULE MCCapture -----------------------------
(***************************************************************************)
(* The instance of Capture that TLC checks: comments, packets, a byte that *)
(* is not UTF-8 and lines that are too long.                               *)
(***************************************************************************)
EXTENDS Capture

CaptureBytes == {"LF", "#", "x", "lead"}
CaptureStreams == UNION {[1 .. k -> CaptureBytes] : k \in 0 .. 5}
=============================================================================
