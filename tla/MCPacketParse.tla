--------------------------- MODULE MCPacketParse ---------------------------
(***************************************************************************)
(* The instance of PacketParse that TLC checks: the lengths on both sides  *)
(* of every length the parser tests, and one that holds any two extensions *)
(* after a position.                                                       *)
(***************************************************************************)
EXTENDS PacketParse

Boundaries == 0 .. 14 \cup {19, 20, 21, 27, 30, 31, 36, 37, 45}
=============================================================================
