----------------------------- MODULE KissFrame -----------------------------
(***************************************************************************)
(* A TNC2 packet on its way through tnc2_to_kiss and kiss_to_tnc2          *)
(* (src/frame.rs): its addresses are packed into an AX.25 UI frame, which  *)
(* KissStuffing carries over, and unpacked again.                          *)
(*                                                                         *)
(* The seven bytes of an AX.25 address are one cell of the frame here: its *)
(* base call, and the seventh byte, in which SSID, repeated bit and last   *)
(* bit share the room.  None of them is FEND or FESC, since a capital or a *)
(* digit is shifted by one bit and the seventh byte has the bits 0x60, so  *)
(* stuffing leaves them alone.                                             *)
(***************************************************************************)
EXTENDS KissStuffing

CONSTANTS
  Octet,      \* the bytes of a body
  Port0, UI, NoLayer3,   \* the KISS command byte, the control byte, the PID
  Packets,    \* the packets that are sent
  Bases,      \* base calls of one to six capitals and digits
  BadBases    \* other base calls

VARIABLES
  packet,     \* the packet
  step,       \* "tnc2", "refused", "kiss" or "decoded"
  result      \* what kiss_to_tnc2 returns, a set of one packet or none

allVars == <<vars, packet, step, result>>

NoSsid == -1

\* An SSID may be written with zeros in front.
Call == [base : Bases \cup BadBases, ssid : Nat \cup {NoSsid}, zeros : Nat]

ASSUME FrameAssumption ==
  /\ Bases \cap BadBases = {}
  /\ Octet \cup {Port0, UI, NoLayer3} \subseteq Byte
  /\ [base : Bases, octet : 0 .. 255] \subseteq Byte

ASSUME PacketsAssumption ==
  Packets \subseteq [source : Call, destination : Call,
                     path : Seq([call : Call, repeated : BOOLEAN]), body : Seq(Octet)]

\* The seventh byte: 0x60 | ssid << 1 | last | 0x80.
SsidOctet(ssid, repeated, last) ==
  (IF repeated THEN 128 ELSE 0) + 96 + 2 * ssid + (IF last THEN 1 ELSE 0)

\* encode_address: the last address of the route has the last bit set.
Address(call, repeated, last) ==
  [base |-> call.base,
   octet |-> SsidOctet(IF call.ssid = NoSsid THEN 0 ELSE call.ssid, repeated, last)]

\* ax25_parts.
IsAx25(call) == call.base \notin BadBases /\ call.ssid <= 15

\* A mutant of Accepted: the route is not limited.
AcceptedAnyRoute ==
  /\ packet.body # <<>>
  /\ IsAx25(packet.source) /\ IsAx25(packet.destination)
  /\ \A i \in 1 .. Len(packet.path) : IsAx25(packet.path[i].call)

Accepted ==
  /\ packet.body # <<>> /\ Len(packet.path) <= 8
  /\ IsAx25(packet.source) /\ IsAx25(packet.destination)
  /\ \A i \in 1 .. Len(packet.path) : IsAx25(packet.path[i].call)

Ax25 ==
  LET hops == Len(packet.path)
  IN  << Port0, Address(packet.destination, TRUE, FALSE),
         Address(packet.source, FALSE, hops = 0) >>
      \o [i \in 1 .. hops |->
            Address(packet.path[i].call, packet.path[i].repeated, i = hops)]
      \o <<UI, NoLayer3>> \o packet.body

\* A mutant of SsidOf: a bit above the SSID is read with it.
SsidOfFiveBits(address) == (address.octet \div 2) % 32

\* What kiss_to_tnc2 reads in the seventh byte.
SsidOf(address) == (address.octet \div 2) % 16
IsRepeated(address) == address.octet >= 128
IsLast(address) == address.octet % 2 = 1

\* The address cells that the loop of kiss_to_tnc2 reads: up to the first that
\* is marked as the last, and ten at most.
IsAddress(cell) == cell \in [base : Bases, octet : 0 .. 255]

Route(frame) ==
  {n \in 1 .. 10 :
     /\ n + 1 <= Len(frame)
     /\ \A i \in 2 .. n + 1 : IsAddress(frame[i]) /\ IsLast(frame[i]) = (i = n + 1)}

CallOf(address) ==
  [base |-> address.base, ssid |-> IF SsidOf(address) = 0 THEN NoSsid ELSE SsidOf(address),
   zeros |-> 0]

\* What kiss_to_tnc2 makes of the bytes it has unstuffed.  A frame with two
\* addresses has seventeen bytes, so the test for sixteen decides nothing more.
KissToTnc2(frame) ==
  { [source |-> CallOf(frame[3]), destination |-> CallOf(frame[2]),
     path |-> [i \in 1 .. n - 2 |-> [call |-> CallOf(frame[i + 3]),
                                     repeated |-> IsRepeated(frame[i + 3])]],
     body |-> SubSeq(frame, n + 4, Len(frame))]
    : n \in {m \in Route(frame) :
               /\ m >= 2 /\ frame[1] = Port0 /\ m + 3 <= Len(frame)
               /\ frame[m + 2] = UI /\ frame[m + 3] = NoLayer3} }

KInit == Init /\ packet \in Packets /\ step = "tnc2" /\ result = {}

Refuse ==
  /\ step = "tnc2" /\ ~ Accepted /\ step' = "refused"
  /\ UNCHANGED <<vars, packet, result>>

Encode ==
  /\ step = "tnc2" /\ Accepted /\ step' = "kiss"
  /\ Load(Ax25)
  /\ UNCHANGED <<packet, result>>

Transfer == step = "kiss" /\ Carry /\ UNCHANGED <<packet, step, result>>

Decode ==
  /\ step = "kiss" /\ phase = "done" /\ step' = "decoded"
  /\ result' = KissToTnc2(unstuffed)
  /\ UNCHANGED <<vars, packet>>

Ended == step \in {"refused", "decoded"} /\ UNCHANGED allVars

KNext == Refuse \/ Encode \/ Transfer \/ Decode \/ Ended

KSpec == KInit /\ [][KNext]_allVars

-----------------------------------------------------------------------------
(* Properties. *)

\* SSID 0 and no SSID are one address on the air; the packet comes back without,
\* and without zeros in front of an SSID.
Plain(call) == [call EXCEPT !.ssid = IF @ = 0 THEN NoSsid ELSE @, !.zeros = 0]
PlainHop(hop) == [hop EXCEPT !.call = Plain(@)]

\* README.md:103-104: both functions "use byte vectors so binary APRS information
\* fields round-trip without UTF-8 conversion".  Every packet that tnc2_to_kiss
\* accepts comes back from kiss_to_tnc2, with its route, the marks of the
\* digipeaters that repeated it and its body, but for how an SSID is written.
PacketComesBack ==
  step = "decoded" =>
    result = { [packet EXCEPT !.source = Plain(@), !.destination = Plain(@),
                  !.path = [i \in 1 .. Len(@) |-> PlainHop(@[i])]] }
=============================================================================
