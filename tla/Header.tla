------------------------------- MODULE Header -------------------------------
(***************************************************************************)
(* How the parser reads the header of a packet: parse_header_fields and    *)
(* check_ax25_call (src/packet/parser.rs), strictly and loosely.  Which    *)
(* error it reports is left out.                                           *)
(***************************************************************************)
EXTENDS KissFrame

CONSTANTS
  Capitals,      \* for base calls with small letters, the same in capitals
  LooseSources,  \* other base calls of the characters that a loose source may have
  LoosePaths     \* and those that an entry of a loose path may have

ASSUME HeaderAssumption ==
  /\ DOMAIN Capitals \subseteq BadBases /\ \A base \in DOMAIN Capitals : Capitals[base] \in Bases
  /\ LoosePaths \subseteq LooseSources /\ LooseSources \subseteq BadBases \ DOMAIN Capitals

Capital(call) == IF call.base \in DOMAIN Capitals THEN [call EXCEPT !.base = Capitals[@]] ELSE call

Digits(call) == call.zeros + (IF call.ssid < 10 THEN 1 ELSE 2)

\* A mutant of CheckAx25Call: 15 is no SSID.
CheckAx25CallTo14(call) ==
  {c \in {Capital(call)} :
     c.base \in Bases /\ (c.ssid = NoSsid \/ (Digits(c) <= 2 /\ c.ssid < 15))}

CheckAx25Call(call) ==
  {c \in {Capital(call)} :
     c.base \in Bases /\ (c.ssid = NoSsid \/ (Digits(c) <= 2 /\ c.ssid <= 15))}

\* valid_loose_call_byte and valid_path_byte: any SSID, and no capitals.
LooseCall(call, others) == {c \in {call} : c.base \in Bases \cup DOMAIN Capitals \cup others}

\* The call in a set of one.
TheCall(calls) == CHOOSE call \in calls : TRUE

\* What becomes of the source or of an entry of the route.
Read(call, strict, others) == IF strict THEN CheckAx25Call(call) ELSE LooseCall(call, others)

HeaderOf(p) == [source |-> p.source, destination |-> p.destination, path |-> p.path]

\* split_packet and parse_header_fields: a header, or nothing if it is refused.
ParseHeader(p, strict) ==
  LET hops == [i \in 1 .. Len(p.path) |-> Read(p.path[i].call, strict, LoosePaths)]
  IN  IF \/ p.body = <<>> \/ (strict /\ Len(p.path) > 8)
         \/ \E i \in 1 .. Len(p.path) : hops[i] = {}
      THEN {}
      ELSE {[source |-> source, destination |-> destination,
             path |-> [i \in 1 .. Len(p.path) |->
                         [p.path[i] EXCEPT !.call = TheCall(hops[i])]]] :
              source \in Read(p.source, strict, LooseSources),
              destination \in CheckAx25Call(p.destination)}
=============================================================================
