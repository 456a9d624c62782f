--------------------------- MODULE Journey_proofs ---------------------------
(***************************************************************************)
(* Proofs about KissFrame and Journey.  The frame that tnc2_to_kiss makes  *)
(* of any packet is one that KissStuffing carries, so what is proved there *)
(* holds here, and kiss_to_tnc2 finds the packet in it again.  Over any    *)
(* number of links, through digipeaters and gateways, every packet that is *)
(* accepted comes back, the encoder and the parser agree on what a call    *)
(* is, copies are duplicates, hops are counted, and a message is read back *)
(* as it was written exactly if its text speaks for itself.                *)
(***************************************************************************)
EXTENDS Journey, KissStuffing_proofs, FiniteSetTheorems, WellFoundedInduction

-----------------------------------------------------------------------------
(* One link: the frame of a packet.                                        *)

\* The seventh byte of an address holds three things apart (frame.rs:57-65,251-256).
LEMMA SsidOctetIs ==
  ASSUME NEW n \in 0 .. 15, NEW repeated \in BOOLEAN, NEW last \in BOOLEAN
  PROVE  LET octet == SsidOctet(n, repeated, last)
         IN  /\ octet \in 0 .. 255 /\ (octet \div 2) % 16 = n
             /\ octet >= 128 <=> repeated
             /\ octet % 2 = 1 <=> last
<1>1. CASE repeated
  BY <1>1, SMTT(60) DEF SsidOctet
<1>2. CASE ~ repeated
  BY <1>2, SMTT(60) DEF SsidOctet
<1> QED BY <1>1, <1>2

\* An accepted call makes an address cell of the frame (frame.rs:251-256).
LEMMA AddressIsByte ==
  ASSUME NEW call \in Call, IsAx25(call), NEW repeated \in BOOLEAN, NEW last \in BOOLEAN
  PROVE  Address(call, repeated, last) \in Byte
<1>1. call.base \in Bases /\ call.ssid \in Nat \cup {NoSsid} /\ call.ssid <= 15
  BY DEF Call, IsAx25
<1>2. (IF call.ssid = NoSsid THEN 0 ELSE call.ssid) \in 0 .. 15
  BY <1>1 DEF NoSsid
<1>3. Address(call, repeated, last).octet \in 0 .. 255
  BY <1>2, SsidOctetIs DEF Address
<1>4. Address(call, repeated, last) \in [base : Bases, octet : 0 .. 255]
  BY <1>1, <1>3 DEF Address
<1> QED BY <1>4, FrameAssumption

\* A packet whose body is over any set of bytes.
Hop == [call : Call, repeated : BOOLEAN]
PacketOver(S) == [source : Call, destination : Call, path : Seq(Hop), body : Seq(S)]

\* What a packet is made of.
LEMMA PacketFields ==
  ASSUME NEW S, NEW p \in PacketOver(S)
  PROVE  /\ p.source \in Call /\ p.destination \in Call
         /\ p.path \in Seq(Hop) /\ p.body \in Seq(S)
<1> DEFINE Path == Seq(Hop)
           Body == Seq(S)
<1>1. p \in [source : Call, destination : Call, path : Path, body : Body]
  BY DEF PacketOver
<1> HIDE DEF Path, Body
<1>2. p.source \in Call /\ p.destination \in Call /\ p.path \in Path /\ p.body \in Body
  BY <1>1
<1> QED BY <1>2 DEF Path, Body

\* Short sequences of elements of a set.
LEMMA SeqOfThree ==
  ASSUME NEW S, NEW a \in S, NEW b \in S, NEW c \in S
  PROVE  <<a, b, c>> \in Seq(S) /\ <<a, b>> \in Seq(S)
OBVIOUS

\* The frame of an accepted packet is a sequence of bytes (frame.rs:118-142).
LEMMA Ax25IsFrame ==
  ASSUME NEW S, packet \in PacketOver(S), Accepted
  PROVE  Ax25 \in Seq(Byte \cup S)
<1> DEFINE Cell == Byte \cup S
           hops == Len(packet.path)
           cell(i) == Address(packet.path[i].call, packet.path[i].repeated, i = hops)
           to == Address(packet.destination, TRUE, FALSE)
           from == Address(packet.source, FALSE, hops = 0)
<1>1. /\ packet.source \in Call /\ packet.destination \in Call
      /\ packet.path \in Seq(Hop) /\ packet.body \in Seq(S)
  BY packet \in PacketOver(S), PacketFields
<1>2. hops \in Nat
  BY <1>1
<1>3. (hops = 0) \in BOOLEAN /\ \A i \in 1 .. hops : (i = hops) \in BOOLEAN
  OBVIOUS
<1>4. to \in Cell /\ from \in Cell
  BY <1>1, <1>3, AddressIsByte, Accepted DEF Accepted
<1>5. ASSUME NEW i \in 1 .. hops PROVE cell(i) \in Cell
  <2>1. packet.path[i] \in Hop
    BY <1>1, <1>5, ElementOfSeq
  <2>2. packet.path[i].call \in Call /\ packet.path[i].repeated \in BOOLEAN
    BY <2>1 DEF Hop
  <2>3. IsAx25(packet.path[i].call)
    BY Accepted, <1>5 DEF Accepted
  <2> QED BY <1>3, <2>2, <2>3, AddressIsByte
<1> HIDE DEF cell, to, from
<1>6. [i \in 1 .. hops |-> cell(i)] \in Seq(Cell)
  BY <1>2, <1>5
<1>7. Port0 \in Cell /\ UI \in Cell /\ NoLayer3 \in Cell /\ packet.body \in Seq(Cell)
  BY <1>1, FrameAssumption, SeqMonotonic
<1>8. <<Port0, to, from>> \in Seq(Cell) /\ <<UI, NoLayer3>> \in Seq(Cell)
  BY <1>4, <1>7, SeqOfThree
<1>9. <<Port0, to, from>> \o [i \in 1 .. hops |-> cell(i)] \o <<UI, NoLayer3>>
        \o packet.body \in Seq(Cell)
  <2> HIDE DEF hops
  <2>1. <<Port0, to, from>> \o [i \in 1 .. hops |-> cell(i)] \in Seq(Cell)
    BY <1>6, <1>8, ConcatProperties
  <2>2. <<Port0, to, from>> \o [i \in 1 .. hops |-> cell(i)] \o <<UI, NoLayer3>> \in Seq(Cell)
    BY <2>1, <1>8, ConcatProperties
  <2> QED BY <2>2, <1>7, ConcatProperties
<1> QED BY <1>9 DEF Ax25, cell, to, from

\* Every step of KissFrame is a step of KissStuffing or leaves its variables alone.
LEMMA StepIsStuffing ==
  ASSUME packet \in Packets, [KNext]_allVars
  PROVE  [Next]_vars /\ packet' \in Packets
<1>0. packet \in PacketOver(Octet) /\ Byte \cup Octet = Byte
  BY PacketsAssumption, FrameAssumption DEF PacketOver, Hop
<1>1. CASE Refuse \/ Decode \/ Ended \/ UNCHANGED allVars
  BY <1>1, packet \in Packets DEF Refuse, Decode, Ended, allVars
<1>2. CASE Encode
  BY <1>0, <1>2, Ax25IsFrame, packet \in Packets DEF Encode, Next
<1>3. CASE Transfer
  BY <1>3, packet \in Packets DEF Transfer, Next
<1> QED BY <1>1, <1>2, <1>3, [KNext]_allVars DEF KNext

\* Whatever packet is sent, KissStuffing runs inside KissFrame.
THEOREM KissFrameStuffs == KSpec => Spec
<1> DEFINE Known == packet \in Packets
<1>1. KInit => Init /\ Known
  BY DEF KInit
<1>2. Known /\ [KNext]_allVars => [Next]_vars /\ Known'
  BY StepIsStuffing
<1> HIDE DEF Known
<1> QED BY <1>1, <1>2, PTL DEF KSpec, Spec

\* kiss_to_tnc2 unstuffs the very frame that tnc2_to_kiss has made of a packet,
\* whatever its route and body (frame.rs:16-34,99-155).
THEOREM KissRoundTrip == KSpec => [](ReadsWhatWasSent /\ OneFrameOnTheWire)
BY KissFrameStuffs, StuffingRoundTrip, StuffingFrames, PTL
-----------------------------------------------------------------------------
(* kiss_to_tnc2 undoes tnc2_to_kiss, for a body over any set of bytes.     *)

\* The fields of a call whose SSID is written as AX.25 shows it.
LEMMA PlainCall ==
  ASSUME NEW call \in Call
  PROVE  Plain(call) = [base |-> call.base, zeros |-> 0,
                        ssid |-> IF call.ssid = 0 THEN NoSsid ELSE call.ssid]
<1> DEFINE number == IF call.ssid = 0 THEN NoSsid ELSE call.ssid
<1>1. Plain(call) = [call EXCEPT !.ssid = number, !.zeros = 0]
  BY DEF Plain
<1> HIDE DEF number
<1>2. DOMAIN call = {"base", "ssid", "zeros"}
  BY DEF Call
<1>3. Plain(call) = [f \in {"base", "ssid", "zeros"} |->
                       IF f = "ssid" THEN number ELSE IF f = "zeros" THEN 0 ELSE call[f]]
  BY <1>1, <1>2
<1>4. @ = [base |-> call.base, zeros |-> 0, ssid |-> number]
  OBVIOUS
<1> QED BY <1>3, <1>4 DEF number

\* Statements that are both true or both false are equal.
LEMMA SameTruth ==
  ASSUME NEW a \in BOOLEAN, NEW b \in BOOLEAN, a <=> b
  PROVE  a = b
BY Zenon

\* An address cell holds the call, but for how its SSID is written.
LEMMA AddressHoldsCall ==
  ASSUME NEW call \in Call, IsAx25(call), NEW repeated \in BOOLEAN, NEW last \in BOOLEAN
  PROVE  /\ IsAddress(Address(call, repeated, last))
         /\ CallOf(Address(call, repeated, last)) = Plain(call)
         /\ IsRepeated(Address(call, repeated, last)) = repeated
         /\ IsLast(Address(call, repeated, last)) = last
<1> DEFINE number == IF call.ssid = NoSsid THEN 0 ELSE call.ssid
<1>1. /\ call = [base |-> call.base, ssid |-> call.ssid, zeros |-> call.zeros]
      /\ call.base \in Bases /\ call.ssid \in Nat \cup {NoSsid} /\ call.ssid <= 15
  BY DEF Call, IsAx25
<1>2. number \in 0 .. 15
  BY <1>1 DEF NoSsid
<1> DEFINE octet == SsidOctet(number, repeated, last)
<1>3. Address(call, repeated, last) = [base |-> call.base, octet |-> octet]
  BY DEF Address
<1> HIDE DEF number
<1>3a. /\ octet \in 0 .. 255 /\ (octet \div 2) % 16 = number
       /\ octet >= 128 <=> repeated
       /\ octet % 2 = 1 <=> last
  BY <1>2, SsidOctetIs
<1> HIDE DEF octet
<1>3b. /\ SsidOf(Address(call, repeated, last)) = number
       /\ IsRepeated(Address(call, repeated, last)) = repeated
       /\ IsLast(Address(call, repeated, last)) = last
  <2>1. Address(call, repeated, last).octet = octet
    BY <1>3
  <2>2. SsidOf(Address(call, repeated, last)) = number
    BY <1>3a, <2>1, Zenon DEF SsidOf
  <2>3. (octet >= 128) \in BOOLEAN /\ (octet % 2 = 1) \in BOOLEAN
    BY <1>3a
  <2>4. (octet >= 128) = repeated
    BY <1>3a, <2>3, SameTruth, Zenon
  <2>5. (octet % 2 = 1) = last
    BY <1>3a, <2>3, SameTruth, Zenon
  <2> QED BY <2>1, <2>2, <2>4, <2>5, Zenon DEF IsRepeated, IsLast
<1>4. IsAddress(Address(call, repeated, last))
  BY <1>1, <1>3, <1>3a DEF IsAddress
<1>5. Plain(call) = [base |-> call.base, zeros |-> 0,
                     ssid |-> IF call.ssid = 0 THEN NoSsid ELSE call.ssid]
  BY PlainCall
<1>6. (IF number = 0 THEN NoSsid ELSE number) = IF call.ssid = 0 THEN NoSsid ELSE call.ssid
  BY <1>1 DEF NoSsid, number
<1>7. CallOf(Address(call, repeated, last)) =
        [base |-> call.base, ssid |-> IF number = 0 THEN NoSsid ELSE number, zeros |-> 0]
  BY <1>3, <1>3b DEF CallOf
<1> QED BY <1>3b, <1>4, <1>5, <1>6, <1>7

\* Where the parts of a packet stand in its frame (frame.rs:118-142).
LEMMA FrameLayout ==
  ASSUME NEW S, packet \in PacketOver(S), Accepted
  PROVE  LET hops == Len(packet.path)
         IN  /\ hops \in 0 .. 8 /\ Len(packet.body) \in Nat
             /\ Len(Ax25) = hops + 5 + Len(packet.body)
             /\ Ax25[1] = Port0
             /\ Ax25[2] = Address(packet.destination, TRUE, FALSE)
             /\ Ax25[3] = Address(packet.source, FALSE, hops = 0)
             /\ \A i \in 1 .. hops :
                  Ax25[i + 3] = Address(packet.path[i].call, packet.path[i].repeated, i = hops)
             /\ Ax25[hops + 4] = UI /\ Ax25[hops + 5] = NoLayer3
             /\ \A j \in 1 .. Len(packet.body) : Ax25[hops + 5 + j] = packet.body[j]
<1> DEFINE hops == Len(packet.path)
           cell(i) == Address(packet.path[i].call, packet.path[i].repeated, i = hops)
           to == Address(packet.destination, TRUE, FALSE)
           from == Address(packet.source, FALSE, hops = 0)
           route == [i \in 1 .. hops |-> cell(i)]
           Element == {Port0, to, from, UI, NoLayer3} \cup {cell(i) : i \in 1 .. hops} \cup S
           a == <<Port0, to, from>>
           b == <<UI, NoLayer3>>
<1>1. packet.path \in Seq(Hop) /\ packet.body \in Seq(S)
  BY packet \in PacketOver(S), PacketFields
<1>2. hops \in 0 .. 8 /\ hops \in Nat /\ Len(packet.body) \in Nat
  <2>1. hops \in Nat /\ Len(packet.body) \in Nat
    BY <1>1
  <2>2. hops <= 8
    BY Accepted, Zenon DEF Accepted
  <2> HIDE DEF hops
  <2> QED BY <2>1, <2>2
<1>3. Ax25 = a \o route \o b \o packet.body
  BY DEF Ax25
<1> HIDE DEF cell, to, from, hops
<1>4. packet.body \in Seq(Element)
  BY <1>1, SeqMonotonic
<1>5. a \in Seq(Element) /\ Len(a) = 3 /\ a[1] = Port0 /\ a[2] = to /\ a[3] = from
  OBVIOUS
<1>6. b \in Seq(Element) /\ Len(b) = 2 /\ b[1] = UI /\ b[2] = NoLayer3
  OBVIOUS
<1>7. \A i \in 1 .. hops : cell(i) \in Element
  OBVIOUS
<1>8. route \in Seq(Element) /\ Len(route) = hops /\ \A i \in 1 .. hops : route[i] = cell(i)
  BY <1>2, <1>7
<1> HIDE DEF a, b, route, Element
<1>9. PICK front \in Seq(Element) :
        /\ front = a \o route /\ Len(front) = hops + 3
        /\ front[1] = Port0 /\ front[2] = to /\ front[3] = from
        /\ \A i \in 1 .. hops : front[i + 3] = cell(i)
  <2>1. /\ a \o route \in Seq(Element) /\ Len(a \o route) = Len(a) + Len(route)
        /\ \A i \in 1 .. Len(a) + Len(route) :
             (a \o route)[i] = IF i <= Len(a) THEN a[i] ELSE route[i - Len(a)]
    BY <1>5, <1>8, ConcatProperties, Zenon
  <2>2. (a \o route)[1] = a[1] /\ (a \o route)[2] = a[2] /\ (a \o route)[3] = a[3]
    BY <1>2, <1>5, <1>8, <2>1
  <2>3. ASSUME NEW i \in 1 .. hops PROVE (a \o route)[i + 3] = cell(i)
    <3>1. i + 3 \in 1 .. Len(a) + Len(route) /\ ~ (i + 3 <= Len(a)) /\ i + 3 - Len(a) = i
      BY <1>2, <1>5, <1>8
    <3> QED BY <1>8, <2>1, <3>1
  <2>4. Len(a \o route) = hops + 3
    BY <1>2, <1>5, <1>8, <2>1
  <2> QED BY <1>5, <2>1, <2>2, <2>3, <2>4, Zenon
<1>10. PICK head \in Seq(Element) :
         /\ head = front \o b /\ Len(head) = hops + 5
         /\ \A i \in 1 .. hops + 3 : head[i] = front[i]
         /\ head[hops + 4] = UI /\ head[hops + 5] = NoLayer3
  <2>1. /\ front \o b \in Seq(Element)
        /\ Len(front \o b) = Len(front) + Len(b)
        /\ \A i \in 1 .. Len(front) + Len(b) :
             (front \o b)[i] = IF i <= Len(front) THEN front[i] ELSE b[i - Len(front)]
    <3>1. front \in Seq(Element) /\ b \in Seq(Element)
      BY <1>6
    <3> QED BY <3>1, ConcatProperties, Zenon
  <2>2. \A i \in 1 .. hops + 3 : (front \o b)[i] = front[i]
    BY <1>2, <1>6, <1>9, <2>1
  <2>3. (front \o b)[hops + 4] = b[1] /\ (front \o b)[hops + 5] = b[2]
    BY <1>2, <1>6, <1>9, <2>1
  <2>4. Len(front \o b) = hops + 5
    BY <1>2, <1>6, <1>9, <2>1
  <2> QED BY <1>6, <2>1, <2>2, <2>3, <2>4, Zenon
<1>11. /\ Len(Ax25) = hops + 5 + Len(packet.body)
       /\ \A i \in 1 .. hops + 5 : Ax25[i] = head[i]
       /\ \A j \in 1 .. Len(packet.body) : Ax25[hops + 5 + j] = packet.body[j]
  <2>1. /\ Len(head \o packet.body) = Len(head) + Len(packet.body)
        /\ \A i \in 1 .. Len(head) + Len(packet.body) :
             (head \o packet.body)[i] =
               IF i <= Len(head) THEN head[i] ELSE packet.body[i - Len(head)]
    <3>1. head \in Seq(Element) /\ packet.body \in Seq(Element)
      BY <1>4
    <3> QED BY <3>1, ConcatProperties, Zenon
  <2>2. Len(head) = hops + 5 /\ Ax25 = head \o packet.body
    BY <1>3, <1>9, <1>10
  <2>3. \A i \in 1 .. hops + 5 : Ax25[i] = head[i]
    BY <1>2, <2>1, <2>2
  <2>4. ASSUME NEW j \in 1 .. Len(packet.body)
        PROVE  Ax25[hops + 5 + j] = packet.body[j]
    <3>1. /\ hops + 5 + j \in 1 .. Len(head) + Len(packet.body)
          /\ ~ (hops + 5 + j <= Len(head)) /\ hops + 5 + j - Len(head) = j
      BY <1>2, <2>2
    <3>2. PICK k : k = hops + 5 + j
      OBVIOUS
    <3>3. (head \o packet.body)[k] = packet.body[k - Len(head)]
      BY <2>1, <3>1, <3>2
    <3> QED BY <2>2, <3>1, <3>2, <3>3
  <2> QED BY <2>1, <2>2, <2>3, <2>4
<1>12. /\ Ax25[1] = Port0 /\ Ax25[2] = to /\ Ax25[3] = from
       /\ Ax25[hops + 4] = UI /\ Ax25[hops + 5] = NoLayer3
       /\ \A i \in 1 .. hops : Ax25[i + 3] = cell(i)
  <2>1. \A i \in 1 .. hops + 3 : Ax25[i] = front[i]
    <3>1. \A i \in 1 .. hops + 3 : i \in 1 .. hops + 5
      BY <1>2
    <3> QED BY <3>1, <1>10, <1>11
  <2>2. ASSUME NEW i \in 1 .. hops PROVE Ax25[i + 3] = cell(i)
    <3>1. i + 3 \in 1 .. hops + 3
      BY <1>2
    <3> QED BY <1>9, <2>1, <3>1
  <2>3. 1 \in 1 .. hops + 3 /\ 2 \in 1 .. hops + 3 /\ 3 \in 1 .. hops + 3
        /\ hops + 4 \in 1 .. hops + 5 /\ hops + 5 \in 1 .. hops + 5
    BY <1>2
  <2> QED BY <1>9, <1>10, <1>11, <2>1, <2>2, <2>3
<1> QED BY <1>2, <1>11, <1>12 DEF hops, cell, to, from

\* The loop of kiss_to_tnc2 finds the addresses that tnc2_to_kiss has written:
\* the last bit stands on the last of them and on no other (frame.rs:36-60).
LEMMA RouteIsFound ==
  ASSUME NEW S, packet \in PacketOver(S), Accepted
  PROVE  Route(Ax25) = {Len(packet.path) + 2}
<1> DEFINE hops == Len(packet.path)
<1>1. /\ hops \in 0 .. 8 /\ hops \in Nat /\ Len(packet.body) \in Nat
      /\ Len(Ax25) = hops + 5 + Len(packet.body)
      /\ Ax25[2] = Address(packet.destination, TRUE, FALSE)
      /\ Ax25[3] = Address(packet.source, FALSE, hops = 0)
      /\ \A i \in 1 .. hops :
           Ax25[i + 3] = Address(packet.path[i].call, packet.path[i].repeated, i = hops)
  <2>1. hops \in 0 .. 8
    BY FrameLayout, packet \in PacketOver(S), Accepted, Zenon
  <2>2. hops \in Nat
    BY <2>1
  <2> QED BY <2>2, FrameLayout, packet \in PacketOver(S), Accepted, Zenon
<1>2. /\ packet.source \in Call /\ packet.destination \in Call
      /\ packet.path \in Seq(Hop)
  BY packet \in PacketOver(S), PacketFields
<1>3. ASSUME NEW i \in 2 .. hops + 3
      PROVE  IsAddress(Ax25[i]) /\ IsLast(Ax25[i]) = (i = hops + 3)
  <2>1. CASE i = 2
    <3>1. IsAx25(packet.destination) /\ FALSE = (i = hops + 3)
      BY <1>1, <2>1, Accepted DEF Accepted
    <3> QED BY <1>1, <1>2, <2>1, <3>1, AddressHoldsCall
  <2>2. CASE i = 3
    <3>1. IsAx25(packet.source) /\ (hops = 0) = (i = hops + 3) /\ (hops = 0) \in BOOLEAN
      BY <1>1, <2>2, Accepted DEF Accepted
    <3> QED BY <1>1, <1>2, <2>2, <3>1, AddressHoldsCall
  <2>3. CASE i \in 4 .. hops + 3
    <3>1. PICK k \in 1 .. hops : i = k + 3
      <4>1. i - 3 \in 1 .. hops /\ i = (i - 3) + 3
        BY <1>1, <2>3
      <4> QED BY <4>1, Zenon
    <3>2. packet.path[k] \in Hop
      BY <1>2, ElementOfSeq
    <3>3. packet.path[k].call \in Call /\ packet.path[k].repeated \in BOOLEAN
      BY <3>2 DEF Hop
    <3>4. IsAx25(packet.path[k].call) /\ (k = hops) = (i = hops + 3) /\ (k = hops) \in BOOLEAN
      BY <1>1, <3>1, Accepted DEF Accepted
    <3>5. Ax25[i] = Address(packet.path[k].call, packet.path[k].repeated, k = hops)
      BY <1>1, <3>1
    <3>6. IsAddress(Ax25[i]) /\ IsLast(Ax25[i]) = (k = hops)
      <4> DEFINE last == (k = hops)
             call == packet.path[k].call
             repeated == packet.path[k].repeated
      <4>1. /\ call \in Call /\ IsAx25(call) /\ repeated \in BOOLEAN /\ last \in BOOLEAN
            /\ Ax25[i] = Address(call, repeated, last)
        BY <3>3, <3>4, <3>5
      <4> HIDE DEF last, call, repeated
      <4>2. IsAddress(Ax25[i]) /\ IsLast(Ax25[i]) = last
        BY <4>1, AddressHoldsCall
      <4> QED BY <4>2 DEF last
    <3>7. (k = hops) = (i = hops + 3)
      BY <1>1, <3>1
    <3> QED BY <3>6, <3>7, Zenon
  <2>4. i = 2 \/ i = 3 \/ i \in 4 .. hops + 3
    BY <1>1
  <2> QED BY <2>1, <2>2, <2>3, <2>4
<1> HIDE DEF hops
<1>4. hops + 2 \in Route(Ax25)
  <2>1. PICK size \in Nat : Len(Ax25) = hops + 5 + size
    BY <1>1, Zenon
  <2>2. hops \in 0 .. 8
    BY <1>1, Zenon
  <2>3. hops + 2 \in 1 .. 10 /\ (hops + 2) + 1 = hops + 3 /\ hops + 3 <= Len(Ax25)
    BY <2>1, <2>2
  <2> QED BY <1>3, <2>3 DEF Route
<1>5. ASSUME NEW m \in Route(Ax25) PROVE m = hops + 2
  <2>1. m \in 1 .. 10 /\ \A i \in 2 .. m + 1 : IsLast(Ax25[i]) = (i = m + 1)
    BY DEF Route
  <2>2. CASE m < hops + 2
    <3>1. m + 1 \in 2 .. hops + 3 /\ m + 1 \in 2 .. m + 1 /\ m + 1 # hops + 3
      BY <1>1, <2>1, <2>2
    <3> QED BY <1>3, <2>1, <3>1
  <2>3. CASE m > hops + 2
    <3>1. hops + 3 \in 2 .. m + 1 /\ hops + 3 \in 2 .. hops + 3 /\ hops + 3 # m + 1
      BY <1>1, <2>1, <2>3
    <3> QED BY <1>3, <2>1, <3>1
  <2> QED BY <1>1, <2>1, <2>2, <2>3
<1> QED BY <1>4, <1>5 DEF hops

\* The packet that comes back, field by field.
Returned ==
  [source |-> Plain(packet.source), destination |-> Plain(packet.destination),
   path |-> [i \in 1 .. Len(packet.path) |->
               [call |-> Plain(packet.path[i].call), repeated |-> packet.path[i].repeated]],
   body |-> packet.body]

\* It is the packet of PacketComesBack.
LEMMA ReturnedIsPlain ==
  ASSUME NEW S, packet \in PacketOver(S)
  PROVE  Returned =
           [packet EXCEPT !.source = Plain(@), !.destination = Plain(@),
              !.path = [i \in 1 .. Len(@) |-> PlainHop(@[i])]]
<1> DEFINE Path == Seq(Hop)
           Body == Seq(S)
           hop(i) == PlainHop(packet.path[i])
           back(i) == [call |-> Plain(packet.path[i].call), repeated |-> packet.path[i].repeated]
           old == [i \in 1 .. Len(packet.path) |-> hop(i)]
           new == [i \in 1 .. Len(packet.path) |-> back(i)]
           from == Plain(packet.source)
           to == Plain(packet.destination)
<1>1. packet \in [source : Call, destination : Call, path : Path, body : Body]
  BY packet \in PacketOver(S) DEF PacketOver
<1>2. ASSUME NEW i \in 1 .. Len(packet.path) PROVE hop(i) = back(i)
  <2>1. packet.path \in Path
    <3> HIDE DEF Path, Body
    <3> QED BY <1>1
  <2>2. packet.path[i] \in Hop
    BY <2>1, ElementOfSeq
  <2> DEFINE h == packet.path[i]
             c == Plain(packet.path[i].call)
  <2>3. hop(i) = [h EXCEPT !.call = c]
    BY DEF PlainHop
  <2> HIDE DEF c
  <2>4. DOMAIN h = {"call", "repeated"}
    BY <2>2 DEF Hop
  <2> HIDE DEF h, hop
  <2>5. hop(i) = [f \in {"call", "repeated"} |-> IF f = "call" THEN c ELSE h[f]]
    BY <2>3, <2>4
  <2>6. @ = [call |-> c, repeated |-> h.repeated]
    OBVIOUS
  <2> QED BY <2>5, <2>6 DEF h, c
<1>3. old = new
  <2> HIDE DEF hop, back
  <2> QED BY <1>2
<1> DEFINE fields == {"source", "destination", "path", "body"}
           plain == [packet EXCEPT !.source = from, !.destination = to, !.path = old]
<1> HIDE DEF Path, Body, from, to, hop, back
<1>4. DOMAIN packet = fields
  BY <1>1
<1>5. plain = [f \in fields |-> IF f = "source" THEN from
                                ELSE IF f = "destination" THEN to
                                ELSE IF f = "path" THEN old ELSE packet[f]]
  <2> HIDE DEF old
  <2> QED BY <1>4
<1>6. @ = [source |-> from, destination |-> to, path |-> old, body |-> packet.body]
  <2> HIDE DEF old, plain
  <2> QED BY <1>5
<1>7. Returned = [source |-> from, destination |-> to, path |-> new, body |-> packet.body]
  BY DEF Returned, from, to, back
<1>8. plain = [packet EXCEPT !.source = Plain(@), !.destination = Plain(@),
                 !.path = [i \in 1 .. Len(@) |-> PlainHop(@[i])]]
  BY DEF from, to, hop
<1> HIDE DEF plain, old, new
<1> QED BY <1>3, <1>5, <1>6, <1>7, <1>8

\* kiss_to_tnc2 undoes tnc2_to_kiss: one packet comes out of the frame, with the
\* calls, the marks and the body of the one that went in (frame.rs:36-155).
LEMMA DecodingUndoesEncoding ==
  ASSUME NEW S, packet \in PacketOver(S), Accepted
  PROVE  KissToTnc2(Ax25) = {Returned}
<1> DEFINE hops == Len(packet.path)
           route == {m \in Route(Ax25) :
               /\ m >= 2 /\ Ax25[1] = Port0 /\ m + 3 <= Len(Ax25)
               /\ Ax25[m + 2] = UI /\ Ax25[m + 3] = NoLayer3}
           decoded(n) ==
             [source |-> CallOf(Ax25[3]), destination |-> CallOf(Ax25[2]),
              path |-> [i \in 1 .. n - 2 |-> [call |-> CallOf(Ax25[i + 3]),
                                              repeated |-> IsRepeated(Ax25[i + 3])]],
              body |-> SubSeq(Ax25, n + 4, Len(Ax25))]
<1>1. KissToTnc2(Ax25) = {decoded(n) : n \in route}
  BY Zenon DEF KissToTnc2
<1>2. /\ packet.source \in Call /\ packet.destination \in Call
      /\ packet.path \in Seq(Hop) /\ packet.body \in Seq(S)
  BY packet \in PacketOver(S), PacketFields
<1>3. /\ hops \in 0 .. 8 /\ Len(packet.body) \in Nat
      /\ Len(Ax25) = hops + 5 + Len(packet.body)
      /\ Ax25[1] = Port0
      /\ Ax25[2] = Address(packet.destination, TRUE, FALSE)
      /\ Ax25[3] = Address(packet.source, FALSE, hops = 0)
      /\ \A i \in 1 .. hops :
           Ax25[i + 3] = Address(packet.path[i].call, packet.path[i].repeated, i = hops)
      /\ Ax25[hops + 4] = UI /\ Ax25[hops + 5] = NoLayer3
      /\ \A j \in 1 .. Len(packet.body) : Ax25[hops + 5 + j] = packet.body[j]
  BY FrameLayout, packet \in PacketOver(S), Accepted, Zenon
<1>4. Route(Ax25) = {hops + 2}
  BY RouteIsFound, packet \in PacketOver(S), Accepted, Zenon
<1>5. PICK size \in Nat : size = Len(packet.body)
  BY <1>3, Zenon
<1>5a. Len(Ax25) = hops + 5 + size
  BY <1>3, <1>5, Zenon
<1>6. /\ hops \in 0 .. 8 /\ Ax25[1] = Port0
      /\ Ax25[hops + 4] = UI /\ Ax25[hops + 5] = NoLayer3
  BY <1>3, Zenon
<1>7. route = {hops + 2}
  <2> HIDE DEF hops
  <2>1. /\ hops + 2 >= 2 /\ (hops + 2) + 3 <= Len(Ax25)
        /\ (hops + 2) + 2 = hops + 4 /\ (hops + 2) + 3 = hops + 5
    BY <1>6, <1>5a
  <2> QED BY <1>4, <1>6, <2>1
<1>8. CallOf(Ax25[2]) = Plain(packet.destination)
  <2>1. IsAx25(packet.destination)
    BY Accepted DEF Accepted
  <2> QED BY <1>2, <1>3, <2>1, AddressHoldsCall
<1>9. CallOf(Ax25[3]) = Plain(packet.source)
  <2>1. IsAx25(packet.source) /\ (hops = 0) \in BOOLEAN
    BY Accepted DEF Accepted
  <2> QED BY <1>2, <1>3, <2>1, AddressHoldsCall
<1>10. ASSUME NEW k \in 1 .. hops
       PROVE  /\ CallOf(Ax25[k + 3]) = Plain(packet.path[k].call)
              /\ IsRepeated(Ax25[k + 3]) = packet.path[k].repeated
  <2> DEFINE last == (k = hops)
             call == packet.path[k].call
             repeated == packet.path[k].repeated
  <2>1. packet.path[k] \in Hop
    BY <1>2, ElementOfSeq
  <2>2. call \in Call /\ repeated \in BOOLEAN /\ last \in BOOLEAN
    BY <2>1 DEF Hop
  <2>3. IsAx25(call) /\ Ax25[k + 3] = Address(call, repeated, last)
    BY <1>3, Accepted DEF Accepted
  <2> HIDE DEF last, call, repeated
  <2>4. CallOf(Ax25[k + 3]) = Plain(call) /\ IsRepeated(Ax25[k + 3]) = repeated
    BY <2>2, <2>3, AddressHoldsCall
  <2> QED BY <2>4 DEF call, repeated
<1>11. SubSeq(Ax25, (hops + 2) + 4, Len(Ax25)) = packet.body
  <2>1. \A j \in 1 .. size : Ax25[hops + 5 + j] = packet.body[j] /\ packet.body[j] \in S
    BY <1>2, <1>3, <1>5, ElementOfSeq
  <2> DEFINE first == (hops + 2) + 4
             whole == Len(Ax25)
             part == SubSeq(Ax25, first, whole)
  <2> HIDE DEF hops
  <2>2. first \in Int /\ whole \in Int /\ whole - first + 1 = size
        /\ (IF first <= whole THEN whole - first + 1 ELSE 0) = size
    BY <1>6, <1>5a
  <2>3. \A i \in first .. whole : Ax25[i] \in S
    <3> SUFFICES ASSUME NEW i \in first .. whole PROVE Ax25[i] \in S
      OBVIOUS
    <3>1. i - (hops + 5) \in 1 .. size /\ hops + 5 + (i - (hops + 5)) = i
      BY <1>6, <1>5a
    <3> QED BY <2>1, <3>1
  <2> HIDE DEF whole
  <2>4. /\ part \in Seq(S) /\ Len(part) = size
        /\ \A i \in 1 .. size : part[i] = Ax25[first + i - 1]
    <3> HIDE DEF first
    <3>1. /\ part \in Seq(S)
          /\ Len(part) = IF first <= whole THEN whole - first + 1 ELSE 0
          /\ \A i \in 1 .. whole - first + 1 : part[i] = Ax25[first + i - 1]
      BY <2>2, <2>3, SubSeqProperties
    <3> QED BY <2>2, <3>1
  <2>5. \A i \in 1 .. size : part[i] = packet.body[i]
    <3> SUFFICES ASSUME NEW i \in 1 .. size PROVE part[i] = packet.body[i]
      OBVIOUS
    <3>1. first + i - 1 = hops + 5 + i
      BY <1>6
    <3> QED BY <2>1, <2>4, <3>1
  <2>6. part \in Seq(S) /\ packet.body \in Seq(S) /\ Len(part) = Len(packet.body)
        /\ \A i \in 1 .. Len(part) : part[i] = packet.body[i]
    BY <1>2, <1>5, <2>4, <2>5
  <2> HIDE DEF part
  <2>7. part = packet.body
    BY <2>6, SeqEqual
  <2> QED BY <2>7 DEF part, first, whole
<1>12. decoded(hops + 2) = Returned
  <2> DEFINE came(i) == [call |-> CallOf(Ax25[i + 3]), repeated |-> IsRepeated(Ax25[i + 3])]
             went(i) == [call |-> Plain(packet.path[i].call), repeated |-> packet.path[i].repeated]
  <2>1. (hops + 2) - 2 = hops
    <3> HIDE DEF hops
    <3> QED BY <1>6
  <2>2. \A i \in 1 .. hops : came(i) = went(i)
    BY <1>10
  <2> HIDE DEF came, went
  <2>3. [i \in 1 .. (hops + 2) - 2 |-> came(i)] = [i \in 1 .. hops |-> went(i)]
    BY <2>1, <2>2
  <2> QED BY <1>8, <1>9, <1>11, <2>3 DEF Returned, came, went
<1> HIDE DEF decoded
<1> QED BY <1>1, <1>7, <1>12

-----------------------------------------------------------------------------
(* The way of a packet.                                                    *)

\* What is on the way is the frame of the packet, and what has been decoded is
\* what that frame decodes to.
FrameOfPacket ==
  /\ step \in {"kiss", "decoded"} => Accepted
  /\ step = "kiss" => ax25 = Ax25
  /\ step = "decoded" => result = KissToTnc2(Ax25)

\* Only Encode and Decode have to do with the frame, and what Decode decodes is
\* the frame that Encode has made.
LEMMA FrameStep ==
  ASSUME FrameOfPacket, ReadsWhatWasSent, [KNext]_allVars
  PROVE  FrameOfPacket'
<1>0. packet' = packet
  BY DEF KNext, Refuse, Encode, Transfer, Decode, Ended, allVars
<1>1. Accepted' = Accepted /\ Ax25' = Ax25 /\ KissToTnc2(Ax25)' = KissToTnc2(Ax25)
  BY <1>0 DEF Accepted, Ax25, KissToTnc2
<1>2. CASE Refuse
  BY <1>0, <1>2 DEF Refuse, FrameOfPacket
<1>3. CASE Encode
  BY <1>0, <1>1, <1>3 DEF Encode, Load, FrameOfPacket
<1>4. CASE Transfer
  <2>1. step = "kiss" /\ step' = "kiss" /\ ax25' = ax25
    BY <1>4 DEF Transfer, Carry, StuffByte, StuffEnd, UnstuffEscape, UnstuffByte, UnstuffEnd
  <2> QED BY <1>0, <1>1, <2>1 DEF FrameOfPacket
<1>5. CASE Decode
  <2>1. step = "kiss" /\ step' = "decoded" /\ phase = "done" /\ result' = KissToTnc2(unstuffed)
    BY <1>5 DEF Decode
  <2>2. unstuffed = Ax25
    BY <2>1 DEF ReadsWhatWasSent, FrameOfPacket
  <2> QED BY <1>0, <1>1, <2>1, <2>2 DEF FrameOfPacket
<1>6. CASE Ended \/ UNCHANGED allVars
  <2>1. UNCHANGED <<step, ax25, result>>
    BY <1>6 DEF Ended, allVars, vars
  <2> QED BY <1>0, <1>1, <2>1 DEF FrameOfPacket
<1> QED BY <1>2, <1>3, <1>4, <1>5, <1>6 DEF KNext

\* So what is decoded is the packet, but for how its SSIDs are written.
LEMMA DecodedComesBack ==
  ASSUME NEW S, packet \in PacketOver(S), FrameOfPacket
  PROVE  /\ PacketComesBack
         /\ step = "decoded" => result = {Returned}
<1> SUFFICES ASSUME step = "decoded" PROVE PacketComesBack /\ result = {Returned}
  BY DEF PacketComesBack
<1>1. result = {Returned}
  BY DecodingUndoesEncoding DEF FrameOfPacket
<1> QED BY <1>1, ReturnedIsPlain, Zenon DEF PacketComesBack

\* Every packet that tnc2_to_kiss accepts comes back from kiss_to_tnc2 with its
\* route, its marks and its body, but for how its SSIDs are written
\* (README.md:103-104, frame.rs:36-155).
THEOREM KissPacketComesBack == KSpec => []PacketComesBack
<1> DEFINE Known == packet \in Packets
<1>1. KInit => Known /\ FrameOfPacket
  BY DEF KInit, FrameOfPacket
<1>2. Known /\ FrameOfPacket /\ ReadsWhatWasSent /\ [KNext]_allVars
        => Known' /\ FrameOfPacket'
  BY FrameStep, StepIsStuffing
<1>3. Known /\ FrameOfPacket => PacketComesBack
  BY PacketsAssumption, DecodedComesBack DEF PacketOver, Hop
<1> HIDE DEF Known
<1> QED BY <1>1, <1>2, <1>3, KissRoundTrip, PTL DEF KSpec

-----------------------------------------------------------------------------
(* Many links: what the packets carry.                                     *)

\* What a body may hold on its way: bytes, third-party headers and messages.
Cell ==
  Octet \cup [tnc2 : PacketOver({})] \cup {Text!Encoded(m) : m \in Text!Message}

\* Byte stuffing of such bodies: what is proved of any set of bytes holds of
\* this one.
Wire == INSTANCE KissStuffing_proofs WITH Byte <- Byte \cup Cell

-----------------------------------------------------------------------------
(* Every packet on the way is a packet.                                    *)

\* A packet with another body or another route.
LEMMA ChangedPacket ==
  ASSUME NEW S, NEW p \in PacketOver(S), NEW new
  PROVE  /\ [p EXCEPT !.body = new] =
              [source |-> p.source, destination |-> p.destination, path |-> p.path, body |-> new]
         /\ [p EXCEPT !.path = new] =
              [source |-> p.source, destination |-> p.destination, path |-> new, body |-> p.body]
<1> DEFINE Path == Seq(Hop)
           Body == Seq(S)
           fields == {"source", "destination", "path", "body"}
<1>1. p \in [source : Call, destination : Call, path : Path, body : Body]
  BY DEF PacketOver
<1> HIDE DEF Path, Body
<1>2. DOMAIN p = fields
  BY <1>1
<1>3. [p EXCEPT !.body = new] = [f \in fields |-> IF f = "body" THEN new ELSE p[f]]
  BY <1>2
<1>4. @ = [source |-> p.source, destination |-> p.destination, path |-> p.path, body |-> new]
  OBVIOUS
<1>5. [p EXCEPT !.path = new] = [f \in fields |-> IF f = "path" THEN new ELSE p[f]]
  BY <1>2
<1>6. @ = [source |-> p.source, destination |-> p.destination, path |-> new, body |-> p.body]
  OBVIOUS
<1> QED BY <1>3, <1>4, <1>5, <1>6

\* A call with another SSID.
LEMMA ChangedCall ==
  ASSUME NEW call \in Call, NEW new \in Nat \cup {NoSsid}
  PROVE  [call EXCEPT !.ssid = new] \in Call
<1>1. DOMAIN call = {"base", "ssid", "zeros"}
  BY DEF Call
<1>2. [call EXCEPT !.ssid = new] = [f \in {"base", "ssid", "zeros"} |->
                                      IF f = "ssid" THEN new ELSE call[f]]
  BY <1>1
<1>3. @ = [base |-> call.base, ssid |-> new, zeros |-> call.zeros]
  OBVIOUS
<1> QED BY <1>2, <1>3 DEF Call

\* The parts of a packet make a packet.
LEMMA PacketOf ==
  ASSUME NEW S, NEW source \in Call, NEW destination \in Call,
         NEW path \in Seq(Hop), NEW body \in Seq(S)
  PROVE  [source |-> source, destination |-> destination, path |-> path, body |-> body]
           \in PacketOver(S)
<1> DEFINE Path == Seq(Hop)
           Body == Seq(S)
<1>1. path \in Path /\ body \in Body
  OBVIOUS
<1> HIDE DEF Path, Body
<1>2. [source |-> source, destination |-> destination, path |-> path, body |-> body]
        \in [source : Call, destination : Call, path : Path, body : Body]
  BY <1>1
<1> QED BY <1>2 DEF PacketOver, Path, Body

\* A call as AX.25 shows it is a call.
LEMMA PlainIsCall ==
  ASSUME NEW call \in Call
  PROVE  Plain(call) \in Call
<1>1. call.base \in Bases \cup BadBases /\ call.ssid \in Nat \cup {NoSsid}
  BY DEF Call
<1> QED BY <1>1, PlainCall DEF Call

\* What comes back is a packet.
LEMMA ReturnedIsPacket ==
  ASSUME NEW S, packet \in PacketOver(S)
  PROVE  Returned \in PacketOver(S)
<1> DEFINE back(i) == [call |-> Plain(packet.path[i].call), repeated |-> packet.path[i].repeated]
           path == [i \in 1 .. Len(packet.path) |-> back(i)]
<1>1. /\ packet.source \in Call /\ packet.destination \in Call
      /\ packet.path \in Seq(Hop) /\ packet.body \in Seq(S)
  BY PacketFields
<1>2. ASSUME NEW i \in 1 .. Len(packet.path) PROVE back(i) \in Hop
  <2>1. packet.path[i] \in Hop
    BY <1>1, ElementOfSeq
  <2>2. packet.path[i].call \in Call /\ packet.path[i].repeated \in BOOLEAN
    BY <2>1 DEF Hop
  <2>3. Plain(packet.path[i].call) \in Call
    BY <2>2, PlainIsCall
  <2> QED BY <2>2, <2>3 DEF Hop
<1>3. Len(packet.path) \in Nat
  BY <1>1
<1> HIDE DEF back
<1>4. path \in Seq(Hop)
  BY <1>2, <1>3
<1> HIDE DEF path
<1>5. Plain(packet.source) \in Call /\ Plain(packet.destination) \in Call
  BY <1>1, PlainIsCall
<1>6. [source |-> Plain(packet.source), destination |-> Plain(packet.destination),
       path |-> path, body |-> packet.body] \in PacketOver(S)
  BY <1>1, <1>4, <1>5, PacketOf
<1> QED BY <1>6 DEF Returned, path, back
\* A packet over fewer bytes is one over more.
LEMMA PacketOverMore ==
  ASSUME NEW S, NEW T, S \subseteq T, NEW p \in PacketOver(S)
  PROVE  p \in PacketOver(T)
<1> DEFINE Path == Seq(Hop)
           Few == Seq(S)
           Many == Seq(T)
<1>1. p \in [source : Call, destination : Call, path : Path, body : Few]
  BY DEF PacketOver
<1>2. Few \subseteq Many
  BY SeqMonotonic
<1> HIDE DEF Path, Few, Many
<1>3. p \in [source : Call, destination : Call, path : Path, body : Many]
  BY <1>1, <1>2
<1> QED BY <1>3 DEF PacketOver, Path, Many

\* The same of the packets that are sent.
LEMMA SentIsPacket == Packets \subseteq PacketOver(Cell)
<1>1. Packets \subseteq PacketOver(Octet) /\ Octet \subseteq Cell
  BY PacketsAssumption DEF PacketOver, Hop, Cell
<1> QED BY <1>1, PacketOverMore

\* What holds over a journey: the packet is one, the frame on the wire is its
\* frame, and it was refused only if it is not accepted.
OnTheWay ==
  /\ packet \in PacketOver(Cell) /\ FrameOfPacket
  /\ step # "decoded" => result = {}
  /\ step = "refused" => ~ Accepted

\* What a digipeater or a gateway finds is what was sent over the link.
LEMMA ResultIsReturned ==
  ASSUME OnTheWay, NEW p \in result
  PROVE  step = "decoded" /\ p = Returned /\ p \in PacketOver(Cell) /\ Accepted
<1>1. step = "decoded"
  BY DEF OnTheWay
<1>2. result = {Returned}
  BY <1>1, DecodedComesBack DEF OnTheWay
<1> QED BY <1>1, <1>2, ReturnedIsPacket DEF OnTheWay, FrameOfPacket

\* A digipeater leaves a packet, and a gateway makes one.
LEMMA DigipeatedIsPacket ==
  ASSUME OnTheWay, Digipeat
  PROVE  /\ packet' \in PacketOver(Cell)
         /\ \E p \in result : /\ packet'.source = p.source /\ packet'.body = p.body
                             /\ packet'.destination = p.destination
<1>0. PICK p \in result : \E i \in 1 .. Len(p.path) :
        LET call == p.path[i].call
            left == IF IsAlias(call, DOMAIN Wide) THEN call.ssid - 1 ELSE call.ssid
        IN  /\ IsAlias(call, DOMAIN Wide) => call.ssid > 0
            /\ SendOn([p EXCEPT !.path[i] =
                 [call |-> [call EXCEPT !.ssid = left],
                  repeated |-> IsAlias(call, DOMAIN Wide) => left = 0]])
  BY Zenon DEF Digipeat
<1>1. PICK i \in 1 .. Len(p.path) :
        LET call == p.path[i].call
            left == IF IsAlias(call, DOMAIN Wide) THEN call.ssid - 1 ELSE call.ssid
        IN  /\ IsAlias(call, DOMAIN Wide) => call.ssid > 0
            /\ SendOn([p EXCEPT !.path[i] =
                 [call |-> [call EXCEPT !.ssid = left],
                  repeated |-> IsAlias(call, DOMAIN Wide) => left = 0]])
  BY <1>0, Zenon
<1> DEFINE call == p.path[i].call
           left == IF IsAlias(call, DOMAIN Wide) THEN call.ssid - 1 ELSE call.ssid
           hop == [call |-> [call EXCEPT !.ssid = left],
                   repeated |-> IsAlias(call, DOMAIN Wide) => left = 0]
           path == [p.path EXCEPT ![i] = hop]
<1>2. p \in PacketOver(Cell)
  BY ResultIsReturned
<1>3. /\ p.source \in Call /\ p.destination \in Call
      /\ p.path \in Seq(Hop) /\ p.body \in Seq(Cell)
  BY <1>2, PacketFields
<1>4. call \in Call
  <2>1. p.path[i] \in Hop
    BY <1>3, ElementOfSeq
  <2> QED BY <2>1 DEF Hop
<1>5. left \in Nat \cup {NoSsid}
  <2>1. call.ssid \in Nat \cup {NoSsid}
    BY <1>4 DEF Call
  <2>2. IsAlias(call, DOMAIN Wide) => call.ssid \in 0 .. 7 /\ call.ssid > 0
    BY <1>1 DEF IsAlias
  <2>3. CASE IsAlias(call, DOMAIN Wide)
    <3>1. left = call.ssid - 1 /\ call.ssid \in 0 .. 7 /\ call.ssid > 0
      BY <2>2, <2>3
    <3> HIDE DEF left, call
    <3> QED BY <3>1
  <2>4. CASE ~ IsAlias(call, DOMAIN Wide)
    BY <2>1, <2>4
  <2> QED BY <2>3, <2>4
<1> HIDE DEF left, call
<1>6. hop \in Hop
  <2>1. [call EXCEPT !.ssid = left] \in Call
    BY <1>4, <1>5, ChangedCall
  <2> QED BY <2>1 DEF Hop
<1> HIDE DEF hop
<1>7. path \in Seq(Hop)
  BY <1>3, <1>6, ExceptSeq
<1>8. [p EXCEPT !.path[i] = hop] = [p EXCEPT !.path = path]
  OBVIOUS
<1>9. packet' = [p EXCEPT !.path[i] = hop]
  BY <1>1 DEF SendOn, hop, left, call
<1> HIDE DEF path
<1>10. packet' = [source |-> p.source, destination |-> p.destination, path |-> path,
                  body |-> p.body]
  BY <1>2, <1>8, <1>9, ChangedPacket
<1>11. packet' \in PacketOver(Cell)
  BY <1>3, <1>7, <1>10, PacketOf
<1>12. packet'.source = p.source /\ packet'.body = p.body
       /\ packet'.destination = p.destination
  BY <1>10
<1> QED BY <1>11, <1>12

\* A third-party header is a cell of the body, and so is a message.
LEMMA WrappedIsPacket ==
  ASSUME OnTheWay, Gate
  PROVE  packet' \in PacketOver(Cell)
<1>1. PICK p \in result :
        packet' = [source |-> Gateway, destination |-> Gateway, path |-> <<>>,
                   body |-> <<[tnc2 |-> [p EXCEPT !.body = <<>>]]>> \o p.body]
  BY DEF Gate, SendOn
<1> DEFINE header == [tnc2 |-> [p EXCEPT !.body = <<>>]]
           body == <<header>> \o p.body
<1>2. p \in PacketOver(Cell)
  BY ResultIsReturned
<1>3. /\ p.source \in Call /\ p.destination \in Call
      /\ p.path \in Seq(Hop) /\ p.body \in Seq(Cell)
  BY <1>2, PacketFields
<1>4. header \in Cell
  <2>1. <<>> \in Seq({})
    BY EmptySeq
  <2>2. [source |-> p.source, destination |-> p.destination, path |-> p.path, body |-> <<>>]
          \in PacketOver({})
    BY <1>3, <2>1, PacketOf
  <2>3. [p EXCEPT !.body = <<>>] \in PacketOver({})
    BY <1>2, <2>2, ChangedPacket
  <2> QED BY <2>3 DEF Cell
<1> HIDE DEF header
<1>5. body \in Seq(Cell)
  BY <1>3, <1>4, ConcatProperties
<1>6. <<>> \in Seq(Hop) /\ Gateway \in Call
  BY EmptySeq, JourneyAssumption
<1> HIDE DEF body
<1>7. packet' = [source |-> Gateway, destination |-> Gateway, path |-> <<>>, body |-> body]
  BY <1>1 DEF body, header
<1> QED BY <1>5, <1>6, <1>7, PacketOf

\* A message goes in the envelope.
LEMMA ComposedIsPacket ==
  ASSUME OnTheWay, Compose
  PROVE  packet' \in PacketOver(Cell)
<1>1. Envelope \in PacketOver(Cell)
  BY SentIsPacket, JourneyAssumption
<1>2. PICK m \in Messages :
        \/ packet' = [Envelope EXCEPT !.body = <<Text!Encoded(m)>>]
        \/ packet' = packet
  BY Zenon DEF Compose
<1>3. CASE packet' = packet
  BY <1>3 DEF OnTheWay
<1>4. CASE packet' = [Envelope EXCEPT !.body = <<Text!Encoded(m)>>]
  <2>1. m \in Text!Message
    BY <1>2, JourneyAssumption, Zenon
  <2> DEFINE cell == Text!Encoded(m)
  <2>2. cell \in Cell
    BY <2>1, Zenon DEF Cell
  <2> HIDE DEF cell
  <2>3. <<cell>> \in Seq(Cell)
    BY <2>2
  <2>4. packet' = [source |-> Envelope.source, destination |-> Envelope.destination,
                   path |-> Envelope.path, body |-> <<cell>>]
    BY <1>1, <1>4, ChangedPacket DEF cell
  <2> QED BY <1>1, <2>3, <2>4, PacketFields, PacketOf
<1> QED BY <1>2, <1>3, <1>4
-----------------------------------------------------------------------------
(* Every link is a run of byte stuffing.                                   *)

\* Every step of a journey is a step of byte stuffing or none, and leaves a
\* packet on the way.
LEMMA JourneyStep ==
  ASSUME OnTheWay, ReadsWhatWasSent, [JNext]_journeyVars
  PROVE  OnTheWay' /\ [Wire!Next]_Wire!vars
<1>0. packet \in PacketOver(Cell)
  BY DEF OnTheWay
<1>1. CASE Compose
  <2>1. step' \in {"tnc2", "refused"} /\ UNCHANGED vars /\ result' = {}
    BY <1>1 DEF Compose, OnTheWay
  <2>2. FrameOfPacket'
    BY <2>1 DEF FrameOfPacket
  <2>3. step' = "refused" => packet'.body = <<>>
    BY <1>1, JourneyAssumption DEF Compose
  <2>4. step' = "refused" => ~ Accepted'
    BY <2>3 DEF Accepted
  <2> QED BY <1>1, <2>1, <2>2, <2>4, ComposedIsPacket DEF OnTheWay, Wire!vars, vars
<1>2. CASE Link
  <2>1. [KNext]_allVars /\ packet' = packet
    BY <1>2 DEF Link, KNext, Refuse, Encode, Transfer, Decode
  <2>2. FrameOfPacket'
    BY <2>1, FrameStep DEF OnTheWay
  <2>3. Accepted' = Accepted
    BY <2>1 DEF Accepted
  <2>4. /\ step' # "decoded" => result' = {}
        /\ step' = "refused" => ~ Accepted
    BY <1>2 DEF Link, Refuse, Encode, Transfer, Decode, OnTheWay
  <2>5. [Wire!Next]_Wire!vars
    <3>1. CASE Encode
      <4>1. Load(Ax25) /\ Ax25 \in Seq(Byte \cup Cell)
        BY <1>0, <3>1, Ax25IsFrame DEF Encode
      <4>2. Wire!Load(Ax25)
        BY <4>1 DEF Load, Wire!Load
      <4> QED BY <4>1, <4>2 DEF Wire!Next
    <3>2. CASE Transfer
      BY <3>2
      DEF Transfer, Carry, Wire!Next, Wire!Carry, StuffByte, Wire!StuffByte, StuffEnd,
          Wire!StuffEnd, UnstuffEscape, Wire!UnstuffEscape, UnstuffByte,
          Wire!UnstuffByte, UnstuffEnd, Wire!UnstuffEnd, Stuffed, Wire!Stuffed,
          Escaped, Wire!Escaped
    <3>3. CASE Refuse \/ Decode
      BY <3>3 DEF Refuse, Decode, vars, Wire!vars
    <3> QED BY <1>2, <3>1, <3>2, <3>3 DEF Link
  <2> QED BY <1>0, <2>1, <2>2, <2>3, <2>4, <2>5 DEF OnTheWay
<1>3. CASE Digipeat \/ Gate
  <2>1. step' = "tnc2" /\ result' = {} /\ UNCHANGED vars
    BY <1>3 DEF Digipeat, Gate, SendOn
  <2>2. FrameOfPacket'
    BY <2>1 DEF FrameOfPacket
  <2> QED BY <1>3, <2>1, <2>2, DigipeatedIsPacket, WrappedIsPacket
          DEF OnTheWay, vars, Wire!vars
<1>4. CASE Arrived \/ UNCHANGED journeyVars
  <2>1. UNCHANGED <<vars, packet, step, result>>
    BY <1>4 DEF Arrived, journeyVars, allVars
  <2>2. Accepted' = Accepted /\ Ax25' = Ax25 /\ KissToTnc2(Ax25)' = KissToTnc2(Ax25)
        /\ ax25' = ax25
    BY <2>1 DEF Accepted, Ax25, KissToTnc2, vars
  <2> QED BY <2>1, <2>2 DEF OnTheWay, FrameOfPacket, vars, Wire!vars
<1> QED BY <1>1, <1>2, <1>3, <1>4 DEF JNext

\* What the reading loop has read, on any link.
WireInvariant == Wire!IInv

\* At the start a packet is there to be sent, and the wire is empty.
LEMMA JourneyStart == JInit => OnTheWay /\ WireInvariant
<1> SUFFICES ASSUME JInit PROVE OnTheWay /\ WireInvariant
  OBVIOUS
<1>1. packet \in PacketOver(Cell) /\ Init /\ step = "tnc2" /\ result = {}
  BY SentIsPacket DEF JInit, KInit
<1>2. FrameOfPacket
  BY <1>1 DEF FrameOfPacket
<1>3. Wire!KissAssumption /\ Wire!Init
  BY <1>1, KissAssumption DEF Wire!KissAssumption, Init, Wire!Init
<1>4. Wire!IInv
  BY <1>3, Wire!StuffingStep
<1> QED BY <1>1, <1>2, <1>4 DEF OnTheWay, WireInvariant

\* What byte stuffing promises of any bytes it promises of every link, since each
\* step of a journey is one of byte stuffing or leaves the wire alone.
LEMMA EveryLinkKeepsIt ==
  OnTheWay /\ WireInvariant /\ [JNext]_journeyVars => (OnTheWay /\ WireInvariant)'
<1> SUFFICES ASSUME OnTheWay, WireInvariant, [JNext]_journeyVars
             PROVE  OnTheWay' /\ WireInvariant'
  OBVIOUS
<1>1. Wire!KissAssumption
  BY KissAssumption DEF Wire!KissAssumption
<1>2. Wire!IInv
  BY DEF WireInvariant
<1>3. ReadsWhatWasSent
  BY <1>2 DEF Wire!IInv, Wire!ReadsWhatWasSent, ReadsWhatWasSent
<1>4. OnTheWay' /\ [Wire!Next]_Wire!vars
  BY <1>3, JourneyStep
<1>5. Wire!IInv'
  BY <1>1, <1>2, <1>4, Wire!StuffingStep
<1> QED BY <1>4, <1>5 DEF WireInvariant

\* The inductive invariant of a journey.
LEMMA JourneyInvariance == JSpec => [](OnTheWay /\ WireInvariant)
BY JourneyStart, EveryLinkKeepsIt, PTL DEF JSpec

\* On every link of a journey, whatever digipeaters and gateways do in between,
\* a frame is read as it was written and no FEND stands in it
\* (frame.rs:16-34,144-153).
THEOREM EveryLinkIsSound == JSpec => [](ReadsWhatWasSent /\ OneFrameOnTheWire)
<1>1. WireInvariant => ReadsWhatWasSent /\ OneFrameOnTheWire
  BY DEF WireInvariant, Wire!IInv, Wire!ReadsWhatWasSent, ReadsWhatWasSent,
         Wire!OneFrameOnTheWire, OneFrameOnTheWire
<1> QED BY JourneyInvariance, <1>1, PTL

\* Over any number of links, each packet that is accepted comes back as it was
\* sent over the link, but for the capitals and the SSID of its calls
\* (frame.rs:99-155,229-268).
THEOREM EveryLinkReturnsThePacket == JSpec => []PacketComesBack
<1>1. OnTheWay => PacketComesBack
  BY DecodedComesBack DEF OnTheWay
<1> QED BY JourneyInvariance, <1>1, PTL

-----------------------------------------------------------------------------
(* Links and parser agree.                                                 *)

\* A call of capitals and digits is in capitals already (parser.rs:1166-1190).
LEMMA CapitalCall ==
  ASSUME NEW call \in Call
  PROVE  /\ call.base \in Bases => Capital(call) = call
         /\ call.base \in Bases <=> call.base \notin BadBases
BY FrameAssumption, HeaderAssumption DEF Capital, Call

\* What the parser makes of a call, if it takes it at all.
LEMMA ReadCall ==
  ASSUME NEW call \in Call, NEW strict \in BOOLEAN, NEW others,
         NEW c \in Read(call, strict, others)
  PROVE  /\ call.base \in Bases => c = call
         /\ strict /\ c = call => IsAx25(call)
<1>1. CASE strict
  <2>1. c = Capital(call) /\ c.base \in Bases /\ (c.ssid = NoSsid \/ c.ssid <= 15)
    BY <1>1 DEF Read, CheckAx25Call
  <2>2. c = call => call.base \notin BadBases /\ call.ssid <= 15
    BY <2>1, FrameAssumption DEF NoSsid
  <2> QED BY <2>1, <2>2, CapitalCall DEF IsAx25
<1>2. CASE ~ strict
  BY <1>2 DEF Read, LooseCall
<1> QED BY <1>1, <1>2

\* A call that has come over a link passes the strict parser as it is.
LEMMA PlainIsRead ==
  ASSUME NEW call \in Call, IsAx25(call), NEW strict \in BOOLEAN, NEW others
  PROVE  Read(Plain(call), strict, others) = {Plain(call)}
<1> DEFINE c == Plain(call)
<1>1. call.base \in Bases /\ call.ssid \in Nat \cup {NoSsid} /\ call.ssid <= 15
  BY DEF Call, IsAx25
<1>2. c \in Call /\ c.base = call.base /\ c.zeros = 0
      /\ c.ssid = IF call.ssid = 0 THEN NoSsid ELSE call.ssid
  BY PlainCall, PlainIsCall
<1> HIDE DEF c
<1>3. c.base \in Bases /\ Capital(c) = c
  BY <1>1, <1>2, CapitalCall
<1>4. c.ssid <= 15 /\ (c.ssid = NoSsid \/ Digits(c) <= 2)
  BY <1>1, <1>2 DEF Digits, NoSsid
<1>5. Read(c, strict, others) = {c}
  BY <1>3, <1>4 DEF Read, CheckAx25Call, LooseCall
<1> QED BY <1>5 DEF c

\* A hop with another call.
LEMMA ChangedHop ==
  ASSUME NEW hop \in Hop, NEW new
  PROVE  [hop EXCEPT !.call = new] = [call |-> new, repeated |-> hop.repeated]
<1>1. DOMAIN hop = {"call", "repeated"}
  BY DEF Hop
<1>2. [hop EXCEPT !.call = new] =
        [f \in {"call", "repeated"} |-> IF f = "call" THEN new ELSE hop[f]]
  BY <1>1
<1>3. @ = [call |-> new, repeated |-> hop.repeated]
  OBVIOUS
<1> QED BY <1>2, <1>3

\* What the parser makes of a header: a header of as many hops, each with its
\* mark (parser.rs:233-307).
LEMMA ParsedHeader ==
  ASSUME NEW S, NEW p \in PacketOver(S), NEW strict \in BOOLEAN,
         NEW h \in ParseHeader(p, strict)
  PROVE  /\ p.body # <<>> /\ (strict => Len(p.path) <= 8)
         /\ h.source \in Read(p.source, strict, LooseSources)
         /\ h.destination \in Read(p.destination, TRUE, {})
         /\ DOMAIN h.path = 1 .. Len(p.path)
         /\ \A i \in 1 .. Len(p.path) :
              /\ h.path[i] = [call |-> h.path[i].call, repeated |-> p.path[i].repeated]
              /\ h.path[i].call \in Read(p.path[i].call, strict, LoosePaths)
<1> DEFINE hops == [i \in 1 .. Len(p.path) |-> Read(p.path[i].call, strict, LoosePaths)]
           chosen(i) == TheCall(hops[i])
           path == [i \in 1 .. Len(p.path) |-> [p.path[i] EXCEPT !.call = chosen(i)]]
           sources == Read(p.source, strict, LooseSources)
<1>1. ParseHeader(p, strict) =
            (IF \/ p.body = <<>> \/ (strict /\ Len(p.path) > 8)
                \/ \E i \in 1 .. Len(p.path) : hops[i] = {}
             THEN {}
             ELSE {[source |-> source, destination |-> destination, path |-> path] :
                     source \in sources, destination \in CheckAx25Call(p.destination)})
  BY DEF ParseHeader
<1>2. p.path \in Seq(Hop) /\ Len(p.path) \in Nat
  BY PacketFields
<1>3. /\ p.body # <<>> /\ (strict => ~ (Len(p.path) > 8))
      /\ \A i \in 1 .. Len(p.path) : hops[i] # {}
      /\ h \in {[source |-> source, destination |-> destination, path |-> path] :
                  source \in sources, destination \in CheckAx25Call(p.destination)}
  <2> HIDE DEF hops, path, sources
  <2> QED BY <1>1
<1>4. h.source \in sources /\ h.destination \in CheckAx25Call(p.destination) /\ h.path = path
  <2> HIDE DEF hops, path, sources
  <2> QED BY <1>3
<1>5. ASSUME NEW i \in 1 .. Len(p.path)
      PROVE  /\ path[i] = [call |-> path[i].call, repeated |-> p.path[i].repeated]
             /\ path[i].call \in Read(p.path[i].call, strict, LoosePaths)
  <2>1. p.path[i] \in Hop
    BY <1>2, ElementOfSeq
  <2>2. hops[i] = Read(p.path[i].call, strict, LoosePaths)
    OBVIOUS
  <2>3. chosen(i) \in hops[i]
    BY <1>3 DEF TheCall
  <2>4. path[i] = [p.path[i] EXCEPT !.call = chosen(i)]
    OBVIOUS
  <2> HIDE DEF path, chosen, hops
  <2>5. path[i] = [call |-> chosen(i), repeated |-> p.path[i].repeated]
    BY <2>1, <2>4, ChangedHop
  <2> QED BY <2>2, <2>3, <2>5
<1>6. DOMAIN path = 1 .. Len(p.path)
  OBVIOUS
<1>7. strict => Len(p.path) <= 8
  BY <1>2, <1>3
<1> HIDE DEF path
<1> QED BY <1>3, <1>4, <1>5, <1>6, <1>7 DEF Read

\* A packet whose header the strict parser leaves as it is is accepted
\* (frame.rs:99-132, parser.rs:233-307).
LEMMA ParsedIsAccepted ==
  ASSUME packet \in PacketOver(Cell), HeaderOf(packet) \in ParseHeader(packet, TRUE)
  PROVE  Accepted
<1> DEFINE h == HeaderOf(packet)
<1>1. h.source = packet.source /\ h.destination = packet.destination /\ h.path = packet.path
  BY DEF HeaderOf
<1>2. /\ packet.source \in Call /\ packet.destination \in Call /\ packet.path \in Seq(Hop)
  BY PacketFields
<1> HIDE DEF h
<1>3. h \in ParseHeader(packet, TRUE)
  BY DEF h
<1>4. /\ packet.body # <<>> /\ (TRUE => Len(packet.path) <= 8)
      /\ h.source \in Read(packet.source, TRUE, LooseSources)
      /\ h.destination \in Read(packet.destination, TRUE, {})
      /\ \A i \in 1 .. Len(packet.path) :
           h.path[i].call \in Read(packet.path[i].call, TRUE, LoosePaths)
  BY <1>3, ParsedHeader
<1>5. IsAx25(packet.source)
  BY <1>1, <1>2, <1>4, ReadCall
<1>6. IsAx25(packet.destination)
  BY <1>1, <1>2, <1>4, ReadCall
<1>7. ASSUME NEW i \in 1 .. Len(packet.path) PROVE IsAx25(packet.path[i].call)
  <2>1. packet.path[i].call \in Call
    <3>1. packet.path[i] \in Hop
      BY <1>2, ElementOfSeq
    <3> QED BY <3>1 DEF Hop
  <2> QED BY <1>1, <1>4, <2>1, ReadCall
<1> QED BY <1>4, <1>5, <1>6, <1>7 DEF Accepted

\* What comes back of an accepted packet passes the parser unchanged
\* (parser.rs:233-307,1166-1190, frame.rs:258-268).
LEMMA ReturnedIsParsed ==
  ASSUME packet \in PacketOver(Cell), Accepted, NEW strict \in BOOLEAN
  PROVE  ParseHeader(Returned, strict) = {HeaderOf(Returned)}
<1> DEFINE p == Returned
           hops == [i \in 1 .. Len(p.path) |-> Read(p.path[i].call, strict, LoosePaths)]
           path == [i \in 1 .. Len(p.path) |-> [p.path[i] EXCEPT !.call = TheCall(hops[i])]]
           sources == Read(p.source, strict, LooseSources)
           destinations == CheckAx25Call(p.destination)
<1>1. ParseHeader(p, strict) =
            (IF \/ p.body = <<>> \/ (strict /\ Len(p.path) > 8)
                \/ \E i \in 1 .. Len(p.path) : hops[i] = {}
             THEN {}
             ELSE {[source |-> source, destination |-> destination, path |-> path] :
                     source \in sources, destination \in destinations})
  <2> HIDE DEF p
  <2> QED BY DEF ParseHeader
<1>2. /\ packet.source \in Call /\ packet.destination \in Call /\ packet.path \in Seq(Hop)
      /\ Len(packet.path) \in Nat
  BY PacketFields
<1>3. /\ p.source = Plain(packet.source) /\ p.destination = Plain(packet.destination)
      /\ p.body = packet.body /\ p.path \in Seq(Hop) /\ Len(p.path) = Len(packet.path)
      /\ \A i \in 1 .. Len(packet.path) :
           p.path[i] = [call |-> Plain(packet.path[i].call), repeated |-> packet.path[i].repeated]
  <2>1. p \in PacketOver(Cell)
    BY ReturnedIsPacket
  <2>2. p.path \in Seq(Hop)
    BY <2>1, PacketFields
  <2>3. DOMAIN p.path = 1 .. Len(packet.path)
    BY DEF Returned
  <2>4. Len(p.path) = Len(packet.path)
    <3> DEFINE route == p.path
    <3>1. route \in Seq(Hop) /\ DOMAIN route = 1 .. Len(packet.path)
      BY <2>2, <2>3
    <3> HIDE DEF route
    <3>2. Len(route) = Len(packet.path)
      BY <1>2, <3>1
    <3> QED BY <3>2 DEF route
  <2> QED BY <2>2, <2>4 DEF Returned
<1> HIDE DEF p
<1>4. sources = {p.source} /\ destinations = {p.destination}
  <2>1. IsAx25(packet.source) /\ IsAx25(packet.destination)
    BY DEF Accepted
  <2>2. destinations = Read(p.destination, TRUE, {})
    BY DEF Read
  <2>3. sources = {p.source}
    BY <1>2, <1>3, <2>1, PlainIsRead
  <2>4. Read(p.destination, TRUE, {}) = {p.destination}
    BY <1>2, <1>3, <2>1, PlainIsRead
  <2> QED BY <2>2, <2>3, <2>4
<1>5. ASSUME NEW i \in 1 .. Len(p.path)
      PROVE  hops[i] = {p.path[i].call} /\ path[i] = p.path[i]
  <2>0. i \in 1 .. Len(packet.path)
    BY <1>3
  <2>1. packet.path[i].call \in Call /\ IsAx25(packet.path[i].call)
    <3>1. packet.path[i] \in Hop
      BY <1>2, <2>0, ElementOfSeq
    <3> QED BY <2>0, <3>1 DEF Hop, Accepted
  <2>2. p.path[i].call = Plain(packet.path[i].call)
    <3>1. p.path[i] = [call |-> Plain(packet.path[i].call), repeated |-> packet.path[i].repeated]
      BY <1>3, <2>0
    <3> QED BY <3>1
  <2>3. hops[i] = {p.path[i].call}
    BY <2>1, <2>2, PlainIsRead
  <2>4. path[i] = [p.path[i] EXCEPT !.call = TheCall(hops[i])]
    OBVIOUS
  <2>5. TheCall({p.path[i].call}) = p.path[i].call
    BY DEF TheCall
  <2>6. p.path[i] \in Hop
    BY <1>3, ElementOfSeq
  <2> HIDE DEF path, hops
  <2>7. path[i] = [call |-> p.path[i].call, repeated |-> p.path[i].repeated]
    BY <2>3, <2>4, <2>5, <2>6, ChangedHop
  <2> QED BY <2>3, <2>6, <2>7 DEF Hop
<1>6. path = p.path
  <2>1. DOMAIN path = 1 .. Len(p.path) /\ path = [i \in 1 .. Len(p.path) |-> path[i]]
    OBVIOUS
  <2> HIDE DEF path
  <2>2. p.path = [i \in 1 .. Len(p.path) |-> p.path[i]]
    BY <1>3
  <2> QED BY <1>5, <2>1, <2>2
<1>7. ~ (\/ p.body = <<>> \/ (strict /\ Len(p.path) > 8)
         \/ \E i \in 1 .. Len(p.path) : hops[i] = {})
  <2>1. p.body # <<>>
    BY <1>3 DEF Accepted
  <2>2. ~ (Len(p.path) > 8)
    BY <1>2, <1>3 DEF Accepted
  <2> HIDE DEF hops
  <2> QED BY <1>5, <2>1, <2>2
<1> HIDE DEF hops, path, sources, destinations
<1>8. ParseHeader(p, strict) =
        {[source |-> source, destination |-> destination, path |-> path] :
           source \in sources, destination \in destinations}
  BY <1>1, <1>7
<1>9. @ = {[source |-> p.source, destination |-> p.destination, path |-> p.path]}
  BY <1>4, <1>6
<1> QED BY <1>8, <1>9 DEF HeaderOf, p

\* A header that is parsed before and behind the link is the same, but for how
\* its SSIDs are written (parser.rs:233-307, frame.rs:251-268).
LEMMA SameHeader ==
  ASSUME packet \in PacketOver(Cell), Accepted, NEW strict \in BOOLEAN,
         NEW h \in ParseHeader(packet, strict)
  PROVE  HeaderOf(Returned) =
           [source |-> Plain(Capital(h.source)), destination |-> Plain(Capital(h.destination)),
            path |-> [i \in 1 .. Len(h.path) |-> [h.path[i] EXCEPT !.call = Plain(Capital(@))]]]
<1> DEFINE n == Len(packet.path)
           back(i) == [call |-> Plain(packet.path[i].call), repeated |-> packet.path[i].repeated]
           hop(i) == [h.path[i] EXCEPT !.call = Plain(Capital(@))]
<1>1. /\ packet.source \in Call /\ packet.destination \in Call /\ packet.path \in Seq(Hop)
      /\ n \in Nat
  BY PacketFields
<1>2. /\ h.source \in Read(packet.source, strict, LooseSources)
      /\ h.destination \in Read(packet.destination, TRUE, {})
      /\ DOMAIN h.path = 1 .. Len(packet.path)
      /\ \A i \in 1 .. Len(packet.path) :
           /\ h.path[i] = [call |-> h.path[i].call, repeated |-> packet.path[i].repeated]
           /\ h.path[i].call \in Read(packet.path[i].call, strict, LoosePaths)
  BY ParsedHeader
<1>3. ASSUME NEW call \in Call, IsAx25(call), NEW mode \in BOOLEAN, NEW others,
             NEW c \in Read(call, mode, others)
      PROVE  Capital(c) = call
  BY <1>3, ReadCall, CapitalCall DEF IsAx25
<1>4. IsAx25(packet.source) /\ IsAx25(packet.destination)
      /\ \A i \in 1 .. Len(packet.path) : IsAx25(packet.path[i].call)
  BY DEF Accepted
<1>5. Capital(h.source) = packet.source /\ Capital(h.destination) = packet.destination
  <2>1. Capital(h.source) = packet.source
    BY <1>1, <1>2, <1>3, <1>4
  <2>2. Capital(h.destination) = packet.destination
    <3>1. packet.destination.base \in Bases
      BY <1>1, <1>4, CapitalCall DEF IsAx25
    <3>2. h.destination = packet.destination
      BY <1>1, <1>2, <3>1, ReadCall
    <3> QED BY <1>1, <3>1, <3>2, CapitalCall
  <2> QED BY <2>1, <2>2
<1>6. Len(h.path) = n
  <2>1. Len(h.path) = Len(packet.path)
    BY <1>1, <1>2
  <2> QED BY <2>1
<1>7. ASSUME NEW i \in 1 .. n PROVE hop(i) = back(i)
  <2>1. packet.path[i] \in Hop
    BY <1>1, ElementOfSeq
  <2>2. packet.path[i].call \in Call /\ packet.path[i].repeated \in BOOLEAN
    BY <2>1 DEF Hop
  <2>0. /\ h.path[i] = [call |-> h.path[i].call, repeated |-> packet.path[i].repeated]
        /\ h.path[i].call \in Read(packet.path[i].call, strict, LoosePaths)
        /\ IsAx25(packet.path[i].call)
    BY <1>2, <1>4
  <2>3. Capital(h.path[i].call) = packet.path[i].call
    BY <1>3, <2>0, <2>2
  <2> DEFINE new == Plain(Capital(h.path[i].call))
             call == h.path[i].call
             mark == packet.path[i].repeated
  <2>4. hop(i) = [h.path[i] EXCEPT !.call = new]
    OBVIOUS
  <2>5. new = Plain(packet.path[i].call)
    BY <2>3
  <2>6. h.path[i] = [call |-> call, repeated |-> mark]
    BY <2>0
  <2> HIDE DEF new, hop, call, mark
  <2>10. DOMAIN h.path[i] = {"call", "repeated"} /\ h.path[i].repeated = mark
    BY <2>6
  <2>7. hop(i) = [f \in {"call", "repeated"} |-> IF f = "call" THEN new ELSE h.path[i][f]]
    BY <2>4, <2>10
  <2>8. @ = [call |-> new, repeated |-> mark]
    BY <2>10
  <2> QED BY <2>5, <2>7, <2>8 DEF mark
<1>8. HeaderOf(Returned) =
        [source |-> Plain(packet.source), destination |-> Plain(packet.destination),
         path |-> [i \in 1 .. n |-> back(i)]]
  BY DEF HeaderOf, Returned
<1> HIDE DEF back, hop
<1>9. [i \in 1 .. n |-> back(i)] = [i \in 1 .. Len(h.path) |-> hop(i)]
  BY <1>6, <1>7
<1>10. HeaderOf(Returned) =
        [source |-> Plain(Capital(h.source)), destination |-> Plain(Capital(h.destination)),
         path |-> [i \in 1 .. Len(h.path) |-> hop(i)]]
  BY <1>5, <1>8, <1>9
<1> QED BY <1>10 DEF hop

\* What a call is is decided in four places, and they agree on every packet, over
\* any number of links: the encoder refuses no packet whose header the strict
\* parser leaves as it is, and what arrives passes the strict parser unchanged
\* (parser.rs:233-307,1166-1190, frame.rs:99-132,229-249).
THEOREM JourneyLinksAndParserAgree == JSpec => []LinksAndParserAgree
<1>1. OnTheWay => LinksAndParserAgree
  <2> SUFFICES ASSUME OnTheWay PROVE LinksAndParserAgree
    OBVIOUS
  <2>1. packet \in PacketOver(Cell)
    BY DEF OnTheWay
  <2>2. step = "refused" => HeaderOf(packet) \notin ParseHeader(packet, TRUE)
    BY <2>1, ParsedIsAccepted DEF OnTheWay
  <2>3. ASSUME NEW p \in result, NEW strict \in BOOLEAN
        PROVE  /\ ParseHeader(p, strict) = {HeaderOf(p)}
               /\ \A h \in ParseHeader(packet, strict) :
                    HeaderOf(p) =
                      [source |-> Plain(Capital(h.source)),
                       destination |-> Plain(Capital(h.destination)),
                       path |-> [i \in 1 .. Len(h.path) |->
                                   [h.path[i] EXCEPT !.call = Plain(Capital(@))]]]
    <3>1. p = Returned /\ Accepted
      BY ResultIsReturned
    <3> QED BY <2>1, <3>1, ReturnedIsParsed, SameHeader
  <2> QED BY <2>2, <2>3 DEF LinksAndParserAgree
<1> QED BY JourneyInvariance, <1>1, PTL

-----------------------------------------------------------------------------
(* Copies are duplicates.                                                  *)

\* Up to a first cell that is no header, or to the end, all cells are headers.
LEMMA FirstCell ==
  ASSUME NEW S, NEW body \in Seq(S)
  PROVE  \E n \in 0 .. Len(body) :
           /\ \A i \in 1 .. n : IsHeader(body[i])
           /\ n < Len(body) => ~ IsHeader(body[n + 1])
<1> DEFINE T == {n \in 0 .. Len(body) : n < Len(body) => ~ IsHeader(body[n + 1])}
           R == {ss \in Nat \X Nat : ss[1] < ss[2]}
<1>0. Len(body) \in Nat
  OBVIOUS
<1>1. T # {} /\ T \in SUBSET Nat
  <2>1. Len(body) \in T
    BY <1>0
  <2> QED BY <1>0, <2>1
<1>2. IsWellFoundedOn(R, Nat)
  BY NatLessThanWellFounded, Zenon DEF OpToRel
<1>3. PICK n \in T : \A k \in T : ~ (<<k, n>> \in R)
  <2> HIDE DEF R, T
  <2> QED BY <1>1, <1>2, WFMin, Zenon
<1>4. n \in 0 .. Len(body) /\ (n < Len(body) => ~ IsHeader(body[n + 1]))
  OBVIOUS
<1>5. ASSUME NEW i \in 1 .. n PROVE IsHeader(body[i])
  <2>1. i - 1 \in 0 .. Len(body) /\ i - 1 < n /\ i - 1 < Len(body) /\ (i - 1) + 1 = i
    BY <1>0, <1>4
  <2>2. <<i - 1, n>> \in R
    BY <2>1
  <2>3. i - 1 \notin T
    <3> HIDE DEF T, R
    <3> QED BY <1>3, <2>2
  <2> QED BY <2>1, <2>3
<1> HIDE DEF T, R
<1> QED BY <1>4, <1>5

\* Depth counts the headers at the start of the body (frame.rs:157-187).
LEMMA DepthCounts ==
  ASSUME NEW p, NEW S, p.body \in Seq(S)
  PROVE  /\ Depth(p) \in 0 .. Len(p.body)
         /\ \A i \in 1 .. Depth(p) : IsHeader(p.body[i])
         /\ Depth(p) < Len(p.body) => ~ IsHeader(p.body[Depth(p) + 1])
<1> DEFINE P(n) == /\ \A i \in 1 .. n : IsHeader(p.body[i])
                   /\ n < Len(p.body) => ~ IsHeader(p.body[n + 1])
<1>1. \E n \in 0 .. Len(p.body) : P(n)
  BY FirstCell
<1>2. Depth(p) = CHOOSE n \in 0 .. Len(p.body) : P(n)
  BY DEF Depth
<1> HIDE DEF P
<1>3. Depth(p) \in 0 .. Len(p.body) /\ P(Depth(p))
  BY <1>1, <1>2
<1> QED BY <1>3 DEF P

\* There is only one such count.
LEMMA DepthIs ==
  ASSUME NEW p, NEW S, p.body \in Seq(S), NEW n \in 0 .. Len(p.body),
         \A i \in 1 .. n : IsHeader(p.body[i]),
         n < Len(p.body) => ~ IsHeader(p.body[n + 1])
  PROVE  Depth(p) = n
<1> DEFINE d == Depth(p)
<1>1. /\ d \in 0 .. Len(p.body) /\ \A i \in 1 .. d : IsHeader(p.body[i])
      /\ d < Len(p.body) => ~ IsHeader(p.body[d + 1])
  BY DepthCounts
<1>2. Len(p.body) \in Nat
  OBVIOUS
<1> HIDE DEF d
<1>3. ~ (d < n)
  <2> SUFFICES ASSUME d < n PROVE FALSE
    OBVIOUS
  <2>1. d + 1 \in 1 .. n /\ d < Len(p.body)
    BY <1>1, <1>2
  <2> QED BY <1>1, <2>1
<1>4. ~ (n < d)
  <2> SUFFICES ASSUME n < d PROVE FALSE
    OBVIOUS
  <2>1. n + 1 \in 1 .. d /\ n < Len(p.body)
    BY <1>1, <1>2
  <2> QED BY <1>1, <2>1
<1>5. d = n
  BY <1>1, <1>2, <1>3, <1>4
<1> QED BY <1>5 DEF d

\* A call as it was sent, or as AX.25 shows it.
Shown(call, sent_call) == call \in {sent_call, Plain(sent_call)}

\* A copy of a packet: third-party headers in front of its body, and in the
\* innermost header, the packet's own if there is none, the calls as they were
\* sent or as AX.25 shows them.
IsCopy(p, first) ==
  LET k == Len(p.body) - Len(first.body)
      header == IF k = 0 THEN p ELSE p.body[k].tnc2
  IN  /\ k >= 0
      /\ \A i \in 1 .. k : p.body[i] \in ThirdParty
      /\ \A i \in 1 .. Len(first.body) : p.body[k + i] = first.body[i]
      /\ Shown(header.source, first.source) /\ Shown(header.destination, first.destination)

\* A third-party header is a header.
LEMMA ThirdPartyIsHeader ==
  ASSUME NEW cell \in ThirdParty
  PROVE  IsHeader(cell)
<1>1. cell \notin Raw
  BY JourneyAssumption
<1>2. "tnc2" \in DOMAIN cell
  BY DEF ThirdParty
<1> QED BY <1>1, <1>2 DEF IsHeader

\* The headers of a copy are its third-party headers and those of the packet.
LEMMA DepthOfCopy ==
  ASSUME NEW p, NEW first, NEW S, p.body \in Seq(S), first.body \in Seq(S),
         IsCopy(p, first)
  PROVE  Depth(p) = (Len(p.body) - Len(first.body)) + Depth(first)
<1> DEFINE k == Len(p.body) - Len(first.body)
           d == Depth(first)
<1>1. Len(p.body) \in Nat /\ Len(first.body) \in Nat
  OBVIOUS
<1>2. k \in Nat /\ Len(p.body) = k + Len(first.body)
  BY <1>1 DEF IsCopy
<1>3. /\ \A i \in 1 .. k : p.body[i] \in ThirdParty
      /\ \A i \in 1 .. Len(first.body) : p.body[k + i] = first.body[i]
  BY DEF IsCopy
<1>4. /\ d \in 0 .. Len(first.body) /\ \A i \in 1 .. d : IsHeader(first.body[i])
      /\ d < Len(first.body) => ~ IsHeader(first.body[d + 1])
  BY DepthCounts
<1> HIDE DEF k, d
<1>5. ASSUME NEW i \in 1 .. k + d PROVE IsHeader(p.body[i])
  <2>1. CASE i \in 1 .. k
    BY <1>3, <2>1, ThirdPartyIsHeader
  <2>2. CASE i \notin 1 .. k
    <3>1. i - k \in 1 .. d /\ i - k \in 1 .. Len(first.body) /\ k + (i - k) = i
      BY <1>1, <1>2, <1>4, <2>2
    <3>2. p.body[i] = first.body[i - k]
      BY <1>3, <3>1
    <3> QED BY <1>4, <3>1, <3>2
  <2> QED BY <2>1, <2>2
<1>6. ASSUME k + d < Len(p.body) PROVE ~ IsHeader(p.body[k + d + 1])
  <2>1. d < Len(first.body) /\ d + 1 \in 1 .. Len(first.body) /\ k + d + 1 = k + (d + 1)
    BY <1>1, <1>2, <1>4, <1>6
  <2>2. p.body[k + d + 1] = first.body[d + 1]
    BY <1>3, <2>1
  <2> QED BY <1>4, <2>1, <2>2
<1>7. k + d \in 0 .. Len(p.body)
  BY <1>1, <1>2, <1>4
<1>8. Depth(p) = k + d
  BY <1>5, <1>6, <1>7, DepthIs
<1> QED BY <1>8 DEF k, d

\* A copy has the body of the packet behind its headers, and the calls of the
\* packet in the innermost of them.
LEMMA InnermostOfCopy ==
  ASSUME NEW p, NEW first, NEW S, p.body \in Seq(S), first.body \in Seq(S),
         IsCopy(p, first)
  PROVE  /\ Innermost(p).body = Innermost(first).body
         /\ Depth(first) > 0 => /\ Innermost(p).source = Innermost(first).source
                                /\ Innermost(p).destination = Innermost(first).destination
         /\ Depth(first) = 0 => /\ Innermost(first).source = first.source
                                /\ Innermost(first).destination = first.destination
                                /\ Shown(Innermost(p).source, first.source)
                                /\ Shown(Innermost(p).destination, first.destination)
<1> DEFINE k == Len(p.body) - Len(first.body)
           d == Depth(first)
           m == Len(first.body)
<1>1. /\ k \in Nat /\ m \in Nat /\ Len(p.body) = k + m /\ d \in 0 .. m
  <2>1. Len(p.body) \in Nat /\ Len(first.body) \in Nat
    OBVIOUS
  <2>2. d \in 0 .. m
    BY DepthCounts
  <2> QED BY <2>1, <2>2 DEF IsCopy
<1>2. Depth(p) = k + d
  BY DepthOfCopy
<1>3. \A i \in 1 .. m : p.body[k + i] = first.body[i]
  BY DEF IsCopy
<1>4. /\ k = 0 => Shown(p.source, first.source) /\ Shown(p.destination, first.destination)
      /\ k # 0 => /\ Shown(p.body[k].tnc2.source, first.source)
                  /\ Shown(p.body[k].tnc2.destination, first.destination)
  BY DEF IsCopy
<1>5. /\ Innermost(p).body = SubSeq(p.body, Depth(p) + 1, Len(p.body))
      /\ Innermost(first).body = SubSeq(first.body, d + 1, m)
      /\ Innermost(p).source = IF Depth(p) = 0 THEN p.source ELSE p.body[Depth(p)].tnc2.source
      /\ Innermost(p).destination =
           IF Depth(p) = 0 THEN p.destination ELSE p.body[Depth(p)].tnc2.destination
      /\ Innermost(first).source = IF d = 0 THEN first.source ELSE first.body[d].tnc2.source
      /\ Innermost(first).destination =
           IF d = 0 THEN first.destination ELSE first.body[d].tnc2.destination
  BY DEF Innermost
<1> HIDE DEF k, d, m
<1>6. SubSeq(p.body, k + d + 1, k + m) = SubSeq(first.body, d + 1, m)
  <2> DEFINE a == SubSeq(p.body, k + d + 1, k + m)
             b == SubSeq(first.body, d + 1, m)
  <2>1. CASE d = m
    <3>1. a = <<>>
      BY <1>1, <2>1, SubSeqProperties
    <3>2. b = <<>>
      BY <1>1, <2>1, SubSeqProperties
    <3> QED BY <3>1, <3>2
  <2>2. CASE d # m
    <3>0. k + d + 1 \in 1 .. Len(p.body) + 1 /\ k + m \in 0 .. Len(p.body)
          /\ d + 1 \in 1 .. m + 1 /\ m \in 0 .. m /\ m = Len(first.body)
          /\ k + d + 1 <= k + m /\ d + 1 <= m
      BY <1>1, <2>2 DEF m
    <3>1. a \in Seq(S) /\ Len(a) = (k + m) - (k + d + 1) + 1
          /\ \A i \in 1 .. (k + m) - (k + d + 1) + 1 : a[i] = p.body[(k + d + 1) + i - 1]
      BY <1>1, <3>0
    <3>2. b \in Seq(S) /\ Len(b) = m - (d + 1) + 1
          /\ \A i \in 1 .. m - (d + 1) + 1 : b[i] = first.body[(d + 1) + i - 1]
      BY <1>1, <3>0
    <3> HIDE DEF a, b
    <3>3. Len(a) = m - d /\ Len(b) = m - d
      BY <1>1, <3>1, <3>2
    <3>4. ASSUME NEW i \in 1 .. m - d PROVE a[i] = b[i]
      <4>1. d + i \in 1 .. m /\ (k + d + 1) + i - 1 = k + (d + i) /\ (d + 1) + i - 1 = d + i
            /\ i \in 1 .. (k + m) - (k + d + 1) + 1 /\ i \in 1 .. m - (d + 1) + 1
        BY <1>1
      <4>2. a[i] = p.body[k + (d + i)]
        BY <3>1, <4>1
      <4>3. b[i] = first.body[d + i]
        BY <3>2, <4>1
      <4> QED BY <1>3, <4>1, <4>2, <4>3
    <3>5. a = b
      BY <3>1, <3>2, <3>3, <3>4, SeqEqual
    <3> QED BY <3>5 DEF a, b
  <2> QED BY <2>1, <2>2
<1>7. d > 0 => p.body[k + d] = first.body[d] /\ k + d # 0
  BY <1>1, <1>3
<1>8. d = 0 => k + d = k
  BY <1>1
<1>9. Innermost(p).body = Innermost(first).body
  BY <1>1, <1>2, <1>5, <1>6
<1>10. ASSUME d > 0
       PROVE  /\ Innermost(p).source = Innermost(first).source
              /\ Innermost(p).destination = Innermost(first).destination
  BY <1>1, <1>2, <1>5, <1>7, <1>10
<1>11. ASSUME d = 0
       PROVE  /\ Innermost(first).source = first.source
              /\ Innermost(first).destination = first.destination
              /\ Shown(Innermost(p).source, first.source)
              /\ Shown(Innermost(p).destination, first.destination)
  BY <1>2, <1>4, <1>5, <1>8, <1>11
<1> QED BY <1>9, <1>10, <1>11 DEF d

\* What travels over a link stays a copy (frame.rs:16-155).
LEMMA ReturnedIsCopy ==
  ASSUME NEW first, NEW S, first.body \in Seq(S), first.source \in Call,
         first.destination \in Call, packet \in PacketOver(Cell), IsCopy(packet, first)
  PROVE  IsCopy(Returned, first)
<1> DEFINE k == Len(packet.body) - Len(first.body)
           p == Returned
<1>1. p.body = packet.body /\ p.source = Plain(packet.source)
      /\ p.destination = Plain(packet.destination)
  BY DEF Returned
<1>2. ASSUME NEW call \in Call PROVE Plain(Plain(call)) = Plain(call)
  <2>1. Plain(call) \in Call
    BY PlainIsCall
  <2>2. Plain(call).ssid = 0 => FALSE
    BY PlainCall DEF NoSsid
  <2> QED BY <2>1, <2>2, PlainCall
<1>3. ASSUME NEW call, NEW sent_call \in Call, Shown(call, sent_call)
      PROVE  Shown(Plain(call), sent_call)
  BY <1>2, <1>3 DEF Shown
<1>4. /\ k >= 0
      /\ \A i \in 1 .. k : packet.body[i] \in ThirdParty
      /\ \A i \in 1 .. Len(first.body) : packet.body[k + i] = first.body[i]
      /\ k = 0 => Shown(packet.source, first.source)
                  /\ Shown(packet.destination, first.destination)
      /\ k # 0 => /\ Shown(packet.body[k].tnc2.source, first.source)
                  /\ Shown(packet.body[k].tnc2.destination, first.destination)
  BY DEF IsCopy
<1>5. k = 0 => Shown(p.source, first.source) /\ Shown(p.destination, first.destination)
  BY <1>1, <1>3, <1>4
<1>6. k = Len(p.body) - Len(first.body)
  BY <1>1
<1> HIDE DEF p, k
<1>7. IsCopy(p, first)
  BY <1>1, <1>4, <1>5, <1>6 DEF IsCopy
<1> QED BY <1>7 DEF p

\* A gateway makes a copy of what it has received.
LEMMA WrappedIsCopy ==
  ASSUME NEW p \in PacketOver(Cell), NEW q, NEW first, NEW S, first.body \in Seq(S),
         IsCopy(p, first), q.body = <<[tnc2 |-> [p EXCEPT !.body = <<>>]]>> \o p.body
  PROVE  IsCopy(q, first)
<1> DEFINE k == Len(p.body) - Len(first.body)
           n == Len(p.body)
           m == Len(first.body)
           header == [tnc2 |-> [p EXCEPT !.body = <<>>]]
           body == <<header>> \o p.body
<1>1. /\ p.source \in Call /\ p.destination \in Call
      /\ p.path \in Seq(Hop) /\ p.body \in Seq(Cell)
  BY PacketFields
<1>2. [p EXCEPT !.body = <<>>] =
        [source |-> p.source, destination |-> p.destination, path |-> p.path, body |-> <<>>]
  BY ChangedPacket
<1>3. header \in ThirdParty
  <2> DEFINE Path == Seq(Hop)
  <2>1. p.path \in Path
    BY <1>1
  <2> HIDE DEF Path
  <2>2. [source |-> p.source, destination |-> p.destination, path |-> p.path, body |-> <<>>]
          \in [source : Call, destination : Call, path : Path, body : {<<>>}]
    BY <1>1, <2>1
  <2> QED BY <1>2, <2>2 DEF ThirdParty, Path, Hop
<1>4. header.tnc2.source = p.source /\ header.tnc2.destination = p.destination
  BY <1>2
<1> HIDE DEF header
<1>5. n \in Nat /\ m \in Nat
  BY <1>1
<1>6. Len(body) = n + 1 /\ body[1] = header /\ \A i \in 1 .. n : body[i + 1] = p.body[i]
  <2>1. /\ Len(body) = 1 + Len(p.body)
        /\ \A i \in 1 .. Len(p.body) : body[1 + i] = p.body[i]
        /\ body[1] = header
    <3>1. p.body \in Seq(Cell \cup {header}) /\ <<header>> \in Seq(Cell \cup {header})
      BY <1>1, SeqMonotonic
    <3>2. Len(<<header>>) = 1 /\ <<header>>[1] = header
      OBVIOUS
    <3> QED BY <3>1, <3>2, ConcatProperties
  <2> HIDE DEF body
  <2>2. \A i \in 1 .. n : 1 + i = i + 1
    OBVIOUS
  <2> QED BY <1>5, <2>1, <2>2
<1>7. /\ k >= 0 /\ k = n - m
      /\ \A i \in 1 .. k : p.body[i] \in ThirdParty
      /\ \A i \in 1 .. m : p.body[k + i] = first.body[i]
      /\ k = 0 => Shown(p.source, first.source) /\ Shown(p.destination, first.destination)
      /\ k # 0 => /\ Shown(p.body[k].tnc2.source, first.source)
                  /\ Shown(p.body[k].tnc2.destination, first.destination)
  BY DEF IsCopy
<1>8. q.body = body
  BY DEF header
<1> HIDE DEF body, k, n, m
<1>9. /\ k \in Nat /\ n = k + m /\ Len(body) - m = k + 1
  <2>1. k >= 0 /\ k = n - m
    BY <1>7
  <2>2. Len(body) = n + 1
    BY <1>6
  <2> QED BY <1>5, <2>1, <2>2
<1>10. ASSUME NEW i \in 1 .. k + 1 PROVE body[i] \in ThirdParty
  <2>1. CASE i = 1
    BY <1>3, <1>6, <2>1
  <2>2. CASE i # 1
    <3>1. i - 1 \in 1 .. k /\ i - 1 \in 1 .. n /\ (i - 1) + 1 = i
      BY <1>5, <1>9, <2>2
    <3>2. body[i] = p.body[i - 1]
      BY <1>6, <3>1
    <3> QED BY <1>7, <3>1, <3>2
  <2> QED BY <2>1, <2>2
<1>11. ASSUME NEW i \in 1 .. m PROVE body[(k + 1) + i] = first.body[i]
  <2>1. k + i \in 1 .. n /\ (k + 1) + i = (k + i) + 1
    BY <1>5, <1>9
  <2>2. body[(k + i) + 1] = p.body[k + i]
    BY <1>6, <2>1
  <2> QED BY <1>7, <2>1, <2>2
<1>12. /\ Shown(body[k + 1].tnc2.source, first.source)
       /\ Shown(body[k + 1].tnc2.destination, first.destination)
  <2>1. CASE k = 0
    <3>1. body[k + 1] = header
      BY <1>6, <2>1
    <3> QED BY <1>4, <1>7, <2>1, <3>1
  <2>2. CASE k # 0
    <3>1. k \in 1 .. n
      BY <1>5, <1>9, <2>2
    <3>2. body[k + 1] = p.body[k]
      BY <1>6, <3>1
    <3> QED BY <1>7, <2>2, <3>2
  <2> QED BY <2>1, <2>2
<1>13. k + 1 # 0 /\ k + 1 >= 0
  BY <1>9
<1>14. m = Len(first.body)
  BY DEF m
<1> QED BY <1>8, <1>9, <1>10, <1>11, <1>12, <1>13, <1>14 DEF IsCopy

\* A copy that differs only in its route.
LEMMA ReroutedIsCopy ==
  ASSUME NEW p, NEW q, NEW first, IsCopy(p, first),
         q.source = p.source, q.destination = p.destination, q.body = p.body
  PROVE  IsCopy(q, first)
BY DEF IsCopy

\* Copies of copies are copies: whatever the links, digipeaters and gateways do.
Copied ==
  \A first \in origin :
    /\ first.body \in Seq(Cell) /\ first.source \in Call /\ first.destination \in Call
    /\ IsCopy(packet, first)

\* A packet is a copy of itself.
LEMMA SelfIsCopy ==
  ASSUME NEW p \in PacketOver(Cell)
  PROVE  IsCopy(p, p)
<1>1. Len(p.body) - Len(p.body) = 0
  <2>1. p.body \in Seq(Cell)
    BY PacketFields
  <2> QED BY <2>1
<1>2. \A i \in 1 .. Len(p.body) : 0 + i = i
  OBVIOUS
<1> QED BY <1>1, <1>2 DEF IsCopy, Shown

\* Every step keeps the copies.
LEMMA CopyStep ==
  ASSUME OnTheWay, OnTheWay', Copied, [JNext]_journeyVars
  PROVE  Copied'
<1>0. packet \in PacketOver(Cell) /\ packet' \in PacketOver(Cell)
  BY DEF OnTheWay
<1>1. CASE UNCHANGED <<packet, origin>>
  BY <1>1 DEF Copied
<1>2. CASE Compose
  <2>1. CASE origin' = {packet'}
    BY <1>0, <2>1, SelfIsCopy, PacketFields DEF Copied
  <2>2. CASE UNCHANGED <<packet, origin>>
    BY <2>2 DEF Copied
  <2> QED BY <1>2, <2>1, <2>2 DEF Compose, journey
<1>3. CASE Link
  BY <1>1, <1>3 DEF Link, Refuse, Encode, Transfer, Decode, journey
<1>4. CASE Digipeat \/ Gate
  <2>1. origin' = origin
    BY <1>4 DEF Digipeat, Gate, SendOn
  <2> SUFFICES ASSUME NEW first \in origin
               PROVE  IsCopy(packet', first)
    BY <2>1 DEF Copied
  <2>2. first.body \in Seq(Cell) /\ first.source \in Call /\ first.destination \in Call
        /\ IsCopy(packet, first)
    BY DEF Copied
  <2>3. ASSUME NEW p \in result PROVE p \in PacketOver(Cell) /\ IsCopy(p, first)
    BY <1>0, <2>2, ResultIsReturned, ReturnedIsCopy
  <2>4. CASE Digipeat
    BY <2>3, <2>4, DigipeatedIsPacket, ReroutedIsCopy
  <2>5. CASE Gate
    <3>1. PICK p \in result :
            packet' = [source |-> Gateway, destination |-> Gateway, path |-> <<>>,
                       body |-> <<[tnc2 |-> [p EXCEPT !.body = <<>>]]>> \o p.body]
      BY <2>5 DEF Gate, SendOn
    <3>2. packet'.body = <<[tnc2 |-> [p EXCEPT !.body = <<>>]]>> \o p.body
      BY <3>1
    <3> QED BY <2>2, <2>3, <3>2, WrappedIsCopy
  <2> QED BY <1>4, <2>4, <2>5
<1>5. CASE Arrived \/ UNCHANGED journeyVars
  BY <1>1, <1>5 DEF Arrived, journeyVars, allVars, journey
<1> QED BY <1>2, <1>3, <1>4, <1>5 DEF JNext

\* Which SSID AX.25 shows does not matter to the parts that duplicates share, if
\* it is written without zeros in front (frame.rs:157-187).
LEMMA ShownIsDuplicate ==
  ASSUME NEW call \in Call, NEW shown, Shown(shown, call), IsDuplicateCall(call)
  PROVE  /\ IsDuplicateCall(shown) /\ Capital(shown).base = Capital(call).base
         /\ IsCanonical(call) => Source(shown) = Source(call)
<1>1. CASE shown = call
  BY <1>1
<1>2. CASE shown = Plain(call)
  <2> DEFINE number == IF call.ssid = 0 THEN NoSsid ELSE call.ssid
             base == IF call.base \in DOMAIN Capitals THEN Capitals[call.base] ELSE call.base
             fields == {"base", "ssid", "zeros"}
  <2>1. call.ssid \in Nat \cup {NoSsid} /\ call.zeros \in Nat
    BY DEF Call
  <2>2. ASSUME NEW c \in Call, c.base = call.base
        PROVE  Capital(c) = [base |-> base, ssid |-> c.ssid, zeros |-> c.zeros]
    <3>1. DOMAIN c = fields
      BY DEF Call
    <3>2. CASE call.base \in DOMAIN Capitals
      <4>1. Capital(c) = [c EXCEPT !.base = Capitals[c.base]]
        BY <2>2, <3>2 DEF Capital
      <4> DEFINE new == Capitals[c.base]
      <4>2. new = base
        BY <2>2, <3>2
      <4> HIDE DEF new, base
      <4>3. [c EXCEPT !.base = new] = [f \in fields |-> IF f = "base" THEN new ELSE c[f]]
        BY <3>1
      <4>4. @ = [base |-> new, ssid |-> c.ssid, zeros |-> c.zeros]
        OBVIOUS
      <4> QED BY <4>1, <4>2, <4>3, <4>4 DEF new
    <3>3. CASE call.base \notin DOMAIN Capitals
      <4>1. Capital(c) = c /\ base = c.base
        BY <2>2, <3>3 DEF Capital
      <4>2. c = [base |-> c.base, ssid |-> c.ssid, zeros |-> c.zeros]
        BY DEF Call
      <4> QED BY <4>1, <4>2
    <3> QED BY <3>2, <3>3
  <2>3. Plain(call) \in Call /\ Plain(call).base = call.base /\ Plain(call).ssid = number
        /\ Plain(call).zeros = 0
    BY PlainCall, PlainIsCall
  <2>4. /\ Capital(call) = [base |-> base, ssid |-> call.ssid, zeros |-> call.zeros]
        /\ Capital(shown) = [base |-> base, ssid |-> number, zeros |-> 0]
    BY <1>2, <2>2, <2>3
  <2> HIDE DEF base
  <2>5. base \in Bases /\ (call.ssid = NoSsid \/ Digits(call) <= 2)
    BY <2>4 DEF IsDuplicateCall
  <2>6. IsDuplicateCall(shown)
    <3>1. shown.ssid = number /\ shown.zeros = 0
      BY <1>2, <2>3
    <3>2. Capital(shown).base \in Bases
      BY <2>4, <2>5
    <3>3. shown.ssid = NoSsid \/ Digits(shown) <= 2
      BY <2>1, <2>5, <3>1 DEF Digits, NoSsid
    <3> QED BY <3>2, <3>3 DEF IsDuplicateCall
  <2>7. ASSUME IsCanonical(call) PROVE Source(shown) = Source(call)
    <3>1. call.zeros = 0
      BY <2>7 DEF IsCanonical
    <3>2. shown.ssid = number
      BY <1>2, <2>3
    <3>3. CASE call.ssid = NoSsid \/ call.ssid \notin {0, NoSsid}
      <4>1. number = call.ssid
        BY <3>3 DEF NoSsid
      <4>2. Capital(shown) = Capital(call) /\ shown.ssid = call.ssid
        BY <2>4, <3>1, <3>2, <4>1
      <4> QED BY <4>2 DEF Source
    <3>4. CASE call.ssid = 0
      <4>1. number = NoSsid /\ call.ssid # NoSsid
        BY <3>4 DEF NoSsid
      <4>2. Source(call) = [base |-> base, ssid |-> 0, zeros |-> 0]
        BY <2>4, <3>1, <3>4, <4>1 DEF Source
      <4> DEFINE old == Capital(shown)
      <4>3. Source(shown) = [old EXCEPT !.ssid = 0, !.zeros = 0]
        BY <3>2, <4>1 DEF Source
      <4>4. old = [base |-> base, ssid |-> number, zeros |-> 0]
        BY <2>4
      <4> HIDE DEF old, number
      <4>5. DOMAIN old = fields /\ old.base = base
        BY <4>4
      <4>6. [old EXCEPT !.ssid = 0, !.zeros = 0] =
              [f \in fields |-> IF f = "ssid" THEN 0 ELSE IF f = "zeros" THEN 0 ELSE old[f]]
        BY <4>5
      <4>7. @ = [base |-> base, ssid |-> 0, zeros |-> 0]
        BY <4>5
      <4> QED BY <4>2, <4>3, <4>6, <4>7
    <3> QED BY <3>3, <3>4
  <2>8. Capital(shown).base = Capital(call).base
    BY <2>4
  <2> QED BY <2>6, <2>7, <2>8
<1> QED BY <1>1, <1>2 DEF Shown

\* The copies of a packet have its duplicate parts.
LEMMA CopyIsDuplicate ==
  ASSUME NEW p, NEW first, NEW S, p.body \in Seq(S), first.body \in Seq(S),
         first.source \in Call, first.destination \in Call,
         IsCopy(p, first), IsCanonical(first.source), DuplicateParts(first) # {}
  PROVE  DuplicateParts(p) = DuplicateParts(first)
<1> DEFINE inner == Innermost(p)
           outer == Innermost(first)
<1>1. /\ inner.body = outer.body
      /\ Depth(first) > 0 => inner.source = outer.source /\ inner.destination = outer.destination
      /\ Depth(first) = 0 => /\ outer.source = first.source
                             /\ outer.destination = first.destination
                             /\ Shown(inner.source, first.source)
                             /\ Shown(inner.destination, first.destination)
  BY InnermostOfCopy
<1>2. Depth(first) = 0 \/ Depth(first) > 0
  <2>1. Depth(first) \in 0 .. Len(first.body)
    BY DepthCounts
  <2> HIDE DEF inner, outer
  <2> QED BY <2>1
<1>3. /\ DuplicateParts(first) =
           IF IsDuplicateCall(outer.source) /\ IsDuplicateCall(outer.destination)
           THEN {<<Source(outer.source), Capital(outer.destination).base, Payload(outer.body)>>}
           ELSE {}
      /\ DuplicateParts(p) =
           IF IsDuplicateCall(inner.source) /\ IsDuplicateCall(inner.destination)
           THEN {<<Source(inner.source), Capital(inner.destination).base, Payload(inner.body)>>}
           ELSE {}
  BY DEF DuplicateParts
<1> HIDE DEF inner, outer
<1>4. IsDuplicateCall(outer.source) /\ IsDuplicateCall(outer.destination)
  BY <1>3
<1>5. CASE Depth(first) > 0
  BY <1>1, <1>3, <1>5
<1>6. CASE Depth(first) = 0
  <2>1. IsDuplicateCall(inner.source) /\ Source(inner.source) = Source(outer.source)
    BY <1>1, <1>4, <1>6, ShownIsDuplicate
  <2>2. /\ IsDuplicateCall(inner.destination)
        /\ Capital(inner.destination).base = Capital(outer.destination).base
    BY <1>1, <1>4, <1>6, ShownIsDuplicate
  <2> QED BY <1>1, <1>3, <1>4, <2>1, <2>2
<1> QED BY <1>2, <1>5, <1>6

\* However a packet has travelled, over any number of links, digipeaters and
\* gateways, the parts that aprs_duplicate_parts compares are those of the packet
\* that was sent (frame.rs:157-187).
THEOREM JourneyCopiesAreDuplicates == JSpec => []CopiesAreDuplicates
<1>1. JInit => Copied
  BY SentIsPacket, SelfIsCopy, PacketFields DEF JInit, KInit, Copied
<1>2. OnTheWay /\ OnTheWay' /\ Copied /\ [JNext]_journeyVars => Copied'
  BY CopyStep
<1>3. OnTheWay /\ Copied => CopiesAreDuplicates
  <2> SUFFICES ASSUME OnTheWay, Copied, NEW p \in result, NEW first \in origin,
                      IsCanonical(first.source), DuplicateParts(first) # {}
               PROVE  DuplicateParts(p) = DuplicateParts(first)
    BY DEF CopiesAreDuplicates
  <2>1. packet \in PacketOver(Cell) /\ p = Returned /\ p \in PacketOver(Cell)
    BY ResultIsReturned DEF OnTheWay
  <2>2. first.body \in Seq(Cell) /\ first.source \in Call /\ first.destination \in Call
        /\ IsCopy(packet, first)
    BY DEF Copied
  <2>3. IsCopy(p, first)
    BY <2>1, <2>2, ReturnedIsCopy
  <2>4. p.body \in Seq(Cell)
    BY <2>1, PacketFields
  <2> QED BY <2>2, <2>3, <2>4, CopyIsDuplicate
<1> QED BY <1>1, <1>2, <1>3, JourneyInvariance, PTL DEF JSpec

-----------------------------------------------------------------------------
(* Hops are counted.                                                       *)

\* What holds of 0, and of each number up to n with the one before it, holds up to n.
LEMMA UpTo ==
  ASSUME NEW n \in Nat, NEW S, 0 \in S, \A k \in 1 .. n : k - 1 \in S => k \in S
  PROVE  \A k \in 0 .. n : k \in S
<1> DEFINE T == {k \in 0 .. n : k \notin S}
<1>1. SUFFICES ASSUME T # {} PROVE FALSE
  OBVIOUS
<1>2. T \subseteq Nat
  OBVIOUS
<1>3. PICK m \in T : \A l \in T : <<l, m>> \notin OpToRel(<, Nat)
  <2> HIDE DEF T
  <2> QED BY <1>1, <1>2, WFMin, NatLessThanWellFounded
<1>4. m \in 0 .. n /\ m # 0 /\ m \notin S
  OBVIOUS
<1>5. m \in 1 .. n /\ m - 1 \in 0 .. n /\ m - 1 \in Nat /\ m \in Nat /\ m - 1 < m
  BY <1>4
<1>6. m - 1 \in S
  <2>1. m - 1 \notin T
    <3> HIDE DEF T
    <3> QED BY <1>3, <1>5 DEF OpToRel
  <2> QED BY <1>5, <2>1
<1> QED BY <1>4, <1>5, <1>6

\* The sums of the first values.
Sums(s, f, n) == s \in [0 .. n -> Nat] /\ s[0] = 0 /\ \A k \in 1 .. n : s[k] = s[k - 1] + f[k]

\* The function that Total goes along.
Totals(f, n) == CHOOSE s : s = [k \in 0 .. n |-> IF k = 0 THEN 0 ELSE s[k - 1] + f[k]]

\* The sums of the first values exist, and Total is the last of them.
LEMMA TotalIs ==
  ASSUME NEW n \in Nat, NEW f \in [1 .. n -> Nat]
  PROVE  \E s : Sums(s, f, n) /\ Total(f, n) = s[n]
<1> DEFINE S == {m \in 0 .. n : \E s : Sums(s, f, m)}
<1>1. 0 \in S
  <2> DEFINE s == [k \in 0 .. 0 |-> 0]
  <2>1. Sums(s, f, 0)
    BY DEF Sums
  <2> QED BY <2>1
<1>2. ASSUME NEW m \in 1 .. n, m - 1 \in S
      PROVE  m \in S
  <2>1. PICK s : Sums(s, f, m - 1)
    BY <1>2
  <2> DEFINE t == [k \in 0 .. m |-> IF k = m THEN s[m - 1] + f[m] ELSE s[k]]
  <2>2. s[m - 1] \in Nat /\ f[m] \in Nat
    BY <2>1 DEF Sums
  <2>3. t \in [0 .. m -> Nat]
    BY <2>1, <2>2 DEF Sums
  <2>4. t[0] = 0
    BY <2>1 DEF Sums
  <2>5. ASSUME NEW k \in 1 .. m PROVE t[k] = t[k - 1] + f[k]
    <3>1. k - 1 \in 0 .. m /\ k - 1 # m /\ k \in 0 .. m
      OBVIOUS
    <3>2. t[k - 1] = s[k - 1]
      BY <3>1
    <3>3. CASE k = m
      BY <3>1, <3>2, <3>3
    <3>4. CASE k # m
      <4>1. k \in 1 .. m - 1
        BY <3>4
      <4>2. s[k] = s[k - 1] + f[k]
        BY <2>1, <4>1 DEF Sums
      <4> QED BY <3>1, <3>2, <3>4, <4>2
    <3> QED BY <3>3, <3>4
  <2> HIDE DEF t
  <2>6. Sums(t, f, m)
    BY <2>3, <2>4, <2>5 DEF Sums
  <2> QED BY <2>6
<1>3. n \in S
  <2> HIDE DEF S
  <2>1. \A k \in 0 .. n : k \in S
    BY <1>1, <1>2, UpTo
  <2> QED BY <2>1
<1>4. PICK s : Sums(s, f, n)
  BY <1>3
<1>5. s = [k \in 0 .. n |-> IF k = 0 THEN 0 ELSE s[k - 1] + f[k]]
  <2>1. ASSUME NEW k \in 0 .. n PROVE s[k] = IF k = 0 THEN 0 ELSE s[k - 1] + f[k]
    BY <1>4 DEF Sums
  <2> QED BY <1>4, <2>1 DEF Sums
<1> DEFINE r == Totals(f, n)
<1>6. r = [k \in 0 .. n |-> IF k = 0 THEN 0 ELSE r[k - 1] + f[k]]
  BY <1>5 DEF Totals
<1>7. Total(f, n) = r[n]
  BY DEF Total, Totals
<1> HIDE DEF r
<1>8. \A k \in 0 .. n : k \in {j \in 0 .. n : r[j] = s[j]}
  <2> DEFINE E == {j \in 0 .. n : r[j] = s[j]}
  <2>1. 0 \in E
    BY <1>4, <1>6 DEF Sums
  <2>2. ASSUME NEW k \in 1 .. n, k - 1 \in E PROVE k \in E
    <3>1. k \in 0 .. n /\ k - 1 \in 0 .. n /\ k # 0
      OBVIOUS
    <3>2. r[k] = r[k - 1] + f[k]
      BY <1>6, <3>1
    <3>3. s[k] = s[k - 1] + f[k]
      BY <1>4 DEF Sums
    <3> QED BY <2>2, <3>1, <3>2, <3>3
  <2> HIDE DEF E
  <2>3. \A k \in 0 .. n : k \in E
    BY <2>1, <2>2, UpTo
  <2> QED BY <2>3 DEF E
<1>9. r[n] = s[n]
  BY <1>8
<1> QED BY <1>4, <1>7, <1>9

\* A sum of smaller numbers is smaller, and not zero unless all numbers are.
LEMMA TotalsCompare ==
  ASSUME NEW n \in Nat, NEW f \in [1 .. n -> Nat], NEW g \in [1 .. n -> Nat],
         \A i \in 1 .. n : f[i] <= g[i] /\ (g[i] > 0 => f[i] > 0)
  PROVE  /\ Total(f, n) \in Nat /\ Total(g, n) \in Nat
         /\ Total(f, n) <= Total(g, n) /\ (Total(g, n) > 0 => Total(f, n) > 0)
<1>1. PICK s : Sums(s, f, n) /\ Total(f, n) = s[n]
  BY TotalIs
<1>2. PICK t : Sums(t, g, n) /\ Total(g, n) = t[n]
  BY TotalIs
<1> DEFINE S == {k \in 0 .. n : s[k] <= t[k] /\ (t[k] > 0 => s[k] > 0)}
<1>3. 0 \in S
  BY <1>1, <1>2 DEF Sums
<1>4. ASSUME NEW k \in 1 .. n, k - 1 \in S PROVE k \in S
  <2>1. k \in 0 .. n /\ k - 1 \in 0 .. n
    OBVIOUS
  <2>2. s[k] = s[k - 1] + f[k] /\ t[k] = t[k - 1] + g[k]
    BY <1>1, <1>2 DEF Sums
  <2>3. s[k - 1] \in Nat /\ t[k - 1] \in Nat /\ f[k] \in Nat /\ g[k] \in Nat
    BY <1>1, <1>2, <2>1 DEF Sums
  <2>4. f[k] <= g[k] /\ (g[k] > 0 => f[k] > 0)
    OBVIOUS
  <2>5. s[k - 1] <= t[k - 1] /\ (t[k - 1] > 0 => s[k - 1] > 0)
    BY <1>4
  <2>6. s[k] <= t[k] /\ (t[k] > 0 => s[k] > 0)
    BY <2>2, <2>3, <2>4, <2>5, SMTT(60)
  <2> QED BY <2>1, <2>6
<1>5. n \in S
  <2> HIDE DEF S
  <2>1. \A k \in 0 .. n : k \in S
    BY <1>3, <1>4, UpTo
  <2> QED BY <2>1
<1>6. s[n] \in Nat /\ t[n] \in Nat
  BY <1>1, <1>2 DEF Sums
<1> QED BY <1>1, <1>2, <1>5, <1>6

\* If one number grows by one, so does the sum.
LEMMA TotalGrows ==
  ASSUME NEW n \in Nat, NEW f \in [1 .. n -> Nat], NEW g \in [1 .. n -> Nat],
         NEW i \in 1 .. n, g[i] = f[i] + 1, \A j \in 1 .. n : j # i => g[j] = f[j]
  PROVE  Total(g, n) = Total(f, n) + 1
<1>1. PICK s : Sums(s, f, n) /\ Total(f, n) = s[n]
  BY TotalIs
<1>2. PICK t : Sums(t, g, n) /\ Total(g, n) = t[n]
  BY TotalIs
<1> DEFINE S == {k \in 0 .. n : t[k] = IF k < i THEN s[k] ELSE s[k] + 1}
<1>3. 0 \in S
  BY <1>1, <1>2 DEF Sums
<1>4. ASSUME NEW k \in 1 .. n, k - 1 \in S PROVE k \in S
  <2>1. k \in 0 .. n /\ k - 1 \in 0 .. n
    OBVIOUS
  <2>2. s[k] = s[k - 1] + f[k] /\ t[k] = t[k - 1] + g[k]
    BY <1>1, <1>2 DEF Sums
  <2>3. s[k - 1] \in Nat /\ t[k - 1] \in Nat /\ f[k] \in Nat /\ g[k] \in Nat
    BY <1>1, <1>2, <2>1 DEF Sums
  <2>4. t[k - 1] = IF k - 1 < i THEN s[k - 1] ELSE s[k - 1] + 1
    BY <1>4
  <2>5. CASE k = i
    BY <2>1, <2>2, <2>3, <2>4, <2>5, SMTT(60)
  <2>6. CASE k # i
    <3>1. g[k] = f[k]
      BY <2>6
    <3>2. k < i <=> k - 1 < i
      BY <2>6
    <3>3. t[k] = IF k < i THEN s[k] ELSE s[k] + 1
      BY <2>2, <2>3, <2>4, <3>1, <3>2
    <3> QED BY <2>1, <3>3
  <2> QED BY <2>5, <2>6
<1>5. n \in S
  <2> HIDE DEF S
  <2>1. \A k \in 0 .. n : k \in S
    BY <1>3, <1>4, UpTo
  <2> QED BY <2>1
<1>6. s[n] \in Nat /\ t[n] = s[n] + 1
  BY <1>1, <1>5 DEF Sums
<1> QED BY <1>1, <1>2, <1>6

\* A sum of zeros is zero.
LEMMA TotalOfNone ==
  ASSUME NEW n \in Nat, NEW f \in [1 .. n -> {0}]
  PROVE  Total(f, n) = 0
<1>0. f \in [1 .. n -> Nat] /\ \A k \in 1 .. n : f[k] = 0
  OBVIOUS
<1>1. PICK s : Sums(s, f, n) /\ Total(f, n) = s[n]
  BY <1>0, TotalIs
<1> DEFINE S == {k \in 0 .. n : s[k] = 0}
<1>2. 0 \in S
  BY <1>1 DEF Sums
<1>3. ASSUME NEW k \in 1 .. n, k - 1 \in S PROVE k \in S
  BY <1>0, <1>1, <1>3 DEF Sums
<1>4. n \in S
  <2> HIDE DEF S
  <2>1. \A k \in 0 .. n : k \in S
    BY <1>2, <1>3, UpTo
  <2> QED BY <2>1
<1> QED BY <1>1, <1>4

\* The hops that an entry of a fresh route has served, however AX.25 shows it.
Served(hop) ==
  IF hop.call.base \in DOMAIN Wide
  THEN IF hop.call.ssid = NoSsid THEN Wide[hop.call.base] ELSE Wide[hop.call.base] - hop.call.ssid
  ELSE IF hop.repeated THEN 1 ELSE 0

\* What an entry of a fresh route can be: an alias is marked when it has no hops
\* to go, and its SSID may then not show.
WasFresh(hop) ==
  /\ hop \in Hop /\ hop.call.base \notin Trace
  /\ hop.call.base \in DOMAIN Wide =>
       \/ hop.call.ssid = NoSsid /\ hop.repeated
       \/ /\ hop.call.ssid \in 0 .. Wide[hop.call.base]
          /\ hop.repeated <=> hop.call.ssid = 0

\* The digipeaters counted are those that the route shows.
IsCounted(path, n) ==
  /\ \A i \in 1 .. Len(path) : WasFresh(path[i])
  /\ n = Total([i \in 1 .. Len(path) |-> Served(path[i])], Len(path))

\* As long as no gateway has wrapped it, a packet that was sent with a fresh route
\* shows each digipeater that has repeated it.
Counted ==
  /\ packet.body = <<>> => repeats = 0
  /\ \A first \in origin :
       IsFresh(first.path) /\ Len(packet.body) = Len(first.body) => IsCounted(packet.path, repeats)

\* WIDE1 to WIDE7 stand for one to seven hops.
LEMMA WideIs ==
  /\ \A base \in DOMAIN Wide : Wide[base] \in 1 .. 7
  /\ "WIDE1" \in DOMAIN Wide /\ Wide["WIDE1"] = 1
  /\ \A base \in DOMAIN Wide : base \notin Trace
BY DEF Wide, Trace

\* What an entry has served is a number of hops.
LEMMA ServedIs ==
  ASSUME NEW hop, WasFresh(hop)
  PROVE  Served(hop) \in Nat
<1>1. CASE hop.call.base \in DOMAIN Wide
  <2> DEFINE w == Wide[hop.call.base]
             n == hop.call.ssid
  <2>1. w \in 1 .. 7
    BY <1>1, WideIs
  <2>2. n = NoSsid \/ n \in 0 .. w
    BY <1>1 DEF WasFresh
  <2>3. Served(hop) = IF n = NoSsid THEN w ELSE w - n
    BY <1>1 DEF Served
  <2> HIDE DEF w, n
  <2> QED BY <2>1, <2>2, <2>3
<1>2. CASE hop.call.base \notin DOMAIN Wide
  BY <1>2 DEF Served
<1> QED BY <1>1, <1>2

\* count_digihops counts no more hops than an entry has served, one at least if
\* it has served any, and all of them unless AX.25 hides an alias (frame.rs:189-222).
LEMMA HopsOfServed ==
  ASSUME NEW hop, WasFresh(hop)
  PROVE  /\ HopsOf(hop) \in Nat /\ HopsOf(hop) <= Served(hop)
         /\ Served(hop) > 0 => HopsOf(hop) > 0
         /\ (hop.repeated => hop.call.base \notin DOMAIN Wide \ {"WIDE1"})
              => HopsOf(hop) = Served(hop)
<1> DEFINE base == hop.call.base
           n == hop.call.ssid
           w == Wide[base]
<1>1. CASE base \notin DOMAIN Wide
  BY <1>1 DEF HopsOf, IsAlias, Served, WasFresh
<1>2. CASE base \in DOMAIN Wide /\ n = NoSsid
  <2>1. hop.repeated /\ w \in 1 .. 7 /\ (base = "WIDE1" => w = 1)
    BY <1>2, WideIs DEF WasFresh, NoSsid
  <2>2. HopsOf(hop) = 1
    BY <1>2, <2>1 DEF HopsOf, IsAlias, NoSsid
  <2>3. Served(hop) = w
    BY <1>2 DEF Served
  <2>4. (hop.repeated => base \notin DOMAIN Wide \ {"WIDE1"}) => w = 1
    BY <1>2, <2>1
  <2> HIDE DEF w, base, n
  <2>5. HopsOf(hop) \in Nat /\ HopsOf(hop) <= Served(hop) /\ HopsOf(hop) > 0
    BY <2>1, <2>2, <2>3
  <2>6. (hop.repeated => base \notin DOMAIN Wide \ {"WIDE1"}) => HopsOf(hop) = Served(hop)
    BY <2>2, <2>3, <2>4
  <2> QED BY <2>5, <2>6 DEF base
<1>3. CASE base \in DOMAIN Wide /\ n # NoSsid
  <2>1. w \in 1 .. 7 /\ n \in 0 .. w
    BY <1>3, WideIs DEF WasFresh
  <2>2. Served(hop) = w - n
    BY <1>3 DEF Served
  <2>3. n \in 0 .. 7 /\ w >= n
    <3> HIDE DEF w, n
    <3> QED BY <2>1
  <2>4. HopsOf(hop) = w - n
    BY <1>3, <2>3 DEF HopsOf, IsAlias
  <2> HIDE DEF w, n
  <2> QED BY <2>1, <2>2, <2>4
<1> QED BY <1>1, <1>2, <1>3

\* An entry that has served nothing.
LEMMA FreshIs ==
  ASSUME NEW S, NEW p \in PacketOver(S), IsFresh(p.path)
  PROVE  IsCounted(p.path, 0)
<1>1. p.path \in Seq(Hop) /\ Len(p.path) \in Nat
  BY PacketFields
<1>2. ASSUME NEW i \in 1 .. Len(p.path)
      PROVE  WasFresh(p.path[i]) /\ Served(p.path[i]) = 0
  <2> DEFINE hop == p.path[i]
             base == hop.call.base
             w == Wide[base]
  <2>1. hop \in Hop
    BY <1>1, ElementOfSeq
  <2>2. ~ hop.repeated /\ base \notin Trace /\ (base \in DOMAIN Wide => hop.call.ssid = w)
    BY DEF IsFresh
  <2>3. base \in DOMAIN Wide => w \in 1 .. 7 /\ w \in 0 .. w /\ w # 0 /\ w # NoSsid /\ w - w = 0
    <3>1. base \in DOMAIN Wide => w \in 1 .. 7
      BY WideIs
    <3> HIDE DEF w, base
    <3> QED BY <3>1 DEF NoSsid
  <2> HIDE DEF w
  <2>4. WasFresh(hop)
    BY <2>1, <2>2, <2>3 DEF WasFresh, w
  <2>5. Served(hop) = 0
    BY <2>2, <2>3 DEF Served, w
  <2> QED BY <2>4, <2>5
<1>3. [i \in 1 .. Len(p.path) |-> Served(p.path[i])] \in [1 .. Len(p.path) -> {0}]
  BY <1>2
<1>4. Total([i \in 1 .. Len(p.path) |-> Served(p.path[i])], Len(p.path)) = 0
  BY <1>1, <1>3, TotalOfNone
<1> QED BY <1>2, <1>4 DEF IsCounted

\* What AX.25 shows of an entry has served as much (frame.rs:123-131).
LEMMA PlainServed ==
  ASSUME NEW hop, WasFresh(hop)
  PROVE  /\ WasFresh([call |-> Plain(hop.call), repeated |-> hop.repeated])
         /\ Served([call |-> Plain(hop.call), repeated |-> hop.repeated]) = Served(hop)
<1> DEFINE c == Plain(hop.call)
           shown == [call |-> c, repeated |-> hop.repeated]
           w == Wide[hop.call.base]
           n == hop.call.ssid
<1>1. hop.call \in Call /\ hop.repeated \in BOOLEAN
  BY DEF WasFresh, Hop
<1>2. c \in Call /\ c.base = hop.call.base /\ c.ssid = IF n = 0 THEN NoSsid ELSE n
  BY <1>1, PlainIsCall, PlainCall
<1> HIDE DEF c
<1>3. shown.call = c /\ shown.repeated = hop.repeated /\ shown \in Hop
  BY <1>1, <1>2 DEF Hop
<1> HIDE DEF shown
<1>4. CASE hop.call.base \notin DOMAIN Wide
  BY <1>2, <1>3, <1>4 DEF WasFresh, Served, c, shown
<1>5. CASE hop.call.base \in DOMAIN Wide
  <2>1. w \in 1 .. 7
    BY <1>5, WideIs
  <2>2. \/ n = NoSsid /\ hop.repeated
        \/ n \in 0 .. w /\ (hop.repeated <=> n = 0)
    <3>1. \/ hop.call.ssid = NoSsid /\ hop.repeated
          \/ /\ hop.call.ssid \in 0 .. Wide[hop.call.base]
             /\ hop.repeated <=> hop.call.ssid = 0
      BY <1>5, Zenon DEF WasFresh
    <3> QED BY <3>1
  <2>3. hop.call.base \notin Trace
    BY DEF WasFresh
  <2> HIDE DEF w
  <2>4. \/ c.ssid = NoSsid /\ hop.repeated
        \/ c.ssid \in 0 .. w /\ (hop.repeated <=> c.ssid = 0)
    <3>1. c.ssid = IF n = 0 THEN NoSsid ELSE n
      BY <1>2
    <3>2. CASE n = NoSsid /\ hop.repeated
      BY <3>1, <3>2 DEF NoSsid
    <3>3. CASE n \in 0 .. w /\ (hop.repeated <=> n = 0)
      <4> HIDE DEF n
      <4>1. CASE n = 0
        BY <3>1, <3>3, <4>1
      <4>2. CASE n # 0
        BY <3>1, <3>3, <4>2
      <4> QED BY <4>1, <4>2
    <3> QED BY <2>2, <3>2, <3>3
  <2>5. WasFresh(shown)
    BY <1>2, <1>3, <2>3, <2>4 DEF WasFresh, w
  <2>6. Served(shown) = IF c.ssid = NoSsid THEN w ELSE w - c.ssid
    BY <1>2, <1>3, <1>5 DEF Served, w
  <2>7. Served(hop) = IF n = NoSsid THEN w ELSE w - n
    BY <1>5 DEF Served, w
  <2>8. Served(shown) = Served(hop)
    BY <1>2, <2>1, <2>2, <2>6, <2>7 DEF NoSsid
  <2> QED BY <2>5, <2>8 DEF shown, c
<1> QED BY <1>4, <1>5

\* The route that comes back over a link shows the same digipeaters.
LEMMA ReturnedCounted ==
  ASSUME packet \in PacketOver(Cell), NEW n, IsCounted(packet.path, n)
  PROVE  IsCounted(Returned.path, n)
<1> DEFINE L == Len(packet.path)
           path == Returned.path
<1>1. packet.path \in Seq(Hop) /\ L \in Nat
  BY PacketFields
<1>2. path = [i \in 1 .. L |-> [call |-> Plain(packet.path[i].call), repeated |-> packet.path[i].repeated]]
  BY DEF Returned
<1> HIDE DEF path
<1>3. Len(path) = L
  BY <1>1, <1>2
<1>4. ASSUME NEW i \in 1 .. L
      PROVE  WasFresh(path[i]) /\ Served(path[i]) = Served(packet.path[i])
  <2>1. WasFresh(packet.path[i])
    BY DEF IsCounted
  <2>2. path[i] = [call |-> Plain(packet.path[i].call), repeated |-> packet.path[i].repeated]
    BY <1>2
  <2> QED BY <2>1, <2>2, PlainServed
<1>5. [i \in 1 .. Len(path) |-> Served(path[i])] = [i \in 1 .. L |-> Served(packet.path[i])]
  BY <1>3, <1>4
<1>6. IsCounted(path, n)
  BY <1>3, <1>4, <1>5 DEF IsCounted
<1> QED BY <1>6 DEF path

\* A digipeater serves one hop more: of an alias that it counts down, or its own.
LEMMA ServedOnce ==
  ASSUME NEW hop, WasFresh(hop), ~ hop.repeated,
         NEW left, left = IF IsAlias(hop.call, DOMAIN Wide) THEN hop.call.ssid - 1 ELSE hop.call.ssid
  PROVE  LET new == [call |-> [hop.call EXCEPT !.ssid = left],
                     repeated |-> IsAlias(hop.call, DOMAIN Wide) => left = 0]
         IN  WasFresh(new) /\ Served(new) = Served(hop) + 1
<1> DEFINE c == [hop.call EXCEPT !.ssid = left]
           marked == IsAlias(hop.call, DOMAIN Wide) => left = 0
           new == [call |-> c, repeated |-> marked]
           w == Wide[hop.call.base]
           n == hop.call.ssid
<1>1. hop.call \in Call /\ n \in Nat \cup {NoSsid} /\ hop.call.base \notin Trace
  BY DEF WasFresh, Hop, Call
<1>2. c.base = hop.call.base /\ c.ssid = left
  BY <1>1 DEF Call
<1>3. CASE hop.call.base \in DOMAIN Wide
  <2>1. w \in 1 .. 7
    BY <1>3, WideIs
  <2>2. n \in 0 .. Wide[hop.call.base] /\ n # 0
    BY <1>3 DEF WasFresh
  <2>3. n \in 1 .. w /\ n \in 0 .. 7
    <3> HIDE DEF n
    <3>1. n \in 0 .. w
      BY <2>2
    <3> HIDE DEF w
    <3> QED BY <2>1, <2>2, <3>1
  <2>4. IsAlias(hop.call, DOMAIN Wide) /\ left = n - 1
    BY <1>3, <2>3 DEF IsAlias
  <2>5. left \in 0 .. w /\ left \in Nat \cup {NoSsid} /\ left # NoSsid /\ w - left = (w - n) + 1
        /\ n # NoSsid
    <3>1. left = n - 1 /\ n \in 1 .. w /\ w \in 1 .. 7
      BY <2>1, <2>3, <2>4
    <3> HIDE DEF n, w
    <3> QED BY <3>1 DEF NoSsid
  <2>6. c \in Call
    BY <1>1, <2>5, ChangedCall
  <2>7. marked \in BOOLEAN /\ (marked <=> left = 0)
    BY <2>4
  <2> HIDE DEF c, marked
  <2>8. new.call = c /\ new.repeated = marked /\ new \in Hop
    BY <2>6, <2>7 DEF Hop
  <2> HIDE DEF new
  <2>9. WasFresh(new)
    BY <1>1, <1>2, <2>5, <2>7, <2>8 DEF WasFresh
  <2>10. Served(new) = w - left
    BY <1>2, <1>3, <2>5, <2>8 DEF Served
  <2>11. Served(hop) = w - n
    BY <1>3, <2>5 DEF Served
  <2>12. Served(new) = Served(hop) + 1
    BY <2>5, <2>10, <2>11
  <2> QED BY <2>9, <2>12 DEF new, c, marked
<1>4. CASE hop.call.base \notin DOMAIN Wide
  <2>1. ~ IsAlias(hop.call, DOMAIN Wide)
    BY <1>4 DEF IsAlias
  <2>2. left = n /\ marked = TRUE
    BY <2>1
  <2>3. c \in Call
    BY <1>1, <2>2, ChangedCall
  <2> HIDE DEF c, marked
  <2>4. new.call = c /\ new.repeated = TRUE /\ new \in Hop
    BY <2>2, <2>3 DEF Hop
  <2> HIDE DEF new
  <2>5. WasFresh(new)
    BY <1>1, <1>2, <1>4, <2>4 DEF WasFresh
  <2>6. Served(new) = 1 /\ Served(hop) = 0
    BY <1>2, <1>4, <2>4 DEF Served
  <2> QED BY <2>5, <2>6 DEF new, c, marked
<1> QED BY <1>3, <1>4

\* The route of a packet shows a digipeater that has repeated it.
LEMMA DigipeatCounted ==
  ASSUME OnTheWay, Digipeat, IsCounted(packet.path, repeats)
  PROVE  IsCounted(packet'.path, repeats')
<1>0. PICK p \in result : \E i \in 1 .. Len(p.path) :
        LET call == p.path[i].call
            left == IF IsAlias(call, DOMAIN Wide) THEN call.ssid - 1 ELSE call.ssid
        IN  /\ ~ p.path[i].repeated
            /\ SendOn([p EXCEPT !.path[i] =
                 [call |-> [call EXCEPT !.ssid = left],
                  repeated |-> IsAlias(call, DOMAIN Wide) => left = 0]])
            /\ repeats' = repeats + 1
  BY Zenon DEF Digipeat
<1>1. PICK i \in 1 .. Len(p.path) :
        LET call == p.path[i].call
            left == IF IsAlias(call, DOMAIN Wide) THEN call.ssid - 1 ELSE call.ssid
        IN  /\ ~ p.path[i].repeated
            /\ SendOn([p EXCEPT !.path[i] =
                 [call |-> [call EXCEPT !.ssid = left],
                  repeated |-> IsAlias(call, DOMAIN Wide) => left = 0]])
            /\ repeats' = repeats + 1
  BY <1>0, Zenon
<1> DEFINE hop == p.path[i]
           left == IF IsAlias(hop.call, DOMAIN Wide) THEN hop.call.ssid - 1 ELSE hop.call.ssid
           new == [call |-> [hop.call EXCEPT !.ssid = left],
                   repeated |-> IsAlias(hop.call, DOMAIN Wide) => left = 0]
           path == [p.path EXCEPT ![i] = new]
           L == Len(p.path)
<1>2. p \in PacketOver(Cell) /\ p = Returned /\ packet \in PacketOver(Cell)
  BY ResultIsReturned DEF OnTheWay
<1>3. p.path \in Seq(Hop) /\ L \in Nat
  BY <1>2, PacketFields
<1>4. IsCounted(p.path, repeats)
  BY <1>2, ReturnedCounted
<1>5. ~ hop.repeated /\ WasFresh(hop) /\ repeats' = repeats + 1
  BY <1>1, <1>4 DEF IsCounted
<1>6. WasFresh(new) /\ Served(new) = Served(hop) + 1
  BY <1>5, ServedOnce
<1>7. packet' = [p EXCEPT !.path[i] = new]
  BY <1>1 DEF SendOn
<1> HIDE DEF new, hop
<1>8. [p EXCEPT !.path[i] = new] = [p EXCEPT !.path = path]
  OBVIOUS
<1> HIDE DEF path
<1>9. packet'.path = path
  <2>1. packet' = [source |-> p.source, destination |-> p.destination, path |-> path,
                   body |-> p.body]
    BY <1>2, <1>7, <1>8, ChangedPacket
  <2> QED BY <2>1
<1>10. /\ Len(path) = L /\ path[i] = new
       /\ \A j \in 1 .. L : j # i => path[j] = p.path[j]
  <2>1. new \in Hop
    BY <1>6 DEF WasFresh
  <2> QED BY <1>3, <2>1, ExceptSeq DEF path
<1>11. \A j \in 1 .. L : WasFresh(path[j])
  BY <1>4, <1>6, <1>10 DEF IsCounted
<1> DEFINE f == [j \in 1 .. L |-> Served(p.path[j])]
           g == [j \in 1 .. L |-> Served(path[j])]
<1>12. f \in [1 .. L -> Nat] /\ g \in [1 .. L -> Nat]
  BY <1>4, <1>11, ServedIs DEF IsCounted
<1>13. g[i] = f[i] + 1 /\ \A j \in 1 .. L : j # i => g[j] = f[j]
  BY <1>6, <1>10 DEF hop
<1>14. i \in 1 .. L
  OBVIOUS
<1>15. repeats = Total(f, L)
  BY <1>4 DEF IsCounted
<1> HIDE DEF f, g
<1>16. Total(g, L) = Total(f, L) + 1
  BY <1>3, <1>12, <1>13, <1>14, TotalGrows
<1>17. repeats' = Total(g, L)
  BY <1>5, <1>15, <1>16
<1> QED BY <1>9, <1>10, <1>11, <1>17 DEF IsCounted, g

\* Every step keeps the count.
LEMMA CountedStep ==
  ASSUME OnTheWay, OnTheWay', Copied, Counted, [JNext]_journeyVars
  PROVE  Counted'
<1>0. packet \in PacketOver(Cell) /\ packet' \in PacketOver(Cell)
  BY DEF OnTheWay
<1>1. CASE UNCHANGED <<packet, origin, repeats>>
  BY <1>1 DEF Counted, IsCounted
<1>2. CASE Compose
  <2>1. CASE origin' = {packet'} /\ repeats' = repeats /\ packet = Envelope
    <3>1. repeats = 0
      BY <2>1, JourneyAssumption DEF Counted
    <3>2. IsFresh(packet'.path) => IsCounted(packet'.path, 0)
      BY <1>0, FreshIs
    <3> QED BY <2>1, <3>1, <3>2 DEF Counted, IsCounted
  <2>2. CASE UNCHANGED <<packet, origin, repeats>>
    BY <1>1, <2>2
  <2> QED BY <1>2, <2>1, <2>2 DEF Compose, journey
<1>3. CASE Link
  BY <1>1, <1>3 DEF Link, Refuse, Encode, Transfer, Decode, journey
<1>4. CASE Digipeat
  <2>1. PICK p \in result : /\ packet'.source = p.source /\ packet'.body = p.body
                            /\ packet'.destination = p.destination
    BY <1>4, DigipeatedIsPacket
  <2>2. packet'.body = packet.body /\ packet.body # <<>>
    BY <2>1, ResultIsReturned DEF Accepted, Returned
  <2>3. origin' = origin
    BY <1>4 DEF Digipeat, SendOn
  <2>4. ASSUME NEW first \in origin, IsFresh(first.path), Len(packet.body) = Len(first.body)
        PROVE  IsCounted(packet'.path, repeats')
    BY <1>4, <2>4, DigipeatCounted DEF Counted
  <2> QED BY <2>2, <2>3, <2>4 DEF Counted, IsCounted
<1>5. CASE Gate
  <2>1. PICK p \in result :
          packet' = [source |-> Gateway, destination |-> Gateway, path |-> <<>>,
                     body |-> <<[tnc2 |-> [p EXCEPT !.body = <<>>]]>> \o p.body]
    BY <1>5 DEF Gate, SendOn
  <2>2. p.body = packet.body
    BY ResultIsReturned DEF Returned
  <2>3. packet.body \in Seq(Cell)
    BY <1>0, PacketFields
  <2> DEFINE header == [tnc2 |-> [p EXCEPT !.body = <<>>]]
  <2> HIDE DEF header
  <2>4. packet'.body = <<header>> \o packet.body
    BY <2>1, <2>2 DEF header
  <2>5. Len(packet'.body) = 1 + Len(packet.body) /\ Len(packet.body) \in Nat
    <3> DEFINE D == Cell \cup {header}
    <3>1. <<header>> \in Seq(D) /\ Len(<<header>>) = 1
      OBVIOUS
    <3>2. packet.body \in Seq(D)
      <4>1. Cell \subseteq D
        OBVIOUS
      <4> HIDE DEF D
      <4> QED BY <2>3, <4>1, SeqMonotonic
    <3> HIDE DEF D
    <3> QED BY <2>3, <2>4, <3>1, <3>2, ConcatProperties
  <2>6. packet'.body # <<>>
    BY <2>5
  <2>7. ASSUME NEW first \in origin
        PROVE  Len(packet'.body) # Len(first.body)
    <3>1. first.body \in Seq(Cell) /\ Len(packet.body) - Len(first.body) >= 0
      BY DEF Copied, IsCopy
    <3>2. Len(first.body) \in Nat
      BY <3>1
    <3> QED BY <2>5, <3>1, <3>2
  <2>8. origin' = origin
    BY <1>5 DEF Gate, SendOn
  <2> QED BY <2>6, <2>7, <2>8 DEF Counted
<1>6. CASE Arrived \/ UNCHANGED journeyVars
  BY <1>1, <1>6 DEF Arrived, journeyVars, allVars, journey
<1> QED BY <1>2, <1>3, <1>4, <1>5, <1>6 DEF JNext

\* What count_digihops makes of a copy that is not wrapped.
LEMMA CountedHops ==
  ASSUME OnTheWay, Copied, Counted, NEW p \in result, NEW first \in origin,
         IsFresh(first.path), Depth(p) = 0
  PROVE  \E n \in CountDigihops(p) :
           /\ n <= repeats /\ (repeats > 0 => n > 0)
           /\ (\A i \in 1 .. Len(p.path) :
                 p.path[i].repeated => p.path[i].call.base \notin DOMAIN Wide \ {"WIDE1"})
              => n = repeats
<1> DEFINE L == Len(p.path)
<1>0. /\ p \in PacketOver(Cell) /\ p = Returned /\ packet \in PacketOver(Cell) /\ Accepted
  BY ResultIsReturned DEF OnTheWay
<1>1. /\ p.path \in Seq(Hop) /\ L \in Nat /\ p.body \in Seq(Cell) /\ packet.path \in Seq(Hop)
      /\ packet.source \in Call /\ packet.destination \in Call
  BY <1>0, PacketFields
<1>2. Len(packet.body) = Len(first.body)
  <2>1. first.body \in Seq(Cell) /\ first.source \in Call /\ first.destination \in Call
        /\ IsCopy(packet, first)
    BY DEF Copied
  <2>2. IsCopy(p, first)
    BY <1>0, <2>1, ReturnedIsCopy
  <2>3. 0 = (Len(p.body) - Len(first.body)) + Depth(first)
    BY <1>1, <2>1, <2>2, DepthOfCopy
  <2>4. Depth(first) \in Nat
    BY <2>1, DepthCounts
  <2>5. Len(p.body) - Len(first.body) >= 0 /\ p.body = packet.body
    BY <1>0, <2>2 DEF IsCopy, Returned
  <2>6. Len(p.body) \in Nat /\ Len(first.body) \in Nat
    BY <1>1, <2>1
  <2>7. Len(p.body) = Len(first.body)
    <3> DEFINE a == Len(p.body)
    <3> DEFINE b == Len(first.body)
    <3> DEFINE d == Depth(first)
    <3>1. a \in Nat /\ b \in Nat /\ d \in Nat /\ a - b >= 0 /\ 0 = (a - b) + d
      BY <2>3, <2>4, <2>5, <2>6
    <3> HIDE DEF a, b, d
    <3>2. a = b
      BY <3>1
    <3> QED BY <3>2 DEF a, b
  <2> QED BY <2>5, <2>7
<1>3. IsCounted(p.path, repeats)
  <2>1. IsCounted(packet.path, repeats)
    BY <1>2 DEF Counted
  <2> QED BY <1>0, <2>1, ReturnedCounted
<1>4. L = Len(packet.path)
  BY <1>0, <1>1 DEF Returned
<1>5. ASSUME NEW i \in 1 .. L
      PROVE  /\ p.path[i] \in Hop /\ WasFresh(p.path[i])
             /\ CheckAx25Call(p.path[i].call) = {p.path[i].call}
             /\ Capital(p.path[i].call) = p.path[i].call
  <2>1. p.path[i] = [call |-> Plain(packet.path[i].call), repeated |-> packet.path[i].repeated]
    BY <1>0, <1>4 DEF Returned
  <2>2. packet.path[i] \in Hop
    BY <1>1, <1>4, ElementOfSeq
  <2>3. packet.path[i].call \in Call /\ IsAx25(packet.path[i].call)
    BY <1>0, <1>4, <2>2 DEF Accepted, Hop
  <2>4. Read(Plain(packet.path[i].call), TRUE, {}) = {Plain(packet.path[i].call)}
    BY <2>3, PlainIsRead
  <2>5. CheckAx25Call(p.path[i].call) = {p.path[i].call}
    BY <2>1, <2>4 DEF Read
  <2>6. Plain(packet.path[i].call) \in Call /\ Plain(packet.path[i].call).base \in Bases
    <3>1. packet.path[i].call.base \in Bases
      BY <2>3, CapitalCall DEF IsAx25
    <3> QED BY <2>3, <3>1, PlainIsCall, PlainCall
  <2>7. Capital(p.path[i].call) = p.path[i].call
    BY <2>1, <2>6, CapitalCall
  <2> QED BY <1>1, <1>3, <2>5, <2>7, ElementOfSeq DEF IsCounted
<1>6. CheckAx25Call(p.source) # {} /\ CheckAx25Call(p.destination) # {}
  <2>1. p.source = Plain(packet.source) /\ p.destination = Plain(packet.destination)
    BY <1>0 DEF Returned
  <2>2. IsAx25(packet.source) /\ IsAx25(packet.destination)
    BY <1>0 DEF Accepted
  <2>3. /\ Read(Plain(packet.source), TRUE, {}) = {Plain(packet.source)}
        /\ Read(Plain(packet.destination), TRUE, {}) = {Plain(packet.destination)}
    BY <1>1, <2>2, PlainIsRead
  <2> QED BY <2>1, <2>3 DEF Read
<1> DEFINE hops == [i \in 1 .. L |-> HopsOf([p.path[i] EXCEPT !.call = Capital(@)])]
           served == [i \in 1 .. L |-> Served(p.path[i])]
<1>7. CountDigihops(p) = {Total(hops, L)}
  BY <1>5, <1>6 DEF CountDigihops
<1>8. \A i \in 1 .. L : hops[i] = HopsOf(p.path[i])
  <2> SUFFICES ASSUME NEW i \in 1 .. L
               PROVE  [p.path[i] EXCEPT !.call = Capital(@)] = p.path[i]
    OBVIOUS
  <2>1. p.path[i] \in Hop /\ Capital(p.path[i].call) = p.path[i].call
    BY <1>5
  <2>2. [p.path[i] EXCEPT !.call = Capital(@)] = [p.path[i] EXCEPT !.call = p.path[i].call]
    BY <2>1
  <2>3. @ = [call |-> p.path[i].call, repeated |-> p.path[i].repeated]
    BY <2>1, ChangedHop
  <2> QED BY <2>1, <2>2, <2>3 DEF Hop
<1>9. repeats = Total(served, L)
  BY <1>3 DEF IsCounted
<1>10. hops \in [1 .. L -> Nat] /\ served \in [1 .. L -> Nat]
  <2>1. \A i \in 1 .. L : hops[i] \in Nat /\ served[i] \in Nat
    BY <1>5, <1>8, HopsOfServed, ServedIs
  <2> QED BY <2>1
<1>11. \A i \in 1 .. L : hops[i] <= served[i] /\ (served[i] > 0 => hops[i] > 0)
  BY <1>5, <1>8, HopsOfServed
<1>12. (\A i \in 1 .. L : p.path[i].repeated => p.path[i].call.base \notin DOMAIN Wide \ {"WIDE1"})
         => hops = served
  <2> SUFFICES ASSUME \A i \in 1 .. L :
                 p.path[i].repeated => p.path[i].call.base \notin DOMAIN Wide \ {"WIDE1"}
               PROVE  hops = served
    OBVIOUS
  <2>1. \A i \in 1 .. L : hops[i] = served[i]
    BY <1>5, <1>8, HopsOfServed
  <2> QED BY <2>1
<1> HIDE DEF hops, served
<1>13. Total(hops, L) <= repeats /\ (repeats > 0 => Total(hops, L) > 0)
  BY <1>1, <1>9, <1>10, <1>11, TotalsCompare
<1> QED BY <1>7, <1>9, <1>12, <1>13

\* count_digihops never counts more digipeaters than have repeated a packet, sees
\* that there were some, and counts them all unless AX.25 hides an alias that is
\* used up; whatever the route and the digipeaters (frame.rs:189-222).
THEOREM JourneyHopsAreCounted == JSpec => []HopsAreCounted
<1>1. JInit => Copied
  BY SentIsPacket, SelfIsCopy, PacketFields DEF JInit, KInit, Copied
<1>2. OnTheWay /\ OnTheWay' /\ Copied /\ [JNext]_journeyVars => Copied'
  BY CopyStep
<1>3. JInit => Counted
  <2> SUFFICES ASSUME JInit PROVE Counted
    OBVIOUS
  <2>1. packet \in PacketOver(Cell) /\ origin = {packet} /\ repeats = 0
    BY SentIsPacket DEF JInit, KInit
  <2>2. IsFresh(packet.path) => IsCounted(packet.path, 0)
    BY <2>1, FreshIs
  <2> QED BY <2>1, <2>2 DEF Counted
<1>4. OnTheWay /\ OnTheWay' /\ Copied /\ Counted /\ [JNext]_journeyVars => Counted'
  BY CountedStep
<1>5. OnTheWay /\ Copied /\ Counted => HopsAreCounted
  BY CountedHops DEF HopsAreCounted
<1> QED BY <1>1, <1>2, <1>3, <1>4, <1>5, JourneyInvariance, PTL DEF JSpec

-----------------------------------------------------------------------------
(* What a message is read back as.                                         *)

Gap == " "
Chars == Text!Character

\* The text ends at n, but for spaces.
Ends(s, n) ==
  /\ n \in 0 .. Len(s)
  /\ n # 0 => s[n] # Gap
  /\ \A j \in n + 1 .. Len(s) : s[j] = Gap

\* Every text ends somewhere, and only there.
LEMMA TextEnds ==
  ASSUME NEW s \in Seq(Chars)
  PROVE  \E n : Ends(s, n)
<1> DEFINE L == Len(s)
           T == {m \in 0 .. L : \A j \in 1 .. L : L - m + 1 <= j => s[j] = Gap}
           S == {m \in 0 .. L : m \notin T}
<1>1. L \in Nat
  OBVIOUS
<1>2. CASE S = {}
  <2>1. L \in T
    BY <1>1, <1>2
  <2>2. \A j \in 0 + 1 .. L : s[j] = Gap
    BY <1>1, <2>1
  <2>3. Ends(s, 0)
    BY <1>1, <2>2 DEF Ends
  <2> QED BY <2>3
<1>3. CASE S # {}
  <2>1. S \subseteq Nat
    BY <1>1
  <2>2. PICK m \in S : \A l \in S : <<l, m>> \notin OpToRel(<, Nat)
    <3> HIDE DEF S
    <3> QED BY <1>3, <2>1, WFMin, NatLessThanWellFounded
  <2>3. m \in 0 .. L /\ m \notin T
    OBVIOUS
  <2>4. 0 \in T
    BY <1>1
  <2>5. m \in 1 .. L /\ m - 1 \in 0 .. L /\ m - 1 \in Nat /\ m \in Nat /\ m - 1 < m
    BY <1>1, <2>3, <2>4
  <2>6. m - 1 \in T
    <3>1. m - 1 \notin S
      <4> HIDE DEF S, T
      <4> QED BY <2>2, <2>5 DEF OpToRel
    <3> QED BY <2>5, <3>1
  <2> DEFINE n == L - m + 1
  <2>7. n \in 1 .. L /\ L - (m - 1) + 1 = n + 1
    BY <1>1, <2>5
  <2>8. \A j \in n + 1 .. L : s[j] = Gap
    BY <1>1, <2>6, <2>7
  <2>9. s[n] # Gap
    <3>1. PICK j \in 1 .. L : n <= j /\ s[j] # Gap
      BY <2>3
    <3>2. j \notin n + 1 .. L
      BY <2>8, <3>1
    <3>3. j = n
      BY <1>1, <2>7, <3>1, <3>2
    <3> QED BY <3>1, <3>3
  <2> HIDE DEF n
  <2>10. n \in 0 .. L /\ n # 0
    BY <1>1, <2>7
  <2>11. Ends(s, n)
    BY <2>8, <2>9, <2>10 DEF Ends
  <2> QED BY <2>11
<1> QED BY <1>2, <1>3

\* That is what trim_end leaves.
LEMMA TrimmedIs ==
  ASSUME NEW s \in Seq(Chars), NEW n, Ends(s, n)
  PROVE  Text!Trimmed(s) = SubSeq(s, 1, n)
<1> DEFINE L == Len(s)
           P(i) == s[i] # Gap /\ \A j \in i + 1 .. L : s[j] = Gap
<1>1. L \in Nat
  OBVIOUS
<1>2. n \in 0 .. L /\ (n # 0 => s[n] # Gap) /\ \A j \in n + 1 .. L : s[j] = Gap
  BY DEF Ends
<1>3. Text!Trimmed(s) = IF \E i \in 1 .. L : s[i] # Gap
                        THEN SubSeq(s, 1, CHOOSE i \in 1 .. L : P(i)) ELSE <<>>
  BY DEF Text!Trimmed, Gap
<1>4. CASE n = 0
  <2>1. SubSeq(s, 1, 0) = <<>>
    BY SubSeqEmpty
  <2>2. \A i \in 1 .. L : s[i] = Gap
    BY <1>1, <1>2, <1>4
  <2> QED BY <1>3, <1>4, <2>1, <2>2
<1>5. CASE n # 0
  <2>1. n \in 1 .. L /\ P(n)
    BY <1>1, <1>2, <1>5
  <2>2. ASSUME NEW i \in 1 .. L, P(i) PROVE i = n
    <3>1. ~ i \in n + 1 .. L /\ ~ n \in i + 1 .. L
      BY <1>2, <2>1, <2>2
    <3> QED BY <1>1, <2>1, <3>1
  <2> HIDE DEF P
  <2>3. (CHOOSE i \in 1 .. L : P(i)) = n
    BY <2>1, <2>2
  <2>4. \E i \in 1 .. L : s[i] # Gap
    BY <2>1 DEF P
  <2> QED BY <1>3, <2>3, <2>4
<1> QED BY <1>4, <1>5

\* The first characters of a text.
LEMMA FrontIs ==
  ASSUME NEW s \in Seq(Chars), NEW n \in 0 .. Len(s)
  PROVE  /\ SubSeq(s, 1, n) \in Seq(Chars) /\ Len(SubSeq(s, 1, n)) = n
         /\ \A i \in 1 .. n : SubSeq(s, 1, n)[i] = s[i]
<1>1. Len(s) \in Nat /\ \A i \in 1 .. Len(s) : s[i] \in Chars
  BY ElementOfSeq
<1>2. \A i \in 1 .. n : s[i] \in Chars
  BY <1>1
<1>3. n \in Int /\ 1 \in Int /\ n - 1 + 1 = n /\ (IF 1 <= n THEN n - 1 + 1 ELSE 0) = n
  BY <1>1
<1>4. \A i \in 1 .. n : 1 + i - 1 = i
  OBVIOUS
<1> QED BY <1>2, <1>3, <1>4, SubSeqProperties

\* What is trimmed is the front of a text; it keeps every character but spaces.
LEMMA TrimKeeps ==
  ASSUME NEW s \in Seq(Chars)
  PROVE  /\ Text!Trimmed(s) \in Seq(Chars)
         /\ Len(Text!Trimmed(s)) <= Len(s)
         /\ Len(Text!Trimmed(s)) = Len(s) <=> Text!Trimmed(s) = s
         /\ \A i \in 1 .. Len(s) : s[i] # Gap =>
              i \in 1 .. Len(Text!Trimmed(s)) /\ Text!Trimmed(s)[i] = s[i]
<1>1. PICK n : Ends(s, n)
  BY TextEnds
<1>2. n \in 0 .. Len(s) /\ \A j \in n + 1 .. Len(s) : s[j] = Gap
  BY <1>1 DEF Ends
<1> DEFINE t == Text!Trimmed(s)
<1>3. t = SubSeq(s, 1, n)
  BY <1>1, TrimmedIs
<1>4. t \in Seq(Chars) /\ Len(t) = n /\ \A i \in 1 .. n : t[i] = s[i]
  BY <1>2, <1>3, FrontIs
<1>5. Len(s) \in Nat
  OBVIOUS
<1> HIDE DEF t
<1>6. n = Len(s) => t = s
  BY <1>4, SeqEqual
<1>7. ASSUME NEW i \in 1 .. Len(s), s[i] # Gap PROVE i \in 1 .. n
  <2>1. i \notin n + 1 .. Len(s)
    BY <1>2, <1>7
  <2> QED BY <1>2, <1>5, <2>1
<1> QED BY <1>2, <1>4, <1>5, <1>6, <1>7 DEF t

\* A text that ends in spaces is trimmed as it would be without them.
LEMMA TrimPadded ==
  ASSUME NEW s \in Seq(Chars), NEW w \in Seq(Chars), \A i \in 1 .. Len(w) : w[i] = Gap
  PROVE  Text!Trimmed(s \o w) = Text!Trimmed(s)
<1>1. PICK n : Ends(s, n)
  BY TextEnds
<1>2. n \in 0 .. Len(s) /\ (n # 0 => s[n] # Gap) /\ \A j \in n + 1 .. Len(s) : s[j] = Gap
  BY <1>1 DEF Ends
<1> DEFINE t == s \o w
           L == Len(s)
           M == Len(w)
<1>3. L \in Nat /\ M \in Nat
  OBVIOUS
<1>4. t \in Seq(Chars) /\ Len(t) = L + M
      /\ \A i \in 1 .. L + M : t[i] = IF i <= L THEN s[i] ELSE w[i - L]
  BY ConcatProperties
<1> HIDE DEF t, L, M
<1>5. n \in 0 .. Len(t)
  BY <1>2, <1>3, <1>4 DEF L
<1>6. n # 0 => t[n] # Gap
  <2>1. n # 0 => n \in 1 .. L + M /\ n <= L
    BY <1>2, <1>3 DEF L
  <2> QED BY <1>2, <1>4, <2>1
<1>7. ASSUME NEW j \in n + 1 .. Len(t) PROVE t[j] = Gap
  <2>1. j \in 1 .. L + M /\ (j <= L => j \in n + 1 .. L) /\ (~ j <= L => j - L \in 1 .. M)
    BY <1>2, <1>3, <1>4 DEF L
  <2> QED BY <1>2, <1>4, <2>1 DEF L, M
<1>8. Ends(t, n)
  BY <1>5, <1>6, <1>7 DEF Ends
<1>9. Text!Trimmed(t) = SubSeq(t, 1, n) /\ Text!Trimmed(s) = SubSeq(s, 1, n)
  BY <1>1, <1>4, <1>8, TrimmedIs
<1>10. SubSeq(t, 1, n) = SubSeq(s, 1, n)
  <2>1. \A i \in 1 .. n : i \in 1 .. L + M /\ i <= L
    BY <1>2, <1>3 DEF L
  <2>2. \A i \in 1 .. n : t[i] = s[i]
    BY <1>4, <2>1
  <2> QED BY <1>2, <1>4, <1>5, <2>2, FrontIs, SeqEqual
<1> QED BY <1>9, <1>10 DEF t

\* A character with a text on both sides.
IsSplit(t, c, u, w) ==
  /\ w \in Seq(Chars) /\ Len(w) = Len(t) + 1 + Len(u)
  /\ \A i \in 1 .. Len(t) : w[i] = t[i]
  /\ w[Len(t) + 1] = c
  /\ \A i \in 1 .. Len(u) : w[Len(t) + 1 + i] = u[i]
  /\ \A i \in 1 .. Len(w) : \/ i \in 1 .. Len(t) \/ i = Len(t) + 1
                            \/ \E j \in 1 .. Len(u) : i = Len(t) + 1 + j

\* That is what joining the three gives.
LEMMA SplitIs ==
  ASSUME NEW t \in Seq(Chars), NEW c \in Chars, NEW u \in Seq(Chars)
  PROVE  IsSplit(t, c, u, t \o <<c>> \o u)
<1> DEFINE L == Len(t)
           M == Len(u)
           v == t \o <<c>>
           w == v \o u
<1>1. L \in Nat /\ M \in Nat /\ <<c>> \in Seq(Chars) /\ Len(<<c>>) = 1
  OBVIOUS
<1>2. v \in Seq(Chars) /\ Len(v) = L + 1
      /\ \A i \in 1 .. L + 1 : v[i] = IF i <= L THEN t[i] ELSE <<c>>[i - L]
  <2>1. <<c>> \in Seq(Chars)
    BY <1>1
  <2> HIDE DEF L
  <2>2. t \o <<c>> \in Seq(Chars) /\ Len(t \o <<c>>) = Len(t) + Len(<<c>>)
        /\ \A i \in 1 .. Len(t) + Len(<<c>>) :
             (t \o <<c>>)[i] = IF i <= Len(t) THEN t[i] ELSE <<c>>[i - Len(t)]
    BY <2>1, ConcatProperties, Zenon
  <2> QED BY <1>1, <2>2 DEF L
<1> HIDE DEF v
<1>3. w \in Seq(Chars) /\ Len(w) = L + 1 + M
      /\ \A i \in 1 .. L + 1 + M : w[i] = IF i <= L + 1 THEN v[i] ELSE u[i - (L + 1)]
  <2>1. /\ w \in Seq(Chars) /\ Len(w) = Len(v) + M
        /\ \A i \in 1 .. Len(v) + M : w[i] = IF i <= Len(v) THEN v[i] ELSE u[i - Len(v)]
    BY <1>2, ConcatProperties, ZenonT(60)
  <2> HIDE DEF w, L, M
  <2> QED BY <1>2, <2>1
<1> HIDE DEF w, L, M
<1>4. \A i \in 1 .. L : w[i] = t[i]
  <2>1. \A i \in 1 .. L : i \in 1 .. L + 1 /\ i \in 1 .. L + 1 + M /\ i <= L /\ i <= L + 1
    BY <1>1
  <2> QED BY <1>2, <1>3, <2>1
<1>5. w[L + 1] = c
  <2>1. L + 1 \in 1 .. L + 1 /\ L + 1 \in 1 .. L + 1 + M /\ ~ L + 1 <= L /\ L + 1 - L = 1
    BY <1>1
  <2> DEFINE k == L + 1
  <2>2. w[k] = v[k]
    <3>1. k \in 1 .. L + 1 + M /\ k <= L + 1
      BY <1>1, <2>1
    <3> HIDE DEF k
    <3> QED BY <1>3, <3>1
  <2>3. v[k] = <<c>>[1]
    <3>1. k \in 1 .. L + 1 /\ ~ k <= L /\ k - L = 1
      BY <1>1, <2>1
    <3> HIDE DEF k
    <3> QED BY <1>2, <3>1
  <2> QED BY <2>2, <2>3
<1>6. \A i \in 1 .. M : w[L + 1 + i] = u[i]
  <2>1. \A i \in 1 .. M : L + 1 + i \in 1 .. L + 1 + M /\ ~ L + 1 + i <= L + 1
                          /\ (L + 1 + i) - (L + 1) = i
    BY <1>1
  <2> QED BY <1>3, <2>1
<1>7. ASSUME NEW i \in 1 .. Len(w)
      PROVE  i \in 1 .. L \/ i = L + 1 \/ \E j \in 1 .. M : i = L + 1 + j
  <2>1. i \in 1 .. L \/ i = L + 1 \/ (i - (L + 1) \in 1 .. M /\ i = L + 1 + (i - (L + 1)))
    BY <1>1, <1>3
  <2> QED BY <2>1
<1>8. IsSplit(t, c, u, w)
  BY <1>3, <1>4, <1>5, <1>6, <1>7 DEF IsSplit, L, M
<1> QED BY <1>8 DEF w, v

\* The parts on both sides of a character are found again, and what follows it can
\* be trimmed before or after the three are joined.
LEMMA SplitUndone ==
  ASSUME NEW t \in Seq(Chars), NEW c \in Chars, NEW u \in Seq(Chars), NEW w, IsSplit(t, c, u, w)
  PROVE  Text!Before(w, Len(t) + 1) = t /\ Text!After(w, Len(t) + 1) = u
<1> DEFINE L == Len(t)
           M == Len(u)
<1>1. /\ L \in Nat /\ M \in Nat /\ w \in Seq(Chars) /\ Len(w) = L + 1 + M
      /\ \A i \in 1 .. L : w[i] = t[i]
      /\ \A i \in 1 .. M : w[L + 1 + i] = u[i]
  BY DEF IsSplit
<1>2. L + 1 - 1 = L /\ L \in 0 .. Len(w)
  BY <1>1
<1>3. SubSeq(w, 1, L) = t
  BY <1>1, <1>2, FrontIs, SeqEqual
<1> DEFINE v == SubSeq(w, L + 1 + 1, Len(w))
<1>4. v \in Seq(Chars) /\ Len(v) = M /\ \A i \in 1 .. M : v[i] = w[L + 1 + i]
  <2>1. \A i \in L + 1 + 1 .. Len(w) : w[i] \in Chars
    BY <1>1, ElementOfSeq
  <2>2. L + 1 + 1 \in Int /\ Len(w) \in Int /\ Len(w) - (L + 1 + 1) + 1 = M
        /\ (IF L + 1 + 1 <= Len(w) THEN M ELSE 0) = M
        /\ \A i \in 1 .. M : L + 1 + 1 + i - 1 = L + 1 + i
    BY <1>1
  <2> HIDE DEF L, M
  <2> QED BY <2>1, <2>2, SubSeqProperties
<1> HIDE DEF v
<1>5. v = u
  BY <1>1, <1>4, SeqEqual
<1> QED BY <1>2, <1>3, <1>5 DEF Text!Before, Text!After, v

\* Without the spaces at its end, a text is split at the same place.
LEMMA SplitTrims ==
  ASSUME NEW t \in Seq(Chars), NEW c \in Chars, NEW u \in Seq(Chars), NEW w, IsSplit(t, c, u, w),
         c # Gap
  PROVE  IsSplit(t, c, Text!Trimmed(u), Text!Trimmed(w))
<1> DEFINE L == Len(t)
           M == Len(u)
<1>1. /\ L \in Nat /\ M \in Nat /\ w \in Seq(Chars) /\ Len(w) = L + 1 + M
      /\ w[L + 1] = c
      /\ \A i \in 1 .. L : w[i] = t[i]
      /\ \A i \in 1 .. M : w[L + 1 + i] = u[i]
  BY DEF IsSplit
<1>2. PICK n : Ends(u, n)
  BY TextEnds
<1>3. n \in 0 .. M /\ (n # 0 => u[n] # Gap) /\ \A j \in n + 1 .. M : u[j] = Gap
  BY <1>2 DEF Ends
<1> DEFINE k == L + 1 + n
<1> HIDE DEF L, M
<1>4. k \in 0 .. Len(w) /\ k \in 1 .. Len(w) /\ n \in Nat /\ (n # 0 => n \in 1 .. M)
  BY <1>1, <1>3
<1>5. w[k] # Gap
  <2>1. n = 0 => k = L + 1
    BY <1>1
  <2> HIDE DEF k
  <2>2. n # 0 => w[k] = u[n]
    BY <1>1, <1>4 DEF k
  <2> QED BY <1>1, <1>3, <2>1, <2>2
<1>6. ASSUME NEW j \in k + 1 .. Len(w) PROVE w[j] = Gap
  <2> DEFINE i == j - (L + 1)
  <2>1. i \in n + 1 .. M /\ i \in 1 .. M /\ L + 1 + i = j
    BY <1>1, <1>3
  <2> HIDE DEF i
  <2> QED BY <1>1, <1>3, <2>1
<1> HIDE DEF k
<1>7. Ends(w, k)
  BY <1>4, <1>5, <1>6 DEF Ends
<1>8. Text!Trimmed(w) = SubSeq(w, 1, k) /\ Text!Trimmed(u) = SubSeq(u, 1, n)
  BY <1>1, <1>2, <1>7, TrimmedIs
<1> DEFINE a == SubSeq(w, 1, k)
           b == SubSeq(u, 1, n)
<1>9. a \in Seq(Chars) /\ Len(a) = k /\ \A i \in 1 .. k : a[i] = w[i]
  BY <1>1, <1>4, FrontIs
<1>10. b \in Seq(Chars) /\ Len(b) = n /\ \A i \in 1 .. n : b[i] = u[i]
  BY <1>3, FrontIs DEF M
<1> HIDE DEF a, b
<1>11. /\ \A i \in 1 .. L : i \in 1 .. k
       /\ L + 1 \in 1 .. k
       /\ \A i \in 1 .. n : L + 1 + i \in 1 .. k /\ i \in 1 .. M
       /\ \A i \in 1 .. k : \/ i \in 1 .. L \/ i = L + 1
                            \/ i - (L + 1) \in 1 .. n /\ i = L + 1 + (i - (L + 1))
  BY <1>1, <1>3 DEF k
<1>12. \A i \in 1 .. k : i \in 1 .. L \/ i = L + 1 \/ \E j \in 1 .. n : i = L + 1 + j
  BY <1>11
<1>13. (\A i \in 1 .. L : a[i] = t[i]) /\ a[L + 1] = c
  BY <1>1, <1>9, <1>11
<1>14. \A i \in 1 .. n : a[L + 1 + i] = b[i]
  BY <1>1, <1>9, <1>10, <1>11
<1>15. IsSplit(t, c, b, a)
  BY <1>9, <1>10, <1>12, <1>13, <1>14 DEF IsSplit, L, k
<1> QED BY <1>8, <1>15 DEF a, b

\* Which place of a character is its first, and which its last.
LEMMA SplitPlaces ==
  ASSUME NEW t \in Seq(Chars), NEW c \in Chars, NEW u \in Seq(Chars), NEW w, IsSplit(t, c, u, w)
  PROVE  /\ Text!Holds(w, c)
         /\ ~ Text!Holds(t, c) => Text!First(w, c) = Len(t) + 1
         /\ ~ Text!Holds(u, c) => Text!Final(w, c) = Len(t) + 1
<1> DEFINE p == Len(t) + 1
           First(i) == w[i] = c /\ ~ Text!Holds(Text!Before(w, i), c)
           Final(i) == w[i] = c /\ ~ Text!Holds(Text!After(w, i), c)
<1>1. /\ w \in Seq(Chars) /\ Len(w) = p + Len(u) /\ w[p] = c
      /\ \A i \in 1 .. Len(t) : w[i] = t[i]
      /\ \A i \in 1 .. Len(u) : w[p + i] = u[i]
      /\ \A i \in 1 .. Len(w) : i \in 1 .. Len(t) \/ i = p \/ \E j \in 1 .. Len(u) : i = p + j
  BY DEF IsSplit
<1>2. Len(t) \in Nat /\ Len(u) \in Nat /\ Len(w) \in Nat /\ p \in 1 .. Len(w)
  BY <1>1
<1>3. Text!Before(w, p) = t /\ Text!After(w, p) = u
  BY SplitUndone
<1>4. Text!Holds(w, c)
  BY <1>1, <1>2 DEF Text!Holds
<1>5. ASSUME NEW i \in 1 .. Len(w), i < p, w[i] = c PROVE Text!Holds(t, c)
  <2>1. i \in 1 .. Len(t)
    BY <1>2, <1>5
  <2> QED BY <1>1, <1>5, <2>1 DEF Text!Holds
<1>6. ASSUME NEW i \in 1 .. Len(w), p < i, w[i] = c PROVE Text!Holds(u, c)
  <2>1. i \notin 1 .. Len(t) /\ i # p
    BY <1>2, <1>6
  <2>2. PICK j \in 1 .. Len(u) : i = p + j
    BY <1>1, <2>1
  <2> QED BY <1>1, <1>6, <2>2 DEF Text!Holds
<1>7. ASSUME NEW i \in 1 .. Len(w), p < i PROVE ~ First(i)
  <2> DEFINE v == SubSeq(w, 1, i - 1)
  <2>1. i - 1 \in 0 .. Len(w) /\ p \in 1 .. i - 1
    BY <1>2, <1>7
  <2>2. Len(v) = i - 1 /\ v[p] = w[p]
    BY <1>1, <2>1, FrontIs
  <2>3. Text!Holds(v, c)
    BY <1>1, <2>1, <2>2 DEF Text!Holds
  <2> QED BY <2>3 DEF Text!Before
<1>8. ASSUME NEW i \in 1 .. Len(w), i < p PROVE ~ Final(i)
  <2> DEFINE v == SubSeq(w, i + 1, Len(w))
             j == p - i
  <2>1. \A k \in i + 1 .. Len(w) : w[k] \in Chars
    BY <1>1, <1>2, ElementOfSeq
  <2>2. i + 1 \in Int /\ Len(w) \in Int /\ i + 1 <= Len(w) /\ Len(w) - (i + 1) + 1 = Len(w) - i
        /\ j \in 1 .. Len(w) - i /\ i + 1 + j - 1 = p
    BY <1>2, <1>8
  <2>3. Len(v) = Len(w) - i /\ v[j] = w[i + 1 + j - 1]
    <3> HIDE DEF j, p
    <3> QED BY <2>1, <2>2, SubSeqProperties
  <2>4. Text!Holds(v, c)
    <3> HIDE DEF j, v
    <3> QED BY <1>1, <2>2, <2>3 DEF Text!Holds
  <2> QED BY <2>4 DEF Text!After
<1>9. Text!First(w, c) = CHOOSE i \in 1 .. Len(w) : First(i)
  BY DEF Text!First
<1>10. Text!Final(w, c) = CHOOSE i \in 1 .. Len(w) : Final(i)
  BY DEF Text!Final
<1>11. ASSUME ~ Text!Holds(t, c) PROVE Text!First(w, c) = p
  <2>1. First(p)
    BY <1>1, <1>3, <1>11
  <2>2. \A i \in 1 .. Len(w) : First(i) => i = p
    <3>1. \A i \in 1 .. Len(w) : i < p \/ i = p \/ p < i
      BY <1>2
    <3> QED BY <1>5, <1>7, <1>11, <3>1
  <2> HIDE DEF First, p
  <2> QED BY <1>2, <1>9, <2>1, <2>2
<1>12. ASSUME ~ Text!Holds(u, c) PROVE Text!Final(w, c) = p
  <2>1. Final(p)
    BY <1>1, <1>3, <1>12
  <2>2. \A i \in 1 .. Len(w) : Final(i) => i = p
    <3>1. \A i \in 1 .. Len(w) : i < p \/ i = p \/ p < i
      BY <1>2
    <3> QED BY <1>6, <1>8, <1>12, <3>1
  <2> HIDE DEF Final, p
  <2> QED BY <1>2, <1>10, <2>1, <2>2
<1> QED BY <1>4, <1>11, <1>12

\* A set of places has a last one.
LEMMA LastIs ==
  ASSUME NEW n \in Nat, NEW S, S \subseteq 1 .. n, S # {}
  PROVE  \E b \in S : \A k \in S : k <= b
<1> DEFINE T == {n - k : k \in S}
<1>1. T \subseteq Nat /\ T # {}
  <2>1. \A k \in S : n - k \in Nat
    OBVIOUS
  <2> QED BY <2>1
<1>2. PICK m \in T : \A l \in T : <<l, m>> \notin OpToRel(<, Nat)
  <2> HIDE DEF T
  <2> QED BY <1>1, WFMin, NatLessThanWellFounded
<1>3. PICK b \in S : m = n - b
  OBVIOUS
<1>4. ASSUME NEW k \in S PROVE k <= b
  <2>1. n - k \in T /\ n - k \in Nat /\ m \in Nat
    BY <1>1
  <2>2. ~ n - k < m
    <3> HIDE DEF T
    <3> QED BY <1>2, <2>1 DEF OpToRel
  <2> QED BY <1>3, <2>2
<1> QED BY <1>4

\* If the character comes again, the part before its last place is longer.
LEMMA SplitAgain ==
  ASSUME NEW t \in Seq(Chars), NEW c \in Chars, NEW u \in Seq(Chars), NEW w, IsSplit(t, c, u, w),
         Text!Holds(u, c)
  PROVE  Text!Before(w, Text!Final(w, c)) # t
<1> DEFINE p == Len(t) + 1
           S == {i \in 1 .. Len(w) : w[i] = c}
           Final(i) == w[i] = c /\ ~ Text!Holds(Text!After(w, i), c)
<1>1. /\ w \in Seq(Chars) /\ Len(w) = p + Len(u) /\ w[p] = c
      /\ \A i \in 1 .. Len(u) : w[p + i] = u[i]
  BY DEF IsSplit
<1>2. Len(t) \in Nat /\ Len(u) \in Nat /\ Len(w) \in Nat /\ p \in 1 .. Len(w)
  BY <1>1
<1>3. PICK k \in 1 .. Len(u) : u[k] = c
  BY DEF Text!Holds
<1>4. p + k \in S /\ p + k > p
  BY <1>1, <1>2, <1>3
<1>5. PICK b \in S : \A i \in S : i <= b
  <2>1. S \subseteq 1 .. Len(w) /\ S # {}
    BY <1>4
  <2> HIDE DEF S
  <2> QED BY <1>2, <2>1, LastIs
<1>6. b \in 1 .. Len(w) /\ w[b] = c /\ \A i \in 1 .. Len(w) : w[i] = c => i <= b
  BY <1>5
<1>7. ASSUME NEW i \in 1 .. Len(w)
      PROVE  /\ Text!After(w, i) \in Seq(Chars) /\ Len(Text!After(w, i)) = Len(w) - i
             /\ \A j \in 1 .. Len(w) - i : Text!After(w, i)[j] = w[i + j]
  <2> DEFINE v == SubSeq(w, i + 1, Len(w))
  <2>1. \A j \in i + 1 .. Len(w) : w[j] \in Chars
    BY <1>1, <1>2, ElementOfSeq
  <2>2. i + 1 \in Int /\ Len(w) \in Int /\ Len(w) - (i + 1) + 1 = Len(w) - i
        /\ (IF i + 1 <= Len(w) THEN Len(w) - i ELSE 0) = Len(w) - i
        /\ \A j \in 1 .. Len(w) - i : i + 1 + j - 1 = i + j
    BY <1>2
  <2>3. v \in Seq(Chars) /\ Len(v) = Len(w) - i /\ \A j \in 1 .. Len(w) - i : v[j] = w[i + j]
    <3> DEFINE m == i + 1
               n == Len(w)
    <3>1. m \in Int /\ n \in Int /\ \A j \in m .. n : w[j] \in Chars
      BY <2>1, <2>2
    <3> HIDE DEF m, n
    <3>2. /\ SubSeq(w, m, n) \in Seq(Chars)
          /\ Len(SubSeq(w, m, n)) = IF m <= n THEN n - m + 1 ELSE 0
          /\ \A j \in 1 .. n - m + 1 : SubSeq(w, m, n)[j] = w[m + j - 1]
      BY <3>1, SubSeqProperties
    <3> QED BY <2>2, <3>2 DEF m, n
  <2> QED BY <2>3 DEF Text!After
<1>8. Final(b)
  <2>1. ASSUME Text!Holds(Text!After(w, b), c) PROVE FALSE
    <3>1. PICK j \in 1 .. Len(Text!After(w, b)) : Text!After(w, b)[j] = c
      BY <2>1 DEF Text!Holds
    <3>2. j \in 1 .. Len(w) - b /\ w[b + j] = c
      BY <1>6, <1>7, <3>1
    <3>3. b + j \in 1 .. Len(w) /\ ~ b + j <= b
      BY <1>2, <1>6, <3>2
    <3> QED BY <1>6, <3>2, <3>3
  <2> QED BY <1>6, <2>1
<1> DEFINE f == Text!Final(w, c)
<1>9. f \in 1 .. Len(w) /\ Final(f)
  <2>1. f = CHOOSE i \in 1 .. Len(w) : Final(i)
    BY DEF Text!Final
  <2> HIDE DEF f, Final
  <2> QED BY <1>6, <1>8, <2>1
<1> HIDE DEF f
<1>10. p + k <= f
  <2>1. SUFFICES ASSUME f < p + k PROVE FALSE
    BY <1>2, <1>9
  <2> DEFINE j == p + k - f
  <2>2. j \in 1 .. Len(w) - f /\ f + j = p + k
    BY <1>1, <1>2, <1>9, <2>1
  <2> HIDE DEF j
  <2>3. Text!After(w, f)[j] = c /\ j \in 1 .. Len(Text!After(w, f))
    <3>1. w[f + j] = c /\ f \in 1 .. Len(w)
      BY <1>4, <1>9, <2>2
    <3>2. Text!After(w, f)[j] = w[f + j] /\ Len(Text!After(w, f)) = Len(w) - f
      BY <1>7, <2>2, <3>1
    <3> QED BY <2>2, <3>1, <3>2
  <2> QED BY <1>9, <2>3 DEF Text!Holds
<1>11. Len(SubSeq(w, 1, f - 1)) = f - 1
  <2>1. f - 1 \in 0 .. Len(w)
    BY <1>2, <1>9
  <2> QED BY <1>1, <2>1, FrontIs
<1>12. f - 1 # Len(t)
  BY <1>2, <1>9, <1>10
<1> QED BY <1>11, <1>12 DEF Text!Before, f

\* A text has a length in bytes, and no bytes if it is empty.
LEMMA SizeIs ==
  ASSUME NEW t \in Seq(Chars)
  PROVE  Text!Size(t) \in Int /\ (t = <<>> => Text!Size(t) = 0)
<1> DEFINE W == {i \in 1 .. Len(t) : t[i] \in Text!Word}
<1>1. W \in SUBSET (1 .. Len(t)) /\ Len(t) \in Nat
  OBVIOUS
<1>2. IsFiniteSet(1 .. Len(t))
  BY <1>1, FS_Interval
<1>3. Cardinality(W) \in Nat
  <2> HIDE DEF W
  <2> QED BY <1>1, <1>2, FS_Subset, FS_CardinalityType
<1>4. Text!Size(t) = Len(t) + 2 * Cardinality(W)
  BY DEF Text!Size, Text!Cardinality, Cardinality
<1>5. ASSUME t = <<>> PROVE W = {} /\ Len(t) = 0
  BY <1>5
<1>6. t = <<>> => Cardinality(W) = 0 /\ Len(t) = 0
  BY <1>5, FS_EmptySet
<1> HIDE DEF W
<1> QED BY <1>1, <1>3, <1>4, <1>6

\* The addressee is read back without the spaces that fill its field.
LEMMA AddresseeIs ==
  ASSUME NEW t \in Seq(Chars), Text!Size(t) <= 9
  PROVE  Text!TrimmedBoth(Text!Padded(t)) = Text!TrimmedBoth(t)
<1> DEFINE n == 9 - Text!Size(t)
           w == [i \in 1 .. n |-> Gap]
<1>1. n \in Nat
  BY SizeIs
<1> HIDE DEF n
<1>2. Gap \in Chars
  BY DEF Gap, Chars, Text!Character
<1>3. w \in Seq(Chars) /\ \A i \in 1 .. Len(w) : w[i] = Gap
  BY <1>1, <1>2
<1> HIDE DEF w
<1>4. Text!Trimmed(t \o w) = Text!Trimmed(t)
  BY <1>3, TrimPadded
<1>5. Text!Padded(t) = t \o w
  BY DEF Text!Padded, Gap, n, w
<1> QED BY <1>4, <1>5 DEF Text!TrimmedBoth

\* The characters of a response.
Answers == Text!Alphanumeric \cup {"}"}

\* A text with any other character in it, behind its first, is no response.
LEMMA NoResponse ==
  ASSUME NEW w \in Seq(Chars), NEW c, NEW b, b # c, b # Gap, b \notin Answers, Text!Holds(w, b)
  PROVE  ~ Text!IsResponse(w, c)
<1>1. SUFFICES ASSUME Text!IsResponse(w, c) PROVE FALSE
  OBVIOUS
<1> DEFINE t == Tail(w)
           u == Text!Trimmed(t)
<1>2. w # <<>> /\ Head(w) = c /\ \A i \in 1 .. Len(u) : u[i] \in Answers
  BY <1>1 DEF Text!IsResponse, Answers
<1>3. PICK k \in 1 .. Len(w) : w[k] = b
  BY DEF Text!Holds
<1> HIDE DEF u, t
<1>4. t \in Seq(Chars) /\ Len(t) = Len(w) - 1 /\ \A i \in 1 .. Len(t) : t[i] = w[i + 1]
  BY <1>2, HeadTailProperties DEF t
<1>5. Head(w) = w[1] /\ Len(w) \in Nat
  BY <1>2
<1>6. k # 1
  BY <1>2, <1>3, <1>5
<1>7. k - 1 \in 1 .. Len(t) /\ k - 1 + 1 = k
  BY <1>3, <1>4, <1>5, <1>6
<1>8. t[k - 1] = b
  BY <1>3, <1>4, <1>7
<1>9. k - 1 \in 1 .. Len(u) /\ u[k - 1] = b
  BY <1>4, <1>7, <1>8, TrimKeeps DEF u
<1> QED BY <1>2, <1>9

\* So one with a brace in it is none.
LEMMA BraceIsNoResponse ==
  ASSUME NEW w \in Seq(Chars), Text!Holds(w, "{")
  PROVE  ~ Text!IsResponse(w, "ack") /\ ~ Text!IsResponse(w, "rej")
<1>1. "{" \notin Answers /\ "{" # Gap /\ "{" # "ack" /\ "{" # "rej"
  BY DEF Answers, Text!Alphanumeric, Text!Letter, Text!Word, Gap
<1> QED BY <1>1, NoResponse, Zenon

\* A text of letters holds no other character, and is not trimmed.
LEMMA LettersAre ==
  ASSUME NEW t \in Seq(Chars), Text!IsAlphanumeric(t)
  PROVE  /\ ~ Text!Holds(t, "{") /\ ~ Text!Holds(t, "}")
         /\ Text!Trimmed(t) = t
<1>1. \A i \in 1 .. Len(t) : t[i] \in Text!Alphanumeric
  BY DEF Text!IsAlphanumeric
<1>2. "{" \notin Text!Alphanumeric /\ "}" \notin Text!Alphanumeric /\ Gap \notin Text!Alphanumeric
  BY DEF Text!Alphanumeric, Text!Letter, Text!Word, Gap
<1>3. ~ Text!Holds(t, "{") /\ ~ Text!Holds(t, "}")
  BY <1>1, <1>2 DEF Text!Holds
<1> DEFINE n == Len(t)
<1>4. n \in 0 .. Len(t) /\ \A j \in n + 1 .. Len(t) : FALSE
  OBVIOUS
<1>5. n # 0 => n \in 1 .. Len(t)
  BY <1>4
<1>6. Ends(t, n)
  <2> HIDE DEF n
  <2> QED BY <1>1, <1>2, <1>4, <1>5 DEF Ends
<1>7. Text!Trimmed(t) = SubSeq(t, 1, n)
  <2> HIDE DEF n
  <2> QED BY <1>6, TrimmedIs
<1>8. SubSeq(t, 1, n) = t
  OBVIOUS
<1> QED BY <1>3, <1>7, <1>8

\* A message by its fields.
Fields(destination, text, id, acknowledgement_id, rejection_id) ==
  [destination |-> destination, text |-> text, id |-> id,
   acknowledgement_id |-> acknowledgement_id, rejection_id |-> rejection_id]

\* What they are.
LEMMA FieldsAre ==
  ASSUME NEW m \in Text!Message
  PROVE  /\ m.destination \in Seq(Chars) /\ m.text \in Seq(Chars) /\ m.id \in Text!Option
         /\ m.acknowledgement_id \in Text!Option /\ m.rejection_id \in Text!Option
<1> DEFINE T == Seq(Chars)
           O == Text!Option
<1>1. m \in [destination : T, text : T, id : O, acknowledgement_id : O, rejection_id : O]
  BY Zenon DEF Text!Message, Chars
<1> HIDE DEF T, O
<1>2. /\ m.destination \in T /\ m.text \in T /\ m.id \in O
      /\ m.acknowledgement_id \in O /\ m.rejection_id \in O
  BY <1>1
<1> QED BY <1>2 DEF T, O

\* When two are the same.
LEMMA SameFields ==
  ASSUME NEW m \in Text!Message, NEW d, NEW t, NEW i, NEW a, NEW r
  PROVE  Fields(d, t, i, a, r) = m <=>
           /\ d = m.destination /\ t = m.text /\ i = m.id
           /\ a = m.acknowledgement_id /\ r = m.rejection_id
<1> DEFINE T == Seq(Chars)
           O == Text!Option
<1>1. m \in [destination : T, text : T, id : O, acknowledgement_id : O, rejection_id : O]
  BY Zenon DEF Text!Message, Chars
<1> HIDE DEF T, O
<1> QED BY <1>1 DEF Fields

\* What is read where there is a brace and no response.
Numbered(d, w) ==
  LET p == Text!Final(w, "{")
      u == Text!Trimmed(Text!After(w, p))
      q == Text!First(u, "}")
      a == Text!After(u, q)
  IN  IF Text!Holds(u, "}")
      THEN Fields(d, Text!Before(w, p), {Text!Before(u, q)}, IF a = <<>> THEN {} ELSE {a}, {})
      ELSE Fields(d, Text!Before(w, p), {u}, {}, {})

\* What is read of a content.
Reading(d, w) ==
  IF Text!IsResponse(w, "ack") THEN Fields(d, <<>>, {}, {Text!Trimmed(Tail(w))}, {})
  ELSE IF Text!IsResponse(w, "rej") THEN Fields(d, <<>>, {}, {}, {Text!Trimmed(Tail(w))})
  ELSE IF ~ Text!Holds(w, "{") THEN Fields(d, w, {}, {}, {})
  ELSE Numbered(d, w)

\* So an encoded message is read (parser.rs:1053-1111).
LEMMA ParsedIs ==
  ASSUME NEW m \in Text!Message, Text!IsAccepted(m)
  PROVE  Text!Parsed(Text!Encoded(m)) =
           IF Text!Content(m) = <<>> THEN {}
           ELSE {Reading(Text!TrimmedBoth(m.destination), Text!Content(m))}
<1> DEFINE w == Text!Content(m)
           body == Text!Encoded(m)
           d == Text!TrimmedBoth(m.destination)
<1>1. m.destination \in Seq(Chars) /\ Text!Size(m.destination) <= 9
  <2>1. m.destination \in Seq(Chars)
    BY FieldsAre
  <2> QED BY <2>1, Zenon DEF Text!IsAccepted
<1>2. body.content = w /\ body.addressee = Text!Padded(m.destination)
  BY DEF Text!Encoded
<1>3. Text!TrimmedBoth(body.addressee) = d
  BY <1>1, <1>2, AddresseeIs
<1> HIDE DEF body, w, d
<1>4. Text!Parsed(body) = IF w = <<>> THEN {} ELSE {Reading(d, w)}
  <2> DEFINE blank == [destination |-> d, text |-> <<>>, id |-> {},
                       acknowledgement_id |-> {}, rejection_id |-> {}]
             id == Text!Trimmed(Text!After(w, Text!Final(w, "{")))
             ack == Text!After(id, Text!First(id, "}"))
             before == Text!Before(w, Text!Final(w, "{"))
             numbered == [blank EXCEPT !.text = before]
             first == Text!Before(id, Text!First(id, "}"))
             last == IF ack = <<>> THEN {} ELSE {ack}
             response == Text!Trimmed(Tail(w))
  <2>1. Text!Parsed(body) =
          IF w = <<>> THEN {} ELSE {
            IF Text!IsResponse(w, "ack") THEN [blank EXCEPT !.acknowledgement_id = {response}]
            ELSE IF Text!IsResponse(w, "rej") THEN [blank EXCEPT !.rejection_id = {response}]
            ELSE IF ~ Text!Holds(w, "{") THEN [blank EXCEPT !.text = w]
            ELSE IF ~ Text!Holds(id, "}") THEN [numbered EXCEPT !.id = {id}]
            ELSE [numbered EXCEPT !.id = {first}, !.acknowledgement_id = last]}
    BY <1>2, <1>3, Zenon DEF Text!Parsed, Text!Some, Text!None
  <2> HIDE DEF response, id, first, last, before
  <2>2. /\ [blank EXCEPT !.acknowledgement_id = {response}] = Fields(d, <<>>, {}, {response}, {})
        /\ [blank EXCEPT !.rejection_id = {response}] = Fields(d, <<>>, {}, {}, {response})
        /\ [blank EXCEPT !.text = w] = Fields(d, w, {}, {}, {})
        /\ [numbered EXCEPT !.id = {id}] = Fields(d, before, {id}, {}, {})
        /\ [numbered EXCEPT !.id = {first}, !.acknowledgement_id = last]
              = Fields(d, before, {first}, last, {})
    <3>1. PICK o : o = {}
      OBVIOUS
    <3>2. PICK e : e = <<>>
      OBVIOUS
    <3>3. blank = Fields(d, e, o, o, o)
      BY <3>1, <3>2 DEF Fields
    <3> DEFINE r == {response}
               i == {id}
               f == {first}
    <3> HIDE DEF blank, last, r, i, f
    <3>4. /\ [blank EXCEPT !.acknowledgement_id = r] = Fields(d, e, o, r, o)
          /\ [blank EXCEPT !.rejection_id = r] = Fields(d, e, o, o, r)
          /\ [blank EXCEPT !.text = w] = Fields(d, w, o, o, o)
          /\ numbered = Fields(d, before, o, o, o)
      <4>1. /\ [blank EXCEPT !.acknowledgement_id = r] = Fields(d, e, o, r, o)
            /\ [blank EXCEPT !.rejection_id = r] = Fields(d, e, o, o, r)
            /\ [blank EXCEPT !.text = w] = Fields(d, w, o, o, o)
        BY <3>3 DEF Fields
      <4>2. numbered = Fields(d, before, o, o, o)
        BY <3>3 DEF Fields
      <4> QED BY <4>1, <4>2
    <3> HIDE DEF numbered
    <3> DEFINE filled == [numbered EXCEPT !.id = f]
    <3>5. [numbered EXCEPT !.id = i] = Fields(d, before, i, o, o)
      BY <3>4 DEF Fields
    <3>6. filled = Fields(d, before, f, o, o)
      BY <3>4 DEF Fields
    <3>7. [numbered EXCEPT !.id = f, !.acknowledgement_id = last] =
            [filled EXCEPT !.acknowledgement_id = last]
      OBVIOUS
    <3> HIDE DEF filled
    <3>8. [filled EXCEPT !.acknowledgement_id = last] = Fields(d, before, f, last, o)
      BY <3>6 DEF Fields
    <3> QED BY <3>1, <3>2, <3>4, <3>5, <3>7, <3>8 DEF r, i, f
  <2> HIDE DEF blank, numbered, ack
  <2>3. Numbered(d, w) = IF Text!Holds(id, "}") THEN Fields(d, before, {first}, last, {})
                         ELSE Fields(d, before, {id}, {}, {})
    BY Zenon DEF Numbered, id, first, last, before, ack
  <2>4. Reading(d, w) =
          IF Text!IsResponse(w, "ack") THEN Fields(d, <<>>, {}, {response}, {})
          ELSE IF Text!IsResponse(w, "rej") THEN Fields(d, <<>>, {}, {}, {response})
          ELSE IF ~ Text!Holds(w, "{") THEN Fields(d, w, {}, {}, {})
          ELSE Numbered(d, w)
    BY DEF Reading, response
  <2> QED BY <2>1, <2>2, <2>3, <2>4
<1> QED BY <1>4 DEF body, w, d

\* What a content looks like to the parser.
LooksAck(w) == Text!IsResponse(w, "ack")
LooksRej(w) == Text!IsResponse(w, "rej")
HasBrace(w) == Text!Holds(w, "{")

\* When what is read is a message.
LEMMA ReadingIs ==
  ASSUME NEW m \in Text!Message, NEW d, NEW w
  PROVE  /\ LooksAck(w) =>
              (Reading(d, w) = m <=>
                 /\ d = m.destination /\ <<>> = m.text /\ {} = m.id
                 /\ {Text!Trimmed(Tail(w))} = m.acknowledgement_id /\ {} = m.rejection_id)
         /\ ~ LooksAck(w) /\ LooksRej(w) =>
              (Reading(d, w) = m <=>
                 /\ d = m.destination /\ <<>> = m.text /\ {} = m.id
                 /\ {} = m.acknowledgement_id /\ {Text!Trimmed(Tail(w))} = m.rejection_id)
         /\ ~ LooksAck(w) /\ ~ LooksRej(w) /\ ~ HasBrace(w) =>
              (Reading(d, w) = m <=>
                 /\ d = m.destination /\ w = m.text /\ {} = m.id
                 /\ {} = m.acknowledgement_id /\ {} = m.rejection_id)
         /\ ~ LooksAck(w) /\ ~ LooksRej(w) /\ HasBrace(w) => Reading(d, w) = Numbered(d, w)
<1> DEFINE t == Text!Trimmed(Tail(w))
           a == {t}
<1>1. Reading(d, w) =
        IF LooksAck(w) THEN Fields(d, <<>>, {}, a, {})
        ELSE IF LooksRej(w) THEN Fields(d, <<>>, {}, {}, a)
        ELSE IF ~ HasBrace(w) THEN Fields(d, w, {}, {}, {})
        ELSE Numbered(d, w)
  BY DEF Reading, LooksAck, LooksRej, HasBrace
<1> HIDE DEF t, a
<1>2. PICK o : o = {}
  OBVIOUS
<1>3. PICK e : e = <<>>
  OBVIOUS
<1>4. /\ Fields(d, e, o, a, o) = m <=>
           d = m.destination /\ e = m.text /\ o = m.id /\ a = m.acknowledgement_id /\ o = m.rejection_id
      /\ Fields(d, e, o, o, a) = m <=>
           d = m.destination /\ e = m.text /\ o = m.id /\ o = m.acknowledgement_id /\ a = m.rejection_id
      /\ Fields(d, w, o, o, o) = m <=>
           d = m.destination /\ w = m.text /\ o = m.id /\ o = m.acknowledgement_id /\ o = m.rejection_id
  BY SameFields
<1> QED BY <1>1, <1>2, <1>3, <1>4 DEF t, a

\* When that has a number.
LEMMA NumberedIs ==
  ASSUME NEW m \in Text!Message, NEW d, NEW w, Numbered(d, w) = m
  PROVE  /\ m.id # {} /\ m.rejection_id = {}
         /\ m.text = Text!Before(w, Text!Final(w, "{"))
<1> DEFINE p == Text!Final(w, "{")
           u == Text!Trimmed(Text!After(w, p))
           q == Text!First(u, "}")
           v == Text!After(u, q)
           a == IF v = <<>> THEN {} ELSE {v}
           b == Text!Before(u, q)
           t == Text!Before(w, p)
           i == {b}
           j == {u}
<1>1. Numbered(d, w) = Fields(d, t, i, a, {}) \/ Numbered(d, w) = Fields(d, t, j, {}, {})
  BY Zenon DEF Numbered
<1>2. i # {} /\ j # {}
  OBVIOUS
<1> HIDE DEF t, i, j, a
<1>3. PICK o : o = {}
  OBVIOUS
<1>4. Fields(d, t, i, a, o) = m \/ Fields(d, t, j, o, o) = m
  BY <1>1, <1>3
<1>5. t = m.text /\ (i = m.id \/ j = m.id) /\ o = m.rejection_id
  BY <1>4, SameFields
<1> QED BY <1>2, <1>3, <1>5 DEF t

\* The text in an option.
LEMMA OptionIs ==
  ASSUME NEW o \in Text!Option
  PROVE  o = {} \/ \E t \in Seq(Chars) : o = {t} /\ Text!Of(o) = t
<1>1. o \subseteq Seq(Chars) /\ \A t, u \in o : t = u
  BY DEF Text!Option, Chars
<1>2. ASSUME o # {} PROVE \E t \in Seq(Chars) : o = {t} /\ Text!Of(o) = t
  <2>1. PICK t \in o : TRUE
    BY <1>2
  <2>2. t \in Seq(Chars) /\ o = {t}
    BY <1>1, <2>1
  <2>3. Text!Of(o) \in o
    BY <2>1 DEF Text!Of
  <2> QED BY <2>2, <2>3
<1> QED BY <1>2

\* A character before a text.
LEMMA PrefixIs ==
  ASSUME NEW c \in Chars, NEW t \in Seq(Chars), NEW w, w = <<c>> \o t
  PROVE  w \in Seq(Chars) /\ w # <<>> /\ Head(w) = c /\ Tail(w) = t
<1>1. <<c>> \in Seq(Chars) /\ Len(<<c>>) = 1 /\ <<c>>[1] = c
  OBVIOUS
<1>2. w \in Seq(Chars) /\ Len(w) = 1 + Len(t)
      /\ \A i \in 1 .. 1 + Len(t) : w[i] = IF i <= 1 THEN <<c>>[i] ELSE t[i - 1]
  <2>1. <<c>> \in Seq(Chars)
    BY <1>1
  <2>2. /\ w \in Seq(Chars) /\ Len(w) = Len(<<c>>) + Len(t)
        /\ \A i \in 1 .. Len(<<c>>) + Len(t) :
             w[i] = IF i <= Len(<<c>>) THEN <<c>>[i] ELSE t[i - Len(<<c>>)]
    BY <2>1, ConcatProperties
  <2> QED BY <1>1, <2>2
<1>3. w # <<>> /\ Len(t) \in Nat
  BY <1>2
<1>4. w[1] = c
  <2>1. 1 \in 1 .. 1 + Len(t)
    BY <1>3
  <2> QED BY <1>1, <1>2, <2>1
<1>5. Tail(w) \in Seq(Chars) /\ Len(Tail(w)) = Len(t) /\ \A i \in 1 .. Len(t) : Tail(w)[i] = w[i + 1]
  <2>1. Tail(w) \in Seq(Chars) /\ Len(Tail(w)) = Len(w) - 1
        /\ \A i \in 1 .. Len(Tail(w)) : Tail(w)[i] = w[i + 1]
    BY <1>2, <1>3, HeadTailProperties
  <2> QED BY <1>2, <1>3, <2>1
<1>6. \A i \in 1 .. Len(t) : w[i + 1] = t[i]
  <2>1. \A i \in 1 .. Len(t) : i + 1 \in 1 .. 1 + Len(t) /\ ~ i + 1 <= 1 /\ i + 1 - 1 = i
    BY <1>3
  <2> QED BY <1>2, <2>1
<1>7. Tail(w) = t
  BY <1>5, <1>6, SeqEqual
<1> QED BY <1>2, <1>3, <1>4, <1>7

\* An id that stands in a response is what it says unless it ends in spaces.
LEMMA PlainIs ==
  ASSUME NEW t \in Seq(Chars)
  PROVE  IsPlain(t) <=> t # <<>> /\ Text!Trimmed(t) = t
BY TrimKeeps DEF IsPlain

\* A response answers something.
LEMMA ResponseIs ==
  ASSUME NEW w, NEW c, Text!IsResponse(w, c)
  PROVE  Head(w) = c /\ Text!Size(Text!Trimmed(Tail(w))) \in 1 .. 5
BY DEF Text!IsResponse

\* Characters of the parser.
LEMMA CharsAre ==
  /\ "ack" \in Chars /\ "rej" \in Chars /\ "{" \in Chars /\ "}" \in Chars
  /\ "ack" # "rej" /\ "{" # Gap /\ "}" # Gap /\ "{" # "}"
  /\ "{" # "ack" /\ "{" # "rej"
BY DEF Chars, Text!Character, Text!Word, Gap

\* A message is read back if there is a content and it reads as the message.
LEMMA ComesBackIf ==
  ASSUME NEW m \in Text!Message, Text!IsAccepted(m)
  PROVE  Text!Parsed(Text!Encoded(m)) = {m} <=>
           /\ Text!Content(m) # <<>>
           /\ Reading(Text!TrimmedBoth(m.destination), Text!Content(m)) = m
BY ParsedIs

\* A rejection.
LEMMA RejectionReads ==
  ASSUME NEW m \in Text!Message, Text!IsAccepted(m), m.rejection_id # {}
  PROVE  Text!Parsed(Text!Encoded(m)) = {m} <=> SpeaksForItself(m)
<1> DEFINE d == Text!TrimmedBoth(m.destination)
           w == Text!Content(m)
<1>1. PICK r \in Seq(Chars) : m.rejection_id = {r} /\ Text!Of(m.rejection_id) = r
  BY FieldsAre, OptionIs
<1>2. m.acknowledgement_id = {} /\ m.text = <<>>
  BY DEF Text!IsAccepted, Text!None
<1>3. w = <<"rej">> \o r
  BY <1>1, Zenon DEF Text!Content, Text!None
<1>4. w \in Seq(Chars) /\ w # <<>> /\ Head(w) = "rej" /\ Tail(w) = r
  <2>1. PICK c \in Chars : c = "rej"
    BY CharsAre
  <2>2. w = <<c>> \o r
    BY <1>3, <2>1
  <2> HIDE DEF w
  <2> QED BY <2>1, <2>2, PrefixIs
<1>5. SpeaksForItself(m) <=> d = m.destination /\ m.id = {} /\ LooksRej(w) /\ IsPlain(r)
  BY <1>1, Zenon DEF SpeaksForItself, LooksRej
<1>6. Text!Parsed(Text!Encoded(m)) = {m} <=> Reading(d, w) = m
  BY <1>4, ComesBackIf
<1> HIDE DEF w, d
<1>7. ~ LooksAck(w)
  BY <1>4, CharsAre, ResponseIs DEF LooksAck
<1>8. CASE LooksRej(w)
  <2>1. Reading(d, w) = m <=> d = m.destination /\ {} = m.id /\ {Text!Trimmed(r)} = {r}
    <3>1. Tail(w) = r
      BY <1>4
    <3>2. Reading(d, w) = m <=>
            /\ d = m.destination /\ <<>> = m.text /\ {} = m.id
            /\ {} = m.acknowledgement_id /\ {Text!Trimmed(Tail(w))} = m.rejection_id
      BY <1>7, <1>8, ReadingIs, ZenonT(60)
    <3>3. <<>> = m.text <=> m.text = <<>>
      OBVIOUS
    <3> QED BY <1>1, <1>2, <3>1, <3>2, <3>3, Zenon
  <2>2. Text!Trimmed(r) = r => r # <<>>
    <3>1. Text!Size(Text!Trimmed(r)) \in 1 .. 5
      BY <1>4, <1>8, ResponseIs DEF LooksRej
    <3>2. r = <<>> => Text!Size(r) = 0
      BY SizeIs
    <3> QED BY <3>1, <3>2
  <2> QED BY <1>5, <1>6, <1>8, <2>1, <2>2, PlainIs
<1>9. CASE ~ LooksRej(w)
  <2>1. Reading(d, w) # m
    <3>1. ~ HasBrace(w) => Reading(d, w) # m
      BY <1>1, <1>7, <1>9, ReadingIs
    <3>2. HasBrace(w) => Reading(d, w) = Numbered(d, w)
      BY <1>7, <1>9, ReadingIs
    <3>3. Numbered(d, w) # m
      BY <1>1, NumberedIs
    <3> QED BY <3>1, <3>2, <3>3
  <2> QED BY <1>5, <1>6, <1>9, <2>1
<1> QED BY <1>8, <1>9

\* An acknowledgement without a number.
LEMMA AckReads ==
  ASSUME NEW m \in Text!Message, Text!IsAccepted(m),
         m.rejection_id = {}, m.acknowledgement_id # {}, m.id = {}
  PROVE  Text!Parsed(Text!Encoded(m)) = {m} <=> SpeaksForItself(m)
<1> DEFINE d == Text!TrimmedBoth(m.destination)
           w == Text!Content(m)
<1>1. PICK r \in Seq(Chars) : m.acknowledgement_id = {r} /\ Text!Of(m.acknowledgement_id) = r
  BY FieldsAre, OptionIs
<1>2. SpeaksForItself(m) <=> d = m.destination /\ m.text = <<>> /\ LooksAck(w) /\ IsPlain(r)
  BY <1>1, Zenon DEF SpeaksForItself, LooksAck
<1>3. Text!Parsed(Text!Encoded(m)) = {m} <=> w # <<>> /\ Reading(d, w) = m
  BY ComesBackIf
<1>4. m.text # <<>> => w = m.text
  BY Zenon DEF Text!Content, Text!None
<1>5. m.text = <<>> => w = <<"ack">> \o r
  BY <1>1, Zenon DEF Text!Content, Text!None
<1> HIDE DEF w, d
<1>6. ASSUME ~ LooksAck(w) \/ m.text # <<>>
      PROVE  ~ LooksRej(w) \/ m.text # <<>> => Reading(d, w) # m
  <2>1. LooksAck(w) => Reading(d, w) # m
    BY <1>6, ReadingIs
  <2>2. ~ LooksAck(w) /\ LooksRej(w) /\ Reading(d, w) = m => m.acknowledgement_id = {}
    BY ReadingIs
  <2>3. ~ LooksAck(w) /\ ~ LooksRej(w) /\ ~ HasBrace(w) /\ Reading(d, w) = m => m.acknowledgement_id = {}
    BY ReadingIs
  <2>4. ~ LooksAck(w) /\ ~ LooksRej(w) /\ HasBrace(w) => Reading(d, w) = Numbered(d, w)
    BY ReadingIs
  <2>5. Numbered(d, w) # m
    BY NumberedIs
  <2> QED BY <2>1, <2>2, <2>3, <2>4, <2>5
<1>7. CASE m.text # <<>>
  BY <1>2, <1>3, <1>6, <1>7
<1>8. CASE m.text = <<>>
  <2>1. w \in Seq(Chars) /\ w # <<>> /\ Head(w) = "ack" /\ Tail(w) = r
    <3>1. PICK c \in Chars : c = "ack"
      BY CharsAre
    <3>2. w = <<c>> \o r
      BY <1>5, <1>8, <3>1
    <3> QED BY <3>1, <3>2, PrefixIs
  <2>2. w # <<>> /\ Tail(w) = r
    BY <2>1
  <2>3. ~ LooksRej(w)
    BY <2>1, CharsAre, ResponseIs DEF LooksRej
  <2>4. CASE LooksAck(w)
    <3>1. Reading(d, w) = m <=>
            /\ d = m.destination /\ <<>> = m.text /\ {} = m.id
            /\ {Text!Trimmed(Tail(w))} = m.acknowledgement_id /\ {} = m.rejection_id
      BY <2>4, ReadingIs, Zenon
    <3>2. <<>> = m.text <=> m.text = <<>>
      OBVIOUS
    <3>3. Reading(d, w) = m <=> d = m.destination /\ {Text!Trimmed(r)} = {r}
      BY <1>1, <1>8, <2>2, <3>1, <3>2, Zenon
    <3>4. Text!Trimmed(r) = r => r # <<>>
      <4>1. Text!Size(Text!Trimmed(Tail(w))) \in 1 .. 5
        BY <2>4, ResponseIs DEF LooksAck
      <4>2. Text!Size(Text!Trimmed(r)) \in 1 .. 5
        BY <2>2, <4>1
      <4>3. r = <<>> => Text!Size(r) = 0
        BY SizeIs
      <4> QED BY <4>2, <4>3
    <3> QED BY <1>2, <1>3, <1>8, <2>2, <2>4, <3>3, <3>4, PlainIs
  <2>5. CASE ~ LooksAck(w)
    BY <1>2, <1>3, <1>6, <2>3, <2>5
  <2> QED BY <2>4, <2>5
<1> QED BY <1>7, <1>8

\* A text alone.
LEMMA TextReads ==
  ASSUME NEW m \in Text!Message, Text!IsAccepted(m),
         m.rejection_id = {}, m.acknowledgement_id = {}, m.id = {}
  PROVE  Text!Parsed(Text!Encoded(m)) = {m} <=> SpeaksForItself(m)
<1> DEFINE d == Text!TrimmedBoth(m.destination)
           w == m.text
<1>1. Text!Content(m) = w
  BY Zenon DEF Text!Content, Text!None
<1>2. SpeaksForItself(m) <=>
        d = m.destination /\ w # <<>> /\ ~ HasBrace(w) /\ ~ LooksAck(w) /\ ~ LooksRej(w)
  BY Zenon DEF SpeaksForItself, LooksAck, LooksRej, HasBrace, Text!Word
<1>3. Text!Parsed(Text!Encoded(m)) = {m} <=> w # <<>> /\ Reading(d, w) = m
  BY <1>1, ComesBackIf
<1> HIDE DEF d
<1>4. LooksAck(w) => Reading(d, w) # m
  BY ReadingIs
<1>5. ~ LooksAck(w) /\ LooksRej(w) => Reading(d, w) # m
  BY ReadingIs
<1>6. ~ LooksAck(w) /\ ~ LooksRej(w) /\ HasBrace(w) => Reading(d, w) # m
  <2>1. ~ LooksAck(w) /\ ~ LooksRej(w) /\ HasBrace(w) => Reading(d, w) = Numbered(d, w)
    BY ReadingIs
  <2>2. Numbered(d, w) # m
    BY NumberedIs
  <2> QED BY <2>1, <2>2
<1>7. ~ LooksAck(w) /\ ~ LooksRej(w) /\ ~ HasBrace(w) => (Reading(d, w) = m <=> d = m.destination)
  BY ReadingIs
<1> QED BY <1>2, <1>3, <1>4, <1>5, <1>6, <1>7

\* The braces.
Open == "{"
Close == "}"

\* They are characters of their own.
LEMMA BracesAre ==
  /\ Open \in Chars /\ Close \in Chars /\ Open # Gap /\ Close # Gap /\ Open # Close
  /\ \A w : HasBrace(w) <=> Text!Holds(w, Open)
BY DEF Open, Close, Chars, Text!Character, Gap, HasBrace

\* What is read of a number, by its parts.
LEMMA NumberedOf ==
  ASSUME NEW d, NEW w, NEW t, t = Text!Before(w, Text!Final(w, Open))
  PROVE  LET u == Text!Trimmed(Text!After(w, Text!Final(w, Open)))
             i == Text!Before(u, Text!First(u, Close))
             a == Text!After(u, Text!First(u, Close))
         IN  Numbered(d, w) =
               IF Text!Holds(u, Close) THEN Fields(d, t, {i}, IF a = <<>> THEN {} ELSE {a}, {})
               ELSE Fields(d, t, {u}, {}, {})
BY Zenon DEF Numbered, Open, Close

\* A number without an acknowledgement.
LEMMA NumberAlone ==
  ASSUME NEW d, NEW t \in Seq(Chars), NEW i \in Seq(Chars), Text!IsAlphanumeric(i), NEW w,
         IsSplit(t, Open, i, w)
  PROVE  Numbered(d, w) = Fields(d, t, {i}, {}, {})
<1>1. ~ Text!Holds(i, Open) /\ ~ Text!Holds(i, Close) /\ Text!Trimmed(i) = i
  BY LettersAre DEF Open, Close
<1>2. Text!Final(w, Open) = Len(t) + 1
  BY <1>1, BracesAre, SplitPlaces
<1>3. Text!Before(w, Len(t) + 1) = t /\ Text!After(w, Len(t) + 1) = i
  BY BracesAre, SplitUndone
<1> DEFINE u == Text!Trimmed(Text!After(w, Text!Final(w, Open)))
           b == Text!Before(u, Text!First(u, Close))
           a == Text!After(u, Text!First(u, Close))
<1>4. u = i
  BY <1>1, <1>2, <1>3
<1>5. t = Text!Before(w, Text!Final(w, Open))
  BY <1>2, <1>3
<1>6. Numbered(d, w) =
           IF Text!Holds(u, Close) THEN Fields(d, t, {b}, IF a = <<>> THEN {} ELSE {a}, {})
           ELSE Fields(d, t, {u}, {}, {})
  BY <1>5, NumberedOf, Zenon
<1> HIDE DEF u, a, b
<1> QED BY <1>1, <1>4, <1>6

\* An acknowledgement behind a number, unless nothing is left of it.
Answered(t) == IF Text!Trimmed(t) = <<>> THEN {} ELSE {Text!Trimmed(t)}

\* A number with one.
LEMMA NumberWithAck ==
  ASSUME NEW d, NEW t \in Seq(Chars), NEW i \in Seq(Chars), Text!IsAlphanumeric(i),
         NEW r \in Seq(Chars), ~ Text!Holds(r, Open),
         NEW v \in Seq(Chars), IsSplit(i, Close, r, v), NEW w, IsSplit(t, Open, v, w)
  PROVE  Numbered(d, w) = Fields(d, t, {i}, Answered(r), {})
<1>1. ~ Text!Holds(i, Open) /\ ~ Text!Holds(i, Close)
  BY LettersAre DEF Open, Close
<1>2. ~ Text!Holds(v, Open)
  <2>1. /\ Len(v) = Len(i) + 1 + Len(r) /\ v[Len(i) + 1] = Close
        /\ \A k \in 1 .. Len(i) : v[k] = i[k]
        /\ \A k \in 1 .. Len(r) : v[Len(i) + 1 + k] = r[k]
        /\ \A k \in 1 .. Len(v) : k \in 1 .. Len(i) \/ k = Len(i) + 1 \/ \E j \in 1 .. Len(r) : k = Len(i) + 1 + j
    BY DEF IsSplit
  <2>2. /\ \A k \in 1 .. Len(i) : i[k] # Open
        /\ \A k \in 1 .. Len(r) : r[k] # Open
    BY <1>1 DEF Text!Holds
  <2>3. ASSUME NEW k \in 1 .. Len(v) PROVE v[k] # Open
    <3>1. CASE k \in 1 .. Len(i)
      <4>1. v[k] = i[k]
        BY <2>1, <3>1
      <4>2. i[k] # Open
        BY <2>2, <3>1
      <4> QED BY <4>1, <4>2
    <3>2. CASE k = Len(i) + 1
      <4>1. v[k] = Close
        BY <2>1, <3>2
      <4> QED BY <4>1, BracesAre
    <3>3. CASE \E j \in 1 .. Len(r) : k = Len(i) + 1 + j
      <4>1. PICK j \in 1 .. Len(r) : k = Len(i) + 1 + j
        BY <3>3
      <4>2. v[k] = r[j]
        BY <2>1, <4>1
      <4>3. r[j] # Open
        BY <2>2
      <4> QED BY <4>2, <4>3
    <3>4. k \in 1 .. Len(i) \/ k = Len(i) + 1 \/ \E j \in 1 .. Len(r) : k = Len(i) + 1 + j
      BY <2>1
    <3> QED BY <3>1, <3>2, <3>3, <3>4
  <2> QED BY <2>3 DEF Text!Holds
<1>3. Text!Final(w, Open) = Len(t) + 1
  BY <1>2, BracesAre, SplitPlaces
<1>4. Text!Before(w, Len(t) + 1) = t /\ Text!After(w, Len(t) + 1) = v
  BY BracesAre, SplitUndone
<1> DEFINE e == Text!Trimmed(r)
           u == Text!Trimmed(Text!After(w, Text!Final(w, Open)))
           b == Text!Before(u, Text!First(u, Close))
           a == Text!After(u, Text!First(u, Close))
<1>5. e \in Seq(Chars)
  BY TrimKeeps
<1>6. u = Text!Trimmed(v)
  BY <1>3, <1>4
<1>7. t = Text!Before(w, Text!Final(w, Open))
  BY <1>3, <1>4
<1>8. Numbered(d, w) =
           IF Text!Holds(u, Close) THEN Fields(d, t, {b}, IF a = <<>> THEN {} ELSE {a}, {})
           ELSE Fields(d, t, {u}, {}, {})
  BY <1>7, NumberedOf, Zenon
<1>9. IsSplit(i, Close, e, u)
  BY <1>6, BracesAre, SplitTrims
<1> HIDE DEF u, e
<1>10. Text!Holds(u, Close) /\ Text!First(u, Close) = Len(i) + 1
  BY <1>1, <1>5, <1>9, BracesAre, SplitPlaces
<1>11. Text!Before(u, Len(i) + 1) = i /\ Text!After(u, Len(i) + 1) = e
  BY <1>5, <1>9, BracesAre, SplitUndone
<1>12. b = i /\ a = e
  BY <1>10, <1>11
<1> HIDE DEF a, b
<1>13. Numbered(d, w) = Fields(d, t, {i}, IF e = <<>> THEN {} ELSE {e}, {})
  BY <1>8, <1>10, <1>12, Zenon
<1> QED BY <1>13 DEF e, Answered

\* When a message with a number is what is read.
LEMMA NumberedMessage ==
  ASSUME NEW m \in Text!Message
  PROVE  \A d, i, a : m.rejection_id = {} /\ m.id = {i} =>
           (Fields(d, m.text, {i}, a, {}) = m <=> d = m.destination /\ a = m.acknowledgement_id)
<1> TAKE d, i, a
<1>1. PICK t : t = m.text
  OBVIOUS
<1>2. PICK s : s = {i}
  OBVIOUS
<1>3. PICK o : o = {}
  OBVIOUS
<1>4. Fields(d, t, s, a, o) = m <=>
        /\ d = m.destination /\ t = m.text /\ s = m.id
        /\ a = m.acknowledgement_id /\ o = m.rejection_id
  BY SameFields
<1> QED BY <1>1, <1>2, <1>3, <1>4, Zenon

\* A message with a number.
LEMMA NumberReads ==
  ASSUME NEW m \in Text!Message, Text!IsAccepted(m), m.rejection_id = {}, m.id # {}
  PROVE  Text!Parsed(Text!Encoded(m)) = {m} <=> SpeaksForItself(m)
<1> DEFINE d == Text!TrimmedBoth(m.destination)
           w == Text!Content(m)
           t == m.text
<1>1. PICK i \in Seq(Chars) : m.id = {i} /\ Text!Of(m.id) = i
  BY FieldsAre, OptionIs
<1>2. Text!IsAlphanumeric(i)
  BY <1>1, Zenon DEF Text!IsAccepted
<1>3. t \in Seq(Chars)
  BY FieldsAre
<1>4. Text!Parsed(Text!Encoded(m)) = {m} <=> w # <<>> /\ Reading(d, w) = m
  BY ComesBackIf
<1>5. ASSUME NEW u \in Seq(Chars), w = t \o <<Open>> \o u
      PROVE  IsSplit(t, Open, u, w) /\ w # <<>> /\ Reading(d, w) = Numbered(d, w)
  <2>1. IsSplit(t, Open, u, w)
    BY <1>3, <1>5, BracesAre, SplitIs
  <2> HIDE DEF w, d, t
  <2>2. HasBrace(w)
    BY <1>3, <2>1, BracesAre, SplitPlaces
  <2>3. w \in Seq(Chars) /\ Len(w) = Len(t) + 1 + Len(u)
    BY <2>1 DEF IsSplit
  <2>4. ~ LooksAck(w) /\ ~ LooksRej(w)
    BY <2>2, <2>3, BraceIsNoResponse, Zenon DEF LooksAck, LooksRej, HasBrace
  <2> QED BY <1>3, <2>1, <2>2, <2>3, <2>4, ReadingIs
<1>6. CASE m.acknowledgement_id = {}
  <2>1. w = t \o <<"{">> \o i \o <<>>
    BY <1>1, <1>6, Zenon DEF Text!Content, Text!None
  <2>2. w = t \o <<Open>> \o i
    <3>1. t \o <<Open>> \o i \in Seq(Chars)
      BY <1>3, BracesAre
    <3> DEFINE v == t \o <<Open>> \o i
    <3>2. w = v \o <<>>
      BY <2>1 DEF Open
    <3> HIDE DEF v, w
    <3> QED BY <3>1, <3>2, ConcatEmptySeq DEF v
  <2>3. SpeaksForItself(m) <=> d = m.destination
    BY <1>1, <1>6, Zenon DEF SpeaksForItself
  <2> HIDE DEF w, d
  <2>4. IsSplit(t, Open, i, w) /\ w # <<>> /\ Reading(d, w) = Numbered(d, w)
    BY <1>5, <2>2
  <2>5. Numbered(d, w) = Fields(d, t, {i}, {}, {})
    BY <1>2, <1>3, <2>4, NumberAlone
  <2>6. Fields(d, t, {i}, {}, {}) = m <=> d = m.destination
    <3>1. PICK o : o = {}
      OBVIOUS
    <3>2. Fields(d, m.text, {i}, o, {}) = m <=> d = m.destination /\ o = m.acknowledgement_id
      <4>1. \A x, y, z : m.rejection_id = {} /\ m.id = {y} =>
              (Fields(x, m.text, {y}, z, {}) = m <=> x = m.destination /\ z = m.acknowledgement_id)
        BY NumberedMessage, Zenon
      <4>2. m.rejection_id = {} /\ m.id = {i} =>
              (Fields(d, m.text, {i}, o, {}) = m <=>
                 d = m.destination /\ o = m.acknowledgement_id)
        BY <4>1, ZenonT(60)
      <4> QED BY <1>1, <4>2, Zenon
    <3> QED BY <1>6, <3>1, <3>2
  <2> QED BY <1>4, <2>3, <2>4, <2>5, <2>6
<1>7. CASE m.acknowledgement_id # {}
  <2>1. PICK r \in Seq(Chars) : m.acknowledgement_id = {r} /\ Text!Of(m.acknowledgement_id) = r
    BY <1>7, FieldsAre, OptionIs
  <2> DEFINE u == i \o <<Close>> \o r
  <2>2. w = t \o <<"{">> \o i \o (<<"}">> \o r)
    BY <1>1, <1>7, <2>1, Zenon DEF Text!Content, Text!None
  <2>3. w = t \o <<Open>> \o u
    <3> DEFINE v == t \o <<Open>>
               x == <<Close>> \o r
    <3>1. v \in Seq(Chars) /\ x \in Seq(Chars) /\ <<Close>> \in Seq(Chars)
      BY <1>3, BracesAre
    <3>2. w = v \o i \o x
      BY <2>2 DEF Open, Close
    <3>3. v \o i \o x = v \o (i \o x)
      <4> HIDE DEF v, x
      <4> QED BY <3>1, ConcatAssociative
    <3>4. i \o x = u
      <4> DEFINE c == <<Close>>
      <4>1. c \in Seq(Chars)
        BY <3>1
      <4> HIDE DEF c
      <4>2. (i \o c) \o r = i \o (c \o r)
        BY <4>1, ConcatAssociative, SMT
      <4> QED BY <4>2 DEF c
    <3> QED BY <3>2, <3>3, <3>4
  <2>4. u \in Seq(Chars) /\ IsSplit(i, Close, r, u)
    BY BracesAre, SplitIs
  <2>5. SpeaksForItself(m) <=> d = m.destination /\ IsPlain(r) /\ ~ HasBrace(r)
    BY <1>1, <1>7, <2>1, Zenon DEF SpeaksForItself, HasBrace
  <2> HIDE DEF w, d, u
  <2>6. IsSplit(t, Open, u, w) /\ w # <<>> /\ Reading(d, w) = Numbered(d, w)
    BY <1>5, <2>3, <2>4
  <2>7. CASE HasBrace(r)
    <3>1. Text!Holds(u, Open)
      <4>1. PICK j \in 1 .. Len(r) : r[j] = Open
        BY <2>7, BracesAre DEF Text!Holds
      <4>2. Len(u) = Len(i) + 1 + Len(r) /\ \A k \in 1 .. Len(r) : u[Len(i) + 1 + k] = r[k]
        BY <2>4 DEF IsSplit
      <4>3. Len(i) + 1 + j \in 1 .. Len(u) /\ u[Len(i) + 1 + j] = Open
        BY <4>1, <4>2
      <4> QED BY <4>3 DEF Text!Holds
    <3>2. Text!Before(w, Text!Final(w, Open)) # t
      BY <1>3, <2>4, <2>6, <3>1, BracesAre, SplitAgain
    <3>3. Numbered(d, w) # m
      BY <3>2, NumberedIs DEF Open
    <3> QED BY <1>4, <2>5, <2>6, <2>7, <3>3
  <2>8. CASE ~ HasBrace(r)
    <3>1. ~ Text!Holds(r, Open)
      BY <2>8, BracesAre
    <3>2. Numbered(d, w) = Fields(d, t, {i}, Answered(r), {})
      BY <1>2, <1>3, <2>4, <2>6, <3>1, NumberWithAck
    <3>3. Answered(r) = {r} <=> IsPlain(r)
      BY TrimKeeps, PlainIs DEF Answered
    <3>4. Fields(d, t, {i}, Answered(r), {}) = m <=> d = m.destination /\ Answered(r) = {r}
      <4>1. \A x, y, z : m.rejection_id = {} /\ m.id = {y} =>
              (Fields(x, m.text, {y}, z, {}) = m <=> x = m.destination /\ z = m.acknowledgement_id)
        BY NumberedMessage, Zenon
      <4>2. m.rejection_id = {} /\ m.id = {i} =>
              (Fields(d, m.text, {i}, Answered(r), {}) = m <=>
                 d = m.destination /\ Answered(r) = m.acknowledgement_id)
        BY <4>1, ZenonT(60)
      <4> QED BY <1>1, <4>2, <2>1, Zenon
    <3> QED BY <1>4, <2>5, <2>6, <2>8, <3>2, <3>3, <3>4
  <2> QED BY <2>7, <2>8
<1> QED BY <1>6, <1>7

\* Any message.
LEMMA MessageReads ==
  ASSUME NEW m \in Text!Message, Text!IsAccepted(m)
  PROVE  Text!Parsed(Text!Encoded(m)) = {m} <=> SpeaksForItself(m)
BY RejectionReads, AckReads, TextReads, NumberReads

\* The message in a packet is accepted, and was sent as its body (encode.rs:198-226).
Posted ==
  \A m \in message :
    /\ m \in Text!Message /\ Text!IsAccepted(m)
    /\ \E first \in origin : first.body = <<Text!Encoded(m)>>

\* Only composing changes what is posted.
LEMMA PostedStep ==
  ASSUME Posted, [JNext]_journeyVars
  PROVE  Posted'
<1>1. CASE UNCHANGED <<message, origin>>
  BY <1>1 DEF Posted
<1>2. CASE Compose
  <2>1. PICK m \in Messages :
          IF Text!IsAccepted(m)
          THEN /\ packet' = [Envelope EXCEPT !.body = <<Text!Encoded(m)>>]
               /\ message' = {m} /\ origin' = {packet'}
          ELSE UNCHANGED <<message, origin>>
    BY <1>2, Zenon DEF Compose, journey
  <2>2. CASE ~ Text!IsAccepted(m)
    BY <1>1, <2>1, <2>2
  <2>3. CASE Text!IsAccepted(m)
    <3>1. m \in Text!Message
      BY JourneyAssumption
    <3>2. packet'.body = <<Text!Encoded(m)>>
      <4>1. PICK b : b = <<Text!Encoded(m)>>
        OBVIOUS
      <4>2. packet' = [Envelope EXCEPT !.body = b]
        BY <2>1, <2>3, <4>1
      <4>3. Envelope \in PacketOver(Cell)
        BY SentIsPacket, JourneyAssumption
      <4>4. packet' = [source |-> Envelope.source, destination |-> Envelope.destination,
                       path |-> Envelope.path, body |-> b]
        BY <4>2, <4>3, ChangedPacket
      <4> QED BY <4>1, <4>4
    <3> QED BY <2>1, <2>3, <3>1, <3>2, Zenon DEF Posted
  <2> QED BY <2>2, <2>3
<1>3. CASE Link
  BY <1>1, <1>3, Zenon DEF Link, journey
<1>4. CASE Digipeat \/ Gate
  BY <1>1, <1>4 DEF Digipeat, Gate, SendOn
<1>5. CASE Arrived \/ UNCHANGED journeyVars
  BY <1>1, <1>5 DEF Arrived, journeyVars, journey
<1> QED BY <1>2, <1>3, <1>4, <1>5 DEF JNext

\* However a message has travelled, what is parsed on arrival is the message that was
\* composed exactly if its text speaks for itself (encode.rs:198-226, parser.rs:1053-1111).
THEOREM JourneyMessageComesBack == JSpec => []MessageComesBack
<1>1. JInit => Copied /\ Posted
  BY SentIsPacket, SelfIsCopy, PacketFields DEF JInit, KInit, Copied, Posted
<1>2. OnTheWay /\ OnTheWay' /\ Copied /\ Posted /\ [JNext]_journeyVars => (Copied /\ Posted)'
  BY CopyStep, PostedStep
<1>3. OnTheWay /\ Copied /\ Posted => MessageComesBack
  <2> SUFFICES ASSUME OnTheWay, Copied, Posted, NEW p \in result, NEW m \in message, Depth(p) = 0
               PROVE  Text!Parsed(p.body[1]) = {m} <=> SpeaksForItself(m)
    BY DEF MessageComesBack
  <2>1. packet \in PacketOver(Cell) /\ p = Returned /\ p \in PacketOver(Cell)
    BY ResultIsReturned DEF OnTheWay
  <2>2. PICK first \in origin : first.body = <<Text!Encoded(m)>>
    BY DEF Posted
  <2>3. first.body \in Seq(Cell) /\ first.source \in Call /\ first.destination \in Call
        /\ IsCopy(packet, first)
    BY DEF Copied
  <2>4. IsCopy(p, first)
    BY <2>1, <2>3, ReturnedIsCopy
  <2>5. p.body \in Seq(Cell)
    BY <2>1, PacketFields
  <2>6. Len(p.body) - Len(first.body) = 0
    <3>1. Depth(p) = (Len(p.body) - Len(first.body)) + Depth(first)
      BY <2>3, <2>4, <2>5, DepthOfCopy
    <3>2. Depth(first) \in 0 .. Len(first.body)
      BY <2>3, DepthCounts
    <3>3. Len(p.body) - Len(first.body) >= 0
      BY <2>4 DEF IsCopy
    <3>4. Len(p.body) \in Nat /\ Len(first.body) \in Nat
      BY <2>3, <2>5
    <3> DEFINE l == Len(p.body)
               n == Len(first.body)
               k == Depth(first)
    <3>5. l \in Nat /\ n \in Nat /\ k \in 0 .. n /\ l - n >= 0 /\ (l - n) + k = 0
      BY <3>1, <3>2, <3>3, <3>4
    <3> HIDE DEF l, n, k
    <3>6. l - n = 0
      BY <3>5
    <3> QED BY <3>6 DEF l, n
  <2>7. p.body[1] = first.body[1]
    <3> DEFINE k == Len(p.body) - Len(first.body)
    <3>1. \A i \in 1 .. Len(first.body) : p.body[k + i] = first.body[i]
      BY <2>4, Zenon DEF IsCopy
    <3>2. Len(first.body) = 1 /\ 0 + 1 = 1
      BY <2>2
    <3>3. k = 0
      BY <2>6
    <3> HIDE DEF k
    <3> QED BY <3>1, <3>2, <3>3
  <2>8. p.body[1] = Text!Encoded(m)
    BY <2>2, <2>7
  <2>9. Text!Parsed(Text!Encoded(m)) = {m} <=> SpeaksForItself(m)
    BY MessageReads DEF Posted
  <2> QED BY <2>8, <2>9
<1> QED BY <1>1, <1>2, <1>3, JourneyInvariance, PTL DEF JSpec
=============================================================================
