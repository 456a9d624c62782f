------------------------ MODULE KissStuffing_proofs ------------------------
(***************************************************************************)
(* Proofs about KissStuffing, for frames of any length and any bytes: what *)
(* the reading loop returns is what the writing loop was given.            *)
(***************************************************************************)
EXTENDS KissStuffing, SequenceTheorems, TLAPS

\* A byte is stuffed into one byte, or into an escape of two, and never into FEND.
LEMMA StuffedShape ==
  ASSUME NEW b \in Byte
  PROVE  /\ Stuffed(b) \in Seq(Byte) /\ Len(Stuffed(b)) \in {1, 2}
         /\ b \in {FEND, FESC} => Len(Stuffed(b)) = 2 /\ Stuffed(b)[1] = FESC
         /\ b = FEND => Stuffed(b)[2] = TFEND
         /\ b = FESC => Stuffed(b)[2] = TFESC
         /\ b \notin {FEND, FESC} => Len(Stuffed(b)) = 1 /\ Stuffed(b)[1] = b
         /\ \A j \in 1 .. Len(Stuffed(b)) : Stuffed(b)[j] # FEND
<1>1. CASE b = FEND
  <2>1. Stuffed(b) = <<FESC, TFEND>>
    BY <1>1 DEF Stuffed
  <2> QED BY <1>1, <2>1, KissAssumption
<1>2. CASE b = FESC
  <2>1. Stuffed(b) = <<FESC, TFESC>>
    BY <1>2, KissAssumption DEF Stuffed
  <2> QED BY <1>2, <2>1, KissAssumption
<1>3. CASE b \notin {FEND, FESC}
  <2>1. Stuffed(b) = <<b>>
    BY <1>3 DEF Stuffed
  <2> QED BY <1>3, <2>1
<1> QED BY <1>1, <1>2, <1>3

\* The state before a frame is loaded satisfies every invariant.
LEMMA InitInv ==
  Init => TypeOK /\ WireIsStuffed /\ ReaderAtMark /\ ReadsWhatWasSent /\ OneFrameOnTheWire
BY DEF Init, TypeOK, WireIsStuffed, ReaderAtMark, ReadsWhatWasSent, OneFrameOnTheWire

\* Every step keeps the types.
LEMMA NextType == TypeOK /\ [Next]_vars => TypeOK'
<1> SUFFICES ASSUME TypeOK, [Next]_vars PROVE TypeOK'
  OBVIOUS
<1> USE DEF TypeOK
<1>1. CASE \E frame \in Seq(Byte) : Load(frame)
  BY <1>1 DEF Load
<1>2. CASE StuffByte
  <2>1. ax25[sent + 1] \in Byte
    BY <1>2 DEF StuffByte
  <2>2. wire' \in Seq(Byte) /\ Len(wire') >= Len(wire)
    BY <1>2, <2>1, StuffedShape, ConcatProperties DEF StuffByte
  <2>3. Len(wire') \in Nat
    BY <2>2
  <2> QED BY <1>2, <2>2, <2>3 DEF StuffByte
<1>3. CASE StuffEnd \/ UnstuffEnd
  BY <1>3 DEF StuffEnd, UnstuffEnd
<1>4. CASE UnstuffEscape
  BY <1>4, KissAssumption DEF UnstuffEscape, Escaped
<1>5. CASE UnstuffByte
  BY <1>5 DEF UnstuffByte
<1>6. CASE UNCHANGED vars
  BY <1>6 DEF vars
<1> QED BY <1>1, <1>2, <1>3, <1>4, <1>5, <1>6 DEF Next, Carry

\* The inductive invariant: the marks say where each byte of the frame stands on
\* the wire, and the reader stands at the mark of what it has read.
IInv == TypeOK /\ WireIsStuffed /\ ReaderAtMark /\ ReadsWhatWasSent /\ OneFrameOnTheWire

\* The writing loop appends the stuffed byte and marks its end (frame.rs:146-152).
LEMMA StuffByteStep == IInv /\ StuffByte => IInv'
<1> SUFFICES ASSUME IInv, StuffByte PROVE IInv'
  OBVIOUS
<1> DEFINE b == ax25[sent + 1]
           code == Stuffed(b)
<1>0. TypeOK /\ TypeOK' /\ WireIsStuffed /\ ReaderAtMark /\ ReadsWhatWasSent
        /\ OneFrameOnTheWire
  BY NextType DEF IInv, Next, Carry
<1>1. /\ wire' = wire \o code /\ sent' = sent + 1 /\ sent < Len(ax25)
      /\ marks' = Append(marks, Len(wire'))
      /\ UNCHANGED <<phase, ax25, index, unstuffed>> /\ phase = "stuffing"
  BY DEF StuffByte
<1>2. b \in Byte /\ sent \in Nat /\ Len(wire) \in Nat
  BY <1>0, <1>1 DEF TypeOK
<1>3. /\ code \in Seq(Byte) /\ Len(code) \in {1, 2}
      /\ \A j \in 1 .. Len(code) : code[j] # FEND
  BY <1>2, StuffedShape
<1> HIDE DEF b, code
<1>4. /\ Len(wire') = Len(wire) + Len(code)
      /\ \A i \in 1 .. Len(wire) : wire'[i] = wire[i]
      /\ \A j \in 1 .. Len(code) : wire'[Len(wire) + j] = code[j]
  BY <1>0, <1>1, <1>3, ConcatProperties DEF TypeOK
<1>5. /\ marks \in Seq(Nat) /\ Len(marks) = sent + 1 /\ marks[1] = 0
      /\ marks[sent + 1] = Len(wire)
  BY <1>0 DEF WireIsStuffed, TypeOK
<1>6. /\ Len(marks') = sent + 2 /\ marks'[sent + 2] = Len(wire')
      /\ \A k \in 1 .. sent + 1 : marks'[k] = marks[k]
  <2>1. Len(wire') \in Nat
    BY <1>2, <1>3, <1>4
  <2> QED BY <1>1, <1>2, <1>5, <2>1, AppendProperties
<1>7. WireIsStuffed'
  <2>1. ASSUME NEW k \in 1 .. sent'
        PROVE  /\ marks'[k + 1] = marks'[k] + Len(Stuffed(ax25[k]))
               /\ marks'[k + 1] <= Len(wire')
               /\ \A j \in 1 .. Len(Stuffed(ax25[k])) :
                    wire'[marks'[k] + j] = Stuffed(ax25[k])[j]
    <3>1. CASE k = sent + 1
      <4>1. Stuffed(ax25[k]) = code
        BY <3>1 DEF b, code
      <4>2. marks'[k + 1] = Len(wire') /\ marks'[k] = Len(wire)
        BY <1>2, <1>5, <1>6, <3>1
      <4> QED BY <1>2, <1>3, <1>4, <4>1, <4>2
    <3>2. CASE k \in 1 .. sent
      <4>1. /\ marks[k + 1] = marks[k] + Len(Stuffed(ax25[k])) /\ marks[k + 1] <= Len(wire)
            /\ \A j \in 1 .. Len(Stuffed(ax25[k])) :
                 wire[marks[k] + j] = Stuffed(ax25[k])[j]
        BY <1>0, <3>2 DEF WireIsStuffed
      <4>2. marks'[k + 1] = marks[k + 1] /\ marks'[k] = marks[k]
        BY <1>2, <1>6, <3>2
      <4>3. ax25[k] \in Byte /\ marks[k] \in Nat
        BY <1>0, <1>1, <1>2, <1>5, <3>2 DEF TypeOK
      <4>4. Len(Stuffed(ax25[k])) \in Nat
        BY <4>3, StuffedShape
      <4> HIDE DEF code
      <4>5. \A j \in 1 .. Len(Stuffed(ax25[k])) : marks[k] + j \in 1 .. Len(wire)
        BY <1>2, <4>1, <4>3, <4>4
      <4>6. Len(wire) <= Len(wire')
        BY <1>2, <1>3, <1>4
      <4>7. \A j \in 1 .. Len(Stuffed(ax25[k])) :
              wire'[marks'[k] + j] = Stuffed(ax25[k])[j]
        BY <1>4, <4>1, <4>2, <4>5
      <4>8. marks[k + 1] \in Nat
        BY <4>1, <4>3, <4>4
      <4>9. marks'[k + 1] <= Len(wire')
        BY <1>2, <1>3, <1>4, <4>1, <4>2, <4>8
      <4> QED BY <4>1, <4>2, <4>7, <4>9
    <3>3. k = sent + 1 \/ k \in 1 .. sent
      BY <1>1, <1>2
    <3> QED BY <3>1, <3>2, <3>3
  <2>2. marks'[1] = 0
    BY <1>2, <1>5, <1>6
  <2>3. sent' <= Len(ax25') /\ Len(marks') = sent' + 1 /\ marks'[sent' + 1] = Len(wire')
    BY <1>0, <1>1, <1>2, <1>6 DEF TypeOK
  <2> QED BY <1>1, <2>1, <2>2, <2>3 DEF WireIsStuffed
<1>8. ReaderAtMark'
  <2>1. index = 0 /\ unstuffed = <<>>
    BY <1>0, <1>1 DEF ReaderAtMark
  <2>2. marks'[1] = 0
    BY <1>2, <1>5, <1>6
  <2> QED BY <1>1, <1>2, <2>1, <2>2 DEF ReaderAtMark
<1>9. ReadsWhatWasSent'
  BY <1>0, <1>1 DEF ReadsWhatWasSent
<1>10. OneFrameOnTheWire'
  <2> SUFFICES ASSUME NEW i \in 1 .. Len(wire') PROVE wire'[i] # FEND
    BY DEF OneFrameOnTheWire
  <2>1. CASE i \in 1 .. Len(wire)
    BY <1>0, <1>4, <2>1 DEF OneFrameOnTheWire
  <2>2. CASE i \notin 1 .. Len(wire)
    <3>1. i - Len(wire) \in 1 .. Len(code) /\ i = Len(wire) + (i - Len(wire))
      BY <1>2, <1>3, <1>4, <2>2
    <3> QED BY <1>3, <1>4, <3>1
  <2> QED BY <2>1, <2>2
<1> QED BY <1>0, <1>7, <1>8, <1>9, <1>10 DEF IInv

\* What the reader finds at a mark: the code of the next byte of the frame.
LEMMA AtMark ==
  ASSUME IInv, phase = "unstuffing", index < Len(wire)
  PROVE  LET k == Len(unstuffed) + 1 IN
           /\ k \in 1 .. sent /\ sent = Len(ax25) /\ ax25[k] \in Byte
           /\ marks[k + 1] = index + Len(Stuffed(ax25[k])) /\ marks[k + 1] <= Len(wire)
           /\ \A j \in 1 .. Len(Stuffed(ax25[k])) :
                wire[index + j] = Stuffed(ax25[k])[j]
<1> DEFINE k == Len(unstuffed) + 1
<1>0. TypeOK /\ WireIsStuffed /\ ReaderAtMark
  BY DEF IInv
<1>1. /\ Len(unstuffed) \in Nat /\ Len(unstuffed) <= sent /\ sent \in Nat
      /\ index = marks[Len(unstuffed) + 1] /\ Len(wire) = marks[sent + 1] /\ sent = Len(ax25)
      /\ index \in Nat /\ Len(wire) \in Nat
  BY <1>0 DEF TypeOK, WireIsStuffed, ReaderAtMark
<1>2. Len(unstuffed) # sent
  BY <1>1
<1>3. k \in 1 .. sent /\ k = Len(unstuffed) + 1
  BY <1>1, <1>2
<1>4. ax25[k] \in Byte
  BY <1>0, <1>1, <1>3 DEF TypeOK
<1> HIDE DEF k
<1>5. /\ marks[k + 1] = marks[k] + Len(Stuffed(ax25[k])) /\ marks[k + 1] <= Len(wire)
      /\ \A j \in 1 .. Len(Stuffed(ax25[k])) :
           wire[marks[k] + j] = Stuffed(ax25[k])[j]
  BY <1>0, <1>3 DEF WireIsStuffed
<1>6. marks[k] = index
  BY <1>1, <1>3
<1>7. /\ k \in 1 .. sent /\ sent = Len(ax25) /\ ax25[k] \in Byte
      /\ marks[k + 1] = index + Len(Stuffed(ax25[k])) /\ marks[k + 1] <= Len(wire)
      /\ \A j \in 1 .. Len(Stuffed(ax25[k])) : wire[index + j] = Stuffed(ax25[k])[j]
  BY <1>1, <1>3, <1>4, <1>5, <1>6
<1> QED BY <1>7 DEF k

\* One turn of the reading loop takes the code of one byte off the wire and keeps
\* that byte (frame.rs:16-34).
LEMMA UnstuffStep == IInv /\ (UnstuffEscape \/ UnstuffByte) => IInv'
<1> SUFFICES ASSUME IInv, UnstuffEscape \/ UnstuffByte PROVE IInv'
  OBVIOUS
<1> DEFINE k == Len(unstuffed) + 1
           b == ax25[k]
<1>0. TypeOK /\ TypeOK' /\ WireIsStuffed /\ ReaderAtMark /\ ReadsWhatWasSent
        /\ OneFrameOnTheWire
  BY NextType DEF IInv, Next, Carry
<1>1. phase = "unstuffing" /\ index \in Nat /\ Len(wire) \in Nat /\ index < Len(wire)
  BY <1>0 DEF UnstuffEscape, UnstuffByte, Escaped, TypeOK
<1>2. /\ k \in 1 .. sent /\ sent = Len(ax25) /\ b \in Byte
      /\ marks[k + 1] = index + Len(Stuffed(b)) /\ marks[k + 1] <= Len(wire)
      /\ \A j \in 1 .. Len(Stuffed(b)) : wire[index + j] = Stuffed(b)[j]
  BY <1>1, AtMark
<1>3. /\ unstuffed \in Seq(Byte) /\ sent \in Nat
      /\ UNCHANGED <<phase, ax25, sent, wire, marks>>
  BY <1>0 DEF UnstuffEscape, UnstuffByte, TypeOK
<1> HIDE DEF b
<1>4. unstuffed' = Append(unstuffed, b) /\ index' = marks[k + 1]
  <2>1. CASE b \in {FEND, FESC}
    <3>1. /\ Len(Stuffed(b)) = 2 /\ Stuffed(b)[1] = FESC
          /\ b = FEND => Stuffed(b)[2] = TFEND
          /\ b = FESC => Stuffed(b)[2] = TFESC
      BY <1>2, <2>1, StuffedShape
    <3>2. wire[index + 1] = FESC /\ wire[index + 2] = Stuffed(b)[2] /\ index + 2 <= Len(wire)
      BY <1>1, <1>2, <3>1
    <3>3. Escaped
      BY <1>1, <2>1, <3>1, <3>2 DEF Escaped
    <3>4. b = IF wire[index + 2] = TFEND THEN FEND ELSE FESC
      BY <2>1, <3>1, <3>2, KissAssumption
    <3> QED BY <1>2, <3>1, <3>3, <3>4 DEF UnstuffEscape, UnstuffByte
  <2>2. CASE b \notin {FEND, FESC}
    <3>1. Len(Stuffed(b)) = 1 /\ Stuffed(b)[1] = b
      BY <1>2, <2>2, StuffedShape
    <3>2. wire[index + 1] = b
      BY <1>1, <1>2, <3>1
    <3>3. ~ Escaped
      BY <2>2, <3>2 DEF Escaped
    <3> QED BY <1>2, <3>1, <3>2, <3>3 DEF UnstuffEscape, UnstuffByte
  <2> QED BY <2>1, <2>2
<1>5. /\ Len(unstuffed') = k /\ unstuffed'[k] = b
      /\ \A i \in 1 .. Len(unstuffed) : unstuffed'[i] = unstuffed[i]
  BY <1>3, <1>4, AppendProperties
<1>7. WireIsStuffed'
  BY <1>0, <1>3 DEF WireIsStuffed
<1>8. ReaderAtMark'
  <2>1. index' = marks'[Len(unstuffed') + 1]
    BY <1>2, <1>3, <1>4, <1>5
  <2> QED BY <1>0, <1>1, <1>2, <1>3, <1>5, <2>1 DEF ReaderAtMark
<1>9. ReadsWhatWasSent'
  <2>1. \A i \in 1 .. Len(unstuffed') : unstuffed'[i] = ax25'[i]
    <3> SUFFICES ASSUME NEW i \in 1 .. Len(unstuffed') PROVE unstuffed'[i] = ax25[i]
      BY <1>3
    <3>1. CASE i = k
      BY <1>5, <3>1 DEF b
    <3>2. CASE i # k
      <4>1. i \in 1 .. Len(unstuffed)
        BY <1>3, <1>5, <3>2
      <4> QED BY <1>0, <1>5, <4>1 DEF ReadsWhatWasSent
    <3> QED BY <3>1, <3>2
  <2> QED BY <1>1, <1>2, <1>3, <1>5, <2>1 DEF ReadsWhatWasSent
<1>10. OneFrameOnTheWire'
  BY <1>0, <1>3 DEF OneFrameOnTheWire
<1> QED BY <1>0, <1>7, <1>8, <1>9, <1>10 DEF IInv

\* When the wire is read to its end the whole frame has been read.
LEMMA UnstuffEndStep == IInv /\ UnstuffEnd => IInv'
<1> SUFFICES ASSUME IInv, UnstuffEnd PROVE IInv'
  OBVIOUS
<1>0. TypeOK /\ TypeOK' /\ WireIsStuffed /\ ReaderAtMark /\ ReadsWhatWasSent
        /\ OneFrameOnTheWire
  BY NextType DEF IInv, Next, Carry
<1>1. /\ phase = "unstuffing" /\ phase' = "done" /\ index = Len(wire)
      /\ UNCHANGED <<ax25, sent, wire, marks, index, unstuffed>>
  BY DEF UnstuffEnd
<1>2. /\ Len(unstuffed) \in Nat /\ sent \in Nat /\ sent = Len(ax25)
      /\ Len(unstuffed) <= sent /\ index = marks[Len(unstuffed) + 1] /\ index \in Nat
  BY <1>0, <1>1 DEF TypeOK, ReaderAtMark
<1>3. Len(unstuffed) = sent
  <2> SUFFICES ASSUME Len(unstuffed) < sent PROVE FALSE
    BY <1>2
  <2> DEFINE k == Len(unstuffed) + 1
  <2>1. k \in 1 .. sent /\ k = Len(unstuffed) + 1
    BY <1>2
  <2>2. ax25[k] \in Byte
    BY <1>0, <1>2, <2>1 DEF TypeOK
  <2> HIDE DEF k
  <2>3. marks[k + 1] = marks[k] + Len(Stuffed(ax25[k])) /\ marks[k + 1] <= Len(wire)
    BY <1>0, <2>1 DEF WireIsStuffed
  <2>4. \A n \in {1, 2} : n \in Nat /\ n > 0
    OBVIOUS
  <2>5. marks[k] = index
    BY <1>2, <2>1
  <2>6. index + Len(Stuffed(ax25[k])) <= index
    BY <1>1, <2>3, <2>5
  <2>7. Len(Stuffed(ax25[k])) \in Nat /\ Len(Stuffed(ax25[k])) > 0
    BY <2>2, <2>4, StuffedShape
  <2>8. \A m, n \in Nat : n > 0 => ~ (m + n <= m)
    OBVIOUS
  <2> QED BY <1>2, <2>6, <2>7, <2>8
<1>4. unstuffed = ax25
  <2>1. unstuffed \in Seq(Byte) /\ ax25 \in Seq(Byte) /\ Len(unstuffed) = Len(ax25)
    BY <1>0, <1>2, <1>3 DEF TypeOK
  <2>2. \A i \in 1 .. Len(unstuffed) : unstuffed[i] = ax25[i]
    BY <1>0 DEF ReadsWhatWasSent
  <2> QED BY <2>1, <2>2, SeqEqual
<1>5. WireIsStuffed' /\ OneFrameOnTheWire'
  BY <1>0, <1>1 DEF WireIsStuffed, OneFrameOnTheWire
<1>6. ReaderAtMark'
  BY <1>0, <1>1 DEF ReaderAtMark
<1>7. ReadsWhatWasSent'
  BY <1>0, <1>1, <1>4 DEF ReadsWhatWasSent
<1> QED BY <1>0, <1>5, <1>6, <1>7 DEF IInv

\* Loading a frame, and going over from writing to reading.
LEMMA LoadStep ==
  IInv /\ ((\E frame \in Seq(Byte) : Load(frame)) \/ StuffEnd \/ UNCHANGED vars) => IInv'
<1> SUFFICES ASSUME IInv,
                    (\E frame \in Seq(Byte) : Load(frame)) \/ StuffEnd \/ UNCHANGED vars
             PROVE  IInv'
  OBVIOUS
<1>0. TypeOK /\ TypeOK' /\ WireIsStuffed /\ ReaderAtMark /\ ReadsWhatWasSent
        /\ OneFrameOnTheWire
  BY NextType DEF IInv, Next, Carry
<1>1. CASE \E frame \in Seq(Byte) : Load(frame)
  <2>1. /\ phase' = "stuffing" /\ sent' = 0 /\ wire' = <<>> /\ marks' = <<0>>
        /\ index' = 0 /\ unstuffed' = <<>>
    BY <1>1 DEF Load
  <2>2. Len(<<0>>) = 1 /\ <<0>>[1] = 0
    OBVIOUS
  <2>3. WireIsStuffed'
    BY <1>0, <2>1, <2>2 DEF WireIsStuffed, TypeOK
  <2>4. ReaderAtMark'
    BY <2>1, <2>2 DEF ReaderAtMark
  <2>5. ReadsWhatWasSent' /\ OneFrameOnTheWire'
    BY <1>0, <2>1 DEF ReadsWhatWasSent, OneFrameOnTheWire, TypeOK
  <2> QED BY <1>0, <2>3, <2>4, <2>5 DEF IInv
<1>2. CASE StuffEnd
  BY <1>0, <1>2 DEF StuffEnd, IInv, WireIsStuffed, ReaderAtMark, ReadsWhatWasSent,
                    OneFrameOnTheWire
<1>3. CASE UNCHANGED vars
  BY <1>0, <1>3 DEF vars, IInv, WireIsStuffed, ReaderAtMark, ReadsWhatWasSent,
                    OneFrameOnTheWire
<1> QED BY <1>1, <1>2, <1>3

\* The inductive invariant holds at the start, and every step keeps it.
LEMMA StuffingStep == (Init => IInv) /\ (IInv /\ [Next]_vars => IInv')
<1>1. Init => IInv
  BY InitInv DEF IInv
<1>2. IInv /\ [Next]_vars => IInv'
  BY StuffByteStep, UnstuffStep, UnstuffEndStep, LoadStep DEF Next, Carry
<1> QED BY <1>1, <1>2

\* The two loops keep the inductive invariant from the first byte to the last
\* (frame.rs:16-34,146-152).
THEOREM StuffingInvariance == Spec => []IInv
BY StuffingStep, PTL DEF Spec

\* A frame of any bytes is read as it was written (frame.rs:16-34,146-152).
THEOREM StuffingRoundTrip == Spec => []ReadsWhatWasSent
<1>1. IInv => ReadsWhatWasSent
  BY DEF IInv
<1> QED BY StuffingInvariance, <1>1, PTL

\* No frame holds a FEND on the wire, whatever its bytes (frame.rs:146-152).
THEOREM StuffingFrames == Spec => []OneFrameOnTheWire
<1>1. IInv => OneFrameOnTheWire
  BY DEF IInv
<1> QED BY StuffingInvariance, <1>1, PTL
=============================================================================
