---------------------------- MODULE AprsIs_proofs ----------------------------
(***************************************************************************)
(* Proofs about the APRS-IS client, for every alphabet, line limit, buffer *)
(* size, packet limit, set of lines and bound: the invariants of AprsIs    *)
(* and that it implements LineStream; what the loop of Capture writes; and *)
(* what SendLine puts on the wire.                                         *)
(***************************************************************************)
EXTENDS Capture, SendLine, SequenceTheorems, WellFoundedInduction, TLAPS

-----------------------------------------------------------------------------
(* Facts about the operators of LineText. *)

\* A non-empty set of naturals has a least element.
LEMMA LeastNatural ==
  ASSUME NEW T \in SUBSET Nat, T # {}
  PROVE  \E m \in T : \A k \in T : m <= k
<1> DEFINE R == {ss \in Nat \X Nat : ss[1] < ss[2]}
<1>1. IsWellFoundedOn(R, Nat)
  BY NatLessThanWellFounded, Zenon DEF OpToRel
<1>2. PICK m \in T : \A k \in T : ~ (<<k, m>> \in R)
  <2> HIDE DEF R
  <2> QED BY <1>1, WFMin, Zenon
<1>3. \A k \in T : ~ (k < m)
  BY <1>2
<1> QED BY <1>3

\* Popping the trailing CR and LF of a line (aprsis.rs:132-134) leaves a
\* prefix of it that does not end in either.
LEMMA StripTerminatorIsPrefix ==
  ASSUME NEW S, NEW line \in Seq(S)
  PROVE  \E n \in 0 .. Len(line) :
           /\ StripTerminator(line) = SubSeq(line, 1, n)
           /\ Keeps(line, n)
<1> DEFINE T == {n \in 0 .. Len(line) :
                   \A i \in n+1 .. Len(line) : line[i] \in Terminator}
<1>1. Len(line) \in T /\ T \in SUBSET Nat
  OBVIOUS
<1>2. PICK n \in T : \A k \in T : n <= k
  <2> HIDE DEF T
  <2> QED BY <1>1, LeastNatural
<1>3. n > 0 => line[n] \notin Terminator
  <2> SUFFICES ASSUME n > 0, line[n] \in Terminator PROVE FALSE
    OBVIOUS
  <2>1. n \in Nat /\ n - 1 \in T
    OBVIOUS
  <2>2. n <= n - 1
    <3> HIDE DEF T
    <3> QED BY <1>2, <2>1
  <2> QED BY <2>1, <2>2
<1>4. \E m \in 0 .. Len(line) : Keeps(line, m)
  BY <1>3 DEF Keeps
<1> QED BY <1>4 DEF StripTerminator

\* The text of a reply is made of bytes of the line it decodes.
LEMMA DecodeType ==
  ASSUME NEW S, NEW line \in Seq(S)
  PROVE  Decode(line) \in [kind : Kinds, text : Seq(S)]
<1>1. StripTerminator(line) \in Seq(S)
  <2>1. PICK n \in 0 .. Len(line) : StripTerminator(line) = SubSeq(line, 1, n)
    BY StripTerminatorIsPrefix
  <2> QED BY <2>1, SubSeqProperties, ElementOfSeq
<1> QED BY <1>1 DEF Decode, Reply, Kinds

\* The empty sequence is a sequence of anything.
LEMMA NoBytes == \A S : <<>> \in Seq(S)
BY EmptySeq

\* The part of a sequence between two cursors.
LEMMA Between ==
  ASSUME NEW S, NEW s \in Seq(S), NEW m \in Nat, NEW n \in Nat,
         m <= n, n <= Len(s)
  PROVE  /\ SubSeq(s, m + 1, n) \in Seq(S)
         /\ Len(SubSeq(s, m + 1, n)) = n - m
BY SubSeqProperties, ElementOfSeq, LenProperties

-----------------------------------------------------------------------------
(* Type correctness. *)

\* The connection starts with its types (aprsis.rs:69-74).
LEMMA InitType == Init => TypeOK
<1> SUFFICES ASSUME Init PROVE TypeOK
  OBVIOUS
<1>1. stream \in Seq(Byte) /\ line_buffer \in Seq(Byte) /\ results \in Seq(Result)
  BY NoBytes, Zenon DEF Init
<1>2. discarding \in BOOLEAN
  BY Zenon DEF Init
<1>3. Len(stream) = 0
  BY EmptySeq, Zenon DEF Init
<1> QED BY <1>1, <1>2, <1>3 DEF Init, TypeOK

\* What line_buffer becomes is made of bytes of the stream (aprsis.rs:110-117).
LEMMA BufferAfterType ==
  ASSUME TypeOK, NEW upto \in taken .. filled
  PROVE  BufferAfter(upto) \in Seq(Byte)
<1>1. SubSeq(stream, taken + 1, upto) \in Seq(Byte)
  BY Between DEF TypeOK
<1> QED BY <1>1 DEF BufferAfter, TypeOK

\* A reply is recorded with its type, and the call goes on or is over.
LEMMA AnswerType ==
  ASSUME TypeOK, NEW reply \in [kind : Kinds, text : Seq(Byte)],
         NEW upto \in Nat, Answer(reply, upto)
  PROVE  /\ call' \in {"idle", "read_line", "read_packet"}
         /\ start' = upto
         /\ results' \in Seq(Result)
<1>1. Skips(reply) \in BOOLEAN
  BY DEF Skips
<1>2. [reply |-> reply, from |-> start, upto |-> upto, skipped |-> Skips(reply)]
         \in Result
  BY <1>1 DEF Result, TypeOK
<1> QED BY <1>2 DEF Answer, TypeOK

\* Every step of the server, the caller and the loop of read_line keeps the types.
LEMMA NextType == TypeOK /\ [Next]_vars => TypeOK'
<1> SUFFICES ASSUME TypeOK, [Next]_vars PROVE TypeOK'
  OBVIOUS
<1> USE SizeAssumption
<1>1. CASE ServerWrite
  BY <1>1 DEF TypeOK, ServerWrite, readerVars, replyVars
<1>2. CASE ServerClose
  BY <1>2 DEF TypeOK, ServerClose, readerVars, replyVars
<1>3. CASE Reset
  <2>1. PICK n \in filled .. Len(stream) : stream' = SubSeq(stream, 1, n)
    BY <1>3 DEF Reset
  <2>2. SubSeq(stream, 1, n) \in Seq(Byte) /\ Len(SubSeq(stream, 1, n)) = n
    BY <2>1, Between DEF TypeOK
  <2> QED BY <1>3, <2>1, <2>2 DEF TypeOK, Reset, readerVars, replyVars
<1>4. CASE Caller
  BY <1>4 DEF TypeOK, Caller, StartRead, CallerStops, vars, netVars, readerVars, replyVars
<1>5. CASE Timeout
  BY <1>5 DEF TypeOK, Timeout, netVars, readerVars
<1>6. CASE FillBuf
  BY <1>6 DEF TypeOK, FillBuf, netVars, replyVars
<1>7. CASE TakeAll
  <2>1. BufferAfter(filled) \in Seq(Byte)
    BY BufferAfterType DEF TypeOK
  <2> QED BY <1>7, <2>1 DEF TypeOK, TakeAll, DiscardingAfter, Overflows, netVars, replyVars
<1>8. CASE TakeLine
  <2>1. PICK upto \in taken+1 .. filled :
          /\ taken' = upto
          /\ line_buffer' = IF DiscardingAfter(upto) THEN BufferAfter(upto) ELSE <<>>
          /\ Answer(FinishedReply(BufferAfter(upto), DiscardingAfter(upto)), upto)
    BY <1>8 DEF TakeLine
  <2>2. BufferAfter(upto) \in Seq(Byte) /\ upto \in Nat
    BY BufferAfterType DEF TypeOK
  <2>3. FinishedReply(BufferAfter(upto), DiscardingAfter(upto))
           \in [kind : Kinds, text : Seq(Byte)]
    BY <2>2, DecodeType DEF FinishedReply, Reply, Kinds
  <2>4. /\ call' \in {"idle", "read_line", "read_packet"} /\ start' = upto
        /\ results' \in Seq(Result)
    BY <2>1, <2>2, <2>3, AnswerType
  <2>5. line_buffer' \in Seq(Byte)
    BY <2>1, <2>2, NoBytes, Zenon
  <2>6. discarding' \in BOOLEAN
    BY <1>8, Zenon DEF TakeLine
  <2> QED BY <1>8, <2>1, <2>2, <2>4, <2>5, <2>6 DEF TypeOK, TakeLine, netVars
<1>9. CASE ReadEof
  <2>1. EofReply \in [kind : Kinds, text : Seq(Byte)]
    BY DEF EofReply, Reply, Kinds
  <2>2. /\ call' \in {"idle", "read_line", "read_packet"} /\ start' = taken
        /\ results' \in Seq(Result)
    BY <1>9, <2>1, AnswerType DEF ReadEof, TypeOK
  <2>3. line_buffer' \in Seq(Byte)
    BY <1>9, NoBytes, Zenon DEF ReadEof, TypeOK
  <2>4. discarding' \in BOOLEAN
    BY <1>9, Zenon DEF ReadEof
  <2> QED BY <1>9, <2>2, <2>3, <2>4 DEF TypeOK, ReadEof, netVars
<1>10. CASE ReadError
  <2>1. Reply("io_error") \in [kind : Kinds, text : Seq(Byte)]
    BY DEF Reply, Kinds
  <2>2. /\ call' \in {"idle", "read_line", "read_packet"} /\ start' = start
        /\ results' \in Seq(Result)
    BY <1>10, <2>1, AnswerType DEF ReadError, TypeOK
  <2> QED BY <1>10, <2>2 DEF TypeOK, ReadError, readerVars
<1>11. CASE UNCHANGED vars
  BY <1>11 DEF TypeOK, vars, netVars, readerVars, replyVars
<1> QED BY <1>1, <1>2, <1>3, <1>4, <1>5, <1>6, <1>7, <1>8, <1>9, <1>10, <1>11
        DEF Next, Server, Reader

\* Every variable keeps its type and start <= taken <= filled <= Len(stream)
\* in every state of the client (aprsis.rs:42-47, 90-144).
THEOREM TypeCorrect == Spec => []TypeOK
<1> QED BY InitType, NextType, PTL DEF Spec

-----------------------------------------------------------------------------
(* The inductive invariant: all the invariants at once. *)

IInv == /\ TypeOK /\ BufferHoldsLine
        /\ RepliesTileStream /\ RepliesDecodeLines /\ EndRepliesAtEnd

\* After the bytes up to upto, the flag says whether the line is too long and
\* the buffer holds the line unless it is (aprsis.rs:110-117).
LEMMA BufferGrows ==
  ASSUME TypeOK, BufferHoldsLine, NEW upto \in taken+1 .. filled
  PROVE  /\ DiscardingAfter(upto) <=> upto - start > MaxLine
         /\ BufferAfter(upto) = IF DiscardingAfter(upto) THEN <<>>
                               ELSE SubSeq(stream, start + 1, upto)
<1> USE SizeAssumption
<1>1. CASE discarding
  BY <1>1 DEF BufferHoldsLine, DiscardingAfter, BufferAfter, TypeOK
<1>2. CASE ~ discarding
  <2>1. Len(line_buffer) = taken - start
    BY <1>2, Between DEF BufferHoldsLine, TypeOK
  <2>2. line_buffer \o SubSeq(stream, taken + 1, upto) = SubSeq(stream, start + 1, upto)
    <3>1. line_buffer = SubSeq(stream, start + 1, taken)
      BY <1>2 DEF BufferHoldsLine
    <3>2. /\ stream \in Seq(Byte) /\ start + 1 \in 1 .. Len(stream) + 1
          /\ taken \in (start + 1) - 1 .. Len(stream) /\ upto \in taken .. Len(stream)
      BY DEF TypeOK
    <3>3. SubSeq(stream, start + 1, taken) \o SubSeq(stream, taken + 1, upto)
             = SubSeq(stream, start + 1, upto)
      BY <3>2, ConcatAdjacentSubSeq
    <3> QED BY <3>1, <3>3
  <2>3. Overflows(upto) <=> upto - start > MaxLine
    BY <2>1 DEF Overflows, TypeOK
  <2> QED BY <1>2, <2>2, <2>3 DEF DiscardingAfter, BufferAfter
<1> QED BY <1>1, <1>2

\* The bytes before the last of a range belong to the range.
LEMMA Shrink == \A a, b \in Nat : \A j \in a+1 .. b-1 : j \in a+1 .. b
OBVIOUS

\* Neither more bytes nor a reset touches what the BufferReader has read.
LEMMA StreamStable ==
  ASSUME TypeOK, Server \/ UNCHANGED stream
  PROVE  /\ filled <= Len(stream')
         /\ \A i \in 1 .. filled : stream'[i] = stream[i]
<1>1. CASE ServerWrite
  BY <1>1 DEF ServerWrite, TypeOK
<1>2. CASE Reset
  BY <1>2, SubSeqProperties, ElementOfSeq DEF Reset, TypeOK
<1> QED BY <1>1, <1>2 DEF Server, ServerClose, TypeOK

\* The same, for a part of the stream that the BufReader has read.
LEMMA StreamPartStable ==
  ASSUME TypeOK, TypeOK', Server \/ UNCHANGED stream,
         NEW m \in Nat, NEW n \in Nat, m <= n, n <= filled
  PROVE  SubSeq(stream', m + 1, n) = SubSeq(stream, m + 1, n)
<1>1. /\ filled <= Len(stream') /\ filled <= Len(stream) /\ filled \in Nat
      /\ \A i \in 1 .. filled : stream'[i] = stream[i]
      /\ stream \in Seq(Byte) /\ stream' \in Seq(Byte)
      /\ Len(stream) \in Nat /\ Len(stream') \in Nat
  BY StreamStable, LenProperties DEF TypeOK
<1>2. n <= Len(stream) /\ n <= Len(stream')
  BY <1>1
<1>3. /\ SubSeq(stream, m + 1, n) \in Seq(Byte) /\ Len(SubSeq(stream, m + 1, n)) = n - m
      /\ SubSeq(stream', m + 1, n) \in Seq(Byte) /\ Len(SubSeq(stream', m + 1, n)) = n - m
  BY <1>1, <1>2, Between
<1>4. ASSUME NEW i \in 1 .. n - m
      PROVE  SubSeq(stream', m + 1, n)[i] = SubSeq(stream, m + 1, n)[i]
  <2>1. m + i \in 1 .. filled
    BY <1>1
  <2>2. /\ SubSeq(stream', m + 1, n)[i] = stream'[m + i]
        /\ SubSeq(stream, m + 1, n)[i] = stream[m + i]
    OBVIOUS
  <2> QED BY <1>1, <2>1, <2>2
<1> QED BY <1>3, <1>4, SeqEqual

\* Every step leaves line_buffer holding the unfinished line (aprsis.rs:90-138).
LEMMA BufferStep == IInv /\ [Next]_vars => BufferHoldsLine'
<1> SUFFICES ASSUME IInv, [Next]_vars PROVE BufferHoldsLine'
  OBVIOUS
<1> USE SizeAssumption
<1>0. TypeOK /\ TypeOK' /\ BufferHoldsLine
  BY NextType DEF IInv
<1>1. CASE Server \/ Caller \/ Timeout \/ FillBuf \/ ReadError \/ UNCHANGED vars
  <2>1. UNCHANGED <<start, taken, line_buffer, discarding>>
    BY <1>1 DEF Server, ServerWrite, ServerClose, Reset, Caller, StartRead,
          CallerStops, Timeout, FillBuf, ReadError, Answer, vars, netVars,
          readerVars, replyVars
  <2>2. Server \/ UNCHANGED stream
    BY <1>1 DEF Caller, StartRead, CallerStops, Timeout, FillBuf, ReadError,
          vars, netVars
  <2>3. /\ filled <= Len(stream')
        /\ \A i \in 1 .. filled : stream'[i] = stream[i]
    BY <1>0, <2>2, StreamStable
  <2>4. SubSeq(stream', start + 1, taken) = SubSeq(stream, start + 1, taken)
    <3>1. start \in Nat /\ taken \in Nat /\ start <= taken /\ taken <= filled
      BY <1>0 DEF TypeOK
    <3> QED BY <1>0, <2>2, <3>1, StreamPartStable
  <2>5. \A i \in start+1 .. taken : stream'[i] # "LF"
    <3>1. \A i \in start+1 .. taken : stream[i] # "LF" /\ i \in 1 .. filled
      BY <1>0 DEF BufferHoldsLine, TypeOK
    <3> QED BY <2>3, <3>1
  <2> QED BY <1>0, <2>1, <2>4, <2>5 DEF BufferHoldsLine
<1>2. CASE TakeAll
  <2>1. filled \in taken+1 .. filled
    BY <1>0, <1>2 DEF TakeAll, TypeOK
  <2>2. /\ discarding' <=> filled - start > MaxLine
        /\ line_buffer' = IF discarding' THEN <<>> ELSE SubSeq(stream, start + 1, filled)
    BY <1>0, <1>2, <2>1, BufferGrows DEF TakeAll
  <2>3. \A i \in start+1 .. filled : stream[i] # "LF"
    BY <1>0, <1>2 DEF TakeAll, BufferHoldsLine, TypeOK
  <2>4. taken' = filled /\ UNCHANGED <<stream, start>>
    BY <1>2 DEF TakeAll, netVars, replyVars
  <2> QED BY <1>0, <2>2, <2>3, <2>4 DEF BufferHoldsLine, TypeOK
<1>3. CASE TakeLine
  <2>1. PICK upto \in taken+1 .. filled :
          /\ taken' = upto /\ start' = upto
          /\ line_buffer' = IF DiscardingAfter(upto) THEN BufferAfter(upto) ELSE <<>>
    BY <1>3 DEF TakeLine, Answer
  <2>2. line_buffer' = <<>>
    BY <1>0, <2>1, BufferGrows
  <2>3. SubSeq(stream', start' + 1, taken') = <<>>
    BY <1>0, <2>1, SubSeqEmpty DEF TypeOK
  <2>4. ~ discarding'
    BY <1>3 DEF TakeLine
  <2> QED BY <1>0, <2>1, <2>2, <2>3, <2>4 DEF BufferHoldsLine, TypeOK
<1>4. CASE ReadEof
  <2>1. taken' = taken /\ start' = taken /\ ~ discarding' /\ line_buffer' = <<>>
    BY <1>0, <1>4 DEF ReadEof, Answer, BufferHoldsLine
  <2>2. SubSeq(stream', start' + 1, taken') = <<>>
    BY <1>0, <2>1, SubSeqEmpty DEF TypeOK
  <2> QED BY <1>0, <2>1, <2>2 DEF BufferHoldsLine, TypeOK
<1> QED BY <1>1, <1>2, <1>3, <1>4 DEF Next, Reader

-----------------------------------------------------------------------------
(* The replies. *)

Quiet == UNCHANGED <<start, results>>

\* Every step leaves the replies one after another on the stream (aprsis.rs:90-144).
LEMMA TileStep == IInv /\ [Next]_vars => RepliesTileStream'
<1> SUFFICES ASSUME IInv, [Next]_vars PROVE RepliesTileStream'
  OBVIOUS
<1>0. TypeOK /\ TypeOK' /\ RepliesTileStream
  BY NextType DEF IInv
<1>1. CASE Quiet
  BY <1>0, <1>1 DEF Quiet, RepliesTileStream
<1>2. ASSUME NEW reply, NEW upto \in Nat, start <= upto, Answer(reply, upto)
      PROVE  RepliesTileStream'
  <2> DEFINE r == [reply |-> reply, from |-> start, upto |-> upto,
                   skipped |-> Skips(reply)]
  <2>1. results' = Append(results, r) /\ start' = upto
    BY <1>2 DEF Answer
  <2>2. \A i \in 1 .. Len(results) : results[i].from \in Nat /\ results[i].upto \in Nat
    <3>1. \A i \in 1 .. Len(results) : results[i] \in Result
      BY <1>0, ElementOfSeq DEF TypeOK
    <3> QED BY <3>1 DEF Result
  <2>3. r.from = start /\ r.upto = upto
    OBVIOUS
  <2>4. /\ Len(results') = Len(results) + 1 /\ results' # <<>>
        /\ \A i \in 1 .. Len(results) : results'[i] = results[i]
        /\ results'[Len(results')] = r
    <3> HIDE DEF r
    <3> QED BY <1>0, <2>1, AppendProperties, LenProperties DEF TypeOK
  <2> HIDE DEF r
  <2>5. start = IF results = <<>> THEN 0 ELSE results[Len(results)].upto
    BY <1>0 DEF RepliesTileStream
  <2>6. results = <<>> <=> Len(results) = 0
    BY <1>0, EmptySeq DEF TypeOK
  <2>7. ASSUME NEW i \in 1 .. Len(results')
        PROVE  /\ results'[i].from <= results'[i].upto /\ results'[i].upto <= start'
               /\ results'[i].from = IF i = 1 THEN 0 ELSE results'[i-1].upto
    <3>1. CASE i = Len(results')
      BY <1>0, <1>2, <2>1, <2>3, <2>4, <2>5, <2>6, <3>1, LenProperties DEF TypeOK
    <3>2. CASE i # Len(results')
      <4>1. i \in 1 .. Len(results) /\ (i # 1 => i - 1 \in 1 .. Len(results))
        BY <1>0, <2>4, <3>2, LenProperties DEF TypeOK
      <4>2. /\ results[i].from <= results[i].upto /\ results[i].upto <= start
            /\ results[i].from = IF i = 1 THEN 0 ELSE results[i-1].upto
        BY <1>0, <4>1 DEF RepliesTileStream
      <4>3. results'[i] = results[i] /\ (i # 1 => results'[i-1] = results[i-1])
        BY <2>4, <4>1
      <4>4. start' = upto /\ start <= upto /\ start \in Nat
        BY <1>0, <1>2, <2>1 DEF TypeOK
      <4>5. results[i].upto \in Nat /\ results[i].upto <= start'
        BY <2>2, <4>1, <4>2, <4>4
      <4> QED BY <4>2, <4>3, <4>5
    <3> QED BY <3>1, <3>2
  <2> QED BY <2>1, <2>3, <2>4, <2>7 DEF RepliesTileStream
<1>3. CASE TakeLine
  <2>1. PICK upto \in taken+1 .. filled :
           Answer(FinishedReply(BufferAfter(upto), DiscardingAfter(upto)), upto)
    BY <1>3 DEF TakeLine
  <2>2. upto \in Nat /\ start <= upto
    BY <1>0 DEF TypeOK
  <2> QED BY <1>2, <2>1, <2>2
<1>4. CASE ReadEof
  <2>1. Answer(EofReply, taken) /\ taken \in Nat /\ start <= taken
    BY <1>0, <1>4 DEF ReadEof, TypeOK
  <2> QED BY <1>2, <2>1
<1>5. CASE ReadError
  <2>1. Answer(Reply("io_error"), start) /\ start \in Nat
    BY <1>0, <1>5 DEF ReadError, TypeOK
  <2> QED BY <1>2, <2>1
<1>6. CASE Server \/ Caller \/ Timeout \/ FillBuf \/ TakeAll \/ UNCHANGED vars
  BY <1>1, <1>6 DEF Quiet, Server, ServerWrite, ServerClose, Reset, Caller, StartRead,
       CallerStops, Timeout, FillBuf, TakeAll, vars, netVars, readerVars, replyVars
<1> QED BY <1>3, <1>4, <1>5, <1>6 DEF Next, Reader

\* What a step leaves of the replies before it: each keeps its bytes.
LEMMA OldReplies ==
  ASSUME TypeOK, RepliesTileStream, Server \/ UNCHANGED stream,
         TypeOK', NEW i \in 1 .. Len(results), results'[i] = results[i]
  PROVE  /\ FinishesLine(results[i])' <=> FinishesLine(results[i])
         /\ SubSeq(stream', results[i].from + 1, results[i].upto)
              = SubSeq(stream, results[i].from + 1, results[i].upto)
         /\ \A j \in results[i].from+1 .. results[i].upto : stream'[j] = stream[j]
<1>1. /\ results[i].from \in Nat /\ results[i].upto \in Nat
      /\ results[i].from <= results[i].upto /\ results[i].upto <= filled
  <2>1. results[i] \in Result
    BY ElementOfSeq DEF TypeOK
  <2>2. results[i].from <= results[i].upto /\ results[i].upto <= start
    BY DEF RepliesTileStream
  <2>3. results[i].from \in Nat /\ results[i].upto \in Nat
    BY <2>1 DEF Result
  <2> QED BY <2>2, <2>3 DEF TypeOK
<1>2. /\ filled \in Nat /\ filled <= Len(stream) /\ filled <= Len(stream')
      /\ stream \in Seq(Byte) /\ stream' \in Seq(Byte)
      /\ \A j \in 1 .. filled : stream'[j] = stream[j]
  BY StreamStable DEF TypeOK
<1>3. SubSeq(stream', results[i].from + 1, results[i].upto)
        = SubSeq(stream, results[i].from + 1, results[i].upto)
  <2> DEFINE m == results[i].from
             n == results[i].upto
  <2>1. m \in Nat /\ n \in Nat /\ m <= n /\ n <= filled
    BY <1>1
  <2> HIDE DEF m, n
  <2>2. SubSeq(stream', m + 1, n) = SubSeq(stream, m + 1, n)
    BY <2>1, StreamPartStable
  <2> QED BY <2>2 DEF m, n
<1>4. \A j \in results[i].from+1 .. results[i].upto : stream'[j] = stream[j]
  BY <1>1, <1>2
<1>5. FinishesLine(results[i])' <=> FinishesLine(results[i])
  BY <1>1, <1>4 DEF FinishesLine
<1> QED BY <1>3, <1>4, <1>5

\* Every step either leaves the replies alone or appends one for the bytes
\* start+1 .. upto, while the stream stays as it is.
LEMMA ReplySteps ==
  ASSUME TypeOK, TypeOK', [Next]_vars
  PROVE  /\ Server \/ UNCHANGED stream
         /\ \A i \in 1 .. Len(results) : results'[i] = results[i]
         /\ \/ results' = results
            \/ /\ TakeLine \/ ReadEof \/ ReadError
               /\ Len(results') = Len(results) + 1
               /\ results'[Len(results')].from = start
               /\ results'[Len(results')].upto = start'
<1>1. CASE Server \/ Caller \/ Timeout \/ FillBuf \/ TakeAll \/ UNCHANGED vars
  <2>1. UNCHANGED results /\ (Server \/ UNCHANGED stream)
    BY <1>1 DEF Server, ServerWrite, ServerClose, Reset, Caller, StartRead,
       CallerStops, Timeout, FillBuf, TakeAll, vars, netVars, readerVars, replyVars
  <2> QED BY <2>1
<1>2. CASE TakeLine \/ ReadEof \/ ReadError
  <2>1. PICK reply, upto : Answer(reply, upto)
    BY <1>2 DEF TakeLine, ReadEof, ReadError
  <2>2. UNCHANGED stream
    BY <1>2 DEF TakeLine, ReadEof, ReadError, netVars
  <2> DEFINE r == [reply |-> reply, from |-> start, upto |-> upto,
                   skipped |-> Skips(reply)]
  <2>3. results' = Append(results, r) /\ start' = upto /\ results \in Seq(Result)
    BY <2>1 DEF Answer, TypeOK
  <2>4. r.from = start /\ r.upto = upto
    OBVIOUS
  <2> HIDE DEF r
  <2>5. /\ Len(results') = Len(results) + 1 /\ results'[Len(results) + 1] = r
        /\ \A i \in 1 .. Len(results) : results'[i] = results[i]
    BY <2>3, AppendProperties, LenProperties
  <2> QED BY <1>2, <2>2, <2>3, <2>4, <2>5
<1> QED BY <1>1, <1>2 DEF Next, Reader

\* Every reply to a finished line is the one its bytes call for (aprsis.rs:110-139).
LEMMA DecodeStep == IInv /\ [Next]_vars => RepliesDecodeLines'
<1> SUFFICES ASSUME IInv, [Next]_vars, NEW i \in 1 .. Len(results')
             PROVE  /\ \A j \in results'[i].from+1 .. results'[i].upto-1 : stream'[j] # "LF"
                    /\ FinishesLine(results[i])' =>
                         results'[i].reply =
                           IF results'[i].upto - results'[i].from > MaxLine
                           THEN Reply("oversized")
                           ELSE Decode(SubSeq(stream', results'[i].from + 1, results'[i].upto))
  BY Zenon DEF RepliesDecodeLines
<1>0. TypeOK /\ TypeOK' /\ RepliesTileStream /\ RepliesDecodeLines /\ BufferHoldsLine
  BY NextType DEF IInv
<1>1. CASE i \in 1 .. Len(results)
  <2>1. results'[i] = results[i] /\ (Server \/ UNCHANGED stream)
    BY <1>0, <1>1, ReplySteps
  <2>2. /\ \A j \in results[i].from+1 .. results[i].upto-1 : stream[j] # "LF"
        /\ FinishesLine(results[i]) =>
             results[i].reply =
               IF results[i].upto - results[i].from > MaxLine THEN Reply("oversized")
               ELSE Decode(SubSeq(stream, results[i].from + 1, results[i].upto))
    BY <1>0, <1>1, Zenon DEF RepliesDecodeLines
  <2>3. /\ FinishesLine(results[i])' <=> FinishesLine(results[i])
        /\ SubSeq(stream', results[i].from + 1, results[i].upto)
              = SubSeq(stream, results[i].from + 1, results[i].upto)
        /\ \A j \in results[i].from+1 .. results[i].upto : stream'[j] = stream[j]
    BY <1>0, <1>1, <2>1, OldReplies
  <2>4. results[i].from \in Nat /\ results[i].upto \in Nat
    <3>1. results[i] \in Result
      BY <1>0, <1>1, ElementOfSeq DEF TypeOK
    <3> QED BY <3>1 DEF Result
  <2>5. \A j \in results[i].from+1 .. results[i].upto-1 : stream'[j] # "LF"
    <3> SUFFICES ASSUME NEW j \in results[i].from+1 .. results[i].upto-1
                 PROVE  stream'[j] # "LF"
      OBVIOUS
    <3>1. j \in results[i].from+1 .. results[i].upto
      BY <2>4
    <3> QED BY <2>2, <2>3, <3>1, Zenon
  <2> QED BY <2>1, <2>2, <2>3, <2>5, Zenon
<1>2. CASE i \notin 1 .. Len(results)
  <2>1. /\ TakeLine \/ ReadEof \/ ReadError
        /\ i = Len(results') /\ i = Len(results) + 1
        /\ results'[i].from = start /\ results'[i].upto = start'
    BY <1>0, <1>2, ReplySteps, LenProperties DEF TypeOK
  <2>2. CASE TakeLine
    <3>1. PICK upto \in taken+1 .. filled :
            /\ \A j \in taken+1 .. upto-1 : stream[j] # "LF"
            /\ Answer(FinishedReply(BufferAfter(upto), DiscardingAfter(upto)), upto)
      BY <2>2 DEF TakeLine
    <3>2. /\ results'[i].reply = FinishedReply(BufferAfter(upto), DiscardingAfter(upto))
          /\ start' = upto /\ stream' = stream
      BY <1>0, <2>1, <2>2, <3>1, AppendProperties DEF Answer, TakeLine, netVars, TypeOK
    <3>3. /\ DiscardingAfter(upto) <=> upto - start > MaxLine
          /\ BufferAfter(upto) = IF DiscardingAfter(upto) THEN <<>>
                                ELSE SubSeq(stream, start + 1, upto)
      BY <1>0, BufferGrows
    <3>4. \A j \in start+1 .. upto-1 : stream[j] # "LF"
      BY <1>0, <3>1 DEF BufferHoldsLine, TypeOK
    <3>5. results'[i].reply = IF upto - start > MaxLine THEN Reply("oversized")
                              ELSE Decode(SubSeq(stream, start + 1, upto))
      BY <3>2, <3>3 DEF FinishedReply
    <3> QED BY <2>1, <3>2, <3>4, <3>5
  <2>3. CASE ReadEof \/ ReadError
    <3>1. stream' = stream /\ start' \in {start, taken}
      BY <2>3 DEF ReadEof, ReadError, Answer, netVars
    <3>2. \A j \in start+1 .. taken : stream[j] # "LF"
      BY <1>0 DEF BufferHoldsLine
    <3>3. \A j \in start+1 .. start' : stream'[j] # "LF"
      BY <1>0, <3>1, <3>2 DEF TypeOK
    <3>4. start \in Nat /\ start' \in Nat
      BY <1>0 DEF TypeOK
    <3>5. ~ FinishesLine(results[i])'
      BY <2>1, <3>3, <3>4 DEF FinishesLine
    <3>6. \A j \in start+1 .. start'-1 : stream'[j] # "LF"
      <4> SUFFICES ASSUME NEW j \in start+1 .. start'-1 PROVE stream'[j] # "LF"
        OBVIOUS
      <4>1. j \in start+1 .. start'
        BY <3>4, Shrink, Zenon
      <4> QED BY <3>3, <4>1
    <3> QED BY <2>1, <3>5, <3>6, Zenon
  <2> QED BY <2>1, <2>2, <2>3
<1> QED BY <1>1, <1>2

\* Every reply without a finished line comes at the end of the stream (aprsis.rs:94-105).
LEMMA EndStep == IInv /\ [Next]_vars => EndRepliesAtEnd'
<1> SUFFICES ASSUME IInv, [Next]_vars, NEW i \in 1 .. Len(results'),
                    ~ FinishesLine(results[i])'
             PROVE  /\ net' # "open" /\ taken' = Len(stream')
                    /\ results'[i].reply \in {Reply("io_error"),
                         Reply(EndKind(results'[i].upto - results'[i].from))}
  BY Zenon DEF EndRepliesAtEnd
<1>0. /\ TypeOK /\ TypeOK' /\ BufferHoldsLine
      /\ RepliesTileStream /\ RepliesDecodeLines /\ EndRepliesAtEnd
  BY NextType DEF IInv
<1>1. CASE i \in 1 .. Len(results)
  <2>1. results'[i] = results[i] /\ (Server \/ UNCHANGED stream)
    BY <1>0, <1>1, ReplySteps
  <2>2. ~ FinishesLine(results[i])
    BY <1>0, <1>1, <2>1, OldReplies
  <2>3. /\ net # "open" /\ taken = Len(stream)
        /\ results[i].reply \in {Reply("io_error"),
                                 Reply(EndKind(results[i].upto - results[i].from))}
    BY <1>0, <1>1, <2>2, Zenon DEF EndRepliesAtEnd
  <2>4. ~ Server /\ ~ FillBuf /\ ~ TakeAll /\ ~ TakeLine
    BY <1>0, <2>3 DEF Server, ServerWrite, ServerClose, Reset, FillBuf, TakeAll,
                      TakeLine, TypeOK
  <2>5. taken' = taken /\ stream' = stream /\ (net' = net \/ net' = "fin")
    BY <2>4 DEF Next, Reader, Caller, StartRead, CallerStops, Timeout, ReadEof,
                ReadError, vars, netVars, readerVars, replyVars
  <2> QED BY <2>1, <2>3, <2>5
<1>2. CASE i \notin 1 .. Len(results)
  <2>1. /\ TakeLine \/ ReadEof \/ ReadError
        /\ i = Len(results') /\ i = Len(results) + 1
        /\ results'[i].from = start /\ results'[i].upto = start'
    BY <1>0, <1>2, ReplySteps, LenProperties DEF TypeOK
  <2>2. CASE TakeLine
    <3>1. start' > start /\ stream'[start'] = "LF"
      BY <1>0, <2>2 DEF TakeLine, Answer, netVars, TypeOK
    <3> QED BY <2>1, <3>1 DEF FinishesLine
  <2>3. CASE ReadEof
    <3>1. /\ results'[i].reply = EofReply /\ start' = taken
          /\ UNCHANGED <<stream, taken>> /\ net' = "fin" /\ taken = Len(stream)
      BY <1>0, <2>1, <2>3, AppendProperties DEF ReadEof, Answer, Drained, netVars, TypeOK
    <3>2. EofReply = Reply(EndKind(taken - start))
      BY <1>0, Between, SubSeqEmpty, SizeAssumption
         DEF EofReply, EndKind, BufferHoldsLine, TypeOK
    <3> QED BY <2>1, <3>1, <3>2
  <2>4. CASE ReadError
    <3>1. /\ results'[i].reply = Reply("io_error")
          /\ UNCHANGED <<stream, taken>> /\ net' = "fin" /\ taken = Len(stream)
      BY <1>0, <2>1, <2>4, AppendProperties DEF ReadError, Answer, Drained, readerVars, TypeOK
    <3> QED BY <3>1
  <2> QED BY <2>1, <2>2, <2>3, <2>4
<1> QED BY <1>1, <1>2

\* A new connection satisfies the inductive invariant.
LEMMA InitInv == Init => IInv
<1> SUFFICES ASSUME Init PROVE IInv
  OBVIOUS
<1>1. TypeOK
  BY InitType
<1>2. results = <<>> /\ start = 0 /\ taken = 0 /\ line_buffer = <<>> /\ ~ discarding
  BY DEF Init
<1>3. Len(results) = 0 /\ SubSeq(stream, start + 1, taken) = <<>>
  BY <1>2, EmptySeq, SubSeqEmpty
<1>4. BufferHoldsLine
  BY <1>2, <1>3, SizeAssumption DEF BufferHoldsLine
<1>5. RepliesTileStream /\ RepliesDecodeLines /\ EndRepliesAtEnd
  BY <1>2, <1>3 DEF RepliesTileStream, RepliesDecodeLines, EndRepliesAtEnd
<1> QED BY <1>1, <1>4, <1>5 DEF IInv

\* Every step keeps the inductive invariant.
LEMMA StepInv == IInv /\ [Next]_vars => IInv'
BY NextType, BufferStep, TileStep, DecodeStep, EndStep DEF IInv

\* The inductive invariant holds of the client at all times: each of its parts is
\* needed to carry the others across a step of read_line (aprsis.rs:90-144).
THEOREM Invariance == Spec => []IInv
BY InitInv, StepInv, PTL DEF Spec

\* line_buffer holds exactly the bytes of the unfinished line, within the
\* limit, after any timeouts, dropped calls and errors (aprsis.rs:110-117).
THEOREM BufferCorrect == Spec => []BufferHoldsLine
<1>1. IInv => BufferHoldsLine
  BY DEF IInv
<1> QED BY Invariance, <1>1, PTL

\* The replies account for every byte of the stream once, in order, and a
\* finished line is answered by its own bytes, or by InvalidData when it is
\* longer than the limit (aprsis.rs:90-144).
THEOREM RepliesCorrect == Spec => []RepliesAreTheLines
<1>1. IInv => RepliesAreTheLines
  BY DEF IInv, RepliesAreTheLines
<1> QED BY Invariance, <1>1, PTL

\* Only the end of the stream is answered by UnexpectedEof (aprsis.rs:94-105).
THEOREM EndCorrect == Spec => []EndRepliesAtEnd
<1>1. IInv => EndRepliesAtEnd
  BY DEF IInv
<1> QED BY Invariance, <1>1, PTL

-----------------------------------------------------------------------------
(* Refinement: the cursors taken and filled, the buffer and the flag are   *)
(* hidden, and every step of the code is a step of LineStream or none.     *)

\* The two specifications compute a reply alike.
LEMMA SameOperators ==
  /\ \A k : Abstract!Reply(k) = Reply(k)
  /\ \A line : Abstract!Decode(line) = Decode(line)
  /\ \A r : Abstract!Skips(r) <=> Skips(r)
  /\ \A r, n : Abstract!Record(r, n) <=>
       results' = Append(results, [reply |-> r, from |-> start,
                                   upto |-> n, skipped |-> Skips(r)])
BY DEF Abstract!Reply, Reply, Abstract!Decode, Decode, Abstract!StripTerminator,
       StripTerminator, Abstract!Keeps, Keeps, Abstract!Terminator, Terminator,
       Abstract!IsUtf8, IsUtf8, Abstract!Skips, Skips, Abstract!IsComment, IsComment,
       Abstract!Record

\* A new connection is a new LineStream.
LEMMA InitRefines == Init => Abstract!Init
BY DEF Init, Abstract!Init

\* Every step of the client is a step of LineStream or changes none of its variables.
LEMMA StepRefines ==
  ASSUME IInv, [Next]_vars
  PROVE  [Abstract!Next]_(Abstract!vars)
<1> USE SizeAssumption
<1>0. TypeOK /\ BufferHoldsLine
  BY DEF IInv
<1>1. CASE ServerWrite
  BY <1>1 DEF ServerWrite, Abstract!Write, Abstract!Next, replyVars
<1>2. CASE ServerClose
  BY <1>2 DEF ServerClose, Abstract!Finish, Abstract!Next, replyVars
<1>3. CASE Reset
  <2>1. \A n \in filled .. Len(stream) : n \in start .. Len(stream)
    BY <1>0 DEF TypeOK
  <2> QED BY <1>3, <2>1 DEF Reset, Abstract!Reset, Abstract!Next, replyVars
<1>4. CASE Caller
  BY <1>4 DEF Caller, StartRead, CallerStops, Abstract!Call, Abstract!Next,
              Abstract!vars, vars, netVars, replyVars
<1>5. CASE Timeout
  BY <1>5 DEF Timeout, Abstract!GiveUp, Abstract!Next, netVars
<1>6. CASE FillBuf \/ TakeAll \/ UNCHANGED vars
  BY <1>6 DEF FillBuf, TakeAll, Abstract!vars, vars, netVars, replyVars
<1>7. CASE TakeLine
  <2>1. PICK upto \in taken+1 .. filled :
          /\ stream[upto] = "LF"
          /\ \A j \in taken+1 .. upto-1 : stream[j] # "LF"
          /\ Answer(FinishedReply(BufferAfter(upto), DiscardingAfter(upto)), upto)
    BY <1>7 DEF TakeLine
  <2>2. FinishedReply(BufferAfter(upto), DiscardingAfter(upto))
          = Abstract!LineReply(start, upto)
    BY <1>0, BufferGrows, SameOperators DEF FinishedReply, Abstract!LineReply
  <2>3. upto \in start+1 .. Len(stream)
    BY <1>0 DEF TypeOK
  <2>4. \A j \in start+1 .. upto-1 : stream[j] # "LF"
    BY <1>0, <2>1 DEF BufferHoldsLine, TypeOK
  <2>5. /\ Abstract!Record(Abstract!LineReply(start, upto), upto)
        /\ call' = IF Abstract!Skips(Abstract!LineReply(start, upto)) THEN call ELSE "idle"
        /\ start' = upto
    BY <2>1, <2>2, SameOperators DEF Answer
  <2> QED BY <1>7, <2>1, <2>3, <2>4, <2>5
          DEF TakeLine, Abstract!AnswerLine, Abstract!Next, netVars
<1>8. CASE ReadEof
  <2>1. EofReply = Abstract!EndReply(start, Len(stream))
    BY <1>0, <1>8, Between, SubSeqEmpty, SameOperators
       DEF EofReply, Abstract!EndReply, BufferHoldsLine, TypeOK, ReadEof, Drained
  <2>2. /\ Abstract!Record(EofReply, Len(stream)) /\ call' = "idle" /\ start' = Len(stream)
    BY <1>8, SameOperators DEF ReadEof, Answer, Drained, Skips, EofReply, Reply
  <2>3. Abstract!NoLineLeft
    BY <1>0, <1>8 DEF Abstract!NoLineLeft, BufferHoldsLine, ReadEof, Drained
  <2> QED BY <1>8, <2>1, <2>2, <2>3 DEF ReadEof, Abstract!AnswerEnd, Abstract!Next, netVars
<1>9. CASE ReadError
  <2>1. /\ Abstract!Record(Abstract!Reply("io_error"), start)
        /\ call' = "idle" /\ start' = start
    BY <1>9, SameOperators DEF ReadError, Answer, Skips, Reply
  <2>2. Abstract!NoLineLeft
    BY <1>0, <1>9 DEF Abstract!NoLineLeft, BufferHoldsLine, ReadError, Drained
  <2> QED BY <1>9, <2>1, <2>2 DEF ReadError, Abstract!AnswerReset, Abstract!Next
<1> QED BY <1>1, <1>2, <1>3, <1>4, <1>5, <1>6, <1>7, <1>8, <1>9 DEF Next, Server, Reader

\* read_line and read_packet, with their buffer, flag, chunks and timers, show
\* their caller nothing that LineStream does not promise (aprsis.rs:90-158).
THEOREM Refinement == Spec => ImplementsLineStream
<1>1. IInv /\ [Next]_vars => [Abstract!Next]_(Abstract!vars)
  BY StepRefines
<1> QED BY InitRefines, Invariance, <1>1, PTL
        DEF Spec, ImplementsLineStream, Abstract!Spec

-----------------------------------------------------------------------------
(* The capture loop: what it has written.                                  *)

\* A line whose bytes and terminator the stream holds.
IsLine(line) ==
  /\ line.from \in {0} \cup LineEnds /\ line.upto \in LineEnds
  /\ line.from < line.upto
  /\ \A i \in line.from+1 .. line.upto-1 : stream[i] # "LF"

\* The control of the loop: a call is under way only while it runs, and it stops
\* running when the last packet is written (dataset-capture.rs:53-66).
LoopInv ==
  /\ phase \in {"running", "flushing", "done", "failed"}
  /\ call \in {"idle", "read_packet"}
  /\ phase # "running" => call = "idle"
  /\ written \in Seq(Seq(Byte))
  /\ phase = "running" => captured < PacketLimit
  /\ phase \in {"flushing", "done"} => captured = PacketLimit

\* Unless it has failed, the loop stands between two lines and has met none that
\* cannot be decoded.
GoodSoFar ==
  phase # "failed" =>
    /\ start \in {0} \cup LineEnds
    /\ \A line \in Lines : line.upto <= start => ReplyTo(line).kind = "line"

\* kept names the packet behind each text written: they are packets behind the
\* cursor, in order, with none between them left out, and none at all unless the
\* loop has failed, for one of the reasons it may fail.
KeptInv(kept) ==
  /\ kept \in [1 .. captured -> Packets]
  /\ \A k \in 1 .. captured : written[k] = ReplyTo(kept[k]).text /\ kept[k].upto <= start
  /\ \A j, k \in 1 .. captured : j < k => kept[j].upto < kept[k].upto
  /\ \A packet \in Packets, k \in 1 .. captured :
       packet.upto <= kept[k].upto => \E j \in 1 .. captured : packet = kept[j]
  /\ phase # "failed" =>
       \A packet \in Packets : packet.upto <= start => \E j \in 1 .. captured : packet = kept[j]
  /\ phase = "failed" =>
       \/ results # <<>> /\ results[Len(results)].reply.kind # "line"
       \/ \E packet \in Packets : /\ packet.upto <= start
                                  /\ \A k \in 1 .. captured : packet # kept[k]
       \/ captured = PacketLimit

CaptureInv == IInv /\ LoopInv /\ GoodSoFar /\ \E kept : KeptInv(kept)

\* What the members of LineEnds, Lines and Packets are.
LEMMA LinesAre ==
  /\ \A line \in Lines : IsLine(line) /\ line \in [from : {0} \cup LineEnds, upto : LineEnds]
  /\ \A f \in {0} \cup LineEnds, u \in LineEnds :
       IsLine([from |-> f, upto |-> u]) => [from |-> f, upto |-> u] \in Lines
  /\ \A packet \in Packets : packet \in Lines
BY DEF Lines, IsLine, Packets

\* Every step of the loop is a step of the client or leaves it alone.
LEMMA LoopSteps == [CNext]_allVars => [Next]_vars
BY DEF CNext, allVars, ReadPacket, TimedOut, Answered, Flush, Exited, Next, Caller, Reader

\* The lines that the BufferReader has read stay what they are (aprsis.rs:93).
LEMMA LinesStable ==
  ASSUME TypeOK, TypeOK', Server \/ UNCHANGED stream
  PROVE  /\ \A k \in 0 .. filled : k \in LineEnds' <=> k \in LineEnds
         /\ \A line \in Lines : line.upto <= filled => line \in Lines' /\ ReplyTo(line)' = ReplyTo(line)
         /\ \A line \in Lines' : line.upto <= filled => line \in Lines /\ ReplyTo(line)' = ReplyTo(line)
<1>0. /\ filled \in Nat /\ Len(stream) \in Nat /\ Len(stream') \in Nat
      /\ filled <= Len(stream) /\ filled <= Len(stream')
      /\ \A i \in 1 .. filled : stream'[i] = stream[i]
  BY StreamStable, LenProperties DEF TypeOK
<1>1. \A k \in 0 .. filled : k \in LineEnds' <=> k \in LineEnds
  BY <1>0 DEF LineEnds
<1>2. LineEnds \subseteq Nat /\ LineEnds' \subseteq Nat
  BY <1>0 DEF LineEnds
<1>3. ASSUME NEW f \in Nat, NEW u \in Nat, f < u, u <= filled
      PROVE  Abstract!LineReply(f, u)' = Abstract!LineReply(f, u)
  <2>1. SubSeq(stream', f + 1, u) = SubSeq(stream, f + 1, u)
    <3>1. f <= u
      BY <1>3
    <3> QED BY <1>3, <3>1, StreamPartStable
  <2> QED BY <2>1 DEF Abstract!LineReply
<1>4. ASSUME NEW line \in Lines, line.upto <= filled
      PROVE  line \in Lines' /\ ReplyTo(line)' = ReplyTo(line)
  <2>1. /\ line \in [from : {0} \cup LineEnds, upto : LineEnds]
        /\ line.from < line.upto /\ \A i \in line.from+1 .. line.upto-1 : stream[i] # "LF"
    BY DEF Lines
  <2>2. line.from \in Nat /\ line.upto \in Nat
    <3>1. line.from \in {0} \cup LineEnds /\ line.upto \in LineEnds
      BY <2>1
    <3>2. {0} \cup LineEnds \subseteq Nat
      BY <1>2
    <3> QED BY <1>2, <3>1, <3>2, Zenon
  <2>3. line.from \in 0 .. filled /\ line.upto \in 0 .. filled
    BY <1>0, <1>4, <2>1, <2>2
  <2>4. line \in [from : {0} \cup LineEnds', upto : LineEnds']
    BY <1>1, <2>1, <2>3
  <2>5. \A i \in line.from+1 .. line.upto-1 : stream'[i] # "LF"
    <3>1. \A i \in line.from+1 .. line.upto-1 : i \in 1 .. filled
      BY <1>0, <2>2, <2>3
    <3> QED BY <1>0, <2>1, <3>1
  <2>6. ReplyTo(line)' = ReplyTo(line)
    BY <1>3, <1>4, <2>1, <2>2 DEF ReplyTo
  <2> QED BY <2>1, <2>4, <2>5, <2>6 DEF Lines
<1>5. ASSUME NEW line \in Lines', line.upto <= filled
      PROVE  line \in Lines /\ ReplyTo(line)' = ReplyTo(line)
  <2>1. /\ line \in [from : {0} \cup LineEnds', upto : LineEnds']
        /\ line.from < line.upto /\ \A i \in line.from+1 .. line.upto-1 : stream'[i] # "LF"
    BY DEF Lines
  <2>2. line.from \in Nat /\ line.upto \in Nat
    <3>1. line.from \in {0} \cup LineEnds' /\ line.upto \in LineEnds'
      BY <2>1
    <3>2. {0} \cup LineEnds' \subseteq Nat
      BY <1>2
    <3> QED BY <1>2, <3>1, <3>2, Zenon
  <2>3. line.from \in 0 .. filled /\ line.upto \in 0 .. filled
    BY <1>0, <1>5, <2>1, <2>2
  <2>4. line \in [from : {0} \cup LineEnds, upto : LineEnds]
    BY <1>1, <2>1, <2>3
  <2>5. \A i \in line.from+1 .. line.upto-1 : stream[i] # "LF"
    <3>1. \A i \in line.from+1 .. line.upto-1 : i \in 1 .. filled
      BY <1>0, <2>2, <2>3
    <3> QED BY <1>0, <2>1, <3>1
  <2>6. ReplyTo(line)' = ReplyTo(line)
    BY <1>3, <1>5, <2>1, <2>2 DEF ReplyTo
  <2> QED BY <2>1, <2>4, <2>5, <2>6 DEF Lines
<1> QED BY <1>1, <1>4, <1>5

\* The same for the packets.
LEMMA PacketsStable ==
  ASSUME TypeOK, TypeOK', Server \/ UNCHANGED stream
  PROVE  /\ \A packet \in Packets : packet.upto <= filled => packet \in Packets'
         /\ \A packet \in Packets' : packet.upto <= filled => packet \in Packets
<1>0. /\ filled \in Nat
      /\ \A line \in Lines : line.upto \in Nat
      /\ \A line \in Lines' : line.upto \in Nat
  <2>1. LineEnds \subseteq Nat /\ LineEnds' \subseteq Nat
    BY LenProperties DEF TypeOK, LineEnds
  <2> QED BY <2>1 DEF TypeOK, Lines
<1>1. /\ \A line \in Lines : line.upto <= filled => line \in Lines' /\ ReplyTo(line)' = ReplyTo(line)
      /\ \A line \in Lines' : line.upto <= filled => line \in Lines /\ ReplyTo(line)' = ReplyTo(line)
  BY LinesStable
<1>2. ASSUME NEW packet \in Packets, packet.upto <= filled
      PROVE  packet \in Packets'
  <2>1. packet \in Lines /\ ~ IsComment(ReplyTo(packet).text)
    BY DEF Packets
  <2>2. packet \in Lines' /\ ReplyTo(packet)' = ReplyTo(packet)
    BY <1>1, <1>2, <2>1
  <2>3. ASSUME NEW earlier \in Lines', earlier.upto <= packet.upto
        PROVE  ReplyTo(earlier)'.kind = "line"
    <3>1. earlier.upto <= filled
      BY <1>0, <1>2, <2>1, <2>3
    <3>2. earlier \in Lines /\ ReplyTo(earlier)' = ReplyTo(earlier)
      BY <1>1, <3>1
    <3> QED BY <2>3, <3>2 DEF Packets
  <2> QED BY <2>1, <2>2, <2>3 DEF Packets
<1>3. ASSUME NEW packet \in Packets', packet.upto <= filled
      PROVE  packet \in Packets
  <2>1. packet \in Lines' /\ ~ IsComment(ReplyTo(packet)'.text)
    BY DEF Packets
  <2>2. packet \in Lines /\ ReplyTo(packet)' = ReplyTo(packet)
    BY <1>1, <1>3, <2>1
  <2>3. ASSUME NEW earlier \in Lines, earlier.upto <= packet.upto
        PROVE  ReplyTo(earlier).kind = "line"
    <3>1. earlier.upto <= filled
      BY <1>0, <1>3, <2>1, <2>3
    <3>2. earlier \in Lines' /\ ReplyTo(earlier)' = ReplyTo(earlier)
      BY <1>1, <3>1
    <3> QED BY <2>3, <3>2 DEF Packets
  <2> QED BY <2>1, <2>2, <2>3 DEF Packets
<1> QED BY <1>2, <1>3

\* Steps in which read_packet does not return, and the flush, leave everything
\* written as it is (dataset-capture.rs:53-66).
LEMMA QuietStep ==
  ASSUME CaptureInv, TypeOK', Server \/ UNCHANGED stream,
         UNCHANGED <<start, results, written>>,
         \/ phase' = phase
         \/ phase' = "done" /\ phase = "flushing"
         \/ phase' = "failed" /\ captured = PacketLimit
  PROVE  GoodSoFar' /\ \E kept : KeptInv(kept)'
<1>0. /\ TypeOK /\ GoodSoFar /\ LoopInv /\ start \in Nat /\ filled \in Nat /\ start <= filled
  BY DEF CaptureInv, IInv, TypeOK
<1>1. /\ \A k \in 0 .. filled : k \in LineEnds' <=> k \in LineEnds
      /\ \A line \in Lines : line.upto <= filled => line \in Lines' /\ ReplyTo(line)' = ReplyTo(line)
      /\ \A line \in Lines' : line.upto <= filled => line \in Lines /\ ReplyTo(line)' = ReplyTo(line)
  BY <1>0, LinesStable
<1>2. /\ \A packet \in Packets : packet.upto <= filled => packet \in Packets'
      /\ \A packet \in Packets' : packet.upto <= filled => packet \in Packets
  BY <1>0, PacketsStable
<1>3. /\ \A line \in Lines : line.upto \in Nat
      /\ \A line \in Lines' : line.upto \in Nat
      /\ \A packet \in Packets : packet \in Lines
      /\ \A packet \in Packets' : packet \in Lines'
  <2>1. LineEnds \subseteq Nat /\ LineEnds' \subseteq Nat
    BY <1>0, LenProperties DEF TypeOK, LineEnds
  <2> QED BY <2>1 DEF Lines, Packets
<1>4. captured' = captured
  BY DEF captured
<1>5. phase' # "failed" => phase # "failed"
  BY <1>0
<1>6. GoodSoFar'
  <2> SUFFICES ASSUME phase' # "failed"
               PROVE  /\ start' \in {0} \cup LineEnds'
                      /\ \A line \in Lines' : line.upto <= start' => ReplyTo(line)'.kind = "line"
    BY DEF GoodSoFar
  <2>1. /\ start \in {0} \cup LineEnds
        /\ \A line \in Lines : line.upto <= start => ReplyTo(line).kind = "line"
    BY <1>0, <1>5 DEF GoodSoFar
  <2>2. start' \in {0} \cup LineEnds'
    <3>1. start \in 0 .. filled
      BY <1>0
    <3> QED BY <1>1, <2>1, <3>1
  <2>3. ASSUME NEW line \in Lines', line.upto <= start'
        PROVE  ReplyTo(line)'.kind = "line"
    <3>1. line.upto <= filled /\ line.upto <= start
      BY <1>0, <1>3, <2>3
    <3> QED BY <1>1, <2>1, <3>1
  <2> QED BY <2>2, <2>3
<1>7. PICK kept : KeptInv(kept)
  BY DEF CaptureInv
<1>8. KeptInv(kept)'
  <2>1. ASSUME NEW k \in 1 .. captured
        PROVE  /\ kept[k] \in Packets /\ kept[k] \in Packets'
               /\ written'[k] = ReplyTo(kept[k])'.text /\ kept[k].upto <= start'
               /\ kept[k].upto \in Nat /\ kept[k].upto <= start
    <3>1. kept[k] \in Packets /\ written[k] = ReplyTo(kept[k]).text /\ kept[k].upto <= start
      BY <1>7 DEF KeptInv
    <3>2. kept[k] \in Lines /\ kept[k].upto \in Nat /\ kept[k].upto <= filled
      BY <1>0, <1>3, <3>1
    <3>3. kept[k] \in Packets' /\ ReplyTo(kept[k])' = ReplyTo(kept[k])
      BY <1>1, <1>2, <3>1, <3>2
    <3> QED BY <3>1, <3>2, <3>3
  <2>2. kept \in [1 .. captured' -> Packets']
    BY <1>4, <1>7, <2>1 DEF KeptInv
  <2>3. ASSUME NEW packet \in Packets', packet.upto <= start
        PROVE  packet \in Packets
    <3>1. packet.upto <= filled
      BY <1>0, <1>3, <2>3
    <3> QED BY <1>2, <3>1
  <2>4. ASSUME NEW packet \in Packets', NEW k \in 1 .. captured, packet.upto <= kept[k].upto
        PROVE  \E j \in 1 .. captured : packet = kept[j]
    <3>1. packet.upto <= start
      BY <1>0, <1>3, <2>1, <2>4
    <3>2. packet \in Packets
      BY <2>3, <3>1
    <3> QED BY <1>7, <2>4, <3>2 DEF KeptInv
  <2>5. ASSUME phase' # "failed", NEW packet \in Packets', packet.upto <= start'
        PROVE  \E j \in 1 .. captured : packet = kept[j]
    <3>1. packet \in Packets /\ packet.upto <= start
      BY <2>3, <2>5
    <3> QED BY <1>5, <1>7, <2>5, <3>1 DEF KeptInv
  <2>6. ASSUME phase' = "failed"
        PROVE  \/ results' # <<>> /\ results'[Len(results')].reply.kind # "line"
               \/ \E packet \in Packets' : /\ packet.upto <= start'
                                           /\ \A k \in 1 .. captured : packet # kept[k]
               \/ captured = PacketLimit
    <3>1. CASE captured = PacketLimit
      BY <3>1
    <3>2. CASE phase = "failed"
      <4>1. \/ results # <<>> /\ results[Len(results)].reply.kind # "line"
            \/ \E packet \in Packets : /\ packet.upto <= start
                                       /\ \A k \in 1 .. captured : packet # kept[k]
            \/ captured = PacketLimit
        BY <1>7, <3>2 DEF KeptInv
      <4>2. ASSUME NEW packet \in Packets, packet.upto <= start
            PROVE  packet \in Packets' /\ packet.upto <= start'
        <5>1. packet.upto <= filled
          BY <1>0, <1>3, <4>2
        <5> QED BY <1>2, <4>2, <5>1
      <4> QED BY <4>1, <4>2
    <3> QED BY <2>6, <3>1, <3>2
  <2>7. \A j, k \in 1 .. captured : j < k => kept[j].upto < kept[k].upto
    BY <1>7 DEF KeptInv
  <2> QED BY <1>4, <2>1, <2>2, <2>4, <2>5, <2>6, <2>7 DEF KeptInv
<1> QED BY <1>6, <1>8

\* read_packet comes back: the reply is the last of the results, and unless it is
\* the text of a line the call is over (aprsis.rs:90-158).
LEMMA AnswerIs ==
  ASSUME TypeOK, NEW reply, NEW upto, Answer(reply, upto)
  PROVE  /\ start' = upto /\ results' # <<>> /\ results'[Len(results')].reply = reply
         /\ reply.kind # "line" => call' = "idle"
         /\ call = "read_packet" /\ reply.kind = "line" /\ IsComment(reply.text) => call' = call
         /\ reply.kind = "line" /\ ~ IsComment(reply.text) => call' = "idle"
<1> DEFINE r == [reply |-> reply, from |-> start, upto |-> upto, skipped |-> Skips(reply)]
<1>1. results' = Append(results, r) /\ r.reply = reply /\ results \in Seq(Result)
  BY DEF Answer, TypeOK
<1>2. call' = (IF Skips(reply) THEN call ELSE "idle") /\ start' = upto
  BY DEF Answer
<1> HIDE DEF r
<1>3. Len(results) \in Nat /\ Len(results') = Len(results) + 1 /\ results'[Len(results) + 1] = r
  BY <1>1, AppendProperties, LenProperties
<1>4. results' # <<>>
  BY <1>3
<1>5. results'[Len(results')].reply = reply
  BY <1>1, <1>3
<1> QED BY <1>2, <1>4, <1>5 DEF Skips

\* An error or the end of the stream ends the loop (dataset-capture.rs:61).
LEMMA FailStep ==
  ASSUME CaptureInv, TypeOK', UNCHANGED <<stream, written>>,
         NEW n \in Nat, start <= n, start' = n, phase' = "failed",
         \/ results' # <<>> /\ results'[Len(results')].reply.kind # "line"
         \/ \E packet \in Packets : packet.upto = n /\ start < n
  PROVE  GoodSoFar' /\ \E kept : KeptInv(kept)'
<1>1. GoodSoFar'
  BY DEF GoodSoFar
<1>2. PICK kept : KeptInv(kept)
  BY DEF CaptureInv
<1>3. /\ captured' = captured /\ Packets' = Packets /\ start \in Nat
      /\ \A packet \in Packets : ReplyTo(packet)' = ReplyTo(packet)
      /\ \A packet \in Packets : packet.upto \in Nat
  <2>1. captured' = captured /\ start \in Nat
    BY DEF captured, CaptureInv, IInv, TypeOK
  <2>2. LineEnds' = LineEnds /\ \A f, u : Abstract!LineReply(f, u)' = Abstract!LineReply(f, u)
    BY DEF LineEnds, Abstract!LineReply
  <2>3. Lines' = Lines /\ \A line : ReplyTo(line)' = ReplyTo(line)
    BY <2>2 DEF Lines, ReplyTo
  <2>4. Packets' = Packets
    BY <2>3 DEF Packets
  <2>5. LineEnds \subseteq Nat
    BY LenProperties DEF LineEnds, CaptureInv, IInv, TypeOK
  <2> QED BY <2>1, <2>3, <2>4, <2>5 DEF Packets, Lines
<1>4. ASSUME NEW k \in 1 .. captured
      PROVE  /\ kept[k] \in Packets /\ written'[k] = ReplyTo(kept[k])'.text
             /\ kept[k].upto <= start' /\ kept[k].upto <= start
  <2>1. kept[k] \in Packets /\ written[k] = ReplyTo(kept[k]).text /\ kept[k].upto <= start
    BY <1>2 DEF KeptInv
  <2>2. kept[k].upto \in Nat
    BY <1>3, <2>1
  <2>3. kept[k].upto <= start'
    BY <1>3, <2>1, <2>2
  <2> QED BY <1>3, <2>1, <2>3
<1>5. \/ results' # <<>> /\ results'[Len(results')].reply.kind # "line"
      \/ \E packet \in Packets : /\ packet.upto <= start'
                                 /\ \A k \in 1 .. captured : packet # kept[k]
  <2> SUFFICES ASSUME NEW packet \in Packets, packet.upto = n, start < n
               PROVE  packet.upto <= start' /\ \A k \in 1 .. captured : packet # kept[k]
    OBVIOUS
  <2>1. packet.upto <= start'
    OBVIOUS
  <2>2. ASSUME NEW k \in 1 .. captured, packet = kept[k] PROVE FALSE
    <3>1. n <= start
      BY <1>4, <2>2
    <3> QED BY <1>3, <3>1
  <2> QED BY <2>1, <2>2
<1>6. KeptInv(kept)'
  <2>1. /\ kept \in [1 .. captured' -> Packets']
        /\ \A j, k \in 1 .. captured : j < k => kept[j].upto < kept[k].upto
        /\ \A packet \in Packets, k \in 1 .. captured :
             packet.upto <= kept[k].upto => \E j \in 1 .. captured : packet = kept[j]
    BY <1>2, <1>3 DEF KeptInv
  <2> QED BY <1>3, <1>4, <1>5, <2>1 DEF KeptInv
<1> QED BY <1>1, <1>6

\* Between two line feeds there is one line.
LEMMA NextLine ==
  ASSUME TypeOK, start \in {0} \cup LineEnds,
         NEW upto \in Nat, upto \in LineEnds, start < upto,
         \A i \in start+1 .. upto-1 : stream[i] # "LF"
  PROVE  /\ [from |-> start, upto |-> upto] \in Lines
         /\ \A line \in Lines : line.upto <= upto =>
              line.upto <= start \/ line = [from |-> start, upto |-> upto]
<1>0. LineEnds \subseteq Nat /\ start \in Nat /\ Len(stream) \in Nat
  BY LenProperties DEF TypeOK, LineEnds
<1>1. [from |-> start, upto |-> upto] \in Lines
  BY LinesAre DEF IsLine
<1>2. ASSUME NEW line \in Lines, line.upto <= upto, ~ (line.upto <= start)
      PROVE  line = [from |-> start, upto |-> upto]
  <2>1. /\ line \in [from : {0} \cup LineEnds, upto : LineEnds]
        /\ line.from < line.upto
        /\ \A i \in line.from+1 .. line.upto-1 : stream[i] # "LF"
    BY DEF Lines
  <2>2. line.from \in {0} \cup LineEnds /\ line.upto \in LineEnds
    BY <2>1
  <2>3. line.from \in Nat /\ line.upto \in Nat
    <3>1. {0} \cup LineEnds \subseteq Nat
      BY <1>0
    <3> QED BY <1>0, <2>2, <3>1, Zenon
  <2>4. line.upto = upto
    <3>1. stream[line.upto] = "LF"
      BY <2>2 DEF LineEnds
    <3>2. line.upto \notin start+1 .. upto-1
      BY <3>1
    <3> QED BY <1>0, <1>2, <2>3, <3>2
  <2>5. ~ (line.from < start)
    <3> SUFFICES ASSUME line.from < start PROVE FALSE
      OBVIOUS
    <3>1. start # 0
      BY <2>3
    <3>2. stream[start] = "LF"
      BY <3>1 DEF LineEnds
    <3>3. start \in line.from+1 .. line.upto-1
      BY <1>0, <2>3, <2>4
    <3> QED BY <2>1, <3>2, <3>3
  <2>6. ~ (start < line.from)
    <3> SUFFICES ASSUME start < line.from PROVE FALSE
      OBVIOUS
    <3>1. line.from # 0
      BY <1>0, <2>3
    <3>2. stream[line.from] = "LF"
      BY <2>2, <3>1 DEF LineEnds
    <3>3. line.from \in start+1 .. upto-1
      BY <1>0, <2>1, <2>3, <2>4
    <3> QED BY <3>2, <3>3
  <2>7. line.from = start
    BY <1>0, <2>3, <2>5, <2>6
  <2> QED BY <2>1, <2>4, <2>7
<1> QED BY <1>1, <1>2

\* A line feed is reached: a packet is written, a comment passed over, and a line
\* that cannot be decoded ends the loop (dataset-capture.rs:53-63, aprsis.rs:151-158).
LEMMA LineStep ==
  ASSUME CaptureInv, TypeOK', TakeLine, Answered
  PROVE  LoopInv' /\ GoodSoFar' /\ \E kept : KeptInv(kept)'
<1>0. /\ TypeOK /\ BufferHoldsLine /\ LoopInv /\ GoodSoFar /\ call # "idle" /\ start \in Nat
      /\ PacketLimit \in Nat
  BY PacketLimitAssumption DEF CaptureInv, IInv, TypeOK, TakeLine
<1>1. phase = "running" /\ call = "read_packet" /\ captured \in Nat /\ captured < PacketLimit
  BY <1>0, LenProperties DEF LoopInv, captured
<1>2. PICK upto \in taken+1 .. filled :
        /\ stream[upto] = "LF"
        /\ \A i \in taken+1 .. upto-1 : stream[i] # "LF"
        /\ Answer(FinishedReply(BufferAfter(upto), DiscardingAfter(upto)), upto)
  BY DEF TakeLine
<1>3. PICK line : line = [from |-> start, upto |-> upto]
  OBVIOUS
<1>4. FinishedReply(BufferAfter(upto), DiscardingAfter(upto)) = ReplyTo(line)
  <2>1. FinishedReply(BufferAfter(upto), DiscardingAfter(upto)) = Abstract!LineReply(start, upto)
    BY <1>0, BufferGrows, SameOperators DEF FinishedReply, Abstract!LineReply
  <2>2. line.from = start /\ line.upto = upto
    BY <1>3
  <2> QED BY <2>1, <2>2 DEF ReplyTo
<1>5. /\ upto \in Nat /\ start < upto /\ upto \in LineEnds
      /\ \A i \in start+1 .. upto-1 : stream[i] # "LF"
  BY <1>0, <1>2 DEF BufferHoldsLine, TypeOK, LineEnds
<1>6. /\ start \in {0} \cup LineEnds
      /\ \A other \in Lines : other.upto <= start => ReplyTo(other).kind = "line"
  BY <1>0, <1>1 DEF GoodSoFar
<1>7. /\ line \in Lines /\ line.upto = upto
      /\ \A other \in Lines : other.upto <= upto => other.upto <= start \/ other = line
  BY <1>0, <1>3, <1>5, <1>6, NextLine
<1>8. stream' = stream
  BY DEF TakeLine, netVars
<1>9. PICK reply : reply = ReplyTo(line)
  OBVIOUS
<1>10. Answer(reply, upto)
  BY <1>2, <1>4, <1>9
<1>11. /\ start' = upto /\ results' # <<>> /\ results'[Len(results')].reply = reply
       /\ reply.kind # "line" => call' = "idle"
       /\ reply.kind = "line" /\ IsComment(reply.text) => call' = "read_packet"
       /\ reply.kind = "line" /\ ~ IsComment(reply.text) => call' = "idle"
  BY <1>0, <1>1, <1>10, AnswerIs
<1>12. /\ Packets' = Packets /\ LineEnds' = LineEnds /\ Lines' = Lines
       /\ \A other : ReplyTo(other)' = ReplyTo(other)
       /\ \A packet \in Packets : packet \in Lines
       /\ \A other \in Lines : other.upto \in Nat
  <2>1. LineEnds' = LineEnds /\ \A f, u : Abstract!LineReply(f, u)' = Abstract!LineReply(f, u)
    BY <1>8 DEF LineEnds, Abstract!LineReply
  <2>2. Lines' = Lines /\ \A other : ReplyTo(other)' = ReplyTo(other)
    BY <1>8, <2>1 DEF Lines, ReplyTo
  <2>3. Packets' = Packets
    BY <2>2 DEF Packets
  <2>4. LineEnds \subseteq Nat
    BY <1>0, LenProperties DEF LineEnds, TypeOK
  <2> QED BY <2>1, <2>2, <2>3, <2>4 DEF Packets, Lines
<1>13. CASE reply.kind # "line"
  <2>1. phase' = "failed" /\ written' = written /\ call' = "idle"
    BY <1>11, <1>13 DEF Answered, Handle, loopVars
  <2>2. GoodSoFar' /\ \E kept : KeptInv(kept)'
    <3>1. start <= upto
      BY <1>0, <1>5
    <3> QED BY <1>5, <1>8, <1>11, <1>13, <2>1, <3>1, FailStep
  <2>3. LoopInv'
    BY <1>0, <2>1 DEF LoopInv, captured
  <2> QED BY <2>2, <2>3
<1>14. CASE reply.kind = "line" /\ IsComment(reply.text)
  <2>1. phase' = phase /\ written' = written /\ call' = "read_packet"
    BY <1>11, <1>14 DEF Answered, loopVars
  <2>2. LoopInv'
    BY <1>0, <1>1, <2>1 DEF LoopInv, captured
  <2>3. GoodSoFar'
    <3>1. \A other \in Lines : other.upto <= upto => ReplyTo(other).kind = "line"
      BY <1>6, <1>7, <1>9, <1>14
    <3> QED BY <1>5, <1>11, <1>12, <3>1 DEF GoodSoFar
  <2>4. PICK kept : KeptInv(kept)
    BY DEF CaptureInv
  <2>5. captured' = captured
    BY <2>1 DEF captured
  <2>6. \A packet \in Packets : packet.upto <= upto => packet.upto <= start
    BY <1>7, <1>9, <1>12, <1>14 DEF Packets
  <2>7. ASSUME NEW k \in 1 .. captured
        PROVE  written'[k] = ReplyTo(kept[k])'.text /\ kept[k].upto <= start'
    <3>1. kept[k] \in Packets /\ written[k] = ReplyTo(kept[k]).text /\ kept[k].upto <= start
      BY <2>4 DEF KeptInv
    <3>2. kept[k].upto \in Nat
      BY <1>12, <3>1
    <3>3. kept[k].upto <= start'
      BY <1>0, <1>5, <1>11, <3>1, <3>2
    <3> QED BY <1>12, <2>1, <3>1, <3>3
  <2>8. KeptInv(kept)'
    <3>1. /\ kept \in [1 .. captured' -> Packets']
          /\ \A j, k \in 1 .. captured : j < k => kept[j].upto < kept[k].upto
          /\ \A packet \in Packets, k \in 1 .. captured :
               packet.upto <= kept[k].upto => \E j \in 1 .. captured : packet = kept[j]
          /\ \A packet \in Packets : packet.upto <= start => \E j \in 1 .. captured : packet = kept[j]
      BY <1>1, <1>12, <2>4, <2>5 DEF KeptInv
    <3>2. \A packet \in Packets : packet.upto <= start' => \E j \in 1 .. captured : packet = kept[j]
      BY <1>11, <2>6, <3>1
    <3>3. phase' # "failed"
      BY <1>1, <2>1
    <3> QED BY <1>12, <2>5, <2>7, <3>1, <3>2, <3>3 DEF KeptInv
  <2> QED BY <2>2, <2>3, <2>8
<1>15. CASE reply.kind = "line" /\ ~ IsComment(reply.text)
  <2>1. call' = "idle" /\ Handle(results'[Len(results')].reply)
    BY <1>11, <1>15 DEF Answered
  <2>2. Keep(reply.text)
    BY <1>11, <1>15, <2>1 DEF Handle
  <2>3. \A other \in Lines : other.upto <= upto => ReplyTo(other).kind = "line"
    BY <1>6, <1>7, <1>9, <1>15
  <2>4. line \in Packets
    BY <1>7, <1>9, <1>15, <2>3 DEF Packets
  <2>5. CASE phase' = "failed" /\ UNCHANGED written
    <3>1. \E packet \in Packets : packet.upto = upto /\ start < upto
      BY <1>5, <1>7, <2>4
    <3>2. GoodSoFar' /\ \E kept : KeptInv(kept)'
      <4>1. start <= upto
        BY <1>0, <1>5
      <4> QED BY <1>5, <1>8, <1>11, <2>5, <3>1, <4>1, FailStep
    <3>3. LoopInv'
      BY <1>0, <2>1, <2>5 DEF LoopInv, captured
    <3> QED BY <3>2, <3>3
  <2>6. CASE /\ written' = Append(written, reply.text)
             /\ phase' = IF captured + 1 < PacketLimit THEN "running" ELSE "flushing"
    <3>1. PICK n \in Nat : n = captured + 1
      BY <1>1
    <3>2. reply.text \in Seq(Byte)
      <4>1. SubSeq(stream, start + 1, upto) \in Seq(Byte)
        <5>1. start <= upto /\ upto <= Len(stream)
          BY <1>0, <1>2, <1>5 DEF TypeOK
        <5> QED BY <1>0, <1>5, <5>1, Between DEF TypeOK
      <4>2. Decode(SubSeq(stream, start + 1, upto)) \in [kind : Kinds, text : Seq(Byte)]
        BY <4>1, DecodeType
      <4>3. Abstract!LineReply(start, upto) = IF upto - start > MaxLine THEN Reply("oversized")
                                              ELSE Decode(SubSeq(stream, start + 1, upto))
        BY SameOperators DEF Abstract!LineReply
      <4>4. reply = Abstract!LineReply(start, upto)
        BY <1>3, <1>9 DEF ReplyTo
      <4>5. Reply("oversized").kind # "line"
        BY DEF Reply
      <4> QED BY <1>15, <4>2, <4>3, <4>4, <4>5
    <3>3. /\ written' \in Seq(Seq(Byte)) /\ Len(written') = n /\ Len(written) = captured
          /\ \A k \in 1 .. captured : written'[k] = written[k]
          /\ written'[n] = reply.text
      BY <1>0, <2>6, <3>1, <3>2, AppendProperties, LenProperties DEF LoopInv, captured
    <3>4. captured' = n
      BY <3>3 DEF captured
    <3>5. LoopInv'
      BY <1>0, <1>1, <2>1, <2>6, <3>1, <3>3, <3>4 DEF LoopInv
    <3>6. phase' # "failed"
      BY <2>6
    <3>7. GoodSoFar'
      BY <1>5, <1>11, <1>12, <2>3 DEF GoodSoFar
    <3>8. PICK kept : KeptInv(kept)
      BY DEF CaptureInv
    <3>9. PICK now : now = [k \in 1 .. n |-> IF k = n THEN line ELSE kept[k]]
      OBVIOUS
    <3>10. now[n] = line /\ \A k \in 1 .. captured : now[k] = kept[k]
      BY <1>1, <3>1, <3>9
    <3>11. ASSUME NEW k \in 1 .. captured
           PROVE  /\ kept[k] \in Packets /\ kept[k].upto \in Nat
                  /\ kept[k].upto <= start /\ kept[k].upto < upto
                  /\ written[k] = ReplyTo(kept[k]).text
      <4>1. kept[k] \in Packets /\ written[k] = ReplyTo(kept[k]).text /\ kept[k].upto <= start
        BY <3>8 DEF KeptInv
      <4>2. kept[k].upto \in Nat
        BY <1>12, <4>1
      <4>3. kept[k].upto < upto
        BY <1>0, <1>5, <4>1, <4>2
      <4> QED BY <4>1, <4>2, <4>3
    <3>12. now \in [1 .. n -> Packets]
      <4>1. ASSUME NEW k \in 1 .. n PROVE now[k] \in Packets
        <5>1. k = n \/ k \in 1 .. captured
          BY <1>1, <3>1
        <5> QED BY <2>4, <3>10, <3>11, <5>1
      <4> QED BY <3>9, <4>1
    <3>13. ASSUME NEW k \in 1 .. n
           PROVE  written'[k] = ReplyTo(now[k])'.text /\ now[k].upto <= upto
      <4>1. CASE k = n
        BY <1>5, <1>7, <1>9, <1>12, <3>3, <3>10, <4>1
      <4>2. CASE k \in 1 .. captured
        <5>1. kept[k].upto <= upto
          BY <1>5, <3>11, <4>2
        <5> QED BY <1>12, <3>3, <3>10, <3>11, <4>2, <5>1
      <4> QED BY <1>1, <3>1, <4>1, <4>2
    <3>14. ASSUME NEW j \in 1 .. n, NEW k \in 1 .. n, j < k
           PROVE  now[j].upto < now[k].upto
      <4>1. j \in 1 .. captured /\ (k = n \/ k \in 1 .. captured)
        BY <1>1, <3>1, <3>14
      <4>2. CASE k = n
        BY <1>7, <3>10, <3>11, <4>1, <4>2
      <4>3. CASE k \in 1 .. captured
        BY <3>8, <3>10, <3>14, <4>1, <4>3 DEF KeptInv
      <4> QED BY <4>1, <4>2, <4>3
    <3>15. ASSUME NEW packet \in Packets, packet.upto <= upto
           PROVE  \E j \in 1 .. n : packet = now[j]
      <4>1. packet.upto <= start \/ packet = line
        BY <1>7, <1>12, <3>15
      <4>2. CASE packet = line
        <5>1. n \in 1 .. n
          BY <1>1, <3>1
        <5> QED BY <3>10, <4>2, <5>1
      <4>3. CASE packet.upto <= start
        <5>1. PICK j \in 1 .. captured : packet = kept[j]
          BY <1>1, <3>8, <4>3 DEF KeptInv
        <5>2. j \in 1 .. n
          BY <1>1, <3>1
        <5> QED BY <3>10, <5>1, <5>2
      <4> QED BY <4>1, <4>2, <4>3
    <3>16. ASSUME NEW packet \in Packets, NEW k \in 1 .. n, packet.upto <= now[k].upto
           PROVE  \E j \in 1 .. n : packet = now[j]
      <4>1. packet.upto \in Nat /\ now[k].upto \in Nat /\ now[k].upto <= upto
        <5>1. now[k] \in Packets
          BY <3>12
        <5> QED BY <1>12, <3>13, <5>1
      <4>2. packet.upto <= upto
        BY <1>5, <3>16, <4>1
      <4> QED BY <3>15, <4>2
    <3>17. KeptInv(now)'
      BY <1>11, <1>12, <3>4, <3>6, <3>12, <3>13, <3>14, <3>15, <3>16 DEF KeptInv
    <3> QED BY <3>5, <3>7, <3>17
  <2> QED BY <2>2, <2>5, <2>6 DEF Keep
<1> QED BY <1>13, <1>14, <1>15

\* A capture starts with nothing written.
LEMMA CaptureStart == CInit => CaptureInv
<1> SUFFICES ASSUME CInit PROVE CaptureInv
  OBVIOUS
<1>1. IInv
  BY InitInv DEF CInit
<1>2. stream = <<>> /\ start = 0 /\ call = "idle" /\ phase = "running" /\ written = <<>>
  BY DEF CInit, Init
<1>3. captured = 0 /\ LineEnds = {} /\ Lines = {}
  <2>1. captured = 0
    BY <1>2, EmptySeq DEF captured
  <2>2. LineEnds = {}
    BY <1>2, EmptySeq DEF LineEnds
  <2> QED BY <2>1, <2>2 DEF Lines
<1>4. LoopInv
  <2>1. written \in Seq(Seq(Byte))
    BY <1>2, EmptySeq, Zenon
  <2> QED BY <1>2, <1>3, <2>1, PacketLimitAssumption DEF LoopInv
<1>5. GoodSoFar
  BY <1>2, <1>3 DEF GoodSoFar
<1>6. \E kept : KeptInv(kept)
  <2>1. PICK kept : kept = [k \in 1 .. captured |-> 0]
    OBVIOUS
  <2>2. kept \in [1 .. captured -> Packets] /\ Packets = {}
    BY <1>3, <2>1 DEF Packets
  <2> QED BY <1>2, <1>3, <2>2 DEF KeptInv
<1> QED BY <1>1, <1>4, <1>5, <1>6 DEF CaptureInv

\* Every step keeps the invariant of the capture.
LEMMA CaptureStep == CaptureInv /\ [CNext]_allVars => CaptureInv'
<1> SUFFICES ASSUME CaptureInv, [CNext]_allVars PROVE CaptureInv'
  OBVIOUS
<1>0. IInv /\ IInv' /\ TypeOK /\ TypeOK' /\ LoopInv
  BY LoopSteps, StepInv DEF CaptureInv, IInv
<1>1. CASE \/ Server /\ UNCHANGED loopVars
           \/ ReadPacket \/ TimedOut
           \/ (FillBuf \/ TakeAll) /\ UNCHANGED loopVars
           \/ Flush \/ Exited \/ UNCHANGED allVars
  <2>1. /\ Server \/ UNCHANGED stream
        /\ UNCHANGED <<start, results, written>>
    BY <1>1 DEF Server, ServerWrite, ServerClose, Reset, ReadPacket, StartRead, TimedOut,
          Timeout, FillBuf, TakeAll, Flush, Exited, vars, allVars, loopVars, netVars,
          readerVars, replyVars
  <2>2. \/ phase' = phase
        \/ phase' = "done" /\ phase = "flushing"
        \/ phase' = "failed" /\ captured = PacketLimit
    BY <1>0, <1>1 DEF LoopInv, ReadPacket, TimedOut, Flush, Exited, allVars, loopVars
  <2>3. GoodSoFar' /\ \E kept : KeptInv(kept)'
    BY <1>0, <2>1, <2>2, QuietStep
  <2>4. /\ \/ call' = call \/ call' = "idle"
           \/ call' = "read_packet" /\ phase = "running"
        /\ phase = "running" => phase' = phase
    <3>1. CASE ReadPacket
      BY <3>1 DEF ReadPacket, StartRead, loopVars
    <3>2. CASE TimedOut
      BY <3>2 DEF TimedOut, Timeout, loopVars
    <3>3. CASE Flush \/ Exited
      BY <3>3 DEF Flush, Exited, vars, allVars, loopVars, replyVars
    <3>4. CASE \/ (Server \/ FillBuf \/ TakeAll) /\ UNCHANGED loopVars
               \/ UNCHANGED allVars
      BY <3>4 DEF Server, ServerWrite, ServerClose, Reset, FillBuf, TakeAll, vars, allVars,
            loopVars, replyVars
    <3> QED BY <1>1, <3>1, <3>2, <3>3, <3>4
  <2>5. captured' = captured
    BY <2>1 DEF captured
  <2>6. LoopInv'
    BY <1>0, <2>1, <2>2, <2>4, <2>5 DEF LoopInv
  <2> QED BY <1>0, <2>3, <2>6 DEF CaptureInv
<1>2. CASE Answered
  <2>1. CASE TakeLine
    <3>1. LoopInv' /\ GoodSoFar' /\ \E kept : KeptInv(kept)'
      BY <1>0, <1>2, <2>1, LineStep
    <3> QED BY <1>0, <3>1 DEF CaptureInv
  <2>2. CASE ReadEof \/ ReadError
    <3>1. PICK reply, upto :
            /\ Answer(reply, upto) /\ reply.kind # "line"
            /\ upto \in Nat /\ start <= upto
      <4>1. taken \in Nat /\ start \in Nat /\ start <= taken /\ start <= start
        BY <1>0 DEF TypeOK
      <4>2. CASE ReadEof
        <5>1. Answer(EofReply, taken)
          BY <4>2 DEF ReadEof
        <5>2. EofReply.kind # "line"
          BY DEF EofReply, Reply
        <5> QED BY <4>1, <5>1, <5>2
      <4>3. CASE ReadError
        <5>1. Answer(Reply("io_error"), start)
          BY <4>3 DEF ReadError
        <5>2. Reply("io_error").kind # "line"
          BY DEF Reply
        <5> QED BY <4>1, <5>1, <5>2
      <4> QED BY <2>2, <4>2, <4>3
    <3>2. /\ start' = upto /\ results' # <<>> /\ results'[Len(results')].reply = reply
          /\ call' = "idle"
      BY <1>0, <3>1, AnswerIs
    <3>3. phase' = "failed" /\ written' = written
      BY <1>2, <3>1, <3>2 DEF Answered, Handle
    <3>4. stream' = stream
      BY <2>2 DEF ReadEof, ReadError, netVars
    <3>5. GoodSoFar' /\ \E kept : KeptInv(kept)'
      BY <1>0, <3>1, <3>2, <3>3, <3>4, FailStep
    <3>6. LoopInv'
      BY <1>0, <3>2, <3>3 DEF LoopInv, captured
    <3> QED BY <1>0, <3>5, <3>6 DEF CaptureInv
  <2> QED BY <1>2, <2>1, <2>2 DEF Answered
<1> QED BY <1>1, <1>2 DEF CNext

\* What the invariant says of the packets written.
LEMMA CaptureIs == CaptureInv => WritesThePackets
<1> SUFFICES ASSUME CaptureInv PROVE WritesThePackets
  OBVIOUS
<1>1. PICK kept : KeptInv(kept)
  BY DEF CaptureInv
<1>2. /\ kept \in [1 .. captured -> Packets]
      /\ \A k \in 1 .. captured : written[k] = ReplyTo(kept[k]).text
      /\ \A j, k \in 1 .. captured : j < k => kept[j].upto < kept[k].upto
      /\ \A packet \in Packets, k \in 1 .. captured :
           packet.upto <= kept[k].upto => \E j \in 1 .. captured : packet = kept[j]
      /\ phase = "failed" =>
           \/ results # <<>> /\ results[Len(results)].reply.kind # "line"
           \/ \E packet \in Packets : \A k \in 1 .. captured : packet # kept[k]
           \/ captured = PacketLimit
  BY <1>1 DEF KeptInv
<1>3. phase = "done" => captured = PacketLimit
  BY DEF CaptureInv, LoopInv
<1> QED BY <1>2, <1>3 DEF WritesThePackets

\* The invariant holds throughout a capture: the client's own invariant tells
\* which line a reply answers, and that the loop stands between two lines tells
\* that it is the next one (dataset-capture.rs:53-66).
THEOREM CaptureInvariance == CSpec => []CaptureInv
BY CaptureStart, CaptureStep, PTL DEF CSpec

\* What is written is the packets of the stream in order and without a gap, and
\* only an error ends the capture early (dataset-capture.rs:53-63).
THEOREM CaptureWritesThePackets == CSpec => []WritesThePackets
BY CaptureInvariance, CaptureIs, PTL

-----------------------------------------------------------------------------
(* Sending: what stands on the wire.                                       *)

\* What the wire holds: pieces of lines and terminators.
Piece == ((Line \cup Dirty) \X {1, 2}) \cup {CR, LF}

\* The pieces of a line that send_line accepts: only the last is a line feed.
LEMMA PiecesAre ==
  ASSUME NEW line \in Line
  PROVE  /\ Pieces(line) \in Seq(Piece) /\ Len(Pieces(line)) = 4
         /\ \A k \in 1 .. 4 : Pieces(line)[k] = LF <=> k = 4
<1>1. line \notin Dirty
  BY LineAssumption
<1> DEFINE a == <<line, 1>>
           b == <<line, 2>>
<1>2. Pieces(line) = <<a>> \o <<>> \o <<b, CR, LF>>
  BY <1>1 DEF Pieces
<1>3. a # LF /\ b # LF /\ CR # LF
  BY SMT DEF CR, LF
<1>4. a \in Piece /\ b \in Piece /\ CR \in Piece /\ LF \in Piece
  BY DEF Piece
<1> HIDE DEF a, b
<1> DEFINE c == <<b, CR, LF>>
           P == Pieces(line)
<1>5. <<a>> \in Seq(Piece) /\ c \in Seq(Piece) /\ <<>> \in Seq(Piece)
  BY <1>4, SMT
<1>6. Len(<<a>>) = 1 /\ Len(c) = 3 /\ <<a>>[1] = a /\ c[1] = b /\ c[2] = CR /\ c[3] = LF
  BY SMT
<1>7. <<a>> \o <<>> = <<a>>
  BY <1>5, ConcatEmptySeq
<1>8. P = <<a>> \o c
  BY <1>2, <1>7
<1> HIDE DEF c, P
<1>9. P \in Seq(Piece) /\ Len(P) = 4
  <2>1. P \in Seq(Piece) /\ Len(P) = Len(<<a>>) + Len(c)
    BY <1>5, <1>8, ConcatProperties
  <2>2. 1 + 3 = 4
    BY SMT
  <2> QED BY <1>6, <2>1, <2>2
<1>10. P[1] = a /\ P[2] = b /\ P[3] = CR /\ P[4] = LF
  BY <1>5, <1>6, <1>8, SMT
<1>11. \A k \in 1 .. 4 : k = 1 \/ k = 2 \/ k = 3 \/ k = 4
  BY SMT
<1>12. 1 # 4 /\ 2 # 4 /\ 3 # 4
  BY SMT
<1> QED BY <1>3, <1>9, <1>10, <1>11, <1>12 DEF P

Fate == {"refused", "started", "sent", "failed", "dropped"}
Called == [line : Line \cup Dirty, fate : Fate]

\* No send was given up half-way.
Unspoilt == CallsOf("dropped") \cup CallsOf("failed") = {}

\* Of the calls only the last can be under way, with a line that is accepted.
CallsInv ==
  /\ conn \in {"connecting", "open", "closed", "none"}
  /\ calls \in Seq(Called) /\ out \in Seq(Piece) /\ sending \in Seq(Piece)
  /\ \A i \in 1 .. Len(calls) :
       /\ calls[i].fate \in {"started", "sent"} => calls[i].line \in Line
       /\ calls[i].fate = "started" <=> i = Len(calls) /\ sending # Idle

\* The line of the last call, and the pieces of it that are on the wire.
Current == Pieces(calls[Len(calls)].line)

Written(n) ==
  /\ n \in 0 .. 3 /\ n <= Len(out) /\ Len(sending) = 4 - n
  /\ \A k \in 1 .. 4 - n : sending[k] = Current[n + k]
  /\ \A k \in 1 .. n : out[Len(out) - n + k] = Current[k]

\* A line under way begins where another ended, unless one was given up.
WireInv ==
  /\ sending # Idle =>
       /\ Len(calls) # 0
       /\ \E n \in 0 .. 3 :
            /\ Written(n)
            /\ Unspoilt => Len(out) - n \in {0} \cup Feeds
            /\ conn = "connecting" => Len(calls) = 1 /\ Len(out) = n
  /\ sending = Idle =>
       /\ Unspoilt => Len(out) \in {0} \cup Feeds
       /\ conn = "connecting" => Len(calls) = 0 /\ Len(out) = 0

\* Where the lines of the calls that have been sent end.
EndsInv(ends) ==
  /\ ends \in [CallsOf("sent") -> Feeds]
  /\ Feeds = {ends[i] : i \in CallsOf("sent")}
  /\ \A i \in CallsOf("sent") :
       4 <= ends[i] /\ \A k \in 1 .. 4 : out[ends[i] - 4 + k] = Pieces(calls[i].line)[k]
  /\ \A i, j \in CallsOf("sent") : i < j => ends[i] < ends[j]
  /\ conn \in {"open", "closed"} => 1 \in CallsOf("sent") /\ ends[1] = 4
  /\ Unspoilt => \A i \in CallsOf("sent") : ends[i] - 4 \in {0} \cup Feeds

SendInv == CallsInv /\ WireInv /\ \E ends : EndsInv(ends)

\* The fate of the last call is known when its pieces are written or given up.
LEMMA OutcomeIs ==
  ASSUME calls \in Seq(Called), Len(calls) # 0, NEW fate \in Fate, Outcome(fate)
  PROVE  /\ calls' \in Seq(Called) /\ Len(calls') = Len(calls)
         /\ \A i \in 1 .. Len(calls) : calls'[i].line = calls[i].line
         /\ \A i \in 1 .. Len(calls) : i # Len(calls) => calls'[i].fate = calls[i].fate
         /\ calls'[Len(calls)].fate = fate
<1> DEFINE n == Len(calls)
           new == [calls[n] EXCEPT !.fate = fate]
<1>1. n \in 1 .. n /\ n \in Nat
  BY SMT
<1>2. calls[n] \in Called
  BY <1>1, SMT
<1>3. new \in Called /\ new.line = calls[n].line /\ new.fate = fate
  BY <1>2 DEF Called
<1>4. calls' = [calls EXCEPT ![n] = new]
  BY DEF Outcome
<1> HIDE DEF new
<1>5. calls \in [1 .. n -> Called]
  BY SMT
<1>6. calls' = [i \in 1 .. n |-> IF i = n THEN new ELSE calls[i]]
  BY <1>4, <1>5
<1>7. calls' \in Seq(Called) /\ Len(calls') = n
  <2>1. \A i \in 1 .. n : calls'[i] \in Called
    BY <1>3, <1>5, <1>6
  <2>2. calls' = [i \in 1 .. n |-> calls'[i]]
    BY <1>6
  <2> HIDE DEF n
  <2> QED BY <1>1, <2>1, <2>2, SMT
<1> QED BY <1>1, <1>3, <1>6, <1>7

\* A call is added behind the others.
LEMMA AppendIs ==
  ASSUME calls \in Seq(Called), NEW begun \in Called, calls' = Append(calls, begun)
  PROVE  /\ calls' \in Seq(Called) /\ Len(calls') = Len(calls) + 1
         /\ \A i \in 1 .. Len(calls) : calls'[i] = calls[i]
         /\ calls'[Len(calls) + 1] = begun
BY SMT

\* Pieces that are equal one by one stand in a row.
LEMMA StandIs ==
  ASSUME out \in Seq(Piece), NEW end \in 1 .. Len(out), NEW n \in Nat, n <= end,
         NEW pieces \in Seq(Piece), Len(pieces) = n,
         \A k \in 1 .. n : out[end - n + k] = pieces[k]
  PROVE  SubSeq(out, end - n + 1, end) = pieces
<1> DEFINE s == SubSeq(out, end - n + 1, end)
<1>1. Len(out) \in Nat /\ end \in Nat /\ end <= Len(out)
  BY SMT
<1>2. s \in Seq(Piece) /\ Len(s) = n /\ \A k \in 1 .. n : s[k] = out[end - n + k]
  BY <1>1, SMT
<1> HIDE DEF s
<1>3. s = [k \in 1 .. n |-> s[k]] /\ pieces = [k \in 1 .. n |-> pieces[k]]
  BY <1>2, SMT
<1>4. \A k \in 1 .. n : s[k] = pieces[k]
  BY <1>2
<1>5. s = pieces
  BY <1>3, <1>4
<1> QED BY <1>5 DEF s

\* The ends stay where they are while no line becomes complete.
LEMMA EndsStay ==
  ASSUME NEW ends, EndsInv(ends), out \in Seq(Piece), out' \in Seq(Piece),
         CallsOf("sent")' = CallsOf("sent"), Feeds' = Feeds,
         \A i \in CallsOf("sent") : calls'[i].line = calls[i].line,
         \A k \in 1 .. Len(out) : out'[k] = out[k],
         conn' \in {"open", "closed"} => conn \in {"open", "closed"},
         Unspoilt' => Unspoilt
  PROVE  EndsInv(ends)'
<1>1. \A i \in CallsOf("sent") : ends[i] \in Feeds /\ 4 <= ends[i]
  BY DEF EndsInv
<1>2. Len(out) \in Nat
  BY SMT
<1>3. \A e \in Feeds, k \in 1 .. 4 : 4 <= e => e - 4 + k \in 1 .. Len(out)
  BY <1>2, SMT DEF Feeds
<1>4. ASSUME NEW i \in CallsOf("sent"), NEW k \in 1 .. 4
      PROVE  out'[ends[i] - 4 + k] = Pieces(calls'[i].line)[k]
  <2>1. ends[i] - 4 + k \in 1 .. Len(out)
    BY <1>1, <1>3
  <2>2. out'[ends[i] - 4 + k] = out[ends[i] - 4 + k]
    BY <2>1
  <2>3. out[ends[i] - 4 + k] = Pieces(calls[i].line)[k]
    BY DEF EndsInv
  <2> QED BY <2>2, <2>3
<1> QED BY <1>4 DEF EndsInv

Ends == {"sent", "dropped", "failed"}

\* A call that begins, or is refused, has come to no end.
LEMMA BegunIs ==
  ASSUME calls \in Seq(Called), NEW begun \in Called, begun.fate \in {"refused", "started"},
         calls' = Append(calls, begun)
  PROVE  /\ \A fate \in Ends : CallsOf(fate)' = CallsOf(fate)
         /\ \A i \in CallsOf("sent") : calls'[i].line = calls[i].line
         /\ Unspoilt' = Unspoilt
<1> DEFINE n == Len(calls)
<1>1. n \in Nat /\ Len(calls') = n + 1 /\ calls'[n + 1] = begun
  BY AppendIs, SMT
<1>2. \A i \in 1 .. n : calls'[i] = calls[i]
  BY AppendIs
<1>3. \A i : i \in 1 .. n + 1 <=> i \in 1 .. n \/ i = n + 1
  BY <1>1, SMT
<1>4. \A fate \in Ends : begun.fate # fate
  BY DEF Ends
<1>5. \A fate \in Ends : CallsOf(fate)' = CallsOf(fate)
  BY <1>1, <1>2, <1>3, <1>4 DEF CallsOf
<1>6. CallsOf("dropped")' = CallsOf("dropped") /\ CallsOf("failed")' = CallsOf("failed")
  BY <1>5 DEF Ends
<1> QED BY <1>2, <1>5, <1>6 DEF CallsOf, Unspoilt

\* The last call comes to an end.
LEMMA EndedIs ==
  ASSUME calls \in Seq(Called), Len(calls) # 0, calls[Len(calls)].fate = "started",
         NEW fate \in Ends, Outcome(fate)
  PROVE  /\ CallsOf(fate)' = CallsOf(fate) \cup {Len(calls)}
         /\ \A other \in Ends : other # fate => CallsOf(other)' = CallsOf(other)
         /\ \A i \in CallsOf("sent") : calls'[i].line = calls[i].line
         /\ Len(calls) \in 1 .. Len(calls) /\ Len(calls) \notin CallsOf("sent")
<1> DEFINE n == Len(calls)
<1>1. n \in Nat /\ n \in 1 .. n
  BY SMT
<1>2. fate \in Fate
  BY DEF Ends, Fate
<1>3. /\ Len(calls') = n /\ calls'[n].fate = fate
      /\ \A i \in 1 .. n : calls'[i].line = calls[i].line
      /\ \A i \in 1 .. n : i # n => calls'[i].fate = calls[i].fate
  BY <1>2, OutcomeIs
<1>4. \A other \in Ends : other # "started"
  BY DEF Ends
<1>5. CallsOf(fate)' = CallsOf(fate) \cup {n}
  BY <1>1, <1>3 DEF CallsOf
<1>6. \A other \in Ends : other # fate => CallsOf(other)' = CallsOf(other)
  BY <1>1, <1>3, <1>4 DEF CallsOf
<1>7. n \notin CallsOf("sent")
  BY DEF CallsOf
<1> QED BY <1>1, <1>3, <1>5, <1>6, <1>7 DEF CallsOf

\* A piece more on the wire.
LEMMA OutIs ==
  ASSUME out \in Seq(Piece), NEW piece \in Piece, out' = Append(out, piece)
  PROVE  /\ out' \in Seq(Piece) /\ Len(out') = Len(out) + 1 /\ Len(out) \in Nat
         /\ \A k \in 1 .. Len(out) : out'[k] = out[k]
         /\ out'[Len(out) + 1] = piece
         /\ piece # LF => Feeds' = Feeds
         /\ piece = LF => Feeds' = Feeds \cup {Len(out) + 1}
<1> DEFINE n == Len(out)
<1>1. /\ out' \in Seq(Piece) /\ Len(out') = n + 1 /\ n \in Nat
      /\ \A k \in 1 .. n : out'[k] = out[k]
      /\ out'[n + 1] = piece
  BY SMT
<1>2. \A i : i \in 1 .. n + 1 <=> i \in 1 .. n \/ i = n + 1
  BY <1>1, SMT
<1>3. LF' = LF
  BY DEF LF
<1> HIDE DEF n
<1>4. Feeds' = {k \in 1 .. n + 1 : out'[k] = LF} /\ Feeds = {k \in 1 .. n : out[k] = LF}
  BY <1>1, <1>3 DEF Feeds, n
<1>5. \A k \in 1 .. n : out'[k] = LF <=> out[k] = LF
  BY <1>1
<1>6. piece # LF => Feeds' = Feeds
  BY <1>1, <1>2, <1>4, <1>5
<1>7. piece = LF => Feeds' = Feeds \cup {n + 1}
  BY <1>1, <1>2, <1>4, <1>5
<1> QED BY <1>1, <1>6, <1>7 DEF n

\* A call of send_line: the line is refused, or none of it is on the wire yet.
LEMMA BeginStep ==
  ASSUME SendInv, NEW line \in Line \cup Dirty, Begin(line)
  PROVE  SendInv'
<1> DEFINE fate == IF line \in Dirty THEN "refused" ELSE "started"
           begun == [line |-> line, fate |-> fate]
           n == Len(calls)
<1>1. /\ conn \in {"connecting", "open", "closed", "none"}
      /\ calls \in Seq(Called) /\ out \in Seq(Piece) /\ sending \in Seq(Piece)
      /\ sending = Idle
  BY DEF SendInv, CallsInv, Begin
<1>2. begun \in Called /\ begun.fate \in {"refused", "started"} /\ begun.line = line /\ begun.fate = fate
  BY DEF Called, Fate
<1>3. calls' = Append(calls, begun) /\ out' = out
  BY DEF Begin
<1> HIDE DEF begun
<1>4. /\ \A f \in Ends : CallsOf(f)' = CallsOf(f)
      /\ \A i \in CallsOf("sent") : calls'[i].line = calls[i].line
      /\ Unspoilt' = Unspoilt
  BY <1>1, <1>2, <1>3, BegunIs
<1>5. /\ calls' \in Seq(Called) /\ Len(calls') = n + 1 /\ n \in Nat
      /\ \A i \in 1 .. n : calls'[i] = calls[i]
      /\ calls'[n + 1] = begun
  BY <1>1, <1>2, <1>3, AppendIs, SMT
<1>6. \A i : i \in 1 .. n + 1 <=> i \in 1 .. n \/ i = n + 1
  BY <1>5, SMT
<1>7. Feeds' = Feeds
  BY <1>3 DEF Feeds, LF
<1>8. conn' = conn \/ conn' = "none"
  BY DEF Begin, ConnAfter
<1>9. \E ends : EndsInv(ends)'
  <2>1. PICK ends : EndsInv(ends)
    BY DEF SendInv
  <2>2. CallsOf("sent")' = CallsOf("sent")
    BY <1>4 DEF Ends
  <2>3. conn' \in {"open", "closed"} => conn \in {"open", "closed"}
    BY <1>8
  <2>4. EndsInv(ends)'
    BY <1>1, <1>3, <1>4, <1>7, <2>1, <2>2, <2>3, EndsStay
  <2> QED BY <2>4
<1>10. \A i \in 1 .. n : calls[i].fate # "started" /\ (calls[i].fate = "sent" => calls[i].line \in Line)
  BY <1>1 DEF SendInv, CallsInv
<1>11. /\ Unspoilt => Len(out) \in {0} \cup Feeds
       /\ conn = "connecting" => n = 0 /\ Len(out) = 0
  BY <1>1 DEF SendInv, WireInv
<1>12. CASE line \in Dirty
  <2>1. sending' = Idle /\ fate = "refused" /\ conn' # "connecting"
    BY <1>1, <1>12 DEF Begin, ConnAfter
  <2>2. CallsInv'
    <3>1. /\ conn' \in {"connecting", "open", "closed", "none"}
          /\ calls' \in Seq(Called) /\ out' \in Seq(Piece) /\ sending' \in Seq(Piece)
      BY <1>1, <1>3, <1>5, <1>8, <2>1
    <3>2. \A i \in 1 .. n + 1 :
            /\ calls'[i].fate \in {"started", "sent"} => calls'[i].line \in Line
            /\ calls'[i].fate # "started"
      BY <1>2, <1>5, <1>6, <1>10, <2>1
    <3> QED BY <1>5, <2>1, <3>1, <3>2 DEF CallsInv
  <2>3. WireInv'
    BY <1>3, <1>4, <1>7, <1>11, <2>1 DEF WireInv
  <2> QED BY <1>9, <2>2, <2>3 DEF SendInv
<1>13. CASE line \notin Dirty
  <2>1. sending' = Pieces(line) /\ fate = "started" /\ conn' = conn /\ line \in Line
    BY <1>13 DEF Begin
  <2>2. sending' \in Seq(Piece) /\ Len(sending') = 4
    BY <2>1, PiecesAre
  <2>3. sending' # Idle
    <3>1. Len(Idle) = 0
      BY SMT DEF Idle
    <3>2. 4 # 0
      BY SMT
    <3> QED BY <2>2, <3>1, <3>2
  <2>4. CallsInv'
    <3>1. /\ conn' \in {"connecting", "open", "closed", "none"}
          /\ calls' \in Seq(Called) /\ out' \in Seq(Piece) /\ sending' \in Seq(Piece)
      BY <1>1, <1>3, <1>5, <2>1, <2>2
    <3>2. n + 1 \notin 1 .. n
      BY <1>5, SMT
    <3>3. \A i \in 1 .. n + 1 :
            /\ calls'[i].fate \in {"started", "sent"} => calls'[i].line \in Line
            /\ calls'[i].fate = "started" <=> i = n + 1
      BY <1>2, <1>5, <1>6, <1>10, <2>1, <3>2
    <3> QED BY <1>5, <2>3, <3>1, <3>3 DEF CallsInv
  <2>5. Written(0)'
    <3>1. Current' = Pieces(line)
      BY <1>2, <1>5 DEF Current, Pieces
    <3>2. 0 \in 0 .. 3 /\ 4 - 0 = 4 /\ 0 <= Len(out) /\ \A k \in 1 .. 4 : 0 + k = k
      BY <1>1, SMT
    <3>3. \A k \in 1 .. 0 : FALSE
      BY SMT
    <3>4. \A k \in 1 .. 4 - 0 : sending'[k] = Current'[0 + k]
      BY <2>1, <3>1, <3>2
    <3> QED BY <1>3, <2>2, <3>2, <3>3, <3>4 DEF Written
  <2>6. WireInv'
    <3>1. Len(out) - 0 = Len(out) /\ n + 1 # 0 /\ 0 \in 0 .. 3 /\ (n = 0 => n + 1 = 1)
      BY <1>1, <1>5, SMT
    <3> QED BY <1>3, <1>4, <1>5, <1>7, <1>11, <2>1, <2>3, <2>5, <3>1 DEF WireInv
  <2> QED BY <1>9, <2>4, <2>6 DEF SendInv
<1> QED BY <1>12, <1>13

\* A send that fails or is given up leaves on the wire what has been written.
LEMMA GiveUpStep ==
  ASSUME SendInv, WriteFails \/ Drop
  PROVE  SendInv'
<1> DEFINE n == Len(calls)
<1>1. /\ conn \in {"connecting", "open", "closed", "none"}
      /\ calls \in Seq(Called) /\ out \in Seq(Piece) /\ sending \in Seq(Piece)
      /\ sending # Idle /\ n # 0
  BY DEF SendInv, CallsInv, WireInv, WriteFails, Drop
<1>2. PICK fate \in {"failed", "dropped"} : Outcome(fate)
  BY DEF WriteFails, Drop
<1>3. sending' = Idle /\ out' = out /\ conn' \in {conn, "none"} /\ conn' # "connecting"
  BY <1>1 DEF WriteFails, Drop, ConnAfter
<1>4. fate \in Ends /\ fate \in Fate /\ fate # "sent" /\ fate # "started"
  BY <1>2 DEF Ends, Fate
<1>5. n \in Nat /\ n \in 1 .. n
  BY <1>1, SMT
<1>6. /\ \A i \in 1 .. n : calls[i].fate = "started" <=> i = n
      /\ \A i \in 1 .. n : calls[i].fate = "sent" => calls[i].line \in Line
  BY <1>1 DEF SendInv, CallsInv
<1>7. /\ CallsOf(fate)' = CallsOf(fate) \cup {n}
      /\ \A other \in Ends : other # fate => CallsOf(other)' = CallsOf(other)
      /\ \A i \in CallsOf("sent") : calls'[i].line = calls[i].line
  BY <1>1, <1>2, <1>4, <1>5, <1>6, EndedIs
<1>8. /\ calls' \in Seq(Called) /\ Len(calls') = n
      /\ \A i \in 1 .. n : calls'[i].line = calls[i].line
      /\ \A i \in 1 .. n : i # n => calls'[i].fate = calls[i].fate
      /\ calls'[n].fate = fate
  BY <1>1, <1>2, <1>4, OutcomeIs
<1>9. ~ Unspoilt'
  BY <1>2, <1>7 DEF Unspoilt
<1>10. CallsInv'
  <2>1. \A i \in 1 .. n :
          /\ calls'[i].fate \in {"started", "sent"} => calls'[i].line \in Line
          /\ calls'[i].fate # "started"
    BY <1>4, <1>6, <1>8
  <2>2. sending' \in Seq(Piece)
    BY <1>3, SMT DEF Idle
  <2> QED BY <1>1, <1>3, <1>8, <2>1, <2>2 DEF CallsInv
<1>11. WireInv'
  BY <1>3, <1>9 DEF WireInv
<1>12. \E ends : EndsInv(ends)'
  <2>1. PICK ends : EndsInv(ends)
    BY DEF SendInv
  <2>2. CallsOf("sent")' = CallsOf("sent")
    BY <1>4, <1>7 DEF Ends
  <2>3. Feeds' = Feeds
    BY <1>3 DEF Feeds, LF
  <2>4. EndsInv(ends)'
    BY <1>1, <1>3, <1>7, <1>9, <2>1, <2>2, <2>3, EndsStay
  <2> QED BY <2>4
<1> QED BY <1>10, <1>11, <1>12 DEF SendInv

\* The socket takes a piece of the current line; with the last one the line has been
\* sent, and the server reads it.
LEMMA WriteStep ==
  ASSUME SendInv, WritePiece
  PROVE  SendInv'
<1> DEFINE m == Len(calls)
           L == Len(out)
           line == calls[m].line
           piece == Head(sending)
<1>1. /\ conn \in {"connecting", "open", "closed", "none"}
      /\ calls \in Seq(Called) /\ out \in Seq(Piece) /\ sending \in Seq(Piece)
      /\ sending # Idle /\ m # 0
  BY DEF SendInv, CallsInv, WireInv, WritePiece
<1>2. m \in Nat /\ m \in 1 .. m /\ L \in Nat
  BY <1>1, SMT
<1>3. /\ \A i \in 1 .. m : calls[i].fate = "started" <=> i = m
      /\ \A i \in 1 .. m : calls[i].fate = "sent" => calls[i].line \in Line
      /\ line \in Line
  BY <1>1, <1>2 DEF SendInv, CallsInv
<1>4. PICK n \in 0 .. 3 : /\ Written(n)
                          /\ Unspoilt => L - n \in {0} \cup Feeds
                          /\ conn = "connecting" => m = 1 /\ L = n
  BY <1>1 DEF SendInv, WireInv
<1> HIDE DEF m, L
<1>5. /\ n \in Nat /\ n <= 3 /\ n <= L /\ Len(sending) = 4 - n
      /\ \A k \in 1 .. 4 - n : sending[k] = Current[n + k]
      /\ \A k \in 1 .. n : out[L - n + k] = Current[k]
  <2>1. n \in Nat /\ n <= 3
    BY SMT
  <2> QED BY <1>4, <2>1 DEF Written, L
<1>6. /\ Current = Pieces(line) /\ Len(Current) = 4
      /\ \A k \in 1 .. 4 : Current[k] = LF <=> k = 4
  BY <1>3, PiecesAre DEF Current, m
<1>7. /\ piece \in Piece /\ piece = sending[1] /\ sending' = Tail(sending) /\ sending' \in Seq(Piece)
      /\ Len(sending') = 3 - n
      /\ \A k \in 1 .. 3 - n : sending'[k] = sending[k + 1]
  <2>1. sending' = Tail(sending) /\ sending # <<>> /\ Len(sending) = 4 - n
    BY <1>1, <1>5 DEF WritePiece, Idle
  <2>2. /\ piece \in Piece /\ piece = sending[1] /\ Tail(sending) \in Seq(Piece)
        /\ Len(Tail(sending)) = Len(sending) - 1
        /\ \A k \in 1 .. Len(sending) - 1 : Tail(sending)[k] = sending[k + 1]
    BY <1>1, <2>1, HeadTailProperties
  <2>3. (4 - n) - 1 = 3 - n
    BY <1>5, SMT
  <2> QED BY <2>1, <2>2, <2>3
<1>8. piece = Current[n + 1]
  <2>1. 1 \in 1 .. 4 - n
    BY <1>5, SMT
  <2> QED BY <1>5, <1>7, <2>1
<1>9. /\ out' \in Seq(Piece) /\ Len(out') = L + 1
      /\ \A k \in 1 .. L : out'[k] = out[k]
      /\ out'[L + 1] = piece
      /\ piece # LF => Feeds' = Feeds
      /\ piece = LF => Feeds' = Feeds \cup {L + 1}
  <2>1. out' = Append(out, piece)
    BY DEF WritePiece
  <2> HIDE DEF piece
  <2> QED BY <1>1, <1>7, <2>1, OutIs DEF L
<1> HIDE DEF piece
<1>10. \A k \in 1 .. n + 1 : out'[(L + 1) - (n + 1) + k] = Current[k]
  <2> SUFFICES ASSUME NEW k \in 1 .. n + 1
               PROVE  out'[(L + 1) - (n + 1) + k] = Current[k]
    OBVIOUS
  <2>1. CASE k = n + 1
    <3>1. (L + 1) - (n + 1) + k = L + 1
      BY <1>2, <1>5, <2>1, SMT
    <3> QED BY <1>8, <1>9, <2>1, <3>1
  <2>2. CASE k # n + 1
    <3>1. k \in 1 .. n /\ L - n + k \in 1 .. L /\ (L + 1) - (n + 1) + k = L - n + k
      BY <1>2, <1>5, <2>2, SMT
    <3> QED BY <1>5, <1>9, <3>1
  <2> QED BY <2>1, <2>2
<1>11. PICK ends : EndsInv(ends)
  BY DEF SendInv
<1>12. CASE Len(sending) # 1
  <2>1. n + 1 \in 0 .. 3 /\ n + 1 \in 1 .. 4 /\ n + 1 # 4 /\ 3 - n # 0
    BY <1>5, <1>12, SMT
  <2>2. Feeds' = Feeds
    BY <1>6, <1>8, <1>9, <2>1
  <2>3. calls' = calls /\ conn' = conn
    BY <1>12 DEF WritePiece
  <2>4. sending' # Idle
    <3>1. Len(Idle) = 0
      BY SMT DEF Idle
    <3> QED BY <1>7, <2>1, <3>1
  <2>5. CallsInv'
    BY <1>1, <1>7, <1>9, <2>3, <2>4 DEF SendInv, CallsInv
  <2>6. Unspoilt' = Unspoilt /\ Current' = Current
    BY <2>3 DEF Unspoilt, CallsOf, Current, Pieces
  <2>7. Written(n + 1)'
    <3>1. n + 1 <= L + 1 /\ 3 - n = 4 - (n + 1)
      BY <1>2, <1>5, SMT
    <3>2. ASSUME NEW k \in 1 .. 3 - n PROVE sending'[k] = Current[(n + 1) + k]
      <4>1. k + 1 \in 1 .. 4 - n /\ n + (k + 1) = (n + 1) + k
        BY <1>5, SMT
      <4> QED BY <1>5, <1>7, <4>1
    <3> QED BY <1>7, <1>9, <1>10, <2>1, <2>6, <3>1, <3>2 DEF Written
  <2>8. (L + 1) - (n + 1) = L - n /\ (L = n => L + 1 = n + 1)
    BY <1>2, <1>5, SMT
  <2>9. WireInv'
    BY <1>1, <1>4, <1>9, <2>1, <2>2, <2>3, <2>4, <2>6, <2>7, <2>8 DEF WireInv, m
  <2>10. EndsInv(ends)'
    <3>1. CallsOf("sent")' = CallsOf("sent")
      BY <2>3 DEF CallsOf
    <3>2. \A i \in CallsOf("sent") : calls'[i].line = calls[i].line
      BY <2>3
    <3> QED BY <1>1, <1>9, <1>11, <2>2, <2>3, <2>6, <3>1, <3>2, EndsStay DEF L
  <2> QED BY <2>5, <2>9, <2>10 DEF SendInv
<1>13. CASE Len(sending) = 1
  <2>1. n = 3 /\ n + 1 = 4 /\ 3 - n = 0 /\ 4 \in 1 .. 4
    <3>1. n \in Nat /\ 4 - n = 1
      BY <1>5, <1>13
    <3> QED BY <3>1, SMT
  <2>2. Feeds' = Feeds \cup {L + 1}
    BY <1>6, <1>8, <1>9, <2>1
  <2>3. Outcome("sent") /\ conn' = IF conn = "connecting" THEN "open" ELSE conn
    BY <1>13 DEF WritePiece, ConnAfter
  <2>4. sending' = Idle
    BY <1>7, <2>1, EmptySeq DEF Idle
  <2>5. "sent" \in Ends /\ "sent" \in Fate /\ "dropped" \in Ends /\ "failed" \in Ends
    BY DEF Ends, Fate
  <2>6. /\ CallsOf("sent")' = CallsOf("sent") \cup {m} /\ m \notin CallsOf("sent")
        /\ CallsOf("dropped")' = CallsOf("dropped") /\ CallsOf("failed")' = CallsOf("failed")
    <3>1. calls[m].fate = "started"
      BY <1>2, <1>3
    <3>2. /\ CallsOf("sent")' = CallsOf("sent") \cup {m} /\ m \notin CallsOf("sent")
          /\ \A other \in Ends : other # "sent" => CallsOf(other)' = CallsOf(other)
      BY <1>1, <2>3, <2>5, <3>1, EndedIs DEF m
    <3> QED BY <2>5, <3>2
  <2>7. /\ calls' \in Seq(Called) /\ Len(calls') = m
        /\ \A i \in 1 .. m : calls'[i].line = calls[i].line
        /\ \A i \in 1 .. m : i # m => calls'[i].fate = calls[i].fate
        /\ calls'[m].fate = "sent"
    BY <1>1, <2>3, <2>5, OutcomeIs DEF m
  <2>8. Unspoilt' = Unspoilt
    BY <2>6 DEF Unspoilt
  <2>9. CallsInv'
    <3>1. \A i \in 1 .. m :
            /\ calls'[i].fate \in {"started", "sent"} => calls'[i].line \in Line
            /\ calls'[i].fate # "started"
      BY <1>3, <2>7
    <3> QED BY <1>1, <1>7, <1>9, <2>3, <2>4, <2>7, <3>1 DEF CallsInv
  <2>10. WireInv'
    BY <1>9, <2>2, <2>3, <2>4 DEF WireInv
  <2>11. /\ \A i \in CallsOf("sent") : i \in 1 .. m /\ i < m
         /\ \A e \in Feeds : e \in 1 .. L /\ e < L + 1 /\ e \in Nat
    <3>1. \A i \in CallsOf("sent") : i \in 1 .. m /\ i # m
      BY <1>2, <2>6 DEF CallsOf, m
    <3>2. \A i \in 1 .. m : i # m => i < m
      BY <1>2, SMT
    <3>3. \A e \in 1 .. L : e < L + 1 /\ e \in Nat
      BY <1>2, SMT
    <3> QED BY <3>1, <3>2, <3>3 DEF Feeds, L
  <2>13. PICK new : new = [i \in CallsOf("sent") \cup {m} |-> IF i = m THEN L + 1 ELSE ends[i]]
    OBVIOUS
  <2>12. /\ ends \in [CallsOf("sent") -> Feeds]
         /\ Feeds = {ends[i] : i \in CallsOf("sent")}
         /\ \A i \in CallsOf("sent") :
              4 <= ends[i] /\ \A k \in 1 .. 4 : out[ends[i] - 4 + k] = Pieces(calls[i].line)[k]
         /\ \A i, j \in CallsOf("sent") : i < j => ends[i] < ends[j]
         /\ conn \in {"open", "closed"} => 1 \in CallsOf("sent") /\ ends[1] = 4
         /\ Unspoilt => \A i \in CallsOf("sent") : ends[i] - 4 \in {0} \cup Feeds
    BY <1>11 DEF EndsInv
  <2>14. new[m] = L + 1 /\ \A i \in CallsOf("sent") : new[i] = ends[i]
    BY <2>6, <2>13
  <2>15. /\ new \in [CallsOf("sent") \cup {m} -> Feeds \cup {L + 1}]
         /\ Feeds \cup {L + 1} = {new[i] : i \in CallsOf("sent") \cup {m}}
    BY <2>12, <2>14, <2>13
  <2>16. ASSUME NEW i \in CallsOf("sent") \cup {m}
         PROVE  4 <= new[i] /\ \A k \in 1 .. 4 : out'[new[i] - 4 + k] = Pieces(calls'[i].line)[k]
    <3>1. CASE i = m
      <4>1. 4 <= L + 1 /\ \A k \in 1 .. 4 : (L + 1) - 4 + k = (L + 1) - (n + 1) + k
        BY <1>2, <1>5, <2>1, SMT
      <4>2. Pieces(calls'[m].line) = Current
        BY <1>2, <1>6, <2>7
      <4> QED BY <1>10, <2>1, <2>14, <3>1, <4>1, <4>2
    <3>2. CASE i \in CallsOf("sent")
      <4>1. ends[i] \in 1 .. L /\ 4 <= ends[i] /\ calls'[i].line = calls[i].line
        BY <2>7, <2>11, <2>12, <3>2
      <4>2. \A k \in 1 .. 4 : ends[i] - 4 + k \in 1 .. L
        BY <1>2, <4>1, SMT
      <4>3. \A k \in 1 .. 4 : out'[ends[i] - 4 + k] = out[ends[i] - 4 + k]
        BY <1>9, <4>2
      <4> QED BY <2>12, <2>14, <3>2, <4>1, <4>3
    <3> QED BY <3>1, <3>2
  <2>17. ASSUME NEW i \in CallsOf("sent") \cup {m}, NEW j \in CallsOf("sent") \cup {m}, i < j
         PROVE  new[i] < new[j]
    <3>1. i # m
      <4>1. ~ (m < m)
        BY <1>2, SMT
      <4>2. \A k \in 1 .. m : ~ (m < k)
        BY <1>2, SMT
      <4> QED BY <2>11, <2>17, <4>1, <4>2
    <3> QED BY <2>11, <2>12, <2>14, <2>17, <3>1
  <2>18. conn' \in {"open", "closed"} => 1 \in CallsOf("sent") \cup {m} /\ new[1] = 4
    <3>1. CASE conn = "connecting"
      BY <1>4, <2>1, <2>14, <3>1
    <3>2. CASE conn # "connecting"
      BY <2>3, <2>12, <2>14, <3>2
    <3> QED BY <3>1, <3>2
  <2>19. Unspoilt => \A i \in CallsOf("sent") \cup {m} : new[i] - 4 \in {0} \cup Feeds \cup {L + 1}
    <3>1. (L + 1) - 4 = L - n
      BY <1>2, <1>5, <2>1, SMT
    <3> QED BY <1>4, <2>12, <2>14, <3>1
  <2>20. EndsInv(new)'
    <3> DEFINE sent == CallsOf("sent") \cup {m}
               lines == Feeds \cup {L + 1}
    <3>1. CallsOf("sent")' = sent /\ Feeds' = lines
      BY <2>2, <2>6
    <3>2. Unspoilt' => \A i \in sent : new[i] - 4 \in {0} \cup lines
      BY <2>8, <2>19
    <3>3. new \in [sent -> lines] /\ lines = {new[i] : i \in sent}
      BY <2>15
    <3>4. \A i \in sent : 4 <= new[i] /\ \A k \in 1 .. 4 : out'[new[i] - 4 + k] = Pieces(calls'[i].line)[k]
      BY <2>16
    <3>5. \A i, j \in sent : i < j => new[i] < new[j]
      BY <2>17
    <3>6. conn' \in {"open", "closed"} => 1 \in sent /\ new[1] = 4
      BY <2>18
    <3> HIDE DEF sent, lines
    <3> QED BY <3>1, <3>2, <3>3, <3>4, <3>5, <3>6 DEF EndsInv
  <2> QED BY <2>9, <2>10, <2>20 DEF SendInv
<1> QED BY <1>12, <1>13

\* close shuts down a connection that has sent its login; it sends nothing.
LEMMA CloseStep ==
  ASSUME SendInv, Close \/ UNCHANGED sendVars
  PROVE  SendInv'
<1>1. /\ sending' = sending /\ out' = out /\ calls' = calls
      /\ conn' = conn \/ (conn = "open" /\ conn' = "closed")
  BY DEF Close, sendVars
<1>2. CallsInv'
  BY <1>1 DEF SendInv, CallsInv
<1>3. /\ Feeds' = Feeds /\ Unspoilt' = Unspoilt /\ CallsOf("sent")' = CallsOf("sent")
      /\ Current' = Current
  BY <1>1 DEF Feeds, LF, Unspoilt, CallsOf, Current, Pieces
<1>4. WireInv'
  <2>1. \A n : Written(n) => Written(n)'
    BY <1>1, <1>3 DEF Written
  <2>2. conn' = "connecting" => conn = "connecting"
    BY <1>1
  <2> QED BY <1>1, <1>3, <2>1, <2>2 DEF SendInv, WireInv
<1>5. PICK ends : EndsInv(ends)
  BY DEF SendInv
<1>6. out \in Seq(Piece) /\ out' \in Seq(Piece)
  BY <1>1 DEF SendInv, CallsInv
<1>7. EndsInv(ends)'
  BY <1>1, <1>3, <1>5, <1>6, EndsStay
<1> QED BY <1>2, <1>4, <1>7 DEF SendInv

\* Nothing has been called or written at first.
LEMMA SendStart ==
  SendInit => SendInv
<1> SUFFICES ASSUME SendInit PROVE SendInv
  OBVIOUS
<1>1. conn = "connecting" /\ sending = Idle /\ out = <<>> /\ calls = <<>>
  BY DEF SendInit
<1>2. Len(out) = 0 /\ Len(calls) = 0 /\ \A i \in 1 .. 0 : FALSE
  BY <1>1, SMT
<1>3. calls \in Seq(Called) /\ out \in Seq(Piece) /\ sending \in Seq(Piece)
  BY <1>1, SMT DEF Idle
<1>4. CallsInv
  BY <1>1, <1>2, <1>3 DEF CallsInv
<1>5. Feeds = {} /\ \A fate : CallsOf(fate) = {}
  BY <1>2 DEF Feeds, CallsOf
<1>6. WireInv
  BY <1>1, <1>2 DEF WireInv
<1>7. EndsInv([i \in {} |-> 0])
  BY <1>1, <1>5 DEF EndsInv
<1> QED BY <1>4, <1>6, <1>7 DEF SendInv

\* What the invariant says of the wire is what the property says of it.
LEMMA SentLinesAre ==
  ASSUME SendInv
  PROVE  SentLinesArriveInOrder
<1> DEFINE sent == CallsOf("sent")
           L == Len(out)
<1>1. /\ calls \in Seq(Called) /\ out \in Seq(Piece) /\ L \in Nat
      /\ \A i \in 1 .. Len(calls) :
           /\ calls[i].fate \in {"started", "sent"} => calls[i].line \in Line
           /\ calls[i].fate = "started" <=> i = Len(calls) /\ sending # Idle
  BY SMT DEF SendInv, CallsInv
<1>2. \A i \in sent : calls[i].line \in Line
  BY <1>1 DEF CallsOf
<1>3. \A i \in sent : Pieces(calls[i].line) \in Seq(Piece) /\ Len(Pieces(calls[i].line)) = 4
  BY <1>2, PiecesAre
<1>4. PICK ends : EndsInv(ends)
  BY DEF SendInv
<1>5. \A i \in sent : ends[i] \in 1 .. L /\ 4 <= ends[i]
  BY <1>4 DEF EndsInv, Feeds
<1>6. ASSUME NEW i \in sent PROVE Stand(Pieces(calls[i].line), ends[i])
  <2> DEFINE P == Pieces(calls[i].line)
             e == ends[i]
  <2>1. P \in Seq(Piece) /\ Len(P) = 4 /\ e \in 1 .. L /\ 4 <= e
    BY <1>3, <1>5
  <2>2. \A k \in 1 .. 4 : out[e - 4 + k] = P[k]
    BY <1>4 DEF EndsInv
  <2> HIDE DEF P, e, L
  <2>3. SubSeq(out, e - 4 + 1, e) = P
    BY <1>1, <2>1, <2>2, StandIs DEF L
  <2> QED BY <2>1, <2>3 DEF Stand, P, e
<1>7. conn \in {"open", "closed"} => 1 \in sent /\ ends[1] = Len(Pieces(calls[1].line))
  BY <1>3, <1>4 DEF EndsInv
<1>8. ASSUME Unspoilt
      PROVE  /\ \A i \in sent : StandAlone(Pieces(calls[i].line), ends[i])
             /\ \/ StandAlone(<<>>, L)
                \/ \E i \in CallsOf("started"), n \in 1 .. 3 :
                     StandAlone(SubSeq(Pieces(calls[i].line), 1, n), L)
  <2>1. \A i \in sent : ends[i] - 4 \in {0} \cup Feeds
    BY <1>4, <1>8 DEF EndsInv
  <2>2. \A i \in sent : StandAlone(Pieces(calls[i].line), ends[i])
    BY <1>3, <1>6, <2>1 DEF StandAlone
  <2>3. ASSUME L \in {0} \cup Feeds PROVE StandAlone(<<>>, L)
    <3>1. Len(<<>>) = 0 /\ SubSeq(out, L - 0 + 1, L) = <<>> /\ 0 <= L /\ L - 0 = L
      BY <1>1, SMT
    <3> QED BY <2>3, <3>1 DEF StandAlone, Stand
  <2>4. CASE sending = Idle
    BY <1>8, <2>2, <2>3, <2>4 DEF SendInv, WireInv
  <2>5. CASE sending # Idle
    <3> DEFINE m == Len(calls)
    <3>1. m # 0 /\ m \in 1 .. m
      BY <1>1, <2>5, SMT DEF SendInv, WireInv
    <3>2. PICK n \in 0 .. 3 : Written(n) /\ L - n \in {0} \cup Feeds
      BY <1>8, <2>5 DEF SendInv, WireInv
    <3>3. m \in CallsOf("started") /\ calls[m].line \in Line
      BY <1>1, <2>5, <3>1 DEF CallsOf
    <3>4. Current \in Seq(Piece) /\ Len(Current) = 4 /\ Current = Pieces(calls[m].line)
      BY <3>3, PiecesAre DEF Current
    <3>5. CASE n = 0
      <4>1. L - 0 = L
        BY <1>1, SMT
      <4> QED BY <2>2, <2>3, <3>2, <3>5, <4>1
    <3>6. CASE n # 0
      <4>1. n \in 1 .. 3 /\ n \in Nat
        BY <3>6, SMT
      <4>2. n <= L /\ \A k \in 1 .. n : out[L - n + k] = Current[k]
        BY <3>2 DEF Written
      <4> DEFINE Q == SubSeq(Current, 1, n)
      <4>3. Q \in Seq(Piece) /\ Len(Q) = n /\ \A k \in 1 .. n : Q[k] = Current[k]
        BY <3>4, <4>1, SMT
      <4> HIDE DEF Q, L
      <4>4. L \in 1 .. L
        BY <1>1, <4>1, <4>2, SMT
      <4>5. SubSeq(out, L - n + 1, L) = Q
        BY <1>1, <4>1, <4>2, <4>3, <4>4, StandIs DEF L
      <4>6. StandAlone(Q, L)
        BY <3>2, <4>2, <4>3, <4>5 DEF StandAlone, Stand
      <4> QED BY <2>2, <3>3, <3>4, <4>1, <4>6 DEF Q
    <3> QED BY <3>5, <3>6
  <2> QED BY <2>4, <2>5
<1>9. /\ ends \in [sent -> Feeds] /\ Feeds = {ends[i] : i \in sent}
      /\ \A i, j \in sent : i < j => ends[i] < ends[j]
  BY <1>4 DEF EndsInv
<1> QED BY <1>6, <1>7, <1>8, <1>9 DEF SentLinesArriveInOrder, Unspoilt

\* The invariant of sending holds throughout.
THEOREM SendInvariance ==
  SendSpec => []SendInv
<1>1. SendInv /\ [SendNext]_sendVars => SendInv'
  BY BeginStep, WriteStep, GiveUpStep, CloseStep DEF SendNext, Finished
<1> QED BY <1>1, SendStart, PTL DEF SendSpec

\* However sends are refused, dropped and fail, the server reads every line that was
\* reported as sent, in order and no other, and the login first.
THEOREM SentLinesAlwaysArrive ==
  SendSpec => []SentLinesArriveInOrder
BY SendInvariance, SentLinesAre, PTL
=============================================================================
