------------------------- MODULE TextRestore_proofs -------------------------
(***************************************************************************)
(* Proofs about TextRestore, for bodies of any length: restoring leaves    *)
(* what was ASCII alone, and a field whose view occurs once shows its own  *)
(* bytes.                                                                  *)
(***************************************************************************)
EXTENDS TextRestore, WellFoundedInduction, TLAPS

-----------------------------------------------------------------------------
(* Recursion over the characters of a text.                                *)

\* Every set of natural numbers has a least one, if it has any.
LEMMA LeastIs ==
  ASSUME NEW S, S \subseteq Nat, S # {}
  PROVE  \E n \in S : \A m \in Nat : m < n => m \notin S
<1>1. PICK n \in S : \A m \in S : <<m, n>> \notin OpToRel(<, Nat)
  BY WFMin, NatLessThanWellFounded
<1>2. \A m \in Nat : m < n => m \notin S
  BY <1>1 DEF OpToRel
<1> QED BY <1>2

\* f begins with a value, and each other is made from the one before it.
Follows(f, n, start, next) ==
  f[0] = start /\ \A k \in 1 .. n : f[k] = next[k][f[k - 1]]

\* Values that are made one from another can be put together in a function.
LEMMA Recursion ==
  ASSUME NEW A, NEW n \in Nat, NEW start \in A, NEW next \in [1 .. n -> [A -> A]]
  PROVE  \E f \in [0 .. n -> A] : Follows(f, n, start, next)
<1> DEFINE Reaches(m) == \E f \in [0 .. m -> A] : Follows(f, m, start, next)
           S == {m \in 0 .. n : ~ Reaches(m)}
<1>1. SUFFICES ASSUME S # {} PROVE FALSE
  <2>1. n \in 0 .. n
    BY SMT
  <2> QED BY <2>1
<1>2. S \subseteq Nat
  BY SMT
<1>3. PICK m \in S : \A l \in Nat : l < m => l \notin S
  <2> HIDE DEF S
  <2> QED BY <1>1, <1>2, LeastIs
<1>4. m \in 0 .. n /\ m \in Nat
  BY <1>2
<1>5. Reaches(0)
  <2> DEFINE f == [k \in 0 .. 0 |-> start]
  <2>1. f \in [0 .. 0 -> A] /\ f[0] = start
    BY SMT
  <2>2. \A k \in 1 .. 0 : FALSE
    BY SMT
  <2> QED BY <2>1, <2>2 DEF Follows
<1>6. m # 0
  BY <1>5
<1>7. m - 1 \in Nat /\ m - 1 < m /\ m - 1 \in 0 .. n
  BY <1>4, <1>6, SMT
<1>8. PICK f \in [0 .. m - 1 -> A] : Follows(f, m - 1, start, next)
  BY <1>3, <1>7
<1>9. Reaches(m)
  <2> DEFINE g == [k \in 0 .. m |-> IF k = m THEN next[m][f[m - 1]] ELSE f[k]]
  <2>1. m - 1 \in 0 .. m - 1 /\ m \in 1 .. n /\ \A k \in 0 .. m : k # m => k \in 0 .. m - 1
    BY <1>4, <1>6, SMT
  <2>2. next[m][f[m - 1]] \in A
    BY <2>1
  <2>3. g \in [0 .. m -> A]
    BY <2>1, <2>2
  <2>4. 0 \in 0 .. m /\ 0 # m
    BY <1>4, <1>6, SMT
  <2>5. g[0] = start
    BY <1>8, <2>4 DEF Follows
  <2>6. ASSUME NEW k \in 1 .. m PROVE g[k] = next[k][g[k - 1]]
    <3>1. k \in 0 .. m /\ k - 1 \in 0 .. m /\ k - 1 # m /\ (k # m => k \in 1 .. m - 1)
      BY <1>4, SMT
    <3>2. g[k - 1] = f[k - 1]
      BY <3>1
    <3>3. CASE k = m
      BY <3>1, <3>2, <3>3
    <3>4. CASE k # m
      BY <1>8, <3>1, <3>2, <3>4 DEF Follows
    <3> QED BY <3>3, <3>4
  <2> HIDE DEF g
  <2> QED BY <2>3, <2>5, <2>6 DEF Follows
<1> QED BY <1>3, <1>9

-----------------------------------------------------------------------------
(* What a comment retains.                                                 *)

\* The sequences of elements of A without those that do not stay.
Staying(A) == Seq({char \in A : Stays(char)})

\* The function that Retained goes along.
Taken(text) ==
  CHOOSE f : f = [n \in 0 .. Len(text) |->
    IF n = 0 THEN <<>>
    ELSE IF Stays(text[n]) THEN Append(f[n - 1], text[n]) ELSE f[n - 1]]

\* A comment retains some of its characters, each of which stays.
LEMMA RetainedIs ==
  ASSUME NEW A, NEW text \in Seq(A)
  PROVE  Retained(text) \in Staying(A)
<1> DEFINE L == Len(text)
           B == Staying(A)
           next == [k \in 1 .. L |-> [s \in B |-> IF Stays(text[k]) THEN Append(s, text[k]) ELSE s]]
           r == Taken(text)
<1>1. L \in Nat /\ \A k \in 1 .. L : text[k] \in A
  BY SMT
<1>2. <<>> \in B
  BY SMT DEF Staying
<1>3. next \in [1 .. L -> [B -> B]]
  <2>1. ASSUME NEW k \in 1 .. L, NEW s \in B, Stays(text[k])
        PROVE  Append(s, text[k]) \in B
    <3>1. text[k] \in {char \in A : Stays(char)}
      BY <1>1, <2>1
    <3> DEFINE C == {char \in A : Stays(char)}
    <3>2. s \in Seq(C) /\ text[k] \in C
      BY <3>1 DEF Staying
    <3> HIDE DEF C
    <3>3. Append(s, text[k]) \in Seq(C)
      BY <3>2, SMT
    <3> QED BY <3>3 DEF Staying, C
  <2> HIDE DEF B
  <2> QED BY <2>1
<1> HIDE DEF B
<1>4. PICK f \in [0 .. L -> B] : Follows(f, L, <<>>, next)
  <2> HIDE DEF next
  <2> QED BY <1>1, <1>2, <1>3, Recursion
<1>5. ASSUME NEW n \in 0 .. L, n # 0
      PROVE  f[n] = IF Stays(text[n]) THEN Append(f[n - 1], text[n]) ELSE f[n - 1]
  <2>1. n \in 1 .. L /\ n - 1 \in 0 .. L
    BY <1>1, <1>5, SMT
  <2>2. f[n] = next[n][f[n - 1]]
    BY <1>4, <2>1 DEF Follows
  <2>3. f[n - 1] \in B
    BY <2>1
  <2> QED BY <2>1, <2>2, <2>3
<1>6. f = [n \in 0 .. L |-> IF n = 0 THEN <<>>
             ELSE IF Stays(text[n]) THEN Append(f[n - 1], text[n]) ELSE f[n - 1]]
  BY <1>4, <1>5 DEF Follows
<1>7. r = [n \in 0 .. L |-> IF n = 0 THEN <<>>
             ELSE IF Stays(text[n]) THEN Append(r[n - 1], text[n]) ELSE r[n - 1]]
  BY <1>6 DEF Taken
<1>8. Retained(text) = r[L]
  BY DEF Retained, Taken
<1> DEFINE S == {n \in 0 .. L : r[n] \notin B}
<1>9. S = {}
  <2>1. SUFFICES ASSUME S # {} PROVE FALSE
    OBVIOUS
  <2>2. S \subseteq Nat
    BY SMT
  <2>3. PICK n \in S : \A m \in Nat : m < n => m \notin S
    <3> HIDE DEF S
    <3> QED BY <2>1, <2>2, LeastIs
  <2>4. n \in 0 .. L /\ n \in Nat
    BY <2>2
  <2>5. n # 0
    BY <1>2, <1>7, <2>3, <2>4
  <2>6. n - 1 \in Nat /\ n - 1 < n /\ n - 1 \in 0 .. L /\ n \in 1 .. L
    BY <1>1, <2>4, <2>5, SMT
  <2>7. r[n - 1] \in B
    BY <2>3, <2>6
  <2>8. r[n] = IF Stays(text[n]) THEN Append(r[n - 1], text[n]) ELSE r[n - 1]
    BY <1>7, <2>4, <2>5
  <2>9. r[n] = next[n][r[n - 1]]
    BY <2>6, <2>7, <2>8
  <2>10. next[n][r[n - 1]] \in B
    <3> HIDE DEF next
    <3> QED BY <1>3, <2>6, <2>7
  <2> QED BY <2>3, <2>9, <2>10
<1>10. L \in 0 .. L
  BY <1>1, SMT
<1> QED BY <1>8, <1>9, <1>10 DEF B

-----------------------------------------------------------------------------
(* The field, before and after it is restored.                             *)

Class == {"x", "ctl", "DEL", "US", "lead", "cont", "ff"}
Bytes == Byte \cup {"x"}

\* What a placeholder stands for: nothing that was ASCII changes in a view but 0xff.
LEMMA ViewIs ==
  \A byte \in Bytes :
    /\ byte \in {"x", "ctl", "US", "DEL"} => View(byte) = byte
    /\ View(byte) = "x" => byte = "x"
    /\ View(byte) = "ctl" => byte = "ctl"
    /\ View(byte) = "US" => byte \in {"US", "ff"}
    /\ View(byte) # "DEL" /\ byte # "ff" => View(byte) = byte
BY ByteAssumption DEF View, Bytes

\* The field shows the bytes of the packet that it was made of.
LEMMA ViewOfIs ==
  ASSUME NEW s \in Seq(Bytes)
  PROVE  /\ Len(ViewOf(s)) = Len(s) /\ Len(s) \in Nat
         /\ \A i \in 1 .. Len(s) : ViewOf(s)[i] = View(s[i]) /\ s[i] \in Bytes
BY SMT DEF ViewOf

\* It keeps its length and its ASCII bytes.
Keeps(t) ==
  /\ Len(t) = Len(own)
  /\ \A i \in 1 .. Len(own) : own[i] \in {"x", "ctl", "US"} => t[i] = own[i]

\* The view of the field occurs once, and the field is in one piece.
Unique == ~ apart /\ Occurrences = {CHOOSE o \in Occurrences : TRUE}

Best == IF OwnIsUtf8 THEN own ELSE ViewOf(own)

\* A field as it is between restoring and sanitizing.
RestoredInv(t) == t \in Seq(Class) /\ Keeps(t) /\ (Unique => t = Best)

TextInv ==
  /\ sent \in Seq(Bytes) /\ own \in Seq(Bytes)
  /\ ~ apart => \E from \in 1 .. Len(sent), to \in 1 .. Len(sent) :
                  from <= to /\ own = SubSeq(sent, from, to)
  /\ step \in {"parsed", "restored", "sanitized"}
  /\ step = "parsed" => value = ViewOf(own)
  /\ step = "restored" => RestoredInv(value)
  /\ step = "sanitized" => \E t : RestoredInv(t) /\ value = Sanitized(t)

\* The bytes of a stretch of the body.
LEMMA StretchIs ==
  ASSUME NEW s \in Seq(Bytes), NEW from \in Nat, NEW n \in Nat, from + n <= Len(s)
  PROVE  /\ SubSeq(s, from + 1, from + n) \in Seq(Bytes)
         /\ Len(SubSeq(s, from + 1, from + n)) = n
BY SMT

\* The field is a sequence of bytes at first, in one piece unless it is apart.
LEMMA TextStart ==
  Init => TextInv
<1> SUFFICES ASSUME Init PROVE TextInv
  OBVIOUS
<1> DEFINE R == sent
<1>1. R \in Seq(Bytes) /\ Len(R) \in Nat
  <2>1. PICK rest \in Bodies : R = <<"x">> \o rest
    BY DEF Init
  <2>2. PICK n \in 0 .. MaxBody : rest \in [1 .. n -> Byte]
    BY <2>1 DEF Bodies
  <2>3. n \in Nat
    BY BoundAssumption, SMT
  <2>4. \A k \in 1 .. n : rest[k] \in Bytes
    BY <2>2 DEF Bytes
  <2>5. rest = [k \in 1 .. n |-> rest[k]]
    BY <2>2
  <2>6. rest \in Seq(Bytes)
    BY <2>3, <2>4, <2>5, SMT
  <2>7. "x" \in Bytes
    BY DEF Bytes
  <2>8. <<"x">> \in Seq(Bytes)
    BY <2>7, SMT
  <2> QED BY <2>1, <2>6, <2>8, SMT
<1>2. PICK from \in 2 .. Len(R), to \in 2 .. Len(R) :
        /\ from <= to
        /\ \/ own = SubSeq(R, from, to) /\ apart = FALSE
           \/ /\ apart = TRUE
              /\ \E cut \in from .. to - 2 : own = SubSeq(R, from, cut) \o SubSeq(R, cut + 2, to)
  BY DEF Init
<1>3. from \in 1 .. Len(R) /\ to \in 1 .. Len(R)
  BY <1>1, SMT
<1>4. own \in Seq(Bytes)
  <2>1. CASE own = SubSeq(R, from, to)
    BY <1>1, <1>3, <2>1, SMT
  <2>2. ASSUME NEW cut \in from .. to - 2, own = SubSeq(R, from, cut) \o SubSeq(R, cut + 2, to)
        PROVE  own \in Seq(Bytes)
    <3>1. cut \in 1 .. Len(R) /\ cut + 2 \in 1 .. Len(R)
      BY <1>1, <1>3, SMT
    <3>2. SubSeq(R, from, cut) \in Seq(Bytes) /\ SubSeq(R, cut + 2, to) \in Seq(Bytes)
      BY <1>1, <1>3, <3>1, SMT
    <3> QED BY <2>2, <3>2, SMT
  <2> QED BY <1>2, <2>1, <2>2
<1>5. ~ apart => from <= to /\ own = SubSeq(R, from, to)
  BY <1>2
<1>6. value = ViewOf(own) /\ step = "parsed"
  BY DEF Init
<1> QED BY <1>1, <1>3, <1>4, <1>5, <1>6 DEF TextInv

\* A view keeps what was ASCII.
LEMMA ViewKeeps ==
  ASSUME own \in Seq(Bytes)
  PROVE  ViewOf(own) \in Seq(Class) /\ Keeps(ViewOf(own))
<1>1. \A byte \in Bytes : View(byte) \in Class
  BY ByteAssumption DEF View, Bytes, Class
<1>2. ViewOf(own) \in Seq(Class)
  BY <1>1, SMT DEF ViewOf
<1> QED BY <1>2, ViewOfIs, ViewIs DEF Keeps

\* So do bytes that have the same view, if none of them is 0xff.
LEMMA MatchKeeps ==
  ASSUME own \in Seq(Bytes), NEW bytes \in Seq(Bytes), ViewOf(bytes) = ViewOf(own),
         \A i \in 1 .. Len(bytes) : bytes[i] # "ff"
  PROVE  bytes \in Seq(Class) /\ Keeps(bytes)
<1>1. \A byte \in Bytes : byte \in Class
  BY ByteAssumption DEF Bytes, Class
<1>2. bytes \in Seq(Class)
  BY <1>1, SMT
<1>3. Len(bytes) = Len(own)
  BY ViewOfIs
<1>4. \A i \in 1 .. Len(own) : View(bytes[i]) = View(own[i]) /\ bytes[i] \in Bytes /\ own[i] \in Bytes
  BY <1>3, ViewOfIs
<1>5. \A i \in 1 .. Len(own) : own[i] \in {"x", "ctl", "US"} => bytes[i] = own[i]
  BY <1>3, <1>4, ViewIs
<1> QED BY <1>2, <1>3, <1>5 DEF Keeps

\* The view is as long as the bytes, so the tail that is cut off is what was sent.
LEMMA TailIs ==
  ASSUME sent \in Seq(Bytes)
  PROVE  raw_body = sent /\ Len(body) = Len(sent) /\ Len(sent) \in Nat
<1>1. Len(body) = Len(sent) /\ Len(sent) \in Nat
  BY ViewOfIs DEF body
<1>2. "x" \in Bytes
  BY DEF Bytes
<1>3. raw \in Seq(Bytes) /\ Len(raw) = Len(sent) + 1 /\ \A i \in 1 .. Len(sent) : raw[i + 1] = sent[i]
  BY <1>2, SMT DEF raw
<1>4. Len(raw) - Len(body) + 1 = 2
  BY <1>1, <1>3, SMT
<1>5. raw_body = SubSeq(raw, 2, Len(raw))
  BY <1>4 DEF raw_body
<1> HIDE DEF raw, raw_body
<1>6. raw_body = sent
  BY <1>1, <1>3, <1>5, SMT
<1> QED BY <1>1, <1>6

\* A stretch of a view is the view of that stretch.
LEMMA ViewOfStretch ==
  ASSUME NEW s \in Seq(Bytes), NEW o \in Nat, NEW n \in Nat, o + n <= Len(s)
  PROVE  SubSeq(ViewOf(s), o + 1, o + n) = ViewOf(SubSeq(s, o + 1, o + n))
<1> DEFINE v == ViewOf(s)
           b == SubSeq(s, o + 1, o + n)
<1>1. b \in Seq(Bytes) /\ Len(b) = n
  BY StretchIs
<1>2. \A i \in 1 .. n : b[i] = s[o + i] /\ o + i \in 1 .. Len(s)
  BY SMT
<1>3. Len(v) = Len(s) /\ \A i \in 1 .. Len(s) : v[i] = View(s[i])
  BY ViewOfIs
<1>4. v = [i \in 1 .. Len(s) |-> View(s[i])]
  BY DEF ViewOf
<1>5. ViewOf(b) = [i \in 1 .. n |-> View(b[i])]
  BY <1>1 DEF ViewOf
<1> HIDE DEF v, b
<1>6. SubSeq(v, o + 1, o + n) = [i \in 1 .. n |-> v[o + i]]
  BY <1>3, <1>4, SMT
<1>7. \A i \in 1 .. n : v[o + i] = View(b[i])
  BY <1>2, <1>3
<1> QED BY <1>5, <1>6, <1>7 DEF v, b

\* While the field is as it was parsed, it is looked for where its view occurs.
LEMMA MatchesAre ==
  ASSUME own \in Seq(Bytes), value = ViewOf(own)
  PROVE  Len(value) = Len(own) /\ Matches = Occurrences
<1>1. Len(value) = Len(own)
  BY ViewOfIs
<1> QED BY <1>1, ViewOfIs DEF Matches, MatchesAt, Occurrences

\* A match is a stretch of the body with the view of the field.
LEMMA OccurrenceIs ==
  ASSUME sent \in Seq(Bytes), own \in Seq(Bytes), NEW o \in Occurrences
  PROVE  /\ o \in Nat /\ SubSeq(sent, o + 1, o + Len(own)) \in Seq(Bytes)
         /\ ViewOf(SubSeq(sent, o + 1, o + Len(own))) = ViewOf(own)
<1>1. Len(own) \in Nat /\ Len(sent) \in Nat /\ Len(ViewOf(own)) = Len(own) /\ Len(body) = Len(sent)
  BY TailIs, ViewOfIs
<1>2. o \in 0 .. Len(sent) - Len(own) /\ SubSeq(body, o + 1, o + Len(own)) = ViewOf(own)
  BY <1>1 DEF Occurrences
<1>3. o \in Nat /\ o + Len(own) <= Len(sent)
  BY <1>1, <1>2, SMT
<1>4. SubSeq(body, o + 1, o + Len(own)) = ViewOf(SubSeq(sent, o + 1, o + Len(own)))
  BY <1>1, <1>3, ViewOfStretch DEF body
<1> QED BY <1>1, <1>2, <1>3, <1>4, StretchIs

\* A field in one piece occurs where it is.
LEMMA OwnOccurs ==
  ASSUME sent \in Seq(Bytes), NEW from \in 1 .. Len(sent), NEW to \in 1 .. Len(sent),
         from <= to, own = SubSeq(sent, from, to)
  PROVE  /\ from - 1 \in Occurrences
         /\ SubSeq(sent, (from - 1) + 1, (from - 1) + Len(own)) = own
<1>1. Len(sent) \in Nat /\ Len(body) = Len(sent)
  BY TailIs
<1>2. Len(own) = to - from + 1 /\ own \in Seq(Bytes) /\ Len(own) \in Nat
  BY <1>1, SMT
<1>3. /\ from - 1 \in 0 .. Len(sent) - Len(own) /\ from - 1 \in Nat /\ (from - 1) + Len(own) <= Len(sent)
      /\ (from - 1) + 1 = from /\ (from - 1) + Len(own) = to
  BY <1>1, <1>2, SMT
<1>4. Len(ViewOf(own)) = Len(own)
  BY <1>2, ViewOfIs
<1>5. SubSeq(body, (from - 1) + 1, (from - 1) + Len(own))
        = ViewOf(SubSeq(sent, (from - 1) + 1, (from - 1) + Len(own)))
  BY <1>2, <1>3, ViewOfStretch DEF body
<1> QED BY <1>1, <1>3, <1>4, <1>5 DEF Occurrences

\* Restoring keeps what was ASCII, and finds the bytes of a field that occurs once.
LEMMA RestoreIs ==
  ASSUME TextInv, step = "parsed"
  PROVE  RestoredInv(Restored)
<1>1. /\ sent \in Seq(Bytes) /\ own \in Seq(Bytes) /\ value = ViewOf(own)
      /\ Len(value) = Len(own) /\ Matches = Occurrences
  BY MatchesAre DEF TextInv
<1> DEFINE Found == Holds({"DEL"}) /\ \E offset \in Matches : UniqueMatch(offset)
           o == CHOOSE offset \in Matches : UniqueMatch(offset)
           bytes == SubSeq(sent, o + 1, o + Len(own))
           IsText == Text!IsUtf8(bytes) /\ \A i \in 1 .. Len(bytes) : bytes[i] # "ff"
<1>2. Restored = IF Found THEN IF IsText THEN bytes ELSE value ELSE value
  BY <1>1, TailIs DEF Restored
<1>3. Restored \in Seq(Class) /\ Keeps(Restored)
  <2>1. ViewOf(own) \in Seq(Class) /\ Keeps(ViewOf(own))
    BY <1>1, ViewKeeps
  <2>2. ASSUME Found, IsText PROVE bytes \in Seq(Class) /\ Keeps(bytes)
    <3>1. o \in Occurrences
      BY <1>1, <2>2
    <3> HIDE DEF o
    <3>2. bytes \in Seq(Bytes) /\ ViewOf(bytes) = ViewOf(own)
      BY <1>1, <3>1, OccurrenceIs
    <3> HIDE DEF bytes
    <3> QED BY <1>1, <2>2, <3>2, MatchKeeps
  <2> HIDE DEF Found, IsText, bytes
  <2> QED BY <1>1, <1>2, <2>1, <2>2
<1>4. ASSUME Unique PROVE Restored = Best
  <2>1. PICK from \in 1 .. Len(sent), to \in 1 .. Len(sent) :
          from <= to /\ own = SubSeq(sent, from, to)
    BY <1>4 DEF Unique, TextInv
  <2>2. from - 1 \in Occurrences /\ SubSeq(sent, (from - 1) + 1, (from - 1) + Len(own)) = own
    BY <1>1, <2>1, OwnOccurs
  <2>3. \A other \in Occurrences : other = from - 1
    BY <1>4, <2>2 DEF Unique
  <2>4. ASSUME Holds({"DEL"}) PROVE Found /\ bytes = own
    <3>1. PICK i \in 1 .. Len(value) : value[i] = "DEL"
      BY <2>4 DEF Holds
    <3>2. Len(own) \in Nat /\ Len(own) # 0 /\ from - 1 \in Nat
      BY <1>1, <2>1, <3>1, SMT
    <3>3. from - 1 >= from - 1 /\ from - 1 < (from - 1) + Len(value)
      BY <1>1, <3>2, SMT
    <3>4. UniqueMatch(from - 1)
      BY <1>1, <2>2, <2>3, <3>3 DEF UniqueMatch
    <3>5. o = from - 1 /\ Found
      <4>1. from - 1 \in Matches
        BY <1>1, <2>2
      <4>2. o \in Matches
        BY <3>4, <4>1
      <4> QED BY <1>1, <2>3, <2>4, <3>4, <4>1, <4>2
    <3> QED BY <2>2, <3>5
  <2>5. ASSUME ~ Holds({"DEL"}), OwnIsUtf8 PROVE ViewOf(own) = own
    <3>1. \A i \in 1 .. Len(own) : ViewOf(own)[i] # "DEL" /\ own[i] # "ff"
      BY <1>1, <2>5 DEF Holds, OwnIsUtf8
    <3>2. \A i \in 1 .. Len(own) : View(own[i]) = own[i]
      BY <1>1, <3>1, ViewOfIs, ViewIs
    <3>3. own = [i \in 1 .. Len(own) |-> own[i]]
      BY <1>1, SMT
    <3> QED BY <3>2, <3>3 DEF ViewOf
  <2>6. ASSUME bytes = own PROVE IsText <=> OwnIsUtf8
    BY <2>6 DEF OwnIsUtf8
  <2> HIDE DEF bytes, Found, IsText
  <2>7. CASE Holds({"DEL"})
    BY <1>1, <1>2, <2>4, <2>6, <2>7 DEF Best
  <2>8. CASE ~ Holds({"DEL"})
    BY <1>1, <1>2, <2>5, <2>8 DEF Best, Found
  <2> QED BY <2>7, <2>8
<1> QED BY <1>3, <1>4 DEF RestoredInv

\* Every step keeps the invariant.
LEMMA TextStep ==
  TextInv /\ [Next]_vars => TextInv'
<1> SUFFICES ASSUME TextInv, [Next]_vars PROVE TextInv'
  OBVIOUS
<1>1. /\ sent' = sent /\ own' = own /\ apart' = apart /\ kind' = kind
  BY DEF Next, Restore, Sanitize, Done, vars
<1>2. \A t : RestoredInv(t) => RestoredInv(t)'
  BY <1>1 DEF RestoredInv, Keeps, Unique, Occurrences, body, Best, OwnIsUtf8
<1>3. \A t : Sanitized(t)' = Sanitized(t)
  BY <1>1 DEF Sanitized
<1>4. CASE Restore
  <2>1. RestoredInv(value')
    BY <1>4, RestoreIs DEF Restore
  <2>2. RestoredInv(value)'
    BY <1>1, <2>1 DEF RestoredInv, Keeps, Unique, Occurrences, body, Best, OwnIsUtf8
  <2> QED BY <1>1, <1>4, <2>2 DEF TextInv, Restore
<1>5. CASE Sanitize
  <2>1. RestoredInv(value) /\ value' = Sanitized(value) /\ step' = "sanitized"
    BY <1>5 DEF TextInv, Sanitize
  <2>2. \E t : RestoredInv(t)' /\ value' = Sanitized(t)'
    BY <1>2, <1>3, <2>1
  <2> QED BY <1>1, <2>1, <2>2 DEF TextInv
<1>6. CASE UNCHANGED vars
  <2>1. value' = value /\ step' = step
    BY <1>6 DEF vars
  <2>2. step' = "restored" => RestoredInv(value)'
    BY <1>1, <2>1 DEF TextInv, RestoredInv, Keeps, Unique, Occurrences, body, Best, OwnIsUtf8
  <2>3. step' = "sanitized" => \E t : RestoredInv(t)' /\ value' = Sanitized(t)'
    BY <1>2, <1>3, <2>1 DEF TextInv
  <2> QED BY <1>1, <2>1, <2>2, <2>3 DEF TextInv
<1> QED BY <1>4, <1>5, <1>6 DEF Next, Done

\* No placeholder is left in a sanitized field, and no control character in a comment.
LEMMA SanitizedIs ==
  ASSUME NEW t \in Seq(Class)
  PROVE  \A i \in 1 .. Len(Sanitized(t)) :
           Sanitized(t)[i] \notin Placeholder /\ (kind = "comment" => Sanitized(t)[i] \notin Control)
<1> DEFINE s == IF kind = "comment" THEN Retained(t) ELSE t
           A == IF kind = "comment" THEN {char \in Class : Stays(char)} ELSE Class
<1>1. s \in Seq(A)
  BY RetainedIs DEF Staying
<1>2. Sanitized(t) = Questioned(s)
  BY DEF Sanitized
<1>3. kind = "comment" => \A char \in A : Stays(char)
  OBVIOUS
<1> HIDE DEF s, A
<1>4. /\ Len(Questioned(s)) = Len(s)
      /\ \A i \in 1 .. Len(s) : s[i] \in A /\
            Questioned(s)[i] = IF s[i] \in Placeholder THEN "?" ELSE s[i]
  BY <1>1, SMT DEF Questioned
<1>5. "?" \notin Placeholder /\ "?" \notin Control
  BY DEF Placeholder, Control
<1>6. \A char : Stays(char) /\ char \notin Placeholder => char \notin Control
  BY DEF Stays, Placeholder, Control
<1> QED BY <1>2, <1>3, <1>4, <1>5, <1>6

-----------------------------------------------------------------------------
(* The theorems.                                                           *)

\* The invariant holds throughout.
THEOREM TextInvariance ==
  Spec => []TextInv
BY TextStart, TextStep, PTL DEF Spec

\* Whatever the body, and wherever the bytes of a field are looked for: what was ASCII
\* is as it was, and no placeholder is left at the end.
THEOREM OnlyPlaceholdersEverChange ==
  Spec => []OnlyPlaceholdersChange
<1>1. TextInv => OnlyPlaceholdersChange
  <2> SUFFICES ASSUME TextInv PROVE OnlyPlaceholdersChange
    OBVIOUS
  <2>1. step = "restored" => Keeps(value)
    BY DEF TextInv, RestoredInv
  <2>2. ASSUME step = "sanitized"
        PROVE  \A i \in 1 .. Len(value) :
                 value[i] \notin Placeholder /\ (kind = "comment" => value[i] \notin Control)
    <3>1. PICK t : RestoredInv(t) /\ value = Sanitized(t)
      BY <2>2 DEF TextInv
    <3> QED BY <3>1, SanitizedIs DEF RestoredInv
  <2> QED BY <2>1, <2>2 DEF OnlyPlaceholdersChange, Keeps
<1> QED BY <1>1, TextInvariance, PTL

\* Whatever the body: a field in one piece whose view occurs once in it shows its own
\* bytes if they are UTF-8, and what was not ASCII as '?' if they are not.
THEOREM UniqueFieldsAreRestored ==
  Spec => []UniqueFieldIsRestored
<1>1. TextInv => UniqueFieldIsRestored
  BY DEF TextInv, RestoredInv, Unique, Best, UniqueFieldIsRestored, Shown, Masked
<1> QED BY <1>1, TextInvariance, PTL
=============================================================================
