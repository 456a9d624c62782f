------------------------- MODULE WeatherScan_proofs -------------------------
(***************************************************************************)
(* Proofs about WeatherScan, for texts of any length: no position is out   *)
(* of date or out of bounds, the scan comes to an end, the readings and    *)
(* the comment are the text's own characters, each used once, prose is     *)
(* left as it is, and inline telemetry is decoded as it was sent.          *)
(***************************************************************************)
EXTENDS WeatherScan, SequenceTheorems, WellFoundedInduction, TLAPS

-----------------------------------------------------------------------------
(* The text at the cursor.                                                 *)

\* What At gives where the text has ended: none of the characters of a text.
NoChar == ""

\* The end of the text is no digit, no blank and no letter of a field.
LEMMA NoCharIs ==
  NoChar \notin Digit \cup Blank \cup Field \cup {"v", "#"}
BY DEF NoChar, Digit, Blank, Field, Width

\* At looks at the text inside of it, and gives no character outside.
LEMMA AtIs ==
  ASSUME NEW i, At(i) # NoChar
  PROVE  cursor + i + 1 \in 1 .. Len(remaining)
BY DEF At, NoChar

Follow(set, i, n) ==
  (\A k \in 0 .. n - 1 : At(i + k) \in set) /\ At(i + n) \notin set

\* The length of a sequence.
LEMMA LengthOf ==
  ASSUME NEW s \in Seq(Int)
  PROVE  Len(s) \in Nat
BY SMT

\* Every set of natural numbers has a least one, if it has any.
LEMMA LeastIs ==
  ASSUME NEW S, S \subseteq Nat, S # {}
  PROVE  \E n \in S : \A m \in Nat : m < n => m \notin S
<1>1. PICK n \in S : \A m \in S : <<m, n>> \notin OpToRel(<, Nat)
  BY WFMin, NatLessThanWellFounded
<1>2. \A m \in Nat : m < n => m \notin S
  BY <1>1 DEF OpToRel
<1> QED BY <1>2

\* The characters of a set that follow one another end where the text ends, if not
\* before: there is such a number, and they all lie in the text.
LEMMA CountIs ==
  ASSUME NEW set, NoChar \notin set, remaining \in Seq(Int), cursor \in Nat, NEW i \in Nat
  PROVE  /\ Count(set, i) \in 0 .. Len(remaining)
         /\ Count(set, i) # 0 => cursor + i + Count(set, i) <= Len(remaining)
         /\ Follow(set, i, Count(set, i))
<1> DEFINE S == {n \in Nat : At(i + n) \notin set}
           L == Len(remaining)
<1>1. L \in Nat
  BY SMT
<1>2. L \in S
  <2>1. cursor + (i + L) + 1 \notin 1 .. L
    BY <1>1, SMT
  <2>2. At(i + L) = NoChar
    BY <2>1, AtIs
  <2> QED BY <1>1, <2>2
<1>3. PICK n \in S : \A m \in Nat : m < n => m \notin S
  <2>1. S \subseteq Nat /\ S # {}
    BY <1>2
  <2> HIDE DEF S
  <2> QED BY <2>1, LeastIs
<1>4. n \in Nat /\ At(i + n) \notin set /\ \A m \in Nat : m < n => At(i + m) \in set
  BY <1>3
<1>5. n \in 0 .. L
  BY <1>1, <1>2, <1>3, SMT
<1>6. Follow(set, i, n)
  <2>1. \A k \in 0 .. n - 1 : k \in Nat /\ k < n
    BY <1>4, SMT
  <2> QED BY <1>4, <2>1 DEF Follow
<1> DEFINE c == Count(set, i)
<1>7. c \in 0 .. L /\ Follow(set, i, c)
  <2>1. c = CHOOSE k \in 0 .. L : Follow(set, i, k)
    BY DEF Count, Follow
  <2> HIDE DEF c
  <2> QED BY <1>5, <1>6, <2>1
<1> HIDE DEF c
<1>8. ASSUME c # 0 PROVE cursor + i + c <= L
  <2>1. c - 1 \in 0 .. c - 1
    BY <1>1, <1>7, <1>8, SMT
  <2>2. At(i + (c - 1)) \in set
    BY <1>7, <2>1 DEF Follow
  <2>3. At(i + (c - 1)) # NoChar
    BY <2>2
  <2>4. cursor + (i + (c - 1)) + 1 \in 1 .. L
    BY <2>3, AtIs
  <2> QED BY <1>1, <1>7, <2>4, SMT
<1> QED BY <1>7, <1>8 DEF c

\* What is left without n characters at the cursor: those before the cursor, and
\* those after them, which have moved.
LEMMA WithoutIs ==
  ASSUME remaining \in Seq(Int), cursor \in Nat, NEW n \in Nat, cursor + n <= Len(remaining),
         NEW after, after = Without(n)
  PROVE  /\ after \in Seq(Int) /\ Len(after) = Len(remaining) - n
         /\ \A k \in 1 .. cursor : after[k] = remaining[k]
         /\ \A k \in cursor + 1 .. Len(after) : after[k] = remaining[k + n]
<1> DEFINE L == Len(remaining)
           front == SubSeq(remaining, 1, cursor)
           back == SubSeq(remaining, cursor + n + 1, L)
<1>1. L \in Nat
  BY SMT
<1>2. /\ front \in Seq(Int) /\ Len(front) = cursor
      /\ \A k \in 1 .. cursor : front[k] = remaining[k]
  BY <1>1, SMT
<1>3. /\ back \in Seq(Int) /\ Len(back) = L - cursor - n
      /\ \A k \in 1 .. L - cursor - n : back[k] = remaining[cursor + n + k]
  BY <1>1, SMT
<1>4. after = front \o back
  BY DEF Without
<1> HIDE DEF front, back
<1>5. /\ after \in Seq(Int) /\ Len(after) = L - n
      /\ \A k \in 1 .. cursor : after[k] = front[k]
      /\ \A k \in cursor + 1 .. L - n : after[k] = back[k - cursor]
  <2>1. /\ after \in Seq(Int) /\ Len(after) = Len(front) + Len(back)
        /\ \A k \in 1 .. Len(front) + Len(back) :
             after[k] = IF k <= Len(front) THEN front[k] ELSE back[k - Len(front)]
    <3>1. front \in Seq(Int) /\ back \in Seq(Int)
      BY <1>2, <1>3
    <3> QED BY <3>1, <1>4, ConcatProperties
  <2>2. Len(front) + Len(back) = L - n
    BY <1>1, <1>2, <1>3, SMT
  <2>3. \A k \in 1 .. cursor : k \in 1 .. L - n /\ k <= cursor
    BY <1>1, SMT
  <2>4. \A k \in cursor + 1 .. L - n : k \in 1 .. L - n /\ ~ k <= cursor
    BY <1>1, SMT
  <2> QED BY <1>2, <2>1, <2>2, <2>3, <2>4
<1>6. ASSUME NEW k \in cursor + 1 .. L - n PROVE after[k] = remaining[k + n]
  <2>1. k - cursor \in 1 .. L - cursor - n /\ cursor + n + (k - cursor) = k + n
    BY <1>1, SMT
  <2>2. back[k - cursor] = remaining[cursor + n + (k - cursor)]
    BY <1>3, <2>1
  <2> QED BY <1>5, <2>1, <2>2
<1> QED BY <1>2, <1>5, <1>6

-----------------------------------------------------------------------------
(* The invariant.                                                          *)

Phase == {"wind", "scan", "telemetry", "done"}

\* The text that the cursor has not reached is still the end of the text.
SuffixInv(s, c) == \A k \in c + 1 .. Len(s) : s[k] = Len(text) - Len(s) + k

\* The positions kept for later, in their order, up to a cursor.
KeptInv(kept, c) ==
  \A i \in 1 .. Len(kept) :
    /\ kept[i].position \in Nat /\ kept[i].position <= c
    /\ \A j \in 1 .. i : kept[j].position <= kept[i].position

ScanInv ==
  /\ text \in Seq(Char) /\ phase \in Phase
  /\ phase = "wind" => cursor = 0 /\ preserved = <<>>
  /\ phase = "scan" =>
       /\ remaining \in Seq(Int) /\ cursor \in Nat /\ sequence \in Int
       /\ preserved \in Seq([position : Nat, piece : Seq(Int)])
       /\ cursor <= Len(remaining) /\ sequence <= cursor
       /\ SuffixInv(remaining, cursor) /\ KeptInv(preserved, cursor)

\* The wind takes characters from the start of the text, and there are as many.
LEMMA WindIs ==
  ASSUME text \in Seq(Char), NEW from \in {0, 1}, from <= Len(text), NEW w \in {0, 7, 8},
         NEW s, s = Positions(from), w <= Len(s),
         NEW after, after = SubSeq(s, w + 1, Len(s))
  PROVE  after \in Seq(Int) /\ SuffixInv(after, 0)
<1> DEFINE L == Len(text)
<1>1. L \in Nat
  BY SMT
<1>2. s \in Seq(Int) /\ Len(s) = L - from /\ \A k \in 1 .. L - from : s[k] = from + k
  BY <1>1, SMT DEF Positions
<1>3. /\ after \in Seq(Int) /\ Len(after) = L - from - w
      /\ \A k \in 1 .. L - from - w : after[k] = s[w + k]
  BY <1>1, <1>2, SMT
<1>4. from \in Nat /\ w \in Nat
  <2>1. \A c \in {0, 1, 7, 8} : c \in Nat
    BY SMT
  <2>2. from \in {0, 1, 7, 8} /\ w \in {0, 1, 7, 8}
    OBVIOUS
  <2> QED BY <2>1, <2>2
<1> DEFINE n == Len(after)
<1> HIDE DEF L, n
<1>5. n \in Nat /\ n = L - from - w
  BY <1>3, SMT DEF n
<1>6. ASSUME NEW k \in 0 + 1 .. n
      PROVE  after[k] = L - n + k
  <2>1. k \in Int /\ k \in 1 .. L - from - w /\ w + k \in 1 .. L - from
    BY <1>1, <1>4, <1>5, SMT
  <2>2. after[k] = from + (w + k)
    BY <1>2, <1>3, <2>1
  <2>3. from + (w + k) = L - n + k
    BY <1>1, <1>4, <1>5, <2>1, SMT
  <2> QED BY <2>2, <2>3
<1> QED BY <1>3, <1>6 DEF SuffixInv, L, n

\* The text left after an edit at the cursor is shorter, and ends as the text does.
LEMMA EditIs ==
  ASSUME text \in Seq(Char), remaining \in Seq(Int), cursor \in Nat, SuffixInv(remaining, cursor),
         NEW n \in Nat, n # 0, cursor + n <= Len(remaining), NEW after, after = Without(n)
  PROVE  /\ after \in Seq(Int) /\ cursor <= Len(after) /\ SuffixInv(after, cursor)
         /\ Len(after) < Len(remaining)
<1> DEFINE L == Len(remaining)
           T == Len(text)
<1>1. L \in Nat /\ T \in Nat
  BY SMT
<1>2. /\ after \in Seq(Int) /\ Len(after) = L - n
      /\ \A k \in cursor + 1 .. Len(after) : after[k] = remaining[k + n]
  BY WithoutIs
<1>3. \A k \in cursor + 1 .. L : remaining[k] = T - L + k
  BY DEF SuffixInv
<1>4. ASSUME NEW k \in cursor + 1 .. L - n
      PROVE  after[k] = T - (L - n) + k
  <2>1. k + n \in cursor + 1 .. L /\ k \in cursor + 1 .. Len(after)
    BY <1>1, <1>2, SMT
  <2>2. after[k] = T - L + (k + n)
    BY <1>2, <1>3, <2>1
  <2> QED BY <1>1, <2>1, <2>2, SMT
<1>5. cursor <= L - n /\ L - n < L
  BY <1>1, SMT
<1> QED BY <1>2, <1>4, <1>5 DEF SuffixInv

\* A cursor that moves on in the same text.
LEMMA CursorMoves ==
  ASSUME text \in Seq(Char), remaining \in Seq(Int), cursor \in Nat, SuffixInv(remaining, cursor),
         NEW c \in Int, cursor < c
  PROVE  SuffixInv(remaining, c)
<1>1. Len(remaining) \in Nat
  BY SMT
<1>2. \A k \in c + 1 .. Len(remaining) : k \in cursor + 1 .. Len(remaining)
  BY <1>1, SMT
<1> QED BY <1>2 DEF SuffixInv

\* Positions up to a cursor are also up to one that has moved on.
LEMMA KeptStay ==
  ASSUME NEW kept, NEW c \in Int, KeptInv(kept, c), NEW d \in Int, c <= d
  PROVE  KeptInv(kept, d)
BY SMT DEF KeptInv

\* A position kept at the cursor is the last.
LEMMA KeptMore ==
  ASSUME NEW kept \in Seq([position : Nat, piece : Seq(Int)]), cursor \in Nat, KeptInv(kept, cursor),
         NEW piece \in Seq(Int), NEW after, after = Append(kept, [position |-> cursor, piece |-> piece])
  PROVE  /\ after \in Seq([position : Nat, piece : Seq(Int)])
         /\ KeptInv(after, cursor)
<1> DEFINE n == Len(kept)
           entry == [position |-> cursor, piece |-> piece]
<1>1. entry \in [position : Nat, piece : Seq(Int)] /\ entry.position = cursor
  OBVIOUS
<1> HIDE DEF entry
<1>2. /\ n \in Nat /\ after \in Seq([position : Nat, piece : Seq(Int)]) /\ Len(after) = n + 1
      /\ \A i \in 1 .. n : after[i] = kept[i]
      /\ after[n + 1] = entry
  BY <1>1, SMT DEF entry
<1>3. \A i : i \in 1 .. n + 1 <=> i \in 1 .. n \/ i = n + 1
  BY <1>2, SMT
<1>4. \A i \in 1 .. n : /\ kept[i].position \in Nat /\ kept[i].position <= cursor
                        /\ \A j \in 1 .. i : kept[j].position <= kept[i].position
  BY DEF KeptInv
<1>5. ASSUME NEW i \in 1 .. n + 1
      PROVE  /\ after[i].position \in Nat /\ after[i].position <= cursor
             /\ \A j \in 1 .. i : after[j].position <= after[i].position
  <2>1. cursor <= cursor
    BY SMT
  <2>2. CASE i \in 1 .. n
    <3>1. \A j \in 1 .. i : j \in 1 .. n
      BY <1>2, <2>2, SMT
    <3> QED BY <1>2, <1>4, <2>2, <3>1
  <2>3. CASE i = n + 1
    <3>1. after[i].position = cursor
      BY <1>1, <1>2, <2>3
    <3>2. \A j \in 1 .. i : after[j].position <= cursor
      BY <1>1, <1>2, <1>3, <1>4, <2>1, <2>3
    <3> QED BY <2>1, <3>1, <3>2
  <2> QED BY <1>3, <2>2, <2>3
<1> QED BY <1>2, <1>5 DEF KeptInv

-----------------------------------------------------------------------------
(* How much each way around the loop takes.                                *)

\* A sign is one character or none.
LEMMA SignIs ==
  Sign \in {0, 1} /\ VoltageSign \in {0, 1}
BY SMT DEF Sign, VoltageSign

\* The characters that follow the letter of a field are in the text.
LEMMA FollowersAre ==
  ASSUME remaining \in Seq(Int), cursor \in Nat
  PROVE  /\ Digits \in Nat /\ TemperatureWidth \in Nat /\ Placeholders \in Nat
         /\ TemperatureWidth # 0 => cursor + 1 + Sign + TemperatureWidth <= Len(remaining)
         /\ Placeholders # 0 => cursor + 1 + Placeholders <= Len(remaining)
<1>1. 1 \in Nat /\ 1 + Sign \in Nat /\ \A k \in 0 .. Len(remaining) : k \in Nat
  BY SignIs, SMT
<1>2. NoChar \notin Digit /\ NoChar \notin Blank /\ NoChar \notin Digit \cup Blank
  BY NoCharIs
<1>3. Digits \in Nat
  BY <1>1, <1>2, CountIs DEF Digits
<1>4. /\ TemperatureWidth \in Nat
      /\ TemperatureWidth # 0 => cursor + (1 + Sign) + TemperatureWidth <= Len(remaining)
  BY <1>1, <1>2, CountIs DEF TemperatureWidth
<1>5. /\ Placeholders \in Nat
      /\ Placeholders # 0 => cursor + 1 + Placeholders <= Len(remaining)
  BY <1>1, <1>2, CountIs DEF Placeholders
<1>6. cursor + (1 + Sign) = cursor + 1 + Sign
  BY SignIs, SMT
<1> QED BY <1>3, <1>4, <1>5, <1>6

\* The letter of a field has a number of characters.
LEMMA WidthIs ==
  ASSUME NEW letter \in Field
  PROVE  Width[letter] \in Nat
BY SMT DEF Field, Width

\* A field has a number of characters, whatever it shows.
LEMMA FieldWidthIs ==
  ASSUME remaining \in Seq(Int), cursor \in Nat, Identifier \in Field
  PROVE  FieldWidth \in Nat
<1>1. Digits \in Nat /\ Placeholders \in Nat /\ Sign \in Nat
  BY FollowersAre, SignIs, SMT
<1>2. Least(Digits, 4) \in Nat /\ Least(Digits, 3) \in Nat /\ Least(Placeholders, 5) \in Nat
  BY <1>1, SMT DEF Least
<1>3. NumericWidth \in Nat
  BY <1>1, <1>2, SMT DEF NumericWidth
<1>4. Sign + NumericWidth \in Nat
  BY <1>1, <1>3, SMT
<1> QED BY <1>2, <1>4, WidthIs DEF FieldWidth

\* A pair of bars is in the text, and the payload lies between the two.
LEMMA BlocksAre ==
  ASSUME NEW s \in Seq(Int), NEW a, NEW b, <<a, b>> \in Blocks(s)
  PROVE  /\ a \in 1 .. Len(s) /\ b \in 1 .. Len(s)
         /\ a < b
<1>1. a \in 1 .. Len(s) /\ b \in 1 .. Len(s) /\ b - a - 1 \in 4 .. 14
  BY DEF Blocks
<1>2. Len(s) \in Nat
  BY SMT
<1> QED BY <1>1, <1>2, SMT

\* What the first characters of a text say of the wind is in the text.
LEMMA WindPairIs ==
  ASSUME NEW s \in Seq(Int)
  PROVE  WindPair(s).width \in {0, 7, 8} /\ WindPair(s).width <= Len(s)
<1> DEFINE Reads(from) == LET d == SubSeq(s, from, from + 2) IN
                          IF Trim(d) # <<>> /\ AllIn(Trim(d), Digit) THEN d ELSE <<>>
           direct == [width |-> 7, direction |-> Reads(1), speed |-> Reads(5)]
           marked == [width |-> 8, direction |-> Reads(2), speed |-> Reads(6)]
           without == [width |-> 0, direction |-> <<>>, speed |-> <<>>]
<1>1. Len(s) \in Nat
  BY SMT
<1>2. WindPair(s) = IF Len(s) >= 7 /\ text[s[4]] = "/" THEN direct
                    ELSE IF Len(s) >= 8 /\ text[s[1]] = "c" /\ text[s[5]] = "s" THEN marked
                    ELSE without
  BY DEF WindPair
<1>3. direct.width = 7 /\ marked.width = 8 /\ without.width = 0
  OBVIOUS
<1> HIDE DEF direct, marked, without
<1> QED BY <1>1, <1>2, <1>3, SMT

-----------------------------------------------------------------------------
(* Each step.                                                              *)

\* Each time around the loop there is less of the text left to look at.
Advance ==
  phase = "scan" /\ phase' = "scan" =>
    Len(remaining') - cursor' < Len(remaining) - cursor

\* What the scanner knows in the loop.
Known ==
  /\ text \in Seq(Char) /\ remaining \in Seq(Int) /\ cursor \in Nat /\ sequence \in Int
  /\ preserved \in Seq([position : Nat, piece : Seq(Int)])
  /\ cursor <= Len(remaining) /\ sequence <= cursor
  /\ SuffixInv(remaining, cursor) /\ KeptInv(preserved, cursor)

\* A step that takes n characters out of the text at the cursor.
LEMMA EditStep ==
  ASSUME Known, NEW n \in Nat, n # 0, cursor + n <= Len(remaining), remaining' = Without(n),
         text' = text, phase = "scan", phase' = phase, cursor' = cursor, sequence' \in {sequence, cursor},
         preserved' \in Seq([position : Nat, piece : Seq(Int)]), KeptInv(preserved', cursor)
  PROVE  ScanInv' /\ Advance
<1>1. /\ remaining' \in Seq(Int) /\ cursor <= Len(remaining') /\ SuffixInv(remaining', cursor)
      /\ Len(remaining') < Len(remaining)
  BY EditIs DEF Known
<1>2. cursor \in Nat /\ Len(remaining) \in Nat /\ Len(remaining') \in Nat
  BY <1>1, SMT DEF Known
<1>3. Len(remaining') - cursor' < Len(remaining) - cursor
  BY <1>1, <1>2, SMT
<1>4. sequence' \in Int /\ sequence' <= cursor
  BY <1>2, SMT DEF Known
<1>5. SuffixInv(remaining, cursor)' /\ KeptInv(preserved, cursor)'
  BY <1>1 DEF SuffixInv, KeptInv
<1>6. text' \in Seq(Char) /\ cursor' \in Nat
  BY DEF Known
<1>7. phase' = "scan" /\ phase' \in Phase /\ phase' # "wind"
  BY DEF Phase
<1> QED BY <1>1, <1>3, <1>4, <1>5, <1>6, <1>7 DEF ScanInv, Advance

\* A step that moves the cursor on in the text.
LEMMA MoveStep ==
  ASSUME Known, remaining' = remaining, cursor' \in Nat, cursor < cursor', cursor' <= Len(remaining),
         text' = text, phase = "scan", phase' = phase, sequence' = sequence, preserved' = preserved
  PROVE  ScanInv' /\ Advance
<1>1. cursor \in Nat /\ cursor \in Int /\ cursor' \in Int /\ Len(remaining) \in Nat /\ cursor <= cursor'
  BY SMT DEF Known
<1>2. Len(remaining') - cursor' < Len(remaining) - cursor
  BY <1>1, SMT
<1>3. sequence' \in Int /\ sequence' <= cursor'
  BY <1>1, SMT DEF Known
<1>4. SuffixInv(remaining, cursor') /\ KeptInv(preserved, cursor')
  BY <1>1, CursorMoves, KeptStay DEF Known
<1>5. SuffixInv(remaining, cursor)' /\ KeptInv(preserved, cursor)'
  BY <1>4 DEF SuffixInv, KeptInv
<1>6. /\ text' \in Seq(Char) /\ remaining' \in Seq(Int) /\ cursor' <= Len(remaining')
      /\ preserved' \in Seq([position : Nat, piece : Seq(Int)])
  BY DEF Known
<1>7. phase' = "scan" /\ phase' \in Phase /\ phase' # "wind"
  BY DEF Phase
<1> QED BY <1>2, <1>3, <1>5, <1>6, <1>7 DEF ScanInv, Advance

\* The length of a text.
LEMMA LengthIs ==
  ASSUME NEW s \in Seq(Char)
  PROVE  Len(s) \in Nat /\ (s # <<>> => 1 <= Len(s))
<1>1. Len(s) \in Nat
  BY SMT
<1>2. ASSUME s # <<>> PROVE Len(s) # 0
  BY <1>2, SMT
<1> QED BY <1>1, <1>2, SMT

\* The wind is taken before the loop, which begins at the start of what is left.
LEMMA WindStep ==
  ASSUME ScanInv, TakeWind
  PROVE  ScanInv' /\ Advance
<1> DEFINE from == IF text # <<>> /\ text[1] = "_" THEN 1 ELSE 0
           w == WindPair(Rest).width
<1>1. /\ text \in Seq(Char) /\ text' = text /\ phase = "wind" /\ phase' = "scan"
      /\ cursor = 0 /\ cursor' = 0 /\ preserved = <<>> /\ preserved' = <<>>
  BY DEF ScanInv, TakeWind
<1>2. from \in {0, 1} /\ from <= Len(text)
  <2>1. Len(text) \in Nat
    BY <1>1, LengthIs
  <2>2. text # <<>> => 1 <= Len(text)
    BY <1>1, LengthIs
  <2>3. 0 <= Len(text)
    BY <2>1, SMT
  <2>4. (from = 1 /\ 1 <= Len(text)) \/ from = 0
    BY <2>2
  <2> QED BY <2>3, <2>4
<1>3. Rest = Positions(from)
  BY DEF Rest
<1>4. remaining' = SubSeq(Rest, w + 1, Len(Rest)) /\ sequence' \in {None, 0}
  BY DEF TakeWind
<1> HIDE DEF from
<1>5. Rest \in Seq(Int)
  <2>1. Len(text) - from \in Nat
    BY <1>1, <1>2, SMT
  <2>2. \A k \in 1 .. Len(text) - from : from + k \in Int
    BY <1>2, <2>1, SMT
  <2> QED BY <1>3, <2>1, <2>2, SMT DEF Positions
<1>6. w \in {0, 7, 8} /\ w <= Len(Rest)
  BY <1>5, WindPairIs
<1> HIDE DEF w
<1>7. remaining' \in Seq(Int) /\ SuffixInv(remaining', 0)
  BY <1>1, <1>2, <1>3, <1>4, <1>6, WindIs
<1>8. SuffixInv(remaining, cursor)'
  BY <1>1, <1>7 DEF SuffixInv
<1>9. preserved' \in Seq([position : Nat, piece : Seq(Int)]) /\ KeptInv(preserved, cursor)'
  BY <1>1, SMT DEF KeptInv
<1>10. cursor' \in Nat /\ cursor' <= Len(remaining')
  BY <1>1, <1>7, SMT
<1>11. sequence' \in Int /\ sequence' <= cursor'
  BY <1>1, <1>4, SMT DEF None
<1>12. phase' \in Phase /\ phase' # "wind" /\ phase # "scan"
  BY <1>1 DEF Phase
<1> QED BY <1>1, <1>7, <1>8, <1>9, <1>10, <1>11, <1>12 DEF ScanInv, Advance

\* In the loop the invariant says all that is known.
LEMMA Knowing ==
  ASSUME ScanInv, Scanning
  PROVE  Known /\ phase = "scan" /\ cursor < Len(remaining)
BY DEF ScanInv, Known, Scanning

\* A payload that is skipped ends in the text, after the cursor.
LEMMA SkipStep ==
  ASSUME ScanInv, SkipTelemetry
  PROVE  ScanInv' /\ Advance
<1>1. Known /\ phase = "scan" /\ IsTelemetry
  BY Knowing DEF SkipTelemetry
<1>2. /\ remaining' = remaining /\ text' = text /\ phase' = phase
      /\ sequence' = sequence /\ preserved' = preserved
      /\ cursor' = CHOOSE b \in 1 .. Len(remaining) : <<cursor + 1, b>> \in Blocks(remaining)
  BY DEF SkipTelemetry, found
<1>3. remaining \in Seq(Int) /\ cursor \in Nat
  BY <1>1 DEF Known
<1>4. \E b \in 1 .. Len(remaining) : <<cursor + 1, b>> \in Blocks(remaining)
  <2>1. PICK block \in Blocks(remaining) : block[1] = cursor + 1
    BY <1>1 DEF IsTelemetry
  <2>2. block \in (1 .. Len(remaining)) \X (1 .. Len(remaining))
    BY DEF Blocks
  <2>3. block = <<cursor + 1, block[2]>> /\ block[2] \in 1 .. Len(remaining)
    BY <2>1, <2>2
  <2> QED BY <2>1, <2>3
<1>5. cursor' \in 1 .. Len(remaining) /\ <<cursor + 1, cursor'>> \in Blocks(remaining)
  BY <1>2, <1>4
<1>6. cursor + 1 < cursor'
  BY <1>3, <1>5, BlocksAre
<1>7. cursor' \in Nat /\ cursor < cursor' /\ cursor' <= Len(remaining)
  BY <1>3, <1>5, <1>6, SMT
<1> QED BY <1>1, <1>2, <1>7, MoveStep

\* A character that begins nothing is passed over.
LEMMA PassStep ==
  ASSUME ScanInv, PassOver
  PROVE  ScanInv' /\ Advance
<1>1. Known /\ phase = "scan" /\ cursor < Len(remaining)
  BY Knowing DEF PassOver
<1>2. /\ remaining' = remaining /\ text' = text /\ phase' = phase
      /\ sequence' = sequence /\ preserved' = preserved /\ cursor' = cursor + 1
  BY DEF PassOver, found
<1>3. cursor' \in Nat /\ cursor < cursor' /\ cursor' <= Len(remaining)
  BY <1>1, <1>2, SMT DEF Known
<1> QED BY <1>1, <1>2, <1>3, MoveStep

\* The bar of inline telemetry.
Bar == "|"

\* It begins no field and stands in none.
LEMMA BarIs ==
  Bar \notin Digit \cup Blank \cup Field \cup {"v", "#", "+", "-", "t"}
BY DEF Bar, Digit, Blank, Field, Width

\* Characters without a bar, and as many more from a set without one.
LEMMA NoBarFollows ==
  ASSUME NEW i \in Nat, NEW c \in Nat, NEW set, Bar \notin set,
         \A k \in Nat : k < i => At(k) # Bar, \A k \in 0 .. c - 1 : At(i + k) \in set
  PROVE  \A k \in Nat : k < i + c => At(k) # Bar
<1>1. ASSUME NEW k \in Nat, k < i + c, ~ k < i PROVE At(k) # Bar
  <2>1. k - i \in 0 .. c - 1 /\ i + (k - i) = k
    BY <1>1, SMT
  <2>2. At(i + (k - i)) \in set
    BY <2>1
  <2> QED BY <2>1, <2>2
<1> QED BY <1>1

\* How many characters a token that is removed without a reading has; none is a bar.
LEMMA DropIs ==
  ASSUME Known, DropVoltage \/ DropCounter \/ DropEmptyCounter \/ DropMixedTemperature
  PROVE  \E n \in Nat : /\ n # 0 /\ cursor + n <= Len(remaining) /\ remaining' = Without(n)
                        /\ \A k \in Nat : k < n => At(k) # Bar
<1>1. remaining \in Seq(Int) /\ cursor \in Nat
  BY DEF Known
<1>2. 1 \in Nat /\ 1 + VoltageSign \in Nat /\ 1 + Sign \in Nat /\ \A k \in 0 .. Len(remaining) : k \in Nat
  BY SignIs, SMT
<1>3. NoChar \notin Digit /\ NoChar \notin Blank /\ NoChar \notin Digit \cup Blank
  BY NoCharIs
<1>4. Bar \notin Digit /\ Bar \notin Blank /\ Bar \notin Digit \cup Blank
  BY BarIs
<1>5. Len(remaining) \in Nat
  BY <1>1, LengthOf
<1>6. ASSUME At(0) \in {"v", "#", "t"} PROVE \A k \in Nat : k < 1 => At(k) # Bar
  <2>1. \A k \in Nat : k < 1 => k = 0
    BY SMT
  <2> QED BY <1>6, <2>1, BarIs
<1>7. ASSUME At(0) \in {"v", "#", "t"}, NEW sign \in {0, 1}, sign = 1 => At(1) \in {"+", "-"}
      PROVE  \A k \in Nat : k < 1 + sign => At(k) # Bar
  <2>1. \A k \in Nat : k < 1 + sign => k = 0 \/ (k = 1 /\ sign = 1)
    BY <1>7, SMT
  <2> QED BY <1>7, <2>1, BarIs
<1>8. CASE DropVoltage
  <2> DEFINE c == Count(Digit, 1 + VoltageSign)
             n == 1 + VoltageSign + c
  <2>1. c # 0 /\ remaining' = Without(n) /\ At(0) = "v"
    BY <1>8 DEF DropVoltage, IsVoltage, Identifier
  <2>2. c \in Nat /\ cursor + (1 + VoltageSign) + c <= Len(remaining) /\ Follow(Digit, 1 + VoltageSign, c)
    BY <1>1, <1>2, <1>3, <2>1, CountIs
  <2>3. VoltageSign \in {0, 1} /\ (VoltageSign = 1 => At(1) \in {"+", "-"})
    BY SignIs DEF VoltageSign
  <2> HIDE DEF c
  <2>4. \A k \in Nat : k < 1 + VoltageSign => At(k) # Bar
    BY <1>7, <2>1, <2>3
  <2>5. \A k \in Nat : k < n => At(k) # Bar
    <3> DEFINE i == 1 + VoltageSign
    <3>1. \A k \in 0 .. c - 1 : At(i + k) \in Digit
      BY <2>2 DEF Follow
    <3>2. i \in Nat /\ \A k \in Nat : k < i => At(k) # Bar
      BY <1>2, <2>4
    <3> HIDE DEF i
    <3>3. \A k \in Nat : k < i + c => At(k) # Bar
      BY <1>4, <2>2, <3>1, <3>2, NoBarFollows
    <3> QED BY <3>3 DEF i
  <2>6. n \in Nat /\ n # 0 /\ cursor + n <= Len(remaining)
    BY <1>1, <1>5, <2>2, <2>3, SMT
  <2> QED BY <2>1, <2>5, <2>6
<1>9. CASE DropCounter
  <2> DEFINE c == Count(Digit, 1)
             n == 1 + c
  <2>1. c # 0 /\ remaining' = Without(n) /\ At(0) = "#"
    BY <1>9 DEF DropCounter, IsCounter, Identifier
  <2>2. c \in Nat /\ cursor + 1 + c <= Len(remaining) /\ Follow(Digit, 1, c)
    BY <1>1, <1>2, <1>3, <2>1, CountIs
  <2> HIDE DEF c
  <2>3. \A k \in Nat : k < n => At(k) # Bar
    BY <1>2, <1>4, <1>6, <2>1, <2>2, NoBarFollows DEF Follow
  <2>4. n \in Nat /\ n # 0 /\ cursor + n <= Len(remaining)
    BY <1>1, <1>5, <2>2, SMT
  <2> QED BY <2>1, <2>3, <2>4
<1>10. CASE DropEmptyCounter
  <2> DEFINE c == Least(Placeholders, 5)
             n == 1 + c
  <2>1. Placeholders # 0 /\ remaining' = Without(n) /\ At(0) = "#"
    BY <1>10 DEF DropEmptyCounter, IsEmptyCounter, Identifier
  <2>2. /\ Placeholders \in Nat /\ cursor + 1 + Placeholders <= Len(remaining)
        /\ Follow(Blank, 1, Placeholders)
    BY <1>1, <1>2, <1>3, <2>1, CountIs DEF Placeholders
  <2>3. c \in Nat /\ c <= Placeholders
    BY <2>2, SMT DEF Least
  <2> HIDE DEF c
  <2>4. \A k \in 0 .. c - 1 : k \in 0 .. Placeholders - 1
    BY <2>2, <2>3, SMT
  <2>5. \A k \in 0 .. c - 1 : At(1 + k) \in Blank
    BY <2>2, <2>4 DEF Follow
  <2>6. \A k \in Nat : k < n => At(k) # Bar
    <3>1. \A k \in Nat : k < 1 => At(k) # Bar
      BY <1>6, <2>1
    <3>2. \A k \in Nat : k < 1 + c => At(k) # Bar
      BY <1>2, <1>4, <2>3, <2>5, <3>1, NoBarFollows
    <3> QED BY <3>2
  <2>7. n \in Nat /\ n # 0 /\ cursor + n <= Len(remaining)
    BY <1>1, <1>5, <2>2, <2>3, SMT
  <2> QED BY <2>1, <2>6, <2>7
<1>11. CASE DropMixedTemperature
  <2> DEFINE c == TemperatureWidth
             n == 1 + Sign + c
  <2>1. c > Digits /\ remaining' = Without(n) /\ At(0) = "t"
    BY <1>11 DEF DropMixedTemperature, IsMixedTemperature, Identifier
  <2>2. Digits \in Nat /\ c \in Nat /\ (c # 0 => cursor + 1 + Sign + c <= Len(remaining))
    BY <1>1, FollowersAre
  <2>3. Follow(Digit \cup Blank, 1 + Sign, c)
    BY <1>1, <1>2, <1>3, CountIs DEF TemperatureWidth
  <2>4. Sign \in {0, 1} /\ (Sign = 1 => At(1) \in {"+", "-"})
    BY SignIs DEF Sign
  <2> HIDE DEF c
  <2>5. \A k \in Nat : k < 1 + Sign => At(k) # Bar
    BY <1>7, <2>1, <2>4
  <2>6. \A k \in Nat : k < n => At(k) # Bar
    <3> DEFINE i == 1 + Sign
    <3>1. \A k \in 0 .. c - 1 : At(i + k) \in Digit \cup Blank
      BY <2>3 DEF Follow
    <3>2. i \in Nat /\ \A k \in Nat : k < i => At(k) # Bar
      BY <1>2, <2>5
    <3> HIDE DEF i
    <3>3. \A k \in Nat : k < i + c => At(k) # Bar
      BY <1>4, <2>2, <3>1, <3>2, NoBarFollows
    <3> QED BY <3>3 DEF i
  <2>7. c # 0
    BY <2>1, <2>2, SMT
  <2>8. n \in Nat /\ n # 0 /\ cursor + n <= Len(remaining)
    BY <1>1, <1>5, <2>2, <2>4, <2>7, SMT
  <2> QED BY <2>1, <2>6, <2>8
<1> QED BY <1>8, <1>9, <1>10, <1>11

\* The tokens that are removed without a reading.
LEMMA DropStep ==
  ASSUME ScanInv, DropVoltage \/ DropCounter \/ DropEmptyCounter \/ DropMixedTemperature
  PROVE  ScanInv' /\ Advance
<1>1. Known /\ phase = "scan"
  BY Knowing DEF DropVoltage, DropCounter, DropEmptyCounter, DropMixedTemperature
<1>2. /\ remaining \in Seq(Int) /\ cursor \in Nat /\ preserved \in Seq([position : Nat, piece : Seq(Int)])
      /\ KeptInv(preserved, cursor)
  BY <1>1 DEF Known
<1>3. /\ text' = text /\ phase' = phase /\ cursor' = cursor /\ preserved' = preserved
      /\ sequence' \in {sequence, cursor}
  BY DEF DropVoltage, DropCounter, DropEmptyCounter, DropMixedTemperature, found
<1>4. preserved' \in Seq([position : Nat, piece : Seq(Int)]) /\ KeptInv(preserved', cursor)
  BY <1>2, <1>3
<1>5. PICK n \in Nat : n # 0 /\ cursor + n <= Len(remaining) /\ remaining' = Without(n)
  BY <1>1, DropIs
<1> QED BY <1>1, <1>3, <1>4, <1>5, EditStep

\* A field that is taken, as a reading or as a placeholder.
LEMMA TakeStep ==
  ASSUME ScanInv, TakeReading \/ TakePlaceholder
  PROVE  ScanInv' /\ Advance
<1>1. Known /\ phase = "scan" /\ Fits
  BY Knowing DEF TakeReading, TakePlaceholder, IsReading, IsPlaceholder
<1>2. /\ remaining \in Seq(Int) /\ cursor \in Nat /\ preserved \in Seq([position : Nat, piece : Seq(Int)])
      /\ KeptInv(preserved, cursor)
  BY <1>1 DEF Known
<1>3. /\ text' = text /\ phase' = phase /\ cursor' = cursor /\ sequence' \in {sequence, cursor}
      /\ remaining' = Without(FieldWidth + 1)
  BY DEF TakeReading, TakePlaceholder, found
<1>4. FieldWidth \in Nat /\ cursor + FieldWidth + 1 <= Len(remaining)
  BY <1>1, <1>2, FieldWidthIs DEF Fits, IsField
<1>5. FieldWidth + 1 \in Nat /\ FieldWidth + 1 # 0 /\ cursor + (FieldWidth + 1) <= Len(remaining)
  BY <1>2, <1>4, SMT
<1>6. preserved' \in Seq([position : Nat, piece : Seq(Int)]) /\ KeptInv(preserved', cursor)
  <2>1. CASE preserved' = preserved
    BY <1>2, <2>1
  <2>2. CASE preserved' = Append(preserved, [position |-> cursor,
                 piece |-> SubSeq(remaining, cursor + 1, cursor + FieldWidth + 1)])
    <3>1. SubSeq(remaining, cursor + 1, cursor + FieldWidth + 1) \in Seq(Int)
      BY <1>2, <1>4, SMT
    <3> QED BY <1>2, <2>2, <3>1, KeptMore
  <2> QED BY <2>1, <2>2 DEF TakeReading, TakePlaceholder, found
<1> QED BY <1>1, <1>3, <1>5, <1>6, EditStep

\* The invariant holds at first.
LEMMA ScanStart ==
  Init => ScanInv
<1> SUFFICES ASSUME Init PROVE ScanInv
  OBVIOUS
<1>1. text \in Seq(Char) /\ phase = "wind" /\ cursor = 0 /\ preserved = <<>>
  BY TextAssumption DEF Init
<1> QED BY <1>1 DEF ScanInv, Phase

\* Every step keeps the invariant, and in the loop there is less left afterwards.
LEMMA ScanStep ==
  ScanInv /\ Next => ScanInv' /\ Advance
<1> SUFFICES ASSUME ScanInv, Next PROVE ScanInv' /\ Advance
  OBVIOUS
<1>1. CASE Finish \/ TakeTelemetry \/ Done
  <2>1. text' = text /\ phase' \in {"telemetry", "done"}
    BY <1>1 DEF Finish, TakeTelemetry, Done, vars
  <2>2. phase' \in Phase /\ phase' # "wind" /\ phase' # "scan"
    BY <2>1 DEF Phase
  <2> QED BY <2>1, <2>2 DEF ScanInv, Advance
<1> QED BY <1>1, WindStep, SkipStep, PassStep, DropStep, TakeStep DEF Next, Scan

-----------------------------------------------------------------------------
(* Positions in increasing order.                                          *)

\* What is in a sequence.
LEMMA RangeIs ==
  ASSUME NEW s \in Seq(Int)
  PROVE  \A x : x \in Range(s) <=> \E k \in 1 .. Len(s) : s[k] = x
<1>1. DOMAIN s = 1 .. Len(s)
  BY SMT
<1> QED BY <1>1 DEF Range

\* Two sequences one behind the other.
IsJoin(s, t, u) ==
  /\ u \in Seq(Int) /\ Len(u) = Len(s) + Len(t) /\ Len(s) \in Nat /\ Len(t) \in Nat
  /\ \A k \in 1 .. Len(s) : u[k] = s[k]
  /\ \A k \in 1 .. Len(t) : u[Len(s) + k] = t[k]
  /\ \A k \in 1 .. Len(u) : k \in 1 .. Len(s) \/ \E j \in 1 .. Len(t) : k = Len(s) + j
  /\ Range(u) = Range(s) \cup Range(t)

\* The places in a first sequence of m and a second one of n.
LEMMA JoinPlaces ==
  ASSUME NEW m \in Nat, NEW n \in Nat, NEW s, NEW t, NEW u,
         \A k \in 1 .. m + n : u[k] = IF k <= m THEN s[k] ELSE t[k - m]
  PROVE  /\ \A k \in 1 .. m : u[k] = s[k]
         /\ \A k \in 1 .. n : u[m + k] = t[k]
<1>1. \A k \in 1 .. m : u[k] = s[k]
  <2>1. \A k \in 1 .. m : k \in 1 .. m + n /\ k <= m
    BY SMT
  <2> QED BY <2>1
<1>2. ASSUME NEW k \in 1 .. n PROVE u[m + k] = t[k]
  <2>1. m + k \in 1 .. m + n /\ ~ m + k <= m /\ m + k - m = k
    BY SMT
  <2> QED BY <2>1
<1> QED BY <1>1, <1>2

\* That is what \\o gives.
LEMMA JoinIs ==
  ASSUME NEW s \in Seq(Int), NEW t \in Seq(Int)
  PROVE  IsJoin(s, t, s \o t)
<1> DEFINE u == s \o t
<1> DEFINE m == Len(s)
           n == Len(t)
<1>1. m \in Nat /\ n \in Nat
  BY SMT
<1>2. /\ u \in Seq(Int) /\ Len(u) = m + n
      /\ \A k \in 1 .. m + n : u[k] = IF k <= m THEN s[k] ELSE t[k - m]
  BY ConcatProperties
<1> HIDE DEF m, n
<1> HIDE DEF u
<1>3. /\ \A k \in 1 .. m : u[k] = s[k]
      /\ \A k \in 1 .. n : u[m + k] = t[k]
  BY <1>1, <1>2, JoinPlaces
<1>4. \A k \in 1 .. m + n : k \in 1 .. m \/ \E j \in 1 .. n : k = m + j
  <2>1. ASSUME NEW k \in 1 .. m + n, k \notin 1 .. m PROVE k - m \in 1 .. n /\ k = m + (k - m)
    BY <1>1, <2>1, SMT
  <2> QED BY <2>1
<1>5. Range(u) = Range(s) \cup Range(t)
  <2>1. \A x : x \in Range(s) <=> \E k \in 1 .. m : s[k] = x
    BY RangeIs DEF m
  <2>2. \A x : x \in Range(t) <=> \E k \in 1 .. n : t[k] = x
    BY RangeIs DEF n
  <2>3. \A x : x \in Range(u) <=> \E k \in 1 .. m + n : u[k] = x
    <3>1. \A x : x \in Range(u) <=> \E k \in 1 .. Len(u) : u[k] = x
      BY <1>2, RangeIs
    <3>2. 1 .. Len(u) = 1 .. m + n
      BY <1>2
    <3> QED BY <3>1, <3>2
  <2>4. \A k \in 1 .. m : k \in 1 .. m + n
    BY <1>1, SMT
  <2>5. \A k \in 1 .. n : m + k \in 1 .. m + n
    BY <1>1, SMT
  <2>6. ASSUME NEW x \in Range(u) PROVE x \in Range(s) \cup Range(t)
    <3>1. PICK k \in 1 .. m + n : u[k] = x
      BY <2>3, <2>6
    <3>2. CASE k \in 1 .. m
      BY <1>3, <2>1, <3>1, <3>2
    <3>3. ASSUME NEW j \in 1 .. n, k = m + j PROVE x \in Range(t)
      BY <1>3, <2>2, <3>1, <3>3
    <3> QED BY <1>4, <3>2, <3>3
  <2>7. ASSUME NEW x \in Range(s) PROVE x \in Range(u)
    <3>1. PICK k \in 1 .. m : s[k] = x
      BY <2>1, <2>7
    <3>2. u[k] = x /\ k \in 1 .. m + n
      BY <1>3, <2>4, <3>1
    <3> QED BY <2>3, <3>2
  <2>8. ASSUME NEW x \in Range(t) PROVE x \in Range(u)
    <3>1. PICK k \in 1 .. n : t[k] = x
      BY <2>2, <2>8
    <3>2. u[m + k] = x /\ m + k \in 1 .. m + n
      BY <1>3, <2>5, <3>1
    <3> QED BY <2>3, <3>2
  <2> QED BY <2>6, <2>7, <2>8
<1>6. \A k \in 1 .. Len(u) : k \in 1 .. m \/ \E j \in 1 .. n : k = m + j
  <2>1. 1 .. Len(u) = 1 .. m + n
    BY <1>2
  <2> QED BY <1>4, <2>1
<1> QED BY <1>1, <1>2, <1>3, <1>5, <1>6 DEF m, n, u, IsJoin

\* Two sequences in order are in order one behind the other if the first ends
\* before the second begins.
LEMMA JoinOrdered ==
  ASSUME NEW s \in Seq(Int), NEW t \in Seq(Int), Increasing(s), Increasing(t),
         \A j \in 1 .. Len(s), k \in 1 .. Len(t) : s[j] < t[k]
  PROVE  Increasing(s \o t)
<1> DEFINE u == s \o t
           m == Len(s)
           n == Len(t)
<1>1. /\ Len(u) = m + n /\ m \in Nat /\ n \in Nat
      /\ \A k \in 1 .. m : u[k] = s[k]
      /\ \A k \in 1 .. n : u[m + k] = t[k]
      /\ \A k \in 1 .. Len(u) : k \in 1 .. m \/ \E j \in 1 .. n : k = m + j
  BY JoinIs DEF IsJoin
<1> HIDE DEF u, m, n
<1>2. ASSUME NEW j \in 1 .. Len(u), NEW k \in 1 .. Len(u), j < k PROVE u[j] < u[k]
  <2>1. CASE j \in 1 .. m /\ k \in 1 .. m
    BY <1>1, <1>2, <2>1 DEF Increasing, m
  <2>2. ASSUME NEW b \in 1 .. n, k = m + b, j \in 1 .. m PROVE u[j] < u[k]
    BY <1>1, <2>2 DEF m, n
  <2>3. ASSUME NEW a \in 1 .. n, j = m + a, NEW b \in 1 .. n, k = m + b PROVE u[j] < u[k]
    <3>1. a < b
      BY <1>1, <1>2, <2>3, SMT
    <3> QED BY <1>1, <2>3, <3>1 DEF Increasing, n
  <2>4. ASSUME NEW a \in 1 .. n, j = m + a, k \in 1 .. m PROVE FALSE
    BY <1>1, <1>2, <2>4, SMT
  <2> QED BY <1>1, <2>1, <2>2, <2>3, <2>4
<1> QED BY <1>2 DEF Increasing, u

\* A piece of a sequence.
IsPiece(s, a, b, t) ==
  /\ t \in Seq(Int) /\ Len(t) = b - a + 1 /\ b - a + 1 \in Nat
  /\ \A k \in 1 .. b - a + 1 : t[k] = s[a + k - 1] /\ a + k - 1 \in a .. b
  /\ \A x : x \in Range(t) <=> \E k \in a .. b : s[k] = x
  /\ Range(t) \subseteq Range(s)
  /\ Increasing(s) => Increasing(t)

\* That is what SubSeq gives.
LEMMA PieceIs ==
  ASSUME NEW s \in Seq(Int), NEW a \in Nat, NEW b \in Nat, a # 0, b <= Len(s), a <= b + 1
  PROVE  IsPiece(s, a, b, SubSeq(s, a, b))
<1> DEFINE t == SubSeq(s, a, b)
<1>1. /\ Len(s) \in Nat /\ b - a + 1 \in Nat
      /\ t \in Seq(Int) /\ Len(t) = b - a + 1
      /\ \A k \in 1 .. b - a + 1 : t[k] = s[a + k - 1]
  BY SMTT(60)
<1> HIDE DEF t
<1>2. \A k \in 1 .. b - a + 1 : a + k - 1 \in a .. b
  BY <1>1, SMT
<1>3. \A k \in a .. b : k - a + 1 \in 1 .. b - a + 1 /\ a + (k - a + 1) - 1 = k /\ k \in 1 .. Len(s)
  BY <1>1, SMT
<1>4. \A x : x \in Range(t) <=> \E k \in 1 .. b - a + 1 : t[k] = x
  <2>1. \A x : x \in Range(t) <=> \E k \in 1 .. Len(t) : t[k] = x
    BY <1>1, RangeIs
  <2>2. 1 .. Len(t) = 1 .. b - a + 1
    BY <1>1
  <2> QED BY <2>1, <2>2
<1>5. ASSUME NEW x PROVE x \in Range(t) <=> \E k \in a .. b : s[k] = x
  <2>1. ASSUME x \in Range(t) PROVE \E k \in a .. b : s[k] = x
    BY <1>1, <1>2, <1>4, <2>1
  <2>2. ASSUME NEW k \in a .. b, s[k] = x PROVE x \in Range(t)
    BY <1>1, <1>3, <1>4, <2>2
  <2> QED BY <2>1, <2>2
<1>6. Range(t) \subseteq Range(s)
  <2>1. \A x : x \in Range(s) <=> \E k \in 1 .. Len(s) : s[k] = x
    BY RangeIs
  <2> QED BY <1>3, <1>5, <2>1
<1>7. ASSUME Increasing(s) PROVE Increasing(t)
  <2> DEFINE n == b - a + 1
  <2>1. ASSUME NEW j \in 1 .. n, NEW k \in 1 .. n, j < k PROVE t[j] < t[k]
    <3>1. a + j - 1 \in 1 .. Len(s) /\ a + k - 1 \in 1 .. Len(s) /\ a + j - 1 < a + k - 1
      BY <1>1, <2>1, SMT
    <3> QED BY <1>1, <1>7, <3>1 DEF Increasing
  <2>2. 1 .. Len(t) = 1 .. n
    BY <1>1
  <2> QED BY <2>1, <2>2 DEF Increasing
<1> QED BY <1>1, <1>2, <1>5, <1>6, <1>7 DEF IsPiece, t

-----------------------------------------------------------------------------
(* Pieces that are put back.                                               *)

Entry == [position : Nat, piece : Seq(Int)]

\* A piece belongs at its position in a sequence: what stands before the position
\* came before it in the text, and what stands after it came after it.
Placed(entry, s) ==
  /\ entry \in Entry /\ entry.position <= Len(s) /\ Increasing(entry.piece)
  /\ \A y \in Range(entry.piece) :
       /\ \A k \in 1 .. entry.position : s[k] < y
       /\ \A k \in entry.position + 1 .. Len(s) : y < s[k]

\* Pieces in the order in which they came, each of which belongs at its position.
KeptWell(kept, s) ==
  \A i \in 1 .. Len(kept) :
    /\ Placed(kept[i], s)
    /\ \A j \in 1 .. i - 1 :
         /\ kept[j].position <= kept[i].position
         /\ \A x \in Range(kept[j].piece), y \in Range(kept[i].piece) : x < y

\* A piece at its position keeps a sequence in order.
LEMMA PutIs ==
  ASSUME NEW s \in Seq(Int), Increasing(s), NEW entry, Placed(entry, s), NEW u, u = Put(entry, s)
  PROVE  /\ u \in Seq(Int) /\ Increasing(u) /\ Range(u) = Range(s) \cup Range(entry.piece)
         /\ Len(u) >= Len(s)
         /\ \A k \in 1 .. entry.position : u[k] = s[k]
         /\ \A k \in entry.position + 1 .. Len(u) :
              u[k] \in Range(entry.piece) \/ \E l \in entry.position + 1 .. Len(s) : u[k] = s[l]
<1> DEFINE p == entry.position
           q == entry.piece
           L == Len(s)
           a == SubSeq(s, 1, p)
           b == a \o q
           c == SubSeq(s, p + 1, L)
<1>1. p \in Nat /\ q \in Seq(Int) /\ L \in Nat /\ p <= L /\ Increasing(q)
  BY DEF Placed, Entry
<1>2. \A y \in Range(q) : (\A k \in 1 .. p : s[k] < y) /\ \A k \in p + 1 .. L : y < s[k]
  BY DEF Placed
<1>3. u = b \o c
  BY DEF Put
<1>4. 1 \in Nat /\ 1 # 0 /\ 1 <= p + 1 /\ p + 1 \in Nat /\ p + 1 # 0 /\ L <= L /\ p + 1 <= L + 1
  BY <1>1, SMT
<1> HIDE DEF p, q, L
<1>5. IsPiece(s, 1, p, a)
  BY <1>1, <1>4, PieceIs DEF L
<1>6. IsPiece(s, p + 1, L, c)
  BY <1>1, <1>4, PieceIs DEF L
<1> HIDE DEF a, c
<1>7. /\ a \in Seq(Int) /\ Increasing(a)
      /\ \A x : x \in Range(a) <=> \E k \in 1 .. p : s[k] = x
      /\ c \in Seq(Int) /\ Increasing(c)
      /\ \A x : x \in Range(c) <=> \E k \in p + 1 .. L : s[k] = x
  BY <1>5, <1>6 DEF IsPiece
<1>8. Len(a) = p /\ Len(c) = L - p /\ \A k \in 1 .. p : a[k] = s[k]
  <2>1. Len(a) = p - 1 + 1 /\ \A k \in 1 .. p - 1 + 1 : a[k] = s[1 + k - 1]
    BY <1>5 DEF IsPiece
  <2>2. Len(c) = L - (p + 1) + 1
    BY <1>6 DEF IsPiece
  <2>3. p - 1 + 1 = p /\ L - (p + 1) + 1 = L - p /\ \A k \in 1 .. p : 1 + k - 1 = k
    BY <1>1, SMT
  <2>4. \A k \in 1 .. p : a[k] = s[1 + k - 1]
    BY <2>1, <2>3
  <2> QED BY <2>1, <2>2, <2>3, <2>4
<1>9. \A x : x \in Range(q) <=> \E k \in 1 .. Len(q) : q[k] = x
  BY <1>1, RangeIs
<1>10. IsJoin(a, q, b)
  BY <1>1, <1>7, JoinIs
<1>11. /\ b \in Seq(Int) /\ Len(b) = p + Len(q) /\ Len(q) \in Nat
       /\ \A k \in 1 .. p : b[k] = a[k]
       /\ Range(b) = Range(a) \cup Range(q)
  BY <1>8, <1>10 DEF IsJoin
<1>12. Increasing(b)
  <2>1. \A j \in 1 .. Len(a), k \in 1 .. Len(q) : a[j] < q[k]
    BY <1>2, <1>8, <1>9
  <2> QED BY <1>1, <1>7, <2>1, JoinOrdered
<1>13. \A x : x \in Range(b) <=> \E k \in 1 .. Len(b) : b[k] = x
  BY <1>11, RangeIs
<1>14. \A x : x \in Range(c) <=> \E k \in 1 .. Len(c) : c[k] = x
  BY <1>7, RangeIs
<1> HIDE DEF b
<1>15. IsJoin(b, c, u)
  BY <1>3, <1>7, <1>11, JoinIs
<1>16. /\ u \in Seq(Int) /\ Len(u) = Len(b) + Len(c)
       /\ \A k \in 1 .. Len(b) : u[k] = b[k]
       /\ Range(u) = Range(b) \cup Range(c)
  BY <1>15 DEF IsJoin
<1>17. Increasing(u)
  <2>1. ASSUME NEW j \in 1 .. Len(b), NEW k \in 1 .. Len(c) PROVE b[j] < c[k]
    <3>1. PICK l \in p + 1 .. L : c[k] = s[l]
      BY <1>7, <1>14
    <3>2. b[j] \in Range(a) \/ b[j] \in Range(q)
      BY <1>11, <1>13
    <3>3. CASE b[j] \in Range(q)
      BY <1>2, <3>1, <3>3
    <3>4. CASE b[j] \in Range(a)
      <4>1. PICK i \in 1 .. p : b[j] = s[i]
        BY <1>7, <3>4
      <4>2. i \in 1 .. L /\ l \in 1 .. L /\ i < l
        BY <1>1, <3>1, <4>1, SMT
      <4> QED BY <3>1, <4>1, <4>2 DEF Increasing, L
    <3> QED BY <3>2, <3>3, <3>4
  <2> QED BY <1>3, <1>7, <1>11, <1>12, <2>1, JoinOrdered
<1>18. \A x : x \in Range(s) <=> \E k \in 1 .. L : s[k] = x
  BY RangeIs DEF L
<1>19. Range(u) = Range(s) \cup Range(q)
  <2>1. \A k \in 1 .. L : k \in 1 .. p \/ k \in p + 1 .. L
    BY <1>1, SMT
  <2>2. \A k \in 1 .. p : k \in 1 .. L
    BY <1>1, SMT
  <2>3. \A k \in p + 1 .. L : k \in 1 .. L
    BY <1>1, SMT
  <2>4. Range(s) = Range(a) \cup Range(c)
    BY <1>7, <1>18, <2>1, <2>2, <2>3
  <2> QED BY <1>11, <1>16, <2>4
<1>20. Len(u) >= L
  BY <1>1, <1>8, <1>11, <1>16, SMT
<1>21. \A k \in 1 .. p : u[k] = s[k]
  <2>1. \A k \in 1 .. p : k \in 1 .. Len(b)
    BY <1>1, <1>11, SMT
  <2> QED BY <1>8, <1>11, <1>16, <2>1
<1>22. ASSUME NEW k \in p + 1 .. Len(u)
       PROVE  u[k] \in Range(q) \/ \E l \in p + 1 .. L : u[k] = s[l]
  <2>1. \A x : x \in Range(u) <=> \E j \in 1 .. Len(u) : u[j] = x
    BY <1>16, RangeIs
  <2>2. Len(u) \in Nat /\ k \in 1 .. Len(u)
    BY <1>1, <1>16, <1>20, <1>22, SMT
  <2>3. u[k] \in Range(s) \cup Range(q)
    BY <1>19, <2>1, <2>2
  <2>4. CASE u[k] \in Range(s)
    <3>1. PICK l \in 1 .. L : u[k] = s[l]
      BY <1>18, <2>4
    <3>2. CASE l \in p + 1 .. L
      BY <3>1, <3>2
    <3>3. CASE l \notin p + 1 .. L
      <4>1. l \in 1 .. p /\ l \in 1 .. Len(u) /\ l < k
        BY <1>1, <1>20, <2>2, <3>1, <3>3, <1>22, SMT
      <4>2. u[l] < u[k] /\ u[l] = s[l]
        BY <1>17, <1>21, <2>2, <4>1 DEF Increasing
      <4>3. s[l] \in Int
        <5>1. l \in 1 .. Len(s)
          BY <3>1 DEF L
        <5> QED BY <5>1, ElementOfSeq
      <4> QED BY <3>1, <4>2, <4>3, SMT
    <3> QED BY <3>2, <3>3
  <2> QED BY <2>3, <2>4
<1> QED BY <1>16, <1>17, <1>19, <1>20, <1>21, <1>22 DEF p, q, L

\* What holds of 0, and of each number up to n with the one before it, holds up to n.
LEMMA UpTo ==
  ASSUME NEW n \in Nat, NEW S, 0 \in S, \A k \in 1 .. n : k - 1 \in S => k \in S
  PROVE  \A k \in 0 .. n : k \in S
<1> DEFINE T == {k \in 0 .. n : k \notin S}
<1>1. SUFFICES ASSUME T # {} PROVE FALSE
  OBVIOUS
<1>2. T \subseteq Nat
  BY SMT
<1>3. PICK m \in T : \A l \in Nat : l < m => l \notin T
  <2> HIDE DEF T
  <2> QED BY <1>1, <1>2, LeastIs
<1>4. m \in 0 .. n /\ m \notin S
  BY <1>3
<1>5. m # 0
  BY <1>4
<1>6. m \in 1 .. n /\ m - 1 \in Nat /\ m - 1 < m /\ m - 1 \in 0 .. n
  BY <1>4, <1>5, SMT
<1>7. m - 1 \in S
  BY <1>3, <1>6
<1> QED BY <1>4, <1>6, <1>7

\* The text after each of the last k pieces has been put back.
Puts(kept, s, n, f) ==
  DOMAIN f = 0 .. n /\ f[0] = s /\ \A k \in 1 .. n : f[k] = Put(kept[Len(kept) - k + 1], f[k - 1])

PutsOf(kept, s) ==
  LET n == Len(kept)
  IN  CHOOSE f : f = [k \in 0 .. n |-> IF k = 0 THEN s ELSE Put(kept[n - k + 1], f[k - 1])]

\* PutAll puts them back one by one.
LEMMA PutAllPuts ==
  ASSUME NEW kept, Len(kept) \in Nat, NEW s
  PROVE  \E f : Puts(kept, s, Len(kept), f) /\ PutAll(kept, s) = f[Len(kept)]
<1> DEFINE n == Len(kept)
           S == {m \in 0 .. n : \E f : Puts(kept, s, m, f)}
<1>1. n \in Nat
  OBVIOUS
<1>2. 0 \in S
  <2> DEFINE f == [k \in 0 .. 0 |-> s]
  <2>1. Puts(kept, s, 0, f)
    <3>1. DOMAIN f = 0 .. 0 /\ f[0] = s /\ \A k \in 1 .. 0 : FALSE
      BY SMT
    <3> HIDE DEF f
    <3> QED BY <3>1 DEF Puts
  <2>2. 0 \in 0 .. n
    BY <1>1, SMT
  <2> QED BY <2>1, <2>2
<1>3. ASSUME NEW m \in 1 .. n, m - 1 \in S
      PROVE  m \in S
  <2>1. PICK f : Puts(kept, s, m - 1, f)
    BY <1>3
  <2> DEFINE g == [k \in 0 .. m |-> IF k = m THEN Put(kept[n - m + 1], f[m - 1]) ELSE f[k]]
  <2>2. DOMAIN g = 0 .. m
    OBVIOUS
  <2>3. 0 \in 0 .. m /\ 0 # m /\ m \in 0 .. m /\ m - 1 \in 0 .. m /\ m - 1 # m /\ m \in 0 .. n
    BY <1>1, SMT
  <2>4. g[0] = s
    BY <2>1, <2>3 DEF Puts
  <2>5. ASSUME NEW k \in 1 .. m PROVE g[k] = Put(kept[n - k + 1], g[k - 1])
    <3>1. k - 1 \in 0 .. m /\ k - 1 # m /\ k \in 0 .. m
      BY <1>1, SMT
    <3>2. g[k - 1] = f[k - 1]
      BY <3>1
    <3>3. CASE k = m
      BY <2>3, <3>2, <3>3
    <3>4. CASE k # m
      <4>1. k \in 1 .. m - 1
        BY <1>1, <3>4, SMT
      <4>2. f[k] = Put(kept[n - k + 1], f[k - 1])
        BY <2>1, <4>1 DEF Puts
      <4> QED BY <3>1, <3>2, <3>4, <4>2
    <3> QED BY <3>3, <3>4
  <2> HIDE DEF g
  <2>6. Puts(kept, s, m, g)
    BY <2>2, <2>4, <2>5 DEF Puts
  <2> QED BY <2>3, <2>6
<1>4. n \in S
  <2> HIDE DEF S
  <2>1. \A k \in 0 .. n : k \in S
    BY <1>1, <1>2, <1>3, UpTo
  <2>2. n \in 0 .. n
    BY <1>1, SMT
  <2> QED BY <2>1, <2>2
<1>5. PICK f : Puts(kept, s, n, f)
  BY <1>4
<1> HIDE DEF S
<1>6. f = [k \in 0 .. n |-> IF k = 0 THEN s ELSE Put(kept[n - k + 1], f[k - 1])]
  <2>1. ASSUME NEW k \in 0 .. n
        PROVE  f[k] = IF k = 0 THEN s ELSE Put(kept[n - k + 1], f[k - 1])
    <3>1. CASE k = 0
      BY <1>5, <3>1 DEF Puts
    <3>2. CASE k # 0
      <4>1. k \in 1 .. n
        BY <1>1, <3>2, SMT
      <4> QED BY <1>5, <3>2, <4>1 DEF Puts
    <3> QED BY <3>1, <3>2
  <2>2. f = [k \in 0 .. n |-> f[k]]
    <3>1. DOMAIN f = 0 .. n
      BY <1>5 DEF Puts
    <3> QED BY <3>1, <1>5 DEF Puts
  <2> QED BY <2>1, <2>2
<1> DEFINE h == PutsOf(kept, s)
<1>7. h = [k \in 0 .. n |-> IF k = 0 THEN s ELSE Put(kept[n - k + 1], h[k - 1])]
  BY <1>6 DEF PutsOf
<1>8. PutAll(kept, s) = h[n]
  BY DEF PutAll, PutsOf
<1> HIDE DEF h
<1>9. Puts(kept, s, n, h)
  <2>1. \A k \in 1 .. n : k \in 0 .. n /\ k # 0
    BY <1>1, SMT
  <2>2. 0 \in 0 .. n
    BY <1>1, SMT
  <2>3. DOMAIN h = 0 .. n
    BY <1>7
  <2>4. h[0] = s
    BY <1>7, <2>2
  <2>5. \A k \in 1 .. n : h[k] = Put(kept[n - k + 1], h[k - 1])
    BY <1>7, <2>1
  <2> QED BY <2>3, <2>4, <2>5 DEF Puts
<1> QED BY <1>8, <1>9

\* A text that still has room at the first j of some pieces, and has taken the others.
HasTaken(kept, s, j, u) ==
  /\ u \in Seq(Int) /\ Increasing(u)
  /\ \A x : x \in Range(u) <=>
       x \in Range(s) \/ \E i \in j + 1 .. Len(kept) : x \in Range(kept[i].piece)
  /\ \A i \in 1 .. j : Placed(kept[i], u)

\* It then takes the last of them.
LEMMA TakeOne ==
  ASSUME NEW s \in Seq(Int), NEW kept, Len(kept) \in Nat, KeptWell(kept, s),
         NEW j \in 1 .. Len(kept), NEW u, HasTaken(kept, s, j, u)
  PROVE  HasTaken(kept, s, j - 1, Put(kept[j], u))
<1> DEFINE n == Len(kept)
           v == Put(kept[j], u)
           p == kept[j].position
           q == kept[j].piece
<1>1. u \in Seq(Int) /\ Increasing(u) /\ Len(u) \in Nat
  BY SMT DEF HasTaken
<1>2. \A i \in 1 .. j : Placed(kept[i], u)
  BY DEF HasTaken
<1>3. j \in 1 .. j /\ j \in Nat /\ n \in Nat
  BY SMT
<1>4. Placed(kept[j], u)
  BY <1>2, <1>3
<1>5. /\ v \in Seq(Int) /\ Increasing(v) /\ Range(v) = Range(u) \cup Range(q)
      /\ Len(v) >= Len(u)
      /\ \A k \in 1 .. p : v[k] = u[k]
      /\ \A k \in p + 1 .. Len(v) :
           v[k] \in Range(q) \/ \E l \in p + 1 .. Len(u) : v[k] = u[l]
  BY <1>1, <1>4, PutIs
<1> HIDE DEF v
<1>6. Len(v) \in Nat /\ p \in Nat /\ p <= Len(u)
  <2>1. p \in Nat /\ p <= Len(u)
    BY <1>4 DEF Placed, Entry
  <2>2. Len(v) \in Nat
    BY <1>5, SMT
  <2> QED BY <2>1, <2>2
<1>7. ASSUME NEW x
      PROVE  x \in Range(v) <=>
               x \in Range(s) \/ \E i \in j - 1 + 1 .. n : x \in Range(kept[i].piece)
  <2>1. x \in Range(u) <=> x \in Range(s) \/ \E i \in j + 1 .. n : x \in Range(kept[i].piece)
    BY DEF HasTaken
  <2>2. \A i : i \in j - 1 + 1 .. n <=> i = j \/ i \in j + 1 .. n
    BY <1>3, SMT
  <2> QED BY <1>5, <2>1, <2>2
<1>8. ASSUME NEW i \in 1 .. j - 1 PROVE Placed(kept[i], v)
  <2> DEFINE o == kept[i].position
             r == kept[i].piece
  <2>1. i \in 1 .. j
    BY <1>3, SMT
  <2>2. Placed(kept[i], u)
    BY <1>2, <2>1
  <2>3. kept[i] \in Entry /\ o \in Nat /\ o <= Len(u) /\ Increasing(r)
    BY <2>2 DEF Placed, Entry
  <2>4. o <= p /\ \A x \in Range(r), y \in Range(q) : x < y
    BY DEF KeptWell
  <2>5. ASSUME NEW y \in Range(r) PROVE (\A k \in 1 .. o : v[k] < y) /\ \A k \in o + 1 .. Len(v) : y < v[k]
    <3>1. (\A k \in 1 .. o : u[k] < y) /\ \A k \in o + 1 .. Len(u) : y < u[k]
      BY <2>2, <2>5 DEF Placed
    <3> HIDE DEF o, p
    <3>2. \A k \in 1 .. o : k \in 1 .. p
      BY <1>6, <2>3, <2>4, SMT
    <3>3. \A k \in 1 .. o : v[k] < y
      BY <1>5, <3>1, <3>2
    <3>4. ASSUME NEW k \in o + 1 .. Len(v) PROVE y < v[k]
      <4>1. CASE k \in 1 .. p
        <5>1. k \in o + 1 .. Len(u)
          BY <1>1, <1>6, <2>3, <4>1, <3>4, SMT
        <5> QED BY <1>5, <3>1, <4>1, <5>1
      <4>2. CASE k \notin 1 .. p
        <5>1. k \in p + 1 .. Len(v)
          BY <1>6, <2>3, <4>2, <3>4, SMT
        <5>2. \A l \in p + 1 .. Len(u) : l \in o + 1 .. Len(u)
          BY <1>1, <1>6, <2>3, <2>4, SMT
        <5> QED BY <1>5, <2>4, <3>1, <5>1, <5>2
      <4> QED BY <4>1, <4>2
    <3> QED BY <3>3, <3>4
  <2>6. o <= Len(v)
    BY <1>1, <1>5, <1>6, <2>3, SMT
  <2> QED BY <2>3, <2>5, <2>6 DEF Placed
<1> QED BY <1>5, <1>7, <1>8 DEF HasTaken, v

\* Pieces that belong at their positions are all put back in order.
LEMMA PutAllIs ==
  ASSUME NEW s \in Seq(Int), Increasing(s), NEW kept, Len(kept) \in Nat, KeptWell(kept, s)
  PROVE  HasTaken(kept, s, 0, PutAll(kept, s))
<1> DEFINE n == Len(kept)
<1>1. PICK f : Puts(kept, s, n, f) /\ PutAll(kept, s) = f[n]
  BY PutAllPuts
<1> DEFINE S == {k \in 0 .. n : HasTaken(kept, s, n - k, f[k])}
<1>2. 0 \in S
  <2>1. f[0] = s /\ 0 \in 0 .. n /\ n - 0 = n
    BY <1>1, SMT DEF Puts
  <2>2. \A i \in n + 1 .. Len(kept) : FALSE
    BY SMT
  <2>3. HasTaken(kept, s, n, s)
    BY <2>2 DEF HasTaken, KeptWell
  <2> QED BY <2>1, <2>3
<1>3. ASSUME NEW k \in 1 .. n, k - 1 \in S PROVE k \in S
  <2>1. HasTaken(kept, s, n - (k - 1), f[k - 1])
    BY <1>3
  <2>2. n - (k - 1) \in 1 .. n /\ n - (k - 1) - 1 = n - k /\ n - (k - 1) = n - k + 1 /\ k \in 0 .. n
    BY SMT
  <2>3. f[k] = Put(kept[n - k + 1], f[k - 1])
    BY <1>1 DEF Puts
  <2>4. HasTaken(kept, s, n - (k - 1) - 1, Put(kept[n - (k - 1)], f[k - 1]))
    BY <2>1, <2>2, TakeOne
  <2> QED BY <2>2, <2>3, <2>4
<1>4. n \in S
  <2> HIDE DEF S
  <2>1. n \in 0 .. n
    BY SMT
  <2>2. \A k \in 0 .. n : k \in S
    BY <1>2, <1>3, UpTo
  <2> QED BY <2>1, <2>2
<1>5. n - n = 0
  BY SMT
<1> QED BY <1>1, <1>4, <1>5

-----------------------------------------------------------------------------
(* Edits at the cursor, and what they take out.                            *)

\* In order, every position stands at one place only.
LEMMA OnePlace ==
  ASSUME NEW s \in Seq(Int), Increasing(s), NEW j \in 1 .. Len(s), NEW k \in 1 .. Len(s), s[j] = s[k]
  PROVE  j = k
<1>1. s[j] \in Int /\ s[k] \in Int
  BY ElementOfSeq
<1>2. ~ j < k /\ ~ k < j
  BY <1>1, SMT DEF Increasing
<1> QED BY <1>2, SMT

\* What is left after an edit at place c of n characters is in order, and is all but
\* what stood there.
LEMMA EditOrdered ==
  ASSUME remaining \in Seq(Int), cursor \in Nat, Increasing(remaining),
         NEW n \in Nat, cursor + n <= Len(remaining), NEW after, after = Without(n)
  PROVE  /\ after \in Seq(Int) /\ Increasing(after)
         /\ \A x : x \in Range(after) <=>
              x \in Range(remaining) /\ \A k \in cursor + 1 .. cursor + n : x # remaining[k]
         /\ \A k \in 1 .. Len(after) :
              \/ k \in 1 .. cursor /\ after[k] = remaining[k]
              \/ k + n \in cursor + n + 1 .. Len(remaining) /\ after[k] = remaining[k + n]
<1> DEFINE L == Len(remaining)
           M == Len(after)
<1>1. L \in Nat
  BY SMT
<1>2. /\ after \in Seq(Int) /\ M = L - n
      /\ \A k \in 1 .. cursor : after[k] = remaining[k]
      /\ \A k \in cursor + 1 .. M : after[k] = remaining[k + n]
  BY WithoutIs
<1> HIDE DEF L, M
<1>3. L \in Nat /\ M = L - n /\ cursor + n <= L
  BY <1>1, <1>2 DEF L
<1>4. \A k \in 1 .. M :
        \/ k \in 1 .. cursor /\ k \in 1 .. L
        \/ k \in cursor + 1 .. M /\ k + n \in cursor + n + 1 .. L /\ k + n \in 1 .. L
  BY <1>3, SMT
<1>5. \A k \in 1 .. M :
        \/ k \in 1 .. cursor /\ k \in 1 .. L /\ after[k] = remaining[k]
        \/ k + n \in cursor + n + 1 .. L /\ k + n \in 1 .. L /\ after[k] = remaining[k + n]
  BY <1>2, <1>4
<1>6. ASSUME NEW j \in 1 .. M, NEW k \in 1 .. M, j < k PROVE after[j] < after[k]
  <2>1. PICK a \in 1 .. L :
          /\ after[j] = remaining[a]
          /\ (a = j /\ j \in 1 .. cursor) \/ (a = j + n /\ a \in cursor + n + 1 .. L)
    BY <1>5
  <2>2. PICK b \in 1 .. L :
          /\ after[k] = remaining[b]
          /\ (b = k /\ k \in 1 .. cursor) \/ (b = k + n /\ b \in cursor + n + 1 .. L)
    BY <1>5
  <2>3. a < b
    BY <1>3, <1>6, <2>1, <2>2, SMT
  <2> QED BY <2>1, <2>2, <2>3 DEF Increasing, L
<1>7. Increasing(after)
  BY <1>6 DEF Increasing, M
<1>8. /\ \A x : x \in Range(after) <=> \E k \in 1 .. M : after[k] = x
      /\ \A x : x \in Range(remaining) <=> \E k \in 1 .. L : remaining[k] = x
  BY <1>2, RangeIs DEF M, L
<1>9. ASSUME NEW x \in Range(after)
      PROVE  x \in Range(remaining) /\ \A k \in cursor + 1 .. cursor + n : x # remaining[k]
  <2>1. PICK j \in 1 .. M : after[j] = x
    BY <1>8, <1>9
  <2>2. PICK a \in 1 .. L : x = remaining[a] /\ (a \in 1 .. cursor \/ a \in cursor + n + 1 .. L)
    BY <1>5, <2>1
  <2>3. ASSUME NEW k \in cursor + 1 .. cursor + n, x = remaining[k] PROVE FALSE
    <3>1. k \in 1 .. L
      BY <1>1, SMT DEF L
    <3>2. a = k
      BY <2>2, <2>3, <3>1, OnePlace DEF L
    <3> QED BY <1>1, <2>2, <3>2, SMT
  <2> QED BY <1>8, <2>2, <2>3
<1>10. ASSUME NEW x \in Range(remaining), \A k \in cursor + 1 .. cursor + n : x # remaining[k]
       PROVE  x \in Range(after)
  <2>1. PICK a \in 1 .. L : remaining[a] = x
    BY <1>8, <1>10
  <2>2. a \notin cursor + 1 .. cursor + n
    BY <1>10, <2>1
  <2>3. CASE a \in 1 .. cursor
    <3>1. a \in 1 .. M
      BY <1>1, <1>2, <2>3, SMT DEF L
    <3> QED BY <1>2, <1>8, <2>1, <2>3, <3>1
  <2>4. CASE a \notin 1 .. cursor
    <3>1. a - n \in cursor + 1 .. M /\ a - n \in 1 .. M /\ a - n + n = a
      BY <1>1, <1>2, <2>1, <2>2, <2>4, SMT
    <3>2. after[a - n] = x
      BY <1>2, <2>1, <3>1
    <3> QED BY <1>8, <3>1, <3>2
  <2> QED BY <2>3, <2>4
<1>11. \A k \in 1 .. M :
         \/ k \in 1 .. cursor /\ after[k] = remaining[k]
         \/ k + n \in cursor + n + 1 .. L /\ after[k] = remaining[k + n]
  BY <1>5
<1> QED BY <1>2, <1>7, <1>9, <1>10, <1>11 DEF L, M

\* The pieces kept for later still belong at their positions.
LEMMA KeptWellStays ==
  ASSUME remaining \in Seq(Int), cursor \in Nat, Increasing(remaining),
         NEW n \in Nat, cursor + n <= Len(remaining), NEW after, after = Without(n),
         NEW kept, KeptWell(kept, remaining), KeptInv(kept, cursor)
  PROVE  KeptWell(kept, after)
<1>1. /\ after \in Seq(Int)
      /\ \A k \in 1 .. Len(after) :
           \/ k \in 1 .. cursor /\ after[k] = remaining[k]
           \/ k + n \in cursor + n + 1 .. Len(remaining) /\ after[k] = remaining[k + n]
  BY EditOrdered
<1>2. Len(after) = Len(remaining) - n /\ Len(after) \in Nat /\ Len(remaining) \in Nat
  <2>1. Len(after) = Len(remaining) - n
    BY WithoutIs
  <2> QED BY <1>1, <2>1, SMT
<1>3. ASSUME NEW i \in 1 .. Len(kept) PROVE Placed(kept[i], after)
  <2> DEFINE p == kept[i].position
             q == kept[i].piece
  <2>1. Placed(kept[i], remaining) /\ p <= cursor
    BY DEF KeptWell, KeptInv
  <2>2. kept[i] \in Entry /\ p \in Nat /\ Increasing(q)
    BY <2>1 DEF Placed, Entry
  <2>3. p <= Len(after)
    BY <1>2, <2>1, <2>2, SMT
  <2>4. ASSUME NEW y \in Range(q)
        PROVE  (\A k \in 1 .. p : after[k] < y) /\ \A k \in p + 1 .. Len(after) : y < after[k]
    <3>1. (\A k \in 1 .. p : remaining[k] < y) /\ \A k \in p + 1 .. Len(remaining) : y < remaining[k]
      BY <2>1, <2>4 DEF Placed
    <3> HIDE DEF p
    <3>2. ASSUME NEW k \in 1 .. p PROVE after[k] < y
      <4>1. k \in 1 .. cursor
        BY <2>1, <2>2, SMT
      <4>2. after[k] = remaining[k]
        BY <4>1, WithoutIs
      <4> QED BY <3>1, <4>2
    <3>3. ASSUME NEW k \in p + 1 .. Len(after) PROVE y < after[k]
      <4>1. k \in 1 .. Len(after)
        BY <1>2, <2>2, SMT
      <4>2. CASE k \in 1 .. cursor /\ after[k] = remaining[k]
        <5>1. k \in p + 1 .. Len(remaining)
          BY <1>2, <2>2, SMT
        <5> QED BY <3>1, <4>2, <5>1
      <4>3. CASE k + n \in cursor + n + 1 .. Len(remaining) /\ after[k] = remaining[k + n]
        <5>1. k + n \in p + 1 .. Len(remaining)
          BY <1>2, <2>1, <2>2, <4>3, SMT
        <5> QED BY <3>1, <4>3, <5>1
      <4> QED BY <1>1, <4>1, <4>2, <4>3
    <3> QED BY <3>2, <3>3
  <2> QED BY <2>2, <2>3, <2>4 DEF Placed
<1> QED BY <1>3 DEF KeptWell

\* A piece that is cut out at the cursor belongs there, behind the other pieces.
LEMMA KeptWellMore ==
  ASSUME remaining \in Seq(Int), cursor \in Nat, Increasing(remaining),
         NEW n \in Nat, n # 0, cursor + n <= Len(remaining), NEW after, after = Without(n),
         NEW kept \in Seq(Entry), KeptWell(kept, remaining), KeptInv(kept, cursor),
         NEW piece, piece = SubSeq(remaining, cursor + 1, cursor + n)
  PROVE  KeptWell(Append(kept, [position |-> cursor, piece |-> piece]), after)
<1> DEFINE m == Len(kept)
           entry == [position |-> cursor, piece |-> piece]
           more == Append(kept, entry)
<1>1. Len(remaining) \in Nat /\ m \in Nat
  BY SMT
<1>2. IsPiece(remaining, cursor + 1, cursor + n, piece)
  <2>1. cursor + 1 \in Nat /\ cursor + n \in Nat /\ cursor + 1 # 0 /\ cursor + 1 <= cursor + n + 1
    BY SMT
  <2> QED BY <2>1, PieceIs
<1>3. /\ piece \in Seq(Int) /\ Increasing(piece)
      /\ \A x : x \in Range(piece) <=> \E k \in cursor + 1 .. cursor + n : remaining[k] = x
  BY <1>2 DEF IsPiece
<1>4. KeptWell(kept, after)
  BY KeptWellStays
<1>5. /\ Len(after) = Len(remaining) - n /\ Len(after) \in Nat
      /\ \A k \in 1 .. cursor : after[k] = remaining[k]
      /\ \A k \in cursor + 1 .. Len(after) : after[k] = remaining[k + n]
  <2>1. /\ after \in Seq(Int) /\ Len(after) = Len(remaining) - n
        /\ \A k \in 1 .. cursor : after[k] = remaining[k]
        /\ \A k \in cursor + 1 .. Len(after) : after[k] = remaining[k + n]
    BY WithoutIs
  <2>2. Len(after) \in Nat
    BY <2>1, SMT
  <2> QED BY <2>1, <2>2
<1>6. entry \in Entry /\ entry.position = cursor /\ entry.piece = piece
  BY <1>3 DEF Entry
<1> HIDE DEF entry
<1>7. Placed(entry, after)
  <2>1. cursor <= Len(after)
    BY <1>1, <1>5, SMT
  <2>2. ASSUME NEW y \in Range(piece)
        PROVE  (\A k \in 1 .. cursor : after[k] < y) /\ \A k \in cursor + 1 .. Len(after) : y < after[k]
    <3>1. PICK l \in cursor + 1 .. cursor + n : remaining[l] = y
      BY <1>3, <2>2
    <3>2. l \in 1 .. Len(remaining)
      BY <1>1, SMT
    <3>3. \A k \in 1 .. cursor : k \in 1 .. Len(remaining) /\ k < l
      BY <1>1, SMT
    <3>4. \A k \in cursor + 1 .. Len(after) : k + n \in 1 .. Len(remaining) /\ l < k + n
      BY <1>1, <1>5, SMT
    <3>5. \A k \in 1 .. cursor : after[k] < y
      BY <1>5, <3>1, <3>2, <3>3 DEF Increasing
    <3>6. \A k \in cursor + 1 .. Len(after) : y < after[k]
      BY <1>5, <3>1, <3>2, <3>4 DEF Increasing
    <3> QED BY <3>5, <3>6
  <2> QED BY <1>3, <1>6, <2>1, <2>2 DEF Placed
<1>8. /\ more \in Seq(Entry) /\ Len(more) = m + 1 /\ more[m + 1] = entry
      /\ \A i \in 1 .. m : more[i] = kept[i]
  BY <1>1, <1>6, AppendProperties
<1> HIDE DEF more
<1>9. ASSUME NEW i \in 1 .. m + 1
      PROVE  /\ Placed(more[i], after)
             /\ \A j \in 1 .. i - 1 :
                  /\ more[j].position <= more[i].position
                  /\ \A x \in Range(more[j].piece), y \in Range(more[i].piece) : x < y
  <2>1. CASE i \in 1 .. m
    <3>1. \A j \in 1 .. i - 1 : j \in 1 .. m
      BY <1>1, <2>1, SMT
    <3>2. /\ Placed(kept[i], after)
          /\ \A j \in 1 .. i - 1 :
               /\ kept[j].position <= kept[i].position
               /\ \A x \in Range(kept[j].piece), y \in Range(kept[i].piece) : x < y
      BY <1>4, <2>1 DEF KeptWell
    <3> QED BY <1>8, <2>1, <3>1, <3>2
  <2>2. CASE i = m + 1
    <3>1. \A j \in 1 .. i - 1 : j \in 1 .. m
      BY <1>1, <2>2, SMT
    <3>2. ASSUME NEW j \in 1 .. m, NEW x \in Range(kept[j].piece), NEW y \in Range(piece) PROVE x < y
      <4>1. PICK l \in cursor + 1 .. cursor + n : remaining[l] = y
        BY <1>3, <3>2
      <4>2. Placed(kept[j], remaining) /\ kept[j].position <= cursor
        BY DEF KeptWell, KeptInv
      <4>3. kept[j].position \in Nat
        BY <4>2 DEF Placed, Entry
      <4>4. l \in kept[j].position + 1 .. Len(remaining)
        <5>1. \A p \in Nat, k \in cursor + 1 .. cursor + n :
                p <= cursor => k \in p + 1 .. Len(remaining)
          BY <1>1, SMT
        <5> QED BY <4>2, <4>3, <5>1
      <4> QED BY <3>2, <4>1, <4>2, <4>4 DEF Placed
    <3>3. \A j \in 1 .. m : kept[j].position <= cursor
      BY DEF KeptInv
    <3> QED BY <1>6, <1>7, <1>8, <2>2, <3>1, <3>2, <3>3
  <2>3. i \in 1 .. m \/ i = m + 1
    BY <1>1, SMTT(60)
  <2> QED BY <2>1, <2>2, <2>3
<1>10. 1 .. Len(more) = 1 .. m + 1
  BY <1>8
<1>11. KeptWell(more, after)
  BY <1>9, <1>10 DEF KeptWell
<1> QED BY <1>11 DEF more, entry

-----------------------------------------------------------------------------
(* What is left of the text after the loop.                                *)

\* A part of a sequence, in its order.
IsPart(t, s) ==
  t \in Seq(Int) /\ Range(t) \subseteq Range(s) /\ (Increasing(s) => Increasing(t))

\* A part of a part is a part.
LEMMA PartOfPart ==
  ASSUME NEW s, NEW t, NEW u, IsPart(t, s), IsPart(u, t)
  PROVE  IsPart(u, s)
BY DEF IsPart

\* A set of places has a first and a last one.
LEMMA EndsAre ==
  ASSUME NEW n \in Nat, NEW S, S \subseteq 1 .. n, S # {}
  PROVE  /\ \E a \in S : \A k \in S : a <= k
         /\ \E b \in S : \A k \in S : k <= b
<1>1. \E a \in S : \A k \in S : a <= k
  <2>1. S \subseteq Nat
    BY SMT
  <2>2. PICK a \in S : \A m \in Nat : m < a => m \notin S
    BY <2>1, LeastIs
  <2>3. \A k \in S : k \in Nat /\ ~ k < a
    BY <2>1, <2>2
  <2>4. a \in Nat
    BY <2>1
  <2>5. \A k \in Nat : ~ k < a => a <= k
    BY <2>4, SMT
  <2> QED BY <2>3, <2>5
<1>2. \E b \in S : \A k \in S : k <= b
  <2> DEFINE T == {m \in 0 .. n : n - m \in S}
  <2>1. T \subseteq Nat
    BY SMT
  <2>2. \A k \in S : k \in 1 .. n /\ n - k \in 0 .. n /\ n - (n - k) = k
    BY SMT
  <2>3. T # {}
    BY <2>2
  <2>4. \A k \in S : n - k \in T
    BY <2>2
  <2>5. \A m \in T : n - m \in S /\ m \in 0 .. n
    OBVIOUS
  <2> HIDE DEF T
  <2>6. PICK a \in T : \A m \in Nat : m < a => m \notin T
    BY <2>1, <2>3, LeastIs
  <2>7. n - a \in S /\ a \in 0 .. n
    BY <2>5
  <2>8. ASSUME NEW k \in S PROVE k <= n - a
    <3>1. n - k \in T /\ n - k \in Nat /\ k \in Nat
      BY <2>2, <2>4, SMT
    <3>2. ~ n - k < a
      BY <2>6, <3>1
    <3> QED BY <2>7, <3>1, <3>2, SMT
  <2> QED BY <2>7, <2>8
<1> QED BY <1>1, <1>2

\* Trim takes spaces from both ends.
LEMMA TrimIs ==
  ASSUME NEW s \in Seq(Int)
  PROVE  /\ IsPart(Trim(s), s)
         /\ \A x \in Range(s) : text[x] # " " => x \in Range(Trim(s))
<1> DEFINE Kept == {k \in 1 .. Len(s) : text[s[k]] # " "}
           a == CHOOSE k \in Kept : \A j \in Kept : k <= j
           b == CHOOSE k \in Kept : \A j \in Kept : j <= k
<1>1. Len(s) \in Nat /\ Kept \subseteq 1 .. Len(s)
  <2>1. Len(s) \in Nat
    BY SMT
  <2> QED BY <2>1
<1>2. Trim(s) = IF Kept = {} THEN <<>> ELSE SubSeq(s, a, b)
  BY DEF Trim
<1>3. \A k \in 1 .. Len(s) : k \in Kept <=> text[s[k]] # " "
  OBVIOUS
<1> HIDE DEF Kept
<1>4. \A x : x \in Range(s) <=> \E k \in 1 .. Len(s) : s[k] = x
  BY RangeIs
<1>5. CASE Kept = {}
  <2>1. Trim(s) = <<>>
    BY <1>2, <1>5
  <2>2. <<>> \in Seq(Int) /\ Len(<<>>) = 0 /\ Increasing(<<>>)
    BY SMT DEF Increasing
  <2>3. Range(<<>>) = {}
    <3>1. \A x : x \in Range(<<>>) <=> \E k \in 1 .. Len(<<>>) : <<>>[k] = x
      BY <2>2, RangeIs
    <3>2. \A k \in 1 .. Len(<<>>) : FALSE
      BY <2>2, SMT
    <3> QED BY <3>1, <3>2
  <2>4. \A x \in Range(s) : text[x] = " "
    BY <1>3, <1>4, <1>5
  <2> QED BY <2>1, <2>2, <2>3, <2>4 DEF IsPart
<1>6. CASE Kept # {}
  <2>1. a \in Kept /\ \A j \in Kept : a <= j
    <3>1. \E k \in Kept : \A j \in Kept : k <= j
      BY <1>1, <1>6, EndsAre
    <3> QED BY <3>1
  <2>2. b \in Kept /\ \A j \in Kept : j <= b
    <3>1. \E k \in Kept : \A j \in Kept : j <= k
      BY <1>1, <1>6, EndsAre
    <3> QED BY <3>1
  <2>3. Trim(s) = SubSeq(s, a, b)
    BY <1>2, <1>6
  <2> HIDE DEF a, b
  <2>4. a \in 1 .. Len(s) /\ b \in 1 .. Len(s) /\ a <= b
    BY <1>1, <2>1, <2>2
  <2>5. a \in Nat /\ b \in Nat /\ a # 0 /\ b <= Len(s) /\ a <= b + 1
    BY <1>1, <2>4, SMT
  <2>6. IsPiece(s, a, b, Trim(s))
    BY <2>3, <2>5, PieceIs
  <2>7. /\ Trim(s) \in Seq(Int) /\ Range(Trim(s)) \subseteq Range(s)
        /\ Increasing(s) => Increasing(Trim(s))
        /\ \A x : x \in Range(Trim(s)) <=> \E k \in a .. b : s[k] = x
    BY <2>6 DEF IsPiece
  <2>8. ASSUME NEW x \in Range(s), text[x] # " " PROVE x \in Range(Trim(s))
    <3>1. PICK k \in 1 .. Len(s) : s[k] = x
      BY <1>4, <2>8
    <3>2. k \in Kept
      BY <1>3, <2>8, <3>1
    <3>3. k \in a .. b
      BY <1>1, <2>1, <2>2, <2>4, <3>2, SMT
    <3> QED BY <2>7, <3>1, <3>3
  <2> QED BY <2>7, <2>8 DEF IsPart
<1> QED BY <1>5, <1>6

\* The separators are the first characters, up to the capacity.
LEMMA SeparatorsAre ==
  ASSUME NEW s \in Seq(Int), capacity \in Nat
  PROVE  \E n \in 0 .. Len(s) :
           /\ n <= capacity
           /\ \A k \in 1 .. n : text[s[k]] \in Blank
           /\ WithoutSeparators(s) = SubSeq(s, n + 1, Len(s))
<1> DEFINE Ends(k) == k = capacity \/ k = Len(s) \/ text[s[k + 1]] \notin Blank
           Is(k) == k <= Len(s) /\ AllIn(SubSeq(s, 1, k), Blank) /\ Ends(k)
           S == {k \in Nat : Ends(k)}
<1>1. Len(s) \in Nat
  BY SMT
<1>2. PICK n \in S : \A m \in Nat : m < n => m \notin S
  <2>1. S \subseteq Nat /\ S # {}
    OBVIOUS
  <2> HIDE DEF S
  <2> QED BY <2>1, LeastIs
<1>3. n \in Nat /\ Ends(n) /\ \A m \in Nat : m < n => ~ Ends(m)
  BY <1>2
<1>4. n <= capacity /\ n <= Len(s)
  <2>1. ~ capacity < n /\ ~ Len(s) < n
    BY <1>1, <1>3
  <2> QED BY <1>1, <1>3, <2>1, SMT
<1>5. ASSUME NEW k \in 1 .. n PROVE text[s[k]] \in Blank
  <2>1. k - 1 \in Nat /\ k - 1 < n /\ k - 1 + 1 = k
    BY <1>3, SMT
  <2> QED BY <1>3, <2>1
<1>6. ASSUME NEW k \in 0 .. Len(s)
      PROVE  AllIn(SubSeq(s, 1, k), Blank) <=> \A j \in 1 .. k : text[s[j]] \in Blank
  <2>1. 1 \in Nat /\ 1 # 0 /\ k \in Nat /\ k <= Len(s) /\ 1 <= k + 1
    BY <1>1, SMT
  <2>2. IsPiece(s, 1, k, SubSeq(s, 1, k))
    BY <2>1, PieceIs
  <2>3. /\ Len(SubSeq(s, 1, k)) = k - 1 + 1
        /\ \A j \in 1 .. k - 1 + 1 : SubSeq(s, 1, k)[j] = s[1 + j - 1]
    BY <2>2 DEF IsPiece
  <2>4. k - 1 + 1 = k /\ \A j \in 1 .. k : 1 + j - 1 = j
    BY <2>1, SMT
  <2>5. \A j \in 1 .. k : SubSeq(s, 1, k)[j] = s[j]
    BY <2>3, <2>4
  <2> QED BY <2>3, <2>4, <2>5 DEF AllIn
<1>7. n \in 0 .. Len(s) /\ n \in 0 .. capacity
  BY <1>1, <1>3, <1>4, SMT
<1>8. Is(n)
  BY <1>3, <1>4, <1>5, <1>6, <1>7
<1> DEFINE r == CHOOSE k \in 0 .. capacity : Is(k)
<1>9. r \in 0 .. capacity /\ Is(r)
  BY <1>7, <1>8
<1>10. WithoutSeparators(s) = SubSeq(s, r + 1, Len(s))
  BY DEF WithoutSeparators
<1>11. r <= Len(s) /\ AllIn(SubSeq(s, 1, r), Blank)
  BY <1>9
<1> HIDE DEF r
<1>12. r \in 0 .. Len(s) /\ r <= capacity
  BY <1>1, <1>9, <1>11, SMT
<1> QED BY <1>6, <1>10, <1>11, <1>12

\* Without them the rest is left, from any character on that is no separator.
LEMMA WithoutSeparatorsIs ==
  ASSUME NEW s \in Seq(Int), capacity \in Nat, Increasing(s)
  PROVE  /\ IsPart(WithoutSeparators(s), s)
         /\ \A x \in Range(s), y \in Range(s) :
              text[x] \notin Blank /\ x <= y => y \in Range(WithoutSeparators(s))
         /\ capacity = 0 => Range(WithoutSeparators(s)) = Range(s)
<1> DEFINE t == WithoutSeparators(s)
<1>1. PICK n \in 0 .. Len(s) : /\ n <= capacity
                               /\ \A k \in 1 .. n : text[s[k]] \in Blank
                               /\ t = SubSeq(s, n + 1, Len(s))
  BY SeparatorsAre
<1> HIDE DEF t
<1>2. Len(s) \in Nat /\ n \in Nat
  BY SMT
<1>3. n + 1 \in Nat /\ n + 1 # 0 /\ Len(s) <= Len(s) /\ n + 1 <= Len(s) + 1
  BY <1>2, SMT
<1>4. IsPiece(s, n + 1, Len(s), t)
  BY <1>1, <1>2, <1>3, PieceIs
<1>5. /\ t \in Seq(Int) /\ Range(t) \subseteq Range(s) /\ Increasing(t)
      /\ \A x : x \in Range(t) <=> \E k \in n + 1 .. Len(s) : s[k] = x
  BY <1>4 DEF IsPiece
<1>6. \A x : x \in Range(s) <=> \E k \in 1 .. Len(s) : s[k] = x
  BY RangeIs
<1>7. ASSUME NEW x \in Range(s), NEW y \in Range(s), text[x] \notin Blank, x <= y
      PROVE  y \in Range(t)
  <2>1. PICK j \in 1 .. Len(s) : s[j] = x
    BY <1>6, <1>7
  <2>2. PICK k \in 1 .. Len(s) : s[k] = y
    BY <1>6, <1>7
  <2>3. j \notin 1 .. n
    BY <1>1, <1>7, <2>1
  <2>4. s[j] \in Int /\ s[k] \in Int
    BY ElementOfSeq
  <2>5. ~ k < j
    <3>1. k < j => s[k] < s[j]
      BY DEF Increasing
    <3> QED BY <1>7, <2>1, <2>2, <2>4, <3>1, SMT
  <2>6. k \in n + 1 .. Len(s)
    BY <1>2, <2>3, <2>5, SMT
  <2> QED BY <1>5, <2>2, <2>6
<1>8. ASSUME capacity = 0 PROVE Range(t) = Range(s)
  <2>1. n = 0
    BY <1>1, <1>2, <1>8, SMT
  <2>2. n + 1 = 1
    BY <2>1, SMT
  <2>3. \A x : x \in Range(t) <=> x \in Range(s)
    BY <1>5, <1>6, <2>2
  <2> QED BY <2>3
<1> QED BY <1>5, <1>7, <1>8 DEF IsPart, t

\* A space of the text.
IsSpace(x) == text[x] = " "

\* Where the first run of spaces is.
LEMMA RunIs ==
  ASSUME NEW s \in Seq(Int), ~ \A k \in 1 .. Len(s) : ~ IsSpace(s[k])
  PROVE  \E f \in 1 .. Len(s), l \in 1 .. Len(s) :
           /\ f <= l /\ \A k \in f .. l : IsSpace(s[k])
           /\ Squeezed(s) = SubSeq(s, 1, f) \o SubSeq(s, l + 1, Len(s))
<1> DEFINE L == Len(s)
           S == {k \in 1 .. L : IsSpace(s[k])}
           First(k) == IsSpace(s[k]) /\ \A j \in 1 .. k - 1 : ~ IsSpace(s[j])
           f == CHOOSE k \in 1 .. L : First(k)
           Final(k) == /\ \A j \in f .. k : IsSpace(s[j])
                       /\ k < L => ~ IsSpace(s[k + 1])
           l == CHOOSE k \in f .. L : Final(k)
<1>1. L \in Nat
  BY LengthOf
<1>2. Squeezed(s) = SubSeq(s, 1, f) \o SubSeq(s, l + 1, L)
  BY DEF Squeezed, IsSpace
<1>3. f \in 1 .. L /\ First(f)
  <2>1. S \subseteq 1 .. L /\ S # {}
    OBVIOUS
  <2>2. PICK a \in S : \A k \in S : a <= k
    <3> HIDE DEF S
    <3> QED BY <1>1, <2>1, EndsAre
  <2>3. a \in 1 .. L /\ IsSpace(s[a])
    BY <2>2
  <2>4. ASSUME NEW j \in 1 .. a - 1 PROVE ~ IsSpace(s[j])
    <3>1. j \in 1 .. L /\ ~ a <= j
      BY <1>1, <2>3, SMT
    <3> QED BY <2>2, <3>1
  <2>5. \E k \in 1 .. L : First(k)
    BY <2>3, <2>4
  <2> QED BY <2>5
<1> HIDE DEF f, L
<1>4. l \in f .. L /\ Final(l)
  <2> DEFINE E == {k \in f .. L : \A j \in f .. k : IsSpace(s[j])}
  <2>1. E \subseteq 1 .. L
    <3>1. \A k \in f .. L : k \in 1 .. L
      BY <1>1, <1>3, SMT
    <3> QED BY <3>1
  <2>2. f \in E
    <3>1. f \in f .. L /\ \A j \in f .. f : j = f
      BY <1>1, <1>3, SMT
    <3> QED BY <1>3, <3>1
  <2>3. PICK b \in E : \A k \in E : k <= b
    <3>1. E # {}
      BY <2>2
    <3> HIDE DEF E
    <3> QED BY <1>1, <2>1, <3>1, EndsAre
  <2>4. b \in f .. L /\ \A j \in f .. b : IsSpace(s[j])
    BY <2>3
  <2>5. ASSUME b < L, IsSpace(s[b + 1]) PROVE FALSE
    <3>1. b + 1 \in f .. L /\ ~ b + 1 <= b /\ \A j \in f .. b + 1 : j \in f .. b \/ j = b + 1
      BY <1>1, <1>3, <2>4, <2>5, SMT
    <3>2. b + 1 \in E
      BY <2>4, <2>5, <3>1
    <3> QED BY <2>3, <3>1, <3>2
  <2>6. \E k \in f .. L : Final(k)
    BY <2>4, <2>5
  <2> QED BY <2>6
<1> HIDE DEF l
<1>5. l \in 1 .. L /\ f <= l
  BY <1>1, <1>3, <1>4, SMT
<1> QED BY <1>2, <1>3, <1>4, <1>5 DEF L

\* Squeezing takes spaces out.
LEMMA SqueezedIs ==
  ASSUME NEW s \in Seq(Int), Increasing(s)
  PROVE  /\ IsPart(Squeezed(s), s)
         /\ \A x \in Range(s) : ~ IsSpace(x) => x \in Range(Squeezed(s))
<1>1. CASE \A k \in 1 .. Len(s) : ~ IsSpace(s[k])
  BY <1>1 DEF Squeezed, IsPart, IsSpace
<1>2. CASE ~ \A k \in 1 .. Len(s) : ~ IsSpace(s[k])
  <2> DEFINE L == Len(s)
             t == Squeezed(s)
  <2>1. PICK f \in 1 .. L, l \in 1 .. L :
          /\ f <= l /\ \A k \in f .. l : IsSpace(s[k])
          /\ t = SubSeq(s, 1, f) \o SubSeq(s, l + 1, L)
    BY <1>2, RunIs
  <2> DEFINE a == SubSeq(s, 1, f)
             b == SubSeq(s, l + 1, L)
  <2> HIDE DEF t
  <2>2. L \in Nat
    BY LengthOf
  <2>3. /\ 1 \in Nat /\ 1 # 0 /\ f \in Nat /\ f <= L /\ 1 <= f + 1
        /\ l + 1 \in Nat /\ l + 1 # 0 /\ L <= L /\ l + 1 <= L + 1 /\ l \in Nat
    BY <2>1, <2>2, SMT
  <2>4. IsPiece(s, 1, f, a) /\ IsPiece(s, l + 1, L, b)
    BY <2>2, <2>3, PieceIs
  <2>5. /\ a \in Seq(Int) /\ Increasing(a) /\ Range(a) \subseteq Range(s)
        /\ \A x : x \in Range(a) <=> \E k \in 1 .. f : s[k] = x
        /\ b \in Seq(Int) /\ Increasing(b) /\ Range(b) \subseteq Range(s)
        /\ \A x : x \in Range(b) <=> \E k \in l + 1 .. L : s[k] = x
    BY <2>4 DEF IsPiece
  <2> HIDE DEF a, b
  <2>6. IsJoin(a, b, t)
    BY <2>1, <2>5, JoinIs DEF a, b
  <2>7. t \in Seq(Int) /\ Range(t) = Range(a) \cup Range(b)
    BY <2>6 DEF IsJoin
  <2>8. Increasing(t)
    <3>1. ASSUME NEW j \in 1 .. Len(a), NEW k \in 1 .. Len(b) PROVE a[j] < b[k]
      <4>1. a[j] \in Range(a) /\ b[k] \in Range(b)
        BY <2>5, RangeIs
      <4>2. PICK i \in 1 .. f : s[i] = a[j]
        BY <2>5, <4>1
      <4>3. PICK m \in l + 1 .. L : s[m] = b[k]
        BY <2>5, <4>1
      <4>4. i \in 1 .. L /\ m \in 1 .. L /\ i < m
        <5>1. f <= l /\ f \in Nat /\ l \in Nat /\ f <= L
          BY <2>1, <2>3
        <5>2. i \in 1 .. f /\ m \in l + 1 .. L
          OBVIOUS
        <5> QED BY <2>2, <5>1, <5>2, SMT
      <4> QED BY <4>2, <4>3, <4>4 DEF Increasing
    <3>2. Increasing(a \o b)
      BY <2>5, <3>1, JoinOrdered
    <3> QED BY <2>1, <3>2 DEF a, b
  <2>9. ASSUME NEW x \in Range(s), ~ IsSpace(x) PROVE x \in Range(t)
    <3>1. PICK k \in 1 .. L : s[k] = x
      BY <2>9, RangeIs
    <3>2. k \notin f .. l
      BY <2>1, <2>9, <3>1
    <3>3. k \in 1 .. f \/ k \in l + 1 .. L
      BY <2>1, <2>2, <2>3, <3>1, <3>2, SMT
    <3> QED BY <2>5, <2>7, <3>1, <3>3
  <2> QED BY <2>5, <2>7, <2>8, <2>9 DEF IsPart, t
<1> QED BY <1>1, <1>2

-----------------------------------------------------------------------------
(* Readings.                                                               *)

\* A run of characters that stood together in the text.
IsRun(s) == s \in Seq(Int) /\ \A j, k \in 1 .. Len(s) : s[k] - s[j] = k - j

\* The readings are such runs, apart from the comment that is taken for the name of
\* the software, and share no character with one another or with what is free.
Readings(w, free) ==
  /\ w \in [Quantity -> Seq(Int)]
  /\ \A q \in Quantity \ {"software"} : IsRun(w[q])
  /\ \A q \in Quantity, r \in Quantity : q # r => Range(w[q]) \cap Range(w[r]) = {}
  /\ \A q \in Quantity : Range(w[q]) \cap free = {}

\* The empty sequence.
LEMMA NothingIs ==
  /\ <<>> \in Seq(Int) /\ Len(<<>>) = 0 /\ Range(<<>>) = {} /\ Increasing(<<>>) /\ IsRun(<<>>)
<1>1. <<>> \in Seq(Int) /\ Len(<<>>) = 0
  BY SMT
<1>2. \A k \in 1 .. Len(<<>>) : FALSE
  BY <1>1, SMT
<1>3. Range(<<>>) = {}
  <2>1. \A x : x \in Range(<<>>) <=> \E k \in 1 .. Len(<<>>) : <<>>[k] = x
    BY <1>1, RangeIs
  <2> QED BY <1>2, <2>1
<1> QED BY <1>1, <1>2, <1>3 DEF Increasing, IsRun

\* At first there is none.
LEMMA ReadingsFirst ==
  ASSUME NEW free
  PROVE  Readings([q \in Quantity |-> <<>>], free)
<1> DEFINE w == [q \in Quantity |-> <<>>]
<1>1. \A q \in Quantity : w[q] = <<>>
  OBVIOUS
<1>2. w \in [Quantity -> Seq(Int)]
  BY NothingIs
<1> HIDE DEF w
<1>3. Readings(w, free)
  BY <1>1, <1>2, NothingIs DEF Readings
<1> QED BY <1>3 DEF w

\* A reading that is taken from what is free.
LEMMA ReadingsMore ==
  ASSUME NEW w, NEW free, Readings(w, free), NEW q \in Quantity, w[q] = <<>>,
         NEW s \in Seq(Int), q # "software" => IsRun(s), Range(s) \subseteq free,
         NEW rest, rest \subseteq free \ Range(s)
  PROVE  Readings([w EXCEPT ![q] = s], rest)
<1> DEFINE v == [w EXCEPT ![q] = s]
<1>1. /\ w \in [Quantity -> Seq(Int)]
      /\ \A r \in Quantity \ {"software"} : IsRun(w[r])
      /\ \A a \in Quantity, b \in Quantity : a # b => Range(w[a]) \cap Range(w[b]) = {}
      /\ \A r \in Quantity : Range(w[r]) \cap free = {}
  BY DEF Readings
<1>2. v \in [Quantity -> Seq(Int)] /\ v[q] = s /\ \A r \in Quantity : r # q => v[r] = w[r]
  BY <1>1
<1> HIDE DEF v
<1>3. \A r \in Quantity \ {"software"} : IsRun(v[r])
  BY <1>1, <1>2
<1>4. \A a \in Quantity, b \in Quantity : a # b => Range(v[a]) \cap Range(v[b]) = {}
  BY <1>1, <1>2
<1>5. \A r \in Quantity : Range(v[r]) \cap rest = {}
  BY <1>1, <1>2
<1>6. Readings(v, rest)
  BY <1>2, <1>3, <1>4, <1>5 DEF Readings
<1> QED BY <1>6 DEF v

\* Fewer characters are free.
LEMMA ReadingsStay ==
  ASSUME NEW w, NEW free, Readings(w, free), NEW rest, rest \subseteq free
  PROVE  Readings(w, rest)
BY DEF Readings

-----------------------------------------------------------------------------
(* The invariant of the readings.                                          *)

\* What is left of the text, and what has been kept aside.
Free(s, kept) == Range(s) \cup UNION {Range(kept[i].piece) : i \in 1 .. Len(kept)}

WholeInv ==
  /\ phase = "wind" => weather = [q \in Quantity |-> <<>>] /\ capacity = 0
  /\ phase = "scan" =>
       /\ Increasing(remaining) /\ KeptWell(preserved, remaining) /\ capacity \in Nat
       /\ weather["software"] = <<>> /\ Readings(weather, Free(remaining, preserved))
  /\ phase \in {"telemetry", "done"} =>
       /\ remaining \in Seq(Int) /\ Increasing(remaining)
       /\ Readings(weather, Range(remaining))

\* What the scanner knows in the loop.
Ordered ==
  /\ Known /\ phase = "scan" /\ cursor < Len(remaining)
  /\ Increasing(remaining) /\ KeptWell(preserved, remaining) /\ capacity \in Nat
  /\ weather["software"] = <<>> /\ Readings(weather, Free(remaining, preserved))

\* The two invariants say it.
LEMMA OrderedIs ==
  ASSUME ScanInv, WholeInv, Scanning
  PROVE  Ordered
BY Knowing DEF Scanning, WholeInv, Ordered

\* Pieces that are kept aside are no longer in the text.
LEMMA KeptApart ==
  ASSUME NEW s \in Seq(Int), NEW kept, KeptWell(kept, s), NEW i \in 1 .. Len(kept)
  PROVE  Range(kept[i].piece) \cap Range(s) = {}
<1>1. SUFFICES ASSUME NEW y \in Range(kept[i].piece), y \in Range(s) PROVE FALSE
  OBVIOUS
<1> DEFINE p == kept[i].position
<1>2. Placed(kept[i], s)
  BY DEF KeptWell
<1>3. p \in Nat /\ p <= Len(s)
  BY <1>2 DEF Placed, Entry
<1>4. PICK k \in 1 .. Len(s) : s[k] = y
  BY <1>1, RangeIs
<1>5. y \in Int
  BY <1>4, ElementOfSeq
<1>6. k \in 1 .. p \/ k \in p + 1 .. Len(s)
  BY <1>3, SMT
<1>7. y < y
  BY <1>1, <1>2, <1>4, <1>6 DEF Placed
<1> QED BY <1>5, <1>7, SMT

\* A token that is removed leaves the readings as they are.
LEMMA RemoveStep ==
  ASSUME Ordered, NEW n \in Nat, cursor + n <= Len(remaining), remaining' = Without(n),
         phase' = phase, preserved' = preserved, weather' = weather, capacity' \in Nat
  PROVE  WholeInv'
<1>1. /\ remaining \in Seq(Int) /\ cursor \in Nat /\ Increasing(remaining)
      /\ KeptWell(preserved, remaining) /\ KeptInv(preserved, cursor)
  BY DEF Ordered, Known
<1>2. /\ remaining' \in Seq(Int) /\ Increasing(remaining')
      /\ Range(remaining') \subseteq Range(remaining)
  BY <1>1, EditOrdered
<1>3. KeptWell(preserved, remaining')
  BY <1>1, KeptWellStays
<1>4. Readings(weather, Free(remaining', preserved))
  <2>1. Free(remaining', preserved) \subseteq Free(remaining, preserved)
    BY <1>2 DEF Free
  <2> QED BY <2>1, ReadingsStay DEF Ordered
<1>5. phase' = "scan" /\ weather'["software"] = <<>>
  BY DEF Ordered
<1>6. KeptWell(preserved, remaining)' /\ Readings(weather, Free(remaining, preserved))'
      /\ Increasing(remaining)'
  BY <1>2, <1>3, <1>4 DEF KeptWell, Readings, Free, Increasing
<1> QED BY <1>5, <1>6 DEF WholeInv

\* Where the characters of a piece stand.
LEMMA PieceAt ==
  ASSUME NEW s, NEW a, NEW b, NEW t, IsPiece(s, a, b, t)
  PROVE  Len(t) = b - a + 1 /\ \A k \in 1 .. b - a + 1 : t[k] = s[a + k - 1]
BY DEF IsPiece

\* The numbers that a field has characters, if it has any, begin behind its sign.
LEMMA NumberIs ==
  ASSUME remaining \in Seq(Int), cursor \in Nat, NumericWidth # 0
  PROVE  Digits # 0 /\ At(1 + Sign) \in Digit
<1>1. Digits \in Nat
  BY FollowersAre
<1>2. Digits # 0
  <2>1. ASSUME Digits = 0 PROVE NumericWidth = 0
    <3>1. Least(0, 4) = 0 /\ Least(0, 3) = 0
      BY SMT DEF Least
    <3>2. 0 \notin {4, 5}
      BY SMT
    <3> QED BY <2>1, <3>1, <3>2 DEF NumericWidth
  <2> QED BY <2>1
<1> DEFINE c == Count(Digit, 1 + Sign)
<1>3. c # 0 /\ c = Digits
  BY <1>2 DEF Digits
<1>4. \A k \in 0 .. c - 1 : At(1 + Sign + k) \in Digit
  <2>1. 1 + Sign \in Nat
    BY SignIs, SMT
  <2>2. NoChar \notin Digit
    BY NoCharIs
  <2> HIDE DEF c
  <2> QED BY <2>1, <2>2, CountIs DEF Follow, c
<1>5. 0 \in 0 .. c - 1 /\ 1 + Sign + 0 = 1 + Sign
  BY <1>1, <1>3, SignIs, SMT
<1>6. At(1 + Sign + 0) \in Digit
  BY <1>4, <1>5
<1> QED BY <1>2, <1>5, <1>6

\* A field that fits is a run of characters that stand together after the cursor.
LEMMA FieldIs ==
  ASSUME Ordered, Fits
  PROVE  /\ FieldWidth \in Nat /\ cursor + FieldWidth + 1 <= Len(remaining)
         /\ IsPiece(remaining, cursor + 2, cursor + 1 + FieldWidth, FieldAt)
         /\ IsRun(FieldAt)
<1>1. remaining \in Seq(Int) /\ cursor \in Nat /\ SuffixInv(remaining, cursor) /\ text \in Seq(Char)
  BY DEF Ordered, Known
<1>2. FieldWidth \in Nat /\ cursor + FieldWidth + 1 <= Len(remaining)
  BY <1>1, FieldWidthIs DEF Fits, IsField
<1> DEFINE a == cursor + 2
           b == cursor + 1 + FieldWidth
           L == Len(remaining)
           T == Len(text)
<1>3. L \in Nat /\ T \in Nat
  BY <1>1, SMT
<1>4. a \in Nat /\ b \in Nat /\ a # 0 /\ b <= L /\ a <= b + 1
  BY <1>1, <1>2, <1>3, SMT
<1>5. IsPiece(remaining, a, b, FieldAt)
  BY <1>1, <1>4, PieceIs DEF FieldAt
<1>6. /\ FieldAt \in Seq(Int) /\ Len(FieldAt) = b - a + 1
      /\ \A k \in 1 .. b - a + 1 : FieldAt[k] = remaining[a + k - 1]
  BY <1>5 DEF IsPiece
<1>7. ASSUME NEW k \in 1 .. b - a + 1 PROVE FieldAt[k] = T - L + (a + k - 1)
  <2>1. a + k - 1 \in cursor + 1 .. L
    BY <1>1, <1>2, <1>3, SMT
  <2>2. FieldAt[k] = remaining[a + k - 1]
    BY <1>6
  <2>3. \A j \in cursor + 1 .. L : remaining[j] = T - L + j
    BY <1>1 DEF SuffixInv
  <2> HIDE DEF a, b, L, T
  <2> QED BY <2>1, <2>2, <2>3
<1>8. ASSUME NEW j \in 1 .. Len(FieldAt), NEW k \in 1 .. Len(FieldAt)
      PROVE  FieldAt[k] - FieldAt[j] = k - j
  <2>1. j \in 1 .. b - a + 1 /\ k \in 1 .. b - a + 1
    BY <1>6
  <2>2. FieldAt[k] = T - L + (a + k - 1) /\ FieldAt[j] = T - L + (a + j - 1)
    BY <1>7, <2>1
  <2> HIDE DEF a, b, L, T
  <2>3. j \in Int /\ k \in Int /\ a \in Nat /\ L \in Nat /\ T \in Nat
    BY <1>3, <1>4, <2>1, SMT
  <2> QED BY <2>2, <2>3, SMT
<1> QED BY <1>2, <1>5, <1>6, <1>8 DEF IsRun

\* No placeholder is longer than five characters.
LEMMA PlaceholderIs ==
  ASSUME Ordered, IsPlaceholder
  PROVE  FieldWidth <= 5
<1>1. remaining \in Seq(Int) /\ cursor \in Nat
  BY DEF Ordered, Known
<1>2. Fits /\ AllIn(FieldAt, Blank)
  BY DEF IsPlaceholder
<1>3. /\ FieldWidth \in Nat /\ cursor + FieldWidth + 1 <= Len(remaining)
      /\ IsPiece(remaining, cursor + 2, cursor + 1 + FieldWidth, FieldAt)
  BY <1>2, FieldIs
<1>4. Identifier \in Field
  BY <1>2 DEF Fits, IsField
<1>5. NumericWidth = 0
  <2>1. SUFFICES ASSUME NumericWidth # 0 PROVE FALSE
    OBVIOUS
  <2>2. At(1 + Sign) \in Digit
    BY <1>1, <2>1, NumberIs
  <2> DEFINE w == FieldWidth
  <2>3. Sign \in Nat /\ NumericWidth \in Nat /\ w = Sign + NumericWidth
    <3>1. Digits \in Nat
      BY <1>1, FollowersAre
    <3>2. Least(Digits, 4) \in Nat /\ Least(Digits, 3) \in Nat
      BY <3>1, SMT DEF Least
    <3>3. NumericWidth \in Nat
      BY <3>1, <3>2, SMT DEF NumericWidth
    <3>4. Sign \in Nat
      BY SignIs, SMT
    <3> QED BY <2>1, <3>3, <3>4 DEF FieldWidth
  <2> DEFINE a == cursor + 2
             b == cursor + 1 + w
  <2>4. IsPiece(remaining, a, b, FieldAt)
    BY <1>3
  <2> HIDE DEF w
  <2>5. 1 + Sign \in 1 .. b - a + 1 /\ a + (1 + Sign) - 1 = cursor + (1 + Sign) + 1
    BY <1>1, <2>1, <2>3, SMT
  <2> HIDE DEF a, b
  <2>6. FieldAt[1 + Sign] = remaining[cursor + (1 + Sign) + 1] /\ 1 + Sign \in 1 .. Len(FieldAt)
    <3>1. Len(FieldAt) = b - a + 1 /\ \A k \in 1 .. b - a + 1 : FieldAt[k] = remaining[a + k - 1]
      BY <2>4, PieceAt
    <3>2. FieldAt[1 + Sign] = remaining[a + (1 + Sign) - 1]
      BY <2>5, <3>1
    <3> QED BY <2>5, <3>1, <3>2
  <2>7. At(1 + Sign) # NoChar
    BY <2>2, NoCharIs
  <2>8. At(1 + Sign) = text[remaining[cursor + (1 + Sign) + 1]]
    BY <2>7, AtIs DEF At
  <2>9. At(1 + Sign) \in Blank
    BY <1>2, <2>6, <2>8 DEF AllIn
  <2> QED BY <2>2, <2>9 DEF Digit, Blank
<1>6. CASE Placeholders # 0
  <2>1. Placeholders \in Nat
    BY <1>1, FollowersAre
  <2>2. FieldWidth = Least(Placeholders, 5)
    BY <1>5, <1>6 DEF FieldWidth
  <2>3. Least(Placeholders, 5) <= 5
    BY <2>1, SMT DEF Least
  <2> QED BY <2>2, <2>3
<1>7. CASE Placeholders = 0
  <2>1. FieldWidth = Width[Identifier]
    BY <1>5, <1>7 DEF FieldWidth
  <2>2. \A letter \in Field : Width[letter] <= 5
    BY SMT DEF Field, Width
  <2> QED BY <1>4, <2>1, <2>2
<1> QED BY <1>6, <1>7

\* Each letter of a field has a quantity.
LEMMA QuantityIs ==
  ASSUME Identifier \in Field
  PROVE  QuantityOf \in Quantity \ {"software"}
<1>1. Identifier \in {"c", "s", "g", "r", "p", "P", "L", "l", "X", "V", "t", "h", "b", "F"}
  BY DEF Field, Width
<1> QED BY <1>1 DEF QuantityOf, Quantity

\* A reading is taken out of the text.
LEMMA ReadingTaken ==
  ASSUME ScanInv, WholeInv, TakeReading
  PROVE  WholeInv'
<1> DEFINE n == FieldWidth + 1
           S == Free(remaining, preserved)
           T == Free(remaining', preserved)
<1>1. Ordered /\ Fits
  BY OrderedIs DEF TakeReading, IsReading
<1>2. /\ remaining \in Seq(Int) /\ cursor \in Nat /\ Increasing(remaining)
      /\ KeptWell(preserved, remaining) /\ KeptInv(preserved, cursor)
      /\ weather["software"] = <<>> /\ Readings(weather, S) /\ capacity \in Nat
  BY <1>1 DEF Ordered, Known
<1>3. /\ FieldWidth \in Nat /\ cursor + FieldWidth + 1 <= Len(remaining)
      /\ IsPiece(remaining, cursor + 2, cursor + 1 + FieldWidth, FieldAt)
      /\ IsRun(FieldAt)
  BY <1>1, FieldIs
<1>4. n \in Nat /\ cursor + n <= Len(remaining)
  <2>1. Len(remaining) \in Nat
    BY <1>2, LengthOf
  <2> QED BY <1>2, <1>3, <2>1, SMT
<1>5. /\ remaining' = Without(n) /\ phase' = phase /\ preserved' = preserved /\ capacity' = capacity
      /\ \/ weather' = weather
         \/ weather[QuantityOf] = <<>> /\ weather' = [weather EXCEPT ![QuantityOf] = FieldAt]
  BY DEF TakeReading
<1> HIDE DEF n
<1>6. CASE weather' = weather
  BY <1>1, <1>2, <1>4, <1>5, <1>6, RemoveStep
<1>7. CASE weather[QuantityOf] = <<>> /\ weather' = [weather EXCEPT ![QuantityOf] = FieldAt]
  <2>1. /\ remaining' \in Seq(Int) /\ Increasing(remaining')
        /\ \A x : x \in Range(remaining') <=>
             x \in Range(remaining) /\ \A k \in cursor + 1 .. cursor + n : x # remaining[k]
    BY <1>2, <1>4, <1>5, EditOrdered
  <2>2. KeptWell(preserved, remaining')
    BY <1>2, <1>4, <1>5, KeptWellStays
  <2>3. /\ FieldAt \in Seq(Int) /\ Range(FieldAt) \subseteq Range(remaining)
        /\ \A x \in Range(FieldAt) : \E k \in cursor + 2 .. cursor + 1 + FieldWidth : remaining[k] = x
    BY <1>3 DEF IsPiece
  <2>4. \A k \in cursor + 2 .. cursor + 1 + FieldWidth : k \in cursor + 1 .. cursor + n
    BY <1>2, <1>3, SMT DEF n
  <2>5. \A x \in Range(FieldAt) : x \notin Range(remaining')
    BY <2>1, <2>3, <2>4
  <2>6. \A i \in 1 .. Len(preserved) : Range(preserved[i].piece) \cap Range(FieldAt) = {}
    BY <1>2, <2>3, KeptApart
  <2>7. T \subseteq S \ Range(FieldAt)
    BY <2>1, <2>5, <2>6 DEF Free
  <2>8. Range(FieldAt) \subseteq S
    BY <2>3 DEF Free
  <2>9. QuantityOf \in Quantity \ {"software"}
    BY <1>1, QuantityIs DEF Fits, IsField
  <2> HIDE DEF S, T
  <2>10. Readings(weather', T)
    BY <1>2, <1>3, <1>7, <2>3, <2>7, <2>8, <2>9, ReadingsMore
  <2>11. weather'["software"] = <<>>
    <3>1. "software" \in Quantity /\ weather \in [Quantity -> Seq(Int)]
      BY <1>2 DEF Readings, Quantity
    <3> QED BY <1>2, <1>7, <2>9, <3>1
  <2>12. KeptWell(preserved, remaining)' /\ Readings(weather, Free(remaining, preserved))'
    BY <1>5, <2>2, <2>10 DEF KeptWell, Readings, Free, T
  <2>13. phase' = "scan" /\ capacity' \in Nat /\ Increasing(remaining)'
    BY <1>1, <1>2, <1>5, <2>1 DEF Ordered, Increasing
  <2> QED BY <2>11, <2>12, <2>13 DEF WholeInv
<1> QED BY <1>5, <1>6, <1>7

\* A placeholder is kept aside, or dropped.
LEMMA PlaceholderTaken ==
  ASSUME ScanInv, WholeInv, TakePlaceholder
  PROVE  WholeInv'
<1> DEFINE n == FieldWidth + 1
           piece == SubSeq(remaining, cursor + 1, cursor + FieldWidth + 1)
           entry == [position |-> cursor, piece |-> piece]
<1>1. Ordered /\ Fits /\ IsPlaceholder
  BY OrderedIs DEF TakePlaceholder, IsPlaceholder
<1>2. /\ remaining \in Seq(Int) /\ cursor \in Nat /\ Increasing(remaining)
      /\ KeptWell(preserved, remaining) /\ KeptInv(preserved, cursor)
      /\ preserved \in Seq(Entry) /\ capacity \in Nat
      /\ weather["software"] = <<>> /\ Readings(weather, Free(remaining, preserved))
  BY <1>1 DEF Ordered, Known, Entry
<1>3. FieldWidth \in Nat /\ cursor + FieldWidth + 1 <= Len(remaining) /\ FieldWidth <= 5
  BY <1>1, FieldIs, PlaceholderIs
<1>4. /\ n \in Nat /\ n # 0 /\ cursor + n <= Len(remaining) /\ cursor + FieldWidth + 1 = cursor + n
      /\ 5 - FieldWidth \in Nat
  <2>1. Len(remaining) \in Nat
    BY <1>2, LengthOf
  <2> QED BY <1>2, <1>3, <2>1, SMT
<1>5. /\ remaining' = Without(n) /\ phase' = phase /\ weather' = weather
      /\ capacity' \in {capacity, 5 - FieldWidth}
      /\ preserved' = preserved \/ preserved' = Append(preserved, entry)
  BY DEF TakePlaceholder, found
<1>6. capacity' \in Nat
  BY <1>2, <1>4, <1>5
<1> HIDE DEF n
<1>7. CASE preserved' = preserved
  BY <1>1, <1>4, <1>5, <1>6, <1>7, RemoveStep
<1>8. CASE preserved' = Append(preserved, entry)
  <2>1. /\ remaining' \in Seq(Int) /\ Increasing(remaining')
        /\ Range(remaining') \subseteq Range(remaining)
    BY <1>2, <1>4, <1>5, EditOrdered
  <2>2. piece = SubSeq(remaining, cursor + 1, cursor + n)
    BY <1>4
  <2>3. IsPiece(remaining, cursor + 1, cursor + n, piece)
    <3>1. cursor + 1 \in Nat /\ cursor + n \in Nat /\ cursor + 1 # 0 /\ cursor + 1 <= cursor + n + 1
      BY <1>2, <1>4, SMT
    <3> QED BY <1>2, <1>4, <2>2, <3>1, PieceIs
  <2>4. piece \in Seq(Int) /\ Range(piece) \subseteq Range(remaining)
    BY <2>3 DEF IsPiece
  <2> HIDE DEF piece
  <2>5. KeptWell(preserved', remaining')
    BY <1>2, <1>4, <1>5, <1>8, <2>2, KeptWellMore
  <2> DEFINE m == Len(preserved)
  <2>6. m \in Nat
    BY <1>2, SMT
  <2>7. /\ Len(preserved') = m + 1 /\ preserved'[m + 1] = entry
        /\ \A i \in 1 .. m : preserved'[i] = preserved[i]
    <3>1. entry \in Entry
      BY <1>2, <2>4 DEF Entry
    <3> HIDE DEF entry
    <3> QED BY <1>2, <1>8, <3>1, AppendProperties
  <2>8. entry.piece = piece
    OBVIOUS
  <2> HIDE DEF entry, m
  <2>9. \A i \in 1 .. m + 1 : i \in 1 .. m \/ i = m + 1
    BY <2>6, SMT
  <2>10. Free(remaining', preserved') \subseteq Free(remaining, preserved)
    <3>1. ASSUME NEW i \in 1 .. Len(preserved'), NEW x \in Range(preserved'[i].piece)
          PROVE  x \in Free(remaining, preserved)
      <4>1. i \in 1 .. m \/ i = m + 1
        BY <2>7, <2>9
      <4>2. CASE i \in 1 .. m
        BY <2>7, <3>1, <4>2 DEF Free, m
      <4>3. CASE i = m + 1
        BY <2>4, <2>7, <2>8, <3>1, <4>3 DEF Free
      <4> QED BY <4>1, <4>2, <4>3
    <3>2. \A x \in Range(remaining') : x \in Free(remaining, preserved)
      BY <2>1 DEF Free
    <3> QED BY <3>1, <3>2 DEF Free
  <2>11. Readings(weather, Free(remaining', preserved'))
    BY <1>2, <2>10, ReadingsStay
  <2>12. KeptWell(preserved, remaining)' /\ Readings(weather, Free(remaining, preserved))'
    BY <1>5, <2>5, <2>11 DEF KeptWell, Readings, Free
  <2>13. phase' = "scan" /\ Increasing(remaining)' /\ weather'["software"] = <<>>
    BY <1>1, <1>2, <1>5, <2>1 DEF Ordered, Increasing
  <2> QED BY <1>6, <2>12, <2>13 DEF WholeInv
<1> QED BY <1>5, <1>7, <1>8

\* What is taken for the comment, unless it is the name of the software.
Comment == Squeezed(Trim(WithoutSeparators(Reinserted(remaining))))

\* The comment is in order and of what was left.  From any character on that is no
\* separator it has lost nothing but spaces.
LEMMA CommentIs ==
  ASSUME remaining \in Seq(Int), Increasing(remaining), preserved \in Seq(Entry),
         KeptWell(preserved, remaining), capacity \in Nat
  PROVE  /\ Comment \in Seq(Int) /\ Increasing(Comment)
         /\ Range(Comment) \subseteq Free(remaining, preserved)
         /\ \A x \in Free(remaining, preserved), y \in Free(remaining, preserved) :
              text[x] \notin Blank /\ x <= y /\ text[y] # " " => y \in Range(Comment)
<1> DEFINE s == Reinserted(remaining)
           t == WithoutSeparators(s)
           u == Trim(t)
           S == Free(remaining, preserved)
<1>1. Len(preserved) \in Nat
  BY SMT
<1>2. HasTaken(preserved, remaining, 0, s)
  BY <1>1, PutAllIs DEF Reinserted
<1>3. /\ s \in Seq(Int) /\ Increasing(s)
      /\ \A x : x \in Range(s) <=> x \in Range(remaining)
                  \/ \E i \in 0 + 1 .. Len(preserved) : x \in Range(preserved[i].piece)
  BY <1>2 DEF HasTaken
<1>4. Range(s) = S
  <2>1. 0 + 1 = 1
    BY SMT
  <2> QED BY <1>3, <2>1 DEF Free
<1> HIDE DEF s, S
<1>5. /\ IsPart(t, s)
      /\ \A x \in Range(s), y \in Range(s) : text[x] \notin Blank /\ x <= y => y \in Range(t)
  BY <1>3, WithoutSeparatorsIs
<1>6. t \in Seq(Int) /\ Increasing(t) /\ Range(t) \subseteq Range(s)
  BY <1>3, <1>5 DEF IsPart
<1> HIDE DEF t
<1>7. IsPart(u, t) /\ \A x \in Range(t) : text[x] # " " => x \in Range(u)
  BY <1>6, TrimIs
<1>8. u \in Seq(Int) /\ Increasing(u) /\ Range(u) \subseteq Range(t)
  BY <1>6, <1>7 DEF IsPart
<1> HIDE DEF u
<1>9. IsPart(Squeezed(u), u) /\ \A x \in Range(u) : text[x] # " " => x \in Range(Squeezed(u))
  BY <1>8, SqueezedIs DEF IsSpace
<1>10. Comment = Squeezed(u)
  BY DEF Comment, s, t, u
<1>11. Comment \in Seq(Int) /\ Increasing(Comment) /\ Range(Comment) \subseteq Range(u)
  BY <1>8, <1>9, <1>10 DEF IsPart
<1>12. \A x \in Range(s), y \in Range(s) :
         text[x] \notin Blank /\ x <= y /\ text[y] # " " => y \in Range(Comment)
  BY <1>5, <1>7, <1>9, <1>10
<1> QED BY <1>4, <1>6, <1>8, <1>11, <1>12 DEF S

\* What is known when the loop has ended.
LEMMA LoopEnds ==
  ASSUME ScanInv, WholeInv, phase = "scan"
  PROVE  /\ Known /\ remaining \in Seq(Int) /\ Increasing(remaining) /\ preserved \in Seq(Entry)
         /\ KeptWell(preserved, remaining) /\ capacity \in Nat
         /\ weather["software"] = <<>> /\ Readings(weather, Free(remaining, preserved))
BY DEF ScanInv, WholeInv, Known, Entry

\* The comment, or the name of the software, is taken from what was left.
LEMMA CommentTaken ==
  ASSUME ScanInv, WholeInv, Finish
  PROVE  WholeInv'
<1> DEFINE S == Free(remaining, preserved)
<1>1. /\ remaining \in Seq(Int) /\ Increasing(remaining) /\ preserved \in Seq(Entry)
      /\ KeptWell(preserved, remaining) /\ capacity \in Nat
      /\ weather["software"] = <<>> /\ Readings(weather, S)
  BY LoopEnds DEF Finish
<1>2. Comment \in Seq(Int) /\ Increasing(Comment) /\ Range(Comment) \subseteq S
  BY <1>1, CommentIs
<1>3. /\ phase' = "telemetry"
      /\ \/ weather' = [weather EXCEPT !["software"] = Comment] /\ remaining' = <<>>
         \/ weather' = weather /\ remaining' = Comment
  BY DEF Finish, Comment
<1> HIDE DEF S
<1>4. CASE weather' = [weather EXCEPT !["software"] = Comment] /\ remaining' = <<>>
  <2>1. "software" \in Quantity
    BY DEF Quantity
  <2>2. {} \subseteq S \ Range(Comment)
    OBVIOUS
  <2>3. Readings(weather', {})
    <3>1. Readings([weather EXCEPT !["software"] = Comment], {})
      <4>1. PICK q \in Quantity : q = "software"
        BY <2>1
      <4>2. weather[q] = <<>> /\ (q # "software" => IsRun(Comment))
        BY <1>1, <4>1
      <4> DEFINE rest == S \ Range(Comment)
      <4>3. Readings(weather, S) /\ rest \subseteq S \ Range(Comment)
        BY <1>1
      <4> HIDE DEF rest
      <4>4. Readings([weather EXCEPT ![q] = Comment], rest)
        BY <1>2, <4>2, <4>3, ReadingsMore
      <4>5. Readings([weather EXCEPT ![q] = Comment], {})
        BY <4>4, ReadingsStay
      <4> QED BY <4>1, <4>5
    <3> QED BY <1>4, <3>1
  <2>4. Readings(weather, Range(remaining))'
    BY <1>4, <2>3, NothingIs DEF Readings
  <2>5. remaining' \in Seq(Int) /\ Increasing(remaining)'
    BY <1>4, NothingIs DEF Increasing
  <2> QED BY <1>3, <2>4, <2>5 DEF WholeInv
<1>5. CASE weather' = weather /\ remaining' = Comment
  <2>1. Readings(weather, Range(Comment))
    BY <1>1, <1>2, ReadingsStay
  <2>2. Readings(weather, Range(remaining))'
    BY <1>5, <2>1 DEF Readings
  <2>3. remaining' \in Seq(Int) /\ Increasing(remaining)'
    BY <1>2, <1>5 DEF Increasing
  <2> QED BY <1>3, <2>2, <2>3 DEF WholeInv
<1> QED BY <1>3, <1>4, <1>5

\* The pair of bars that counts is the last.
LastBlock(s) == CHOOSE block \in Blocks(s) : \A other \in Blocks(s) : other[2] <= block[2]

\* There is one if there is any.
LEMMA LastBlockIs ==
  ASSUME NEW s \in Seq(Int), Blocks(s) # {}
  PROVE  LastBlock(s) \in Blocks(s)
<1> DEFINE S == {block[2] : block \in Blocks(s)}
<1>1. \A block \in Blocks(s) : block[2] \in 1 .. Len(s)
  BY DEF Blocks
<1>2. S \subseteq 1 .. Len(s) /\ S # {}
  BY <1>1
<1>3. PICK b \in S : \A k \in S : k <= b
  <2> HIDE DEF S
  <2> QED BY <1>2, LengthOf, EndsAre
<1>4. PICK block \in Blocks(s) : b = block[2]
  BY <1>3
<1>5. \A other \in Blocks(s) : other[2] <= block[2]
  BY <1>3, <1>4
<1> QED BY <1>4, <1>5 DEF LastBlock

\* The telemetry is taken out of the comment, which keeps its order.
LEMMA TelemetryLeaves ==
  ASSUME WholeInv, TakeTelemetry
  PROVE  IsPart(remaining', remaining)
<1>1. remaining \in Seq(Int) /\ Increasing(remaining)
  BY DEF WholeInv, TakeTelemetry
<1>2. CASE Blocks(remaining) = {}
  BY <1>1, <1>2 DEF TakeTelemetry, IsPart
<1>3. CASE Blocks(remaining) # {}
  <2> DEFINE L == Len(remaining)
             block == LastBlock(remaining)
             a == block[1]
             b == block[2]
             front == SubSeq(remaining, 1, a - 1)
             back == SubSeq(remaining, b + 1, L)
  <2>1. remaining' = Trim(front \o back)
    BY <1>3 DEF TakeTelemetry, LastBlock
  <2>2. block \in Blocks(remaining)
    BY <1>1, <1>3, LastBlockIs
  <2>3. block = <<a, b>>
    BY <2>2 DEF Blocks
  <2> HIDE DEF block
  <2>4. a \in 1 .. L /\ b \in 1 .. L /\ a < b /\ L \in Nat
    BY <1>1, <2>2, <2>3, BlocksAre, LengthOf
  <2> HIDE DEF a, b, L
  <2>5. /\ 1 \in Nat /\ 1 # 0 /\ a - 1 \in Nat /\ a - 1 <= L /\ 1 <= a - 1 + 1
        /\ b + 1 \in Nat /\ b + 1 # 0 /\ L <= L /\ b + 1 <= L + 1 /\ L \in Nat
    BY <2>4, SMT
  <2>6. IsPiece(remaining, 1, a - 1, front) /\ IsPiece(remaining, b + 1, L, back)
    BY <1>1, <2>5, PieceIs DEF L
  <2>7. /\ front \in Seq(Int) /\ Increasing(front) /\ Range(front) \subseteq Range(remaining)
        /\ \A x : x \in Range(front) <=> \E k \in 1 .. a - 1 : remaining[k] = x
        /\ back \in Seq(Int) /\ Increasing(back) /\ Range(back) \subseteq Range(remaining)
        /\ \A x : x \in Range(back) <=> \E k \in b + 1 .. L : remaining[k] = x
    BY <1>1, <2>6 DEF IsPiece
  <2> HIDE DEF front, back
  <2>8. \A j \in 1 .. Len(front), k \in 1 .. Len(back) : front[j] < back[k]
    <3>1. ASSUME NEW j \in 1 .. Len(front), NEW k \in 1 .. Len(back) PROVE front[j] < back[k]
      <4>1. front[j] \in Range(front) /\ back[k] \in Range(back)
        BY <2>7, RangeIs
      <4>2. PICK i \in 1 .. a - 1 : remaining[i] = front[j]
        BY <2>7, <4>1
      <4>3. PICK m \in b + 1 .. L : remaining[m] = back[k]
        BY <2>7, <4>1
      <4>4. i \in 1 .. L /\ m \in 1 .. L /\ i < m
        BY <2>4, <4>2, <4>3, SMT
      <4> QED BY <1>1, <4>2, <4>3, <4>4 DEF Increasing, L
    <3> QED BY <3>1
  <2> DEFINE t == front \o back
  <2>9. t \in Seq(Int) /\ Increasing(t) /\ Range(t) \subseteq Range(remaining)
    BY <2>7, <2>8, JoinIs, JoinOrdered DEF IsJoin
  <2> HIDE DEF t
  <2>10. IsPart(Trim(t), t)
    BY <2>9, TrimIs
  <2> QED BY <2>1, <2>9, <2>10 DEF IsPart, t
<1> QED BY <1>2, <1>3

\* So the invariant stays.
LEMMA TelemetryTaken ==
  ASSUME ScanInv, WholeInv, TakeTelemetry
  PROVE  WholeInv'
<1>1. /\ remaining \in Seq(Int) /\ Increasing(remaining) /\ Readings(weather, Range(remaining))
      /\ phase' = "done" /\ weather' = weather
  BY DEF WholeInv, TakeTelemetry
<1>2. IsPart(remaining', remaining)
  BY TelemetryLeaves
<1>3. remaining' \in Seq(Int) /\ Increasing(remaining') /\ Range(remaining') \subseteq Range(remaining)
  BY <1>1, <1>2 DEF IsPart
<1>4. Readings(weather, Range(remaining'))
  BY <1>1, <1>3, ReadingsStay
<1>5. Readings(weather, Range(remaining))' /\ Increasing(remaining)'
  BY <1>1, <1>3, <1>4 DEF Readings, Increasing
<1> QED BY <1>1, <1>3, <1>5 DEF WholeInv

\* Three characters of a run, or none, are a run.
LEMMA ThreeIs ==
  ASSUME NEW s, IsRun(s), NEW a \in Nat, a # 0, a + 2 <= Len(s),
         NEW d, d \in {SubSeq(s, a, a + 2), <<>>}
  PROVE  IsRun(d) /\ \A x \in Range(d) : \E k \in a .. a + 2 : x = s[k]
<1>1. s \in Seq(Int) /\ \A j, k \in 1 .. Len(s) : s[k] - s[j] = k - j
  BY DEF IsRun
<1>2. CASE d = <<>>
  BY <1>2, NothingIs
<1>3. CASE d = SubSeq(s, a, a + 2)
  <2> DEFINE b == a + 2
  <2>1. b \in Nat /\ a <= b + 1 /\ b <= Len(s) /\ Len(s) \in Nat
    BY <1>1, LengthOf, SMT
  <2> HIDE DEF b
  <2>2. IsPiece(s, a, b, d)
    <3>1. d = SubSeq(s, a, b)
      BY <1>3 DEF b
    <3> QED BY <1>1, <2>1, <3>1, PieceIs
  <2>3. d \in Seq(Int) /\ \A x \in Range(d) : \E k \in a .. b : x = s[k]
    BY <2>2 DEF IsPiece
  <2>4. Len(d) = b - a + 1 /\ \A k \in 1 .. b - a + 1 : d[k] = s[a + k - 1]
    BY <2>2, PieceAt
  <2>5. ASSUME NEW j \in 1 .. Len(d), NEW k \in 1 .. Len(d) PROVE d[k] - d[j] = k - j
    <3>1. j \in 1 .. b - a + 1 /\ k \in 1 .. b - a + 1
      BY <2>4
    <3> DEFINE x == a + j - 1
               y == a + k - 1
    <3>2. x \in 1 .. Len(s) /\ y \in 1 .. Len(s) /\ y - x = k - j
      BY <2>1, <3>1, SMT
    <3>3. d[k] = s[y] /\ d[j] = s[x]
      BY <2>4, <3>1
    <3> HIDE DEF x, y
    <3>4. s[y] - s[x] = y - x
      BY <1>1, <3>2
    <3> QED BY <3>2, <3>3, <3>4
  <2> QED BY <2>3, <2>5 DEF IsRun, b
<1> QED BY <1>2, <1>3

\* The wind is read from the first characters, the direction before the speed.
IsWind(s, wind) ==
  /\ IsRun(wind.direction) /\ IsRun(wind.speed)
  /\ wind.width \in 0 .. Len(s)
  /\ \A x \in Range(wind.direction) : \E k \in 1 .. wind.width : k <= 4 /\ x = s[k]
  /\ \A x \in Range(wind.speed) : \E k \in 1 .. wind.width : 4 < k /\ x = s[k]

\* That is what WindPair gives.
LEMMA WindReads ==
  ASSUME NEW s, IsRun(s)
  PROVE  IsWind(s, WindPair(s))
<1> DEFINE pair == WindPair(s)
           Reads(from) == LET d == SubSeq(s, from, from + 2) IN
                          IF Trim(d) # <<>> /\ AllIn(Trim(d), Digit) THEN d ELSE <<>>
           direct == [width |-> 7, direction |-> Reads(1), speed |-> Reads(5)]
           marked == [width |-> 8, direction |-> Reads(2), speed |-> Reads(6)]
           without == [width |-> 0, direction |-> <<>>, speed |-> <<>>]
<1>1. s \in Seq(Int) /\ Len(s) \in Nat
  BY LengthOf DEF IsRun
<1>2. WindPair(s) = IF Len(s) >= 7 /\ text[s[4]] = "/" THEN direct
                    ELSE IF Len(s) >= 8 /\ text[s[1]] = "c" /\ text[s[5]] = "s" THEN marked
                    ELSE without
  BY DEF WindPair
<1>3. /\ direct.width = 7 /\ direct.direction = Reads(1) /\ direct.speed = Reads(5)
      /\ marked.width = 8 /\ marked.direction = Reads(2) /\ marked.speed = Reads(6)
      /\ without.width = 0 /\ without.direction = <<>> /\ without.speed = <<>>
  OBVIOUS
<1>4. \A from : Reads(from) \in {SubSeq(s, from, from + 2), <<>>}
  OBVIOUS
<1> SUFFICES IsWind(s, pair)
  OBVIOUS
<1> HIDE DEF pair, direct, marked, without, Reads
<1>5. ASSUME NEW a \in {1, 2, 5, 6}, a + 2 <= Len(s)
      PROVE  IsRun(Reads(a)) /\ \A x \in Range(Reads(a)) : \E k \in a .. a + 2 : x = s[k]
  <2>1. a \in Nat /\ a # 0
    BY SMT
  <2>2. Reads(a) \in {SubSeq(s, a, a + 2), <<>>}
    BY <1>4
  <2> QED BY <1>5, <2>1, <2>2, ThreeIs
<1>6. \/ pair = direct /\ Len(s) >= 7
      \/ pair = marked /\ Len(s) >= 8
      \/ pair = without
  BY <1>2 DEF pair
<1>7. CASE pair = direct /\ Len(s) >= 7
  <2>1. 1 + 2 <= Len(s) /\ 5 + 2 <= Len(s) /\ 7 \in 0 .. Len(s)
    BY <1>1, <1>7, SMT
  <2>2. IsRun(Reads(1)) /\ \A x \in Range(Reads(1)) : \E k \in 1 .. 1 + 2 : x = s[k]
    BY <1>5, <2>1
  <2>3. IsRun(Reads(5)) /\ \A x \in Range(Reads(5)) : \E k \in 5 .. 5 + 2 : x = s[k]
    BY <1>5, <2>1
  <2>4. \A k \in 1 .. 1 + 2 : k \in 1 .. 7 /\ k <= 4
    BY SMT
  <2>5. \A k \in 5 .. 5 + 2 : k \in 1 .. 7 /\ 4 < k
    BY SMT
  <2> QED BY <1>3, <1>7, <2>1, <2>2, <2>3, <2>4, <2>5 DEF IsWind
<1>8. CASE pair = marked /\ Len(s) >= 8
  <2>1. 2 + 2 <= Len(s) /\ 6 + 2 <= Len(s) /\ 8 \in 0 .. Len(s)
    BY <1>1, <1>8, SMT
  <2>2. IsRun(Reads(2)) /\ \A x \in Range(Reads(2)) : \E k \in 2 .. 2 + 2 : x = s[k]
    BY <1>5, <2>1
  <2>3. IsRun(Reads(6)) /\ \A x \in Range(Reads(6)) : \E k \in 6 .. 6 + 2 : x = s[k]
    BY <1>5, <2>1
  <2>4. \A k \in 2 .. 2 + 2 : k \in 1 .. 8 /\ k <= 4
    BY SMT
  <2>5. \A k \in 6 .. 6 + 2 : k \in 1 .. 8 /\ 4 < k
    BY SMT
  <2> QED BY <1>3, <1>8, <2>1, <2>2, <2>3, <2>4, <2>5 DEF IsWind
<1>9. CASE pair = without
  <2>1. 0 \in 0 .. Len(s)
    BY <1>1, SMT
  <2> QED BY <1>3, <1>9, <2>1, NothingIs DEF IsWind
<1> QED BY <1>6, <1>7, <1>8, <1>9

\* The text, perhaps without its first character, is a run.
LEMMA RestIs ==
  ASSUME text \in Seq(Char)
  PROVE  IsRun(Rest) /\ Increasing(Rest)
<1> DEFINE from == IF text # <<>> /\ text[1] = "_" THEN 1 ELSE 0
           n == Len(text) - from
<1>1. Rest = [k \in 1 .. n |-> from + k]
  BY DEF Rest, Positions
<1>2. from \in {0, 1} /\ Len(text) \in Nat /\ (text # <<>> => 1 <= Len(text))
  BY LengthIs
<1>3. from = 0 \/ text # <<>>
  OBVIOUS
<1> HIDE DEF from
<1>4. from \in Nat /\ n \in Nat
  <2>1. from = 0 \/ 1 <= Len(text)
    BY <1>2, <1>3
  <2> QED BY <1>2, <2>1, SMT
<1> HIDE DEF n
<1>5. \A k \in 1 .. n : from + k \in Int
  BY <1>4, SMT
<1>6. Rest \in Seq(Int) /\ Len(Rest) = n /\ \A k \in 1 .. n : Rest[k] = from + k
  BY <1>1, <1>4, <1>5, SMT
<1>7. \A j, k \in 1 .. n : (from + k) - (from + j) = k - j /\ (j < k => from + j < from + k)
  BY <1>4, SMT
<1>8. 1 .. Len(Rest) = 1 .. n
  BY <1>6
<1>9. ASSUME NEW j \in 1 .. n, NEW k \in 1 .. n
      PROVE  Rest[k] - Rest[j] = k - j /\ (j < k => Rest[j] < Rest[k])
  <2>1. Rest[j] = from + j /\ Rest[k] = from + k
    BY <1>6
  <2> QED BY <1>7, <2>1
<1> QED BY <1>6, <1>8, <1>9 DEF IsRun, Increasing

\* The wind is taken from the start of the text.
LEMMA WindTaken ==
  ASSUME ScanInv, WholeInv, TakeWind
  PROVE  WholeInv'
<1> DEFINE pair == WindPair(Rest)
           w == pair.width
           L == Len(Rest)
           S == Range(Rest)
           none == [q \in Quantity |-> <<>>]
           once == [none EXCEPT !["wind_direction_deg"] = pair.direction]
           twice == [once EXCEPT !["wind_speed_ms"] = pair.speed]
<1>1. /\ text \in Seq(Char) /\ phase = "wind" /\ preserved = <<>> /\ weather = none /\ capacity = 0
  BY DEF ScanInv, WholeInv, TakeWind
<1>2. IsRun(Rest) /\ Increasing(Rest) /\ Rest \in Seq(Int) /\ L \in Nat
  <2>1. IsRun(Rest) /\ Increasing(Rest)
    BY <1>1, RestIs
  <2> QED BY <2>1, LengthOf DEF IsRun
<1>3. /\ remaining' = SubSeq(Rest, w + 1, L) /\ weather' = twice
      /\ phase' = "scan" /\ preserved' = <<>> /\ capacity' = 0
  BY <1>1 DEF TakeWind
<1> HIDE DEF pair
<1>4. /\ IsRun(pair.direction) /\ IsRun(pair.speed) /\ w \in 0 .. L
      /\ \A x \in Range(pair.direction) : \E k \in 1 .. w : k <= 4 /\ x = Rest[k]
      /\ \A x \in Range(pair.speed) : \E k \in 1 .. w : 4 < k /\ x = Rest[k]
  <2>1. IsWind(Rest, pair)
    BY <1>2, WindReads DEF pair
  <2> QED BY <2>1 DEF IsWind
<1> HIDE DEF w, L, S
<1>5. pair.direction \in Seq(Int) /\ pair.speed \in Seq(Int)
  BY <1>4 DEF IsRun
<1>6. \A x : x \in S <=> \E k \in 1 .. L : Rest[k] = x
  BY <1>2, RangeIs DEF L, S
<1>7. \A k \in 1 .. w : k \in 1 .. L
  BY <1>2, <1>4, SMT
<1>8. Range(pair.direction) \subseteq S /\ Range(pair.speed) \subseteq S
  BY <1>4, <1>6, <1>7
<1>9. \A j \in 1 .. L, k \in 1 .. L : Rest[j] = Rest[k] => j = k
  BY <1>2, OnePlace DEF L
<1>10. Range(pair.speed) \subseteq S \ Range(pair.direction)
  <2>1. ASSUME NEW x \in Range(pair.speed), x \in Range(pair.direction) PROVE FALSE
    <3>1. PICK j \in 1 .. w : j <= 4 /\ x = Rest[j]
      BY <1>4, <2>1
    <3>2. PICK k \in 1 .. w : 4 < k /\ x = Rest[k]
      BY <1>4, <2>1
    <3>3. j = k
      BY <1>7, <1>9, <3>1, <3>2
    <3> QED BY <1>2, <1>4, <3>1, <3>2, <3>3, SMT
  <2> QED BY <1>8, <2>1
<1>11. /\ remaining' \in Seq(Int) /\ Increasing(remaining')
       /\ Range(remaining') \subseteq S
       /\ \A x \in Range(remaining') : \E k \in w + 1 .. L : Rest[k] = x
  <2>1. w + 1 \in Nat /\ w + 1 # 0 /\ L <= L /\ w + 1 <= L + 1
    BY <1>2, <1>4, SMT
  <2>2. IsPiece(Rest, w + 1, L, remaining')
    BY <1>2, <1>3, <2>1, PieceIs DEF L
  <2> QED BY <1>2, <2>2 DEF IsPiece, S
<1>12. \A x \in Range(remaining') : x \notin Range(pair.direction) /\ x \notin Range(pair.speed)
  <2>1. ASSUME NEW x \in Range(remaining'), NEW j \in 1 .. w, x = Rest[j] PROVE FALSE
    <3>1. PICK k \in w + 1 .. L : x = Rest[k]
      BY <1>11, <2>1
    <3>2. k \in 1 .. L
      BY <1>2, <1>4, <3>1, SMT
    <3>3. j = k
      BY <1>7, <1>9, <2>1, <3>1, <3>2
    <3> QED BY <1>2, <1>4, <3>1, <3>3, SMT
  <2> QED BY <1>4, <2>1
<1>13. Readings(twice, Range(remaining'))
  <2>1. PICK q \in Quantity : q = "wind_direction_deg"
    BY DEF Quantity
  <2>2. PICK r \in Quantity : r = "wind_speed_ms"
    BY DEF Quantity
  <2>3. q # r /\ q # "software" /\ r # "software"
    BY <2>1, <2>2
  <2>4. Readings(none, S) /\ none[q] = <<>> /\ none[r] = <<>>
    BY ReadingsFirst
  <2> HIDE DEF none
  <2> DEFINE T == S \ Range(pair.direction)
  <2>5. Readings([none EXCEPT ![q] = pair.direction], T)
    BY <1>4, <1>5, <1>8, <2>4, ReadingsMore
  <2>6. once = [none EXCEPT ![q] = pair.direction]
    BY <2>1
  <2>7. once[r] = <<>>
    <3>1. none \in [Quantity -> Seq(Int)]
      BY <2>4 DEF Readings
    <3> QED BY <2>3, <2>4, <2>6, <3>1
  <2>8. Range(pair.speed) \subseteq T /\ Range(remaining') \subseteq T \ Range(pair.speed)
    BY <1>10, <1>11, <1>12
  <2>9. Readings(once, T)
    BY <2>5, <2>6
  <2> HIDE DEF once, T
  <2>10. Readings([once EXCEPT ![r] = pair.speed], Range(remaining'))
    BY <1>4, <1>5, <2>7, <2>8, <2>9, ReadingsMore
  <2>11. twice = [once EXCEPT ![r] = pair.speed]
    BY <2>2
  <2> QED BY <2>10, <2>11
<1>14. twice["software"] = <<>>
  <2>1. none["software"] = <<>> /\ "software" \in Quantity
    BY DEF Quantity
  <2>2. "software" # "wind_direction_deg" /\ "software" # "wind_speed_ms"
    OBVIOUS
  <2>3. DOMAIN none = Quantity
    OBVIOUS
  <2> HIDE DEF none
  <2> QED BY <2>1, <2>2, <2>3
<1>15. KeptWell(<<>>, remaining') /\ Free(remaining', <<>>) = Range(remaining')
  <2>1. \A i \in 1 .. Len(<<>>) : FALSE
    BY SMT
  <2> QED BY <2>1 DEF KeptWell, Free
<1> HIDE DEF twice
<1>16. Readings(weather', Free(remaining', preserved')) /\ KeptWell(preserved', remaining')
  BY <1>3, <1>13, <1>15
<1>17. KeptWell(preserved, remaining)' /\ Readings(weather, Free(remaining, preserved))'
       /\ Increasing(remaining)'
  BY <1>11, <1>16 DEF KeptWell, Readings, Free, Increasing
<1>18. capacity' \in Nat /\ phase' = "scan" /\ weather'["software"] = <<>>
  BY <1>3, <1>14
<1> QED BY <1>17, <1>18 DEF WholeInv

\* The characters that are passed over, and the payload, stay in the text.
LEMMA PassedOver ==
  ASSUME ScanInv, WholeInv, SkipTelemetry \/ PassOver
  PROVE  WholeInv'
<1>1. /\ phase = "scan" /\ phase' = phase /\ remaining' = remaining /\ preserved' = preserved
      /\ weather' = weather /\ capacity' = capacity
  BY DEF SkipTelemetry, PassOver, Scanning, found
<1>2. /\ Increasing(remaining) /\ KeptWell(preserved, remaining) /\ capacity \in Nat
      /\ weather["software"] = <<>> /\ Readings(weather, Free(remaining, preserved))
  BY <1>1 DEF WholeInv
<1>3. /\ Increasing(remaining)' /\ KeptWell(preserved, remaining)'
      /\ Readings(weather, Free(remaining, preserved))'
  BY <1>1, <1>2 DEF Increasing, KeptWell, Readings, Free
<1> QED BY <1>1, <1>2, <1>3 DEF WholeInv

\* So do those around a token that is removed.
LEMMA TokenDropped ==
  ASSUME ScanInv, WholeInv, DropVoltage \/ DropCounter \/ DropEmptyCounter \/ DropMixedTemperature
  PROVE  WholeInv'
<1>1. Ordered
  BY OrderedIs DEF DropVoltage, DropCounter, DropEmptyCounter, DropMixedTemperature
<1>2. Known /\ remaining \in Seq(Int) /\ cursor \in Nat /\ capacity \in Nat
  BY <1>1 DEF Ordered, Known
<1>3. PICK n \in Nat : n # 0 /\ cursor + n <= Len(remaining) /\ remaining' = Without(n)
  BY <1>2, DropIs
<1>4. phase' = phase /\ preserved' = preserved /\ weather' = weather
  BY DEF DropVoltage, DropCounter, DropEmptyCounter, DropMixedTemperature, found
<1>5. capacity' \in Nat
  <2>1. capacity' = capacity \/ capacity' = 5 - Least(Placeholders, 5)
    BY DEF DropVoltage, DropCounter, DropEmptyCounter, DropMixedTemperature
  <2>2. Placeholders \in Nat
    BY <1>2, FollowersAre
  <2>3. 5 - Least(Placeholders, 5) \in Nat
    BY <2>2, SMT DEF Least
  <2> QED BY <1>2, <2>1, <2>3
<1> QED BY <1>1, <1>3, <1>4, <1>5, RemoveStep

\* The invariant holds at first.
LEMMA WholeStart ==
  Init => WholeInv
<1> SUFFICES ASSUME Init PROVE WholeInv
  OBVIOUS
<1>1. phase = "wind" /\ weather = [q \in Quantity |-> <<>>] /\ capacity = 0
  BY DEF Init
<1> QED BY <1>1 DEF WholeInv

\* Every step keeps it.
LEMMA WholeStep ==
  ScanInv /\ WholeInv /\ Next => WholeInv'
<1> SUFFICES ASSUME ScanInv, WholeInv, Next PROVE WholeInv'
  OBVIOUS
<1>1. CASE Done
  BY <1>1 DEF Done, vars, scanner, WholeInv, KeptWell, Placed, Entry, Readings, Free, Increasing, IsRun
<1> QED BY <1>1, WindTaken, PassedOver, TokenDropped, ReadingTaken, PlaceholderTaken,
          CommentTaken, TelemetryTaken DEF Next, Scan

\* The first and the last character of a run are as far apart as it is long.
LEMMA RunIsWhole ==
  ASSUME NEW s, IsRun(s), s # <<>>
  PROVE  Increasing(s) /\ Last(s) - Head(s) = Len(s) - 1
<1>1. s \in Seq(Int) /\ \A j, k \in 1 .. Len(s) : s[k] - s[j] = k - j
  BY DEF IsRun
<1>2. Len(s) \in Nat /\ Len(s) # 0 /\ \A k \in 1 .. Len(s) : s[k] \in Int
  BY <1>1, EmptySeq, ElementOfSeq, LengthOf
<1>3. 1 \in 1 .. Len(s) /\ Len(s) \in 1 .. Len(s)
  BY <1>2, SMT
<1>4. Last(s) = s[Len(s)] /\ Head(s) = s[1]
  BY <1>1, SMT DEF Last
<1>5. s[Len(s)] - s[1] = Len(s) - 1
  BY <1>1, <1>3
<1>6. ASSUME NEW j \in 1 .. Len(s), NEW k \in 1 .. Len(s), j < k PROVE s[j] < s[k]
  <2>1. s[k] - s[j] = k - j /\ s[k] \in Int /\ s[j] \in Int
    BY <1>1, <1>2
  <2> QED BY <1>2, <1>6, <2>1, SMT
<1> QED BY <1>4, <1>5, <1>6 DEF Increasing

\* It says what the property says.
LEMMA WholeSays ==
  ScanInv /\ WholeInv => ReadingsAreWhole
<1> SUFFICES ASSUME ScanInv, WholeInv PROVE ReadingsAreWhole
  OBVIOUS
<1> DEFINE read == {q \in Quantity : weather[q] # <<>>}
<1>1. phase \in {"wind", "scan", "telemetry", "done"}
  BY DEF ScanInv, Phase
<1>2. PICK free : Readings(weather, free)
  BY <1>1, ReadingsFirst DEF WholeInv
<1>3. /\ weather \in [Quantity -> Seq(Int)]
      /\ \A q \in Quantity \ {"software"} : IsRun(weather[q])
      /\ \A q \in Quantity, r \in Quantity : q # r => Range(weather[q]) \cap Range(weather[r]) = {}
  BY <1>2 DEF Readings
<1>4. phase \in {"telemetry", "done"} =>
        /\ Increasing(remaining)
        /\ \A q \in Quantity : Range(weather[q]) \cap Range(remaining) = {}
  BY DEF WholeInv, Readings
<1>5. \A q \in read \ {"software"} :
        Increasing(weather[q]) /\ Last(weather[q]) - Head(weather[q]) = Len(weather[q]) - 1
  BY <1>3, RunIsWhole
<1>6. \A q, r \in read : q # r => Range(weather[q]) \cap Range(weather[r]) = {}
  BY <1>3
<1>7. phase \in {"telemetry", "done"} => \A q \in read : Range(weather[q]) \cap Range(remaining) = {}
  BY <1>4
<1> QED BY <1>4, <1>5, <1>6, <1>7 DEF ReadingsAreWhole

-----------------------------------------------------------------------------
(* Every edit in the loop.                                                 *)

\* A field that is taken has no bar in it.
LEMMA FieldHasNoBar ==
  ASSUME Ordered, Fits, IsNumber(FieldAt) \/ AllIn(FieldAt, Blank)
  PROVE  \A x \in Range(FieldAt) : text[x] # Bar
<1>1. /\ remaining \in Seq(Int) /\ cursor \in Nat
      /\ IsPiece(remaining, cursor + 2, cursor + 1 + FieldWidth, FieldAt)
  BY FieldIs DEF Ordered, Known
<1> DEFINE s == FieldAt
           t == Trim(s)
<1>2. s \in Seq(Int)
  BY <1>1 DEF IsPiece
<1> HIDE DEF s
<1>3. \A x : x \in Range(s) <=> \E k \in 1 .. Len(s) : s[k] = x
  BY <1>2, RangeIs
<1>4. CASE AllIn(s, Blank)
  <2>1. \A k \in 1 .. Len(s) : text[s[k]] \in Blank
    BY <1>4 DEF AllIn
  <2> QED BY <1>3, <2>1, BarIs DEF s
<1>5. CASE IsNumber(s)
  <2>1. /\ t \in Seq(Int)
        /\ \A x \in Range(s) : text[x] # " " => x \in Range(t)
    BY <1>2, TrimIs DEF IsPart
  <2> DEFINE signed == Identifier \in Signed /\ t # <<>> /\ text[t[1]] \in {"-", "+"}
             u == IF signed THEN Tail(t) ELSE t
  <2>2. u # <<>> /\ AllIn(u, Digit)
    BY <1>5 DEF IsNumber
  <2> HIDE DEF t
  <2>3. \A k \in 1 .. Len(t) : text[t[k]] # Bar
    <3>1. CASE ~ signed
      <4>1. u = t
        BY <3>1
      <4>2. AllIn(t, Digit)
        BY <2>2, <4>1
      <4> QED BY <4>2, BarIs DEF AllIn
    <3>2. CASE signed
      <4>1. u = Tail(t) /\ t # <<>> /\ text[t[1]] \in {"-", "+"}
        BY <3>2
      <4>2. \A k \in 1 .. Len(Tail(t)) : text[Tail(t)[k]] \in Digit
        BY <2>2, <4>1 DEF AllIn
      <4>3. Len(Tail(t)) = Len(t) - 1 /\ \A k \in 1 .. Len(Tail(t)) : Tail(t)[k] = t[k + 1]
        BY <2>1, <4>1, HeadTailProperties
      <4>4. ASSUME NEW k \in 1 .. Len(t) PROVE text[t[k]] \in Digit \/ k = 1
        <5>1. k # 1 => k - 1 \in 1 .. Len(Tail(t)) /\ (k - 1) + 1 = k
          <6>1. Len(t) \in Nat
            BY <2>1, LengthOf
          <6> QED BY <4>3, <6>1, SMT
        <5> QED BY <4>2, <4>3, <5>1
      <4> QED BY <4>1, <4>4, BarIs
    <3> QED BY <3>1, <3>2
  <2>4. \A x : x \in Range(t) <=> \E k \in 1 .. Len(t) : t[k] = x
    BY <2>1, RangeIs
  <2>5. " " # Bar
    BY BarIs DEF Blank
  <2> QED BY <2>1, <2>3, <2>4, <2>5 DEF s
<1> QED BY <1>4, <1>5 DEF s

\* What an edit at the cursor does: it takes characters out, none of them a bar, and
\* drops them or keeps them aside.
IsEdit(n) ==
  /\ n # 0 /\ cursor + n <= Len(remaining) /\ remaining' = Without(n)
  /\ \A k \in Nat : k < n => At(k) # Bar
  /\ \/ preserved' = preserved
     \/ preserved' = Append(preserved, [position |-> cursor,
                                        piece |-> SubSeq(remaining, cursor + 1, cursor + n)])

Edit == DropVoltage \/ DropCounter \/ DropEmptyCounter \/ DropMixedTemperature
          \/ TakeReading \/ TakePlaceholder

\* So do all of them.
LEMMA EditsAre ==
  ASSUME ScanInv, WholeInv, Edit
  PROVE  /\ Ordered /\ text' = text /\ cursor' = cursor /\ phase' = phase
         /\ \E n \in Nat : IsEdit(n)
<1>1. Scanning /\ text' = text /\ cursor' = cursor /\ phase' = phase
  BY DEF Edit, DropVoltage, DropCounter, DropEmptyCounter, DropMixedTemperature,
         TakeReading, TakePlaceholder, found
<1>2. Ordered /\ Known
  BY <1>1, OrderedIs DEF Ordered
<1>3. CASE DropVoltage \/ DropCounter \/ DropEmptyCounter \/ DropMixedTemperature
  <2>1. PICK n \in Nat : /\ n # 0 /\ cursor + n <= Len(remaining) /\ remaining' = Without(n)
                         /\ \A k \in Nat : k < n => At(k) # Bar
    BY <1>2, <1>3, DropIs
  <2>2. preserved' = preserved
    BY <1>3 DEF DropVoltage, DropCounter, DropEmptyCounter, DropMixedTemperature
  <2> QED BY <1>1, <1>2, <2>1, <2>2 DEF IsEdit
<1>4. CASE TakeReading \/ TakePlaceholder
  <2> DEFINE n == FieldWidth + 1
  <2>1. Fits /\ (IsNumber(FieldAt) \/ AllIn(FieldAt, Blank))
    BY <1>4 DEF TakeReading, TakePlaceholder, IsReading, IsPlaceholder
  <2>2. /\ remaining \in Seq(Int) /\ cursor \in Nat /\ Len(remaining) \in Nat
    BY <1>2, LengthOf DEF Known
  <2>3. /\ FieldWidth \in Nat /\ cursor + FieldWidth + 1 <= Len(remaining)
        /\ IsPiece(remaining, cursor + 2, cursor + 1 + FieldWidth, FieldAt)
    BY <1>2, <2>1, FieldIs
  <2>4. \A x \in Range(FieldAt) : text[x] # Bar
    BY <1>2, <2>1, FieldHasNoBar
  <2>5. ASSUME NEW k \in Nat, k < n PROVE At(k) # Bar
    <3>1. CASE k = 0
      BY <2>1, <3>1, BarIs DEF Fits, IsField, Identifier
    <3>2. CASE k # 0
      <4>1. cursor + k + 1 \in cursor + 2 .. cursor + 1 + FieldWidth
        BY <2>2, <2>3, <2>5, <3>2, SMT
      <4>2. cursor + k + 1 \in 1 .. Len(remaining)
        BY <2>2, <2>3, <4>1, SMT
      <4>3. remaining[cursor + k + 1] \in Range(FieldAt)
        BY <2>3, <4>1 DEF IsPiece
      <4> QED BY <2>4, <4>2, <4>3 DEF At
    <3> QED BY <3>1, <3>2
  <2>6. n \in Nat /\ n # 0 /\ cursor + n <= Len(remaining) /\ cursor + FieldWidth + 1 = cursor + n
    BY <2>2, <2>3, SMT
  <2>7. remaining' = Without(n)
    BY <1>4 DEF TakeReading, TakePlaceholder
  <2>8. \/ preserved' = preserved
        \/ preserved' = Append(preserved, [position |-> cursor,
                     piece |-> SubSeq(remaining, cursor + 1, cursor + n)])
    <3>1. \/ preserved' = preserved
          \/ preserved' = Append(preserved, [position |-> cursor,
                       piece |-> SubSeq(remaining, cursor + 1, cursor + FieldWidth + 1)])
      BY <1>4 DEF TakeReading, TakePlaceholder
    <3> QED BY <2>6, <3>1
  <2> HIDE DEF n
  <2>9. IsEdit(n)
    BY <2>5, <2>6, <2>7, <2>8 DEF IsEdit
  <2> QED BY <1>1, <1>2, <2>6, <2>9
<1> QED BY <1>3, <1>4 DEF Edit

\* No character comes from anywhere else, and one that is kept aside is not lost.
LEMMA FreeShrinks ==
  ASSUME Ordered, NEW n \in Nat, IsEdit(n)
  PROVE  /\ Range(remaining') \subseteq Range(remaining)
         /\ Free(remaining', preserved') \subseteq Free(remaining, preserved)
         /\ preserved' = Append(preserved, [position |-> cursor,
                                   piece |-> SubSeq(remaining, cursor + 1, cursor + n)])
            => Free(remaining', preserved') = Free(remaining, preserved)
<1>1. /\ remaining \in Seq(Int) /\ cursor \in Nat /\ Increasing(remaining)
      /\ preserved \in Seq(Entry)
  BY DEF Ordered, Known, Entry
<1>2. /\ n # 0 /\ cursor + n <= Len(remaining) /\ remaining' = Without(n)
      /\ \/ preserved' = preserved
         \/ preserved' = Append(preserved, [position |-> cursor,
                          piece |-> SubSeq(remaining, cursor + 1, cursor + n)])
  BY DEF IsEdit
<1>3. \A x : x \in Range(remaining') <=>
        x \in Range(remaining) /\ \A k \in cursor + 1 .. cursor + n : x # remaining[k]
  BY <1>1, <1>2, EditOrdered
<1>4. Range(remaining') \subseteq Range(remaining)
  BY <1>3
<1>5. CASE preserved' = preserved
  BY <1>4, <1>5 DEF Free
<1>6. CASE preserved' = Append(preserved, [position |-> cursor,
                          piece |-> SubSeq(remaining, cursor + 1, cursor + n)])
  <2> DEFINE piece == SubSeq(remaining, cursor + 1, cursor + n)
             entry == [position |-> cursor, piece |-> piece]
             m == Len(preserved)
  <2>1. IsPiece(remaining, cursor + 1, cursor + n, piece)
    <3>1. /\ cursor + 1 \in Nat /\ cursor + n \in Nat /\ cursor + 1 # 0
          /\ cursor + 1 <= cursor + n + 1
      BY <1>1, <1>2, SMT
    <3> QED BY <1>1, <1>2, <3>1, PieceIs
  <2> HIDE DEF piece
  <2>2. /\ piece \in Seq(Int) /\ Range(piece) \subseteq Range(remaining)
        /\ \A x : x \in Range(piece) <=> \E k \in cursor + 1 .. cursor + n : remaining[k] = x
    BY <2>1 DEF IsPiece
  <2>3. entry \in Entry /\ entry.piece = piece
    BY <1>1, <2>2 DEF Entry
  <2>4. preserved' = Append(preserved, entry)
    BY <1>6 DEF piece
  <2> HIDE DEF entry, m
  <2>5. m \in Nat /\ 1 .. m + 1 = (1 .. m) \cup {m + 1}
    <3>1. m \in Nat
      BY <1>1, SMT DEF m
    <3> QED BY <3>1, SMT
  <2>6. /\ Len(preserved') = m + 1 /\ preserved'[m + 1] = entry
        /\ \A i \in 1 .. m : preserved'[i] = preserved[i]
    BY <1>1, <2>3, <2>4, AppendProperties DEF m
  <2> DEFINE Aside(kept) == UNION {Range(kept[i].piece) : i \in 1 .. Len(kept)}
  <2>7. \A x : x \in Aside(preserved') <=> x \in Aside(preserved) \/ x \in Range(piece)
    <3>1. ASSUME NEW x, x \in Aside(preserved') PROVE x \in Aside(preserved) \/ x \in Range(piece)
      <4>1. PICK i \in 1 .. m + 1 : x \in Range(preserved'[i].piece)
        BY <2>6, <3>1
      <4>2. CASE i \in 1 .. m
        BY <2>6, <4>1, <4>2 DEF m
      <4>3. CASE i = m + 1
        BY <2>3, <2>6, <4>1, <4>3
      <4> QED BY <2>5, <4>2, <4>3
    <3>2. ASSUME NEW x \in Aside(preserved) PROVE x \in Aside(preserved')
      <4>1. PICK i \in 1 .. m : x \in Range(preserved[i].piece)
        BY DEF m
      <4>2. i \in 1 .. Len(preserved') /\ x \in Range(preserved'[i].piece)
        BY <2>5, <2>6, <4>1
      <4> QED BY <4>2
    <3>3. ASSUME NEW x \in Range(piece) PROVE x \in Aside(preserved')
      <4>1. m + 1 \in 1 .. Len(preserved') /\ x \in Range(preserved'[m + 1].piece)
        BY <2>3, <2>5, <2>6
      <4> QED BY <4>1
    <3> HIDE DEF Aside
    <3> QED BY <3>1, <3>2, <3>3
  <2>8. /\ Free(remaining', preserved') = Range(remaining') \cup Aside(preserved')
        /\ Free(remaining, preserved) = Range(remaining) \cup Aside(preserved)
    BY DEF Free
  <2> HIDE DEF Aside
  <2>9. \A x : x \in Free(remaining', preserved') <=> x \in Free(remaining, preserved)
    BY <1>3, <2>2, <2>7, <2>8
  <2> QED BY <1>4, <2>9
<1> QED BY <1>2, <1>5, <1>6

-----------------------------------------------------------------------------
(* The text never changes, and with it what only depends on it.            *)

\* The characters that are looked at.
LEMMA RestStays ==
  ASSUME text' = text
  PROVE  Rest' = Rest
BY DEF Rest, Positions

\* What prose is left as.
LEMMA SqueezedStays ==
  ASSUME text' = text
  PROVE  Squeezed(Trim(Rest))' = Squeezed(Trim(Rest))
<1>1. Trim(Rest)' = Trim(Rest)
  BY RestStays DEF Trim
<1> QED BY <1>1 DEF Squeezed

\* How much of a text says of the wind.
WindWidth(s) == IF Len(s) >= 7 /\ text[s[4]] = "/" THEN 7
                ELSE IF Len(s) >= 8 /\ text[s[1]] = "c" /\ text[s[5]] = "s" THEN 8
                ELSE 0

\* And the width of the wind.
LEMMA WindStays ==
  ASSUME text' = text
  PROVE  WindPair(Rest)'.width = WindPair(Rest).width
<1>1. WindPair(Rest).width = WindWidth(Rest)
  BY DEF WindPair, WindWidth
<1>2. WindPair(Rest)'.width = WindWidth(Rest)'
  BY DEF WindPair, WindWidth
<1>3. WindWidth(Rest)' = WindWidth(Rest)
  BY RestStays DEF WindWidth
<1> QED BY <1>1, <1>2, <1>3

\* What is left comes from the text.
OfText ==
  /\ phase = "scan" => Free(remaining, preserved) \subseteq Range(Rest)
  /\ phase \in {"telemetry", "done"} => Range(remaining) \subseteq Range(Rest)

\* The characters of the text, but for one mark at its start, and where they stand.
LEMMA RestAt ==
  ASSUME text \in Seq(Char)
  PROVE  /\ Rest \in Seq(Int) /\ Increasing(Rest)
         /\ \A x \in Range(Rest) : x \in 1 .. Len(text)
         /\ \A j \in 1 .. Len(Rest), k \in 1 .. Len(Rest) : Rest[k] - Rest[j] = k - j
         /\ text # <<>> /\ text[1] # "_" => Rest = [k \in 1 .. Len(text) |-> k]
<1> DEFINE from == IF text # <<>> /\ text[1] = "_" THEN 1 ELSE 0
           n == Len(text) - from
<1>1. IsRun(Rest) /\ Increasing(Rest)
  BY RestIs
<1>2. Rest = [k \in 1 .. n |-> from + k]
  BY DEF Rest, Positions
<1>3. from \in {0, 1} /\ Len(text) \in Nat /\ (text # <<>> => 1 <= Len(text))
  BY LengthIs
<1>4. from = 0 \/ text # <<>>
  OBVIOUS
<1>5. text # <<>> /\ text[1] # "_" => from = 0
  OBVIOUS
<1> HIDE DEF from
<1>6. from \in Nat /\ n \in Nat
  <2>1. from = 0 \/ 1 <= Len(text)
    BY <1>3, <1>4
  <2> QED BY <1>3, <2>1, SMT
<1>7. ASSUME NEW x \in Range(Rest) PROVE x \in 1 .. Len(text)
  <2>1. PICK k \in 1 .. Len(Rest) : Rest[k] = x
    BY <1>1, RangeIs DEF IsRun
  <2>2. Len(Rest) = n
    BY <1>2, <1>6, SMT
  <2>3. k \in 1 .. n /\ Rest[k] = from + k
    BY <1>2, <2>1, <2>2
  <2> QED BY <1>3, <1>6, <2>1, <2>3, SMT
<1>8. ASSUME text # <<>> /\ text[1] # "_" PROVE Rest = [k \in 1 .. Len(text) |-> k]
  <2>1. from = 0
    BY <1>5, <1>8
  <2>2. n = Len(text) /\ \A k \in 1 .. Len(text) : from + k = k
    BY <1>3, <2>1, SMT
  <2> HIDE DEF n
  <2> QED BY <1>2, <2>2
<1> QED BY <1>1, <1>7, <1>8 DEF IsRun

\* What is left of the text after the wind.
LEMMA WindLeaves ==
  ASSUME ScanInv, TakeWind
  PROVE  /\ text' = text /\ phase' = "scan" /\ cursor' = 0 /\ preserved' = <<>> /\ capacity' = capacity
         /\ WindPair(Rest).width \in 0 .. Len(Rest)
         /\ IsPiece(Rest, WindPair(Rest).width + 1, Len(Rest), remaining')
         /\ Free(remaining', preserved') = Range(remaining')
<1> DEFINE w == WindPair(Rest).width
           L == Len(Rest)
<1>1. /\ text \in Seq(Char) /\ text' = text /\ phase' = "scan" /\ cursor' = 0 /\ preserved' = <<>>
      /\ remaining' = SubSeq(Rest, w + 1, L) /\ capacity' = capacity
  BY DEF ScanInv, TakeWind
<1>2. Rest \in Seq(Int) /\ IsRun(Rest) /\ L \in Nat
  BY <1>1, RestIs, LengthOf DEF IsRun
<1>3. w \in 0 .. L
  BY <1>2, WindReads DEF IsWind
<1> HIDE DEF w, L
<1>4. w + 1 \in Nat /\ w + 1 # 0 /\ L <= L /\ w + 1 <= L + 1
  BY <1>2, <1>3, SMT
<1>5. IsPiece(Rest, w + 1, L, remaining')
  BY <1>1, <1>2, <1>4, PieceIs DEF L
<1>6. Free(remaining', preserved') = Range(remaining')
  <2>1. \A i \in 1 .. Len(<<>>) : FALSE
    BY SMT
  <2> QED BY <1>1, <2>1 DEF Free
<1> QED BY <1>1, <1>3, <1>5, <1>6 DEF w, L

\* Every step takes what is left from what was left before.
LEMMA OfTextStep ==
  ASSUME ScanInv, WholeInv, OfText, Next
  PROVE  OfText'
<1> DEFINE S == Free(remaining, preserved)
<1>1. text' = text
  BY DEF Next, Scan, TakeWind, SkipTelemetry, DropVoltage, DropCounter, DropEmptyCounter,
         DropMixedTemperature, TakeReading, TakePlaceholder, PassOver, Finish, TakeTelemetry,
         Done, found, vars
<1>2. Rest' = Rest
  BY <1>1, RestStays
<1>3. CASE TakeWind
  <2>1. /\ phase' = "scan" /\ Free(remaining', preserved') = Range(remaining')
        /\ IsPiece(Rest, WindPair(Rest).width + 1, Len(Rest), remaining')
    BY <1>3, WindLeaves
  <2>2. Range(remaining') \subseteq Range(Rest)
    BY <2>1 DEF IsPiece
  <2>3. Free(remaining, preserved)' \subseteq Range(Rest)'
    BY <1>2, <2>1, <2>2 DEF Free
  <2> QED BY <2>1, <2>3 DEF OfText
<1>4. CASE SkipTelemetry \/ PassOver \/ Done
  <2>1. remaining' = remaining /\ preserved' = preserved /\ phase' = phase
    BY <1>4 DEF SkipTelemetry, PassOver, Done, vars, scanner, found
  <2>2. /\ Free(remaining, preserved)' = S
        /\ Range(remaining)' = Range(remaining) /\ Range(Rest)' = Range(Rest)
    BY <1>2, <2>1 DEF Free
  <2> QED BY <2>1, <2>2 DEF OfText
<1>5. CASE Edit
  <2>1. Ordered /\ phase' = phase /\ \E n \in Nat : IsEdit(n)
    BY <1>5, EditsAre
  <2>2. Free(remaining', preserved') \subseteq S
    BY <2>1, FreeShrinks
  <2>3. phase = "scan" /\ S \subseteq Range(Rest)
    BY <2>1 DEF Ordered, OfText
  <2>4. Free(remaining, preserved)' \subseteq Range(Rest)'
    BY <1>2, <2>2, <2>3 DEF Free
  <2> QED BY <2>1, <2>3, <2>4 DEF OfText
<1>6. CASE Finish
  <2>1. /\ phase = "scan" /\ phase' = "telemetry" /\ remaining' \in {<<>>, Comment}
    BY <1>6 DEF Finish, Comment
  <2>2. Range(Comment) \subseteq S
    BY <2>1, LoopEnds, CommentIs
  <2>3. Range(<<>>) \subseteq S
    BY NothingIs
  <2>4. Range(remaining') \subseteq Range(Rest)
    BY <2>1, <2>2, <2>3 DEF OfText
  <2>5. Range(remaining)' \subseteq Range(Rest)'
    BY <1>2, <2>4
  <2> QED BY <2>1, <2>5 DEF OfText
<1>7. CASE TakeTelemetry
  <2>1. phase = "telemetry" /\ phase' = "done"
    BY <1>7 DEF TakeTelemetry
  <2>2. Range(remaining') \subseteq Range(remaining)
    BY <1>7, TelemetryLeaves DEF IsPart
  <2>3. Range(remaining)' \subseteq Range(Rest)'
    BY <1>2, <2>1, <2>2 DEF OfText
  <2> QED BY <2>1, <2>3 DEF OfText
<1> QED BY <1>3, <1>4, <1>5, <1>6, <1>7 DEF Next, Scan, Edit

-----------------------------------------------------------------------------
(* Prose.                                                                  *)

\* A sequence in order has the characters of another at the same places, up to any
\* place, if they have the same characters.
LEMMA SamePlaces ==
  ASSUME NEW s \in Seq(Int), NEW t \in Seq(Int), Increasing(s), Increasing(t), Range(s) = Range(t)
  PROVE  \A k \in 1 .. Len(s) : k \in 1 .. Len(t) /\ s[k] = t[k]
<1> DEFINE m == Len(s)
           n == Len(t)
           Same(k) == k \in 1 .. n /\ s[k] = t[k]
           D == {k \in 1 .. m : ~ Same(k)}
<1>1. m \in Nat /\ n \in Nat
  BY LengthOf
<1>2. SUFFICES ASSUME D # {} PROVE FALSE
  OBVIOUS
<1>3. PICK k \in D : \A l \in Nat : l < k => l \notin D
  <2>1. D \subseteq Nat
    BY <1>1, SMT
  <2> HIDE DEF D
  <2> QED BY <1>2, <2>1, LeastIs
<1>4. k \in 1 .. m /\ ~ Same(k)
  BY <1>3
<1>5. \A l \in 1 .. m : l < k => Same(l)
  <2>1. \A l \in 1 .. m : l \in Nat
    BY SMT
  <2> QED BY <1>3, <2>1
<1> HIDE DEF D
<1>6. /\ \A x : x \in Range(s) <=> \E j \in 1 .. m : s[j] = x
      /\ \A x : x \in Range(t) <=> \E j \in 1 .. n : t[j] = x
      /\ \A j \in 1 .. m : s[j] \in Int
      /\ \A j \in 1 .. n : t[j] \in Int
  BY RangeIs, ElementOfSeq
<1>7. PICK i \in 1 .. n : t[i] = s[k]
  BY <1>4, <1>6
<1>8. ~ i < k
  <2>1. SUFFICES ASSUME i < k PROVE FALSE
    OBVIOUS
  <2>2. i \in 1 .. m
    BY <1>1, <1>4, <2>1, SMT
  <2>3. s[i] = t[i]
    BY <1>5, <2>1, <2>2
  <2>4. s[i] < s[k]
    BY <1>4, <2>1, <2>2 DEF Increasing
  <2> QED BY <1>4, <1>6, <1>7, <2>3, <2>4, SMT
<1>9. k \in 1 .. n
  BY <1>1, <1>4, <1>8, SMT
<1>10. PICK j \in 1 .. m : s[j] = t[k]
  BY <1>6, <1>9
<1>11. ~ j < k
  <2>1. SUFFICES ASSUME j < k PROVE FALSE
    OBVIOUS
  <2>2. Same(j)
    BY <1>5, <2>1
  <2>3. s[j] = t[j] /\ j \in 1 .. n
    BY <2>2
  <2>4. t[j] < t[k]
    BY <1>9, <2>1, <2>3 DEF Increasing
  <2> QED BY <1>6, <1>9, <1>10, <2>3, <2>4, SMT
<1>12. t[k] <= t[i] /\ s[k] <= s[j]
  <2>1. i = k \/ k < i
    BY <1>1, <1>4, <1>8, SMT
  <2>2. j = k \/ k < j
    BY <1>1, <1>4, <1>11, SMT
  <2>3. t[k] <= t[i]
    <3>1. t[k] = t[i] \/ t[k] < t[i]
      BY <1>9, <2>1 DEF Increasing
    <3> QED BY <1>6, <1>9, <3>1, SMT
  <2>4. s[k] <= s[j]
    <3>1. s[k] = s[j] \/ s[k] < s[j]
      BY <1>4, <2>2 DEF Increasing
    <3> QED BY <1>4, <1>6, <3>1, SMT
  <2> QED BY <2>3, <2>4
<1>13. s[k] \in Int /\ t[k] \in Int /\ s[k] = t[k]
  <2>1. s[k] \in Int /\ t[k] \in Int
    BY <1>4, <1>6, <1>9
  <2> QED BY <1>7, <1>10, <1>12, <2>1, SMT
<1> QED BY <1>4, <1>9, <1>13

\* In order, characters make one sequence only.
LEMMA SameOrder ==
  ASSUME NEW s \in Seq(Int), NEW t \in Seq(Int), Increasing(s), Increasing(t), Range(s) = Range(t)
  PROVE  s = t
<1>1. \A k \in 1 .. Len(s) : k \in 1 .. Len(t) /\ s[k] = t[k]
  BY SamePlaces
<1>2. \A k \in 1 .. Len(t) : k \in 1 .. Len(s)
  BY SamePlaces
<1>3. Len(s) = Len(t)
  <2>1. Len(s) \in Nat /\ Len(t) \in Nat
    BY LengthOf
  <2>2. Len(s) # 0 => Len(s) \in 1 .. Len(s)
    BY <2>1, SMT
  <2>3. Len(t) # 0 => Len(t) \in 1 .. Len(t)
    BY <2>1, SMT
  <2>4. Len(s) # 0 => Len(s) \in 1 .. Len(t)
    BY <1>1, <2>2
  <2>5. Len(t) # 0 => Len(t) \in 1 .. Len(s)
    BY <1>2, <2>3
  <2> QED BY <2>1, <2>4, <2>5, SMT
<1> QED BY <1>1, <1>3, SeqEqual

\* What the scanner knows in the loop of a text that is prose.
ProseInv ==
  IsProse =>
    /\ phase = "scan" =>
         /\ Free(remaining, preserved) = Range(Rest) /\ capacity = 0
         /\ cursor = 0 => Len(remaining) = Len(text)
    /\ phase \in {"telemetry", "done"} =>
         remaining \o weather["software"] = Squeezed(Trim(Rest))

\* Whether a text is prose.
LEMMA ProseStays ==
  ASSUME text' = text
  PROVE  IsProse' <=> IsProse
<1>1. WindPair(Rest)'.width = WindPair(Rest).width
  BY WindStays
<1> QED BY <1>1 DEF IsProse

\* In prose the scanner finds no digit and no bar, and no field at the start.
LEMMA ProseAt ==
  ASSUME ScanInv, OfText, phase = "scan", IsProse, ProseInv
  PROVE  /\ \A i : At(i) \notin Digit \cup {Bar}
         /\ \A x \in Range(remaining) : text[x] \notin Digit \cup {Bar}
         /\ cursor < Len(remaining) /\ Identifier \in Field \cup {"#"} => cursor # 0
<1>1. /\ text \in Seq(Char) /\ remaining \in Seq(Int) /\ cursor \in Nat
      /\ SuffixInv(remaining, cursor) /\ Range(remaining) \subseteq Range(Rest)
  BY DEF ScanInv, OfText, Free
<1>2. \A k \in 1 .. Len(text) : text[k] \notin Digit \cup {Bar}
  BY DEF IsProse, Bar
<1>3. \A x \in Range(remaining) : text[x] \notin Digit \cup {Bar}
  BY <1>1, <1>2, RestAt
<1>4. \A k \in 1 .. Len(remaining) : remaining[k] \in Range(remaining)
  BY <1>1, RangeIs
<1>5. ASSUME NEW i PROVE At(i) \notin Digit \cup {Bar}
  <2>1. CASE cursor + i + 1 \in 1 .. Len(remaining)
    BY <1>3, <1>4, <2>1 DEF At
  <2>2. CASE cursor + i + 1 \notin 1 .. Len(remaining)
    <3>1. At(i) = NoChar
      BY <2>2, AtIs
    <3>2. NoChar # Bar
      BY DEF NoChar, Bar
    <3> QED BY <3>1, <3>2, NoCharIs
  <2> QED BY <2>1, <2>2
<1>6. ASSUME cursor < Len(remaining), Identifier \in Field \cup {"#"}, cursor = 0 PROVE FALSE
  <2>1. Len(remaining) = Len(text) /\ Len(text) \in Nat
    BY <1>1, <1>6, LengthIs DEF ProseInv
  <2>2. 1 \in 0 + 1 .. Len(remaining) /\ Len(text) - Len(remaining) + 1 = 1
    BY <1>6, <2>1, SMT
  <2>3. remaining[1] = 1
    BY <1>1, <1>6, <2>2 DEF SuffixInv
  <2>4. 0 + 0 + 1 = 1 /\ 1 \in 1 .. Len(remaining)
    BY <1>6, <2>1, SMT
  <2>5. Identifier = text[1]
    BY <1>6, <2>3, <2>4 DEF Identifier, At
  <2> QED BY <1>6, <2>5 DEF IsProse
<1> QED BY <1>3, <1>5, <1>6

\* So it reads nothing, and drops nothing but placeholders, which it keeps aside.
LEMMA ProseEdits ==
  ASSUME ScanInv, WholeInv, OfText, ProseInv, IsProse, Edit
  PROVE  TakePlaceholder /\ cursor # 0
<1>1. Ordered /\ Known
  BY EditsAre DEF Ordered
<1>2. /\ phase = "scan" /\ cursor < Len(remaining)
      /\ remaining \in Seq(Int) /\ cursor \in Nat
  BY <1>1 DEF Ordered, Known
<1>3. \A i : At(i) \notin Digit
  BY <1>2, ProseAt
<1>4. NoChar \notin Digit /\ NoChar \notin Digit \cup Blank
  BY NoCharIs
<1>5. ASSUME NEW i \in Nat PROVE Count(Digit, i) = 0
  <2> DEFINE c == Count(Digit, i)
  <2>1. c \in 0 .. Len(remaining) /\ Follow(Digit, i, c)
    BY <1>2, <1>4, CountIs
  <2> HIDE DEF c
  <2>2. \A k \in 0 .. c - 1 : At(i + k) \in Digit
    BY <2>1 DEF Follow
  <2>3. \A k \in 0 .. c - 1 : FALSE
    BY <1>3, <2>2
  <2>4. c = 0 \/ 0 \in 0 .. c - 1
    BY <1>2, <2>1, LengthOf, SMT
  <2>5. c = 0
    BY <2>3, <2>4
  <2> QED BY <2>5 DEF c
<1>6. 1 \in Nat /\ 1 + VoltageSign \in Nat
  BY SignIs, SMT
<1>7. ~ DropVoltage /\ ~ DropCounter
  BY <1>5, <1>6 DEF DropVoltage, IsVoltage, DropCounter, IsCounter
<1>8. ~ DropEmptyCounter
  BY <1>2, ProseAt DEF DropEmptyCounter, IsEmptyCounter
<1>9. ~ DropMixedTemperature
  BY <1>3 DEF DropMixedTemperature, IsMixedTemperature
<1>10. ~ TakeReading
  <2>1. SUFFICES ASSUME TakeReading PROVE FALSE
    OBVIOUS
  <2>2. Fits /\ IsNumber(FieldAt)
    BY <2>1 DEF TakeReading, IsReading
  <2>3. IsPiece(remaining, cursor + 2, cursor + 1 + FieldWidth, FieldAt)
    BY <1>1, <2>2, FieldIs
  <2> DEFINE s == FieldAt
             t == Trim(s)
             signed == Identifier \in Signed /\ t # <<>> /\ text[t[1]] \in {"-", "+"}
             u == IF signed THEN Tail(t) ELSE t
  <2>4. s \in Seq(Int) /\ Range(s) \subseteq Range(remaining)
    BY <2>3 DEF IsPiece
  <2>5. u # <<>> /\ AllIn(u, Digit)
    BY <2>2 DEF IsNumber
  <2> HIDE DEF s
  <2>6. t \in Seq(Int) /\ Range(t) \subseteq Range(s)
    BY <2>4, TrimIs DEF IsPart
  <2> HIDE DEF t
  <2>7. u \in Seq(Int) /\ \A k \in 1 .. Len(u) : \E j \in 1 .. Len(t) : u[k] = t[j]
    <3>1. CASE u = t
      BY <2>6, <3>1
    <3>2. CASE u = Tail(t) /\ t # <<>>
      <4>1. /\ Tail(t) \in Seq(Int) /\ Len(Tail(t)) = Len(t) - 1
            /\ \A k \in 1 .. Len(Tail(t)) : Tail(t)[k] = t[k + 1]
        BY <2>6, <3>2, HeadTailProperties
      <4>2. Len(t) \in Nat
        BY <2>6, LengthOf
      <4>3. \A k \in 1 .. Len(Tail(t)) : k + 1 \in 1 .. Len(t)
        BY <4>1, <4>2, SMT
      <4> QED BY <3>2, <4>1, <4>3
    <3>3. u = t \/ (u = Tail(t) /\ t # <<>>)
      OBVIOUS
    <3> QED BY <3>1, <3>2, <3>3
  <2> HIDE DEF u
  <2>8. 1 \in 1 .. Len(u)
    <3>1. Len(u) \in Nat /\ Len(u) # 0
      BY <2>5, <2>7, LengthOf, EmptySeq
    <3> QED BY <3>1, SMT
  <2>9. text[u[1]] \in Digit
    BY <2>5, <2>8 DEF AllIn
  <2>10. u[1] \in Range(remaining)
    <3>1. \A j \in 1 .. Len(t) : t[j] \in Range(t)
      BY <2>6, RangeIs
    <3> QED BY <2>4, <2>6, <2>7, <2>8, <3>1
  <2> QED BY <1>2, <2>9, <2>10, ProseAt
<1>11. TakePlaceholder
  BY <1>7, <1>8, <1>9, <1>10 DEF Edit
<1>12. cursor # 0
  BY <1>2, <1>11, ProseAt DEF TakePlaceholder, IsPlaceholder, Fits, IsField
<1> QED BY <1>11, <1>12

\* The text of prose is looked at from its start.
LEMMA ProseWind ==
  ASSUME ScanInv, WholeInv, TakeWind
  PROVE  ProseInv'
<1> SUFFICES ASSUME IsProse'
             PROVE  /\ Free(remaining, preserved)' = Range(Rest)' /\ capacity' = 0
                    /\ cursor' = 0 => Len(remaining') = Len(text')
                    /\ phase' = "scan"
  BY DEF ProseInv
<1> DEFINE L == Len(Rest)
<1>1. /\ text' = text /\ phase' = "scan" /\ cursor' = 0 /\ preserved' = <<>> /\ capacity' = capacity
      /\ IsPiece(Rest, WindPair(Rest).width + 1, L, remaining')
      /\ Free(remaining', preserved') = Range(remaining')
  BY WindLeaves
<1>2. Rest' = Rest /\ IsProse
  BY <1>1, RestStays, ProseStays
<1>3. /\ text \in Seq(Char) /\ text # <<>> /\ text[1] # "_" /\ WindPair(Rest).width = 0
      /\ capacity = 0
  BY <1>2 DEF ScanInv, WholeInv, IsProse, TakeWind
<1>4. /\ Rest \in Seq(Int) /\ Increasing(Rest) /\ Rest = [k \in 1 .. Len(text) |-> k]
      /\ Len(text) \in Nat
  BY <1>3, RestAt, LengthIs
<1>5. L = Len(text) /\ L \in Nat
  BY <1>4, SMT
<1>6. IsPiece(Rest, 0 + 1, L, remaining')
  BY <1>1, <1>3
<1> HIDE DEF L
<1>7. Len(remaining') = L
  <2>1. Len(remaining') = L - (0 + 1) + 1
    BY <1>6 DEF IsPiece
  <2> QED BY <1>5, <2>1, SMT
<1>8. Range(remaining') = Range(Rest)
  <2>1. \A x : x \in Range(remaining') <=> \E k \in 0 + 1 .. L : Rest[k] = x
    BY <1>6 DEF IsPiece
  <2>2. \A x : x \in Range(Rest) <=> \E k \in 1 .. L : Rest[k] = x
    BY <1>4, RangeIs DEF L
  <2>3. 0 + 1 = 1
    BY SMT
  <2>4. \A x : x \in Range(remaining') <=> x \in Range(Rest)
    BY <2>1, <2>2, <2>3
  <2> QED BY <2>4
<1>9. Free(remaining, preserved)' = Range(Rest)'
  BY <1>1, <1>2, <1>8 DEF Free
<1> QED BY <1>1, <1>3, <1>5, <1>7, <1>9

\* What is left of prose is all of it, but for spaces.
LEMMA ProseEnds ==
  ASSUME ScanInv, WholeInv, ProseInv, IsProse, Finish
  PROVE  remaining' \o weather'["software"] = Squeezed(Trim(Rest))
<1>1. /\ phase = "scan" /\ Free(remaining, preserved) = Range(Rest) /\ capacity = 0
  BY DEF ProseInv, Finish
<1>2. /\ text \in Seq(Char) /\ remaining \in Seq(Int) /\ Increasing(remaining)
      /\ preserved \in Seq(Entry) /\ KeptWell(preserved, remaining)
      /\ weather["software"] = <<>> /\ Readings(weather, Free(remaining, preserved))
  BY <1>1, LoopEnds DEF Known
<1> DEFINE s == Reinserted(remaining)
<1>3. HasTaken(preserved, remaining, 0, s)
  <2>1. Len(preserved) \in Nat
    BY <1>2, SMT
  <2> QED BY <1>2, <2>1, PutAllIs DEF Reinserted
<1>4. /\ s \in Seq(Int) /\ Increasing(s)
      /\ \A x : x \in Range(s) <=> x \in Range(remaining)
                  \/ \E i \in 0 + 1 .. Len(preserved) : x \in Range(preserved[i].piece)
  BY <1>3 DEF HasTaken
<1> HIDE DEF s
<1>5. Range(s) = Range(Rest)
  <2>1. 0 + 1 = 1
    BY SMT
  <2>2. \A x : x \in Range(s) <=> x \in Free(remaining, preserved)
    BY <1>4, <2>1 DEF Free
  <2> QED BY <1>1, <2>2
<1>6. s = Rest
  <2>1. Rest \in Seq(Int) /\ Increasing(Rest)
    BY <1>2, RestAt
  <2> QED BY <1>4, <1>5, <2>1, SameOrder
<1>7. WithoutSeparators(s) = s
  <2>1. capacity \in Nat
    BY <1>1, SMT
  <2>2. PICK n \in 0 .. Len(s) : /\ n <= capacity
                                 /\ WithoutSeparators(s) = SubSeq(s, n + 1, Len(s))
    BY <1>4, <2>1, SeparatorsAre
  <2>3. n + 1 = 1
    BY <1>1, <1>4, <2>2, LengthOf, SMT
  <2>4. SubSeq(s, 1, Len(s)) = s
    BY <1>4, SMT
  <2> QED BY <2>2, <2>3, <2>4
<1>8. Comment = Squeezed(Trim(Rest))
  BY <1>6, <1>7 DEF Comment, s
<1>9. Comment \in Seq(Int)
  <2>1. capacity \in Nat
    BY <1>1, SMT
  <2> QED BY <1>2, <2>1, CommentIs
<1>10. \/ remaining' = <<>> /\ weather' = [weather EXCEPT !["software"] = Comment]
       \/ remaining' = Comment /\ weather' = weather
  BY DEF Finish, Comment
<1>11. weather \in [Quantity -> Seq(Int)] /\ "software" \in Quantity
  BY <1>2 DEF Readings, Quantity
<1> HIDE DEF Comment
<1>12. \/ remaining' = <<>> /\ weather'["software"] = Comment
       \/ remaining' = Comment /\ weather'["software"] = <<>>
  BY <1>2, <1>10, <1>11
<1>13. <<>> \o Comment = Comment /\ Comment \o <<>> = Comment
  BY <1>9, ConcatEmptySeq
<1> QED BY <1>8, <1>12, <1>13

\* Every step keeps what is known of prose.
LEMMA ProseStep ==
  ASSUME ScanInv, WholeInv, OfText, ProseInv, Next
  PROVE  ProseInv'
<1>1. CASE TakeWind
  BY <1>1, ProseWind
<1>2. CASE ~ TakeWind
  <2> SUFFICES ASSUME IsProse' PROVE ProseInv'
    BY DEF ProseInv
  <2>1. text' = text
    BY DEF Next, Scan, TakeWind, SkipTelemetry, DropVoltage, DropCounter, DropEmptyCounter,
           DropMixedTemperature, TakeReading, TakePlaceholder, PassOver, Finish, TakeTelemetry,
           Done, found, vars
  <2>2. Rest' = Rest /\ IsProse /\ Squeezed(Trim(Rest))' = Squeezed(Trim(Rest))
    BY <2>1, RestStays, ProseStays, SqueezedStays
  <2>3. CASE SkipTelemetry \/ PassOver
    <3>1. /\ phase = "scan" /\ remaining' = remaining /\ preserved' = preserved /\ phase' = phase
          /\ capacity' = capacity /\ cursor \in Nat /\ remaining \in Seq(Int)
      BY <2>3 DEF SkipTelemetry, PassOver, Scanning, found, ScanInv
    <3>2. cursor' # 0
      <4>1. CASE PassOver
        <5>1. cursor' = cursor + 1
          BY <4>1 DEF PassOver
        <5> QED BY <3>1, <5>1, SMT
      <4>2. CASE SkipTelemetry
        <5>1. IsTelemetry
          BY <4>2 DEF SkipTelemetry
        <5>2. PICK block \in Blocks(remaining) : block[1] = cursor + 1
          BY <5>1 DEF IsTelemetry
        <5>3. block[1] \in 1 .. Len(remaining) /\ text[remaining[block[1]]] = Bar
          BY DEF Blocks, Bar
        <5>4. remaining[block[1]] \in Range(remaining)
          BY <3>1, <5>3, RangeIs
        <5> QED BY <2>2, <3>1, <5>3, <5>4, ProseAt
      <4> QED BY <2>3, <4>1, <4>2
    <3>3. Free(remaining, preserved)' = Range(Rest)'
      BY <2>2, <3>1 DEF ProseInv, Free
    <3> QED BY <2>2, <3>1, <3>2, <3>3 DEF ProseInv
  <2>4. CASE Edit
    <3>1. Ordered /\ phase' = phase /\ cursor' = cursor /\ TakePlaceholder /\ cursor # 0
      BY <2>2, <2>4, EditsAre, ProseEdits
    <3>2. PICK n \in Nat : IsEdit(n)
      BY <2>4, EditsAre
    <3>3. preserved' # preserved
      <4>1. \E entry : preserved' = Append(preserved, entry)
        BY <3>1 DEF TakePlaceholder
      <4>2. preserved \in Seq(Entry)
        BY <3>1 DEF Ordered, Known, Entry
      <4>3. PICK entry : preserved' = Append(preserved, entry)
        BY <4>1
      <4>4. Len(preserved') = Len(preserved) + 1 /\ Len(preserved) \in Nat
        BY <4>2, <4>3, SMT
      <4> QED BY <4>4, SMT
    <3>4. Free(remaining', preserved') = Free(remaining, preserved)
      BY <3>1, <3>2, <3>3, FreeShrinks DEF IsEdit
    <3>5. Free(remaining, preserved)' = Range(Rest)' /\ phase = "scan"
      BY <2>2, <3>1, <3>4 DEF ProseInv, Free, Ordered
    <3>6. capacity' = capacity /\ capacity = 0
      BY <2>2, <3>1, <3>5 DEF TakePlaceholder, ProseInv
    <3> QED BY <3>1, <3>5, <3>6 DEF ProseInv
  <2>5. CASE Finish
    <3>1. phase' = "telemetry"
      BY <2>5 DEF Finish
    <3>2. remaining' \o weather'["software"] = Squeezed(Trim(Rest))
      BY <2>2, <2>5, ProseEnds
    <3> QED BY <2>2, <3>1, <3>2 DEF ProseInv
  <2>6. CASE TakeTelemetry
    <3>1. /\ phase = "telemetry" /\ phase' = "done" /\ weather' = weather
          /\ remaining \in Seq(Int) /\ Range(remaining) \subseteq Range(Rest) /\ text \in Seq(Char)
      BY <2>6 DEF TakeTelemetry, WholeInv, OfText, ScanInv
    <3>2. Blocks(remaining) = {}
      <4>1. SUFFICES ASSUME NEW block \in Blocks(remaining) PROVE FALSE
        OBVIOUS
      <4>2. block[1] \in 1 .. Len(remaining) /\ text[remaining[block[1]]] = Bar
        BY DEF Blocks, Bar
      <4>3. remaining[block[1]] \in Range(Rest)
        BY <3>1, <4>2, RangeIs
      <4>4. remaining[block[1]] \in 1 .. Len(text)
        BY <3>1, <4>3, RestAt
      <4> QED BY <2>2, <4>2, <4>4 DEF IsProse, Bar
    <3>3. remaining' = remaining
      BY <2>6, <3>2 DEF TakeTelemetry
    <3> QED BY <2>2, <3>1, <3>3 DEF ProseInv
  <2>7. CASE Done
    BY <2>2, <2>7 DEF Done, vars, scanner, ProseInv
  <2> QED BY <1>2, <2>3, <2>4, <2>5, <2>6, <2>7 DEF Next, Scan, Edit
<1> QED BY <1>1, <1>2

\* At the start there is nothing to say of either.
LEMMA ProseStart ==
  Init => OfText /\ ProseInv
BY DEF Init, OfText, ProseInv

-----------------------------------------------------------------------------
(* Inline telemetry.                                                       *)

\* A payload of the text behind any wind, between the only two bars.
Carries(a, b) ==
  /\ <<a, b>> \in Blocks(Rest) /\ a > WindPair(Rest).width
  /\ {k \in 1 .. Len(Rest) : text[Rest[k]] = Bar} = {a, b}

\* Two bars of the text with a payload between them, and no other bar.
IsPayload(x, y) ==
  /\ x \in Int /\ y \in Int /\ x < y /\ y - x - 1 \in 4 .. 14 /\ (y - x - 1) % 2 = 0
  /\ \A z \in x .. y : z \in Range(Rest)
  /\ text[x] = Bar /\ text[y] = Bar /\ \A z \in Range(Rest) : text[z] = Bar => z \in {x, y}
  /\ \A z \in x + 1 .. y - 1 : text[z] \in Base91

\* Whether a text carries a payload does not change.
LEMMA CarriesStays ==
  ASSUME text' = text, NEW a, NEW b
  PROVE  Carries(a, b)' <=> Carries(a, b)
<1>1. Rest' = Rest /\ WindPair(Rest)'.width = WindPair(Rest).width
  BY RestStays, WindStays
<1>2. (<<a, b>> \in Blocks(Rest))' <=> <<a, b>> \in Blocks(Rest)
  BY <1>1 DEF Blocks
<1>3. {k \in 1 .. Len(Rest) : text[Rest[k]] = Bar}' = {k \in 1 .. Len(Rest) : text[Rest[k]] = Bar}
  BY <1>1
<1> QED BY <1>1, <1>2, <1>3 DEF Carries

\* The places in the text of a payload.
LEMMA PayloadIs ==
  ASSUME text \in Seq(Char), NEW a, NEW b, Carries(a, b)
  PROVE  /\ a \in 1 .. Len(Rest) /\ b \in 1 .. Len(Rest) /\ a < b
         /\ Rest[b] - Rest[a] = b - a /\ IsPayload(Rest[a], Rest[b])
<1> DEFINE L == Len(Rest)
<1>1. /\ Rest \in Seq(Int) /\ L \in Nat
      /\ \A j \in 1 .. L, k \in 1 .. L : Rest[k] - Rest[j] = k - j
      /\ \A k \in 1 .. L : Rest[k] \in Int
  BY RestAt, LengthOf, ElementOfSeq
<1>2. \A x : x \in Range(Rest) <=> \E k \in 1 .. L : Rest[k] = x
  BY <1>1, RangeIs
<1>3. /\ a \in 1 .. L /\ b \in 1 .. L /\ text[Rest[a]] = Bar /\ text[Rest[b]] = Bar
      /\ b - a - 1 \in 4 .. 14 /\ (b - a - 1) % 2 = 0
      /\ \A k \in a + 1 .. b - 1 : text[Rest[k]] \in Base91
  BY DEF Carries, Blocks, Bar
<1>4. {k \in 1 .. L : text[Rest[k]] = Bar} = {a, b}
  BY DEF Carries
<1> HIDE DEF L
<1> DEFINE x == Rest[a]
           y == Rest[b]
<1>5. x \in Int /\ y \in Int /\ y - x = b - a /\ a \in Int /\ b \in Int
  BY <1>1, <1>3, SMT
<1>6. ASSUME NEW z \in x .. y PROVE a + (z - x) \in a .. b /\ Rest[a + (z - x)] = z
  <2> HIDE DEF x, y
  <2> DEFINE k == a + (z - x)
  <2>1. k \in a .. b /\ k \in 1 .. L /\ k - a = z - x
    <3>1. a \in 1 .. L /\ b \in 1 .. L /\ L \in Nat
      BY <1>1, <1>3
    <3>2. z \in Int /\ x <= z /\ z <= y
      BY <1>5, SMT
    <3>3. z - x \in 0 .. b - a
      BY <1>5, <3>2, SMT
    <3> QED BY <1>5, <3>1, <3>2, <3>3, SMT
  <2> HIDE DEF k
  <2>2. Rest[k] - x = k - a /\ Rest[k] \in Int
    BY <1>1, <1>3, <2>1 DEF x
  <2>3. Rest[k] = z
    BY <1>5, <2>1, <2>2, SMT
  <2> QED BY <2>1, <2>3 DEF k
<1>7. \A k \in a .. b : k \in 1 .. L
  BY <1>1, <1>3, SMT
<1>8. \A z \in x .. y : z \in Range(Rest)
  BY <1>2, <1>6, <1>7
<1>9. \A z \in Range(Rest) : text[z] = Bar => z \in {x, y}
  BY <1>2, <1>4
<1>10. ASSUME NEW z \in x + 1 .. y - 1 PROVE text[z] \in Base91
  <2> HIDE DEF x, y
  <2>1. z \in x .. y /\ a + (z - x) \in a + 1 .. b - 1
    BY <1>5, SMT
  <2> QED BY <1>3, <1>6, <2>1
<1>11. x < y /\ y - x - 1 \in 4 .. 14 /\ (y - x - 1) % 2 = 0 /\ a < b
  <2> HIDE DEF x, y
  <2>1. y - x - 1 = b - a - 1
    BY <1>5, SMT
  <2>2. b - a - 1 \in 4 .. 14 => x < y /\ a < b
    BY <1>5, SMT
  <2> QED BY <1>3, <2>1, <2>2
<1>12. IsPayload(x, y)
  BY <1>3, <1>5, <1>8, <1>9, <1>10, <1>11 DEF IsPayload
<1> QED BY <1>3, <1>5, <1>11, <1>12 DEF L

\* Where the character at the cursor stands in the text.
Place == Len(text) - Len(remaining) + cursor + 1

\* A payload is still there, and the cursor is not inside of it.
Kept(x, y) ==
  /\ \A z \in x .. y : z \in Range(remaining)
  /\ Place <= x \/ y < Place

\* The characters at the cursor stand in the text as they follow one another.
LEMMA PlaceIs ==
  ASSUME Known
  PROVE  /\ Place \in Int
         /\ \A i \in Nat : cursor + i + 1 <= Len(remaining) =>
              remaining[cursor + i + 1] = Place + i /\ At(i) = text[Place + i]
<1> DEFINE L == Len(remaining)
           T == Len(text)
<1>1. /\ text \in Seq(Char) /\ remaining \in Seq(Int) /\ cursor \in Nat
      /\ \A k \in cursor + 1 .. L : remaining[k] = T - L + k
  BY DEF Known, SuffixInv
<1>2. L \in Nat /\ T \in Nat
  BY <1>1, LengthOf, LengthIs
<1> HIDE DEF L, T
<1>3. Place \in Int /\ Place = T - L + cursor + 1
  BY <1>1, <1>2, SMT DEF Place, L, T
<1>4. ASSUME NEW i \in Nat, cursor + i + 1 <= L
      PROVE  /\ cursor + i + 1 \in 1 .. L
             /\ remaining[cursor + i + 1] = Place + i
  <2> DEFINE k == cursor + i + 1
  <2>1. k \in cursor + 1 .. L /\ k \in 1 .. L /\ T - L + k = Place + i
    BY <1>1, <1>2, <1>3, <1>4, SMT
  <2> HIDE DEF k
  <2>2. remaining[k] = Place + i
    BY <1>1, <2>1
  <2> QED BY <2>1, <2>2 DEF k
<1>5. \A i \in Nat : cursor + i + 1 <= L => At(i) = text[Place + i]
  BY <1>4 DEF At, L
<1> QED BY <1>3, <1>4, <1>5 DEF L

\* The wind is taken before a payload.
LEMMA WindKeeps ==
  ASSUME ScanInv, TakeWind, NEW a, NEW b, Carries(a, b)
  PROVE  Kept(Rest[a], Rest[b])'
<1> DEFINE w == WindPair(Rest).width
           L == Len(Rest)
           x == Rest[a]
           y == Rest[b]
           M == Len(remaining')
<1>1. /\ text \in Seq(Char) /\ text' = text /\ phase' = "scan" /\ cursor' = 0 /\ w \in 0 .. L
      /\ IsPiece(Rest, w + 1, L, remaining')
  BY WindLeaves DEF ScanInv
<1>2. Rest' = Rest
  BY <1>1, RestStays
<1>3. /\ Rest \in Seq(Int) /\ Increasing(Rest) /\ L \in Nat
      /\ \A j \in 1 .. L, k \in 1 .. L : Rest[k] - Rest[j] = k - j
      /\ \A k \in 1 .. L : Rest[k] \in Int
  BY <1>1, RestAt, LengthOf, ElementOfSeq
<1>4. /\ a \in 1 .. L /\ b \in 1 .. L /\ a < b /\ y - x = b - a /\ a > w
  BY <1>1, PayloadIs DEF Carries
<1>5. /\ M = L - (w + 1) + 1 /\ remaining' \in Seq(Int)
      /\ \A z : z \in Range(remaining') <=> \E k \in w + 1 .. L : Rest[k] = z
  BY <1>1 DEF IsPiece
<1> HIDE DEF w, L, M
<1>6. M \in Nat /\ M = L - w /\ 1 \in 0 + 1 .. M /\ w + 1 \in 1 .. L /\ w \in Int /\ a \in Int /\ b \in Int
  BY <1>1, <1>3, <1>4, <1>5, SMT
<1>7. remaining'[1] = Len(text) - M + 1
  <2>1. SuffixInv(remaining, cursor)'
    BY <1>1, WindStep DEF ScanInv
  <2> QED BY <1>1, <1>6, <2>1 DEF SuffixInv, M
<1>8. remaining'[1] = Rest[w + 1]
  <2>1. M = L - (w + 1) + 1 /\ \A k \in 1 .. L - (w + 1) + 1 : remaining'[k] = Rest[w + 1 + k - 1]
    BY <1>1, PieceAt DEF M
  <2>2. 1 \in 1 .. L - (w + 1) + 1 /\ w + 1 + 1 - 1 = w + 1
    BY <1>3, <1>6, SMT
  <2> QED BY <2>1, <2>2
<1>9. Place' = Rest[w + 1]
  <2>1. Place' = Len(text) - M + 0 + 1
    BY <1>1 DEF Place, M
  <2>2. Len(text) \in Nat
    BY <1>1, LengthIs
  <2> QED BY <1>6, <1>7, <1>8, <2>1, <2>2, SMT
<1>10. x - Rest[w + 1] = a - (w + 1) /\ x \in Int /\ Rest[w + 1] \in Int /\ y \in Int
  BY <1>3, <1>4, <1>6
<1>11. Place' <= x
  <2> HIDE DEF x
  <2>1. 0 <= a - (w + 1)
    BY <1>4, <1>6, SMT
  <2> QED BY <1>9, <1>10, <2>1, SMT
<1>12. ASSUME NEW z \in x .. y PROVE z \in Range(remaining')
  <2> DEFINE k == a + (z - x)
  <2>1. z \in Range(Rest)
    BY <1>1, <1>12, PayloadIs DEF IsPayload
  <2>2. PICK j \in 1 .. L : Rest[j] = z
    BY <1>3, <2>1, RangeIs DEF L
  <2>3. z - x = j - a
    BY <1>3, <1>4, <2>2
  <2> HIDE DEF x, y
  <2>4. j \in w + 1 .. L
    BY <1>3, <1>4, <1>6, <1>10, <2>3, SMT
  <2> QED BY <1>5, <2>2, <2>4
<1>13. Kept(x, y)' <=> (\A z \in x' .. y' : z \in Range(remaining')) /\ (Place' <= x' \/ y' < Place')
  BY DEF Kept
<1>14. x' = x /\ y' = y
  BY <1>2
<1> QED BY <1>11, <1>12, <1>13, <1>14

\* An edit leaves a payload alone: the bar before it ends what can be taken.
LEMMA EditKeeps ==
  ASSUME Ordered, NEW n \in Nat, IsEdit(n), cursor' = cursor, text' = text,
         NEW x, NEW y, IsPayload(x, y), Kept(x, y)
  PROVE  /\ \A z \in x .. y : z \in Range(remaining')
         /\ Place' <= x \/ y < Place'
<1> DEFINE L == Len(remaining)
           T == Len(text)
           h == Place
<1>1. /\ Known /\ text \in Seq(Char) /\ remaining \in Seq(Int) /\ cursor \in Nat /\ Increasing(remaining)
  BY DEF Ordered, Known
<1>2. /\ n # 0 /\ cursor + n <= L /\ remaining' = Without(n)
      /\ \A k \in Nat : k < n => At(k) # Bar
  BY DEF IsEdit
<1>3. /\ h \in Int
      /\ \A i \in Nat : cursor + i + 1 <= L => remaining[cursor + i + 1] = h + i /\ At(i) = text[h + i]
  BY <1>1, PlaceIs
<1>4. L \in Nat /\ T \in Nat
  BY <1>1, LengthOf, LengthIs
<1>5. Len(remaining') = L - n
  BY <1>1, <1>2, WithoutIs
<1>6. \A z : z \in Range(remaining') <=>
        z \in Range(remaining) /\ \A k \in cursor + 1 .. cursor + n : z # remaining[k]
  BY <1>1, <1>2, EditOrdered
<1>7. /\ x \in Int /\ y \in Int /\ x < y /\ text[x] = Bar
      /\ \A z \in x .. y : z \in Range(remaining)
      /\ h <= x \/ y < h
  BY DEF IsPayload, Kept
<1>8. Place' = T - (L - n) + cursor + 1 /\ h = T - L + cursor + 1
  BY <1>5 DEF Place
<1> HIDE DEF L, T, h
<1>9. Place' = h + n
  BY <1>1, <1>4, <1>8, SMT
<1>10. h + n <= x \/ y < h
  <2>1. SUFFICES ASSUME h <= x, ~ h + n <= x PROVE FALSE
    BY <1>7
  <2> DEFINE i == x - h
  <2>2. i \in Nat /\ i < n /\ cursor + i + 1 <= L /\ h + i = x
    <3>1. x \in Int
      BY <1>7
    <3> QED BY <1>1, <1>2, <1>3, <1>4, <2>1, <3>1, SMT
  <2> HIDE DEF i
  <2>3. At(i) = text[x] /\ At(i) # Bar
    BY <1>2, <1>3, <2>2
  <2> QED BY <1>7, <2>3
<1>11. ASSUME NEW k \in cursor + 1 .. cursor + n, NEW z \in x .. y PROVE z # remaining[k]
  <2> DEFINE i == k - cursor - 1
  <2>1. i \in Nat /\ i < n /\ cursor + i + 1 <= L /\ cursor + i + 1 = k
    BY <1>1, <1>2, <1>4, SMT
  <2> HIDE DEF i
  <2>2. remaining[k] = h + i
    BY <1>3, <2>1
  <2>3. x \in Int /\ y \in Int
    BY <1>7
  <2>4. z # h + i
    BY <1>3, <1>10, <2>1, <2>3, SMT
  <2> QED BY <2>2, <2>4
<1>12. h + n <= x \/ y < h + n
  <2>1. x \in Int /\ y \in Int
    BY <1>7
  <2> QED BY <1>3, <1>10, <2>1, SMT
<1> QED BY <1>6, <1>7, <1>9, <1>11, <1>12

\* A payload that is skipped is skipped as a whole.
LEMMA SkipKeeps ==
  ASSUME ScanInv, OfText, SkipTelemetry, NEW x, NEW y, IsPayload(x, y), Kept(x, y)
  PROVE  y < Place'
<1> DEFINE L == Len(remaining)
           T == Len(text)
           h == Place
           c == cursor'
<1>1. /\ Known /\ text \in Seq(Char) /\ remaining \in Seq(Int) /\ cursor \in Nat /\ cursor < L
      /\ Range(remaining) \subseteq Range(Rest)
  BY Knowing DEF Known, SkipTelemetry, OfText, Free
<1>2. /\ remaining' = remaining /\ text' = text
      /\ c = CHOOSE b \in 1 .. L : <<cursor + 1, b>> \in Blocks(remaining)
  BY DEF SkipTelemetry, found
<1>3. \E b \in 1 .. L : <<cursor + 1, b>> \in Blocks(remaining)
  <2>1. PICK block \in Blocks(remaining) : block[1] = cursor + 1
    BY DEF SkipTelemetry, IsTelemetry
  <2>2. block \in (1 .. L) \X (1 .. L)
    BY DEF Blocks
  <2>3. block = <<cursor + 1, block[2]>> /\ block[2] \in 1 .. L
    BY <2>1, <2>2
  <2> QED BY <2>1, <2>3
<1>4. c \in 1 .. L /\ <<cursor + 1, c>> \in Blocks(remaining)
  BY <1>2, <1>3
<1>5. /\ text[remaining[cursor + 1]] = Bar /\ text[remaining[c]] = Bar /\ cursor + 1 \in 1 .. L
      /\ cursor + 1 < c
  BY <1>1, <1>4, BlocksAre DEF Blocks, Bar
<1>6. /\ h \in Int
      /\ \A i \in Nat : cursor + i + 1 <= L => remaining[cursor + i + 1] = h + i
  BY <1>1, PlaceIs
<1>7. L \in Nat /\ T \in Nat
  BY <1>1, LengthOf, LengthIs
<1>8. /\ x \in Int /\ y \in Int /\ x < y
      /\ \A z \in Range(Rest) : text[z] = Bar => z \in {x, y}
      /\ h <= x \/ y < h
  BY DEF IsPayload, Kept
<1>9. remaining[cursor + 1] \in {x, y} /\ remaining[c] \in {x, y}
  <2>1. remaining[cursor + 1] \in Range(remaining) /\ remaining[c] \in Range(remaining)
    BY <1>1, <1>4, <1>5, RangeIs
  <2> QED BY <1>1, <1>5, <1>8, <2>1
<1>10. h = T - L + cursor + 1 /\ Place' = T - L + c + 1
  BY <1>2 DEF Place
<1> HIDE DEF L, T, h, c
<1>11. remaining[cursor + 1] = h
  <2>1. 0 \in Nat /\ cursor + 0 + 1 = cursor + 1 /\ cursor + 0 + 1 <= L
    BY <1>1, <1>7, SMT
  <2>2. remaining[cursor + 0 + 1] = h + 0 /\ h + 0 = h
    BY <1>6, <2>1, SMT
  <2> QED BY <2>1, <2>2
<1> DEFINE i == c - cursor - 1
<1>12. i \in Nat /\ cursor + i + 1 = c /\ cursor + i + 1 <= L /\ i # 0
  BY <1>1, <1>4, <1>5, <1>7, SMT
<1>13. remaining[c] = h + i
  BY <1>6, <1>12
<1>14. Place' = h + i + 1
  BY <1>1, <1>4, <1>7, <1>10, SMT
<1> HIDE DEF i
<1>15. h = x \/ h = y
  BY <1>9, <1>11
<1>16. h + i = x \/ h + i = y
  BY <1>9, <1>13
<1>17. x \in Int /\ y \in Int /\ x < y /\ (h <= x \/ y < h)
  BY <1>8
<1> QED BY <1>6, <1>12, <1>14, <1>15, <1>16, <1>17, SMT

\* The cursor does not go into a payload.
LEMMA PassKeeps ==
  ASSUME ScanInv, WholeInv, PassOver, NEW x, NEW y, IsPayload(x, y), Kept(x, y)
  PROVE  Place' <= x \/ y < Place'
<1> DEFINE L == Len(remaining)
           T == Len(text)
           h == Place
<1>1. /\ Known /\ text \in Seq(Char) /\ remaining \in Seq(Int) /\ cursor \in Nat /\ cursor < L
      /\ Increasing(remaining)
  BY OrderedIs DEF Ordered, Known, PassOver
<1>2. /\ remaining' = remaining /\ text' = text /\ cursor' = cursor + 1 /\ ~ IsTelemetry
  BY DEF PassOver, found
<1>3. /\ h \in Int
      /\ \A i \in Nat : cursor + i + 1 <= L => remaining[cursor + i + 1] = h + i
  BY <1>1, PlaceIs
<1>4. L \in Nat /\ T \in Nat
  BY <1>1, LengthOf, LengthIs
<1>5. h = T - L + cursor + 1 /\ Place' = T - L + (cursor + 1) + 1
  BY <1>2 DEF Place
<1>6. /\ x \in Int /\ y \in Int /\ x < y
      /\ h <= x \/ y < h
  BY DEF IsPayload, Kept
<1>7. /\ text[x] = Bar /\ text[y] = Bar /\ y - x - 1 \in 4 .. 14 /\ (y - x - 1) % 2 = 0
      /\ \A z \in x + 1 .. y - 1 : text[z] \in Base91
      /\ \A z \in x .. y : z \in Range(remaining)
  BY DEF IsPayload, Kept
<1> HIDE DEF L, T, h
<1>8. h # x
  <2>1. SUFFICES ASSUME h = x PROVE FALSE
    OBVIOUS
  <2>2. y \in Range(remaining)
    BY <1>6, <1>7, SMT
  <2>3. PICK m \in 1 .. L : remaining[m] = y
    BY <1>1, <2>2, RangeIs DEF L
  <2>4. remaining[cursor + 1] = x /\ cursor + 1 \in 1 .. L
    <3>1. 0 \in Nat /\ cursor + 0 + 1 = cursor + 1 /\ cursor + 0 + 1 <= L /\ h + 0 = h
          /\ cursor + 1 \in 1 .. L
      BY <1>1, <1>3, <1>4, SMT
    <3>2. remaining[cursor + 0 + 1] = h + 0
      BY <1>3, <3>1
    <3> QED BY <2>1, <3>1, <3>2
  <2>5. cursor + 1 < m
    <3>1. m < cursor + 1 => remaining[m] < remaining[cursor + 1]
      BY <1>1, <2>3, <2>4 DEF Increasing, L
    <3>2. m = cursor + 1 => y = x
      BY <2>3, <2>4
    <3> QED BY <1>1, <1>4, <1>6, <2>3, <2>4, <3>1, <3>2, SMT
  <2>6. ASSUME NEW k \in cursor + 1 .. L PROVE remaining[k] = x + (k - (cursor + 1))
    <3> DEFINE i == k - cursor - 1
    <3>1. i \in Nat /\ cursor + i + 1 <= L /\ cursor + i + 1 = k /\ h + i = x + (k - (cursor + 1))
      BY <1>1, <1>3, <1>4, <2>1, SMT
    <3> HIDE DEF i
    <3> QED BY <1>3, <3>1
  <2>7. m - (cursor + 1) = y - x
    <3>1. m \in cursor + 1 .. L /\ m \in Int
      BY <1>1, <1>4, <2>5, SMT
    <3>2. y = x + (m - (cursor + 1))
      BY <2>3, <2>6, <3>1
    <3> QED BY <1>1, <1>6, <3>1, <3>2, SMT
  <2> DEFINE c == cursor + 1
  <2>8. c \in Int /\ c \in 1 .. L /\ m - c = y - x /\ c < m
    BY <1>1, <2>4, <2>5, <2>7, SMT
  <2>9. text[remaining[c]] = Bar /\ text[remaining[m]] = Bar
    BY <1>7, <2>3, <2>4
  <2>10. ASSUME NEW k \in c + 1 .. m - 1 PROVE text[remaining[k]] \in Base91
    <3>1. k \in cursor + 1 .. L /\ x + (k - (cursor + 1)) \in x + 1 .. y - 1
      BY <1>1, <1>4, <1>6, <2>7, SMT
    <3> QED BY <1>7, <2>6, <3>1
  <2> HIDE DEF c
  <2>11. m - c - 1 \in 4 .. 14 /\ (m - c - 1) % 2 = 0
    <3>1. m - c - 1 = y - x - 1
      BY <1>6, <2>8, SMT
    <3> QED BY <1>7, <3>1
  <2>12. <<c, m>> \in Blocks(remaining)
    <3>1. <<c, m>>[1] = c /\ <<c, m>>[2] = m /\ <<c, m>> \in (1 .. L) \X (1 .. L)
      BY <2>8
    <3> QED BY <2>9, <2>10, <2>11, <3>1 DEF Blocks, Bar, L
  <2>13. IsTelemetry
    <3>1. <<c, m>>[1] = cursor + 1
      BY DEF c
    <3> QED BY <2>12, <3>1 DEF IsTelemetry
  <2> QED BY <1>2, <2>13
<1>9. Place' = h + 1
  BY <1>1, <1>4, <1>5, SMT
<1> QED BY <1>3, <1>6, <1>8, <1>9, SMT

\* The characters of a payload are no separators, nor is the bar before it, and
\* there is no bar in the name of a software.
LEMMA PayloadShows ==
  ASSUME NEW x, NEW y, IsPayload(x, y)
  PROVE  /\ text[x] \notin Blank /\ \A z \in x .. y : text[z] # " "
         /\ text[x] \notin Alphabetic \cup Digit \cup {"-", "_"}
<1>1. Bar \notin Blank /\ Bar # " " /\ Bar \notin Alphabetic \cup Digit \cup {"-", "_"}
  BY TextAssumption DEF Bar, Blank, Alphabetic, Digit, Field, Width
<1>2. " " \notin Base91
  BY TextAssumption DEF Base91, Blank, Alphabetic, Digit, Field, Width
<1>3. /\ x \in Int /\ y \in Int /\ x < y /\ text[x] = Bar /\ text[y] = Bar
      /\ \A z \in x + 1 .. y - 1 : text[z] \in Base91
  BY DEF IsPayload
<1>4. ASSUME NEW z \in x .. y PROVE text[z] # " "
  <2>1. z = x \/ z = y \/ z \in x + 1 .. y - 1
    BY <1>3, SMT
  <2> QED BY <1>1, <1>2, <1>3, <2>1
<1> QED BY <1>1, <1>3, <1>4

\* The comment has the payload in it.
LEMMA FinishKeeps ==
  ASSUME ScanInv, WholeInv, OfText, Finish, NEW x, NEW y, IsPayload(x, y),
         \A z \in x .. y : z \in Range(remaining)
  PROVE  \A z \in x .. y : z \in Range(remaining')
<1> DEFINE S == Free(remaining, preserved)
<1>1. /\ remaining \in Seq(Int) /\ Increasing(remaining) /\ preserved \in Seq(Entry)
      /\ KeptWell(preserved, remaining) /\ capacity \in Nat
  BY LoopEnds DEF Finish
<1>2. /\ Comment \in Seq(Int)
      /\ \A v \in S, w \in S :
           text[v] \notin Blank /\ v <= w /\ text[w] # " " => w \in Range(Comment)
  BY <1>1, CommentIs
<1>3. Range(remaining) \subseteq S
  BY DEF Free
<1>4. /\ text[x] \notin Blank /\ \A z \in x .. y : text[z] # " "
      /\ text[x] \notin Alphabetic \cup Digit \cup {"-", "_"}
  BY PayloadShows
<1>5. x \in Int /\ y \in Int /\ x < y
  BY DEF IsPayload
<1>6. x \in x .. y /\ \A z \in x .. y : x <= z
  BY <1>5, SMT
<1> HIDE DEF S
<1>7. \A z \in x .. y : z \in Range(Comment)
  BY <1>2, <1>3, <1>4, <1>6
<1>8. ~ IsSoftware(Comment)
  <2>1. PICK k \in 1 .. Len(Comment) : Comment[k] = x
    BY <1>2, <1>6, <1>7, RangeIs
  <2> QED BY <1>4, <2>1 DEF IsSoftware, AllIn
<1>9. remaining' = Comment
  BY <1>8 DEF Finish, Comment
<1> QED BY <1>7, <1>9

\* Numbers that are all in an increasing sequence follow one another in it.
LEMMA Contiguous ==
  ASSUME NEW s \in Seq(Int), Increasing(s), NEW x \in Int, NEW y \in Int,
         \A z \in x .. y : z \in Range(s), NEW i \in 1 .. Len(s), s[i] = x
  PROVE  \A k \in Nat : x + k <= y => i + k \in 1 .. Len(s) /\ s[i + k] = x + k
<1> DEFINE L == Len(s)
           Good(k) == i + k \in 1 .. L /\ s[i + k] = x + k
           S == {k \in Nat : x + k <= y /\ ~ Good(k)}
<1>1. L \in Nat /\ \A k \in 1 .. L : s[k] \in Int
  BY LengthOf, ElementOfSeq
<1>2. SUFFICES ASSUME S # {} PROVE FALSE
  OBVIOUS
<1>3. PICK k \in S : \A m \in Nat : m < k => m \notin S
  <2>1. S \subseteq Nat
    OBVIOUS
  <2> HIDE DEF S
  <2> QED BY <1>2, <2>1, LeastIs
<1>4. k \in Nat /\ x + k <= y /\ ~ Good(k) /\ \A m \in Nat : m < k /\ x + m <= y => Good(m)
  BY <1>3
<1> HIDE DEF S, L
<1>5. k # 0
  <2>1. i + 0 = i /\ x + 0 = x /\ i \in 1 .. L
    BY <1>1, SMT DEF L
  <2>2. Good(0)
    BY <2>1
  <2> QED BY <1>4, <2>2
<1>6. k - 1 \in Nat /\ k - 1 < k /\ x + (k - 1) <= y
  BY <1>4, <1>5, SMT
<1>7. i + (k - 1) \in 1 .. L /\ s[i + (k - 1)] = x + (k - 1)
  BY <1>4, <1>6
<1>8. x + k \in x .. y
  BY <1>4, SMT
<1>9. PICK j \in 1 .. L : s[j] = x + k
  BY <1>8, RangeIs DEF L
<1> DEFINE p == i + (k - 1)
           q == i + k
<1>10. p \in 1 .. L /\ s[p] = x + (k - 1) /\ p \in Int /\ q = p + 1 /\ i \in Int
  BY <1>1, <1>4, <1>7, SMT
<1> HIDE DEF p, q
<1>11. p < j
  <2>1. j < p => s[j] < s[p]
    BY <1>9, <1>10 DEF Increasing, L
  <2>2. j = p => s[j] = s[p]
    OBVIOUS
  <2>3. ~ s[j] < s[p] /\ s[j] # s[p]
    BY <1>4, <1>9, <1>10, SMT
  <2> QED BY <1>1, <1>9, <1>10, <2>1, <2>2, <2>3, SMT
<1>12. q \in 1 .. L /\ p < q /\ (q < j \/ q = j)
  BY <1>1, <1>9, <1>10, <1>11, SMT
<1>13. s[p] < s[q] /\ (q < j => s[q] < s[j]) /\ s[q] \in Int
  BY <1>1, <1>9, <1>10, <1>12 DEF Increasing, L
<1>14. s[q] = x + k
  <2>1. q = j => s[q] = s[j]
    OBVIOUS
  <2> QED BY <1>4, <1>9, <1>10, <1>12, <1>13, <2>1, SMT
<1>15. Good(k)
  BY <1>12, <1>14 DEF q
<1> QED BY <1>4, <1>15

\* A payload that is whole is inline telemetry, and the only one.
LEMMA OneBlock ==
  ASSUME NEW s \in Seq(Int), Increasing(s), Range(s) \subseteq Range(Rest),
         NEW x, NEW y, IsPayload(x, y), \A z \in x .. y : z \in Range(s)
  PROVE  \E i \in 1 .. Len(s), j \in 1 .. Len(s) :
           /\ j - i = y - x /\ Blocks(s) = {<<i, j>>}
           /\ \A k \in 0 .. j - i : s[i + k] = x + k
<1> DEFINE L == Len(s)
<1>1. L \in Nat /\ \A k \in 1 .. L : s[k] \in Int
  BY LengthOf, ElementOfSeq
<1>2. /\ x \in Int /\ y \in Int /\ x < y /\ y - x - 1 \in 4 .. 14 /\ (y - x - 1) % 2 = 0
      /\ text[x] = Bar /\ text[y] = Bar /\ \A z \in Range(Rest) : text[z] = Bar => z \in {x, y}
      /\ \A z \in x + 1 .. y - 1 : text[z] \in Base91
  BY DEF IsPayload
<1>3. PICK i \in 1 .. L : s[i] = x
  <2>1. x \in x .. y
    BY <1>2, SMT
  <2> QED BY <2>1, RangeIs
<1>4. \A k \in Nat : x + k <= y => i + k \in 1 .. L /\ s[i + k] = x + k
  BY <1>2, <1>3, Contiguous, ZenonT(60)
<1> DEFINE j == i + (y - x)
<1>5. j \in 1 .. L /\ s[j] = y /\ j - i = y - x
  <2>1. y - x \in Nat /\ x + (y - x) = y /\ y <= y
    BY <1>2, SMT
  <2>2. i \in Int
    BY <1>3, SMT
  <2> HIDE DEF L
  <2>3. j - i = y - x
    BY <1>2, <2>2, SMT
  <2>4. j \in 1 .. L /\ s[j] = x + (y - x)
    BY <1>4, <2>1
  <2> QED BY <2>1, <2>3, <2>4
<1> HIDE DEF j, L
<1>6. \A k \in 0 .. j - i : s[i + k] = x + k
  <2>1. \A k \in 0 .. j - i : k \in Nat /\ x + k <= y
    BY <1>1, <1>2, <1>5, SMT
  <2> QED BY <1>4, <2>1
<1>7. <<i, j>> \in Blocks(s)
  <2>1. <<i, j>>[1] = i /\ <<i, j>>[2] = j /\ <<i, j>> \in (1 .. L) \X (1 .. L)
    BY <1>3, <1>5
  <2>2. j - i - 1 \in 4 .. 14 /\ (j - i - 1) % 2 = 0
    <3>1. j - i - 1 = y - x - 1
      BY <1>1, <1>2, <1>3, <1>5, SMT
    <3> QED BY <1>2, <3>1
  <2>3. ASSUME NEW k \in i + 1 .. j - 1 PROVE text[s[k]] \in Base91
    <3> DEFINE m == k - i
    <3>1. m \in 0 .. j - i /\ i + m = k /\ x + m \in x + 1 .. y - 1
      BY <1>1, <1>2, <1>3, <1>5, SMT
    <3> HIDE DEF m
    <3>2. s[k] = x + m
      BY <1>6, <3>1
    <3> QED BY <1>2, <3>1, <3>2
  <2>4. text[s[i]] = Bar /\ text[s[j]] = Bar
    BY <1>2, <1>3, <1>5
  <2> QED BY <2>1, <2>2, <2>3, <2>4 DEF Blocks, Bar, L
<1>8. ASSUME NEW block \in Blocks(s) PROVE block = <<i, j>>
  <2> DEFINE c == block[1]
             d == block[2]
  <2>1. block = <<c, d>> /\ text[s[c]] = Bar /\ text[s[d]] = Bar
    BY DEF Blocks, Bar
  <2>2. c \in 1 .. L /\ d \in 1 .. L /\ c < d
    BY <2>1, BlocksAre DEF L
  <2> HIDE DEF c, d
  <2>3. s[c] \in {x, y} /\ s[d] \in {x, y}
    <3>1. s[c] \in Range(s) /\ s[d] \in Range(s)
      BY <2>2, RangeIs DEF L
    <3> QED BY <1>2, <2>1, <3>1
  <2>4. s[c] < s[d]
    BY <2>2 DEF Increasing, L
  <2>5. s[c] = x /\ s[d] = y
    BY <1>2, <2>3, <2>4, SMT
  <2>6. c = i /\ d = j
    BY <1>3, <1>5, <2>2, <2>5, OnePlace DEF L
  <2> QED BY <2>1, <2>6
<1>9. Blocks(s) = {<<i, j>>}
  BY <1>7, <1>8
<1> QED BY <1>3, <1>5, <1>6, <1>9 DEF L

\* It is then taken as it was in the text.
LEMMA TelemetryKeeps ==
  ASSUME ScanInv, WholeInv, OfText, TakeTelemetry, NEW a, NEW b, Carries(a, b),
         \A z \in Rest[a] .. Rest[b] : z \in Range(remaining)
  PROVE  telemetry' = SubSeq(Rest, a + 1, b - 1)
<1> DEFINE x == Rest[a]
           y == Rest[b]
           L == Len(Rest)
<1>1. /\ text \in Seq(Char) /\ remaining \in Seq(Int) /\ Increasing(remaining)
      /\ Range(remaining) \subseteq Range(Rest)
  BY DEF ScanInv, WholeInv, OfText, TakeTelemetry
<1>2. /\ a \in 1 .. L /\ b \in 1 .. L /\ a < b /\ y - x = b - a /\ IsPayload(x, y)
  BY <1>1, PayloadIs
<1>3. /\ Rest \in Seq(Int) /\ L \in Nat
      /\ \A j \in 1 .. L, k \in 1 .. L : Rest[k] - Rest[j] = k - j
      /\ \A k \in 1 .. L : Rest[k] \in Int
  BY <1>1, RestAt, LengthOf, ElementOfSeq
<1>4. PICK i \in 1 .. Len(remaining), j \in 1 .. Len(remaining) :
        /\ j - i = y - x /\ Blocks(remaining) = {<<i, j>>}
        /\ \A k \in 0 .. j - i : remaining[i + k] = x + k
  <2>1. \A z \in x .. y : z \in Range(remaining)
    OBVIOUS
  <2> HIDE DEF x, y
  <2> QED BY <1>1, <1>2, <2>1, OneBlock, ZenonT(60)
<1>5. LastBlock(remaining) = <<i, j>>
  <2>1. Blocks(remaining) # {}
    BY <1>4
  <2>2. LastBlock(remaining) \in Blocks(remaining)
    BY <1>1, <2>1, LastBlockIs
  <2> QED BY <1>4, <2>2
<1> DEFINE t == SubSeq(remaining, i + 1, j - 1)
           u == SubSeq(Rest, a + 1, b - 1)
<1>6. telemetry' = t
  <2>1. telemetry' = SubSeq(remaining, LastBlock(remaining)[1] + 1, LastBlock(remaining)[2] - 1)
    BY <1>4 DEF TakeTelemetry, LastBlock
  <2> QED BY <1>5, <2>1
<1> HIDE DEF x, y, L
<1>7. /\ Len(remaining) \in Nat /\ i \in Nat /\ j \in Nat /\ a \in Nat /\ b \in Nat
      /\ i < j /\ j - i = b - a
  <2>1. Len(remaining) \in Nat
    BY <1>1, LengthOf
  <2>2. i \in Nat /\ j \in Nat /\ a \in Nat /\ b \in Nat
    BY <1>2, <1>3, <1>4, <2>1, SMT
  <2> QED BY <1>2, <1>4, <2>1, <2>2, SMT
<1>8. IsPiece(remaining, i + 1, j - 1, t)
  <2>1. i + 1 \in Nat /\ j - 1 \in Nat /\ i + 1 # 0 /\ j - 1 <= Len(remaining) /\ i + 1 <= j - 1 + 1
    BY <1>4, <1>7, SMT
  <2> QED BY <1>1, <2>1, PieceIs
<1>9. IsPiece(Rest, a + 1, b - 1, u)
  <2>1. a + 1 \in Nat /\ b - 1 \in Nat /\ a + 1 # 0 /\ b - 1 <= L /\ a + 1 <= b - 1 + 1
    BY <1>2, <1>3, <1>7, SMT
  <2> QED BY <1>3, <2>1, PieceIs DEF L
<1> DEFINE n == b - a - 1
<1>10. n = (b - 1) - (a + 1) + 1 /\ n = (j - 1) - (i + 1) + 1 /\ n \in Nat
  BY <1>2, <1>7, SMT
<1> HIDE DEF n, t, u
<1>11. /\ t \in Seq(Int) /\ Len(t) = n /\ u \in Seq(Int) /\ Len(u) = n
  BY <1>8, <1>9, <1>10 DEF IsPiece
<1>12. ASSUME NEW k \in 1 .. n PROVE t[k] = u[k]
  <2>1. t[k] = remaining[i + 1 + k - 1]
    <3>1. \A m \in 1 .. (j - 1) - (i + 1) + 1 : t[m] = remaining[i + 1 + m - 1]
      BY <1>8, Zenon DEF IsPiece
    <3> QED BY <1>10, <3>1, Zenon
  <2>2. u[k] = Rest[a + 1 + k - 1]
    <3>1. \A m \in 1 .. (b - 1) - (a + 1) + 1 : u[m] = Rest[a + 1 + m - 1]
      BY <1>9, Zenon DEF IsPiece
    <3> QED BY <1>10, <3>1, Zenon
  <2>3. i + 1 + k - 1 = i + k /\ a + 1 + k - 1 = a + k /\ k \in 0 .. j - i /\ a + k \in 1 .. L
        /\ a + k - a = k /\ k \in Int
    BY <1>2, <1>3, <1>7, <1>10, SMT
  <2>4. remaining[i + k] = x + k
    BY <1>4, <2>3
  <2>5. Rest[a + k] - x = k /\ Rest[a + k] \in Int /\ x \in Int
    <3>1. Rest[a + k] - x = a + k - a /\ Rest[a + k] \in Int /\ x \in Int
      BY <1>2, <1>3, <2>3, SMTT(60) DEF x
    <3> QED BY <2>3, <3>1
  <2>6. Rest[a + k] = x + k
    BY <2>3, <2>5, SMT
  <2> QED BY <2>1, <2>2, <2>3, <2>4, <2>6
<1>13. t = u
  BY <1>11, <1>12, SeqEqual
<1> QED BY <1>6, <1>13 DEF u

\* A payload is whole until it is taken: no part of it has been removed, and the
\* cursor is not inside of it.
TelemetryInv ==
  \A a, b : Carries(a, b) =>
    /\ phase = "scan" => Kept(Rest[a], Rest[b])
    /\ phase = "telemetry" => \A z \in Rest[a] .. Rest[b] : z \in Range(remaining)
    /\ phase = "done" => telemetry = SubSeq(Rest, a + 1, b - 1)

\* Every step keeps that.
LEMMA TelemetryStep ==
  ASSUME ScanInv, WholeInv, OfText, TelemetryInv, Next
  PROVE  TelemetryInv'
<1>1. text' = text
  BY DEF Next, Scan, TakeWind, SkipTelemetry, DropVoltage, DropCounter, DropEmptyCounter,
         DropMixedTemperature, TakeReading, TakePlaceholder, PassOver, Finish, TakeTelemetry,
         Done, found, vars
<1>2. Rest' = Rest
  BY <1>1, RestStays
<1> SUFFICES ASSUME NEW a, NEW b, Carries(a, b)'
             PROVE  /\ (phase = "scan")' => Kept(Rest[a], Rest[b])'
                    /\ (phase = "telemetry")' =>
                          (\A z \in Rest[a] .. Rest[b] : z \in Range(remaining))'
                    /\ (phase = "done")' => (telemetry = SubSeq(Rest, a + 1, b - 1))'
  BY DEF TelemetryInv
<1> DEFINE x == Rest[a]
           y == Rest[b]
<1>3. Carries(a, b)
  BY <1>1, CarriesStays
<1>4. /\ phase = "scan" => Kept(x, y)
      /\ phase = "telemetry" => \A z \in x .. y : z \in Range(remaining)
      /\ phase = "done" => telemetry = SubSeq(Rest, a + 1, b - 1)
  BY <1>3 DEF TelemetryInv
<1>5. IsPayload(x, y)
  BY <1>3, PayloadIs DEF ScanInv
<1>6. Kept(x, y)' <=> (\A z \in x .. y : z \in Range(remaining')) /\ (Place' <= x \/ y < Place')
  BY <1>2 DEF Kept
<1>7. CASE TakeWind
  <2>1. phase' = "scan"
    BY <1>7 DEF TakeWind
  <2> QED BY <1>3, <1>7, <2>1, WindKeeps
<1>8. CASE SkipTelemetry \/ PassOver
  <2>1. phase = "scan" /\ phase' = "scan" /\ remaining' = remaining
    BY <1>8 DEF SkipTelemetry, PassOver, Scanning, found
  <2>2. Kept(x, y)
    BY <1>4, <2>1
  <2>3. \A z \in x .. y : z \in Range(remaining')
    BY <2>1, <2>2 DEF Kept
  <2> HIDE DEF x, y
  <2>4. Place' <= x \/ y < Place'
    BY <1>5, <1>8, <2>2, SkipKeeps, PassKeeps
  <2> QED BY <1>6, <2>1, <2>3, <2>4 DEF x, y
<1>9. CASE Edit
  <2>1. Ordered /\ text' = text /\ cursor' = cursor /\ phase' = phase
    BY <1>9, EditsAre
  <2>2. PICK n \in Nat : IsEdit(n)
    BY <1>9, EditsAre
  <2>3. phase = "scan" /\ phase' = "scan" /\ Kept(x, y)
    BY <1>4, <2>1 DEF Ordered
  <2> HIDE DEF x, y
  <2>4. /\ \A z \in x .. y : z \in Range(remaining')
        /\ Place' <= x \/ y < Place'
    BY <1>5, <2>1, <2>2, <2>3, EditKeeps
  <2> QED BY <1>6, <2>3, <2>4 DEF x, y
<1>10. CASE Finish
  <2>1. phase = "scan" /\ phase' = "telemetry"
    BY <1>10 DEF Finish
  <2>2. \A z \in x .. y : z \in Range(remaining)
    BY <1>4, <2>1 DEF Kept
  <2>3. \A z \in x .. y : z \in Range(remaining')
    BY <1>5, <1>10, <2>2, FinishKeeps
  <2> QED BY <1>2, <2>1, <2>3
<1>11. CASE TakeTelemetry
  <2>1. phase = "telemetry" /\ phase' = "done"
    BY <1>11 DEF TakeTelemetry
  <2>2. telemetry' = SubSeq(Rest, a + 1, b - 1)
    BY <1>3, <1>4, <1>11, <2>1, TelemetryKeeps
  <2> QED BY <1>2, <2>1, <2>2
<1>12. CASE Done
  <2>1. phase = "done" /\ phase' = phase /\ telemetry' = telemetry
    BY <1>12 DEF Done, vars
  <2> QED BY <1>2, <1>4, <2>1
<1> QED BY <1>7, <1>8, <1>9, <1>10, <1>11, <1>12 DEF Next, Scan, Edit

\* A payload that is taken whole is what the reports say.
LEMMA TelemetrySays ==
  ASSUME TelemetryInv
  PROVE  TelemetryIsKept
<1> SUFFICES ASSUME phase = "done", NEW block \in Blocks(Rest), block[1] > WindPair(Rest).width,
                    {k \in 1 .. Len(Rest) : text[Rest[k]] = "|"} = {block[1], block[2]}
             PROVE  telemetry = SubSeq(Rest, block[1] + 1, block[2] - 1)
  BY DEF TelemetryIsKept
<1>1. block = <<block[1], block[2]>>
  BY DEF Blocks
<1>2. Carries(block[1], block[2])
  BY <1>1 DEF Carries, Bar
<1> QED BY <1>2 DEF TelemetryInv

-----------------------------------------------------------------------------
(* The theorems.                                                           *)

\* The invariant holds throughout.
THEOREM ScanInvariance ==
  Spec => []ScanInv
<1>1. ScanInv /\ [Next]_vars => ScanInv'
  <2>1. ScanInv /\ UNCHANGED vars => ScanInv'
    BY DEF vars, scanner, ScanInv, SuffixInv, KeptInv
  <2> QED BY <2>1, ScanStep
<1> QED BY <1>1, ScanStart, PTL DEF Spec

\* Whatever the text, and in whatever order its tokens come, no edit puts a position
\* that is used later out of bounds or out of date.
THEOREM PositionsAlwaysValid ==
  Spec => []PositionsStayValid
<1>1. ScanInv => PositionsStayValid
  BY DEF ScanInv, PositionsStayValid, SuffixInv, KeptInv
<1> QED BY <1>1, ScanInvariance, PTL

\* Whatever the text, each time around the loop leaves less of it to look at: the
\* scan comes to an end.
THEOREM ScanAlwaysAdvances ==
  Spec => ScanAdvances
<1>1. ScanInv /\ [Next]_vars => [Advance]_vars
  BY ScanStep
<1>2. [Advance]_vars <=> [phase = "scan" /\ phase' = "scan" =>
         Len(remaining') - cursor' < Len(remaining) - cursor]_vars
  BY DEF Advance
<1> QED BY <1>1, <1>2, ScanInvariance, PTL DEF Spec, ScanAdvances

\* The readings, and what is free for them, stay as the invariant says.
THEOREM WholeInvariance ==
  Spec => []WholeInv
<1>1. ScanInv /\ WholeInv /\ [Next]_vars => WholeInv'
  <2>1. ASSUME WholeInv, UNCHANGED vars PROVE WholeInv'
    <3>1. /\ phase' = phase /\ remaining' = remaining /\ preserved' = preserved
          /\ weather' = weather /\ capacity' = capacity
      BY <2>1 DEF vars, scanner
    <3>2. KeptWell(preserved, remaining)' <=> KeptWell(preserved, remaining)
      BY <3>1 DEF KeptWell
    <3>3. /\ Readings(weather, Free(remaining, preserved))' <=> Readings(weather, Free(remaining, preserved))
          /\ Readings(weather, Range(remaining))' <=> Readings(weather, Range(remaining))
          /\ Increasing(remaining)' <=> Increasing(remaining)
      BY <3>1 DEF Readings, Free, Increasing
    <3> QED BY <2>1, <3>1, <3>2, <3>3 DEF WholeInv
  <2> QED BY <2>1, WholeStep
<1> QED BY <1>1, ScanInvariance, WholeStart, PTL DEF Spec

\* Whatever the text and the order of its tokens, readings are runs of the text, no
\* character is used twice, and the comment is in the order of the text.
THEOREM ReadingsAlwaysWhole ==
  Spec => []ReadingsAreWhole
<1>1. ScanInv /\ WholeInv => ReadingsAreWhole
  BY WholeSays
<1> QED BY <1>1, ScanInvariance, WholeInvariance, PTL

\* What is left of a text comes from it.
THEOREM OfTextInvariance ==
  Spec => []OfText
<1>1. ScanInv /\ WholeInv /\ OfText /\ [Next]_vars => OfText'
  <2>1. ASSUME OfText, UNCHANGED vars PROVE OfText'
    <3>1. text' = text /\ phase' = phase /\ remaining' = remaining /\ preserved' = preserved
      BY <2>1 DEF vars, scanner
    <3>2. Rest' = Rest
      BY <3>1, RestStays
    <3>3. Free(remaining, preserved)' = Free(remaining, preserved)
      BY <3>1 DEF Free
    <3> QED BY <2>1, <3>1, <3>2, <3>3 DEF OfText
  <2> QED BY <2>1, OfTextStep
<1> QED BY <1>1, ScanInvariance, WholeInvariance, ProseStart, PTL DEF Spec

\* Prose, of any length and whatever letters of fields are in it, is left as it is.
THEOREM ProseAlwaysKept ==
  Spec => []ProseIsKept
<1>1. ScanInv /\ WholeInv /\ OfText /\ ProseInv /\ [Next]_vars => ProseInv'
  <2>1. ASSUME ProseInv, UNCHANGED vars PROVE ProseInv'
    <3>1. /\ text' = text /\ phase' = phase /\ remaining' = remaining /\ preserved' = preserved
          /\ capacity' = capacity /\ cursor' = cursor /\ weather' = weather
      BY <2>1 DEF vars, scanner
    <3>2. Rest' = Rest /\ (IsProse' <=> IsProse) /\ Squeezed(Trim(Rest))' = Squeezed(Trim(Rest))
      BY <3>1, RestStays, ProseStays, SqueezedStays
    <3>3. Free(remaining, preserved)' = Free(remaining, preserved)
      BY <3>1 DEF Free
    <3> QED BY <2>1, <3>1, <3>2, <3>3 DEF ProseInv
  <2> QED BY <2>1, ProseStep
<1>2. ProseInv => ProseIsKept
  BY DEF ProseInv, ProseIsKept
<1> QED BY <1>1, <1>2, ScanInvariance, WholeInvariance, OfTextInvariance, ProseStart, PTL DEF Spec

\* A payload between the only two bars of a text of any length, behind any wind, is
\* decoded as it was sent.
THEOREM TelemetryAlwaysKept ==
  Spec => []TelemetryIsKept
<1>1. Init => TelemetryInv
  BY DEF Init, TelemetryInv
<1>2. ScanInv /\ WholeInv /\ OfText /\ TelemetryInv /\ [Next]_vars => TelemetryInv'
  <2>1. ASSUME TelemetryInv, UNCHANGED vars PROVE TelemetryInv'
    <3>1. /\ text' = text /\ phase' = phase /\ remaining' = remaining /\ cursor' = cursor
          /\ telemetry' = telemetry
      BY <2>1 DEF vars, scanner
    <3>2. Rest' = Rest /\ Place' = Place
      BY <3>1, RestStays DEF Place
    <3>3. ASSUME NEW a, NEW b PROVE Carries(a, b)' <=> Carries(a, b)
      BY <3>1, CarriesStays
    <3>4. ASSUME NEW a, NEW b PROVE Kept(Rest[a], Rest[b])' <=> Kept(Rest[a], Rest[b])
      BY <3>1, <3>2 DEF Kept
    <3> QED BY <2>1, <3>1, <3>2, <3>3, <3>4 DEF TelemetryInv
  <2> QED BY <2>1, TelemetryStep
<1> QED BY <1>1, <1>2, TelemetrySays, ScanInvariance, WholeInvariance, OfTextInvariance, PTL DEF Spec
=============================================================================
