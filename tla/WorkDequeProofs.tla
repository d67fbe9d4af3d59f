-------------------------- MODULE WorkDequeProofs --------------------------
(***************************************************************************)
(* The deque implements DoubleEndedQueue for any number of thieves, any    *)
(* size and any width of the indices, which may wrap, as long as they do   *)
(* not come round fully within the pushes considered.                      *)
(***************************************************************************)
EXTENDS WorkDeque, TLAPS

\* How many elements there are, and the index k above top.
N == Diff(LogicalBottom, top)
At(t, k) == (t + k) % IndexMod

\* Where the owner's locals stand while it is in an operation.
OwnerOK ==
  /\ opc # "idle" => ob = bottom
  /\ opc = "restore" => top = Inc(ob)
  /\ opc = "cas" => ot = ob /\ top \in {ot, Inc(ot)}
  /\ opc \in {"won", "lost"} => ot = ob /\ top = Inc(ot)
  /\ opc = "publish" => buf[Slot(ob)] = pushed + 1
  /\ opc \in {"store", "publish"} => pushed < MaxPush

\* There is a slot for every element and for the one being pushed.
SizeOK ==
  /\ N <= Size /\ N <= pushed
  /\ opc \in {"store", "publish"} => N < Size

\* Top has not come round since a thief loaded it; if it has not moved either,
\* the thief has found an element and read it.
ThiefOK ==
  \A h \in Thieves :
    /\ tpc[h] # "idle" => Diff(top, tt[h]) + N <= pushed
    /\ tpc[h] \in {"read", "cas"} /\ tt[h] = top => N >= 1
    /\ tpc[h] = "cas" /\ tt[h] = top => ta[h] = buf[Slot(top)]

\* What is in the deque or was handed out had been pushed.
ItemsOK ==
  /\ \A k \in 0..(N - 1) : buf[Slot(At(top, k))] \in 1..pushed
  /\ \A i \in 1..Len(pops) : pops[i] \in 1..pushed
  /\ \A i \in 1..Len(steals) : steals[i] \in 1..pushed

IInv == TypeOK /\ OwnerOK /\ SizeOK /\ ThiefOK /\ ItemsOK
-----------------------------------------------------------------------------
(* Arithmetic of indices *)

\* A remainder is determined by any representation it has.
LEMMA Remainder ==
  ASSUME NEW M \in Nat \ {0}, NEW q \in Int, NEW r \in 0..(M - 1)
  PROVE  ((M * q) + r) % M = r
OBVIOUS

\* Quotient and remainder.
LEMMA Quotient ==
  ASSUME NEW M \in Nat \ {0}, NEW a \in Int
  PROVE  \E q \in Int, r \in 0..(M - 1) : a = (M * q) + r /\ r = a % M
<1>1. a \div M \in Int /\ a % M \in 0..(M - 1) /\ a = (M * (a \div M)) + (a % M)
  OBVIOUS
<1> QED
  BY <1>1, Zenon

\* The size and the modulus.
LEMMA Moduli ==
  /\ Size \in Nat \ {0} /\ IndexMod \in Nat \ {0} /\ IndexMod > 2 /\ 2 * Size <= IndexMod
  /\ IndexMod \div 2 \in Nat /\ 2 * (IndexMod \div 2) = IndexMod
  /\ \E c \in Int : IndexMod = Size * c
<1>1. Size \in Nat \ {0} /\ IndexMod \in Nat \ {0} /\ IndexMod > 2 /\ IndexMod % (2 * Size) = 0
  BY DequeAssumption
<1>2. PICK S \in Nat \ {0} : S = 2 * Size
  <2>1. 2 * Size \in Nat \ {0}
    BY <1>1
  <2> QED
    BY <2>1, Zenon
<1>3. PICK d \in Int, r \in 0..(S - 1) : IndexMod = (S * d) + r /\ r = IndexMod % S
  <2>1. IndexMod \in Int
    BY <1>1
  <2> QED
    BY <2>1, Quotient, Zenon
<1>4. IndexMod = S * d
  <2>1. r = 0
    BY <1>1, <1>2, <1>3, Zenon
  <2> QED
    BY <1>3, <2>1
<1>5. d >= 1 /\ d \in Nat
  <2>1. CASE d <= 0
    BY <1>1, <1>2, <1>4, <2>1
  <2> QED
    BY <2>1
<1>6. 2 * Size <= IndexMod
  BY <1>1, <1>2, <1>4, <1>5
<1>7. IndexMod = Size * (2 * d)
  BY <1>1, <1>2, <1>4
<1>8. IndexMod = 2 * (Size * d) /\ Size * d \in Nat
  BY <1>1, <1>5, <1>7
<1>9. IndexMod \div 2 \in Nat /\ 2 * (IndexMod \div 2) = IndexMod
  BY <1>1, <1>8
<1> QED
  BY <1>1, <1>5, <1>6, <1>7, <1>9

\* Adding, incrementing, decrementing and subtracting indices.
LEMMA Adding ==
  ASSUME NEW i \in Index, NEW k \in 0..(IndexMod - 1)
  PROVE  At(i, k) = IF i + k < IndexMod THEN i + k ELSE i + k - IndexMod
BY Moduli DEF At, Index

\* The next index and the one before, round the end of the counter.
LEMMA Stepping ==
  ASSUME NEW i \in Index
  PROVE  /\ Inc(i) = IF i = IndexMod - 1 THEN 0 ELSE i + 1
         /\ Dec(i) = IF i = 0 THEN IndexMod - 1 ELSE i - 1
         /\ Inc(i) \in Index /\ Dec(i) \in Index
<1>1. Inc(i) = IF i = IndexMod - 1 THEN 0 ELSE i + 1
  BY Moduli DEF Inc, Index
<1>2. Dec(i) = IF i = 0 THEN IndexMod - 1 ELSE i - 1
  BY Moduli DEF Dec, Index
<1> QED
  BY <1>1, <1>2, Moduli DEF Index

\* The distance of two indices.
LEMMA Subtracting ==
  ASSUME NEW i \in Index, NEW j \in Index
  PROVE  /\ Diff(i, j) = IF i >= j THEN i - j ELSE i + IndexMod - j
         /\ Diff(i, j) \in 0..(IndexMod - 1)
<1>1. Diff(i, j) = IF i >= j THEN i - j ELSE i + IndexMod - j
  BY Moduli DEF Diff, Index
<1> QED
  BY <1>1, Moduli DEF Index

\* Moving the upper or the lower end.
LEMMA Moving ==
  ASSUME NEW i \in Index, NEW j \in Index
  PROVE  /\ Diff(i, j) + 1 < IndexMod => Diff(Inc(i), j) = Diff(i, j) + 1
         /\ Diff(i, j) # 0 => Diff(i, Inc(j)) = Diff(i, j) - 1
         /\ Diff(i, j) # 0 => Diff(Dec(i), j) = Diff(i, j) - 1
         /\ Dec(Inc(i)) = i /\ Inc(Dec(i)) = i
         /\ Diff(i, i) = 0 /\ Diff(Inc(i), i) = 1 /\ 2 * Diff(i, Inc(i)) >= IndexMod
<1>1. PICK a \in Index : a = Inc(i) /\ a = IF i = IndexMod - 1 THEN 0 ELSE i + 1
  BY Stepping, Zenon
<1>2. PICK b \in Index : b = Inc(j) /\ b = IF j = IndexMod - 1 THEN 0 ELSE j + 1
  BY Stepping, Zenon
<1>3. PICK c \in Index : c = Dec(i) /\ c = IF i = 0 THEN IndexMod - 1 ELSE i - 1
  BY Stepping, Zenon
<1>4. Diff(i, j) = IF i >= j THEN i - j ELSE i + IndexMod - j
  BY Subtracting, Zenon
<1>5. Diff(a, j) = IF a >= j THEN a - j ELSE a + IndexMod - j
  BY Subtracting, Zenon
<1>6. Diff(i, b) = IF i >= b THEN i - b ELSE i + IndexMod - b
  BY Subtracting, Zenon
<1>7. Diff(c, j) = IF c >= j THEN c - j ELSE c + IndexMod - j
  BY Subtracting, Zenon
<1>8. Diff(i, j) + 1 < IndexMod => Diff(a, j) = Diff(i, j) + 1
  BY <1>1, <1>4, <1>5, DequeAssumption DEF Index
<1>9. Diff(i, j) # 0 => Diff(i, b) = Diff(i, j) - 1
  BY <1>2, <1>4, <1>6, DequeAssumption DEF Index
<1>10. Diff(i, j) # 0 => Diff(c, j) = Diff(i, j) - 1
  BY <1>3, <1>4, <1>7, DequeAssumption DEF Index
<1>11. Dec(a) = i
  <2>1. Dec(a) = IF a = 0 THEN IndexMod - 1 ELSE a - 1
    BY Stepping, Zenon
  <2> QED
    BY <1>1, <2>1, DequeAssumption DEF Index
<1>12. Inc(c) = i
  <2>1. Inc(c) = IF c = IndexMod - 1 THEN 0 ELSE c + 1
    BY Stepping, Zenon
  <2> QED
    BY <1>3, <2>1, DequeAssumption DEF Index
<1>13. Diff(i, i) = 0
  <2>1. Diff(i, i) = IF i >= i THEN i - i ELSE i + IndexMod - i
    BY Subtracting, Zenon
  <2> QED
    BY <2>1 DEF Index
<1>14. Diff(a, i) = 1
  <2>1. Diff(a, i) = IF a >= i THEN a - i ELSE a + IndexMod - i
    BY Subtracting, Zenon
  <2> QED
    BY <1>1, <2>1, DequeAssumption DEF Index
<1>15. 2 * Diff(i, a) >= IndexMod
  <2>1. Diff(i, a) = IF i >= a THEN i - a ELSE i + IndexMod - a
    BY Subtracting, Zenon
  <2> QED
    BY <1>1, <2>1, DequeAssumption DEF Index
<1> QED
  BY <1>1, <1>2, <1>3, <1>8, <1>9, <1>10, <1>11, <1>12, <1>13, <1>14, <1>15, Zenon

\* The signed difference of two indices, as deque.c compares top and bottom.
LEMMA Comparing ==
  ASSUME NEW i \in Index, NEW j \in Index
  PROVE  /\ Signed(i, j) > 0 <=> Diff(i, j) # 0 /\ 2 * Diff(i, j) < IndexMod
         /\ Signed(i, j) < 0 <=> 2 * Diff(i, j) >= IndexMod
         /\ Signed(i, j) = 0 <=> i = j
<1>1. PICK H \in Nat : H = IndexMod \div 2 /\ 2 * H = IndexMod
  BY Moduli
<1>2. PICK D \in 0..(IndexMod - 1) : D = Diff(i, j)
  BY Subtracting, Zenon
<1>3. D = IF i >= j THEN i - j ELSE i + IndexMod - j
  BY <1>2, Subtracting, Zenon
<1>4. Signed(i, j) = IF D >= H THEN D - IndexMod ELSE D
  BY <1>1, <1>2, Zenon DEF Signed
<1>5. D = 0 <=> i = j
  BY <1>3, Moduli DEF Index
<1> QED
  BY <1>1, <1>2, <1>4, <1>5, Moduli

\* What pop's comparison of top with the claimed slot tells it.
LEMMA Claimed ==
  ASSUME NEW t \in Index, NEW b \in Index, Diff(Inc(b), t) <= Size
  PROVE  /\ Signed(t, b) > 0 => t = Inc(b)
         /\ t = b => Signed(t, b) = 0 /\ Diff(Inc(b), t) = 1
         /\ Signed(t, b) < 0 => Diff(Inc(b), t) >= 2
         /\ Signed(t, b) > 0 \/ Signed(t, b) < 0 \/ t = b
<1>1. PICK a \in Index : a = Inc(b) /\ a = IF b = IndexMod - 1 THEN 0 ELSE b + 1
  BY Stepping, Zenon
<1>2. PICK n \in 0..(IndexMod - 1) : n = Diff(a, t) /\ n = IF a >= t THEN a - t ELSE a + IndexMod - t
  BY Subtracting, Zenon
<1>3. PICK d \in 0..(IndexMod - 1) : d = Diff(t, b) /\ d = IF t >= b THEN t - b ELSE t + IndexMod - b
  BY Subtracting, Zenon
<1>4. n <= Size
  BY <1>1, <1>2, Zenon
<1>5. d # 0 /\ 2 * d < IndexMod => t = a
  BY <1>1, <1>2, <1>3, <1>4, Moduli DEF Index
<1>6. t = b => n = 1
  BY <1>1, <1>2, Moduli DEF Index
<1>7. 2 * d >= IndexMod => n >= 2
  BY <1>1, <1>2, <1>3, Moduli DEF Index
<1>8. /\ Signed(t, b) > 0 <=> d # 0 /\ 2 * d < IndexMod
      /\ Signed(t, b) < 0 <=> 2 * d >= IndexMod
      /\ Signed(t, b) = 0 <=> t = b
  BY <1>3, Comparing, Zenon
<1>9. (d # 0 /\ 2 * d < IndexMod) \/ 2 * d >= IndexMod \/ t = b
  BY <1>3, Moduli DEF Index
<1> QED
  BY <1>1, <1>2, <1>5, <1>6, <1>7, <1>8, <1>9, Zenon

\* Indices fewer than Size apart have slots of their own.
LEMMA SlotOfSum ==
  ASSUME NEW i \in Nat
  PROVE  Slot(i % IndexMod) = i % Size
<1>1. PICK c \in Int : IndexMod = Size * c
  BY Moduli
<1>2. PICK q \in Int, r \in 0..(IndexMod - 1) : i = (IndexMod * q) + r /\ r = i % IndexMod
  <2>1. i \in Int
    OBVIOUS
  <2> QED
    BY <2>1, Moduli, Quotient, Zenon
<1>3. PICK d \in Int, e \in 0..(Size - 1) : r = (Size * d) + e /\ e = r % Size
  <2>1. r \in Int
    BY Moduli
  <2> QED
    BY <2>1, Moduli, Quotient, Zenon
<1>4. i = (Size * ((c * q) + d)) + e
  <2>1. PICK x \in Int : x = c * q
    BY <1>1, <1>2
  <2>2. IndexMod * q = Size * x
    BY <1>1, <1>2, <2>1, Moduli
  <2>3. Size * (x + d) = (Size * x) + (Size * d)
    BY <1>3, <2>1, Moduli
  <2>4. i = (Size * x) + ((Size * d) + e)
    BY <1>2, <1>3, <2>2, Zenon
  <2>5. i = (Size * (x + d)) + e
    <3>1. PICK y \in Int, z \in Int : y = Size * x /\ z = Size * d
      BY <1>3, <2>1, Moduli
    <3>2. e \in Int /\ i = y + (z + e) /\ Size * (x + d) = y + z
      BY <1>3, <2>3, <2>4, <3>1, DequeAssumption
    <3> QED
      BY <3>1, <3>2
  <2> QED
    BY <2>1, <2>5, Zenon
<1>5. (c * q) + d \in Int
  BY <1>1, <1>2, <1>3
<1>6. i % Size = e
  BY <1>3, <1>4, <1>5, Remainder, Moduli, Zenon
<1> QED
  BY <1>2, <1>3, <1>6, Zenon DEF Slot

\* Indices less than a buffer apart have different slots.
LEMMA SlotsDiffer ==
  ASSUME NEW i \in Index, NEW k \in 0..(Size - 1), NEW l \in 0..(Size - 1), k # l
  PROVE  Slot(At(i, k)) # Slot(At(i, l))
<1>1. i + k \in Nat /\ i + l \in Nat
  BY Moduli DEF Index
<1>2. Slot(At(i, k)) = (i + k) % Size /\ Slot(At(i, l)) = (i + l) % Size
  BY <1>1, SlotOfSum, Zenon DEF At
<1>3. PICK q \in Int, r \in 0..(Size - 1) : i + k = (Size * q) + r /\ r = (i + k) % Size
  <2>1. i + k \in Int
    BY <1>1
  <2> QED
    BY <2>1, Moduli, Quotient, Zenon
<1>4. PICK s \in Int, t \in 0..(Size - 1) : i + l = (Size * s) + t /\ t = (i + l) % Size
  <2>1. i + l \in Int
    BY <1>1
  <2> QED
    BY <2>1, Moduli, Quotient, Zenon
<1>5. ASSUME r = t PROVE FALSE
  <2>1. k - l = Size * (q - s)
    BY <1>3, <1>4, <1>5, Moduli DEF Index
  <2>2. q - s \in Int /\ q - s # 0
    BY <2>1, Moduli
  <2>3. CASE q - s >= 1
    BY <2>1, <2>3, Moduli
  <2>4. CASE q - s <= -1
    BY <2>1, <2>4, Moduli
  <2> QED
    BY <2>2, <2>3, <2>4
<1> QED
  BY <1>2, <1>3, <1>4, <1>5

\* Slots are slots of the buffer, indices are indices.
LEMMA SlotRange ==
  /\ \A i \in Index : Slot(i) \in 0..(Size - 1)
  /\ \A i \in Index, k \in Nat : At(i, k) \in Index
BY Moduli DEF Slot, At, Index
-----------------------------------------------------------------------------
(* The elements *)

\* Where the logical bottom is.
Bottoms ==
  /\ opc \in {"idle", "store", "publish"} => LogicalBottom = bottom
  /\ opc = "top" => LogicalBottom = Inc(bottom)
  /\ opc \in {"restore", "won", "lost"} => LogicalBottom = top
  /\ opc = "cas" => LogicalBottom = Inc(ot)

\* The logical bottom at each step of the owner,
LEMMA BottomCases == Bottoms
<1>1. opc \in {"idle", "store", "publish"} => LogicalBottom = bottom
  BY DEF LogicalBottom
<1>2. opc = "top" => LogicalBottom = Inc(bottom)
  BY DEF LogicalBottom
<1>3. opc \in {"restore", "won", "lost"} => LogicalBottom = top
  BY DEF LogicalBottom
<1>4. opc = "cas" => LogicalBottom = Inc(ot)
  BY DEF LogicalBottom
<1> QED
  BY <1>1, <1>2, <1>3, <1>4, Zenon DEF Bottoms

\* and after a step.
LEMMA BottomsAfter == Bottoms'
BY BottomCases, PTL

\* The elements lie from top on, one index after the other.
Shape ==
  /\ LogicalBottom \in Index /\ N \in 0..(IndexMod - 1) /\ LogicalBottom = At(top, N)
  /\ DOMAIN Contents = 1..N /\ Len(Contents) = N
  /\ \A k \in 1..N : Contents[k] = buf[Slot(At(top, k - 1))]

\* The contents are read off the buffer,
LEMMA ContentsShape == TypeOK => Shape
<1> SUFFICES ASSUME TypeOK PROVE Shape
  OBVIOUS
<1>1. top \in Index /\ bottom \in Index /\ ot \in Index
  BY Zenon DEF TypeOK
<1>2. LogicalBottom \in Index
  <2>1. Inc(bottom) \in Index /\ Inc(ot) \in Index
    BY <1>1, Stepping, Zenon
  <2> QED
    BY <1>1, <2>1, BottomCases DEF TypeOK, Bottoms
<1>3. PICK b \in Index : b = LogicalBottom
  BY <1>2, Zenon
<1>4. PICK n \in 0..(IndexMod - 1) : /\ n = N
                                    /\ n = IF b >= top THEN b - top ELSE b + IndexMod - top
  BY <1>1, <1>3, Subtracting, Zenon DEF N
<1>5. b = At(top, n)
  <2>1. At(top, n) = IF top + n < IndexMod THEN top + n ELSE top + n - IndexMod
    BY <1>1, Adding, Zenon
  <2> QED
    BY <1>1, <1>4, <2>1, Moduli DEF Index
<1>6. \A k \in 1..n : (top + k - 1) % IndexMod = At(top, k - 1)
  BY <1>1, Moduli DEF At, Index
<1>7. Contents = [k \in 1..n |-> buf[Slot((top + k - 1) % IndexMod)]]
  BY <1>4, Zenon DEF Contents, N
<1>8. DOMAIN Contents = 1..n /\ \A k \in 1..n : Contents[k] = buf[Slot(At(top, k - 1))]
  BY <1>6, <1>7, Zenon
<1>9. Len(Contents) = n
  <2> HIDE DEF Contents
  <2>1. n \in Nat
    BY <1>4, Moduli
  <2> QED
    BY <1>7, <2>1
<1> QED
  BY <1>3, <1>4, <1>5, <1>8, <1>9, Zenon DEF Shape

\* and after a step.
LEMMA ShapeAfter == TypeOK' => Shape'
BY ContentsShape, PTL

\* The contents are a sequence of the items pushed.
LEMMA ContentsSeq ==
  ASSUME IInv
  PROVE  Contents \in Seq(Items) /\ pushed \in Nat /\ N \in Nat
<1>1. Shape /\ pushed \in 0..MaxPush
  BY ContentsShape, Zenon DEF IInv, TypeOK
<1>2. N \in Nat /\ pushed \in Nat
  BY <1>1, Moduli, DequeAssumption DEF Shape
<1>3. \A k \in 1..N : Contents[k] \in Items
  <2>1. \A k \in 1..N : k - 1 \in 0..(N - 1)
    BY <1>2
  <2>2. \A k \in 1..N : Contents[k] \in 1..pushed
    BY <1>1, <2>1, Zenon DEF IInv, ItemsOK, Shape
  <2>3. 1..pushed \subseteq Items
    BY <1>1, DequeAssumption DEF Items
  <2> QED
    BY <2>2, <2>3, Zenon
<1>4. Contents = [k \in 1..N |-> Contents[k]]
  BY Zenon DEF Contents, N
<1>5. Contents \in [1..N -> Items]
  BY <1>3, <1>4, Zenon
<1> QED
  <2> HIDE DEF Contents, N
  <2> QED
    BY <1>2, <1>5

\* The elements after a step, found one by one.
LEMMA Extensional ==
  ASSUME TypeOK', NEW s, s = [k \in 1..N' |-> s[k]],
         \A k \in 1..N' : s[k] = buf'[Slot(At(top', k - 1))]
  PROVE  Contents' = s
<1>1. \A k \in 1..N' : Contents'[k] = s[k]
  BY ShapeAfter, Zenon DEF Shape, Slot, At
<1>2. Contents' = [k \in 1..N' |-> Contents'[k]]
  BY Zenon DEF Contents, N
<1> QED
  BY <1>1, <1>2, Zenon

\* A step that moves no end of the deque and changes no element.
LEMMA Quiet ==
  ASSUME IInv, UNCHANGED <<top, buf, pushed, pops, steals>>, LogicalBottom' = LogicalBottom,
         opc' \in {"store", "publish"} => N < Size
  PROVE  N' = N /\ Contents' = Contents /\ SizeOK' /\ ItemsOK'
<1>1. N' = N
  BY Zenon DEF N, Diff
<1>2. Contents' = Contents
  BY Zenon DEF Contents, Diff, Slot
<1>3. SizeOK'
  BY <1>1, Zenon DEF IInv, SizeOK
<1>4. ItemsOK'
  BY <1>1, Zenon DEF IInv, ItemsOK, At, Slot
<1> QED
  BY <1>1, <1>2, <1>3, <1>4, Zenon

\* The thieves are not disturbed by it.
LEMMA ThievesKeep ==
  ASSUME IInv, N' = N, UNCHANGED <<top, buf, pushed, tpc, tt, ta>>
  PROVE  ThiefOK'
BY Zenon DEF IInv, ThiefOK, Diff, Slot

\* Taking the bottom element leaves the others.
LEMMA Shortened ==
  ASSUME IInv, TypeOK', N >= 1, N' = N - 1, UNCHANGED buf, top' = top \/ N' = 0
  PROVE  Contents' = SubSeq(Contents, 1, Len(Contents) - 1)
<1>1. Shape
  BY ContentsShape, Zenon DEF IInv
<1>2. PICK n \in Nat : n = N
  BY ContentsSeq, Zenon
<1>3. PICK s \in Seq(Items) : s = Contents
  BY ContentsSeq, Zenon
<1>4. Len(s) = n /\ N' = n - 1 /\ n >= 1
  BY <1>1, <1>2, <1>3, Zenon DEF Shape
<1>5. PICK t : t = SubSeq(s, 1, n - 1)
  BY Zenon
<1>6. t = [k \in 1..(n - 1) |-> t[k]] /\ \A k \in 1..(n - 1) : t[k] = s[k]
  BY <1>2, <1>3, <1>4, <1>5
<1>7. \A k \in 1..n : s[k] = buf[Slot(At(top, k - 1))]
  BY <1>1, <1>2, <1>3, Zenon DEF Shape
<1>8. \A k \in 1..(n - 1) : k \in 1..n /\ top' = top
  BY <1>2, <1>4
<1>9. \A k \in 1..N' : t[k] = buf'[Slot(At(top', k - 1))]
  BY <1>4, <1>6, <1>7, <1>8, Zenon
<1>10. t = [k \in 1..N' |-> t[k]]
  BY <1>4, <1>6, Zenon
<1>11. Contents' = t
  BY <1>9, <1>10, Extensional, Zenon
<1> QED
  BY <1>3, <1>4, <1>5, <1>11, Zenon

\* Handing out an item that was pushed.
LEMMA Handing ==
  ASSUME NEW s \in Seq(Items), NEW p \in 0..MaxPush, NEW x \in 1..p,
         \A i \in 1..Len(s) : s[i] \in 1..p
  PROVE  /\ Append(s, x) \in Seq(Items)
         /\ \A i \in 1..Len(Append(s, x)) : Append(s, x)[i] \in 1..p
<1>1. x \in Items
  BY DequeAssumption DEF Items
<1>2. PICK t : t = Append(s, x)
  BY Zenon
<1>3. t \in Seq(Items)
  BY <1>1, <1>2
<1>4. \A i \in 1..Len(t) : t[i] \in 1..p
  BY <1>1, <1>2
<1> QED
  BY <1>2, <1>3, <1>4, Zenon

\* A thief that finds top where it loaded it was not overtaken by a full turn.
LEMMA TopMoves ==
  ASSUME IInv, N >= 1, top' = Inc(top), N' = N - 1, UNCHANGED <<pushed, tt>>,
         \A h \in Thieves : tpc'[h] # "idle" => tpc[h] # "idle"
  PROVE  ThiefOK'
<1> SUFFICES ASSUME NEW h \in Thieves, tpc[h] # "idle"
             PROVE  Diff(Inc(top), tt[h]) + N' <= pushed /\ tt[h] # Inc(top)
  BY Zenon DEF ThiefOK, Diff
<1>1. top \in Index /\ tt[h] \in Index /\ pushed \in 0..MaxPush
  BY Zenon DEF IInv, TypeOK
<1>2. PICK d \in 0..(IndexMod - 1) : d = Diff(top, tt[h])
  BY <1>1, Subtracting, Zenon
<1>3. PICK n \in Nat : n = N
  BY ContentsSeq, Zenon
<1>4. d + n <= pushed
  BY <1>2, <1>3, Zenon DEF IInv, ThiefOK
<1>5. d + 1 < IndexMod \/ (d + 1 = IndexMod /\ n = 0)
  BY <1>1, <1>2, <1>3, <1>4, DequeAssumption
<1>6. d + 1 < IndexMod
  BY <1>3, <1>5
<1>7. Diff(Inc(top), tt[h]) = d + 1
  BY <1>1, <1>2, <1>6, Moving, Zenon
<1>8. d + 1 + (n - 1) <= pushed
  BY <1>1, <1>2, <1>3, <1>4, DequeAssumption
<1>9. ASSUME tt[h] = Inc(top) PROVE FALSE
  <2>1. Diff(Inc(top), Inc(top)) = 0
    BY <1>1, Stepping, Moving, Zenon
  <2>2. d + 1 = 0
    BY <1>7, <1>9, <2>1, Zenon
  <2> QED
    BY <1>2, <2>2, DequeAssumption
<1> QED
  BY <1>3, <1>7, <1>8, <1>9, Zenon
-----------------------------------------------------------------------------
(* Steps of the owner *)

\* The owner finds room for an element.
LEMMA PushLoadStep ==
  ASSUME IInv, PushLoad
  PROVE  IInv' /\ Contents' = Contents
<1>1. /\ opc = "idle" /\ opc' = "store" /\ ob' = bottom /\ pushed < MaxPush /\ Diff(bottom, top) < Size
      /\ UNCHANGED <<top, bottom, buf, ot, tpc, tt, ta, pushed, pops, steals>>
  BY Zenon DEF PushLoad, thiefVars
<1>2. LogicalBottom = bottom /\ LogicalBottom' = bottom
  BY <1>1, BottomCases, BottomsAfter, Zenon DEF Bottoms
<1>3. N' = N /\ Contents' = Contents /\ SizeOK' /\ ItemsOK'
  BY <1>1, <1>2, Quiet, Zenon DEF N
<1>4. TypeOK'
  BY <1>1, Zenon DEF IInv, TypeOK
<1>5. OwnerOK'
  BY <1>1 DEF OwnerOK
<1>6. ThiefOK'
  BY <1>1, <1>3, ThievesKeep, Zenon
<1> QED
  BY <1>3, <1>4, <1>5, <1>6, Zenon DEF IInv

\* The owner claims the slot below bottom.
LEMMA PopClaimStep ==
  ASSUME IInv, PopClaim
  PROVE  IInv' /\ Contents' = Contents
<1>1. /\ opc = "idle" /\ opc' = "top" /\ ob' = Dec(bottom) /\ bottom' = Dec(bottom)
      /\ UNCHANGED <<top, buf, ot, tpc, tt, ta, pushed, pops, steals>>
  BY Zenon DEF PopClaim, thiefVars
<1>2. bottom \in Index /\ Dec(bottom) \in Index /\ Inc(Dec(bottom)) = bottom
  <2>1. bottom \in Index
    BY Zenon DEF IInv, TypeOK
  <2> QED
    BY <2>1, Stepping, Moving, Zenon
<1>3. LogicalBottom = bottom /\ LogicalBottom' = bottom
  BY <1>1, <1>2, BottomCases, BottomsAfter, Zenon DEF Bottoms
<1>4. N' = N /\ Contents' = Contents /\ SizeOK' /\ ItemsOK'
  BY <1>1, <1>3, Quiet, Zenon
<1>5. TypeOK'
  BY <1>1, <1>2, Zenon DEF IInv, TypeOK
<1>6. OwnerOK'
  BY <1>1 DEF OwnerOK
<1>7. ThiefOK'
  BY <1>1, <1>4, ThievesKeep, Zenon
<1> QED
  BY <1>4, <1>5, <1>6, <1>7, Zenon DEF IInv

\* The owner finds the deque empty and puts bottom back, or settles the race
\* for the last element.
LEMMA PopEndStep ==
  ASSUME IInv, PopRestore \/ PopSettle
  PROVE  IInv' /\ Contents' = Contents
<1>1. /\ opc \in {"restore", "won", "lost"} /\ opc' = "idle" /\ bottom' \in {Inc(ob), Inc(ot)} /\ bottom' = top
      /\ UNCHANGED <<top, buf, ob, ot, tpc, tt, ta, pushed, pops, steals>>
  BY Zenon DEF IInv, OwnerOK, PopRestore, PopSettle, thiefVars
<1>2. LogicalBottom = top /\ LogicalBottom' = top
  BY <1>1, BottomCases, BottomsAfter, Zenon DEF Bottoms
<1>3. N' = N /\ Contents' = Contents /\ SizeOK' /\ ItemsOK'
  BY <1>1, <1>2, Quiet, Zenon
<1>4. TypeOK'
  BY <1>1, Zenon DEF IInv, TypeOK
<1>5. OwnerOK'
  BY <1>1 DEF OwnerOK
<1>6. ThiefOK'
  BY <1>1, <1>3, ThievesKeep, Zenon
<1> QED
  BY <1>3, <1>4, <1>5, <1>6, Zenon DEF IInv

\* The owner writes the element, into a slot none of the others is in.
LEMMA PushStoreStep ==
  ASSUME IInv, PushStore
  PROVE  IInv' /\ Contents' = Contents
<1>1. /\ opc = "store" /\ opc' = "publish" /\ buf' = [buf EXCEPT ![Slot(ob)] = pushed + 1]
      /\ UNCHANGED <<top, bottom, ob, ot, tpc, tt, ta, pushed, pops, steals>>
  BY Zenon DEF PushStore, thiefVars
<1>2. Shape /\ top \in Index /\ ob \in Index /\ pushed \in 0..MaxPush /\ ob = bottom /\ pushed < MaxPush
  BY <1>1, ContentsShape, Zenon DEF IInv, TypeOK, OwnerOK
<1>3. LogicalBottom = bottom /\ LogicalBottom' = bottom
  BY <1>1, BottomCases, BottomsAfter, Zenon DEF Bottoms
<1>4. N' = N /\ N \in Nat /\ N < Size /\ ob = At(top, N)
  BY <1>1, <1>2, <1>3, ContentsSeq, Zenon DEF N, Diff, IInv, SizeOK, Shape
<1>5. \A k \in 0..(N - 1) : buf'[Slot(At(top, k))] = buf[Slot(At(top, k))]
  <2> SUFFICES ASSUME NEW k \in 0..(N - 1) PROVE buf'[Slot(At(top, k))] = buf[Slot(At(top, k))]
    BY Zenon
  <2>1. k \in 0..(Size - 1) /\ N \in 0..(Size - 1) /\ k # N
    BY <1>4, Moduli
  <2>2. Slot(At(top, k)) # Slot(ob)
    BY <1>2, <1>4, <2>1, SlotsDiffer, Zenon
  <2>3. Slot(At(top, k)) \in 0..(Size - 1)
    <3>1. k \in Nat
      BY <1>4
    <3> QED
      BY <1>2, <3>1, SlotRange, Zenon
  <2> QED
    BY <1>1, <2>2, <2>3, Zenon DEF IInv, TypeOK
<1>6. Slot(ob) \in 0..(Size - 1) /\ pushed + 1 \in Items
  BY <1>2, Moduli, DequeAssumption DEF Slot, Index, Items
<1>7. TypeOK'
  BY <1>1, <1>6, Zenon DEF IInv, TypeOK
<1>8. OwnerOK'
  <2>1. buf'[Slot(ob)] = pushed + 1
    BY <1>1, <1>6, Zenon DEF IInv, TypeOK
  <2>2. Slot(ob)' = Slot(ob)
    BY <1>1, Zenon DEF Slot
  <2>3. buf'[Slot(ob)'] = (pushed + 1)'
    BY <1>1, <2>1, <2>2, Zenon
  <2> QED
    BY <1>1, <1>2, <2>3 DEF OwnerOK
<1>9. SizeOK'
  BY <1>1, <1>4, Zenon DEF IInv, SizeOK
<1>10. ThiefOK'
  <2>1. \A h \in Thieves : tpc[h] = "cas" /\ tt[h] = top => buf'[Slot(top)] = buf[Slot(top)]
    <3> SUFFICES ASSUME NEW h \in Thieves, tpc[h] = "cas", tt[h] = top PROVE buf'[Slot(top)] = buf[Slot(top)]
      BY Zenon
    <3>1. N >= 1
      BY DEF IInv, ThiefOK
    <3>2. 0 \in 0..(N - 1) /\ At(top, 0) = top
      BY <1>2, <1>4, <3>1, Moduli DEF At, Index
    <3> QED
      BY <1>5, <3>2, Zenon
  <2> QED
    BY <1>1, <1>4, <2>1, Zenon DEF IInv, ThiefOK, Diff, Slot
<1>11. ItemsOK'
  BY <1>1, <1>4, <1>5, Zenon DEF IInv, ItemsOK, At, Slot
<1>12. Contents' = Contents
  <2>1. Contents = [k \in 1..N' |-> Contents[k]]
    BY <1>4, Zenon DEF Contents, N
  <2>2. \A k \in 1..N : k - 1 \in 0..(N - 1)
    BY <1>4
  <2>3. \A k \in 1..N' : Contents[k] = buf'[Slot(At(top', k - 1))]
    BY <1>1, <1>2, <1>4, <1>5, <2>2, Zenon DEF Shape
  <2> QED
    BY <1>7, <2>1, <2>3, Extensional, Zenon
<1> QED
  BY <1>7, <1>8, <1>9, <1>10, <1>11, <1>12, Zenon DEF IInv

\* The owner publishes the element: the deque has one more.
LEMMA PushPublishStep ==
  ASSUME IInv, PushPublish
  PROVE  /\ IInv' /\ N < Size /\ pushed + 1 \in Items
         /\ Contents' = Append(Contents, pushed + 1)
         /\ UNCHANGED <<pops, steals>>
<1>1. /\ opc = "publish" /\ opc' = "idle" /\ bottom' = Inc(ob) /\ pushed' = pushed + 1
      /\ UNCHANGED <<top, buf, ob, ot, tpc, tt, ta, pops, steals>>
  BY Zenon DEF PushPublish, thiefVars
<1>2. /\ Shape /\ top \in Index /\ bottom \in Index /\ ob \in Index /\ pushed \in 0..MaxPush
      /\ ob = bottom /\ pushed < MaxPush /\ buf[Slot(ob)] = pushed + 1
  BY <1>1, ContentsShape, Zenon DEF IInv, TypeOK, OwnerOK
<1>3. LogicalBottom = bottom /\ LogicalBottom' = Inc(bottom)
  BY <1>1, <1>2, BottomCases, BottomsAfter, Zenon DEF Bottoms
<1>4. N \in Nat /\ N < Size /\ N <= pushed /\ ob = At(top, N)
  BY <1>1, <1>2, <1>3, ContentsSeq, Zenon DEF IInv, SizeOK, Shape
<1>5. N' = N + 1
  <2>1. N + 1 < IndexMod
    BY <1>4, Moduli
  <2>2. N = Diff(bottom, top) /\ N' = Diff(Inc(bottom), top)
    BY <1>1, <1>3, Zenon DEF N, Diff
  <2> QED
    BY <1>2, <2>1, <2>2, Moving, Zenon
<1>6. pushed + 1 \in Items /\ pushed + 1 \in 0..MaxPush /\ pushed + 1 \in 1..(pushed + 1)
  BY <1>2, DequeAssumption DEF Items
<1>7. TypeOK'
  <2>1. Inc(ob) \in Index
    BY <1>2, Stepping, Zenon
  <2> QED
    BY <1>1, <1>6, <2>1, Zenon DEF IInv, TypeOK
<1>8. OwnerOK'
  BY <1>1 DEF OwnerOK
<1>9. SizeOK'
  <2>1. N + 1 <= Size /\ N + 1 <= pushed + 1
    BY <1>2, <1>4, Moduli
  <2> QED
    BY <1>1, <1>5, <2>1 DEF SizeOK
<1>10. ThiefOK'
  <2> SUFFICES ASSUME NEW h \in Thieves
               PROVE  /\ tpc[h] # "idle" => Diff(top, tt[h]) + N' <= pushed'
                      /\ tpc[h] \in {"read", "cas"} /\ tt[h] = top => N' >= 1
                      /\ tpc[h] = "cas" /\ tt[h] = top => ta[h] = buf[Slot(top)]
    BY <1>1, Zenon DEF ThiefOK, Diff, Slot
  <2>1. tpc[h] # "idle" => Diff(top, tt[h]) + N' <= pushed'
    <3>1. PICK d \in 0..(IndexMod - 1) : d = Diff(top, tt[h])
      BY <1>2, Subtracting, Zenon DEF IInv, TypeOK
    <3>2. tpc[h] # "idle" => d + N <= pushed
      BY <3>1, Zenon DEF IInv, ThiefOK
    <3>3. d + N <= pushed => d + (N + 1) <= pushed + 1
      BY <1>2, <1>4, Moduli
    <3> QED
      BY <1>1, <1>5, <3>1, <3>2, <3>3, Zenon
  <2>2. N' >= 1
    BY <1>4, <1>5
  <2> QED
    BY <2>1, <2>2, Zenon DEF IInv, ThiefOK
<1>11. ItemsOK'
  <2>1. \A x : x \in 1..pushed => x \in 1..(pushed + 1)
    BY <1>2
  <2>2. \A k \in 0..(N' - 1) : k \in 0..(N - 1) \/ k = N
    BY <1>4, <1>5
  <2>3. \A k \in 0..(N' - 1) : buf[Slot(At(top, k))] \in 1..(pushed + 1)
    BY <1>2, <1>4, <1>6, <2>1, <2>2, Zenon DEF IInv, ItemsOK
  <2> QED
    BY <1>1, <2>1, <2>3, Zenon DEF IInv, ItemsOK, At, Slot
<1>12. Contents' = Append(Contents, pushed + 1)
  <2>1. PICK n \in Nat : n = N
    BY <1>4, Zenon
  <2>2. PICK s \in Seq(Items) : s = Contents
    BY ContentsSeq, Zenon
  <2>3. Len(s) = n /\ N' = n + 1
    BY <1>2, <1>5, <2>1, <2>2, Zenon DEF Shape
  <2>4. PICK x \in Items : x = pushed + 1
    BY <1>6, Zenon
  <2>5. \A k \in 1..n : s[k] = buf[Slot(At(top, k - 1))]
    BY <1>2, <2>1, <2>2, Zenon DEF Shape
  <2>6. PICK t : t = Append(s, x)
    BY Zenon
  <2>7. /\ t = [k \in 1..(n + 1) |-> t[k]] /\ t[n + 1] = x
        /\ \A k \in 1..n : t[k] = s[k]
    BY <2>2, <2>3, <2>4, <2>6
  <2>8. \A k \in 1..(n + 1) : k \in 1..n \/ (k = n + 1 /\ k - 1 = n)
    BY <2>1
  <2>9. \A k \in 1..(n + 1) : t[k] = buf[Slot(At(top, k - 1))]
    BY <1>2, <1>4, <2>1, <2>4, <2>5, <2>7, <2>8, Zenon
  <2>10. Contents' = t
    BY <1>1, <1>7, <2>3, <2>7, <2>9, Extensional, Zenon DEF Slot, At
  <2> QED
    BY <2>2, <2>4, <2>6, <2>10, Zenon
<1> QED
  BY <1>1, <1>4, <1>6, <1>7, <1>8, <1>9, <1>10, <1>11, <1>12, Zenon DEF IInv

\* The owner loads top: the deque is empty, or holds the claimed element alone,
\* or the claimed element is handed out.
LEMMA PopTopStep ==
  ASSUME IInv, PopTop
  PROVE  /\ IInv' /\ UNCHANGED steals
         /\ \/ Contents' = Contents /\ pops' = pops
            \/ /\ N >= 1 /\ Contents' = SubSeq(Contents, 1, Len(Contents) - 1)
               /\ pops' = Append(pops, Contents[Len(Contents)])
<1>1. /\ opc = "top" /\ ot' = top
      /\ opc' = CASE Signed(top, ob) > 0 -> "restore" [] top = ob -> "cas" [] OTHER -> "idle"
      /\ pops' = IF Signed(top, ob) < 0 THEN Append(pops, buf[Slot(ob)]) ELSE pops
      /\ UNCHANGED <<top, bottom, buf, ob, tpc, tt, ta, pushed, steals>>
  BY Zenon DEF PopTop, thiefVars
<1>2. Shape /\ top \in Index /\ ob \in Index /\ ob = bottom /\ pushed \in 0..MaxPush /\ N <= Size /\ pops \in Seq(Items)
  BY <1>1, ContentsShape, Zenon DEF IInv, TypeOK, OwnerOK, SizeOK
<1>3. LogicalBottom = Inc(ob) /\ N = Diff(Inc(ob), top)
  BY <1>1, <1>2, BottomCases, Zenon DEF Bottoms, N
<1>4. PICK sg \in Int : sg = Signed(top, ob)
  BY <1>2, Subtracting, DequeAssumption DEF Signed
<1>5. /\ sg > 0 => top = Inc(ob)
      /\ top = ob => sg = 0 /\ N = 1
      /\ sg < 0 => N >= 2
      /\ sg > 0 \/ sg < 0 \/ top = ob
  BY <1>2, <1>3, <1>4, Claimed, Zenon
<1>6. CASE sg > 0
  <2>0. ~(sg < 0) /\ top # ob
    BY <1>4, <1>5, <1>6
  <2>1. opc' = "restore" /\ pops' = pops
    BY <1>1, <1>4, <1>6, <2>0
  <2>2. LogicalBottom' = LogicalBottom
    BY <1>1, <1>3, <1>5, <1>6, <2>1, BottomsAfter, Zenon DEF Bottoms
  <2>3. N' = N /\ Contents' = Contents /\ SizeOK' /\ ItemsOK'
    BY <1>1, <2>1, <2>2, Quiet, Zenon
  <2>4. TypeOK'
    BY <1>1, <1>2, <2>1, Zenon DEF IInv, TypeOK
  <2>5. OwnerOK'
    <3>1. (top = Inc(ob))' /\ (ob = bottom)'
      BY <1>1, <1>2, <1>5, <1>6, Zenon DEF Inc
    <3> QED
      BY <2>1, <3>1 DEF OwnerOK
  <2>6. ThiefOK'
    BY <1>1, <2>3, ThievesKeep, Zenon
  <2> QED
    BY <1>1, <2>1, <2>3, <2>4, <2>5, <2>6, Zenon DEF IInv
<1>7. CASE top = ob
  <2>1. opc' = "cas" /\ pops' = pops
    BY <1>1, <1>4, <1>5, <1>7
  <2>2. LogicalBottom' = LogicalBottom
    <3>1. LogicalBottom' = Inc(ot)'
      BY <2>1, BottomsAfter, Zenon DEF Bottoms
    <3>2. Inc(ot)' = Inc(ob)
      BY <1>1, <1>7, Zenon DEF Inc
    <3> QED
      BY <1>3, <3>1, <3>2, Zenon
  <2>3. N' = N /\ Contents' = Contents /\ SizeOK' /\ ItemsOK'
    BY <1>1, <2>1, <2>2, Quiet, Zenon
  <2>4. TypeOK'
    BY <1>1, <1>2, <2>1, Zenon DEF IInv, TypeOK
  <2>5. OwnerOK'
    <3>1. (ot = ob)' /\ (top = ot)' /\ (ob = bottom)'
      BY <1>1, <1>2, <1>7, Zenon
    <3> QED
      BY <2>1, <3>1 DEF OwnerOK
  <2>6. ThiefOK'
    BY <1>1, <2>3, ThievesKeep, Zenon
  <2> QED
    BY <1>1, <2>1, <2>3, <2>4, <2>5, <2>6, Zenon DEF IInv
<1>8. CASE sg < 0
  <2>0. ~(sg > 0) /\ top # ob
    BY <1>4, <1>5, <1>8
  <2>1. opc' = "idle" /\ pops' = Append(pops, buf[Slot(ob)])
    BY <1>1, <1>4, <1>8, <2>0
  <2>2. LogicalBottom' = ob
    BY <1>1, <1>2, <2>1, BottomsAfter, Zenon DEF Bottoms
  <2>3. N \in Nat /\ N >= 2
    BY <1>5, <1>8, ContentsSeq, Zenon
  <2>4. N' = N - 1
    <3>1. Inc(ob) \in Index /\ Dec(Inc(ob)) = ob
      BY <1>2, Stepping, Moving, Zenon
    <3>2. N # 0
      BY <2>3
    <3>3. N' = Diff(ob, top)
      BY <1>1, <2>2, Zenon DEF N, Diff
    <3>4. top \in Index /\ Diff(Inc(ob), top) # 0
      BY <1>2, <1>3, <3>2, Zenon
    <3>5. Diff(Dec(Inc(ob)), top) = Diff(Inc(ob), top) - 1
      BY <3>1, <3>4, Moving, Zenon
    <3> QED
      BY <1>3, <3>1, <3>3, <3>5, Zenon
  <2>5. At(top, N - 1) = ob
    <3>1. LogicalBottom \in Index
      BY <1>2, Zenon DEF Shape
    <3>2. Diff(ob, top) = N - 1 /\ Diff(ob, top) \in 0..(IndexMod - 1)
      BY <1>1, <1>2, <2>2, <2>4, Subtracting, Zenon DEF N, Diff
    <3>3. Diff(ob, top) = IF ob >= top THEN ob - top ELSE ob + IndexMod - top
      BY <1>2, Subtracting, Zenon
    <3>4. PICK m \in 0..(IndexMod - 1) : m = N - 1 /\ m = IF ob >= top THEN ob - top ELSE ob + IndexMod - top
      BY <3>2, <3>3, Zenon
    <3>5. At(top, m) = IF top + m < IndexMod THEN top + m ELSE top + m - IndexMod
      BY <1>2, Adding, Zenon
    <3>6. At(top, m) = ob
      BY <1>2, <3>4, <3>5, DequeAssumption DEF Index
    <3> QED
      BY <3>4, <3>6, Zenon
  <2>6. PICK x \in 1..pushed : x = buf[Slot(ob)]
    <3>1. N - 1 \in 0..(N - 1)
      BY <2>3
    <3> QED
      BY <2>5, <3>1, Zenon DEF IInv, ItemsOK
  <2>7. x = Contents[Len(Contents)] /\ N >= 1
    <3>1. N \in 1..N /\ N >= 1
      BY <2>3
    <3> QED
      BY <1>2, <2>5, <2>6, <3>1, Zenon DEF Shape
  <2>8. /\ pops' = Append(pops, x) /\ pops' \in Seq(Items)
        /\ \A i \in 1..Len(pops') : pops'[i] \in 1..pushed
    BY <1>2, <2>1, <2>6, Handing, Zenon DEF IInv, ItemsOK
  <2>9. TypeOK'
    BY <1>1, <1>2, <2>1, <2>8, Zenon DEF IInv, TypeOK
  <2>10. OwnerOK'
    BY <2>1 DEF OwnerOK
  <2>11. SizeOK'
    <3>1. N <= Size /\ N <= pushed
      BY Zenon DEF IInv, SizeOK
    <3>2. N - 1 <= Size /\ N - 1 <= pushed
      BY <1>2, <2>3, <3>1, DequeAssumption
    <3> QED
      BY <1>1, <2>1, <2>4, <3>2 DEF SizeOK
  <2>12. ThiefOK'
    <3> SUFFICES ASSUME NEW h \in Thieves
                 PROVE  (tpc[h] # "idle" => Diff(top, tt[h]) + N' <= pushed) /\ N' >= 1
      BY <1>1, Zenon DEF IInv, ThiefOK, Diff, Slot
    <3>1. PICK d \in 0..(IndexMod - 1) : d = Diff(top, tt[h])
      BY <1>2, Subtracting, Zenon DEF IInv, TypeOK
    <3>2. tpc[h] # "idle" => d + N <= pushed
      BY <3>1, Zenon DEF IInv, ThiefOK
    <3>3. (d + N <= pushed => d + (N - 1) <= pushed) /\ N - 1 >= 1
      BY <1>2, <2>3, DequeAssumption
    <3> QED
      BY <2>4, <3>1, <3>2, <3>3, Zenon
  <2>13. ItemsOK'
    <3>1. \A k \in 0..(N' - 1) : k \in 0..(N - 1)
      BY <2>3, <2>4
    <3> QED
      BY <1>1, <2>8, <3>1, Zenon DEF IInv, ItemsOK, At, Slot
  <2>14. Contents' = SubSeq(Contents, 1, Len(Contents) - 1)
    BY <1>1, <2>4, <2>7, <2>9, Shortened, Zenon
  <2> QED
    BY <1>1, <2>7, <2>8, <2>9, <2>10, <2>11, <2>12, <2>13, <2>14, Zenon DEF IInv
<1> QED
  BY <1>5, <1>6, <1>7, <1>8, Zenon

\* The owner's compare-and-swap on top for the last element: it is handed out,
\* or a thief has it already.
LEMMA PopCasStep ==
  ASSUME IInv, PopCas
  PROVE  /\ IInv' /\ UNCHANGED steals
         /\ \/ Contents' = Contents /\ pops' = pops
            \/ /\ N >= 1 /\ Contents' = SubSeq(Contents, 1, Len(Contents) - 1)
               /\ pops' = Append(pops, Contents[Len(Contents)])
<1>1. /\ opc = "cas"
      /\ top' = IF top = ot THEN Inc(ot) ELSE top
      /\ opc' = IF top = ot THEN "won" ELSE "lost"
      /\ pops' = IF top = ot THEN Append(pops, buf[Slot(ob)]) ELSE pops
      /\ UNCHANGED <<bottom, buf, ob, ot, tpc, tt, ta, pushed, steals>>
  BY Zenon DEF PopCas, thiefVars
<1>2. /\ Shape /\ top \in Index /\ ot \in Index /\ ob = bottom /\ ot = ob /\ top \in {ot, Inc(ot)}
      /\ pushed \in 0..MaxPush /\ pops \in Seq(Items)
  BY <1>1, ContentsShape, Zenon DEF IInv, TypeOK, OwnerOK
<1>3. LogicalBottom = Inc(ot) /\ N = Diff(Inc(ot), top)
  BY <1>1, BottomCases, Zenon DEF Bottoms, N
<1>4. CASE top # ot
  <2>1. opc' = "lost" /\ pops' = pops /\ top' = top
    BY <1>1, <1>4, Zenon
  <2>2. LogicalBottom' = LogicalBottom /\ top = Inc(ot)
    BY <1>2, <1>3, <1>4, <2>1, BottomsAfter, Zenon DEF Bottoms
  <2>3. N' = N /\ Contents' = Contents /\ SizeOK' /\ ItemsOK'
    BY <1>1, <2>1, <2>2, Quiet, Zenon
  <2>4. TypeOK'
    BY <1>1, <2>1, Zenon DEF IInv, TypeOK
  <2>5. OwnerOK'
    <3>1. (ot = ob)' /\ (top = Inc(ot))' /\ (ob = bottom)'
      BY <1>1, <1>2, <2>1, <2>2, Zenon DEF Inc
    <3> QED
      BY <2>1, <3>1 DEF OwnerOK
  <2>6. ThiefOK'
    BY <1>1, <2>1, <2>3, ThievesKeep, Zenon
  <2> QED
    BY <1>1, <2>1, <2>3, <2>4, <2>5, <2>6, Zenon DEF IInv
<1>5. CASE top = ot
  <2>1. opc' = "won" /\ pops' = Append(pops, buf[Slot(top)]) /\ top' = Inc(top)
    BY <1>1, <1>2, <1>5, Zenon
  <2>2. N = 1
    BY <1>2, <1>3, <1>5, Moving, Zenon
  <2>3. N' = 0
    <3>1. Inc(top) \in Index
      BY <1>2, Stepping, Zenon
    <3>2. LogicalBottom' = top'
      BY <2>1, BottomsAfter, Zenon DEF Bottoms
    <3>3. N' = Diff(Inc(top), Inc(top))
      BY <2>1, <3>2, Zenon DEF N, Diff
    <3> QED
      BY <3>1, <3>3, Moving, Zenon
  <2>4. N >= 1 /\ N' = N - 1
    BY <2>2, <2>3
  <2>5. At(top, 0) = top /\ 0 \in 0..(1 - 1) /\ 1 \in 1..1 /\ 1 - 1 = 0
    BY <1>2, DequeAssumption DEF At, Index
  <2>6. PICK x \in 1..pushed : x = buf[Slot(top)]
    BY <2>2, <2>5, Zenon DEF IInv, ItemsOK
  <2>7. x = Contents[Len(Contents)]
    BY <1>2, <2>2, <2>5, <2>6, Zenon DEF Shape
  <2>8. /\ pops' = Append(pops, x) /\ pops' \in Seq(Items)
        /\ \A i \in 1..Len(pops') : pops'[i] \in 1..pushed
    BY <1>2, <2>1, <2>6, Handing, Zenon DEF IInv, ItemsOK
  <2>9. TypeOK'
    <3>1. Inc(top) \in Index
      BY <1>2, Stepping, Zenon
    <3> QED
      BY <1>1, <2>1, <2>8, <3>1, Zenon DEF IInv, TypeOK
  <2>10. OwnerOK'
    <3>1. (ot = ob)' /\ (top = Inc(ot))' /\ (ob = bottom)'
      BY <1>1, <1>2, <1>5, <2>1, Zenon DEF Inc
    <3> QED
      BY <2>1, <3>1 DEF OwnerOK
  <2>11. SizeOK'
    <3>1. 0 <= Size /\ 0 <= pushed
      BY <1>2, DequeAssumption
    <3> QED
      BY <1>1, <2>1, <2>3, <3>1 DEF SizeOK
  <2>12. ThiefOK'
    BY <1>1, <2>1, <2>4, TopMoves, Zenon
  <2>13. ItemsOK'
    <3>1. 0..(0 - 1) = {}
      OBVIOUS
    <3> QED
      BY <1>1, <2>3, <2>8, <3>1, Zenon DEF IInv, ItemsOK
  <2>14. Contents' = SubSeq(Contents, 1, Len(Contents) - 1)
    BY <1>1, <2>3, <2>4, <2>9, Shortened, Zenon
  <2> QED
    BY <1>1, <2>4, <2>7, <2>8, <2>9, <2>10, <2>11, <2>12, <2>13, <2>14, Zenon DEF IInv
<1> QED
  BY <1>4, <1>5, Zenon
-----------------------------------------------------------------------------
(* Steps of a thief *)

\* What a thief changes of its own only.
LEMMA ThiefQuiet ==
  ASSUME IInv, UNCHANGED <<top, bottom, buf, opc, ob, ot, pushed, pops, steals>>
  PROVE  N' = N /\ Contents' = Contents /\ OwnerOK' /\ SizeOK' /\ ItemsOK'
<1>1. LogicalBottom' = LogicalBottom
  BY Zenon DEF LogicalBottom, Inc
<1>2. N' = N /\ Contents' = Contents /\ SizeOK' /\ ItemsOK'
  BY <1>1, Quiet, Zenon DEF IInv, SizeOK
<1>3. OwnerOK'
  BY Zenon DEF IInv, OwnerOK, Inc, Slot
<1> QED
  BY <1>2, <1>3, Zenon

\* A thief loads top.
LEMMA StealTopStep ==
  ASSUME IInv, NEW h \in Thieves, StealTop(h)
  PROVE  IInv' /\ Contents' = Contents
<1>1. /\ tt' = [tt EXCEPT ![h] = top] /\ tpc' = [tpc EXCEPT ![h] = "bottom"]
      /\ UNCHANGED <<top, bottom, buf, opc, ob, ot, ta, pushed, pops, steals>>
  BY Zenon DEF StealTop, ownerVars
<1>2. N' = N /\ Contents' = Contents /\ OwnerOK' /\ SizeOK' /\ ItemsOK'
  BY <1>1, ThiefQuiet, Zenon
<1>3. /\ top \in Index /\ tt \in [Thieves -> Index]
      /\ tpc \in [Thieves -> {"idle", "bottom", "read", "cas"}]
  BY Zenon DEF IInv, TypeOK
<1>4. TypeOK'
  BY <1>1, <1>3, Zenon DEF IInv, TypeOK
<1>5. ThiefOK'
  <2>1. \A g \in Thieves : g # h => tpc'[g] = tpc[g] /\ tt'[g] = tt[g]
    BY <1>1, <1>3, Zenon
  <2>2. tpc'[h] = "bottom" /\ tt'[h] = top
    BY <1>1, <1>3, Zenon
  <2>3. Diff(top, top) + N <= pushed
    <3>1. Diff(top, top) = 0
      BY <1>3, Moving, Zenon
    <3>2. N \in Nat /\ N <= pushed
      BY ContentsSeq, Zenon DEF IInv, SizeOK
    <3> QED
      BY <3>1, <3>2
  <2> SUFFICES ASSUME NEW g \in Thieves
               PROVE  /\ tpc'[g] # "idle" => Diff(top, tt'[g]) + N <= pushed
                      /\ tpc'[g] \in {"read", "cas"} /\ tt'[g] = top => N >= 1
                      /\ tpc'[g] = "cas" /\ tt'[g] = top => ta[g] = buf[Slot(top)]
    BY <1>1, <1>2, Zenon DEF ThiefOK, Diff, Slot
  <2>4. CASE g = h
    BY <2>2, <2>3, <2>4, Zenon
  <2>5. CASE g # h
    BY <2>1, <2>5, Zenon DEF IInv, ThiefOK
  <2> QED
    BY <2>4, <2>5, Zenon
<1> QED
  BY <1>2, <1>4, <1>5, Zenon DEF IInv

\* A thief loads bottom: it goes on only if it finds an element at the top it
\* loaded, should that still be the top.
LEMMA StealBottomStep ==
  ASSUME IInv, NEW h \in Thieves, StealBottom(h)
  PROVE  IInv' /\ Contents' = Contents
<1>1. /\ tpc[h] = "bottom"
      /\ tpc' = [tpc EXCEPT ![h] = IF Signed(bottom, tt[h]) <= 0 THEN "idle" ELSE "read"]
      /\ UNCHANGED <<top, bottom, buf, opc, ob, ot, tt, ta, pushed, pops, steals>>
  BY Zenon DEF StealBottom, ownerVars
<1>2. N' = N /\ Contents' = Contents /\ OwnerOK' /\ SizeOK' /\ ItemsOK'
  BY <1>1, ThiefQuiet, Zenon
<1>3. /\ top \in Index /\ bottom \in Index /\ ob \in Index /\ ot \in Index /\ tt[h] \in Index
      /\ tpc \in [Thieves -> {"idle", "bottom", "read", "cas"}] /\ (opc # "idle" => ob = bottom)
  BY Zenon DEF IInv, TypeOK, OwnerOK
<1>4. TypeOK'
  BY <1>1, <1>3, Zenon DEF IInv, TypeOK
<1>5. ASSUME Signed(bottom, top) > 0 PROVE N >= 1
  <2>1. Diff(bottom, top) # 0 /\ 2 * Diff(bottom, top) < IndexMod
    BY <1>3, <1>5, Comparing, Zenon
  <2>2. bottom # top
    BY <1>3, <2>1, Moving, Zenon
  <2>3. LogicalBottom # top
    <3>1. CASE opc \in {"idle", "store", "publish"}
      BY <2>2, <3>1, BottomCases, Zenon DEF Bottoms
    <3>2. ASSUME top = Inc(bottom) PROVE FALSE
      <4>1. PICK d \in 0..(IndexMod - 1) : d = Diff(bottom, top)
        BY <1>3, Subtracting, Zenon
      <4>2. 2 * d >= IndexMod /\ 2 * d < IndexMod
        BY <1>3, <2>1, <3>2, <4>1, Moving, Zenon
      <4> QED
        BY <4>1, <4>2, DequeAssumption
    <3>3. CASE opc = "top"
      BY <3>2, <3>3, BottomCases, Zenon DEF Bottoms
    <3>4. CASE opc \in {"restore", "won", "lost"}
      BY <1>3, <3>2, <3>4, Zenon DEF IInv, OwnerOK
    <3>5. CASE opc = "cas"
      BY <1>3, <2>2, <3>2, <3>5, Zenon DEF IInv, OwnerOK
    <3> QED
      BY <3>1, <3>3, <3>4, <3>5 DEF IInv, TypeOK
  <2>4. N # 0
    <3>1. LogicalBottom \in Index
      BY ContentsShape, Zenon DEF IInv, Shape
    <3>2. PICK l \in Index : l = LogicalBottom
      BY <3>1, Zenon
    <3>3. N = IF l >= top THEN l - top ELSE l + IndexMod - top
      BY <1>3, <3>2, Subtracting, Zenon DEF N
    <3>4. l # top
      BY <2>3, <3>2, Zenon
    <3> QED
      BY <1>3, <3>2, <3>3, <3>4, DequeAssumption DEF Index
  <2> QED
    BY <2>4, ContentsSeq
<1>6. ThiefOK'
  <2>0. PICK p : p = IF Signed(bottom, tt[h]) <= 0 THEN "idle" ELSE "read"
    BY Zenon
  <2>1. \A g \in Thieves : g # h => tpc'[g] = tpc[g]
    BY <1>1, <1>3, <2>0, Zenon
  <2>2. tpc'[h] \in {"idle", "read"} /\ (tpc'[h] = "read" => ~(Signed(bottom, tt[h]) <= 0))
    <3>1. tpc'[h] = p
      BY <1>1, <1>3, <2>0, Zenon
    <3>2. p \in {"idle", "read"} /\ (p = "read" => ~(Signed(bottom, tt[h]) <= 0))
      BY <2>0
    <3> QED
      BY <3>1, <3>2, Zenon
  <2>3. ~(Signed(bottom, tt[h]) <= 0) => Signed(bottom, tt[h]) > 0
    <3>1. Signed(bottom, tt[h]) \in Int
      BY <1>3, Subtracting, DequeAssumption DEF Signed
    <3> QED
      BY <3>1
  <2> SUFFICES ASSUME NEW g \in Thieves
               PROVE  /\ tpc'[g] # "idle" => Diff(top, tt[g]) + N <= pushed
                      /\ tpc'[g] \in {"read", "cas"} /\ tt[g] = top => N >= 1
                      /\ tpc'[g] = "cas" /\ tt[g] = top => ta[g] = buf[Slot(top)]
    BY <1>1, <1>2, Zenon DEF ThiefOK, Diff, Slot
  <2>4. CASE g = h
    BY <1>1, <1>5, <2>2, <2>3, <2>4, Zenon DEF IInv, ThiefOK
  <2>5. CASE g # h
    BY <2>1, <2>5, Zenon DEF IInv, ThiefOK
  <2> QED
    BY <2>4, <2>5, Zenon
<1> QED
  BY <1>2, <1>4, <1>6, Zenon DEF IInv

\* A thief reads the slot of the top it loaded.
LEMMA StealReadStep ==
  ASSUME IInv, NEW h \in Thieves, StealRead(h)
  PROVE  IInv' /\ Contents' = Contents
<1>1. /\ tpc[h] = "read" /\ ta' = [ta EXCEPT ![h] = buf[Slot(tt[h])]] /\ tpc' = [tpc EXCEPT ![h] = "cas"]
      /\ UNCHANGED <<top, bottom, buf, opc, ob, ot, tt, pushed, pops, steals>>
  BY Zenon DEF StealRead, ownerVars
<1>2. N' = N /\ Contents' = Contents /\ OwnerOK' /\ SizeOK' /\ ItemsOK'
  BY <1>1, ThiefQuiet, Zenon
<1>3. /\ tt[h] \in Index /\ buf \in [0..(Size - 1) -> Items \cup {NULL}]
      /\ tpc \in [Thieves -> {"idle", "bottom", "read", "cas"}]
      /\ ta \in [Thieves -> Items \cup {NULL}]
  BY Zenon DEF IInv, TypeOK
<1>4. TypeOK'
  <2>1. buf[Slot(tt[h])] \in Items \cup {NULL}
    BY <1>3, SlotRange, Zenon
  <2> QED
    BY <1>1, <1>3, <2>1, Zenon DEF IInv, TypeOK
<1>5. ThiefOK'
  <2>1. \A g \in Thieves : g # h => tpc'[g] = tpc[g] /\ ta'[g] = ta[g]
    BY <1>1, <1>3, Zenon
  <2>2. tpc'[h] = "cas" /\ ta'[h] = buf[Slot(tt[h])]
    BY <1>1, <1>3, Zenon
  <2> SUFFICES ASSUME NEW g \in Thieves
               PROVE  /\ tpc'[g] # "idle" => Diff(top, tt[g]) + N <= pushed
                      /\ tpc'[g] \in {"read", "cas"} /\ tt[g] = top => N >= 1
                      /\ tpc'[g] = "cas" /\ tt[g] = top => ta'[g] = buf[Slot(top)]
    BY <1>1, <1>2, Zenon DEF ThiefOK, Diff, Slot
  <2>4. CASE g = h
    BY <1>1, <2>2, <2>4, Zenon DEF IInv, ThiefOK
  <2>5. CASE g # h
    BY <2>1, <2>5, Zenon DEF IInv, ThiefOK
  <2> QED
    BY <2>4, <2>5, Zenon
<1> QED
  BY <1>2, <1>4, <1>5, Zenon DEF IInv

\* A thief's compare-and-swap on top: it is handed the top element, or top has
\* moved and it has none.
LEMMA StealCasStep ==
  ASSUME IInv, NEW h \in Thieves, StealCas(h)
  PROVE  /\ IInv' /\ UNCHANGED pops
         /\ \/ Contents' = Contents /\ steals' = steals
            \/ N >= 1 /\ Contents' = Tail(Contents) /\ steals' = Append(steals, Head(Contents))
<1>1. /\ tpc[h] = "cas" /\ tpc' = [tpc EXCEPT ![h] = "idle"]
      /\ IF top = tt[h] THEN top' = Inc(tt[h]) /\ steals' = Append(steals, ta[h]) ELSE UNCHANGED <<top, steals>>
      /\ UNCHANGED <<bottom, buf, opc, ob, ot, tt, ta, pushed, pops>>
  BY Zenon DEF StealCas, ownerVars
<1>2. /\ Shape /\ top \in Index /\ bottom \in Index /\ ot \in Index /\ pushed \in 0..MaxPush
      /\ tpc \in [Thieves -> {"idle", "bottom", "read", "cas"}] /\ steals \in Seq(Items)
  BY ContentsShape, Zenon DEF IInv, TypeOK
<1>3. \A g \in Thieves : /\ g # h => tpc'[g] = tpc[g]
                         /\ tpc'[h] = "idle"
  BY <1>1, <1>2, Zenon
<1>4. CASE top # tt[h]
  <2>1. top' = top /\ steals' = steals
    BY <1>1, <1>4, Zenon
  <2>2. N' = N /\ Contents' = Contents /\ OwnerOK' /\ SizeOK' /\ ItemsOK'
    BY <1>1, <2>1, ThiefQuiet, Zenon
  <2>3. TypeOK'
    BY <1>1, <1>2, <2>1, Zenon DEF IInv, TypeOK
  <2>4. ThiefOK'
    BY <1>1, <1>3, <2>1, <2>2, Zenon DEF IInv, ThiefOK, Diff, Slot
  <2> QED
    BY <1>1, <2>1, <2>2, <2>3, <2>4, Zenon DEF IInv
<1>5. CASE top = tt[h]
  <2>1. top' = Inc(top) /\ steals' = Append(steals, ta[h])
    BY <1>1, <1>5, Zenon
  <2>2. N \in Nat /\ N >= 1 /\ ta[h] = buf[Slot(top)]
    BY <1>1, <1>5, ContentsSeq DEF IInv, ThiefOK
  <2>3. LogicalBottom' = LogicalBottom /\ opc \notin {"restore", "won", "lost"}
    <3>1. opc \notin {"restore", "won", "lost"}
      <4>1. ASSUME LogicalBottom = top PROVE FALSE
        <5>1. N = 0
          BY <1>2, <4>1, Moving, Zenon DEF N
        <5> QED
          BY <2>2, <5>1
      <4> QED
        BY <4>1, BottomCases, Zenon DEF Bottoms
    <3> QED
      BY <1>1, <3>1 DEF LogicalBottom, Inc
  <2>4. N' = N - 1
    <3>1. N' = Diff(LogicalBottom, Inc(top))
      BY <2>1, <2>3, Zenon DEF N, Diff
    <3>2. N # 0
      BY <2>2
    <3> QED
      BY <1>2, <3>1, <3>2, Moving, Zenon DEF N, Shape
  <2>5. At(top, 0) = top /\ 0 \in 0..(N - 1) /\ 1 \in 1..N /\ 1 - 1 = 0
    BY <1>2, <2>2, DequeAssumption DEF At, Index
  <2>6. PICK x \in 1..pushed : x = ta[h] /\ x = buf[Slot(top)]
    BY <2>2, <2>5, Zenon DEF IInv, ItemsOK
  <2>7. x = Head(Contents)
    <3>1. x = Contents[1]
      BY <1>2, <2>5, <2>6, Zenon DEF Shape
    <3>2. PICK s \in Seq(Items) : s = Contents
      BY ContentsSeq, Zenon
    <3>3. Len(s) >= 1
      BY <1>2, <2>2, <3>2, Zenon DEF Shape
    <3>4. Head(s) = s[1]
      BY <3>2, <3>3
    <3> QED
      BY <3>1, <3>2, <3>4, Zenon
  <2>8. /\ steals' = Append(steals, x) /\ steals' \in Seq(Items)
        /\ \A i \in 1..Len(steals') : steals'[i] \in 1..pushed
    BY <1>2, <2>1, <2>6, Handing, Zenon DEF IInv, ItemsOK
  <2>9. TypeOK'
    <3>1. Inc(top) \in Index
      BY <1>2, Stepping, Zenon
    <3> QED
      BY <1>1, <1>2, <2>1, <2>8, <3>1, Zenon DEF IInv, TypeOK
  <2>10. OwnerOK'
    <3>1. ASSUME opc = "cas" PROVE ot = ob /\ Inc(top) = Inc(ot)
      <4>1. ot = ob /\ top \in {ot, Inc(ot)}
        BY <3>1, Zenon DEF IInv, OwnerOK
      <4>2. ASSUME top = Inc(ot) PROVE FALSE
        <5>1. LogicalBottom = top
          BY <3>1, <4>2, BottomCases, Zenon DEF Bottoms
        <5>2. N = 0
          BY <1>2, <5>1, Moving, Zenon DEF N
        <5> QED
          BY <2>2, <5>2
      <4> QED
        BY <4>1, <4>2, Zenon
    <3>2. (opc # "idle" => ob = bottom)'
      BY <1>1, Zenon DEF IInv, OwnerOK
    <3>3. (opc = "publish" => buf[Slot(ob)] = pushed + 1)'
      BY <1>1, Zenon DEF IInv, OwnerOK, Slot
    <3>4. (opc \in {"store", "publish"} => pushed < MaxPush)'
      BY <1>1, Zenon DEF IInv, OwnerOK
    <3>5. (opc = "cas" => ot = ob /\ top \in {ot, Inc(ot)})'
      BY <1>1, <2>1, <3>1, Zenon DEF Inc
    <3>6. opc' \notin {"restore", "won", "lost"}
      BY <1>1, <2>3, Zenon
    <3> QED
      BY <3>2, <3>3, <3>4, <3>5, <3>6, Zenon DEF OwnerOK
  <2>11. SizeOK'
    <3>1. N <= Size /\ N <= pushed /\ (opc \in {"store", "publish"} => N < Size)
      BY Zenon DEF IInv, SizeOK
    <3>2. N - 1 <= Size /\ N - 1 <= pushed /\ N - 1 < Size
      BY <1>2, <2>2, <3>1, DequeAssumption
    <3> QED
      BY <1>1, <2>4, <3>2, Zenon DEF SizeOK
  <2>12. ThiefOK'
    BY <1>1, <1>3, <2>1, <2>2, <2>4, TopMoves, Zenon
  <2>13. \A k \in 0..(N' - 1) : k + 1 \in 0..(N - 1) /\ At(Inc(top), k) = At(top, k + 1)
    <3> SUFFICES ASSUME NEW k \in 0..(N' - 1) PROVE k + 1 \in 0..(N - 1) /\ At(Inc(top), k) = At(top, k + 1)
      BY Zenon
    <3>1. k \in Nat /\ k + 1 \in 0..(N - 1) /\ N <= IndexMod - 1
      BY <1>2, <2>2, <2>4, DequeAssumption DEF Shape
    <3>2. PICK a \in Index : a = Inc(top) /\ a = IF top = IndexMod - 1 THEN 0 ELSE top + 1
      BY <1>2, Stepping, Zenon
    <3>3. PICK l \in 0..(IndexMod - 1) : l = k + 1 /\ k \in 0..(IndexMod - 1)
      BY <2>2, <3>1, DequeAssumption
    <3>4. At(a, k) = IF a + k < IndexMod THEN a + k ELSE a + k - IndexMod
      BY <3>3, Adding, Zenon
    <3>5. At(top, l) = IF top + l < IndexMod THEN top + l ELSE top + l - IndexMod
      BY <1>2, Adding, Zenon
    <3>6. At(a, k) = At(top, l)
      BY <1>2, <3>2, <3>3, <3>4, <3>5, DequeAssumption DEF Index
    <3> QED
      BY <3>1, <3>2, <3>3, <3>6, Zenon
  <2>14. ItemsOK'
    <3>1. \A k \in 0..(N' - 1) : buf[Slot(At(Inc(top), k))] \in 1..pushed
      BY <2>13, Zenon DEF IInv, ItemsOK
    <3> QED
      BY <1>1, <2>1, <2>8, <3>1, Zenon DEF IInv, ItemsOK, At, Slot
  <2>15. Contents' = Tail(Contents)
    <3>1. PICK n \in Nat : n = N /\ n >= 1 /\ N' = n - 1
      BY <2>2, <2>4, Zenon
    <3>2. PICK s \in Seq(Items) : s = Contents
      BY ContentsSeq, Zenon
    <3>3. Len(s) = n
      BY <1>2, <3>1, <3>2, Zenon DEF Shape
    <3>4. PICK t : t = Tail(s)
      BY Zenon
    <3>5. t = [k \in 1..(n - 1) |-> t[k]] /\ \A k \in 1..(n - 1) : t[k] = s[k + 1]
      <4>1. s # <<>>
        BY <3>1, <3>3
      <4>2. t \in Seq(Items) /\ Len(t) = n - 1 /\ \A k \in 1..(n - 1) : t[k] = s[k + 1]
        BY <3>1, <3>2, <3>3, <3>4, <4>1
      <4> QED
        BY <3>1, <4>2
    <3>6. \A k \in 1..n : s[k] = buf[Slot(At(top, k - 1))]
      BY <1>2, <3>1, <3>2, Zenon DEF Shape
    <3>7. \A k \in 1..(n - 1) : k + 1 \in 1..n /\ (k + 1) - 1 = k /\ k - 1 \in 0..((n - 1) - 1) /\ (k - 1) + 1 = k
      BY <3>1
    <3>8. \A k \in 1..(n - 1) : t[k] = buf[Slot(At(top, k))] /\ At(Inc(top), k - 1) = At(top, k)
      <4>1. \A k \in 1..(n - 1) : t[k] = buf[Slot(At(top, k))]
        BY <3>5, <3>6, <3>7, Zenon
      <4>2. \A k \in 1..(n - 1) : At(Inc(top), k - 1) = At(top, k)
        BY <2>13, <3>1, <3>7, Zenon
      <4> QED
        BY <4>1, <4>2, Zenon
    <3>9. \A k \in 1..N' : t[k] = buf'[Slot(At(top', k - 1))]
      BY <1>1, <2>1, <3>1, <3>8, Zenon DEF Slot, At
    <3>10. t = [k \in 1..N' |-> t[k]]
      BY <3>1, <3>5, Zenon
    <3> QED
      BY <2>9, <3>2, <3>4, <3>9, <3>10, Extensional, Zenon
  <2> QED
    BY <1>1, <2>2, <2>7, <2>8, <2>9, <2>10, <2>11, <2>12, <2>14, <2>15, Zenon DEF IInv
<1> QED
  BY <1>4, <1>5, Zenon
-----------------------------------------------------------------------------
(* The theorems *)

\* A step of the deque keeps the invariant and adds an element at the bottom,
\* hands one out at either end, or leaves the elements alone.
LEMMA DequeStep ==
  ASSUME IInv, [Next]_vars
  PROVE  /\ IInv'
         /\ \/ UNCHANGED <<Contents, pops, steals>>
            \/ Abstract!DNext
<1>1. /\ Contents \in Seq(Items) /\ Len(Contents) = N /\ N \in Nat /\ pushed \in Nat
      /\ pops \in Seq(Items) /\ steals \in Seq(Items)
  BY ContentsSeq, ContentsShape, Zenon DEF IInv, TypeOK, Shape
<1>2. N >= 1 => Contents # <<>>
  <2>1. PICK s \in Seq(Items) : s = Contents
    BY <1>1, Zenon
  <2>2. Len(s) >= 1 => s # <<>>
    OBVIOUS
  <2> QED
    BY <1>1, <2>1, <2>2, Zenon
<1>3. CASE UNCHANGED vars
  <2>1. UNCHANGED <<top, bottom, buf, opc, ob, ot, tpc, tt, ta, pushed, pops, steals>>
    BY <1>3, Zenon DEF vars
  <2>2. N' = N /\ Contents' = Contents /\ OwnerOK' /\ SizeOK' /\ ItemsOK'
    BY <2>1, ThiefQuiet, Zenon
  <2>3. TypeOK'
    BY <2>1, Zenon DEF IInv, TypeOK
  <2>4. ThiefOK'
    BY <2>1, <2>2, ThievesKeep, Zenon
  <2> QED
    BY <2>1, <2>2, <2>3, <2>4, Zenon DEF IInv
<1>4. CASE PushLoad
  BY <1>4, PushLoadStep, Zenon DEF PushLoad
<1>5. CASE PushStore
  BY <1>5, PushStoreStep, Zenon DEF PushStore
<1>6. CASE PushPublish
  <2>1. /\ IInv' /\ N < Size /\ pushed + 1 \in Items
        /\ Contents' = Append(Contents, pushed + 1) /\ UNCHANGED <<pops, steals>>
    BY <1>6, PushPublishStep, Zenon
  <2>2. \A x \in 1..pushed : x # pushed + 1
    BY <1>1
  <2>3. \A i \in DOMAIN Contents : Contents[i] # pushed + 1
    <3>1. \A i \in 1..N : i - 1 \in 0..(N - 1)
      BY <1>1
    <3> QED
      BY <2>2, <3>1, ContentsShape, Zenon DEF IInv, Shape, ItemsOK
  <2>4. DOMAIN pops = 1..Len(pops) /\ DOMAIN steals = 1..Len(steals)
    BY <1>1
  <2>5. \A s \in {Contents, pops, steals} : \A i \in DOMAIN s : s[i] # pushed + 1
    BY <2>2, <2>3, <2>4, Zenon DEF IInv, ItemsOK
  <2>6. Abstract!Push(pushed + 1)
    BY <1>1, <2>1, <2>5, Zenon DEF Abstract!Push
  <2> QED
    BY <2>1, <2>6, Zenon DEF Abstract!DNext
<1>7. CASE PopClaim
  BY <1>7, PopClaimStep, Zenon DEF PopClaim
<1>8. CASE PopTop \/ PopCas
  <2>1. /\ IInv' /\ UNCHANGED steals
        /\ \/ Contents' = Contents /\ pops' = pops
           \/ /\ N >= 1 /\ Contents' = SubSeq(Contents, 1, Len(Contents) - 1)
              /\ pops' = Append(pops, Contents[Len(Contents)])
    BY <1>8, PopTopStep, PopCasStep, Zenon
  <2> QED
    BY <1>2, <2>1, Zenon DEF Abstract!DNext, Abstract!PopBottom
<1>9. CASE PopRestore \/ PopSettle
  BY <1>9, PopEndStep, Zenon DEF PopRestore, PopSettle
<1>10. ASSUME NEW h \in Thieves, Thief(h)
       PROVE  IInv' /\ (UNCHANGED <<Contents, pops, steals>> \/ Abstract!DNext)
  <2>1. CASE StealTop(h)
    BY <2>1, StealTopStep, Zenon DEF StealTop
  <2>2. CASE StealBottom(h)
    BY <2>2, StealBottomStep, Zenon DEF StealBottom
  <2>3. CASE StealRead(h)
    BY <2>3, StealReadStep, Zenon DEF StealRead
  <2>4. CASE StealCas(h)
    <3>1. /\ IInv' /\ UNCHANGED pops
          /\ \/ Contents' = Contents /\ steals' = steals
             \/ N >= 1 /\ Contents' = Tail(Contents) /\ steals' = Append(steals, Head(Contents))
      BY <2>4, StealCasStep, Zenon
    <3> QED
      BY <1>2, <3>1, Zenon DEF Abstract!DNext, Abstract!StealTop
  <2> QED
    BY <1>10, <2>1, <2>2, <2>3, <2>4, Zenon DEF Thief
<1> QED
  BY <1>3, <1>4, <1>5, <1>6, <1>7, <1>8, <1>9, <1>10, Zenon DEF Next, Owner

\* A fresh deque, or an emptied one, has no elements.
LEMMA DequeStart ==
  ASSUME Init
  PROVE  IInv /\ Abstract!DInit
<1>1. top \in Index /\ bottom = top /\ opc = "idle" /\ pushed = 0 /\ pops = <<>> /\ steals = <<>>
  BY DequeAssumption DEF Init, Index
<1>2. 0 \in Index /\ 0 \in 0..MaxPush /\ 0 <= Size
  BY DequeAssumption DEF Index
<1>3. TypeOK
  <2>1. pops \in Seq(Items) /\ steals \in Seq(Items)
    BY <1>1
  <2> QED
    BY <1>1, <1>2, <2>1, Zenon DEF Init, TypeOK
<1>4. N = 0
  BY <1>1, BottomCases, Moving, Zenon DEF Bottoms, N
<1>5. OwnerOK
  BY <1>1 DEF OwnerOK
<1>6. SizeOK
  BY <1>1, <1>2, <1>4 DEF SizeOK
<1>7. ThiefOK
  BY Zenon DEF Init, ThiefOK
<1>8. ItemsOK
  <2>1. 0..(N - 1) = {} /\ 1..Len(pops) = {} /\ 1..Len(steals) = {}
    BY <1>1, <1>4
  <2> QED
    BY <2>1, Zenon DEF ItemsOK
<1>9. Contents = <<>>
  <2>1. IInv
    BY <1>3, <1>5, <1>6, <1>7, <1>8, Zenon DEF IInv
  <2>2. PICK s \in Seq(Items) : s = Contents /\ Len(s) = 0
    BY <1>3, <1>4, <2>1, ContentsSeq, ContentsShape, Zenon DEF Shape
  <2>3. s = <<>>
    BY <2>2
  <2> QED
    BY <2>2, <2>3, Zenon
<1> QED
  BY <1>1, <1>3, <1>5, <1>6, <1>7, <1>8, <1>9, Zenon DEF IInv, Abstract!DInit

(* The invariant of deque.c: there is a slot for every element, an element     *)
(* being pushed overwrites none, and a thief that finds top where it loaded it *)
(* holds what is there still.                                                  *)
THEOREM DequeInvariant == Spec => []IInv
<1>1. Init => IInv
  BY DequeStart, Zenon
<1>2. IInv /\ [Next]_vars => IInv'
  BY DequeStep, Zenon
<1> QED
  BY <1>1, <1>2, PTL DEF Spec

(* sta_deque_push, _pop and _steal implement DoubleEndedQueue: every actor      *)
(* pushed is handed out at most once, to the owner from the bottom or to one    *)
(* thief from the top, whatever the interleaving of their loads and stores.     *)
THEOREM DequeImplementsQueue == Spec => ImplementsDeque
<1>1. Init => Abstract!DInit
  BY DequeStart, Zenon
<1>2. IInv /\ [Next]_vars => [Abstract!DNext]_(Abstract!dvars)
  BY DequeStep, Zenon DEF Abstract!dvars
<1> QED
  BY <1>1, <1>2, DequeInvariant, PTL DEF Spec, ImplementsDeque, Abstract!DSpec
=============================================================================
