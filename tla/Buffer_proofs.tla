--------------------------- MODULE Buffer_proofs ---------------------------
(***************************************************************************)
(* Proofs about Buffer, for any limit that is a power of two and any       *)
(* lengths up to what an int holds: below the limit the buffer's account   *)
(* of its memory is right, and no package is cut at a wrong length.        *)
(***************************************************************************)
EXTENDS Buffer, WellFoundedInduction, TLAPS

\* Powers of two are what doubling makes of 1.
Doubling(S) == 1 \in S /\ \A n \in S : 2 * n \in S
Powers == {n \in Nat : \A S \in SUBSET Nat : Doubling(S) => n \in S}

\* The least power of two above num, and, as a function, what Shift computes.
IsNext(num, p) == p \in Powers /\ num < p /\ (num = 0 \/ p <= 2 * num) /\ (num = 0 => p = 1)
NextPower == [num \in Nat |-> CHOOSE p \in Powers : IsNext(num, p)]
-----------------------------------------------------------------------------
(***************************************************************************)
(* Powers of two.                                                          *)
(***************************************************************************)
LEMMA PowersDouble == Powers \subseteq Nat /\ Doubling(Powers)
BY DEF Powers, Doubling

\* A power of two is 1 or the double of another: without it Powers would still be closed.
LEMMA PowersHalve ==
  ASSUME NEW p \in Powers, p # 1
  PROVE  \E q \in Powers : p = 2 * q
<1> DEFINE S == Powers \ {p}
<1>1. SUFFICES ASSUME \A q \in Powers : p # 2 * q PROVE FALSE
  OBVIOUS
<1>2. S \in SUBSET Nat /\ Doubling(S)
  BY <1>1, PowersDouble DEF Doubling
<1>3. p \in S
  BY <1>2 DEF Powers
<1>4. QED
  BY <1>3

\* A set of numbers that is not empty has a least one.
LEMMA Least ==
  ASSUME NEW S \in SUBSET Nat, S # {}
  PROVE  \E n \in S : \A m \in S : n <= m
<1>1. IsWellFoundedOn(OpToRel(<, Nat), Nat)
  BY NatLessThanWellFounded
<1>2. \E n \in S : \A m \in S : ~(<<m, n>> \in OpToRel(<, Nat))
  BY <1>1, WFMin
<1>3. PICK n \in S : \A m \in S : ~(m < n)
  BY <1>2 DEF OpToRel
<1>4. \A m \in S : n <= m
  BY <1>3
<1>5. QED
  BY <1>4

\* Between a power of two and its double there is no other.
LEMMA PowersApart ==
  ASSUME NEW p \in Powers, NEW q \in Powers, p < q
  PROVE  2 * p <= q
<1> DEFINE S == {n \in Powers : \E m \in Powers : n < m /\ m < 2 * n}
<1>1. SUFFICES ASSUME S # {} PROVE FALSE
  BY PowersDouble
<1>2. PICK n \in S : \A m \in S : n <= m
  BY <1>1, Least, PowersDouble
<1>3. PICK m \in Powers : n < m /\ m < 2 * n
  OBVIOUS
<1>4. n \in Nat /\ m \in Nat
  BY PowersDouble
<1>5. n # 1 /\ m # 1
  BY <1>3, <1>4
<1>6. PICK h \in Powers : n = 2 * h
  BY <1>5, PowersHalve
<1>7. PICK k \in Powers : m = 2 * k
  BY <1>5, PowersHalve
<1>8. h \in Nat /\ k \in Nat
  BY PowersDouble
<1>9. h < k /\ k < 2 * h /\ h < n
  BY <1>3, <1>4, <1>5, <1>6, <1>7, <1>8
<1>10. h \in S
  BY <1>9
<1>11. QED
  BY <1>2, <1>4, <1>8, <1>9, <1>10
-----------------------------------------------------------------------------
(***************************************************************************)
(* min_pow.                                                                *)
(***************************************************************************)
LEMMA NextExists ==
  ASSUME NEW num \in Nat
  PROVE  \E p \in Powers : IsNext(num, p)
<1> DEFINE S == {n \in Nat : ~ \E p \in Powers : IsNext(n, p)}
<1>1. SUFFICES ASSUME S # {} PROVE FALSE
  OBVIOUS
<1>2. PICK n \in S : \A m \in S : n <= m
  BY <1>1, Least
<1>3. 1 \in Powers /\ 2 \in Powers
  <2>1. 2 * 1 = 2
    OBVIOUS
  <2>2. QED
    BY <2>1, PowersDouble DEF Doubling
<1>4. n # 0
  BY <1>2, <1>3 DEF IsNext
<1>5. n # 1
  BY <1>2, <1>3 DEF IsNext
<1>6. PICK h \in Nat : h = n \div 2 /\ 2 * h <= n /\ n <= (2 * h) + 1 /\ h < n /\ 0 < h
  <2>1. n \in Nat /\ n > 1
    BY <1>4, <1>5
  <2>2. (n \div 2) \in Nat /\ 2 * (n \div 2) <= n /\ n <= (2 * (n \div 2)) + 1
    BY <2>1
  <2>3. QED
    BY <2>1, <2>2
<1>7. PICK p \in Powers : IsNext(h, p)
  BY <1>2, <1>6
<1>8. p \in Nat /\ 2 * p \in Powers
  BY PowersDouble DEF Doubling
<1>9. h < p /\ p <= 2 * h
  BY <1>6, <1>7 DEF IsNext
<1>10. IsNext(n, 2 * p)
  BY <1>4, <1>6, <1>8, <1>9 DEF IsNext
<1>11. QED
  BY <1>2, <1>8, <1>10

LEMMA NextUnique ==
  ASSUME NEW num \in Nat, NEW p, NEW q, IsNext(num, p), IsNext(num, q)
  PROVE  p = q
<1>1. p \in Nat /\ q \in Nat /\ p \in Powers /\ q \in Powers
  BY PowersDouble DEF IsNext
<1>2. ~(p < q) /\ ~(q < p)
  BY <1>1, PowersApart DEF IsNext
<1>3. QED
  BY <1>1, <1>2

LEMMA NextValue ==
  ASSUME NEW num \in Nat
  PROVE  IsNext(num, NextPower[num]) /\ NextPower[num] \in Nat
<1>1. IsNext(num, NextPower[num])
  BY NextExists DEF NextPower
<1>2. QED
  BY <1>1, PowersDouble DEF IsNext

\* Halving the number halves the power above it, as the loop of min_pow does.
LEMMA NextHalved ==
  ASSUME NEW num \in Nat
  PROVE  NextPower[num] = IF num = 0 THEN 1 ELSE 2 * NextPower[num \div 2]
<1>1. CASE num = 0
  BY <1>1, NextValue DEF IsNext
<1>2. CASE num # 0
  <2>1. PICK h \in Nat : h = num \div 2 /\ 2 * h <= num /\ num <= (2 * h) + 1
    <3>1. (num \div 2) \in Nat /\ 2 * (num \div 2) <= num /\ num <= (2 * (num \div 2)) + 1
      OBVIOUS
    <3>2. QED
      BY <3>1
  <2>2. PICK p : p = NextPower[h] /\ IsNext(h, p) /\ p \in Nat
    BY NextValue
  <2>3. p \in Powers /\ 2 * p \in Powers /\ h < p /\ (h = 0 => p = 1) /\ (h # 0 => p <= 2 * h)
    BY <2>2, PowersDouble DEF Doubling, IsNext
  <2>4. num < 2 * p /\ 2 * p <= 2 * num
    BY <1>2, <2>1, <2>2, <2>3
  <2>5. IsNext(num, 2 * p)
    BY <1>2, <2>3, <2>4 DEF IsNext
  <2>6. NextPower[num] = 2 * p
    BY <2>5, NextValue, NextUnique
  <2>7. QED
    BY <1>2, <2>1, <2>2, <2>6
<1>3. QED
  BY <1>1, <1>2

\* There is a function that satisfies the equation of Shift, so Shift does.
LEMMA ShiftEquation ==
  ASSUME NEW num \in Nat
  PROVE  Shift[num] = IF num = 0 THEN 1 ELSE 2 * Shift[num \div 2]
<1> DEFINE Equation(f) == f = [n \in Nat |-> IF n = 0 THEN 1 ELSE 2 * f[n \div 2]]
<1>1. Equation(NextPower)
  <2>1. NextPower = [n \in Nat |-> NextPower[n]]
    BY DEF NextPower
  <2>2. \A n \in Nat : NextPower[n] = IF n = 0 THEN 1 ELSE 2 * NextPower[n \div 2]
    BY NextHalved
  <2>3. QED
    BY <2>1, <2>2
<1>2. Shift = CHOOSE f : Equation(f)
  BY DEF Shift
<1>3. Equation(Shift)
  <2> HIDE DEF Equation
  <2>1. QED
    BY <1>1, <1>2
<1>4. QED
  BY <1>3

LEMMA ShiftValue ==
  ASSUME NEW num \in Nat
  PROVE  IsNext(num, Shift[num]) /\ Shift[num] \in Nat
<1> DEFINE S == {n \in Nat : Shift[n] # NextPower[n]}
<1>1. S = {}
  <2>1. SUFFICES ASSUME S # {} PROVE FALSE
    OBVIOUS
  <2>2. PICK n \in S : \A m \in S : n <= m
    BY <2>1, Least
  <2>3. n # 0
    BY <2>2, ShiftEquation, NextHalved
  <2>4. PICK h \in Nat : h = n \div 2 /\ h < n
    <3>1. (n \div 2) \in Nat /\ n \div 2 < n
      BY <2>3
    <3>2. QED
      BY <3>1
  <2>5. Shift[h] = NextPower[h]
    BY <2>2, <2>4
  <2>6. QED
    BY <2>2, <2>3, <2>4, <2>5, ShiftEquation, NextHalved
<1>2. QED
  BY <1>1, NextValue

LEMMA SmallPowers ==
  {1, 2, 4, 8, 16, 32, 64, 128, 256, 512, 1024, 2048, 4096, 8192, 16384, 32768, 65536,
   131072, 262144, 524288, 1048576, 2097152, 4194304, 8388608, 16777216, 33554432,
   67108864, 134217728, 268435456, 536870912, 1073741824} \subseteq Powers
<1>1. 1 \in Powers /\ \A n, m \in Nat : n \in Powers /\ m = 2 * n => m \in Powers
  BY PowersDouble DEF Doubling
<1>2. 2 \in Powers /\ 4 \in Powers /\ 8 \in Powers /\ 16 \in Powers /\ 32 \in Powers
  BY <1>1, SMT
<1>3. 64 \in Powers /\ 128 \in Powers /\ 256 \in Powers /\ 512 \in Powers /\ 1024 \in Powers
  BY <1>1, <1>2, SMT
<1>4. 2048 \in Powers /\ 4096 \in Powers /\ 8192 \in Powers /\ 16384 \in Powers /\ 32768 \in Powers
  BY <1>1, <1>3, SMT
<1>5. /\ 65536 \in Powers /\ 131072 \in Powers /\ 262144 \in Powers
       /\ 524288 \in Powers /\ 1048576 \in Powers
  BY <1>1, <1>4, SMT
<1>6. /\ 2097152 \in Powers /\ 4194304 \in Powers /\ 8388608 \in Powers
       /\ 16777216 \in Powers /\ 33554432 \in Powers
  BY <1>1, <1>5, SMT
<1>7. /\ 67108864 \in Powers /\ 134217728 \in Powers /\ 268435456 \in Powers
       /\ 536870912 \in Powers /\ 1073741824 \in Powers
  BY <1>1, <1>6, SMT
<1>8. QED
  BY <1>1, <1>2, <1>3, <1>4, <1>5, <1>6, <1>7, SMT

\* The numbers that PowerOfTwo recognises are powers of two.
LEMMA PowersRecognised ==
  ASSUME NEW num, PowerOfTwo(num)
  PROVE  num \in Powers
<1>1. PICK k \in 0..30 : num = 2 ^ k
  BY DEF PowerOfTwo
<1>2. CASE k \in {0, 1, 2, 3}
  <2>1. 2 ^ 0 \in Powers /\ 2 ^ 1 \in Powers /\ 2 ^ 2 \in Powers /\ 2 ^ 3 \in Powers
    BY SmallPowers, SMT
  <2>2. QED
    BY <1>1, <1>2, <2>1
<1>3. CASE k \in {4, 5, 6, 7}
  <2>1. 2 ^ 4 \in Powers /\ 2 ^ 5 \in Powers /\ 2 ^ 6 \in Powers /\ 2 ^ 7 \in Powers
    BY SmallPowers, SMT
  <2>2. QED
    BY <1>1, <1>3, <2>1
<1>4. CASE k \in {8, 9, 10, 11}
  <2>1. 2 ^ 8 \in Powers /\ 2 ^ 9 \in Powers /\ 2 ^ 10 \in Powers /\ 2 ^ 11 \in Powers
    BY SmallPowers, SMT
  <2>2. QED
    BY <1>1, <1>4, <2>1
<1>5. CASE k \in {12, 13, 14, 15}
  <2>1. 2 ^ 12 \in Powers /\ 2 ^ 13 \in Powers /\ 2 ^ 14 \in Powers /\ 2 ^ 15 \in Powers
    BY SmallPowers, SMT
  <2>2. QED
    BY <1>1, <1>5, <2>1
<1>6. CASE k \in {16, 17, 18, 19}
  <2>1. 2 ^ 16 \in Powers /\ 2 ^ 17 \in Powers /\ 2 ^ 18 \in Powers /\ 2 ^ 19 \in Powers
    BY SmallPowers, SMT
  <2>2. QED
    BY <1>1, <1>6, <2>1
<1>7. CASE k \in {20, 21, 22, 23}
  <2>1. 2 ^ 20 \in Powers /\ 2 ^ 21 \in Powers /\ 2 ^ 22 \in Powers /\ 2 ^ 23 \in Powers
    BY SmallPowers, SMT
  <2>2. QED
    BY <1>1, <1>7, <2>1
<1>8. CASE k \in {24, 25, 26, 27}
  <2>1. 2 ^ 24 \in Powers /\ 2 ^ 25 \in Powers /\ 2 ^ 26 \in Powers /\ 2 ^ 27 \in Powers
    BY SmallPowers, SMT
  <2>2. QED
    BY <1>1, <1>8, <2>1
<1>9. CASE k \in {28, 29, 30}
  <2>1. 2 ^ 28 \in Powers /\ 2 ^ 29 \in Powers /\ 2 ^ 30 \in Powers
    BY SmallPowers, SMT
  <2>2. QED
    BY <1>1, <1>9, <2>1
<1>10. k \in Nat /\ k <= 30
  OBVIOUS
<1>11. QED
  BY <1>2, <1>3, <1>4, <1>5, <1>6, <1>7, <1>8, <1>9, <1>10

\* What Extend relies on: min_pow leaves at least the space that was asked for, and does not
\* go beyond a limit that is a power of two.
LEMMA MinPow ==
  ASSUME NEW num \in Nat
  PROVE  /\ min_pow(num) \in Nat /\ num <= min_pow(num)
         /\ num <= MAX_BUF_SIZE => min_pow(num) <= MAX_BUF_SIZE
<1>1. PowerOfTwo(MAX_BUF_SIZE) /\ MAX_BUF_SIZE \in Powers /\ MAX_BUF_SIZE \in Nat
  <2>1. PowerOfTwo(MAX_BUF_SIZE)
    BY SizeAssumption, SMT
  <2>2. MAX_BUF_SIZE \in Powers
    BY <2>1, PowersRecognised, SMT
  <2>3. QED
    BY <2>1, <2>2, PowersDouble
<1>2. CASE min_pow(num) = num
  BY <1>2
<1>3. CASE min_pow(num) # num
  <2>1. min_pow(num) = Shift[num] /\ num > 1 /\ ~PowerOfTwo(num)
    BY <1>3 DEF min_pow
  <2>2. PICK p \in Powers : p = Shift[num] /\ num < p /\ p <= 2 * num /\ p \in Nat
    BY <2>1, ShiftValue DEF IsNext
  <2>3. num # MAX_BUF_SIZE
    BY <1>1, <2>1
  <2>4. ASSUME num <= MAX_BUF_SIZE PROVE p <= MAX_BUF_SIZE
    <3>1. CASE MAX_BUF_SIZE < p
      <4>1. 2 * MAX_BUF_SIZE <= p
        BY <1>1, <3>1, PowersApart
      <4>2. QED
        BY <1>1, <2>2, <2>3, <2>4, <4>1
    <3>2. QED
      BY <1>1, <2>2, <3>1
  <2>5. QED
    BY <2>1, <2>2, <2>4
<1>4. QED
  BY <1>2, <1>3
-----------------------------------------------------------------------------
(***************************************************************************)
(* The header.                                                             *)
(***************************************************************************)
IsByte(b) == b \in Nat /\ b < 256
IsUint32(n) == n \in Nat /\ n < 4294967296

\* Only bytes below 128 are or-ed into a number that is not negative.
LEMMA OrOfBytes ==
  ASSUME NEW high \in Int, NEW b, IsByte(b), Or(high, b) >= 0
  PROVE  Or(high, b) = (high * 256) + b /\ high >= 0 /\ Or(high, b) \in Int
BY DEF Or, SignedChar, IsByte

LEMMA OrInt ==
  ASSUME NEW high \in Int, NEW b, IsByte(b)
  PROVE  Or(high, b) \in Int
BY DEF Or, SignedChar, IsByte

\* What a number is after its last byte has been taken off.
LEMMA LastByte ==
  ASSUME NEW n \in Nat
  PROVE  \E q \in Nat, b \in Nat : n = (q * 256) + b /\ IsByte(b) /\ n % 256 = b
<1>1. (n \div 256) \in Nat /\ (n % 256) \in Nat /\ (n % 256) < 256
      /\ n = ((n \div 256) * 256) + (n % 256)
  OBVIOUS
<1>2. QED
  BY <1>1 DEF IsByte

LEMMA Quotients ==
  ASSUME NEW q \in Nat, NEW r \in Nat
  PROVE  /\ r < 256 => ((q * 256) + r) \div 256 = q
         /\ r < 65536 => ((q * 65536) + r) \div 65536 = q
         /\ r < 16777216 => ((q * 16777216) + r) \div 16777216 = q
BY SMT

\* The bytes of a number, from the last to the first, and what is left each time.
Digits(n, q1, q2, b1, b2, b3, b4) ==
  /\ n \in Nat /\ q1 \in Nat /\ q2 \in Nat
  /\ IsByte(b1) /\ IsByte(b2) /\ IsByte(b3) /\ IsByte(b4)
  /\ n = (q1 * 256) + b4 /\ q1 = (q2 * 256) + b3 /\ q2 = (b1 * 256) + b2

\* WriteInt32 takes the four bytes of a number apart.
LEMMA WrittenBytes ==
  ASSUME NEW n, NEW q1, NEW q2, NEW b1, NEW b2, NEW b3, NEW b4, Digits(n, q1, q2, b1, b2, b3, b4)
  PROVE  WriteInt32(n) = <<b1, b2, b3, b4>>
<1> USE DEF IsByte, Digits
<1>1. b1 \in Nat /\ b2 \in Nat /\ b3 \in Nat /\ b4 \in Nat
  OBVIOUS
<1>2. n \div 256 = q1
  BY <1>1, Quotients
<1>3. n \div 65536 = q2
  <2>1. n = (q2 * 65536) + ((b3 * 256) + b4) /\ (b3 * 256) + b4 < 65536
    BY <1>1, SMT
  <2>2. QED
    BY <2>1, Quotients, SMT
<1>4. n \div 16777216 = b1
  <2>1. /\ n = (b1 * 16777216) + (((b2 * 65536) + (b3 * 256)) + b4)
        /\ ((b2 * 65536) + (b3 * 256)) + b4 < 16777216
    BY <1>1, SMT
  <2>2. QED
    BY <2>1, Quotients, SMT
<1>5. n % 256 = b4 /\ q1 % 256 = b3 /\ q2 % 256 = b2 /\ b1 % 256 = b1
  BY <1>1, SMT
<1>6. QED
  BY <1>2, <1>3, <1>4, <1>5, SMT DEF WriteInt32

\* A length that does not come back negative comes back as it was.
LEMMA LengthComesBack ==
  ASSUME NEW length \in Nat, IsUint32(length), ReadUint32(WriteInt32(length)) >= 0
  PROVE  ReadUint32(WriteInt32(length)) = length
<1>1. PICK q1 \in Nat, b4 \in Nat : length = (q1 * 256) + b4 /\ IsByte(b4)
  BY LastByte
<1>2. PICK q2 \in Nat, b3 \in Nat : q1 = (q2 * 256) + b3 /\ IsByte(b3)
  BY LastByte
<1>3. PICK b1 \in Nat, b2 \in Nat : q2 = (b1 * 256) + b2 /\ IsByte(b2)
  BY LastByte
<1>4. IsByte(b1)
  BY <1>1, <1>2, <1>3, SMT DEF IsUint32, IsByte
<1>5. WriteInt32(length) = <<b1, b2, b3, b4>>
  <2>1. Digits(length, q1, q2, b1, b2, b3, b4)
    BY <1>1, <1>2, <1>3, <1>4 DEF Digits
  <2>2. QED
    BY <2>1, WrittenBytes
<1>6. PICK h1, h2, h3 : h1 = SignedChar(b1) /\ h2 = Or(h1, b2) /\ h3 = Or(h2, b3)
  OBVIOUS
<1>7. h1 \in Int
  BY <1>4, <1>6 DEF SignedChar, IsByte
<1>8. h2 \in Int /\ h3 \in Int
  BY <1>2, <1>3, <1>6, <1>7, OrInt
<1>9. ReadUint32(WriteInt32(length)) = Or(h3, b4)
  BY <1>5, <1>6 DEF ReadUint32
<1>10. Or(h3, b4) = (h3 * 256) + b4 /\ h3 >= 0
  BY <1>1, <1>8, <1>9, OrOfBytes
<1>11. h3 = (h2 * 256) + b3 /\ h2 >= 0
  BY <1>2, <1>6, <1>8, <1>10, OrOfBytes
<1>12. h2 = (h1 * 256) + b2 /\ h1 >= 0
  BY <1>3, <1>6, <1>7, <1>11, OrOfBytes
<1>13. h1 = b1
  BY <1>4, <1>6, <1>12 DEF SignedChar, IsByte
<1>14. QED
  BY <1>1, <1>2, <1>3, <1>9, <1>10, <1>11, <1>12, <1>13

-----------------------------------------------------------------------------
(***************************************************************************)
(* The buffer.                                                             *)
(***************************************************************************)
Sizes == Lengths \cup {READ_BUF_SIZE}

LEMMA SizeFacts ==
  /\ READ_BUF_SIZE \in Nat /\ MAX_BUF_SIZE \in Nat
  /\ \A len \in Sizes : len \in Nat
  /\ \A len \in Lengths : len \in Sizes
  /\ READ_BUF_SIZE \in Sizes
  /\ \A len \in Sizes : \A n \in Nat : n <= MAX_BUF_SIZE + len => IsUint32(n + 128)
<1>1. READ_BUF_SIZE \in Nat /\ Lengths \subseteq Nat /\ PowerOfTwo(MAX_BUF_SIZE)
  BY SizeAssumption, SMT
<1>2. MAX_BUF_SIZE \in Nat
  BY <1>1, PowersRecognised, PowersDouble
<1>3. ASSUME NEW len \in Sizes, NEW n \in Nat, n <= MAX_BUF_SIZE + len PROVE IsUint32(n + 128)
  <2>1. len \in Nat /\ MAX_BUF_SIZE + len <= 1073741824
    BY <1>1, SizeAssumption, SMT DEF Sizes
  <2>2. QED
    BY <1>2, <1>3, <2>1, SMT DEF IsUint32
<1>4. QED
  BY <1>1, <1>2, <1>3 DEF Sizes

TypeInv ==
  /\ m_alloc_size \in Nat /\ m_write_offset \in Nat /\ room \in Nat
  /\ within \in BOOLEAN /\ met \in BOOLEAN

\* The memory never exceeds the limit, whatever m_alloc_size says; and a write goes one
\* length beyond it at most, for a buffer that is not sound is not used any more.
RoomInv ==
  /\ room <= MAX_BUF_SIZE
  /\ \E len \in Sizes : m_write_offset <= MAX_BUF_SIZE + len

IInv == TypeInv /\ RoomInv /\ SoundBelowLimit

LEMMA InitInv == Init => IInv
BY SizeFacts DEF Init, IInv, TypeInv, RoomInv, SoundBelowLimit

\* Extend makes room for len bytes more, unless it goes beyond the limit.
LEMMA ExtendRoom ==
  ASSUME TypeInv, room <= MAX_BUF_SIZE, NEW len \in Nat, Extend(len)
  PROVE  /\ m_alloc_size' \in Nat /\ room' \in Nat /\ within' \in BOOLEAN /\ met' \in BOOLEAN
         /\ room' <= MAX_BUF_SIZE
         /\ within' => within /\ m_alloc_size' = room' /\ m_write_offset + len <= room' /\ met'
<1>1. PICK size : size = min_pow(m_write_offset + len)
  OBVIOUS
<1>2. m_write_offset + len \in Nat /\ MAX_BUF_SIZE \in Nat /\ m_write_offset \in Nat /\ room \in Nat
  BY SizeFacts DEF TypeInv
<1>3. /\ size \in Nat /\ m_write_offset + len <= size
      /\ m_write_offset + len <= MAX_BUF_SIZE => size <= MAX_BUF_SIZE
  BY <1>1, <1>2, MinPow
<1>4. /\ m_alloc_size' = size
      /\ room' = IF size > MAX_BUF_SIZE THEN room ELSE size
      /\ within' = (within /\ m_write_offset + len <= MAX_BUF_SIZE)
      /\ met' = (room' >= m_write_offset + len)
  BY <1>1 DEF Extend
<1>5. within' \in BOOLEAN /\ met' \in BOOLEAN
  <2>1. (within /\ m_write_offset + len <= MAX_BUF_SIZE) \in BOOLEAN
    OBVIOUS
  <2>2. (room' >= m_write_offset + len) \in BOOLEAN
    OBVIOUS
  <2>3. QED
    BY <1>4, <2>1, <2>2, Zenon
<1>6. m_alloc_size' \in Nat /\ room' \in Nat /\ room' <= MAX_BUF_SIZE
  BY <1>2, <1>3, <1>4
<1>7. ASSUME within' PROVE within /\ m_write_offset + len <= MAX_BUF_SIZE
  BY <1>4, <1>7, Zenon
<1>8. ASSUME within' PROVE m_alloc_size' = room' /\ m_write_offset + len <= room'
  BY <1>2, <1>3, <1>4, <1>7, <1>8
<1>9. ASSUME within' PROVE met'
  <2>1. room' >= m_write_offset + len
    BY <1>2, <1>6, <1>8, <1>9
  <2>2. QED
    BY <1>4, <2>1, Zenon
<1>10. QED
  BY <1>5, <1>6, <1>7, <1>8, <1>9

LEMMA StepInv == IInv /\ [Next]_vars => IInv'
<1> SUFFICES ASSUME IInv, [Next]_vars PROVE IInv'
  OBVIOUS
<1>1. /\ m_alloc_size \in Nat /\ m_write_offset \in Nat /\ room \in Nat /\ room <= MAX_BUF_SIZE
      /\ MAX_BUF_SIZE \in Nat /\ READ_BUF_SIZE \in Nat
      /\ within => m_alloc_size = room /\ m_write_offset <= room /\ met
      /\ TypeInv
  BY SizeFacts DEF IInv, TypeInv, RoomInv, SoundBelowLimit
<1>2. ASSUME NEW len \in Lengths, Write(len) PROVE IInv'
  <2>1. len \in Nat /\ len \in Sizes /\ m_write_offset <= room /\ m_write_offset' = m_write_offset + len
    BY <1>2, SizeFacts DEF Write, Sound
  <2>2. CASE m_write_offset + len > m_alloc_size
    <3>1. Extend(len)
      BY <1>2, <2>2 DEF Write
    <3>2. QED
      BY <1>1, <2>1, <3>1, ExtendRoom DEF IInv, TypeInv, RoomInv, SoundBelowLimit
  <2>3. CASE ~ (m_write_offset + len > m_alloc_size)
    <3>1. UNCHANGED <<m_alloc_size, room, within, met>>
      BY <1>2, <2>3 DEF Write
    <3>2. QED
      BY <1>1, <2>1, <2>3, <3>1 DEF IInv, TypeInv, RoomInv, SoundBelowLimit
  <2>4. QED
    BY <2>2, <2>3
<1>3. ASSUME NEW len \in Lengths, Read(len) PROVE IInv'
  <2>1. /\ len \in Nat /\ m_write_offset <= room
        /\ m_write_offset' = IF len > m_write_offset THEN 0 ELSE m_write_offset - len
        /\ UNCHANGED <<m_alloc_size, room, within, met>>
    BY <1>3, SizeFacts DEF Read, Sound
  <2>2. m_write_offset' \in Nat /\ m_write_offset' <= room /\ READ_BUF_SIZE \in Sizes
        /\ m_write_offset' <= MAX_BUF_SIZE + READ_BUF_SIZE
    BY <1>1, <2>1, SizeFacts
  <2>3. QED
    BY <1>1, <2>1, <2>2 DEF IInv, TypeInv, RoomInv, SoundBelowLimit
<1>4. ASSUME NEW len \in Lengths, Recv(len) PROVE IInv'
  <2>1. /\ len \in Nat /\ len \in Sizes /\ m_write_offset <= room /\ len <= READ_BUF_SIZE
        /\ m_write_offset' = m_write_offset + len
    BY <1>4, SizeFacts DEF Recv, Sound
  <2>2. CASE m_alloc_size - m_write_offset < READ_BUF_SIZE
    <3>1. Extend(READ_BUF_SIZE)
      BY <1>4, <2>2 DEF Recv
    <3>2. QED
      BY <1>1, <2>1, <3>1, ExtendRoom DEF IInv, TypeInv, RoomInv, SoundBelowLimit
  <2>3. CASE ~ (m_alloc_size - m_write_offset < READ_BUF_SIZE)
    <3>1. UNCHANGED <<m_alloc_size, room, within, met>>
      BY <1>4, <2>3 DEF Recv
    <3>2. QED
      BY <1>1, <2>1, <2>3, <3>1 DEF IInv, TypeInv, RoomInv, SoundBelowLimit
  <2>4. QED
    BY <2>2, <2>3
<1>5. CASE UNCHANGED vars
  BY <1>5 DEF vars, IInv, TypeInv, RoomInv, SoundBelowLimit
<1>6. QED
  BY <1>2, <1>3, <1>4, <1>5 DEF Next
-----------------------------------------------------------------------------
\* Every reachable state satisfies IInv: realloc is never asked for more than the limit.
THEOREM Invariant == Spec => []IInv
<1>1. QED
  BY InitInv, StepInv, PTL DEF Spec

\* Below the limit m_alloc_size is the truth and Extend leaves what it was asked for
\* (Buffer::Extend, min_pow, OnRead).
THEOREM BelowLimitIsSound == Spec => []SoundBelowLimit
<1>1. IInv => SoundBelowLimit
  BY DEF IInv
<1>2. QED
  BY <1>1, Invariant, PTL

\* A length that ReadPackage acts on is the one SetMsg wrote: the signed bytes of
\* ReadUint32 make a length unreadable, never a wrong one.
THEOREM NoneMisframed == Spec => []NeverMisframed
<1>1. ASSUME IInv PROVE NeverMisframed
  <2> SUFFICES ASSUME NEW length \in {m_write_offset, m_write_offset + 1, m_write_offset + 128} \cup 1..300,
                      IsPduAvailable(WriteInt32(length), m_write_offset)
               PROVE  ReadUint32(WriteInt32(length)) = length
    BY DEF NeverMisframed
  <2>1. m_write_offset \in Nat
    BY <1>1 DEF IInv, TypeInv
  <2>2. PICK len \in Sizes : m_write_offset <= MAX_BUF_SIZE + len
    BY <1>1 DEF IInv, RoomInv
  <2>3. IsUint32(m_write_offset + 128)
    BY <2>1, <2>2, SizeFacts
  <2>4. length \in Nat /\ IsUint32(length)
    BY <2>1, <2>3, SMT DEF IsUint32
  <2>5. ReadUint32(WriteInt32(length)) >= 0
    BY DEF IsPduAvailable
  <2>6. QED
    BY <2>4, <2>5, LengthComesBack
<1>2. QED
  BY <1>1, Invariant, PTL
=============================================================================
