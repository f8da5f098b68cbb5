------------------------------ MODULE CrcProofs ------------------------------
(***************************************************************************)
(* The algebra of the CRC-16: bytes and their bits, the linearity of the   *)
(* division, that a step of calc_crc16's loop is eight steps of it for     *)
(* every checksum and every byte, and what the division makes of a burst   *)
(* of wrong bits.                                                          *)
(***************************************************************************)
EXTENDS GkcCrc16, TLAPS

-----------------------------------------------------------------------------
(* Bytes and their bits. *)

\* The number with these binary digits.
InBinary(b0, b1, b2, b3, b4, b5, b6, b7) ==
  b0 + 2 * b1 + 4 * b2 + 8 * b3 + 16 * b4 + 32 * b5 + 64 * b6 + 128 * b7

\* A number below 256 written in binary: each digit is what the divisions find.
LEMMA Binary ==
  ASSUME NEW b0 \in 0..1, NEW b1 \in 0..1, NEW b2 \in 0..1, NEW b3 \in 0..1,
         NEW b4 \in 0..1, NEW b5 \in 0..1, NEW b6 \in 0..1, NEW b7 \in 0..1,
         NEW n, n = InBinary(b0, b1, b2, b3, b4, b5, b6, b7)
  PROVE  /\ (n \div 1) % 2 = b0  /\ (n \div 2) % 2 = b1
         /\ (n \div 4) % 2 = b2  /\ (n \div 8) % 2 = b3
         /\ (n \div 16) % 2 = b4 /\ (n \div 32) % 2 = b5
         /\ (n \div 64) % 2 = b6 /\ (n \div 128) % 2 = b7
<1>0. n = b0 + 2 * b1 + 4 * b2 + 8 * b3 + 16 * b4 + 32 * b5 + 64 * b6 + 128 * b7
  BY DEF InBinary
<1>1. n \div 1 = n /\ n \div 2 = b1 + 2 * b2 + 4 * b3 + 8 * b4 + 16 * b5 + 32 * b6 + 64 * b7
  BY <1>0
<1>2. n \div 4 = b2 + 2 * b3 + 4 * b4 + 8 * b5 + 16 * b6 + 32 * b7
  BY <1>0
<1>3. n \div 8 = b3 + 2 * b4 + 4 * b5 + 8 * b6 + 16 * b7
  BY <1>0
<1>4. n \div 16 = b4 + 2 * b5 + 4 * b6 + 8 * b7
  BY <1>0
<1>5. n \div 32 = b5 + 2 * b6 + 4 * b7 /\ n \div 64 = b6 + 2 * b7 /\ n \div 128 = b7
  BY <1>0
<1>6. \A b \in 0..1, m \in Nat : (b + 2 * m) % 2 = b
  OBVIOUS
<1>7. (n \div 1) % 2 = b0
  <2>1. n \div 1 = b0 + 2 * (b1 + 2 * b2 + 4 * b3 + 8 * b4 + 16 * b5 + 32 * b6 + 64 * b7)
    BY <1>0, <1>1
  <2> QED BY <1>6, <2>1
<1>8. (n \div 2) % 2 = b1
  <2>1. n \div 2 = b1 + 2 * (b2 + 2 * b3 + 4 * b4 + 8 * b5 + 16 * b6 + 32 * b7)
    BY <1>1
  <2> QED BY <1>6, <2>1
<1>9. (n \div 4) % 2 = b2
  <2>1. n \div 4 = b2 + 2 * (b3 + 2 * b4 + 4 * b5 + 8 * b6 + 16 * b7)
    BY <1>2
  <2> QED BY <1>6, <2>1
<1>10. (n \div 8) % 2 = b3
  <2>1. n \div 8 = b3 + 2 * (b4 + 2 * b5 + 4 * b6 + 8 * b7)
    BY <1>3
  <2> QED BY <1>6, <2>1
<1>11. (n \div 16) % 2 = b4 /\ (n \div 32) % 2 = b5 /\ (n \div 64) % 2 = b6 /\ (n \div 128) % 2 = b7
  BY <1>4, <1>5
<1> QED BY <1>7, <1>8, <1>9, <1>10, <1>11

\* Every byte is the sum of the digits the divisions find.
LEMMA Digits ==
  ASSUME NEW n \in 0..255
  PROVE  n = ((n \div 1) % 2) + 2 * ((n \div 2) % 2) + 4 * ((n \div 4) % 2)
               + 8 * ((n \div 8) % 2) + 16 * ((n \div 16) % 2) + 32 * ((n \div 32) % 2)
               + 64 * ((n \div 64) % 2) + 128 * ((n \div 128) % 2)
<1>1. n = (n % 2) + 2 * (n \div 2) /\ n \div 1 = n
  OBVIOUS
<1>2. n \div 2 = ((n \div 2) % 2) + 2 * (n \div 4)
  OBVIOUS
<1>3. n \div 4 = ((n \div 4) % 2) + 2 * (n \div 8)
  OBVIOUS
<1>4. n \div 8 = ((n \div 8) % 2) + 2 * (n \div 16)
  OBVIOUS
<1>5. n \div 16 = ((n \div 16) % 2) + 2 * (n \div 32)
  OBVIOUS
<1>6. n \div 32 = ((n \div 32) % 2) + 2 * (n \div 64)
  OBVIOUS
<1>7. n \div 64 = ((n \div 64) % 2) + 2 * (n \div 128)
  OBVIOUS
<1>8. n \div 128 \in 0..1 /\ (n \div 128) % 2 = n \div 128
  OBVIOUS
<1> QED BY <1>1, <1>2, <1>3, <1>4, <1>5, <1>6, <1>7, <1>8

\* Bits undoes Number.
LEMMA BitsOfNumber ==
  ASSUME NEW s \in Octets
  PROVE  Number(s) \in 0..255 /\ Bits(Number(s)) = s
<1> DEFINE n == Number(s)
           b == [i \in 0..7 |-> IF i \in s THEN 1 ELSE 0]
<1>1. n = InBinary(b[0], b[1], b[2], b[3], b[4], b[5], b[6], b[7])
  BY DEF Number, InBinary
<1>2. b \in [0..7 -> 0..1] /\ \A i \in 0..7 : b[i] = 1 <=> i \in s
  OBVIOUS
<1> HIDE DEF n, b
<1>3. n \in 0..255
  BY <1>1, <1>2 DEF InBinary
<1>4. /\ (n \div 1) % 2 = b[0] /\ (n \div 2) % 2 = b[1]
      /\ (n \div 4) % 2 = b[2] /\ (n \div 8) % 2 = b[3]
      /\ (n \div 16) % 2 = b[4] /\ (n \div 32) % 2 = b[5]
      /\ (n \div 64) % 2 = b[6] /\ (n \div 128) % 2 = b[7]
  <2>1. /\ b[0] \in 0..1 /\ b[1] \in 0..1 /\ b[2] \in 0..1 /\ b[3] \in 0..1
        /\ b[4] \in 0..1 /\ b[5] \in 0..1 /\ b[6] \in 0..1 /\ b[7] \in 0..1
    BY <1>2
  <2> QED BY <1>1, <2>1, Binary
<1>5. \A i \in 0..7 : i \in Bits(n) <=> i \in s
  BY <1>2, <1>4 DEF Bits
<1> QED BY <1>3, <1>5 DEF Bits, Octets, n

\* Number undoes Bits.
LEMMA NumberOfBits ==
  ASSUME NEW n \in 0..255
  PROVE  Bits(n) \in Octets /\ Number(Bits(n)) = n
<1> DEFINE s == Bits(n)
           b(i) == IF i \in s THEN 1 ELSE 0
<1>1. Number(s) = b(0) + 2 * b(1) + 4 * b(2) + 8 * b(3) + 16 * b(4) + 32 * b(5) + 64 * b(6)
                    + 128 * b(7)
  BY DEF Number
<1>2. /\ b(0) = (n \div 1) % 2  /\ b(1) = (n \div 2) % 2
      /\ b(2) = (n \div 4) % 2  /\ b(3) = (n \div 8) % 2
      /\ b(4) = (n \div 16) % 2 /\ b(5) = (n \div 32) % 2
      /\ b(6) = (n \div 64) % 2 /\ b(7) = (n \div 128) % 2
  BY DEF Bits
<1> HIDE DEF b, s
<1>3. Number(s) = n
  BY <1>1, <1>2, Digits
<1> QED BY <1>3 DEF s, Bits, Octets

-----------------------------------------------------------------------------
(* Exclusive or. *)

\* Exclusive or is an Abelian group whose elements are their own inverses.
LEMMA XorGroup ==
  ASSUME NEW a, NEW b, NEW c
  PROVE  /\ Xor(a, a) = {} /\ Xor(a, {}) = a /\ Xor({}, a) = a
         /\ Xor(a, b) = Xor(b, a)
         /\ Xor(Xor(a, b), c) = Xor(a, Xor(b, c))
         /\ Xor(a, b) = {} <=> a = b
BY DEF Xor, SymDiff

\* Membership in an exclusive or.
LEMMA InXor == ASSUME NEW a, NEW b, NEW i
               PROVE  i \in Xor(a, b) <=> (i \in a) # (i \in b)
BY DEF Xor, SymDiff

\* Two differences taken apart and put together the other way round.
LEMMA XorSwap ==
  ASSUME NEW a, NEW b, NEW c, NEW d
  PROVE  Xor(Xor(a, b), Xor(c, d)) = Xor(Xor(a, c), Xor(b, d))
BY DEF Xor, SymDiff

\* Exclusive or stays among the words and among the octets.
LEMMA XorType ==
  /\ \A a, b \in Words : Xor(a, b) \in Words
  /\ \A a, b \in Octets : Xor(a, b) \in Octets
BY DEF Xor, SymDiff, Words, Octets

\* The two bytes of a word.
LEMMA UpHighType ==
  /\ \A o : Up(o) \in Words /\ High(o) \in Octets
  /\ \A a, b : Up(Xor(a, b)) = Xor(Up(a), Up(b))
  /\ Up({}) = {}
BY DEF Up, High, Words, Octets, Xor, SymDiff

-----------------------------------------------------------------------------
(* The division. *)

\* A step of the division is linear, and loses nothing.
LEMMA ShiftBitLinear ==
  /\ \A r \in Words : ShiftBit(r) \in Words
  /\ \A a, b \in Words : ShiftBit(Xor(a, b)) = Xor(ShiftBit(a), ShiftBit(b))
  /\ \A r \in Words : ShiftBit(r) = {} => r = {}
<1>1. ASSUME NEW r \in Words PROVE ShiftBit(r) \in Words
  BY <1>1 DEF ShiftBit, Words, Xor, SymDiff
<1>2. \A r, i : i \in ShiftBit(r) <=> ((i \in 1..15 /\ i - 1 \in r) # (15 \in r /\ i \in {0, 5, 12}))
  BY DEF ShiftBit, Xor, SymDiff
<1>3. ASSUME NEW a \in Words, NEW b \in Words
      PROVE  ShiftBit(Xor(a, b)) = Xor(ShiftBit(a), ShiftBit(b))
  <2>1. ASSUME NEW i
        PROVE  i \in ShiftBit(Xor(a, b)) <=> i \in Xor(ShiftBit(a), ShiftBit(b))
    BY <1>2, InXor
  <2> QED BY <2>1
<1>4. ASSUME NEW r \in Words, ShiftBit(r) = {} PROVE r = {}
  <2>1. 15 \notin r
    <3>1. 0 \notin ShiftBit(r)
      BY <1>4
    <3>2. 0 \in ShiftBit(r) <=> 15 \in r
      BY <1>2
    <3> QED BY <3>1, <3>2
  <2>2. ASSUME NEW i \in 0..14 PROVE i \notin r
    <3>1. i + 1 \in 1..15 /\ (i + 1) - 1 = i
      OBVIOUS
    <3>2. i + 1 \in ShiftBit(r) <=> i \in r
      BY <1>2, <2>1, <3>1
    <3> QED BY <1>4, <3>2
  <2> QED BY <2>1, <2>2 DEF Words
<1> QED BY <1>1, <1>3, <1>4

\* So are eight of them.
LEMMA Shift8Linear ==
  /\ \A r \in Words : Shift8(r) \in Words
  /\ \A a, b \in Words : Shift8(Xor(a, b)) = Xor(Shift8(a), Shift8(b))
  /\ \A r \in Words : Shift8(r) = {} <=> r = {}
<1>1. /\ \A r \in Words : Shift4(r) \in Words
      /\ \A a, b \in Words : Shift4(Xor(a, b)) = Xor(Shift4(a), Shift4(b))
      /\ \A r \in Words : Shift4(r) = {} => r = {}
  <2>1. ASSUME NEW r \in Words
        PROVE  Shift4(r) \in Words /\ (Shift4(r) = {} => r = {})
    BY ShiftBitLinear DEF Shift4
  <2>2. ASSUME NEW a \in Words, NEW b \in Words
        PROVE  Shift4(Xor(a, b)) = Xor(Shift4(a), Shift4(b))
    BY ShiftBitLinear DEF Shift4
  <2> QED BY <2>1, <2>2
<1>2. Shift8({}) = {}
  <2>1. ShiftBit({}) = {}
    BY DEF ShiftBit, Xor, SymDiff
  <2> QED BY <2>1 DEF Shift8, Shift4
<1> QED BY <1>1, <1>2, XorType DEF Shift8

\* A word whose high byte is empty is only shifted: no one falls out.
LEMMA Shift8Low == ASSUME NEW r \in Octets PROVE Shift8(r) = Up(r)
<1>1. ASSUME NEW s, NEW n \in 0..14, s \subseteq 0..n
      PROVE  ShiftBit(s) = {i \in 1..15 : i - 1 \in s} /\ ShiftBit(s) \subseteq 0..(n + 1)
  BY <1>1 DEF ShiftBit, Xor, SymDiff
<1> DEFINE s1 == ShiftBit(r)
           s2 == ShiftBit(s1)
           s3 == ShiftBit(s2)
           s4 == ShiftBit(s3)
           s5 == ShiftBit(s4)
           s6 == ShiftBit(s5)
           s7 == ShiftBit(s6)
           s8 == ShiftBit(s7)
<1>2. s1 = {i \in 1..15 : i - 1 \in r} /\ s1 \subseteq 0..8
  <2>1. r \subseteq 0..7 /\ 15 \notin r
    BY DEF Octets
  <2>2. s1 = {i \in 1..15 : i - 1 \in r}
    BY <2>1 DEF ShiftBit, Xor, SymDiff
  <2> QED BY <2>1, <2>2
<1> HIDE DEF s1
<1>3. s2 = {i \in 2..15 : i - 2 \in r} /\ s2 \subseteq 0..9
  BY <1>1, <1>2
<1> HIDE DEF s2
<1>4. s3 = {i \in 3..15 : i - 3 \in r} /\ s3 \subseteq 0..10
  BY <1>1, <1>3
<1> HIDE DEF s3
<1>5. s4 = {i \in 4..15 : i - 4 \in r} /\ s4 \subseteq 0..11
  BY <1>1, <1>4
<1> HIDE DEF s4
<1>6. s5 = {i \in 5..15 : i - 5 \in r} /\ s5 \subseteq 0..12
  BY <1>1, <1>5
<1> HIDE DEF s5
<1>7. s6 = {i \in 6..15 : i - 6 \in r} /\ s6 \subseteq 0..13
  BY <1>1, <1>6
<1> HIDE DEF s6
<1>8. s7 = {i \in 7..15 : i - 7 \in r} /\ s7 \subseteq 0..14
  BY <1>1, <1>7
<1> HIDE DEF s7
<1>9. s8 = {i \in 8..15 : i - 8 \in r}
  BY <1>1, <1>8
<1>10. Shift8(r) = s8
  BY DEF Shift8, Shift4, s1, s2, s3, s4, s5, s6, s7, s8
<1> QED BY <1>9, <1>10 DEF Up

-----------------------------------------------------------------------------
(* The loop's step, and bursts. *)

\* A word is its high byte and its low one.
LEMMA WordParts ==
  ASSUME NEW w \in Words
  PROVE  /\ w \cap (0..7) \in Octets
         /\ w = Xor(Up(High(w)), w \cap (0..7))
         /\ Up(w) = Up(w \cap (0..7))
<1>1. \A i : i \in Up(High(w)) <=> i \in 8..15 /\ i \in w
  BY DEF Up, High
<1>2. ASSUME NEW i PROVE i \in w <=> i \in Xor(Up(High(w)), w \cap (0..7))
  <2>1. /\ i \in w => i \in 0..7 \/ i \in 8..15
        /\ ~(i \in 0..7 /\ i \in 8..15)
    <3>1. w \subseteq 0..15
      BY DEF Words
    <3>2. i \in w => i \in 0..15
      BY <3>1
    <3> QED BY <3>2
  <2>2. i \in Xor(Up(High(w)), w \cap (0..7)) <=> (i \in Up(High(w))) # (i \in w \cap (0..7))
    BY InXor
  <2> QED BY <1>1, <2>1, <2>2
<1>3. Up(w) = Up(w \cap (0..7))
  BY DEF Up
<1> QED BY <1>2, <1>3 DEF Octets

\* One turn of calc_crc16's loop, with the table, is the division by the polynomial,
\* bit by bit, of one more byte: for every checksum and every byte.
THEOREM StepIsDivision ==
  ASSUME NEW checksum \in Words, NEW byte \in 0..255
  PROVE  Step(checksum, byte) = Divide(checksum, byte) /\ Divide(checksum, byte) \in Words
<1> DEFINE index == Xor(High(checksum), Bits(byte))
           low   == checksum \cap (0..7)
<1>1. /\ index \in Octets /\ low \in Octets /\ low \in Words
      /\ Up(index) \in Words /\ Up(Bits(byte)) \in Words /\ {} \in Words
  BY NumberOfBits, UpHighType, XorType, WordParts DEF Words
<1>2. Xor(checksum, Up(Bits(byte))) = Xor(Up(index), low)
  <2>1. Up(index) = Xor(Up(High(checksum)), Up(Bits(byte)))
    BY UpHighType
  <2>2. checksum = Xor(Up(High(checksum)), low)
    BY WordParts
  <2> DEFINE up == Up(High(checksum))
             b  == Up(Bits(byte))
  <2>3. Xor(Xor(up, low), b) = Xor(Xor(up, b), low)
    BY XorGroup
  <2> QED BY <2>1, <2>2, <2>3
<1> HIDE DEF index, low
<1>3. Divide(checksum, byte) = Xor(Shift8(Up(index)), Shift8(low))
  BY <1>1, <1>2, Shift8Linear DEF Divide
<1>4. Shift8(low) = Up(checksum)
  BY <1>1, Shift8Low, WordParts DEF low
<1>5. crc16_tab[Number(index)] = Shift8(Up(index))
  <2>1. Number(index) \in 0..255 /\ Bits(Number(index)) = index
    BY <1>1, BitsOfNumber
  <2>2. Xor({}, Up(index)) = Up(index)
    BY XorGroup
  <2> QED BY <2>1, <2>2, TableAssumption DEF Divide
<1>6. Step(checksum, byte) = Divide(checksum, byte)
  BY <1>3, <1>4, <1>5 DEF Step, index
<1> QED BY <1>1, <1>6, Shift8Linear, XorType DEF Divide

\* The remainder of a difference is the difference of the remainders, whatever was
\* divided before: what a byte's wrong bits add to a checksum does not depend on it.
LEMMA DivideDifference ==
  ASSUME NEW r1 \in Words, NEW r2 \in Words, NEW b1 \in 0..255, NEW b2 \in 0..255
  PROVE  Xor(Divide(r1, b1), Divide(r2, b2))
           = Shift8(Xor(Xor(r1, r2), Up(Xor(Bits(b1), Bits(b2)))))
<1> DEFINE u1 == Up(Bits(b1))
           u2 == Up(Bits(b2))
<1>1. u1 \in Words /\ u2 \in Words /\ Xor(u1, u2) = Up(Xor(Bits(b1), Bits(b2)))
  BY UpHighType
<1> HIDE DEF u1, u2
<1>2. Xor(Shift8(Xor(r1, u1)), Shift8(Xor(r2, u2))) = Shift8(Xor(Xor(r1, u1), Xor(r2, u2)))
  BY <1>1, Shift8Linear, XorType
<1>3. Xor(Xor(r1, u1), Xor(r2, u2)) = Xor(Xor(r1, r2), Xor(u1, u2))
  BY XorSwap
<1> QED BY <1>1, <1>2, <1>3 DEF Divide, u1, u2

\* Where the bits of a word go in four steps of the division.
LEMMA Shift4Bits ==
  ASSUME NEW r
  PROVE  /\ 0 \in Shift4(r) <=> 12 \in r
         /\ 1 \in Shift4(r) <=> 13 \in r
         /\ 2 \in Shift4(r) <=> 14 \in r
         /\ 3 \in Shift4(r) <=> 15 \in r
         /\ 4 \in Shift4(r) <=> 0 \in r
         /\ 5 \in Shift4(r) <=> (1 \in r) # (12 \in r)
         /\ 6 \in Shift4(r) <=> (2 \in r) # (13 \in r)
         /\ 7 \in Shift4(r) <=> (3 \in r) # (14 \in r)
         /\ 12 \in Shift4(r) <=> (8 \in r) # (12 \in r)
         /\ 13 \in Shift4(r) <=> (9 \in r) # (13 \in r)
         /\ 14 \in Shift4(r) <=> (10 \in r) # (14 \in r)
         /\ 15 \in Shift4(r) <=> (11 \in r) # (15 \in r)
<1>1. ASSUME NEW s
      PROVE  /\ 0 \in ShiftBit(s) <=> 15 \in s
             /\ 5 \in ShiftBit(s) <=> (4 \in s) # (15 \in s)
             /\ 12 \in ShiftBit(s) <=> (11 \in s) # (15 \in s)
             /\ \A i \in 1..15 \ {5, 12} : i \in ShiftBit(s) <=> i - 1 \in s
  BY InXor DEF ShiftBit
<1>2. ASSUME NEW s
      PROVE  /\ 0 \in ShiftBit(s) <=> 15 \in s
             /\ 1 \in ShiftBit(s) <=> 0 \in s
             /\ 2 \in ShiftBit(s) <=> 1 \in s
             /\ 3 \in ShiftBit(s) <=> 2 \in s
             /\ 4 \in ShiftBit(s) <=> 3 \in s
             /\ 5 \in ShiftBit(s) <=> (4 \in s) # (15 \in s)
             /\ 6 \in ShiftBit(s) <=> 5 \in s
             /\ 7 \in ShiftBit(s) <=> 6 \in s
             /\ 8 \in ShiftBit(s) <=> 7 \in s
             /\ 9 \in ShiftBit(s) <=> 8 \in s
             /\ 10 \in ShiftBit(s) <=> 9 \in s
             /\ 11 \in ShiftBit(s) <=> 10 \in s
             /\ 12 \in ShiftBit(s) <=> (11 \in s) # (15 \in s)
             /\ 13 \in ShiftBit(s) <=> 12 \in s
             /\ 14 \in ShiftBit(s) <=> 13 \in s
             /\ 15 \in ShiftBit(s) <=> 14 \in s
  BY <1>1
<1> QED BY <1>2 DEF Shift4

\* A burst shows in the remainder: after its first byte, after its second, and after its
\* third when no bit is wrong in both the first and the third, the remainder is not that
\* of the right bytes.  The low byte of what the first byte comes to would have to equal
\* the third byte, and that leaves each of its bits right, one after the other.
LEMMA BurstShows ==
  ASSUME NEW x1 \in Octets, NEW x2 \in Octets, NEW x3 \in Octets, x1 # {}, x1 \cap x3 = {}
  PROVE  LET one == Shift8(Up(x1))
             two == Shift8(Xor(one, Up(x2)))
         IN  one \in Words /\ two \in Words /\ one # {} /\ Shift8(Xor(two, Up(x3))) # {}
<1> DEFINE one == Shift8(Up(x1))
           two == Shift8(Xor(one, Up(x2)))
<1>1. Up(x1) \in Words /\ Up(x2) \in Words /\ Up(x3) \in Words /\ x3 \in Words
  BY UpHighType DEF Octets, Words
<1>2. one \in Words /\ two \in Words
  BY <1>1, Shift8Linear, XorType
<1>3. ASSUME one \cap (0..7) = x3 PROVE FALSE
  <2>1. /\ 0 \in one <=> (0 \in x1) # (4 \in x1)
        /\ 1 \in one <=> (1 \in x1) # (5 \in x1)
        /\ 2 \in one <=> (2 \in x1) # (6 \in x1)
        /\ 3 \in one <=> (3 \in x1) # (7 \in x1)
        /\ 4 \in one <=> 4 \in x1
        /\ 5 \in one <=> (5 \in x1) # ((0 \in x1) # (4 \in x1))
        /\ 6 \in one <=> (6 \in x1) # ((1 \in x1) # (5 \in x1))
        /\ 7 \in one <=> (7 \in x1) # ((2 \in x1) # (6 \in x1))
    <3> DEFINE w == Up(x1)
               t == Shift4(w)
    <3>1. /\ 8 \in w <=> 0 \in x1
          /\ 9 \in w <=> 1 \in x1
          /\ 10 \in w <=> 2 \in x1
          /\ 11 \in w <=> 3 \in x1
          /\ 12 \in w <=> 4 \in x1
          /\ 13 \in w <=> 5 \in x1
          /\ 14 \in w <=> 6 \in x1
          /\ 15 \in w <=> 7 \in x1
      BY DEF Up
    <3>2. one = Shift4(t)
      BY DEF Shift8
    <3> HIDE DEF w, one
    <3> QED BY <3>1, <3>2, Shift4Bits
  <2>2. \A i \in 0..7 : i \in x1 => i \notin one
    BY <1>3
  <2>3. 4 \notin x1
    BY <2>1, <2>2
  <2>4. 0 \notin x1
    BY <2>1, <2>2, <2>3
  <2>5. 5 \notin x1
    BY <2>1, <2>2, <2>3, <2>4
  <2>6. 1 \notin x1
    BY <2>1, <2>2, <2>5
  <2>7. 6 \notin x1
    BY <2>1, <2>2, <2>5, <2>6
  <2>8. 2 \notin x1
    BY <2>1, <2>2, <2>7
  <2>9. 7 \notin x1
    BY <2>1, <2>2, <2>7, <2>8
  <2>10. 3 \notin x1
    BY <2>1, <2>2, <2>9
  <2>11. \A i \in 0..7 : i = 0 \/ i = 1 \/ i = 2 \/ i = 3 \/ i = 4 \/ i = 5 \/ i = 6 \/ i = 7
    OBVIOUS
  <2> QED BY <2>3, <2>4, <2>5, <2>6, <2>7, <2>8, <2>9, <2>10, <2>11 DEF Octets
<1>4. one # {}
  <2>1. Up(x1) # {}
    <3>1. PICK i \in 0..7 : i \in x1
      BY DEF Octets
    <3>2. i + 8 \in 8..15 /\ (i + 8) - 8 = i
      OBVIOUS
    <3>3. i + 8 \in Up(x1)
      BY <3>1, <3>2 DEF Up
    <3> QED BY <3>3
  <2> QED BY <1>1, <2>1, Shift8Linear
<1>5. ASSUME Shift8(Xor(two, Up(x3))) = {} PROVE FALSE
  <2> HIDE DEF one
  <2>1. Xor(two, Up(x3)) = {}
    BY <1>1, <1>2, <1>5, Shift8Linear, XorType
  <2>2. two = Shift8(x3)
    <3>1. two = Up(x3)
      BY <2>1, XorGroup
    <3> QED BY <3>1, Shift8Low
  <2>3. Shift8(Xor(Xor(one, Up(x2)), x3)) = {}
    <3>1. Shift8(Xor(Xor(one, Up(x2)), x3)) = Xor(two, Shift8(x3))
      BY <1>1, <1>2, Shift8Linear, XorType
    <3> QED BY <2>2, <3>1, XorGroup
  <2>4. Xor(one, Up(x2)) = x3
    <3>1. Xor(Xor(one, Up(x2)), x3) = {}
      BY <1>1, <1>2, <2>3, Shift8Linear, XorType
    <3> QED BY <3>1, XorGroup
  <2>5. ASSUME NEW i \in 0..7 PROVE i \in one <=> i \in x3
    <3>1. i \notin Up(x2)
      BY DEF Up
    <3>2. i \in x3 <=> (i \in one) # (i \in Up(x2))
      BY <2>4, InXor
    <3> QED BY <3>1, <3>2
  <2> QED BY <1>3, <2>5 DEF Octets
<1> QED BY <1>2, <1>4, <1>5
=============================================================================
