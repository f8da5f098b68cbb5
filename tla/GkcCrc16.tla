------------------------------ MODULE GkcCrc16 ------------------------------
(***************************************************************************)
(* GkcPacketUtils::calc_crc16.  A uint16_t is the set of its bits, so that *)
(* exclusive or is symmetric difference; bytes are numbers, as in the rest *)
(* of the packet models, which take the checksum as the value of their     *)
(* parameter Crc.  The table is a parameter: CrcTable.tla has the source's *)
(***************************************************************************)
EXTENDS Naturals, Sequences, FiniteSetsExt

CONSTANT crc16_tab   \* byte |-> uint16_t

Words  == SUBSET (0..15)
Octets == SUBSET (0..7)   \* the bits of a byte

Bits(byte) == {i \in 0..7 : (byte \div <<1, 2, 4, 8, 16, 32, 64, 128>>[i + 1]) % 2 = 1}

\* The number whose lowest eight bits these are.
Number(bits) ==
  LET bit(i) == IF i \in bits THEN 1 ELSE 0
  IN  bit(0) + 2 * bit(1) + 4 * bit(2) + 8 * bit(3)
        + 16 * bit(4) + 32 * bit(5) + 64 * bit(6) + 128 * bit(7)

Xor(a, b) == SymDiff(a, b)

High(word) == {i \in 0..7 : i + 8 \in word}    \* word >> 8
Up(word)   == {i \in 8..15 : i - 8 \in word}   \* word << 8

-----------------------------------------------------------------------------
\* The checksum the table stands for: the remainder of division by the polynomial
\* x^16 + x^12 + x^5 + 1, bit by bit.  Shift left, and subtract the polynomial when
\* a one falls out.
ShiftBit(r) == Xor({i \in 1..15 : i - 1 \in r}, IF 15 \in r THEN {0, 5, 12} ELSE {})

Shift4(r) == ShiftBit(ShiftBit(ShiftBit(ShiftBit(r))))
Shift8(r) == Shift4(Shift4(r))

Divide(r, byte) == Shift8(Xor(r, Up(Bits(byte))))

\* Each entry of the table is the remainder of its index.
ASSUME TableAssumption ==
  /\ crc16_tab \in [0..255 -> Words]
  /\ \A byte \in 0..255 : crc16_tab[byte] = Divide({}, byte)

-----------------------------------------------------------------------------
\* Mutant: the table is indexed by the low byte of the checksum.
StepLowByte(checksum, byte) ==
  Xor(crc16_tab[Number(Xor(checksum \cap (0..7), Bits(byte)))], Up(checksum))

\* Mutant: the index is the checksum's high byte alone.
StepIgnoresByte(checksum, byte) == Xor(crc16_tab[Number(High(checksum))], Up(checksum))

\* The body of the loop.
Step(checksum, byte) == Xor(crc16_tab[Number(Xor(High(checksum), Bits(byte)))], Up(checksum))

\* The loop, from a checksum over the bytes still to be read.
loop[checksum \in Words, bytes \in Seq(Nat)] ==
  IF bytes = << >> THEN checksum ELSE loop[Step(checksum, Head(bytes)), Tail(bytes)]

calc_crc16(payload) == loop[{}, payload]

\* The two bytes of the checksum as they are on the wire (little-endian host).
Wire(checksum) == <<Number(checksum), Number(High(checksum))>>
=============================================================================
