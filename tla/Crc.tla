-------------------------------- MODULE Crc --------------------------------
(***************************************************************************)
(* The CRC of the serial packets (CRC.cpp), bit by bit as the code has it. *)
(* A register is the set of the exponents of its bits.                     *)
(***************************************************************************)
EXTENDS Integers, Sequences, FiniteSets

CONSTANTS Bits,          \* bits of a byte (8)
          CRCPOLYNOMIAL  \* exponents of the polynomial below 2 * Bits (0x1021)

Width == 2 * Bits
Register == SUBSET (0 .. Width - 1)

ASSUME CrcAssumption == Bits \in Nat \ {0} /\ CRCPOLYNOMIAL \in Register

Xor(a, b) == (a \ b) \union (b \ a)

(* One bit shifted in, and the polynomial taken off for the one shifted    *)
(* out.                                                                    *)
Shift(crc, bit) == {i + 1 : i \in crc \ {Width - 1}} \union (IF bit = 1 THEN {0} ELSE {})
NoPolynomial(crc, bit) == Shift(crc, bit)                        \* mutant
Step(crc, bit) ==
  IF Width - 1 \in crc THEN Xor(Shift(crc, bit), CRCPOLYNOMIAL) ELSE Shift(crc, bit)

(* A byte shifted to the right by 0 to Bits; the bit of it that the loop   *)
(* takes i-th, the highest first.                                          *)
Shifted(data) ==
  LET half[n \in 0 .. Bits] == IF n = 0 THEN data ELSE half[n - 1] \div 2 IN half
BitOf(data, i) == Shifted(data)[Bits - i] % 2
Add(crc, data) ==
  LET after[i \in 0 .. Bits] == IF i = 0 THEN crc ELSE Step(after[i - 1], BitOf(data, i))
  IN after[Bits]

OneShort(crc) ==                                                 \* mutant
  LET after[i \in 0 .. Width] == IF i = 0 THEN crc ELSE Step(after[i - 1], 0)
  IN after[Width - 1]
Finalize(crc) ==
  LET after[i \in 0 .. Width] == IF i = 0 THEN crc ELSE Step(after[i - 1], 0)
  IN after[Width]

(* The two bytes of a CRC.                                                 *)
Number(crc, from) ==
  LET value[n \in 0 .. Bits] ==
        IF n = 0 THEN 0 ELSE 2 * value[n - 1] + (IF from + Bits - n \in crc THEN 1 ELSE 0)
  IN value[Bits]

(* The CRC of a packet, low byte first: over its length and its data.      *)
Covered(packet) == <<Len(packet)>> \o packet
Checksum(packet) ==
  LET crc[k \in 0 .. Len(packet) + 1] ==
        IF k = 0 THEN {} ELSE Add(crc[k - 1], Covered(packet)[k])
  IN Finalize(crc[Len(packet) + 1])
PacketCRC(packet) == <<Number(Checksum(packet), 0), Number(Checksum(packet), Bits)>>

-----------------------------------------------------------------------------
(* Reference: what the code should compute is the remainder of the bits    *)
(* of length and data, as a polynomial times x^Width, by x^Width +         *)
(* CRCPOLYNOMIAL.                                                          *)

(* A remainder times x, and the remainders of x^0 to x^n.                  *)
TimesX(s) == LET up == {i + 1 : i \in s}
             IN IF Width \in up THEN Xor(up \ {Width}, CRCPOLYNOMIAL) ELSE up
PowersOfX(n) ==
  LET power[i \in 0 .. n] == IF i = 0 THEN {0} ELSE TimesX(power[i - 1]) IN power

Odd(S) == Cardinality(S) % 2 = 1
Remainder(packet) ==
  LET last == Len(packet) + 1
      terms == {t \in (1 .. last) \X (1 .. Bits) : BitOf(Covered(packet)[t[1]], t[2]) = 1}
      power == PowersOfX(Bits * last + Width)
  IN {i \in 0 .. Width - 1 :
        Odd({t \in terms : i \in power[Bits * (last - t[1]) + Bits - t[2] + Width]})}
=============================================================================
