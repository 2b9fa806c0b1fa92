----------------------------- MODULE PacketCrc -----------------------------
(***************************************************************************)
(* The receiver of PacketReceiver with the CRC that CRC.cpp computes.      *)
(***************************************************************************)
EXTENDS PacketReceiver, Crc

ASSUME CodesCRC == CRC = [packet \in Contents |-> PacketCRC(packet)]

(* Bytes have Bits bits, and the polynomial ends in 1, as 0x1021 does.     *)
ASSUME BytesFit == \A b \in Byte : Shifted(b)[Bits] = 0
ASSUME PolynomialEndsInOne == 0 \in CRCPOLYNOMIAL

(* For every packet whose data the receiver has, and not only for those    *)
(* the device sends, CRC.cpp computes the remainder of the polynomial      *)
(* division by x^Width + CRCPOLYNOMIAL ("x^16 + x^12 + x^5 + 1",           *)
(* CRC.cpp:18), the length byte included.                                  *)
ChecksumIsRemainder ==
  ReceiveState = "CHECKH" => Checksum(Incoming) = Remainder(Incoming)
=============================================================================
