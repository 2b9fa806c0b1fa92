-------------------------- MODULE MCPacketReceiver --------------------------
(* The receiver for TLC: bytes of three bits, packets of up to two         *)
(* bytes, and the code's CRC with a register of six bits and the           *)
(* polynomial x^6 + x + 1.  The last packet holds SOH behind its start,    *)
(* the others are clear.                                                   *)
EXTENDS PacketCrc

MCCRC == [packet \in Contents |-> PacketCRC(packet)]
MCPackets == {<<3>>, <<4, 0>>, <<4, 6>>}
=============================================================================
