--------------------------- MODULE PacketReceiver ---------------------------
(***************************************************************************)
(* The packets of the serial link as SerialProtocol::GetPacket takes them  *)
(* apart, one byte per call: start of header, length, data, two bytes of   *)
(* CRC.  The device sends packets in the format of SendPacket; the line    *)
(* may lose or damage bytes and may be silent for longer than the          *)
(* receiver waits inside a packet (INTRAPACKET_TIMEOUT).                   *)
(*                                                                         *)
(* The CRC is a constant (Crc has the one of the code); only               *)
(* DamagedIsDropped depends on how well it tells damage from data.  A gap  *)
(* between two packets is of no effect unless it is a silence, so one      *)
(* packet is on the line at a time.                                        *)
(***************************************************************************)
EXTENDS Integers, Sequences

CONSTANTS MaxByte,            \* largest value of a byte (255)
          SOH,                \* start of header (0x11)
          MAX_PACKET_LENGTH,  \* longest data of a packet (35)
          Commands,           \* first bytes of the packets GetPacket supports
          CRC,                \* low and high byte of the CRC of a packet
          Packets,            \* packets the device sends
          MaxErrors,          \* bound on the bytes lost or damaged
          Reopening           \* whether the application reopens the port

Byte == 0 .. MaxByte
Contents == UNION {[1 .. n -> Byte] : n \in 0 .. MAX_PACKET_LENGTH}

ASSUME ByteAssumption == /\ MaxByte \in Nat
                         /\ SOH \in Byte
                         /\ Commands \subseteq Byte
                         /\ MAX_PACKET_LENGTH \in Byte \ {0}
ASSUME CRCAssumption == CRC \in [Contents -> Byte \X Byte]
ASSUME PacketsAssumption == /\ Packets \subseteq Contents
                            /\ \A p \in Packets : Len(p) > 0 /\ p[1] \in Commands
ASSUME ErrorsAssumption == MaxErrors \in Nat /\ Reopening \in BOOLEAN

VARIABLES
  ReceiveState,    \* STATE_START .. STATE_CHECKH
  Length,          \* IncomingPacket.Length
  Data,            \* IncomingPacket.Data
  BytesRemaining,
  IncomingCRC,     \* low and high byte
  overdue,         \* time(NULL) >= ReceiveTimeout
  line,            \* bytes on their way to the host
  received,        \* what the last call of GetPacket returned
  sent,            \* history: the packet on the line
  began,           \* history: how the receiver stood when it began to arrive
  streak,          \* history: packets sent since the last damage
  errors           \* history: bytes lost or damaged

receiver == <<ReceiveState, Length, Data, BytesRemaining, IncomingCRC>>
vars == <<receiver, overdue, line, received, sent, began, streak, errors>>

Nothing == <<>>
NoPacket == <<>>

Init ==
  /\ ReceiveState = "START"
  /\ Length = 0 /\ BytesRemaining = 0
  /\ Data = [i \in 0 .. MAX_PACKET_LENGTH - 1 |-> 0]
  /\ IncomingCRC = <<0, 0>>
  /\ overdue = FALSE /\ line = <<>>
  /\ received = Nothing
  /\ sent = NoPacket /\ began = "none" /\ streak = 0 /\ errors = 0

-----------------------------------------------------------------------------
(* The line.                                                               *)

(* SendPacket's format: header, length, data, CRC low byte first.          *)
Encode(p) == <<SOH, Len(p)>> \o p \o CRC[p]

(* No byte of the packet but its first is the one that starts a packet.    *)
(* It is one by chance: the length, the data and the CRC may all hold SOH. *)
Clear(p) == \A i \in 2 .. Len(p) + 4 : Encode(p)[i] # SOH

(* How many clear packets in a row it takes at most to be in step again.   *)
Shortest == 5
ResyncAfter == (MAX_PACKET_LENGTH + Shortest + 1) \div Shortest + 1

Transmit(p) ==
  /\ line = <<>>
  /\ line' = Encode(p)
  /\ sent' = p
  /\ began' = IF ReceiveState = "START" THEN "in_step"
              ELSE IF overdue /\ ReceiveState # "LENGTH" THEN "after_silence"
              ELSE "out_of_step"
  /\ streak' = IF streak = ResyncAfter THEN streak
               ELSE IF Clear(p) THEN streak + 1 ELSE 0
  /\ received' = Nothing
  /\ UNCHANGED <<receiver, overdue, errors>>

Damage(rest, kind) ==
  /\ line # <<>> /\ errors < MaxErrors
  /\ line' = rest
  /\ errors' = errors + 1
  /\ began' = kind /\ streak' = 0
  /\ received' = Nothing
  /\ UNCHANGED <<receiver, overdue, sent>>
Taken == Len(sent) + 4 - Len(line)   \* bytes of the packet taken so far
LoseByte == Damage(Tail(line), "damaged")
ChangeByte ==
  /\ line # <<>>
  /\ \E b \in Byte \ {Head(line)} :
       Damage(<<b>> \o Tail(line),
              IF began = "in_step" /\ Taken >= 2 /\ (Taken = 2 => Clear(sent))
                THEN "changed" ELSE "damaged")

(* Disconnect and Connect: the bytes on the line are lost, and the         *)
(* receiver stays in the state it was in.                                  *)
Reopen == Reopening /\ Damage(<<>>, "damaged")

(* Nothing arrives for so long that ReceiveTimeout passes, between two     *)
(* packets or inside one.  A read that times out succeeds with 0 bytes,    *)
(* and GetPacket then looks at no state.                                   *)
Silence ==
  /\ overdue' = TRUE
  /\ received' = Nothing
  /\ UNCHANGED <<receiver, line, sent, began, streak, errors>>

(* A read that fails is where GetPacket looks at its timeout; what it has  *)
(* of a packet whose rest still comes is then given up.                    *)
ReadFails ==
  LET late == overdue /\ ReceiveState \notin {"LENGTH", "START"}
      givenUp == late /\ line # <<>> /\ Taken > 0
  IN /\ ReceiveState' = IF late THEN "START" ELSE ReceiveState
     /\ began' = IF givenUp THEN "given_up" ELSE began
     /\ streak' = IF givenUp THEN 0 ELSE streak
     /\ received' = Nothing
     /\ UNCHANGED <<Length, Data, BytesRemaining, IncomingCRC, overdue, line,
                    sent, errors>>

-----------------------------------------------------------------------------
(* A byte arrives: one case of GetPacket's switch each.                    *)

GetStart(b) ==
  /\ ReceiveState = "START"
  /\ ReceiveState' = IF b = SOH THEN "LENGTH" ELSE "START"
  /\ received' = Nothing /\ overdue' = FALSE
  /\ UNCHANGED <<Length, Data, BytesRemaining, IncomingCRC>>

OneTooLong(n) == n > MAX_PACKET_LENGTH + 1                       \* mutant
TooLong(n) == n > MAX_PACKET_LENGTH

GetLength(b) ==
  /\ ReceiveState = "LENGTH"
  /\ Length' = b /\ BytesRemaining' = b
  /\ \/ b = 0 /\ ReceiveState' = "CHECKL" /\ IncomingCRC' = <<0, 0>>
     \/ TooLong(b) /\ ReceiveState' = "START" /\ UNCHANGED IncomingCRC
     \/ b # 0 /\ ~TooLong(b) /\ ReceiveState' = "DATA" /\ UNCHANGED IncomingCRC
  /\ received' = Nothing /\ overdue' = FALSE
  /\ UNCHANGED Data

(* The first data byte has to be a supported command; if it is the only    *)
(* one, the code goes on to the CRC all the same.                          *)
AnyCommand(b) == TRUE                                            \* mutant
Supported(b) == b \in Commands
KeepCRC(last) == IncomingCRC                                     \* mutant
ResetCRC(last) == IF last THEN <<0, 0>> ELSE IncomingCRC

GetData(b) ==
  LET first == Length = BytesRemaining
      last == BytesRemaining = 1
  IN /\ ReceiveState = "DATA"
     /\ Data' = [Data EXCEPT ![Length - BytesRemaining] = b]
     /\ BytesRemaining' = BytesRemaining - 1
     /\ ReceiveState' = IF last THEN "CHECKL"
                        ELSE IF first /\ ~Supported(b) THEN "START" ELSE "DATA"
     /\ IncomingCRC' = ResetCRC(last)
     /\ received' = Nothing /\ overdue' = FALSE
     /\ UNCHANGED Length

(* IncomingCRC |= b; what a byte ORed to one that is not 0 gives is left   *)
(* open.                                                                   *)
Merged(old, b) == IF old = 0 THEN {b} ELSE Byte

GetCheckL(b) ==
  /\ ReceiveState = "CHECKL"
  /\ \E c \in Merged(IncomingCRC[1], b) : IncomingCRC' = <<c, IncomingCRC[2]>>
  /\ ReceiveState' = "CHECKH"
  /\ received' = Nothing /\ overdue' = FALSE
  /\ UNCHANGED <<Length, Data, BytesRemaining>>

Incoming == [i \in 1 .. Length |-> Data[i - 1]]
StayInCheck == "CHECKH"                                          \* mutant
AfterCheck == "START"

GetCheckH(b) ==
  /\ ReceiveState = "CHECKH"
  /\ \E c \in Merged(IncomingCRC[2], b) :
       /\ IncomingCRC' = <<IncomingCRC[1], c>>
       /\ received' = IF CRC[Incoming] = <<IncomingCRC[1], c>>
                      THEN <<Incoming>> ELSE Nothing
  /\ ReceiveState' = AfterCheck
  /\ UNCHANGED <<Length, Data, BytesRemaining, overdue>>

GetPacket ==
  /\ line # <<>>
  /\ line' = Tail(line)
  /\ LET b == Head(line)
     IN GetStart(b) \/ GetLength(b) \/ GetData(b) \/ GetCheckL(b) \/ GetCheckH(b)
  /\ UNCHANGED <<sent, began, streak, errors>>

Next == \/ \E p \in Packets : Transmit(p)
        \/ LoseByte \/ ChangeByte \/ Reopen \/ Silence \/ ReadFails \/ GetPacket

Spec == Init /\ [][Next]_vars

-----------------------------------------------------------------------------
(* What DamagedIsDropped needs of the CRC: it tells a packet from every    *)
(* other that differs from it in one byte.                                 *)
OneApart(p, q) == /\ Len(p) = Len(q)
                  /\ \E k \in 1 .. Len(p) : \A i \in 1 .. Len(p) : p[i] = q[i] <=> i # k
TellsOneByte == \A p \in Packets, q \in Contents : OneApart(p, q) => CRC[p] # CRC[q]

(* Whatever arrives, GetPacket stays within IncomingPacket.Data when it    *)
(* stores a byte and when it computes the CRC of what it stored.           *)
IndexInRange ==
  /\ ReceiveState = "DATA" => Length - BytesRemaining \in 0 .. MAX_PACKET_LENGTH - 1
  /\ ReceiveState \in {"CHECKL", "CHECKH"} => Length \in 0 .. MAX_PACKET_LENGTH

(* A packet that begins to arrive when the receiver waits for one, and is  *)
(* neither damaged nor given up at a read that fails, is received as it    *)
(* was sent, with its last byte, whatever pauses there are in it.          *)
LastByte == GetPacket /\ Len(line) = 1
InStepIsReceived ==
  [][LastByte /\ began = "in_step" => received' = <<sent>>]_vars

(* Once a few clear packets in a row have arrived whole, the receiver is   *)
(* in step, whatever it made of the bytes it got before, and it stays so   *)
(* until the next damage whatever the packets hold that follow.            *)
Resynchronises ==
  line = <<>> /\ streak >= ResyncAfter => ReceiveState = "START"

(* A packet that began in step and of which one byte behind the length,    *)
(* data or CRC, was changed is dropped, and nothing in it is taken for     *)
(* another packet; if it is the command that was changed, this is so only  *)
(* for a clear packet, because the receiver may then look for the next     *)
(* SOH inside this one.  It rests on TellsOneByte.                         *)
DamagedIsDropped == [][received' # Nothing => began # "changed"]_vars

(* A packet of a command GetPacket does not support is dropped ("unkown    *)
(* command, start over", SerialProtocol.cpp:764), unless it has one byte   *)
(* or none.                                                                *)
OnlySupported ==
  received # Nothing /\ Len(received[1]) > 1 => received[1][1] \in Commands

(* A packet that arrives after the line was silent for longer than the     *)
(* timeout inside a packet is received: the timeout has ended what was     *)
(* received in part ("check for timeout and reset state machine if         *)
(* needed", SerialProtocol.cpp:705), unless that is a start of header only *)
(* (STATE_LENGTH), which the code lets wait for as long as it takes.       *)
SilenceEndsPacket ==
  [][LastByte /\ began = "after_silence" => received' = <<sent>>]_vars

-----------------------------------------------------------------------------
(* The inductive invariant behind the two theorems: the types, the counter *)
(* of the bytes still to come, and how far a packet that began in step and *)
(* is not damaged has got.                                                 *)
TypeOK ==
  /\ ReceiveState \in {"START", "LENGTH", "DATA", "CHECKL", "CHECKH"}
  /\ Length \in Byte /\ BytesRemaining \in Byte
  /\ Data \in [0 .. MAX_PACKET_LENGTH - 1 -> Byte]
  /\ IncomingCRC \in Byte \X Byte
  /\ line \in Seq(Byte)
  /\ overdue \in BOOLEAN

Counted ==
  /\ ReceiveState = "DATA" => /\ BytesRemaining \in 1 .. Length
                              /\ Length <= MAX_PACKET_LENGTH
  /\ ReceiveState \in {"CHECKL", "CHECKH"} => Length <= MAX_PACKET_LENGTH

(* The receiver has taken the first bytes of s, a packet as it arrives:    *)
(* what it has stored of them, and that the others are still on the line.  *)
Stored(s, n) == Length = Len(sent) /\ \A i \in 1 .. n : Data[i - 1] = s[i + 2]
Carries(s) ==
  /\ sent \in Packets
  /\ Taken \in 0 .. Len(sent) + 3
  /\ \A i \in 1 .. Len(line) : line[i] = s[Taken + i]
  /\ Taken = 0 => ReceiveState = "START"
  /\ Taken = 1 => ReceiveState = "LENGTH"
  /\ Taken \in 2 .. Len(sent) + 1 =>
       /\ ReceiveState = "DATA" /\ BytesRemaining = Len(sent) + 2 - Taken
       /\ Stored(s, Taken - 2)
  /\ Taken = Len(sent) + 2 =>
       ReceiveState = "CHECKL" /\ Stored(s, Len(sent)) /\ IncomingCRC = <<0, 0>>
  /\ Taken = Len(sent) + 3 =>
       /\ ReceiveState = "CHECKH" /\ Stored(s, Len(sent))
       /\ IncomingCRC = <<s[Len(sent) + 3], 0>>
InStep == Carries(Encode(sent))
Follows == began = "in_step" /\ line # <<>> => InStep
Inv == TypeOK /\ Counted /\ Follows
=============================================================================
