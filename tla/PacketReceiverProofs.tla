------------------------ MODULE PacketReceiverProofs ------------------------
(***************************************************************************)
(* GetPacket stays within its buffer whatever arrives, receives every      *)
(* packet that begins in step and is not damaged, and returns no packet of *)
(* a command it does not support: for every set of bytes, commands and     *)
(* packets, every CRC and every limit on the length.  A bounded number of  *)
(* packets that hold no SOH behind their start bring it in step again      *)
(* after damage, and with a CRC that tells changes of one byte it drops a  *)
(* packet so changed.                                                      *)
(***************************************************************************)
EXTENDS PacketReceiver, SequenceTheorems, TLAPS

LEMMA ByteFacts == /\ MaxByte \in Nat
                   /\ \A b \in Byte : b \in Nat
                   /\ SOH \in Byte /\ MAX_PACKET_LENGTH \in Nat \ {0}
                   /\ 0 \in Byte /\ MAX_PACKET_LENGTH <= MaxByte
  BY ByteAssumption DEF Byte

(* A packet is a sequence of bytes with a length the receiver accepts.     *)
LEMMA PacketFacts ==
  ASSUME NEW p \in Packets
  PROVE  /\ p \in Contents /\ p \in Seq(Byte)
         /\ Len(p) \in 1 .. MAX_PACKET_LENGTH /\ Len(p) \in Byte
         /\ p[1] \in Commands
         /\ p \in [1 .. Len(p) -> Byte]
         /\ CRC[p] \in Byte \X Byte
<1>1. p \in Contents /\ Len(p) > 0 /\ p[1] \in Commands
  BY PacketsAssumption
<1>2. PICK n \in 0 .. MAX_PACKET_LENGTH : p \in [1 .. n -> Byte]
  BY <1>1 DEF Contents
<1>3. p \in Seq(Byte) /\ Len(p) = n
  BY <1>2
<1>4. CRC[p] \in Byte \X Byte
  BY <1>1, CRCAssumption
<1> QED
  BY <1>1, <1>2, <1>3, <1>4, ByteFacts DEF Byte

(* A sequence of bytes with the header and the length of the packet that   *)
(* was sent: that packet, or what damage behind its length made of it.     *)
Frame(s) == /\ s \in Seq(Byte) /\ Len(s) = Len(sent) + 4
            /\ s[1] = SOH /\ s[2] = Len(sent)

(* The bytes of a packet on the line, one by one.                          *)
LEMMA EncodeBytes ==
  ASSUME NEW p \in Packets
  PROVE  /\ Encode(p) \in Seq(Byte)
         /\ Len(Encode(p)) = Len(p) + 4
         /\ Encode(p)[1] = SOH
         /\ Encode(p)[2] = Len(p)
         /\ \A i \in 1 .. Len(p) : Encode(p)[i + 2] = p[i]
         /\ Encode(p)[Len(p) + 3] = CRC[p][1]
         /\ Encode(p)[Len(p) + 4] = CRC[p][2]
<1>1. /\ p \in Seq(Byte) /\ Len(p) \in Byte /\ Len(p) \in Nat
      /\ CRC[p] \in Byte \X Byte /\ SOH \in Byte
  BY PacketFacts, ByteFacts
<1> DEFINE head == <<SOH, Len(p)>>
           tail == <<CRC[p][1], CRC[p][2]>>
<1>2. CRC[p] = tail
  BY <1>1
<1>3. /\ head \in Seq(Byte) /\ Len(head) = 2 /\ head[1] = SOH /\ head[2] = Len(p)
      /\ tail \in Seq(Byte) /\ Len(tail) = 2
      /\ tail[1] = CRC[p][1] /\ tail[2] = CRC[p][2]
  BY <1>1
<1>4. Encode(p) = (head \o p) \o tail
  BY <1>2 DEF Encode
<1> HIDE DEF head, tail
<1> DEFINE front == head \o p
<1>5. /\ front \in Seq(Byte) /\ Len(front) = Len(p) + 2
      /\ \A i \in 1 .. Len(p) + 2 : front[i] = IF i <= 2 THEN head[i] ELSE p[i - 2]
  <2>1. head \in Seq(Byte) /\ p \in Seq(Byte)
    BY <1>1, <1>3
  <2>2. /\ head \o p \in Seq(Byte) /\ Len(head \o p) = Len(head) + Len(p)
        /\ \A i \in 1 .. Len(head) + Len(p) :
             (head \o p)[i] = IF i <= Len(head) THEN head[i] ELSE p[i - Len(head)]
    BY <2>1, ConcatProperties
  <2> QED
    BY <1>1, <1>3, <2>2
<1> HIDE DEF front
<1>6. /\ Encode(p) \in Seq(Byte) /\ Len(Encode(p)) = Len(p) + 4
      /\ \A i \in 1 .. Len(p) + 4 :
           Encode(p)[i] = IF i <= Len(p) + 2 THEN front[i] ELSE tail[i - (Len(p) + 2)]
  <2>1. Encode(p) = front \o tail
    BY <1>4 DEF front
  <2>2. front \in Seq(Byte) /\ tail \in Seq(Byte)
    BY <1>3, <1>5
  <2>3. /\ front \o tail \in Seq(Byte) /\ Len(front \o tail) = Len(front) + Len(tail)
        /\ \A i \in 1 .. Len(front) + Len(tail) :
             (front \o tail)[i] = IF i <= Len(front) THEN front[i] ELSE tail[i - Len(front)]
    BY <2>2, ConcatProperties
  <2> QED
    BY <1>1, <1>3, <1>5, <2>1, <2>3
<1>7. Encode(p)[1] = SOH /\ Encode(p)[2] = Len(p)
  BY <1>1, <1>3, <1>5, <1>6
<1>8. \A i \in 1 .. Len(p) : Encode(p)[i + 2] = p[i]
  <2> SUFFICES ASSUME NEW i \in 1 .. Len(p) PROVE Encode(p)[i + 2] = p[i]
    OBVIOUS
  <2>1. i + 2 \in 1 .. Len(p) + 2 /\ i + 2 \in 1 .. Len(p) + 4 /\ ~(i + 2 <= 2)
        /\ (i + 2) - 2 = i /\ i + 2 <= Len(p) + 2
    BY <1>1
  <2> QED
    BY <1>5, <1>6, <2>1
<1>9. Encode(p)[Len(p) + 3] = CRC[p][1] /\ Encode(p)[Len(p) + 4] = CRC[p][2]
  <2>1. /\ Len(p) + 3 \in 1 .. Len(p) + 4 /\ ~(Len(p) + 3 <= Len(p) + 2)
        /\ (Len(p) + 3) - (Len(p) + 2) = 1
        /\ Len(p) + 4 \in 1 .. Len(p) + 4 /\ ~(Len(p) + 4 <= Len(p) + 2)
        /\ (Len(p) + 4) - (Len(p) + 2) = 2
    BY <1>1
  <2> QED
    BY <1>3, <1>6, <2>1
<1> QED
  BY <1>6, <1>7, <1>8, <1>9

(* The next byte and the bytes after it.                                   *)
LEMMA HeadTail ==
  ASSUME NEW s \in Seq(Byte), s # <<>>
  PROVE  /\ Head(s) \in Byte /\ Head(s) = s[1]
         /\ Tail(s) \in Seq(Byte) /\ Len(Tail(s)) = Len(s) - 1 /\ Len(s) \in Nat \ {0}
         /\ \A i \in 1 .. Len(s) - 1 : Tail(s)[i] = s[i + 1]
  OBVIOUS
-----------------------------------------------------------------------------
LEMMA InitInv == Init => Inv
<1> SUFFICES ASSUME Init PROVE Inv
  OBVIOUS
<1>1. TypeOK
  <2>1. Data \in [0 .. MAX_PACKET_LENGTH - 1 -> Byte]
    BY ByteFacts DEF Init
  <2>2. IncomingCRC \in Byte \X Byte /\ overdue \in BOOLEAN
    BY ByteFacts DEF Init
  <2>3. line \in Seq(Byte)
    <3>1. line = <<>>
      BY DEF Init
    <3> QED
      BY <3>1, EmptySeq
  <2> QED
    BY <2>1, <2>2, <2>3, ByteFacts DEF Init, TypeOK
<1>2. Counted /\ Follows
  BY DEF Init, Counted, Follows
<1> QED
  BY <1>1, <1>2 DEF Inv

LEMMA TransmitStarts ==
  ASSUME Inv, NEW p \in Packets, Transmit(p)
  PROVE  /\ line' \in Seq(Byte) /\ line' # <<>> /\ sent' \in Packets /\ Taken' = 0
         /\ \A i \in 1 .. Len(line') : line'[i] = Encode(sent')[Taken' + i]
         /\ UNCHANGED <<ReceiveState, Length, Data, BytesRemaining, IncomingCRC, overdue>>
         /\ ReceiveState = "START" => InStep'
<1>1. line' = Encode(p) /\ sent' = p
  BY DEF Transmit
<1>2. UNCHANGED <<ReceiveState, Length, Data, BytesRemaining, IncomingCRC, overdue>>
  BY DEF Transmit, receiver
<1>3. /\ Encode(p) \in Seq(Byte) /\ Len(Encode(p)) = Len(p) + 4
      /\ Len(p) \in Nat /\ Len(p) > 0
  BY EncodeBytes, PacketFacts, ByteFacts
<1>4. Taken' = 0
  <2>1. Taken' = Len(p) + 4 - Len(Encode(p))
    BY <1>1 DEF Taken
  <2> QED
    BY <1>3, <2>1
<1>5. \A i \in 1 .. Len(line') : line'[i] = Encode(sent')[Taken' + i]
  <2> SUFFICES ASSUME NEW i \in 1 .. Len(line') PROVE line'[i] = Encode(sent')[Taken' + i]
    OBVIOUS
  <2>1. i \in 1 .. Len(p) + 4
    BY <1>1, <1>3
  <2>2. 0 + i = i
    BY <1>3, <2>1
  <2> QED
    BY <1>1, <1>4, <2>2
<1>6. line' # <<>>
  BY <1>1, <1>3
<1>7. ReceiveState = "START" => InStep'
  BY <1>1, <1>2, <1>3, <1>4, <1>5 DEF InStep, Carries
<1> QED
  BY <1>1, <1>2, <1>3, <1>4, <1>5, <1>6, <1>7

LEMMA TransmitInv == ASSUME Inv, NEW p \in Packets, Transmit(p) PROVE Inv'
<1>1. began' = "in_step" => ReceiveState = "START"
  BY DEF Transmit
<1>2. TypeOK' /\ Counted'
  BY TransmitStarts DEF Inv, TypeOK, Counted
<1>3. Follows'
  BY <1>1, TransmitStarts DEF Follows
<1> QED
  BY <1>2, <1>3 DEF Inv

LEMMA LoseByteInv == Inv /\ LoseByte => Inv'
<1> SUFFICES ASSUME Inv, LoseByte PROVE Inv'
  OBVIOUS
<1>1. /\ line # <<>> /\ line' = Tail(line) /\ began' = "damaged"
      /\ UNCHANGED <<receiver, overdue>>
  BY DEF LoseByte, Damage
<1>2. TypeOK'
  BY <1>1, HeadTail DEF Inv, TypeOK, receiver
<1> QED
  BY <1>1, <1>2 DEF Inv, Counted, Follows, receiver

LEMMA ChangeByteInv == Inv /\ ChangeByte => Inv'
<1> SUFFICES ASSUME Inv, ChangeByte PROVE Inv'
  OBVIOUS
<1>1. PICK b \in Byte : line' = <<b>> \o Tail(line)
  BY DEF ChangeByte, Damage
<1>2. line # <<>> /\ began' # "in_step" /\ UNCHANGED <<receiver, overdue>>
  BY DEF ChangeByte, Damage
<1>3. line' \in Seq(Byte)
  BY <1>1, <1>2, HeadTail DEF Inv, TypeOK
<1>4. TypeOK'
  BY <1>2, <1>3 DEF Inv, TypeOK, receiver
<1> QED
  BY <1>2, <1>4 DEF Inv, Counted, Follows, receiver

LEMMA ReopenInv == Inv /\ Reopen => Inv'
<1> SUFFICES ASSUME Inv, Reopen PROVE Inv'
  OBVIOUS
<1>1. line' = <<>> /\ began' = "damaged" /\ UNCHANGED <<receiver, overdue>>
  BY DEF Reopen, Damage
<1>2. TypeOK'
  BY <1>1 DEF Inv, TypeOK, receiver
<1> QED
  BY <1>1, <1>2 DEF Inv, Counted, Follows, receiver

LEMMA SilenceInv == Inv /\ Silence => Inv'
  BY DEF Silence, Inv, TypeOK, Counted, Follows, InStep, Carries, Encode, Taken, Stored, receiver

(* A read that fails changes nothing, or ends a packet of which it gives   *)
(* up what is still to come, or ends what the receiver took for a packet   *)
(* between two packets.                                                    *)
LEMMA ReadFailsCases ==
  ASSUME ReadFails
  PROVE  /\ UNCHANGED <<Length, Data, BytesRemaining, IncomingCRC, overdue, line, sent>>
         /\ received' = Nothing
         /\ \/ UNCHANGED <<ReceiveState, began, streak>>
            \/ ReceiveState' = "START" /\ began' = "given_up" /\ streak' = 0
            \/ /\ ReceiveState # "START" /\ ReceiveState' = "START"
               /\ line = <<>> \/ ~(Taken > 0)
               /\ UNCHANGED <<began, streak>>
<1> DEFINE late == overdue /\ ReceiveState \notin {"LENGTH", "START"}
<1>1. /\ UNCHANGED <<Length, Data, BytesRemaining, IncomingCRC, overdue, line, sent>>
      /\ received' = Nothing
      /\ ReceiveState' = IF late THEN "START" ELSE ReceiveState
      /\ began' = IF late /\ line # <<>> /\ Taken > 0 THEN "given_up" ELSE began
      /\ streak' = IF late /\ line # <<>> /\ Taken > 0 THEN 0 ELSE streak
  BY DEF ReadFails
<1> QED
  BY <1>1

LEMMA ReadFailsCarries ==
  ASSUME ReadFails, ReceiveState' = ReceiveState, NEW s, Carries(s) PROVE Carries(s)'
  BY ReadFailsCases DEF Carries, Taken, Stored

LEMMA ReadFailsInStep ==
  ASSUME ReadFails, line # <<>>, InStep
  PROVE  (began' = "given_up" /\ streak' = 0) \/ InStep'
<1>1. CASE ReceiveState' = ReceiveState
  <2>1. PICK s : s = Encode(sent)
    OBVIOUS
  <2>2. Carries(s)'
    BY <1>1, <2>1, ReadFailsCarries DEF InStep
  <2>3. s = Encode(sent)'
    BY <2>1, ReadFailsCases DEF Encode
  <2> QED
    BY <2>2, <2>3 DEF InStep
<1>2. CASE ReceiveState # "START" /\ ~(Taken > 0)
  <2>1. sent \in Packets /\ Taken \in 0 .. Len(sent) + 3
        /\ (Taken = 0 => ReceiveState = "START")
    BY DEF InStep, Carries
  <2>2. Len(sent) \in Nat
    BY <2>1, PacketFacts, ByteFacts
  <2> QED
    BY <1>2, <2>1, <2>2
<1> QED
  BY <1>1, <1>2, ReadFailsCases

LEMMA ReadFailsInv == Inv /\ ReadFails => Inv'
<1> SUFFICES ASSUME Inv, ReadFails PROVE Inv'
  OBVIOUS
<1>1. /\ UNCHANGED <<Length, Data, BytesRemaining, IncomingCRC, overdue, line, sent>>
      /\ ReceiveState' = ReceiveState \/ ReceiveState' = "START"
      /\ began' = began \/ began' = "given_up"
  BY ReadFailsCases
<1>2. TypeOK' /\ Counted'
  BY <1>1 DEF Inv, TypeOK, Counted
<1>3. Follows'
  BY <1>1, ReadFailsInStep DEF Inv, Follows
<1> QED
  BY <1>2, <1>3 DEF Inv
-----------------------------------------------------------------------------
(* What every call of GetPacket that gets a byte has in common: the byte,  *)
(* the rest of the line, and where a packet has got that it follows.       *)
LEMMA GotByte ==
  ASSUME Inv, GetPacket
  PROVE  /\ Head(line) \in Byte /\ Head(line) = line[1] /\ line' \in Seq(Byte)
         /\ Len(line') = Len(line) - 1 /\ Len(line) \in Nat \ {0}
         /\ \A i \in 1 .. Len(line) - 1 : line'[i] = line[i + 1]
         /\ line' = <<>> <=> Len(line') = 0
         /\ sent' = sent /\ began' = began /\ streak' = streak
<1>1. line \in Seq(Byte) /\ line # <<>> /\ line' = Tail(line)
  BY DEF Inv, TypeOK, GetPacket
<1>2. /\ Head(line) \in Byte /\ Head(line) = line[1] /\ line' \in Seq(Byte)
      /\ Len(line') = Len(line) - 1 /\ Len(line) \in Nat \ {0}
      /\ \A i \in 1 .. Len(line) - 1 : line'[i] = line[i + 1]
  BY <1>1, HeadTail
<1>3. line' = <<>> <=> Len(line') = 0
  BY <1>2
<1> QED
  BY <1>2, <1>3 DEF GetPacket

LEMMA TakesByte ==
  ASSUME Inv, GetPacket, NEW s, sent \in Packets, Taken \in 0 .. Len(sent) + 3,
         \A i \in 1 .. Len(line) : line[i] = s[Taken + i]
  PROVE  /\ Len(sent) \in Nat /\ Len(sent) > 0 /\ Len(sent) <= MAX_PACKET_LENGTH
         /\ Taken' = Taken + 1
         /\ Head(line) = s[Taken + 1]
         /\ \A i \in 1 .. Len(line') : line'[i] = s[Taken' + i]
         /\ line' = <<>> <=> Taken = Len(sent) + 3
<1>1. Len(sent) \in Nat /\ Len(sent) > 0 /\ Len(sent) <= MAX_PACKET_LENGTH
  BY PacketFacts, ByteFacts
<1>2. /\ Len(line) \in Nat \ {0} /\ Len(line') = Len(line) - 1
      /\ sent' = sent /\ Head(line) = line[1]
  BY GotByte
<1>3. Taken = Len(sent) + 4 - Len(line) /\ Taken' = Len(sent) + 4 - Len(line')
  BY <1>2 DEF Taken
<1>4. Taken' = Taken + 1
  BY <1>1, <1>2, <1>3
<1>5. Head(line) = s[Taken + 1]
  BY <1>2
<1>6. \A i \in 1 .. Len(line') : line'[i] = s[Taken' + i]
  <2> SUFFICES ASSUME NEW i \in 1 .. Len(line') PROVE line'[i] = s[Taken' + i]
    OBVIOUS
  <2>1. i + 1 \in 1 .. Len(line) /\ i \in 1 .. Len(line) - 1 /\ Taken + (i + 1) = Taken' + i
    BY <1>1, <1>2, <1>4
  <2> QED
    BY <2>1, GotByte
<1>7. line' = <<>> <=> Taken = Len(sent) + 3
  BY <1>1, <1>2, <1>3, GotByte
<1> QED
  BY <1>1, <1>4, <1>5, <1>6, <1>7

(* Where the receiver is, the packet it follows tells, and the other way   *)
(* round.                                                                  *)
LEMMA WhereItIs ==
  ASSUME NEW s, Carries(s)
  PROVE  /\ ReceiveState = "START" <=> Taken = 0
         /\ ReceiveState = "LENGTH" <=> Taken = 1
         /\ ReceiveState = "DATA" <=> Taken \in 2 .. Len(sent) + 1
         /\ ReceiveState = "CHECKL" <=> Taken = Len(sent) + 2
         /\ ReceiveState = "CHECKH" <=> Taken = Len(sent) + 3
<1>1. sent \in Packets /\ Taken \in 0 .. Len(sent) + 3
  BY DEF Carries
<1>2. Len(sent) \in Nat /\ Len(sent) > 0
  BY <1>1, PacketFacts, ByteFacts
<1>3. \/ Taken = 0 \/ Taken = 1 \/ Taken \in 2 .. Len(sent) + 1
      \/ Taken = Len(sent) + 2 \/ Taken = Len(sent) + 3
  BY <1>1, <1>2
<1> QED
  BY <1>1, <1>2, <1>3 DEF Carries

LEMMA GetStartTypes ==
  ASSUME Inv, GetPacket, GetStart(Head(line)) PROVE TypeOK' /\ Counted'
<1>1. /\ ReceiveState = "START" /\ overdue' = FALSE
      /\ ReceiveState' = IF Head(line) = SOH THEN "LENGTH" ELSE "START"
      /\ UNCHANGED <<Length, Data, BytesRemaining, IncomingCRC>>
  BY DEF GetStart
<1> QED
  BY <1>1, GotByte DEF Inv, TypeOK, Counted

LEMMA GetStartCarries ==
  ASSUME Inv, GetPacket, GetStart(Head(line)), NEW s, Frame(s), Carries(s)
  PROVE  line' # <<>> /\ Carries(s)'
<1>1. /\ ReceiveState = "START" /\ overdue' = FALSE
      /\ ReceiveState' = IF Head(line) = SOH THEN "LENGTH" ELSE "START"
  BY DEF GetStart
<1>2. sent' = sent /\ sent \in Packets /\ Taken = 0
  BY <1>1, GotByte, WhereItIs DEF Carries
<1>3. /\ Len(sent) \in Nat /\ Len(sent) > 0 /\ Taken' = 1 /\ line' # <<>>
      /\ Head(line) = SOH
      /\ \A i \in 1 .. Len(line') : line'[i] = s[Taken' + i]
  BY <1>2, TakesByte DEF Carries, Frame
<1> QED
  BY <1>1, <1>2, <1>3 DEF Carries

LEMMA GetLengthTypes ==
  ASSUME Inv, GetPacket, GetLength(Head(line)) PROVE TypeOK' /\ Counted'
<1> DEFINE b == Head(line)
<1>1. /\ ReceiveState = "LENGTH" /\ overdue' = FALSE
      /\ Length' = b /\ BytesRemaining' = b /\ Data' = Data
      /\ \/ b = 0 /\ ReceiveState' = "CHECKL" /\ IncomingCRC' = <<0, 0>>
         \/ b > MAX_PACKET_LENGTH /\ ReceiveState' = "START" /\ IncomingCRC' = IncomingCRC
         \/ b # 0 /\ ~(b > MAX_PACKET_LENGTH) /\ ReceiveState' = "DATA" /\ IncomingCRC' = IncomingCRC
  BY DEF GetLength, TooLong
<1>2. b \in Byte /\ b \in Nat
  BY GotByte, ByteFacts
<1> HIDE DEF b
<1>3. TypeOK'
  <2>1. IncomingCRC \in Byte \X Byte /\ overdue \in BOOLEAN
    BY DEF Inv, TypeOK
  <2>2. IncomingCRC' \in Byte \X Byte
    BY <1>1, <2>1, ByteFacts
  <2>3. ReceiveState' \in {"CHECKL", "START", "DATA"}
    BY <1>1
  <2> QED
    BY <1>1, <1>2, <2>2, <2>3, GotByte DEF Inv, TypeOK
<1>4. Counted'
  BY <1>1, <1>2, ByteFacts DEF Counted
<1> QED
  BY <1>3, <1>4

LEMMA GetLengthCarries ==
  ASSUME Inv, GetPacket, GetLength(Head(line)), NEW s, Frame(s), Carries(s)
  PROVE  line' # <<>> /\ Carries(s)'
<1> DEFINE b == Head(line)
<1>1. /\ ReceiveState = "LENGTH" /\ overdue' = FALSE
      /\ Length' = b /\ BytesRemaining' = b
      /\ \/ b = 0 /\ ReceiveState' = "CHECKL"
         \/ b > MAX_PACKET_LENGTH /\ ReceiveState' = "START"
         \/ b # 0 /\ ~(b > MAX_PACKET_LENGTH) /\ ReceiveState' = "DATA"
  BY DEF GetLength, TooLong
<1>2. sent' = sent /\ sent \in Packets /\ Taken = 1
  BY <1>1, GotByte, WhereItIs DEF Carries
<1>3. /\ Len(sent) \in Nat /\ Len(sent) > 0 /\ Len(sent) <= MAX_PACKET_LENGTH
      /\ Taken' = 2 /\ line' # <<>> /\ b = Len(sent)
      /\ \A i \in 1 .. Len(line') : line'[i] = s[Taken' + i]
  <2>1. /\ Len(sent) \in Nat /\ Len(sent) > 0 /\ Len(sent) <= MAX_PACKET_LENGTH
        /\ Taken' = Taken + 1 /\ b = s[Taken + 1]
        /\ \A i \in 1 .. Len(line') : line'[i] = s[Taken' + i]
        /\ line' = <<>> <=> Taken = Len(sent) + 3
    BY TakesByte DEF Carries
  <2>2. Taken + 1 = 2 /\ Taken # Len(sent) + 3 /\ s[2] = Len(sent)
    BY <1>2, <2>1 DEF Frame
  <2> QED
    BY <2>1, <2>2
<1> HIDE DEF b
<1>4. ReceiveState' = "DATA" /\ Length' = Len(sent) /\ BytesRemaining' = Len(sent)
  BY <1>1, <1>3, ByteFacts
<1> QED
  BY <1>1, <1>2, <1>3, <1>4 DEF Carries, Stored

LEMMA GetDataTypes ==
  ASSUME Inv, GetPacket, GetData(Head(line)) PROVE TypeOK' /\ Counted'
<1> DEFINE b == Head(line)
<1>1. /\ ReceiveState = "DATA" /\ overdue' = FALSE /\ Length' = Length
      /\ Data' = [Data EXCEPT ![Length - BytesRemaining] = b]
      /\ BytesRemaining' = BytesRemaining - 1
      /\ ReceiveState' = IF BytesRemaining = 1 THEN "CHECKL"
                         ELSE IF Length = BytesRemaining /\ b \notin Commands THEN "START" ELSE "DATA"
      /\ IncomingCRC' = IF BytesRemaining = 1 THEN <<0, 0>> ELSE IncomingCRC
  BY DEF GetData, Supported, ResetCRC
<1>2. b \in Byte
  BY GotByte
<1> HIDE DEF b
<1>3. /\ Length \in Nat /\ Length <= MAX_PACKET_LENGTH /\ BytesRemaining \in 1 .. Length
      /\ Length \in Byte
  BY <1>1, ByteFacts DEF Inv, TypeOK, Counted
<1>4. TypeOK'
  <2>1. IncomingCRC' \in Byte \X Byte
    <3>1. IncomingCRC \in Byte \X Byte
      BY DEF Inv, TypeOK
    <3> QED
      BY <1>1, <3>1, ByteFacts
  <2>2. Data' \in [0 .. MAX_PACKET_LENGTH - 1 -> Byte]
    BY <1>1, <1>2 DEF Inv, TypeOK
  <2>3. BytesRemaining' \in Byte
    BY <1>1, <1>3, ByteFacts DEF Byte
  <2>4. ReceiveState' \in {"CHECKL", "START", "DATA"}
    BY <1>1
  <2> QED
    BY <1>1, <2>1, <2>2, <2>3, <2>4, GotByte DEF Inv, TypeOK
<1>5. Counted'
  BY <1>1, <1>3, ByteFacts DEF Counted
<1> QED
  BY <1>4, <1>5

(* The first data byte alone can make the receiver leave the packet.       *)
LEMMA GetDataCarries ==
  ASSUME Inv, GetPacket, GetData(Head(line)), NEW s, Frame(s), Carries(s)
  PROVE  /\ line' # <<>>
         /\ \/ Carries(s)'
            \/ Taken = 2 /\ s[3] \notin Commands /\ ReceiveState' = "START"
<1> DEFINE b == Head(line)
<1>1. /\ ReceiveState = "DATA" /\ overdue' = FALSE /\ Length' = Length
      /\ Data' = [Data EXCEPT ![Length - BytesRemaining] = b]
      /\ BytesRemaining' = BytesRemaining - 1
      /\ ReceiveState' = IF BytesRemaining = 1 THEN "CHECKL"
                         ELSE IF Length = BytesRemaining /\ b \notin Commands THEN "START" ELSE "DATA"
      /\ IncomingCRC' = IF BytesRemaining = 1 THEN <<0, 0>> ELSE IncomingCRC
  BY DEF GetData, Supported, ResetCRC
<1>2. sent' = sent /\ sent \in Packets /\ Taken \in 2 .. Len(sent) + 1
  BY <1>1, GotByte, WhereItIs DEF Carries
<1>3. /\ Len(sent) \in Nat /\ Len(sent) > 0 /\ Len(sent) <= MAX_PACKET_LENGTH
      /\ Taken' = Taken + 1 /\ line' # <<>> /\ b = s[Taken + 1]
      /\ \A i \in 1 .. Len(line') : line'[i] = s[Taken' + i]
  BY <1>2, TakesByte DEF Carries
<1>4. /\ BytesRemaining = Len(sent) + 2 - Taken /\ Length = Len(sent)
      /\ \A i \in 1 .. Taken - 2 : Data[i - 1] = s[i + 2]
  BY <1>2 DEF Carries, Stored
<1> HIDE DEF b
<1>5. \A i \in 1 .. Taken - 1 : Data'[i - 1] = s[i + 2]
  <2> SUFFICES ASSUME NEW i \in 1 .. Taken - 1 PROVE Data'[i - 1] = s[i + 2]
    OBVIOUS
  <2>1. /\ Length - BytesRemaining = Taken - 2 /\ i - 1 \in 0 .. MAX_PACKET_LENGTH - 1
        /\ DOMAIN Data = 0 .. MAX_PACKET_LENGTH - 1
    BY <1>2, <1>3, <1>4, ByteFacts DEF Inv, TypeOK
  <2>2. CASE i = Taken - 1
    <3>1. i + 2 = Taken + 1 /\ i - 1 = Taken - 2
      BY <1>2, <1>3, <2>2
    <3> QED
      BY <1>1, <1>3, <2>1, <3>1
  <2>3. CASE i # Taken - 1
    <3>1. i \in 1 .. Taken - 2 /\ i - 1 # Taken - 2
      BY <1>2, <1>3, <2>3
    <3> QED
      BY <1>1, <1>4, <2>1, <3>1
  <2> QED
    BY <2>2, <2>3
<1>6. CASE BytesRemaining = 1
  <2>1. Taken' = Len(sent) + 2 /\ Taken - 1 = Len(sent)
    BY <1>2, <1>3, <1>4, <1>6
  <2>2. ReceiveState' = "CHECKL" /\ IncomingCRC' = <<0, 0>>
    BY <1>1, <1>6
  <2>3. Stored(s, Len(sent))'
    BY <1>1, <1>2, <1>4, <1>5, <2>1 DEF Stored
  <2> QED
    BY <1>1, <1>2, <1>3, <2>1, <2>2, <2>3 DEF Carries
<1>7. CASE BytesRemaining # 1 /\ ReceiveState' = "DATA"
  <2>1. /\ Taken' \in 2 .. Len(sent) + 1 /\ Taken' - 2 = Taken - 1
        /\ BytesRemaining' = Len(sent) + 2 - Taken'
    BY <1>1, <1>2, <1>3, <1>4, <1>7
  <2>2. Stored(s, Taken - 2)'
    BY <1>1, <1>2, <1>4, <1>5, <2>1 DEF Stored
  <2> QED
    BY <1>1, <1>2, <1>3, <1>7, <2>1, <2>2 DEF Carries
<1>8. CASE BytesRemaining # 1 /\ ReceiveState' # "DATA"
  <2>1. Length = BytesRemaining /\ b \notin Commands /\ ReceiveState' = "START"
    BY <1>1, <1>8
  <2>2. Taken = 2
    BY <1>2, <1>3, <1>4, <2>1
  <2> QED
    BY <1>3, <2>1, <2>2
<1> QED
  BY <1>3, <1>6, <1>7, <1>8

LEMMA GetCheckLTypes ==
  ASSUME Inv, GetPacket, GetCheckL(Head(line)) PROVE TypeOK' /\ Counted'
<1>1. /\ ReceiveState = "CHECKL" /\ ReceiveState' = "CHECKH" /\ overdue' = FALSE
      /\ UNCHANGED <<Length, Data, BytesRemaining>>
      /\ \E c \in Merged(IncomingCRC[1], Head(line)) : IncomingCRC' = <<c, IncomingCRC[2]>>
  BY DEF GetCheckL
<1>2. IncomingCRC' \in Byte \X Byte
  <2>1. Merged(IncomingCRC[1], Head(line)) \subseteq Byte
    BY GotByte DEF Merged
  <2> QED
    BY <1>1, <2>1 DEF Inv, TypeOK
<1> QED
  BY <1>1, <1>2, GotByte DEF Inv, TypeOK, Counted

LEMMA GetCheckLCarries ==
  ASSUME Inv, GetPacket, GetCheckL(Head(line)), NEW s, Frame(s), Carries(s)
  PROVE  line' # <<>> /\ Carries(s)'
<1> DEFINE b == Head(line)
<1>1. /\ ReceiveState = "CHECKL" /\ ReceiveState' = "CHECKH" /\ overdue' = FALSE
      /\ UNCHANGED <<Length, Data, BytesRemaining>>
      /\ \E c \in Merged(IncomingCRC[1], b) : IncomingCRC' = <<c, IncomingCRC[2]>>
  BY DEF GetCheckL
<1>2. sent' = sent /\ sent \in Packets /\ Taken = Len(sent) + 2
  BY <1>1, GotByte, WhereItIs DEF Carries
<1>3. /\ Len(sent) \in Nat /\ Len(sent) > 0
      /\ Taken' = Len(sent) + 3 /\ line' # <<>> /\ b = s[Len(sent) + 3]
      /\ \A i \in 1 .. Len(line') : line'[i] = s[Taken' + i]
  <2>1. /\ Len(sent) \in Nat /\ Len(sent) > 0 /\ Taken' = Taken + 1 /\ b = s[Taken + 1]
        /\ \A i \in 1 .. Len(line') : line'[i] = s[Taken' + i]
        /\ line' = <<>> <=> Taken = Len(sent) + 3
    BY TakesByte DEF Carries
  <2>2. Taken + 1 = Len(sent) + 3 /\ Taken # Len(sent) + 3
    BY <1>2, <2>1
  <2> QED
    BY <2>1, <2>2
<1> HIDE DEF b
<1>4. Stored(s, Len(sent)) /\ IncomingCRC = <<0, 0>>
  BY <1>2 DEF Carries
<1>5. IncomingCRC' = <<s[Len(sent) + 3], 0>>
  BY <1>1, <1>3, <1>4 DEF Merged
<1>6. Stored(s, Len(sent))'
  BY <1>1, <1>2, <1>4 DEF Stored
<1> QED
  BY <1>1, <1>2, <1>3, <1>5, <1>6 DEF Carries

LEMMA GetCheckHTypes ==
  ASSUME Inv, GetPacket, GetCheckH(Head(line)) PROVE TypeOK' /\ Counted'
<1>1. /\ ReceiveState = "CHECKH" /\ ReceiveState' = "START"
      /\ UNCHANGED <<Length, Data, BytesRemaining, overdue>>
      /\ \E c \in Merged(IncomingCRC[2], Head(line)) : IncomingCRC' = <<IncomingCRC[1], c>>
  BY DEF GetCheckH, AfterCheck
<1>2. IncomingCRC' \in Byte \X Byte
  <2>1. Merged(IncomingCRC[2], Head(line)) \subseteq Byte
    BY GotByte DEF Merged
  <2> QED
    BY <1>1, <2>1 DEF Inv, TypeOK
<1> QED
  BY <1>1, <1>2, GotByte DEF Inv, TypeOK, Counted

LEMMA GetCheckHEnds ==
  ASSUME Inv, GetPacket, GetCheckH(Head(line)), NEW s, Carries(s)
  PROVE  line' = <<>> /\ ReceiveState' = "START"
<1>1. ReceiveState = "CHECKH" /\ ReceiveState' = "START"
  BY DEF GetCheckH, AfterCheck
<1>2. Taken = Len(sent) + 3
  BY <1>1, WhereItIs
<1> QED
  BY <1>1, <1>2, TakesByte DEF Carries

(* A packet that the receiver follows it follows on, until its last byte   *)
(* has arrived or its first data byte turns out to be no command.          *)
LEMMA FollowsOn ==
  ASSUME Inv, GetPacket, NEW s, Frame(s), Carries(s)
  PROVE  \/ line' # <<>> /\ Carries(s)'
         \/ line' = <<>> /\ GetCheckH(Head(line)) /\ ReceiveState' = "START"
         \/ line' # <<>> /\ Taken = 2 /\ s[3] \notin Commands /\ ReceiveState' = "START"
<1>1. \/ GetStart(Head(line)) \/ GetLength(Head(line)) \/ GetData(Head(line))
      \/ GetCheckL(Head(line)) \/ GetCheckH(Head(line))
  BY DEF GetPacket
<1> QED
  BY <1>1, GetStartCarries, GetLengthCarries, GetDataCarries, GetCheckLCarries, GetCheckHEnds

(* The frame of the packet that was sent.                                  *)
LEMMA SentFrame == sent \in Packets => Frame(Encode(sent)) /\ Encode(sent)[3] \in Commands
<1> SUFFICES ASSUME sent \in Packets PROVE Frame(Encode(sent)) /\ Encode(sent)[3] \in Commands
  OBVIOUS
<1>1. Len(sent) \in Nat /\ 1 \in 1 .. Len(sent) /\ 1 + 2 = 3
  BY PacketFacts, ByteFacts
<1>2. Encode(sent)[3] = sent[1]
  BY <1>1, EncodeBytes
<1> QED
  BY <1>2, EncodeBytes, PacketFacts DEF Frame

LEMMA FollowsInStep ==
  ASSUME Inv, GetPacket, InStep
  PROVE  \/ line' # <<>> /\ InStep'
         \/ line' = <<>> /\ GetCheckH(Head(line)) /\ ReceiveState' = "START"
<1>1. PICK s : s = Encode(sent)
  OBVIOUS
<1>2. Frame(s) /\ Carries(s) /\ s[3] \in Commands
  BY <1>1, SentFrame DEF InStep, Carries
<1>3. Carries(s)' => InStep'
  <2>1. s = Encode(sent)'
    BY <1>1, GotByte DEF Encode
  <2> QED
    BY <2>1 DEF InStep
<1> QED
  BY <1>2, <1>3, FollowsOn

LEMMA GetPacketInv == Inv /\ GetPacket => Inv'
<1> SUFFICES ASSUME Inv, GetPacket PROVE Inv'
  OBVIOUS
<1>1. TypeOK' /\ Counted'
  BY GetStartTypes, GetLengthTypes, GetDataTypes, GetCheckLTypes, GetCheckHTypes DEF GetPacket
<1>2. Follows'
  <2> SUFFICES ASSUME began' = "in_step", line' # <<>> PROVE InStep'
    BY DEF Follows
  <2>1. InStep
    BY GotByte DEF Inv, Follows, GetPacket
  <2> QED
    BY <2>1, FollowsInStep
<1> QED
  BY <1>1, <1>2 DEF Inv

(* The last byte of a packet that the receiver follows: what it has stored *)
(* is what it got, and it is received if the CRC is the one it got.        *)
LEMMA LastByteTells ==
  ASSUME Inv, GetPacket, line' = <<>>, NEW s, Frame(s), Carries(s)
  PROVE  LET got == [i \in 1 .. Len(sent) |-> s[i + 2]]
         IN received' = IF CRC[got] = <<s[Len(sent) + 3], s[Len(sent) + 4]>>
                        THEN <<got>> ELSE Nothing
<1> DEFINE b == Head(line)
           got == [i \in 1 .. Len(sent) |-> s[i + 2]]
<1>1. sent \in Packets /\ Taken \in 0 .. Len(sent) + 3
  BY DEF Carries
<1>2. Len(sent) \in Nat /\ Len(sent) > 0 /\ Taken = Len(sent) + 3 /\ b = s[Taken + 1]
  BY TakesByte DEF Carries
<1>3. b = s[Len(sent) + 4]
  <2>1. Taken + 1 = Len(sent) + 4
    BY <1>2
  <2> QED
    BY <1>2, <2>1
<1>4. /\ ReceiveState = "CHECKH" /\ Stored(s, Len(sent))
      /\ IncomingCRC = <<s[Len(sent) + 3], 0>>
  BY <1>2 DEF Carries
<1>5. Incoming = got
  BY <1>2, <1>4 DEF Incoming, Stored
<1>6. GetCheckH(b)
  BY <1>4 DEF GetPacket, GetStart, GetLength, GetData, GetCheckL
<1>7. PICK c \in Merged(IncomingCRC[2], b) :
        received' = IF CRC[Incoming] = <<IncomingCRC[1], c>> THEN <<Incoming>> ELSE Nothing
  BY <1>6 DEF GetCheckH
<1>8. c = s[Len(sent) + 4] /\ IncomingCRC[1] = s[Len(sent) + 3]
  BY <1>3, <1>4, <1>7 DEF Merged
<1> QED
  BY <1>5, <1>7, <1>8

(* The last byte of a packet in step: it is received as it was sent.       *)
LEMMA LastByteReceived ==
  ASSUME Inv, LastByte, began = "in_step"
  PROVE  received' = <<sent>>
<1>1. GetPacket /\ InStep /\ line' = <<>>
  BY GotByte DEF LastByte, Inv, Follows, GetPacket
<1>2. PICK s : s = Encode(sent)
  OBVIOUS
<1>3. sent \in Packets /\ Frame(s) /\ Carries(s)
  BY <1>1, <1>2, SentFrame DEF InStep, Carries
<1>4. /\ Len(sent) \in Nat /\ sent \in [1 .. Len(sent) -> Byte]
      /\ CRC[sent] = <<CRC[sent][1], CRC[sent][2]>>
  BY <1>3, PacketFacts, ByteFacts
<1>5. [i \in 1 .. Len(sent) |-> s[i + 2]] = sent
  BY <1>2, <1>3, <1>4, EncodeBytes
<1>6. <<s[Len(sent) + 3], s[Len(sent) + 4]>> = CRC[sent]
  BY <1>2, <1>3, <1>4, EncodeBytes
<1> QED
  BY <1>1, <1>3, <1>5, <1>6, LastByteTells
-----------------------------------------------------------------------------
LEMMA Inductive == Inv /\ [Next]_vars => Inv'
<1> SUFFICES ASSUME Inv, [Next]_vars PROVE Inv'
  OBVIOUS
<1>1. CASE \E p \in Packets : Transmit(p)
  BY <1>1, TransmitInv
<1>2. CASE LoseByte
  BY <1>2, LoseByteInv
<1>3. CASE ChangeByte
  BY <1>3, ChangeByteInv
<1>4. CASE Silence
  BY <1>4, SilenceInv
<1>5. CASE ReadFails
  BY <1>5, ReadFailsInv
<1>6. CASE GetPacket
  BY <1>6, GetPacketInv
<1>7. CASE Reopen
  BY <1>7, ReopenInv
<1>8. CASE UNCHANGED vars
  BY <1>8 DEF vars, receiver, Inv, TypeOK, Counted, Follows, InStep, Carries, Encode, Taken, Stored
<1> QED
  BY <1>1, <1>2, <1>3, <1>4, <1>5, <1>6, <1>7, <1>8 DEF Next

(* Whatever the bytes on the line, GetPacket writes and reads only within  *)
(* IncomingPacket.Data, for every limit on the length and every CRC.       *)
THEOREM ReceiverStaysInBuffer == Spec => []IndexInRange
<1>1. Init => Inv
  BY InitInv
<1>2. Inv => IndexInRange
  <2> SUFFICES ASSUME Inv PROVE IndexInRange
    OBVIOUS
  <2>1. Length \in Nat /\ BytesRemaining \in Nat /\ MAX_PACKET_LENGTH \in Nat
    BY ByteFacts DEF Inv, TypeOK
  <2> QED
    BY <2>1 DEF Inv, Counted, IndexInRange
<1> QED
  BY <1>1, <1>2, Inductive, PTL DEF Spec

(* A packet that begins when the receiver waits for one, and is not        *)
(* damaged, is received as it was sent: for all packets the device may     *)
(* send, whatever went before.                                             *)
THEOREM InStepPacketsAreReceived == Spec => InStepIsReceived
<1>1. Init => Inv
  BY InitInv
<1>2. Inv /\ [Next]_vars => [LastByte /\ began = "in_step" => received' = <<sent>>]_vars
  BY LastByteReceived
<1> QED
  BY <1>1, <1>2, Inductive, PTL DEF Spec, InStepIsReceived
-----------------------------------------------------------------------------
(* Where the receiver has stored a first byte and goes on to a second one, *)
(* that first byte was a command GetPacket supports.                       *)
Known ==
  /\ ReceiveState = "DATA" /\ BytesRemaining # Length => Data[0] \in Commands
  /\ ReceiveState \in {"CHECKL", "CHECKH"} /\ Length > 1 => Data[0] \in Commands
KnownInv == Known /\ OnlySupported

LEMMA NothingIsSupported == received' = Nothing => OnlySupported'
  BY DEF OnlySupported, Nothing

LEMMA KnownGetData ==
  ASSUME Inv, Known, GetPacket, GetData(Head(line)) PROVE KnownInv'
<1> DEFINE b == Head(line)
<1>1. /\ ReceiveState = "DATA" /\ Length' = Length /\ received' = Nothing
      /\ Data' = [Data EXCEPT ![Length - BytesRemaining] = b]
      /\ BytesRemaining' = BytesRemaining - 1
      /\ ReceiveState' = IF BytesRemaining = 1 THEN "CHECKL"
                         ELSE IF Length = BytesRemaining /\ b \notin Commands THEN "START" ELSE "DATA"
  BY DEF GetData, Supported
<1> HIDE DEF b
<1>2. /\ Length \in Nat /\ Length <= MAX_PACKET_LENGTH /\ BytesRemaining \in 1 .. Length
      /\ MAX_PACKET_LENGTH \in Nat /\ DOMAIN Data = 0 .. MAX_PACKET_LENGTH - 1
  BY <1>1, ByteFacts DEF Inv, TypeOK, Counted
<1>3. 0 \in DOMAIN Data /\ Length - BytesRemaining \in DOMAIN Data
  BY <1>2
<1>4. Known'
  <2>1. CASE Length = BytesRemaining
    <3>1. Data'[0] = b
      BY <1>1, <1>2, <1>3, <2>1
    <3>2. CASE BytesRemaining = 1
      BY <1>1, <1>2, <2>1, <3>2 DEF Known
    <3>3. CASE BytesRemaining # 1
      BY <1>1, <2>1, <3>1, <3>3 DEF Known
    <3> QED
      BY <3>2, <3>3
  <2>2. CASE Length # BytesRemaining
    <3>1. Data[0] \in Commands
      BY <1>1, <2>2 DEF Known
    <3>2. Data'[0] = Data[0]
      BY <1>1, <1>2, <1>3, <2>2
    <3> QED
      BY <3>1, <3>2 DEF Known
  <2> QED
    BY <2>1, <2>2
<1> QED
  BY <1>1, <1>4, NothingIsSupported DEF KnownInv

LEMMA KnownGetCheckH ==
  ASSUME Inv, Known, GetPacket, GetCheckH(Head(line)) PROVE KnownInv'
<1>1. /\ ReceiveState = "CHECKH" /\ ReceiveState' = "START"
      /\ received' = <<Incoming>> \/ received' = Nothing
  BY DEF GetCheckH, AfterCheck
<1>2. Length \in Nat /\ Len(Incoming) = Length
      /\ (Length > 1 => Incoming[1] = Data[0])
  <2>1. Length \in Nat
    BY ByteFacts DEF Inv, TypeOK
  <2> QED
    BY <2>1 DEF Incoming
<1>3. OnlySupported'
  <2>1. CASE received' = <<Incoming>>
    <3>1. received'[1] = Incoming
      BY <2>1
    <3>2. Len(Incoming) > 1 => Incoming[1] \in Commands
      BY <1>1, <1>2 DEF Known
    <3> QED
      BY <3>1, <3>2 DEF OnlySupported
  <2>2. CASE received' = Nothing
    BY <2>2, NothingIsSupported
  <2> QED
    BY <1>1, <2>1, <2>2
<1> QED
  BY <1>1, <1>3 DEF KnownInv, Known

LEMMA KnownInductive == Inv /\ KnownInv /\ [Next]_vars => KnownInv'
<1> SUFFICES ASSUME Inv, KnownInv, [Next]_vars PROVE KnownInv'
  OBVIOUS
<1>1. CASE \E p \in Packets : Transmit(p)
  BY <1>1, NothingIsSupported DEF Transmit, receiver, KnownInv, Known
<1>2. CASE LoseByte \/ ChangeByte \/ Reopen
  BY <1>2, NothingIsSupported DEF LoseByte, ChangeByte, Reopen, Damage, receiver, KnownInv, Known
<1>3. CASE Silence \/ ReadFails
  BY <1>3, NothingIsSupported DEF Silence, ReadFails, receiver, KnownInv, Known
<1>4. CASE GetPacket
  <2>1. CASE GetStart(Head(line))
    BY <2>1, NothingIsSupported DEF GetStart, KnownInv, Known
  <2>2. CASE GetLength(Head(line))
    <3>1. Length' = Head(line) /\ BytesRemaining' = Head(line) /\ received' = Nothing
          /\ \/ Head(line) = 0 /\ ReceiveState' = "CHECKL"
             \/ ReceiveState' \in {"START", "DATA"}
      BY <2>2 DEF GetLength
    <3> QED
      BY <3>1, NothingIsSupported DEF KnownInv, Known
  <2>3. CASE GetData(Head(line))
    BY <1>4, <2>3, KnownGetData DEF KnownInv
  <2>4. CASE GetCheckL(Head(line))
    BY <2>4, NothingIsSupported DEF GetCheckL, KnownInv, Known
  <2>5. CASE GetCheckH(Head(line))
    BY <1>4, <2>5, KnownGetCheckH DEF KnownInv
  <2> QED
    BY <1>4, <2>1, <2>2, <2>3, <2>4, <2>5 DEF GetPacket
<1>5. CASE UNCHANGED vars
  BY <1>5 DEF vars, receiver, KnownInv, Known, OnlySupported
<1> QED
  BY <1>1, <1>2, <1>3, <1>4, <1>5 DEF Next

(* A packet of two bytes or more that GetPacket returns begins with one of *)
(* the commands it supports, whatever bytes arrived and in whatever state  *)
(* the receiver was when they did.                                         *)
THEOREM OnlySupportedIsReceived == Spec => []OnlySupported
<1>1. Init => Inv /\ KnownInv
  BY InitInv DEF Init, KnownInv, Known, OnlySupported, Nothing
<1>2. KnownInv => OnlySupported
  BY DEF KnownInv
<1> QED
  BY <1>1, <1>2, Inductive, KnownInductive, PTL DEF Spec
-----------------------------------------------------------------------------
(* How many bytes at most the receiver takes before it is back in START.   *)
Need == CASE ReceiveState = "START"  -> 0
          [] ReceiveState = "LENGTH" -> MAX_PACKET_LENGTH + 3
          [] ReceiveState = "DATA"   -> BytesRemaining + 2
          [] ReceiveState = "CHECKL" -> 2
          [] ReceiveState = "CHECKH" -> 1

(* Since the last damage, the receiver is in step with the packet on the   *)
(* line, or waits for the next one to start while no byte of this one can  *)
(* start it, or has got the nearer to the end of what it takes for a       *)
(* packet the more clear ones it was sent.                                 *)
Resyncing ==
  /\ streak \in Nat
  /\ streak > 0 =>
       /\ sent \in Packets
       /\ Taken \in 0 .. Len(sent) + 4
       /\ \A i \in 1 .. Len(line) : line[i] = Encode(sent)[Taken + i]
       /\ \/ line # <<>> /\ InStep
          \/ Taken > 0 /\ ReceiveState = "START" /\ (Clear(sent) \/ line = <<>>)
          \/ /\ ReceiveState # "START" /\ Clear(sent)
             /\ Need + Taken + 5 * (streak - 1) <= MAX_PACKET_LENGTH + 3

(* A packet of which one byte behind its length was changed: the receiver  *)
(* follows it as it arrives, or has found its command to be none and waits *)
(* for the next packet.                                                    *)
Changed(k, b) == [Encode(sent) EXCEPT ![k] = b]
Spoilt(s, k) ==
  /\ k = 3 => Clear(sent)
  /\ \/ Carries(s)
     \/ /\ sent \in Packets /\ Taken \in 3 .. Len(sent) + 3 /\ k = 3
        /\ ReceiveState = "START"
        /\ \A i \in 1 .. Len(line) : line[i] = s[Taken + i]
Dropping ==
  began = "changed" /\ line # <<>> =>
    \E k \in 3 .. Len(sent) + 4 : \E b \in Byte \ {Encode(sent)[k]} :
      Spoilt(Changed(k, b), k)
-----------------------------------------------------------------------------
(* The receiver comes nearer to START with every byte.                     *)
LEMMA NeedFacts ==
  ASSUME Inv
  PROVE  /\ Need \in Nat /\ Need <= MAX_PACKET_LENGTH + 3
         /\ ReceiveState # "START" => Need >= 1
<1>1. BytesRemaining \in Nat /\ Length \in Nat /\ MAX_PACKET_LENGTH \in Nat
  BY ByteFacts DEF Inv, TypeOK
<1>2. ReceiveState = "DATA" => BytesRemaining <= MAX_PACKET_LENGTH
  BY <1>1 DEF Inv, Counted
<1>3. ReceiveState \in {"START", "LENGTH", "DATA", "CHECKL", "CHECKH"}
  BY DEF Inv, TypeOK
<1> QED
  BY <1>1, <1>2, <1>3 DEF Need

LEMMA NeedIsNat == ASSUME Inv, GetPacket PROVE Need' \in Nat
<1>1. TypeOK'
  BY GetPacketInv DEF Inv
<1>2. BytesRemaining' \in Nat /\ MAX_PACKET_LENGTH \in Nat
  BY <1>1, ByteFacts DEF TypeOK
<1> QED
  BY <1>1, <1>2 DEF Need, TypeOK

LEMMA NeedFalls ==
  ASSUME Inv, GetPacket, ReceiveState # "START"
  PROVE  ReceiveState' = "START" \/ Need' <= Need - 1
<1>1. BytesRemaining \in Nat /\ Head(line) \in Nat /\ MAX_PACKET_LENGTH \in Nat
  BY GotByte, ByteFacts DEF Inv, TypeOK
<1>2. CASE GetLength(Head(line))
  <2>1. /\ ReceiveState = "LENGTH" /\ BytesRemaining' = Head(line)
        /\ \/ ReceiveState' = "CHECKL" \/ ReceiveState' = "START"
           \/ ReceiveState' = "DATA" /\ ~(Head(line) > MAX_PACKET_LENGTH)
    BY <1>2 DEF GetLength, TooLong
  <2>2. Need = MAX_PACKET_LENGTH + 3
    BY <2>1 DEF Need
  <2>3. CASE ReceiveState' = "CHECKL"
    <3>1. Need' = 2
      BY <2>3 DEF Need
    <3> QED
      BY <1>1, <2>2, <3>1
  <2>4. CASE ReceiveState' = "DATA" /\ ~(Head(line) > MAX_PACKET_LENGTH)
    <3>1. Need' = Head(line) + 2
      BY <2>1, <2>4 DEF Need
    <3> QED
      BY <1>1, <2>2, <2>4, <3>1
  <2> QED
    BY <2>1, <2>3, <2>4
<1>3. CASE GetData(Head(line))
  <2>1. /\ ReceiveState = "DATA" /\ BytesRemaining' = BytesRemaining - 1
        /\ \/ ReceiveState' = "CHECKL" /\ BytesRemaining = 1
           \/ ReceiveState' = "START" \/ ReceiveState' = "DATA"
    BY <1>3 DEF GetData
  <2>2. Need = BytesRemaining + 2
    BY <2>1 DEF Need
  <2>3. CASE ReceiveState' = "CHECKL" /\ BytesRemaining = 1
    <3>1. Need' = 2
      BY <2>3 DEF Need
    <3> QED
      BY <2>2, <2>3, <3>1
  <2>4. CASE ReceiveState' = "DATA"
    <3>1. Need' = BytesRemaining' + 2
      BY <2>4 DEF Need
    <3> QED
      BY <1>1, <2>1, <2>2, <3>1
  <2> QED
    BY <2>1, <2>3, <2>4
<1>4. CASE GetCheckL(Head(line))
  <2>1. ReceiveState = "CHECKL" /\ ReceiveState' = "CHECKH"
    BY <1>4 DEF GetCheckL
  <2>2. Need = 2 /\ Need' = 1
    BY <2>1 DEF Need
  <2> QED
    BY <2>2
<1>5. CASE GetCheckH(Head(line))
  BY <1>5 DEF GetCheckH, AfterCheck
<1> QED
  BY <1>2, <1>3, <1>4, <1>5 DEF GetPacket, GetStart

LEMMA ResyncAfterFacts ==
  /\ ResyncAfter \in Nat /\ ResyncAfter > 0
  /\ 5 * ResyncAfter > MAX_PACKET_LENGTH + 6
<1>1. MAX_PACKET_LENGTH \in Nat
  BY ByteFacts
<1> QED
  BY <1>1 DEF ResyncAfter, Shortest

(* With the line empty, a packet is behind the receiver that has at least  *)
(* five bytes.                                                             *)
LEMMA BetweenPackets ==
  ASSUME Inv, Resyncing, line = <<>>, streak > 0, ReceiveState # "START"
  PROVE  Need + 5 * streak <= MAX_PACKET_LENGTH + 3
<1>1. sent \in Packets /\ Need + Taken + 5 * (streak - 1) <= MAX_PACKET_LENGTH + 3
  BY DEF Resyncing
<1>2. Len(sent) \in Nat /\ Len(sent) > 0 /\ streak \in Nat /\ Need \in Nat
      /\ MAX_PACKET_LENGTH \in Nat
  BY <1>1, PacketFacts, ByteFacts, NeedFacts DEF Resyncing
<1>3. Taken = Len(sent) + 4
  <2>1. Len(line) = 0
    OBVIOUS
  <2> QED
    BY <1>2, <2>1 DEF Taken
<1> QED
  BY <1>1, <1>2, <1>3

LEMMA ResyncTransmit ==
  ASSUME Inv, Resyncing, NEW p \in Packets, Transmit(p) PROVE Resyncing'
<1>1. /\ line = <<>> /\ sent' = p
      /\ streak' = IF streak = ResyncAfter THEN streak
                   ELSE IF Clear(p) THEN streak + 1 ELSE 0
  BY DEF Transmit
<1>2. streak \in Nat /\ streak' \in Nat /\ MAX_PACKET_LENGTH \in Nat
  BY <1>1, ByteFacts DEF Resyncing
<1>3. sent' \in Packets /\ Len(sent') \in Nat
  BY TransmitStarts, PacketFacts, ByteFacts
<1>4. /\ line' # <<>> /\ Taken' = 0 /\ Taken' \in 0 .. Len(sent') + 4
      /\ \A i \in 1 .. Len(line') : line'[i] = Encode(sent')[Taken' + i]
      /\ ReceiveState' = ReceiveState /\ BytesRemaining' = BytesRemaining
      /\ ReceiveState = "START" => InStep'
  BY <1>3, TransmitStarts
<1>5. CASE ReceiveState = "START"
  BY <1>2, <1>3, <1>4, <1>5 DEF Resyncing
<1>6. CASE ReceiveState # "START" /\ streak' > 0
  <2>1. Need' = Need /\ Need \in Nat /\ Need <= MAX_PACKET_LENGTH + 3
    BY <1>4, NeedFacts DEF Need
  <2>2. streak > 0 => Need + 5 * streak <= MAX_PACKET_LENGTH + 3
    BY <1>1, <1>6, BetweenPackets
  <2>3. Clear(sent)' /\ streak' = streak + 1
    <3>1. streak # ResyncAfter
      BY <1>2, <2>1, <2>2, ResyncAfterFacts
    <3>2. Clear(p) /\ streak' = streak + 1
      BY <1>1, <1>6, <3>1
    <3> QED
      BY <1>1, <3>2 DEF Clear, Encode
  <2>4. Need + 5 * (streak' - 1) <= MAX_PACKET_LENGTH + 3
    BY <1>2, <2>1, <2>2, <2>3
  <2>5. Need' + Taken' + 5 * (streak' - 1) <= MAX_PACKET_LENGTH + 3
    <3>1. Need' + Taken' = Need
      BY <1>4, <2>1
    <3> QED
      BY <2>4, <3>1
  <2> QED
    BY <1>2, <1>3, <1>4, <1>6, <2>3, <2>5 DEF Resyncing
<1>7. CASE ~(streak' > 0)
  BY <1>2, <1>7 DEF Resyncing
<1> QED
  BY <1>5, <1>6, <1>7

LEMMA ResyncGetPacket ==
  ASSUME Inv, Resyncing, GetPacket PROVE Resyncing'
<1>1. sent' = sent /\ streak' = streak /\ streak \in Nat /\ MAX_PACKET_LENGTH \in Nat
  BY GotByte, ByteFacts DEF Resyncing
<1> SUFFICES ASSUME streak > 0
             PROVE  /\ sent' \in Packets
                    /\ Taken' \in 0 .. Len(sent') + 4
                    /\ \A i \in 1 .. Len(line') : line'[i] = Encode(sent')[Taken' + i]
                    /\ \/ line' # <<>> /\ InStep'
                       \/ Taken' > 0 /\ ReceiveState' = "START" /\ (Clear(sent)' \/ line' = <<>>)
                       \/ /\ ReceiveState' # "START" /\ Clear(sent)'
                          /\ Need' + Taken' + 5 * (streak' - 1) <= MAX_PACKET_LENGTH + 3
  BY <1>1 DEF Resyncing
<1> PICK clear \in BOOLEAN : clear = Clear(sent)
  BY DEF Clear
<1>0. clear = Clear(sent)'
  BY <1>1 DEF Clear, Encode
<1>2. /\ sent \in Packets /\ Taken \in 0 .. Len(sent) + 4
      /\ \A i \in 1 .. Len(line) : line[i] = Encode(sent)[Taken + i]
  BY DEF Resyncing
<1>3. Len(sent) \in Nat /\ Taken \in 0 .. Len(sent) + 3
  <2>1. Len(sent) \in Nat /\ Len(line) \in Nat \ {0}
    BY <1>2, GotByte, PacketFacts, ByteFacts
  <2> QED
    BY <1>2, <2>1 DEF Taken
<1>4. PICK s : s = Encode(sent)
  OBVIOUS
<1>5. /\ Taken' = Taken + 1 /\ Head(line) = Encode(sent)[Taken + 1]
      /\ \A i \in 1 .. Len(line') : line'[i] = Encode(sent)[Taken' + i]
  BY <1>2, <1>3, <1>4, TakesByte
<1>6. /\ Taken' \in 0 .. Len(sent') + 4 /\ Taken' > 0 /\ Encode(sent') = Encode(sent)
      /\ \A i \in 1 .. Len(line') : line'[i] = Encode(sent')[Taken' + i]
  <2>1. Encode(sent') = Encode(sent)
    BY <1>1
  <2>2. Taken' \in 0 .. Len(sent') + 4 /\ Taken' > 0
    BY <1>1, <1>3, <1>5
  <2> QED
    BY <1>5, <2>1, <2>2
<1>7. \/ line' # <<>> /\ InStep'
      \/ Taken' > 0 /\ ReceiveState' = "START" /\ (clear \/ line' = <<>>)
      \/ /\ ReceiveState' # "START" /\ clear
         /\ Need' + Taken' + 5 * (streak' - 1) <= MAX_PACKET_LENGTH + 3
  <2>1. CASE InStep
    BY <1>6, <2>1, FollowsInStep
  <2>2. CASE Taken > 0 /\ ReceiveState = "START" /\ clear
    <3>1. Taken + 1 \in 2 .. Len(sent) + 4
      BY <1>3, <2>2
    <3>2. Head(line) # SOH
      BY <1>2, <1>5, <2>2, <3>1 DEF Clear
    <3>3. ReceiveState' = "START"
      BY <2>2, <3>2 DEF GetPacket, GetStart, GetLength, GetData, GetCheckL, GetCheckH
    <3> QED
      BY <1>6, <2>2, <3>3
  <2>3. CASE /\ ReceiveState # "START" /\ clear
             /\ Need + Taken + 5 * (streak - 1) <= MAX_PACKET_LENGTH + 3
    <3>1. CASE ReceiveState' = "START"
      BY <1>6, <2>3, <3>1
    <3>2. CASE ReceiveState' # "START"
      <4>1. Need' <= Need - 1 /\ Need' \in Nat /\ Need \in Nat
        BY <2>3, <3>2, NeedFalls, NeedFacts, NeedIsNat
      <4>2. Need' + Taken' + 5 * (streak' - 1) <= MAX_PACKET_LENGTH + 3
        <5>1. Taken \in Nat /\ Taken' = Taken + 1
          BY <1>3, <1>5
        <5>2. streak' = streak /\ streak - 1 \in Nat
          BY <1>1
        <5>3. 5 * (streak - 1) \in Nat
          BY <5>2
        <5>4. PICK m \in Nat, n \in Nat, t \in Nat, q \in Nat :
                m = Need' /\ n = Need /\ t = Taken /\ q = 5 * (streak - 1)
          BY <4>1, <5>1, <5>3
        <5>5. m <= n - 1 /\ Taken' = t + 1 /\ n + t + q <= MAX_PACKET_LENGTH + 3
          BY <2>3, <4>1, <5>1, <5>4
        <5>6. m + (t + 1) + q <= MAX_PACKET_LENGTH + 3
          BY <1>1, <5>5
        <5> QED
          BY <5>2, <5>4, <5>5, <5>6
      <4> QED
        BY <2>3, <3>2, <4>2
    <3> QED
      BY <3>1, <3>2
  <2>4. line # <<>>
    BY DEF GetPacket
  <2> QED
    BY <2>1, <2>2, <2>3, <2>4 DEF Resyncing
<1> QED
  BY <1>0, <1>1, <1>2, <1>6, <1>7

LEMMA ResyncReadFails == ASSUME Inv, Resyncing, ReadFails PROVE Resyncing'
<1>1. UNCHANGED <<Length, Data, BytesRemaining, IncomingCRC, overdue, line, sent>>
  BY ReadFailsCases
<1>2. Taken' = Taken /\ Encode(sent)' = Encode(sent) /\ (Clear(sent)' <=> Clear(sent))
  BY <1>1 DEF Taken, Clear, Encode
<1>3. CASE UNCHANGED <<ReceiveState, began, streak>>
  <2>1. Need' = Need
    BY <1>1, <1>3 DEF Need
  <2>2. line # <<>> /\ InStep => InStep' \/ streak' = 0
    BY ReadFailsInStep
  <2> QED
    BY <1>1, <1>2, <1>3, <2>1, <2>2 DEF Resyncing
<1>4. CASE streak' = 0
  BY <1>4 DEF Resyncing
<1>5. CASE /\ ReceiveState # "START" /\ ReceiveState' = "START"
           /\ line = <<>> \/ ~(Taken > 0)
           /\ streak' = streak /\ streak > 0
  <2>1. /\ sent \in Packets /\ Taken \in 0 .. Len(sent) + 4 /\ streak \in Nat
        /\ \A i \in 1 .. Len(line) : line[i] = Encode(sent)[Taken + i]
    BY <1>5 DEF Resyncing
  <2>2. Len(sent) \in Nat /\ Len(sent) > 0
    BY <2>1, PacketFacts, ByteFacts
  <2>3. CASE line = <<>>
    <3>1. Taken = Len(sent) + 4 - 0
      BY <2>3 DEF Taken
    <3> QED
      BY <1>1, <1>2, <1>5, <2>1, <2>2, <2>3, <3>1 DEF Resyncing
  <2>4. CASE line # <<>> /\ Taken = 0
    <3>1. /\ sent' \in Packets /\ Len(sent') \in Nat /\ Taken' = 0
          /\ \A i \in 1 .. Len(line') : line'[i] = Encode(sent')[Taken' + i]
      BY <1>1, <1>2, <2>1, <2>2, <2>4
    <3>2. InStep'
      BY <1>5, <3>1 DEF InStep, Carries
    <3> QED
      BY <1>1, <1>2, <1>5, <2>1, <2>4, <3>2 DEF Resyncing
  <2> QED
    BY <1>5, <2>1, <2>2, <2>3, <2>4
<1>6. streak \in Nat /\ (streak' = streak \/ streak' = 0)
  BY ReadFailsCases DEF Resyncing
<1> QED
  BY <1>3, <1>4, <1>5, <1>6, ReadFailsCases

LEMMA ResyncInductive == Inv /\ Resyncing /\ [Next]_vars => Resyncing'
<1> SUFFICES ASSUME Inv, Resyncing, [Next]_vars PROVE Resyncing'
  OBVIOUS
<1>1. CASE \E p \in Packets : Transmit(p)
  BY <1>1, ResyncTransmit
<1>2. CASE LoseByte \/ ChangeByte \/ Reopen
  <2>1. streak' = 0
    BY <1>2 DEF LoseByte, ChangeByte, Reopen, Damage
  <2> QED
    BY <2>1 DEF Resyncing
<1>3. CASE Silence
  <2>1. UNCHANGED <<ReceiveState, Length, Data, BytesRemaining, IncomingCRC, line, sent, streak>>
    BY <1>3 DEF Silence, receiver
  <2>2. /\ Taken' = Taken /\ Need' = Need /\ Encode(sent)' = Encode(sent)
        /\ Clear(sent)' <=> Clear(sent)
    BY <2>1 DEF Taken, Need, Encode, Clear
  <2>3. InStep' <=> InStep
    BY <2>1, <2>2 DEF InStep, Carries, Stored
  <2> QED
    BY <2>1, <2>2, <2>3 DEF Resyncing
<1>4. CASE ReadFails
  BY <1>4, ResyncReadFails
<1>5. CASE GetPacket
  BY <1>5, ResyncGetPacket
<1>6. CASE UNCHANGED vars
  BY <1>6 DEF vars, receiver, Resyncing, InStep, Carries, Encode, Clear, Taken, Stored, Need
<1> QED
  BY <1>1, <1>2, <1>3, <1>4, <1>5, <1>6 DEF Next

(* Once ResyncAfter clear packets in a row have arrived undamaged, the     *)
(* receiver waits for the start of a packet whenever the line is empty,    *)
(* whatever damage went before and whatever the packets hold that follow:  *)
(* for every set of packets, those included that hold SOH anywhere.        *)
THEOREM ReceiverResynchronises == Spec => []Resynchronises
<1>1. Init => Inv /\ Resyncing
  BY InitInv DEF Init, Resyncing
<1>2. Inv /\ Resyncing => Resynchronises
  <2> SUFFICES ASSUME Inv, Resyncing, line = <<>>, streak >= ResyncAfter,
                      ReceiveState # "START"
               PROVE  FALSE
    BY DEF Resynchronises
  <2>1. /\ streak \in Nat /\ streak > 0 /\ MAX_PACKET_LENGTH \in Nat
        /\ Need \in Nat /\ ResyncAfter \in Nat /\ 5 * ResyncAfter > MAX_PACKET_LENGTH + 6
    BY ResyncAfterFacts, ByteFacts, NeedFacts DEF Resyncing
  <2>2. Need + 5 * streak <= MAX_PACKET_LENGTH + 3
    BY <2>1, BetweenPackets
  <2> QED
    BY <2>1, <2>2
<1>3. Inv /\ Resyncing /\ [Next]_vars => Inv' /\ Resyncing'
  BY Inductive, ResyncInductive
<1> QED
  BY <1>1, <1>2, <1>3, PTL DEF Spec
-----------------------------------------------------------------------------
LEMMA ChangedFrame ==
  ASSUME sent \in Packets, NEW k \in 3 .. Len(sent) + 4, NEW b \in Byte
  PROVE  /\ Frame(Changed(k, b))
         /\ \A i \in 1 .. Len(sent) + 4 :
              Changed(k, b)[i] = IF i = k THEN b ELSE Encode(sent)[i]
<1>1. /\ Encode(sent) \in Seq(Byte) /\ Len(Encode(sent)) = Len(sent) + 4
      /\ Encode(sent)[1] = SOH /\ Encode(sent)[2] = Len(sent) /\ Len(sent) \in Nat
  BY EncodeBytes, PacketFacts, ByteFacts
<1> DEFINE e == Encode(sent)
           s == [e EXCEPT ![k] = b]
<1>2. s = Changed(k, b)
  BY DEF Changed
<1> HIDE DEF e
<1>3. e \in Seq(Byte) /\ Len(e) = Len(sent) + 4 /\ DOMAIN e = 1 .. Len(sent) + 4
  BY <1>1 DEF e
<1>4. \A i \in 1 .. Len(sent) + 4 : s[i] = IF i = k THEN b ELSE e[i]
  BY <1>3
<1>5. s \in Seq(Byte) /\ Len(s) = Len(sent) + 4
  BY <1>3
<1>6. 1 \in 1 .. Len(sent) + 4 /\ 2 \in 1 .. Len(sent) + 4 /\ k # 1 /\ k # 2
  BY <1>1
<1> QED
  <2>1. s[1] = SOH /\ s[2] = Len(sent)
    BY <1>1, <1>4, <1>6 DEF e
  <2>2. Frame(s)
    BY <1>5, <2>1 DEF Frame
  <2>3. \A i \in 1 .. Len(sent) + 4 : s[i] = IF i = k THEN b ELSE Encode(sent)[i]
    BY <1>4 DEF e
  <2> QED
    BY <1>2, <2>2, <2>3

(* The change itself: the receiver follows the packet as it now arrives.   *)
LEMMA ChangeDropping == ASSUME Inv, ChangeByte PROVE Dropping'
<1> SUFFICES ASSUME began' = "changed" PROVE Dropping'
  BY DEF Dropping
<1>1. PICK b \in Byte \ {Head(line)} :
        /\ line' = <<b>> \o Tail(line)
        /\ began' = IF began = "in_step" /\ Taken >= 2 /\ (Taken = 2 => Clear(sent))
                      THEN "changed" ELSE "damaged"
  BY DEF ChangeByte, Damage
<1>2. /\ line # <<>> /\ began = "in_step" /\ Taken >= 2 /\ (Taken = 2 => Clear(sent))
      /\ UNCHANGED <<ReceiveState, Length, Data, BytesRemaining, IncomingCRC, overdue, sent>>
  BY <1>1 DEF ChangeByte, Damage, receiver
<1>3. InStep /\ line \in Seq(Byte)
  BY <1>2 DEF Inv, Follows, TypeOK
<1>4. PICK e : e = Encode(sent)
  OBVIOUS
<1>5. /\ sent \in Packets /\ Taken \in 0 .. Len(sent) + 3 /\ Carries(e)
      /\ \A i \in 1 .. Len(line) : line[i] = e[Taken + i]
  BY <1>3, <1>4 DEF InStep, Carries
<1>6. Len(sent) \in Nat /\ Len(sent) > 0
  BY <1>5, PacketFacts, ByteFacts
<1> PICK k : k = Taken + 1
  OBVIOUS
<1> PICK s : s = Changed(k, b)
  OBVIOUS
<1>7. /\ Len(line) \in Nat \ {0} /\ Len(Tail(line)) = Len(line) - 1
      /\ Tail(line) \in Seq(Byte) /\ Head(line) = line[1]
      /\ \A i \in 1 .. Len(line) - 1 : Tail(line)[i] = line[i + 1]
  BY <1>2, <1>3, HeadTail
<1>8. /\ Len(line') = Len(line) /\ line'[1] = b
      /\ \A i \in 2 .. Len(line) : line'[i] = line[i]
  <2>1. Len(line') = Len(line) /\ line'[1] = b
    BY <1>1, <1>7
  <2>2. ASSUME NEW i \in 2 .. Len(line) PROVE line'[i] = line[i]
    <3>1. i - 1 \in 1 .. Len(line) - 1 /\ (i - 1) + 1 = i
      BY <1>7
    <3>2. line'[i] = Tail(line)[i - 1]
      BY <1>1, <1>7, <3>1
    <3> QED
      BY <1>7, <3>1, <3>2
  <2> QED
    BY <2>1, <2>2
<1>9. /\ k \in 3 .. Len(sent) + 4 /\ b # e[k]
      /\ Len(line) = Len(sent) + 4 - Taken /\ Taken' = Taken
  <2>1. Len(line) = Len(sent) + 4 - Taken /\ Taken' = Taken
    BY <1>2, <1>5, <1>6, <1>7, <1>8 DEF Taken
  <2>2. Head(line) = e[Taken + 1]
    BY <1>5, <1>7
  <2> QED
    BY <1>1, <1>2, <1>5, <1>6, <2>1, <2>2
<1>10. \A i \in 1 .. Len(sent) + 4 : s[i] = IF i = k THEN b ELSE e[i]
  BY <1>4, <1>5, <1>9, ChangedFrame
<1>11. \A i \in 1 .. Len(line') : line'[i] = s[Taken' + i]
  <2> SUFFICES ASSUME NEW i \in 1 .. Len(line') PROVE line'[i] = s[Taken' + i]
    OBVIOUS
  <2>1. /\ Taken' + i = Taken + i /\ Taken + i \in 1 .. Len(sent) + 4
        /\ i \in 1 .. Len(line)
        /\ i = 1 <=> Taken + i = k
    BY <1>5, <1>6, <1>7, <1>8, <1>9
  <2>2. CASE i = 1
    BY <1>8, <1>10, <2>1, <2>2
  <2>3. CASE i # 1
    <3>1. i \in 2 .. Len(line)
      BY <2>1, <2>3
    <3> QED
      BY <1>5, <1>8, <1>10, <2>1, <2>3, <3>1
  <2> QED
    BY <2>2, <2>3
<1>12. \A i \in 1 .. Len(sent) + 4 : i <= Taken => s[i] = e[i]
  BY <1>5, <1>6, <1>10
<1>13. \A n \in Nat : n + 2 <= Taken /\ Stored(e, n) => Stored(s, n)'
  <2> SUFFICES ASSUME NEW n \in Nat, n + 2 <= Taken, Stored(e, n) PROVE Stored(s, n)'
    OBVIOUS
  <2>1. \A i \in 1 .. n : s[i + 2] = e[i + 2]
    <3> SUFFICES ASSUME NEW i \in 1 .. n PROVE s[i + 2] = e[i + 2]
      OBVIOUS
    <3>1. i + 2 \in 1 .. Len(sent) + 4 /\ i + 2 <= Taken
      BY <1>5, <1>6
    <3> QED
      BY <1>12, <3>1
  <2> QED
    BY <1>2, <2>1 DEF Stored
<1>14. Carries(s)'
  <2>1. Taken \in 2 .. Len(sent) + 1 => Stored(s, Taken - 2)'
    <3> SUFFICES ASSUME Taken \in 2 .. Len(sent) + 1 PROVE Stored(s, Taken - 2)'
      OBVIOUS
    <3>1. PICK n \in Nat : n = Taken - 2
      BY <1>6
    <3>2. Stored(s, n)'
      BY <1>5, <1>13, <3>1 DEF Carries
    <3> QED
      BY <1>9, <3>1, <3>2
  <2>2. Taken \in {Len(sent) + 2, Len(sent) + 3} => Stored(s, Len(sent))'
    <3> SUFFICES ASSUME Taken \in {Len(sent) + 2, Len(sent) + 3} PROVE Stored(s, Len(sent))'
      OBVIOUS
    <3>1. PICK n \in Nat : n = Len(sent)
      BY <1>6
    <3>2. Stored(s, n)'
      BY <1>5, <1>13, <3>1 DEF Carries
    <3> QED
      BY <1>2, <3>1, <3>2
  <2>3. Taken = Len(sent) + 3 => IncomingCRC = <<s[Len(sent) + 3], 0>>
    BY <1>5, <1>6, <1>12 DEF Carries
  <2> QED
    BY <1>2, <1>5, <1>6, <1>9, <1>11, <2>1, <2>2, <2>3 DEF Carries
<1>15. s = Changed(k, b)' /\ b # Encode(sent)'[k]
  BY <1>2, <1>4, <1>9 DEF Changed, Encode
<1>16. k = 3 => Clear(sent)'
  <2>1. Clear(sent)' <=> Clear(sent)
    BY <1>2 DEF Clear, Encode
  <2> QED
    BY <1>2, <1>5, <1>6, <2>1
<1> QED
  BY <1>2, <1>9, <1>14, <1>15, <1>16 DEF Dropping, Spoilt

LEMMA DroppingStays ==
  ASSUME Inv, Dropping, ReadFails \/ Silence \/ UNCHANGED vars PROVE Dropping'
<1> SUFFICES ASSUME began' = "changed", line' # <<>> PROVE Dropping'
  BY DEF Dropping
<1>0. began' = began
  BY ReadFailsCases DEF Silence, vars
<1>1. /\ UNCHANGED <<line, sent, began>>
      /\ \/ ReadFails
         \/ UNCHANGED <<ReceiveState, Length, Data, BytesRemaining, IncomingCRC>>
  BY <1>0, ReadFailsCases DEF Silence, vars, receiver
<1>2. PICK k \in 3 .. Len(sent) + 4 : \E b \in Byte \ {Encode(sent)[k]} :
        Spoilt(Changed(k, b), k)
  BY <1>1 DEF Dropping
<1>2b. PICK b \in Byte \ {Encode(sent)[k]} : Spoilt(Changed(k, b), k)
  BY <1>2
<1>3. PICK s : s = Changed(k, b)
  OBVIOUS
<1>4. Spoilt(s, k)'
  <2>1. Clear(sent)' <=> Clear(sent)
    BY <1>1 DEF Clear, Encode
  <2>2. CASE UNCHANGED <<ReceiveState, Length, Data, BytesRemaining, IncomingCRC>>
    BY <1>1, <1>2b, <1>3, <2>1, <2>2 DEF Spoilt, Carries, Taken, Stored
  <2>3. CASE ReadFails /\ ReceiveState' = ReceiveState
    <3>1. Carries(s) => Carries(s)'
      BY <2>3, ReadFailsCarries
    <3> QED
      BY <1>1, <1>2b, <1>3, <2>1, <2>3, <3>1 DEF Spoilt, Taken
  <2>4. CASE ReadFails /\ ReceiveState' # ReceiveState
    <3>1. ReceiveState # "START" /\ ~(Taken > 0)
      BY <1>0, <1>1, <2>4, ReadFailsCases
    <3>2. Carries(s)
      BY <1>2b, <1>3, <3>1 DEF Spoilt
    <3>3. sent \in Packets /\ Taken \in 0 .. Len(sent) + 3 /\ (Taken = 0 => ReceiveState = "START")
      BY <3>2 DEF Carries
    <3>4. Len(sent) \in Nat
      BY <3>3, PacketFacts, ByteFacts
    <3> QED
      BY <3>1, <3>3, <3>4
  <2> QED
    BY <1>1, <2>2, <2>3, <2>4
<1>5. s = Changed(k, b)' /\ Encode(sent)' = Encode(sent)
  BY <1>1, <1>3 DEF Changed, Encode
<1> QED
  BY <1>1, <1>2, <1>2b, <1>4, <1>5 DEF Dropping

LEMMA DroppingGetPacket ==
  ASSUME Inv, Dropping, GetPacket PROVE Dropping'
<1> SUFFICES ASSUME began' = "changed", line' # <<>> PROVE Dropping'
  BY DEF Dropping
<1>1. sent' = sent /\ began = "changed" /\ line # <<>>
  BY GotByte DEF GetPacket
<1>2. PICK k \in 3 .. Len(sent) + 4 : \E b \in Byte \ {Encode(sent)[k]} :
        Spoilt(Changed(k, b), k)
  BY <1>1 DEF Dropping
<1>2b. PICK b \in Byte \ {Encode(sent)[k]} : Spoilt(Changed(k, b), k)
  BY <1>2
<1>3. PICK s : s = Changed(k, b)
  OBVIOUS
<1>4. /\ sent \in Packets /\ Taken \in 0 .. Len(sent) + 3
      /\ \A i \in 1 .. Len(line) : line[i] = s[Taken + i]
  BY <1>2, <1>2b, <1>3 DEF Spoilt, Carries
<1>5. /\ Len(sent) \in Nat /\ Len(sent) > 0 /\ Taken' = Taken + 1
      /\ Head(line) = s[Taken + 1] /\ Taken # Len(sent) + 3
      /\ \A i \in 1 .. Len(line') : line'[i] = s[Taken' + i]
  BY <1>4, TakesByte
<1>6. /\ Frame(s)
      /\ \A i \in 1 .. Len(sent) + 4 : s[i] = IF i = k THEN b ELSE Encode(sent)[i]
  BY <1>2, <1>2b, <1>3, <1>4, ChangedFrame
<1>7. Spoilt(s, k)'
  <2>0. (k = 3 => Clear(sent)) /\ (k = 3 => Clear(sent)')
    <3>1. Clear(sent)' <=> Clear(sent)
      BY <1>1 DEF Clear, Encode
    <3> QED
      BY <1>2b, <3>1 DEF Spoilt
  <2>1. CASE Carries(s)
    <3>1. CASE Carries(s)'
      BY <2>0, <3>1 DEF Spoilt
    <3>2. CASE Taken = 2 /\ s[3] \notin Commands /\ ReceiveState' = "START"
      <4>1. k = 3
        <5>1. 3 \in 1 .. Len(sent) + 4 /\ Encode(sent)[3] \in Commands
          BY <1>4, <1>5, SentFrame
        <5> QED
          BY <1>6, <3>2, <5>1
      <4>2. Taken' \in 3 .. Len(sent) + 3
        BY <1>5, <3>2
      <4> QED
        BY <1>1, <1>4, <1>5, <2>0, <3>2, <4>1, <4>2 DEF Spoilt
    <3> QED
      BY <1>6, <2>1, <3>1, <3>2, FollowsOn
  <2>2. CASE Taken \in 3 .. Len(sent) + 3 /\ k = 3 /\ ReceiveState = "START"
    <3>1. Taken + 1 \in 2 .. Len(sent) + 4 /\ Taken + 1 \in 1 .. Len(sent) + 4 /\ Taken + 1 # k
      BY <1>5, <2>2
    <3>2. Head(line) # SOH
      BY <1>5, <1>6, <2>0, <2>2, <3>1 DEF Clear
    <3>3. ReceiveState' = "START"
      BY <2>2, <3>2 DEF GetPacket, GetStart, GetLength, GetData, GetCheckL, GetCheckH
    <3>4. Taken' \in 3 .. Len(sent) + 3
      BY <1>5, <2>2
    <3> QED
      BY <1>1, <1>4, <1>5, <2>0, <2>2, <3>3, <3>4 DEF Spoilt
  <2> QED
    BY <1>2, <1>2b, <1>3, <2>1, <2>2 DEF Spoilt
<1>8. s = Changed(k, b)' /\ Encode(sent)' = Encode(sent)
  BY <1>1, <1>3 DEF Changed, Encode
<1> QED
  BY <1>1, <1>2, <1>2b, <1>7, <1>8 DEF Dropping

LEMMA DroppingInductive == Inv /\ Dropping /\ [Next]_vars => Dropping'
<1> SUFFICES ASSUME Inv, Dropping, [Next]_vars PROVE Dropping'
  OBVIOUS
<1>1. CASE \E p \in Packets : Transmit(p)
  BY <1>1 DEF Transmit, Dropping
<1>2. CASE LoseByte \/ Reopen
  BY <1>2 DEF LoseByte, Reopen, Damage, Dropping
<1>3. CASE ChangeByte
  BY <1>3, ChangeDropping
<1>4. CASE ReadFails \/ Silence \/ UNCHANGED vars
  BY <1>4, DroppingStays
<1>5. CASE GetPacket
  BY <1>5, DroppingGetPacket
<1> QED
  BY <1>1, <1>2, <1>3, <1>4, <1>5 DEF Next

(* A packet is only ever received with the last byte of one it follows,    *)
(* and one byte of that was changed: the data, or the CRC it came with.    *)
LEMMA SpoiltIsDropped ==
  ASSUME TellsOneByte, Inv, Dropping, Next, began = "changed", received' # Nothing
  PROVE  FALSE
<1>1. GetPacket /\ GetCheckH(Head(line))
  BY DEF Next, Transmit, LoseByte, ChangeByte, Reopen, Damage, Silence, ReadFails,
         GetPacket, GetStart, GetLength, GetData, GetCheckL
<1>2. line # <<>> /\ ReceiveState = "CHECKH"
  BY <1>1 DEF GetPacket, GetCheckH
<1>3. PICK k \in 3 .. Len(sent) + 4 : \E b \in Byte \ {Encode(sent)[k]} :
        Spoilt(Changed(k, b), k)
  BY <1>2 DEF Dropping
<1>3b. PICK b \in Byte \ {Encode(sent)[k]} : Spoilt(Changed(k, b), k)
  BY <1>3
<1>4. PICK s : s = Changed(k, b)
  OBVIOUS
<1>5. Carries(s) /\ sent \in Packets
  BY <1>2, <1>3, <1>3b, <1>4 DEF Spoilt, Carries
<1>6. /\ Frame(s)
      /\ \A i \in 1 .. Len(sent) + 4 : s[i] = IF i = k THEN b ELSE Encode(sent)[i]
  BY <1>3, <1>3b, <1>4, <1>5, ChangedFrame
<1>7. line' = <<>>
  BY <1>1, <1>5, GetCheckHEnds
<1> DEFINE got == [i \in 1 .. Len(sent) |-> s[i + 2]]
<1>8. CRC[got] = <<s[Len(sent) + 3], s[Len(sent) + 4]>>
  BY <1>1, <1>5, <1>6, <1>7, LastByteTells
<1>9. /\ Len(sent) \in Nat /\ Len(sent) <= MAX_PACKET_LENGTH
      /\ sent \in [1 .. Len(sent) -> Byte] /\ CRC[sent] = <<CRC[sent][1], CRC[sent][2]>>
      /\ MAX_PACKET_LENGTH \in Nat
  BY <1>5, PacketFacts, ByteFacts
<1>10. /\ \A i \in 1 .. Len(sent) : Encode(sent)[i + 2] = sent[i]
       /\ Encode(sent)[Len(sent) + 3] = CRC[sent][1]
       /\ Encode(sent)[Len(sent) + 4] = CRC[sent][2]
  BY <1>5, EncodeBytes
<1>11. \A i \in 1 .. Len(sent) : got[i] = IF i = k - 2 THEN b ELSE sent[i]
  <2> SUFFICES ASSUME NEW i \in 1 .. Len(sent) PROVE got[i] = IF i = k - 2 THEN b ELSE sent[i]
    OBVIOUS
  <2>1. i + 2 \in 1 .. Len(sent) + 4 /\ (i + 2 = k <=> i = k - 2)
    BY <1>9
  <2>2. got[i] = s[i + 2]
    OBVIOUS
  <2> QED
    BY <1>6, <1>10, <2>1, <2>2
<1>12. CASE k <= Len(sent) + 2
  <2>1. k - 2 \in 1 .. Len(sent) /\ (k - 2) + 2 = k
    BY <1>9, <1>12
  <2>2. got \in Contents /\ Len(got) = Len(sent)
    <3>1. \A i \in 1 .. Len(sent) : got[i] \in Byte
      BY <1>3, <1>3b, <1>9, <1>11
    <3>2. got \in [1 .. Len(sent) -> Byte]
      BY <3>1
    <3>3. Len(sent) \in 0 .. MAX_PACKET_LENGTH
      BY <1>9
    <3>4. Len(got) = Len(sent)
      BY <1>9
    <3> QED
      BY <3>2, <3>3, <3>4 DEF Contents
  <2>3. b # sent[k - 2]
    BY <1>3, <1>3b, <1>10, <2>1
  <2>4. OneApart(sent, got)
    BY <1>11, <2>1, <2>2, <2>3 DEF OneApart
  <2>5. CRC[sent] # CRC[got]
    BY <1>5, <2>2, <2>4 DEF TellsOneByte
  <2>6. s[Len(sent) + 3] = CRC[sent][1] /\ s[Len(sent) + 4] = CRC[sent][2]
    <3>1. /\ Len(sent) + 3 \in 1 .. Len(sent) + 4 /\ Len(sent) + 3 # k
          /\ Len(sent) + 4 \in 1 .. Len(sent) + 4 /\ Len(sent) + 4 # k
      BY <1>9, <1>12
    <3> QED
      BY <1>6, <1>10, <3>1
  <2> QED
    BY <1>8, <1>9, <2>5, <2>6
<1>13. CASE k > Len(sent) + 2
  <2>1. got = sent
    <3>1. \A i \in 1 .. Len(sent) : got[i] = sent[i]
      BY <1>9, <1>11, <1>13
    <3> QED
      BY <1>9, <3>1
  <2>2. k = Len(sent) + 3 \/ k = Len(sent) + 4
    BY <1>9, <1>13
  <2>3. CRC[sent][1] = s[Len(sent) + 3] /\ CRC[sent][2] = s[Len(sent) + 4]
    BY <1>8, <2>1
  <2>4. Len(sent) + 3 \in 1 .. Len(sent) + 4 /\ Len(sent) + 4 \in 1 .. Len(sent) + 4
    BY <1>9
  <2> QED
    BY <1>3, <1>3b, <1>6, <1>10, <2>2, <2>3, <2>4
<1> QED
  BY <1>9, <1>12, <1>13

(* A packet that began in step and of which one byte behind the length was *)
(* changed is dropped, and nothing in it is taken for another packet: for  *)
(* every set of packets, and every CRC that tells a packet from every      *)
(* other that differs in one byte.  A packet whose command was changed has *)
(* to be clear, as the property says.                                      *)
THEOREM DamageIsDropped ==
  ASSUME TellsOneByte PROVE Spec => DamagedIsDropped
<1>1. Init => Inv /\ Dropping
  BY InitInv DEF Init, Dropping
<1>2. Inv /\ Dropping /\ [Next]_vars => [received' # Nothing => began # "changed"]_vars
  BY SpoiltIsDropped
<1>3. Inv /\ Dropping /\ [Next]_vars => Inv' /\ Dropping'
  BY Inductive, DroppingInductive
<1> QED
  BY <1>1, <1>2, <1>3, PTL DEF Spec, DamagedIsDropped
=============================================================================
