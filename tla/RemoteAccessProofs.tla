-------------------------- MODULE RemoteAccessProofs --------------------------
(***************************************************************************)
(* The remote access application: its variables keep their types whatever  *)
(* arrives and however late; and if answers come in time or not at all, a  *)
(* call only ever returns its own answer, so that only I/O devices are     *)
(* marked as producers.  For every network, number of nodes and changes.   *)
(***************************************************************************)
EXTENDS RemoteAccess, SequenceFacts

Letters == {"R", "W", "U", "S"}
Entries == {"5F00:02", "5F0A:01", "1000:00", "6200:01", "6200:02"}
RequestRecord == [letter : Letters, node : Nat, entry : Entries]

(* What the device may answer.                                             *)
Values == {NoValue, OPERATIONAL, PREOP, DeviceCiA401, OtherDevice}
Correct(p) ==
  /\ p.letter = p.to.letter
  /\ p.letter = "R" /\ ~p.error => p.value \in NMTStates
  /\ p.letter = "U" /\ ~p.error =>
       /\ p.value \in {DeviceCiA401, OtherDevice}
       /\ p.value = DeviceCiA401 => p.to.node \in CiA401
AnswerRecord ==
  {p \in [letter : Letters, to : RequestRecord, error : BOOLEAN, value : Values] : Correct(p)}

(* What it tells without being asked.                                      *)
DataRecord ==
  [letter : {"D"}, index : {"5F04"}, sub : Nat, value : Statuses]
    \union [letter : {"D"}, index : {"5F00"}, sub : {NodeIDSub}, value : OwnIDs]
    \union [letter : {"D"}, index : {"5F00"}, sub : {NMTStateSub}, value : NMTStates]
Packet == AnswerRecord \union DataRecord

Lives == {"off", "booted", "scanning", "ready"}

(* The invariant of the types: of the line and the device,                 *)
WireInv ==
  /\ toDevice \in Seq(RequestRecord) /\ toHost \in Seq(Packet)
  /\ network \in [Network -> Lives] /\ ownState \in NMTStates

(* of the call in progress or the last one,                                *)
CallInv ==
  /\ call \in RequestRecord \union {NoCall} /\ asked \in RequestRecord \union {NoCall}
  /\ call # NoCall => call = asked /\ result = "none" /\ ResponseReceived = FALSE
  /\ result = "ERROR_NOERROR" =>
       /\ ResponsePacket \in AnswerRecord /\ ResponsePacket.error = FALSE
       /\ ResponsePacket.letter = asked.letter

(* and of the place where main() waits for it.                             *)
PlaceInv ==
  /\ pc \in {"start", "loop", "process", "stopped"} => call = NoCall /\ result = "none"
  /\ pc = "state" => asked.letter = "R"
  /\ pc = "type" => asked.letter = "U" /\ asked.node = nodes + 1

TypeInv == TypeOK /\ WireInv /\ CallInv /\ PlaceInv

(* If no answer is late, nothing is under way but for the call in progress.*)
NoAnswer(host) == \A i \in 1 .. Len(host) : host[i] \notin AnswerRecord
Only(host, q) ==
  \E i \in 1 .. Len(host) :
    /\ host[i] \in AnswerRecord /\ host[i].to = q
    /\ \A j \in 1 .. Len(host) : host[j] \in AnswerRecord => j = i

Quiet == toDevice = <<>> /\ NoAnswer(toHost)
Sent == call # NoCall /\ toDevice = <<call>> /\ NoAnswer(toHost)
Back == call # NoCall /\ toDevice = <<>> /\ Only(toHost, call)

OneInv ==
  /\ Quiet \/ Sent \/ Back
  /\ result = "ERROR_NOERROR" => ResponsePacket.to = asked
  /\ ProducersAreIO

-----------------------------------------------------------------------------
LEMMA Told ==
  ASSUME NEW p \in Packet
  PROVE  /\ IsAnswer(p) <=> p \in AnswerRecord
         /\ p \in AnswerRecord \/ p \in DataRecord
<1>1. CASE p \in AnswerRecord
  BY <1>1 DEF AnswerRecord, IsAnswer, Letters
<1>2. CASE p \in DataRecord
  BY <1>2 DEF AnswerRecord, DataRecord, IsAnswer, Letters
<1> QED
  BY <1>1, <1>2 DEF Packet

LEMMA DataIsNoAnswer == \A p \in DataRecord : p \in Packet /\ p \notin AnswerRecord
  BY DEF DataRecord, AnswerRecord, Letters, Packet

LEMMA NoRequestIsNone == NoCall \notin RequestRecord /\ NoCall.letter = "none"
  BY DEF NoCall, RequestRecord, Letters

(* Packets that arrive.                                                    *)
LEMMA Arriving ==
  ASSUME NEW host \in Seq(Packet), NEW p \in Packet
  PROVE  /\ Append(host, p) \in Seq(Packet)
         /\ p \notin AnswerRecord /\ NoAnswer(host) => NoAnswer(Append(host, p))
         /\ \A q : p \notin AnswerRecord /\ Only(host, q) => Only(Append(host, p), q)
         /\ p \in AnswerRecord /\ NoAnswer(host) => Only(Append(host, p), p.to)
<1> DEFINE new == Append(host, p)
<1>1. /\ new \in Seq(Packet) /\ Len(host) \in Nat /\ Len(new) = Len(host) + 1
      /\ \A i \in 1 .. Len(host) : new[i] = host[i]
      /\ new[Len(host) + 1] = p
  BY Adding
<1> HIDE DEF new
<1>2. \A i \in 1 .. Len(new) : \/ i \in 1 .. Len(host) /\ new[i] = host[i]
                               \/ i = Len(host) + 1 /\ new[i] = p
  BY <1>1
<1>3. \A i \in 1 .. Len(host) : i \in 1 .. Len(new)
  BY <1>1
<1>4. Len(new) \in 1 .. Len(new) /\ new[Len(new)] = p
  BY <1>1
<1>5. ASSUME p \notin AnswerRecord, NoAnswer(host)
      PROVE  NoAnswer(new)
  BY <1>2, <1>5 DEF NoAnswer
<1>6. ASSUME NEW q, p \notin AnswerRecord, Only(host, q)
      PROVE  Only(new, q)
  <2>1. PICK i \in 1 .. Len(host) :
          /\ host[i] \in AnswerRecord /\ host[i].to = q
          /\ \A j \in 1 .. Len(host) : host[j] \in AnswerRecord => j = i
    BY <1>6 DEF Only
  <2>2. new[i] = host[i] /\ i \in 1 .. Len(new)
    BY <1>1, <1>3
  <2>3. \A j \in 1 .. Len(new) : new[j] \in AnswerRecord => j = i
    BY <1>2, <1>6, <2>1
  <2> QED
    BY <2>1, <2>2, <2>3 DEF Only
<1>7. ASSUME p \in AnswerRecord, NoAnswer(host)
      PROVE  Only(new, p.to)
  <2>1. \A j \in 1 .. Len(new) : new[j] \in AnswerRecord => j = Len(new)
    BY <1>1, <1>2, <1>7 DEF NoAnswer
  <2> QED
    BY <1>4, <1>7, <2>1 DEF Only
<1> QED
  BY <1>1, <1>5, <1>6, <1>7 DEF new

(* Packets that are taken.                                                 *)
LEMMA Taken ==
  ASSUME NEW host \in Seq(Packet), host # <<>>
  PROVE  /\ Head(host) \in Packet /\ Tail(host) \in Seq(Packet)
         /\ NoAnswer(host) => Head(host) \notin AnswerRecord /\ NoAnswer(Tail(host))
         /\ \A q : Only(host, q) =>
              IF Head(host) \in AnswerRecord
                THEN Head(host).to = q /\ NoAnswer(Tail(host))
                ELSE Only(Tail(host), q)
<1> DEFINE p == Head(host)
           rest == Tail(host)
<1>1. /\ p \in Packet /\ p = host[1] /\ Len(host) \in Nat \ {0}
      /\ rest \in Seq(Packet) /\ Len(rest) = Len(host) - 1
      /\ \A i \in 1 .. Len(rest) : i + 1 \in 1 .. Len(host) /\ rest[i] = host[i + 1]
  BY Taking
<1> HIDE DEF p, rest
<1>2. 1 \in 1 .. Len(host)
  BY <1>1
<1>3. NoAnswer(host) => p \notin AnswerRecord /\ NoAnswer(rest)
  BY <1>1, <1>2 DEF NoAnswer
<1>4. ASSUME NEW q, Only(host, q)
      PROVE  IF p \in AnswerRecord THEN p.to = q /\ NoAnswer(rest) ELSE Only(rest, q)
  <2>1. PICK i \in 1 .. Len(host) :
          /\ host[i] \in AnswerRecord /\ host[i].to = q
          /\ \A j \in 1 .. Len(host) : host[j] \in AnswerRecord => j = i
    BY <1>4 DEF Only
  <2>2. CASE p \in AnswerRecord
    <3>1. i = 1
      BY <1>1, <1>2, <2>1, <2>2
    <3>2. \A j \in 1 .. Len(rest) : j + 1 # 1
      BY <1>1
    <3>3. NoAnswer(rest)
      BY <1>1, <2>1, <3>1, <3>2 DEF NoAnswer
    <3> QED
      BY <1>1, <2>1, <2>2, <3>1, <3>3
  <2>3. CASE p \notin AnswerRecord
    <3>1. i # 1
      BY <1>1, <2>1, <2>3
    <3>2. i - 1 \in 1 .. Len(rest) /\ rest[i - 1] = host[i]
      <4>1. i - 1 \in 1 .. Len(rest) /\ (i - 1) + 1 = i
        BY <1>1, <3>1
      <4> QED
        BY <1>1, <4>1
    <3>3. \A j \in 1 .. Len(rest) : rest[j] \in AnswerRecord => j = i - 1
      <4> SUFFICES ASSUME NEW j \in 1 .. Len(rest), rest[j] \in AnswerRecord
                   PROVE  j = i - 1
        OBVIOUS
      <4>1. j + 1 \in 1 .. Len(host) /\ host[j + 1] \in AnswerRecord
        BY <1>1
      <4>2. j + 1 = i
        BY <2>1, <4>1
      <4> QED
        BY <4>2
    <3> QED
      BY <2>1, <2>3, <3>2, <3>3 DEF Only
  <2> QED
    BY <2>2, <2>3
<1> QED
  BY <1>1, <1>3, <1>4 DEF p, rest

-----------------------------------------------------------------------------
(* Steps that several actions make.                                        *)

(* A call begins.                                                          *)
LEMMA Begun ==
  ASSUME TypeInv, call = NoCall, NEW q \in RequestRecord, Begin(q),
         UNCHANGED <<network, ownState>>
  PROVE  /\ WireInv' /\ CallInv' /\ asked' = q
         /\ result' \in {"none", "ERROR_TX"}
         /\ Quiet => Quiet' \/ Sent'
<1>1. /\ asked' = q /\ toHost' = toHost /\ ResponseReceived' = FALSE
      /\ \/ toDevice' = Append(toDevice, q) /\ call' = q /\ result' = "none"
         \/ toDevice' = toDevice /\ call' = NoCall /\ result' = "ERROR_TX"
  BY DEF Begin, ClearReceived
<1>2. toDevice \in Seq(RequestRecord)
  BY DEF TypeInv, WireInv
<1>3. Append(toDevice, q) \in Seq(RequestRecord)
  BY <1>2, Adding
<1>4. WireInv'
  BY <1>1, <1>3 DEF TypeInv, WireInv
<1>5. CallInv'
  BY <1>1 DEF CallInv
<1>6. ASSUME Quiet PROVE Quiet' \/ Sent'
  <2>1. Append(toDevice, q) = <<q>>
    BY <1>6 DEF Quiet
  <2>2. q # NoCall
    BY NoRequestIsNone
  <2> QED
    BY <1>1, <1>6, <2>1, <2>2 DEF Quiet, Sent
<1> QED
  BY <1>1, <1>4, <1>5, <1>6

(* A packet is processed, if there is one.                                 *)
LEMMA Processed ==
  ASSUME TypeInv, Process
  PROVE  /\ NodeStates' \in [Cells -> SUBSET Flags]
         /\ MyNodeID' \in OwnIDs \union {0} /\ MyNMTState' \in NMTStates \union {0}
         /\ ProducersAreIO => ProducersAreIO'
         /\ toHost' \in Seq(Packet)
         /\ \/ /\ UNCHANGED <<ResponsePacket, ResponseReceived>>
               /\ NoAnswer(toHost) => NoAnswer(toHost')
               /\ \A q : Only(toHost, q) => Only(toHost', q)
            \/ /\ ResponsePacket' \in AnswerRecord /\ ResponseReceived' = TRUE
               /\ ~NoAnswer(toHost)
               /\ \A q : Only(toHost, q) => ResponsePacket'.to = q /\ NoAnswer(toHost')
<1>1. /\ toHost \in Seq(Packet) /\ NodeStates \in [Cells -> SUBSET Flags]
      /\ MyNodeID \in OwnIDs \union {0} /\ MyNMTState \in NMTStates \union {0}
  BY DEF TypeInv, WireInv, TypeOK
<1>2. CASE toHost = <<>>
  <2>1. UNCHANGED <<toHost, NodeStates, MyNodeID, MyNMTState, ResponsePacket, ResponseReceived>>
    BY <1>2 DEF Process, KeepAnswer
  <2> QED
    BY <1>1, <2>1 DEF ProducersAreIO
<1>3. CASE toHost # <<>>
  <2> DEFINE p == Head(toHost)
  <2>1. /\ toHost' = Tail(toHost)
        /\ IF IsAnswer(p)
             THEN StoreAnswer(p) /\ UNCHANGED <<NodeStates, MyNodeID, MyNMTState>>
             ELSE NewData(p) /\ KeepAnswer
    BY <1>3 DEF Process
  <2>2. /\ p \in Packet /\ Tail(toHost) \in Seq(Packet)
        /\ NoAnswer(toHost) => p \notin AnswerRecord /\ NoAnswer(Tail(toHost))
        /\ \A q : Only(toHost, q) =>
             IF p \in AnswerRecord THEN p.to = q /\ NoAnswer(Tail(toHost))
                                   ELSE Only(Tail(toHost), q)
    BY <1>1, <1>3, Taken
  <2> HIDE DEF p
  <2>3. CASE p \in AnswerRecord
    <3>1. IsAnswer(p)
      BY <2>2, <2>3, Told
    <3> QED
      BY <1>1, <2>1, <2>2, <2>3, <3>1 DEF StoreAnswer, ProducersAreIO
  <2>4. CASE p \in DataRecord
    <3>1. ~IsAnswer(p) /\ p \notin AnswerRecord
      BY <2>2, <2>4, Told, DataIsNoAnswer
    <3>2. NewData(p) /\ UNCHANGED <<ResponsePacket, ResponseReceived>>
      BY <2>1, <3>1 DEF KeepAnswer
    <3>3. MyNodeID' \in OwnIDs \union {0} /\ MyNMTState' \in NMTStates \union {0}
      BY <1>1, <2>4, <3>2 DEF NewData, DataRecord, NodeIDSub, NMTStateSub
    <3>4. CASE NodeStates' = NodeStates
      BY <1>1, <2>1, <2>2, <3>1, <3>2, <3>3, <3>4 DEF ProducersAreIO
    <3>5. CASE NodeStates' = [NodeStates EXCEPT ![p.sub - 1] = FlagsAfter(@, p.value)]
      <4>1. ASSUME NEW f \in SUBSET Flags, NEW status
            PROVE  /\ FlagsAfter(f, status) \in SUBSET Flags
                   /\ "PRODUCEDATA" \in FlagsAfter(f, status) => "PRODUCEDATA" \in f
        <5>1. /\ f \union {"BOOTED"} \in SUBSET Flags
              /\ (f \union {"HBACTIVE"}) \ {"HBLOSS"} \in SUBSET Flags
              /\ {"HBACTIVE", "HBLOSS"} \in SUBSET Flags
              /\ (f \union {"SCANNING"}) \ {"BOOTED"} \in SUBSET Flags
              /\ (f \union {"SCANFINISHED"}) \ {"SCANNING"} \in SUBSET Flags
              /\ f \ {"SCANFINISHED", "SCANNING"} \in SUBSET Flags
          BY DEF Flags
        <5> QED
          BY <5>1 DEF FlagsAfter
      <4>2. NodeStates' \in [Cells -> SUBSET Flags]
        BY <1>1, <3>5, <4>1
      <4>3. ASSUME ProducersAreIO, NEW i \in Index, "PRODUCEDATA" \in NodeStates'[i]
            PROVE  i + 1 \in CiA401
        <5>0. i \in Cells
          BY DEF Cells
        <5>1. "PRODUCEDATA" \in NodeStates[i]
          BY <1>1, <3>5, <4>1, <4>3, <5>0
        <5> QED
          BY <4>3, <5>1 DEF ProducersAreIO
      <4>4. ProducersAreIO => ProducersAreIO'
        BY <4>3 DEF ProducersAreIO
      <4> QED
        BY <2>1, <2>2, <3>1, <3>2, <3>3, <4>2, <4>4
    <3> QED
      BY <3>2, <3>4, <3>5 DEF NewData
  <2> QED
    BY <2>2, <2>3, <2>4, Told
<1> QED
  BY <1>2, <1>3

(* A call's result has been looked at.                                     *)
LEMMA LookedAt ==
  ASSUME TypeInv, call = NoCall, Returned, UNCHANGED <<network, ownState>>
  PROVE  /\ WireInv' /\ CallInv' /\ call' = NoCall /\ result' = "none"
         /\ Quiet => Quiet'
<1>1. /\ result' = "none" /\ asked' = NoCall
      /\ UNCHANGED <<call, toDevice, toHost, ResponseReceived, ResponsePacket>>
  BY DEF Returned, linkVars
<1>2. WireInv'
  BY <1>1 DEF TypeInv, WireInv
<1>3. CallInv'
  BY <1>1 DEF CallInv
<1> QED
  BY <1>1, <1>2, <1>3 DEF Quiet

(* With no call in progress nothing is under way.                          *)
LEMMA QuietBetween == OneInv /\ call = NoCall => Quiet
  BY DEF OneInv, Sent, Back

(* What is shown of every step.                                            *)
Good == TypeInv' /\ (OneInv /\ LateAnswers = FALSE => OneInv')

(* Steps after which a call is in progress, or its result is unseen, ...   *)
LEMMA AsksGood ==
  ASSUME TypeInv, call = NoCall, NEW q \in RequestRecord, Begin(q),
         UNCHANGED <<network, ownState>>,
         nodes' \in Index, UNCHANGED MyNodeID,
         NodeStates' \in [Cells -> SUBSET Flags], OneInv => ProducersAreIO',
         DataBuf' \in {NoValue, Time, OtherDevice, DeviceCiA401},
         MyNMTState' \in NMTStates \union {0},
         \/ pc' = "state" /\ q.letter = "R"
         \/ pc' = "type" /\ q.letter = "U" /\ q.node = nodes' + 1
         \/ pc' \in {"reset", "data1", "data2"}
  PROVE  Good
<1>1. /\ WireInv' /\ CallInv' /\ asked' = q /\ result' \in {"none", "ERROR_TX"}
      /\ Quiet => Quiet' \/ Sent'
  BY Begun
<1>2. TypeOK'
  BY <1>1 DEF TypeInv, TypeOK
<1>3. PlaceInv'
  BY <1>1 DEF PlaceInv
<1>4. OneInv => OneInv'
  BY <1>1, QuietBetween DEF OneInv
<1> QED
  BY <1>1, <1>2, <1>3, <1>4 DEF Good, TypeInv

(* Steps that leave the flags alone.                                       *)
LEMMA SameFlags ==
  ASSUME TypeInv, UNCHANGED NodeStates
  PROVE  NodeStates' \in [Cells -> SUBSET Flags] /\ (OneInv => ProducersAreIO')
  BY DEF TypeInv, TypeOK, OneInv, ProducersAreIO

(* An assignment to TerminationRequested, which changes no entry.          *)
LEMMA ReassignedFlags ==
  ASSUME TypeInv, NodeStates' = Reassigned
  PROVE  NodeStates' \in [Cells -> SUBSET Flags] /\ (OneInv => ProducersAreIO')
<1>1. /\ NodeStates \in [Cells -> SUBSET Flags] /\ MAX_NUMBER_OF_NODES \in Nat
      /\ Before \in Cells /\ {} \in SUBSET Flags
  BY NodesAssumption DEF TypeInv, TypeOK, Cells
<1>2. NodeStates' \in [Cells -> SUBSET Flags]
  BY <1>1 DEF Reassigned
<1>3. \A i \in Index : i \in Cells /\ i # Before
  BY <1>1 DEF Cells, Index, Before
<1>4. \A i \in Index : NodeStates'[i] = NodeStates[i]
  BY <1>1, <1>3 DEF Reassigned
<1> QED
  BY <1>2, <1>4 DEF OneInv, ProducersAreIO

(* ... and steps after which there is none.                                *)
LEMMA LooksGood ==
  ASSUME TypeInv, call = NoCall, Returned, UNCHANGED <<network, ownState>>,
         nodes' \in Index, NodeStates' \in [Cells -> SUBSET Flags], UNCHANGED MyNodeID,
         DataBuf' \in {NoValue, Time, OtherDevice, DeviceCiA401},
         MyNMTState' \in NMTStates \union {0},
         pc' \in {"loop", "process", "stopped"},
         OneInv => ProducersAreIO'
  PROVE  Good
<1>1. /\ WireInv' /\ CallInv' /\ call' = NoCall /\ result' = "none"
      /\ Quiet => Quiet'
  BY LookedAt
<1>2. TypeOK'
  BY <1>1 DEF TypeInv, TypeOK
<1>3. PlaceInv'
  BY <1>1 DEF PlaceInv
<1>4. OneInv => OneInv'
  BY <1>1, QuietBetween DEF OneInv
<1> QED
  BY <1>1, <1>2, <1>3, <1>4 DEF Good, TypeInv

LEMMA StartGood == TypeInv /\ Start => Good
<1> SUFFICES ASSUME TypeInv, Start PROVE Good
  OBVIOUS
<1>1. Request("R", 0, "5F00:02") \in RequestRecord /\ Request("R", 0, "5F00:02").letter = "R"
  BY DEF Request, RequestRecord, Letters, Entries
<1>2. /\ call = NoCall /\ Begin(Request("R", 0, "5F00:02")) /\ pc' = "state"
      /\ UNCHANGED <<network, ownState, nodes, NodeStates, MyNodeID, MyNMTState, DataBuf>>
  BY DEF Start, At, Asks, Goto, Elsewhere, deviceVars
<1> QED
  BY <1>1, <1>2, AsksGood, SameFlags DEF TypeInv, TypeOK

LEMMA GotStateGood == TypeInv /\ GotState => Good
<1> SUFFICES ASSUME TypeInv, GotState PROVE Good
  OBVIOUS
<1>1. /\ call = NoCall /\ pc = "state"
      /\ UNCHANGED <<network, ownState, nodes, MyNodeID, DataBuf>>
      /\ NodeStates' = NodeStates \/ NodeStates' = Reassigned
  BY DEF GotState, At, deviceVars
<1>2. /\ nodes' \in Index /\ NodeStates' \in [Cells -> SUBSET Flags]
      /\ DataBuf' \in {NoValue, Time, OtherDevice, DeviceCiA401}
      /\ OneInv => ProducersAreIO'
  <2>1. NodeStates' \in [Cells -> SUBSET Flags] /\ (OneInv => ProducersAreIO')
    BY <1>1, SameFlags, ReassignedFlags
  <2> QED
    BY <1>1, <2>1 DEF TypeInv, TypeOK
<1>3. CASE result # "ERROR_NOERROR"
  <2>1. pc' = "stopped" /\ Returned /\ MyNMTState' = MyNMTState
    BY <1>3 DEF GotState, Goto
  <2>2. MyNMTState' \in NMTStates \union {0}
    BY <2>1 DEF TypeInv, TypeOK
  <2> QED
    BY <1>1, <1>2, <2>1, <2>2, LooksGood
<1>4. CASE result = "ERROR_NOERROR"
  <2>1. MyNMTState' \in NMTStates \union {0}
    <3>1. /\ ResponsePacket \in AnswerRecord /\ ResponsePacket.error = FALSE
          /\ ResponsePacket.letter = "R"
      BY <1>1, <1>4 DEF TypeInv, CallInv, PlaceInv
    <3>2. ResponsePacket.value \in NMTStates
      BY <3>1 DEF AnswerRecord, Correct
    <3> QED
      BY <1>4, <3>2 DEF GotState
  <2>2. CASE ResponsePacket.value = OPERATIONAL
    <3>1. Request("W", 0, "5F0A:01") \in RequestRecord
      BY DEF Request, RequestRecord, Letters, Entries
    <3>2. Begin(Request("W", 0, "5F0A:01")) /\ pc' = "reset"
      BY <1>4, <2>2 DEF GotState, Asks, Goto
    <3> QED
      BY <1>1, <1>2, <2>1, <3>1, <3>2, AsksGood
  <2>3. CASE ResponsePacket.value # OPERATIONAL
    <3>1. Returned /\ pc' = "loop"
      BY <1>4, <2>3 DEF GotState, Goto
    <3> QED
      BY <1>1, <1>2, <2>1, <3>1, LooksGood
  <2> QED
    BY <2>2, <2>3
<1> QED
  BY <1>3, <1>4

LEMMA DidGood == TypeInv /\ (DidReset \/ WroteSecond) => Good
<1> SUFFICES ASSUME TypeInv, DidReset \/ WroteSecond PROVE Good
  OBVIOUS
<1>1. /\ call = NoCall /\ Returned /\ pc' \in {"loop", "process"}
      /\ UNCHANGED <<network, ownState, nodes, NodeStates, MyNodeID, MyNMTState, DataBuf>>
  BY DEF DidReset, WroteSecond, At, Goto, Elsewhere, deviceVars
<1>2. OneInv => ProducersAreIO'
  BY <1>1 DEF OneInv, ProducersAreIO
<1> QED
  BY <1>1, <1>2, LooksGood DEF TypeInv, TypeOK

LEMMA WroteFirstGood == TypeInv /\ WroteFirst => Good
<1> SUFFICES ASSUME TypeInv, WroteFirst PROVE Good
  OBVIOUS
<1>1. nodes \in Nat
  BY NodesAssumption DEF TypeInv, TypeOK, Index
<1>2. Request("S", nodes, "6200:02") \in RequestRecord
  BY <1>1 DEF Request, RequestRecord, Letters, Entries
<1>3. /\ call = NoCall /\ Begin(Request("S", nodes, "6200:02")) /\ pc' = "data2"
      /\ UNCHANGED <<network, ownState, nodes, NodeStates, MyNodeID, MyNMTState, DataBuf>>
  BY DEF WroteFirst, At, Asks, Goto, Elsewhere, deviceVars
<1> QED
  BY <1>2, <1>3, AsksGood, SameFlags DEF TypeInv, TypeOK

(* A step of the loop without a request.                                   *)
LEMMA RestGood ==
  ASSUME TypeInv, call = NoCall, result = "none", NoRequest,
         UNCHANGED <<network, ownState, NodeStates, MyNodeID, MyNMTState, DataBuf>>,
         nodes' \in Index, pc' \in {"process", "stopped"}
  PROVE  Good
<1>1. UNCHANGED <<call, result, ResponseReceived, ResponsePacket, asked, toDevice, toHost>>
  BY DEF NoRequest, callVars, linkVars
<1>2. TypeInv'
  BY <1>1 DEF TypeInv, TypeOK, WireInv, CallInv, PlaceInv
<1>3. OneInv => OneInv'
  BY <1>1 DEF OneInv, Quiet, Sent, Back, ProducersAreIO
<1> QED
  BY <1>2, <1>3 DEF Good

LEMMA NextTurnGood == TypeInv /\ (NextTurn \/ Stop) => Good
<1> SUFFICES ASSUME TypeInv, NextTurn \/ Stop PROVE Good
  OBVIOUS
<1>1. /\ call = NoCall /\ result = "none"
      /\ UNCHANGED <<network, ownState, NodeStates, MyNodeID, MyNMTState>>
  BY DEF NextTurn, Stop, At, Elsewhere, deviceVars, TypeInv, PlaceInv
<1>2. nodes' \in Index /\ nodes' \in Nat /\ nodes' + 1 \in Nat
  <2>1. nodes \in 0 .. MAX_NUMBER_OF_NODES - 1 /\ MAX_NUMBER_OF_NODES \in Nat \ {0}
    BY NodesAssumption DEF TypeInv, TypeOK, Index
  <2>2. nodes' = nodes \/ nodes' = NextNode(nodes)
    BY DEF NextTurn, Stop
  <2>3. nodes' \in 0 .. MAX_NUMBER_OF_NODES - 1
    BY <2>1, <2>2 DEF NextNode
  <2>4. \A n \in 0 .. MAX_NUMBER_OF_NODES - 1 : n \in Nat /\ n + 1 \in Nat
    BY <2>1
  <2> QED
    BY <2>3, <2>4 DEF Index
<1>3. /\ MyNMTState' \in NMTStates \union {0} /\ Time \in {NoValue, Time, OtherDevice, DeviceCiA401}
      /\ DataBuf \in {NoValue, Time, OtherDevice, DeviceCiA401}
  BY <1>1 DEF TypeInv, TypeOK
<1>4. CASE NextTurn /\ Asks("U", nodes' + 1, "1000:00") /\ Goto("type") /\ UNCHANGED DataBuf
  <2> DEFINE q == Request("U", nodes' + 1, "1000:00")
  <2>1. q \in RequestRecord /\ q.letter = "U" /\ q.node = nodes' + 1
    BY <1>2 DEF Request, RequestRecord, Letters, Entries
  <2>2. Begin(q) /\ pc' = "type" /\ DataBuf' = DataBuf
    BY <1>4 DEF Asks, Goto
  <2> HIDE DEF q
  <2> QED
    BY <1>1, <1>2, <1>3, <2>1, <2>2, AsksGood, SameFlags
<1>5. CASE NextTurn /\ Asks("S", nodes', "6200:01") /\ Goto("data1") /\ DataBuf' = Time
  <2> DEFINE q == Request("S", nodes', "6200:01")
  <2>1. q \in RequestRecord
    BY <1>2 DEF Request, RequestRecord, Letters, Entries
  <2>2. Begin(q) /\ pc' = "data1" /\ DataBuf' = Time
    BY <1>5 DEF Asks, Goto
  <2> HIDE DEF q
  <2> QED
    BY <1>1, <1>2, <1>3, <2>1, <2>2, AsksGood, SameFlags
<1>6. CASE NoRequest /\ pc' \in {"process", "stopped"} /\ UNCHANGED DataBuf
  BY <1>1, <1>2, <1>6, RestGood
<1> QED
  BY <1>4, <1>5, <1>6 DEF NextTurn, Stop, Goto

(* The answer to the read of a device type marks a node as a producer.     *)
LEMMA GotTypeGood == TypeInv /\ GotType => Good
<1> SUFFICES ASSUME TypeInv, GotType PROVE Good
  OBVIOUS
<1>1. /\ call = NoCall /\ Returned /\ pc = "type" /\ pc' = "process"
      /\ DataBuf' = IF result = "ERROR_NOERROR" THEN ResponsePacket.value ELSE DataBuf
      /\ UNCHANGED <<network, ownState, nodes, MyNodeID, MyNMTState>>
  BY DEF GotType, At, Goto, Elsewhere, deviceVars
<1>2. /\ nodes \in Index /\ nodes \in Cells /\ NodeStates \in [Cells -> SUBSET Flags]
      /\ MyNMTState \in NMTStates \union {0}
      /\ DataBuf \in {NoValue, Time, OtherDevice, DeviceCiA401}
  BY DEF TypeInv, TypeOK, Cells
<1>3. ASSUME result = "ERROR_NOERROR"
      PROVE  /\ ResponsePacket \in AnswerRecord /\ ResponsePacket.error = FALSE
             /\ ResponsePacket.letter = "U" /\ asked.node = nodes + 1
             /\ ResponsePacket.value \in {DeviceCiA401, OtherDevice}
             /\ ResponsePacket.value = DeviceCiA401 => ResponsePacket.to.node \in CiA401
  <2>1. /\ ResponsePacket \in AnswerRecord /\ ResponsePacket.error = FALSE
        /\ ResponsePacket.letter = "U" /\ asked.node = nodes + 1
    BY <1>1, <1>3 DEF TypeInv, CallInv, PlaceInv
  <2>2. Correct(ResponsePacket)
    BY <2>1 DEF AnswerRecord
  <2> QED
    BY <2>1, <2>2 DEF Correct
<1>4. DataBuf' \in {NoValue, Time, OtherDevice, DeviceCiA401}
  BY <1>1, <1>2, <1>3
<1> DEFINE producer == IF Success(result) /\ DataBuf' = DeviceCiA401 THEN {"PRODUCEDATA"} ELSE {}
<1>5. NodeStates' = [NodeStates EXCEPT ![nodes] = (@ \union producer) \ {"SCANFINISHED"}]
  BY DEF GotType
<1>6. producer \in SUBSET Flags
  BY DEF Flags
<1>7. "PRODUCEDATA" \in producer => result = "ERROR_NOERROR" /\ ResponsePacket.value = DeviceCiA401
  BY <1>1 DEF Success
<1> HIDE DEF producer
<1>8. NodeStates' \in [Cells -> SUBSET Flags]
  BY <1>2, <1>5, <1>6
<1>9. OneInv => ProducersAreIO'
  <2> SUFFICES ASSUME OneInv, NEW i \in Index, "PRODUCEDATA" \in NodeStates'[i]
               PROVE  i + 1 \in CiA401
    BY DEF ProducersAreIO
  <2>1. CASE "PRODUCEDATA" \in NodeStates[i]
    BY <2>1 DEF OneInv, ProducersAreIO
  <2>2. CASE "PRODUCEDATA" \notin NodeStates[i]
    <3>0. i \in Cells
      BY DEF Cells
    <3>1. i = nodes /\ "PRODUCEDATA" \in producer
      BY <1>2, <1>5, <2>2, <3>0
    <3>2. ResponsePacket.to = asked
      BY <1>7, <3>1 DEF OneInv
    <3> QED
      BY <1>3, <1>7, <3>1, <3>2
  <2> QED
    BY <2>1, <2>2
<1> QED
  BY <1>1, <1>2, <1>4, <1>8, <1>9, LooksGood

(* Process, called by main() and by a call.                                *)
LEMMA ProcessGood == TypeInv /\ ProcessOnce => Good
<1> SUFFICES ASSUME TypeInv, ProcessOnce PROVE Good
  OBVIOUS
<1>1. /\ call = NoCall /\ result = "none" /\ Process /\ pc' \in {"loop", "stopped"}
      /\ UNCHANGED <<call, result, asked, toDevice, nodes, DataBuf, network, ownState>>
  BY DEF ProcessOnce, At, Elsewhere, deviceVars, TypeInv, PlaceInv
<1>2. /\ NodeStates' \in [Cells -> SUBSET Flags]
      /\ MyNodeID' \in OwnIDs \union {0} /\ MyNMTState' \in NMTStates \union {0}
      /\ ProducersAreIO => ProducersAreIO'
      /\ toHost' \in Seq(Packet)
      /\ NoAnswer(toHost) => NoAnswer(toHost')
  BY <1>1, Processed
<1>3. TypeInv'
  BY <1>1, <1>2 DEF TypeInv, TypeOK, WireInv, CallInv, PlaceInv
<1>4. OneInv => OneInv'
  BY <1>1, <1>2, QuietBetween DEF OneInv, Quiet
<1> QED
  BY <1>3, <1>4 DEF Good

LEMMA WaitGood == TypeInv /\ Wait => Good
<1> SUFFICES ASSUME TypeInv, Wait PROVE Good
  OBVIOUS
<1>1. /\ call # NoCall /\ Process
      /\ UNCHANGED <<asked, toDevice, pc, nodes, DataBuf, network, ownState>>
      /\ IF ResponseReceived'
           THEN call' = NoCall /\ result' = Outcome(ResponsePacket')
           ELSE UNCHANGED <<call, result>>
  BY DEF Wait, Return, deviceVars
<1>2. /\ call \in RequestRecord /\ call = asked /\ result = "none" /\ ResponseReceived = FALSE
      /\ pc \notin {"start", "loop", "process", "stopped"}
  BY <1>1 DEF TypeInv, CallInv, PlaceInv
<1>3. /\ NodeStates' \in [Cells -> SUBSET Flags]
      /\ MyNodeID' \in OwnIDs \union {0} /\ MyNMTState' \in NMTStates \union {0}
      /\ ProducersAreIO => ProducersAreIO'
      /\ toHost' \in Seq(Packet)
  BY <1>1, Processed
<1>4. CASE /\ UNCHANGED <<ResponsePacket, ResponseReceived>>
           /\ NoAnswer(toHost) => NoAnswer(toHost')
           /\ \A q : Only(toHost, q) => Only(toHost', q)
  <2>1. UNCHANGED <<call, result>>
    BY <1>1, <1>2, <1>4
  <2>2. TypeInv'
    BY <1>1, <1>2, <1>3, <1>4, <2>1 DEF TypeInv, TypeOK, WireInv, CallInv, PlaceInv
  <2>3. OneInv => OneInv'
    BY <1>1, <1>2, <1>3, <1>4, <2>1 DEF OneInv, Quiet, Sent, Back
  <2> QED
    BY <2>2, <2>3 DEF Good
<1>5. CASE /\ ResponsePacket' \in AnswerRecord /\ ResponseReceived' = TRUE
           /\ ~NoAnswer(toHost)
           /\ \A q : Only(toHost, q) => ResponsePacket'.to = q /\ NoAnswer(toHost')
  <2>1. call' = NoCall /\ result' = Outcome(ResponsePacket')
    BY <1>1, <1>5
  <2>2. /\ result' \in {"ERROR_NOERROR", "ERROR_WRONGRESPONSE", "ERROR_NODEERROR"}
        /\ result' = "ERROR_NOERROR" => /\ ResponsePacket'.letter = asked'.letter
                                        /\ ResponsePacket'.error = FALSE
    <3>1. ResponsePacket'.error \in BOOLEAN
      BY <1>5 DEF AnswerRecord
    <3> QED
      BY <1>1, <1>2, <2>1, <3>1 DEF Outcome
  <2>3. TypeOK'
    BY <1>1, <1>3, <2>2 DEF TypeInv, TypeOK
  <2>4. WireInv' /\ PlaceInv'
    BY <1>1, <1>2, <1>3 DEF TypeInv, WireInv, PlaceInv
  <2>5. CallInv'
    BY <1>1, <1>5, <2>1, <2>2 DEF TypeInv, CallInv
  <2>6. OneInv => OneInv'
    <3> SUFFICES ASSUME OneInv PROVE OneInv'
      OBVIOUS
    <3>1. toDevice = <<>> /\ Only(toHost, call)
      BY <1>5 DEF OneInv, Quiet, Sent, Back
    <3>2. ResponsePacket'.to = asked' /\ Quiet'
      BY <1>1, <1>2, <1>5, <3>1 DEF Quiet
    <3> QED
      BY <1>3, <3>2 DEF OneInv
  <2> QED
    BY <2>3, <2>4, <2>5, <2>6 DEF Good, TypeInv
<1> QED
  BY <1>1, <1>4, <1>5, Processed

(* A call only gives up if its answer can not come any more.               *)
LEMMA TimeOutGood == TypeInv /\ TimeOut => Good
<1> SUFFICES ASSUME TypeInv, TimeOut PROVE Good
  OBVIOUS
<1>1. /\ call # NoCall /\ MayTimeOut /\ call' = NoCall /\ result' = "ERROR_NORESPONSE"
      /\ UNCHANGED <<ResponseReceived, ResponsePacket, asked, toDevice, toHost, pc, nodes,
                     NodeStates, MyNodeID, MyNMTState, DataBuf, network, ownState>>
  BY DEF TimeOut, GiveUp, appVars, deviceVars
<1>2. TypeInv'
  <2>1. TypeOK' /\ WireInv'
    BY <1>1 DEF TypeInv, TypeOK, WireInv
  <2>2. CallInv'
    BY <1>1 DEF TypeInv, CallInv
  <2>3. PlaceInv'
    BY <1>1 DEF TypeInv, PlaceInv
  <2> QED
    BY <2>1, <2>2, <2>3 DEF TypeInv
<1>3. OneInv /\ LateAnswers = FALSE => OneInv'
  <2> SUFFICES ASSUME OneInv, LateAnswers = FALSE PROVE OneInv'
    OBVIOUS
  <2>1. ~UnderWay
    BY <1>1 DEF MayTimeOut
  <2>2. ~Sent
    <3> SUFFICES ASSUME Sent PROVE FALSE
      OBVIOUS
    <3>1. 1 \in DOMAIN toDevice /\ toDevice[1] = call
      BY DEF Sent
    <3> QED
      BY <2>1, <3>1 DEF UnderWay
  <2>3. ~Back
    <3> SUFFICES ASSUME Back PROVE FALSE
      OBVIOUS
    <3>1. toHost \in Seq(Packet) /\ Only(toHost, call)
      BY DEF Back, TypeInv, WireInv
    <3>2. PICK i \in 1 .. Len(toHost) : toHost[i] \in AnswerRecord /\ toHost[i].to = call
      BY <3>1 DEF Only
    <3>3. i \in DOMAIN toHost /\ toHost[i] \in Packet
      BY <3>1, <3>2, LenProperties, ElementOfSeq
    <3>4. IsAnswer(toHost[i])
      BY <3>2, <3>3, Told
    <3> QED
      BY <2>1, <3>2, <3>3, <3>4 DEF UnderWay
  <2>4. Quiet'
    BY <1>1, <2>2, <2>3 DEF OneInv, Quiet
  <2> QED
    BY <1>1, <2>4 DEF OneInv, ProducersAreIO
<1> QED
  BY <1>2, <1>3 DEF Good

(* The device tells something, ...                                         *)
LEMMA TellsGood ==
  ASSUME TypeInv, NEW p \in DataRecord, Tells(p),
         network' \in [Network -> Lives], ownState' \in NMTStates
  PROVE  Good
<1>1. /\ toHost' = Append(toHost, p)
      /\ UNCHANGED <<call, result, ResponseReceived, ResponsePacket, asked, toDevice, pc, nodes,
                     NodeStates, MyNodeID, MyNMTState, DataBuf>>
  BY DEF Tells, callVars, appVars
<1>2. p \in Packet /\ p \notin AnswerRecord
  BY DataIsNoAnswer
<1>3. toHost \in Seq(Packet)
  BY DEF TypeInv, WireInv
<1>4. /\ toHost' \in Seq(Packet)
      /\ NoAnswer(toHost) => NoAnswer(toHost')
      /\ \A q : Only(toHost, q) => Only(toHost', q)
  BY <1>1, <1>2, <1>3, Arriving
<1>5. TypeInv'
  BY <1>1, <1>4 DEF TypeInv, TypeOK, WireInv, CallInv, PlaceInv
<1>6. OneInv => OneInv'
  BY <1>1, <1>4 DEF OneInv, Quiet, Sent, Back, ProducersAreIO
<1> QED
  BY <1>5, <1>6 DEF Good

LEMMA ChangesGood == TypeInv /\ (DeviceChanges \/ \E n \in Network : NodeChanges(n)) => Good
<1> SUFFICES ASSUME TypeInv, DeviceChanges \/ \E n \in Network : NodeChanges(n) PROVE Good
  OBVIOUS
<1>1. network \in [Network -> Lives] /\ ownState \in NMTStates
  BY DEF TypeInv, WireInv
<1>2. CASE DeviceChanges
  <2>1. ASSUME NEW id \in OwnIDs, Tells(DataPacket("5F00", 1, id)), UNCHANGED <<network, ownState>>
        PROVE  Good
    <3>1. DataPacket("5F00", 1, id) \in DataRecord
      BY DEF DataPacket, DataRecord, NodeIDSub
    <3> QED
      BY <1>1, <2>1, <3>1, TellsGood
  <2>2. ASSUME NEW st \in NMTStates, Tells(DataPacket("5F00", 2, st)), ownState' = st,
               UNCHANGED network
        PROVE  Good
    <3>1. DataPacket("5F00", 2, st) \in DataRecord
      BY DEF DataPacket, DataRecord, NMTStateSub
    <3> QED
      BY <1>1, <2>2, <3>1, TellsGood
  <2>3. ASSUME NEW t \in Strays, Tells(DataPacket("5F04", t[1], t[2])), UNCHANGED <<network, ownState>>
        PROVE  Good
    <3>1. t[1] \in Nat /\ t[2] \in Statuses
      BY NodesAssumption
    <3>2. DataPacket("5F04", t[1], t[2]) \in DataRecord
      BY <3>1 DEF DataPacket, DataRecord
    <3> QED
      BY <1>1, <2>3, <3>2, TellsGood
  <2> QED
    BY <1>2, <2>1, <2>2, <2>3 DEF DeviceChanges
<1>3. ASSUME NEW n \in Network, NodeChanges(n)
      PROVE  Good
  <2>1. PICK status \in After(network[n]) :
          /\ network' = [network EXCEPT ![n] = Becomes(@, status)]
          /\ Tells(DataPacket("5F04", n, status))
          /\ UNCHANGED ownState
    BY <1>3 DEF NodeChanges
  <2>2. network[n] \in Lives
    BY <1>1
  <2>3. status \in Statuses
    BY <2>1, <2>2 DEF After, Lives, Statuses
  <2>4. Becomes(network[n], status) \in Lives
    BY <2>2 DEF Becomes, Lives
  <2>5. DataPacket("5F04", n, status) \in DataRecord
    BY <2>3, NodesAssumption DEF DataPacket, DataRecord
  <2>6. network' \in [Network -> Lives]
    BY <1>1, <2>1, <2>4
  <2> QED
    BY <1>1, <2>1, <2>5, <2>6, TellsGood
<1> QED
  BY <1>2, <1>3

(* ... answers,                                                            *)
LEMMA AnswersGood == TypeInv /\ DeviceAnswers => Good
<1> SUFFICES ASSUME TypeInv, DeviceAnswers PROVE Good
  OBVIOUS
<1> DEFINE r == Head(toDevice)
           value == CASE r.letter = "R" -> ownState
                      [] r.letter = "U" -> IF r.node \in CiA401 THEN DeviceCiA401 ELSE OtherDevice
                      [] OTHER -> NoValue
           p == IF r.letter \in {"U", "S"} /\ ~Reached(r.node)
                  THEN Answer(r, TRUE, NoValue) ELSE Answer(r, FALSE, value)
<1>1. /\ toDevice # <<>> /\ toDevice' = Tail(toDevice) /\ toHost' = Append(toHost, p)
      /\ UNCHANGED <<call, result, ResponseReceived, ResponsePacket, asked, pc, nodes,
                     NodeStates, MyNodeID, MyNMTState, DataBuf, network, ownState>>
  BY DEF DeviceAnswers, callVars, appVars, deviceVars
<1>2. /\ toDevice \in Seq(RequestRecord) /\ toHost \in Seq(Packet)
      /\ ownState \in NMTStates
  BY DEF TypeInv, WireInv
<1>3. r \in RequestRecord /\ Tail(toDevice) \in Seq(RequestRecord) /\ r = toDevice[1]
  BY <1>1, <1>2, Taking
<1> HIDE DEF r
<1>4. /\ value \in Values
      /\ r.letter = "R" => value \in NMTStates
      /\ r.letter = "U" => /\ value \in {DeviceCiA401, OtherDevice}
                           /\ value = DeviceCiA401 => r.node \in CiA401
  BY <1>2 DEF Values, NMTStates, DeviceCiA401, OtherDevice
<1> HIDE DEF value
<1>5. p \in AnswerRecord /\ p.to = r
  <2>1. Answer(r, TRUE, NoValue) \in AnswerRecord /\ Answer(r, TRUE, NoValue).to = r
    BY <1>3 DEF Answer, AnswerRecord, RequestRecord, Correct, Values
  <2>2. Answer(r, FALSE, value) \in AnswerRecord /\ Answer(r, FALSE, value).to = r
    BY <1>3, <1>4 DEF Answer, AnswerRecord, RequestRecord, Correct
  <2> QED
    BY <2>1, <2>2
<1> HIDE DEF p
<1>6. /\ toHost' \in Seq(Packet)
      /\ NoAnswer(toHost) => Only(toHost', r)
  BY <1>1, <1>2, <1>5, Arriving DEF Packet
<1>7. TypeInv'
  BY <1>1, <1>3, <1>6 DEF TypeInv, TypeOK, WireInv, CallInv, PlaceInv
<1>8. OneInv => OneInv'
  <2> SUFFICES ASSUME OneInv PROVE OneInv'
    OBVIOUS
  <2>1. call # NoCall /\ toDevice = <<call>> /\ NoAnswer(toHost)
    BY <1>1 DEF OneInv, Quiet, Sent, Back
  <2>2. r = call /\ toDevice' = <<>>
    BY <1>1, <1>3, <2>1
  <2>3. Back'
    BY <1>1, <1>6, <2>1, <2>2 DEF Back
  <2> QED
    BY <1>1, <2>3 DEF OneInv, ProducersAreIO
<1> QED
  BY <1>7, <1>8 DEF Good

(* ... and a packet is lost.                                               *)
LEMMA LoseGood == TypeInv /\ Lose => Good
<1> SUFFICES ASSUME TypeInv, Lose PROVE Good
  OBVIOUS
<1>1. /\ \/ toDevice # <<>> /\ toDevice' = Tail(toDevice) /\ toHost' = toHost
         \/ toHost # <<>> /\ toHost' = Tail(toHost) /\ toDevice' = toDevice
      /\ UNCHANGED <<call, result, ResponseReceived, ResponsePacket, asked, pc, nodes,
                     NodeStates, MyNodeID, MyNMTState, DataBuf, network, ownState>>
  BY DEF Lose, LosePacket, callVars, appVars, deviceVars
<1>2. toDevice \in Seq(RequestRecord) /\ toHost \in Seq(Packet)
  BY DEF TypeInv, WireInv
<1>3. CASE toDevice # <<>> /\ toDevice' = Tail(toDevice) /\ toHost' = toHost
  <2>1. toDevice' \in Seq(RequestRecord)
    BY <1>2, <1>3, Taking
  <2>2. TypeInv'
    BY <1>1, <1>3, <2>1 DEF TypeInv, TypeOK, WireInv, CallInv, PlaceInv
  <2>3. OneInv => Quiet'
    <3>1. OneInv => toDevice = <<call>> /\ NoAnswer(toHost)
      BY <1>3 DEF OneInv, Quiet, Sent, Back
    <3>2. toDevice = <<call>> => Tail(toDevice) = <<>>
      OBVIOUS
    <3> QED
      BY <1>3, <3>1, <3>2 DEF Quiet
  <2> QED
    BY <1>1, <2>2, <2>3 DEF Good, OneInv, ProducersAreIO
<1>4. CASE toHost # <<>> /\ toHost' = Tail(toHost) /\ toDevice' = toDevice
  <2>1. /\ toHost' \in Seq(Packet)
        /\ NoAnswer(toHost) => NoAnswer(toHost')
        /\ \A q : Only(toHost, q) => NoAnswer(toHost') \/ Only(toHost', q)
    BY <1>2, <1>4, Taken
  <2>2. TypeInv'
    BY <1>1, <1>4, <2>1 DEF TypeInv, TypeOK, WireInv, CallInv, PlaceInv
  <2>3. OneInv => Quiet' \/ Sent' \/ Back'
    BY <1>1, <1>4, <2>1 DEF OneInv, Quiet, Sent, Back
  <2> QED
    BY <1>1, <2>2, <2>3 DEF Good, OneInv, ProducersAreIO
<1> QED
  BY <1>1, <1>3, <1>4

(* Nothing happens that the invariants are about.                          *)
LEMMA SameGood ==
  ASSUME TypeInv, UNCHANGED <<callVars, linkVars, appVars, deviceVars>>
  PROVE  Good
<1>1. UNCHANGED <<call, result, ResponseReceived, ResponsePacket, asked, toDevice, toHost, pc,
                  nodes, NodeStates, MyNodeID, MyNMTState, DataBuf, network, ownState>>
  BY DEF callVars, linkVars, appVars, deviceVars
<1>2. TypeInv'
  BY <1>1 DEF TypeInv, TypeOK, WireInv, CallInv, PlaceInv
<1>3. OneInv => OneInv'
  BY <1>1 DEF OneInv, Quiet, Sent, Back, ProducersAreIO
<1> QED
  BY <1>2, <1>3 DEF Good

(* The signal only ends the program.                                       *)
LEMMA TerminateGood == TypeInv /\ Terminate => Good
<1> SUFFICES ASSUME TypeInv, Terminate PROVE Good
  OBVIOUS
<1>1. /\ UNCHANGED <<call, result, ResponseReceived, ResponsePacket, asked, toDevice, toHost, pc,
                     nodes, MyNodeID, MyNMTState, DataBuf, network, ownState>>
      /\ NodeStates' = Reassigned
  BY DEF Terminate, callVars, linkVars, deviceVars
<1>2. NodeStates' \in [Cells -> SUBSET Flags] /\ (OneInv => ProducersAreIO')
  BY <1>1, ReassignedFlags
<1>3. TypeInv'
  BY <1>1, <1>2 DEF TypeInv, TypeOK, WireInv, CallInv, PlaceInv
<1>4. OneInv => OneInv'
  BY <1>1, <1>2 DEF OneInv, Quiet, Sent, Back
<1> QED
  BY <1>3, <1>4 DEF Good

-----------------------------------------------------------------------------
LEMMA RemoteFirst == Init => TypeInv /\ OneInv
<1> SUFFICES ASSUME Init PROVE TypeInv /\ OneInv
  OBVIOUS
<1>1. /\ call = NoCall /\ asked = NoCall /\ result = "none"
      /\ toDevice = <<>> /\ toHost = <<>>
      /\ pc = "start" /\ nodes = 0 /\ NodeStates = [i \in Cells |-> {}]
      /\ MyNodeID = 0 /\ MyNMTState = 0 /\ DataBuf = NoValue
      /\ network \in [Network -> FirstStates] /\ ownState \in NMTStates
  BY DEF Init, CallsInit
<1>2. 0 \in Index
  BY NodesAssumption DEF Index
<1>3. TypeOK
  BY <1>1, <1>2, NodesAssumption DEF TypeOK
<1>4. WireInv
  <2>1. network \in [Network -> Lives]
    BY <1>1, NodesAssumption DEF Lives
  <2> QED
    BY <1>1, <2>1, EmptySeq DEF WireInv
<1>5. CallInv /\ PlaceInv
  BY <1>1 DEF CallInv, PlaceInv
<1>6. OneInv
  BY <1>1 DEF OneInv, Quiet, NoAnswer, ProducersAreIO, Cells
<1> QED
  BY <1>3, <1>4, <1>5, <1>6 DEF TypeInv

LEMMA RemoteGood == TypeInv /\ [Next]_vars => Good
<1> SUFFICES ASSUME TypeInv, [Next]_vars PROVE Good
  OBVIOUS
<1>1. CASE Main
  BY <1>1, StartGood, GotStateGood, DidGood, NextTurnGood, GotTypeGood, WroteFirstGood, ProcessGood
     DEF Main
<1>2. CASE Wait \/ TimeOut
  BY <1>2, WaitGood, TimeOutGood
<1>3. CASE Environment
  BY <1>3, ChangesGood, AnswersGood, LoseGood, TerminateGood DEF Environment
<1>4. CASE UNCHANGED vars
  BY <1>4, SameGood DEF vars
<1> QED
  BY <1>1, <1>2, <1>3, <1>4 DEF Next

LEMMA TypeAlways == Spec => []TypeInv
<1>1. TypeInv /\ [Next]_vars => TypeInv'
  BY RemoteGood DEF Good
<1> QED
  BY <1>1, RemoteFirst, PTL DEF Spec

LEMMA OneAlways ==
  ASSUME LateAnswers = FALSE
  PROVE  Spec => []OneInv
<1>1. TypeInv /\ OneInv /\ [Next]_vars => OneInv'
  BY RemoteGood DEF Good
<1> QED
  BY <1>1, RemoteFirst, TypeAlways, PTL DEF Spec

-----------------------------------------------------------------------------
(* The application's variables have the values main() and the call-back    *)
(* count on, however late answers are (RA_App_Demo.cpp:60).                *)
THEOREM RemoteTypeOK == Spec => []TypeOK
<1>1. TypeInv => TypeOK
  BY DEF TypeInv
<1> QED
  BY <1>1, TypeAlways, PTL

(* A call that succeeds returns the answer to its own request, if answers  *)
(* come before RESPONSE_TIMEOUT or not at all (SerialProtocol.cpp:514).    *)
THEOREM RemoteOwnAnswer ==
  ASSUME LateAnswers = FALSE
  PROVE  Spec => []OwnAnswer
<1>1. OneInv => OwnAnswer
  BY DEF OneInv, OwnAnswer
<1> QED
  BY <1>1, OneAlways, PTL

(* Only CiA 401 devices are ever marked as producers (RA_App_Demo.cpp:367).*)
THEOREM RemoteProducersAreIO ==
  ASSUME LateAnswers = FALSE
  PROVE  Spec => []ProducersAreIO
<1>1. OneInv => ProducersAreIO
  BY DEF OneInv
<1> QED
  BY <1>1, OneAlways, PTL
=============================================================================
