---------------------------- MODULE SerialCalls ----------------------------
(***************************************************************************)
(* The blocking calls of SerialProtocol (ReadLocalOD 'R', WriteLocalOD     *)
(* 'W', ReadRemoteOD 'U', WriteRemoteOD 'S'): a call sends one request,    *)
(* then processes packets until one of them is an answer or the time is    *)
(* up.  The first answer that arrives ends the call; only its letter is    *)
(* compared with the request's.                                            *)
(*                                                                         *)
(* Packets arrive whole (PacketReceiver has their bytes) or are lost.      *)
(* LastNodeError, which is only printed, is left out.                      *)
(***************************************************************************)
EXTENDS Integers, Sequences

CONSTANTS LateAnswers,  \* TRUE: an answer may come after RESPONSE_TIMEOUT
          MaxLate,      \* bound on the calls that give up on an answer
          MaxLost       \* bound on the lost packets

ASSUME CallsAssumption == /\ LateAnswers \in BOOLEAN
                          /\ MaxLate \in Nat /\ MaxLost \in Nat

VARIABLES
  call,              \* the request a blocking call waits for, or NoCall
  result,            \* what a call returns to its caller
  ResponseReceived,
  ResponsePacket,
  toDevice,          \* requests on their way to the device
  toHost,            \* packets on their way to the host
  asked,             \* history: the request of the call
  late,              \* history: number of calls that gave up on an answer
  lost               \* history: number of lost packets

linkVars == <<toDevice, toHost, late, lost>>
callVars == <<call, result, ResponseReceived, ResponsePacket, asked>>

NoValue == 0
NoCall == [letter |-> "none", node |-> 0, entry |-> "none"]
Request(letter, node, entry) == [letter |-> letter, node |-> node, entry |-> entry]

(* An answer; "to" is the request it is the answer to.                     *)
Answer(request, error, value) ==
  [letter |-> request.letter, to |-> request, error |-> error, value |-> value]
(* Data written to the device: process data, or a change of status.        *)
DataPacket(index, sub, value) ==
  [letter |-> "D", index |-> index, sub |-> sub, value |-> value]
IsAnswer(p) == p.letter \notin {"D", "F", "V", "empty"}

CallsInit ==
  /\ call = NoCall /\ result = "none"
  /\ ResponseReceived = FALSE
  /\ ResponsePacket = Answer(NoCall, FALSE, NoValue)
  /\ toDevice = <<>> /\ toHost = <<>>
  /\ asked = NoCall /\ late = 0 /\ lost = 0

-----------------------------------------------------------------------------
KeepReceived == ResponseReceived                                 \* mutant
ClearReceived == FALSE

(* A call begins; the packet may fail to be sent.                          *)
Begin(request) ==
  /\ ResponseReceived' = ClearReceived
  /\ asked' = request
  /\ \/ /\ toDevice' = Append(toDevice, request)
        /\ call' = request /\ result' = "none"
     \/ /\ call' = NoCall /\ result' = "ERROR_TX"
        /\ UNCHANGED toDevice
  /\ UNCHANGED <<ResponsePacket, toHost, late, lost>>

(* How a call ends when the packet p has been taken for its answer.        *)
Outcome(p) == IF p.letter # call.letter THEN "ERROR_WRONGRESPONSE"
              ELSE IF p.error THEN "ERROR_NODEERROR" ELSE "ERROR_NOERROR"

(* Process stores an answer, whether a call waits for it or not.           *)
StoreAnswer(p) == ResponsePacket' = p /\ ResponseReceived' = TRUE
KeepAnswer == UNCHANGED <<ResponsePacket, ResponseReceived>>

(* Under the calls' loop: they end as soon as ResponseReceived is set.     *)
Return ==
  IF ResponseReceived'
    THEN call' = NoCall /\ result' = Outcome(ResponsePacket')
    ELSE UNCHANGED <<call, result>>

(* RESPONSE_TIMEOUT.  With LateAnswers it may run out while the answer is  *)
(* still under way.                                                        *)
UnderWay == call \in {toDevice[i] : i \in DOMAIN toDevice}
            \/ \E i \in DOMAIN toHost : IsAnswer(toHost[i]) /\ toHost[i].to = call
NoTimeOut == FALSE                                               \* mutant
MayTimeOut == IF UnderWay THEN LateAnswers /\ late < MaxLate ELSE TRUE
GiveUp ==
  /\ call # NoCall /\ MayTimeOut
  /\ call' = NoCall /\ result' = "ERROR_NORESPONSE"
  /\ late' = IF UnderWay THEN late + 1 ELSE late
  /\ UNCHANGED <<ResponseReceived, ResponsePacket, asked, toDevice, toHost, lost>>

(* The caller has looked at the result, or dropped it.                     *)
Returned ==
  /\ result' = "none" /\ asked' = NoCall
  /\ UNCHANGED <<call, ResponseReceived, ResponsePacket, linkVars>>

(* The serial line loses a packet.                                         *)
LosePacket ==
  /\ lost < MaxLost /\ lost' = lost + 1
  /\ \/ toDevice # <<>> /\ toDevice' = Tail(toDevice) /\ UNCHANGED toHost
     \/ toHost # <<>> /\ toHost' = Tail(toHost) /\ UNCHANGED toDevice
  /\ UNCHANGED <<callVars, late>>
=============================================================================
