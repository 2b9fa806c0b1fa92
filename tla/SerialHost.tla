----------------------------- MODULE SerialHost -----------------------------
(***************************************************************************)
(* SerialProtocol as any program may use it: all blocking calls, in any    *)
(* order, the port opened and closed between them, and Process with all it *)
(* dispatches.  Requests to the host's SDO servers are served whenever a   *)
(* packet is processed, also while a call waits for its answer.            *)
(*                                                                         *)
(* A call is known by its letter and its number; node, index, subindex and *)
(* data are only copied.  'V' packets go to the SDO client (SdoClient).    *)
(* The device is external.                                                 *)
(***************************************************************************)
EXTENDS SerialCalls, XsdoServer

CONSTANTS MAX_PACKET_LENGTH,
          Lengths,       \* lengths of data that a program may write
          Unasked,       \* packets the device may send unasked
          MaxEvents      \* bound on the calls and the packets the device
                         \* sends unasked, together

ASSUME HostAssumption ==
  /\ MAX_PACKET_LENGTH \in Nat /\ MAX_PACKET_LENGTH > 4
  /\ Lengths \subseteq Nat
  /\ Unasked \subseteq [letter : {"D", "empty"}]
                      \union [letter : {"F"}, server : 0 .. 255, request : XsdoRequest]
  /\ MaxEvents \in Nat

VARIABLES
  port,    \* PortHandle # INVALID_HANDLE_VALUE
  excess,  \* bytes by which the last call's packet was too long
  kinds,   \* history: the letters of the calls made
  of,      \* history: the call whose answer ended a call last
  passed   \* history: number of packets the device sent unasked

hostVars == <<port, excess, kinds, of>>
vars == <<callVars, linkVars, xsdoVars, hostVars, passed>>

Init ==
  /\ CallsInit /\ XsdoInit
  /\ port = FALSE
  /\ excess = 0
  /\ kinds = <<>> /\ of = 0 /\ passed = 0

Events == Len(kinds) + passed

(* The transfers whose aborts are on their way to the host, and a step     *)
(* that loses some of them.                                                *)
Aborts(p, s) == p.letter = "F" /\ p.server = s /\ p.request.cmd = "abort"
AbortsUnderWay(host) == {s \in ServerIndex : \E i \in DOMAIN host : Aborts(host[i], s)}
Unheard ==
  /\ NothingRequested
  /\ device' = [s \in ServerIndex |->
                 [device[s] EXCEPT
                   !.unheard = @ \/ s \in AbortsUnderWay(toHost) \ AbortsUnderWay(toHost')]]

-----------------------------------------------------------------------------
(* The program.                                                            *)

(* A blocking call up to SendPacket, which fails if the port is closed and *)
(* may fail if not all bytes can be written.                               *)
Call(letter, length) ==
  /\ call = NoCall /\ Events < MaxEvents
  /\ kinds' = Append(kinds, letter)
  /\ Begin([letter |-> letter, number |-> Len(kinds')])
  /\ port \/ result' = "ERROR_TX"
  /\ excess' = IF length > MAX_PACKET_LENGTH THEN length - MAX_PACKET_LENGTH ELSE 0
  /\ NothingServed /\ UNCHANGED <<port, of, passed>>

Refuse ==
  /\ call = NoCall /\ result' = "ERROR_NORESOURCES"
  /\ UNCHANGED <<call, asked, ResponseReceived, ResponsePacket, linkVars,
                 hostVars, passed>> /\ NothingServed

ReadLocalOD == Call("R", 4)
ReadRemoteOD == Call("U", 5)

OneMore == MAX_PACKET_LENGTH - 3                                 \* mutant
MAX_WRITE_LENGTH == MAX_PACKET_LENGTH - 4
WriteLocalOD(n) == IF n > MAX_WRITE_LENGTH THEN Refuse ELSE Call("W", 4 + n)
WriteRemoteOD(n) == IF n > MAX_PACKET_LENGTH - 4 THEN Refuse ELSE Call("S", 5 + n)

(* SetSleepObjection, Reset and ResetCommunicationLayer write one byte.    *)
Command == WriteLocalOD(1)
WakeUp == ReadLocalOD

(* The port.  What has arrived and was not read is lost when it is closed. *)
Connect ==
  /\ call = NoCall /\ port' \in BOOLEAN
  /\ UNCHANGED <<callVars, linkVars, excess, kinds, of, passed>> /\ NothingServed
Disconnect ==
  /\ call = NoCall /\ port' = FALSE /\ toHost' = <<>>
  /\ UNCHANGED <<callVars, toDevice, late, lost, excess, kinds, of, passed>>
  /\ Unheard

Program ==
  \/ ReadLocalOD \/ ReadRemoteOD
  \/ \E n \in Lengths : WriteLocalOD(n) \/ WriteRemoteOD(n)
  \/ Command \/ WakeUp \/ Connect \/ Disconnect

-----------------------------------------------------------------------------
(* Process: data go to the call-back of the program, a packet without data *)
(* is dropped, and what is not for a server is an answer.  The answer of a *)
(* server ('G') may fail to be sent, or be lost.                           *)
Process ==
  IF ~port \/ toHost = <<>>
    THEN KeepAnswer /\ NothingServed /\ UNCHANGED <<toHost, lost>>
    ELSE LET p == Head(toHost)
         IN /\ toHost' = Tail(toHost)
            /\ IF IsAnswer(p) THEN StoreAnswer(p) ELSE KeepAnswer
            /\ IF p.letter # "F"
                 THEN NothingServed /\ UNCHANGED lost
                 ELSE \/ HandleRequest(p.server, p.request, TRUE) /\ UNCHANGED lost
                      \/ /\ lost < MaxLost /\ lost' = lost + 1
                         /\ HandleRequest(p.server, p.request, FALSE)
                         /\ handled'.response # NoResponse

(* The loop of a blocking call, once.                                      *)
Wait ==
  /\ call # NoCall
  /\ Process /\ Return
  /\ of' = IF ResponseReceived' THEN ResponsePacket'.to.number ELSE of
  /\ UNCHANGED <<asked, toDevice, late, port, excess, kinds, passed>>

TimeOut == GiveUp /\ NothingServed /\ UNCHANGED <<hostVars, passed>>

(* A call of Process by the program.                                       *)
ProcessOnce ==
  /\ call = NoCall /\ Process
  /\ UNCHANGED <<call, result, asked, toDevice, late, hostVars, passed>>

-----------------------------------------------------------------------------
(* The device.  What it sends to a closed port is lost.                    *)
Arrives(p) == toHost' = IF port THEN Append(toHost, p) ELSE toHost

DeviceAnswers ==
  /\ toDevice # <<>> /\ toDevice' = Tail(toDevice)
  /\ \E error \in BOOLEAN : Arrives(Answer(Head(toDevice), error, NoValue))
  /\ UNCHANGED <<callVars, late, lost, hostVars, passed>> /\ NothingServed

(* A packet that waits is followed by no other one that is not asked for,  *)
(* which the host would treat one after the other all the same, but for an *)
(* abort: the device may give up a transfer at any time, also when nobody  *)
(* hears of it.                                                            *)
DevicePasses ==
  /\ Events < MaxEvents /\ passed' = passed + 1
  /\ \E p \in Unasked :
       /\ \/ port /\ \A i \in DOMAIN toHost : IsAnswer(toHost[i])
          \/ \E s \in ServerIndex : Aborts(p, s)
       /\ Arrives(p)
       /\ device' = [s \in ServerIndex |->
                      IF Aborts(p, s) THEN GaveUp(device[s], port) ELSE device[s]]
  /\ UNCHANGED <<callVars, toDevice, late, lost, hostVars>> /\ NothingRequested

Lose == LosePacket /\ Unheard /\ UNCHANGED <<hostVars, passed>>

Loop == Wait \/ TimeOut

Next == Program \/ Loop \/ ProcessOnce \/ DeviceAnswers \/ DevicePasses \/ Lose

(* The host's thread runs on in a call, and so do its clock and the device. *)
Spec == Init /\ [][Next]_vars
             /\ WF_vars(Loop) /\ WF_vars(DeviceAnswers)

-----------------------------------------------------------------------------
TypeOK ==
  /\ mXSDO \in [ServerIndex -> XsdoRecord]
  /\ handled.response \in XsdoResponse /\ handled.request \in XsdoRequest
  /\ handled.server \in ServerIndex \union {-1}
  /\ port \in BOOLEAN /\ of \in 0 .. Len(kinds)
  /\ result \in {"none", "ERROR_NOERROR", "ERROR_TX", "ERROR_NORESPONSE", "ERROR_NORESOURCES",
                 "ERROR_WRONGRESPONSE", "ERROR_NODEERROR"}

(* Server and device agree on which transfers are open as long as nothing  *)
(* is lost between them: what the device has given up the server has open  *)
(* only until the abort arrives, or because the abort was lost; what the   *)
(* server has ended the device has open only because it missed the answer. *)
(* An abort of either side, a toggle error, a segment too many and a last  *)
(* segment close a transfer for both.  A transfer that only one of them    *)
(* had open at first counts as one of which something was lost.            *)
SidesAgree ==
  \A s \in ServerIndex :
    /\ Running(mXSDO[s]) /\ ~device[s].open =>
         s \in AbortsUnderWay(toHost) \/ device[s].unheard
    /\ device[s].open /\ ~device[s].missed => Running(mXSDO[s])

(* What a program may rely on: CallService.  Answers may be late or lost,  *)
(* data and requests come in between, the port is closed and opened again. *)
Calls == INSTANCE CallService WITH
  Kinds <- {"R", "W", "U", "S"}, calling <- call # NoCall, outcome <- result
ImplementsCallService == Calls!Service

(* A packet fits the arrays it is put together in ("don't allow write of   *)
(* too much data", SerialProtocol.cpp:492 and 586), except the longest     *)
(* that WriteRemoteOD lets pass: its limit leaves out the node ID, and the *)
(* packet is one byte too long.                                            *)
PacketsFit == excess = 0 \/ (asked.letter = "S" /\ excess = 1)
=============================================================================
