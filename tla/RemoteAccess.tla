---------------------------- MODULE RemoteAccess ----------------------------
(***************************************************************************)
(* The remote access application (RA_App_Demo.cpp) on top of SerialCalls:  *)
(* its main loop visits the nodes of the network in turn, reads the device *)
(* type of a node that has been scanned and writes process data to the     *)
(* CiA 401 devices it found.  The call-back for data of the device changes *)
(* the same flags whenever a packet is processed, also in a blocking call. *)
(*                                                                         *)
(* The device and the network behind it are external: nodes boot, are      *)
(* scanned, answer and are lost.                                           *)
(***************************************************************************)
EXTENDS SerialCalls, FiniteSets

CONSTANTS MAX_NUMBER_OF_NODES,
          Network,     \* node IDs that come and go, in the table or beyond
          CiA401,      \* those of them that are generic I/O devices
          OwnIDs,      \* values the device's own node ID may change to
          Strays,      \* <<ID, status>> the device tells of no such node
          Overlaid,    \* whether a byte of TerminationRequested lies before
                       \* NodeStates (ra_app) or nothing does
          FirstStates, \* what the nodes may be doing when the program starts
          MaxEvents    \* bound on the changes of status the device tells

(* Node status values (NODESTATUS_xxx).                                    *)
BOOT == 0
OPERATIONAL == 5
PREOP == 127
HBACTIVE == 144
HBLOST == 145
SCANSTARTED == 159
SCANCOMPLETE == 160
SCANABORTED == 168
Statuses == {BOOT, HBACTIVE, HBLOST, SCANSTARTED, SCANCOMPLETE, SCANABORTED}
NMTStates == {PREOP, OPERATIONAL}
Flags == {"HBACTIVE", "HBLOSS", "SCANNING", "SCANFINISHED", "PRODUCEDATA", "BOOTED"}

ASSUME NodesAssumption ==
  /\ MAX_NUMBER_OF_NODES \in Nat /\ MAX_NUMBER_OF_NODES > 1
  /\ Network \subseteq Nat \ {0}
  /\ CiA401 \subseteq Network
  /\ OwnIDs \subseteq Nat
  /\ Strays \subseteq Nat \X Statuses /\ Overlaid \in BOOLEAN
  /\ FirstStates \subseteq {"off", "booted", "scanning", "ready"}
  /\ MaxEvents \in Nat

(* The table and the byte before it, which a status of node ID 0 changes.  *)
Index == 0 .. MAX_NUMBER_OF_NODES - 1
Before == -1
Cells == Index \union {Before}

(* What DataBuf may hold: a device type, or the time that is written.      *)
DeviceCiA401 == 401
OtherDevice == 402
Time == 1

VARIABLES
  pc,                    \* where main() is
  nodes,                 \* index of the node whose turn it is
  NodeStates,            \* flags of the node with ID index + 1; the table
                         \* and the byte before it
  MyNodeID, MyNMTState,
  DataBuf,               \* what the last read or write left there
  TerminationRequested,  \* as main() and Terminate set it
  network,               \* the nodes themselves
  ownState,              \* the device's NMT state
  events                 \* history: changes of status told

appVars == <<pc, nodes, NodeStates, MyNodeID, MyNMTState, DataBuf>>
deviceVars == <<network, ownState, events>>
vars == <<callVars, linkVars, appVars, TerminationRequested, deviceVars>>

Init ==
  /\ CallsInit
  /\ pc = "start" /\ nodes = 0
  /\ NodeStates = [i \in Cells |-> {}]
  /\ MyNodeID = 0 /\ MyNMTState = 0
  /\ DataBuf = NoValue /\ TerminationRequested = FALSE
  /\ network \in [Network -> FirstStates]
  /\ ownState \in NMTStates
  /\ events = 0

-----------------------------------------------------------------------------
(* The call-back for new data.                                             *)

(* NodeStatusChanged: the flags of a node after a change of its status.    *)
FlagsAfter(f, status) ==
  CASE status = BOOT -> f \union {"BOOTED"}
    [] status = HBACTIVE -> (f \union {"HBACTIVE"}) \ {"HBLOSS"}
    [] status = HBLOST -> {"HBACTIVE", "HBLOSS"}
    [] status = SCANSTARTED -> (f \union {"SCANNING"}) \ {"BOOTED"}
    [] status = SCANCOMPLETE -> (f \union {"SCANFINISHED"}) \ {"SCANNING"}
    [] status = SCANABORTED -> f \ {"SCANFINISHED", "SCANNING"}
    [] OTHER -> f

(* Subindexes of the device's own status (index 5F00).                     *)
NodeIDSub == 1
WrongSub == NodeIDSub                                            \* mutant
NMTStateSub == 2

NewData(p) ==
  IF p.index = "5F04"
    THEN /\ NodeStates' = IF p.sub >= MAX_NUMBER_OF_NODES THEN NodeStates
                          ELSE [NodeStates EXCEPT ![p.sub - 1] = FlagsAfter(@, p.value)]
         /\ UNCHANGED <<MyNodeID, MyNMTState>>
    ELSE /\ MyNodeID' = IF p.sub = NodeIDSub THEN p.value ELSE MyNodeID
         /\ MyNMTState' = IF p.sub = NMTStateSub THEN p.value ELSE MyNMTState
         /\ UNCHANGED NodeStates

(* SerialProtocol::Process: one packet, if one has arrived.                *)
Process ==
  IF toHost = <<>>
    THEN KeepAnswer /\ UNCHANGED <<toHost, NodeStates, MyNodeID, MyNMTState>>
    ELSE LET p == Head(toHost)
         IN /\ toHost' = Tail(toHost)
            /\ IF IsAnswer(p)
                 THEN StoreAnswer(p) /\ UNCHANGED <<NodeStates, MyNodeID, MyNMTState>>
                 ELSE NewData(p) /\ KeepAnswer

(* A blocking call goes on: Process, then a look at ResponseReceived.      *)
Wait ==
  /\ call # NoCall
  /\ Process /\ Return
  /\ UNCHANGED <<asked, toDevice, late, lost, pc, nodes, DataBuf, TerminationRequested,
                 deviceVars>>

TimeOut == GiveUp /\ UNCHANGED <<appVars, TerminationRequested, deviceVars>>

-----------------------------------------------------------------------------
(* main().  "At" is the point after the call of that name has returned.    *)

At(point) == pc = point /\ call = NoCall
Goto(point) == pc' = point
Asks(letter, node, entry) == Begin(Request(letter, node, entry))
Elsewhere == UNCHANGED <<TerminationRequested, deviceVars>>
NoRequest == UNCHANGED <<callVars, linkVars>>

Start ==
  /\ At("start")
  /\ Asks("R", 0, "5F00:02") /\ Goto("state")
  /\ UNCHANGED <<nodes, NodeStates, MyNodeID, MyNMTState, DataBuf>> /\ Elsewhere

(* An assignment to TerminationRequested sets all of its bytes.            *)
Ending == TerminationRequested \/ (Overlaid /\ NodeStates[Before] # {})
Reassigned == IF Overlaid THEN [NodeStates EXCEPT ![Before] = {}] ELSE NodeStates

(* The NMT state of the device is known; an operational one is told to     *)
(* reset all nodes.                                                        *)
GotState ==
  /\ At("state")
  /\ IF result # "ERROR_NOERROR"
       THEN /\ Goto("stopped") /\ Returned
            /\ UNCHANGED <<MyNMTState, NodeStates, TerminationRequested>>
       ELSE /\ MyNMTState' = ResponsePacket.value
            /\ TerminationRequested' = FALSE /\ NodeStates' = Reassigned
            /\ IF ResponsePacket.value = OPERATIONAL
                 THEN Asks("W", 0, "5F0A:01") /\ Goto("reset")
                 ELSE Returned /\ Goto("loop")
  /\ UNCHANGED <<nodes, MyNodeID, DataBuf, deviceVars>>

DidReset ==
  /\ At("reset") /\ Goto("loop")
  /\ Returned /\ UNCHANGED <<nodes, NodeStates, MyNodeID, MyNMTState, DataBuf>>
  /\ Elsewhere

SkipFirst(n) == IF n + 1 >= MAX_NUMBER_OF_NODES THEN 1 ELSE n + 1 \* mutant
NextNode(n) == IF n + 1 >= MAX_NUMBER_OF_NODES THEN 0 ELSE n + 1

(* The loop's body up to its first request, or to its call of Process.     *)
Stop == /\ At("loop") /\ Ending /\ Goto("stopped")
        /\ NoRequest /\ UNCHANGED <<nodes, NodeStates, MyNodeID, MyNMTState, DataBuf>>
        /\ Elsewhere

ReadsType(i) == i + 1 # MyNodeID /\ "SCANFINISHED" \in NodeStates[i]
MayWriteData(i) == /\ i + 1 # MyNodeID /\ "SCANFINISHED" \notin NodeStates[i]
                   /\ "PRODUCEDATA" \in NodeStates[i]

(* Whether PDOTime has come is left open: at most once a second.           *)
NextTurn ==
  /\ At("loop") /\ ~Ending
  /\ nodes' = IF MyNMTState = OPERATIONAL THEN NextNode(nodes) ELSE nodes
  /\ \/ /\ MyNMTState = OPERATIONAL /\ ReadsType(nodes')
        /\ Asks("U", nodes' + 1, "1000:00") /\ Goto("type")
        /\ UNCHANGED DataBuf
     \/ /\ MyNMTState = OPERATIONAL /\ MayWriteData(nodes')
        /\ Asks("S", nodes', "6200:01") /\ Goto("data1")
        /\ DataBuf' = Time
     \/ /\ MyNMTState = OPERATIONAL => ~ReadsType(nodes')
        /\ NoRequest /\ Goto("process")
        /\ UNCHANGED DataBuf
  /\ UNCHANGED <<NodeStates, MyNodeID, MyNMTState>> /\ Elsewhere

AnyResult(code) == TRUE                                          \* mutant
Success(code) == code = "ERROR_NOERROR"

(* The device type is known, or not: the marker is reset in any case.      *)
GotType ==
  /\ At("type")
  /\ DataBuf' = IF result = "ERROR_NOERROR" THEN ResponsePacket.value ELSE DataBuf
  /\ LET producer == IF Success(result) /\ DataBuf' = DeviceCiA401 THEN {"PRODUCEDATA"} ELSE {}
     IN NodeStates' = [NodeStates EXCEPT ![nodes] = (@ \union producer) \ {"SCANFINISHED"}]
  /\ Goto("process")
  /\ Returned /\ UNCHANGED <<nodes, MyNodeID, MyNMTState>> /\ Elsewhere

WroteFirst ==
  /\ At("data1")
  /\ Asks("S", nodes, "6200:02") /\ Goto("data2")
  /\ UNCHANGED <<nodes, NodeStates, MyNodeID, MyNMTState, DataBuf>> /\ Elsewhere

WroteSecond ==
  /\ At("data2") /\ Goto("process")
  /\ Returned /\ UNCHANGED <<nodes, NodeStates, MyNodeID, MyNMTState, DataBuf>>
  /\ Elsewhere

(* The loop's own call of Process, and its end after 10 minutes.           *)
ProcessOnce ==
  /\ At("process") /\ Process
  /\ pc' \in {"loop", "stopped"}
  /\ UNCHANGED <<call, result, asked, toDevice, late, lost,
                 nodes, DataBuf>> /\ Elsewhere

Main == \/ Start \/ GotState \/ DidReset \/ Stop \/ NextTurn
        \/ GotType \/ WroteFirst \/ WroteSecond \/ ProcessOnce

(* The signal is handled in the loop; before, it ends the process.         *)
Terminate ==
  /\ pc \notin {"start", "state", "stopped"}
  /\ ~TerminationRequested /\ TerminationRequested' = TRUE
  /\ NodeStates' = Reassigned
  /\ UNCHANGED <<callVars, linkVars, pc, nodes, MyNodeID, MyNMTState, DataBuf, deviceVars>>

-----------------------------------------------------------------------------
(* The device and the network.                                             *)

(* It tells the host as long as the port is open.                          *)
Tells(p) == /\ pc # "stopped"
            /\ events < MaxEvents /\ events' = events + 1
            /\ toHost' = Append(toHost, p)
            /\ UNCHANGED <<callVars, toDevice, late, lost, appVars, TerminationRequested>>

(* What a node goes through; the device tells each step.                   *)
After(state) ==
  CASE state = "off" -> {BOOT}
    [] state = "booted" -> {SCANSTARTED, HBACTIVE, HBLOST}
    [] state = "scanning" -> {SCANCOMPLETE, SCANABORTED, HBLOST, BOOT}
    [] state = "ready" -> {HBACTIVE, HBLOST, BOOT}
Becomes(state, status) ==
  CASE status = BOOT -> "booted"
    [] status = SCANSTARTED -> "scanning"
    [] status = SCANCOMPLETE -> "ready"
    [] status = SCANABORTED -> "booted"
    [] status = HBLOST -> "off"
    [] OTHER -> state

NodeChanges(n) ==
  \E status \in After(network[n]) :
    /\ network' = [network EXCEPT ![n] = Becomes(@, status)]
    /\ Tells(DataPacket("5F04", n, status))
    /\ UNCHANGED ownState

DeviceChanges ==
  \/ \E id \in OwnIDs : Tells(DataPacket("5F00", 1, id)) /\ UNCHANGED <<network, ownState>>
  \/ \E s \in NMTStates \ {ownState} :
       /\ ownState' = s
       /\ Tells(DataPacket("5F00", 2, s)) /\ UNCHANGED network
  \/ \E t \in Strays : Tells(DataPacket("5F04", t[1], t[2])) /\ UNCHANGED <<network, ownState>>

(* The device answers the first request it has not answered yet.           *)
Reached(n) == n \in Network /\ network[n] # "off"
DeviceAnswers ==
  /\ toDevice # <<>>
  /\ toDevice' = Tail(toDevice)
  /\ LET r == Head(toDevice)
         remote == r.letter \in {"U", "S"}
         value == CASE r.letter = "R" -> ownState
                    [] r.letter = "U" -> IF r.node \in CiA401 THEN DeviceCiA401 ELSE OtherDevice
                    [] OTHER -> NoValue
     IN toHost' = Append(toHost, IF remote /\ ~Reached(r.node)
                                   THEN Answer(r, TRUE, NoValue) ELSE Answer(r, FALSE, value))
  /\ UNCHANGED <<callVars, late, lost, appVars, TerminationRequested, deviceVars>>

Lose == LosePacket /\ UNCHANGED <<appVars, TerminationRequested, deviceVars>>

Environment == \/ \E n \in Network : NodeChanges(n)
               \/ DeviceChanges \/ DeviceAnswers \/ Lose \/ Terminate

Next == Main \/ Wait \/ TimeOut \/ Environment

Spec == Init /\ [][Next]_vars

(* The host's only thread runs, and so do its clock and the device.        *)
FairSpec == /\ Spec
            /\ WF_vars(Main) /\ WF_vars(Wait) /\ WF_vars(TimeOut)
            /\ WF_vars(DeviceAnswers)

-----------------------------------------------------------------------------
(* The values every variable can have.                                     *)
TypeOK ==
  /\ pc \in {"start", "state", "reset", "loop", "type", "data1", "data2",
             "process", "stopped"}
  /\ nodes \in Index
  /\ NodeStates \in [Cells -> SUBSET Flags]
  /\ MyNodeID \in OwnIDs \union {0}
  /\ DataBuf \in {NoValue, Time, OtherDevice, DeviceCiA401}
  /\ MyNMTState \in NMTStates \union {0}
  /\ result \in {"none", "ERROR_NOERROR", "ERROR_TX", "ERROR_NORESPONSE",
                 "ERROR_WRONGRESPONSE", "ERROR_NODEERROR"}

(* A call that returns ERROR_NOERROR returns what the device answered to   *)
(* this call's own request, if the device answers in time or not at all.   *)
OwnAnswer ==
  pc \notin {"start", "loop", "process", "stopped"} /\ call = NoCall
    /\ result = "ERROR_NOERROR" => ResponsePacket.to = asked

(* Process data are only ever produced for CiA 401 devices ("This is a     *)
(* CiA401 generic I/O device", RA_App_Demo.cpp:365), whatever reads fail   *)
(* in between.                                                             *)
ProducersAreIO ==
  \A i \in Index : "PRODUCEDATA" \in NodeStates[i] => i + 1 \in CiA401

(* A node of the table that has been scanned has its type read: a read of  *)
(* that very node returns its type, or fails because the request could not *)
(* be sent, the device could not reach the node, or a packet was lost.     *)
(* There is one attempt, and none is asked for when the node is not ready  *)
(* any more, is the device itself, the device is not operational or the    *)
(* program ends.                                                           *)
TypeRead(n) ==
  /\ At("type") /\ nodes = n - 1
  /\ \/ result = "ERROR_NOERROR" /\ ResponsePacket.to = Request("U", n, "1000:00")
     \/ result = "ERROR_NORESPONSE" /\ lost > 0
     \/ result \in {"ERROR_TX", "ERROR_NODEERROR"}
ScannedIsRead ==
  \A n \in Network \intersect 1 .. MAX_NUMBER_OF_NODES :
    "SCANFINISHED" \in NodeStates[n - 1] ~>
      \/ TypeRead(n) \/ network[n] # "ready"
      \/ n = MyNodeID \/ MyNMTState # OPERATIONAL \/ pc = "stopped"

(* The program ends when it is asked to, also from within a blocking call. *)
EndsOnRequest == TerminationRequested ~> pc = "stopped"

(* Data are written to the node whose flag says so ("produce data for this *)
(* device", RA_App_Demo.cpp:367): the one whose turn it is.                *)
WritesReachProducer ==
  [][asked' # asked /\ asked'.letter = "S" => asked'.node = nodes' + 1]_vars
=============================================================================
