--------------------------- MODULE SdoClientOpen ---------------------------
(***************************************************************************)
(* The SDO client alone, with an application that calls it in any order    *)
(* and an environment that may answer a channel at any time with any       *)
(* response: late, repeated, out of order or of another kind of transfer.  *)
(* What holds here holds whatever the link and the nodes do.               *)
(*                                                                         *)
(* The data of an expedited upload are copied and counted without looking  *)
(* at the size of the buffer; so they are here.                            *)
(***************************************************************************)
EXTENDS SdoClient

CONSTANTS Responses,    \* frames the environment may deliver
          MaxResponses  \* bound on the frames it delivers
ASSUME OpenAssumption == Responses \subseteq Frame /\ MaxResponses \in Nat

VARIABLE answers   \* history: number of frames delivered
openVars == <<clientVars, answers>>

AppCall(c) ==
  \/ \E src \in Data, size \in Sizes : SDOCLNT_Init(c, src, size)
  \/ \E m \in Muxes : SDOCLNT_Write(c, m) \/ SDOCLNT_Read(c, m)
  \/ \E m \in Muxes, src \in Data, size \in Sizes :
       SDOCLNT_WriteXtd(c, m, src, size) \/ WriteRemoteODExtended(c, m, src, size)
  \/ \E m \in Muxes, size \in Sizes :
       SDOCLNT_ReadXtd(c, m, size) \/ ReadRemoteODExtended(c, m, size)
  \/ SDOCLNT_AbortTransfer(c, "SDO_ABORT_GENERAL")

Respond(c) == /\ calls[c] > 0 /\ answers < MaxResponses
              /\ answers' = answers + 1
              /\ \E f \in Responses : MGR_HandleSDOClientResponse(c, f)

OpenInit == Init /\ answers = 0
OpenNext == \E c \in Channels :
              \/ Respond(c)
              \/ (AppCall(c) \/ MGR_SDOHandleClient(c)) /\ UNCHANGED answers
OpenSpec == OpenInit /\ [][OpenNext]_openVars

-----------------------------------------------------------------------------
(* Every variable of the client has a value the C type can hold, with the  *)
(* widths that matter: 8-bit counters and status, sizes that only shrink.  *)
BufferType ==
  /\ bufmax \in [Channels -> Nat]
  /\ buflen \in [Channels -> Nat]
  /\ pBuf \in [Channels -> [src : Data \union {NoData}, off : Nat]]
ProgressType ==
  /\ curlen \in [Channels -> Nat]
  /\ toggle \in [Channels -> Byte]
  /\ blksize \in [Channels -> Byte]
  /\ unused \in [Channels -> 0 .. 7]
RequestType ==
  /\ mux \in [Channels -> Muxes]
  /\ sdomsg \in [Channels -> Frame]
OutputType ==
  /\ lastAbort \in [Channels -> Codes \union {"running", "none"}]
  /\ pending \in [Channels -> BOOLEAN]
  /\ out \in [ch : Channels, tx : Seq(Frame), cb : Seq(Codes)]
StatusType ==
  /\ status \in [Channels -> StatusByte]
  /\ got \in [Channels -> Content]
TurnType ==
  /\ current \in 0 .. NR_OF_SDO_CLIENTS
  /\ calls \in [Channels -> 0 .. MaxCalls]
  /\ answers \in 0 .. MaxResponses
TypeOK == BufferType /\ ProgressType /\ RequestType /\ OutputType
          /\ StatusType /\ TurnType

(* No sequence of calls and responses makes a channel count more bytes     *)
(* than its buffer holds, except the 1 to 4 of an expedited answer, which  *)
(* the code counts whatever the size (sdoclnt.cpp:745-761); and a segmented*)
(* transfer that runs stays within the length it announced, so that what   *)
(* is left of it (buflen - curlen, sdoclnt.cpp:719-734) is never negative. *)
CountsWithinBuffer ==
  \A c \in Channels :
    /\ buflen[c] <= bufmax[c]
    /\ curlen[c] > bufmax[c] => curlen[c] <= 4
    /\ pending[c] /\ Has(c, SEGMENTED) => curlen[c] <= buflen[c]

(* A transfer that is not reported yet can go on: the loop has a frame to  *)
(* send, a block to confirm or a result to report, or the response timer   *)
(* runs.  The one exception is a block write told to go on (0xA0 again)    *)
(* when it has nothing left to send.                                       *)
NothingLeft(c) == status[c] = BLOCK_WRITE /\ curlen[c] >= buflen[c]
CanGoOn(c) == \/ Has(c, WAIT_RES) \/ Has(c, NEXT_UPL) \/ Has(c, NEXT_DWN)
              \/ status[c] \in {BLOCK_WRCONF, BLOCK_WRFINA, BLOCK_READ,
                                BLOCK_RDCONF, BLOCK_RDFINA}
              \/ status[c] = BLOCK_WRITE /\ curlen[c] < buflen[c]
OnlyOneStall == \A c \in Channels : pending[c] => CanGoOn(c) \/ NothingLeft(c)

(* An abort never names the entry of another transfer: the message buffer  *)
(* it reuses (SDOCLNT_SendSDOAbort) holds the index and subindex of the    *)
(* channel's own request, or data of a segment in their place.             *)
AbortNamesEntry ==
  \A i \in DOMAIN out.tx :
    out.tx[i].cs = \h80 => out.tx[i].mux \in {mux[out.ch], NoMux}
=============================================================================
