--------------------------- MODULE SdoProperties ---------------------------
(***************************************************************************)
(* What the SDO client with its application, link and nodes is checked     *)
(* for.  SdoService is the same promise as an abstract specification.      *)
(***************************************************************************)
EXTENDS SdoSystem

Reports(code) == out.cb = <<code>>
Done == out.ch

(* A write reported OK (sdoclnt.h:54, "last access was sucess") has put    *)
(* every byte of the application's buffer, in order, into the object the   *)
(* application named: the client's segmentation, block counters and last   *)
(* segment markers agree with what the node stored.                        *)
WriteOkIsStored ==
  Reports("SDOERR_OK") /\ job[Done].kind = "write" =>
    object[Done][job[Done].mux] = Whole(job[Done].src, job[Done].len)

(* A read reported OK has put the whole object, in order, into the buffer. *)
ReadOkIsComplete ==
  Reports("SDOERR_OK") /\ job[Done].kind = "read" =>
    got[Done] = object[Done][job[Done].mux]

(* The client only reports the end of a transfer that is running: one      *)
(* report for each start, none on an idle channel.                         *)
NoSpuriousReport == [][out'.cb # <<>> => pending[out'.ch]]_vars

(* Without a lost frame every transfer succeeds, except a read of an       *)
(* object that does not fit the buffer, which fails as such: client and    *)
(* CiA 301 server agree on every toggle bit, sequence number and length.   *)
LosslessSucceeds ==
  lost = 0 /\ out.cb # <<>> =>
    \/ Reports("SDOERR_OK")
    \/ /\ Reports("SDOERR_BUFSIZE") \/ Reports("SDO_ABORT_NOMEM")
       /\ job[Done].kind = "read"
       /\ object[Done][job[Done].mux].len > bufmax[Done]

(* Lost frames make a transfer fail by timeout or by an abort of the node; *)
(* the client never mistakes what still arrives for a protocol error.      *)
LossIsNoProtocolError ==
  out.cb # <<>> => out.cb[1] \notin {"SDOERR_TOGGLE", "SDOERR_PARAM", "SDOERR_UNKNOWN"}

(* When a channel is idle and nothing is under way, the node has closed    *)
(* the session too, unless the frame that told it so was lost.             *)
SessionsCloseTogether ==
  \A c \in Channels : lost = 0 /\ ~pending[c] /\ Quiet(c) => node[c].st = "idle"

(* No node ever holds a part of a buffer or a mixture of two: with answers *)
(* in time, whatever frames are lost; and however late answers come and    *)
(* whenever transfers are aborted or started over, as long as no frame is  *)
(* lost.  (Late answers can hide that the first request of a write was     *)
(* lost: the node then takes its segments for those of the write before.)  *)
ObjectsAreWhole ==
  \A c \in Channels, m \in Muxes :
    /\ object[c][m].good
    /\ object[c][m].len \in Sizes \union ObjectSizes

(* Every transfer is reported in the end.                                  *)
EveryTransferReported == \A c \in Channels : pending[c] ~> ~pending[c]

(* SDOCLNT_IsBusy (sdoclnt.h:200-201, "TRUE if busy") is true as long as a  *)
(* transfer is not reported, with two exceptions: a block write the node   *)
(* has confirmed looks free before it is reported, and a channel an        *)
(* expedited read has used looks busy after it was.                        *)
BusyTellsPending ==
  \A c \in Channels : calls[c] > 0 =>
    IF pending[c] THEN SDOCLNT_IsBusy(c) \/ status[c] = BLOCK_WRFINA
                  ELSE ~SDOCLNT_IsBusy(c) \/ status[c] = BLOCK_INITRD

(* SDOCLNT_GetStatus (sdoclnt.h:193-195) says "running" from the start of  *)
(* a transfer to its report, and after it whether the transfer succeeded,  *)
(* on every way it can end.  (Why it failed it does not always say: a      *)
(* timeout is stored as a code that the function does not know.)           *)
StatusTellsOutcome ==
  /\ \A c \in Channels : calls[c] > 0 =>
       (pending[c] <=> SDOCLNT_GetStatus(c) = "SDOERR_RUNNING")
  /\ out.cb # <<>> => (Reports("SDOERR_OK") <=> SDOCLNT_GetStatus(Done) = "SDOERR_OK")

-----------------------------------------------------------------------------
(* The promise as an abstract specification.                               *)
Contents == [src : Data, len : Sizes \union ObjectSizes, good : {TRUE}]
RunningJob(c) ==
  IF ~pending[c] THEN [kind |-> "none"]
  ELSE IF job[c].kind = "read" THEN [kind |-> "read", mux |-> job[c].mux]
  ELSE [kind |-> "write", mux |-> job[c].mux, content |-> Whole(job[c].src, job[c].len)]

Service == INSTANCE SdoService WITH
  transfer <- [c \in Channels |-> RunningJob(c)],
  buffer <- got,
  report <- IF out.cb = <<>> THEN [ok |-> FALSE]
            ELSE [ch |-> Done, ok |-> Reports("SDOERR_OK")]

(* The client, its link and the nodes implement the service.               *)
ImplementsService == Service!Spec
=============================================================================
