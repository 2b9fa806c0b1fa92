----------------------------- MODULE SdoClient -----------------------------
(***************************************************************************)
(* The SDO client (class SDOCLNT): one record per channel, driven by the   *)
(* application's calls, by the SDO responses the serial link delivers and  *)
(* by the polling loop, which serves one channel per call in turn.         *)
(*                                                                         *)
(* A call, a response or a turn of the loop is one action.  What it hands  *)
(* to the two callbacks is in "out": the frame it sends, if any, and the   *)
(* completion it reports, if any; in every handler of the code these are   *)
(* its last effects, so a completion callback that starts the next         *)
(* transfer is a call made right after the action.                         *)
(*                                                                         *)
(* Timestamps are not kept: a response timeout may expire in any turn that *)
(* finds the channel waiting, and a turn that finds the 3 ms gap between   *)
(* two frames still open passes the channel by.  SdoSystem restricts when  *)
(* a timeout expires.                                                      *)
(***************************************************************************)
EXTENDS SdoFrames

CONSTANTS NR_OF_SDO_CLIENTS,   \* number of channels (32 in the code)
          SDO_BLK_MAX_SIZE,    \* segments per block of a read (127)
          Sizes,               \* buffer sizes the application passes
          MaxCalls             \* bound on the calls made on a channel

ASSUME ClientAssumption ==
  /\ NR_OF_SDO_CLIENTS \in Nat \ {0}
  /\ SDO_BLK_MAX_SIZE \in 1 .. 127
  /\ Sizes \subseteq Nat \ {0}
  /\ MaxCalls \in Nat

Channels == 1 .. NR_OF_SDO_CLIENTS

VARIABLES
  status,    \* status byte of each channel
  bufmax,    \* size of the application's buffer
  buflen,    \* length of the expected transfer
  curlen,    \* bytes transferred so far
  pBuf,      \* buffer pointer: the content pointed to, and how far into it
  toggle,    \* last toggle bit, or segment counter of a block
  blksize,   \* segments left in the block being written
  unused,    \* "n": unused bytes of the last segment of a block
  mux,       \* index and subindex of the current request
  lastAbort, \* last_abort: "running" (0xFFFFFFFF), "none" (0) or a code
  sdomsg,    \* the channel's message buffer
  current,   \* mCurrentChannel
  out,       \* effects of the last action on the callbacks
  pending,   \* history: a transfer was started and not yet reported
  got,       \* history: what the current read has put into the buffer
  calls      \* history: number of calls made so far

buffer   == <<bufmax, buflen, pBuf>>
progress == <<curlen, toggle, blksize, unused>>
history  == <<pending, got, calls>>
clientVars == <<status, buffer, progress, mux, lastAbort, sdomsg, current,
                out, history>>

Has(c, flag) == flag \subseteq status[c]
Set(f, c, v) == [f EXCEPT ![c] = v]

Start == [ch |-> 1, tx |-> <<>>, cb |-> <<>>]

(* pBuf moves n bytes on (pBuf++ for each byte of a block).                *)
NoAdvance(p, n) == p                                             \* mutant
Advance(p, n) == [src |-> p.src, off |-> p.off + n]

(* blksize-- on an UNSIGNED8.                                              *)
MinusOne(b) == b - 1                                             \* mutant
Decrement(b) == (b + 255) % 256

(* Construction; what the constructor leaves unset is arbitrary where a    *)
(* later step can read it.                                                 *)
Init ==
  /\ status = [c \in Channels |-> FREE]
  /\ bufmax = [c \in Channels |-> 0]
  /\ buflen = [c \in Channels |-> 0]
  /\ curlen = [c \in Channels |-> 0]
  /\ pBuf = [c \in Channels |-> [src |-> NoData, off |-> 0]]
  /\ toggle \in [Channels -> {0, 16}]
  /\ blksize = [c \in Channels |-> 0]
  /\ unused = [c \in Channels |-> 0]
  /\ \E m \in Muxes : mux = [c \in Channels |-> m]
  /\ lastAbort = [c \in Channels |-> "none"]
  /\ sdomsg = [c \in Channels |-> SdoFrame(0, NoMux, 0, NoChunk)]
  /\ current = NR_OF_SDO_CLIENTS
  /\ out = Start
  /\ pending = [c \in Channels |-> FALSE]
  /\ got = [c \in Channels |-> Empty]
  /\ calls = [c \in Channels |-> 0]

-----------------------------------------------------------------------------
(* Effects shared by the handlers.                                         *)

Out(c, tx, cb) == out' = [ch |-> c, tx |-> tx, cb |-> cb]
Silent(c) == Out(c, <<>>, <<>>) /\ UNCHANGED <<lastAbort, pending>>
Send(c, f) == Out(c, <<f>>, <<>>) /\ UNCHANGED <<lastAbort, pending>>

(* SDOCLNT_SDOComplete, with the frames sent before it.                    *)
CompleteOnError(c, code, tx) ==                                  \* mutant
  /\ lastAbort' = IF code = "SDOERR_OK" THEN lastAbort ELSE Set(lastAbort, c, code)
  /\ pending' = Set(pending, c, FALSE)
  /\ Out(c, tx, <<code>>)
Complete(c, code, tx) ==
  /\ lastAbort' = Set(lastAbort, c, IF code = "SDOERR_OK" THEN "none" ELSE code)
  /\ pending' = Set(pending, c, FALSE)
  /\ Out(c, tx, <<code>>)

(* The channel becomes ready, an SDO abort is sent and "code" reported.    *)
(* The abort keeps bytes 1..3 of the message buffer.                       *)
AbortFrame(c) == SdoFrame(\h80, sdomsg[c].mux, 0, NoChunk)
FailUnsent(c, code) ==                                           \* mutant
  /\ status' = Set(status, c, READY)
  /\ sdomsg' = Set(sdomsg, c, AbortFrame(c))
  /\ Complete(c, code, <<>>)
FailWaiting(c, code) ==                                          \* mutant
  /\ status' = Set(status, c, status[c] \union READY)
  /\ sdomsg' = Set(sdomsg, c, AbortFrame(c))
  /\ Complete(c, code, <<AbortFrame(c)>>)
Fail(c, code) ==
  /\ status' = Set(status, c, READY)
  /\ sdomsg' = Set(sdomsg, c, AbortFrame(c))
  /\ Complete(c, code, <<AbortFrame(c)>>)

-----------------------------------------------------------------------------
(* Calls of the application.                                               *)

Called(c, isTransfer) ==
  /\ calls[c] < MaxCalls
  /\ calls' = Set(calls, c, calls[c] + 1)
  /\ pending' = Set(pending, c, isTransfer)
  /\ got' = IF isTransfer THEN Set(got, c, Empty) ELSE got
  /\ lastAbort' = Set(lastAbort, c, "running")
  /\ UNCHANGED <<current, unused, blksize>>

UseBuffer(c, src, size) ==
  /\ bufmax' = Set(bufmax, c, size)
  /\ buflen' = Set(buflen, c, size)
  /\ pBuf' = Set(pBuf, c, [src |-> src, off |-> 0])

RequestOfBefore(c, m, cs, arg, data) ==                          \* mutant
  /\ mux' = Set(mux, c, m)
  /\ sdomsg' = Set(sdomsg, c, SdoFrame(cs, mux[c], arg, data))
  /\ Out(c, <<SdoFrame(cs, mux[c], arg, data)>>, <<>>)
Request(c, m, cs, arg, data) ==
  /\ mux' = Set(mux, c, m)
  /\ sdomsg' = Set(sdomsg, c, SdoFrame(cs, m, arg, data))
  /\ Out(c, <<SdoFrame(cs, m, arg, data)>>, <<>>)

(* A transfer of more than one frame starts at byte 0 with toggle 0.       *)
ResetCount(c) == curlen' = Set(curlen, c, 0) /\ UNCHANGED toggle  \* mutant
ResetProgress(c) == curlen' = Set(curlen, c, 0) /\ toggle' = Set(toggle, c, 0)

(* The body of SDOCLNT_Write for a buffer of len bytes at p: expedited up  *)
(* to 4 bytes, block above 28, segmented between.                          *)
StartUntimedWrite(c, m, p, len, cur) ==                          \* mutant
  /\ len <= 4
  /\ Request(c, m, (\h23 + 4 * (4 - len)) % 256, 0, Slice(p.src, p.off, len))
  /\ status' = Set(status, c, READY)
  /\ curlen' = Set(curlen, c, cur)
  /\ UNCHANGED toggle
StartExpeditedWrite(c, m, p, len, cur) ==
  /\ len <= 4
  /\ Request(c, m, (\h23 + 4 * (4 - len)) % 256, 0, Slice(p.src, p.off, len))
  /\ status' = Set(status, c, READY \union WAIT_RES)
  /\ curlen' = Set(curlen, c, cur)
  /\ UNCHANGED toggle

StartLongWrite(c, m, cs, len, st) ==
  /\ Request(c, m, cs, len, NoChunk)
  /\ status' = Set(status, c, st \union WAIT_RES)
  /\ ResetProgress(c)

StartWrite(c, m, p, len, cur) ==
  /\ Called(c, TRUE)
  /\ \/ StartExpeditedWrite(c, m, p, len, cur)
     \/ len > 28 /\ StartLongWrite(c, m, \hC2, len, BLOCK_INITWR)
     \/ len \in 5 .. 28 /\ StartLongWrite(c, m, \h21, len, READY \union SEGMENTED)

(* The body of SDOCLNT_Read for a buffer of max bytes.                     *)
StartRead(c, m, max) ==
  /\ Called(c, TRUE)
  /\ IF max > 28 THEN Request(c, m, \hA0, SDO_BLK_MAX_SIZE, NoChunk)
                 ELSE Request(c, m, \h40, 0, NoChunk)
  /\ ResetProgress(c)
  /\ status' = Set(status, c, BLOCK_INITRD \union WAIT_RES)

SDOCLNT_Init(c, src, size) ==
  /\ Called(c, FALSE)
  /\ UseBuffer(c, src, size)
  /\ curlen' = Set(curlen, c, 0)
  /\ status' = Set(status, c, READY)
  /\ Out(c, <<>>, <<>>)
  /\ UNCHANGED <<toggle, mux, sdomsg>>

SDOCLNT_Write(c, m) ==
  /\ Has(c, READY)
  /\ StartWrite(c, m, pBuf[c], buflen[c], curlen[c])
  /\ UNCHANGED buffer

SDOCLNT_Read(c, m) ==
  /\ Has(c, READY)
  /\ StartRead(c, m, bufmax[c])
  /\ UNCHANGED buffer

SDOCLNT_WriteXtd(c, m, src, size) ==
  /\ Has(c, READY)
  /\ UseBuffer(c, src, size)
  /\ StartWrite(c, m, [src |-> src, off |-> 0], size, 0)

SDOCLNT_ReadXtd(c, m, size) ==
  /\ Has(c, READY)
  /\ UseBuffer(c, NoData, size)
  /\ StartRead(c, m, size)

(* SerialProtocol's non-blocking calls: SDOCLNT_Init, which makes any      *)
(* channel ready, then SDOCLNT_Write or SDOCLNT_Read.                      *)
WriteRemoteODExtended(c, m, src, size) ==
  /\ UseBuffer(c, src, size)
  /\ StartWrite(c, m, [src |-> src, off |-> 0], size, 0)

ReadRemoteODExtended(c, m, size) ==
  /\ UseBuffer(c, NoData, size)
  /\ StartRead(c, m, size)

(* Ends any transfer; the code's last_abort, a CiA 301 abort code.         *)
SDOCLNT_AbortTransfer(c, code) ==
  /\ status[c] \notin {READY, FREE}
  /\ calls[c] < MaxCalls
  /\ calls' = Set(calls, c, calls[c] + 1)
  /\ Fail(c, code)
  /\ curlen' = Set(curlen, c, 0)
  /\ UNCHANGED <<buffer, toggle, blksize, unused, mux, current, got>>

(* What the application can ask at any time.                               *)
SDOCLNT_IsBusy(c) == status[c] \intersect (0 .. 4) # READY

SDOCLNT_GetStatus(c) ==
  CASE lastAbort[c] = "running" -> "SDOERR_RUNNING"
    [] lastAbort[c] = "none" -> "SDOERR_OK"
    [] lastAbort[c] = "SDO_ABORT_TIMEOUT" -> "SDOERR_TIMEOUT"
    [] lastAbort[c] = "SDO_ABORT_NOTRANSFER" -> "SDOERR_UNKNOWN"
    [] lastAbort[c] = "SDO_ABORT_TOGGLE" -> "SDOERR_TOGGLE"
    [] lastAbort[c] = "SDO_ABORT_NOMEM" -> "SDOERR_BUFSIZE"
    [] OTHER -> "SDOERR_ABORT"

-----------------------------------------------------------------------------
(* MGR_HandleSDOClientResponse: one action per branch.  A channel that     *)
(* receives a block takes every frame for a segment of it; otherwise the   *)
(* first byte decides.                                                     *)

ReadingBlock(c) == status[c] = BLOCK_READ \union WAIT_RES

RecvBlockSegment(c, f) ==
  LET tog == (toggle[c] + 1) % 256
      left == buflen[c] - curlen[c]
      len == IF left < 0 THEN 0 ELSE IF left > 7 THEN 7 ELSE left
  IN /\ ReadingBlock(c)
     /\ IF tog = SeqNo(f.cs)
          THEN /\ toggle' = Set(toggle, c, tog)
               /\ IF tog = SDO_BLK_MAX_SIZE \/ LastOfBlock(f.cs)
                    THEN status' = Set(status, c, BLOCK_RDCONF)
                    ELSE UNCHANGED status
               /\ curlen' = Set(curlen, c, curlen[c] + len)
               /\ pBuf' = Set(pBuf, c, Advance(pBuf[c], len))
               /\ unused' = Set(unused, c, 7 - len)
               /\ got' = IF len = 0 THEN got
                         ELSE Set(got, c, Place(got[c], pBuf[c].off, f.data, len))
          ELSE UNCHANGED <<toggle, status, curlen, pBuf, unused, got>>
     /\ Silent(c)
     /\ UNCHANGED <<bufmax, buflen, blksize, mux, sdomsg>>

RecvBlockReadInit(c, f) ==
  /\ ~ReadingBlock(c) /\ IsBlockReadInit(f.cs)
  /\ IF f.arg <= bufmax[c]
       THEN /\ status' = Set(status, c, BLOCK_READ)
            /\ buflen' = Set(buflen, c, f.arg)
            /\ Silent(c)
            /\ UNCHANGED sdomsg
       ELSE Fail(c, "SDO_ABORT_NOMEM") /\ UNCHANGED buflen
  /\ UNCHANGED <<bufmax, pBuf, progress, mux, got>>

RecvBlockReadEnd(c, f) ==
  /\ ~ReadingBlock(c) /\ IsBlockReadEnd(f.cs)
  /\ status' = Set(status, c, BLOCK_RDFINA)
  /\ Silent(c)
  /\ UNCHANGED <<buffer, progress, mux, sdomsg, got>>

RecvBlockWriteInit(c, f) ==
  /\ ~ReadingBlock(c) /\ IsBlockWriteInit(f.cs)
  /\ status' = Set(status, c, BLOCK_WRITE)
  /\ blksize' = Set(blksize, c, f.arg % 256)
  /\ Silent(c)
  /\ UNCHANGED <<buffer, curlen, toggle, unused, mux, sdomsg, got>>

(* The number of segments the node acknowledges is not looked at.          *)
RecvBlockAck(c, f) ==
  /\ ~ReadingBlock(c) /\ IsBlockAck(f.cs)
  /\ IF buflen[c] = curlen[c]
       THEN /\ status' = Set(status, c, BLOCK_WRCONF)
            /\ UNCHANGED <<blksize, toggle>>
       ELSE /\ status' = Set(status, c, BLOCK_WRITE)
            /\ blksize' = Set(blksize, c, f.arg % 256)
            /\ toggle' = Set(toggle, c, 0)
  /\ Silent(c)
  /\ UNCHANGED <<buffer, curlen, unused, mux, sdomsg, got>>

RecvBlockWriteEnd(c, f) ==
  /\ ~ReadingBlock(c) /\ IsBlockWriteEnd(f.cs)
  /\ status' = Set(status, c, BLOCK_WRFINA)
  /\ Silent(c)
  /\ UNCHANGED <<buffer, progress, mux, sdomsg, got>>

RecvAbort(c, f) ==
  /\ ~ReadingBlock(c) /\ IsAbort(f.cs)
  /\ status' = Set(status, c, READY)
  /\ Complete(c, "SDOERR_ABORT", <<>>)
  /\ UNCHANGED <<buffer, progress, mux, sdomsg, got>>

OtherEntry(c, f) == CarriesMux(f.cs) /\ f.mux # mux[c]

RecvOtherEntry(c, f) ==
  /\ ~ReadingBlock(c) /\ OtherEntry(c, f)
  /\ Fail(c, "SDOERR_PARAM")
  /\ UNCHANGED <<buffer, progress, mux, got>>

(* The toggle bit alternates once a first segment has been sent.           *)
AlwaysFlip(c) == FlipToggle(toggle[c])                           \* mutant
NextToggle(c) == IF curlen[c] > 0 THEN FlipToggle(toggle[c]) ELSE toggle[c]

(* The data of the next segment: len bytes at pBuf[curlen].                *)
SameSegment(c, len) == Slice(pBuf[c].src, pBuf[c].off, len)       \* mutant
SegmentData(c, len) == Slice(pBuf[c].src, pBuf[c].off + curlen[c], len)

(* The next segment of a segmented write is prepared in the message buffer *)
(* and left for the polling loop to send.                                  *)
PrepareSegment(c) ==
  LET more == buflen[c] > 7 /\ buflen[c] - 7 > curlen[c]
      len == IF more THEN 7 ELSE buflen[c] - curlen[c]
      tog == NextToggle(c)
      cs == IF more THEN tog ELSE tog + 1 + 2 * (7 - len)
  IN /\ toggle' = Set(toggle, c, tog)
     /\ curlen' = Set(curlen, c, curlen[c] + len)
     /\ sdomsg' = Set(sdomsg, c, SdoFrame(cs % 256, NoMux, 0, SegmentData(c, len)))
     /\ status' = Set(status, c, (status[c] \ WAIT_RES) \union NEXT_DWN
                                   \union (IF more THEN {} ELSE LAST_SEG))
     /\ Silent(c)

RecvDownloadAck(c, f) ==
  /\ ~ReadingBlock(c) /\ IsDownloadAck(f.cs) /\ ~OtherEntry(c, f)
  /\ \/ /\ ~Has(c, SEGMENTED)
        /\ status' = Set(status, c, status[c] \ WAIT_RES)
        /\ Complete(c, "SDOERR_OK", <<>>)
        /\ UNCHANGED <<curlen, toggle, sdomsg>>
     \/ /\ Has(c, SEGMENTED) /\ ToggleBit(f.cs) # toggle[c]
        /\ Fail(c, "SDOERR_TOGGLE")
        /\ UNCHANGED <<curlen, toggle>>
     \/ /\ Has(c, SEGMENTED) /\ ToggleBit(f.cs) = toggle[c] /\ Has(c, LAST_SEG)
        /\ status' = Set(status, c, READY \union SEGMENTED)
        /\ Complete(c, "SDOERR_OK", <<>>)
        /\ UNCHANGED <<curlen, toggle, sdomsg>>
     \/ /\ Has(c, SEGMENTED) /\ ToggleBit(f.cs) = toggle[c] /\ ~Has(c, LAST_SEG)
        /\ PrepareSegment(c)
  /\ UNCHANGED <<buffer, blksize, unused, mux, got>>

RecvExpedited(c, f) ==
  /\ ~ReadingBlock(c) /\ IsExpedited(f.cs) /\ ~OtherEntry(c, f)
  /\ curlen' = Set(curlen, c, ExpeditedLen(f.cs))
  /\ got' = Set(got, c, Place(got[c], pBuf[c].off, f.data, ExpeditedLen(f.cs)))
  /\ status' = Set(status, c, status[c] \ WAIT_RES)
  /\ Complete(c, "SDOERR_OK", <<>>)
  /\ UNCHANGED <<buffer, toggle, blksize, unused, mux, sdomsg>>

RecvUploadInitOnly(c, f) ==                                      \* mutant
  /\ ~ReadingBlock(c) /\ IsUploadInit(f.cs) /\ ~OtherEntry(c, f)
  /\ status' = Set(status, c, status[c] \ WAIT_RES)
  /\ sdomsg' = Set(sdomsg, c, SdoFrame(\h60, NoMux, 0, NoChunk))
  /\ Silent(c)
  /\ UNCHANGED <<buffer, progress, mux, got>>
RecvUploadInit(c, f) ==
  /\ ~ReadingBlock(c) /\ IsUploadInit(f.cs) /\ ~OtherEntry(c, f)
  /\ status' = Set(status, c, (status[c] \ WAIT_RES) \union NEXT_UPL)
  /\ sdomsg' = Set(sdomsg, c, SdoFrame(\h60, NoMux, 0, NoChunk))
  /\ Silent(c)
  /\ UNCHANGED <<buffer, progress, mux, got>>

FitsBefore(c, len) == curlen[c] <= buflen[c]                     \* mutant
Fits(c, len) == curlen[c] + len <= buflen[c]

ToggledFrame(c, tog) == SdoFrame(PutToggle(sdomsg[c].cs, tog), sdomsg[c].mux,
                                 sdomsg[c].arg, sdomsg[c].data)

UploadSegmentTaken(c, f) ==
  LET len == SegmentLen(f.cs)
      tog == FlipToggle(toggle[c])
  IN /\ curlen' = Set(curlen, c, curlen[c] + len)
     /\ got' = Set(got, c, Place(got[c], pBuf[c].off + curlen[c], f.data, len))
     /\ IF LastSegment(f.cs)
          THEN /\ status' = Set(status, c, READY \union SEGMENTED)
               /\ Complete(c, "SDOERR_OK", <<>>)
               /\ UNCHANGED <<toggle, sdomsg>>
          ELSE /\ status' = Set(status, c, NEXT_UPL)
               /\ toggle' = Set(toggle, c, tog)
               /\ sdomsg' = Set(sdomsg, c, ToggledFrame(c, tog))
               /\ Silent(c)

RecvUploadSegment(c, f) ==
  LET sameToggle == ToggleBit(f.cs) = toggle[c]
      fits == Fits(c, SegmentLen(f.cs))
  IN /\ ~ReadingBlock(c) /\ IsUploadSegment(f.cs)
     /\ \/ sameToggle /\ fits /\ UploadSegmentTaken(c, f)
        \/ /\ \/ ~sameToggle /\ Fail(c, "SDOERR_TOGGLE")
              \/ sameToggle /\ ~fits /\ Fail(c, "SDOERR_BUFSIZE")
           /\ UNCHANGED <<curlen, toggle, got>>
     /\ UNCHANGED <<buffer, blksize, unused, mux>>

RecvUnknown(c, f) ==
  /\ ~ReadingBlock(c) /\ ~IsKnown(f.cs) /\ ~OtherEntry(c, f)
  /\ Fail(c, "SDOERR_UNKNOWN")
  /\ UNCHANGED <<buffer, progress, mux, got>>

MGR_HandleSDOClientResponse(c, f) ==
  /\ \/ RecvBlockSegment(c, f) \/ RecvBlockReadInit(c, f)
     \/ RecvBlockReadEnd(c, f) \/ RecvBlockWriteInit(c, f)
     \/ RecvBlockAck(c, f) \/ RecvBlockWriteEnd(c, f)
     \/ RecvAbort(c, f) \/ RecvOtherEntry(c, f)
     \/ RecvDownloadAck(c, f) \/ RecvExpedited(c, f)
     \/ RecvUploadInit(c, f) \/ RecvUploadSegment(c, f)
     \/ RecvUnknown(c, f)
  /\ UNCHANGED <<current, calls>>

-----------------------------------------------------------------------------
(* MGR_SDOHandleClient: the loop serves the next channel, one action per   *)
(* branch; Pass is a turn that finds nothing to do or a timer running.     *)

SkipLast == IF current + 2 >= NR_OF_SDO_CLIENTS THEN 0 ELSE current + 1 \* mutant
NextChannel == IF current + 1 >= NR_OF_SDO_CLIENTS THEN 0 ELSE current + 1
Turn(c) == c = NextChannel + 1 /\ current' = NextChannel

Timeout(c) ==
  /\ Turn(c) /\ Has(c, WAIT_RES)
  /\ Fail(c, "SDOERR_TIMEOUT")
  /\ UNCHANGED <<buffer, progress, mux, got, calls>>

SendNext(c) ==
  /\ Turn(c) /\ ~Has(c, WAIT_RES) /\ (Has(c, NEXT_UPL) \/ Has(c, NEXT_DWN))
  /\ status' = Set(status, c, status[c] \union WAIT_RES)
  /\ Send(c, sdomsg[c])
  /\ UNCHANGED <<buffer, progress, mux, sdomsg, got, calls>>

SendBlockSegment(c) ==
  LET tog == (toggle[c] + 1) % 256
      left == buflen[c] - curlen[c]
      len == IF left > 7 THEN 7 ELSE left
      blk == Decrement(blksize[c])
      cs == IF len = left /\ tog < 128 THEN tog + 128 ELSE tog
      f == SdoFrame(cs, NoMux, 0, Slice(pBuf[c].src, pBuf[c].off, len))
  IN /\ Turn(c) /\ status[c] = BLOCK_WRITE /\ left > 0
     /\ toggle' = Set(toggle, c, tog)
     /\ curlen' = Set(curlen, c, curlen[c] + len)
     /\ pBuf' = Set(pBuf, c, Advance(pBuf[c], len))
     /\ blksize' = Set(blksize, c, blk)
     /\ unused' = Set(unused, c, 7 - len)
     /\ IF len = left \/ blk = 0
          THEN status' = Set(status, c, BLOCK_WRCONF \union WAIT_RES)
          ELSE UNCHANGED status
     /\ sdomsg' = Set(sdomsg, c, f)
     /\ Send(c, f)
     /\ UNCHANGED <<bufmax, buflen, mux, got, calls>>

(* A turn that sends a frame without data and puts the channel in st.      *)
Command(c, cs, arg, st) ==
  /\ status' = Set(status, c, st)
  /\ sdomsg' = Set(sdomsg, c, SdoFrame(cs, NoMux, arg, NoChunk))
  /\ UNCHANGED <<buffer, curlen, blksize, unused, mux, got, calls>>

ConfirmBlockWrite(c) ==
  LET cs == \hC1 + 4 * unused[c]
  IN /\ Turn(c) /\ status[c] = BLOCK_WRCONF
     /\ Command(c, cs, 0, BLOCK_WRFINA \union WAIT_RES)
     /\ Send(c, SdoFrame(cs, NoMux, 0, NoChunk))
     /\ UNCHANGED toggle

FinishBlockWrite(c) ==
  /\ Turn(c) /\ status[c] = BLOCK_WRFINA
  /\ status' = Set(status, c, READY)
  /\ Complete(c, "SDOERR_OK", <<>>)
  /\ UNCHANGED <<buffer, progress, mux, sdomsg, got, calls>>

StartBlockRead(c) ==
  /\ Turn(c) /\ status[c] = BLOCK_READ
  /\ Command(c, \hA3, 0, BLOCK_READ \union WAIT_RES)
  /\ Send(c, SdoFrame(\hA3, NoMux, 0, NoChunk))
  /\ UNCHANGED toggle

ConfirmBlock(c) ==
  LET more == buflen[c] # curlen[c]
  IN /\ Turn(c) /\ status[c] = BLOCK_RDCONF
     /\ Command(c, \hA2, toggle[c],
                (IF more THEN BLOCK_READ ELSE BLOCK_RDCONF) \union WAIT_RES)
     /\ Send(c, SdoFrame(\hA2, NoMux, toggle[c], NoChunk))
     /\ toggle' = IF more THEN Set(toggle, c, 0) ELSE toggle

FinishBlockRead(c) ==
  /\ Turn(c) /\ status[c] = BLOCK_RDFINA
  /\ Command(c, \hA1, 0, READY)
  /\ Complete(c, "SDOERR_OK", <<SdoFrame(\hA1, NoMux, 0, NoChunk)>>)
  /\ UNCHANGED toggle

Pass(c) ==
  /\ Turn(c)
  /\ status[c] \notin {BLOCK_WRCONF, BLOCK_WRFINA, BLOCK_READ, BLOCK_RDCONF,
                       BLOCK_RDFINA}
  /\ Silent(c)
  /\ UNCHANGED <<status, buffer, progress, mux, sdomsg, got, calls>>

(* The turns that do something without waiting for the response timer.     *)
Proceed(c) == \/ SendNext(c) \/ SendBlockSegment(c) \/ ConfirmBlockWrite(c)
              \/ FinishBlockWrite(c) \/ StartBlockRead(c) \/ ConfirmBlock(c)
              \/ FinishBlockRead(c)

MGR_SDOHandleClient(c) == Timeout(c) \/ Proceed(c) \/ Pass(c)
=============================================================================
