---------------------------- MODULE SdoExchange ----------------------------
(***************************************************************************)
(* Where client, link and node of a channel are in an exchange, as long as *)
(* no answer comes after its transfer has timed out: for each phase of     *)
(* each kind of transfer what the client knows, which frames are under way *)
(* and what the node has taken or sent so far.  InPhase holds of every     *)
(* channel in every state; SdoSystemProofs proves it and what follows.     *)
(***************************************************************************)
EXTENDS SdoProperties

(* The conditions: the application only starts transfers, a timeout means  *)
(* that nothing is under way any more, and nodes tell the size of what     *)
(* they send.                                                              *)
InOrderAnswers ==
  /\ LateAnswers = FALSE
  /\ AppCalls \subseteq {"WriteRemoteODExtended", "ReadRemoteODExtended",
                         "WriteXtd", "ReadXtd"}
  /\ SizeGiven = {TRUE}

(* And once a frame was lost: that nodes take blocks of at most 31         *)
(* segments.  (A node that was left in a larger block can take the next    *)
(* request for a segment of it.)                                           *)
SmallBlocks == BlockSizes \subseteq 1 .. 31
Reliable == lost = 0 \/ SmallBlocks

-----------------------------------------------------------------------------
Least(a, b) == IF a < b THEN a ELSE b
Prefix(src, n) == IF n = 0 THEN Empty ELSE Whole(src, n)
Wire(c, q, r) == req[c] = q /\ resp[c] = r
Entry(c) == object[c][mux[c]]

(* A transfer runs, from or to the whole buffer.                           *)
Runs(c, kind, src) ==
  /\ pending[c] /\ bufmax[c] \in Sizes
  /\ job[c] = [kind |-> kind, mux |-> mux[c], src |-> src, len |-> bufmax[c]]
Writes(c) == /\ Runs(c, "write", pBuf[c].src) /\ pBuf[c].src \in Data
             /\ buflen[c] = bufmax[c]
Reads(c) == Runs(c, "read", NoData)
Written(c) == Entry(c) = Whole(pBuf[c].src, bufmax[c])

(* What holds of a node and its objects at any time.                       *)
NodeFields == {"st", "mux", "tog", "acc", "size", "pos", "seq", "blk", "pad"}
Sound(c) ==
  /\ mux[c] \in Muxes /\ calls[c] \in Nat /\ lost \in Nat
  /\ DOMAIN node[c] = NodeFields
  /\ node[c].st = "block" => node[c].blk \in BlockSizes
  /\ object[c] \in [Muxes -> Contents]

-----------------------------------------------------------------------------
(* No transfer runs: the client's last word may still be under way.        *)
Calm(c) == lost = 0 => node[c].st = "idle"
LastWord(c, f) == f.cs = \h80 \/ (f.cs = \hA1 /\ node[c].st = "readEnd")

AtRest(c) ==
  /\ ~pending[c] /\ resp[c] = <<>>
  /\ status[c] \in {FREE, READY, READY \union SEGMENTED, BLOCK_INITRD}
  /\ calls[c] > 0 => status[c] # FREE
  /\ \/ req[c] = <<>> /\ Calm(c)
     \/ req[c] # <<>> /\ req[c] = <<Head(req[c])>> /\ LastWord(c, Head(req[c]))

(* The request of a transfer, and the channel once it is made.             *)
Asks(c, f, st) == sdomsg[c] = f /\ status[c] = st \union WAIT_RES
WriteRequest(c) ==
  IF bufmax[c] <= 4 THEN SdoFrame((\h23 + 4 * (4 - bufmax[c])) % 256, mux[c], 0,
                                  Slice(pBuf[c].src, 0, bufmax[c]))
  ELSE SdoFrame(IF bufmax[c] > 28 THEN \hC2 ELSE \h21, mux[c], bufmax[c], NoChunk)
BegunWrite(c) ==
  /\ Writes(c) /\ pBuf[c].off = 0 /\ curlen[c] = 0
  /\ bufmax[c] > 4 => toggle[c] = 0
  /\ Asks(c, WriteRequest(c), IF bufmax[c] <= 4 THEN READY
                              ELSE IF bufmax[c] > 28 THEN BLOCK_INITWR
                              ELSE READY \union SEGMENTED)
ReadRequest(c) == IF bufmax[c] > 28 THEN SdoFrame(\hA0, mux[c], SDO_BLK_MAX_SIZE, NoChunk)
                                    ELSE SdoFrame(\h40, mux[c], 0, NoChunk)
BegunRead(c) ==
  /\ Reads(c) /\ buflen[c] = bufmax[c] /\ pBuf[c].off = 0
  /\ curlen[c] = 0 /\ toggle[c] = 0 /\ got[c] = Empty
  /\ Asks(c, ReadRequest(c), BLOCK_INITRD)

Asked(c) ==
  /\ BegunWrite(c) \/ BegunRead(c)
  /\ resp[c] = <<>>
  /\ \/ req[c] = <<sdomsg[c]>> /\ Calm(c)
     \/ /\ req[c] # <<>> /\ req[c] = <<Head(req[c]), sdomsg[c]>>
        /\ LastWord(c, Head(req[c]))

(* A frame was lost or the node refused: nothing but the timeout or the    *)
(* node's abort is to come.                                                *)
Doomed(c) ==
  /\ pending[c] /\ WAIT_RES \subseteq status[c] /\ lost > 0 /\ req[c] = <<>>
  /\ \/ resp[c] = <<>>
     \/ /\ ~ReadingBlock(c) /\ resp[c] # <<>>
        /\ resp[c] = <<Head(resp[c])>> /\ Head(resp[c]).cs = \h80

-----------------------------------------------------------------------------
(* Writes.                                                                 *)
Stored(c) ==
  /\ BegunWrite(c) /\ bufmax[c] <= 4
  /\ Wire(c, <<>>, <<SdoFrame(\h60, mux[c], 0, NoChunk)>>)
  /\ node[c].st = "idle" /\ Written(c)

(* The node has taken the first n bytes.                                   *)
Takes(c, st, n) == /\ node[c].st = st /\ node[c].mux = mux[c]
                   /\ node[c].size = bufmax[c]
                   /\ node[c].acc = Prefix(pBuf[c].src, n)

DownloadOpened(c) ==
  /\ BegunWrite(c) /\ bufmax[c] \in 5 .. 28
  /\ Wire(c, <<>>, <<SdoFrame(\h60, mux[c], 0, NoChunk)>>)
  /\ Takes(c, "write", 0) /\ node[c].tog = 0

(* The segment that begins at lo is prepared, sent, acknowledged.          *)
Segment(c, lo, wait) ==
  /\ Writes(c) /\ bufmax[c] \in 5 .. 28 /\ pBuf[c].off = 0
  /\ lo \in 0 .. bufmax[c] - 1 /\ curlen[c] = Least(lo + 7, bufmax[c])
  /\ toggle[c] \in {0, 16}
  /\ sdomsg[c] = SdoFrame(toggle[c] + (IF curlen[c] = bufmax[c]
                                         THEN 1 + 2 * (7 - (curlen[c] - lo)) ELSE 0),
                          NoMux, 0, Slice(pBuf[c].src, lo, curlen[c] - lo))
  /\ status[c] = READY \union SEGMENTED \union NEXT_DWN \union wait
                 \union (IF curlen[c] = bufmax[c] THEN LAST_SEG ELSE {})
SegmentReady(c) ==
  /\ Wire(c, <<>>, <<>>)
  /\ \E lo \in 0 .. bufmax[c] - 1 : Segment(c, lo, {}) /\ Takes(c, "write", lo)
  /\ node[c].tog = toggle[c]
SegmentSent(c) ==
  /\ Wire(c, <<sdomsg[c]>>, <<>>)
  /\ \E lo \in 0 .. bufmax[c] - 1 : Segment(c, lo, WAIT_RES) /\ Takes(c, "write", lo)
  /\ node[c].tog = toggle[c]
SegmentAcked(c) ==
  /\ Wire(c, <<>>, <<SdoFrame(\h20 + toggle[c], mux[c], 0, NoChunk)>>)
  /\ \E lo \in 0 .. bufmax[c] - 1 : Segment(c, lo, WAIT_RES)
  /\ IF curlen[c] = bufmax[c] THEN node[c].st = "idle" /\ Written(c)
     ELSE Takes(c, "write", curlen[c]) /\ node[c].tog = FlipToggle(toggle[c])

BlockOpened(c) ==
  /\ BegunWrite(c) /\ bufmax[c] > 28
  /\ Wire(c, <<>>, <<SdoFrame(\hA0, mux[c], node[c].blk, NoChunk)>>)
  /\ Takes(c, "block", 0) /\ node[c].seq = 0 /\ node[c].blk \in BlockSizes

(* The i-th segment of the block that begins at byte "from".               *)
UpTo(c, from, i) == Least(from + 7 * i, bufmax[c])
BlockSegment(c, from, i) ==
  SdoFrame(IF from + 7 * i >= bufmax[c] THEN i + 128 ELSE i, NoMux, 0,
           Slice(pBuf[c].src, from + 7 * (i - 1), UpTo(c, from, i) - (from + 7 * (i - 1))))

(* The n segments of the block after the first "gone" ones.                *)
SegmentsAfter(c, from, gone, n) == [i \in 1 .. n |-> BlockSegment(c, from, gone + i)]

(* The node has taken what was sent, or has missed a segment and will not  *)
(* get to the end.                                                         *)
InTouch(c, n) == /\ node[c].mux = mux[c] /\ node[c].size = bufmax[c]
                 /\ \/ node[c].acc = Prefix(pBuf[c].src, n)
                    \/ lost > 0 /\ node[c].acc.len \in Nat /\ node[c].acc.len < n

BlockWrites(c, from) ==
  /\ Writes(c) /\ bufmax[c] > 28
  /\ from \in 0 .. bufmax[c] - 1
  /\ curlen[c] = UpTo(c, from, toggle[c]) /\ pBuf[c].off = curlen[c]
  /\ toggle[c] > 0 => from + 7 * (toggle[c] - 1) < bufmax[c]
  /\ toggle[c] > 0 => unused[c] = 7 * toggle[c] - (curlen[c] - from)

(* "gone" segments of the block are taken or lost, the others under way.   *)
BlockUnderWay(c, from, gone) ==
  /\ BlockWrites(c, from) /\ node[c].st = "block" /\ node[c].blk \in BlockSizes
  /\ toggle[c] \in 0 .. node[c].blk /\ gone \in 0 .. toggle[c]
  /\ resp[c] = <<>>
  /\ req[c] = SegmentsAfter(c, from, gone, toggle[c] - gone)
  /\ InTouch(c, UpTo(c, from, gone))
  /\ node[c].seq \in 0 .. gone
  /\ node[c].acc.len = UpTo(c, from, gone) => node[c].seq = gone

BlockEnds(c) == curlen[c] = bufmax[c] \/ toggle[c] = node[c].blk
BlockSending(c) ==
  /\ status[c] = BLOCK_WRITE /\ blksize[c] = node[c].blk - toggle[c]
  /\ \E from \in 0 .. bufmax[c] - 1, gone \in 0 .. toggle[c] :
       BlockUnderWay(c, from, gone) /\ ~BlockEnds(c)
BlockSent(c) ==
  /\ status[c] = BLOCK_WRCONF \union WAIT_RES
  /\ \E from \in 0 .. bufmax[c] - 1, gone \in 0 .. toggle[c] :
       BlockUnderWay(c, from, gone) /\ BlockEnds(c) /\ gone < toggle[c]

(* After the last segment the node knows how long it was.                  *)
BlockHeld(c) ==
  /\ \E from \in 0 .. bufmax[c] - 1 : BlockWrites(c, from)
  /\ InTouch(c, curlen[c]) /\ node[c].seq = 0
  /\ node[c].blk \in BlockSizes /\ toggle[c] \in 1 .. node[c].blk
  /\ IF curlen[c] = bufmax[c] /\ node[c].acc.len = curlen[c]
       THEN node[c].st = "blockEnd" /\ node[c].pad = unused[c]
       ELSE IF curlen[c] = bufmax[c] THEN node[c].st \in {"block", "blockEnd"}
                                     ELSE node[c].st = "block"
BlockAcked(c) ==
  /\ status[c] = BLOCK_WRCONF \union WAIT_RES /\ BlockHeld(c)
  /\ Wire(c, <<>>, <<SdoFrame(\hA2, mux[c], node[c].blk, NoChunk)>>)
BlockConfirming(c) ==
  /\ status[c] = BLOCK_WRCONF /\ BlockHeld(c) /\ curlen[c] = bufmax[c]
  /\ Wire(c, <<>>, <<>>)
BlockEnding(c) ==
  /\ status[c] = BLOCK_WRFINA \union WAIT_RES /\ BlockHeld(c) /\ curlen[c] = bufmax[c]
  /\ Wire(c, <<SdoFrame(\hC1 + 4 * unused[c], NoMux, 0, NoChunk)>>, <<>>)
BlockEnded(c) ==
  /\ Writes(c) /\ node[c].st = "idle" /\ Written(c)
  /\ \/ /\ status[c] = BLOCK_WRFINA \union WAIT_RES
        /\ Wire(c, <<>>, <<SdoFrame(\hA1, mux[c], 0, NoChunk)>>)
     \/ status[c] = BLOCK_WRFINA /\ Wire(c, <<>>, <<>>)

-----------------------------------------------------------------------------
(* Reads.                                                                  *)
Fetched(c) ==
  /\ BegunRead(c) /\ Entry(c).len <= 4 /\ node[c].st = "idle"
  /\ Wire(c, <<>>, <<SdoFrame(\h43 + 4 * (4 - Entry(c).len), mux[c], 0,
                              Slice(Entry(c).src, 0, Entry(c).len))>>)

(* The node sends the object and is at byte n.                             *)
Sends(c, st, n) == /\ node[c].st = st /\ node[c].mux = mux[c]
                   /\ node[c].size = Entry(c).len /\ node[c].pos = n

UploadOpened(c) ==
  /\ BegunRead(c) /\ Entry(c).len > 4
  /\ Wire(c, <<>>, <<SdoFrame(\h41, mux[c], Entry(c).len, NoChunk)>>)
  /\ Sends(c, "read", 0) /\ node[c].tog = 0

Upload(c, wait) ==
  /\ Reads(c) /\ buflen[c] = bufmax[c] /\ pBuf[c].off = 0
  /\ curlen[c] \in 0 .. Entry(c).len - 1
  /\ got[c] = Prefix(Entry(c).src, curlen[c])
  /\ toggle[c] \in {0, 16}
  /\ sdomsg[c] = SdoFrame(\h60 + toggle[c], NoMux, 0, NoChunk)
  /\ status[c] \in {BLOCK_INITRD \union NEXT_UPL \union wait, NEXT_UPL \union wait}
UploadReady(c) ==
  /\ Upload(c, {}) /\ Wire(c, <<>>, <<>>)
  /\ Sends(c, "read", curlen[c]) /\ node[c].tog = toggle[c]
UploadAsked(c) ==
  /\ Upload(c, WAIT_RES) /\ Wire(c, <<sdomsg[c]>>, <<>>)
  /\ Sends(c, "read", curlen[c]) /\ node[c].tog = toggle[c]
UploadAnswered(c) ==
  LET left == Entry(c).len - curlen[c]
      len == Least(left, 7)
  IN /\ Upload(c, WAIT_RES)
     /\ Wire(c, <<>>, <<SdoFrame(toggle[c] + 2 * (7 - len) + (IF left <= 7 THEN 1 ELSE 0),
                                 mux[c], 0, Slice(Entry(c).src, curlen[c], len))>>)
     /\ IF left <= 7 THEN node[c].st = "idle"
        ELSE Sends(c, "read", curlen[c] + 7) /\ node[c].tog = FlipToggle(toggle[c])

BlockReadOpened(c) ==
  /\ BegunRead(c) /\ Entry(c).len > 4 /\ bufmax[c] > 28
  /\ Wire(c, <<>>, <<SdoFrame(\hC2, mux[c], Entry(c).len, NoChunk)>>)
  /\ Sends(c, "blockRead", 0) /\ node[c].blk = SDO_BLK_MAX_SIZE

BlockReads(c) ==
  /\ Reads(c) /\ Entry(c).len > 4 /\ Entry(c).len <= bufmax[c]
  /\ buflen[c] = Entry(c).len
  /\ curlen[c] \in 0 .. Entry(c).len /\ pBuf[c].off = curlen[c]
  /\ got[c] = Prefix(Entry(c).src, curlen[c])
  /\ toggle[c] \in 0 .. SDO_BLK_MAX_SIZE
  /\ node[c].blk = SDO_BLK_MAX_SIZE
BlockReadStarting(c) ==
  /\ BlockReads(c) /\ curlen[c] = 0 /\ toggle[c] = 0 /\ Sends(c, "blockRead", 0)
  /\ \/ status[c] = BLOCK_READ /\ Wire(c, <<>>, <<>>)
     \/ /\ status[c] = BLOCK_READ \union WAIT_RES
        /\ Wire(c, <<SdoFrame(\hA3, NoMux, 0, NoChunk)>>, <<>>)

(* The segments of the node's block are under way; those after "gone" have *)
(* not been taken or lost yet.                                             *)
BlockReceiving(c) ==
  /\ BlockReads(c) /\ status[c] = BLOCK_READ \union WAIT_RES
  /\ node[c].pos \in 0 .. Entry(c).len - 1 /\ Sends(c, "blockRead", node[c].pos)
  /\ curlen[c] = node[c].pos + 7 * toggle[c]
  /\ req[c] = <<>>
  /\ LET all == Segments(node[c], Entry(c).src)
     IN \E gone \in toggle[c] .. Len(all) - 1 :
          /\ resp[c] = [i \in 1 .. Len(all) - gone |-> all[gone + i]]
          /\ lost > 0 \/ gone = toggle[c]

BlockReadTaken(c) ==
  /\ BlockReads(c) /\ status[c] = BLOCK_RDCONF /\ Wire(c, <<>>, <<>>)
  /\ node[c].pos \in 0 .. Entry(c).len - 1 /\ Sends(c, "blockRead", node[c].pos)
  /\ toggle[c] > 0 /\ node[c].pos + 7 * (toggle[c] - 1) < Entry(c).len
  /\ curlen[c] = Least(node[c].pos + 7 * toggle[c], Entry(c).len)

BlockReadGoesOn(c) ==
  /\ BlockReads(c) /\ node[c].pos \in Nat /\ Sends(c, "blockRead", node[c].pos)
  /\ \E k \in 0 .. SDO_BLK_MAX_SIZE :
       /\ Wire(c, <<SdoFrame(\hA2, NoMux, k, NoChunk)>>, <<>>)
       /\ node[c].pos + 7 * k < Entry(c).len + 7
       /\ curlen[c] = Least(node[c].pos + 7 * k, Entry(c).len)
       /\ IF curlen[c] = Entry(c).len
            THEN status[c] = BLOCK_RDCONF \union WAIT_RES
            ELSE status[c] = BLOCK_READ \union WAIT_RES /\ toggle[c] = 0

BlockReadEnding(c) ==
  /\ BlockReads(c) /\ curlen[c] = Entry(c).len
  /\ node[c].st = "readEnd"
  /\ \/ /\ status[c] = BLOCK_RDCONF \union WAIT_RES
        /\ req[c] = <<>>
        /\ \E pad \in 0 .. 6 :
             resp[c] = <<SdoFrame(\hC1 + 4 * pad, mux[c], 0, NoChunk)>>
     \/ status[c] = BLOCK_RDFINA /\ Wire(c, <<>>, <<>>)

-----------------------------------------------------------------------------
InPhase(c) ==
  \/ AtRest(c) \/ Asked(c) \/ Doomed(c)
  \/ Stored(c) \/ DownloadOpened(c) \/ SegmentReady(c) \/ SegmentSent(c)
  \/ SegmentAcked(c) \/ BlockOpened(c) \/ BlockSending(c) \/ BlockSent(c)
  \/ BlockAcked(c) \/ BlockConfirming(c) \/ BlockEnding(c) \/ BlockEnded(c)
  \/ Fetched(c) \/ UploadOpened(c) \/ UploadReady(c) \/ UploadAsked(c)
  \/ UploadAnswered(c) \/ BlockReadOpened(c) \/ BlockReadStarting(c)
  \/ BlockReceiving(c) \/ BlockReadTaken(c) \/ BlockReadGoesOn(c)
  \/ BlockReadEnding(c)

(* Client, link and node agree on where the exchange of every channel is:  *)
(* what the client counts, waits for and is about to send, the frames that *)
(* are under way and what the node has taken or sent are those of one of   *)
(* the phases, or a frame was lost and only the end can come.              *)
Exchange == \A c \in Channels : Sound(c) /\ InPhase(c)
=============================================================================
