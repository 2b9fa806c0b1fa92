-------------------------- MODULE SdoClientProofs --------------------------
(***************************************************************************)
(* The SDO client, whatever is answered and whenever: its types, then its  *)
(* safety.  First what the byte operations and the effects shared by the   *)
(* handlers return; then one lemma for the calls, one for the response     *)
(* handler and one for a turn of the loop, each with a step per action.    *)
(***************************************************************************)
EXTENDS SdoClientOpen, TLAPS

(* Facts about the bytes of a frame.                                       *)
LEMMA SegmentLenRange == \A cs \in Byte : SegmentLen(cs) \in 0 .. 7
  BY DEF Byte, SegmentLen

LEMMA ExpeditedLenRange == \A cs \in Byte : ExpeditedLen(cs) \in 1 .. 4
  BY DEF Byte, ExpeditedLen

LEMMA PutToggleByte ==
  \A cs \in Byte, t \in {0, 16} : PutToggle(cs, t) \in Byte
  BY DEF Byte, PutToggle, ToggleBit

LEMMA DecrementByte == \A b \in Byte : Decrement(b) \in Byte
  BY DEF Byte, Decrement

LEMMA SdoFrameType ==
  ASSUME NEW cs \in Byte, NEW m \in Muxes \union {NoMux}, NEW a \in Nat, NEW d \in Chunk
  PROVE  SdoFrame(cs, m, a, d) \in Frame
  BY DEF SdoFrame, Frame

LEMMA SliceType ==
  ASSUME NEW src \in Data \union {NoData}, NEW lo \in Nat, NEW len \in Int
  PROVE  Slice(src, lo, len) \in Chunk
  BY DEF Slice, Chunk

LEMMA PlaceType ==
  ASSUME NEW old \in Content, NEW at \in Nat, NEW d \in Chunk, NEW len \in Int
  PROVE  Place(old, at, d, len) \in Content
  BY DEF Place, Content, Chunk
-----------------------------------------------------------------------------
(* The state of one channel, from TypeOK.                                  *)
LEMMA ChannelType ==
  ASSUME TypeOK, NEW c \in Channels
  PROVE  /\ bufmax[c] \in Nat /\ buflen[c] \in Nat /\ curlen[c] \in Nat
         /\ pBuf[c].src \in Data \union {NoData} /\ pBuf[c].off \in Nat
         /\ toggle[c] \in Byte /\ blksize[c] \in Byte /\ unused[c] \in 0 .. 7
         /\ mux[c] \in Muxes /\ sdomsg[c] \in Frame
         /\ sdomsg[c].cs \in Byte /\ sdomsg[c].mux \in Muxes \union {NoMux}
         /\ sdomsg[c].arg \in Nat /\ sdomsg[c].data \in Chunk
         /\ status[c] \in StatusByte /\ got[c] \in Content
<1>1. bufmax[c] \in Nat /\ buflen[c] \in Nat /\ curlen[c] \in Nat
  BY DEF TypeOK, BufferType, ProgressType
<1>2. pBuf[c] \in [src : Data \union {NoData}, off : Nat]
  BY DEF TypeOK, BufferType
<1>3. pBuf[c].src \in Data \union {NoData} /\ pBuf[c].off \in Nat
  BY <1>2
<1>4. toggle[c] \in Byte /\ blksize[c] \in Byte /\ unused[c] \in 0 .. 7
  BY DEF TypeOK, ProgressType
<1>5. mux[c] \in Muxes /\ sdomsg[c] \in Frame
  BY DEF TypeOK, RequestType
<1>6. /\ sdomsg[c].cs \in Byte /\ sdomsg[c].mux \in Muxes \union {NoMux}
      /\ sdomsg[c].arg \in Nat /\ sdomsg[c].data \in Chunk
  BY <1>5 DEF Frame
<1>7. status[c] \in StatusByte /\ got[c] \in Content
  BY DEF TypeOK, StatusType
<1>. QED BY <1>1, <1>3, <1>4, <1>5, <1>6, <1>7

LEMMA AdvanceType ==
  ASSUME NEW p, p.src \in Data \union {NoData}, p.off \in Nat, NEW n \in Nat
  PROVE  Advance(p, n) \in [src : Data \union {NoData}, off : Nat]
  BY DEF Advance

-----------------------------------------------------------------------------
(* What the shared effects leave behind.                                   *)
LEMMA OutType ==
  ASSUME NEW c \in Channels, NEW tx \in Seq(Frame), NEW cb \in Seq(Codes),
         Out(c, tx, cb)
  PROVE  out' \in [ch : Channels, tx : Seq(Frame), cb : Seq(Codes)]
  BY DEF Out

LEMMA SilentType ==
  ASSUME TypeOK, NEW c \in Channels, Silent(c)
  PROVE  OutputType'
  BY OutType DEF TypeOK, OutputType, Silent, Out

LEMMA SendType ==
  ASSUME TypeOK, NEW c \in Channels, NEW f \in Frame, Send(c, f)
  PROVE  OutputType'
  BY OutType DEF TypeOK, OutputType, Send, Out

LEMMA CompleteType ==
  ASSUME TypeOK, NEW c \in Channels, NEW code \in Codes, NEW tx \in Seq(Frame),
         Complete(c, code, tx)
  PROVE  OutputType'
<1>1. lastAbort' \in [Channels -> Codes \union {"running", "none"}]
  BY DEF TypeOK, OutputType, Complete, Set
<1>2. pending' \in [Channels -> BOOLEAN]
  BY DEF TypeOK, OutputType, Complete, Set
<1>3. <<code>> \in Seq(Codes)
  OBVIOUS
<1>4. out' \in [ch : Channels, tx : Seq(Frame), cb : Seq(Codes)]
  BY <1>3 DEF Complete, Out
<1>. QED BY <1>1, <1>2, <1>4 DEF OutputType

LEMMA AbortFrameType ==
  ASSUME TypeOK, NEW c \in Channels
  PROVE  AbortFrame(c) \in Frame
<1>1. NoChunk \in Chunk
  BY DEF NoChunk, Slice, Chunk
<1>2. \h80 \in Byte /\ sdomsg[c].mux \in Muxes \union {NoMux}
  BY ChannelType DEF Byte
<1>. QED BY <1>1, <1>2, SdoFrameType DEF AbortFrame

LEMMA FailType ==
  ASSUME TypeOK, NEW c \in Channels, NEW code \in Codes, Fail(c, code)
  PROVE  /\ OutputType'
         /\ status' \in [Channels -> StatusByte]
         /\ sdomsg' \in [Channels -> Frame]
<1>1. AbortFrame(c) \in Frame
  BY AbortFrameType
<1>2. <<AbortFrame(c)>> \in Seq(Frame)
  BY <1>1
<1>3. OutputType'
  BY <1>2, CompleteType DEF Fail
<1>4. status' \in [Channels -> StatusByte]
  BY DEF Fail, TypeOK, StatusType, StatusByte, READY, Set
<1>5. sdomsg' \in [Channels -> Frame]
  BY <1>1 DEF Fail, TypeOK, RequestType, Set
<1>. QED BY <1>3, <1>4, <1>5

LEMMA NoChunkType == NoChunk \in Chunk
  BY DEF NoChunk, Slice, Chunk

LEMMA CodesUsed ==
  /\ "SDOERR_OK" \in Codes /\ "SDOERR_ABORT" \in Codes /\ "SDOERR_TIMEOUT" \in Codes
  /\ "SDOERR_TOGGLE" \in Codes /\ "SDOERR_BUFSIZE" \in Codes /\ "SDOERR_PARAM" \in Codes
  /\ "SDOERR_UNKNOWN" \in Codes /\ "SDO_ABORT_NOMEM" \in Codes
  /\ "SDO_ABORT_GENERAL" \in Codes
  BY DEF Codes, ErrCodes, AbortCodes

(* A completion that sends nothing.                                        *)
LEMMA CompleteQuietType ==
  ASSUME TypeOK, NEW c \in Channels, NEW code \in Codes, Complete(c, code, <<>>)
  PROVE  OutputType'
<1>1. <<>> \in Seq(Frame)
  OBVIOUS
<1>. QED BY <1>1, CompleteType

LEMMA LowByte == \A n \in Nat : n % 256 \in Byte
  BY DEF Byte

(* A prepared segment: its length is 0..7 and its first byte a byte.       *)
LEMMA SegmentPrepared ==
  ASSUME TypeOK, NEW c \in Channels, PrepareSegment(c)
  PROVE  /\ curlen' \in [Channels -> Nat] /\ toggle' \in [Channels -> Byte]
         /\ sdomsg' \in [Channels -> Frame] /\ status' \in [Channels -> StatusByte]
         /\ OutputType'
<1>. USE DEF Set
<1> DEFINE more == buflen[c] > 7 /\ buflen[c] - 7 > curlen[c]
           len == IF more THEN 7 ELSE buflen[c] - curlen[c]
           tog == NextToggle(c)
           cs == IF more THEN tog ELSE tog + 1 + 2 * (7 - len)
           data == SegmentData(c, len)
<1>1. /\ buflen[c] \in Nat /\ curlen[c] \in Nat /\ toggle[c] \in Byte
      /\ mux[c] \in Muxes /\ status[c] \in StatusByte
      /\ pBuf[c].src \in Data \union {NoData} /\ pBuf[c].off \in Nat
  BY ChannelType
<1>2. len \in Int /\ curlen[c] + len \in Nat
  BY <1>1
<1>3. tog \in Byte
  BY <1>1 DEF NextToggle, FlipToggle, Byte
<1>. HIDE DEF len, tog, more
<1>4. cs % 256 \in Byte
  <2>1. cs \in Int
    BY <1>2, <1>3 DEF Byte
  <2>. HIDE DEF cs
  <2>. QED BY <2>1 DEF Byte
<1>5. data \in Chunk
  <2>1. pBuf[c].off + curlen[c] \in Nat
    BY <1>1
  <2>. QED BY <1>1, <1>2, <2>1, SliceType DEF SegmentData
<1>6. SdoFrame(cs % 256, NoMux, 0, data) \in Frame
  <2>. HIDE DEF cs, data
  <2>1. NoMux \in Muxes \union {NoMux} /\ 0 \in Nat
    OBVIOUS
  <2>. QED BY <1>4, <1>5, <2>1, SdoFrameType
<1>7. (status[c] \ WAIT_RES) \union NEXT_DWN \union (IF more THEN {} ELSE LAST_SEG)
        \in StatusByte
  BY <1>1 DEF StatusByte, NEXT_DWN, LAST_SEG
<1>8. /\ curlen' = Set(curlen, c, curlen[c] + len)
      /\ toggle' = Set(toggle, c, tog)
      /\ sdomsg' = Set(sdomsg, c, SdoFrame(cs % 256, NoMux, 0, data))
      /\ status' = Set(status, c, (status[c] \ WAIT_RES) \union NEXT_DWN
                                    \union (IF more THEN {} ELSE LAST_SEG))
      /\ Silent(c)
  BY DEF PrepareSegment, len, tog, more
<1>. HIDE DEF cs, data
<1>9. curlen' \in [Channels -> Nat] /\ toggle' \in [Channels -> Byte]
  BY <1>2, <1>3, <1>8 DEF TypeOK, ProgressType
<1>10. sdomsg' \in [Channels -> Frame]
  BY <1>6, <1>8 DEF TypeOK, RequestType
<1>11. status' \in [Channels -> StatusByte]
  BY <1>7, <1>8 DEF TypeOK, StatusType
<1>. QED BY <1>8, <1>9, <1>10, <1>11, SilentType

LEMMA SegmentTaken ==
  ASSUME TypeOK, NEW c \in Channels, NEW f \in Frame, UploadSegmentTaken(c, f)
  PROVE  /\ curlen' \in [Channels -> Nat] /\ toggle' \in [Channels -> Byte]
         /\ sdomsg' \in [Channels -> Frame]
         /\ StatusType' /\ OutputType'
<1>. USE DEF Set
<1> DEFINE len == SegmentLen(f.cs)
           tog == FlipToggle(toggle[c])
           next == ToggledFrame(c, tog)
           filled == Place(got[c], pBuf[c].off + curlen[c], f.data, len)
<1>1. /\ curlen[c] \in Nat /\ pBuf[c].off \in Nat
      /\ sdomsg[c].cs \in Byte /\ sdomsg[c].mux \in Muxes \union {NoMux}
      /\ sdomsg[c].arg \in Nat /\ sdomsg[c].data \in Chunk /\ got[c] \in Content
  BY ChannelType
<1>2. f.cs \in Byte /\ f.data \in Chunk
  BY DEF Frame
<1>3. len \in 0 .. 7
  BY <1>2, SegmentLenRange
<1>4. tog \in {0, 16} /\ tog \in Byte
  BY DEF FlipToggle, Byte
<1>5. next \in Frame
  <2>1. PutToggle(sdomsg[c].cs, tog) \in Byte
    BY <1>1, <1>4, PutToggleByte
  <2>. QED BY <1>1, <2>1, SdoFrameType DEF ToggledFrame
<1>6. filled \in Content
  <2>1. pBuf[c].off + curlen[c] \in Nat /\ len \in Int
    BY <1>1, <1>3
  <2>. HIDE DEF len
  <2>. QED BY <1>1, <1>2, <2>1, PlaceType
<1>7. /\ curlen' = Set(curlen, c, curlen[c] + len)
      /\ got' = Set(got, c, filled)
      /\ \/ /\ status' = Set(status, c, READY \union SEGMENTED)
            /\ Complete(c, "SDOERR_OK", <<>>)
            /\ UNCHANGED <<toggle, sdomsg>>
         \/ /\ status' = Set(status, c, NEXT_UPL)
            /\ toggle' = Set(toggle, c, tog)
            /\ sdomsg' = Set(sdomsg, c, next)
            /\ Silent(c)
  BY DEF UploadSegmentTaken
<1>. HIDE DEF len, tog, next, filled
<1>8. curlen' \in [Channels -> Nat] /\ toggle' \in [Channels -> Byte]
  <2>1. curlen[c] + len \in Nat
    BY <1>1, <1>3
  <2>2. curlen' \in [Channels -> Nat]
    BY <1>7, <2>1 DEF TypeOK, ProgressType
  <2>3. toggle' \in [Channels -> Byte]
    BY <1>4, <1>7 DEF TypeOK, ProgressType
  <2>. QED BY <2>2, <2>3
<1>9. sdomsg' \in [Channels -> Frame]
  BY <1>5, <1>7 DEF TypeOK, RequestType
<1>10. StatusType'
  BY <1>6, <1>7 DEF TypeOK, StatusType, StatusByte, READY, SEGMENTED, NEXT_UPL
<1>11. OutputType'
  BY <1>7, SilentType, CompleteQuietType, CodesUsed
<1>. QED BY <1>8, <1>9, <1>10, <1>11

-----------------------------------------------------------------------------
(* Typing of the response handler, branch by branch.                       *)
LEMMA ResponseType ==
  ASSUME TypeOK, NEW c \in Channels, NEW f \in Frame,
         MGR_HandleSDOClientResponse(c, f)
  PROVE  BufferType' /\ ProgressType' /\ RequestType' /\ OutputType' /\ StatusType'
<1>. USE DEF buffer, progress, Set
<1>c. /\ bufmax[c] \in Nat /\ buflen[c] \in Nat /\ curlen[c] \in Nat
      /\ pBuf[c].src \in Data \union {NoData} /\ pBuf[c].off \in Nat
      /\ got[c] \in Content /\ status[c] \in StatusByte /\ mux[c] \in Muxes
  BY ChannelType
<1>f. f.cs \in Byte /\ f.arg \in Nat /\ f.data \in Chunk
  BY DEF Frame
<1>b. BufferType /\ ProgressType /\ RequestType /\ StatusType
  BY DEF TypeOK
<1>1. CASE RecvBlockSegment(c, f)
  <2> DEFINE left == buflen[c] - curlen[c]
             len == IF left < 0 THEN 0 ELSE IF left > 7 THEN 7 ELSE left
  <2>1. len \in 0 .. 7
    BY <1>c
  <2>2. Advance(pBuf[c], len) \in [src : Data \union {NoData}, off : Nat]
    BY <1>c, <2>1, AdvanceType
  <2>3. Place(got[c], pBuf[c].off, f.data, len) \in Content
    BY <1>c, <1>f, <2>1, PlaceType
  <2>. HIDE DEF len
  <2>4. BufferType'
    BY <1>1, <1>b, <2>2 DEF RecvBlockSegment, BufferType, len
  <2>5. ProgressType'
    <3>1. /\ curlen[c] + len \in Nat /\ 7 - len \in 0 .. 7
          /\ (toggle[c] + 1) % 256 \in Byte
      <4>1. curlen[c] + len \in Nat /\ 7 - len \in 0 .. 7
        BY <1>c, <2>1
      <4>2. toggle[c] \in Byte
        BY ChannelType
      <4>3. toggle[c] + 1 \in Nat
        BY <4>2 DEF Byte
      <4>. QED BY <4>1, <4>3, LowByte
    <3>2. /\ curlen' = [curlen EXCEPT ![c] = curlen[c] + len] \/ curlen' = curlen
          /\ unused' = [unused EXCEPT ![c] = 7 - len] \/ unused' = unused
          /\ toggle' = [toggle EXCEPT ![c] = (toggle[c] + 1) % 256] \/ toggle' = toggle
          /\ blksize' = blksize
      BY <1>1 DEF RecvBlockSegment, len
    <3>. QED BY <1>b, <3>1, <3>2 DEF ProgressType
  <2>6. StatusType'
    BY <1>1, <1>b, <2>3 DEF RecvBlockSegment, StatusType, StatusByte, BLOCK_RDCONF, len
  <2>7. RequestType' /\ OutputType'
    BY <1>1, <1>b, SilentType DEF RecvBlockSegment, RequestType
  <2>. QED BY <2>4, <2>5, <2>6, <2>7
<1>2. CASE RecvBlockReadInit(c, f)
  <2>1. BufferType' /\ ProgressType'
    BY <1>2, <1>f, <1>b, <1>c DEF BufferType, ProgressType, RecvBlockReadInit
  <2>2. CASE f.arg <= bufmax[c]
    <3>1. RequestType' /\ StatusType'
      BY <1>2, <2>2, <1>b, <1>c DEF RequestType, StatusType, RecvBlockReadInit, StatusByte, BLOCK_READ
    <3>. QED BY <1>2, <2>1, <2>2, <3>1, SilentType DEF RecvBlockReadInit
  <2>3. CASE ~(f.arg <= bufmax[c])
    BY <1>2, <2>1, <2>3, FailType, CodesUsed, <1>b, <1>c DEF BufferType, ProgressType, RequestType, StatusType, RecvBlockReadInit
  <2>. QED BY <2>2, <2>3
<1>3. CASE RecvBlockReadEnd(c, f)
  <2>1. BufferType' /\ ProgressType' /\ RequestType'
    BY <1>3, <1>b, <1>c DEF BufferType, ProgressType, RequestType, RecvBlockReadEnd
  <2>2. StatusType'
    BY <1>3, <1>b, <1>c DEF StatusType, RecvBlockReadEnd, StatusByte, BLOCK_RDFINA
  <2>. QED BY <1>3, <2>1, <2>2, SilentType DEF RecvBlockReadEnd
<1>4. CASE RecvBlockWriteInit(c, f)
  <2>1. BufferType' /\ ProgressType' /\ RequestType'
    BY <1>4, <1>f, <1>b, LowByte DEF BufferType, ProgressType, RequestType, RecvBlockWriteInit
  <2>2. StatusType'
    BY <1>4, <1>b, <1>c DEF StatusType, RecvBlockWriteInit, StatusByte, BLOCK_WRITE
  <2>. QED BY <1>4, <2>1, <2>2, SilentType DEF RecvBlockWriteInit
<1>5. CASE RecvBlockAck(c, f)
  <2>1. BufferType' /\ ProgressType' /\ RequestType'
    <3>1. f.arg % 256 \in Byte /\ 0 \in Byte
      BY <1>f, LowByte DEF Byte
    <3>2. BufferType' /\ RequestType'
      BY <1>5, <1>b DEF BufferType, RequestType, RecvBlockAck
    <3>3. /\ toggle' = [toggle EXCEPT ![c] = 0] \/ toggle' = toggle
          /\ blksize' = [blksize EXCEPT ![c] = f.arg % 256] \/ blksize' = blksize
          /\ UNCHANGED <<curlen, unused>>
      BY <1>5 DEF RecvBlockAck
    <3>. QED BY <3>1, <3>2, <3>3, <1>b DEF ProgressType
  <2>2. StatusType'
    BY <1>5, <1>b, <1>c DEF StatusType, RecvBlockAck, StatusByte, BLOCK_WRITE, BLOCK_WRCONF
  <2>. QED BY <1>5, <2>1, <2>2, SilentType DEF RecvBlockAck
<1>6. CASE RecvBlockWriteEnd(c, f)
  <2>1. BufferType' /\ ProgressType' /\ RequestType'
    BY <1>6, <1>b, <1>c DEF BufferType, ProgressType, RequestType, RecvBlockWriteEnd
  <2>2. StatusType'
    BY <1>6, <1>b, <1>c DEF StatusType, RecvBlockWriteEnd, StatusByte, BLOCK_WRFINA
  <2>. QED BY <1>6, <2>1, <2>2, SilentType DEF RecvBlockWriteEnd
<1>7. CASE RecvAbort(c, f)
  <2>1. BufferType' /\ ProgressType' /\ RequestType'
    BY <1>7, <1>b, <1>c DEF BufferType, ProgressType, RequestType, RecvAbort
  <2>2. StatusType'
    BY <1>7, <1>b, <1>c DEF StatusType, RecvAbort, StatusByte, READY
  <2>3. OutputType'
    BY <1>7, CompleteQuietType, CodesUsed DEF RecvAbort
  <2>. QED BY <2>1, <2>2, <2>3
<1>8. CASE RecvOtherEntry(c, f)
  <2>1. BufferType' /\ ProgressType' /\ got' = got /\ mux' = mux
    BY <1>8, <1>b, <1>c DEF BufferType, ProgressType, RecvOtherEntry
  <2>. QED BY <1>8, <2>1, <1>b, FailType, CodesUsed DEF RecvOtherEntry, RequestType, StatusType
<1>9. CASE RecvDownloadAck(c, f)
  <2>1. BufferType' /\ blksize' = blksize /\ unused' = unused /\ mux' = mux /\ got' = got
    BY <1>9, <1>b, <1>c DEF BufferType, RecvDownloadAck
  <2>2. CASE /\ status' = Set(status, c, status[c] \ WAIT_RES)
             /\ Complete(c, "SDOERR_OK", <<>>)
             /\ UNCHANGED <<curlen, toggle, sdomsg>>
    <3>1. StatusType'
      BY <2>1, <2>2, <1>b, <1>c DEF StatusType, StatusByte
    <3>2. OutputType'
      BY <2>2, CompleteQuietType, CodesUsed
    <3>. QED BY <2>1, <2>2, <3>1, <3>2, <1>b DEF ProgressType, RequestType
  <2>3. CASE Fail(c, "SDOERR_TOGGLE") /\ UNCHANGED <<curlen, toggle>>
    BY <2>1, <2>3, FailType, CodesUsed, <1>b, <1>c DEF BufferType, ProgressType, RequestType, StatusType
  <2>4. CASE /\ status' = Set(status, c, READY \union SEGMENTED)
             /\ Complete(c, "SDOERR_OK", <<>>)
             /\ UNCHANGED <<curlen, toggle, sdomsg>>
    <3>1. StatusType'
      BY <2>1, <2>4, <1>b, <1>c DEF StatusType, StatusByte, READY, SEGMENTED
    <3>2. OutputType'
      BY <2>4, CompleteQuietType, CodesUsed
    <3>. QED BY <2>1, <2>4, <3>1, <3>2, <1>b DEF ProgressType, RequestType
  <2>5. CASE PrepareSegment(c)
    BY <2>1, <2>5, SegmentPrepared, <1>b, <1>c DEF BufferType, ProgressType, RequestType, StatusType
  <2>. QED BY <1>9, <2>2, <2>3, <2>4, <2>5 DEF RecvDownloadAck
<1>10. CASE RecvExpedited(c, f)
  <2>1. ExpeditedLen(f.cs) \in 1 .. 4
    BY <1>f, ExpeditedLenRange
  <2>2. BufferType' /\ ProgressType' /\ RequestType'
    BY <1>10, <2>1, <1>b, <1>c DEF BufferType, ProgressType, RequestType, RecvExpedited
  <2>3. Place(got[c], pBuf[c].off, f.data, ExpeditedLen(f.cs)) \in Content
    <3> DEFINE len == ExpeditedLen(f.cs)
    <3>1. len \in Int
      BY <2>1
    <3>. HIDE DEF len
    <3>2. Place(got[c], pBuf[c].off, f.data, len) \in Content
      BY <3>1, <1>c, <1>f, PlaceType
    <3>. QED BY <3>2 DEF len
  <2>4. StatusType'
    BY <1>10, <2>3, <1>b, <1>c DEF StatusType, RecvExpedited, StatusByte
  <2>5. OutputType'
    BY <1>10, CompleteQuietType, CodesUsed DEF RecvExpedited
  <2>. QED BY <2>2, <2>4, <2>5
<1>11. CASE RecvUploadInit(c, f)
  <2>1. SdoFrame(\h60, NoMux, 0, NoChunk) \in Frame
    <3>1. \h60 \in Byte
      BY DEF Byte
    <3>. QED BY <3>1, SdoFrameType, NoChunkType
  <2>2. BufferType' /\ ProgressType' /\ RequestType'
    BY <1>11, <2>1, <1>b, <1>c DEF BufferType, ProgressType, RequestType, RecvUploadInit
  <2>3. StatusType'
    BY <1>11, <1>b, <1>c DEF StatusType, RecvUploadInit, StatusByte, NEXT_UPL
  <2>. QED BY <1>11, <2>2, <2>3, SilentType DEF RecvUploadInit
<1>12. CASE RecvUploadSegment(c, f)
  <2>1. BufferType' /\ blksize' = blksize /\ unused' = unused /\ mux' = mux
    BY <1>12, <1>b, <1>c DEF BufferType, RecvUploadSegment
  <2>2. CASE /\ Fail(c, "SDOERR_TOGGLE") \/ Fail(c, "SDOERR_BUFSIZE")
             /\ UNCHANGED <<curlen, toggle, got>>
    BY <2>1, <2>2, FailType, CodesUsed, <1>b, <1>c DEF BufferType, ProgressType, RequestType, StatusType
  <2>3. CASE UploadSegmentTaken(c, f)
    BY <2>1, <2>3, <1>f, SegmentTaken, <1>b, <1>c DEF BufferType, ProgressType, RequestType, StatusType
  <2>. QED BY <1>12, <2>2, <2>3 DEF RecvUploadSegment
<1>13. CASE RecvUnknown(c, f)
  <2>1. BufferType' /\ ProgressType' /\ got' = got /\ mux' = mux
    BY <1>13, <1>b, <1>c DEF BufferType, ProgressType, RecvUnknown
  <2>. QED BY <1>13, <2>1, <1>b, FailType, CodesUsed DEF RecvUnknown, RequestType, StatusType
<1>. QED
  BY <1>1, <1>2, <1>3, <1>4, <1>5, <1>6, <1>7, <1>8, <1>9, <1>10, <1>11, <1>12, <1>13
  DEF MGR_HandleSDOClientResponse
-----------------------------------------------------------------------------
(* Typing of the application's calls.                                      *)
CallType ==
  /\ lastAbort \in [Channels -> Codes \union {"running", "none"}]
  /\ pending \in [Channels -> BOOLEAN]
  /\ got \in [Channels -> Content]
  /\ calls \in [Channels -> 0 .. MaxCalls]
  /\ current \in 0 .. NR_OF_SDO_CLIENTS

OutTyped == out \in [ch : Channels, tx : Seq(Frame), cb : Seq(Codes)]

LEMMA EmptyType == Empty \in Content
  BY DEF Empty, Content

LEMMA CalledType ==
  ASSUME TypeOK, NEW c \in Channels, NEW b \in BOOLEAN, Called(c, b)
  PROVE  CallType' /\ UNCHANGED <<unused, blksize>>
<1>. USE DEF Set
<1>1. lastAbort' \in [Channels -> Codes \union {"running", "none"}]
  BY DEF Called, TypeOK, OutputType
<1>2. pending' \in [Channels -> BOOLEAN]
  BY DEF Called, TypeOK, OutputType
<1>3. got' \in [Channels -> Content]
  BY EmptyType DEF Called, TypeOK, StatusType
<1>4. calls' \in [Channels -> 0 .. MaxCalls]
  <2>1. calls[c] + 1 \in 0 .. MaxCalls
    BY ClientAssumption DEF Called, TypeOK, TurnType
  <2>. QED BY <2>1 DEF Called, TypeOK, TurnType
<1>5. current' \in 0 .. NR_OF_SDO_CLIENTS
  BY DEF Called, TypeOK, TurnType
<1>. QED BY <1>1, <1>2, <1>3, <1>4, <1>5 DEF Called, CallType

LEMMA UseBufferType ==
  ASSUME TypeOK, NEW c \in Channels, NEW src \in Data \union {NoData},
         NEW size \in Nat, UseBuffer(c, src, size)
  PROVE  BufferType'
<1>1. [src |-> src, off |-> 0] \in [src : Data \union {NoData}, off : Nat]
  OBVIOUS
<1>2. bufmax' \in [Channels -> Nat] /\ buflen' \in [Channels -> Nat]
  BY DEF UseBuffer, Set, TypeOK, BufferType
<1>3. pBuf' \in [Channels -> [src : Data \union {NoData}, off : Nat]]
  BY <1>1 DEF UseBuffer, Set, TypeOK, BufferType
<1>. QED BY <1>2, <1>3 DEF BufferType

LEMMA RequestTyped ==
  ASSUME TypeOK, NEW c \in Channels, NEW m \in Muxes, NEW cs \in Byte,
         NEW arg \in Nat, NEW data \in Chunk, Request(c, m, cs, arg, data)
  PROVE  RequestType' /\ OutTyped'
<1> DEFINE f == SdoFrame(cs, m, arg, data)
<1>1. f \in Frame
  BY SdoFrameType
<1>. HIDE DEF f
<1>2. RequestType'
  BY <1>1 DEF Request, Set, TypeOK, RequestType, f
<1>3. <<f>> \in Seq(Frame) /\ <<>> \in Seq(Codes)
  BY <1>1
<1>4. OutTyped'
  BY <1>3, OutType DEF Request, OutTyped, f
<1>. QED BY <1>2, <1>4

LEMMA StartWriteType ==
  ASSUME TypeOK, NEW c \in Channels, NEW m \in Muxes,
         NEW p, p.src \in Data \union {NoData}, p.off \in Nat,
         NEW len \in Nat, NEW cur \in Nat, StartWrite(c, m, p, len, cur)
  PROVE  ProgressType' /\ RequestType' /\ OutputType' /\ StatusType' /\ CallType'
<1>. USE DEF Set
<1>1. CallType' /\ UNCHANGED <<unused, blksize>>
  BY CalledType DEF StartWrite
<1>2. CASE StartExpeditedWrite(c, m, p, len, cur)
  <2>1. (\h23 + 4 * (4 - len)) % 256 \in Byte
    BY LowByte, <1>2 DEF StartExpeditedWrite
  <2>2. Slice(p.src, p.off, len) \in Chunk
    BY SliceType
  <2>3. RequestType' /\ OutTyped'
    BY <1>2, <2>1, <2>2, RequestTyped DEF StartExpeditedWrite
  <2>4. ProgressType'
    BY <1>1, <1>2 DEF StartExpeditedWrite, TypeOK, ProgressType
  <2>5. StatusType'
    BY <1>1, <1>2 DEF StartExpeditedWrite, TypeOK, StatusType, CallType, StatusByte,
                      READY, WAIT_RES
  <2>. QED BY <1>1, <2>3, <2>4, <2>5 DEF OutputType, CallType, OutTyped
<1>3. ASSUME NEW cs \in Byte, NEW st \in StatusByte, StartLongWrite(c, m, cs, len, st)
      PROVE  ProgressType' /\ RequestType' /\ OutputType' /\ StatusType'
  <2>1. RequestType' /\ OutTyped'
    BY <1>3, NoChunkType, RequestTyped DEF StartLongWrite
  <2>2. ProgressType'
    BY <1>1, <1>3 DEF StartLongWrite, ResetProgress, TypeOK, ProgressType, Byte
  <2>3. StatusType'
    BY <1>1, <1>3 DEF StartLongWrite, TypeOK, StatusType, CallType, StatusByte, WAIT_RES
  <2>. QED BY <1>1, <2>1, <2>2, <2>3 DEF OutputType, CallType, OutTyped
<1>4. BLOCK_INITWR \in StatusByte /\ READY \union SEGMENTED \in StatusByte
      /\ \hC2 \in Byte /\ \h21 \in Byte
  BY DEF BLOCK_INITWR, READY, SEGMENTED, StatusByte, Byte
<1>. QED BY <1>1, <1>2, <1>3, <1>4 DEF StartWrite

LEMMA StartReadType ==
  ASSUME TypeOK, NEW c \in Channels, NEW m \in Muxes, NEW max, StartRead(c, m, max)
  PROVE  ProgressType' /\ RequestType' /\ OutputType' /\ StatusType' /\ CallType'
<1>. USE DEF Set
<1>1. CallType' /\ UNCHANGED <<unused, blksize>>
  BY CalledType DEF StartRead
<1>2. \hA0 \in Byte /\ \h40 \in Byte /\ SDO_BLK_MAX_SIZE \in Nat
  BY ClientAssumption DEF Byte
<1>3. RequestType' /\ OutTyped'
  BY <1>2, NoChunkType, RequestTyped DEF StartRead
<1>4. ProgressType'
  BY <1>1 DEF StartRead, ResetProgress, TypeOK, ProgressType, Byte
<1>5. StatusType'
  <2>1. BLOCK_INITRD \union WAIT_RES \in StatusByte
    BY DEF StatusByte, WAIT_RES, BLOCK_INITRD
  <2>. QED BY <1>1, <2>1 DEF StartRead, TypeOK, StatusType, CallType
<1>. QED BY <1>1, <1>3, <1>4, <1>5 DEF OutputType, CallType, OutTyped

LEMMA AppCallType ==
  ASSUME TypeOK, NEW c \in Channels, AppCall(c)
  PROVE  BufferType' /\ ProgressType' /\ RequestType' /\ OutputType' /\ StatusType'
         /\ CallType'
<1>. USE DEF Set, buffer
<1>c. /\ bufmax[c] \in Nat /\ buflen[c] \in Nat /\ curlen[c] \in Nat
      /\ pBuf[c].src \in Data \union {NoData} /\ pBuf[c].off \in Nat
  BY ChannelType
<1>1. ASSUME NEW src \in Data, NEW size \in Sizes, SDOCLNT_Init(c, src, size)
      PROVE  BufferType' /\ ProgressType' /\ RequestType' /\ OutputType' /\ StatusType'
             /\ CallType'
  <2>1. CallType' /\ UNCHANGED <<unused, blksize>>
    BY <1>1, CalledType DEF SDOCLNT_Init
  <2>2. BufferType'
    BY <1>1, UseBufferType, ClientAssumption DEF SDOCLNT_Init
  <2>3. ProgressType' /\ RequestType'
    BY <1>1, <2>1 DEF SDOCLNT_Init, TypeOK, ProgressType, RequestType
  <2>4. <<>> \in Seq(Frame) /\ <<>> \in Seq(Codes)
    OBVIOUS
  <2>5. OutTyped'
    BY <1>1, <2>4, OutType DEF SDOCLNT_Init, OutTyped
  <2>6. StatusType'
    <3>1. READY \in StatusByte
      BY DEF StatusByte, READY
    <3>. QED BY <1>1, <2>1, <3>1 DEF SDOCLNT_Init, TypeOK, StatusType, CallType
  <2>. QED BY <2>1, <2>2, <2>3, <2>5, <2>6 DEF OutputType, CallType, OutTyped
<1>2. ASSUME NEW m \in Muxes, SDOCLNT_Write(c, m) \/ SDOCLNT_Read(c, m)
      PROVE  BufferType' /\ ProgressType' /\ RequestType' /\ OutputType' /\ StatusType'
             /\ CallType'
  <2>1. BufferType'
    BY <1>2 DEF SDOCLNT_Write, SDOCLNT_Read, TypeOK, BufferType
  <2>. QED BY <1>2, <1>c, <2>1, StartWriteType, StartReadType
           DEF SDOCLNT_Write, SDOCLNT_Read
<1>3. ASSUME NEW m \in Muxes, NEW src \in Data, NEW size \in Sizes,
             SDOCLNT_WriteXtd(c, m, src, size) \/ WriteRemoteODExtended(c, m, src, size)
      PROVE  BufferType' /\ ProgressType' /\ RequestType' /\ OutputType' /\ StatusType'
             /\ CallType'
  <2>1. size \in Nat /\ src \in Data \union {NoData}
    BY ClientAssumption
  <2>2. BufferType'
    BY <1>3, <2>1, UseBufferType DEF SDOCLNT_WriteXtd, WriteRemoteODExtended
  <2> DEFINE p == [src |-> src, off |-> 0]
  <2>3. p.src \in Data \union {NoData} /\ p.off \in Nat
    OBVIOUS
  <2>4. StartWrite(c, m, p, size, 0)
    BY <1>3 DEF SDOCLNT_WriteXtd, WriteRemoteODExtended
  <2>. HIDE DEF p
  <2>. QED BY <2>1, <2>2, <2>3, <2>4, StartWriteType
<1>4. ASSUME NEW m \in Muxes, NEW size \in Sizes,
             SDOCLNT_ReadXtd(c, m, size) \/ ReadRemoteODExtended(c, m, size)
      PROVE  BufferType' /\ ProgressType' /\ RequestType' /\ OutputType' /\ StatusType'
             /\ CallType'
  <2>1. BufferType'
    BY <1>4, UseBufferType, ClientAssumption DEF SDOCLNT_ReadXtd, ReadRemoteODExtended
  <2>. QED BY <1>4, <2>1, StartReadType DEF SDOCLNT_ReadXtd, ReadRemoteODExtended
<1>5. CASE SDOCLNT_AbortTransfer(c, "SDO_ABORT_GENERAL")
  <2>1. /\ OutputType' /\ status' \in [Channels -> StatusByte]
        /\ sdomsg' \in [Channels -> Frame]
    BY <1>5, FailType, CodesUsed DEF SDOCLNT_AbortTransfer
  <2>2. BufferType' /\ ProgressType'
    BY <1>5 DEF SDOCLNT_AbortTransfer, TypeOK, BufferType, ProgressType
  <2>3. RequestType' /\ StatusType'
    BY <1>5, <2>1 DEF SDOCLNT_AbortTransfer, TypeOK, RequestType, StatusType
  <2>4. calls[c] + 1 \in 0 .. MaxCalls
    BY <1>5, ClientAssumption DEF SDOCLNT_AbortTransfer, TypeOK, TurnType
  <2>5. calls' \in [Channels -> 0 .. MaxCalls] /\ current' \in 0 .. NR_OF_SDO_CLIENTS
    BY <1>5, <2>4 DEF SDOCLNT_AbortTransfer, TypeOK, TurnType
  <2>. QED BY <2>1, <2>2, <2>3, <2>5 DEF CallType, OutputType, StatusType
<1>. QED BY <1>1, <1>2, <1>3, <1>4, <1>5 DEF AppCall
-----------------------------------------------------------------------------
(* Typing of a turn of the polling loop, branch by branch.                 *)
LEMMA SendFrameType ==
  ASSUME NEW cs \in Byte, NEW a \in Nat, NEW d \in Chunk
  PROVE  SdoFrame(cs, NoMux, a, d) \in Frame
  BY SdoFrameType

LEMMA CommandType ==
  ASSUME TypeOK, NEW c \in Channels, NEW cs \in Byte, NEW a \in Nat,
         NEW st \in StatusByte, Command(c, cs, a, st)
  PROVE  BufferType' /\ RequestType' /\ StatusType'
         /\ UNCHANGED <<curlen, blksize, unused, calls>>
<1>. USE DEF Set, buffer
<1>1. SdoFrame(cs, NoMux, a, NoChunk) \in Frame
  BY NoChunkType, SendFrameType
<1>2. BufferType'
  BY DEF Command, TypeOK, BufferType
<1>3. RequestType'
  BY <1>1 DEF Command, TypeOK, RequestType
<1>4. StatusType'
  BY DEF Command, TypeOK, StatusType
<1>. QED BY <1>2, <1>3, <1>4 DEF Command

LEMMA TurnTyped ==
  ASSUME TypeOK, NEW c, Turn(c)
  PROVE  c \in Channels /\ current' \in 0 .. NR_OF_SDO_CLIENTS
  BY ClientAssumption DEF Turn, NextChannel, TypeOK, TurnType, Channels

LEMMA BlockSegmentType ==
  ASSUME TypeOK, NEW c \in Channels, SendBlockSegment(c)
  PROVE  BufferType' /\ ProgressType' /\ RequestType' /\ OutputType' /\ StatusType'
<1>. USE DEF Set
<1> DEFINE tog == (toggle[c] + 1) % 256
           left == buflen[c] - curlen[c]
           len == IF left > 7 THEN 7 ELSE left
           blk == Decrement(blksize[c])
           cs == IF len = left /\ tog < 128 THEN tog + 128 ELSE tog
           data == Slice(pBuf[c].src, pBuf[c].off, len)
           f == SdoFrame(cs, NoMux, 0, data)
<1>1. /\ buflen[c] \in Nat /\ curlen[c] \in Nat /\ toggle[c] \in Byte
      /\ blksize[c] \in Byte /\ status[c] \in StatusByte
      /\ pBuf[c].src \in Data \union {NoData} /\ pBuf[c].off \in Nat
  BY ChannelType
<1>2. left \in Nat /\ left > 0
  BY <1>1 DEF SendBlockSegment
<1>3. len \in 1 .. 7
  BY <1>2
<1>4. tog \in Byte
  BY <1>1 DEF Byte
<1>5. cs \in Byte
  BY <1>4 DEF Byte
<1>6. blk \in Byte
  BY <1>1, DecrementByte
<1>7. data \in Chunk
  <2>. HIDE DEF len
  <2>. QED BY <1>1, <1>3, SliceType
<1>8. f \in Frame
  <2>. HIDE DEF cs, data
  <2>. QED BY <1>5, <1>7, SendFrameType
<1>9. Advance(pBuf[c], len) \in [src : Data \union {NoData}, off : Nat]
  <2>. HIDE DEF len
  <2>. QED BY <1>1, <1>3, AdvanceType
<1>10. /\ toggle' = Set(toggle, c, tog)
       /\ curlen' = Set(curlen, c, curlen[c] + len)
       /\ pBuf' = Set(pBuf, c, Advance(pBuf[c], len))
       /\ blksize' = Set(blksize, c, blk)
       /\ unused' = Set(unused, c, 7 - len)
       /\ \/ status' = Set(status, c, BLOCK_WRCONF \union WAIT_RES)
          \/ UNCHANGED status
       /\ sdomsg' = Set(sdomsg, c, f)
       /\ Send(c, f)
       /\ UNCHANGED <<bufmax, buflen, mux, got, calls>>
  BY DEF SendBlockSegment
<1>. HIDE DEF tog, left, len, blk, cs, data, f
<1>11. BufferType'
  BY <1>9, <1>10 DEF TypeOK, BufferType
<1>12. ProgressType'
  <2>1. curlen[c] + len \in Nat /\ 7 - len \in 0 .. 7
    BY <1>1, <1>3
  <2>. QED BY <1>4, <1>6, <1>10, <2>1 DEF TypeOK, ProgressType
<1>13. RequestType'
  BY <1>8, <1>10 DEF TypeOK, RequestType
<1>14. BLOCK_WRCONF \union WAIT_RES \in StatusByte
  BY DEF BLOCK_WRCONF, WAIT_RES, StatusByte
<1>15. StatusType'
  BY <1>10, <1>14 DEF TypeOK, StatusType
<1>16. OutputType'
  BY <1>8, <1>10, SendType
<1>. QED BY <1>11, <1>12, <1>13, <1>15, <1>16

LEMMA TurnOfChannelType ==
  ASSUME TypeOK, NEW c \in Channels, MGR_SDOHandleClient(c)
  PROVE  /\ BufferType' /\ ProgressType' /\ RequestType' /\ OutputType' /\ StatusType'
         /\ current' \in 0 .. NR_OF_SDO_CLIENTS /\ calls' = calls
<1>. USE DEF Set, buffer, progress
<1>c. /\ toggle[c] \in Byte /\ toggle[c] \in Nat /\ unused[c] \in 0 .. 7
      /\ sdomsg[c] \in Frame /\ status[c] \in StatusByte
  BY ChannelType DEF Byte
<1>b. BufferType /\ ProgressType /\ RequestType /\ StatusType
  BY DEF TypeOK
<1>s. /\ BLOCK_WRFINA \union WAIT_RES \in StatusByte
      /\ BLOCK_READ \union WAIT_RES \in StatusByte
      /\ BLOCK_RDCONF \union WAIT_RES \in StatusByte /\ READY \in StatusByte
      /\ status[c] \union WAIT_RES \in StatusByte
  BY <1>c DEF BLOCK_WRFINA, WAIT_RES, BLOCK_READ, BLOCK_RDCONF, READY, StatusByte
<1>h. /\ \hA1 \in Byte /\ \hA2 \in Byte /\ \hA3 \in Byte
      /\ \hC1 + 4 * unused[c] \in Byte /\ 0 \in Byte
  BY <1>c DEF Byte
<1>1. CASE Timeout(c)
  <2>1. /\ OutputType' /\ status' \in [Channels -> StatusByte]
        /\ sdomsg' \in [Channels -> Frame]
    BY <1>1, FailType, CodesUsed DEF Timeout
  <2>2. BufferType' /\ ProgressType' /\ mux' = mux /\ got' = got /\ calls' = calls
    BY <1>1, <1>b DEF Timeout, BufferType, ProgressType
  <2>. QED BY <1>1, <1>b, <2>1, <2>2, TurnTyped DEF Timeout, RequestType, StatusType
<1>2. CASE SendNext(c)
  <2>1. OutputType'
    BY <1>2, <1>c, SendType DEF SendNext
  <2>2. BufferType' /\ ProgressType' /\ RequestType' /\ calls' = calls
    BY <1>2, <1>b DEF SendNext, BufferType, ProgressType, RequestType
  <2>3. StatusType'
    BY <1>2, <1>b, <1>s DEF SendNext, StatusType
  <2>. QED BY <1>2, <2>1, <2>2, <2>3, TurnTyped DEF SendNext
<1>3. CASE SendBlockSegment(c)
  <2>1. Turn(c) /\ calls' = calls
    BY <1>3 DEF SendBlockSegment
  <2>2. current' \in 0 .. NR_OF_SDO_CLIENTS
    BY <2>1, TurnTyped
  <2>. QED BY <1>3, <2>1, <2>2, BlockSegmentType
<1>4. CASE ConfirmBlockWrite(c)
  <2>1. /\ BufferType' /\ RequestType' /\ StatusType'
        /\ UNCHANGED <<curlen, blksize, unused, calls>>
    BY <1>4, <1>h, <1>s, CommandType DEF ConfirmBlockWrite
  <2>2. SdoFrame(\hC1 + 4 * unused[c], NoMux, 0, NoChunk) \in Frame
    BY <1>h, NoChunkType, SendFrameType
  <2>3. OutputType'
    BY <1>4, <2>2, SendType DEF ConfirmBlockWrite
  <2>4. ProgressType'
    BY <1>4, <1>b, <2>1 DEF ConfirmBlockWrite, ProgressType
  <2>. QED BY <1>4, <2>1, <2>3, <2>4, TurnTyped DEF ConfirmBlockWrite
<1>5. CASE FinishBlockWrite(c)
  <2>1. OutputType'
    BY <1>5, CompleteQuietType, CodesUsed DEF FinishBlockWrite
  <2>2. BufferType' /\ ProgressType' /\ RequestType' /\ calls' = calls
    BY <1>5, <1>b DEF FinishBlockWrite, BufferType, ProgressType, RequestType
  <2>3. StatusType'
    BY <1>5, <1>b, <1>s DEF FinishBlockWrite, StatusType
  <2>. QED BY <1>5, <2>1, <2>2, <2>3, TurnTyped DEF FinishBlockWrite
<1>6. CASE StartBlockRead(c)
  <2>1. /\ BufferType' /\ RequestType' /\ StatusType'
        /\ UNCHANGED <<curlen, blksize, unused, calls>>
    BY <1>6, <1>h, <1>s, CommandType DEF StartBlockRead
  <2>2. SdoFrame(\hA3, NoMux, 0, NoChunk) \in Frame
    BY <1>h, NoChunkType, SendFrameType
  <2>3. OutputType'
    BY <1>6, <2>2, SendType DEF StartBlockRead
  <2>4. ProgressType'
    BY <1>6, <1>b, <2>1 DEF StartBlockRead, ProgressType
  <2>. QED BY <1>6, <2>1, <2>3, <2>4, TurnTyped DEF StartBlockRead
<1>7. CASE ConfirmBlock(c)
  <2>1. /\ BufferType' /\ RequestType' /\ StatusType'
        /\ UNCHANGED <<curlen, blksize, unused, calls>>
    BY <1>7, <1>c, <1>h, <1>s, CommandType DEF ConfirmBlock
  <2>2. SdoFrame(\hA2, NoMux, toggle[c], NoChunk) \in Frame
    BY <1>c, <1>h, NoChunkType, SendFrameType
  <2>3. OutputType'
    BY <1>7, <2>2, SendType DEF ConfirmBlock
  <2>4. ProgressType'
    BY <1>7, <1>b, <1>h, <2>1 DEF ConfirmBlock, ProgressType
  <2>. QED BY <1>7, <2>1, <2>3, <2>4, TurnTyped DEF ConfirmBlock
<1>8. CASE FinishBlockRead(c)
  <2>1. /\ BufferType' /\ RequestType' /\ StatusType'
        /\ UNCHANGED <<curlen, blksize, unused, calls>>
    BY <1>8, <1>h, <1>s, CommandType DEF FinishBlockRead
  <2>2. SdoFrame(\hA1, NoMux, 0, NoChunk) \in Frame
    BY <1>h, NoChunkType, SendFrameType
  <2>3. <<SdoFrame(\hA1, NoMux, 0, NoChunk)>> \in Seq(Frame)
    BY <2>2
  <2>4. OutputType'
    BY <1>8, <2>3, CompleteType, CodesUsed DEF FinishBlockRead
  <2>5. ProgressType'
    BY <1>8, <1>b, <2>1 DEF FinishBlockRead, ProgressType
  <2>. QED BY <1>8, <2>1, <2>4, <2>5, TurnTyped DEF FinishBlockRead
<1>9. CASE Pass(c)
  <2>1. BufferType' /\ ProgressType' /\ RequestType' /\ StatusType' /\ calls' = calls
    BY <1>9, <1>b DEF Pass, BufferType, ProgressType, RequestType, StatusType
  <2>. QED BY <1>9, <2>1, SilentType, TurnTyped DEF Pass
<1>. QED BY <1>1, <1>2, <1>3, <1>4, <1>5, <1>6, <1>7, <1>8, <1>9
         DEF MGR_SDOHandleClient, Proceed

-----------------------------------------------------------------------------
LEMMA OpenInitType == OpenInit => TypeOK
<1>. SUFFICES ASSUME OpenInit PROVE TypeOK
  OBVIOUS
<1>1. NR_OF_SDO_CLIENTS \in Nat \ {0} /\ MaxCalls \in Nat /\ MaxResponses \in Nat
  BY ClientAssumption, OpenAssumption
<1>2. BufferType
  BY DEF OpenInit, Init, BufferType
<1>3. ProgressType
  BY DEF OpenInit, Init, ProgressType, Byte
<1>4. mux \in [Channels -> Muxes]
  BY DEF OpenInit, Init
<1>5. RequestType
  <2>1. SdoFrame(0, NoMux, 0, NoChunk) \in Frame
    BY NoChunkType, SdoFrameType DEF Byte
  <2>2. sdomsg = [c \in Channels |-> SdoFrame(0, NoMux, 0, NoChunk)]
    BY DEF OpenInit, Init
  <2>. QED BY <1>4, <2>1, <2>2 DEF RequestType
<1>6. OutputType
  <2>1. <<>> \in Seq(Frame) /\ <<>> \in Seq(Codes) /\ 1 \in Channels
    BY <1>1 DEF Channels
  <2>2. out \in [ch : Channels, tx : Seq(Frame), cb : Seq(Codes)]
    BY <2>1 DEF OpenInit, Init, Start
  <2>. QED BY <2>2 DEF OpenInit, Init, OutputType
<1>7. StatusType
  BY EmptyType DEF OpenInit, Init, StatusType, StatusByte, FREE
<1>8. TurnType
  BY <1>1 DEF OpenInit, Init, TurnType
<1>. QED BY <1>2, <1>3, <1>5, <1>6, <1>7, <1>8 DEF TypeOK

LEMMA OpenNextType == TypeOK /\ [OpenNext]_openVars => TypeOK'
<1>. SUFFICES ASSUME TypeOK, [OpenNext]_openVars PROVE TypeOK'
  OBVIOUS
<1>1. ASSUME NEW c \in Channels, Respond(c) PROVE TypeOK'
  <2>1. PICK f \in Frame : MGR_HandleSDOClientResponse(c, f)
    BY <1>1, OpenAssumption DEF Respond
  <2>2. BufferType' /\ ProgressType' /\ RequestType' /\ OutputType' /\ StatusType'
    BY <2>1, ResponseType
  <2>3. TurnType'
    BY <1>1, <2>1, OpenAssumption DEF Respond, MGR_HandleSDOClientResponse, TypeOK, TurnType
  <2>. QED BY <2>2, <2>3 DEF TypeOK
<1>2. ASSUME NEW c \in Channels, AppCall(c), UNCHANGED answers PROVE TypeOK'
  BY <1>2, AppCallType DEF TypeOK, CallType, TurnType
<1>3. ASSUME NEW c \in Channels, MGR_SDOHandleClient(c), UNCHANGED answers PROVE TypeOK'
  BY <1>3, TurnOfChannelType DEF TypeOK, TurnType
<1>4. CASE UNCHANGED openVars
  <2>1. BufferType' /\ ProgressType' /\ RequestType'
    BY <1>4 DEF openVars, clientVars, buffer, progress, history, TypeOK, BufferType,
                ProgressType, RequestType
  <2>2. OutputType' /\ StatusType' /\ TurnType'
    BY <1>4 DEF openVars, clientVars, history, TypeOK, OutputType, StatusType, TurnType
  <2>. QED BY <2>1, <2>2 DEF TypeOK
<1>. QED BY <1>1, <1>2, <1>3, <1>4 DEF OpenNext

(* Whatever the environment answers, in whatever order and number, every   *)
(* variable of the client keeps the type its C declaration gives it.       *)
THEOREM ClientTypes == OpenSpec => []TypeOK
<1>. QED BY OpenInitType, OpenNextType, PTL DEF OpenSpec

-----------------------------------------------------------------------------
(* Three safety properties: a transfer never counts beyond the             *)
(* application's buffer, but for the bytes of an expedited answer; one     *)
(* that is not reported can go on unless it is the block write told to go  *)
(* on with nothing left; and an abort names the channel's own entry.       *)
(* Every action touches one channel (Elsewhere) and leaves it Bounded,     *)
(* Going and Named, and the others as they were.                           *)
Bounded(c) == /\ buflen[c] <= bufmax[c]
              /\ curlen[c] > bufmax[c] => curlen[c] <= 4
              /\ pending[c] /\ Has(c, SEGMENTED) => curlen[c] <= buflen[c]
Going(c) == pending[c] => CanGoOn(c) \/ status[c] = BLOCK_WRITE
Elsewhere(c) ==
  \A d \in Channels \ {c} :
    /\ status'[d] = status[d] /\ pending'[d] = pending[d]
    /\ curlen'[d] = curlen[d] /\ buflen'[d] = buflen[d] /\ bufmax'[d] = bufmax[d]
Safe(c) == Elsewhere(c) /\ Bounded(c)' /\ Going(c)'

LEMMA FunctionTypes ==
  ASSUME TypeOK
  PROVE  /\ status \in [Channels -> StatusByte] /\ pending \in [Channels -> BOOLEAN]
         /\ curlen \in [Channels -> Nat] /\ buflen \in [Channels -> Nat]
         /\ bufmax \in [Channels -> Nat]
  BY DEF TypeOK, StatusType, OutputType, ProgressType, BufferType

(* The two invariants are Bounded and Going of every channel.              *)
LEMMA GoingIsOnlyOneStall ==
  ASSUME TypeOK
  PROVE  OnlyOneStall <=> \A c \in Channels : Going(c)
  BY FunctionTypes DEF OnlyOneStall, Going, CanGoOn, NothingLeft

LEMMA BoundedIsCounts == CountsWithinBuffer <=> \A c \in Channels : Bounded(c)
  BY DEF CountsWithinBuffer, Bounded

(* A step that leaves one channel safe and touches no other.               *)
LEMMA OthersKept ==
  ASSUME NEW c \in Channels,
         \A d \in Channels : Bounded(d) /\ Going(d), Safe(c)
  PROVE  \A d \in Channels : Bounded(d)' /\ Going(d)'
<1>. SUFFICES ASSUME NEW d \in Channels, d # c PROVE Bounded(d)' /\ Going(d)'
  BY DEF Safe
<1>1. Bounded(d) /\ Going(d)
  OBVIOUS
<1>2. /\ status'[d] = status[d] /\ pending'[d] = pending[d]
      /\ curlen'[d] = curlen[d] /\ buflen'[d] = buflen[d] /\ bufmax'[d] = bufmax[d]
  BY DEF Elsewhere, Safe
<1>. QED BY <1>1, <1>2 DEF Bounded, Going, CanGoOn, Has

(* A failed transfer is over and its channel ready.                        *)
LEMMA FailIsSafe ==
  ASSUME TypeOK, NEW c \in Channels, Bounded(c), NEW code, Fail(c, code),
         UNCHANGED bufmax,
         \/ UNCHANGED <<buflen, curlen>>
         \/ buflen' = buflen /\ curlen' = [curlen EXCEPT ![c] = 0]
  PROVE  Safe(c)
<1>1. status' = [status EXCEPT ![c] = READY] /\ pending' = [pending EXCEPT ![c] = FALSE]
  BY DEF Fail, Complete, Set
<1>2. Elsewhere(c)
  BY <1>1, FunctionTypes DEF Elsewhere
<1>3. Going(c)'
  BY <1>1, FunctionTypes DEF Going
<1>4. curlen'[c] <= curlen[c]
  BY FunctionTypes
<1>5. Bounded(c)'
  BY <1>1, <1>4, FunctionTypes DEF Bounded, Has, READY, SEGMENTED
<1>. QED BY <1>2, <1>3, <1>5 DEF Safe
-----------------------------------------------------------------------------
LEMMA ResponseIsSafe ==
  ASSUME TypeOK, NEW c \in Channels, Bounded(c), NEW f \in Frame,
         MGR_HandleSDOClientResponse(c, f)
  PROVE  Safe(c)
<1>. USE DEF Set, Silent, Send, Complete, buffer, progress, SEGMENTED
<1>c. /\ bufmax[c] \in Nat /\ buflen[c] \in Nat /\ curlen[c] \in Nat
      /\ buflen[c] <= bufmax[c] /\ (curlen[c] > bufmax[c] => curlen[c] <= 4)
      /\ pending[c] /\ SEGMENTED \subseteq status[c] => curlen[c] <= buflen[c]
  BY ChannelType DEF Bounded, Has
<1>f. f.cs \in Byte /\ f.arg \in Nat
  BY DEF Frame
<1>1. CASE RecvBlockSegment(c, f)
  <2> DEFINE left == buflen[c] - curlen[c]
             len == IF left < 0 THEN 0 ELSE IF left > 7 THEN 7 ELSE left
  <2>1. /\ len \in Nat /\ curlen[c] + len \in Nat
        /\ curlen[c] + len <= bufmax[c] \/ len = 0
    BY <1>c
  <2>2. /\ \/ curlen' = [curlen EXCEPT ![c] = curlen[c] + len]
           \/ UNCHANGED curlen
        /\ UNCHANGED <<bufmax, buflen, pending>>
        /\ status[c] = BLOCK_READ \union WAIT_RES
        /\ status' = [status EXCEPT ![c] = BLOCK_RDCONF] \/ UNCHANGED status
    BY <1>1 DEF RecvBlockSegment, ReadingBlock
  <2>. HIDE DEF len
  <2>3. Elsewhere(c)
    BY <2>2, FunctionTypes DEF Elsewhere
  <2>4. Bounded(c)'
    BY <2>1, <2>2, <1>c, FunctionTypes DEF Bounded, Has, BLOCK_RDCONF, BLOCK_READ, WAIT_RES
  <2>5. Going(c)'
    BY <2>2, FunctionTypes DEF Going, CanGoOn, Has, WAIT_RES
  <2>. QED BY <2>3, <2>4, <2>5 DEF Safe
<1>2. CASE RecvBlockReadInit(c, f)
  <2>1. CASE f.arg <= bufmax[c]
    <3>1. /\ status' = [status EXCEPT ![c] = BLOCK_READ]
          /\ buflen' = [buflen EXCEPT ![c] = f.arg]
          /\ UNCHANGED <<bufmax, curlen, pending>>
      BY <1>2, <2>1 DEF RecvBlockReadInit
    <3>2. Elsewhere(c)
      BY <3>1, FunctionTypes DEF Elsewhere
    <3>3. Bounded(c)'
      BY <3>1, <1>c, <1>f, <2>1, FunctionTypes DEF Bounded, Has, BLOCK_READ
    <3>4. Going(c)'
      BY <3>1, FunctionTypes DEF Going, CanGoOn
    <3>. QED BY <3>2, <3>3, <3>4 DEF Safe
  <2>2. CASE ~(f.arg <= bufmax[c])
    BY <1>2, <2>2, FailIsSafe DEF RecvBlockReadInit
  <2>. QED BY <2>1, <2>2
<1>3. CASE RecvBlockReadEnd(c, f)
  <2>1. Elsewhere(c)
    BY <1>3, FunctionTypes DEF RecvBlockReadEnd, Elsewhere
  <2>2. Bounded(c)'
    BY <1>3, <1>c, FunctionTypes DEF RecvBlockReadEnd, Bounded, Has, BLOCK_RDFINA
  <2>3. Going(c)'
    BY <1>3, FunctionTypes DEF RecvBlockReadEnd, Going, CanGoOn, Has
  <2>. QED BY <2>1, <2>2, <2>3 DEF Safe
<1>4. CASE RecvBlockWriteInit(c, f)
  <2>1. Elsewhere(c)
    BY <1>4, FunctionTypes DEF RecvBlockWriteInit, Elsewhere
  <2>2. Bounded(c)'
    BY <1>4, <1>c, FunctionTypes DEF RecvBlockWriteInit, Bounded, Has, BLOCK_WRITE
  <2>3. Going(c)'
    BY <1>4, FunctionTypes DEF RecvBlockWriteInit, Going, CanGoOn, Has
  <2>. QED BY <2>1, <2>2, <2>3 DEF Safe
<1>5. CASE RecvBlockAck(c, f)
  <2>1. Elsewhere(c)
    BY <1>5, FunctionTypes DEF RecvBlockAck, Elsewhere
  <2>a. /\ status'[c] = BLOCK_WRITE \/ status'[c] = BLOCK_WRCONF
        /\ UNCHANGED <<curlen, buflen, bufmax>>
    BY <1>5, FunctionTypes DEF RecvBlockAck
  <2>2. Bounded(c)'
    BY <2>a, <1>c DEF Bounded, Has, BLOCK_WRITE, BLOCK_WRCONF
  <2>3. Going(c)'
    BY <1>5, FunctionTypes DEF RecvBlockAck, Going, CanGoOn, Has
  <2>. QED BY <2>1, <2>2, <2>3 DEF Safe
<1>6. CASE RecvBlockWriteEnd(c, f)
  <2>1. Elsewhere(c)
    BY <1>6, FunctionTypes DEF RecvBlockWriteEnd, Elsewhere
  <2>2. Bounded(c)'
    BY <1>6, <1>c, FunctionTypes DEF RecvBlockWriteEnd, Bounded, Has, BLOCK_WRFINA
  <2>3. Going(c)'
    BY <1>6, FunctionTypes DEF RecvBlockWriteEnd, Going, CanGoOn, Has
  <2>. QED BY <2>1, <2>2, <2>3 DEF Safe
<1>7. CASE RecvAbort(c, f)
  <2>1. Elsewhere(c)
    BY <1>7, FunctionTypes DEF RecvAbort, Elsewhere
  <2>2. Bounded(c)'
    BY <1>7, <1>c, FunctionTypes DEF RecvAbort, Bounded, Has, READY
  <2>3. Going(c)'
    BY <1>7, FunctionTypes DEF RecvAbort, Going, CanGoOn, Has
  <2>. QED BY <2>1, <2>2, <2>3 DEF Safe
<1>8. CASE RecvOtherEntry(c, f)
  BY <1>8, FailIsSafe DEF RecvOtherEntry
<1>9. CASE RecvDownloadAck(c, f)
  <2>0. UNCHANGED <<bufmax, buflen>>
    BY <1>9 DEF RecvDownloadAck
  <2>1. CASE /\ ~Has(c, SEGMENTED)
             /\ status' = Set(status, c, status[c] \ WAIT_RES)
             /\ Complete(c, "SDOERR_OK", <<>>) /\ UNCHANGED curlen
    <3>1. Elsewhere(c)
      BY <2>0, <2>1, FunctionTypes DEF Elsewhere
    <3>2. Bounded(c)' /\ Going(c)'
      BY <2>0, <2>1, <1>c, FunctionTypes DEF Bounded, Going, Has
    <3>. QED BY <3>1, <3>2 DEF Safe
  <2>2. CASE Fail(c, "SDOERR_TOGGLE") /\ UNCHANGED curlen
    BY <2>0, <2>2, FailIsSafe
  <2>3. CASE /\ Has(c, SEGMENTED)
             /\ status' = Set(status, c, READY \union SEGMENTED)
             /\ Complete(c, "SDOERR_OK", <<>>) /\ UNCHANGED curlen
    <3>1. Elsewhere(c)
      BY <2>0, <2>3, FunctionTypes DEF Elsewhere
    <3>2. Bounded(c)' /\ Going(c)'
      BY <2>0, <2>3, <1>c, FunctionTypes DEF Bounded, Going, Has
    <3>. QED BY <3>1, <3>2 DEF Safe
  <2>4. CASE Has(c, SEGMENTED) /\ PrepareSegment(c)
    <3> DEFINE more == buflen[c] > 7 /\ buflen[c] - 7 > curlen[c]
               len == IF more THEN 7 ELSE buflen[c] - curlen[c]
               st == (status[c] \ WAIT_RES) \union NEXT_DWN
                                 \union (IF more THEN {} ELSE LAST_SEG)
    <3>1. curlen[c] + len <= buflen[c] /\ curlen[c] + len \in Nat
      BY <1>c
    <3>2. /\ curlen' = [curlen EXCEPT ![c] = curlen[c] + len]
          /\ status' = [status EXCEPT ![c] = st] /\ UNCHANGED pending
      BY <2>4 DEF PrepareSegment
    <3>3. NEXT_DWN \subseteq st
      OBVIOUS
    <3>. HIDE DEF len, st
    <3>4. Elsewhere(c)
      BY <2>0, <3>2, FunctionTypes DEF Elsewhere
    <3>5. Bounded(c)'
      BY <1>c, <2>0, <3>1, <3>2, FunctionTypes DEF Bounded, Has
    <3>6. Going(c)'
      BY <3>2, <3>3, FunctionTypes DEF Going, CanGoOn, Has
    <3>. QED BY <3>4, <3>5, <3>6 DEF Safe
  <2>. QED BY <1>9, <2>1, <2>2, <2>3, <2>4 DEF RecvDownloadAck
<1>10. CASE RecvExpedited(c, f)
  <2> DEFINE len == ExpeditedLen(f.cs)
  <2>1. len \in Nat /\ len <= 4
    BY <1>f, ExpeditedLenRange
  <2>2. /\ curlen' = [curlen EXCEPT ![c] = len]
        /\ status' = [status EXCEPT ![c] = status[c] \ WAIT_RES]
        /\ pending' = [pending EXCEPT ![c] = FALSE]
        /\ UNCHANGED <<bufmax, buflen>>
    BY <1>10 DEF RecvExpedited
  <2>. HIDE DEF len
  <2>3. Elsewhere(c)
    BY <2>2, FunctionTypes DEF Elsewhere
  <2>4. Bounded(c)' /\ Going(c)'
    BY <2>1, <2>2, <1>c, FunctionTypes DEF Bounded, Going, Has
  <2>. QED BY <2>3, <2>4 DEF Safe
<1>11. CASE RecvUploadInit(c, f)
  <2>1. Elsewhere(c)
    BY <1>11, FunctionTypes DEF RecvUploadInit, Elsewhere
  <2>2. Bounded(c)'
    BY <1>11, <1>c, FunctionTypes DEF RecvUploadInit, Bounded, Has, NEXT_UPL
  <2>3. Going(c)'
    BY <1>11, FunctionTypes DEF RecvUploadInit, Going, CanGoOn, Has
  <2>. QED BY <2>1, <2>2, <2>3 DEF Safe
<1>12. CASE RecvUploadSegment(c, f)
  <2>1. CASE Fits(c, SegmentLen(f.cs)) /\ UploadSegmentTaken(c, f)
    <3> DEFINE len == SegmentLen(f.cs)
    <3>1. len \in Nat /\ curlen[c] + len <= buflen[c]
      BY <1>f, <2>1, SegmentLenRange DEF Fits
    <3>2. /\ curlen' = [curlen EXCEPT ![c] = curlen[c] + len]
          /\ \/ status' = [status EXCEPT ![c] = READY \union SEGMENTED]
                /\ pending' = [pending EXCEPT ![c] = FALSE]
             \/ status' = [status EXCEPT ![c] = NEXT_UPL] /\ UNCHANGED pending
          /\ UNCHANGED <<bufmax, buflen>>
      BY <1>12, <2>1 DEF RecvUploadSegment, UploadSegmentTaken
    <3>. HIDE DEF len
    <3>3. Elsewhere(c)
      BY <3>2, FunctionTypes DEF Elsewhere
    <3>4. Bounded(c)'
      BY <3>1, <3>2, <1>c, FunctionTypes DEF Bounded
    <3>5. Going(c)'
      BY <3>2, FunctionTypes DEF Going, CanGoOn, Has
    <3>. QED BY <3>3, <3>4, <3>5 DEF Safe
  <2>2. CASE /\ Fail(c, "SDOERR_TOGGLE") \/ Fail(c, "SDOERR_BUFSIZE")
             /\ UNCHANGED curlen
    BY <1>12, <2>2, FailIsSafe DEF RecvUploadSegment
  <2>. QED BY <1>12, <2>1, <2>2 DEF RecvUploadSegment
<1>13. CASE RecvUnknown(c, f)
  BY <1>13, FailIsSafe DEF RecvUnknown
<1>. QED
  BY <1>1, <1>2, <1>3, <1>4, <1>5, <1>6, <1>7, <1>8, <1>9, <1>10, <1>11, <1>12, <1>13
  DEF MGR_HandleSDOClientResponse
-----------------------------------------------------------------------------
LEMMA TurnIsSafe ==
  ASSUME TypeOK, NEW c \in Channels, Bounded(c), Going(c), MGR_SDOHandleClient(c)
  PROVE  Safe(c)
<1>. USE DEF Set, Silent, Send, Complete, Command, buffer, progress, SEGMENTED
<1>c. /\ bufmax[c] \in Nat /\ buflen[c] \in Nat /\ curlen[c] \in Nat
      /\ buflen[c] <= bufmax[c] /\ (curlen[c] > bufmax[c] => curlen[c] <= 4)
      /\ pending[c] /\ SEGMENTED \subseteq status[c] => curlen[c] <= buflen[c]
  BY ChannelType DEF Bounded, Has
<1>1. CASE Timeout(c)
  BY <1>1, FailIsSafe DEF Timeout
<1>2. CASE SendNext(c)
  <2>1. Elsewhere(c)
    BY <1>2, FunctionTypes DEF SendNext, Elsewhere
  <2>2. Bounded(c)'
    BY <1>2, <1>c, FunctionTypes DEF SendNext, Bounded, Has, WAIT_RES
  <2>3. Going(c)'
    BY <1>2, FunctionTypes DEF SendNext, Going, CanGoOn, Has
  <2>. QED BY <2>1, <2>2, <2>3 DEF Safe
<1>3. CASE SendBlockSegment(c)
  <2> DEFINE left == buflen[c] - curlen[c]
             len == IF left > 7 THEN 7 ELSE left
  <2>1. curlen[c] + len \in Nat /\ curlen[c] + len <= buflen[c]
    BY <1>c, <1>3 DEF SendBlockSegment
  <2>2. /\ curlen' = [curlen EXCEPT ![c] = curlen[c] + len]
        /\ UNCHANGED <<bufmax, buflen, pending>>
        /\ status[c] = BLOCK_WRITE
        /\ \/ status' = [status EXCEPT ![c] = BLOCK_WRCONF \union WAIT_RES]
           \/ UNCHANGED status
    BY <1>3 DEF SendBlockSegment
  <2>. HIDE DEF len
  <2>3. Elsewhere(c)
    BY <2>2, FunctionTypes DEF Elsewhere
  <2>4. Bounded(c)'
    BY <2>1, <2>2, <1>c, FunctionTypes DEF Bounded
  <2>5. Going(c)'
    BY <2>2, FunctionTypes DEF Going, CanGoOn, Has
  <2>. QED BY <2>3, <2>4, <2>5 DEF Safe
<1>4. CASE ConfirmBlockWrite(c)
  <2>1. Elsewhere(c)
    BY <1>4, FunctionTypes DEF ConfirmBlockWrite, Elsewhere
  <2>2. Bounded(c)'
    BY <1>4, <1>c, FunctionTypes DEF ConfirmBlockWrite, Bounded, Has, BLOCK_WRFINA, WAIT_RES
  <2>3. Going(c)'
    BY <1>4, FunctionTypes DEF ConfirmBlockWrite, Going, CanGoOn, Has
  <2>. QED BY <2>1, <2>2, <2>3 DEF Safe
<1>5. CASE FinishBlockWrite(c)
  <2>1. Elsewhere(c)
    BY <1>5, FunctionTypes DEF FinishBlockWrite, Elsewhere
  <2>2. Bounded(c)'
    BY <1>5, <1>c, FunctionTypes DEF FinishBlockWrite, Bounded, Has, READY
  <2>3. Going(c)'
    BY <1>5, FunctionTypes DEF FinishBlockWrite, Going, CanGoOn, Has
  <2>. QED BY <2>1, <2>2, <2>3 DEF Safe
<1>6. CASE StartBlockRead(c)
  <2>1. Elsewhere(c)
    BY <1>6, FunctionTypes DEF StartBlockRead, Elsewhere
  <2>2. Bounded(c)'
    BY <1>6, <1>c, FunctionTypes DEF StartBlockRead, Bounded, Has, BLOCK_READ, WAIT_RES
  <2>3. Going(c)'
    BY <1>6, FunctionTypes DEF StartBlockRead, Going, CanGoOn, Has
  <2>. QED BY <2>1, <2>2, <2>3 DEF Safe
<1>7. CASE ConfirmBlock(c)
  <2>1. Elsewhere(c)
    BY <1>7, FunctionTypes DEF ConfirmBlock, Elsewhere
  <2>2. Bounded(c)'
    BY <1>7, <1>c, FunctionTypes DEF ConfirmBlock, Bounded, Has, BLOCK_READ, BLOCK_RDCONF, WAIT_RES
  <2>3. Going(c)'
    BY <1>7, FunctionTypes DEF ConfirmBlock, Going, CanGoOn, Has
  <2>. QED BY <2>1, <2>2, <2>3 DEF Safe
<1>8. CASE FinishBlockRead(c)
  <2>1. Elsewhere(c)
    BY <1>8, FunctionTypes DEF FinishBlockRead, Elsewhere
  <2>2. Bounded(c)'
    BY <1>8, <1>c, FunctionTypes DEF FinishBlockRead, Bounded, Has, READY
  <2>3. Going(c)'
    BY <1>8, FunctionTypes DEF FinishBlockRead, Going, CanGoOn, Has
  <2>. QED BY <2>1, <2>2, <2>3 DEF Safe
<1>9. CASE Pass(c)
  BY <1>9, FunctionTypes DEF Pass, Safe, Elsewhere, Bounded, Going, CanGoOn, Has
<1>. QED BY <1>1, <1>2, <1>3, <1>4, <1>5, <1>6, <1>7, <1>8, <1>9
         DEF MGR_SDOHandleClient, Proceed
-----------------------------------------------------------------------------
(* Every call that starts a transfer leaves the channel waiting for its    *)
(* answer, inside the buffer it was given.                                 *)
LEMMA StartWriteIsSafe ==
  ASSUME TypeOK, NEW c \in Channels, NEW m, NEW p, NEW len, NEW cur \in Nat,
         StartWrite(c, m, p, len, cur),
         bufmax' \in [Channels -> Nat], buflen' \in [Channels -> Nat],
         cur > bufmax'[c] => cur <= 4, buflen'[c] <= bufmax'[c],
         \A d \in Channels \ {c} : buflen'[d] = buflen[d] /\ bufmax'[d] = bufmax[d]
  PROVE  Safe(c)
<1>. USE DEF Set
<1>1. \E st \in StatusByte : \E n \in {0, cur} :
        /\ status' = [status EXCEPT ![c] = st]
        /\ curlen' = [curlen EXCEPT ![c] = n]
        /\ pending' = [pending EXCEPT ![c] = TRUE]
        /\ WAIT_RES \subseteq st
        /\ SEGMENTED \subseteq st => n = 0
  <2>1. CASE StartExpeditedWrite(c, m, p, len, cur)
    <3>1. /\ READY \union WAIT_RES \in StatusByte
          /\ ~(SEGMENTED \subseteq READY \union WAIT_RES)
      BY DEF READY, WAIT_RES, SEGMENTED, StatusByte
    <3>. QED BY <2>1, <3>1 DEF StartExpeditedWrite, StartWrite, Called
  <2>2. ASSUME NEW cs, NEW st \in StatusByte, StartLongWrite(c, m, cs, len, st)
        PROVE  \E t \in StatusByte : \E n \in {0, cur} :
                 /\ status' = [status EXCEPT ![c] = t]
                 /\ curlen' = [curlen EXCEPT ![c] = n]
                 /\ pending' = [pending EXCEPT ![c] = TRUE]
                 /\ WAIT_RES \subseteq t
                 /\ SEGMENTED \subseteq t => n = 0
    <3>1. st \union WAIT_RES \in StatusByte
      BY DEF WAIT_RES, StatusByte
    <3>. QED BY <2>2, <3>1 DEF StartLongWrite, ResetProgress, StartWrite, Called
  <2>3. BLOCK_INITWR \in StatusByte /\ READY \union SEGMENTED \in StatusByte
    BY DEF BLOCK_INITWR, READY, SEGMENTED, StatusByte
  <2>. QED BY <2>1, <2>2, <2>3 DEF StartWrite
<1>2. PICK st \in StatusByte, n \in {0, cur} :
        /\ status' = [status EXCEPT ![c] = st]
        /\ curlen' = [curlen EXCEPT ![c] = n]
        /\ pending' = [pending EXCEPT ![c] = TRUE]
        /\ WAIT_RES \subseteq st
        /\ SEGMENTED \subseteq st => n = 0
  BY <1>1
<1>3. Elsewhere(c)
  BY <1>2, FunctionTypes DEF Elsewhere
<1>4. Bounded(c)'
  BY <1>2, FunctionTypes DEF Bounded, Has
<1>5. Going(c)'
  BY <1>2, FunctionTypes DEF Going, CanGoOn, Has
<1>. QED BY <1>3, <1>4, <1>5 DEF Safe

LEMMA StartReadIsSafe ==
  ASSUME TypeOK, NEW c \in Channels, NEW m, NEW max, StartRead(c, m, max),
         bufmax' \in [Channels -> Nat], buflen' \in [Channels -> Nat],
         buflen'[c] <= bufmax'[c],
         \A d \in Channels \ {c} : buflen'[d] = buflen[d] /\ bufmax'[d] = bufmax[d]
  PROVE  Safe(c)
<1>. USE DEF Set
<1>1. /\ status' = [status EXCEPT ![c] = BLOCK_INITRD \union WAIT_RES]
      /\ curlen' = [curlen EXCEPT ![c] = 0]
      /\ pending' = [pending EXCEPT ![c] = TRUE]
  BY DEF StartRead, Called, ResetProgress
<1>2. Elsewhere(c)
  BY <1>1, FunctionTypes DEF Elsewhere
<1>3. Bounded(c)'
  BY <1>1, FunctionTypes DEF Bounded, Has, SEGMENTED, BLOCK_INITRD, WAIT_RES
<1>4. Going(c)'
  BY <1>1, FunctionTypes DEF Going, CanGoOn, Has
<1>. QED BY <1>2, <1>3, <1>4 DEF Safe

LEMMA NewBuffer ==
  ASSUME TypeOK, NEW c \in Channels, NEW src, NEW size \in Nat, UseBuffer(c, src, size)
  PROVE  /\ bufmax' \in [Channels -> Nat] /\ buflen' \in [Channels -> Nat]
         /\ 0 <= bufmax'[c] /\ buflen'[c] <= bufmax'[c]
         /\ \A d \in Channels \ {c} : buflen'[d] = buflen[d] /\ bufmax'[d] = bufmax[d]
  BY FunctionTypes DEF UseBuffer, Set

LEMMA AppCallIsSafe ==
  ASSUME TypeOK, NEW c \in Channels, Bounded(c), AppCall(c)
  PROVE  Safe(c)
<1>. USE ClientAssumption DEF buffer
<1>c. /\ bufmax[c] \in Nat /\ buflen[c] \in Nat /\ curlen[c] \in Nat
      /\ buflen[c] <= bufmax[c] /\ (curlen[c] > bufmax[c] => curlen[c] <= 4)
  BY ChannelType DEF Bounded
<1>1. ASSUME NEW src \in Data, NEW size \in Sizes, SDOCLNT_Init(c, src, size)
      PROVE  Safe(c)
  <2>1. /\ status' = [status EXCEPT ![c] = READY]
        /\ curlen' = [curlen EXCEPT ![c] = 0]
        /\ pending' = [pending EXCEPT ![c] = FALSE]
        /\ UseBuffer(c, src, size)
    BY <1>1 DEF SDOCLNT_Init, Called, Set
  <2>2. Elsewhere(c)
    BY <2>1, NewBuffer, FunctionTypes DEF Elsewhere
  <2>3. Bounded(c)'
    BY <2>1, NewBuffer, FunctionTypes DEF Bounded, Has, READY, SEGMENTED
  <2>4. Going(c)'
    BY <2>1, FunctionTypes DEF Going
  <2>. QED BY <2>2, <2>3, <2>4 DEF Safe
<1>2. ASSUME NEW m \in Muxes, SDOCLNT_Write(c, m) PROVE Safe(c)
  <2>1. UNCHANGED <<bufmax, buflen>>
    BY <1>2 DEF SDOCLNT_Write
  <2>. QED BY <1>2, <1>c, <2>1, StartWriteIsSafe, FunctionTypes DEF SDOCLNT_Write
<1>3. ASSUME NEW m \in Muxes, SDOCLNT_Read(c, m) PROVE Safe(c)
  <2>1. UNCHANGED <<bufmax, buflen>>
    BY <1>3 DEF SDOCLNT_Read
  <2>. QED BY <1>3, <1>c, <2>1, StartReadIsSafe, FunctionTypes DEF SDOCLNT_Read
<1>4. ASSUME NEW m \in Muxes, NEW src \in Data, NEW size \in Sizes,
             SDOCLNT_WriteXtd(c, m, src, size) \/ WriteRemoteODExtended(c, m, src, size)
      PROVE  Safe(c)
  BY <1>4, NewBuffer, StartWriteIsSafe DEF SDOCLNT_WriteXtd, WriteRemoteODExtended
<1>5. ASSUME NEW m \in Muxes, NEW size \in Sizes,
             SDOCLNT_ReadXtd(c, m, size) \/ ReadRemoteODExtended(c, m, size)
      PROVE  Safe(c)
  BY <1>5, NewBuffer, StartReadIsSafe DEF SDOCLNT_ReadXtd, ReadRemoteODExtended
<1>6. CASE SDOCLNT_AbortTransfer(c, "SDO_ABORT_GENERAL")
  BY <1>6, FailIsSafe DEF SDOCLNT_AbortTransfer, Set
<1>. QED BY <1>1, <1>2, <1>3, <1>4, <1>5, <1>6 DEF AppCall

-----------------------------------------------------------------------------
SafeInv == TypeOK /\ \A c \in Channels : Bounded(c) /\ Going(c)

LEMMA InitIsSafe == OpenInit => SafeInv
<1>. SUFFICES ASSUME OpenInit PROVE \A c \in Channels : Bounded(c) /\ Going(c)
  BY OpenInitType DEF SafeInv
<1>. QED BY DEF OpenInit, Init, Bounded, Going, Has, FREE, SEGMENTED

LEMMA NextIsSafe == SafeInv /\ [OpenNext]_openVars => SafeInv'
<1>. SUFFICES ASSUME SafeInv, [OpenNext]_openVars
              PROVE  \A c \in Channels : Bounded(c)' /\ Going(c)'
  BY OpenNextType DEF SafeInv
<1>1. ASSUME NEW c \in Channels, Respond(c)
      PROVE  \A d \in Channels : Bounded(d)' /\ Going(d)'
  <2>1. Safe(c)
    BY <1>1, OpenAssumption, ResponseIsSafe DEF Respond, SafeInv
  <2>. QED BY <2>1, OthersKept DEF Safe, SafeInv
<1>2. ASSUME NEW c \in Channels, AppCall(c)
      PROVE  \A d \in Channels : Bounded(d)' /\ Going(d)'
  BY <1>2, AppCallIsSafe, OthersKept DEF Safe, SafeInv
<1>3. ASSUME NEW c \in Channels, MGR_SDOHandleClient(c)
      PROVE  \A d \in Channels : Bounded(d)' /\ Going(d)'
  BY <1>3, TurnIsSafe, OthersKept DEF Safe, SafeInv
<1>4. CASE UNCHANGED openVars
  BY <1>4 DEF openVars, clientVars, buffer, progress, history, SafeInv, Bounded, Going,
              CanGoOn, Has
<1>. QED BY <1>1, <1>2, <1>3, <1>4 DEF OpenNext

(* Whatever the application calls and whatever the node answers, no        *)
(* channel ever counts more bytes than its buffer holds, unless they are   *)
(* the 1 to 4 of an expedited answer, and a segmented transfer that runs   *)
(* never counts beyond its length.                                         *)
THEOREM CountsStayWithinBuffer == OpenSpec => []CountsWithinBuffer
<1>1. SafeInv => CountsWithinBuffer
  BY BoundedIsCounts DEF SafeInv
<1>. QED BY <1>1, InitIsSafe, NextIsSafe, PTL DEF OpenSpec

(* Whatever the node answers, a transfer that is not reported has a frame  *)
(* to send, a result to report or a running timer, except the block write  *)
(* that was told to go on after its last byte.                             *)
THEOREM TransfersStallInOneWay == OpenSpec => []OnlyOneStall
<1>1. SafeInv => OnlyOneStall
  BY GoingIsOnlyOneStall DEF SafeInv
<1>. QED BY <1>1, InitIsSafe, NextIsSafe, PTL DEF OpenSpec
-----------------------------------------------------------------------------
(* What is in a channel's message buffer names the entry of the channel's  *)
(* request or none, and so does every frame sent: SDOCLNT_SendSDOAbort     *)
(* takes it from that buffer.                                              *)
Named(c) == sdomsg[c].mux \in {mux[c], NoMux}
SentNamed == /\ out.ch \in Channels
             /\ \A i \in DOMAIN out.tx : out.tx[i].mux \in {mux[out.ch], NoMux}
NamesInv == TypeOK /\ (\A c \in Channels : Named(c)) /\ SentNamed

(* A step of channel c that starts no request: what it stores and sends    *)
(* names the entry its message buffer names, or none.                      *)
NamesKept(c) ==
  /\ UNCHANGED mux
  /\ \E g : sdomsg' = [sdomsg EXCEPT ![c] = g] /\ g.mux \in {sdomsg[c].mux, NoMux}
  /\ out'.ch = c
  /\ \A i \in DOMAIN out'.tx : out'.tx[i].mux \in {sdomsg[c].mux, NoMux}
NamesNew(c, m) ==
  /\ mux' = [mux EXCEPT ![c] = m]
  /\ \E g : sdomsg' = [sdomsg EXCEPT ![c] = g] /\ g.mux = m
  /\ out'.ch = c
  /\ \A i \in DOMAIN out'.tx : out'.tx[i].mux = m
Names(c) == NamesKept(c) \/ \E m \in Muxes : NamesNew(c, m)

LEMMA MessageTypes ==
  ASSUME TypeOK
  PROVE  sdomsg \in [Channels -> Frame] /\ mux \in [Channels -> Muxes]
  BY DEF TypeOK, RequestType

LEMMA NamesStay ==
  ASSUME NamesInv, NEW c \in Channels, Names(c)
  PROVE  (\A d \in Channels : Named(d)') /\ SentNamed'
<1>1. sdomsg \in [Channels -> Frame] /\ mux \in [Channels -> Muxes] /\ Named(c)
  BY MessageTypes DEF NamesInv
<1>2. CASE NamesKept(c)
  <2>1. PICK g : sdomsg' = [sdomsg EXCEPT ![c] = g] /\ g.mux \in {sdomsg[c].mux, NoMux}
    BY <1>2 DEF NamesKept
  <2>2. ASSUME NEW d \in Channels PROVE Named(d)'
    <3>1. mux'[d] = mux[d] /\ Named(d)
      BY <1>2 DEF NamesKept, NamesInv
    <3>2. sdomsg'[d] = IF d = c THEN g ELSE sdomsg[d]
      BY <1>1, <2>1
    <3>. QED BY <1>1, <2>1, <3>1, <3>2 DEF Named
  <2>3. SentNamed'
    BY <1>1, <1>2 DEF NamesKept, SentNamed, Named
  <2>. QED BY <2>2, <2>3
<1>3. ASSUME NEW m \in Muxes, NamesNew(c, m)
      PROVE  (\A d \in Channels : Named(d)') /\ SentNamed'
  <2>1. PICK g : sdomsg' = [sdomsg EXCEPT ![c] = g] /\ g.mux = m
    BY <1>3 DEF NamesNew
  <2>2. mux' = [mux EXCEPT ![c] = m]
    BY <1>3 DEF NamesNew
  <2>3. ASSUME NEW d \in Channels PROVE Named(d)'
    <3>1. sdomsg'[d] = (IF d = c THEN g ELSE sdomsg[d]) /\ Named(d)
      BY <1>1, <2>1 DEF NamesInv
    <3>2. mux'[d] = IF d = c THEN m ELSE mux[d]
      BY <1>1, <2>2
    <3>. QED BY <2>1, <3>1, <3>2 DEF Named
  <2>4. SentNamed'
    <3>1. out'.ch = c /\ mux'[c] = m /\ \A i \in DOMAIN out'.tx : out'.tx[i].mux = m
      BY <1>1, <1>3, <2>2 DEF NamesNew
    <3>. QED BY <3>1 DEF SentNamed
  <2>. QED BY <2>3, <2>4
<1>. QED BY <1>2, <1>3 DEF Names

(* The ways the handlers store and send.                                   *)
LEMMA NothingSent == DOMAIN <<>> = {}
  OBVIOUS

LEMMA QuietNames ==
  ASSUME TypeOK, NEW c \in Channels, UNCHANGED <<mux, sdomsg>>,
         Silent(c) \/ \E code : Complete(c, code, <<>>)
  PROVE  NamesKept(c)
<1>1. out'.ch = c /\ out'.tx = <<>>
  <2>1. CASE Silent(c)
    BY <2>1 DEF Silent, Out
  <2>2. ASSUME NEW code, Complete(c, code, <<>>) PROVE out'.ch = c /\ out'.tx = <<>>
    BY <2>2 DEF Complete, Out
  <2>. QED BY <2>1, <2>2
<1>2. sdomsg' = [sdomsg EXCEPT ![c] = sdomsg[c]]
  BY MessageTypes
<1>3. \A i \in DOMAIN out'.tx : out'.tx[i].mux \in {sdomsg[c].mux, NoMux}
  BY <1>1, NothingSent
<1>4. \E g : sdomsg' = [sdomsg EXCEPT ![c] = g] /\ g.mux \in {sdomsg[c].mux, NoMux}
  BY <1>2
<1>. QED BY <1>1, <1>3, <1>4 DEF NamesKept

LEMMA StoredNames ==
  ASSUME TypeOK, NEW c \in Channels, NEW g, UNCHANGED mux,
         sdomsg' = [sdomsg EXCEPT ![c] = g], g.mux \in {sdomsg[c].mux, NoMux},
         Silent(c) \/ Send(c, g) \/ \E code : Complete(c, code, <<g>>)
  PROVE  NamesKept(c)
<1>1. out'.ch = c /\ (out'.tx = <<>> \/ out'.tx = <<g>>)
  <2>1. CASE Silent(c)
    BY <2>1 DEF Silent, Out
  <2>2. CASE Send(c, g)
    BY <2>2 DEF Send, Out
  <2>3. ASSUME NEW code, Complete(c, code, <<g>>) PROVE out'.ch = c /\ out'.tx = <<g>>
    BY <2>3 DEF Complete, Out
  <2>. QED BY <2>1, <2>2, <2>3
<1>2. \A i \in DOMAIN out'.tx : out'.tx[i] = g
  BY <1>1
<1>. QED BY <1>1, <1>2 DEF NamesKept

LEMMA FailNames ==
  ASSUME TypeOK, NEW c \in Channels, NEW code, Fail(c, code), UNCHANGED mux
  PROVE  NamesKept(c)
<1>1. AbortFrame(c).mux = sdomsg[c].mux
  BY DEF AbortFrame, SdoFrame
<1>. QED BY <1>1, StoredNames DEF Fail, Set

LEMMA RequestNames ==
  ASSUME NEW c \in Channels, NEW m \in Muxes, NEW cs, NEW arg, NEW data,
         Request(c, m, cs, arg, data)
  PROVE  NamesNew(c, m)
<1>1. SdoFrame(cs, m, arg, data).mux = m
  BY DEF SdoFrame
<1>2. out'.ch = c /\ out'.tx = <<SdoFrame(cs, m, arg, data)>>
  BY DEF Request, Out
<1>3. \A i \in DOMAIN out'.tx : out'.tx[i] = SdoFrame(cs, m, arg, data)
  BY <1>2
<1>. QED BY <1>1, <1>2, <1>3 DEF Request, Set, NamesNew

LEMMA ResponseNames ==
  ASSUME TypeOK, NEW c \in Channels, NEW f \in Frame, MGR_HandleSDOClientResponse(c, f)
  PROVE  NamesKept(c)
<1>. USE DEF progress
<1>1. CASE \/ RecvBlockSegment(c, f) \/ RecvBlockReadEnd(c, f) \/ RecvBlockWriteInit(c, f)
           \/ RecvBlockAck(c, f) \/ RecvBlockWriteEnd(c, f)
  <2>1. Silent(c) /\ UNCHANGED <<mux, sdomsg>>
    BY <1>1 DEF RecvBlockSegment, RecvBlockReadEnd, RecvBlockWriteInit, RecvBlockAck,
                RecvBlockWriteEnd
  <2>. QED BY <2>1, QuietNames
<1>2. CASE RecvAbort(c, f) \/ RecvExpedited(c, f)
  <2>1. (\E code : Complete(c, code, <<>>)) /\ UNCHANGED <<mux, sdomsg>>
    BY <1>2 DEF RecvAbort, RecvExpedited
  <2>. QED BY <2>1, QuietNames
<1>3. CASE RecvOtherEntry(c, f) \/ RecvUnknown(c, f)
  BY <1>3, FailNames DEF RecvOtherEntry, RecvUnknown
<1>4. CASE RecvBlockReadInit(c, f)
  <2>1. CASE f.arg <= bufmax[c]
    BY <1>4, <2>1, QuietNames DEF RecvBlockReadInit
  <2>2. CASE ~(f.arg <= bufmax[c])
    BY <1>4, <2>2, FailNames DEF RecvBlockReadInit
  <2>. QED BY <2>1, <2>2
<1>5. CASE RecvDownloadAck(c, f)
  <2>1. UNCHANGED mux
    BY <1>5 DEF RecvDownloadAck
  <2>2. CASE Complete(c, "SDOERR_OK", <<>>) /\ UNCHANGED sdomsg
    BY <2>1, <2>2, QuietNames
  <2>3. CASE Fail(c, "SDOERR_TOGGLE")
    BY <2>1, <2>3, FailNames
  <2>4. CASE PrepareSegment(c)
    <3>1. PICK cs, data : sdomsg' = [sdomsg EXCEPT ![c] = SdoFrame(cs, NoMux, 0, data)]
      BY <2>4 DEF PrepareSegment, Set
    <3>2. Silent(c)
      BY <2>4, SMTT(30) DEF PrepareSegment
    <3>3. SdoFrame(cs, NoMux, 0, data).mux = NoMux
      BY DEF SdoFrame
    <3>. QED BY <2>1, <3>1, <3>2, <3>3, StoredNames
  <2>. QED BY <1>5, <2>2, <2>3, <2>4 DEF RecvDownloadAck
<1>6. CASE RecvUploadInit(c, f)
  <2>1. /\ Silent(c) /\ UNCHANGED mux
        /\ sdomsg' = [sdomsg EXCEPT ![c] = SdoFrame(\h60, NoMux, 0, NoChunk)]
    BY <1>6 DEF RecvUploadInit, Set
  <2>2. SdoFrame(\h60, NoMux, 0, NoChunk).mux = NoMux
    BY DEF SdoFrame
  <2>. QED BY <2>1, <2>2, StoredNames
<1>7. CASE RecvUploadSegment(c, f)
  <2>1. UNCHANGED mux
    BY <1>7 DEF RecvUploadSegment
  <2>2. CASE UploadSegmentTaken(c, f)
    <3>1. CASE LastSegment(f.cs)
      BY <2>1, <2>2, <3>1, QuietNames DEF UploadSegmentTaken
    <3>2. CASE ~LastSegment(f.cs)
      <4>1. PICK g : g = ToggledFrame(c, FlipToggle(toggle[c]))
        OBVIOUS
      <4>2. Silent(c) /\ sdomsg' = [sdomsg EXCEPT ![c] = g] /\ g.mux = sdomsg[c].mux
        BY <2>2, <3>2, <4>1 DEF UploadSegmentTaken, Set, ToggledFrame, SdoFrame
      <4>. QED BY <2>1, <4>2, StoredNames
    <3>. QED BY <3>1, <3>2
  <2>3. CASE \E code : Fail(c, code)
    BY <2>1, <2>3, FailNames
  <2>. QED BY <1>7, <2>2, <2>3 DEF RecvUploadSegment
<1>. QED BY <1>1, <1>2, <1>3, <1>4, <1>5, <1>6, <1>7 DEF MGR_HandleSDOClientResponse

LEMMA TurnNames ==
  ASSUME TypeOK, NEW c \in Channels, MGR_SDOHandleClient(c)
  PROVE  NamesKept(c)
<1>. USE DEF progress
<1>1. CASE Timeout(c)
  BY <1>1, FailNames DEF Timeout
<1>2. CASE SendNext(c)
  <2>1. sdomsg' = [sdomsg EXCEPT ![c] = sdomsg[c]]
    BY <1>2, MessageTypes DEF SendNext
  <2>. QED BY <1>2, <2>1, StoredNames DEF SendNext
<1>3. CASE SendBlockSegment(c)
  <2> DEFINE left == buflen[c] - curlen[c]
             len == IF left > 7 THEN 7 ELSE left
             tog == (toggle[c] + 1) % 256
             cs == IF len = left /\ tog < 128 THEN tog + 128 ELSE tog
             g == SdoFrame(cs, NoMux, 0, Slice(pBuf[c].src, pBuf[c].off, len))
  <2>1. sdomsg' = [sdomsg EXCEPT ![c] = g] /\ Send(c, g) /\ UNCHANGED mux
    BY <1>3, Zenon DEF SendBlockSegment, Set
  <2>2. g.mux = NoMux
    BY DEF SdoFrame
  <2>. HIDE DEF g
  <2>. QED BY <2>1, <2>2, StoredNames
<1>4. ASSUME NEW cs, NEW arg, NEW st, Command(c, cs, arg, st),
             \/ Send(c, SdoFrame(cs, NoMux, arg, NoChunk))
             \/ Complete(c, "SDOERR_OK", <<SdoFrame(cs, NoMux, arg, NoChunk)>>)
      PROVE  NamesKept(c)
  <2>1. /\ sdomsg' = [sdomsg EXCEPT ![c] = SdoFrame(cs, NoMux, arg, NoChunk)]
        /\ UNCHANGED mux /\ SdoFrame(cs, NoMux, arg, NoChunk).mux = NoMux
    BY <1>4 DEF Command, Set, SdoFrame
  <2>. QED BY <1>4, <2>1, StoredNames
<1>5. CASE ConfirmBlockWrite(c) \/ StartBlockRead(c) \/ ConfirmBlock(c) \/ FinishBlockRead(c)
  BY <1>4, <1>5 DEF ConfirmBlockWrite, StartBlockRead, ConfirmBlock, FinishBlockRead
<1>6. CASE FinishBlockWrite(c) \/ Pass(c)
  BY <1>6, QuietNames DEF FinishBlockWrite, Pass
<1>. QED BY <1>1, <1>2, <1>3, <1>5, <1>6 DEF MGR_SDOHandleClient, Proceed

LEMMA AppCallNames ==
  ASSUME TypeOK, NEW c \in Channels, AppCall(c)
  PROVE  Names(c)
<1>1. ASSUME NEW src, NEW size, SDOCLNT_Init(c, src, size) PROVE Names(c)
  <2>1. /\ UNCHANGED mux /\ sdomsg' = [sdomsg EXCEPT ![c] = sdomsg[c]]
        /\ out'.ch = c /\ out'.tx = <<>>
    BY <1>1, MessageTypes DEF SDOCLNT_Init, Out
  <2>2. \A i \in DOMAIN out'.tx : out'.tx[i].mux \in {sdomsg[c].mux, NoMux}
    BY <2>1, NothingSent
  <2>3. \E g : sdomsg' = [sdomsg EXCEPT ![c] = g] /\ g.mux \in {sdomsg[c].mux, NoMux}
    BY <2>1
  <2>. QED BY <2>1, <2>2, <2>3 DEF Names, NamesKept
<1>2. ASSUME NEW m \in Muxes, NEW p, NEW len, NEW cur, StartWrite(c, m, p, len, cur)
      PROVE  Names(c)
  <2>1. \E cs, arg, data : Request(c, m, cs, arg, data)
    BY <1>2 DEF StartWrite, StartExpeditedWrite, StartLongWrite
  <2>. QED BY <2>1, RequestNames DEF Names
<1>3. ASSUME NEW m \in Muxes, NEW max, StartRead(c, m, max) PROVE Names(c)
  <2>1. \E cs, arg, data : Request(c, m, cs, arg, data)
    BY <1>3 DEF StartRead
  <2>. QED BY <2>1, RequestNames DEF Names
<1>4. CASE SDOCLNT_AbortTransfer(c, "SDO_ABORT_GENERAL")
  BY <1>4, FailNames DEF SDOCLNT_AbortTransfer, Names
<1>. QED BY <1>1, <1>2, <1>3, <1>4 DEF AppCall, SDOCLNT_Write, SDOCLNT_Read,
            SDOCLNT_WriteXtd, SDOCLNT_ReadXtd, WriteRemoteODExtended, ReadRemoteODExtended

LEMMA InitNames == OpenInit => NamesInv
<1>. SUFFICES ASSUME OpenInit PROVE (\A c \in Channels : Named(c)) /\ SentNamed
  BY OpenInitType DEF NamesInv
<1>1. \A c \in Channels : sdomsg[c].mux = NoMux
  BY DEF OpenInit, Init, SdoFrame
<1>2. SentNamed
  BY ClientAssumption DEF OpenInit, Init, Start, SentNamed, Channels
<1>. QED BY <1>1, <1>2 DEF Named

LEMMA NextNames == NamesInv /\ [OpenNext]_openVars => NamesInv'
<1>. SUFFICES ASSUME NamesInv, [OpenNext]_openVars
              PROVE  (\A c \in Channels : Named(c)') /\ SentNamed'
  BY OpenNextType DEF NamesInv
<1>1. TypeOK
  BY DEF NamesInv
<1>2. ASSUME NEW c \in Channels, Respond(c)
      PROVE  (\A d \in Channels : Named(d)') /\ SentNamed'
  BY <1>1, <1>2, OpenAssumption, ResponseNames, NamesStay DEF Respond, Names
<1>3. ASSUME NEW c \in Channels, AppCall(c)
      PROVE  (\A d \in Channels : Named(d)') /\ SentNamed'
  BY <1>1, <1>3, AppCallNames, NamesStay
<1>4. ASSUME NEW c \in Channels, MGR_SDOHandleClient(c)
      PROVE  (\A d \in Channels : Named(d)') /\ SentNamed'
  BY <1>1, <1>4, TurnNames, NamesStay DEF Names
<1>5. CASE UNCHANGED openVars
  BY <1>5 DEF openVars, clientVars, NamesInv, Named, SentNamed
<1>. QED BY <1>2, <1>3, <1>4, <1>5 DEF OpenNext

(* Whatever the node answers and whenever it does, an SDO abort names the  *)
(* entry of the channel's own request or carries segment data in its       *)
(* place, never the entry of another transfer.                             *)
THEOREM AbortsNameOwnEntry == OpenSpec => []AbortNamesEntry
<1>1. NamesInv => AbortNamesEntry
  BY DEF NamesInv, SentNamed, AbortNamesEntry
<1>. QED BY <1>1, InitNames, NextNames, PTL DEF OpenSpec
=============================================================================
