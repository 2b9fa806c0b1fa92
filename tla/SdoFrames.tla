----------------------------- MODULE SdoFrames -----------------------------
(***************************************************************************)
(* The vocabulary of the SDO client: the bits of the channel status byte,  *)
(* the first byte (command specifier) of the 8-byte SDO frames and the     *)
(* masks the client applies to it, and the result codes.                   *)
(*                                                                         *)
(* A status is the SET of the bit positions that are 1, so "|=", "&= ~"    *)
(* and the additions the code makes are set operations.  A frame keeps its *)
(* first byte as a number 0..255, because the client tells frames apart    *)
(* with masks that overlap; the other seven bytes are abstracted to the    *)
(* fields some handler reads.  The data a frame carries is a Chunk: bytes  *)
(* lo .. hi-1 of a named content, never the bytes themselves.              *)
(***************************************************************************)
EXTENDS Integers, Sequences

CONSTANTS Muxes,   \* object dictionary entries (index, subindex) in use
          NoMux,   \* bytes 1..3 of a frame that hold something else
          Data,    \* names of contents a buffer or an object can hold
          NoData   \* "no content": a frame without data, an untouched buffer

ASSUME MuxAssumption == Muxes # {} /\ NoMux \notin Muxes
ASSUME DataAssumption == Data # {} /\ NoData \notin Data

(* Status flags SDOCL_*.                                                   *)
FREE     == {}
READY    == {0}
WAIT_RES == {1}
NEXT_UPL == {2}
NEXT_DWN == {3}
LAST_SEG == {4}
SEGMENTED == {7}
BLOCK_INITWR == {5}
BLOCK_WRITE  == {4, 5}
BLOCK_WRCONF == {6}
BLOCK_WRFINA == {0, 6}
BLOCK_INITRD == {4, 6}
BLOCK_READ   == {5, 6}
BLOCK_RDCONF == {4, 5, 6}
BLOCK_RDFINA == {0, 4, 5, 6}

StatusByte == SUBSET (0 .. 7)
Byte == 0 .. 255

(* Result codes: the status codes SDOERR_* and, because some calls pass a  *)
(* CiA 301 abort code where others pass a status code, SDO_ABORT_*.        *)
ErrCodes == {"SDOERR_OK", "SDOERR_ABORT", "SDOERR_TIMEOUT", "SDOERR_TOGGLE",
             "SDOERR_BUFSIZE", "SDOERR_PARAM", "SDOERR_UNKNOWN"}
AbortCodes == {"SDO_ABORT_NOMEM", "SDO_ABORT_GENERAL"}
Codes == ErrCodes \union AbortCodes

Chunk == [src : Data \union {NoData}, lo : Nat, hi : Int]
Slice(src, lo, len) == [src |-> src, lo |-> lo, hi |-> lo + len]
NoChunk == Slice(NoData, 0, 0)

Frame == [cs : Byte, mux : Muxes \union {NoMux}, arg : Nat, data : Chunk]
SdoFrame(cs, mux, arg, data) ==
  [cs |-> cs, mux |-> mux, arg |-> arg, data |-> data]

(* The masks of the response handler.                                      *)
IsBlockReadInit(cs)  == cs \in {\hC0, \hC2, \hC4, \hC6}   \* (cs & 0xF9) == 0xC0
IsBlockReadEnd(cs)   == cs >= \hC0 /\ cs < \hE0 /\ cs % 4 = 1 \* & 0xE3 == 0xC1
IsBlockWriteInit(cs) == cs = \hA0
IsBlockAck(cs)       == cs = \hA2
IsBlockWriteEnd(cs)  == cs = \hA1
IsAbort(cs)          == cs = \h80
IsDownloadAck(cs)    == cs \in {\h60, \h20, \h30}
IsExpedited(cs)      == cs \in {\h43, \h47, \h4B, \h4F}   \* (cs & 0xF3) == 0x43
IsUploadInit(cs)     == cs \in {\h40, \h41}
IsUploadSegment(cs)  == cs < \h20                         \* (cs & 0xE0) == 0
CarriesMux(cs)       == cs = \h60 \/ cs \div 16 = 4       \* (cs & 0xF0) == 0x40
IsKnown(cs) == \/ IsBlockReadInit(cs) \/ IsBlockReadEnd(cs)
               \/ IsBlockWriteInit(cs) \/ IsBlockAck(cs) \/ IsBlockWriteEnd(cs)
               \/ IsAbort(cs) \/ IsDownloadAck(cs) \/ IsExpedited(cs)
               \/ IsUploadInit(cs) \/ IsUploadSegment(cs)

ToggleBit(cs)    == 16 * ((cs \div 16) % 2)     \* cs & 0x10
LastSegment(cs)  == cs % 2 = 1                  \* cs & 0x01
SegmentLen(cs)   == 7 - ((cs \div 2) % 8)       \* 7 - ((cs & 0x0E) >> 1)
UnusedLen(cs)    == (cs \div 4) % 4             \* mutant
ExpeditedLen(cs) == 4 - ((cs \div 4) % 4)       \* 4 - ((cs >> 2) & 0x03)
SeqNo(cs)        == cs % 128                    \* cs & 0x7F
LastOfBlock(cs)  == cs >= 128                   \* cs & 0x80
FlipToggle(t)    == IF t = 0 THEN 16 ELSE 0
PutToggle(cs, t) == cs - ToggleBit(cs) + t      \* |= 0x10, &= 0xEF

(***************************************************************************)
(* What a buffer or an object holds: the content its bytes come from, how  *)
(* many of them, and whether every byte is in its place.  Place puts the   *)
(* first len bytes of a chunk at offset "at".                              *)
(***************************************************************************)
Content == [src : Data \union {NoData}, len : Int, good : BOOLEAN]
Empty == [src |-> NoData, len |-> 0, good |-> TRUE]
Whole(src, len) == [src |-> src, len |-> len, good |-> TRUE]
Place(old, at, chunk, len) ==
  [src  |-> chunk.src,
   len  |-> at + len,
   good |-> /\ chunk.lo = at
            /\ len <= chunk.hi - chunk.lo
            /\ at = 0 \/ (old.good /\ old.src = chunk.src /\ old.len = at)]
=============================================================================
