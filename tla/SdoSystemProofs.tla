-------------------------- MODULE SdoSystemProofs --------------------------
(***************************************************************************)
(* The client with its link and nodes implements SdoService as long as     *)
(* answers come in time, for any number of channels, buffers and objects   *)
(* of any size and any number of lost frames.  The invariant is Exchange:  *)
(* every channel is in one of the phases of SdoExchange.  A step touches   *)
(* one channel (Touches) and takes it from its phase to another; what the  *)
(* service sees of the step is an Effect.                                  *)
(***************************************************************************)
EXTENDS SdoExchange, SequenceFacts

(* Every variable is a function on the channels.                           *)
Shaped ==
  /\ DOMAIN status = Channels /\ DOMAIN bufmax = Channels /\ DOMAIN buflen = Channels
  /\ DOMAIN curlen = Channels /\ DOMAIN pBuf = Channels /\ DOMAIN toggle = Channels
  /\ DOMAIN blksize = Channels /\ DOMAIN unused = Channels /\ DOMAIN mux = Channels
  /\ DOMAIN lastAbort = Channels /\ DOMAIN sdomsg = Channels /\ DOMAIN pending = Channels
  /\ DOMAIN got = Channels /\ DOMAIN calls = Channels /\ DOMAIN job = Channels
  /\ DOMAIN req = Channels /\ DOMAIN resp = Channels /\ DOMAIN node = Channels
  /\ DOMAIN object = Channels

(* A step of channel c leaves the other channels alone.                    *)
Touches(c) ==
  /\ Shaped'
  /\ lost \in Nat => lost' \in Nat /\ lost' >= lost
  /\ \A d \in Channels \ {c} :
       /\ status'[d] = status[d] /\ bufmax'[d] = bufmax[d] /\ buflen'[d] = buflen[d]
       /\ curlen'[d] = curlen[d] /\ pBuf'[d] = pBuf[d] /\ toggle'[d] = toggle[d]
       /\ blksize'[d] = blksize[d] /\ unused'[d] = unused[d] /\ mux'[d] = mux[d]
       /\ lastAbort'[d] = lastAbort[d] /\ sdomsg'[d] = sdomsg[d]
       /\ pending'[d] = pending[d] /\ got'[d] = got[d] /\ calls'[d] = calls[d]
       /\ job'[d] = job[d] /\ req'[d] = req[d] /\ resp'[d] = resp[d]
       /\ node'[d] = node[d] /\ object'[d] = object[d]

(* What a step of the client, of the link or of the node leaves alone.     *)
WorldKept == UNCHANGED <<mux, calls, job, node, object, lost>>
ClientTouches(c) ==
  /\ DOMAIN status' = Channels /\ DOMAIN bufmax' = Channels /\ DOMAIN buflen' = Channels
  /\ DOMAIN curlen' = Channels /\ DOMAIN pBuf' = Channels /\ DOMAIN toggle' = Channels
  /\ DOMAIN blksize' = Channels /\ DOMAIN unused' = Channels
  /\ DOMAIN lastAbort' = Channels /\ DOMAIN sdomsg' = Channels
  /\ DOMAIN pending' = Channels /\ DOMAIN got' = Channels
  /\ \A d \in Channels \ {c} :
       /\ status'[d] = status[d] /\ bufmax'[d] = bufmax[d] /\ buflen'[d] = buflen[d]
       /\ curlen'[d] = curlen[d] /\ pBuf'[d] = pBuf[d] /\ toggle'[d] = toggle[d]
       /\ blksize'[d] = blksize[d] /\ unused'[d] = unused[d]
       /\ lastAbort'[d] = lastAbort[d] /\ sdomsg'[d] = sdomsg[d]
       /\ pending'[d] = pending[d] /\ got'[d] = got[d]
  /\ out'.ch = c

-----------------------------------------------------------------------------
(* The handlers touch their own channel only.                              *)
LEMMA FailTouches ==
  ASSUME Shaped, NEW c \in Channels, NEW code, Fail(c, code),
         UNCHANGED <<bufmax, buflen, curlen, pBuf, toggle, blksize, unused, got>>
  PROVE  ClientTouches(c)
  BY DEF Shaped, Fail, Complete, Out, Set, ClientTouches

LEMMA ResponseTouches ==
  ASSUME Shaped, NEW c \in Channels, NEW f, MGR_HandleSDOClientResponse(c, f)
  PROVE  ClientTouches(c) /\ UNCHANGED <<mux, calls>>
<1>. USE DEF Set, Silent, Complete, Out, buffer, progress
<1>0. UNCHANGED calls
  BY DEF MGR_HandleSDOClientResponse
<1>1. CASE RecvBlockSegment(c, f)
  <2> DEFINE len == LET left == buflen[c] - curlen[c]
                    IN IF left < 0 THEN 0 ELSE IF left > 7 THEN 7 ELSE left
  <2>1. /\ \/ toggle' = [toggle EXCEPT ![c] = (toggle[c] + 1) % 256]
              /\ curlen' = [curlen EXCEPT ![c] = curlen[c] + len]
              /\ pBuf' = [pBuf EXCEPT ![c] = Advance(pBuf[c], len)]
              /\ unused' = [unused EXCEPT ![c] = 7 - len]
           \/ UNCHANGED <<toggle, curlen, pBuf, unused>>
        /\ status' = [status EXCEPT ![c] = BLOCK_RDCONF] \/ UNCHANGED status
        /\ got' = [got EXCEPT ![c] = Place(got[c], pBuf[c].off, f.data, len)]
             \/ UNCHANGED got
        /\ UNCHANGED <<bufmax, buflen, blksize, mux, sdomsg, lastAbort, pending>>
        /\ out'.ch = c
    BY <1>1 DEF RecvBlockSegment
  <2>. HIDE DEF len
  <2>. QED BY <1>0, <2>1 DEF Shaped, ClientTouches
<1>2. CASE RecvBlockReadInit(c, f)
  <2>1. CASE f.arg <= bufmax[c]
    BY <1>0, <1>2, <2>1 DEF RecvBlockReadInit, Shaped, ClientTouches
  <2>2. CASE ~(f.arg <= bufmax[c])
    BY <1>0, <1>2, <2>2, FailTouches DEF RecvBlockReadInit
  <2>. QED BY <2>1, <2>2
<1>3. CASE RecvBlockReadEnd(c, f) \/ RecvBlockWriteInit(c, f) \/ RecvBlockWriteEnd(c, f)
  BY <1>0, <1>3 DEF RecvBlockReadEnd, RecvBlockWriteInit, RecvBlockWriteEnd, Shaped,
                    ClientTouches
<1>4. CASE RecvBlockAck(c, f)
  BY <1>0, <1>4 DEF RecvBlockAck, Shaped, ClientTouches
<1>5. CASE RecvAbort(c, f)
  BY <1>0, <1>5 DEF RecvAbort, Shaped, ClientTouches
<1>6. CASE RecvOtherEntry(c, f) \/ RecvUnknown(c, f)
  BY <1>0, <1>6, FailTouches DEF RecvOtherEntry, RecvUnknown
<1>7. CASE RecvDownloadAck(c, f)
  <2>1. CASE Fail(c, "SDOERR_TOGGLE") /\ UNCHANGED <<curlen, toggle>>
    BY <1>0, <1>7, <2>1, FailTouches DEF RecvDownloadAck
  <2>2. CASE Complete(c, "SDOERR_OK", <<>>) /\ UNCHANGED <<curlen, toggle, sdomsg>>
             /\ \E st : status' = [status EXCEPT ![c] = st]
    BY <1>0, <1>7, <2>2 DEF RecvDownloadAck, Shaped, ClientTouches
  <2>3. CASE PrepareSegment(c)
    <3>1. /\ \E x : status' = [status EXCEPT ![c] = x]
          /\ \E x : toggle' = [toggle EXCEPT ![c] = x]
          /\ \E x : curlen' = [curlen EXCEPT ![c] = x]
          /\ \E x : sdomsg' = [sdomsg EXCEPT ![c] = x]
      BY <2>3, Zenon DEF PrepareSegment
    <3>2. Silent(c)
      BY <2>3 DEF PrepareSegment
    <3>. QED BY <1>0, <1>7, <3>1, <3>2 DEF RecvDownloadAck, Shaped, ClientTouches
  <2>. QED BY <1>7, <2>1, <2>2, <2>3 DEF RecvDownloadAck
<1>8. CASE RecvExpedited(c, f)
  BY <1>0, <1>8 DEF RecvExpedited, Shaped, ClientTouches
<1>9. CASE RecvUploadInit(c, f)
  BY <1>0, <1>9 DEF RecvUploadInit, Shaped, ClientTouches
<1>10. CASE RecvUploadSegment(c, f)
  <2>1. CASE UploadSegmentTaken(c, f)
    <3>1. /\ \E x : curlen' = [curlen EXCEPT ![c] = x]
          /\ \E x : got' = [got EXCEPT ![c] = x]
          /\ \E x : status' = [status EXCEPT ![c] = x]
          /\ UNCHANGED toggle \/ \E x : toggle' = [toggle EXCEPT ![c] = x]
          /\ UNCHANGED sdomsg \/ \E x : sdomsg' = [sdomsg EXCEPT ![c] = x]
          /\ Silent(c) \/ Complete(c, "SDOERR_OK", <<>>)
      BY <2>1, Zenon DEF UploadSegmentTaken
    <3>. QED BY <1>0, <1>10, <3>1 DEF RecvUploadSegment, Shaped, ClientTouches
  <2>2. CASE (\E code : Fail(c, code)) /\ UNCHANGED <<curlen, toggle, got>>
    BY <1>0, <1>10, <2>2, FailTouches DEF RecvUploadSegment
  <2>. QED BY <1>10, <2>1, <2>2 DEF RecvUploadSegment
<1>. QED BY <1>1, <1>2, <1>3, <1>4, <1>5, <1>6, <1>7, <1>8, <1>9, <1>10
         DEF MGR_HandleSDOClientResponse

LEMMA TurnTouches ==
  ASSUME Shaped, NEW c \in Channels, MGR_SDOHandleClient(c)
  PROVE  ClientTouches(c) /\ UNCHANGED <<mux, calls>>
<1>. USE DEF Set, Silent, Send, Complete, Out, buffer, progress, Command
<1>1. CASE Timeout(c)
  BY <1>1, FailTouches DEF Timeout
<1>2. CASE SendNext(c)
  BY <1>2 DEF SendNext, Shaped, ClientTouches
<1>3. CASE SendBlockSegment(c)
  <2>1. /\ \E x : toggle' = [toggle EXCEPT ![c] = x]
        /\ \E x : curlen' = [curlen EXCEPT ![c] = x]
        /\ \E x : pBuf' = [pBuf EXCEPT ![c] = x]
        /\ \E x : blksize' = [blksize EXCEPT ![c] = x]
        /\ \E x : unused' = [unused EXCEPT ![c] = x]
        /\ UNCHANGED status \/ \E x : status' = [status EXCEPT ![c] = x]
        /\ \E x : sdomsg' = [sdomsg EXCEPT ![c] = x]
        /\ \E f : Send(c, f)
        /\ UNCHANGED <<bufmax, buflen, mux, got, calls>>
    BY <1>3, ZenonT(40) DEF SendBlockSegment
  <2>. QED BY <2>1 DEF Shaped, ClientTouches
<1>4. CASE ConfirmBlockWrite(c) \/ StartBlockRead(c)
  BY <1>4 DEF ConfirmBlockWrite, StartBlockRead, Shaped, ClientTouches
<1>5. CASE FinishBlockWrite(c)
  BY <1>5 DEF FinishBlockWrite, Shaped, ClientTouches
<1>6. CASE ConfirmBlock(c)
  BY <1>6 DEF ConfirmBlock, Shaped, ClientTouches
<1>7. CASE FinishBlockRead(c)
  BY <1>7 DEF FinishBlockRead, Shaped, ClientTouches
<1>8. CASE Pass(c)
  BY <1>8 DEF Pass, Shaped, ClientTouches
<1>. QED BY <1>1, <1>2, <1>3, <1>4, <1>5, <1>6, <1>7, <1>8
         DEF MGR_SDOHandleClient, Proceed
-----------------------------------------------------------------------------
(* What the service sees of a step of channel c.                           *)
Unseen(c) == /\ out'.cb = <<>> /\ pending'[c] = pending[c] /\ job'[c] = job[c]
             /\ object'[c] = object[c] /\ (got'[c] = got[c] \/ Reads(c))
Begins(c) == /\ out'.cb = <<>> /\ ~pending[c] /\ pending'[c] /\ object'[c] = object[c]
             /\ job'[c].mux \in Muxes
             /\ \/ job'[c].kind = "read"
                \/ /\ job'[c].kind = "write" /\ job'[c].src \in Data
                   /\ job'[c].len \in Sizes
TakesEffect(c) == /\ out'.cb = <<>> /\ pending'[c] = pending[c] /\ job'[c] = job[c]
                  /\ got'[c] = got[c] /\ Writes(c)
                  /\ object'[c] = [object[c] EXCEPT ![mux[c]] =
                                     Whole(pBuf[c].src, bufmax[c])]

(* A report, and what it says of the transfer.                             *)
TooLarge(c, code) == /\ code \in {"SDOERR_BUFSIZE", "SDO_ABORT_NOMEM"}
                     /\ job[c].kind = "read" /\ object[c][job[c].mux].len > bufmax[c]
IsTrue(c, code) ==
  /\ code \in Codes \ {"SDOERR_TOGGLE", "SDOERR_PARAM", "SDOERR_UNKNOWN"}
  /\ lost = 0 => code = "SDOERR_OK" \/ TooLarge(c, code)
  /\ code = "SDOERR_OK" =>
       \/ /\ job[c].kind = "write"
          /\ object[c][job[c].mux] = Whole(job[c].src, job[c].len)
       \/ job[c].kind = "read" /\ got[c] = object[c][job[c].mux]
Ends(c) == /\ out'.ch = c /\ \E code : out'.cb = <<code>> /\ IsTrue(c, code)'
           /\ pending[c] /\ ~pending'[c] /\ job'[c] = job[c]
           /\ object'[c] = object[c]
           /\ job[c].kind = "write" => got'[c] = got[c]

Effect(c) == Unseen(c) \/ Begins(c) \/ TakesEffect(c) \/ Ends(c)
Result(c) == Sound(c)' /\ InPhase(c)' /\ Effect(c)
Step(c) == AppStep(c) \/ Receive(c) \/ Serve(c) \/ Lose(c) \/ NodeStep(c)

-----------------------------------------------------------------------------
(* Queues of one or two frames.                                            *)
LEMMA ShortQueues ==
  /\ \A f : /\ <<>> \o <<f>> = <<f>> /\ <<f>> \o <<>> = <<f>> /\ Head(<<f>>) = f
            /\ Tail(<<f>>) = <<>> /\ <<f>> # <<>> /\ Len(<<f>>) = 1
  /\ \A f, g : /\ <<f>> \o <<g>> = <<f, g>> /\ <<f, g>> \o <<>> = <<f, g>>
               /\ Head(<<f, g>>) = f /\ Tail(<<f, g>>) = <<g>> /\ <<f, g>> # <<>>
  /\ <<>> \o <<>> = <<>>
<1>1. ASSUME NEW f
      PROVE  /\ <<>> \o <<f>> = <<f>> /\ <<f>> \o <<>> = <<f>> /\ Head(<<f>>) = f
             /\ Tail(<<f>>) = <<>> /\ <<f>> # <<>> /\ Len(<<f>>) = 1
  <2>1. <<f>> \in Seq({f})
    OBVIOUS
  <2>. QED BY <2>1, ConcatEmptySeq, HeadTailProperties, EmptySeq
<1>2. ASSUME NEW f, NEW g
      PROVE  /\ <<f>> \o <<g>> = <<f, g>> /\ <<f, g>> \o <<>> = <<f, g>>
             /\ Head(<<f, g>>) = f /\ Tail(<<f, g>>) = <<g>> /\ <<f, g>> # <<>>
  <2>1. <<f>> \in Seq({f, g}) /\ <<g>> \in Seq({f, g}) /\ <<f, g>> \in Seq({f, g})
    OBVIOUS
  <2>2. <<f>> \o <<g>> = <<f, g>>
    <3>1. Len(<<f>> \o <<g>>) = 2 /\ <<f>> \o <<g>> \in Seq({f, g})
      BY <2>1, ConcatProperties
    <3>2. (<<f>> \o <<g>>)[1] = f /\ (<<f>> \o <<g>>)[2] = g
      BY <2>1, ConcatProperties
    <3>3. \A i \in 1 .. 2 : (<<f>> \o <<g>>)[i] = <<f, g>>[i]
      BY <3>2
    <3>. QED BY <2>1, <3>1, <3>3, SeqEqual
  <2>3. Tail(<<f, g>>) = <<g>>
    OBVIOUS
  <2>. QED BY <2>1, <2>2, <2>3, ConcatEmptySeq
<1>3. <<>> \o <<>> = <<>>
  BY ConcatEmptySeq, EmptySeq
<1>. QED BY <1>1, <1>2, <1>3

(* A step of the client puts what it sends on the link and leaves the rest *)
(* of the world alone.                                                     *)
LEMMA ServeKeeps ==
  ASSUME Shaped, NEW c \in Channels, Serve(c) \/ PassBy(c)
  PROVE  /\ ClientTouches(c) /\ WorldKept /\ UNCHANGED resp
         /\ req' = [req EXCEPT ![c] = @ \o out'.tx]
<1>1. MGR_SDOHandleClient(c)
  BY DEF Serve, PassBy, Linked, Act, MGR_SDOHandleClient
<1>2. ClientTouches(c) /\ UNCHANGED <<mux, calls>>
  BY <1>1, TurnTouches
<1>3. SdoClientSend /\ UNCHANGED <<job, resp, node, object, lost>>
  BY DEF Serve, PassBy, Linked
<1>. QED BY <1>2, <1>3 DEF SdoClientSend, ClientTouches, WorldKept

LEMMA ReceiveKeeps ==
  ASSUME Shaped, NEW c \in Channels, Receive(c)
  PROVE  /\ ClientTouches(c) /\ WorldKept
         /\ resp' = [resp EXCEPT ![c] = Tail(@)]
         /\ req' = [req EXCEPT ![c] = @ \o out'.tx]
<1>2. ClientTouches(c) /\ UNCHANGED <<mux, calls>>
  BY ResponseTouches DEF Receive
<1>. QED BY <1>2 DEF Receive, SdoClientSend, ClientTouches, WorldKept

LEMMA LoseKeeps ==
  ASSUME Shaped, NEW c \in Channels, Lose(c)
  PROVE  /\ Outside /\ UNCHANGED <<node, object>> /\ lost' = lost + 1
         /\ \/ req[c] # <<>> /\ req' = [req EXCEPT ![c] = Tail(@)] /\ UNCHANGED resp
            \/ resp[c] # <<>> /\ resp' = [resp EXCEPT ![c] = Tail(@)] /\ UNCHANGED req
  BY DEF Lose, LoseRequest, LoseResponse
-----------------------------------------------------------------------------
(* What can happen next while one frame is under way, or none.             *)
LEMMA SoundKept ==
  ASSUME NEW c \in Channels, Sound(c), UNCHANGED <<mux, calls, node, object>>,
         lost' \in Nat
  PROVE  Sound(c)'
  BY DEF Sound

LEMMA OnlyTimeout ==
  ASSUME NEW c \in Channels, InOrderAnswers, WAIT_RES \subseteq status[c], Serve(c)
  PROVE  Timeout(c) /\ Quiet(c)
<1>1. ~Proceed(c)
  BY DEF Proceed, SendNext, SendBlockSegment, ConfirmBlockWrite, FinishBlockWrite,
         StartBlockRead, ConfirmBlock, FinishBlockRead, Has, WAIT_RES, BLOCK_WRITE,
         BLOCK_WRCONF, BLOCK_WRFINA, BLOCK_READ, BLOCK_RDCONF, BLOCK_RDFINA
<1>. QED BY <1>1 DEF Serve, Linked, Act, InOrderAnswers

LEMMA OnlyProceed ==
  ASSUME NEW c \in Channels, ~(WAIT_RES \subseteq status[c]), Serve(c)
  PROVE  Proceed(c)
  BY DEF Serve, Linked, Act, Timeout, Has

LEMMA NoCall ==
  ASSUME NEW c \in Channels, InOrderAnswers, pending[c]
  PROVE  ~AppStep(c)
  BY DEF AppStep, AppStarts, AppAborts, MayCall, InOrderAnswers

LEMMA LoseDooms ==
  ASSUME Shaped, NEW c \in Channels, Sound(c), pending[c], WAIT_RES \subseteq status[c],
         NEW f, Wire(c, <<f>>, <<>>) \/ Wire(c, <<>>, <<f>>), Lose(c)
  PROVE  Result(c)
<1>0. /\ Outside /\ UNCHANGED <<node, object>> /\ lost' = lost + 1
      /\ \/ req[c] # <<>> /\ req' = [req EXCEPT ![c] = Tail(@)] /\ UNCHANGED resp
         \/ resp[c] # <<>> /\ resp' = [resp EXCEPT ![c] = Tail(@)] /\ UNCHANGED req
  BY LoseKeeps
<1>t. Tail(<<f>>) = <<>>
  BY ShortQueues
<1>1. /\ Outside /\ UNCHANGED <<node, object>> /\ lost' = lost + 1
      /\ req'[c] = <<>> /\ resp'[c] = <<>>
  BY <1>0, <1>t, ZenonT(40) DEF Wire, Shaped
<1>2. Sound(c)'
  BY <1>1, SoundKept DEF Outside, history, Sound
<1>3. Doomed(c)'
  BY <1>1 DEF Outside, history, Sound, Doomed
<1>4. Unseen(c)
  BY <1>1 DEF Outside, history, Start, Unseen
<1>. QED BY <1>2, <1>3, <1>4 DEF Result, InPhase, Effect

LEMMA InRequest ==
  ASSUME Shaped, NEW c \in Channels, Sound(c), InOrderAnswers, pending[c],
         WAIT_RES \subseteq status[c], NEW f, Wire(c, <<f>>, <<>>), Step(c)
  PROVE  NodeStep(c) \/ Result(c)
  BY NoCall, OnlyTimeout, LoseDooms, ShortQueues DEF Step, Receive, Wire, Quiet

LEMMA InAnswer ==
  ASSUME Shaped, NEW c \in Channels, Sound(c), InOrderAnswers, pending[c],
         WAIT_RES \subseteq status[c], NEW f, Wire(c, <<>>, <<f>>), Step(c)
  PROVE  Receive(c) \/ Result(c)
  BY NoCall, OnlyTimeout, LoseDooms, ShortQueues DEF Step, NodeStep, Wire, Quiet

LEMMA InTurn ==
  ASSUME NEW c \in Channels, InOrderAnswers, pending[c],
         ~(WAIT_RES \subseteq status[c]), Wire(c, <<>>, <<>>), Step(c)
  PROVE  Serve(c) /\ Proceed(c)
  BY NoCall, OnlyProceed
     DEF Step, NodeStep, Receive, Lose, LoseRequest, LoseResponse, Wire

(* A transfer is reported: the channel is at rest.                         *)
LEMMA CompleteEnds ==
  ASSUME Shaped, NEW c \in Channels, Sound(c), pending[c], WorldKept,
         NEW code, NEW tx, Complete(c, code, tx),
         status'[c] \in {READY, READY \union SEGMENTED, BLOCK_INITRD},
         req[c] = <<>>, resp'[c] = <<>>, req' = [req EXCEPT ![c] = @ \o out'.tx],
         \/ tx = <<>> /\ Calm(c)
         \/ \E f : tx = <<f>> /\ LastWord(c, f),
         IsTrue(c, code)', job[c].kind = "write" => got'[c] = got[c]
  PROVE  Result(c)
<1>1. /\ out'.ch = c /\ out'.cb = <<code>> /\ out'.tx = tx /\ ~pending'[c]
  BY DEF Complete, Out, Set, Shaped
<1>2. req'[c] = tx
  BY <1>1, ShortQueues DEF Shaped
<1>3. Sound(c)'
  BY SoundKept DEF WorldKept, Sound
<1>4. Ends(c)
  BY <1>1 DEF Ends, WorldKept
<1>5. AtRest(c)'
  <2>1. status'[c] # FREE
    BY DEF FREE, READY, SEGMENTED, BLOCK_INITRD
  <2>2. CASE tx = <<>> /\ Calm(c)
    BY <1>1, <1>2, <2>1, <2>2 DEF AtRest, Calm, WorldKept
  <2>3. ASSUME NEW f, tx = <<f>>, LastWord(c, f) PROVE AtRest(c)'
    <3>1. req'[c] = <<f>> /\ req'[c] # <<>> /\ Head(req'[c]) = f
      BY <1>2, <2>3, ShortQueues
    <3>2. LastWord(c, f)'
      BY <2>3 DEF LastWord, WorldKept
    <3>. QED BY <1>1, <2>1, <3>1, <3>2 DEF AtRest
  <2>. QED BY <2>2, <2>3
<1>. QED BY <1>3, <1>4, <1>5 DEF Result, InPhase, Effect

LEMMA FailEnds ==
  ASSUME Shaped, NEW c \in Channels, Sound(c), pending[c], WorldKept,
         NEW code, Fail(c, code), req[c] = <<>>, resp'[c] = <<>>,
         req' = [req EXCEPT ![c] = @ \o out'.tx],
         code \in {"SDOERR_TIMEOUT", "SDOERR_BUFSIZE", "SDO_ABORT_NOMEM"},
         lost = 0 => TooLarge(c, code), UNCHANGED <<got, bufmax>>
  PROVE  Result(c)
<1>1. Complete(c, code, <<AbortFrame(c)>>) /\ status'[c] = READY
  BY DEF Fail, Set, Shaped
<1>2. LastWord(c, AbortFrame(c))
  BY DEF LastWord, AbortFrame, SdoFrame
<1>3. IsTrue(c, code)'
  BY DEF IsTrue, TooLarge, WorldKept, Codes, ErrCodes, AbortCodes
<1>. QED BY <1>1, <1>2, <1>3, CompleteEnds

(* The branch a response takes.                                            *)
LEMMA Branch ==
  ASSUME NEW c, NEW f, MGR_HandleSDOClientResponse(c, f), ~ReadingBlock(c)
  PROVE  /\ f.cs = \h80 => RecvAbort(c, f)
         /\ f.cs \in {\h20, \h30} => RecvDownloadAck(c, f)
         /\ f.cs = \h60 /\ f.mux = mux[c] => RecvDownloadAck(c, f)
         /\ f.cs = \hA0 => RecvBlockWriteInit(c, f)
         /\ f.cs = \hA1 => RecvBlockWriteEnd(c, f)
         /\ f.cs = \hA2 => RecvBlockAck(c, f)
         /\ f.cs = \hC2 => RecvBlockReadInit(c, f)
         /\ (\E pad \in 0 .. 6 : f.cs = \hC1 + 4 * pad) => RecvBlockReadEnd(c, f)
         /\ f.cs \in {\h43, \h47, \h4B, \h4F} /\ f.mux = mux[c] => RecvExpedited(c, f)
         /\ f.cs = \h41 /\ f.mux = mux[c] => RecvUploadInit(c, f)
         /\ f.cs \in 0 .. 31 => RecvUploadSegment(c, f)
<1>. USE DEF RecvBlockSegment, RecvBlockReadInit,
     RecvBlockReadEnd, RecvBlockWriteInit, RecvBlockAck, RecvBlockWriteEnd, RecvAbort,
     RecvOtherEntry, RecvDownloadAck, RecvExpedited, RecvUploadInit, RecvUploadSegment,
     RecvUnknown, IsBlockReadInit, IsBlockReadEnd, IsBlockWriteInit, IsBlockAck,
     IsBlockWriteEnd, IsAbort, OtherEntry, CarriesMux, IsDownloadAck, IsExpedited,
     IsUploadInit, IsUploadSegment, IsKnown
<1>1. ASSUME f.cs = \h80 PROVE RecvAbort(c, f)
  BY <1>1 DEF MGR_HandleSDOClientResponse
<1>2. ASSUME f.cs \in {\h20, \h30} PROVE RecvDownloadAck(c, f)
  BY <1>2, SMTT(30) DEF MGR_HandleSDOClientResponse
<1>3. ASSUME f.cs = \h60 /\ f.mux = mux[c] PROVE RecvDownloadAck(c, f)
  BY <1>3 DEF MGR_HandleSDOClientResponse
<1>4. ASSUME f.cs = \hA0 PROVE RecvBlockWriteInit(c, f)
  BY <1>4 DEF MGR_HandleSDOClientResponse
<1>5. ASSUME f.cs = \hA1 PROVE RecvBlockWriteEnd(c, f)
  BY <1>5 DEF MGR_HandleSDOClientResponse
<1>6. ASSUME f.cs = \hA2 PROVE RecvBlockAck(c, f)
  BY <1>6 DEF MGR_HandleSDOClientResponse
<1>7. ASSUME f.cs = \hC2 PROVE RecvBlockReadInit(c, f)
  BY <1>7 DEF MGR_HandleSDOClientResponse
<1>8. ASSUME \E pad \in 0 .. 6 : f.cs = \hC1 + 4 * pad PROVE RecvBlockReadEnd(c, f)
  BY <1>8 DEF MGR_HandleSDOClientResponse
<1>9. ASSUME f.cs \in {\h43, \h47, \h4B, \h4F} /\ f.mux = mux[c] PROVE RecvExpedited(c, f)
  BY <1>9 DEF MGR_HandleSDOClientResponse
<1>10. ASSUME f.cs = \h41 /\ f.mux = mux[c] PROVE RecvUploadInit(c, f)
  BY <1>10 DEF MGR_HandleSDOClientResponse
<1>11. ASSUME f.cs \in 0 .. 31 PROVE RecvUploadSegment(c, f)
  <2>1. /\ ~IsBlockReadInit(f.cs) /\ ~IsBlockReadEnd(f.cs) /\ ~IsBlockWriteInit(f.cs)
        /\ ~IsBlockAck(f.cs) /\ ~IsBlockWriteEnd(f.cs) /\ ~IsAbort(f.cs)
        /\ ~OtherEntry(c, f) /\ ~IsDownloadAck(f.cs) /\ ~IsExpedited(f.cs)
        /\ ~IsUploadInit(f.cs) /\ IsKnown(f.cs)
    BY <1>11
  <2>. HIDE DEF IsBlockReadInit, IsBlockReadEnd, IsBlockWriteInit, IsBlockAck,
            IsBlockWriteEnd, IsAbort, OtherEntry, IsDownloadAck, IsExpedited,
            IsUploadInit, IsKnown
  <2>. QED BY <2>1 DEF MGR_HandleSDOClientResponse
<1>. QED BY <1>1, <1>2, <1>3, <1>4, <1>5, <1>6, <1>7, <1>8, <1>9, <1>10, <1>11

LEMMA ReceiveOne ==
  ASSUME Shaped, NEW c \in Channels, NEW f, resp[c] = <<f>>, req[c] = <<>>, Receive(c)
  PROVE  /\ MGR_HandleSDOClientResponse(c, f)
         /\ ClientTouches(c) /\ WorldKept /\ resp'[c] = <<>>
         /\ req' = [req EXCEPT ![c] = @ \o out'.tx]
<1>1. Head(resp[c]) = f /\ Tail(resp[c]) = <<>>
  BY ShortQueues
<1>2. /\ ClientTouches(c) /\ WorldKept
      /\ resp' = [resp EXCEPT ![c] = Tail(@)]
      /\ req' = [req EXCEPT ![c] = @ \o out'.tx]
  BY ReceiveKeeps
<1>. QED BY <1>1, <1>2 DEF Receive, Shaped

LEMMA FromDoomed ==
  ASSUME Shaped, NEW c \in Channels, Sound(c), InOrderAnswers, Doomed(c), Step(c)
  PROVE  Result(c)
<1>1. CASE resp[c] = <<>>
  <2>1. Serve(c)
    BY <1>1, NoCall DEF Doomed, Step, Receive, Lose, LoseRequest, LoseResponse, NodeStep
  <2>2. Timeout(c)
    BY <2>1, OnlyTimeout DEF Doomed
  <2>3. WorldKept /\ UNCHANGED resp /\ req' = [req EXCEPT ![c] = @ \o out'.tx]
    BY <2>1, ServeKeeps
  <2>4. Fail(c, "SDOERR_TIMEOUT") /\ UNCHANGED <<got, bufmax>>
    BY <2>2 DEF Timeout, buffer
  <2>5. pending[c] /\ req[c] = <<>> /\ resp'[c] = <<>> /\ (lost = 0 => FALSE)
    BY <1>1, <2>3 DEF Doomed, Sound
  <2>. QED BY <2>3, <2>4, <2>5, FailEnds
<1>2. ASSUME NEW f, ~ReadingBlock(c), resp[c] = <<f>>, f.cs = \h80
      PROVE  Result(c)
  <2>1. SUFFICES ASSUME Receive(c) PROVE Result(c)
    BY <1>2, InAnswer DEF Doomed, Wire
  <2>2. /\ WorldKept /\ resp'[c] = <<>> /\ req' = [req EXCEPT ![c] = @ \o out'.tx]
        /\ MGR_HandleSDOClientResponse(c, f)
    BY <1>2, <2>1, ReceiveOne DEF Doomed
  <2>3. RecvAbort(c, f)
    BY <1>2, <2>2, Branch
  <2>4. /\ status'[c] = READY /\ Complete(c, "SDOERR_ABORT", <<>>) /\ UNCHANGED got
    BY <2>3 DEF RecvAbort, Set, Shaped
  <2>5. IsTrue(c, "SDOERR_ABORT")'
    BY <2>2 DEF IsTrue, Codes, ErrCodes, Doomed, WorldKept, Sound
  <2>6. Calm(c)
    BY DEF Doomed, Calm, Sound
  <2>. QED BY <2>2, <2>4, <2>5, <2>6, CompleteEnds DEF Doomed
<1>. QED BY <1>1, <1>2 DEF Doomed
-----------------------------------------------------------------------------
(* What a node does with a frame.                                          *)
LEMMA NodeBranch ==
  ASSUME NEW c, NodeStep(c), NEW f, Head(req[c]) = f
  PROVE  /\ node[c].st = "block" /\ f.cs # \h80 => NodeBlockSegment(c, f)
         /\ (node[c].st = "block" => f.cs = \h80) =>
              /\ f.cs \in {\h80, \hA1} => NodeEnds(c, f)
              /\ f.cs \in {\h23, \h27, \h2B, \h2F} => NodeWriteExpedited(c, f)
              /\ f.cs = \h21 => NodeWriteInit(c, f)
              /\ f.cs = \hC2 => NodeBlockWriteInit(c, f)
              /\ f.cs \in 0 .. 31 => NodeWriteSegment(c, f)
              /\ (\E pad \in 0 .. 6 : f.cs = \hC1 + 4 * pad) => NodeBlockWriteEnd(c, f)
              /\ f.cs = \h40 => NodeRead(c, f)
              /\ f.cs = \hA0 => NodeRead(c, f) \/ NodeBlockReadInit(c, f)
              /\ f.cs \in {\h60, \h70} => NodeReadSegment(c, f)
              /\ f.cs \in {\hA2, \hA3} => NodeSendsBlock(c, f)
<1>1. NodeBlockSegment(c, f) => node[c].st = "block" /\ f.cs # \h80
  BY DEF NodeBlockSegment
<1>2. /\ NodeEnds(c, f) => f.cs \in {\h80, \hA1}
      /\ NodeWriteExpedited(c, f) => f.cs \in {\h23, \h27, \h2B, \h2F}
      /\ NodeWriteInit(c, f) => f.cs = \h21
      /\ NodeBlockWriteInit(c, f) => f.cs = \hC2
      /\ NodeWriteSegment(c, f) => IsUploadSegment(f.cs)
      /\ NodeBlockWriteEnd(c, f) => IsBlockReadEnd(f.cs)
      /\ NodeRead(c, f) => f.cs \in {\h40, \hA0}
      /\ NodeBlockReadInit(c, f) => f.cs = \hA0
      /\ NodeReadSegment(c, f) => f.cs \in {\h60, \h70}
      /\ NodeSendsBlock(c, f) => f.cs \in {\hA2, \hA3}
      /\ NodeRejects(c, f) => /\ ~(IsUploadSegment(f.cs) \/ IsBlockReadEnd(f.cs))
                             /\ f.cs \notin {\h21, \h23, \h27, \h2B, \h2F, \h40, \h60,
                                             \h70, \h80, \hA0, \hA1, \hA2, \hA3, \hC2}
  BY DEF NodeEnds, NodeWriteExpedited, NodeWriteInit, NodeBlockWriteInit,
         NodeWriteSegment, NodeBlockWriteEnd, NodeRead, NodeBlockReadInit,
         NodeReadSegment, NodeSendsBlock, NodeRejects
<1>3. \/ NodeBlockSegment(c, f)
      \/ /\ node[c].st = "block" => f.cs = \h80
         /\ \/ NodeWriteExpedited(c, f) \/ NodeWriteInit(c, f)
            \/ NodeWriteSegment(c, f) \/ NodeBlockWriteInit(c, f)
            \/ NodeBlockWriteEnd(c, f) \/ NodeRead(c, f)
            \/ NodeReadSegment(c, f) \/ NodeBlockReadInit(c, f)
            \/ NodeSendsBlock(c, f) \/ NodeEnds(c, f) \/ NodeRejects(c, f)
  BY DEF NodeStep
<1>. USE DEF IsUploadSegment, IsBlockReadEnd
<1>4. ASSUME node[c].st = "block" => f.cs = \h80, f.cs \in {\h80, \hA1}
     PROVE  NodeEnds(c, f)
  BY <1>1, <1>2, <1>3, <1>4
<1>5. ASSUME node[c].st = "block" => f.cs = \h80, f.cs \in {\h23, \h27, \h2B, \h2F}
     PROVE  NodeWriteExpedited(c, f)
  BY <1>1, <1>2, <1>3, <1>5
<1>6. ASSUME node[c].st = "block" => f.cs = \h80, f.cs = \h21
     PROVE  NodeWriteInit(c, f)
  BY <1>1, <1>2, <1>3, <1>6
<1>7. ASSUME node[c].st = "block" => f.cs = \h80, f.cs = \hC2
     PROVE  NodeBlockWriteInit(c, f)
  BY <1>1, <1>2, <1>3, <1>7
<1>8. ASSUME node[c].st = "block" => f.cs = \h80, f.cs \in 0 .. 31
     PROVE  NodeWriteSegment(c, f)
  BY <1>1, <1>2, <1>3, <1>8
<1>9. ASSUME node[c].st = "block" => f.cs = \h80, \E pad \in 0 .. 6 : f.cs = \hC1 + 4 * pad
     PROVE  NodeBlockWriteEnd(c, f)
  BY <1>1, <1>2, <1>3, <1>9
<1>10. ASSUME node[c].st = "block" => f.cs = \h80, f.cs = \h40
     PROVE  NodeRead(c, f)
  BY <1>1, <1>2, <1>3, <1>10
<1>11. ASSUME node[c].st = "block" => f.cs = \h80, f.cs = \hA0
     PROVE  NodeRead(c, f) \/ NodeBlockReadInit(c, f)
  BY <1>1, <1>2, <1>3, <1>11
<1>12. ASSUME node[c].st = "block" => f.cs = \h80, f.cs \in {\h60, \h70}
     PROVE  NodeReadSegment(c, f)
  BY <1>1, <1>2, <1>3, <1>12
<1>13. ASSUME node[c].st = "block" => f.cs = \h80, f.cs \in {\hA2, \hA3}
     PROVE  NodeSendsBlock(c, f)
  BY <1>1, <1>2, <1>3, <1>13
<1>. QED BY <1>1, <1>3, <1>4, <1>5, <1>6, <1>7, <1>8, <1>9, <1>10, <1>11, <1>12, <1>13

(* A step outside the program leaves the client where it is.               *)
LEMMA ClientKept ==
  ASSUME NEW c, Outside
  PROVE  /\ (BegunWrite(c) => BegunWrite(c)') /\ (Writes(c) => Writes(c)')
         /\ (Reads(c) => Reads(c)') /\ out'.cb = <<>>
         /\ UNCHANGED <<status, bufmax, buflen, pBuf, curlen, toggle, blksize, unused,
                        mux, sdomsg, pending, got, calls, job>>
  BY DEF Outside, buffer, progress, history, Start, BegunWrite, Writes, Reads, Runs, Asks,
         WriteRequest

LEMMA BegunReadKept ==
  ASSUME NEW c, Outside, BegunRead(c)
  PROVE  BegunRead(c)'
  BY DEF Outside, buffer, progress, history, BegunRead, Reads, Runs, Asks, ReadRequest

(* A node that answers or not, without and with an effect on its objects.  *)
LEMMA NodeSilent ==
  ASSUME Shaped, NEW c \in Channels, Sound(c), NEW n, node' = [node EXCEPT ![c] = n],
         DOMAIN n = NodeFields, n.st = "block" => n.blk \in BlockSizes,
         Outside, UNCHANGED <<object, lost>>, InPhase(c)'
  PROVE  Result(c)
<1>1. UNCHANGED <<mux, calls, pending, job, got>> /\ out'.cb = <<>>
  BY ClientKept
<1>2. node'[c] = n
  BY DEF Shaped
<1>3. Sound(c)'
  BY <1>1, <1>2 DEF Sound
<1>. QED BY <1>1, <1>3 DEF Result, Effect, Unseen

LEMMA NodeStores ==
  ASSUME Shaped, NEW c \in Channels, Sound(c), NEW n, node' = [node EXCEPT ![c] = n],
         DOMAIN n = NodeFields, n.st = "idle", Writes(c), UNCHANGED lost,
         Store(c, mux[c], Whole(pBuf[c].src, bufmax[c])), Outside,
         Written(c)' => InPhase(c)'
  PROVE  Result(c)
<1>1. UNCHANGED <<mux, calls, pending, job, got, pBuf, bufmax>> /\ out'.cb = <<>>
  BY ClientKept
<1>2. node'[c] = n
  BY DEF Shaped
<1>3. object'[c] = [object[c] EXCEPT ![mux[c]] = Whole(pBuf[c].src, bufmax[c])]
  BY DEF Store, Shaped
<1>4. Whole(pBuf[c].src, bufmax[c]) \in Contents
  BY DEF Writes, Runs, Whole, Contents
<1>5. Sound(c)' /\ Written(c)'
  BY <1>1, <1>2, <1>3, <1>4 DEF Sound, Written, Entry
<1>. QED BY <1>1, <1>3, <1>5 DEF Result, Effect, TakesEffect

LEMMA IdleNode ==
  ASSUME NEW m
  PROVE  DOMAIN Idle(m) = NodeFields /\ Idle(m).st = "idle"
  BY DEF Idle, NodeFields

LEMMA NodeTakes ==
  ASSUME Shaped, NEW c \in Channels, NEW f, req[c] = <<f>>, NodeStep(c)
  PROVE  Head(req[c]) = f /\ req'[c] = <<>> /\ Outside /\ UNCHANGED lost
  BY ShortQueues DEF NodeStep, Shaped

LEMMA NodeReplies ==
  ASSUME Shaped, NEW c \in Channels, resp[c] = <<>>, NEW m, NEW cs, NEW arg, NEW data,
         Reply(c, m, cs, arg, data)
  PROVE  resp'[c] = <<SdoFrame(cs, m, arg, data)>>
  BY ShortQueues DEF Reply, Answer, Shaped

LEMMA NodeRefuses ==
  ASSUME Shaped, NEW c \in Channels, Sound(c), pending[c], WAIT_RES \subseteq status[c],
         ~ReadingBlock(c), lost > 0, req'[c] = <<>>, resp[c] = <<>>, NodeAborts(c),
         Outside, UNCHANGED lost
  PROVE  Result(c)
<1>1. resp'[c] = <<SdoFrame(\h80, node[c].mux, 0, NoChunk)>>
  BY NodeReplies DEF NodeAborts
<1>2. SdoFrame(\h80, node[c].mux, 0, NoChunk).cs = \h80
  BY DEF SdoFrame
<1>3. resp'[c] # <<>> /\ resp'[c] = <<Head(resp'[c])>> /\ Head(resp'[c]).cs = \h80
  BY <1>1, <1>2, ShortQueues
<1>4. UNCHANGED <<pending, status>>
  BY ClientKept
<1>5. Doomed(c)'
  BY <1>3, <1>4 DEF Doomed, ReadingBlock
<1>. QED BY <1>5, NodeSilent, IdleNode DEF InPhase, NodeAborts, Set
-----------------------------------------------------------------------------
(* Writes: expedited and segmented.                                        *)
LEMMA WriteFacts ==
  ASSUME NEW c \in Channels, Writes(c)
  PROVE  /\ pending[c] /\ bufmax[c] \in Nat \ {0} /\ buflen[c] = bufmax[c]
         /\ job[c].kind = "write" /\ job[c].mux = mux[c]
         /\ job[c].src = pBuf[c].src /\ job[c].len = bufmax[c]
<1>1. pending[c] /\ buflen[c] = bufmax[c] /\ bufmax[c] \in Sizes
  BY DEF Writes, Runs
<1>2. job[c] = [kind |-> "write", mux |-> mux[c], src |-> pBuf[c].src, len |-> bufmax[c]]
  BY DEF Writes, Runs
<1>3. bufmax[c] \in Nat \ {0}
  BY <1>1, ClientAssumption
<1>4. /\ job[c].kind = "write" /\ job[c].mux = mux[c]
      /\ job[c].src = pBuf[c].src /\ job[c].len = bufmax[c]
  BY <1>2
<1>. QED BY <1>1, <1>3, <1>4

LEMMA WriteSucceeds ==
  ASSUME Shaped, NEW c \in Channels, Sound(c), Writes(c), Written(c), WorldKept,
         Complete(c, "SDOERR_OK", <<>>),
         status'[c] \in {READY, READY \union SEGMENTED, BLOCK_INITRD},
         req[c] = <<>>, resp'[c] = <<>>, req' = [req EXCEPT ![c] = @ \o out'.tx],
         node[c].st = "idle", UNCHANGED got
  PROVE  Result(c)
<1>1. IsTrue(c, "SDOERR_OK")'
  BY WriteFacts DEF IsTrue, Codes, ErrCodes, WorldKept, Written, Entry
<1>. QED BY <1>1, WriteFacts, CompleteEnds DEF Calm

LEMMA FromStored ==
  ASSUME Shaped, NEW c \in Channels, Sound(c), InOrderAnswers, Stored(c), Step(c)
  PROVE  Result(c)
<1> DEFINE f == SdoFrame(\h60, mux[c], 0, NoChunk)
<1>1. Writes(c) /\ status[c] = READY \union WAIT_RES
  <2>1. Writes(c) /\ bufmax[c] <= 4
    BY DEF Stored, BegunWrite
  <2>. QED BY <2>1, WriteFacts DEF Stored, BegunWrite, Asks
<1>2. SUFFICES ASSUME Receive(c) PROVE Result(c)
  BY <1>1, WriteFacts, InAnswer DEF Stored
<1>3. /\ MGR_HandleSDOClientResponse(c, f) /\ WorldKept /\ resp'[c] = <<>>
      /\ req' = [req EXCEPT ![c] = @ \o out'.tx]
  BY <1>2, ReceiveOne DEF Stored, Wire
<1>4. RecvDownloadAck(c, f)
  <2>1. ~ReadingBlock(c)
    BY <1>1 DEF ReadingBlock, READY, WAIT_RES, BLOCK_READ
  <2>2. f.cs = \h60 /\ f.mux = mux[c]
    BY DEF SdoFrame
  <2>. HIDE DEF f
  <2>. QED BY <1>3, <2>1, <2>2, Branch
<1>5. Complete(c, "SDOERR_OK", <<>>) /\ status'[c] = READY /\ UNCHANGED got
  <2>1. ~Has(c, SEGMENTED) /\ status[c] \ WAIT_RES = READY
    BY <1>1 DEF Has, SEGMENTED, READY, WAIT_RES
  <2>. HIDE DEF f
  <2>. QED BY <1>4, <2>1 DEF RecvDownloadAck, Set, Shaped
<1>. QED BY <1>1, <1>3, <1>5, WriteSucceeds DEF Stored, Wire

(* The length and the first byte of a segment.                             *)
More(max, lo) == max > 7 /\ max - 7 > lo
LengthAt(max, lo) == IF More(max, lo) THEN 7 ELSE max - lo
LEMMA SegmentLength ==
  ASSUME NEW max \in 5 .. 28, NEW lo \in 0 .. max - 1
  PROVE  /\ lo + LengthAt(max, lo) = Least(lo + 7, max) /\ LengthAt(max, lo) \in 1 .. 7
         /\ More(max, lo) <=> lo + LengthAt(max, lo) # max
  BY DEF Least, LengthAt, More

LEMMA SegmentBits ==
  ASSUME NEW t \in {0, 16}, NEW n \in 1 .. 7, NEW last \in BOOLEAN, last \/ n = 7,
         NEW cs, cs = t + (IF last THEN 1 + 2 * (7 - n) ELSE 0)
  PROVE  /\ cs \in 0 .. 31 /\ ToggleBit(cs) = t /\ (LastSegment(cs) <=> last)
         /\ SegmentLen(cs) = n
<1> DEFINE k == IF last THEN 1 + 2 * (7 - n) ELSE 0
<1>1. k \in 0 .. 15 /\ cs = t + k /\ cs \in 0 .. 31
  OBVIOUS
<1>2. ToggleBit(cs) = t
  BY <1>1 DEF ToggleBit
<1>3. LastSegment(cs) <=> last
  BY DEF LastSegment
<1>4. SegmentLen(cs) = n
  BY DEF SegmentLen
<1>. QED BY <1>1, <1>2, <1>3, <1>4

LEMMA SegmentStatus ==
  ASSUME NEW c, NEW lo, NEW wait, Segment(c, lo, wait), wait \in {{}, WAIT_RES}
  PROVE  /\ ~ReadingBlock(c) /\ Has(c, SEGMENTED) /\ wait \subseteq status[c]
         /\ Has(c, LAST_SEG) <=> curlen[c] = bufmax[c]
         /\ curlen[c] # bufmax[c] => (status[c] \ WAIT_RES) \union NEXT_DWN
                                        = READY \union SEGMENTED \union NEXT_DWN
<1>1. status[c] = READY \union SEGMENTED \union NEXT_DWN \union wait
                    \union (IF curlen[c] = bufmax[c] THEN LAST_SEG ELSE {})
  BY DEF Segment
<1>2. CASE curlen[c] = bufmax[c]
  BY <1>1, <1>2 DEF ReadingBlock, Has, READY, SEGMENTED, NEXT_DWN, LAST_SEG, WAIT_RES,
                    BLOCK_READ
<1>3. CASE curlen[c] # bufmax[c]
  BY <1>1, <1>3 DEF ReadingBlock, Has, READY, SEGMENTED, NEXT_DWN, LAST_SEG, WAIT_RES,
                    BLOCK_READ
<1>. QED BY <1>2, <1>3

(* The next segment is prepared.                                           *)
LEMMA PrepareNext ==
  ASSUME Shaped, NEW c \in Channels, Sound(c), Writes(c), bufmax[c] \in 5 .. 28,
         NEW lo, lo = curlen[c], pBuf[c].off = 0, curlen[c] \in 0 .. bufmax[c] - 1,
         toggle[c] \in {0, 16},
         curlen[c] = 0 => toggle[c] = 0,
         (status[c] \ WAIT_RES) \union NEXT_DWN = READY \union SEGMENTED \union NEXT_DWN,
         Takes(c, "write", curlen[c]), node[c].tog = NextToggle(c),
         PrepareSegment(c), WorldKept, UNCHANGED <<buffer, got>>,
         req'[c] = <<>>, resp'[c] = <<>>
  PROVE  Result(c)
<1> DEFINE more == More(bufmax[c], lo)
           len == LengthAt(bufmax[c], lo)
           tog == NextToggle(c)
           cs == IF more THEN tog ELSE tog + 1 + 2 * (7 - len)
<1>0. buflen[c] = bufmax[c]
  BY WriteFacts
<1>1. /\ toggle'[c] = tog /\ curlen'[c] = lo + len
      /\ sdomsg'[c] = SdoFrame(cs % 256, NoMux, 0, SegmentData(c, len))
      /\ status'[c] = (status[c] \ WAIT_RES) \union NEXT_DWN
                        \union (IF more THEN {} ELSE LAST_SEG)
      /\ out'.cb = <<>> /\ UNCHANGED pending
  BY <1>0 DEF PrepareSegment, Set, Shaped, Silent, Out, More, LengthAt
<1>2. bufmax[c] \in 5 .. 28 /\ lo \in 0 .. bufmax[c] - 1
  BY WriteFacts
<1>3. /\ lo + len = Least(lo + 7, bufmax[c]) /\ len \in 1 .. 7
      /\ more <=> lo + len # bufmax[c]
  BY <1>2, SegmentLength, ZenonT(40)
<1>4. tog \in {0, 16}
  BY DEF NextToggle, FlipToggle
<1>5. cs % 256 = tog + (IF lo + len = bufmax[c] THEN 1 + 2 * (7 - len) ELSE 0)
  BY <1>2, <1>3, <1>4
<1>6. SegmentData(c, len) = Slice(pBuf[c].src, lo, len)
  BY <1>2 DEF SegmentData
<1>7. UNCHANGED <<bufmax, buflen, pBuf, pending, job, mux, calls, node, object, got, lost>>
  BY <1>1 DEF buffer, WorldKept
<1>. HIDE DEF tog, len, more, cs
<1>8. Segment(c, lo, {})'
  <2>1. Writes(c)'
    BY <1>7 DEF Writes, Runs
  <2>2. Slice(pBuf[c].src, lo, (lo + len) - lo) = Slice(pBuf[c].src, lo, len)
    BY <1>2, <1>3
  <2>3. status'[c] = READY \union SEGMENTED \union NEXT_DWN \union {}
                       \union (IF lo + len = bufmax[c] THEN LAST_SEG ELSE {})
    BY <1>1, <1>3
  <2>4. 7 - ((lo + len) - lo) = 7 - len
    BY <1>2, <1>3
  <2>5. sdomsg'[c] = SdoFrame(tog + (IF lo + len = bufmax[c] THEN 1 + 2 * (7 - ((lo + len) - lo)) ELSE 0),
                        NoMux, 0, Slice(pBuf[c].src, lo, (lo + len) - lo))
    BY <1>1, <1>5, <1>6, <2>2, <2>4
  <2>. QED BY <1>1, <1>2, <1>3, <1>4, <1>7, <2>1, <2>3, <2>5, ZenonT(40) DEF Segment
<1>9. (Takes(c, "write", lo) /\ node[c].tog = toggle[c])'
  BY <1>1, <1>7 DEF Takes, tog
<1>10. SegmentReady(c)'
  BY <1>2, <1>7, <1>8, <1>9 DEF SegmentReady, Wire
<1>11. Sound(c)'
  BY <1>7, SoundKept DEF Sound
<1>12. Unseen(c)
  BY <1>1, <1>7 DEF Unseen
<1>. QED BY <1>10, <1>11, <1>12 DEF Result, InPhase, Effect

LEMMA FromDownloadOpened ==
  ASSUME Shaped, NEW c \in Channels, Sound(c), InOrderAnswers, DownloadOpened(c), Step(c)
  PROVE  Result(c)
<1> DEFINE f == SdoFrame(\h60, mux[c], 0, NoChunk)
<1>1. /\ Writes(c) /\ status[c] = READY \union SEGMENTED \union WAIT_RES
      /\ bufmax[c] \in 5 .. 28 /\ toggle[c] = 0 /\ curlen[c] = 0 /\ pBuf[c].off = 0
  <2>1. bufmax[c] \in 5 .. 28 /\ BegunWrite(c)
    BY DEF DownloadOpened
  <2>. QED BY <2>1 DEF BegunWrite, Asks
<1>2. SUFFICES ASSUME Receive(c) PROVE Result(c)
  BY <1>1, WriteFacts, InAnswer DEF DownloadOpened
<1>3. /\ MGR_HandleSDOClientResponse(c, f) /\ WorldKept /\ resp'[c] = <<>>
      /\ req' = [req EXCEPT ![c] = @ \o out'.tx] /\ req[c] = <<>>
  BY <1>2, ReceiveOne DEF DownloadOpened, Wire
<1>f. f.cs = \h60 /\ f.mux = mux[c]
  BY DEF SdoFrame
<1>. HIDE DEF f
<1>4. RecvDownloadAck(c, f)
  <2>1. ~ReadingBlock(c)
    BY <1>1 DEF ReadingBlock, READY, WAIT_RES, BLOCK_READ, SEGMENTED
  <2>. QED BY <1>3, <1>f, <2>1, Branch
<1>5. PrepareSegment(c) /\ UNCHANGED <<buffer, got>>
  <2>1. Has(c, SEGMENTED) /\ ~Has(c, LAST_SEG)
    BY <1>1 DEF Has, SEGMENTED, READY, WAIT_RES, LAST_SEG
  <2>2. ToggleBit(f.cs) = toggle[c]
    BY <1>1, <1>f DEF ToggleBit
  <2>. QED BY <1>4, <2>1, <2>2 DEF RecvDownloadAck
<1>6. req'[c] = <<>>
  BY <1>3, <1>5, ShortQueues DEF PrepareSegment, Silent, Out, Shaped
<1>7. (status[c] \ WAIT_RES) \union NEXT_DWN = READY \union SEGMENTED \union NEXT_DWN
  BY <1>1 DEF READY, SEGMENTED, WAIT_RES, NEXT_DWN
<1>8. Takes(c, "write", curlen[c]) /\ node[c].tog = NextToggle(c)
  BY <1>1 DEF DownloadOpened, NextToggle
<1>9. curlen[c] \in 0 .. bufmax[c] - 1 /\ toggle[c] \in {0, 16}
  BY <1>1
<1>. QED BY <1>1, <1>3, <1>5, <1>6, <1>7, <1>8, <1>9, PrepareNext

LEMMA FromSegmentReady ==
  ASSUME Shaped, NEW c \in Channels, Sound(c), InOrderAnswers, SegmentReady(c), Step(c)
  PROVE  Result(c)
<1>1. PICK lo \in 0 .. bufmax[c] - 1 :
        Segment(c, lo, {}) /\ Takes(c, "write", lo)
  BY DEF SegmentReady
<1>2. Writes(c) /\ ~(WAIT_RES \subseteq status[c]) /\ NEXT_DWN \subseteq status[c]
  BY <1>1 DEF Segment, READY, SEGMENTED, NEXT_DWN, WAIT_RES, LAST_SEG
<1>3. Serve(c) /\ Proceed(c)
  BY <1>2, WriteFacts, InTurn DEF SegmentReady
<1>4. SendNext(c)
  <2>1. status[c] \notin {BLOCK_WRITE, BLOCK_WRCONF, BLOCK_WRFINA, BLOCK_READ, BLOCK_RDCONF,
                          BLOCK_RDFINA}
    BY <1>2 DEF NEXT_DWN, BLOCK_WRITE, BLOCK_WRCONF, BLOCK_WRFINA, BLOCK_READ, BLOCK_RDCONF,
                BLOCK_RDFINA
  <2>. QED BY <1>3, <2>1 DEF Proceed, SendBlockSegment, ConfirmBlockWrite,
       FinishBlockWrite, StartBlockRead, ConfirmBlock, FinishBlockRead
<1>5. WorldKept /\ UNCHANGED resp /\ req' = [req EXCEPT ![c] = @ \o out'.tx]
  BY <1>3, ServeKeeps
<1>6. /\ status'[c] = status[c] \union WAIT_RES /\ out'.tx = <<sdomsg[c]>> /\ out'.cb = <<>>
      /\ UNCHANGED <<bufmax, buflen, pBuf, pending, job, mux, calls, node, object, got, lost,
                     curlen, toggle, sdomsg>>
  BY <1>4, <1>5 DEF SendNext, Send, Out, Set, Shaped, buffer, progress, WorldKept
<1>7. req'[c] = <<sdomsg[c]>> /\ resp'[c] = <<>>
  BY <1>5, <1>6, ShortQueues DEF Shaped, SegmentReady, Wire
<1>8. Segment(c, lo, WAIT_RES)'
  BY <1>1, <1>6 DEF Segment, Writes, Runs
<1>9. SegmentSent(c)'
  BY <1>1, <1>6, <1>7, <1>8 DEF SegmentReady, SegmentSent, Wire, Takes
<1>10. Sound(c)'
  BY <1>6, SoundKept DEF Sound
<1>11. Unseen(c)
  BY <1>6 DEF Unseen
<1>. QED BY <1>9, <1>10, <1>11 DEF Result, InPhase, Effect

LEMMA FromSegmentSent ==
  ASSUME Shaped, NEW c \in Channels, Sound(c), InOrderAnswers, SegmentSent(c), Step(c)
  PROVE  Result(c)
<1>1. PICK lo \in 0 .. bufmax[c] - 1 : Segment(c, lo, WAIT_RES) /\ Takes(c, "write", lo)
  BY DEF SegmentSent
<1> DEFINE f == sdomsg[c]
           last == curlen[c] = bufmax[c]
<1>2. /\ Writes(c) /\ WAIT_RES \subseteq status[c] /\ bufmax[c] \in 5 .. 28
      /\ ~ReadingBlock(c)
  BY <1>1, SegmentStatus DEF Segment
<1>3. SUFFICES ASSUME NodeStep(c) PROVE Result(c)
  BY <1>2, WriteFacts, InRequest DEF SegmentSent
<1>4. Head(req[c]) = f /\ req'[c] = <<>> /\ Outside /\ UNCHANGED lost /\ resp[c] = <<>>
  BY <1>3, NodeTakes DEF SegmentSent, Wire
<1>5. /\ lo \in 0 .. bufmax[c] - 1 /\ curlen[c] = Least(lo + 7, bufmax[c])
      /\ curlen[c] \in lo + 1 .. lo + 7 /\ (~last => curlen[c] = lo + 7)
      /\ toggle[c] \in {0, 16} /\ (last => curlen[c] = bufmax[c])
      /\ f.cs = toggle[c] + (IF last THEN 1 + 2 * (7 - (curlen[c] - lo)) ELSE 0)
      /\ f.data = Slice(pBuf[c].src, lo, curlen[c] - lo)
  BY <1>1, <1>2 DEF Segment, SdoFrame, Least
<1>. HIDE DEF f, last
<1>6. /\ f.cs \in 0 .. 31 /\ ToggleBit(f.cs) = toggle[c] /\ (LastSegment(f.cs) <=> last)
      /\ SegmentLen(f.cs) = curlen[c] - lo
  <2>1. curlen[c] - lo \in 1 .. 7 /\ (~last => curlen[c] - lo = 7) /\ last \in BOOLEAN
    BY <1>5 DEF last
  <2>. QED BY <1>5, <2>1, SegmentBits
<1> DEFINE acc == Place(node[c].acc, node[c].acc.len, f.data, SegmentLen(f.cs))
<1>7. acc = Prefix(pBuf[c].src, curlen[c])
  <2>1. node[c].acc = Prefix(pBuf[c].src, lo)
    BY <1>1 DEF Takes
  <2>2. node[c].acc.len = lo
    BY <1>5, <2>1 DEF Prefix, Empty, Whole
  <2>3. Prefix(pBuf[c].src, curlen[c]) = Whole(pBuf[c].src, curlen[c])
    BY <1>5 DEF Prefix
  <2>4. lo # 0 => node[c].acc = Whole(pBuf[c].src, lo)
    BY <2>1 DEF Prefix
  <2>5. /\ f.data.src = pBuf[c].src /\ f.data.lo = lo
        /\ f.data.hi = lo + (curlen[c] - lo)
    BY <1>5 DEF Slice
  <2>6. lo + (curlen[c] - lo) = curlen[c] /\ f.data.hi - f.data.lo = curlen[c] - lo
    BY <1>5, <2>5
  <2>7. acc = Place(node[c].acc, lo, f.data, curlen[c] - lo)
    BY <1>6, <2>2
  <2>8. curlen[c] - lo <= f.data.hi - f.data.lo
    BY <1>5, <2>6
  <2>9. lo = 0 \/ (node[c].acc.good /\ node[c].acc.src = f.data.src)
    BY <2>4, <2>5 DEF Whole
  <2>. QED BY <2>2, <2>3, <2>5, <2>6, <2>7, <2>8, <2>9 DEF Place, Whole
<1>8. NodeWriteSegment(c, f)
  <2>1. node[c].st # "block"
    BY <1>1 DEF Takes
  <2>. QED BY <1>3, <1>4, <1>6, <2>1, NodeBranch
<1>9. node[c].st = "write" /\ ToggleBit(f.cs) = node[c].tog /\ node[c].mux = mux[c]
  BY <1>1, <1>6 DEF Takes, SegmentSent
<1>10. acc.len = curlen[c] /\ node[c].size = bufmax[c]
  BY <1>1, <1>5, <1>7 DEF Takes, Prefix, Whole, Empty
<1>11. /\ \/ /\ ~last
             /\ node' = [node EXCEPT ![c].acc = acc, ![c].tog = FlipToggle(@)]
             /\ UNCHANGED object
          \/ /\ last
             /\ node' = [node EXCEPT ![c] = Idle(mux[c])]
             /\ Store(c, mux[c], acc)
       /\ Reply(c, mux[c], \h20 + toggle[c], 0, NoChunk)
  <2>. HIDE DEF acc
  <2>1. last => acc.len = node[c].size
    BY <1>10 DEF last
  <2>. QED BY <1>6, <1>8, <1>9, <2>1 DEF NodeWriteSegment, acc, Set
<1>12. resp'[c] = <<SdoFrame(\h20 + toggle[c], mux[c], 0, NoChunk)>>
  BY <1>4, <1>11, NodeReplies
<1>13. Segment(c, lo, WAIT_RES)'
  BY <1>1, <1>4, ClientKept DEF Segment
<1>14. Wire(c, <<>>, <<SdoFrame(\h20 + toggle[c], mux[c], 0, NoChunk)>>)'
  BY <1>4, <1>12, ClientKept DEF Wire
<1>15. CASE ~last
  <2>1. PICK n : /\ node' = [node EXCEPT ![c] = n]
                 /\ n = [node[c] EXCEPT !.acc = acc, !.tog = FlipToggle(@)]
    BY <1>11, <1>15
  <2>2. /\ n.st = "write" /\ n.mux = mux[c] /\ n.size = bufmax[c] /\ n.acc = acc
        /\ n.tog = FlipToggle(toggle[c]) /\ DOMAIN n = NodeFields
    BY <1>1, <2>1 DEF Takes, Sound, NodeFields, SegmentSent
  <2>3. node'[c] = n
    BY <2>1 DEF Shaped
  <2>4. SegmentAcked(c)'
    BY <1>4, <1>5, <1>7, <1>13, <1>14, <1>15, <2>2, <2>3, ClientKept
       DEF SegmentAcked, Takes, last
  <2>. QED BY <1>4, <1>11, <1>15, <2>1, <2>2, <2>4, NodeSilent DEF InPhase
<1>16. CASE last
  <2>1. node' = [node EXCEPT ![c] = Idle(mux[c])] /\ Store(c, mux[c], acc)
    BY <1>11, <1>16
  <2>2. acc = Whole(pBuf[c].src, bufmax[c])
    BY <1>2, <1>5, <1>7, <1>16 DEF Prefix
  <2>3. node'[c].st = "idle"
    BY <2>1, IdleNode DEF Shaped
  <2>4. Written(c)' => SegmentAcked(c)'
    BY <1>4, <1>5, <1>13, <1>14, <1>16, <2>3, ClientKept DEF SegmentAcked, last
  <2>. QED BY <1>2, <1>4, <2>1, <2>2, <2>4, IdleNode, NodeStores DEF InPhase
<1>. QED BY <1>15, <1>16

LEMMA FromSegmentAcked ==
  ASSUME Shaped, NEW c \in Channels, Sound(c), InOrderAnswers, SegmentAcked(c), Step(c)
  PROVE  Result(c)
<1> DEFINE f == SdoFrame(\h20 + toggle[c], mux[c], 0, NoChunk)
           last == curlen[c] = bufmax[c]
<1>1. PICK lo \in 0 .. bufmax[c] - 1 : Segment(c, lo, WAIT_RES)
  BY DEF SegmentAcked
<1>2. /\ Writes(c) /\ WAIT_RES \subseteq status[c] /\ bufmax[c] \in 5 .. 28
      /\ ~ReadingBlock(c) /\ Has(c, SEGMENTED) /\ (Has(c, LAST_SEG) <=> last)
      /\ (~last => (status[c] \ WAIT_RES) \union NEXT_DWN
                     = READY \union SEGMENTED \union NEXT_DWN)
  BY <1>1, SegmentStatus DEF Segment
<1>3. SUFFICES ASSUME Receive(c) PROVE Result(c)
  BY <1>2, WriteFacts, InAnswer DEF SegmentAcked
<1>4. /\ MGR_HandleSDOClientResponse(c, f) /\ WorldKept /\ resp'[c] = <<>>
      /\ req' = [req EXCEPT ![c] = @ \o out'.tx] /\ req[c] = <<>>
  BY <1>3, ReceiveOne DEF SegmentAcked, Wire
<1>5. /\ toggle[c] \in {0, 16} /\ pBuf[c].off = 0
      /\ curlen[c] \in 1 .. bufmax[c]
  BY <1>1, <1>2 DEF Segment, Least
<1>f. f.cs = \h20 + toggle[c] /\ f.cs \in {\h20, \h30} /\ ToggleBit(f.cs) = toggle[c]
  BY <1>5 DEF SdoFrame, ToggleBit
<1>. HIDE DEF f
<1>6. RecvDownloadAck(c, f)
  BY <1>2, <1>4, <1>f, Branch
<1>7. CASE ~last
  <2>1. PrepareSegment(c) /\ UNCHANGED <<buffer, got>>
    BY <1>2, <1>6, <1>7, <1>f DEF RecvDownloadAck
  <2>2. req'[c] = <<>>
    BY <1>4, <2>1, ShortQueues DEF PrepareSegment, Silent, Out, Shaped
  <2>3. Takes(c, "write", curlen[c]) /\ node[c].tog = NextToggle(c)
    BY <1>5, <1>7 DEF SegmentAcked, NextToggle
  <2>4. curlen[c] \in 0 .. bufmax[c] - 1 /\ curlen[c] # 0
    BY <1>2, <1>5, <1>7
  <2>5. (status[c] \ WAIT_RES) \union NEXT_DWN = READY \union SEGMENTED \union NEXT_DWN
    BY <1>2, <1>7
  <2>. QED BY <1>2, <1>4, <1>5, <2>1, <2>2, <2>3, <2>4, <2>5, PrepareNext
<1>8. CASE last
  <2>1. /\ Complete(c, "SDOERR_OK", <<>>) /\ status'[c] = READY \union SEGMENTED
        /\ UNCHANGED got
    BY <1>2, <1>6, <1>8, <1>f DEF RecvDownloadAck, Set, Shaped
  <2>2. node[c].st = "idle" /\ Written(c)
    BY <1>8 DEF SegmentAcked
  <2>. QED BY <1>2, <1>4, <2>1, <2>2, WriteSucceeds
<1>. QED BY <1>7, <1>8
-----------------------------------------------------------------------------
(* Writes in blocks.                                                       *)
LEMMA BlockReach ==
  ASSUME NEW max \in Nat, NEW from \in 0 .. max - 1, NEW i \in Nat, from + 7 * i < max
  PROVE  /\ Least(from + 7 * i, max) = from + 7 * i
         /\ Least(from + 7 * (i + 1), max) \in from + 7 * i + 1 .. from + 7 * i + 7
         /\ Least(from + 7 * (i + 1), max) <= max
         /\ from + 7 * (i + 1) >= max <=> Least(from + 7 * (i + 1), max) = max
  BY DEF Least

LEMMA PlaceNext ==
  ASSUME NEW src, NEW n \in Nat, NEW k \in Nat \ {0}
  PROVE  /\ Prefix(src, n).len = n
         /\ Place(Prefix(src, n), n, Slice(src, n, k), k) = Prefix(src, n + k)
<1>1. Prefix(src, n).len = n
  BY DEF Prefix, Empty, Whole
<1>2. Prefix(src, n + k) = Whole(src, n + k)
  BY DEF Prefix
<1>3. /\ Slice(src, n, k).src = src /\ Slice(src, n, k).lo = n
      /\ Slice(src, n, k).hi = n + k /\ (n + k) - n = k
  BY DEF Slice
<1>4. n = 0 \/ (Prefix(src, n).good /\ Prefix(src, n).src = src)
  BY DEF Prefix, Whole
<1>5. k <= Slice(src, n, k).hi - Slice(src, n, k).lo
  BY <1>3
<1>6. Place(Prefix(src, n), n, Slice(src, n, k), k) = Whole(src, n + k)
  BY <1>1, <1>3, <1>4, <1>5 DEF Place, Whole
<1>. QED BY <1>1, <1>2, <1>6

LEMMA BlockQueue ==
  ASSUME NEW c, NEW from, NEW gone \in Nat, NEW n \in Nat
  PROVE  /\ n = 0 => SegmentsAfter(c, from, gone, n) = <<>>
         /\ n > 0 => /\ SegmentsAfter(c, from, gone, n) # <<>>
                     /\ Head(SegmentsAfter(c, from, gone, n)) = BlockSegment(c, from, gone + 1)
                     /\ Tail(SegmentsAfter(c, from, gone, n))
                          = SegmentsAfter(c, from, gone + 1, n - 1)
         /\ SegmentsAfter(c, from, gone, n) \o <<BlockSegment(c, from, gone + (n + 1))>>
              = SegmentsAfter(c, from, gone, n + 1)
<1> DEFINE q == SegmentsAfter(c, from, gone, n)
<1>0. q = [i \in 1 .. n |-> BlockSegment(c, from, gone + i)]
  BY DEF SegmentsAfter
<1>. HIDE DEF q
<1>1. q = [i \in 1 .. n |-> q[i]] /\ \A i \in 1 .. n : q[i] = BlockSegment(c, from, gone + i)
  BY <1>0
<1>2. /\ n = 0 => q = <<>>
      /\ n > 0 => /\ q # <<>> /\ Head(q) = q[1]
                  /\ Tail(q) = [i \in 1 .. n - 1 |-> q[i + 1]]
      /\ \A e : q \o <<e>> = [i \in 1 .. n + 1 |-> IF i = n + 1 THEN e ELSE q[i]]
  BY <1>1, Listing
<1>3. \A i \in 1 .. n - 1 : q[i + 1] = BlockSegment(c, from, gone + 1 + i)
  <2>1. \A i \in 1 .. n - 1 : i + 1 \in 1 .. n /\ gone + (i + 1) = gone + 1 + i
    OBVIOUS
  <2>. QED BY <1>1, <2>1
<1>4. \A i \in 1 .. n + 1 : i # n + 1 => i \in 1 .. n
  OBVIOUS
<1>5. n > 0 => /\ q # <<>> /\ Head(q) = BlockSegment(c, from, gone + 1)
               /\ Tail(q) = [i \in 1 .. n - 1 |-> BlockSegment(c, from, gone + 1 + i)]
  <2>1. n > 0 => 1 \in 1 .. n
    OBVIOUS
  <2>2. [i \in 1 .. n - 1 |-> q[i + 1]] = [i \in 1 .. n - 1 |-> BlockSegment(c, from, gone + 1 + i)]
    BY <1>3, Zenon
  <2>. QED BY <1>1, <1>2, <2>1, <2>2
<1>6. q \o <<BlockSegment(c, from, gone + (n + 1))>>
        = [i \in 1 .. n + 1 |-> BlockSegment(c, from, gone + i)]
  <2> DEFINE e == BlockSegment(c, from, gone + (n + 1))
  <2>1. \A i \in 1 .. n + 1 : (IF i = n + 1 THEN e ELSE q[i]) = BlockSegment(c, from, gone + i)
    BY <1>1, <1>4
  <2>2. [i \in 1 .. n + 1 |-> IF i = n + 1 THEN e ELSE q[i]]
          = [i \in 1 .. n + 1 |-> BlockSegment(c, from, gone + i)]
    BY <2>1, Zenon
  <2>3. q \o <<e>> = [i \in 1 .. n + 1 |-> IF i = n + 1 THEN e ELSE q[i]]
    BY <1>2
  <2>. QED BY <2>2, <2>3
<1>. QED BY <1>2, <1>5, <1>6 DEF q, SegmentsAfter

(* The block goes on where its writer's buffer and size are kept.          *)
LEMMA BlockSegmentKept ==
  ASSUME NEW c, pBuf'[c].src = pBuf[c].src, bufmax'[c] = bufmax[c]
  PROVE  /\ \A from, i : BlockSegment(c, from, i)' = BlockSegment(c, from, i)
         /\ \A from, i : UpTo(c, from, i)' = UpTo(c, from, i)
         /\ \A from, gone, n : SegmentsAfter(c, from, gone, n)' = SegmentsAfter(c, from, gone, n)
  BY DEF BlockSegment, UpTo, SegmentsAfter

LEMMA AckNumbers ==
  ASSUME NEW t \in 0 .. 127, NEW gone \in 0 .. t, NEW blk \in t .. 127, gone < t
  PROVE  t \in 1 .. 127 /\ t \in 1 .. blk /\ gone \in Nat /\ blk \in 1 .. 127
  OBVIOUS

LEMMA LastNumber ==
  ASSUME NEW max \in Nat, NEW from \in 0 .. max - 1, NEW gone \in Nat,
         NEW upto \in from + 7 * gone + 1 .. from + 7 * gone + 7
  PROVE  from \in Nat /\ upto \in Nat
  OBVIOUS

LEMMA BlockRange == ASSUME NEW blk \in BlockSizes PROVE blk \in 1 .. 127
BY SystemAssumption

LEMMA BlockNumbers ==
  ASSUME NEW c \in Channels, Sound(c), NEW from \in 0 .. bufmax[c] - 1, NEW gone,
         BlockUnderWay(c, from, gone), gone < toggle[c], InOrderAnswers
  PROVE  /\ toggle[c] \in 0 .. 127 /\ gone \in 0 .. toggle[c] /\ bufmax[c] \in Nat
         /\ node[c].blk \in toggle[c] .. 127
         /\ from + 7 * gone < bufmax[c] /\ UpTo(c, from, gone) = from + 7 * gone
         /\ UpTo(c, from, gone + 1) \in from + 7 * gone + 1 .. from + 7 * gone + 7
         /\ UpTo(c, from, gone + 1) <= bufmax[c]
         /\ from + 7 * (gone + 1) >= bufmax[c] <=> UpTo(c, from, gone + 1) = bufmax[c]
         /\ curlen[c] >= UpTo(c, from, gone + 1)
<1>0. /\ Writes(c) /\ node[c].blk \in 1 .. 127 /\ toggle[c] \in 0 .. node[c].blk
      /\ gone \in 0 .. toggle[c]
  BY BlockRange DEF BlockUnderWay, BlockWrites
<1>a. toggle[c] \in 0 .. 127 /\ toggle[c] > 0 /\ node[c].blk \in toggle[c] .. 127
  BY <1>0
<1>1. from + 7 * (toggle[c] - 1) < bufmax[c]
  BY <1>a DEF BlockUnderWay, BlockWrites
<1>2. bufmax[c] \in Nat
  BY <1>0, WriteFacts
<1>3. gone \in Nat /\ from + 7 * gone < bufmax[c]
  BY <1>0, <1>a, <1>1, <1>2
<1>4. /\ UpTo(c, from, gone) = from + 7 * gone
      /\ UpTo(c, from, gone + 1) \in from + 7 * gone + 1 .. from + 7 * gone + 7
      /\ UpTo(c, from, gone + 1) <= bufmax[c]
      /\ from + 7 * (gone + 1) >= bufmax[c] <=> UpTo(c, from, gone + 1) = bufmax[c]
  BY <1>2, <1>3, BlockReach DEF UpTo
<1>5. curlen[c] = Least(from + 7 * toggle[c], bufmax[c])
  BY DEF BlockUnderWay, BlockWrites, UpTo
<1>6. curlen[c] >= UpTo(c, from, gone + 1)
  <2>1. gone + 1 <= toggle[c] /\ toggle[c] \in Nat
    BY <1>0, <1>a
  <2>. QED BY <1>2, <1>3, <1>5, <2>1 DEF UpTo, Least
<1>. QED BY <1>0, <1>a, <1>2, <1>3, <1>4, <1>6

(* A frame of the block leaves the queue, taken or lost, and the node      *)
(* stays in touch.                                                         *)
BlockMoved(c, from, gone) ==
  /\ req'[c] = Tail(req[c]) /\ resp'[c] = resp[c]
  /\ node'[c].st = "block" /\ node'[c].blk = node[c].blk
  /\ InTouch(c, UpTo(c, from, gone + 1))' /\ node'[c].seq \in 0 .. gone + 1
  /\ node'[c].acc.len = UpTo(c, from, gone + 1) => node'[c].seq = gone + 1

LEMMA BlockMoves ==
  ASSUME Shaped, NEW c \in Channels, Sound(c), NEW from \in 0 .. bufmax[c] - 1, NEW gone,
         BlockUnderWay(c, from, gone), gone < toggle[c], InOrderAnswers, Outside,
         BlockMoved(c, from, gone)
  PROVE  /\ BlockUnderWay(c, from, gone + 1)' /\ gone + 1 \in 0 .. toggle[c]
         /\ status[c] = BLOCK_WRITE /\ blksize[c] = node[c].blk - toggle[c]
              /\ ~BlockEnds(c) => BlockSending(c)'
         /\ status[c] = BLOCK_WRCONF \union WAIT_RES /\ BlockEnds(c) /\ gone + 1 < toggle[c]
              => BlockSent(c)'
<1>a. toggle[c] \in 0 .. 127 /\ gone \in 0 .. toggle[c]
  BY BlockNumbers
<1>b. gone \in 0 .. toggle[c] - 1
  BY <1>a
<1>0. /\ UNCHANGED <<status, bufmax, buflen, pBuf, curlen, toggle, blksize, unused, mux,
                     sdomsg, pending, got, calls, job>>
      /\ (Writes(c) => Writes(c)')
  BY ClientKept
<1>1. gone \in Nat /\ toggle[c] - gone \in Nat /\ toggle[c] - gone > 0
      /\ gone + 1 \in 0 .. toggle[c] /\ (toggle[c] - gone) - 1 = toggle[c] - (gone + 1)
  BY <1>a, <1>b
<1>2. Tail(req[c]) = SegmentsAfter(c, from, gone + 1, toggle[c] - (gone + 1))
  <2> DEFINE n == toggle[c] - gone
  <2>1. n \in Nat /\ n > 0 /\ n - 1 = toggle[c] - (gone + 1)
    BY <1>1
  <2>2. req[c] = SegmentsAfter(c, from, gone, n)
    BY DEF BlockUnderWay
  <2>. HIDE DEF n
  <2>3. Tail(SegmentsAfter(c, from, gone, n)) = SegmentsAfter(c, from, gone + 1, n - 1)
    <3>1. gone \in Nat /\ n \in Nat /\ n > 0
      BY <1>1, <2>1
    <3>. QED BY <3>1, BlockQueue, Zenon
  <2>. QED BY <2>1, <2>2, <2>3
<1>3. req'[c] = SegmentsAfter(c, from, gone + 1, toggle[c] - (gone + 1))'
  <2>1. UNCHANGED <<pBuf, bufmax, toggle>>
    BY <1>0
  <2>. QED BY <1>2, <2>1 DEF SegmentsAfter, BlockSegment, UpTo, BlockMoved
<1>4. BlockWrites(c, from)'
  BY <1>0 DEF BlockUnderWay, BlockWrites, UpTo
<1>5. UpTo(c, from, gone + 1)' = UpTo(c, from, gone + 1)
  BY <1>0, BlockSegmentKept
<1>6. BlockUnderWay(c, from, gone + 1)'
  BY <1>a, <1>0, <1>1, <1>3, <1>4, <1>5 DEF BlockUnderWay, BlockMoved
<1>7. BlockEnds(c)' <=> BlockEnds(c)
  <2>1. UNCHANGED <<curlen, bufmax, toggle>> /\ node'[c].blk = node[c].blk
    BY <1>0 DEF BlockMoved
  <2>. QED BY <2>1 DEF BlockEnds
<1>8. from \in 0 .. bufmax'[c] - 1 /\ gone + 1 \in 0 .. toggle'[c]
  BY <1>0, <1>1
<1>9. CASE status[c] = BLOCK_WRITE /\ blksize[c] = node[c].blk - toggle[c] /\ ~BlockEnds(c)
  BY <1>0, <1>1, <1>6, <1>7, <1>8, <1>9 DEF BlockMoved, BlockSending
<1>10. CASE status[c] = BLOCK_WRCONF \union WAIT_RES /\ BlockEnds(c) /\ gone + 1 < toggle[c]
  BY <1>0, <1>1, <1>6, <1>7, <1>8, <1>10 DEF BlockMoved, BlockSent
<1>. QED BY <1>1, <1>6, <1>9, <1>10

(* What the node makes of the next segment of the block.                   *)
BlockTaken(c, from, gone, n, taken) ==
  LET upto == UpTo(c, from, gone + 1)
  IN /\ DOMAIN n = NodeFields /\ n.st = "block" /\ n.mux = mux[c]
     /\ n.size = bufmax[c] /\ n.blk = node[c].blk /\ n.seq \in 0 .. gone + 1
     /\ \/ n.acc = Prefix(pBuf[c].src, upto)
        \/ lost > 0 /\ n.acc.len \in Nat /\ n.acc.len < upto
     /\ n.acc.len = upto =>
          taken /\ n.seq = gone + 1 /\ n.pad = 7 - (upto - UpTo(c, from, gone))
     /\ UNCHANGED object
     /\ IF gone + 1 = node[c].blk \/ upto = bufmax[c]
          THEN /\ node' = [node EXCEPT ![c] = [n EXCEPT !.seq = 0,
                     !.st = IF taken /\ upto = bufmax[c] THEN "blockEnd" ELSE @]]
               /\ Reply(c, mux[c], \hA2, node[c].blk, NoChunk)
          ELSE node' = [node EXCEPT ![c] = n] /\ UNCHANGED resp

LEMMA SegmentNumber ==
  ASSUME NEW k \in 1 .. 127, NEW last \in BOOLEAN, NEW cs,
         cs = IF last THEN k + 128 ELSE k
  PROVE  cs # \h80 /\ SeqNo(cs) = k /\ (LastOfBlock(cs) <=> last)
  BY DEF SeqNo, LastOfBlock

LEMMA BlockNodeTakes ==
  ASSUME Shaped, NEW c \in Channels, Sound(c), NEW from \in 0 .. bufmax[c] - 1, NEW gone,
         BlockUnderWay(c, from, gone), gone < toggle[c], InOrderAnswers, NodeStep(c)
  PROVE  /\ Outside /\ UNCHANGED lost /\ req'[c] = Tail(req[c])
         /\ \E n, taken : BlockTaken(c, from, gone, n, taken)
<1> DEFINE f == BlockSegment(c, from, gone + 1)
           upto == UpTo(c, from, gone + 1)
           last == from + 7 * (gone + 1) >= bufmax[c]
           n == node[c]
           taken == gone + 1 = n.seq + 1
           took == [n EXCEPT !.acc = Place(@, @.len, f.data, f.data.hi - f.data.lo),
                             !.seq = gone + 1, !.pad = 7 - (f.data.hi - f.data.lo)]
           next == IF taken THEN took ELSE n
<1>1. /\ toggle[c] \in 0 .. 127 /\ gone \in 0 .. toggle[c] /\ bufmax[c] \in Nat
      /\ node[c].blk \in toggle[c] .. 127
      /\ from + 7 * gone < bufmax[c] /\ UpTo(c, from, gone) = from + 7 * gone
      /\ upto \in from + 7 * gone + 1 .. from + 7 * gone + 7
      /\ upto <= bufmax[c] /\ (last <=> upto = bufmax[c])
  BY BlockNumbers
<1>. HIDE DEF upto, last
<1>a. toggle[c] \in 0 .. 127 /\ gone \in 0 .. toggle[c] /\ node[c].blk \in toggle[c] .. 127
  BY <1>1
<1>2. gone \in Nat /\ gone + 1 \in 1 .. 127 /\ gone + 1 \in 1 .. n.blk
  BY <1>a
<1>3. /\ n.st = "block" /\ InTouch(c, from + 7 * gone) /\ n.seq \in 0 .. gone
      /\ (n.acc.len = from + 7 * gone => n.seq = gone) /\ DOMAIN n = NodeFields
  BY <1>1 DEF BlockUnderWay, Sound
<1>4. Head(req[c]) = f /\ req[c] # <<>>
  <2> DEFINE k == toggle[c] - gone
  <2>0. k \in Nat /\ k > 0
    BY <1>a
  <2>1. req[c] = SegmentsAfter(c, from, gone, k)
    BY DEF BlockUnderWay
  <2>. HIDE DEF k, f
  <2>2. /\ Head(SegmentsAfter(c, from, gone, k)) = BlockSegment(c, from, gone + 1)
        /\ SegmentsAfter(c, from, gone, k) # <<>>
    BY <1>2, <2>0, BlockQueue, ZenonT(40)
  <2>. QED BY <2>1, <2>2 DEF f
<1>5. /\ f.cs = (IF last THEN gone + 1 + 128 ELSE gone + 1)
      /\ f.data = Slice(pBuf[c].src, from + 7 * gone, upto - (from + 7 * gone))
  <2>1. from + 7 * ((gone + 1) - 1) = from + 7 * gone
    BY <1>2
  <2>2. f = SdoFrame(IF last THEN gone + 1 + 128 ELSE gone + 1, NoMux, 0,
                     Slice(pBuf[c].src, from + 7 * gone, upto - (from + 7 * gone)))
    BY <2>1 DEF BlockSegment, last, upto
  <2>. QED BY <2>2 DEF SdoFrame
<1>6. f.data.hi - f.data.lo = upto - (from + 7 * gone)
  BY <1>1, <1>2, <1>5 DEF Slice
<1>. HIDE DEF f
<1>7. f.cs # \h80 /\ SeqNo(f.cs) = gone + 1 /\ (LastOfBlock(f.cs) <=> upto = bufmax[c])
  <2>1. last \in BOOLEAN
    BY DEF last
  <2>2. /\ gone + 1 \in 1 .. 127 /\ f.cs = (IF last THEN gone + 1 + 128 ELSE gone + 1)
        /\ (last <=> upto = bufmax[c])
    BY <1>1, <1>2, <1>5
  <2>3. f.cs # \h80 /\ SeqNo(f.cs) = gone + 1 /\ (LastOfBlock(f.cs) <=> last)
    <3> DEFINE k == gone + 1
    <3>1. k \in 1 .. 127 /\ f.cs = (IF last THEN k + 128 ELSE k)
      BY <2>2
    <3>. HIDE DEF k
    <3>2. f.cs # \h80 /\ SeqNo(f.cs) = k /\ (LastOfBlock(f.cs) <=> last)
      BY <2>1, <3>1, SegmentNumber, Zenon
    <3>. QED BY <3>2 DEF k
  <2>. QED BY <2>2, <2>3
<1>8. Outside /\ UNCHANGED lost /\ req'[c] = Tail(req[c])
  BY DEF NodeStep, Shaped
<1>9. NodeBlockSegment(c, f)
  BY <1>3, <1>4, <1>7, NodeBranch
<1>10. /\ UNCHANGED object
       /\ IF gone + 1 = n.blk \/ LastOfBlock(f.cs)
            THEN /\ node' = [node EXCEPT ![c] = [next EXCEPT !.seq = 0,
                       !.st = IF taken /\ LastOfBlock(f.cs) THEN "blockEnd" ELSE @]]
                 /\ Reply(c, n.mux, \hA2, n.blk, NoChunk)
            ELSE node' = [node EXCEPT ![c] = next] /\ UNCHANGED resp
  BY <1>2, <1>7, <1>9 DEF NodeBlockSegment, Set
<1>11. n.mux = mux[c] /\ n.size = bufmax[c]
  BY <1>3 DEF InTouch
<1>12. /\ DOMAIN next = NodeFields /\ next.st = "block" /\ next.mux = mux[c]
       /\ next.size = bufmax[c] /\ next.blk = n.blk
  BY <1>3, <1>11 DEF NodeFields
<1>. SUFFICES BlockTaken(c, from, gone, next, taken)
  BY <1>8
<1>13. CASE taken
  <2> DEFINE acc == Place(n.acc, n.acc.len, f.data, f.data.hi - f.data.lo)
  <2>1. next.acc = acc /\ next.seq = gone + 1 /\ next.pad = 7 - (upto - (from + 7 * gone))
    BY <1>3, <1>6, <1>13 DEF NodeFields
  <2>2. acc.len = n.acc.len + (upto - (from + 7 * gone))
    BY <1>6 DEF Place
  <2>3. CASE n.acc = Prefix(pBuf[c].src, from + 7 * gone)
    <3>1. acc = Prefix(pBuf[c].src, upto)
      <4> DEFINE at == from + 7 * gone
                 k == upto - at
      <4>1. at \in Nat /\ k \in Nat \ {0} /\ at + k = upto
        BY <1>1, <1>2
      <4>2. n.acc = Prefix(pBuf[c].src, at) /\ f.data = Slice(pBuf[c].src, at, k)
            /\ f.data.hi - f.data.lo = k
        BY <1>5, <1>6, <2>3
      <4>. HIDE DEF at, k
      <4>. QED BY <4>1, <4>2, PlaceNext
    <3>2. gone + 1 \in 0 .. gone + 1
      BY <1>2
    <3>. HIDE DEF next, taken, acc
    <3>. QED BY <1>1, <1>7, <1>10, <1>11, <1>12, <1>13, <2>1, <3>1, <3>2
             DEF BlockTaken, upto
  <2>4. CASE lost > 0 /\ n.acc.len \in Nat /\ n.acc.len < from + 7 * gone
    <3>1. acc.len \in Nat /\ acc.len < upto
      BY <1>1, <1>2, <2>2, <2>4
    <3>2. gone + 1 \in 0 .. gone + 1 /\ acc.len # upto
      BY <1>1, <1>2, <3>1
    <3>. HIDE DEF next, taken, acc
    <3>. QED BY <1>1, <1>7, <1>10, <1>11, <1>12, <1>13, <2>1, <2>4, <3>1, <3>2
             DEF BlockTaken, upto
  <2>. QED BY <1>3, <2>3, <2>4 DEF InTouch
<1>14. CASE ~taken
  <2>1. next = n
    BY <1>14
  <2>2. n.acc.len # from + 7 * gone
    BY <1>1, <1>2, <1>3, <1>14
  <2>3. lost > 0 /\ n.acc.len \in Nat /\ n.acc.len < from + 7 * gone
    <3>1. from + 7 * gone \in Nat
      BY <1>1, <1>2
    <3>. QED BY <1>3, <2>2, <3>1 DEF InTouch, Prefix, Whole, Empty
  <2>4. n.acc.len < upto /\ n.acc.len # upto
    BY <1>1, <1>2, <2>3
  <2>5. n.seq \in 0 .. gone + 1
    BY <1>2, <1>3
  <2>. HIDE DEF next, taken
  <2>. QED BY <1>1, <1>7, <1>10, <1>11, <1>12, <1>14, <2>1, <2>3, <2>4, <2>5
           DEF BlockTaken, upto
<1>. QED BY <1>13, <1>14

LEMMA FromBlockOpened ==
  ASSUME Shaped, NEW c \in Channels, Sound(c), InOrderAnswers, BlockOpened(c), Step(c)
  PROVE  Result(c)
<1> DEFINE f == SdoFrame(\hA0, mux[c], node[c].blk, NoChunk)
<1>1. /\ Writes(c) /\ bufmax[c] > 28 /\ pBuf[c].off = 0 /\ curlen[c] = 0
      /\ bufmax[c] \in Nat
  BY WriteFacts DEF BlockOpened, BegunWrite
<1>2. toggle[c] = 0 /\ status[c] = BLOCK_INITWR \union WAIT_RES
  BY <1>1 DEF BlockOpened, BegunWrite, Asks
<1>3. SUFFICES ASSUME Receive(c) PROVE Result(c)
  BY <1>1, <1>2, WriteFacts, InAnswer DEF BlockOpened
<1>4. /\ MGR_HandleSDOClientResponse(c, f) /\ WorldKept /\ resp'[c] = <<>>
      /\ req' = [req EXCEPT ![c] = @ \o out'.tx] /\ req[c] = <<>>
  BY <1>3, ReceiveOne DEF BlockOpened, Wire
<1>f. f.cs = \hA0 /\ f.arg = node[c].blk
  BY DEF SdoFrame
<1>. HIDE DEF f
<1>5. ~ReadingBlock(c)
  BY <1>2 DEF ReadingBlock, BLOCK_INITWR, WAIT_RES, BLOCK_READ
<1>6. RecvBlockWriteInit(c, f)
  BY <1>4, <1>5, <1>f, Branch
<1>7. node[c].st = "block" /\ node[c].blk \in 1 .. 127
  BY BlockRange DEF BlockOpened, Takes
<1>8. /\ status'[c] = BLOCK_WRITE /\ blksize'[c] = node[c].blk /\ out'.cb = <<>>
      /\ UNCHANGED <<bufmax, buflen, pBuf, pending, job, mux, calls, node, object, got, lost,
                     curlen, toggle, sdomsg, unused>>
  <2>1. node[c].blk % 256 = node[c].blk
    BY <1>7
  <2>. QED BY <1>4, <1>6, <1>f, <2>1
           DEF RecvBlockWriteInit, Silent, Out, Set, Shaped, buffer, WorldKept
<1>9. req'[c] = <<>>
  BY <1>4, <1>6, ShortQueues DEF RecvBlockWriteInit, Silent, Out, Shaped
<1>10. BlockUnderWay(c, 0, 0)'
  <2>1. UpTo(c, 0, 0)' = 0 /\ UpTo(c, 0, toggle[c])' = 0
    BY <1>1, <1>2, <1>8 DEF UpTo, Least
  <2>2. BlockWrites(c, 0)'
    BY <1>1, <1>2, <1>8, <2>1 DEF BlockWrites, Writes, Runs
  <2>3. InTouch(c, 0)'
    BY <1>8 DEF InTouch, BlockOpened, Takes
  <2>4. SegmentsAfter(c, 0, 0, 0)' = <<>>
    <3>1. SegmentsAfter(c, 0, 0, 0) = <<>>
      <4>1. 0 \in Nat
        OBVIOUS
      <4>. QED BY <4>1, BlockQueue, Zenon
    <3>. QED BY <1>8, <3>1, BlockSegmentKept
  <2>5. node[c].blk \in BlockSizes
    BY DEF BlockOpened
  <2>6. toggle'[c] - 0 = 0 /\ node'[c].seq = 0
    BY <1>2, <1>8 DEF BlockOpened
  <2>a. node'[c] = node[c] /\ toggle'[c] = 0
    BY <1>2, <1>8
  <2>7. /\ node'[c].st = "block" /\ node'[c].blk \in BlockSizes /\ resp'[c] = <<>>
        /\ toggle'[c] \in 0 .. node'[c].blk /\ 0 \in 0 .. toggle'[c]
        /\ node'[c].seq \in 0 .. 0
    <3>1. 0 \in 0 .. node[c].blk /\ 0 \in 0 .. 0
      BY <1>7
    <3>. QED BY <1>4, <1>7, <2>a, <2>5, <2>6, <3>1, Zenon
  <2>8. req'[c] = SegmentsAfter(c, 0, 0, toggle[c] - 0)'
    BY <1>9, <2>4, <2>6
  <2>. QED BY <2>1, <2>2, <2>3, <2>6, <2>7, <2>8 DEF BlockUnderWay
<1>11. BlockSending(c)'
  <2>1. curlen'[c] = 0 /\ toggle'[c] = 0 /\ bufmax'[c] = bufmax[c] /\ node'[c] = node[c]
    BY <1>1, <1>2, <1>8
  <2>2. curlen'[c] # bufmax'[c] /\ toggle'[c] # node'[c].blk
    BY <1>1, <1>7, <2>1
  <2>3. ~BlockEnds(c)'
    BY <2>2 DEF BlockEnds
  <2>4. 0 \in 0 .. bufmax'[c] - 1 /\ 0 \in 0 .. toggle'[c]
    BY <1>1, <2>1
  <2>5. node'[c].blk - toggle'[c] = blksize'[c]
    <3>1. blksize'[c] = node[c].blk /\ node[c].blk \in 1 .. 127
      BY <1>7, <1>8
    <3>. QED BY <2>1, <3>1
  <2>. QED BY <1>8, <1>10, <2>3, <2>4, <2>5 DEF BlockSending
<1>12. Sound(c)'
  BY <1>8, SoundKept DEF Sound
<1>13. Unseen(c)
  BY <1>8 DEF Unseen
<1>. QED BY <1>11, <1>12, <1>13 DEF Result, InPhase, Effect

(* A frame of the block is lost.                                           *)
LEMMA BlockLoses ==
  ASSUME Shaped, NEW c \in Channels, Sound(c), NEW from \in 0 .. bufmax[c] - 1, NEW gone,
         BlockUnderWay(c, from, gone), gone < toggle[c], InOrderAnswers, Lose(c)
  PROVE  /\ Outside /\ UNCHANGED <<node, object>> /\ lost' \in Nat /\ lost' > 0
         /\ BlockMoved(c, from, gone)
<1>1. resp[c] = <<>>
  BY DEF BlockUnderWay
<1>2. /\ Outside /\ UNCHANGED <<node, object>> /\ lost' = lost + 1
      /\ req'[c] = Tail(req[c]) /\ resp'[c] = resp[c]
  BY <1>1, LoseKeeps DEF Shaped
<1>3. lost' \in Nat /\ lost' > 0
  BY <1>2 DEF Sound
<1>4. /\ bufmax[c] \in Nat /\ gone \in Nat /\ UpTo(c, from, gone) = from + 7 * gone
      /\ UpTo(c, from, gone + 1) \in from + 7 * gone + 1 .. from + 7 * gone + 7
  BY BlockNumbers
<1>5. node[c].st = "block" /\ InTouch(c, from + 7 * gone) /\ node[c].seq \in 0 .. gone
  BY <1>4 DEF BlockUnderWay
<1>6. node[c].acc.len \in Nat /\ node[c].acc.len < UpTo(c, from, gone + 1)
  <2>1. from + 7 * gone \in Nat
    BY <1>4
  <2>2. node[c].acc.len \in Nat /\ node[c].acc.len <= from + 7 * gone
    <3>1. CASE node[c].acc = Prefix(pBuf[c].src, from + 7 * gone)
      BY <2>1, <3>1, PlaceNext
    <3>2. CASE lost > 0 /\ node[c].acc.len \in Nat /\ node[c].acc.len < from + 7 * gone
      BY <2>1, <3>2
    <3>. QED BY <1>5, <3>1, <3>2 DEF InTouch
  <2>. QED BY <1>4, <2>1, <2>2
<1>7. node[c].seq \in 0 .. gone + 1 /\ node[c].acc.len # UpTo(c, from, gone + 1)
  BY <1>4, <1>5, <1>6
<1>8. node[c].mux = mux[c] /\ node[c].size = bufmax[c]
  BY <1>5 DEF InTouch
<1>9. UNCHANGED <<mux, bufmax, pBuf>>
  BY <1>2, ClientKept
<1>10. UpTo(c, from, gone + 1)' = UpTo(c, from, gone + 1)
  BY <1>9, BlockSegmentKept
<1>11. InTouch(c, UpTo(c, from, gone + 1))'
  BY <1>2, <1>3, <1>6, <1>8, <1>9, <1>10 DEF InTouch
<1>. QED BY <1>2, <1>3, <1>5, <1>7, <1>11 DEF BlockMoved

(* Neither the end of the block nor of the buffer is in the queue before   *)
(* its last frame.                                                         *)
LEMMA BlockGoesOn ==
  ASSUME NEW c \in Channels, Sound(c), NEW from \in 0 .. bufmax[c] - 1, NEW gone,
         BlockUnderWay(c, from, gone), gone < toggle[c], InOrderAnswers
  PROVE  /\ gone + 1 < toggle[c] \/ ~BlockEnds(c) =>
              gone + 1 # node[c].blk /\ UpTo(c, from, gone + 1) # bufmax[c]
         /\ gone + 1 = toggle[c] =>
              /\ UpTo(c, from, gone + 1) = curlen[c]
              /\ BlockEnds(c) =>
                   gone + 1 = node[c].blk \/ UpTo(c, from, gone + 1) = bufmax[c]
<1>1. /\ toggle[c] \in 0 .. 127 /\ gone \in 0 .. toggle[c] /\ bufmax[c] \in Nat
      /\ node[c].blk \in toggle[c] .. 127
      /\ from + 7 * gone < bufmax[c] /\ UpTo(c, from, gone) = from + 7 * gone
      /\ UpTo(c, from, gone + 1) <= bufmax[c] /\ curlen[c] >= UpTo(c, from, gone + 1)
      /\ from + 7 * (gone + 1) >= bufmax[c] <=> UpTo(c, from, gone + 1) = bufmax[c]
  BY BlockNumbers
<1>2. from + 7 * (toggle[c] - 1) < bufmax[c] /\ curlen[c] = UpTo(c, from, toggle[c])
  BY <1>1 DEF BlockUnderWay, BlockWrites
<1>3. curlen[c] <= bufmax[c]
  BY <1>1, <1>2 DEF UpTo, Least
<1>4. ASSUME gone + 1 < toggle[c]
      PROVE  gone + 1 # node[c].blk /\ UpTo(c, from, gone + 1) # bufmax[c]
  <2>1. from + 7 * (gone + 1) < bufmax[c]
    BY <1>1, <1>2, <1>4
  <2>. QED BY <1>1, <1>4, <2>1
<1>5. ASSUME ~BlockEnds(c), ~(gone + 1 < toggle[c])
      PROVE  gone + 1 # node[c].blk /\ UpTo(c, from, gone + 1) # bufmax[c]
  <2>1. gone + 1 = toggle[c]
    BY <1>1, <1>5
  <2>. QED BY <1>2, <1>5, <2>1 DEF BlockEnds
<1>6. ASSUME gone + 1 = toggle[c]
      PROVE  /\ UpTo(c, from, gone + 1) = curlen[c]
             /\ BlockEnds(c) => gone + 1 = node[c].blk \/ UpTo(c, from, gone + 1) = bufmax[c]
  BY <1>2, <1>6 DEF BlockEnds
<1>. QED BY <1>4, <1>5, <1>6

(* The node takes a segment before the last of the block.                  *)
LEMMA BlockGoesOnTaken ==
  ASSUME Shaped, NEW c \in Channels, Sound(c), NEW from \in 0 .. bufmax[c] - 1, NEW gone,
         BlockUnderWay(c, from, gone), gone < toggle[c], InOrderAnswers, NodeStep(c),
         gone + 1 < toggle[c] \/ ~BlockEnds(c),
         BlockMoved(c, from, gone) => InPhase(c)'
  PROVE  Result(c)
<1>1. Outside /\ UNCHANGED lost /\ req'[c] = Tail(req[c])
  BY BlockNodeTakes
<1>2. PICK n, taken : BlockTaken(c, from, gone, n, taken)
  BY BlockNodeTakes
<1>3. gone + 1 # node[c].blk /\ UpTo(c, from, gone + 1) # bufmax[c]
  BY BlockGoesOn
<1>4. node' = [node EXCEPT ![c] = n] /\ UNCHANGED <<resp, object>>
  BY <1>2, <1>3 DEF BlockTaken
<1>5. node'[c] = n
  BY <1>4 DEF Shaped
<1>6. UNCHANGED <<mux, bufmax, pBuf>>
  BY <1>1, ClientKept
<1>7. UpTo(c, from, gone + 1)' = UpTo(c, from, gone + 1)
  BY <1>6, BlockSegmentKept
<1>8. InTouch(c, UpTo(c, from, gone + 1))'
  BY <1>1, <1>2, <1>5, <1>6, <1>7 DEF InTouch, BlockTaken
<1>9. /\ n.st = "block" /\ n.blk = node[c].blk /\ n.seq \in 0 .. gone + 1
      /\ DOMAIN n = NodeFields
      /\ n.acc.len = UpTo(c, from, gone + 1) => n.seq = gone + 1
  BY <1>2 DEF BlockTaken
<1>10. n.blk \in BlockSizes
  BY <1>9 DEF BlockUnderWay
<1>11. InPhase(c)'
  BY <1>1, <1>4, <1>5, <1>8, <1>9 DEF BlockMoved
<1>. QED BY <1>1, <1>4, <1>9, <1>10, <1>11, NodeSilent

(* The client sends the next segment of a block.                           *)
BlockLen(max, cur) == IF max - cur > 7 THEN 7 ELSE max - cur
LEMMA BlockLength ==
  ASSUME NEW max \in Nat, NEW from \in 0 .. max - 1, NEW t \in Nat, from + 7 * t < max
  PROVE  /\ from + 7 * t + BlockLen(max, from + 7 * t) = Least(from + 7 * (t + 1), max)
         /\ BlockLen(max, from + 7 * t) \in 1 .. 7
         /\ BlockLen(max, from + 7 * t) = max - (from + 7 * t)
              <=> from + 7 * (t + 1) >= max
         /\ 7 - BlockLen(max, from + 7 * t)
              = 7 * (t + 1) - (Least(from + 7 * (t + 1), max) - from)
  BY DEF BlockLen, Least

LEMMA BlockCount ==
  ASSUME NEW blk \in 1 .. 127, NEW t \in 0 .. blk - 1
  PROVE  Decrement(blk - t) = blk - (t + 1)
  BY DEF Decrement

LEMMA BlockSends ==
  ASSUME Shaped, NEW c \in Channels, Sound(c), NEW from \in 0 .. bufmax[c] - 1, NEW gone,
         BlockUnderWay(c, from, gone), ~BlockEnds(c), InOrderAnswers,
         status[c] = BLOCK_WRITE, blksize[c] = node[c].blk - toggle[c],
         SendBlockSegment(c), WorldKept, UNCHANGED resp,
         req' = [req EXCEPT ![c] = @ \o out'.tx]
  PROVE  Result(c)
<1> DEFINE cur == from + 7 * toggle[c]
           len == BlockLen(bufmax[c], cur)
           f == BlockSegment(c, from, toggle[c] + 1)
<1>1. /\ Writes(c) /\ node[c].blk \in 1 .. 127 /\ toggle[c] \in 0 .. node[c].blk
      /\ gone \in 0 .. toggle[c]
  BY BlockRange DEF BlockUnderWay, BlockWrites
<1>2. bufmax[c] \in Nat /\ buflen[c] = bufmax[c]
  BY <1>1, WriteFacts
<1>3. toggle[c] \in 0 .. node[c].blk - 1 /\ toggle[c] \in 0 .. 126 /\ gone \in Nat
      /\ toggle[c] - gone \in Nat /\ (toggle[c] + 1) % 256 = toggle[c] + 1
      /\ toggle[c] + 1 \in 0 .. node[c].blk /\ gone \in 0 .. toggle[c] + 1
      /\ gone < toggle[c] + 1 /\ gone + ((toggle[c] - gone) + 1) = toggle[c] + 1
      /\ (toggle[c] - gone) + 1 = (toggle[c] + 1) - gone /\ (toggle[c] + 1) - 1 = toggle[c]
      /\ toggle[c] + 1 < 128
      /\ (toggle[c] + 1 = node[c].blk <=> node[c].blk - (toggle[c] + 1) = 0)
  <2>1. toggle[c] # node[c].blk
    BY DEF BlockEnds
  <2>2. /\ node[c].blk \in 1 .. 127 /\ toggle[c] \in 0 .. node[c].blk
        /\ gone \in 0 .. toggle[c]
    BY <1>1
  <2> DEFINE blk == node[c].blk
             t == toggle[c]
  <2>3. blk \in 1 .. 127 /\ t \in 0 .. blk /\ gone \in 0 .. t /\ t # blk
    BY <2>1, <2>2
  <2>. HIDE DEF blk, t
  <2>4. /\ t \in 0 .. blk - 1 /\ t \in 0 .. 126 /\ gone \in Nat /\ t - gone \in Nat
        /\ (t + 1) % 256 = t + 1 /\ t + 1 \in 0 .. blk /\ gone \in 0 .. t + 1
        /\ gone < t + 1 /\ gone + ((t - gone) + 1) = t + 1
        /\ (t - gone) + 1 = (t + 1) - gone /\ (t + 1) - 1 = t
        /\ t + 1 < 128 /\ (t + 1 = blk <=> blk - (t + 1) = 0)
    BY <2>3
  <2>. QED BY <2>4 DEF blk, t
<1>4. cur < bufmax[c] /\ curlen[c] = cur /\ pBuf[c].off = cur
  <2>1. curlen[c] = Least(cur, bufmax[c]) /\ curlen[c] # bufmax[c] /\ pBuf[c].off = curlen[c]
    BY DEF BlockUnderWay, BlockWrites, BlockEnds, UpTo
  <2>. QED BY <1>2, <1>3, <2>1 DEF Least
<1>5. /\ cur + len = UpTo(c, from, toggle[c] + 1) /\ len \in 1 .. 7
      /\ len = bufmax[c] - cur <=> from + 7 * (toggle[c] + 1) >= bufmax[c]
      /\ 7 - len = 7 * (toggle[c] + 1) - (UpTo(c, from, toggle[c] + 1) - from)
  <2>1. bufmax[c] \in Nat /\ toggle[c] \in Nat /\ from + 7 * toggle[c] < bufmax[c]
    BY <1>2, <1>3, <1>4
  <2>2. /\ cur + len = Least(from + 7 * (toggle[c] + 1), bufmax[c]) /\ len \in 1 .. 7
        /\ len = bufmax[c] - cur <=> from + 7 * (toggle[c] + 1) >= bufmax[c]
        /\ 7 - len = 7 * (toggle[c] + 1) - (Least(from + 7 * (toggle[c] + 1), bufmax[c]) - from)
    BY <2>1, BlockLength, Zenon
  <2>. QED BY <2>2 DEF UpTo
<1>n. cur \in Nat /\ from \in Nat /\ (cur + len) - cur = len
  <2>1. cur \in Nat /\ from \in Nat
    <3>1. toggle[c] \in Nat /\ from \in Nat
      BY <1>2, <1>3
    <3>. QED BY <3>1
  <2>2. len \in 1 .. 7
    BY <1>5
  <2>. HIDE DEF cur, len
  <2>. QED BY <2>1, <2>2
<1>6. Decrement(blksize[c]) = node[c].blk - (toggle[c] + 1)
  BY <1>1, <1>3, BlockCount
<1>7. f = SdoFrame(IF len = bufmax[c] - cur THEN toggle[c] + 1 + 128 ELSE toggle[c] + 1,
                   NoMux, 0, Slice(pBuf[c].src, cur, len))
  <2>1. from + 7 * ((toggle[c] + 1) - 1) = cur
    BY <1>3
  <2>2. UpTo(c, from, toggle[c] + 1) - cur = len
    BY <1>5, <1>n
  <2>. HIDE DEF len, cur
  <2>. QED BY <1>5, <2>1, <2>2 DEF BlockSegment
<1>8. /\ toggle' = [toggle EXCEPT ![c] = toggle[c] + 1]
      /\ curlen' = [curlen EXCEPT ![c] = cur + len]
      /\ pBuf' = [pBuf EXCEPT ![c] = Advance(pBuf[c], len)]
      /\ blksize' = [blksize EXCEPT ![c] = node[c].blk - (toggle[c] + 1)]
      /\ unused' = [unused EXCEPT ![c] = 7 - len]
      /\ IF len = bufmax[c] - cur \/ node[c].blk - (toggle[c] + 1) = 0
           THEN status' = [status EXCEPT ![c] = BLOCK_WRCONF \union WAIT_RES]
           ELSE UNCHANGED status
      /\ Send(c, f)
      /\ UNCHANGED <<bufmax, buflen, mux, got, calls>>
  <2>3. toggle[c] + 1 < 128 
    BY <1>3
  <2>4. (toggle[c] + 1) % 256 = toggle[c] + 1 /\ buflen[c] = bufmax[c]
    BY <1>2, <1>3
  <2> DEFINE left == buflen[c] - curlen[c]
             step == BlockLen(buflen[c], curlen[c])
             tog == (toggle[c] + 1) % 256
  <2>5. /\ toggle' = [toggle EXCEPT ![c] = tog]
        /\ curlen' = [curlen EXCEPT ![c] = curlen[c] + step]
        /\ pBuf' = [pBuf EXCEPT ![c] = Advance(pBuf[c], step)]
        /\ blksize' = [blksize EXCEPT ![c] = Decrement(blksize[c])]
        /\ unused' = [unused EXCEPT ![c] = 7 - step]
        /\ IF step = left \/ Decrement(blksize[c]) = 0
             THEN status' = [status EXCEPT ![c] = BLOCK_WRCONF \union WAIT_RES]
             ELSE UNCHANGED status
        /\ Send(c, SdoFrame(IF step = left /\ tog < 128 THEN tog + 128 ELSE tog, NoMux, 0,
                            Slice(pBuf[c].src, pBuf[c].off, step)))
        /\ UNCHANGED <<bufmax, buflen, mux, got, calls>>
    BY DEF SendBlockSegment, Set, BlockLen
  <2>6. step = len /\ left = bufmax[c] - cur /\ tog = toggle[c] + 1
    BY <1>4, <2>4
  <2>. HIDE DEF cur, len, f, left, step, tog
  <2>. QED BY <1>4, <1>6, <1>7, <2>3, <2>5, <2>6
<1>. HIDE DEF len, f
<1>9. /\ toggle'[c] = toggle[c] + 1 /\ curlen'[c] = cur + len /\ pBuf'[c].src = pBuf[c].src
      /\ pBuf'[c].off = cur + len /\ blksize'[c] = node[c].blk - (toggle[c] + 1)
      /\ unused'[c] = 7 - len /\ out'.tx = <<f>> /\ out'.cb = <<>>
      /\ UNCHANGED <<bufmax, buflen, mux, got, calls, pending, job, node, object, lost, resp>>
  BY <1>4, <1>8 DEF Shaped, Advance, Send, Out, WorldKept
<1>10. req'[c] = SegmentsAfter(c, from, gone, toggle[c] - gone)'
  <2> DEFINE n == toggle[c] - gone
  <2>1. gone \in Nat /\ n \in Nat /\ gone + (n + 1) = toggle[c] + 1 /\ n + 1 = toggle'[c] - gone
    BY <1>1, <1>3, <1>9
  <2>2. req[c] = SegmentsAfter(c, from, gone, n)
    BY DEF BlockUnderWay
  <2>3. req'[c] = req[c] \o <<f>>
    BY <1>9 DEF Shaped
  <2>. HIDE DEF n
  <2>4. SegmentsAfter(c, from, gone, n) \o <<BlockSegment(c, from, gone + (n + 1))>>
          = SegmentsAfter(c, from, gone, n + 1)
    BY <2>1, BlockQueue, Zenon
  <2>5. req'[c] = SegmentsAfter(c, from, gone, n + 1)
    BY <2>1, <2>2, <2>3, <2>4 DEF f
  <2>6. SegmentsAfter(c, from, gone, toggle[c] - gone)' = SegmentsAfter(c, from, gone, toggle'[c] - gone)
    BY <1>9, BlockSegmentKept
  <2>. QED BY <2>1, <2>5, <2>6
<1>11. BlockUnderWay(c, from, gone)'
  <2>1. BlockWrites(c, from)'
    <3>1. Writes(c)' /\ (bufmax[c] > 28)'
      BY <1>1, <1>9 DEF Writes, Runs, BlockUnderWay, BlockWrites
    <3>2. curlen'[c] = UpTo(c, from, toggle[c])' /\ pBuf'[c].off = curlen'[c]
      BY <1>5, <1>9 DEF UpTo
    <3>3. from + 7 * (toggle'[c] - 1) < bufmax'[c]
      <4>1. toggle'[c] - 1 = toggle[c]
        BY <1>3, <1>9
      <4>. QED BY <1>4, <1>9, <4>1
    <3>4. unused'[c] = 7 * toggle'[c] - (curlen'[c] - from)
      BY <1>5, <1>9
    <3>. QED BY <1>9, <3>1, <3>2, <3>3, <3>4 DEF BlockWrites
  <2>2. InTouch(c, UpTo(c, from, gone))'
    <3>1. InTouch(c, UpTo(c, from, gone))
      BY DEF BlockUnderWay
    <3>. QED BY <1>9, <3>1 DEF InTouch, UpTo
  <2>3. node'[c].acc.len = UpTo(c, from, gone)' => node'[c].seq = gone
    BY <1>9 DEF BlockUnderWay, UpTo
  <2>4. toggle'[c] \in 0 .. node[c].blk /\ gone \in 0 .. toggle'[c]
    BY <1>1, <1>3, <1>9
  <2>5. node'[c] = node[c] /\ resp'[c] = <<>>
    BY <1>9 DEF BlockUnderWay
  <2>6. /\ node[c].st = "block" /\ node[c].blk \in BlockSizes /\ node[c].seq \in 0 .. gone
    BY DEF BlockUnderWay
  <2>7. /\ node'[c].st = "block" /\ node'[c].blk \in BlockSizes /\ node'[c].seq \in 0 .. gone
        /\ toggle'[c] \in 0 .. node'[c].blk /\ gone \in 0 .. toggle'[c] /\ resp'[c] = <<>>
    BY <2>4, <2>5, <2>6, Zenon
  <2>. QED BY <1>10, <2>1, <2>2, <2>3, <2>7 DEF BlockUnderWay
<1>12. gone < toggle'[c] /\ gone \in 0 .. toggle'[c] /\ from \in 0 .. bufmax'[c] - 1
  BY <1>1, <1>3, <1>9
<1>13. BlockEnds(c)' <=> len = bufmax[c] - cur \/ node[c].blk - (toggle[c] + 1) = 0
  <2>1. curlen'[c] = bufmax'[c] <=> len = bufmax[c] - cur
    <3>1. cur + len = bufmax[c] <=> len = bufmax[c] - cur
      <4>1. cur \in Nat /\ bufmax[c] \in Nat
        BY <1>2, <1>n
      <4>2. len \in 1 .. 7
        BY <1>5
      <4>. HIDE DEF cur
      <4>. QED BY <4>1, <4>2
    <3>. QED BY <1>9, <3>1
  <2>2. toggle'[c] = node'[c].blk <=> node[c].blk - (toggle[c] + 1) = 0
    BY <1>1, <1>3, <1>9
  <2>. QED BY <2>1, <2>2 DEF BlockEnds
<1>14. InPhase(c)'
  <2>1. CASE BlockEnds(c)'
    <3>1. status'[c] = BLOCK_WRCONF \union WAIT_RES
      BY <1>8, <1>13, <2>1 DEF Shaped
    <3>. QED BY <1>11, <1>12, <2>1, <3>1 DEF BlockSent, InPhase
  <2>2. CASE ~BlockEnds(c)'
    <3>1. status'[c] = BLOCK_WRITE /\ blksize'[c] = node'[c].blk - toggle'[c]
      BY <1>8, <1>9, <1>13, <2>2
    <3>. QED BY <1>11, <1>12, <2>2, <3>1 DEF BlockSending, InPhase
  <2>. QED BY <2>1, <2>2
<1>15. Sound(c)'
  BY <1>9, SoundKept DEF Sound
<1>16. Unseen(c)
  BY <1>9 DEF Unseen
<1>. QED BY <1>14, <1>15, <1>16 DEF Result, Effect

LEMMA BlockAnyLeft ==
  ASSUME NEW c \in Channels, NEW from \in 0 .. bufmax[c] - 1, NEW gone,
         BlockUnderWay(c, from, gone), InOrderAnswers
  PROVE  req[c] # <<>> <=> gone < toggle[c]
<1>1. node[c].blk \in 1 .. 127 /\ toggle[c] \in 0 .. node[c].blk /\ gone \in 0 .. toggle[c]
  BY BlockRange DEF BlockUnderWay
<1> DEFINE n == toggle[c] - gone
<1>2. gone \in Nat /\ n \in Nat /\ (gone < toggle[c] <=> n > 0) /\ (n > 0 <=> n # 0)
  <2>1. toggle[c] \in Nat
    BY <1>1
  <2>. QED BY <1>1, <2>1
<1>3. req[c] = SegmentsAfter(c, from, gone, n)
  BY DEF BlockUnderWay
<1>. HIDE DEF n
<1>4. /\ n = 0 => SegmentsAfter(c, from, gone, n) = <<>>
      /\ n > 0 => SegmentsAfter(c, from, gone, n) # <<>>
  BY <1>2, BlockQueue, Zenon
<1>. QED BY <1>2, <1>3, <1>4

(* What a turn does that need not wait.                                    *)
LEMMA TurnBranch ==
  ASSUME NEW c, Proceed(c)
  PROVE  /\ status[c] = BLOCK_WRITE => SendBlockSegment(c)
         /\ status[c] = BLOCK_WRCONF => ConfirmBlockWrite(c)
         /\ status[c] = BLOCK_WRFINA => FinishBlockWrite(c)
         /\ status[c] = BLOCK_READ => StartBlockRead(c)
         /\ status[c] = BLOCK_RDCONF => ConfirmBlock(c)
         /\ status[c] = BLOCK_RDFINA => FinishBlockRead(c)
         /\ NEXT_UPL \subseteq status[c] => SendNext(c)
<1>1. /\ SendNext(c) => NEXT_UPL \subseteq status[c] \/ NEXT_DWN \subseteq status[c]
      /\ SendBlockSegment(c) => status[c] = BLOCK_WRITE
      /\ ConfirmBlockWrite(c) => status[c] = BLOCK_WRCONF
      /\ FinishBlockWrite(c) => status[c] = BLOCK_WRFINA
      /\ StartBlockRead(c) => status[c] = BLOCK_READ
      /\ ConfirmBlock(c) => status[c] = BLOCK_RDCONF
      /\ FinishBlockRead(c) => status[c] = BLOCK_RDFINA
  BY DEF SendNext, SendBlockSegment, ConfirmBlockWrite, FinishBlockWrite, StartBlockRead,
         ConfirmBlock, FinishBlockRead, Has
<1>2. \/ SendNext(c) \/ SendBlockSegment(c) \/ ConfirmBlockWrite(c) \/ FinishBlockWrite(c)
      \/ StartBlockRead(c) \/ ConfirmBlock(c) \/ FinishBlockRead(c)
  BY DEF Proceed
<1>3. \A st \in {BLOCK_WRITE, BLOCK_WRCONF, BLOCK_WRFINA, BLOCK_READ, BLOCK_RDCONF,
                 BLOCK_RDFINA} : ~(NEXT_UPL \subseteq st) /\ ~(NEXT_DWN \subseteq st)
  BY DEF NEXT_UPL, NEXT_DWN, BLOCK_WRITE, BLOCK_WRCONF, BLOCK_WRFINA, BLOCK_READ,
         BLOCK_RDCONF, BLOCK_RDFINA
<1>4. /\ BLOCK_WRITE \notin {BLOCK_WRCONF, BLOCK_WRFINA, BLOCK_READ, BLOCK_RDCONF, BLOCK_RDFINA}
      /\ BLOCK_WRCONF \notin {BLOCK_WRFINA, BLOCK_READ, BLOCK_RDCONF, BLOCK_RDFINA}
      /\ BLOCK_WRFINA \notin {BLOCK_READ, BLOCK_RDCONF, BLOCK_RDFINA}
      /\ BLOCK_READ \notin {BLOCK_RDCONF, BLOCK_RDFINA}
      /\ BLOCK_RDCONF # BLOCK_RDFINA
  BY DEF BLOCK_WRITE, BLOCK_WRCONF, BLOCK_WRFINA, BLOCK_READ, BLOCK_RDCONF, BLOCK_RDFINA
<1>. QED BY <1>1, <1>2, <1>3, <1>4

LEMMA FromBlockSending ==
  ASSUME Shaped, NEW c \in Channels, Sound(c), InOrderAnswers, BlockSending(c), Step(c)
  PROVE  Result(c)
<1>1. /\ status[c] = BLOCK_WRITE /\ blksize[c] = node[c].blk - toggle[c]
      /\ \E from \in 0 .. bufmax[c] - 1, gone \in 0 .. toggle[c] :
           BlockUnderWay(c, from, gone) /\ ~BlockEnds(c)
  BY DEF BlockSending
<1>2. PICK from \in 0 .. bufmax[c] - 1, gone \in 0 .. toggle[c] :
             BlockUnderWay(c, from, gone) /\ ~BlockEnds(c)
  BY <1>1
<1>3. Writes(c) /\ resp[c] = <<>>
  BY <1>2 DEF BlockUnderWay, BlockWrites
<1>4. ~AppStep(c) /\ ~Receive(c)
  BY <1>3, WriteFacts, NoCall DEF Receive
<1>5. CASE Serve(c)
  <2>1. ~(WAIT_RES \subseteq status[c])
    BY <1>1 DEF WAIT_RES, BLOCK_WRITE
  <2>2. Proceed(c)
    BY <1>5, <2>1, OnlyProceed
  <2>3. SendBlockSegment(c)
    BY <1>1, <2>2, TurnBranch
  <2>. QED BY <1>1, <1>2, <1>5, <2>3, ServeKeeps, BlockSends
<1>6. CASE Lose(c)
  <2>1. req[c] # <<>>
    BY <1>3, <1>6, LoseKeeps
  <2>2. gone < toggle[c]
    BY <1>2, <2>1, BlockAnyLeft
  <2>3. /\ Outside /\ UNCHANGED <<node, object>> /\ lost' \in Nat
        /\ BlockMoved(c, from, gone)
    BY <1>2, <1>6, <2>2, BlockLoses
  <2>4. BlockSending(c)'
    BY <1>1, <1>2, <2>2, <2>3, BlockMoves
  <2>5. UNCHANGED <<mux, calls, pending, job, got>> /\ out'.cb = <<>>
    BY <2>3, ClientKept
  <2>6. Sound(c)'
    BY <2>3, <2>5, SoundKept
  <2>. QED BY <2>3, <2>4, <2>5, <2>6 DEF Result, InPhase, Effect, Unseen
<1>7. CASE NodeStep(c)
  <2>1. gone < toggle[c]
    BY <1>2, <1>7, BlockAnyLeft DEF NodeStep
  <2>2. Outside
    BY <1>7 DEF NodeStep
  <2>3. BlockMoved(c, from, gone) => InPhase(c)'
    BY <1>1, <1>2, <2>1, <2>2, BlockMoves DEF InPhase
  <2>. QED BY <1>2, <1>7, <2>1, <2>3, BlockGoesOnTaken
<1>. QED BY <1>4, <1>5, <1>6, <1>7 DEF Step

(* The node takes the last segment of the block and acknowledges it.       *)
LEMMA BlockEndTaken ==
  ASSUME Shaped, NEW c \in Channels, Sound(c), NEW from \in 0 .. bufmax[c] - 1, NEW gone,
         BlockUnderWay(c, from, gone), gone < toggle[c], InOrderAnswers, NodeStep(c),
         gone + 1 = toggle[c], BlockEnds(c), status[c] = BLOCK_WRCONF \union WAIT_RES,
         req'[c] = <<>>
  PROVE  Result(c)
<1> DEFINE upto == UpTo(c, from, gone + 1)
<1>1. Outside /\ UNCHANGED lost
  BY BlockNodeTakes
<1>2. PICK n, taken : BlockTaken(c, from, gone, n, taken)
  BY BlockNodeTakes
<1>3. upto = curlen[c] /\ (gone + 1 = node[c].blk \/ upto = bufmax[c])
  BY BlockGoesOn
<1>. HIDE DEF upto
<1>4. /\ DOMAIN n = NodeFields /\ n.st = "block" /\ n.mux = mux[c]
      /\ n.size = bufmax[c] /\ n.blk = node[c].blk
      /\ \/ n.acc = Prefix(pBuf[c].src, curlen[c])
         \/ lost > 0 /\ n.acc.len \in Nat /\ n.acc.len < curlen[c]
      /\ n.acc.len = curlen[c] =>
           taken /\ n.pad = 7 - (curlen[c] - UpTo(c, from, gone))
      /\ UNCHANGED object
      /\ node' = [node EXCEPT ![c] = [n EXCEPT !.seq = 0,
                     !.st = IF taken /\ curlen[c] = bufmax[c] THEN "blockEnd" ELSE @]]
      /\ Reply(c, mux[c], \hA2, node[c].blk, NoChunk)
  BY <1>2, <1>3 DEF BlockTaken, upto
<1> DEFINE m == [n EXCEPT !.seq = 0,
                   !.st = IF taken /\ curlen[c] = bufmax[c] THEN "blockEnd" ELSE @]
<1>5. /\ DOMAIN m = NodeFields /\ m.mux = mux[c] /\ m.size = bufmax[c] /\ m.seq = 0
      /\ m.blk = node[c].blk /\ m.acc = n.acc /\ m.pad = n.pad
      /\ m.st = IF taken /\ curlen[c] = bufmax[c] THEN "blockEnd" ELSE "block"
  BY <1>4 DEF NodeFields
<1>. HIDE DEF m
<1>6. node' = [node EXCEPT ![c] = m] /\ node'[c] = m
  BY <1>4 DEF Shaped, m
<1>7. resp'[c] = <<SdoFrame(\hA2, mux[c], node[c].blk, NoChunk)>>
  BY <1>4, NodeReplies DEF BlockUnderWay
<1>8. /\ UNCHANGED <<status, bufmax, buflen, pBuf, curlen, toggle, blksize, unused, mux,
                     sdomsg, pending, got, calls, job>>
      /\ (Writes(c) => Writes(c)')
  BY <1>1, ClientKept
<1>9. toggle[c] \in 1 .. 127 /\ toggle[c] \in 1 .. node[c].blk /\ gone \in Nat
      /\ node[c].blk \in BlockSizes /\ node[c].blk \in 1 .. 127
  <2>1. /\ toggle[c] \in 0 .. 127 /\ gone \in 0 .. toggle[c]
        /\ node[c].blk \in toggle[c] .. 127
    BY BlockNumbers
  <2>2. node[c].blk \in BlockSizes
    BY DEF BlockUnderWay
  <2> DEFINE t == toggle[c]
             blk == node[c].blk
  <2>3. t \in 0 .. 127 /\ gone \in 0 .. t /\ blk \in t .. 127 /\ gone < t
    BY <2>1
  <2>. HIDE DEF t, blk
  <2>4. t \in 1 .. 127 /\ t \in 1 .. blk /\ gone \in Nat /\ blk \in 1 .. 127
    BY <2>3, AckNumbers, Zenon
  <2>. QED BY <2>2, <2>4 DEF t, blk
<1>10. n.acc.len = curlen[c] => n.pad = unused[c]
  <2>1. unused[c] = 7 * toggle[c] - (curlen[c] - from)
    BY <1>9 DEF BlockUnderWay, BlockWrites
  <2>2. UpTo(c, from, gone) = from + 7 * gone /\ curlen[c] \in Nat /\ from \in Nat
    <3>1. /\ UpTo(c, from, gone) = from + 7 * gone /\ bufmax[c] \in Nat
          /\ upto \in from + 7 * gone + 1 .. from + 7 * gone + 7
      BY BlockNumbers DEF upto
    <3>2. UpTo(c, from, gone) = from + 7 * gone
      BY <3>1
    <3>3. from \in Nat /\ upto \in Nat
      BY <1>9, <3>1, LastNumber, Zenon
    <3>. QED BY <1>3, <3>2, <3>3, Zenon
  <2>3. 7 - (curlen[c] - (from + 7 * gone)) = 7 * toggle[c] - (curlen[c] - from)
    <3>1. /\ toggle[c] \in 1 .. 127 /\ from \in Nat /\ curlen[c] \in Nat
          /\ gone \in Nat /\ gone + 1 = toggle[c]
      BY <1>9, <2>2
    <3> DEFINE t == toggle[c]
               cur == curlen[c]
    <3>2. /\ t \in 1 .. 127 /\ from \in Nat /\ cur \in Nat
          /\ gone \in Nat /\ gone + 1 = t
      BY <3>1
    <3>. HIDE DEF t, cur
    <3>3. 7 - (cur - (from + 7 * gone)) = 7 * t - (cur - from)
      BY <3>2
    <3>. QED BY <3>3 DEF t, cur
  <2>. QED BY <1>4, <2>1, <2>2, <2>3
<1>11. BlockWrites(c, from)'
  BY <1>8 DEF BlockUnderWay, BlockWrites, UpTo
<1>12. InTouch(c, curlen[c])'
  BY <1>1, <1>4, <1>5, <1>6, <1>8 DEF InTouch
<1>13. BlockHeld(c)'
  <2>1. from \in 0 .. bufmax'[c] - 1
    BY <1>8
  <2>2. /\ node'[c].seq = 0 /\ node'[c].blk \in BlockSizes
        /\ toggle'[c] \in 1 .. node'[c].blk
    BY <1>5, <1>6, <1>8, <1>9
  <2>3. IF curlen[c] = bufmax[c] /\ m.acc.len = curlen[c]
          THEN m.st = "blockEnd" /\ m.pad = unused[c]
          ELSE IF curlen[c] = bufmax[c] THEN m.st \in {"block", "blockEnd"} ELSE m.st = "block"
    BY <1>4, <1>5, <1>10
  <2>. QED BY <1>6, <1>8, <1>11, <1>12, <2>1, <2>2, <2>3 DEF BlockHeld
<1>14. BlockAcked(c)'
  BY <1>5, <1>6, <1>7, <1>8, <1>13 DEF BlockAcked, Wire
<1>15. InPhase(c)'
  BY <1>14 DEF InPhase
<1>. QED BY <1>1, <1>4, <1>5, <1>6, <1>9, <1>15, NodeSilent

LEMMA FromBlockSent ==
  ASSUME Shaped, NEW c \in Channels, Sound(c), InOrderAnswers, BlockSent(c), Step(c)
  PROVE  Result(c)
<1>1. /\ status[c] = BLOCK_WRCONF \union WAIT_RES
      /\ \E from \in 0 .. bufmax[c] - 1, gone \in 0 .. toggle[c] :
           BlockUnderWay(c, from, gone) /\ BlockEnds(c) /\ gone < toggle[c]
  BY DEF BlockSent
<1>2. PICK from \in 0 .. bufmax[c] - 1, gone \in 0 .. toggle[c] :
             BlockUnderWay(c, from, gone) /\ BlockEnds(c) /\ gone < toggle[c]
  BY <1>1
<1>3. Writes(c) /\ resp[c] = <<>> /\ req[c] # <<>>
  BY <1>2, BlockAnyLeft DEF BlockUnderWay, BlockWrites
<1>4. WAIT_RES \subseteq status[c]
  BY <1>1
<1>5. ~AppStep(c) /\ ~Receive(c) /\ ~Serve(c)
  BY <1>3, <1>4, WriteFacts, NoCall, OnlyTimeout DEF Receive, Quiet
<1>6. gone + 1 < toggle[c] \/ gone + 1 = toggle[c]
  <2>1. toggle[c] \in 0 .. 127 /\ gone \in 0 .. toggle[c]
    BY <1>2, BlockNumbers
  <2>. QED BY <1>2, <2>1
<1>7. ASSUME gone + 1 = toggle[c], req'[c] = Tail(req[c]) PROVE req'[c] = <<>>
  <2>1. toggle[c] \in 0 .. 127 /\ gone \in 0 .. toggle[c]
    BY <1>2, BlockNumbers
  <2> DEFINE n == toggle[c] - gone
  <2>2. gone \in Nat /\ n \in Nat /\ n > 0 /\ n - 1 = 0 /\ gone + 1 \in Nat /\ 0 \in Nat
    BY <1>7, <2>1
  <2>3. req[c] = SegmentsAfter(c, from, gone, n)
    BY <1>2 DEF BlockUnderWay
  <2>. HIDE DEF n
  <2>4. Tail(SegmentsAfter(c, from, gone, n)) = SegmentsAfter(c, from, gone + 1, n - 1)
    BY <2>2, BlockQueue, ZenonT(40)
  <2>5. SegmentsAfter(c, from, gone + 1, 0) = <<>>
    BY <2>2, BlockQueue, Zenon
  <2>. QED BY <1>7, <2>2, <2>3, <2>4, <2>5
<1>8. CASE Lose(c)
  <2>1. /\ Outside /\ UNCHANGED <<node, object>> /\ lost' \in Nat /\ lost' > 0
        /\ BlockMoved(c, from, gone)
    BY <1>2, <1>8, BlockLoses
  <2>2. UNCHANGED <<mux, calls, pending, job, got, status>> /\ out'.cb = <<>>
    BY <2>1, ClientKept
  <2>3. Sound(c)' /\ Unseen(c)
    BY <2>1, <2>2, SoundKept DEF Unseen
  <2>4. InPhase(c)'
    <3>1. CASE gone + 1 < toggle[c]
      BY <1>1, <1>2, <2>1, <3>1, BlockMoves DEF InPhase
    <3>2. CASE gone + 1 = toggle[c]
      <4>1. req'[c] = <<>> /\ resp'[c] = <<>>
        BY <1>3, <1>7, <2>1, <3>2 DEF BlockMoved
      <4>. QED BY <1>3, <1>4, <2>1, <2>2, <4>1, WriteFacts DEF Doomed, InPhase
    <3>. QED BY <1>6, <3>1, <3>2
  <2>. QED BY <2>3, <2>4 DEF Result, Effect
<1>9. CASE NodeStep(c)
  <2>1. Outside /\ req'[c] = Tail(req[c])
    BY <1>9 DEF NodeStep, Shaped
  <2>2. CASE gone + 1 < toggle[c]
    <3>1. BlockMoved(c, from, gone) => InPhase(c)'
      BY <1>1, <1>2, <2>1, <2>2, BlockMoves DEF InPhase
    <3>. QED BY <1>2, <1>9, <2>2, <3>1, BlockGoesOnTaken
  <2>3. CASE gone + 1 = toggle[c]
    BY <1>1, <1>2, <1>7, <1>9, <2>1, <2>3, BlockEndTaken
  <2>. QED BY <1>6, <2>2, <2>3
<1>. QED BY <1>5, <1>8, <1>9 DEF Step

(* The node's answer to a block: another one follows, or the end.          *)
LEMMA HeldFacts ==
  ASSUME NEW c \in Channels, BlockHeld(c), InOrderAnswers
  PROVE  /\ Writes(c) /\ bufmax[c] \in Nat /\ buflen[c] = bufmax[c] /\ bufmax[c] > 28
         /\ toggle[c] \in 1 .. 127 /\ node[c].blk \in 1 .. 127
         /\ curlen[c] \in 0 .. bufmax[c] /\ pBuf[c].off = curlen[c]
         /\ curlen[c] = bufmax[c] => unused[c] \in 0 .. 6
<1>1. PICK from \in 0 .. bufmax[c] - 1 : BlockWrites(c, from)
  BY DEF BlockHeld
<1>2. node[c].blk \in 1 .. 127 /\ toggle[c] \in 1 .. node[c].blk
  BY BlockRange DEF BlockHeld
<1>3. Writes(c) /\ bufmax[c] \in Nat /\ buflen[c] = bufmax[c] /\ bufmax[c] > 28
  BY <1>1, WriteFacts DEF BlockWrites
<1> DEFINE t == toggle[c]
           cur == curlen[c]
           max == bufmax[c]
<1>4. /\ t \in 1 .. 127 /\ from \in 0 .. max - 1 /\ max \in Nat
      /\ cur = Least(from + 7 * t, max) /\ from + 7 * (t - 1) < max
      /\ pBuf[c].off = cur /\ unused[c] = 7 * t - (cur - from)
  <2>1. t \in 1 .. 127
    BY <1>2
  <2>. QED BY <1>1, <1>3, <2>1 DEF BlockWrites, UpTo
<1>. HIDE DEF t, cur, max
<1>5. cur \in 0 .. max /\ (cur = max => 7 * t - (cur - from) \in 0 .. 6)
  BY <1>4 DEF Least
<1>. QED BY <1>2, <1>3, <1>4, <1>5 DEF t, cur, max

LEMMA FromBlockAcked ==
  ASSUME Shaped, NEW c \in Channels, Sound(c), InOrderAnswers, BlockAcked(c), Step(c)
  PROVE  Result(c)
<1> DEFINE f == SdoFrame(\hA2, mux[c], node[c].blk, NoChunk)
<1>1. /\ Writes(c) /\ bufmax[c] \in Nat /\ buflen[c] = bufmax[c] /\ bufmax[c] > 28
      /\ toggle[c] \in 1 .. 127 /\ node[c].blk \in 1 .. 127
      /\ curlen[c] \in 0 .. bufmax[c] /\ pBuf[c].off = curlen[c]
  BY HeldFacts DEF BlockAcked
<1>2. BlockHeld(c) /\ status[c] = BLOCK_WRCONF \union WAIT_RES
  BY DEF BlockAcked
<1>3. SUFFICES ASSUME Receive(c) PROVE Result(c)
  BY <1>1, <1>2, WriteFacts, InAnswer DEF BlockAcked
<1>4. /\ MGR_HandleSDOClientResponse(c, f) /\ WorldKept /\ resp'[c] = <<>>
      /\ req' = [req EXCEPT ![c] = @ \o out'.tx] /\ req[c] = <<>>
  BY <1>3, ReceiveOne DEF BlockAcked, Wire
<1>f. f.cs = \hA2 /\ f.arg = node[c].blk
  BY DEF SdoFrame
<1>. HIDE DEF f
<1>5. ~ReadingBlock(c)
  BY <1>2 DEF ReadingBlock, BLOCK_WRCONF, WAIT_RES, BLOCK_READ
<1>6. RecvBlockAck(c, f)
  BY <1>4, <1>5, <1>f, Branch
<1>7. /\ out'.cb = <<>>
      /\ UNCHANGED <<bufmax, buflen, pBuf, pending, job, mux, calls, node, object, got, lost,
                     curlen, sdomsg, unused>>
  BY <1>4, <1>6 DEF RecvBlockAck, Silent, Out, buffer, WorldKept
<1>8. req'[c] = <<>>
  BY <1>4, <1>6, ShortQueues DEF RecvBlockAck, Silent, Out, Shaped
<1>9. Sound(c)'
  BY <1>7, SoundKept DEF Sound
<1>10. Unseen(c)
  BY <1>7 DEF Unseen
<1>11. CASE buflen[c] = curlen[c]
  <2>1. status'[c] = BLOCK_WRCONF /\ UNCHANGED toggle
    BY <1>6, <1>11 DEF RecvBlockAck, Set, Shaped
  <2>2. BlockHeld(c)'
    BY <1>2, <1>7, <2>1 DEF BlockHeld, InTouch, BlockWrites, UpTo, Writes, Runs
  <2>3. BlockConfirming(c)'
    BY <1>1, <1>4, <1>7, <1>8, <1>11, <2>1, <2>2 DEF BlockConfirming, Wire
  <2>. QED BY <1>9, <1>10, <2>3 DEF Result, InPhase, Effect
<1>12. CASE buflen[c] # curlen[c]
  <2>1. /\ status'[c] = BLOCK_WRITE /\ blksize'[c] = node[c].blk /\ toggle'[c] = 0
    <3>1. node[c].blk % 256 = node[c].blk
      BY <1>1
    <3>. QED BY <1>6, <1>12, <1>f, <3>1 DEF RecvBlockAck, Set, Shaped
  <2>0. PICK from : from = curlen[c]
    OBVIOUS
  <2>2. from \in 0 .. bufmax[c] - 1 /\ from # bufmax[c]
    BY <1>1, <1>12, <2>0
  <2>3. UpTo(c, from, 0) = from /\ UpTo(c, from, 0)' = from
    <3>1. UpTo(c, from, 0) = from
      BY <1>1, <2>2 DEF UpTo, Least
    <3>2. UNCHANGED <<pBuf, bufmax, curlen>>
      BY <1>7
    <3>. QED BY <3>1, <3>2 DEF UpTo
  <2>n. node[c].st = "block" /\ InTouch(c, from) /\ node[c].seq = 0 /\ node[c].blk \in BlockSizes
    BY <1>1, <1>2, <1>12, <2>0 DEF BlockHeld
  <2>s. SegmentsAfter(c, from, 0, 0)' = <<>>
    <3>1. SegmentsAfter(c, from, 0, 0) = <<>>
      <4>1. 0 \in Nat
        OBVIOUS
      <4>. QED BY <4>1, BlockQueue, Zenon
    <3>. QED BY <1>7, <3>1 DEF SegmentsAfter, BlockSegment, UpTo
  <2>4. BlockUnderWay(c, from, 0)'
    <3>1. BlockWrites(c, from)'
      <4>1. Writes(c)'
        BY <1>1, <1>7 DEF Writes, Runs
      <4>2. curlen'[c] = from /\ pBuf'[c].off = from /\ bufmax'[c] = bufmax[c]
        BY <1>1, <1>7, <2>0
      <4>3. UpTo(c, from, toggle[c])' = from /\ ~(toggle'[c] > 0)
        BY <2>1, <2>3 DEF UpTo
      <4>. QED BY <1>1, <2>2, <4>1, <4>2, <4>3 DEF BlockWrites
    <3>2. InTouch(c, UpTo(c, from, 0))'
      BY <1>7, <2>3, <2>n DEF InTouch
    <3>3. toggle'[c] - 0 = 0 /\ node'[c] = node[c]
      BY <1>7, <2>1
    <3>4. 0 \in 0 .. node[c].blk /\ 0 \in 0 .. 0
      BY <1>1
    <3>5. /\ node'[c].st = "block" /\ node'[c].blk \in BlockSizes /\ resp'[c] = <<>>
          /\ toggle'[c] \in 0 .. node'[c].blk /\ 0 \in 0 .. toggle'[c]
          /\ node'[c].seq \in 0 .. 0
      BY <1>4, <2>1, <2>n, <3>3, <3>4, Zenon
    <3>6. req'[c] = SegmentsAfter(c, from, 0, toggle[c] - 0)'
      BY <1>8, <2>s, <3>3
    <3>. QED BY <2>n, <3>1, <3>2, <3>3, <3>5, <3>6 DEF BlockUnderWay
  <2>5. ~BlockEnds(c)' /\ blksize'[c] = node'[c].blk - toggle'[c]
    <3>1. curlen'[c] = from /\ bufmax'[c] = bufmax[c] /\ node'[c] = node[c]
      BY <1>7, <2>0
    <3>2. node[c].blk # 0 /\ node[c].blk - 0 = node[c].blk
      BY <1>1
    <3>. QED BY <2>1, <2>2, <3>1, <3>2 DEF BlockEnds
  <2>6. from \in 0 .. bufmax'[c] - 1 /\ 0 \in 0 .. toggle'[c]
    BY <1>7, <2>1, <2>2
  <2>7. BlockSending(c)'
    BY <2>1, <2>4, <2>5, <2>6 DEF BlockSending
  <2>. QED BY <1>9, <1>10, <2>7 DEF Result, InPhase, Effect
<1>. QED BY <1>11, <1>12

LEMMA FromBlockConfirming ==
  ASSUME Shaped, NEW c \in Channels, Sound(c), InOrderAnswers, BlockConfirming(c), Step(c)
  PROVE  Result(c)
<1>1. /\ Writes(c) /\ BlockHeld(c) /\ status[c] = BLOCK_WRCONF /\ curlen[c] = bufmax[c]
      /\ Wire(c, <<>>, <<>>)
  BY HeldFacts DEF BlockConfirming
<1>2. ~(WAIT_RES \subseteq status[c])
  BY <1>1 DEF WAIT_RES, BLOCK_WRCONF
<1>3. Serve(c) /\ Proceed(c)
  BY <1>1, <1>2, WriteFacts, InTurn
<1>4. ConfirmBlockWrite(c)
  BY <1>1, <1>3, TurnBranch
<1>5. WorldKept /\ UNCHANGED resp /\ req' = [req EXCEPT ![c] = @ \o out'.tx]
  BY <1>3, ServeKeeps
<1>6. /\ status'[c] = BLOCK_WRFINA \union WAIT_RES /\ out'.cb = <<>>
      /\ out'.tx = <<SdoFrame(\hC1 + 4 * unused[c], NoMux, 0, NoChunk)>>
      /\ UNCHANGED <<bufmax, buflen, pBuf, pending, job, mux, calls, node, object, got, lost,
                     curlen, toggle, unused>>
  BY <1>4, <1>5 DEF ConfirmBlockWrite, Command, Send, Out, Set, Shaped, buffer, WorldKept
<1>7. Wire(c, <<SdoFrame(\hC1 + 4 * unused[c], NoMux, 0, NoChunk)>>, <<>>)'
  <2>1. req'[c] = <<SdoFrame(\hC1 + 4 * unused[c], NoMux, 0, NoChunk)>> /\ resp'[c] = <<>>
    BY <1>1, <1>5, <1>6, ShortQueues DEF Shaped, Wire
  <2>. QED BY <1>6, <2>1 DEF Wire
<1>8. BlockHeld(c)'
  BY <1>1, <1>6 DEF BlockHeld, InTouch, BlockWrites, UpTo, Writes, Runs
<1>9. BlockEnding(c)'
  BY <1>1, <1>6, <1>7, <1>8 DEF BlockEnding
<1>10. Sound(c)'
  BY <1>6, SoundKept DEF Sound
<1>11. Unseen(c)
  BY <1>6 DEF Unseen
<1>. QED BY <1>9, <1>10, <1>11 DEF Result, InPhase, Effect

(* The command byte at the end of a block write tells the bytes not used   *)
(* in the last segment, and is no sequence number of a small block.        *)
LEMMA EndBits ==
  ASSUME NEW u \in 0 .. 6
  PROVE  /\ \hC1 + 4 * u # \h80 /\ SeqNo(\hC1 + 4 * u) \notin 1 .. 31
         /\ ((\hC1 + 4 * u) \div 4) % 8 = u
         /\ \E pad \in 0 .. 6 : \hC1 + 4 * u = \hC1 + 4 * pad
<1>1. SeqNo(\hC1 + 4 * u) = 65 + 4 * u
  BY DEF SeqNo
<1>2. (\hC1 + 4 * u) \div 4 = 48 + u
  OBVIOUS
<1>. QED BY <1>1, <1>2

LEMMA FromBlockEnding ==
  ASSUME Shaped, NEW c \in Channels, Sound(c), InOrderAnswers, Reliable,
         BlockEnding(c), Step(c)
  PROVE  Result(c)
<1> DEFINE f == SdoFrame(\hC1 + 4 * unused[c], NoMux, 0, NoChunk)
           n == node[c]
<1>1. /\ Writes(c) /\ BlockHeld(c) /\ status[c] = BLOCK_WRFINA \union WAIT_RES
      /\ curlen[c] = bufmax[c] /\ Wire(c, <<f>>, <<>>)
      /\ bufmax[c] \in Nat /\ n.blk \in BlockSizes /\ unused[c] \in 0 .. 6
  BY HeldFacts DEF BlockEnding, BlockHeld
<1>2. WAIT_RES \subseteq status[c] /\ ~ReadingBlock(c)
  <2>1. status[c] = BLOCK_WRFINA \union WAIT_RES
    BY <1>1
  <2>. QED BY <2>1 DEF WAIT_RES, BLOCK_WRFINA, BLOCK_READ, ReadingBlock
<1>3. SUFFICES ASSUME NodeStep(c) PROVE Result(c)
  BY <1>1, <1>2, WriteFacts, InRequest
<1>4. Head(req[c]) = f /\ req'[c] = <<>> /\ Outside /\ UNCHANGED lost /\ resp[c] = <<>>
  BY <1>1, <1>3, NodeTakes DEF Wire
<1>5. /\ f.cs # \h80 /\ (f.cs \div 4) % 8 = unused[c]
      /\ lost > 0 => SeqNo(f.cs) \notin 1 .. n.blk
      /\ \E pad \in 0 .. 6 : f.cs = \hC1 + 4 * pad
  <2>1. f.cs = \hC1 + 4 * unused[c]
    BY DEF SdoFrame
  <2> DEFINE u == unused[c]
             blk == n.blk
  <2>2. f.cs = \hC1 + 4 * u /\ u \in 0 .. 6 /\ (lost > 0 => blk \in 1 .. 31)
    <3>1. lost > 0 => lost # 0
      BY DEF Sound
    <3>2. lost # 0 => BlockSizes \subseteq 1 .. 31
      BY DEF Reliable, SmallBlocks
    <3>3. f.cs = \hC1 + 4 * u /\ u \in 0 .. 6 /\ blk \in BlockSizes
      BY <1>1, <2>1
    <3>. HIDE DEF f, u, blk
    <3>. QED BY <3>1, <3>2, <3>3
  <2>. HIDE DEF f, u, blk
  <2>3. /\ \hC1 + 4 * u # \h80 /\ SeqNo(\hC1 + 4 * u) \notin 1 .. 31
        /\ ((\hC1 + 4 * u) \div 4) % 8 = u
        /\ \E pad \in 0 .. 6 : \hC1 + 4 * u = \hC1 + 4 * pad
    BY <2>2, EndBits
  <2>4. lost > 0 => \A k : k \notin 1 .. 31 => k \notin 1 .. blk
    BY <2>2
  <2>5. lost > 0 => SeqNo(f.cs) \notin 1 .. blk
    BY <2>2, <2>3, <2>4
  <2>. QED BY <2>2, <2>3, <2>5 DEF u, blk
<1>. HIDE DEF f
<1>6. /\ n.mux = mux[c] /\ n.size = bufmax[c]
      /\ n.acc.len = bufmax[c] => n.st = "blockEnd" /\ n.pad = unused[c]
      /\ n.st \in {"block", "blockEnd"}
      /\ \/ n.acc = Prefix(pBuf[c].src, bufmax[c])
         \/ lost > 0 /\ n.acc.len \in Nat /\ n.acc.len < bufmax[c]
  <2>1. BlockHeld(c) /\ curlen[c] = bufmax[c]
    BY <1>1
  <2>2. /\ InTouch(c, bufmax[c])
        /\ IF n.acc.len = bufmax[c] THEN n.st = "blockEnd" /\ n.pad = unused[c]
                                   ELSE n.st \in {"block", "blockEnd"}
    BY <2>1 DEF BlockHeld
  <2>3. n.mux = mux[c] /\ n.size = bufmax[c]
    BY <2>2 DEF InTouch
  <2>4. \/ n.acc = Prefix(pBuf[c].src, bufmax[c])
        \/ lost > 0 /\ n.acc.len \in Nat /\ n.acc.len < bufmax[c]
    BY <2>2 DEF InTouch
  <2>. HIDE DEF n
  <2>. QED BY <2>2, <2>3, <2>4
<1>7. CASE n.acc.len = bufmax[c]
  <2>1. NodeBlockWriteEnd(c, f)
    <3>1. n.st # "block"
      BY <1>6, <1>7
    <3>. QED BY <1>3, <1>4, <1>5, <3>1, NodeBranch
  <2>2. /\ node' = [node EXCEPT ![c] = Idle(n.mux)] /\ Store(c, n.mux, n.acc)
        /\ Reply(c, n.mux, \hA1, 0, NoChunk)
    BY <1>5, <1>6, <1>7, <2>1 DEF NodeBlockWriteEnd, Set
  <2>3. n.acc = Whole(pBuf[c].src, bufmax[c])
    <3>1. n.acc = Prefix(pBuf[c].src, bufmax[c])
      BY <1>1, <1>6, <1>7
    <3>2. bufmax[c] # 0
      BY <1>1, WriteFacts
    <3>. QED BY <3>1, <3>2 DEF Prefix
  <2>4. resp'[c] = <<SdoFrame(\hA1, mux[c], 0, NoChunk)>>
    BY <1>4, <1>6, <2>2, NodeReplies
  <2>5. node'[c].st = "idle"
    BY <2>2, IdleNode DEF Shaped
  <2>6. Written(c)' => BlockEnded(c)'
    BY <1>1, <1>4, <2>4, <2>5, ClientKept DEF BlockEnded, Wire
  <2>. QED BY <1>1, <1>4, <1>6, <2>2, <2>3, <2>6, IdleNode, NodeStores DEF InPhase
<1>8. CASE n.acc.len # bufmax[c]
  <2>1. lost > 0
    <3>1. Prefix(pBuf[c].src, bufmax[c]).len = bufmax[c]
      BY <1>1 DEF Prefix, Whole, Empty
    <3>. QED BY <1>6, <1>8, <3>1
  <2>2. NodeAborts(c)
    <3>1. CASE n.st = "block"
      <4>1. NodeBlockSegment(c, f)
        BY <1>3, <1>4, <1>5, <2>1, <3>1, NodeBranch
      <4>. QED BY <1>5, <2>1, <4>1 DEF NodeBlockSegment
    <3>2. CASE n.st = "blockEnd"
      <4>1. NodeBlockWriteEnd(c, f)
        BY <1>3, <1>4, <1>5, <3>2, NodeBranch
      <4>. QED BY <1>6, <1>8, <4>1 DEF NodeBlockWriteEnd
    <3>. QED BY <1>6, <3>1, <3>2
  <2>. QED BY <1>1, <1>2, <1>4, <2>1, <2>2, WriteFacts, NodeRefuses
<1>. QED BY <1>7, <1>8

LEMMA FromBlockEnded ==
  ASSUME Shaped, NEW c \in Channels, Sound(c), InOrderAnswers, BlockEnded(c), Step(c)
  PROVE  Result(c)
<1>1. Writes(c) /\ node[c].st = "idle" /\ Written(c)
  BY DEF BlockEnded
<1>2. ASSUME status[c] = BLOCK_WRFINA \union WAIT_RES,
             Wire(c, <<>>, <<SdoFrame(\hA1, mux[c], 0, NoChunk)>>)
      PROVE  Result(c)
  <2> DEFINE f == SdoFrame(\hA1, mux[c], 0, NoChunk)
  <2>1. WAIT_RES \subseteq status[c] /\ ~ReadingBlock(c)
    BY <1>2 DEF WAIT_RES, BLOCK_WRFINA, BLOCK_READ, ReadingBlock
  <2>2. SUFFICES ASSUME Receive(c) PROVE Result(c)
    BY <1>1, <1>2, <2>1, WriteFacts, InAnswer
  <2>3. /\ MGR_HandleSDOClientResponse(c, f) /\ WorldKept /\ resp'[c] = <<>>
        /\ req' = [req EXCEPT ![c] = @ \o out'.tx] /\ req[c] = <<>>
    BY <1>2, <2>2, ReceiveOne DEF Wire
  <2>f. f.cs = \hA1
    BY DEF SdoFrame
  <2>. HIDE DEF f
  <2>4. RecvBlockWriteEnd(c, f)
    BY <2>1, <2>3, <2>f, Branch
  <2>5. /\ status'[c] = BLOCK_WRFINA /\ out'.cb = <<>> /\ out'.tx = <<>>
        /\ UNCHANGED <<bufmax, buflen, pBuf, pending, job, mux, calls, node, object, got, lost>>
    BY <2>3, <2>4 DEF RecvBlockWriteEnd, Silent, Out, Set, Shaped, buffer, WorldKept
  <2>6. req'[c] = <<>>
    BY <2>3, <2>5, ShortQueues DEF Shaped
  <2>7. BlockEnded(c)'
    BY <1>1, <2>3, <2>5, <2>6 DEF BlockEnded, Writes, Runs, Written, Entry, Wire
  <2>8. Sound(c)'
    BY <2>5, SoundKept DEF Sound
  <2>9. Unseen(c)
    BY <2>5 DEF Unseen
  <2>. QED BY <2>7, <2>8, <2>9 DEF Result, InPhase, Effect
<1>3. ASSUME status[c] = BLOCK_WRFINA, Wire(c, <<>>, <<>>)
      PROVE  Result(c)
  <2>1. ~(WAIT_RES \subseteq status[c])
    BY <1>3 DEF WAIT_RES, BLOCK_WRFINA
  <2>2. Serve(c) /\ Proceed(c)
    BY <1>1, <1>3, <2>1, WriteFacts, InTurn
  <2>3. FinishBlockWrite(c)
    BY <1>3, <2>2, TurnBranch
  <2>4. WorldKept /\ UNCHANGED resp /\ req' = [req EXCEPT ![c] = @ \o out'.tx]
    BY <2>2, ServeKeeps
  <2>5. status'[c] = READY /\ Complete(c, "SDOERR_OK", <<>>) /\ UNCHANGED got
    BY <2>3 DEF FinishBlockWrite, Set, Shaped
  <2>. QED BY <1>1, <1>3, <2>4, <2>5, WriteSucceeds DEF Wire
<1>. QED BY <1>2, <1>3 DEF BlockEnded
-----------------------------------------------------------------------------
(* Reads: expedited and segmented.                                         *)
LEMMA EntryFacts ==
  ASSUME NEW c \in Channels, Sound(c)
  PROVE  /\ Entry(c).len \in Nat \ {0} /\ Entry(c) = Whole(Entry(c).src, Entry(c).len)
         /\ \A n \in Nat \ {0} : Prefix(Entry(c).src, n) = Whole(Entry(c).src, n)
<1>1. Entry(c) \in Contents
  BY DEF Sound, Entry
<1>2. PICK src \in Data, len \in Sizes \union ObjectSizes :
             Entry(c) = [src |-> src, len |-> len, good |-> TRUE]
  BY <1>1 DEF Contents
<1>3. len \in Nat \ {0}
  BY ClientAssumption, SystemAssumption
<1>. QED BY <1>2, <1>3 DEF Whole, Prefix

LEMMA ReadFacts ==
  ASSUME NEW c \in Channels, Reads(c)
  PROVE  /\ pending[c] /\ bufmax[c] \in Nat \ {0}
         /\ job[c].kind = "read" /\ job[c].mux = mux[c]
<1>1. pending[c] /\ bufmax[c] \in Sizes
  BY DEF Reads, Runs
<1>2. job[c] = [kind |-> "read", mux |-> mux[c], src |-> NoData, len |-> bufmax[c]]
  BY DEF Reads, Runs
<1>3. bufmax[c] \in Nat \ {0}
  BY <1>1, ClientAssumption
<1>4. job[c].kind = "read" /\ job[c].mux = mux[c]
  BY <1>2
<1>. QED BY <1>1, <1>3, <1>4

LEMMA ReadSucceeds ==
  ASSUME Shaped, NEW c \in Channels, Sound(c), Reads(c), WorldKept,
         NEW tx, Complete(c, "SDOERR_OK", tx),
         status'[c] \in {READY, READY \union SEGMENTED, BLOCK_INITRD},
         req[c] = <<>>, resp'[c] = <<>>, req' = [req EXCEPT ![c] = @ \o out'.tx],
         \/ tx = <<>> /\ node[c].st = "idle"
         \/ \E f : tx = <<f>> /\ LastWord(c, f),
         got'[c] = Entry(c)
  PROVE  Result(c)
<1>1. IsTrue(c, "SDOERR_OK")'
  BY ReadFacts DEF IsTrue, Codes, ErrCodes, WorldKept, Entry
<1>2. pending[c] /\ job[c].kind # "write"
  BY ReadFacts
<1>. QED BY <1>1, <1>2, CompleteEnds DEF Calm

LEMMA ExpeditedBits ==
  ASSUME NEW n \in 1 .. 4
  PROVE  /\ \h43 + 4 * (4 - n) \in {\h43, \h47, \h4B, \h4F}
         /\ ExpeditedLen(\h43 + 4 * (4 - n)) = n
<1>1. n = 1 \/ n = 2 \/ n = 3 \/ n = 4
  OBVIOUS
<1>. QED BY <1>1 DEF ExpeditedLen

LEMMA FromFetched ==
  ASSUME Shaped, NEW c \in Channels, Sound(c), InOrderAnswers, Fetched(c), Step(c)
  PROVE  Result(c)
<1> DEFINE e == Entry(c)
           f == SdoFrame(\h43 + 4 * (4 - e.len), mux[c], 0, Slice(e.src, 0, e.len))
<1>1. /\ Reads(c) /\ status[c] = BLOCK_INITRD \union WAIT_RES /\ pBuf[c].off = 0
      /\ got[c] = Empty /\ e.len <= 4 /\ Wire(c, <<>>, <<f>>) /\ node[c].st = "idle"
  BY DEF Fetched, BegunRead, Asks
<1>2. WAIT_RES \subseteq status[c] /\ ~ReadingBlock(c) /\ status[c] \ WAIT_RES = BLOCK_INITRD
  <2>1. status[c] = BLOCK_INITRD \union WAIT_RES
    BY <1>1
  <2>. QED BY <2>1 DEF WAIT_RES, BLOCK_INITRD, BLOCK_READ, ReadingBlock
<1>3. SUFFICES ASSUME Receive(c) PROVE Result(c)
  BY <1>1, <1>2, ReadFacts, InAnswer
<1>4. /\ MGR_HandleSDOClientResponse(c, f) /\ WorldKept /\ resp'[c] = <<>>
      /\ req' = [req EXCEPT ![c] = @ \o out'.tx] /\ req[c] = <<>>
  BY <1>1, <1>3, ReceiveOne DEF Wire
<1>5. e.len \in 1 .. 4 /\ e = Whole(e.src, e.len) /\ Prefix(e.src, e.len) = Whole(e.src, e.len)
  BY <1>1, EntryFacts
<1>6. /\ f.cs \in {\h43, \h47, \h4B, \h4F} /\ f.mux = mux[c]
      /\ ExpeditedLen(f.cs) = e.len /\ f.data = Slice(e.src, 0, e.len)
  BY <1>5, ExpeditedBits DEF SdoFrame
<1>. HIDE DEF f, e
<1>7. RecvExpedited(c, f)
  BY <1>2, <1>4, <1>6, Branch
<1>8. /\ Complete(c, "SDOERR_OK", <<>>) /\ status'[c] = BLOCK_INITRD
      /\ got'[c] = Place(Empty, 0, f.data, e.len)
  BY <1>1, <1>2, <1>6, <1>7 DEF RecvExpedited, Set, Shaped
<1>9. got'[c] = e
  <2>1. Place(Prefix(e.src, 0), 0, Slice(e.src, 0, e.len), e.len) = Prefix(e.src, 0 + e.len)
    BY <1>5, PlaceNext
  <2>2. 0 + e.len = e.len /\ Prefix(e.src, 0) = Empty
    BY <1>5 DEF Prefix
  <2>. QED BY <1>5, <1>6, <1>8, <2>1, <2>2
<1>. QED BY <1>1, <1>4, <1>8, <1>9, ReadSucceeds DEF e

LEMMA FromUploadOpened ==
  ASSUME Shaped, NEW c \in Channels, Sound(c), InOrderAnswers, UploadOpened(c), Step(c)
  PROVE  Result(c)
<1> DEFINE f == SdoFrame(\h41, mux[c], Entry(c).len, NoChunk)
<1>1. /\ Reads(c) /\ status[c] = BLOCK_INITRD \union WAIT_RES /\ pBuf[c].off = 0
      /\ got[c] = Empty /\ Wire(c, <<>>, <<f>>) /\ Sends(c, "read", 0)
      /\ node[c].tog = 0 /\ buflen[c] = bufmax[c] /\ curlen[c] = 0 /\ toggle[c] = 0
  BY DEF UploadOpened, BegunRead, Asks
<1>2. WAIT_RES \subseteq status[c] /\ ~ReadingBlock(c) /\ status[c] \ WAIT_RES = BLOCK_INITRD
  <2>1. status[c] = BLOCK_INITRD \union WAIT_RES
    BY <1>1
  <2>. QED BY <2>1 DEF WAIT_RES, BLOCK_INITRD, BLOCK_READ, ReadingBlock
<1>3. SUFFICES ASSUME Receive(c) PROVE Result(c)
  BY <1>1, <1>2, ReadFacts, InAnswer
<1>4. /\ MGR_HandleSDOClientResponse(c, f) /\ WorldKept /\ resp'[c] = <<>>
      /\ req' = [req EXCEPT ![c] = @ \o out'.tx] /\ req[c] = <<>>
  BY <1>1, <1>3, ReceiveOne DEF Wire
<1>5. f.cs = \h41 /\ f.mux = mux[c]
  BY DEF SdoFrame
<1>. HIDE DEF f
<1>6. RecvUploadInit(c, f)
  BY <1>2, <1>4, <1>5, Branch
<1>7. /\ status'[c] = BLOCK_INITRD \union NEXT_UPL
      /\ sdomsg'[c] = SdoFrame(\h60, NoMux, 0, NoChunk) /\ out'.cb = <<>> /\ out'.tx = <<>>
      /\ UNCHANGED <<bufmax, buflen, pBuf, pending, job, mux, calls, node, object, got, lost,
                     curlen, toggle>>
  BY <1>2, <1>4, <1>6 DEF RecvUploadInit, Silent, Out, Set, Shaped, buffer, progress, WorldKept
<1>8. req'[c] = <<>>
  BY <1>4, <1>7, ShortQueues DEF Shaped
<1>9. Upload(c, {})'
  <2>1. Reads(c)'
    BY <1>1, <1>7 DEF Reads, Runs
  <2>2. Entry(c)' = Entry(c) /\ curlen'[c] = 0 /\ 0 \in 0 .. Entry(c).len - 1
    BY <1>1, <1>7, EntryFacts DEF Entry
  <2>3. got'[c] = Prefix(Entry(c).src, 0)
    BY <1>1, <1>7 DEF Prefix
  <2>4. \h60 + 0 = \h60 /\ toggle'[c] = 0 /\ BLOCK_INITRD \union NEXT_UPL = BLOCK_INITRD \union NEXT_UPL \union {}
    BY <1>1, <1>7
  <2>. QED BY <1>1, <1>7, <2>1, <2>2, <2>3, <2>4 DEF Upload
<1>10. UploadReady(c)'
  BY <1>1, <1>4, <1>7, <1>8, <1>9 DEF UploadReady, Wire, Sends, Entry
<1>11. Sound(c)'
  BY <1>7, SoundKept DEF Sound
<1>12. Unseen(c)
  BY <1>7 DEF Unseen
<1>. QED BY <1>10, <1>11, <1>12 DEF Result, InPhase, Effect

LEMMA FromUploadReady ==
  ASSUME Shaped, NEW c \in Channels, Sound(c), InOrderAnswers, UploadReady(c), Step(c)
  PROVE  Result(c)
<1>1. /\ Reads(c) /\ Upload(c, {}) /\ Wire(c, <<>>, <<>>)
      /\ status[c] \in {BLOCK_INITRD \union NEXT_UPL \union {}, NEXT_UPL \union {}}
      /\ Sends(c, "read", curlen[c]) /\ node[c].tog = toggle[c]
  BY DEF UploadReady, Upload
<1>2. ~(WAIT_RES \subseteq status[c]) /\ NEXT_UPL \subseteq status[c]
  BY <1>1 DEF NEXT_UPL, BLOCK_INITRD, WAIT_RES
<1>3. Serve(c) /\ Proceed(c)
  BY <1>1, <1>2, ReadFacts, InTurn
<1>4. SendNext(c)
  BY <1>2, <1>3, TurnBranch
<1>5. WorldKept /\ UNCHANGED resp /\ req' = [req EXCEPT ![c] = @ \o out'.tx]
  BY <1>3, ServeKeeps
<1>6. /\ status'[c] = status[c] \union WAIT_RES /\ out'.tx = <<sdomsg[c]>> /\ out'.cb = <<>>
      /\ UNCHANGED <<bufmax, buflen, pBuf, pending, job, mux, calls, node, object, got, lost,
                     curlen, toggle, sdomsg>>
  BY <1>4, <1>5 DEF SendNext, Send, Out, Set, Shaped, buffer, progress, WorldKept
<1>7. req'[c] = <<sdomsg[c]>> /\ resp'[c] = <<>>
  BY <1>1, <1>5, <1>6, ShortQueues DEF Shaped, Wire
<1>8. Upload(c, WAIT_RES)'
  <2>1. status'[c] \in {BLOCK_INITRD \union NEXT_UPL \union WAIT_RES, NEXT_UPL \union WAIT_RES}
    BY <1>1, <1>6
  <2>2. Upload(c, {})
    BY <1>1
  <2>. QED BY <1>6, <2>1, <2>2 DEF Upload, Reads, Runs, Entry
<1>9. UploadAsked(c)'
  BY <1>1, <1>6, <1>7, <1>8 DEF UploadAsked, Wire, Sends, Entry
<1>10. Sound(c)'
  BY <1>6, SoundKept DEF Sound
<1>11. Unseen(c)
  BY <1>6 DEF Unseen
<1>. QED BY <1>9, <1>10, <1>11 DEF Result, InPhase, Effect

LEMMA ToggleBits ==
  ASSUME NEW t \in {0, 16}
  PROVE  /\ \h60 + t \in {\h60, \h70} /\ ToggleBit(\h60 + t) = t
         /\ PutToggle(\h60 + t, FlipToggle(t)) = \h60 + FlipToggle(t)
         /\ FlipToggle(t) \in {0, 16}
  BY DEF ToggleBit, PutToggle, FlipToggle

(* A segment of an upload: how long it is, what its first byte says.       *)
LEMMA UploadBits ==
  ASSUME NEW t \in {0, 16}, NEW len \in 1 .. 7, NEW left \in Nat \ {0},
         len = (IF left > 7 THEN 7 ELSE left),
         NEW cs, cs = t + 2 * (7 - len) + (IF left <= 7 THEN 1 ELSE 0)
  PROVE  /\ cs \in 0 .. 31 /\ ToggleBit(cs) = t /\ (LastSegment(cs) <=> left <= 7)
         /\ SegmentLen(cs) = len
<1> DEFINE last == left <= 7
<1>1. cs = t + (IF last THEN 1 + 2 * (7 - len) ELSE 0) /\ last \in BOOLEAN /\ (last \/ len = 7)
  OBVIOUS
<1>. HIDE DEF last
<1>2. cs \in 0 .. 31 /\ ToggleBit(cs) = t /\ (LastSegment(cs) <=> last) /\ SegmentLen(cs) = len
  BY <1>1, SegmentBits
<1>. QED BY <1>2 DEF last

LEMMA FromUploadAsked ==
  ASSUME Shaped, NEW c \in Channels, Sound(c), InOrderAnswers, UploadAsked(c), Step(c)
  PROVE  Result(c)
<1> DEFINE f == sdomsg[c]
           n == node[c]
           left == Entry(c).len - curlen[c]
           len == Least(left, 7)
           cs == toggle[c] + 2 * (7 - len) + (IF left <= 7 THEN 1 ELSE 0)
           data == Slice(Entry(c).src, curlen[c], len)
<1>1. /\ Reads(c) /\ Upload(c, WAIT_RES) /\ Wire(c, <<f>>, <<>>)
      /\ status[c] \in {BLOCK_INITRD \union NEXT_UPL \union WAIT_RES, NEXT_UPL \union WAIT_RES}
      /\ n.st = "read" /\ n.mux = mux[c] /\ n.size = Entry(c).len /\ n.pos = curlen[c]
      /\ n.tog = toggle[c] /\ toggle[c] \in {0, 16}
      /\ f.cs = \h60 + toggle[c] /\ curlen[c] \in 0 .. Entry(c).len - 1
  BY DEF UploadAsked, Upload, Sends, SdoFrame
<1>2. WAIT_RES \subseteq status[c] /\ ~ReadingBlock(c)
  <2>1. status[c] \in {BLOCK_INITRD \union NEXT_UPL \union WAIT_RES, NEXT_UPL \union WAIT_RES}
    BY <1>1
  <2>. QED BY <2>1 DEF WAIT_RES, BLOCK_INITRD, NEXT_UPL, BLOCK_READ, ReadingBlock
<1>3. SUFFICES ASSUME NodeStep(c) PROVE Result(c)
  BY <1>1, <1>2, ReadFacts, InRequest
<1>4. Head(req[c]) = f /\ req'[c] = <<>> /\ Outside /\ UNCHANGED lost /\ resp[c] = <<>>
  BY <1>1, <1>3, NodeTakes DEF Wire
<1>5. f.cs \in {\h60, \h70} /\ ToggleBit(f.cs) = n.tog
  BY <1>1, ToggleBits
<1>. HIDE DEF f
<1>6. NodeReadSegment(c, f)
  BY <1>1, <1>3, <1>4, <1>5, NodeBranch
<1>7. left \in Nat \ {0} /\ len = (IF left > 7 THEN 7 ELSE left)
  BY <1>1, EntryFacts DEF Least
<1>8. /\ node' = [node EXCEPT ![c] = IF left <= 7 THEN Idle(mux[c])
                     ELSE [n EXCEPT !.pos = @ + 7, !.tog = FlipToggle(@)]]
      /\ Reply(c, mux[c], cs, 0, data) /\ UNCHANGED object
  <2>1. n.size - n.pos = left
    BY <1>1
  <2>2. Entry(c) = object[c][n.mux]
    BY <1>1 DEF Entry
  <2>. HIDE DEF left
  <2>. QED BY <1>1, <1>5, <1>6, <1>7, <2>1, <2>2 DEF NodeReadSegment, Set
<1>9. resp'[c] = <<SdoFrame(cs, mux[c], 0, data)>>
  BY <1>4, <1>8, NodeReplies
<1>10. UNCHANGED <<status, bufmax, buflen, pBuf, curlen, toggle, mux, sdomsg, pending, got, job>>
       /\ Reads(c)'
  BY <1>1, <1>4, ClientKept
<1>11. Upload(c, WAIT_RES)' /\ Entry(c)' = Entry(c)
  BY <1>1, <1>8, <1>10 DEF Upload, Entry
<1>12. Wire(c, <<>>, <<SdoFrame(toggle[c] + 2 * (7 - Least(Entry(c).len - curlen[c], 7))
                                 + (IF Entry(c).len - curlen[c] <= 7 THEN 1 ELSE 0),
                           mux[c], 0, Slice(Entry(c).src, curlen[c],
                                            Least(Entry(c).len - curlen[c], 7)))>>)'
  BY <1>4, <1>9, <1>10, <1>11 DEF Wire
<1>13. CASE left <= 7
  <2>1. node' = [node EXCEPT ![c] = Idle(mux[c])]
    BY <1>8, <1>13
  <2>2. node'[c].st = "idle"
    BY <2>1, IdleNode DEF Shaped
  <2>3. Entry(c)'.len - curlen'[c] <= 7
    BY <1>10, <1>11, <1>13
  <2>. HIDE DEF left
  <2>4. UploadAnswered(c)'
    BY <1>11, <1>12, <2>2, <2>3 DEF UploadAnswered
  <2>. QED BY <1>4, <1>8, <2>1, <2>4, IdleNode, NodeSilent DEF InPhase
<1>14. CASE ~(left <= 7)
  <2>1. PICK m : /\ node' = [node EXCEPT ![c] = m]
                 /\ m = [n EXCEPT !.pos = @ + 7, !.tog = FlipToggle(@)]
    BY <1>8, <1>14
  <2>2. /\ m.st = "read" /\ m.mux = mux[c] /\ m.size = Entry(c).len
        /\ m.pos = curlen[c] + 7 /\ m.tog = FlipToggle(toggle[c]) /\ DOMAIN m = NodeFields
    BY <1>1, <2>1 DEF Sound, NodeFields
  <2>3. node'[c] = m
    BY <2>1 DEF Shaped
  <2>4. ~(Entry(c)'.len - curlen'[c] <= 7)
    BY <1>10, <1>11, <1>14
  <2>5. Sends(c, "read", curlen[c] + 7)' /\ node'[c].tog = FlipToggle(toggle'[c])
    BY <1>10, <1>11, <2>2, <2>3 DEF Sends
  <2>. HIDE DEF left
  <2>6. UploadAnswered(c)'
    BY <1>11, <1>12, <2>4, <2>5 DEF UploadAnswered
  <2>. QED BY <1>4, <1>8, <2>1, <2>2, <2>6, NodeSilent DEF InPhase
<1>. QED BY <1>13, <1>14

LEMMA FromUploadAnswered ==
  ASSUME Shaped, NEW c \in Channels, Sound(c), InOrderAnswers, UploadAnswered(c), Step(c)
  PROVE  Result(c)
<1> DEFINE e == Entry(c)
           left == e.len - curlen[c]
           len == Least(left, 7)
           cs == toggle[c] + 2 * (7 - len) + (IF left <= 7 THEN 1 ELSE 0)
           f == SdoFrame(cs, mux[c], 0, Slice(e.src, curlen[c], len))
           t == toggle[c]
<1>1. /\ Reads(c) /\ Upload(c, WAIT_RES) /\ Wire(c, <<>>, <<f>>)
      /\ status[c] \in {BLOCK_INITRD \union NEXT_UPL \union WAIT_RES, NEXT_UPL \union WAIT_RES}
      /\ toggle[c] \in {0, 16} /\ curlen[c] \in 0 .. e.len - 1
      /\ sdomsg[c] = SdoFrame(\h60 + toggle[c], NoMux, 0, NoChunk)
      /\ buflen[c] = bufmax[c] /\ pBuf[c].off = 0 /\ got[c] = Prefix(e.src, curlen[c])
      /\ IF left <= 7 THEN node[c].st = "idle"
         ELSE Sends(c, "read", curlen[c] + 7) /\ node[c].tog = FlipToggle(toggle[c])
  BY DEF UploadAnswered, Upload
<1>2. WAIT_RES \subseteq status[c] /\ ~ReadingBlock(c)
  <2>1. status[c] \in {BLOCK_INITRD \union NEXT_UPL \union WAIT_RES, NEXT_UPL \union WAIT_RES}
    BY <1>1
  <2>. QED BY <2>1 DEF WAIT_RES, BLOCK_INITRD, NEXT_UPL, BLOCK_READ, ReadingBlock
<1>3. SUFFICES ASSUME Receive(c) PROVE Result(c)
  BY <1>1, <1>2, ReadFacts, InAnswer
<1>4. /\ MGR_HandleSDOClientResponse(c, f) /\ WorldKept /\ resp'[c] = <<>>
      /\ req' = [req EXCEPT ![c] = @ \o out'.tx] /\ req[c] = <<>>
  BY <1>1, <1>3, ReceiveOne, ZenonT(40) DEF Wire
<1>5. f.cs = cs /\ f.data = Slice(e.src, curlen[c], len)
  BY DEF SdoFrame
<1>. HIDE DEF f
<1>6. /\ left \in Nat \ {0} /\ len = (IF left > 7 THEN 7 ELSE left) /\ len \in 1 .. 7
      /\ curlen[c] \in Nat /\ curlen[c] + left = e.len /\ len <= left
      /\ e.len \in Nat \ {0} /\ e = Whole(e.src, e.len)
      /\ Prefix(e.src, e.len) = Whole(e.src, e.len)
  BY <1>1, EntryFacts DEF Least
<1>. HIDE DEF len, left, e
<1>7. /\ f.cs \in 0 .. 31 /\ ToggleBit(f.cs) = toggle[c]
      /\ (LastSegment(f.cs) <=> left <= 7) /\ SegmentLen(f.cs) = len
  <2>1. t \in {0, 16} /\ cs = t + 2 * (7 - len) + (IF left <= 7 THEN 1 ELSE 0)
    BY <1>1
  <2>. HIDE DEF cs, t
  <2>2. /\ cs \in 0 .. 31 /\ ToggleBit(cs) = t /\ (LastSegment(cs) <=> left <= 7)
        /\ SegmentLen(cs) = len
    BY <1>6, <2>1, UploadBits
  <2>. QED BY <1>5, <2>2 DEF t
<1>. HIDE DEF cs, t
<1>8. RecvUploadSegment(c, f)
  BY <1>2, <1>4, <1>7, Branch
<1>9. bufmax[c] \in Nat \ {0}
  BY <1>1, ReadFacts
<1>10. CASE ~(curlen[c] + len <= bufmax[c])
  <2>1. ~Fits(c, SegmentLen(f.cs)) /\ ToggleBit(f.cs) = toggle[c]
    BY <1>1, <1>7, <1>10 DEF Fits
  <2>2. Fail(c, "SDOERR_BUFSIZE") /\ UNCHANGED <<got, bufmax>>
    BY <1>8, <2>1 DEF RecvUploadSegment, buffer
  <2>3. TooLarge(c, "SDOERR_BUFSIZE")
    <3>1. e.len > bufmax[c]
      BY <1>6, <1>9, <1>10
    <3>. QED BY <1>1, <3>1, ReadFacts DEF TooLarge, e, Entry
  <2>. QED BY <1>1, <1>4, <2>2, <2>3, ReadFacts, FailEnds
<1>11. CASE curlen[c] + len <= bufmax[c]
  <2>1. Fits(c, SegmentLen(f.cs)) /\ ToggleBit(f.cs) = toggle[c]
    BY <1>1, <1>7, <1>11 DEF Fits
  <2>2. UploadSegmentTaken(c, f) /\ UNCHANGED <<bufmax, buflen, pBuf, blksize, unused, mux>>
    BY <1>8, <2>1 DEF RecvUploadSegment, buffer
  <2>3. Place(got[c], pBuf[c].off + curlen[c], f.data, len) = Prefix(e.src, curlen[c] + len)
    <3>1. Place(Prefix(e.src, curlen[c]), curlen[c], Slice(e.src, curlen[c], len), len)
            = Prefix(e.src, curlen[c] + len)
      <4>1. curlen[c] \in Nat /\ len \in Nat \ {0}
        BY <1>6
      <4>. QED BY <4>1, PlaceNext
    <3>2. pBuf[c].off + curlen[c] = curlen[c]
      BY <1>1, <1>6
    <3>. QED BY <1>1, <1>5, <3>1, <3>2
  <2>4. curlen'[c] = curlen[c] + len /\ got'[c] = Prefix(e.src, curlen[c] + len)
    BY <1>7, <2>2, <2>3 DEF UploadSegmentTaken, Set, Shaped
  <2>5. CASE left <= 7
    <3>1. Complete(c, "SDOERR_OK", <<>>) /\ status'[c] = READY \union SEGMENTED
      BY <1>7, <2>2, <2>5 DEF UploadSegmentTaken, Set, Shaped
    <3>2. curlen[c] + len = e.len
      BY <1>6, <2>5
    <3>3. got'[c] = Entry(c)
      BY <1>6, <2>4, <3>2 DEF e
    <3>. QED BY <1>1, <1>4, <2>5, <3>1, <3>3, ReadSucceeds
  <2>6. CASE ~(left <= 7)
    <3>1. /\ status'[c] = NEXT_UPL /\ toggle'[c] = FlipToggle(toggle[c])
          /\ sdomsg'[c] = ToggledFrame(c, FlipToggle(toggle[c]))
          /\ out'.cb = <<>> /\ out'.tx = <<>> /\ UNCHANGED pending
      BY <1>7, <2>2, <2>6 DEF UploadSegmentTaken, Set, Shaped, Silent, Out
    <3>2. sdomsg'[c] = SdoFrame(\h60 + toggle'[c], NoMux, 0, NoChunk) /\ toggle'[c] \in {0, 16}
      <4>1. ToggledFrame(c, FlipToggle(toggle[c]))
              = SdoFrame(PutToggle(\h60 + toggle[c], FlipToggle(toggle[c])), NoMux, 0, NoChunk)
        BY <1>1 DEF ToggledFrame, SdoFrame
      <4>. QED BY <1>1, <3>1, <4>1, ToggleBits
    <3>3. req'[c] = <<>>
      BY <1>4, <3>1, ShortQueues DEF Shaped
    <3>4. /\ UNCHANGED <<bufmax, buflen, pBuf, pending, job, mux, calls, node, object, lost>>
          /\ Entry(c)' = e
      BY <1>4, <2>2, <3>1 DEF WorldKept, Entry, e
    <3>5. len = 7 /\ curlen'[c] \in 0 .. e.len - 1
      BY <1>6, <2>4, <2>6
    <3>6. Reads(c)'
      BY <1>1, <3>4 DEF Reads, Runs
    <3>7. Upload(c, {})'
      <4>1. status'[c] = NEXT_UPL \union {}
        BY <3>1
      <4>. QED BY <1>1, <2>4, <3>2, <3>4, <3>5, <3>6, <4>1 DEF Upload
    <3>8. Sends(c, "read", curlen[c])' /\ node'[c].tog = toggle'[c]
      <4>1. Sends(c, "read", curlen[c] + 7) /\ node[c].tog = FlipToggle(toggle[c])
        BY <1>1, <2>6
      <4>2. curlen'[c] = curlen[c] + 7
        BY <2>4, <3>5
      <4>. QED BY <3>1, <3>4, <4>1, <4>2 DEF Sends, e
    <3>9. UploadReady(c)'
      BY <1>4, <3>3, <3>7, <3>8 DEF UploadReady, Wire
    <3>10. Sound(c)'
      BY <3>4, SoundKept DEF Sound
    <3>11. Unseen(c)
      BY <1>1, <3>1, <3>4 DEF Unseen
    <3>. QED BY <3>9, <3>10, <3>11 DEF Result, InPhase, Effect
  <2>. QED BY <2>5, <2>6
<1>. QED BY <1>10, <1>11
-----------------------------------------------------------------------------
(* Reads in blocks.                                                        *)
LEMMA FromBlockReadOpened ==
  ASSUME Shaped, NEW c \in Channels, Sound(c), InOrderAnswers, BlockReadOpened(c), Step(c)
  PROVE  Result(c)
<1> DEFINE f == SdoFrame(\hC2, mux[c], Entry(c).len, NoChunk)
<1>1. /\ Reads(c) /\ status[c] = BLOCK_INITRD \union WAIT_RES /\ pBuf[c].off = 0
      /\ got[c] = Empty /\ Wire(c, <<>>, <<f>>) /\ Sends(c, "blockRead", 0)
      /\ node[c].blk = SDO_BLK_MAX_SIZE /\ buflen[c] = bufmax[c] /\ curlen[c] = 0
      /\ toggle[c] = 0 /\ Entry(c).len > 4
  BY DEF BlockReadOpened, BegunRead, Asks
<1>2. WAIT_RES \subseteq status[c] /\ ~ReadingBlock(c)
  <2>1. status[c] = BLOCK_INITRD \union WAIT_RES
    BY <1>1
  <2>. QED BY <2>1 DEF WAIT_RES, BLOCK_INITRD, BLOCK_READ, ReadingBlock
<1>3. SUFFICES ASSUME Receive(c) PROVE Result(c)
  BY <1>1, <1>2, ReadFacts, InAnswer
<1>4. /\ MGR_HandleSDOClientResponse(c, f) /\ WorldKept /\ resp'[c] = <<>>
      /\ req' = [req EXCEPT ![c] = @ \o out'.tx] /\ req[c] = <<>>
  BY <1>1, <1>3, ReceiveOne DEF Wire
<1>5. f.cs = \hC2 /\ f.arg = Entry(c).len
  BY DEF SdoFrame
<1>. HIDE DEF f
<1>6. RecvBlockReadInit(c, f)
  BY <1>2, <1>4, <1>5, Branch
<1>7. UNCHANGED <<bufmax, pBuf, curlen, toggle, mux, got>>
  BY <1>6 DEF RecvBlockReadInit, progress
<1>8. CASE ~(f.arg <= bufmax[c])
  <2>1. Fail(c, "SDO_ABORT_NOMEM")
    BY <1>6, <1>8 DEF RecvBlockReadInit
  <2>2. TooLarge(c, "SDO_ABORT_NOMEM")
    <3>1. Entry(c).len > bufmax[c]
      BY <1>1, <1>5, <1>8, EntryFacts, ReadFacts
    <3>. QED BY <1>1, <3>1, ReadFacts DEF TooLarge, Entry
  <2>. QED BY <1>1, <1>4, <1>7, <2>1, <2>2, ReadFacts, FailEnds
<1>9. CASE f.arg <= bufmax[c]
  <2>1. /\ status'[c] = BLOCK_READ /\ buflen'[c] = Entry(c).len
        /\ out'.cb = <<>> /\ out'.tx = <<>> /\ UNCHANGED pending
    BY <1>5, <1>6, <1>9 DEF RecvBlockReadInit, Silent, Out, Set, Shaped
  <2>2. req'[c] = <<>>
    BY <1>4, <2>1, ShortQueues DEF Shaped
  <2>3. UNCHANGED <<mux, calls, job, node, object, lost>> /\ Entry(c)' = Entry(c)
    BY <1>4 DEF WorldKept, Entry
  <2>4. Reads(c)'
    BY <1>1, <1>7, <2>1, <2>3 DEF Reads, Runs
  <2>5. got'[c] = Prefix(Entry(c).src, 0)
    BY <1>1, <1>7 DEF Prefix
  <2>6. 0 \in 0 .. Entry(c).len /\ 0 \in 0 .. SDO_BLK_MAX_SIZE
    BY EntryFacts, ClientAssumption
  <2>7. BlockReads(c)'
    BY <1>1, <1>5, <1>7, <1>9, <2>1, <2>3, <2>4, <2>5, <2>6 DEF BlockReads
  <2>8. BlockReadStarting(c)'
    BY <1>1, <1>4, <1>7, <2>1, <2>2, <2>3, <2>7 DEF BlockReadStarting, Sends, Wire
  <2>9. Sound(c)'
    BY <2>3, SoundKept DEF Sound
  <2>10. Unseen(c)
    BY <1>7, <2>1, <2>3 DEF Unseen
  <2>. QED BY <2>8, <2>9, <2>10 DEF Result, InPhase, Effect
<1>. QED BY <1>8, <1>9

(* The segments a node sends from byte pos on.                             *)
Count(size, pos) == (size - pos + 6) \div 7
LastBytes(size, pos, i) == IF pos + 7 * i > size THEN (size - pos) % 7 ELSE 7
LEMMA CountFacts ==
  ASSUME NEW size \in Nat, NEW pos \in 0 .. size - 1
  PROVE  /\ Count(size, pos) \in Nat \ {0}
         /\ \A i \in Nat : i < Count(size, pos) <=> pos + 7 * i < size
         /\ \A i \in 1 .. Count(size, pos) :
              /\ i = Count(size, pos) <=> pos + 7 * i >= size
              /\ LastBytes(size, pos, i) = Least(7, size - (pos + 7 * (i - 1)))
              /\ LastBytes(size, pos, i) \in 1 .. 7
<1> DEFINE d == size - pos
           n == Count(size, pos)
<1>1. d \in Nat \ {0} /\ n = (d + 6) \div 7
  BY DEF Count
<1>2. n \in Nat \ {0} /\ 7 * (n - 1) < d /\ d <= 7 * n
  BY <1>1
<1>. HIDE DEF n
<1>3. \A i \in Nat : i < n <=> pos + 7 * i < size
  BY <1>2
<1>4. ASSUME NEW i \in 1 .. n
      PROVE  /\ i = n <=> pos + 7 * i >= size
             /\ LastBytes(size, pos, i) = Least(7, size - (pos + 7 * (i - 1)))
             /\ LastBytes(size, pos, i) \in 1 .. 7
  <2>1. i = n <=> pos + 7 * i >= size
    BY <1>2
  <2>2. CASE pos + 7 * i > size
    <3>1. i = n /\ d < 7 * n /\ 7 * (n - 1) < d
      BY <1>2, <2>1, <2>2
    <3>2. PICK r \in 1 .. 6 : r = d - 7 * (n - 1)
      BY <1>1, <1>2, <3>1
    <3>3. d % 7 = r
      BY <1>2, <3>2
    <3>4. size - (pos + 7 * (i - 1)) = r
      BY <1>2, <3>1, <3>2
    <3>. QED BY <2>1, <2>2, <3>3, <3>4 DEF LastBytes, Least
  <2>3. CASE ~(pos + 7 * i > size)
    BY <1>2, <2>1, <2>3 DEF LastBytes, Least
  <2>. QED BY <2>1, <2>2, <2>3
<1>. QED BY <1>2, <1>3, <1>4 DEF n

(* The segment after the first i of them, and the k that are sent.         *)
SentAt(f, i, src, size, pos) ==
  /\ pos + 7 * i < size
  /\ SeqNo(f.cs) = i + 1
  /\ LastOfBlock(f.cs) <=> pos + 7 * (i + 1) >= size
  /\ f.data = Slice(src, pos + 7 * i, Least(7, size - (pos + 7 * i)))
Sent(all, k, src, size, pos, blk) ==
  /\ all = [i \in 1 .. k |-> all[i]] /\ Len(all) = k
  /\ \A i \in 0 .. k - 1 :
       /\ SentAt(all[i + 1], i, src, size, pos)
       /\ i + 1 = k <=> i + 1 = blk \/ pos + 7 * (i + 1) >= size

LEMMA SentSegments ==
  ASSUME NEW n, NEW src, NEW size, NEW pos, NEW blk, n.size = size, n.pos = pos, n.blk = blk,
         size \in Nat, pos \in 0 .. size - 1, blk \in 1 .. 127,
         NEW all, all = Segments(n, src)
  PROVE  \E k \in 1 .. blk : Sent(all, k, src, size, pos, blk)
<1> DEFINE count == Count(size, pos)
           k == IF count > blk THEN blk ELSE count
           frame(i) == SdoFrame(IF i = count THEN 128 + i ELSE i, n.mux, 0,
                         Slice(src, pos + 7 * (i - 1), LastBytes(size, pos, i)))
<1>1. all = [i \in 1 .. k |-> frame(i)]
  BY Zenon DEF Segments, Count, LastBytes
<1>2. /\ count \in Nat \ {0}
      /\ \A i \in Nat : i < count <=> pos + 7 * i < size
      /\ \A i \in 1 .. count :
              /\ i = count <=> pos + 7 * i >= size
              /\ LastBytes(size, pos, i) = Least(7, size - (pos + 7 * (i - 1)))
              /\ LastBytes(size, pos, i) \in 1 .. 7
  BY CountFacts
<1>. HIDE DEF count
<1>3. k \in 1 .. blk /\ k <= count /\ k \in 1 .. 127 /\ (k = count \/ k = blk)
  BY <1>2
<1>. HIDE DEF k
<1>4. \A i \in 1 .. k : all[i] = frame(i)
  BY <1>1, Zenon
<1>5. all = [i \in 1 .. k |-> all[i]]
  BY <1>1, <1>4, Zenon
<1>6. Len(all) = k
  <2>1. k \in Nat
    BY <1>3
  <2>. HIDE DEF frame
  <2>. QED BY <1>1, <2>1
<1>7. ASSUME NEW i \in 0 .. k - 1
      PROVE  /\ SentAt(all[i + 1], i, src, size, pos)
             /\ i + 1 = k <=> i + 1 = blk \/ pos + 7 * (i + 1) >= size
  <2>1. i \in Nat /\ i < count /\ i + 1 \in 1 .. k /\ i + 1 \in 1 .. count /\ i + 1 \in 1 .. 127
    BY <1>2, <1>3
  <2>2. /\ pos + 7 * i < size
        /\ i + 1 = count <=> pos + 7 * (i + 1) >= size
        /\ LastBytes(size, pos, i + 1) = Least(7, size - (pos + 7 * ((i + 1) - 1)))
    BY <1>2, <2>1
  <2>3. all[i + 1] = frame(i + 1)
    BY <1>4, <2>1
  <2>4. /\ all[i + 1].cs = (IF i + 1 = count THEN 128 + (i + 1) ELSE i + 1)
        /\ all[i + 1].data = Slice(src, pos + 7 * ((i + 1) - 1), LastBytes(size, pos, i + 1))
    BY <2>3 DEF SdoFrame
  <2>5. (i + 1) - 1 = i
    BY <2>1
  <2>6. all[i + 1].data = Slice(src, pos + 7 * i, Least(7, size - (pos + 7 * i)))
    BY <2>2, <2>4, <2>5
  <2>7. SeqNo(all[i + 1].cs) = i + 1 /\ (LastOfBlock(all[i + 1].cs) <=> i + 1 = count)
    <3> DEFINE s == i + 1
    <3>1. s \in 1 .. 127
      BY <2>1
    <3>. HIDE DEF s, frame
    <3>2. /\ SeqNo(IF s = count THEN 128 + s ELSE s) = s
          /\ LastOfBlock(IF s = count THEN 128 + s ELSE s) <=> s = count
      BY <3>1 DEF SeqNo, LastOfBlock
    <3>. QED BY <2>4, <3>2 DEF s
  <2>8. i + 1 = k <=> i + 1 = blk \/ i + 1 = count
    BY <1>2, <1>3, <2>1
  <2>. QED BY <2>2, <2>6, <2>7, <2>8 DEF SentAt
<1>. QED BY <1>3, <1>5, <1>6, <1>7 DEF Sent

(* A node that reads out in blocks sends the next one.                     *)
LEMMA BlockReadSends ==
  ASSUME Shaped, NEW c \in Channels, Sound(c), BlockReads(c), NEW n,
         status[c] = BLOCK_READ \union WAIT_RES, toggle[c] = 0,
         node' = [node EXCEPT ![c] = n], DOMAIN n = NodeFields, n.st = "blockRead",
         n.mux = mux[c], n.size = Entry(c).len, n.blk = SDO_BLK_MAX_SIZE,
         n.pos = curlen[c], curlen[c] # Entry(c).len,
         Answer(c, Segments(n, object[c][n.mux].src)),
         Outside, UNCHANGED <<object, lost>>, req'[c] = <<>>, resp[c] = <<>>
  PROVE  Result(c)
<1> DEFINE all == Segments(n, Entry(c).src)
<1>1. object[c][n.mux] = Entry(c)
  BY DEF Entry
<1>2. curlen[c] \in 0 .. Entry(c).len /\ Entry(c).len \in Nat /\ SDO_BLK_MAX_SIZE \in 1 .. 127
  BY EntryFacts, ClientAssumption DEF BlockReads
<1>3. curlen[c] \in 0 .. Entry(c).len - 1
  BY <1>2
<1>4. PICK k \in 1 .. SDO_BLK_MAX_SIZE : all = [i \in 1 .. k |-> all[i]] /\ Len(all) = k
  <2> DEFINE size == Entry(c).len
             pos == curlen[c]
             src == Entry(c).src
  <2>1. /\ n.size = size /\ n.pos = pos /\ n.blk = SDO_BLK_MAX_SIZE
        /\ size \in Nat /\ pos \in 0 .. size - 1 /\ SDO_BLK_MAX_SIZE \in 1 .. 127
        /\ all = Segments(n, src)
    BY <1>2, <1>3
  <2>. HIDE DEF size, pos, src, all
  <2>2. PICK k \in 1 .. SDO_BLK_MAX_SIZE : Sent(all, k, src, size, pos, SDO_BLK_MAX_SIZE)
    BY <2>1, SentSegments
  <2>. QED BY <2>2 DEF Sent
<1>5. k \in Nat /\ k > 0
  BY <1>2, <1>4
<1>6. resp'[c] = all
  <2>1. resp'[c] = <<>> \o all
    BY <1>1 DEF Answer, Shaped
  <2>. HIDE DEF all
  <2>2. <<>> \o all = all
    BY <1>4, <1>5, Listing
  <2>. QED BY <2>1, <2>2
<1>7. UNCHANGED <<status, bufmax, buflen, pBuf, curlen, toggle, mux, pending, got, calls, job>>
      /\ Reads(c)' /\ out'.cb = <<>>
  BY ClientKept DEF BlockReads
<1>8. Entry(c)' = Entry(c) /\ node'[c] = n
  BY <1>7 DEF Entry, Shaped
<1>9. all = Segments(node[c], Entry(c).src)'
  BY <1>8 DEF Segments
<1>. HIDE DEF all
<1>10. BlockReads(c)'
  BY <1>7, <1>8 DEF BlockReads
<1>11. /\ resp'[c] = [i \in 1 .. Len(all) - 0 |-> all[0 + i]]
       /\ 0 \in toggle'[c] .. Len(all) - 1 /\ toggle'[c] = 0
  <2>1. k - 0 = k /\ 0 \in 0 .. k - 1 /\ \A i \in 1 .. k : 0 + i = i
    BY <1>5
  <2>2. [i \in 1 .. k |-> all[0 + i]] = [i \in 1 .. k |-> all[i]]
    BY <2>1, Zenon
  <2>. QED BY <1>4, <1>6, <1>7, <2>1, <2>2
<1>12. curlen'[c] = node'[c].pos + 7 * toggle'[c] /\ node'[c].pos \in 0 .. Entry(c)'.len - 1
  BY <1>3, <1>7, <1>8, <1>11
<1>13. Sends(c, "blockRead", node[c].pos)'
  BY <1>7, <1>8 DEF Sends
<1>14. BlockReceiving(c)'
  <2>1. \E gone \in toggle'[c] .. Len(all) - 1 :
          /\ resp'[c] = [i \in 1 .. Len(all) - gone |-> all[gone + i]]
          /\ lost' > 0 \/ gone = toggle'[c]
    BY <1>11
  <2>. QED BY <1>7, <1>9, <1>10, <1>12, <1>13, <2>1 DEF BlockReceiving
<1>15. n.st # "block"
  OBVIOUS
<1>. QED BY <1>14, <1>15, NodeSilent DEF InPhase

LEMMA FromBlockReadStarting ==
  ASSUME Shaped, NEW c \in Channels, Sound(c), InOrderAnswers, BlockReadStarting(c), Step(c)
  PROVE  Result(c)
<1>1. /\ BlockReads(c) /\ Reads(c) /\ curlen[c] = 0 /\ toggle[c] = 0
      /\ Sends(c, "blockRead", 0) /\ node[c].blk = SDO_BLK_MAX_SIZE
      /\ Entry(c).len \in Nat \ {0}
  BY EntryFacts DEF BlockReadStarting, BlockReads
<1> DEFINE f == SdoFrame(\hA3, NoMux, 0, NoChunk)
<1>f. f.cs = \hA3
  BY DEF SdoFrame
<1>2. ASSUME status[c] = BLOCK_READ, Wire(c, <<>>, <<>>)
      PROVE  Result(c)
  <2>1. ~(WAIT_RES \subseteq status[c])
    BY <1>2 DEF WAIT_RES, BLOCK_READ
  <2>2. Serve(c) /\ Proceed(c)
    BY <1>1, <1>2, <2>1, ReadFacts, InTurn
  <2>3. StartBlockRead(c)
    BY <1>2, <2>2, TurnBranch
  <2>4. WorldKept /\ UNCHANGED resp /\ req' = [req EXCEPT ![c] = @ \o out'.tx]
    BY <2>2, ServeKeeps
  <2>5. /\ status'[c] = BLOCK_READ \union WAIT_RES /\ out'.tx = <<f>> /\ out'.cb = <<>>
        /\ UNCHANGED <<bufmax, buflen, pBuf, pending, job, mux, calls, node, object, got, lost,
                       curlen, toggle>>
    BY <2>3, <2>4 DEF StartBlockRead, Command, Send, Out, Set, Shaped, buffer, WorldKept
  <2>6. req'[c] = <<f>> /\ resp'[c] = <<>>
    BY <1>2, <2>4, <2>5, ShortQueues DEF Shaped, Wire
  <2>7. Entry(c)' = Entry(c) /\ Reads(c)'
    BY <1>1, <2>5 DEF Entry, Reads, Runs
  <2>8. BlockReads(c)'
    BY <1>1, <2>5, <2>7 DEF BlockReads
  <2>9. BlockReadStarting(c)'
    BY <1>1, <2>5, <2>6, <2>7, <2>8 DEF BlockReadStarting, Sends, Wire
  <2>10. Sound(c)'
    BY <2>5, SoundKept DEF Sound
  <2>11. Unseen(c)
    BY <2>5 DEF Unseen
  <2>. QED BY <2>9, <2>10, <2>11 DEF Result, InPhase, Effect
<1>3. ASSUME status[c] = BLOCK_READ \union WAIT_RES, Wire(c, <<f>>, <<>>)
      PROVE  Result(c)
  <2>1. WAIT_RES \subseteq status[c]
    BY <1>3
  <2>2. SUFFICES ASSUME NodeStep(c) PROVE Result(c)
    BY <1>1, <1>3, <2>1, ReadFacts, InRequest
  <2>3. Head(req[c]) = f /\ req'[c] = <<>> /\ Outside /\ UNCHANGED lost /\ resp[c] = <<>>
    BY <1>3, <2>2, NodeTakes DEF Wire
  <2>. HIDE DEF f
  <2>4. /\ node[c].st = "blockRead" /\ node[c].mux = mux[c] /\ node[c].size = Entry(c).len
        /\ node[c].pos = 0 /\ DOMAIN node[c] = NodeFields
    BY <1>1 DEF Sends, Sound
  <2>5. NodeSendsBlock(c, f)
    BY <1>f, <2>2, <2>3, <2>4, NodeBranch
  <2>6. /\ node' = [node EXCEPT ![c] = node[c]]
        /\ Answer(c, Segments(node[c], object[c][node[c].mux].src)) /\ UNCHANGED object
    <3>1. 0 < Entry(c).len /\ ~(0 >= Entry(c).len)
      BY <1>1
    <3>. QED BY <1>f, <2>4, <2>5, <3>1 DEF NodeSendsBlock, Set
  <2>7. curlen[c] # Entry(c).len
    BY <1>1
  <2>. QED BY <1>1, <1>3, <2>3, <2>4, <2>6, <2>7, BlockReadSends
<1>. QED BY <1>2, <1>3 DEF BlockReadStarting

(* The segments after "gone" of those the node has sent.                   *)
After(all, k, gone) == [i \in 1 .. k - gone |-> all[gone + i]]
LEMMA QueueAfter ==
  ASSUME NEW k \in Nat, NEW gone \in 0 .. k - 1, NEW all
  PROVE  /\ After(all, k, gone) # <<>> /\ Head(After(all, k, gone)) = all[gone + 1]
         /\ Tail(After(all, k, gone)) = After(all, k, gone + 1)
         /\ gone + 1 = k => After(all, k, gone + 1) = <<>>
<1> DEFINE m == k - gone
           q == After(all, k, gone)
<1>1. m \in Nat /\ m > 0 /\ m - 1 = k - (gone + 1) /\ (gone + 1 = k => m - 1 = 0)
      /\ m - 1 \in Nat
  OBVIOUS
<1>2. q = [i \in 1 .. m |-> all[gone + i]]
  BY DEF After
<1>. HIDE DEF m, q
<1>3. q = [i \in 1 .. m |-> q[i]] /\ \A i \in 1 .. m : q[i] = all[gone + i]
  BY <1>2
<1>4. q # <<>> /\ Head(q) = q[1] /\ Tail(q) = [i \in 1 .. m - 1 |-> q[i + 1]]
  <2>1. /\ m = 0 => q = <<>>
        /\ m > 0 => /\ q # <<>> /\ Head(q) = q[1]
                    /\ Tail(q) = [i \in 1 .. m - 1 |-> q[i + 1]]
    BY <1>1, <1>3, Listing
  <2>. QED BY <1>1, <2>1
<1>5. \A i \in 1 .. m - 1 : q[i + 1] = all[(gone + 1) + i]
  <2>1. \A i \in 1 .. m - 1 : i + 1 \in 1 .. m /\ gone + (i + 1) = (gone + 1) + i
    BY <1>1
  <2>. QED BY <1>3, <2>1
<1>6. Tail(q) = [i \in 1 .. m - 1 |-> all[(gone + 1) + i]]
  BY <1>4, <1>5, Zenon
<1>7. 1 \in 1 .. m
  BY <1>1
<1>8. q[1] = all[gone + 1]
  BY <1>3, <1>7
<1>9. gone + 1 = k => Tail(q) = <<>>
  <2>1. SUFFICES ASSUME gone + 1 = k PROVE Tail(q) = <<>>
    OBVIOUS
  <2>2. m - 1 = 0
    BY <1>1, <2>1
  <2>3. Tail(q) = [i \in 1 .. 0 |-> all[(gone + 1) + i]]
    BY <1>6, <2>2
  <2> DEFINE t == Tail(q)
  <2>4. t = [i \in 1 .. 0 |-> t[i]] /\ 0 \in Nat
    BY <2>3
  <2>. HIDE DEF t
  <2>5. t = <<>>
    BY <2>4, Listing
  <2>. QED BY <2>5 DEF t
<1>10. Tail(q) = After(all, k, gone + 1)
  BY <1>1, <1>6 DEF After
<1>. QED BY <1>4, <1>8, <1>9, <1>10 DEF q

(* Where a block is received: the node has sent k segments, "gone" of them *)
(* are taken or lost.                                                      *)
Receiving(c, all, k, gone) ==
  /\ BlockReads(c) /\ status[c] = BLOCK_READ \union WAIT_RES
  /\ node[c].pos \in 0 .. Entry(c).len - 1 /\ Sends(c, "blockRead", node[c].pos)
  /\ curlen[c] = node[c].pos + 7 * toggle[c]
  /\ req[c] = <<>> /\ all = Segments(node[c], Entry(c).src)
  /\ Len(all) = k /\ k \in 1 .. SDO_BLK_MAX_SIZE
  /\ gone \in toggle[c] .. k - 1
  /\ resp[c] = After(all, k, gone)
  /\ lost > 0 \/ gone = toggle[c]

NextSegment(c, all, k, gone) ==
  /\ Receiving(c, all, k, gone)
  /\ SentAt(all[gone + 1], gone, Entry(c).src, Entry(c).len, node[c].pos)
  /\ gone + 1 = k <=> \/ gone + 1 = SDO_BLK_MAX_SIZE
                      \/ node[c].pos + 7 * (gone + 1) >= Entry(c).len

LEMMA ReceivingFacts ==
  ASSUME NEW c \in Channels, Sound(c), BlockReceiving(c)
  PROVE  \E all, k, gone : NextSegment(c, all, k, gone)
<1> DEFINE n == node[c]
           size == Entry(c).len
           pos == n.pos
           src == Entry(c).src
           all == Segments(n, src)
<1>1. /\ n.size = size /\ n.pos = pos /\ n.blk = SDO_BLK_MAX_SIZE
      /\ size \in Nat /\ pos \in 0 .. size - 1 /\ SDO_BLK_MAX_SIZE \in 1 .. 127
      /\ toggle[c] \in 0 .. SDO_BLK_MAX_SIZE
  BY EntryFacts, ClientAssumption DEF BlockReceiving, BlockReads, Sends
<1>2. PICK gone \in toggle[c] .. Len(all) - 1 :
        /\ resp[c] = [i \in 1 .. Len(all) - gone |-> all[gone + i]]
        /\ lost > 0 \/ gone = toggle[c]
  BY DEF BlockReceiving
<1>3. Receiving(c, all, Len(all), gone) <=> Len(all) \in 1 .. SDO_BLK_MAX_SIZE
  BY <1>2 DEF BlockReceiving, Receiving, After
<1>. HIDE DEF n, size, pos, src, all
<1>4. PICK k \in 1 .. SDO_BLK_MAX_SIZE : Sent(all, k, src, size, pos, SDO_BLK_MAX_SIZE)
  <2>1. all = Segments(n, src)
    BY DEF all
  <2>. QED BY <1>1, <2>1, SentSegments
<1>k. Len(all) = k
  BY <1>4 DEF Sent
<1>5. gone \in 0 .. k - 1
  BY <1>1, <1>2, <1>k
<1>6. Receiving(c, all, k, gone)
  BY <1>3, <1>k
<1>. QED BY <1>4, <1>5, <1>6 DEF Sent, NextSegment, n, pos, size, src

(* The first of the segments is gone, and the client says nothing.         *)
OneGone(c) == resp'[c] = Tail(resp[c]) /\ req'[c] = <<>>

(* A segment is lost, or taken out of order and ignored.                   *)
LEMMA BlockReadMissed ==
  ASSUME Shaped, NEW c \in Channels, Sound(c), NEW all, NEW k, NEW gone,
         Receiving(c, all, k, gone), lost' \in Nat, lost' > 0,
         OneGone(c),
         UNCHANGED <<status, bufmax, buflen, curlen, pBuf, toggle, mux, got, pending, job,
                     node, object>>
  PROVE  InPhase(c)'
<1>1. /\ BlockReads(c) /\ Reads(c) /\ status[c] = BLOCK_READ \union WAIT_RES
      /\ k \in 1 .. SDO_BLK_MAX_SIZE /\ gone \in toggle[c] .. k - 1
      /\ toggle[c] \in 0 .. SDO_BLK_MAX_SIZE
      /\ resp[c] = After(all, k, gone)
      /\ SDO_BLK_MAX_SIZE \in 1 .. 127
  BY ClientAssumption DEF Receiving, BlockReads
<1>2. k \in Nat /\ gone \in 0 .. k - 1
  BY <1>1
<1>3. /\ Tail(resp[c]) = After(all, k, gone + 1)
      /\ gone + 1 = k => Tail(resp[c]) = <<>>
  <2>1. /\ After(all, k, gone) # <<>> /\ Head(After(all, k, gone)) = all[gone + 1]
        /\ Tail(After(all, k, gone)) = After(all, k, gone + 1)
        /\ gone + 1 = k => After(all, k, gone + 1) = <<>>
    BY <1>2, QueueAfter, Zenon
  <2>2. resp[c] = After(all, k, gone)
    BY <1>1
  <2>. QED BY <2>1, <2>2, Zenon
<1>4. CASE gone + 1 = k
  <2>1. resp'[c] = <<>> /\ pending[c]
    BY <1>1, <1>3, <1>4, ReadFacts DEF OneGone
  <2>2. WAIT_RES \subseteq status'[c]
    BY <1>1
  <2>3. Doomed(c)'
    BY <2>1, <2>2 DEF Doomed, OneGone
  <2>. QED BY <2>3 DEF InPhase
<1>5. CASE gone + 1 # k
  <2>1. gone + 1 \in toggle'[c] .. k - 1
    BY <1>1, <1>5
  <2>2. BlockReads(c)' /\ Entry(c)' = Entry(c)
    BY <1>1 DEF BlockReads, Reads, Runs, Entry
  <2>3. Len(all) = k /\ all = Segments(node[c], Entry(c).src)'
    BY <2>2 DEF Receiving, Segments
  <2>4. \E g \in toggle'[c] .. Len(all) - 1 :
          /\ resp'[c] = [i \in 1 .. Len(all) - g |-> all[g + i]]
          /\ lost' > 0 \/ g = toggle'[c]
    BY <1>3, <2>1, <2>3 DEF After, OneGone
  <2>5. BlockReceiving(c)'
    BY <2>2, <2>3, <2>4 DEF OneGone, Receiving, BlockReceiving, Sends
  <2>. QED BY <2>5 DEF InPhase
<1>. QED BY <1>4, <1>5

(* The numbers of a segment that is taken.                                 *)
Within(size, pos, gone, cur) ==
  size \in Nat /\ pos \in 0 .. size - 1 /\ gone \in Nat /\ cur = pos + 7 * gone /\ cur < size
NextLen(size, pos, gone, cur, len) ==
  /\ cur \in Nat /\ len \in 1 .. 7 /\ cur + len = Least(pos + 7 * (gone + 1), size)
  /\ cur + len \in 0 .. size
  /\ ~(pos + 7 * (gone + 1) >= size) => cur + len = pos + 7 * (gone + 1)
  /\ (IF size - cur < 0 THEN 0 ELSE IF size - cur > 7 THEN 7 ELSE size - cur) = len
LEMMA TakeNumbers ==
  ASSUME NEW size, NEW pos, NEW gone, NEW cur, Within(size, pos, gone, cur)
  PROVE  NextLen(size, pos, gone, cur, Least(7, size - cur))
<1>1. /\ size \in Nat /\ pos \in 0 .. size - 1 /\ gone \in Nat
      /\ cur = pos + 7 * gone /\ cur < size
  BY DEF Within
<1>2. cur \in Nat /\ pos + 7 * (gone + 1) = cur + 7
  BY <1>1
<1>. QED BY <1>1, <1>2 DEF Least, NextLen

(* The next segment of the block is taken.                                 *)
LEMMA BlockReadTakes ==
  ASSUME Shaped, NEW c \in Channels, Sound(c), NEW all, NEW k, NEW gone,
         NextSegment(c, all, k, gone), gone = toggle[c], NEW f, f = all[gone + 1],
         RecvBlockSegment(c, f), WorldKept, OneGone(c)
  PROVE  Result(c)
<1> DEFINE size == Entry(c).len
           pos == node[c].pos
           src == Entry(c).src
           cur == curlen[c]
           len == Least(7, size - cur)
<1>1. /\ BlockReads(c) /\ Reads(c) /\ status[c] = BLOCK_READ \union WAIT_RES
      /\ k \in 1 .. SDO_BLK_MAX_SIZE /\ gone \in toggle[c] .. k - 1
      /\ toggle[c] \in 0 .. SDO_BLK_MAX_SIZE /\ SDO_BLK_MAX_SIZE \in 1 .. 127
      /\ resp[c] = After(all, k, gone)
      /\ buflen[c] = size /\ pBuf[c].off = cur /\ got[c] = Prefix(src, cur)
      /\ size \in Nat \ {0} /\ pos \in 0 .. size - 1 /\ cur = pos + 7 * gone
      /\ Sends(c, "blockRead", pos) /\ node[c].blk = SDO_BLK_MAX_SIZE
  BY EntryFacts, ClientAssumption DEF NextSegment, Receiving, BlockReads
<1>2. /\ pos + 7 * gone < size /\ SeqNo(f.cs) = gone + 1
      /\ LastOfBlock(f.cs) <=> pos + 7 * (gone + 1) >= size
      /\ f.data = Slice(src, cur, len)
  BY <1>1 DEF NextSegment, SentAt
<1>. HIDE DEF size, pos, src
<1> DEFINE t == toggle[c]
<1>t. gone = t
  OBVIOUS
<1>3. /\ gone \in Nat /\ k \in Nat /\ gone \in 0 .. k - 1 /\ gone + 1 \in 0 .. SDO_BLK_MAX_SIZE
      /\ (t + 1) % 256 = gone + 1 /\ (gone + 1) - 1 = gone /\ gone + 1 > 0
      /\ gone + 1 # k => gone + 1 \in gone + 1 .. k - 1
  <2>1. /\ SDO_BLK_MAX_SIZE \in 1 .. 127 /\ k \in 1 .. SDO_BLK_MAX_SIZE
        /\ t \in 0 .. SDO_BLK_MAX_SIZE /\ gone \in t .. k - 1
    BY <1>1
  <2>. HIDE DEF t
  <2>2. /\ gone \in Nat /\ k \in Nat /\ gone \in 0 .. k - 1 /\ gone + 1 \in 0 .. SDO_BLK_MAX_SIZE
        /\ (t + 1) % 256 = t + 1 /\ (gone + 1) - 1 = gone /\ gone + 1 > 0
        /\ gone + 1 # k => gone + 1 \in gone + 1 .. k - 1
    <3>1. gone \in 0 .. 126 /\ k \in Nat
      BY <1>t, <2>1
    <3>2. (t + 1) % 256 = t + 1
      BY <1>t, <3>1
    <3>. QED BY <1>t, <2>1, <3>1, <3>2
  <2>. QED BY <1>t, <2>2, Zenon
<1>4. /\ cur \in Nat /\ len \in 1 .. 7 /\ cur + len = Least(pos + 7 * (gone + 1), size)
      /\ cur + len \in 0 .. size
      /\ ~(pos + 7 * (gone + 1) >= size) => cur + len = pos + 7 * (gone + 1)
      /\ (IF size - cur < 0 THEN 0 ELSE IF size - cur > 7 THEN 7 ELSE size - cur) = len
  <2>1. /\ size \in Nat /\ pos \in 0 .. size - 1 /\ gone \in Nat
        /\ cur = pos + 7 * gone /\ cur < size
    BY <1>1, <1>2, <1>3
  <2>. HIDE DEF cur
  <2>2. Within(size, pos, gone, cur)
    BY <2>1 DEF Within
  <2>3. NextLen(size, pos, gone, cur, len)
    BY <2>2, TakeNumbers
  <2>. HIDE DEF len
  <2>. QED BY <2>3 DEF NextLen
<1>. HIDE DEF cur, len
<1>6. /\ toggle'[c] = gone + 1 /\ curlen'[c] = cur + len
      /\ pBuf'[c] = Advance(pBuf[c], len)
      /\ got'[c] = Place(got[c], pBuf[c].off, f.data, len)
      /\ out'.cb = <<>>
      /\ status'[c] = IF gone + 1 = SDO_BLK_MAX_SIZE \/ LastOfBlock(f.cs)
                        THEN BLOCK_RDCONF ELSE BLOCK_READ \union WAIT_RES
      /\ UNCHANGED <<bufmax, buflen, mux, calls, pending, job, node, object, lost>>
  <2> DEFINE left == buflen[c] - curlen[c]
             l == IF left < 0 THEN 0 ELSE IF left > 7 THEN 7 ELSE left
             tog == (toggle[c] + 1) % 256
  <2>1. /\ tog = SeqNo(f.cs) =>
             /\ toggle' = [toggle EXCEPT ![c] = tog]
             /\ IF tog = SDO_BLK_MAX_SIZE \/ LastOfBlock(f.cs)
                  THEN status' = [status EXCEPT ![c] = BLOCK_RDCONF]
                  ELSE UNCHANGED status
             /\ curlen' = [curlen EXCEPT ![c] = curlen[c] + l]
             /\ pBuf' = [pBuf EXCEPT ![c] = Advance(pBuf[c], l)]
             /\ got' = IF l = 0 THEN got
                       ELSE [got EXCEPT ![c] = Place(got[c], pBuf[c].off, f.data, l)]
        /\ out'.cb = <<>> /\ UNCHANGED <<bufmax, buflen, mux, pending>>
    BY DEF RecvBlockSegment, Set, Silent, Out
  <2>2. l = len /\ tog = gone + 1 /\ len # 0
    <3>1. left = size - cur
      BY <1>1 DEF cur
    <3>2. len # 0
      BY <1>4
    <3>3. tog = gone + 1
      BY <1>3 DEF t
    <3>. HIDE DEF left
    <3>. QED BY <1>4, <3>1, <3>2, <3>3
  <2>3. curlen[c] = cur /\ tog = SeqNo(f.cs)
    BY <1>2, <2>2 DEF cur
  <2>. HIDE DEF left, l, tog
  <2>4. /\ toggle' = [toggle EXCEPT ![c] = gone + 1]
        /\ IF gone + 1 = SDO_BLK_MAX_SIZE \/ LastOfBlock(f.cs)
             THEN status' = [status EXCEPT ![c] = BLOCK_RDCONF]
             ELSE UNCHANGED status
        /\ curlen' = [curlen EXCEPT ![c] = cur + len]
        /\ pBuf' = [pBuf EXCEPT ![c] = Advance(pBuf[c], len)]
        /\ got' = [got EXCEPT ![c] = Place(got[c], pBuf[c].off, f.data, len)]
        /\ out'.cb = <<>> /\ UNCHANGED <<bufmax, buflen, mux, pending>>
    BY <2>1, <2>2, <2>3
  <2>5. status[c] = BLOCK_READ \union WAIT_RES
    BY <1>1
  <2>. QED BY <2>4, <2>5 DEF Shaped, WorldKept
<1>7. got'[c] = Prefix(src, cur + len)
  <2>1. Place(Prefix(src, cur), cur, Slice(src, cur, len), len) = Prefix(src, cur + len)
    <3>1. len \in Nat \ {0}
      BY <1>4
    <3>. QED BY <1>4, <3>1, PlaceNext
  <2>. QED BY <1>1, <1>2, <1>6, <2>1
<1>8. pBuf'[c].src = pBuf[c].src /\ pBuf'[c].off = cur + len
  BY <1>1, <1>6 DEF Advance
<1>9. Entry(c)' = Entry(c) /\ Reads(c)'
  <2>1. pBuf'[c].src = pBuf[c].src
    BY <1>8
  <2>. QED BY <1>1, <1>6 DEF Entry, Reads, Runs
<1>10. BlockReads(c)'
  <2>1. Entry(c).len > 4 /\ Entry(c).len <= bufmax[c]
    BY <1>1 DEF BlockReads
  <2>. QED BY <1>1, <1>3, <1>4, <1>6, <1>7, <1>8, <1>9, <2>1 DEF BlockReads, size, src
<1>11. /\ Tail(resp[c]) = After(all, k, gone + 1)
       /\ gone + 1 = k => Tail(resp[c]) = <<>>
  <2>1. resp[c] = After(all, k, gone)
    BY <1>1
  <2>2. k \in Nat /\ gone \in 0 .. k - 1
    BY <1>3
  <2>3. /\ Tail(After(all, k, gone)) = After(all, k, gone + 1)
        /\ gone + 1 = k => After(all, k, gone + 1) = <<>>
    BY <2>2, QueueAfter, ZenonT(40)
  <2>. QED BY <2>1, <2>3, Zenon
<1>12. Sends(c, "blockRead", node[c].pos)' /\ node'[c].pos = pos
  BY <1>1, <1>6, <1>9 DEF Sends, pos
<1>13. CASE gone + 1 = k
  <2>1. status'[c] = BLOCK_RDCONF /\ resp'[c] = <<>>
    BY <1>2, <1>6, <1>11, <1>13 DEF OneGone, NextSegment, pos, size
  <2>2. /\ node'[c].pos \in 0 .. Entry(c)'.len - 1 /\ toggle'[c] > 0
        /\ node'[c].pos + 7 * (toggle'[c] - 1) < Entry(c)'.len
        /\ curlen'[c] = Least(node'[c].pos + 7 * toggle'[c], Entry(c)'.len)
    BY <1>1, <1>2, <1>3, <1>4, <1>6, <1>9, <1>12 DEF size
  <2>3. BlockReadTaken(c)'
    BY <1>10, <1>12, <2>1, <2>2 DEF OneGone, BlockReadTaken, Wire
  <2>. QED BY <2>3, <1>6, <1>1, SoundKept DEF Sound, Result, InPhase, Effect, Unseen
<1>14. CASE gone + 1 # k
  <2>1. status'[c] = BLOCK_READ \union WAIT_RES
    BY <1>2, <1>6, <1>14 DEF NextSegment, pos, size
  <2>2. curlen'[c] = node'[c].pos + 7 * toggle'[c]
    <3>1. ~(pos + 7 * (gone + 1) >= size)
      BY <1>14 DEF NextSegment, pos, size
    <3>. QED BY <1>4, <1>6, <1>12, <3>1
  <2>3. Len(all) = k /\ all = Segments(node[c], Entry(c).src)'
    BY <1>6, <1>9 DEF NextSegment, Receiving, Segments
  <2>4. \E g \in toggle'[c] .. Len(all) - 1 :
          /\ resp'[c] = [i \in 1 .. Len(all) - g |-> all[g + i]]
          /\ lost' > 0 \/ g = toggle'[c]
    BY <1>3, <1>6, <1>11, <1>14, <2>3 DEF OneGone, After
  <2>5. node'[c].pos \in 0 .. Entry(c)'.len - 1
    BY <1>1, <1>9, <1>12 DEF size
  <2>6. BlockReceiving(c)'
    BY <1>10, <1>12, <2>1, <2>2, <2>3, <2>4, <2>5 DEF OneGone, BlockReceiving
  <2>. QED BY <2>6, <1>6, <1>1, SoundKept DEF Sound, Result, InPhase, Effect, Unseen
<1>. QED BY <1>13, <1>14

LEMMA FromBlockReceiving ==
  ASSUME Shaped, NEW c \in Channels, Sound(c), InOrderAnswers, BlockReceiving(c), Step(c)
  PROVE  Result(c)
<1>1. PICK all, k, gone : NextSegment(c, all, k, gone)
  BY ReceivingFacts
<1>2. /\ BlockReads(c) /\ Reads(c) /\ status[c] = BLOCK_READ \union WAIT_RES
      /\ k \in 1 .. SDO_BLK_MAX_SIZE /\ gone \in toggle[c] .. k - 1
      /\ toggle[c] \in 0 .. SDO_BLK_MAX_SIZE /\ SDO_BLK_MAX_SIZE \in 1 .. 127
      /\ resp[c] = After(all, k, gone) /\ req[c] = <<>>
      /\ lost > 0 \/ gone = toggle[c]
  BY <1>1, ClientAssumption DEF NextSegment, Receiving, BlockReads
<1> DEFINE t == toggle[c]
<1>3. /\ k \in Nat /\ gone \in 0 .. k - 1 /\ gone \in Nat /\ t \in Nat
      /\ (t + 1) % 256 = t + 1
  <2>1. /\ SDO_BLK_MAX_SIZE \in 1 .. 127 /\ k \in 1 .. SDO_BLK_MAX_SIZE
        /\ t \in 0 .. SDO_BLK_MAX_SIZE /\ gone \in t .. k - 1
    BY <1>2
  <2>. HIDE DEF t
  <2>2. t \in 0 .. 126 /\ gone \in 0 .. 126
    BY <2>1
  <2>3. (t + 1) % 256 = t + 1
    BY <2>2
  <2>. QED BY <2>1, <2>2, <2>3
<1>4. resp[c] # <<>> /\ Head(resp[c]) = all[gone + 1]
  <2>1. After(all, k, gone) # <<>> /\ Head(After(all, k, gone)) = all[gone + 1]
    <3>1. k \in Nat /\ gone \in 0 .. k - 1
      BY <1>3
    <3>. QED BY <3>1, QueueAfter, ZenonT(40)
  <2>2. resp[c] = After(all, k, gone)
    BY <1>2
  <2>. QED BY <2>1, <2>2, Zenon
<1>5. pending[c] /\ WAIT_RES \subseteq status[c] /\ ReadingBlock(c)
  BY <1>2, ReadFacts DEF ReadingBlock
<1>6. ~AppStep(c) /\ ~NodeStep(c) /\ ~Serve(c)
  BY <1>2, <1>4, <1>5, NoCall, OnlyTimeout DEF NodeStep, Quiet
<1>7. CASE Lose(c)
  <2>1. /\ Outside /\ UNCHANGED <<node, object>> /\ lost' = lost + 1
        /\ resp'[c] = Tail(resp[c]) /\ req'[c] = <<>>
    BY <1>2, <1>7, LoseKeeps DEF Shaped
  <2>2. lost' \in Nat /\ lost' > 0
    BY <2>1 DEF Sound
  <2>3. UNCHANGED <<status, bufmax, buflen, curlen, pBuf, toggle, mux, got, pending, job, calls>>
        /\ out'.cb = <<>>
    BY <2>1, ClientKept
  <2>4. InPhase(c)'
    BY <1>1, <2>1, <2>2, <2>3, BlockReadMissed DEF OneGone, NextSegment
  <2>. QED BY <2>1, <2>2, <2>3, <2>4, SoundKept DEF Result, Effect, Unseen
<1>8. CASE Receive(c)
  <2>1. /\ MGR_HandleSDOClientResponse(c, all[gone + 1]) /\ WorldKept
        /\ resp'[c] = Tail(resp[c]) /\ req' = [req EXCEPT ![c] = @ \o out'.tx]
    BY <1>4, <1>8, ReceiveKeeps DEF Receive, Shaped
  <2>2. RecvBlockSegment(c, all[gone + 1])
    BY <1>5, <2>1 DEF MGR_HandleSDOClientResponse, RecvBlockReadInit,
       RecvBlockReadEnd, RecvBlockWriteInit, RecvBlockAck, RecvBlockWriteEnd, RecvAbort,
       RecvOtherEntry, RecvDownloadAck, RecvExpedited, RecvUploadInit, RecvUploadSegment,
       RecvUnknown
  <2>3. out'.tx = <<>> /\ out'.cb = <<>>
    BY <2>2 DEF RecvBlockSegment, Silent, Out
  <2>4. req'[c] = <<>>
    BY <1>2, <2>1, <2>3, ShortQueues DEF Shaped
  <2>5. CASE gone = toggle[c]
    BY <1>1, <2>1, <2>2, <2>4, <2>5, BlockReadTakes DEF OneGone
  <2>6. CASE gone # toggle[c]
    <3>1. (toggle[c] + 1) % 256 # SeqNo(all[gone + 1].cs)
      <4>1. SeqNo(all[gone + 1].cs) = gone + 1
        BY <1>1 DEF NextSegment, SentAt
      <4>2. (toggle[c] + 1) % 256 = toggle[c] + 1
        BY <1>3
      <4>3. gone \in Nat /\ toggle[c] \in Nat
        BY <1>3
      <4>. QED BY <2>6, <4>1, <4>2, <4>3
    <3>2. UNCHANGED <<status, bufmax, buflen, curlen, pBuf, toggle, mux, got, pending, job,
                      node, object, lost, calls>>
      BY <2>1, <2>2, <3>1 DEF RecvBlockSegment, Silent, WorldKept
    <3>3. lost' \in Nat /\ lost' > 0
      BY <1>2, <2>6, <3>2 DEF Sound
    <3>4. InPhase(c)'
      BY <1>1, <2>1, <2>4, <3>2, <3>3, BlockReadMissed DEF OneGone, NextSegment
    <3>. QED BY <2>3, <3>2, <3>3, <3>4, SoundKept DEF Result, Effect, Unseen
  <2>. QED BY <2>5, <2>6
<1>. QED BY <1>6, <1>7, <1>8 DEF Step
(* The client confirms a block it has taken.                               *)
LEMMA ConfirmNumbers ==
  ASSUME NEW size \in Nat, NEW pos \in Nat, NEW k \in Nat, pos + 7 * k < size + 7
  PROVE  /\ Least(pos + 7 * k, size) = size <=> pos + 7 * k >= size
         /\ pos + 7 * k < size => Least(pos + 7 * k, size) = pos + 7 * k
         /\ pos + 7 * k >= size => (pos + 7 * k) - size \in 0 .. 6
  BY DEF Least

LEMMA FromBlockReadTaken ==
  ASSUME Shaped, NEW c \in Channels, Sound(c), InOrderAnswers, BlockReadTaken(c), Step(c)
  PROVE  Result(c)
<1> DEFINE f == SdoFrame(\hA2, NoMux, toggle[c], NoChunk)
           t == toggle[c]
           size == Entry(c).len
           pos == node[c].pos
<1>1. /\ BlockReads(c) /\ Reads(c) /\ status[c] = BLOCK_RDCONF /\ Wire(c, <<>>, <<>>)
      /\ pos \in 0 .. size - 1 /\ Sends(c, "blockRead", pos)
      /\ t > 0 /\ pos + 7 * (t - 1) < size /\ curlen[c] = Least(pos + 7 * t, size)
      /\ t \in 0 .. SDO_BLK_MAX_SIZE /\ SDO_BLK_MAX_SIZE \in 1 .. 127
      /\ buflen[c] = size /\ size \in Nat \ {0}
  BY EntryFacts, ClientAssumption DEF BlockReadTaken, BlockReads
<1>2. /\ t \in Nat /\ pos \in Nat /\ pos + 7 * t < size + 7
      /\ 0 \in 0 .. SDO_BLK_MAX_SIZE
  <2>1. /\ size \in Nat /\ pos \in 0 .. size - 1 /\ pos + 7 * (t - 1) < size
        /\ t \in 0 .. SDO_BLK_MAX_SIZE /\ SDO_BLK_MAX_SIZE \in 1 .. 127
    BY <1>1
  <2>. HIDE DEF t, size, pos
  <2>. QED BY <2>1
<1>3. ~(WAIT_RES \subseteq status[c])
  <2>1. status[c] = BLOCK_RDCONF
    BY <1>1
  <2>. QED BY <2>1 DEF WAIT_RES, BLOCK_RDCONF
<1>4. Serve(c) /\ Proceed(c)
  BY <1>1, <1>3, ReadFacts, InTurn
<1>5. ConfirmBlock(c)
  BY <1>1, <1>4, TurnBranch
<1>6. WorldKept /\ UNCHANGED resp /\ req' = [req EXCEPT ![c] = @ \o out'.tx]
  BY <1>4, ServeKeeps
<1>7. /\ out'.tx = <<f>> /\ out'.cb = <<>>
      /\ UNCHANGED <<bufmax, buflen, pBuf, pending, job, mux, calls, node, object, got, lost,
                     curlen>>
      /\ IF curlen[c] = size
           THEN status'[c] = BLOCK_RDCONF \union WAIT_RES /\ toggle'[c] = t
           ELSE status'[c] = BLOCK_READ \union WAIT_RES /\ toggle'[c] = 0
  BY <1>1, <1>5, <1>6 DEF ConfirmBlock, Command, Send, Out, Set, Shaped, buffer, WorldKept
<1>8. req'[c] = <<f>> /\ resp'[c] = <<>>
  <2>1. req[c] = <<>> /\ resp[c] = <<>>
    BY <1>1 DEF Wire
  <2>. QED BY <1>6, <1>7, <2>1, ShortQueues DEF Shaped
<1>9. Entry(c)' = Entry(c) /\ Reads(c)'
  BY <1>1, <1>7 DEF Entry, Reads, Runs
<1>10. toggle'[c] \in 0 .. SDO_BLK_MAX_SIZE
  BY <1>1, <1>2, <1>7
<1>11. BlockReads(c)'
  BY <1>1, <1>7, <1>9, <1>10 DEF BlockReads
<1>12. Sends(c, "blockRead", node[c].pos)' /\ node'[c].pos = pos
  BY <1>1, <1>7, <1>9 DEF Sends
<1>13. PICK k \in 0 .. SDO_BLK_MAX_SIZE : k = t
  BY <1>1
<1>14. /\ Wire(c, <<SdoFrame(\hA2, NoMux, k, NoChunk)>>, <<>>)'
       /\ node'[c].pos + 7 * k < Entry(c)'.len + 7
       /\ curlen'[c] = Least(node'[c].pos + 7 * k, Entry(c)'.len)
       /\ IF curlen'[c] = Entry(c)'.len
            THEN status'[c] = BLOCK_RDCONF \union WAIT_RES
            ELSE status'[c] = BLOCK_READ \union WAIT_RES /\ toggle'[c] = 0
  BY <1>1, <1>2, <1>7, <1>8, <1>9, <1>12, <1>13 DEF Wire
<1>15. BlockReadGoesOn(c)'
  <2>1. node'[c].pos \in Nat
    BY <1>2, <1>12
  <2>. QED BY <1>11, <1>12, <1>14, <2>1 DEF BlockReadGoesOn
<1>16. Sound(c)'
  BY <1>7, SoundKept DEF Sound
<1>17. Unseen(c)
  BY <1>7 DEF Unseen
<1>. QED BY <1>15, <1>16, <1>17 DEF Result, InPhase, Effect

LEMMA FromBlockReadGoesOn ==
  ASSUME Shaped, NEW c \in Channels, Sound(c), InOrderAnswers, BlockReadGoesOn(c), Step(c)
  PROVE  Result(c)
<1>1. PICK k \in 0 .. SDO_BLK_MAX_SIZE :
       /\ Wire(c, <<SdoFrame(\hA2, NoMux, k, NoChunk)>>, <<>>)
       /\ node[c].pos + 7 * k < Entry(c).len + 7
       /\ curlen[c] = Least(node[c].pos + 7 * k, Entry(c).len)
       /\ IF curlen[c] = Entry(c).len
            THEN status[c] = BLOCK_RDCONF \union WAIT_RES
            ELSE status[c] = BLOCK_READ \union WAIT_RES /\ toggle[c] = 0
  BY DEF BlockReadGoesOn
<1> DEFINE f == SdoFrame(\hA2, NoMux, k, NoChunk)
           size == Entry(c).len
           pos == node[c].pos
           n == [node[c] EXCEPT !.pos = @ + 7 * f.arg]
<1>2. /\ BlockReads(c) /\ Reads(c) /\ pos \in Nat /\ Sends(c, "blockRead", pos)
      /\ SDO_BLK_MAX_SIZE \in 1 .. 127 /\ node[c].blk = SDO_BLK_MAX_SIZE
      /\ size \in Nat \ {0} /\ DOMAIN node[c] = NodeFields
  BY EntryFacts, ClientAssumption DEF BlockReadGoesOn, BlockReads, Sound
<1>3. WAIT_RES \subseteq status[c]
  <2>1. \/ status[c] = BLOCK_RDCONF \union WAIT_RES
        \/ status[c] = BLOCK_READ \union WAIT_RES
    BY <1>1
  <2>. QED BY <2>1
<1>4. SUFFICES ASSUME NodeStep(c) PROVE Result(c)
  BY <1>1, <1>2, <1>3, ReadFacts, InRequest
<1>5. Head(req[c]) = f /\ req'[c] = <<>> /\ Outside /\ UNCHANGED lost /\ resp[c] = <<>>
  BY <1>1, <1>4, NodeTakes DEF Wire
<1>6. f.cs = \hA2 /\ f.arg = k
  BY DEF SdoFrame
<1>. HIDE DEF f
<1>7. /\ node[c].st = "blockRead" /\ node[c].mux = mux[c] /\ node[c].size = size
  BY <1>2 DEF Sends
<1>8. NodeSendsBlock(c, f)
  BY <1>4, <1>5, <1>6, <1>7, NodeBranch
<1>9. /\ DOMAIN n = NodeFields /\ n.st = "blockRead" /\ n.mux = mux[c] /\ n.size = size
      /\ n.blk = SDO_BLK_MAX_SIZE /\ n.pos = pos + 7 * k
  BY <1>2, <1>6, <1>7 DEF NodeFields
<1>10. /\ curlen[c] = size <=> pos + 7 * k >= size
       /\ pos + 7 * k < size => curlen[c] = pos + 7 * k
       /\ pos + 7 * k >= size => (pos + 7 * k) - size \in 0 .. 6
       /\ ~(pos + 7 * k < size) <=> pos + 7 * k >= size
  <2>1. k \in Nat /\ size \in Nat /\ pos \in Nat /\ pos + 7 * k < size + 7
    BY <1>1, <1>2
  <2>2. curlen[c] = Least(pos + 7 * k, size)
    BY <1>1
  <2>. HIDE DEF size, pos
  <2>3. /\ Least(pos + 7 * k, size) = size <=> pos + 7 * k >= size
        /\ pos + 7 * k < size => Least(pos + 7 * k, size) = pos + 7 * k
        /\ pos + 7 * k >= size => (pos + 7 * k) - size \in 0 .. 6
    BY <2>1, ConfirmNumbers, Zenon
  <2>. QED BY <2>1, <2>2, <2>3
<1>11. /\ n.pos < n.size =>
            /\ node' = [node EXCEPT ![c] = n]
            /\ Answer(c, Segments(n, object[c][n.mux].src)) /\ UNCHANGED object
       /\ ~(n.pos < n.size) =>
            /\ node' = [node EXCEPT ![c] = [n EXCEPT !.st = "readEnd"]]
            /\ Reply(c, n.mux, \hC1 + 4 * (n.pos - n.size), 0, NoChunk) /\ UNCHANGED object
  <2>1. f.cs # \hA3
    BY <1>6
  <2>2. ~(n.pos < n.size) <=> n.pos >= n.size
    BY <1>9, <1>10
  <2>3. n = IF f.cs = \hA3 THEN node[c] ELSE [node[c] EXCEPT !.pos = @ + 7 * f.arg]
    BY <2>1
  <2>. HIDE DEF n
  <2>. QED BY <1>7, <1>8, <2>2, <2>3 DEF NodeSendsBlock, Set
<1>. HIDE DEF n
<1>12. CASE pos + 7 * k < size
  <2>1. /\ node' = [node EXCEPT ![c] = n]
        /\ Answer(c, Segments(n, object[c][n.mux].src)) /\ UNCHANGED object
    BY <1>9, <1>11, <1>12
  <2>2. n.pos = curlen[c] /\ curlen[c] # Entry(c).len
    <3>1. ~(pos + 7 * k >= size)
      BY <1>10, <1>12
    <3>. QED BY <1>9, <1>10, <1>12, <3>1
  <2>3. status[c] = BLOCK_READ \union WAIT_RES /\ toggle[c] = 0
    BY <1>1, <2>2
  <2>. QED BY <1>2, <1>5, <1>9, <2>1, <2>2, <2>3, BlockReadSends
<1>13. CASE ~(pos + 7 * k < size)
  <2> DEFINE m == [n EXCEPT !.st = "readEnd"]
  <2>1. /\ node' = [node EXCEPT ![c] = m] /\ UNCHANGED object
        /\ Reply(c, mux[c], \hC1 + 4 * (n.pos - n.size), 0, NoChunk)
    BY <1>9, <1>11, <1>13
  <2>a. n.pos - n.size \in 0 .. 6
    <3>1. n.pos = pos + 7 * k /\ n.size = size
      BY <1>9
    <3>2. (pos + 7 * k) - size \in 0 .. 6
      BY <1>10, <1>13
    <3>. QED BY <3>1, <3>2, Zenon
  <2>2. PICK pad \in 0 .. 6 : pad = n.pos - n.size
    BY <2>a
  <2>3. resp'[c] = <<SdoFrame(\hC1 + 4 * pad, mux[c], 0, NoChunk)>>
    BY <1>5, <2>1, <2>2, NodeReplies
  <2>4. DOMAIN m = NodeFields /\ m.st = "readEnd" /\ m.blk = SDO_BLK_MAX_SIZE
    BY <1>9 DEF NodeFields
  <2>. HIDE DEF m
  <2>5. node'[c] = m
    BY <2>1 DEF Shaped
  <2>6. /\ Reads(c)'
        /\ UNCHANGED <<status, bufmax, buflen, pBuf, curlen, toggle, got, mux>>
    BY <1>2, <1>5, ClientKept
  <2>7. Entry(c)' = Entry(c)
    BY <2>1, <2>6 DEF Entry
  <2>8. BlockReads(c)'
    BY <1>2, <2>4, <2>5, <2>6, <2>7 DEF BlockReads
  <2>9. curlen[c] = Entry(c).len
    BY <1>10, <1>13
  <2>10. status[c] = BLOCK_RDCONF \union WAIT_RES
    BY <1>1, <2>9
  <2>11. BlockReadEnding(c)'
    BY <1>5, <2>3, <2>4, <2>5, <2>6, <2>7, <2>8, <2>9, <2>10 DEF BlockReadEnding
  <2>12. m.st # "block"
    BY <2>4
  <2>. QED BY <1>5, <2>1, <2>4, <2>11, <2>12, NodeSilent DEF InPhase
<1>. QED BY <1>12, <1>13

LEMMA FromBlockReadEnding ==
  ASSUME Shaped, NEW c \in Channels, Sound(c), InOrderAnswers, BlockReadEnding(c), Step(c)
  PROVE  Result(c)
<1>1. /\ BlockReads(c) /\ Reads(c) /\ curlen[c] = Entry(c).len /\ node[c].st = "readEnd"
      /\ got[c] = Prefix(Entry(c).src, curlen[c])
  BY DEF BlockReadEnding, BlockReads
<1>2. ASSUME status[c] = BLOCK_RDCONF \union WAIT_RES, req[c] = <<>>, NEW pad \in 0 .. 6,
             resp[c] = <<SdoFrame(\hC1 + 4 * pad, mux[c], 0, NoChunk)>>
      PROVE  Result(c)
  <2> DEFINE f == SdoFrame(\hC1 + 4 * pad, mux[c], 0, NoChunk)
  <2>1. WAIT_RES \subseteq status[c] /\ ~ReadingBlock(c)
    <3>1. status[c] = BLOCK_RDCONF \union WAIT_RES
      BY <1>2
    <3>. QED BY <3>1 DEF WAIT_RES, BLOCK_RDCONF, BLOCK_READ, ReadingBlock
  <2>2. Wire(c, <<>>, <<f>>)
    BY <1>2 DEF Wire
  <2>3. SUFFICES ASSUME Receive(c) PROVE Result(c)
    BY <1>1, <2>1, <2>2, ReadFacts, InAnswer
  <2>4. /\ MGR_HandleSDOClientResponse(c, f) /\ WorldKept /\ resp'[c] = <<>>
        /\ req' = [req EXCEPT ![c] = @ \o out'.tx]
    BY <1>2, <2>3, ReceiveOne
  <2>5. \E p \in 0 .. 6 : f.cs = \hC1 + 4 * p
    BY DEF SdoFrame
  <2>. HIDE DEF f
  <2>6. RecvBlockReadEnd(c, f)
    BY <2>1, <2>4, <2>5, Branch
  <2>7. /\ status'[c] = BLOCK_RDFINA /\ out'.tx = <<>> /\ out'.cb = <<>>
        /\ UNCHANGED <<bufmax, buflen, pBuf, pending, job, mux, calls, node, object, got, lost,
                       curlen, toggle>>
    BY <2>4, <2>6 DEF RecvBlockReadEnd, Silent, Out, Set, Shaped, buffer, progress, WorldKept
  <2>8. req'[c] = <<>>
    BY <1>2, <2>4, <2>7, ShortQueues DEF Shaped
  <2>9. Entry(c)' = Entry(c) /\ Reads(c)'
    BY <1>1, <2>7 DEF Entry, Reads, Runs
  <2>10. BlockReads(c)'
    BY <1>1, <2>7, <2>9 DEF BlockReads
  <2>11. BlockReadEnding(c)'
    BY <1>1, <2>4, <2>7, <2>8, <2>9, <2>10 DEF BlockReadEnding, Wire
  <2>12. Sound(c)'
    BY <2>7, SoundKept DEF Sound
  <2>13. Unseen(c)
    BY <2>7 DEF Unseen
  <2>. QED BY <2>11, <2>12, <2>13 DEF Result, InPhase, Effect
<1>3. ASSUME status[c] = BLOCK_RDFINA, Wire(c, <<>>, <<>>)
      PROVE  Result(c)
  <2> DEFINE f == SdoFrame(\hA1, NoMux, 0, NoChunk)
  <2>1. ~(WAIT_RES \subseteq status[c])
    BY <1>3 DEF WAIT_RES, BLOCK_RDFINA
  <2>2. Serve(c) /\ Proceed(c)
    BY <1>1, <1>3, <2>1, ReadFacts, InTurn
  <2>3. FinishBlockRead(c)
    BY <1>3, <2>2, TurnBranch
  <2>4. WorldKept /\ UNCHANGED resp /\ req' = [req EXCEPT ![c] = @ \o out'.tx]
    BY <2>2, ServeKeeps
  <2>5. status'[c] = READY /\ Complete(c, "SDOERR_OK", <<f>>) /\ UNCHANGED got
    BY <2>3 DEF FinishBlockRead, Command, Set, Shaped
  <2>6. LastWord(c, f)
    BY <1>1 DEF LastWord, SdoFrame
  <2>7. got[c] = Entry(c)
    BY <1>1, EntryFacts
  <2>8. req[c] = <<>> /\ resp'[c] = <<>> /\ got'[c] = Entry(c)
    BY <1>3, <2>4, <2>5, <2>7 DEF Wire
  <2>. HIDE DEF f
  <2>9. \E tx : tx = <<f>> /\ Complete(c, "SDOERR_OK", tx)
    BY <2>5
  <2>. QED BY <1>1, <2>4, <2>5, <2>6, <2>8, ReadSucceeds
<1>. QED BY <1>2, <1>3 DEF BlockReadEnding
-----------------------------------------------------------------------------
(* A transfer starts.                                                      *)
LEMMA WriteCalled ==
  ASSUME Shaped, NEW c \in Channels, NEW m, NEW src \in Data, NEW size \in Sizes,
         UseBuffer(c, src, size),
         StartWrite(c, m, [src |-> src, off |-> 0], size, 0),
         job' = Set(job, c, [kind |-> "write", mux |-> m, src |-> src, len |-> size])
  PROVE  /\ BegunWrite(c)' /\ out' = [ch |-> c, tx |-> <<sdomsg'[c]>>, cb |-> <<>>]
         /\ mux'[c] = m /\ calls'[c] = calls[c] + 1
<1> DEFINE p == [src |-> src, off |-> 0]
<1>1. size \in Nat \ {0}
  BY ClientAssumption
<1>2. /\ bufmax'[c] = size /\ buflen'[c] = size /\ pBuf'[c] = p
      /\ p.src = src /\ p.off = 0
  BY DEF UseBuffer, Set, Shaped
<1>3. /\ pending'[c] /\ calls'[c] = calls[c] + 1
      /\ \/ StartExpeditedWrite(c, m, p, size, 0)
         \/ size > 28 /\ StartLongWrite(c, m, \hC2, size, BLOCK_INITWR)
         \/ size \in 5 .. 28 /\ StartLongWrite(c, m, \h21, size, READY \union SEGMENTED)
  BY DEF StartWrite, Called, Set, Shaped
<1>. HIDE DEF p
<1>4. job'[c] = [kind |-> "write", mux |-> m, src |-> src, len |-> size]
  BY DEF Set, Shaped
<1> DEFINE ask == WriteRequest(c)'
           st == IF size <= 4 THEN READY
                 ELSE IF size > 28 THEN BLOCK_INITWR ELSE READY \union SEGMENTED
<1>5. /\ sdomsg'[c] = ask /\ status'[c] = st \union WAIT_RES
      /\ mux'[c] = m /\ curlen'[c] = 0 /\ (size > 4 => toggle'[c] = 0)
      /\ out' = [ch |-> c, tx |-> <<sdomsg'[c]>>, cb |-> <<>>]
  <2>1. CASE StartExpeditedWrite(c, m, p, size, 0)
    <3> DEFINE f == SdoFrame((\h23 + 4 * (4 - size)) % 256, m, 0, Slice(p.src, p.off, size))
    <3>1. /\ size <= 4 /\ mux'[c] = m /\ sdomsg'[c] = f /\ curlen'[c] = 0
          /\ out' = [ch |-> c, tx |-> <<f>>, cb |-> <<>>]
          /\ status'[c] = READY \union WAIT_RES
      BY <2>1 DEF StartExpeditedWrite, Request, Set, Shaped, Out
    <3>2. ask = f
      BY <1>2, <3>1 DEF WriteRequest
    <3>3. ~(size > 4)
      BY <1>1, <3>1
    <3>. HIDE DEF f, ask
    <3>. QED BY <3>1, <3>2, <3>3
  <2>2. CASE size > 28 /\ StartLongWrite(c, m, \hC2, size, BLOCK_INITWR)
    <3> DEFINE f == SdoFrame(\hC2, m, size, NoChunk)
    <3>1. /\ mux'[c] = m /\ sdomsg'[c] = f /\ curlen'[c] = 0 /\ toggle'[c] = 0
          /\ out' = [ch |-> c, tx |-> <<f>>, cb |-> <<>>]
          /\ status'[c] = BLOCK_INITWR \union WAIT_RES
      BY <2>2 DEF StartLongWrite, Request, Set, Shaped, Out, ResetProgress
    <3>2. ~(size <= 4) /\ size > 28
      BY <1>1, <2>2
    <3>3. ask = f
      BY <1>2, <3>1, <3>2 DEF WriteRequest
    <3>. HIDE DEF f, ask
    <3>. QED BY <3>1, <3>2, <3>3
  <2>3. CASE size \in 5 .. 28 /\ StartLongWrite(c, m, \h21, size, READY \union SEGMENTED)
    <3> DEFINE f == SdoFrame(\h21, m, size, NoChunk)
    <3>1. /\ mux'[c] = m /\ sdomsg'[c] = f /\ curlen'[c] = 0 /\ toggle'[c] = 0
          /\ out' = [ch |-> c, tx |-> <<f>>, cb |-> <<>>]
          /\ status'[c] = READY \union SEGMENTED \union WAIT_RES
      BY <2>3 DEF StartLongWrite, Request, Set, Shaped, Out, ResetProgress
    <3>2. ~(size <= 4) /\ ~(size > 28)
      BY <1>1, <2>3
    <3>3. ask = f
      BY <1>2, <3>1, <3>2 DEF WriteRequest
    <3>. HIDE DEF f, ask
    <3>. QED BY <3>1, <3>2, <3>3
  <2>. QED BY <1>3, <2>1, <2>2, <2>3
<1>6. Writes(c)'
  BY <1>2, <1>3, <1>4, <1>5 DEF Writes, Runs
<1>7. Asks(c, WriteRequest(c), IF bufmax[c] <= 4 THEN READY
                               ELSE IF bufmax[c] > 28 THEN BLOCK_INITWR
                               ELSE READY \union SEGMENTED)'
  BY <1>2, <1>5 DEF Asks
<1>. HIDE DEF ask, st
<1>. QED BY <1>2, <1>3, <1>5, <1>6, <1>7 DEF BegunWrite

LEMMA ReadCalled ==
  ASSUME Shaped, NEW c \in Channels, NEW m, NEW size \in Sizes,
         UseBuffer(c, NoData, size), StartRead(c, m, size),
         job' = Set(job, c, [kind |-> "read", mux |-> m, src |-> NoData, len |-> size])
  PROVE  /\ BegunRead(c)' /\ out' = [ch |-> c, tx |-> <<sdomsg'[c]>>, cb |-> <<>>]
         /\ mux'[c] = m /\ calls'[c] = calls[c] + 1
<1>1. /\ bufmax'[c] = size /\ buflen'[c] = size /\ pBuf'[c].off = 0
  BY DEF UseBuffer, Set, Shaped
<1>2. /\ pending'[c] /\ calls'[c] = calls[c] + 1 /\ got'[c] = Empty
      /\ curlen'[c] = 0 /\ toggle'[c] = 0 /\ status'[c] = BLOCK_INITRD \union WAIT_RES
  BY DEF StartRead, Called, Set, Shaped, ResetProgress
<1>3. job'[c] = [kind |-> "read", mux |-> m, src |-> NoData, len |-> size]
  BY DEF Set, Shaped
<1> DEFINE f == IF size > 28 THEN SdoFrame(\hA0, m, SDO_BLK_MAX_SIZE, NoChunk)
                ELSE SdoFrame(\h40, m, 0, NoChunk)
<1>4. /\ mux'[c] = m /\ sdomsg'[c] = f
      /\ out' = [ch |-> c, tx |-> <<f>>, cb |-> <<>>]
  BY DEF StartRead, Request, Set, Shaped, Out
<1>5. ReadRequest(c)' = f
  BY <1>1, <1>4 DEF ReadRequest
<1>. HIDE DEF f
<1>6. Asks(c, ReadRequest(c), BLOCK_INITRD)'
  BY <1>2, <1>4, <1>5 DEF Asks
<1>7. Reads(c)'
  BY <1>1, <1>2, <1>3, <1>4 DEF Reads, Runs
<1>. QED BY <1>1, <1>2, <1>4, <1>6, <1>7 DEF BegunRead

(* What the application's calls do, under the conditions.                  *)
LEMMA CallBegins ==
  ASSUME Shaped, NEW c \in Channels, Sound(c), InOrderAnswers, AppStep(c)
  PROVE  /\ ~pending[c] /\ (BegunWrite(c)' \/ BegunRead(c)')
         /\ out' = [ch |-> c, tx |-> <<sdomsg'[c]>>, cb |-> <<>>]
         /\ mux'[c] \in Muxes /\ calls'[c] = calls[c] + 1
         /\ req' = [req EXCEPT ![c] = @ \o <<sdomsg'[c]>>]
         /\ UNCHANGED <<resp, node, object, lost>>
<1>1. /\ "Write" \notin AppCalls /\ "Read" \notin AppCalls /\ "Init" \notin AppCalls
      /\ "Abort" \notin AppCalls
  BY DEF InOrderAnswers
<1>2. /\ MayCall(c) /\ SdoClientSend /\ UNCHANGED <<resp, node, object, lost>>
      /\ \/ \E m \in Muxes, src \in Data, size \in Sizes : Write(c, m, src, size)
         \/ \E m \in Muxes, size \in Sizes : Read(c, m, size)
  BY <1>1 DEF AppStep, AppStarts, AppAborts, WriteAgain, ReadAgain, Initialise
<1>3. /\ BegunWrite(c)' \/ BegunRead(c)'
      /\ out' = [ch |-> c, tx |-> <<sdomsg'[c]>>, cb |-> <<>>]
      /\ mux'[c] \in Muxes /\ calls'[c] = calls[c] + 1
  <2>1. ASSUME NEW m \in Muxes, NEW src \in Data, NEW size \in Sizes, Write(c, m, src, size)
        PROVE  /\ BegunWrite(c)' \/ BegunRead(c)'
               /\ out' = [ch |-> c, tx |-> <<sdomsg'[c]>>, cb |-> <<>>]
               /\ mux'[c] \in Muxes /\ calls'[c] = calls[c] + 1
    <3>1. /\ UseBuffer(c, src, size)
          /\ StartWrite(c, m, [src |-> src, off |-> 0], size, 0)
          /\ job' = Set(job, c, [kind |-> "write", mux |-> m, src |-> src, len |-> size])
      BY <2>1 DEF Write, WriteRemoteODExtended, SDOCLNT_WriteXtd
    <3>. QED BY <3>1, WriteCalled
  <2>2. ASSUME NEW m \in Muxes, NEW size \in Sizes, Read(c, m, size)
        PROVE  /\ BegunWrite(c)' \/ BegunRead(c)'
               /\ out' = [ch |-> c, tx |-> <<sdomsg'[c]>>, cb |-> <<>>]
               /\ mux'[c] \in Muxes /\ calls'[c] = calls[c] + 1
    <3>1. /\ UseBuffer(c, NoData, size) /\ StartRead(c, m, size)
          /\ job' = Set(job, c, [kind |-> "read", mux |-> m, src |-> NoData, len |-> size])
      BY <2>2 DEF Read, ReadRemoteODExtended, SDOCLNT_ReadXtd
    <3>. QED BY <3>1, ReadCalled
  <2>. QED BY <1>2, <2>1, <2>2
<1>4. out'.ch = c /\ out'.tx = <<sdomsg'[c]>>
  BY <1>3
<1>5. req' = [req EXCEPT ![c] = @ \o <<sdomsg'[c]>>]
  BY <1>2, <1>4 DEF SdoClientSend
<1>6. ~pending[c]
  BY <1>2 DEF MayCall
<1>. QED BY <1>2, <1>3, <1>5, <1>6
-----------------------------------------------------------------------------
(* The client's last word ends what the node was in.                       *)
LEMMA LastWordTaken ==
  ASSUME Shaped, NEW c \in Channels, NEW f, Head(req[c]) = f, LastWord(c, f), NodeStep(c)
  PROVE  /\ Outside /\ UNCHANGED <<lost, resp, object>> /\ req'[c] = Tail(req[c])
         /\ node' = [node EXCEPT ![c] = Idle(node[c].mux)]
         /\ node'[c].st = "idle"
<1>1. f.cs \in {\h80, \hA1} /\ (node[c].st = "block" => f.cs = \h80)
  BY DEF LastWord
<1>2. NodeEnds(c, f)
  BY <1>1, NodeBranch
<1>3. Outside /\ UNCHANGED lost /\ req'[c] = Tail(req[c])
  BY DEF NodeStep, Shaped
<1>4. node' = [node EXCEPT ![c] = Idle(node[c].mux)] /\ UNCHANGED <<resp, object>>
  BY <1>2 DEF NodeEnds, Set
<1>5. node'[c].st = "idle"
  BY <1>4, IdleNode DEF Shaped
<1>. QED BY <1>3, <1>4, <1>5

(* A channel at rest.                                                      *)
LEMMA RestIsQuiet ==
  ASSUME NEW c \in Channels, AtRest(c)
  PROVE  /\ ~Serve(c) /\ ~Receive(c) /\ ~(WAIT_RES \subseteq status[c])
<1>1. status[c] \in {FREE, READY, READY \union SEGMENTED, BLOCK_INITRD} /\ resp[c] = <<>>
  BY DEF AtRest
<1>. USE DEF FREE, READY, SEGMENTED, BLOCK_INITRD, WAIT_RES
<1>2. ~(WAIT_RES \subseteq status[c])
  BY <1>1
<1>3. ~Proceed(c)
  <2>1. PICK s : s = status[c]
    OBVIOUS
  <2>2. 2 \notin s /\ 3 \notin s /\ 5 \notin s /\ (6 \in s => 4 \in s)
    BY <1>1, <2>1
  <2>3. /\ ~(NEXT_UPL \subseteq s) /\ ~(NEXT_DWN \subseteq s) /\ s # BLOCK_WRITE
        /\ s # BLOCK_READ /\ s # BLOCK_RDCONF /\ s # BLOCK_RDFINA
    BY <2>2 DEF NEXT_UPL, NEXT_DWN, BLOCK_WRITE, BLOCK_READ, BLOCK_RDCONF, BLOCK_RDFINA
  <2>4. s # BLOCK_WRCONF /\ s # BLOCK_WRFINA
    BY <2>2 DEF BLOCK_WRCONF, BLOCK_WRFINA
  <2>. QED BY <2>1, <2>3, <2>4 DEF Proceed, SendNext, SendBlockSegment, ConfirmBlockWrite,
            FinishBlockWrite, StartBlockRead, ConfirmBlock, FinishBlockRead, Has
<1>. QED BY <1>1, <1>2, <1>3, OnlyProceed DEF Receive

LEMMA FromAtRest ==
  ASSUME Shaped, NEW c \in Channels, Sound(c), InOrderAnswers, AtRest(c), Step(c)
  PROVE  Result(c)
<1>1. ~pending[c] /\ resp[c] = <<>>
  BY DEF AtRest
<1>2. \/ req[c] = <<>> /\ Calm(c)
      \/ req[c] # <<>> /\ req[c] = <<Head(req[c])>> /\ LastWord(c, Head(req[c]))
  BY DEF AtRest
<1>3. CASE AppStep(c)
  <2>1. /\ BegunWrite(c)' \/ BegunRead(c)'
        /\ out' = [ch |-> c, tx |-> <<sdomsg'[c]>>, cb |-> <<>>]
        /\ mux'[c] \in Muxes /\ calls'[c] = calls[c] + 1
        /\ req' = [req EXCEPT ![c] = @ \o <<sdomsg'[c]>>]
        /\ UNCHANGED <<resp, node, object, lost>>
    BY <1>3, CallBegins
  <2>2. calls'[c] \in Nat
    BY <2>1 DEF Sound
  <2>3. Sound(c)'
    BY <2>1, <2>2 DEF Sound
  <2>4. Begins(c)
    <3>1. pending'[c] /\ job'[c].mux \in Muxes
      BY <2>1 DEF BegunWrite, BegunRead, Writes, Reads, Runs
    <3>2. \/ job'[c].kind = "read"
          \/ job'[c].kind = "write" /\ job'[c].src \in Data /\ job'[c].len \in Sizes
      BY <2>1 DEF BegunWrite, BegunRead, Writes, Reads, Runs
    <3>3. out'.cb = <<>>
      BY <2>1
    <3>. QED BY <1>1, <2>1, <3>1, <3>2, <3>3 DEF Begins
  <2>5. Asked(c)'
    <3>1. PICK m : m = sdomsg'[c]
      OBVIOUS
    <3>2. req'[c] = req[c] \o <<m>>
      BY <2>1, <3>1 DEF Shaped
    <3>3. CASE req[c] = <<>> /\ Calm(c)
      <4>1. req'[c] = <<sdomsg'[c]>> /\ Calm(c)'
        BY <2>1, <3>1, <3>2, <3>3, ShortQueues DEF Calm
      <4>. QED BY <1>1, <2>1, <4>1 DEF Asked
    <3>4. ASSUME NEW f, req[c] = <<f>>, LastWord(c, f) PROVE Asked(c)'
      <4>1. /\ req'[c] = <<f, sdomsg'[c]>> /\ req'[c] # <<>> /\ Head(req'[c]) = f
            /\ LastWord(c, f)'
        BY <2>1, <3>1, <3>2, <3>4, ShortQueues DEF LastWord
      <4>. QED BY <1>1, <2>1, <4>1 DEF Asked
    <3>. QED BY <1>2, <3>3, <3>4
  <2>. QED BY <2>3, <2>4, <2>5 DEF Result, InPhase, Effect
<1>4. CASE Lose(c)
  <2>1. /\ Outside /\ UNCHANGED <<node, object, resp>> /\ lost' = lost + 1
        /\ req[c] # <<>> /\ req'[c] = Tail(req[c])
    BY <1>1, <1>4, LoseKeeps DEF Shaped
  <2>2. req'[c] = <<>>
    BY <1>2, <2>1, ShortQueues
  <2>3. UNCHANGED <<status, pending, calls, mux, got, job>> /\ out'.cb = <<>>
    BY <2>1, ClientKept
  <2>4. lost' \in Nat /\ lost' # 0
    BY <2>1 DEF Sound
  <2>5. AtRest(c)'
    BY <2>1, <2>2, <2>3, <2>4 DEF AtRest, Calm
  <2>. QED BY <2>1, <2>3, <2>4, <2>5, SoundKept DEF Result, InPhase, Effect, Unseen
<1>5. CASE NodeStep(c)
  <2>1. PICK f : req[c] = <<f>> /\ Head(req[c]) = f /\ LastWord(c, f)
    BY <1>2, <1>5 DEF NodeStep
  <2>2. /\ Outside /\ UNCHANGED <<lost, resp, object>> /\ req'[c] = Tail(req[c])
        /\ node' = [node EXCEPT ![c] = Idle(node[c].mux)] /\ node'[c].st = "idle"
    BY <1>5, <2>1, LastWordTaken
  <2>3. req'[c] = <<>>
    BY <2>1, <2>2, ShortQueues
  <2>4. UNCHANGED <<status, pending, calls>>
    BY <2>2, ClientKept
  <2>5. AtRest(c)'
    BY <2>2, <2>3, <2>4 DEF AtRest, Calm
  <2>6. DOMAIN Idle(node[c].mux) = NodeFields /\ Idle(node[c].mux).st # "block"
    BY IdleNode
  <2>. QED BY <2>2, <2>5, <2>6, NodeSilent DEF InPhase
<1>. QED BY <1>3, <1>4, <1>5, RestIsQuiet DEF Step

-----------------------------------------------------------------------------
(* The node takes a request.                                               *)
LEMMA RequestBits ==
  ASSUME NEW cs \in {\h21, \h23, \h27, \h2B, \h2F, \h40, \hA0, \hC2}
  PROVE  cs # \h80 /\ \A blk \in 1 .. 31 : SeqNo(cs) \notin 1 .. blk
<1>1. SeqNo(cs) \in {33, 35, 39, 43, 47, 64, 32, 66}
  BY DEF SeqNo
<1>. QED BY <1>1

LEMMA WriteRequestBits ==
  ASSUME NEW n \in 1 .. 4
  PROVE  /\ (\h23 + 4 * (4 - n)) % 256 \in {\h23, \h27, \h2B, \h2F}
         /\ ExpeditedLen((\h23 + 4 * (4 - n)) % 256) = n
<1>1. n = 1 \/ n = 2 \/ n = 3 \/ n = 4
  OBVIOUS
<1>. QED BY <1>1 DEF ExpeditedLen

(* A write's request, taken by a node that is not in a block.              *)
LEMMA WriteTaken ==
  ASSUME Shaped, NEW c \in Channels, Sound(c), InOrderAnswers, BegunWrite(c),
         Wire(c, <<sdomsg[c]>>, <<>>), NodeStep(c), node[c].st # "block"
  PROVE  Result(c)
<1> DEFINE f == sdomsg[c]
           max == bufmax[c]
<1>1. /\ Writes(c) /\ f = WriteRequest(c) /\ max \in Nat \ {0} /\ pBuf[c].off = 0
      /\ mux[c] \in Muxes
  BY WriteFacts DEF BegunWrite, Asks, Sound
<1>2. Head(req[c]) = f /\ req'[c] = <<>> /\ Outside /\ UNCHANGED lost /\ resp[c] = <<>>
  BY NodeTakes DEF Wire
<1>3. /\ BegunWrite(c)'
      /\ UNCHANGED <<status, bufmax, buflen, pBuf, curlen, toggle, mux, pending, job>>
  BY <1>2, ClientKept
<1>4. CASE max <= 4
  <2> DEFINE cs == (\h23 + 4 * (4 - max)) % 256
  <2>1. max \in 1 .. 4
    BY <1>1, <1>4
  <2>2. cs \in {\h23, \h27, \h2B, \h2F} /\ ExpeditedLen(cs) = max
    <3>. HIDE DEF max
    <3>. QED BY <2>1, WriteRequestBits
  <2>3. f = SdoFrame(cs, mux[c], 0, Slice(pBuf[c].src, 0, max))
    BY <1>1, <1>4 DEF WriteRequest
  <2>. HIDE DEF cs
  <2>4. f.cs = cs /\ f.mux = mux[c] /\ f.data = Slice(pBuf[c].src, 0, max)
    BY <2>3 DEF SdoFrame
  <2>. HIDE DEF f
  <2>5. NodeWriteExpedited(c, f)
    BY <1>2, <2>2, <2>4, NodeBranch
  <2>6. /\ node' = [node EXCEPT ![c] = Idle(mux[c])]
        /\ Store(c, mux[c], Place(Empty, 0, f.data, max))
        /\ Reply(c, mux[c], \h60, 0, NoChunk)
    BY <2>2, <2>4, <2>5 DEF NodeWriteExpedited, Set
  <2>7. Place(Empty, 0, f.data, max) = Whole(pBuf[c].src, max)
    <3>1. /\ f.data.src = pBuf[c].src /\ f.data.lo = 0 /\ f.data.hi = 0 + max
          /\ 0 + max = max /\ max <= max - 0
      BY <2>1, <2>4 DEF Slice
    <3>. HIDE DEF max
    <3>2. max <= f.data.hi - f.data.lo
      BY <3>1
    <3>3. (/\ f.data.lo = 0 /\ max <= f.data.hi - f.data.lo
           /\ 0 = 0 \/ (Empty.good /\ Empty.src = f.data.src /\ Empty.len = 0)) = TRUE
      BY <3>1, <3>2
    <3>. QED BY <3>1, <3>3 DEF Place, Whole
  <2>8. resp'[c] = <<SdoFrame(\h60, mux[c], 0, NoChunk)>>
    BY <1>2, <2>6, NodeReplies
  <2>9. node'[c].st = "idle"
    BY <2>6, IdleNode DEF Shaped
  <2>10. Written(c)' => Stored(c)'
    BY <1>2, <1>3, <1>4, <2>8, <2>9 DEF Stored, Wire
  <2>. QED BY <1>1, <1>2, <2>6, <2>7, <2>10, IdleNode, NodeStores DEF InPhase
<1>5. CASE max > 28
  <2>1. ~(max <= 4) /\ max > 4
    BY <1>1, <1>5
  <2>2. f = SdoFrame(\hC2, mux[c], max, NoChunk)
    BY <1>1, <1>5, <2>1 DEF WriteRequest
  <2>3. f.cs = \hC2 /\ f.mux = mux[c] /\ f.arg = max
    BY <2>2 DEF SdoFrame
  <2>. HIDE DEF f
  <2>4. NodeBlockWriteInit(c, f)
    BY <1>2, <2>3, NodeBranch
  <2>5. PICK blk \in BlockSizes :
          /\ node' = Set(node, c, [Idle(f.mux) EXCEPT !.st = "block", !.size = f.arg, !.blk = blk])
          /\ Reply(c, f.mux, \hA0, blk, NoChunk) /\ UNCHANGED object
    BY <2>4 DEF NodeBlockWriteInit
  <2> DEFINE n == [Idle(mux[c]) EXCEPT !.st = "block", !.size = max, !.blk = blk]
  <2>6. /\ node' = [node EXCEPT ![c] = n] /\ Reply(c, mux[c], \hA0, blk, NoChunk)
        /\ UNCHANGED object
    BY <2>3, <2>5 DEF Set
  <2>7. /\ DOMAIN n = NodeFields /\ n.st = "block" /\ n.blk = blk /\ n.mux = mux[c]
        /\ n.size = max /\ n.acc = Empty /\ n.seq = 0
    BY DEF Idle, NodeFields
  <2>. HIDE DEF n
  <2>8. resp'[c] = <<SdoFrame(\hA0, mux[c], blk, NoChunk)>> /\ node'[c] = n
    BY <1>2, <2>6, NodeReplies DEF Shaped
  <2>9. Takes(c, "block", 0)'
    BY <1>3, <2>7, <2>8 DEF Takes, Prefix
  <2>10. Wire(c, <<>>, <<SdoFrame(\hA0, mux[c], node[c].blk, NoChunk)>>)'
    BY <1>2, <1>3, <2>7, <2>8 DEF Wire
  <2>11. BlockOpened(c)'
    BY <1>3, <1>5, <2>7, <2>8, <2>9, <2>10 DEF BlockOpened
  <2>12. n.blk \in BlockSizes
    BY <2>7
  <2>. QED BY <1>2, <2>6, <2>7, <2>11, <2>12, NodeSilent DEF InPhase
<1>6. CASE max \in 5 .. 28
  <2>1. ~(max <= 4) /\ ~(max > 28)
    BY <1>6, SMTT(30)
  <2>2. f = SdoFrame(\h21, mux[c], max, NoChunk)
    BY <1>1, <2>1 DEF WriteRequest
  <2>3. f.cs = \h21 /\ f.mux = mux[c] /\ f.arg = max
    BY <2>2 DEF SdoFrame
  <2>. HIDE DEF f
  <2>4. NodeWriteInit(c, f)
    BY <1>2, <2>3, NodeBranch
  <2> DEFINE n == [Idle(mux[c]) EXCEPT !.st = "write", !.size = max]
  <2>6. /\ node' = [node EXCEPT ![c] = n] /\ Reply(c, mux[c], \h60, 0, NoChunk)
        /\ UNCHANGED object
    BY <2>3, <2>4 DEF NodeWriteInit, Set
  <2>7. /\ DOMAIN n = NodeFields /\ n.st = "write" /\ n.mux = mux[c]
        /\ n.size = max /\ n.acc = Empty /\ n.tog = 0
    BY DEF Idle, NodeFields
  <2>. HIDE DEF n
  <2>8. resp'[c] = <<SdoFrame(\h60, mux[c], 0, NoChunk)>> /\ node'[c] = n
    BY <1>2, <2>6, NodeReplies DEF Shaped
  <2>9. Takes(c, "write", 0)'
    BY <1>3, <2>7, <2>8 DEF Takes, Prefix
  <2>10. DownloadOpened(c)'
    BY <1>2, <1>3, <1>6, <2>7, <2>8, <2>9 DEF DownloadOpened, Wire
  <2>11. n.st # "block"
    BY <2>7
  <2>. QED BY <1>2, <2>6, <2>7, <2>10, <2>11, NodeSilent DEF InPhase
<1>7. max <= 4 \/ max > 28 \/ max \in 5 .. 28
  <2>1. max \in Nat \ {0}
    BY <1>1
  <2>. HIDE DEF max
  <2>. QED BY <2>1
<1>. QED BY <1>4, <1>5, <1>6, <1>7

(* A read's request, taken by a node that is not in a block.               *)
LEMMA ReadTaken ==
  ASSUME Shaped, NEW c \in Channels, Sound(c), InOrderAnswers, BegunRead(c),
         Wire(c, <<sdomsg[c]>>, <<>>), NodeStep(c), node[c].st # "block"
  PROVE  Result(c)
<1> DEFINE f == sdomsg[c]
           o == Entry(c)
<1>1. /\ Reads(c) /\ f = ReadRequest(c) /\ o.len \in Nat \ {0}
      /\ object[c][mux[c]] = o
  BY EntryFacts DEF BegunRead, Asks, Entry
<1>2. Head(req[c]) = f /\ req'[c] = <<>> /\ Outside /\ UNCHANGED lost /\ resp[c] = <<>>
  BY NodeTakes DEF Wire
<1>3. BegunRead(c)' /\ UNCHANGED <<bufmax, mux>>
  BY <1>2, ClientKept, BegunReadKept
<1>4. /\ f.mux = mux[c] /\ f.cs \in {\h40, \hA0}
      /\ f.cs = \hA0 => f.arg = SDO_BLK_MAX_SIZE /\ bufmax[c] > 28
  BY <1>1 DEF ReadRequest, SdoFrame
<1>. HIDE DEF f
<1>5. NodeRead(c, f) \/ (f.cs = \hA0 /\ NodeBlockReadInit(c, f))
  <2>1. /\ f.cs = \h40 => NodeRead(c, f)
        /\ f.cs = \hA0 => NodeRead(c, f) \/ NodeBlockReadInit(c, f)
    BY <1>2, NodeBranch
  <2>. QED BY <1>4, <2>1
<1>6. UNCHANGED object /\ Entry(c)' = o
  BY <1>3, <1>5 DEF NodeRead, NodeBlockReadInit, Entry
<1>. HIDE DEF o
<1>7. CASE NodeRead(c, f) /\ o.len <= 4
  <2>1. /\ node' = [node EXCEPT ![c] = Idle(mux[c])]
        /\ Reply(c, mux[c], \h43 + 4 * (4 - o.len), 0, Slice(o.src, 0, o.len))
    BY <1>1, <1>4, <1>7 DEF NodeRead, Set
  <2>2. resp'[c] = <<SdoFrame(\h43 + 4 * (4 - o.len), mux[c], 0, Slice(o.src, 0, o.len))>>
    BY <1>2, <2>1, NodeReplies
  <2>3. node'[c].st = "idle" /\ DOMAIN Idle(mux[c]) = NodeFields /\ Idle(mux[c]).st # "block"
    BY <2>1, IdleNode DEF Shaped
  <2>4. Fetched(c)'
    BY <1>2, <1>3, <1>6, <1>7, <2>2, <2>3 DEF Fetched, Wire
  <2>. QED BY <1>2, <1>6, <2>1, <2>3, <2>4, NodeSilent DEF InPhase
<1>8. CASE NodeRead(c, f) /\ ~(o.len <= 4)
  <2> DEFINE n == [Idle(mux[c]) EXCEPT !.st = "read", !.size = o.len]
  <2>1. node' = [node EXCEPT ![c] = n] /\ Reply(c, mux[c], \h41, o.len, NoChunk)
    BY <1>1, <1>4, <1>8 DEF NodeRead, Set
  <2>2. /\ DOMAIN n = NodeFields /\ n.st = "read" /\ n.mux = mux[c]
        /\ n.size = o.len /\ n.pos = 0 /\ n.tog = 0
    BY DEF Idle, NodeFields
  <2>. HIDE DEF n
  <2>3. resp'[c] = <<SdoFrame(\h41, mux[c], o.len, NoChunk)>> /\ node'[c] = n
    BY <1>2, <2>1, NodeReplies DEF Shaped
  <2>4. o.len > 4
    BY <1>1, <1>8
  <2>5. UploadOpened(c)'
    BY <1>2, <1>3, <1>6, <2>2, <2>3, <2>4 DEF UploadOpened, Wire, Sends
  <2>6. n.st # "block"
    BY <2>2
  <2>. QED BY <1>2, <1>6, <2>1, <2>2, <2>5, <2>6, NodeSilent DEF InPhase
<1>9. CASE f.cs = \hA0 /\ NodeBlockReadInit(c, f)
  <2> DEFINE n == [Idle(mux[c]) EXCEPT !.st = "blockRead", !.blk = SDO_BLK_MAX_SIZE, !.size = o.len]
  <2>1. /\ node' = [node EXCEPT ![c] = n] /\ Reply(c, mux[c], \hC2, o.len, NoChunk)
        /\ o.len > 4
    BY <1>1, <1>4, <1>9 DEF NodeBlockReadInit, Set, InOrderAnswers
  <2>2. /\ DOMAIN n = NodeFields /\ n.st = "blockRead" /\ n.mux = mux[c]
        /\ n.size = o.len /\ n.pos = 0 /\ n.blk = SDO_BLK_MAX_SIZE
    BY DEF Idle, NodeFields
  <2>. HIDE DEF n
  <2>3. resp'[c] = <<SdoFrame(\hC2, mux[c], o.len, NoChunk)>> /\ node'[c] = n
    BY <1>2, <2>1, NodeReplies DEF Shaped
  <2>4. BlockReadOpened(c)'
    BY <1>2, <1>3, <1>4, <1>6, <1>9, <2>1, <2>2, <2>3 DEF BlockReadOpened, Wire, Sends
  <2>5. n.st # "block"
    BY <2>2
  <2>. QED BY <1>2, <1>6, <2>1, <2>2, <2>4, <2>5, NodeSilent DEF InPhase
<1>. QED BY <1>5, <1>7, <1>8, <1>9

LEMMA FromAsked ==
  ASSUME Shaped, NEW c \in Channels, Sound(c), InOrderAnswers, Reliable, Asked(c), Step(c)
  PROVE  Result(c)
<1>1. /\ BegunWrite(c) \/ BegunRead(c)
      /\ resp[c] = <<>> /\ pending[c] /\ WAIT_RES \subseteq status[c] /\ ~ReadingBlock(c)
  <2>1. BegunWrite(c) \/ BegunRead(c)
    BY DEF Asked
  <2>2. \E st \in {READY, BLOCK_INITWR, READY \union SEGMENTED, BLOCK_INITRD} :
          status[c] = st \union WAIT_RES
    BY <2>1 DEF BegunWrite, BegunRead, Asks
  <2>3. WAIT_RES \subseteq status[c] /\ ~ReadingBlock(c)
    BY <2>2 DEF READY, BLOCK_INITWR, SEGMENTED, BLOCK_INITRD, WAIT_RES, BLOCK_READ, ReadingBlock
  <2>. QED BY <2>1, <2>3, WriteFacts, ReadFacts DEF Asked, BegunWrite, BegunRead
<1>2. ASSUME req[c] = <<sdomsg[c]>>, Calm(c)
      PROVE  Result(c)
  <2> DEFINE f == sdomsg[c]
  <2>1. Wire(c, <<f>>, <<>>)
    BY <1>1, <1>2 DEF Wire
  <2>2. SUFFICES ASSUME NodeStep(c) PROVE Result(c)
    BY <1>1, <2>1, InRequest
  <2>3. CASE node[c].st # "block"
    BY <1>1, <2>1, <2>2, <2>3, WriteTaken, ReadTaken
  <2>4. CASE node[c].st = "block"
    <3>1. f.cs \in {\h21, \h23, \h27, \h2B, \h2F, \h40, \hA0, \hC2}
      <4>1. CASE BegunWrite(c)
        <5>1. f = WriteRequest(c) /\ bufmax[c] \in Nat \ {0}
          BY <4>1, WriteFacts DEF BegunWrite, Asks
        <5>2. CASE bufmax[c] <= 4
          <6> DEFINE max == bufmax[c]
          <6>1. max \in 1 .. 4 /\ f.cs = (\h23 + 4 * (4 - max)) % 256
            BY <5>1, <5>2 DEF WriteRequest, SdoFrame
          <6>. HIDE DEF max, f
          <6>2. (\h23 + 4 * (4 - max)) % 256 \in {\h23, \h27, \h2B, \h2F}
            BY <6>1, WriteRequestBits
          <6>. QED BY <6>1, <6>2
        <5>3. CASE ~(bufmax[c] <= 4)
          BY <5>1, <5>3 DEF WriteRequest, SdoFrame
        <5>. QED BY <5>2, <5>3
      <4>2. CASE BegunRead(c)
        BY <4>2 DEF BegunRead, Asks, ReadRequest, SdoFrame
      <4>. QED BY <1>1, <4>1, <4>2
    <3>2. lost > 0 /\ node[c].blk \in 1 .. 31
      <4>1. lost # 0 /\ lost \in Nat /\ node[c].blk \in BlockSizes
        BY <1>2, <2>4 DEF Calm, Sound
      <4>. QED BY <4>1 DEF Reliable, SmallBlocks
    <3>3. Head(req[c]) = f /\ req'[c] = <<>> /\ Outside /\ UNCHANGED lost
      BY <1>2, <2>2, NodeTakes
    <3>. HIDE DEF f
    <3>4. f.cs # \h80 /\ SeqNo(f.cs) \notin 1 .. node[c].blk
      <4>1. PICK cs, blk : cs = f.cs /\ blk = node[c].blk
        OBVIOUS
      <4>2. cs # \h80 /\ SeqNo(cs) \notin 1 .. blk
        BY <3>1, <3>2, <4>1, RequestBits
      <4>. QED BY <4>1, <4>2
    <3>5. NodeAborts(c)
      <4>1. NodeBlockSegment(c, f)
        BY <2>2, <2>4, <3>3, <3>4, NodeBranch
      <4>. QED BY <3>4, <4>1 DEF NodeBlockSegment
    <3>. QED BY <1>1, <2>2, <3>2, <3>3, <3>5, NodeRefuses
  <2>. QED BY <2>3, <2>4
<1>3. ASSUME NEW f, req[c] = <<f, sdomsg[c]>>, LastWord(c, f)
      PROVE  Result(c)
  <2>1. Head(req[c]) = f /\ Tail(req[c]) = <<sdomsg[c]>> /\ req[c] # <<>>
    BY <1>3, ShortQueues
  <2>2. ~AppStep(c) /\ ~Receive(c) /\ ~Serve(c)
    BY <1>1, <2>1, NoCall, OnlyTimeout DEF Receive, Quiet
  <2>3. CASE Lose(c)
    <3>1. /\ Outside /\ UNCHANGED <<node, object, resp>> /\ lost' = lost + 1
          /\ req'[c] = <<sdomsg[c]>>
      BY <1>1, <2>1, <2>3, LoseKeeps DEF Shaped
    <3>2. /\ (BegunWrite(c) \/ BegunRead(c))' /\ out'.cb = <<>>
          /\ UNCHANGED <<sdomsg, pending, calls, mux, got, job>>
      BY <1>1, <3>1, ClientKept, BegunReadKept
    <3>3. lost' \in Nat /\ lost' # 0
      BY <3>1 DEF Sound
    <3>4. Asked(c)'
      BY <1>1, <3>1, <3>2, <3>3 DEF Asked, Calm
    <3>. QED BY <3>1, <3>2, <3>3, <3>4, SoundKept DEF Result, InPhase, Effect, Unseen
  <2>4. CASE NodeStep(c)
    <3>1. /\ Outside /\ UNCHANGED <<lost, resp, object>> /\ req'[c] = Tail(req[c])
          /\ node' = [node EXCEPT ![c] = Idle(node[c].mux)] /\ node'[c].st = "idle"
      BY <1>3, <2>1, <2>4, LastWordTaken
    <3>2. (BegunWrite(c) \/ BegunRead(c))' /\ UNCHANGED sdomsg
      BY <1>1, <3>1, ClientKept, BegunReadKept
    <3>3. Asked(c)'
      BY <1>1, <2>1, <3>1, <3>2 DEF Asked, Calm
    <3>4. DOMAIN Idle(node[c].mux) = NodeFields /\ Idle(node[c].mux).st # "block"
      BY IdleNode
    <3>. QED BY <3>1, <3>3, <3>4, NodeSilent DEF InPhase
  <2>. QED BY <2>2, <2>3, <2>4 DEF Step
<1>. QED BY <1>2, <1>3 DEF Asked
-----------------------------------------------------------------------------
(* A channel whose variables do not change stays in its phase, however     *)
(* many frames are lost on the others.                                     *)
Untouched(d) ==
  /\ status'[d] = status[d] /\ bufmax'[d] = bufmax[d] /\ buflen'[d] = buflen[d]
  /\ curlen'[d] = curlen[d] /\ pBuf'[d] = pBuf[d] /\ toggle'[d] = toggle[d]
  /\ blksize'[d] = blksize[d] /\ unused'[d] = unused[d] /\ mux'[d] = mux[d]
  /\ sdomsg'[d] = sdomsg[d] /\ pending'[d] = pending[d] /\ got'[d] = got[d]
  /\ calls'[d] = calls[d] /\ job'[d] = job[d] /\ req'[d] = req[d] /\ resp'[d] = resp[d]
  /\ node'[d] = node[d] /\ object'[d] = object[d]

LEMMA PhaseKept ==
  ASSUME NEW d \in Channels, Sound(d), InPhase(d), Untouched(d), lost' \in Nat, lost' >= lost
  PROVE  Sound(d)' /\ InPhase(d)'
<1>1. (lost > 0 => lost' > 0) /\ (lost' = 0 => lost = 0)
  BY DEF Sound
<1>2. Sound(d)'
  BY DEF Sound, Untouched
<1>3. /\ Entry(d)' = Entry(d) /\ (Writes(d) => Writes(d)') /\ (Reads(d) => Reads(d)')
      /\ (Written(d) => Written(d)') /\ (Calm(d) => Calm(d)')
      /\ (BegunWrite(d) => BegunWrite(d)') /\ (BegunRead(d) => BegunRead(d)')
  BY <1>1 DEF Untouched, Entry, Writes, Reads, Runs, Written, Calm, BegunWrite, BegunRead,
              Asks, WriteRequest, ReadRequest
<1>4. /\ AtRest(d) => AtRest(d)'
      /\ Asked(d) => Asked(d)'
      /\ Doomed(d) => Doomed(d)'
  BY <1>1, <1>3 DEF Untouched, AtRest, Asked, Doomed, LastWord, ReadingBlock
<1>5. /\ Stored(d) => Stored(d)'
      /\ DownloadOpened(d) => DownloadOpened(d)'
      /\ BlockOpened(d) => BlockOpened(d)'
  BY <1>1, <1>3 DEF Untouched, Stored, DownloadOpened, BlockOpened, Wire, Takes
<1>6. /\ SegmentReady(d) => SegmentReady(d)'
      /\ SegmentSent(d) => SegmentSent(d)'
      /\ SegmentAcked(d) => SegmentAcked(d)'
  <2>1. \A lo, wait : Segment(d, lo, wait) => Segment(d, lo, wait)'
    BY <1>3 DEF Untouched, Segment
  <2>2. \A st, n : Takes(d, st, n) => Takes(d, st, n)'
    BY DEF Untouched, Takes
  <2>3. \A q, r : Wire(d, q, r) => Wire(d, q, r)'
    BY DEF Untouched, Wire
  <2>4. SegmentReady(d) => SegmentReady(d)'
    BY <2>1, <2>2, <2>3 DEF Untouched, SegmentReady
  <2>5. SegmentSent(d) => SegmentSent(d)'
    BY <2>1, <2>2, <2>3 DEF Untouched, SegmentSent
  <2>6. SegmentAcked(d) => SegmentAcked(d)'
    BY <1>3, <2>1, <2>2, <2>3 DEF Untouched, SegmentAcked
  <2>. QED BY <2>4, <2>5, <2>6
<1>7. \A from, n : /\ UpTo(d, from, n)' = UpTo(d, from, n)
                   /\ BlockWrites(d, from) => BlockWrites(d, from)'
                   /\ InTouch(d, n) => InTouch(d, n)'
  BY <1>1, <1>3 DEF Untouched, UpTo, BlockWrites, InTouch
<1>8. /\ BlockSending(d) => BlockSending(d)'
      /\ BlockSent(d) => BlockSent(d)'
  <2>1. \A from, gone, n : SegmentsAfter(d, from, gone, n)' = SegmentsAfter(d, from, gone, n)
    BY DEF Untouched, SegmentsAfter, BlockSegment, UpTo
  <2>2. \A from, gone : BlockUnderWay(d, from, gone) => BlockUnderWay(d, from, gone)'
    BY <1>7, <2>1, ZenonT(40) DEF Untouched, BlockUnderWay
  <2>3. BlockEnds(d)' <=> BlockEnds(d)
    BY DEF Untouched, BlockEnds
  <2>. QED BY <2>2, <2>3 DEF Untouched, BlockSending, BlockSent
<1>9. BlockHeld(d) => BlockHeld(d)'
  BY <1>7 DEF Untouched, BlockHeld
<1>10. /\ BlockAcked(d) => BlockAcked(d)'
       /\ BlockConfirming(d) => BlockConfirming(d)'
       /\ BlockEnding(d) => BlockEnding(d)'
       /\ BlockEnded(d) => BlockEnded(d)'
  BY <1>3, <1>9 DEF Untouched, BlockAcked, BlockConfirming, BlockEnding, BlockEnded, Wire
<1>11. /\ Fetched(d) => Fetched(d)'
       /\ UploadOpened(d) => UploadOpened(d)'
       /\ BlockReadOpened(d) => BlockReadOpened(d)'
  BY <1>3 DEF Untouched, Fetched, UploadOpened, BlockReadOpened, Wire, Sends
<1>12. /\ UploadReady(d) => UploadReady(d)'
       /\ UploadAsked(d) => UploadAsked(d)'
       /\ UploadAnswered(d) => UploadAnswered(d)'
  <2>1. \A wait : Upload(d, wait) => Upload(d, wait)'
    BY <1>3 DEF Untouched, Upload
  <2>. QED BY <1>3, <2>1 DEF Untouched, UploadReady, UploadAsked, UploadAnswered, Wire, Sends
<1>13. BlockReads(d) => BlockReads(d)'
  BY <1>3 DEF Untouched, BlockReads
<1>14. /\ BlockReadStarting(d) => BlockReadStarting(d)'
       /\ BlockReadTaken(d) => BlockReadTaken(d)'
       /\ BlockReadGoesOn(d) => BlockReadGoesOn(d)'
       /\ BlockReadEnding(d) => BlockReadEnding(d)'
  BY <1>3, <1>13 DEF Untouched, BlockReadStarting, BlockReadTaken, BlockReadGoesOn,
                     BlockReadEnding, Wire, Sends
<1>15. BlockReceiving(d) => BlockReceiving(d)'
  <2>1. Segments(node[d], Entry(d).src)' = Segments(node[d], Entry(d).src)
    BY <1>3 DEF Untouched, Segments
  <2>. QED BY <1>1, <1>3, <1>13, <2>1 DEF Untouched, BlockReceiving, Sends
<1>. QED BY <1>2, <1>4, <1>5, <1>6, <1>8, <1>10, <1>11, <1>12, <1>14, <1>15 DEF InPhase

(* What is under way to a node is a queue.                                 *)
LEMMA QueueStays ==
  ASSUME NEW c \in Channels, Sound(c), InPhase(c), InOrderAnswers
  PROVE  req[c] \o <<>> = req[c]
<1>1. CASE \E from \in 0 .. bufmax[c] - 1, gone \in 0 .. toggle[c] : BlockUnderWay(c, from, gone)
  <2>1. PICK from, gone : BlockUnderWay(c, from, gone)
    BY <1>1
  <2> DEFINE q == req[c]
             n == toggle[c] - gone
  <2>2. n \in Nat /\ q = SegmentsAfter(c, from, gone, n)
    <3>1. node[c].blk \in 1 .. 127 /\ toggle[c] \in 0 .. node[c].blk /\ gone \in 0 .. toggle[c]
      BY <2>1, BlockRange DEF BlockUnderWay
    <3>2. n \in Nat
      <4> DEFINE t == toggle[c]
                 b == node[c].blk
      <4>1. b \in 1 .. 127 /\ t \in 0 .. b /\ gone \in 0 .. t
        BY <3>1
      <4>. HIDE DEF b, t
      <4>2. t - gone \in Nat
        BY <4>1
      <4>. QED BY <4>2 DEF t
    <3>. QED BY <2>1, <3>2 DEF BlockUnderWay
  <2>. HIDE DEF n
  <2>3. q = [i \in 1 .. n |-> q[i]]
    BY <2>2 DEF SegmentsAfter
  <2>. HIDE DEF q
  <2>4. q \o <<>> = q
    BY <2>2, <2>3, Listing
  <2>. QED BY <2>4 DEF q
<1>2. CASE req[c] = <<>> \/ (\E f : req[c] = <<f>>) \/ (\E f, g : req[c] = <<f, g>>)
  BY <1>2, ShortQueues
<1>. QED BY <1>1, <1>2 DEF InPhase, AtRest, Asked, Doomed, Stored, DownloadOpened, SegmentReady,
     SegmentSent, SegmentAcked, BlockOpened, BlockSending, BlockSent, BlockAcked,
     BlockConfirming, BlockEnding, BlockEnded, Fetched, UploadOpened, UploadReady,
     UploadAsked, UploadAnswered, BlockReadOpened, BlockReadStarting, BlockReceiving,
     BlockReadTaken, BlockReadGoesOn, BlockReadEnding, Wire
-----------------------------------------------------------------------------
(* What a step writes into the history: at most its own channel's buffer,  *)
(* and the result together with the report.                                *)
FillsOwn(c) == got' = got \/ \E content : got' = [got EXCEPT ![c] = content]
Tells(c) == \/ out'.cb = <<>> /\ UNCHANGED <<lastAbort, pending>>
            \/ \E code, tx : code \in Codes /\ Complete(c, code, tx)

LEMMA ResponseTells ==
  ASSUME NEW c, NEW f, MGR_HandleSDOClientResponse(c, f)
  PROVE  FillsOwn(c) /\ Tells(c)
<1>. USE DEF Silent, Out, Codes, ErrCodes, AbortCodes
<1>1. CASE RecvBlockSegment(c, f)
  <2>1. got' = got \/ \E content : got' = [got EXCEPT ![c] = content]
    BY <1>1, Zenon DEF RecvBlockSegment, Set
  <2>2. out'.cb = <<>> /\ UNCHANGED <<lastAbort, pending>>
    BY <1>1 DEF RecvBlockSegment
  <2>. QED BY <2>1, <2>2 DEF FillsOwn, Tells
<1>2. CASE RecvBlockReadInit(c, f)
  BY <1>2 DEF RecvBlockReadInit, Fail, FillsOwn, Tells
<1>3. CASE \/ RecvBlockReadEnd(c, f) \/ RecvBlockWriteInit(c, f) \/ RecvBlockWriteEnd(c, f)
           \/ RecvBlockAck(c, f) \/ RecvUploadInit(c, f)
  BY <1>3 DEF RecvBlockReadEnd, RecvBlockWriteInit, RecvBlockWriteEnd, RecvBlockAck,
              RecvUploadInit, FillsOwn, Tells
<1>4. CASE RecvAbort(c, f) \/ RecvOtherEntry(c, f) \/ RecvUnknown(c, f)
  BY <1>4 DEF RecvAbort, RecvOtherEntry, RecvUnknown, Fail, FillsOwn, Tells
<1>5. CASE RecvDownloadAck(c, f)
  <2>1. UNCHANGED got /\ (\/ Complete(c, "SDOERR_OK", <<>>) \/ Fail(c, "SDOERR_TOGGLE")
                          \/ PrepareSegment(c))
    BY <1>5 DEF RecvDownloadAck
  <2>2. PrepareSegment(c) => Silent(c)
    BY DEF PrepareSegment
  <2>. QED BY <2>1, <2>2 DEF Fail, FillsOwn, Tells
<1>6. CASE RecvExpedited(c, f)
  <2>1. (\E content : got' = [got EXCEPT ![c] = content]) /\ Complete(c, "SDOERR_OK", <<>>)
    BY <1>6, Zenon DEF RecvExpedited, Set
  <2>. QED BY <2>1 DEF FillsOwn, Tells
<1>7. CASE RecvUploadSegment(c, f)
  <2>1. \/ UploadSegmentTaken(c, f)
        \/ UNCHANGED got /\ (Fail(c, "SDOERR_TOGGLE") \/ Fail(c, "SDOERR_BUFSIZE"))
    BY <1>7 DEF RecvUploadSegment
  <2>2. CASE UploadSegmentTaken(c, f)
    <3>1. /\ \E content : got' = [got EXCEPT ![c] = content]
          /\ Complete(c, "SDOERR_OK", <<>>) \/ Silent(c)
      BY <2>2, Zenon DEF UploadSegmentTaken, Set
    <3>2. FillsOwn(c)
      BY <3>1 DEF FillsOwn
    <3>3. Tells(c)
      <4>1. Complete(c, "SDOERR_OK", <<>>) => Tells(c)
        BY DEF Tells
      <4>2. Silent(c) => Tells(c)
        BY DEF Tells
      <4>. QED BY <3>1, <4>1, <4>2
    <3>. QED BY <3>2, <3>3
  <2>. QED BY <2>1, <2>2 DEF Fail, FillsOwn, Tells
<1>. QED BY <1>1, <1>2, <1>3, <1>4, <1>5, <1>6, <1>7 DEF MGR_HandleSDOClientResponse

LEMMA TurnTells ==
  ASSUME NEW c, MGR_SDOHandleClient(c)
  PROVE  UNCHANGED got /\ Tells(c)
<1>. USE DEF Silent, Send, Out, Codes, ErrCodes, AbortCodes
<1>1. CASE Timeout(c)
  BY <1>1 DEF Timeout, Fail, Tells
<1>2. CASE SendNext(c) \/ Pass(c)
  BY <1>2 DEF SendNext, Pass, Tells
<1>3. CASE SendBlockSegment(c)
  BY <1>3 DEF SendBlockSegment, Tells
<1>4. CASE ConfirmBlockWrite(c) \/ StartBlockRead(c) \/ ConfirmBlock(c)
  BY <1>4 DEF ConfirmBlockWrite, StartBlockRead, ConfirmBlock, Command, Tells
<1>5. CASE FinishBlockWrite(c) \/ FinishBlockRead(c)
  <2>1. UNCHANGED got /\ \E tx : Complete(c, "SDOERR_OK", tx)
    BY <1>5 DEF FinishBlockWrite, FinishBlockRead, Command
  <2>. QED BY <2>1 DEF Tells
<1>. QED BY <1>1, <1>2, <1>3, <1>4, <1>5 DEF MGR_SDOHandleClient, Proceed

-----------------------------------------------------------------------------
(* Every step touches one channel.                                         *)
LEMMA CallTouches ==
  ASSUME Shaped, NEW c \in Channels, Sound(c), InOrderAnswers, AppStep(c)
  PROVE  /\ Touches(c) /\ FillsOwn(c) /\ lastAbort'[c] = "running"
<1>1. PICK m, src, size :
        /\ UseBuffer(c, src, size)
        /\ \/ StartWrite(c, m, [src |-> src, off |-> 0], size, 0)
           \/ StartRead(c, m, size)
        /\ \E j : job' = [job EXCEPT ![c] = j]
  <2>1. /\ "Write" \notin AppCalls /\ "Read" \notin AppCalls /\ "Init" \notin AppCalls
        /\ "Abort" \notin AppCalls
    BY DEF InOrderAnswers
  <2>2. \/ \E m \in Muxes, src \in Data, size \in Sizes : Write(c, m, src, size)
        \/ \E m \in Muxes, size \in Sizes : Read(c, m, size)
    BY <2>1 DEF AppStep, AppStarts, AppAborts, WriteAgain, ReadAgain, Initialise
  <2>3. ASSUME NEW m, NEW src, NEW size, Write(c, m, src, size)
        PROVE  /\ UseBuffer(c, src, size)
               /\ StartWrite(c, m, [src |-> src, off |-> 0], size, 0)
               /\ \E j : job' = [job EXCEPT ![c] = j]
    BY <2>3, Zenon DEF Write, WriteRemoteODExtended, SDOCLNT_WriteXtd, Set
  <2>4. ASSUME NEW m, NEW size, Read(c, m, size)
        PROVE  /\ UseBuffer(c, NoData, size) /\ StartRead(c, m, size)
               /\ \E j : job' = [job EXCEPT ![c] = j]
    BY <2>4, Zenon DEF Read, ReadRemoteODExtended, SDOCLNT_ReadXtd, Set
  <2>. QED BY <2>2, <2>3, <2>4
<1>2. /\ \E x : bufmax' = [bufmax EXCEPT ![c] = x]
      /\ \E x : buflen' = [buflen EXCEPT ![c] = x]
      /\ \E x : pBuf' = [pBuf EXCEPT ![c] = x]
  BY <1>1, Zenon DEF UseBuffer, Set
<1>3. Called(c, TRUE)
  BY <1>1 DEF StartWrite, StartRead
<1>4. /\ \E x : calls' = [calls EXCEPT ![c] = x]
      /\ \E x : pending' = [pending EXCEPT ![c] = x]
      /\ \E x : got' = [got EXCEPT ![c] = x]
      /\ lastAbort' = [lastAbort EXCEPT ![c] = "running"]
      /\ UNCHANGED <<unused, blksize>>
  BY <1>3, Zenon DEF Called, Set
<1>5. /\ \E x : mux' = [mux EXCEPT ![c] = x]
      /\ \E x : sdomsg' = [sdomsg EXCEPT ![c] = x]
      /\ \E x : status' = [status EXCEPT ![c] = x]
      /\ \E x : curlen' = [curlen EXCEPT ![c] = x]
      /\ UNCHANGED toggle \/ \E x : toggle' = [toggle EXCEPT ![c] = x]
  <2>1. CASE StartRead(c, m, size)
    BY <2>1, Zenon DEF StartRead, Request, ResetProgress, Set
  <2>2. CASE StartWrite(c, m, [src |-> src, off |-> 0], size, 0)
    <3>1. \/ StartExpeditedWrite(c, m, [src |-> src, off |-> 0], size, 0)
          \/ \E cs, st : StartLongWrite(c, m, cs, size, st)
      BY <2>2, Zenon DEF StartWrite
    <3>2. CASE StartExpeditedWrite(c, m, [src |-> src, off |-> 0], size, 0)
      BY <3>2, Zenon DEF StartExpeditedWrite, Request, Set
    <3>3. ASSUME NEW cs, NEW st, StartLongWrite(c, m, cs, size, st)
          PROVE  /\ \E x : mux' = [mux EXCEPT ![c] = x]
                 /\ \E x : sdomsg' = [sdomsg EXCEPT ![c] = x]
                 /\ \E x : status' = [status EXCEPT ![c] = x]
                 /\ \E x : curlen' = [curlen EXCEPT ![c] = x]
                 /\ \E x : toggle' = [toggle EXCEPT ![c] = x]
      BY <3>3, Zenon DEF StartLongWrite, Request, ResetProgress, Set
    <3>. QED BY <3>1, <3>2, <3>3
  <2>. QED BY <1>1, <2>1, <2>2
<1>6. /\ req' = [req EXCEPT ![c] = @ \o <<sdomsg'[c]>>] /\ UNCHANGED <<resp, node, object, lost>>
  BY CallBegins
<1>7. lastAbort'[c] = "running" /\ FillsOwn(c)
  BY <1>4 DEF Shaped, FillsOwn
<1>8. Shaped'
  BY <1>1, <1>2, <1>4, <1>5, <1>6 DEF Shaped
<1>9. lost \in Nat => lost' \in Nat /\ lost' >= lost
  BY <1>6
<1>10. Touches(c)
  BY <1>1, <1>2, <1>4, <1>5, <1>6, <1>8, <1>9 DEF Shaped, Touches
<1>. QED BY <1>7, <1>10

LEMMA OutsideTouches ==
  ASSUME Shaped, NEW c \in Channels, Outside,
         UNCHANGED req \/ \E x : req' = [req EXCEPT ![c] = x],
         UNCHANGED resp \/ \E x : resp' = [resp EXCEPT ![c] = x],
         UNCHANGED node \/ \E x : node' = [node EXCEPT ![c] = x],
         UNCHANGED object \/ \E x : object' = [object EXCEPT ![c] = x],
         lost \in Nat => lost' \in Nat /\ lost' >= lost
  PROVE  Touches(c)
  BY DEF Outside, buffer, progress, history, Shaped, Touches

(* A node's answers and objects.                                           *)
NodeTouch(c) ==
  /\ UNCHANGED resp \/ \E x : resp' = [resp EXCEPT ![c] = x]
  /\ UNCHANGED node \/ \E x : node' = [node EXCEPT ![c] = x]
  /\ UNCHANGED object \/ \E x : object' = [object EXCEPT ![c] = x]

LEMMA AbortTouch ==
  ASSUME NEW c, NodeAborts(c)
  PROVE  NodeTouch(c)
<1>1. /\ \E x : resp' = [resp EXCEPT ![c] = x]
      /\ \E x : node' = [node EXCEPT ![c] = x]
      /\ UNCHANGED object
  BY Zenon DEF NodeAborts, Reply, Answer, Set
<1>. QED BY <1>1 DEF NodeTouch

LEMMA NodeStepTouch ==
  ASSUME Shaped, NEW c \in Channels, NodeStep(c)
  PROVE  NodeTouch(c)
<1> DEFINE f == Head(req[c])
<1>. USE DEF Reply, Answer, Set, Store
<1>1. CASE NodeBlockSegment(c, f)
  <2>1. \/ NodeAborts(c)
        \/ /\ UNCHANGED object /\ \E x : node' = [node EXCEPT ![c] = x]
           /\ UNCHANGED resp \/ \E x : resp' = [resp EXCEPT ![c] = x]
    BY <1>1, Zenon DEF NodeBlockSegment
  <2>. QED BY <2>1, AbortTouch DEF NodeTouch
<1>2. CASE NodeWriteExpedited(c, f)
  BY <1>2, Zenon DEF NodeWriteExpedited, NodeTouch
<1>3. CASE NodeWriteInit(c, f)
  BY <1>3, Zenon DEF NodeWriteInit, NodeTouch
<1>4. CASE NodeWriteSegment(c, f)
  <2>1. \/ NodeAborts(c)
        \/ /\ \E x : resp' = [resp EXCEPT ![c] = x]
           /\ UNCHANGED object \/ \E x : object' = [object EXCEPT ![c] = x]
           /\ \E x : node' = [node EXCEPT ![c] = x]
    <3> DEFINE acc == Place(node[c].acc, node[c].acc.len, f.data, SegmentLen(f.cs))
               reply == Reply(c, node[c].mux, \h20 + ToggleBit(f.cs), 0, NoChunk)
    <3>1. \/ NodeAborts(c)
          \/ /\ node' = [node EXCEPT ![c].acc = acc, ![c].tog = FlipToggle(@)]
             /\ reply /\ UNCHANGED object
          \/ /\ node' = [node EXCEPT ![c] = Idle(node[c].mux)]
             /\ object' = [object EXCEPT ![c][node[c].mux] = acc] /\ reply
      BY <1>4 DEF NodeWriteSegment
    <3>2. reply => \E x : resp' = [resp EXCEPT ![c] = x]
      BY Zenon
    <3>3. [node EXCEPT ![c].acc = acc, ![c].tog = FlipToggle(@)]
            = [node EXCEPT ![c] = [node[c] EXCEPT !.acc = acc, !.tog = FlipToggle(@)]]
      <4>. HIDE DEF acc
      <4>. QED BY DEF Shaped
    <3>4. [object EXCEPT ![c][node[c].mux] = acc]
            = [object EXCEPT ![c] = [object[c] EXCEPT ![node[c].mux] = acc]]
      <4>. HIDE DEF acc
      <4>. QED BY DEF Shaped
    <3>. HIDE DEF acc, reply
    <3>. QED BY <3>1, <3>2, <3>3, <3>4, Zenon
  <2>. QED BY <2>1, AbortTouch DEF NodeTouch
<1>5. CASE NodeBlockWriteInit(c, f)
  BY <1>5, Zenon DEF NodeBlockWriteInit, NodeTouch
<1>6. CASE NodeBlockWriteEnd(c, f)
  <2>1. NodeAborts(c) \/ NodeTouch(c)
    BY <1>6, Zenon DEF NodeBlockWriteEnd, NodeTouch
  <2>. QED BY <2>1, AbortTouch
<1>7. CASE NodeRead(c, f)
  BY <1>7, Zenon DEF NodeRead, NodeTouch
<1>8. CASE NodeReadSegment(c, f)
  <2>1. NodeAborts(c) \/ NodeTouch(c)
    BY <1>8, Zenon DEF NodeReadSegment, NodeTouch
  <2>. QED BY <2>1, AbortTouch
<1>9. CASE NodeBlockReadInit(c, f)
  BY <1>9, Zenon DEF NodeBlockReadInit, NodeTouch
<1>10. CASE NodeSendsBlock(c, f)
  <2> DEFINE n == IF f.cs = \hA3 THEN node[c] ELSE [node[c] EXCEPT !.pos = @ + 7 * f.arg]
             m == [n EXCEPT !.st = "readEnd"]
             all == Segments(n, object[c][n.mux].src)
             end == <<SdoFrame(\hC1 + 4 * (n.pos - n.size), n.mux, 0, NoChunk)>>
  <2>2. \/ NodeAborts(c)
        \/ /\ node' = [node EXCEPT ![c] = n] /\ UNCHANGED object
           /\ resp' = [resp EXCEPT ![c] = @ \o all]
        \/ /\ node' = [node EXCEPT ![c] = m] /\ UNCHANGED object
           /\ resp' = [resp EXCEPT ![c] = @ \o end]
    BY <1>10 DEF NodeSendsBlock
  <2>. HIDE DEF n, m, all, end
  <2>1. NodeAborts(c) \/ NodeTouch(c)
    BY <2>2, Zenon DEF NodeTouch
  <2>. QED BY <2>1, AbortTouch
<1>11. CASE NodeEnds(c, f)
  BY <1>11, Zenon DEF NodeEnds, NodeTouch
<1>12. CASE NodeRejects(c, f)
  BY <1>12, AbortTouch DEF NodeRejects
<1>. QED BY <1>1, <1>2, <1>3, <1>4, <1>5, <1>6, <1>7, <1>8, <1>9, <1>10, <1>11, <1>12
         DEF NodeStep

LEMMA StepTouches ==
  ASSUME Shaped, NEW c \in Channels, Sound(c), InOrderAnswers, Step(c) \/ PassBy(c)
  PROVE  /\ Touches(c) /\ FillsOwn(c)
         /\ UNCHANGED object \/ \E x : object' = [object EXCEPT ![c] = x]
         /\ \/ Tells(c) /\ UNCHANGED calls
            \/ out'.cb = <<>> /\ lastAbort'[c] = "running" /\ pending'[c]
<1>1. CASE AppStep(c)
  <2>1. /\ out' = [ch |-> c, tx |-> <<sdomsg'[c]>>, cb |-> <<>>]
        /\ UNCHANGED <<resp, node, object, lost>>
    BY <1>1, CallBegins
  <2>2. UNCHANGED object /\ out'.cb = <<>> /\ pending'[c]
    <3>1. pending'[c]
      BY <1>1, CallBegins DEF BegunWrite, BegunRead, Writes, Reads, Runs
    <3>. QED BY <2>1, <3>1
  <2>. QED BY <1>1, <2>2, CallTouches
<1>2. CASE Receive(c) \/ Serve(c) \/ PassBy(c)
  <2>1. /\ ClientTouches(c) /\ WorldKept
        /\ resp' = [resp EXCEPT ![c] = Tail(@)] \/ UNCHANGED resp
        /\ req' = [req EXCEPT ![c] = @ \o out'.tx]
    BY <1>2, ReceiveKeeps, ServeKeeps
  <2>2. FillsOwn(c) /\ Tells(c)
    <3>1. MGR_SDOHandleClient(c) \/ \E f : MGR_HandleSDOClientResponse(c, f)
      BY <1>2 DEF Receive, Serve, PassBy, Linked, Act, MGR_SDOHandleClient
    <3>. QED BY <3>1, ResponseTells, TurnTells DEF FillsOwn
  <2>3. Touches(c)
    <3>1. lost \in Nat => lost' \in Nat /\ lost' >= lost
      BY <2>1 DEF WorldKept
    <3>2. Shaped'
      BY <2>1 DEF Shaped, ClientTouches, WorldKept
    <3>. QED BY <2>1, <3>1, <3>2 DEF Shaped, ClientTouches, WorldKept, Touches
  <2>. QED BY <2>1, <2>2, <2>3 DEF WorldKept
<1>3. CASE Lose(c)
  <2>1. /\ Outside /\ UNCHANGED <<node, object>> /\ lost' = lost + 1
        /\ UNCHANGED req \/ \E x : req' = [req EXCEPT ![c] = x]
        /\ UNCHANGED resp \/ \E x : resp' = [resp EXCEPT ![c] = x]
    BY <1>3, LoseKeeps, Zenon
  <2>2. lost \in Nat => lost' \in Nat /\ lost' >= lost
    BY <2>1
  <2>3. FillsOwn(c) /\ Tells(c) /\ UNCHANGED calls
    BY <2>1 DEF Outside, history, Start, FillsOwn, Tells
  <2>. QED BY <2>1, <2>2, <2>3, OutsideTouches
<1>4. CASE NodeStep(c)
  <2>1. Outside /\ UNCHANGED lost /\ \E x : req' = [req EXCEPT ![c] = x]
    BY <1>4, Zenon DEF NodeStep
  <2>2. NodeTouch(c)
    BY <1>4, NodeStepTouch
  <2>3. lost \in Nat => lost' \in Nat /\ lost' >= lost
    BY <2>1
  <2>4. FillsOwn(c) /\ Tells(c) /\ UNCHANGED calls
    BY <2>1 DEF Outside, history, Start, FillsOwn, Tells
  <2>. QED BY <2>1, <2>2, <2>3, <2>4, OutsideTouches DEF NodeTouch
<1>. QED BY <1>1, <1>2, <1>3, <1>4 DEF Step
-----------------------------------------------------------------------------
(* The invariant.                                                          *)
Functions == /\ got = [c \in Channels |-> got[c]]
             /\ object = [c \in Channels |-> object[c]]
(* What the last step reported is true, and GetStatus tells it.            *)
Told == out.cb # <<>> =>
          /\ out.ch \in Channels
          /\ \E code \in Codes : /\ out.cb = <<code>> /\ IsTrue(out.ch, code)
                                 /\ lastAbort[out.ch] = IF code = "SDOERR_OK" THEN "none" ELSE code
Known == \A c \in Channels : calls[c] > 0 => (pending[c] <=> lastAbort[c] = "running")
Inv == Shaped /\ Functions /\ Exchange /\ Told /\ Known

LEMMA InitInv == SysInit => Inv
<1>. SUFFICES ASSUME SysInit PROVE Inv
  OBVIOUS
<1>1. Shaped /\ Functions
  BY DEF SysInit, Init, Shaped, Functions
<1>2. Told /\ Known
  BY DEF SysInit, Init, Start, Told, Known
<1>3. ASSUME NEW c \in Channels PROVE Sound(c) /\ AtRest(c)
  <2>1. mux[c] \in Muxes /\ calls[c] = 0 /\ lost = 0 /\ node[c] = Idle(mux[c])
    BY DEF SysInit, Init
  <2>2. object[c] \in [Muxes -> Contents]
    <3>1. PICK sizes \in [Channels -> [Muxes -> ObjectSizes]] :
            object = [d \in Channels |-> [m \in Muxes |-> Whole(Original, sizes[d][m])]]
      BY DEF SysInit
    <3>2. Original \in Data
      BY DataAssumption DEF Original
    <3>3. \A m \in Muxes : Whole(Original, sizes[c][m]) \in Contents
      BY <3>1, <3>2 DEF Whole, Contents
    <3>. QED BY <3>1, <3>3
  <2>3. DOMAIN node[c] = NodeFields /\ node[c].st = "idle"
    BY <2>1, IdleNode
  <2>4. AtRest(c)
    BY <2>1, <2>3 DEF SysInit, Init, AtRest, Calm
  <2>. QED BY <2>1, <2>2, <2>3, <2>4 DEF Sound
<1>. QED BY <1>1, <1>2, <1>3 DEF Inv, Exchange, InPhase

(* A step takes its channel to another phase.                              *)
LEMMA StepResult ==
  ASSUME Shaped, NEW c \in Channels, Sound(c), InPhase(c), InOrderAnswers, Reliable,
         Step(c)
  PROVE  Result(c)
BY FromAtRest, FromAsked, FromDoomed, FromStored, FromDownloadOpened, FromSegmentReady,
   FromSegmentSent, FromSegmentAcked, FromBlockOpened, FromBlockSending, FromBlockSent,
   FromBlockAcked, FromBlockConfirming, FromBlockEnding, FromBlockEnded, FromFetched,
   FromUploadOpened, FromUploadReady, FromUploadAsked, FromUploadAnswered,
   FromBlockReadOpened, FromBlockReadStarting, FromBlockReceiving, FromBlockReadTaken,
   FromBlockReadGoesOn, FromBlockReadEnding DEF InPhase

(* A turn that finds nothing to do changes nothing.                        *)
LEMMA PassResult ==
  ASSUME Shaped, NEW c \in Channels, Sound(c), InPhase(c), InOrderAnswers, PassBy(c)
  PROVE  Result(c)
<1>1. /\ WorldKept /\ UNCHANGED resp /\ req' = [req EXCEPT ![c] = @ \o out'.tx]
  BY ServeKeeps
<1>2. Pass(c)
  BY DEF PassBy, Linked
<1>3. out'.tx = <<>> /\ out'.cb = <<>>
  BY <1>2 DEF Pass, Silent, Out
<1>4. UNCHANGED <<status, bufmax, buflen, pBuf, curlen, toggle, blksize, unused, sdomsg,
                  got, pending>>
  BY <1>2 DEF Pass, Silent, buffer, progress
<1>5. req'[c] = req[c]
  BY <1>1, <1>3, QueueStays DEF Shaped
<1>6. Untouched(c)
  BY <1>1, <1>4, <1>5 DEF WorldKept, Untouched
<1>7. lost' \in Nat /\ lost' >= lost
  BY <1>1 DEF Sound, WorldKept
<1>8. Unseen(c)
  BY <1>1, <1>3, <1>4 DEF WorldKept, Unseen
<1>. QED BY <1>6, <1>7, <1>8, PhaseKept DEF Result, Effect

LEMMA StepKeeps ==
  ASSUME InOrderAnswers, Reliable, Inv, NEW c \in Channels, Step(c) \/ PassBy(c)
  PROVE  Inv' /\ Touches(c) /\ Effect(c)
<1>1. Shaped /\ Sound(c) /\ InPhase(c)
  BY DEF Inv, Exchange
<1>2. Result(c)
  BY <1>1, StepResult, PassResult
<1>3. /\ Touches(c) /\ FillsOwn(c)
      /\ UNCHANGED object \/ \E x : object' = [object EXCEPT ![c] = x]
      /\ \/ Tells(c) /\ UNCHANGED calls
         \/ out'.cb = <<>> /\ lastAbort'[c] = "running" /\ pending'[c]
  BY <1>1, StepTouches
<1>4. Shaped'
  BY <1>3 DEF Touches
<1>5. Functions'
  <2>1. got = [d \in Channels |-> got[d]] /\ object = [d \in Channels |-> object[d]]
    BY DEF Inv, Functions
  <2>2. got' = [d \in Channels |-> got'[d]]
    BY <1>1, <1>3, <2>1 DEF FillsOwn, Shaped
  <2>3. object' = [d \in Channels |-> object'[d]]
    BY <1>1, <1>3, <2>1 DEF Shaped
  <2>. QED BY <2>2, <2>3 DEF Functions
<1>6. Exchange'
  <2>1. ASSUME NEW d \in Channels PROVE Sound(d)' /\ InPhase(d)'
    <3>1. CASE d = c
      BY <1>2, <3>1 DEF Result
    <3>2. CASE d # c
      <4>1. Sound(d) /\ InPhase(d)
        BY DEF Inv, Exchange
      <4>2. Untouched(d)
        BY <1>3, <3>2 DEF Touches, Untouched
      <4>3. lost' \in Nat /\ lost' >= lost
        BY <1>1, <1>3 DEF Touches, Sound
      <4>. QED BY <4>1, <4>2, <4>3, PhaseKept
    <3>. QED BY <3>1, <3>2
  <2>. QED BY <2>1 DEF Exchange
<1>7. Told'
  <2>1. SUFFICES ASSUME out'.cb # <<>> PROVE Told'
    BY DEF Told
  <2>2. Ends(c)
    BY <1>2, <2>1 DEF Result, Effect, Unseen, Begins, TakesEffect
  <2>3. PICK code : out'.cb = <<code>> /\ IsTrue(c, code)'
    BY <2>2 DEF Ends
  <2>4. PICK told, tx : told \in Codes /\ Complete(c, told, tx)
    BY <1>3, <2>1 DEF Tells
  <2>5. out'.cb = <<told>> /\ out'.ch = c
        /\ lastAbort'[c] = IF told = "SDOERR_OK" THEN "none" ELSE told
    BY <1>1, <2>4 DEF Complete, Out, Set, Shaped
  <2>6. code = told
    BY <2>3, <2>5
  <2>. QED BY <2>3, <2>4, <2>5, <2>6 DEF Told
<1>8. Known'
  <2>1. SUFFICES ASSUME NEW d \in Channels, calls'[d] > 0
        PROVE pending'[d] <=> lastAbort'[d] = "running"
    BY DEF Known
  <2>2. CASE d # c
    BY <1>3, <2>1, <2>2 DEF Touches, Inv, Known
  <2>3. CASE d = c /\ Tells(c) /\ UNCHANGED calls
    <3>1. CASE UNCHANGED <<lastAbort, pending>>
      BY <2>1, <2>3, <3>1 DEF Inv, Known
    <3>2. CASE \E code, tx : code \in Codes /\ Complete(c, code, tx)
      <4>1. PICK code, tx : code \in Codes /\ Complete(c, code, tx)
        BY <3>2
      <4>2. ~pending'[c] /\ lastAbort'[c] = IF code = "SDOERR_OK" THEN "none" ELSE code
        BY <1>1, <4>1 DEF Complete, Set, Shaped
      <4>3. code # "running"
        BY <4>1 DEF Codes, ErrCodes, AbortCodes
      <4>. QED BY <2>3, <4>2, <4>3
    <3>. QED BY <2>3, <3>1, <3>2 DEF Tells
  <2>. QED BY <1>3, <2>2, <2>3
<1>. QED BY <1>2, <1>3, <1>4, <1>5, <1>6, <1>7, <1>8 DEF Inv, Result

LEMMA InvNext ==
  ASSUME InOrderAnswers, Reliable, Inv, [Next]_vars
  PROVE  Inv'
<1>1. CASE Next
  BY <1>1, StepKeeps DEF Next, Step
<1>2. CASE UNCHANGED vars
  <2>. USE <1>2 DEF vars, clientVars, buffer, progress, history, linkVars
  <2>1. (Shaped /\ Functions)' <=> Shaped /\ Functions
    BY DEF Shaped, Functions
  <2>2. (Told /\ Known)' <=> Told /\ Known
    BY DEF Told, Known, IsTrue, TooLarge
  <2>3. Exchange'
    <3>1. ASSUME NEW d \in Channels PROVE Sound(d)' /\ InPhase(d)'
      <4>1. Sound(d) /\ InPhase(d)
        BY DEF Inv, Exchange
      <4>2. Untouched(d)
        BY DEF Untouched
      <4>3. lost' \in Nat /\ lost' >= lost
        BY <4>1 DEF Sound
      <4>. QED BY <4>1, <4>2, <4>3, PhaseKept
    <3>. QED BY <3>1 DEF Exchange
  <2>. QED BY <2>1, <2>2, <2>3 DEF Inv
<1>. QED BY <1>1, <1>2

(* A frame that was lost stays lost.                                       *)
LEMMA LossesStay ==
  ASSUME lost \in Nat, [Next]_vars
  PROVE  lost' \in Nat /\ lost' >= lost
<1>1. UNCHANGED lost \/ lost' = lost + 1
  BY DEF Next, AppStep, Receive, Serve, PassBy, Linked, Lose, NodeStep, vars, linkVars
<1>. QED BY <1>1

(* The invariant holds as long as nothing was lost, and with small blocks  *)
(* for good.                                                               *)
LEMMA ReliableInv ==
  ASSUME InOrderAnswers
  PROVE  Spec => [](lost \in Nat /\ (Reliable => Inv))
<1> DEFINE R == lost \in Nat /\ (Reliable => Inv)
<1>1. SysInit => R
  BY InitInv DEF SysInit
<1>2. ASSUME R, [Next]_vars PROVE R'
  <2>1. lost' \in Nat /\ lost' >= lost
    BY <1>2, LossesStay
  <2>2. Reliable' => Reliable
    BY <1>2, <2>1 DEF Reliable, SmallBlocks
  <2>3. Reliable => Inv'
    BY <1>2, InvNext
  <2>. QED BY <2>1, <2>2, <2>3
<1>. QED BY <1>1, <1>2, PTL DEF Spec

LEMMA SmallIsReliable == ASSUME SmallBlocks PROVE Reliable
BY DEF Reliable

LEMMA InvHolds ==
  ASSUME InOrderAnswers, SmallBlocks
  PROVE  Spec => []Inv
<1>1. lost \in Nat /\ (Reliable => Inv) => Inv
  BY SmallIsReliable
<1>. QED BY <1>1, ReliableInv, PTL
-----------------------------------------------------------------------------
(* What the invariant says of reports, status and sessions.                *)
LEMMA ReportIsTrue ==
  ASSUME Inv, out.cb # <<>>
  PROVE  /\ Done \in Channels
         /\ \E code \in Codes : /\ out.cb = <<code>> /\ IsTrue(Done, code)
                                /\ lastAbort[Done] = IF code = "SDOERR_OK" THEN "none"
                                                     ELSE code
BY DEF Inv, Told, Done

LEMMA BusyPhases ==
  ASSUME NEW c \in Channels, InPhase(c), ~AtRest(c)
  PROVE  /\ pending[c]
         /\ \/ \E i \in {1, 2, 3, 4} : i \in status[c]
            \/ 0 \notin status[c]
            \/ status[c] = BLOCK_WRFINA
<1>. USE DEF READY, WAIT_RES, NEXT_UPL, NEXT_DWN, LAST_SEG, SEGMENTED, BLOCK_INITWR,
             BLOCK_WRITE, BLOCK_WRCONF, BLOCK_WRFINA, BLOCK_INITRD, BLOCK_READ,
             BLOCK_RDCONF, BLOCK_RDFINA
<1>1. CASE BegunWrite(c) \/ BegunRead(c)
  BY <1>1 DEF BegunWrite, BegunRead, Writes, Reads, Runs, Asks
<1>2. CASE Doomed(c)
  BY <1>2 DEF Doomed
<1>3. CASE SegmentReady(c) \/ SegmentSent(c) \/ SegmentAcked(c)
  BY <1>3 DEF SegmentReady, SegmentSent, SegmentAcked, Segment, Writes, Runs
<1>4. CASE BlockSending(c) \/ BlockSent(c)
  BY <1>4 DEF BlockSending, BlockSent, BlockUnderWay, BlockWrites, Writes, Runs
<1>5. CASE BlockAcked(c) \/ BlockConfirming(c) \/ BlockEnding(c) \/ BlockEnded(c)
  BY <1>5 DEF BlockAcked, BlockConfirming, BlockEnding, BlockEnded, BlockHeld,
              BlockWrites, Writes, Runs
<1>6. CASE UploadReady(c) \/ UploadAsked(c) \/ UploadAnswered(c)
  BY <1>6 DEF UploadReady, UploadAsked, UploadAnswered, Upload, Reads, Runs
<1>7. CASE \/ BlockReadStarting(c) \/ BlockReceiving(c) \/ BlockReadTaken(c)
           \/ BlockReadGoesOn(c) \/ BlockReadEnding(c)
  <2>1. pending[c]
    BY <1>7 DEF BlockReadStarting, BlockReceiving, BlockReadTaken, BlockReadGoesOn,
                BlockReadEnding, BlockReads, Reads, Runs
  <2>2. \/ status[c] \in {BLOCK_READ, BLOCK_RDCONF, BLOCK_RDFINA}
        \/ status[c] \in {BLOCK_READ \union WAIT_RES, BLOCK_RDCONF \union WAIT_RES}
    <3>. HIDE DEF WAIT_RES, BLOCK_READ, BLOCK_RDCONF, BLOCK_RDFINA
    <3>. QED BY <1>7 DEF BlockReadStarting, BlockReceiving, BlockReadTaken,
                         BlockReadGoesOn, BlockReadEnding
  <2>. QED BY <2>1, <2>2
<1>. QED BY <1>1, <1>2, <1>3, <1>4, <1>5, <1>6, <1>7
         DEF InPhase, Asked, Stored, DownloadOpened, BlockOpened, Fetched,
             UploadOpened, BlockReadOpened

(* Client, link and node of every channel are in the same phase of the     *)
(* same exchange, for any number of channels and buffers, objects and      *)
(* blocks of any size, until the first frame is lost.                      *)
THEOREM ReliableExchange ==
  ASSUME InOrderAnswers PROVE Spec => [](Reliable => Exchange)
<1>1. lost \in Nat /\ (Reliable => Inv) => (Reliable => Exchange)
  BY DEF Inv
<1>. QED BY <1>1, ReliableInv, PTL

(* And with blocks of up to 31 segments, also after any number of losses.  *)
THEOREM ExchangeHolds == ASSUME InOrderAnswers, SmallBlocks PROVE Spec => []Exchange
<1>1. Inv => Exchange
  BY DEF Inv
<1>. QED BY <1>1, InvHolds, PTL

(* A write that was reported OK has put the whole buffer into the object   *)
(* it was meant for, however many segments and blocks it took and whatever *)
(* frames were lost.                                                       *)
THEOREM WritesStore == ASSUME InOrderAnswers, SmallBlocks PROVE Spec => []WriteOkIsStored
<1>1. Inv => WriteOkIsStored
  <2>. SUFFICES ASSUME Inv, Reports("SDOERR_OK"), job[Done].kind = "write"
                PROVE  object[Done][job[Done].mux] = Whole(job[Done].src, job[Done].len)
    BY DEF WriteOkIsStored
  <2>1. IsTrue(Done, "SDOERR_OK")
    BY ReportIsTrue DEF Reports
  <2>. QED BY <2>1 DEF IsTrue
<1>. QED BY <1>1, InvHolds, PTL

(* A read that was reported OK has put the whole object into the buffer.   *)
THEOREM ReadsComplete == ASSUME InOrderAnswers, SmallBlocks PROVE Spec => []ReadOkIsComplete
<1>1. Inv => ReadOkIsComplete
  <2>. SUFFICES ASSUME Inv, Reports("SDOERR_OK"), job[Done].kind = "read"
                PROVE  got[Done] = object[Done][job[Done].mux]
    BY DEF ReadOkIsComplete
  <2>1. IsTrue(Done, "SDOERR_OK")
    BY ReportIsTrue DEF Reports
  <2>. QED BY <2>1 DEF IsTrue
<1>. QED BY <1>1, InvHolds, PTL

(* As long as no frame is lost, a transfer fails only because the object   *)
(* does not fit the application's buffer, whatever block sizes nodes ask   *)
(* for.                                                                    *)
THEOREM LosslessTransfers == ASSUME InOrderAnswers PROVE Spec => []LosslessSucceeds
<1>1. lost \in Nat /\ (Reliable => Inv) => LosslessSucceeds
  BY ReportIsTrue DEF LosslessSucceeds, IsTrue, TooLarge, Reports, Reliable
<1>. QED BY <1>1, ReliableInv, PTL

(* The client takes nothing that arrives for a protocol error, even when   *)
(* frames were lost before.                                                *)
THEOREM NoProtocolErrors == ASSUME InOrderAnswers, SmallBlocks PROVE Spec => []LossIsNoProtocolError
<1>1. Inv => LossIsNoProtocolError
  BY ReportIsTrue DEF LossIsNoProtocolError, IsTrue
<1>. QED BY <1>1, InvHolds, PTL

(* Without losses, client and node have both closed their session once no  *)
(* transfer runs and nothing is under way, whatever block sizes nodes ask  *)
(* for.                                                                    *)
THEOREM SessionsClose == ASSUME InOrderAnswers PROVE Spec => []SessionsCloseTogether
<1>1. lost \in Nat /\ (Reliable => Inv) => SessionsCloseTogether
  <2>. SUFFICES ASSUME Inv, NEW c \in Channels, lost = 0, ~pending[c], Quiet(c)
                PROVE  node[c].st = "idle"
    BY DEF SessionsCloseTogether, Reliable
  <2>1. AtRest(c)
    BY BusyPhases DEF Inv, Exchange
  <2>. QED BY <2>1 DEF AtRest, Calm, Quiet
<1>. QED BY <1>1, ReliableInv, PTL

(* SDOCLNT_IsBusy is true exactly while a transfer runs, but for a block   *)
(* write the node has confirmed and a channel left by an expedited read.   *)
THEOREM BusyTells == ASSUME InOrderAnswers, SmallBlocks PROVE Spec => []BusyTellsPending
<1>1. Inv => BusyTellsPending
  <2>. SUFFICES ASSUME Inv, NEW c \in Channels, calls[c] > 0
                PROVE  IF pending[c] THEN SDOCLNT_IsBusy(c) \/ status[c] = BLOCK_WRFINA
                                     ELSE ~SDOCLNT_IsBusy(c) \/ status[c] = BLOCK_INITRD
    BY DEF BusyTellsPending
  <2>1. InPhase(c)
    BY DEF Inv, Exchange
  <2>2. CASE AtRest(c)
    BY <2>2 DEF AtRest, SDOCLNT_IsBusy, FREE, READY, SEGMENTED, BLOCK_INITRD
  <2>3. CASE ~AtRest(c)
    BY <2>1, <2>3, BusyPhases DEF SDOCLNT_IsBusy, READY
  <2>. QED BY <2>2, <2>3
<1>. QED BY <1>1, InvHolds, PTL

(* SDOCLNT_GetStatus says "running" exactly while a transfer runs, and OK  *)
(* after exactly the transfers that were reported OK.                      *)
THEOREM StatusTells == ASSUME InOrderAnswers, SmallBlocks PROVE Spec => []StatusTellsOutcome
<1>1. Inv => StatusTellsOutcome
  <2>. SUFFICES ASSUME Inv PROVE StatusTellsOutcome
    OBVIOUS
  <2>1. ASSUME NEW c \in Channels
        PROVE  /\ SDOCLNT_GetStatus(c) = "SDOERR_RUNNING" <=> lastAbort[c] = "running"
               /\ SDOCLNT_GetStatus(c) = "SDOERR_OK" <=> lastAbort[c] = "none"
    BY DEF SDOCLNT_GetStatus
  <2>2. \A c \in Channels : calls[c] > 0 =>
          (pending[c] <=> SDOCLNT_GetStatus(c) = "SDOERR_RUNNING")
    BY <2>1 DEF Inv, Known
  <2>3. ASSUME out.cb # <<>>
        PROVE  Reports("SDOERR_OK") <=> SDOCLNT_GetStatus(Done) = "SDOERR_OK"
    <3>1. PICK code \in Codes :
            /\ out.cb = <<code>>
            /\ lastAbort[Done] = IF code = "SDOERR_OK" THEN "none" ELSE code
      BY <2>3, ReportIsTrue
    <3>2. code # "none" /\ Done \in Channels
      BY <2>3, ReportIsTrue DEF Codes, ErrCodes, AbortCodes
    <3>. QED BY <2>1, <3>1, <3>2 DEF Reports
  <2>. QED BY <2>2, <2>3 DEF StatusTellsOutcome
<1>. QED BY <1>1, InvHolds, PTL

(* An object always holds the whole of something that was in an object at  *)
(* the start or in a buffer the application wrote from.                    *)
THEOREM ObjectsStayWhole == ASSUME InOrderAnswers, SmallBlocks PROVE Spec => []ObjectsAreWhole
<1>1. Inv => ObjectsAreWhole
  BY DEF Inv, Exchange, Sound, Contents, ObjectsAreWhole
<1>. QED BY <1>1, InvHolds, PTL

(* A completion is reported only for a channel whose transfer runs: once   *)
(* for each start.                                                         *)
THEOREM ReportsArePending == ASSUME InOrderAnswers, SmallBlocks PROVE Spec => NoSpuriousReport
<1>1. Inv /\ [Next]_vars => [out'.cb # <<>> => pending[out'.ch]]_vars
  <2>1. ASSUME Inv, NEW c \in Channels, Step(c) \/ PassBy(c)
        PROVE  out'.cb # <<>> => pending[out'.ch]
    BY <2>1, StepKeeps, SmallIsReliable DEF Effect, Unseen, Begins, TakesEffect, Ends
  <2>. QED BY <2>1 DEF Next, Step
<1>. QED BY <1>1, InvHolds, PTL DEF Spec, NoSpuriousReport

-----------------------------------------------------------------------------
(* The service.                                                            *)
LEMMA ServiceInit == SysInit /\ Inv => Service!Init
<1>. SUFFICES ASSUME SysInit, Inv PROVE Service!Init
  OBVIOUS
<1>1. \A c \in Channels : ~pending[c]
  BY DEF SysInit, Init
<1>2. object \in [Channels -> [Muxes -> Contents]]
  BY DEF Inv, Functions, Exchange, Sound
<1>3. out.cb = <<>>
  BY DEF SysInit, Init, Start
<1>. QED BY <1>1, <1>2, <1>3
         DEF Service!Init, Service!None, Service!NoReport, RunningJob

LEMMA StepImplements ==
  ASSUME Inv, Inv', NEW c \in Channels, Touches(c), Effect(c)
  PROVE  Service!Next
<1>. DEFINE transfer == [d \in Channels |-> RunningJob(d)]
            report == IF out.cb = <<>> THEN [ok |-> FALSE]
                      ELSE [ch |-> Done, ok |-> Reports("SDOERR_OK")]
<1>1. \A d \in Channels \ {c} : /\ RunningJob(d)' = RunningJob(d)
                                /\ got'[d] = got[d] /\ object'[d] = object[d]
  BY DEF Touches, RunningJob
<1>2. /\ got = [d \in Channels |-> got[d]] /\ object = [d \in Channels |-> object[d]]
      /\ got' = [d \in Channels |-> got'[d]] /\ object' = [d \in Channels |-> object'[d]]
  BY DEF Inv, Functions
<1>3. /\ object'[c] = object[c] => UNCHANGED object
      /\ got'[c] = got[c] => UNCHANGED got
      /\ RunningJob(c)' = RunningJob(c) => UNCHANGED transfer
      /\ transfer' = [transfer EXCEPT ![c] = RunningJob(c)']
  BY <1>1, <1>2
<1>4. out'.cb = <<>> => report' = [ok |-> FALSE]
  OBVIOUS
<1>5. CASE Unseen(c)
  <2>1. UNCHANGED <<transfer, object>>
    BY <1>3, <1>5 DEF Unseen, RunningJob
  <2>2. CASE got'[c] = got[c]
    BY <1>3, <1>4, <1>5, <2>1, <2>2 DEF Unseen, Service!Quieten, Service!NoReport, Service!Next
  <2>3. CASE Reads(c)
    <3>1. RunningJob(c).kind = "read"
      BY <2>3 DEF Reads, Runs, RunningJob
    <3>2. Service!Fill(c)
      BY <1>1, <1>4, <1>5, <2>1, <3>1
      DEF Unseen, Service!Fill, Service!OnlyBuffer, Service!NoReport
    <3>. QED BY <3>2 DEF Service!Next
  <2>. QED BY <1>5, <2>2, <2>3 DEF Unseen
<1>6. CASE Begins(c)
  <2>1. RunningJob(c) = [kind |-> "none"]
    BY <1>6 DEF Begins, RunningJob
  <2>2. RunningJob(c)' \in Service!Transfers
    BY <1>6 DEF Begins, RunningJob, Service!Transfers, Contents, Whole
  <2>3. Service!Start(c)
    BY <1>1, <1>3, <1>4, <1>6, <2>1, <2>2
    DEF Begins, Service!Start, Service!OnlyBuffer, Service!NoReport, Service!None
  <2>. QED BY <2>3 DEF Service!Next
<1>7. CASE TakesEffect(c)
  <2>1. RunningJob(c) = [kind |-> "write", mux |-> mux[c],
                         content |-> Whole(pBuf[c].src, bufmax[c])]
    BY <1>7 DEF TakesEffect, Writes, Runs, RunningJob
  <2>2. UNCHANGED <<transfer, got>>
    BY <1>3, <1>7 DEF TakesEffect, RunningJob
  <2>3. object' = [object EXCEPT ![c][mux[c]] = Whole(pBuf[c].src, bufmax[c])]
    BY <1>1, <1>2, <1>7 DEF TakesEffect
  <2>4. Service!TakeEffect(c)
    <3>1. /\ transfer[c].kind = "write" /\ transfer[c].mux = mux[c]
          /\ transfer[c].content = Whole(pBuf[c].src, bufmax[c])
      BY <2>1
    <3>2. report' = [ok |-> FALSE]
      BY <1>4, <1>7 DEF TakesEffect
    <3>3. object' = [object EXCEPT ![c][transfer[c].mux] = transfer[c].content]
      BY <2>3, <3>1
    <3>. QED BY <2>2, <3>1, <3>2, <3>3 DEF Service!TakeEffect, Service!NoReport
  <2>. QED BY <2>4 DEF Service!Next
<1>8. CASE Ends(c)
  <2>1. PICK code : out'.cb = <<code>> /\ IsTrue(c, code)'
    BY <1>8 DEF Ends
  <2>2. report' = [ch |-> c, ok |-> code = "SDOERR_OK"]
    BY <1>8, <2>1 DEF Ends, Done, Reports
  <2>3. RunningJob(c) # [kind |-> "none"] /\ RunningJob(c)' = [kind |-> "none"]
    BY <1>8 DEF Ends, RunningJob
  <2>4. Service!Finish(c, code = "SDOERR_OK")
    BY <1>1, <1>3, <1>8, <2>2, <2>3
    DEF Ends, Service!Finish, Service!OnlyBuffer, Service!None, Service!Reported
  <2>5. CASE code # "SDOERR_OK"
    BY <2>4, <2>5 DEF Service!FailTransfer, Service!Next
  <2>6. CASE code = "SDOERR_OK"
    <3>1. CASE job[c].kind = "write"
      <4>1. /\ RunningJob(c).kind = "write" /\ UNCHANGED got
            /\ object[c][RunningJob(c).mux] = RunningJob(c).content
        BY <1>3, <1>8, <2>1, <2>6, <3>1 DEF Ends, IsTrue, RunningJob
      <4>. QED BY <2>4, <2>6, <4>1 DEF Service!SucceedWrite, Service!Next
    <3>2. CASE job[c].kind = "read"
      <4>1. /\ RunningJob(c).kind = "read"
            /\ got'[c] = object[c][RunningJob(c).mux]
        BY <1>8, <2>1, <2>6, <3>2 DEF Ends, IsTrue, RunningJob
      <4>. QED BY <2>4, <2>6, <4>1 DEF Service!SucceedRead, Service!Next
    <3>. QED BY <1>8, <2>1, <2>6, <3>1, <3>2 DEF Ends, IsTrue
  <2>. QED BY <2>5, <2>6
<1>. QED BY <1>5, <1>6, <1>7, <1>8 DEF Effect

(* Client, link and nodes implement SdoService: a transfer is reported     *)
(* once, with the outcome it had; objects change in whole writes only; and *)
(* a buffer or an object changes only while a transfer of it runs.         *)
THEOREM ServiceImplemented == ASSUME InOrderAnswers, SmallBlocks PROVE Spec => ImplementsService
<1>1. SysInit => Service!Init
  BY InitInv, ServiceInit
<1>2. Inv /\ Inv' /\ [Next]_vars => [Service!Next]_(Service!vars)
  <2>1. ASSUME Inv, Inv', NEW c \in Channels, Step(c) \/ PassBy(c)
        PROVE  Service!Next
    BY <2>1, StepKeeps, SmallIsReliable, StepImplements DEF Service!Next
  <2>2. ASSUME UNCHANGED vars
        PROVE  UNCHANGED Service!vars
    BY <2>2 DEF vars, clientVars, buffer, history, linkVars, Service!vars, RunningJob,
                Done, Reports
  <2>. QED BY <2>1, <2>2 DEF Next, Step
<1>. QED BY <1>1, <1>2, InvHolds, PTL DEF Spec, Service!Spec, ImplementsService
=============================================================================
