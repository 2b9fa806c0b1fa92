----------------------------- MODULE SdoSystem -----------------------------
(***************************************************************************)
(* The SDO client with the application that calls it, the link to the      *)
(* CANopen nodes and the nodes' SDO servers.  Channel c talks to node c.   *)
(*                                                                         *)
(* The link and the servers are outside the program (a serial line, the    *)
(* CANgineBerry, the CAN bus, CiA 301 devices); they are modelled from     *)
(* what the client sends and what it expects back.  A frame sent or        *)
(* delivered can be lost without notice: SdoClientSend ignores a failed    *)
(* transmission and a packet with a wrong CRC is dropped.                  *)
(***************************************************************************)
EXTENDS SdoClient

CONSTANTS
  AppCalls,     \* the calls the application makes
  LateAnswers,  \* may a timeout expire while frames are under way?
  MaxLoss,      \* bound on the frames lost
  ObjectSizes,  \* sizes of the objects before the first write
  BlockSizes,   \* segments per block the nodes accept
  SizeGiven     \* does the answer to a block read carry the object's size?

ASSUME SystemAssumption ==
  /\ LateAnswers \in BOOLEAN
  /\ MaxLoss \in Nat
  /\ ObjectSizes \subseteq Nat \ {0}
  /\ BlockSizes \subseteq 1 .. 127
  /\ SizeGiven \subseteq BOOLEAN

VARIABLES
  job,     \* history: the last transfer the application started
  req,     \* frames under way to each node
  resp,    \* frames under way from each node
  node,    \* SDO server of each node
  object,  \* object dictionary of each node
  lost     \* history: number of frames lost

linkVars == <<req, resp, lost>>
vars == <<clientVars, job, linkVars, node, object>>

NoJob(m) == [kind |-> "none", mux |-> m, src |-> NoData, len |-> 0]
Idle(m) == [st |-> "idle", mux |-> m, tog |-> 0, acc |-> Empty, size |-> 0,
            pos |-> 0, seq |-> 0, blk |-> 0, pad |-> 0]
Original == CHOOSE d \in Data : TRUE

SysInit ==
  /\ Init
  /\ job = [c \in Channels |-> NoJob(mux[c])]
  /\ req = [c \in Channels |-> <<>>]
  /\ resp = [c \in Channels |-> <<>>]
  /\ node = [c \in Channels |-> Idle(mux[c])]
  /\ \E sizes \in [Channels -> [Muxes -> ObjectSizes]] :
       object = [c \in Channels |-> [m \in Muxes |-> Whole(Original, sizes[c][m])]]
  /\ lost = 0

-----------------------------------------------------------------------------
(* The application.                                                        *)

(* SdoClientSend: the frame of this step, if any, is put on the link.      *)
SdoClientSend == req' = [req EXCEPT ![out'.ch] = @ \o out'.tx]

(* It waits for the report of one transfer before it starts the next: the  *)
(* non-blocking calls are documented with "SdoRequestCompleteCallback will *)
(* be called on completion" (SerialProtocol.cpp:384-385).                  *)
MayCall(c) == ~pending[c]

Write(c, m, src, size) ==
  /\ \/ "WriteRemoteODExtended" \in AppCalls /\ WriteRemoteODExtended(c, m, src, size)
     \/ "WriteXtd" \in AppCalls /\ SDOCLNT_WriteXtd(c, m, src, size)
  /\ job' = Set(job, c, [kind |-> "write", mux |-> m, src |-> src, len |-> size])

WriteAgain(c, m) ==
  /\ "Write" \in AppCalls /\ SDOCLNT_Write(c, m)
  /\ job' = Set(job, c, [kind |-> "write", mux |-> m, src |-> pBuf[c].src,
                         len |-> buflen[c]])

Read(c, m, size) ==
  /\ \/ "ReadRemoteODExtended" \in AppCalls /\ ReadRemoteODExtended(c, m, size)
     \/ "ReadXtd" \in AppCalls /\ SDOCLNT_ReadXtd(c, m, size)
  /\ job' = Set(job, c, [kind |-> "read", mux |-> m, src |-> NoData, len |-> size])

ReadAgain(c, m) ==
  /\ "Read" \in AppCalls /\ SDOCLNT_Read(c, m)
  /\ job' = Set(job, c, [kind |-> "read", mux |-> m, src |-> NoData,
                         len |-> bufmax[c]])

Initialise(c, src, size) ==
  /\ "Init" \in AppCalls /\ SDOCLNT_Init(c, src, size)
  /\ job' = Set(job, c, NoJob(mux[c]))

AppStarts(c) ==
  /\ MayCall(c)
  /\ \/ \E m \in Muxes, src \in Data, size \in Sizes : Write(c, m, src, size)
     \/ \E m \in Muxes, size \in Sizes : Read(c, m, size)
     \/ \E m \in Muxes : WriteAgain(c, m) \/ ReadAgain(c, m)
     \/ \E src \in Data, size \in Sizes : Initialise(c, src, size)

AppAborts(c) ==
  /\ "Abort" \in AppCalls
  /\ SDOCLNT_AbortTransfer(c, "SDO_ABORT_GENERAL")
  /\ UNCHANGED job

AppStep(c) == (AppStarts(c) \/ AppAborts(c))
              /\ SdoClientSend /\ UNCHANGED <<resp, node, object, lost>>

-----------------------------------------------------------------------------
(* The program's loop: SerialProtocol::Process delivers a response and     *)
(* then serves a channel.                                                  *)

Receive(c) ==
  /\ resp[c] # <<>>
  /\ MGR_HandleSDOClientResponse(c, Head(resp[c]))
  /\ resp' = [resp EXCEPT ![c] = Tail(@)]
  /\ SdoClientSend
  /\ UNCHANGED <<job, node, object, lost>>

Quiet(c) == req[c] = <<>> /\ resp[c] = <<>>

(* A turn of the polling loop for channel c, and when its timer expires:   *)
(* if answers are never late, only when nothing is under way any more.     *)
Act(c) == \/ Proceed(c)
          \/ (LateAnswers \/ Quiet(c)) /\ Timeout(c)
Linked(A) == A /\ SdoClientSend /\ UNCHANGED <<job, resp, node, object, lost>>
Serve(c) == Linked(Act(c))
PassBy(c) == Linked(Pass(c))

-----------------------------------------------------------------------------
(* The link loses a frame.                                                 *)

LoseRequest(c) ==
  /\ lost < MaxLoss /\ req[c] # <<>>
  /\ req' = [req EXCEPT ![c] = Tail(@)]
  /\ UNCHANGED resp

LoseResponse(c) ==
  /\ lost < MaxLoss /\ resp[c] # <<>>
  /\ resp' = [resp EXCEPT ![c] = Tail(@)]
  /\ UNCHANGED req

(* Steps outside the program leave the client alone.                       *)
Outside == /\ out' = Start
           /\ UNCHANGED <<status, buffer, progress, mux, lastAbort, sdomsg,
                          current, history, job>>

Lose(c) == /\ LoseRequest(c) \/ LoseResponse(c)
           /\ lost' = lost + 1
           /\ Outside /\ UNCHANGED <<node, object>>

-----------------------------------------------------------------------------
(* A node's SDO server takes the next frame.                               *)

Answer(c, frames) == resp' = [resp EXCEPT ![c] = @ \o frames]
Reply(c, m, cs, arg, data) == Answer(c, <<SdoFrame(cs, m, arg, data)>>)
Store(c, m, content) == object' = [object EXCEPT ![c][m] = content]

NodeAborts(c) ==
  /\ node' = Set(node, c, Idle(node[c].mux))
  /\ Reply(c, node[c].mux, \h80, 0, NoChunk)
  /\ UNCHANGED object

NodeWriteExpedited(c, f) ==
  /\ f.cs \in {\h23, \h27, \h2B, \h2F}
  /\ node' = Set(node, c, Idle(f.mux))
  /\ Store(c, f.mux, Place(Empty, 0, f.data, ExpeditedLen(f.cs)))
  /\ Reply(c, f.mux, \h60, 0, NoChunk)

NodeWriteInit(c, f) ==
  /\ f.cs = \h21
  /\ node' = Set(node, c, [Idle(f.mux) EXCEPT !.st = "write", !.size = f.arg])
  /\ Reply(c, f.mux, \h60, 0, NoChunk)
  /\ UNCHANGED object

NodeWriteSegment(c, f) ==
  LET acc == Place(node[c].acc, node[c].acc.len, f.data, SegmentLen(f.cs))
      reply == Reply(c, node[c].mux, \h20 + ToggleBit(f.cs), 0, NoChunk)
      expected == node[c].st = "write" /\ ToggleBit(f.cs) = node[c].tog
  IN /\ IsUploadSegment(f.cs)
     /\ \/ /\ expected /\ ~LastSegment(f.cs)
           /\ node' = [node EXCEPT ![c].acc = acc, ![c].tog = FlipToggle(@)]
           /\ reply /\ UNCHANGED object
        \/ /\ expected /\ LastSegment(f.cs) /\ acc.len = node[c].size
           /\ node' = Set(node, c, Idle(node[c].mux))
           /\ Store(c, node[c].mux, acc) /\ reply
        \/ /\ expected => LastSegment(f.cs) /\ acc.len # node[c].size
           /\ NodeAborts(c)

NodeBlockWriteInit(c, f) ==
  /\ f.cs = \hC2
  /\ \E blk \in BlockSizes :
       /\ node' = Set(node, c, [Idle(f.mux) EXCEPT !.st = "block",
                                                   !.size = f.arg, !.blk = blk])
       /\ Reply(c, f.mux, \hA0, blk, NoChunk)
  /\ UNCHANGED object

(* A block ends with its last segment, received in sequence or not; the    *)
(* node then acknowledges the segments it took.                            *)
NodeBlockSegment(c, f) ==
  LET seq == SeqNo(f.cs)
      n == node[c]
      taken == seq = n.seq + 1
      ends == seq = n.blk \/ LastOfBlock(f.cs)
      took == [n EXCEPT !.acc = Place(@, @.len, f.data, f.data.hi - f.data.lo),
                        !.seq = seq, !.pad = 7 - (f.data.hi - f.data.lo)]
      next == IF taken THEN took ELSE n
  IN /\ n.st = "block" /\ f.cs # \h80
     /\ IF seq \notin 1 .. n.blk THEN NodeAborts(c)
        ELSE /\ UNCHANGED object
             /\ IF ends
                  THEN /\ node' = Set(node, c, [next EXCEPT !.seq = 0,
                             !.st = IF taken /\ LastOfBlock(f.cs) THEN "blockEnd" ELSE @])
                       /\ Reply(c, n.mux, \hA2, n.blk, NoChunk)
                  ELSE node' = Set(node, c, next) /\ UNCHANGED resp

NodeBlockWriteEnd(c, f) ==
  LET n == node[c]
      complete == /\ n.st = "blockEnd" /\ n.acc.len = n.size
                  /\ (f.cs \div 4) % 8 = n.pad
  IN /\ IsBlockReadEnd(f.cs)
     /\ \/ /\ complete
           /\ node' = Set(node, c, Idle(n.mux))
           /\ Store(c, n.mux, n.acc)
           /\ Reply(c, n.mux, \hA1, 0, NoChunk)
        \/ ~complete /\ NodeAborts(c)

NodeRead(c, f) ==
  LET o == object[c][f.mux]
  IN /\ f.cs \in {\h40, \hA0}    \* a block read may fall back
     /\ IF o.len <= 4
          THEN /\ node' = Set(node, c, Idle(f.mux))
               /\ Reply(c, f.mux, \h43 + 4 * (4 - o.len), 0, Slice(o.src, 0, o.len))
          ELSE /\ node' = Set(node, c, [Idle(f.mux) EXCEPT !.st = "read", !.size = o.len])
               /\ Reply(c, f.mux, \h41, o.len, NoChunk)
     /\ UNCHANGED object

NodeReadSegment(c, f) ==
  LET n == node[c]
      left == n.size - n.pos
      len == IF left > 7 THEN 7 ELSE left
      last == left <= 7
      cs == n.tog + 2 * (7 - len) + (IF last THEN 1 ELSE 0)
      expected == n.st = "read" /\ ToggleBit(f.cs) = n.tog
  IN /\ f.cs \in {\h60, \h70}
     /\ \/ /\ expected
           /\ node' = Set(node, c, IF last THEN Idle(n.mux)
                                   ELSE [n EXCEPT !.pos = @ + 7, !.tog = FlipToggle(@)])
           /\ Reply(c, n.mux, cs, 0, Slice(object[c][n.mux].src, n.pos, len))
           /\ UNCHANGED object
        \/ ~expected /\ NodeAborts(c)

NodeBlockReadInit(c, f) ==
  /\ f.cs = \hA0 /\ object[c][f.mux].len > 4
  /\ node' = Set(node, c, [Idle(f.mux) EXCEPT !.st = "blockRead", !.blk = f.arg,
                                              !.size = object[c][f.mux].len])
  /\ \E given \in SizeGiven :
       Reply(c, f.mux, IF given THEN \hC2 ELSE \hC0,
             IF given THEN object[c][f.mux].len ELSE 0, NoChunk)
  /\ UNCHANGED object

Segments(n, src) ==
  LET count == (n.size - n.pos + 6) \div 7
      len(i) == IF n.pos + 7 * i > n.size THEN (n.size - n.pos) % 7 ELSE 7
  IN [i \in 1 .. (IF count > n.blk THEN n.blk ELSE count) |->
        SdoFrame(IF i = count THEN 128 + i ELSE i, n.mux, 0,
                 Slice(src, n.pos + 7 * (i - 1), len(i)))]

(* 0xA3 starts the transfer, 0xA2 acknowledges a block of it.              *)
NodeSendsBlock(c, f) ==
  LET n == IF f.cs = \hA3 THEN node[c] ELSE [node[c] EXCEPT !.pos = @ + 7 * f.arg]
      expected == node[c].st = "blockRead"
  IN /\ f.cs \in {\hA3, \hA2}
     /\ \/ /\ expected /\ n.pos < n.size
           /\ node' = Set(node, c, n)
           /\ Answer(c, Segments(n, object[c][n.mux].src))
           /\ UNCHANGED object
        \/ /\ expected /\ n.pos >= n.size
           /\ node' = Set(node, c, [n EXCEPT !.st = "readEnd"])
           /\ Reply(c, n.mux, \hC1 + 4 * (n.pos - n.size), 0, NoChunk)
           /\ UNCHANGED object
        \/ ~expected /\ NodeAborts(c)

(* The client's last word: an abort, or the end of a block read.           *)
NodeEnds(c, f) ==
  /\ f.cs \in {\h80, \hA1}
  /\ node' = Set(node, c, Idle(node[c].mux))
  /\ UNCHANGED <<resp, object>>

NodeRejects(c, f) ==
  /\ ~(IsUploadSegment(f.cs) \/ IsBlockReadEnd(f.cs))
  /\ f.cs \notin {\h21, \h23, \h27, \h2B, \h2F, \h40, \h60, \h70, \h80,
                  \hA0, \hA1, \hA2, \hA3, \hC2}
  /\ NodeAborts(c)

NodeStep(c) ==
  /\ req[c] # <<>>
  /\ req' = [req EXCEPT ![c] = Tail(@)]
  /\ LET f == Head(req[c])
     IN \/ NodeBlockSegment(c, f)
        \/ /\ node[c].st = "block" => f.cs = \h80
           /\ \/ NodeWriteExpedited(c, f) \/ NodeWriteInit(c, f)
              \/ NodeWriteSegment(c, f) \/ NodeBlockWriteInit(c, f)
              \/ NodeBlockWriteEnd(c, f) \/ NodeRead(c, f)
              \/ NodeReadSegment(c, f) \/ NodeBlockReadInit(c, f)
              \/ NodeSendsBlock(c, f) \/ NodeEnds(c, f)
              \/ NodeRejects(c, f)
  /\ Outside /\ UNCHANGED lost

-----------------------------------------------------------------------------
Next == \E c \in Channels : \/ AppStep(c) \/ Receive(c) \/ Serve(c) \/ PassBy(c)
                            \/ Lose(c) \/ NodeStep(c)

Spec == SysInit /\ [][Next]_vars

(***************************************************************************)
(* Fairness.  The application calls Process in an endless loop, which      *)
(* takes every frame that arrives and turns to every channel again and     *)
(* again; the timers it polls run out in real time, so what a channel has  *)
(* to do is not put off forever although each turn may pass it by.  Frames *)
(* that are not lost reach the node, which answers.  Nothing is assumed of *)
(* the application's own calls.                                            *)
(***************************************************************************)
Fairness == /\ WF_vars(\E c \in Channels : Serve(c) \/ PassBy(c))
            /\ \A c \in Channels : /\ WF_vars(NodeStep(c)) /\ WF_vars(Receive(c))
                                   /\ SF_vars(Serve(c))
FairSpec == Spec /\ Fairness
=============================================================================
