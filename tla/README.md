# CANgineBerry remote access: formal models

TLA+ models, model-checking runs and machine-checked proofs for the host
software in `src/CODE/RemoteAccessApp`: the program that reaches the object
dictionaries of a CANopen network through a CANgineBerry on a serial line.
The rest of the repository (EDS files, manuals, firmware tools, shell scripts)
holds no program logic.

1. [The system](#1-the-system)
2. [Modules and how they follow the code](#2-modules-and-how-they-follow-the-code)
3. [Runs, bounds and what they show](#3-runs-bounds-and-what-they-show)
4. [Fairness](#4-fairness)
5. [Proofs](#5-proofs)
6. [Where the code and its documentation disagree](#6-where-the-code-and-its-documentation-disagree)
7. [What is not modelled](#7-what-is-not-modelled)
8. [What remains open](#8-what-remains-open)

## 1. The system

One host thread runs `main()` (RA_App_Demo.cpp), which calls the device through
`SerialProtocol`. Everything that happens on the host happens inside a call of
`SerialProtocol::Process` or of a function that loops around it; concurrency is
that of one thread with a device, a network and a clock.

```
  RA_App_Demo.cpp     main loop, NodeStates[], call-backs
        | blocking calls, non-blocking calls        ^ NewData, SDORequestComplete
  SerialProtocol.cpp  Read/Write Local/Remote OD, Process, GetPacket, SendPacket
        | 'V' packets        | 'F' packets          | bytes
  sdoclnt.cpp         xsdo.cpp               SerialPort_*.cpp, CRC.cpp
  SDO client,         SDO server of
  32 channels         the host               Timer_*.cpp: 16-bit millisecond tick
        |
  CANgineBerry -> CAN bus -> SDO servers of the nodes
```

| component | state it keeps | operations | interacts by | hard behaviour | what makes it correct |
|---|---|---|---|---|---|
| SDO client (`sdoclnt.cpp`) | per channel: status byte, buffer pointer, sizes, bytes done, toggle or segment counter, message, timeout, last abort; the channel whose turn it is | `SDOCLNT_Init/Write/Read/WriteXtd/ReadXtd/AbortTransfer/IsBusy/GetStatus`, `MGR_HandleSDOClientResponse`, `MGR_SDOHandleClient` | calls from the application, frames to and from the link, completion call-back | late, lost and unrelated answers; timeouts; abort and re-use of a channel; 14 states packed in one byte; boundary sizes | reported OK means transferred whole; each transfer is reported once, and in the end; counters stay in the buffer |
| Timer (`Timer_Linux.cpp`) | none (the tick is the clock's) | `GetTime`, `IsTimeExpired` | polled by the SDO client | wrap of tick and timestamp, late polls | a timeout expires when it is over, and is not missed |
| Packet layer (`SerialProtocol.cpp`, `GetPacket`/`SendPacket`) | receive state, packet in progress, bytes remaining, CRC, timeout | one byte per call; send a packet | bytes of the serial port; packets to `Process` | lost and damaged bytes, headers that are data by chance, resynchronising, silence inside a packet | stays in its 35 bytes; takes good packets as sent; finds back into step |
| Blocking calls (`SerialProtocol.cpp`) | `ResponsePacket`, `ResponseReceived`, the port | `Connect`, `Disconnect`, `ReadLocalOD`, `WriteLocalOD`, `ReadRemoteOD`, `WriteRemoteOD`, `WakeUp`, `Reset`, ..., `Process` | one request, then `Process` until an answer or 6 s | late answers, data and server requests during the wait, lost packets, a port closed in between | a call returns, with the answer to its own request, or at least to one of its kind that no other call got |
| Remote access application (`RA_App_Demo.cpp`) | `NodeStates`, `MyNodeID`, `MyNMTState`, turn, `DataBuf` | main loop, `NewData`, `NodeStatusChanged`, `OwnStatusChanged`, `Terminate` | blocking calls; call-backs inside them | flags change under a blocking call; stale buffer; IDs from 1, entries from 0 | producers are CiA 401 devices, every scanned node is asked for its type, data reach the node meant, program ends on request |
| SDO server of the host (`xsdo.cpp`) | 17 records: state, bytes left, buffer, counter, pointer, toggle byte | `XSDO_HandleExtended` and the segment functions under it | 'F' packets with a request, 'G' packets with the answer | requests repeated, too long or out of order; lost requests, answers and aborts; a buffer that starts over; records nobody sets up | server and device agree which transfers are open, unless something was lost, and how far they are; no segment is taken twice; nothing outside the buffer is touched |
| CRC (`CRC.cpp`) | a 16-bit register | add a byte, final value | used by `GetPacket` and `SendPacket` | bit order, the zero bits at the end | the remainder of the polynomial division; a changed byte is noticed |
| Serial port (`SerialPort_Linux.cpp`) | a handle | open, close, read, write | `Connect`, `Disconnect`, `GetPacket`, `SendPacket` | closed with bytes under way, write fails, read gets nothing | its outcomes only, in SerialHost and PacketReceiver |
| Windows port and timer, types | operating system handles | open, read, write | | | not modelled, see section 7 |

`PROJECT.json` lists under `hazards` what in this code is hard to test, each at
its line and with the properties aimed at it.

## 2. Modules and how they follow the code

Every definition that stands for code is listed with its lines in
`PROJECT.json`, `map`.

### SDO client

* **SdoFrames**: status flags as sets of bits (so that `|=` and `&=` of the code
  are set operations), frames by their command specifier (the whole first byte)
  and the fields the client looks at. Data are not bytes: a buffer is a *chunk*,
  a source with the range it covers, and `Place` says what a buffer holds
  after a chunk is copied to an offset: a misplaced, missing or repeated
  segment makes the content not *good*.
* **SdoClient**: one action for each `SDOCLNT_*` call, each branch of
  `MGR_HandleSDOClientResponse` and each branch of a turn of
  `MGR_SDOHandleClient`. The actions contain the whole branch: status, counters,
  the frame sent (`out.tx`), the report to the application (`out.cb`).
  `pending`, `got` and `calls` are history variables. A response timer and the
  3 ms gap between segments are choices: `Timeout` may happen whenever the code
  looks at the timer, a `Pass` is a turn that finds nothing due.
* **SdoSystem**: the client with an application that calls it (which calls it
  makes is a constant, `AppCalls`), a link that loses frames, and one CiA 301
  SDO server per channel, which is external. The application starts a transfer
  on a channel when the last one there was reported (`MayCall`), as the
  documentation of the non-blocking calls has it; it may abort at any time.
* **SdoService**: what the application may rely on, without frames, timers or
  channel states: a transfer is started, takes effect at the node at one moment,
  or fills the buffer, and is reported OK only with the right effect.
* **SdoProperties**: the properties of the composed system, and the refinement
  mapping to SdoService.
* **SdoExchange**: the inductive invariant of the composed system. `Exchange` says
  that every channel is in one of 26 phases (a request under way, a segment
  prepared, sent, acknowledged, a block half received, ...), and each phase says
  what client and node have counted and which frames are between them. The
  conditions under which it holds, `InOrderAnswers`, are part of the module.
* **SdoClientOpen**: the client alone. Any call at any time, any frame at any
  time. It has the invariants that are proved, `AbortNamesEntry` about the message
  buffer that aborts reuse, and it is the module to read for "whatever the device
  does". That includes expedited answers longer than the buffer, which the code
  copies and counts without looking at its size (sdoclnt.cpp:745-761). The bytes
  behind a buffer are the application's and not modelled.

### The rest

* **Timer**: tick and timestamp of any width (`Word` = 65536 in the code), the
  two-sided comparison of `IsTimeExpired`, and polls at most `MaxGap` apart.
* **PacketReceiver**: `GetPacket`, one action per state of its switch, the packet
  format of `SendPacket`, a line that loses and changes bytes and is silent at any
  place, within a packet too (`Silence`), a read that fails, which is where the
  timeout is looked at (`ReadFails`), and a port that is closed and opened again
  (`Reopen`) while the receiver keeps its state. Packets may hold SOH anywhere;
  one that holds it only at its start is *clear*. The CRC is a constant function of
  the contents here.
* **Crc**: `Add` and `Finalize` bit by bit, a register being the set of the
  exponents of its bits; `PacketCRC` is what `SendPacket` and `GetPacket` make of
  them. `Remainder` is the reference, the polynomial division, which works from
  the powers of x instead of a register.
* **PacketCrc**: the receiver with the CRC that `CRC.cpp` computes.
* **SerialCalls**: the blocking calls with their timeout, and what `Process`
  does with an answer. Packets are whole here: the byte level is PacketReceiver.
* **XsdoServer**: `XSDO_HandleExtended` and all it calls, as a function from a
  record and a request to the record after it, the answer and the offsets of the
  buffer that were touched. Nothing in the repository opens a transfer, and the
  constructor is empty, so the records start as one of the tables of the constant
  `Memory`. The loop of `XSDO_WriteNextSegment` is given by where the pointer and
  the counter are after *i* bytes (`At`, `Count`), its early return by the number of
  bytes there is room for. `begin` and `device` are history: the records at first,
  and the transfers as the device knows them. What it has open at first is one of
  the sets of the constant `Opened`, whatever the records say; then it goes by the
  answers that reach it (`Seen`), and by what it gives up itself (`GaveUp`).
* **SerialHost**: SerialCalls and XsdoServer put together as `SerialProtocol`, under
  a program that makes any call in any order and opens and closes the port. An
  'F' packet is served whenever `Process` meets it, within a blocking call too.
  The device may give up a transfer at any moment (`DevicePasses`), also with the
  port closed. Its abort travels like any other packet and may be lost, on the line
  (`Lose`) or with what is unread when the port is closed (`Disconnect`).
* **CallService**: what a program may rely on with late and lost answers: every call
  returns; the answer it returns with is to a request of the same kind, its own or
  an earlier one; no answer ends two calls, and never does an older one follow a
  newer one. SerialHost implements it (`ImplementsCallService`; `of`, the number of
  the call whose answer came last, is the only history the mapping needs).
* **RemoteAccess**: `main()`, one action from one blocking call to the next, and
  the call-backs, which run inside any `Process`, also one in a blocking call.
  The device and the network (nodes that boot, are scanned, are lost) are
  external. `PDOTime` is left open: process data may or may not be due. Of what a
  blocking write copies, only which node and entry it is meant for is kept. The
  call-back has the one guard of the code (RA_App_Demo.cpp:142): the device may
  tell of IDs that are no node (`Strays`), one beyond the table is ignored, and ID 0
  changes `NodeStates[-1]`. What lies there depends on the build: in the `ra_app` of
  the repository the highest byte of `TerminationRequested`, so that the program
  ends; with another compiler it may be nothing. `Overlaid` says which.
* **MCSdo, MCSdoClientOpen, MCTimer, MCPacketReceiver, MCSerialHost,
  MCRemoteAccess**: instances for TLC.
* **SdoClientProofs, SdoSystemProofs, TimerProofs, PacketReceiverProofs, CrcProofs,
  SerialHostProofs, RemoteAccessProofs**: the theorems; those about the host's SDO
  servers are in SerialHostProofs. **SequenceFacts**: the lemmas about the sequences
  of frames and requests under way that they share.

A line marked `\* mutant` in a module is a variant of the definition below it
with a plausible mistake, which no specification uses. Putting it in the
definition's place breaks the property it is listed with in `PROJECT.json`.

## 3. Runs, bounds and what they show

| run | module / cfg | what it shows |
|---|---|---|
| `transfers` | MCSdo / MCSdoTransfers | Transfers of every kind on one channel, up to two frames lost: what is reported OK is stored, or read, whole (`WriteOkIsStored`, `ReadOkIsComplete`); without loss every transfer succeeds, or fails because the buffer is too small (`LosslessSucceeds`); a loss is never reported as a protocol error; client and node close their sessions together; no object is left with part of a buffer (`ObjectsAreWhole`); no report without a transfer; the status calls tell what is going on and how it ended (`BusyTellsPending`, `StatusTellsOutcome`); every transfer is reported; and the system implements SdoService. `Exchange`, the invariant the proofs use, is checked here too. |
| `two_channels` | MCSdo / MCSdoTwo | Two channels in the round robin, used by `SDOCLNT_Init`, `_Write`, `_Read`: neither is starved. |
| `api_calls` | MCSdo / MCSdoApi | Aborts, timeouts while answers are under way, restarts, no frame lost: no object is left with part of a buffer or a mixture of two. |
| `any_answers` | MCSdoClientOpen | The client under any calls and answers, expedited ones that are longer than the buffer included: types, byte counts (`CountsWithinBuffer` names the up to 4 bytes that the code counts then), the one way to stall, and that an abort, put together in the buffer of earlier messages, never names the entry of another transfer. The proofs use the same formulas. |
| `late_ack` | MCSdo / MCSdoLateAck | *violation*: a late 0x60 makes the next write OK too early. |
| `late_stall` | MCSdo / MCSdoLateStall | *violation*: the late 0xA0 of a block write that timed out makes the next one send early; its own 0xA0, after the last segment, leaves it with no way on, and it is never reported. |
| `timer` | MCTimer | Timeouts are seen exactly, and none is missed. |
| `packets` | MCPacketReceiver / MCPackets | Good packets are taken as sent; the buffer is not left; only supported commands get through (a lone command byte excepted); the receiver is in step again after a few clear packets in a row, and stays so (`Resynchronises`); a packet of which a byte was changed is dropped (`DamagedIsDropped`); `CRC.cpp` computes the remainder (`ChecksumIsRemainder`). |
| `silence` | MCPacketReceiver / MCPacketsSilence | *violation*: a packet has lost a byte of its data, the line is silent for longer than the timeout, and the header of the next packet is still taken for the byte that is missing: that packet is lost too. |
| `remote_access` | MCRemoteAccess | Answers belong to their calls, only CiA 401 devices become producers, every node whose scan is told is asked for its type and the read returns that node's answer, or fails for a stated reason (`ScannedIsRead`), the program ends when asked to. |
| `write_target` | MCRemoteAccess / MCRemoteTarget | *violation*: process data go to the node before the one meant. |
| `serial_host` | MCSerialHost | Any program on `SerialProtocol`: its calls implement CallService, every call returns, packets fit their arrays (one length excepted). Its SDO servers and the device disagree on what is open only while an abort is under way or after an abort or an answer was lost (`SidesAgree`), and agree on how much was transferred (`BytesAgree`), whenever the device gives up; take no segment twice (`NoReplay`); touch nothing outside a buffer (`StaysInBuffer`); answer with the toggle bit of the request; and flag the end of a transfer (one case excepted). |

Bounds and why they are enough:

* **Sizes.** The code decides at 4 bytes (expedited), 28 (block) and at multiples
  of 7. Sizes 4, 5, 8, 14, 15, 29 and 36 are on both sides of each: one segment
  exactly, one byte more, a last segment of 1 and of 7 bytes, two blocks. In
  `any_answers` one buffer of three is of 2 bytes, shorter than an expedited answer.
* **Answers.** Three in `any_answers`, one for each branch of the handler and each
  value it tells apart. Two entries are told apart only by whether they are the
  same (`Alike`).
* **Blocks.** `SDO_BLK_MAX_SIZE` is 2 instead of 127, and the node accepts 2, 3 or
  5 segments: a read of 29 or 36 bytes takes three blocks, the last one short.
  What nodes that accept 127 change is condition 4 in section 5.
* **Calls.** Two transfers show what one leaves behind for the next. `api_calls`
  has three calls, transfers or aborts: what is late from one can meet the next but
  one. With four calls, `ObjectSizes = {4}` and `BlockSizes = {2}` it holds too; that
  instance has 2.7 million states, too many for a run of a few minutes.
* **Channels.** Channels share the turn only (`OthersKept` in the proofs), so one
  is enough for data, and two for the turn.
* **Loss.** `MaxLoss` frames: 2 in `transfers`, so that both a request and the
  answer to the abort that follows can be lost; none in `api_calls`.
* **Timer.** A tick of 4 bits takes all pairs of positions of tick and timestamp;
  reloads are on both sides of half the range. The proof has every width.
* **Packets.** Bytes of three bits: SOH, two commands, five others, so that data and
  lengths can look like headers. The CRC is the code's with a register of two such
  bytes and x^6 + x + 1 in the place of x^16 + x^12 + x^5 + 1: both notice every
  change within one byte. Three packets of up to 2 bytes, one with SOH as its data.
  Such packets may keep a receiver out of step for as long as they come one after
  the other, and `Resynchronises` asks only for what clear packets do: how many of
  them in a row it takes follows from the longest packet (`ResyncAfter`), and what
  came before them and comes after them may be any packet.
* **Calls and unasked packets.** Three in any mixture. The answer of a call that
  was given up can end the second, and that of the second the third; and a
  transfer at an SDO server needs two segments and one that repeats, is too long or
  comes too late. One late and one lost packet, which may be an answer, a request or
  an abort. Data of 31 and 32 bytes, since 31 is the limit.
* **Servers.** Four: a download to a buffer of 4 bytes, smaller than a segment, and
  one of which the two toggle bits differ; uploads of 9 and of exactly 7 bytes. A
  second table holds records that are out of order. The device has three transfers
  open with either table, so that one is open only on the host, and, with the
  second table, another only on the device.
* **Nodes.** Three entries, two nodes on the network, one of them CiA 401; three
  changes of status. `FirstStates = {"scanning"}` starts the network where its
  events matter, so that three are enough for a scan that is completed, aborted
  or repeated, and for a loss in between. The device's own ID is 0 or 1. It may also
  tell of node ID 0, and of an ID that is behind the table (`MCStrays`).

What the runs do not have, on purpose:

* `transfers`, `two_channels` and `remote_access` have `LateAnswers = FALSE`: a
  timeout happens when nothing is under way any more. With late answers
  `WriteOkIsStored` and `EveryTransferReported` are false, which is what `late_ack`
  and `late_stall` show; `ProducersAreIO` is false too, because the answer to
  one node's read is taken for the next one's.
* `api_calls` has no `SDOCLNT_Init` and no bare `SDOCLNT_Write`: after
  `SDOCLNT_Init` a late 0xA0 starts sending segments on a channel with no
  transfer. And a second `SDOCLNT_Write` after a block write sends the bytes behind
  the buffer, see section 6.
* `api_calls` has late answers but loses no frame. `ObjectsAreWhole` is false with
  both: with `Sizes = {14}`, `MaxLoss = 1` and four calls TLC finds, in 21 states, a node with
  the first segment of one buffer and the second of another, and with
  `MaxLoss = 2` three calls are enough. A write is ended by an answer to an earlier
  transfer, so that the client sends no abort and the node goes on with it; the
  request of the next write is lost; a late 0x20 makes the client go on all the
  same, and its second segment completes the write before. It is the cause of
  `late_ack`, an answer matched by entry only (sdoclnt.cpp:681), with a worse effect.
* The nodes give the size in the answer to a block read (`SizeGiven`).
* `serial_host` has late answers; what is left then is CallService, not `OwnAnswer`.
* `MCRemoteAccess.cfg` and its sibling allow deadlock: the program ends.
  Everywhere else a deadlock would be reported.

## 4. Fairness

* *SDO system.* The application calls `Process` in an endless loop, so some turn is
  always taken (WF of the turns together). Each channel gets its turn again and
  again, but a turn may find its timer still running; SF of `Serve(c)` says that
  timers run out in real time, that is, not every turn comes too early. Frames
  that are not lost are taken (WF of `NodeStep`, `Receive`). Nothing is assumed
  of the application: it may stop calling, and abort when it likes.
* *Timer.* Time goes on and the loop polls. `MaxGap` is a bound, not fairness: with
  a gap of half the range or more a timeout can be missed for another period.
* *Remote access.* The host's only thread runs (WF of `Main`, `Wait`, `TimeOut`)
  and the device answers what reaches it (WF of `DeviceAnswers`). No fairness for
  status changes, loss or the request to terminate.
* *Serial host.* A blocking call goes round its loop until it returns (WF of `Loop`),
  and the device answers what reaches it. Nothing is assumed of the program between
  its calls, of the port, of loss or of what the device sends unasked.
* *Packets.* Only safety is checked; "in step again" is an invariant with a count.

## 5. Proofs

All theorems are checked by TLAPS to the last leaf, for every value of the
constants that satisfies the named `ASSUME`s.

| theorem | says | argument |
|---|---|---|
| `SdoClientProofs!ClientTypes` | `OpenSpec => []TypeOK` | Inductive as it stands. One lemma per effect shared by the handlers (`FailType`, `CompleteType`, `CalledType`, ...), then per group of actions (`ResponseType`, `AppCallType`, `TurnOfChannelType`). The 8-bit counters stay in a byte because decrement and sums wrap; the subtractions that yield lengths stay in Nat because the guards of the code see to it. |
| `SdoClientProofs!CountsStayWithinBuffer` | `OpenSpec => []CountsWithinBuffer`: whatever arrives, `buflen` never exceeds the buffer, `curlen` only by an expedited answer of up to 4 bytes, and a segmented transfer never its length | `SafeInv`: `TypeOK` and, for each channel, `Bounded` and `Going`. A step touches one channel (`OthersKept`), so one lemma shows that it leaves its own channel `Safe`, action by action. The SEGMENTED part of `Bounded` is the strengthening without which a segment's length could be negative. |
| `SdoClientProofs!TransfersStallInOneWay` | `OpenSpec => []OnlyOneStall`: a transfer not yet reported can be continued or timed out, with one exception, the one in run `late_stall` | `Going`, the same induction. |
| `TimerProofs!TimerIsExact` | `Spec => []Exact` | `Exact` speaks of the moment of a poll; the strengthening `InWindow` relates tick, timestamp and elapsed time in between: the tick is at most `MaxGap` behind the last poll, so before a poll the timestamp lies ahead, or less than half the range behind. |
| `PacketReceiverProofs!ReceiverStaysInBuffer` | `Spec => []IndexInRange` for every limit, CRC and damage | `Counted`: in the data state 1 .. `Length` bytes remain and `Length` was compared with the limit. |
| `SdoClientProofs!AbortsNameOwnEntry` | `OpenSpec => []AbortNamesEntry`: an abort never names the entry of another transfer | `NamesInv`: the buffer of a transfer that waits was filled for its own entry, or holds a segment. |
| `PacketReceiverProofs!InStepPacketsAreReceived` | `Spec => InStepIsReceived` | `InStep`: how many bytes of the packet were taken determines the state, the bytes stored and the CRC; one lemma per action. |
| `PacketReceiverProofs!OnlySupportedIsReceived` | `Spec => []OnlySupported` | `Known`: the command byte of the packet in progress was looked up when it was taken. |
| `PacketReceiverProofs!ReceiverResynchronises` | `Spec => []Resynchronises`, for any packets | `Resyncing`: a measure, `Need`, of the bytes a receiver out of step may still swallow; within clear packets each byte lowers it by one until the receiver waits for SOH at the start of a packet; from then on it is in step with whatever packets come. |
| `PacketReceiverProofs!DamageIsDropped` | `Spec => DamagedIsDropped` under `TellsOneByte` | `Dropping`: a packet with one changed byte is either out of step with its length or carries a CRC that differs (`Spoilt`). |
| `RemoteAccessProofs!RemoteTypeOK` | `Spec => []TypeOK` | `TypeInv`: with the types of the packets under way, and which call is made at which place of `main`. |
| `RemoteAccessProofs!RemoteOwnAnswer`, `RemoteProducersAreIO` | `Spec => []OwnAnswer`, `Spec => []ProducersAreIO`, for every network and whatever the device tells of other IDs, if `LateAnswers = FALSE` | The request and the answers under way, together, are at most one, and are those of the call that waits; then what `main` reads is the type of the node it asked for. |
| `SerialHostProofs!HostTypeOK`, `HostPacketsFit` | types; no packet exceeds its array, but for the one length of section 6 | `HostInv`, which also types the packets under way and the records as the device knows them. |
| `SerialHostProofs!HostSidesAgree`, `HostBytesAgree`, `HostStaysInBuffer`, `HostNoReplay`, `HostEchoesToggle`, `HostLastFlagTells` | the properties of the servers, for any table of records, anything the device may have open at first, any program, any order of requests and whatever is lost | What a request does to a record is a function, so each is shown once per kind of request, from what record and device had in common before it. `SidesInv` adds what is on the line: an abort on it accounts for a transfer that only the server has open, and a packet that leaves it is handled or counted as lost. |
| `SerialHostProofs!HostImplementsCalls` | `Spec => Calls!Spec`: the calls implement CallService (without its liveness) | The numbers of the requests under way, then of the answers under way, then the last one answered, are in order; a step of the device moves one from the first group to the second, `Process` from the second to the third. |
| `CrcProofs!CrcIsRemainder`, `ChecksumHolds` | for every packet, `PacketCRC` is the remainder of the polynomial division; `Spec => []ChecksumIsRemainder` of the receiver with this CRC, for every width, polynomial and limit | The invariant of the loops is `SoFar`: after *k* bytes and *i* bits the register holds the sum of the powers of x of the ones taken so far, multiplied by x for each bit that followed. `NextBit`, `NextZero` and `NextByte` show that a turn of a loop takes it on. The inductions over bits and bytes go by the least counterexample (`LeastElement`, `Ascent`, `Descent`), since the library's induction theorems cannot be used. |
| `CrcProofs!CodesCRCTells`, `CodesCRCDropsDamage` | the CRC of a packet differs from that of any other that differs from it in one byte; `Spec => DamagedIsDropped` with this CRC | A turn can be undone if the polynomial ends in 1, so registers that differ stay different; and within the changed byte the first bit that differs moves up in the register and is never lost (`Apart`). |
| `SdoSystemProofs!ExchangeHolds`, `ReliableExchange` | `Spec => []Exchange`; until the first frame is lost, for blocks of any size | see below |
| `SdoSystemProofs!WritesStore`, `ReadsComplete`, `LosslessTransfers`, `NoProtocolErrors`, `SessionsClose`, `BusyTells`, `StatusTells`, `ObjectsStayWhole`, `ReportsArePending` | `WriteOkIsStored`, `ReadOkIsComplete`, `LosslessSucceeds`, `LossIsNoProtocolError`, `SessionsCloseTogether`, `BusyTellsPending`, `StatusTellsOutcome`, `ObjectsAreWhole`, `NoSpuriousReport` of the client with its nodes | `Inv`: `Exchange`, with what the last report said (`Told`) and what `last_abort` tells (`Known`). |
| `SdoSystemProofs!ServiceImplemented` | `Spec => Service!Spec`: the client, its link and the nodes implement SdoService | Every step of a channel has one of four effects: nothing the service sees, except that a buffer in use fills (`Unseen`), a start (`Begins`), the moment a write is in the object (`TakesEffect`), a report (`Ends`). Each is a step of the service. |

The argument of SdoSystemProofs, for any number of channels, buffers, objects and
lost frames: a step touches one channel (`StepTouches`), so it is enough that it
takes that channel from its phase to another. There is one lemma for each phase
(`FromAtRest`, `FromSegmentSent`, `FromBlockSending`, ...) with one case for each
thing that can happen in it: a call, a turn of the loop, an answer, a lost frame, a
step of the node. A lost frame leads to `Doomed`, where only the timeout or the
node's abort can come, except in a block, where the segments go on and the node
or the client has missed one: then the invariant says that the node has less than
the client has sent (`InTouch`), respectively that what comes is out of sequence,
so the transfer cannot be reported OK. The conditions, 1 to 3 in `InOrderAnswers` and 4 in `SmallBlocks`:

1. No answer comes after its transfer has timed out (`LateAnswers = FALSE`).
   Without it `late_ack` and `late_stall` are the counterexamples.
2. The application starts transfers with the four calls that name a buffer. After
   a bare `SDOCLNT_Write` or `SDOCLNT_Init`, or `SDOCLNT_AbortTransfer`, see
   section 6; `api_calls` and `two_channels` have these. `SDOCLNT_AbortTransfer` ends a
   transfer with its answers still under way, which is what 1 excludes.
3. The node tells the size of an object in its answer to a block read.
4. Nodes take blocks of at most 31 segments. A node that the loss of its answer and
   of the abort has left in a block takes every frame but an abort for a segment, by
   the lower seven bits of its first byte. The requests are 33 and more, so
   a block of at most 31 segments has no place for them and the node aborts; a larger one
   may have, and section 6 says what follows. Until a frame is lost, the condition
   is not needed: `ReliableExchange`, `LosslessTransfers` and `SessionsClose` hold for every
   block size from 1 to 127.

Condition 4 excludes nodes that exist (127 segments is the largest CiA 301
allows, and not rare) once a frame is lost; the theorems say that for the others
nothing else can go wrong. Run `transfers` satisfies all four.

The proofs about the client rest on `ClientAssumption` (at least one channel,
blocks of 1 to 127 segments, buffers of at least one byte), `OpenAssumption`,
`MuxAssumption` and `DataAssumption`. Those about the client with its nodes
need `SystemAssumption` too: objects are not empty, nodes accept 1 to 127 segments.
Those about the timer need `MaxGap` below half the range: the loop must
come round at least once in 32 s. Those about the receiver need that `SOH`,
lengths and CRC bytes are bytes.

One of the receiver's theorems has a hypothesis about the data. `TellsOneByte` says
that the CRC of a packet differs from that of one with another byte in one place;
for the code's CRC it is a theorem, `CodesCRCTells`. Nothing is assumed about where
SOH occurs: lengths, data and CRCs may all hold it. What that costs is in the
properties themselves: a receiver out of step can take a data byte for the start of a
packet again and again as long as such packets come, so `Resynchronises` counts clear
packets in a row; and a changed command in a packet with SOH behind it is not
counted by `DamagedIsDropped`. The theorems about the CRC need that the register is two
bytes wide and the polynomial fits it (`CrcAssumption`), that bytes have `Bits` bits
(`BytesFit`), that the polynomial ends in 1, as 0x1021 does (`PolynomialEndsInOne`), and
that the receiver's CRC is this one (`CodesCRC`). TLC evaluates these on run
`packets`.

Only model-checked: every liveness property (liveness under fairness and ENABLED
are beyond the prover), that is `EveryTransferReported`, `EveryTimeoutExpires`,
`ScannedIsRead`, `EndsOnRequest` and the liveness part of `ImplementsCallService`; and
`ObjectsAreWhole` with aborts and answers that come late. Section 8 says more.

## 6. Where the code and its documentation disagree

Four have a run that violates the property the documentation states; they are
in `PROJECT.json` under `findings`:

1. *late_ack* (sdoclnt.cpp:681): an answer is matched with a transfer by index and
   subindex only.
2. *late_stall* (sdoclnt.cpp:620): 0xA0 is accepted in any state. The one of a block
   write that timed out makes the next one send its segments too early; that one's
   own comes after its last segment, and a block write with nothing left to send has
   no way on and no timeout.
3. *silence* (SerialProtocol.cpp:716): a read without data succeeds (VMIN = 0) and
   returns before the timeout is looked at. In the trace the receiver waits for
   the last byte of a CRC; a receiver that waits for a length is exempt from the
   timeout on purpose (line 706), and the property leaves it out.
4. *write_target* (RA_App_Demo.cpp:387): `nodes` where `nodes + 1` is meant.

Others were met while translating and have no run of their own. In the models
they are as in the code:

* 0xA2 is accepted in any state, and the number of segments it acknowledges is not
  compared (sdoclnt.cpp:629, 645). When the 0xA0 of a block write and the abort after
  its timeout are lost, the node is still in the first block. If its blocks have 66
  segments or more, it takes the request 0xC2 of the next write for a last segment
  out of sequence and answers 0xA2; the client sends its data, the node stores them
  in the entry of the first write, and the second is reported OK. `MCSdoLateAck.cfg`
  with `Muxes = {m1, m2}`, `Sizes = {29}`, `LateAnswers = FALSE`, `MaxLoss = 2` and
  `BlockSizes = {127}` shows it.
* A node is read while it is being scanned: "scanner active, do not use SDO client"
  (RA_App_Demo.cpp:62), but the flag is never looked at (line 359).
* An acknowledgement on an idle channel is reported as the end of a transfer
  (sdoclnt.cpp:681), for instance after an abort.
* `SDOCLNT_IsBusy` compares bits that BLOCK_WRFINA and BLOCK_INITRD use for
  themselves: a channel may look free for the last turn of a block write and busy
  after an expedited read. `BusyTellsPending` states exactly these exceptions.
* `SDOCLNT_GetStatus` tells an abort where the transfer timed out, since
  `last_abort` gets the status code instead of an abort code (sdoclnt.cpp:860),
  and "running" after a bare `SDOCLNT_Init`.
* A block read without the size in the node's answer is taken for an object of
  0 bytes and reported OK.
* `SDOCLNT_Write` "uses the last data buffer" (sdoclnt.h:134-135), but after a
  block write the pointer stands behind it (sdoclnt.cpp:901).
* The abort frame keeps bytes 1 to 3 of the last message, which for a segment are
  data, not index and subindex.
* The limit of `WriteRemoteOD` leaves out the node ID (SerialProtocol.cpp:587): 31
  bytes of data make a packet of 36, one more than `PACKET.Data` and `TxPacketData`
  are made for. `PacketsFit` states the exception.
* The 'G' packet with the confirmation of the last segment of a download is sent
  without the flag of the last segment (SerialProtocol.cpp:218-222).
  `LastFlagTells` states the exception.
* The constructor of XSDO "performs initialization" (xsdo.cpp:44) and is empty; the
  servers' records are never set.
* The confirmation of a download sends bit 4 of the toggle byte (xsdo.cpp:130), but
  it is bit 0 that is compared (line 279): they agree if they agreed at first.
* The server number is 1 to `NR_OF_SDOSERVER` in xsdo.h:54 and counts from 0 in the
  code.
* The second half of `XSDO_ReadNextSegment` (xsdo.cpp:223-240) asks for `size` to be 0
  and not to be 0, and the answers 4, 5, 6, 0x10 and 0x21 of the handler are never
  given.
* A request to a server that has no transfer open gets no answer, not an abort
  (xsdo.cpp:404).
* Once a call has timed out and its answer comes late, every later call of the same
  kind gets the answer before its own, until one is lost or `Process` is called
  outside a call: nothing but the letter is compared (SerialProtocol.cpp:453).
* Closing and opening the port leaves `ReceiveState` as it was
  (SerialProtocol.cpp:128-153): the first packet after that may be lost.
* A packet of one byte is accepted with any command: the end of the data overwrites
  the reset to "start over" (SerialProtocol.cpp:764).
* A scan that completes while the type of the same node is being read is forgotten
  when the marker is reset (RA_App_Demo.cpp:380).
* The branch for the device's own status (bit 7 of the node ID,
  RA_App_Demo.cpp:146) is behind a return for IDs beyond the table (line 142) and
  cannot be reached.
* The same return lets node ID 0 pass, which changes `NodeStates[-1]`
  (RA_App_Demo.cpp:156 and on).

## 7. What is not modelled

* The unused parts of `xsdo.cpp`: `XSDO_WriteConfirm` and block transfers. The
  application's side of a server (who sets its record, and empties a buffer before
  it starts over) is not in the repository.
* A 'D' packet of fewer than five bytes: the length of its data is computed by
  subtraction (SerialProtocol.cpp:204). The device sends none, and the models leave
  the length of data out.
* `SerialPort_*.cpp`: system calls. What SerialProtocol sees of them is in SerialHost
  (a port that opens or not, a write that fails) and PacketReceiver (a read that
  times out succeeds with 0 bytes).
* `Timer_Windows.cpp`: the comparison is that of `Timer_Linux.cpp`.
* Values of bytes, and of lengths of a blocking read or write; printing;
  `LastNodeError`, which is only printed; the abort codes themselves beyond the
  kinds the client tells apart.
* Real time in SdoClient: timers are choices there, and Timer is where their
  arithmetic is.
* 'F' and 'V' packets in RemoteAccess: the demonstration starts no non-blocking
  transfer.

## 8. What remains open

The models cover every component with logic of its own, and every safety property
that a passing run checks is proved, under the conditions of section 5. What a
proof does not reach:

* `ObjectsAreWhole` with late answers and aborts, when no frame is lost (run
  `api_calls`). Whether it holds for any number of calls is not known: the node is
  protected only by the order of the frames on their way to it, while late
  answers can take the client to any state. An invariant would have to say of every
  sequence of frames under way which answers can still come of it.
* `SDOCLNT_AbortTransfer` in SdoSystemProofs. After an abort the answers to what was
  sent before are still under way, so the next transfer meets late ones, and
  `WriteOkIsStored` is as false as in `late_ack`. A proof would need an application
  that waits after an abort, which the documentation does not ask for.
* Larger blocks than 31 segments once a frame was lost: false, see section 6.
* Liveness, for which TLC checks small instances only.
