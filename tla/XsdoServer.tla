----------------------------- MODULE XsdoServer -----------------------------
(***************************************************************************)
(* The host's SDO servers (xsdo.cpp): requests of segmented transfers that *)
(* the device passes on in 'F' packets, and the answers to them.           *)
(*                                                                         *)
(* Nothing in xsdo.cpp opens a transfer, and the constructor, "performs    *)
(* initialization", is empty: the servers start with what their memory     *)
(* holds, one of the tables in Memory.  A pointer is an offset into the    *)
(* buffer it points into.                                                  *)
(***************************************************************************)
EXTENDS Integers

CONSTANTS NR_OF_SDOSERVER,
          Memory,      \* tables of records that the servers may start with
          Opened       \* sets of transfers the device may have open then

ServerIndex == 0 .. NR_OF_SDOSERVER - 1

Downloads == {"WRITE", "WRITECB"}
States == Downloads \union {"READ", "NONE", "OTHER"}

(* idx and sub are never looked at, and of the toggle byte only bits 0 and *)
(* 4 are.  "app" says that pBuf is not 0.                                  *)
XsdoRecord == [state : States, size : Nat, bufsize : Nat, bufcnt : Nat,
               app : BOOLEAN, at : Nat, tog : SUBSET {0, 4}]
Running(x) == x.state \in Downloads \union {"READ"}

ASSUME XsdoAssumption == /\ NR_OF_SDOSERVER \in 2 .. 127
                         /\ Memory \subseteq [ServerIndex -> XsdoRecord]
                         /\ Opened \subseteq SUBSET ServerIndex

(* What the handler tells apart: a download segment of n bytes, cs & 0xE0  *)
(* being 0, an upload segment (0x60), an abort (0x80), an unknown command  *)
(* (0xE0 or 0xA0), and any other.  Of an answer, last is bit 0 of cs.      *)
XsdoRequest == [cmd : {"download", "upload", "abort", "unknown", "other"},
                tog : {0, 1}, n : 0 .. 7, last : BOOLEAN]
AbortCodes == {"GENERAL", "TOGGLE", "TRANSFER", "UNKNOWN_COMMAND"}
XsdoResponse == [cmd : {"none", "confirm", "data", "abort"}, tog : {0, 1}, n : 0 .. 7,
                 last : BOOLEAN, code : AbortCodes \union {"none"}]
NoResponse == [cmd |-> "none", tog |-> 0, n |-> 0, last |-> FALSE, code |-> "none"]
Abort(code) == [NoResponse EXCEPT !.cmd = "abort", !.code = code]

-----------------------------------------------------------------------------
(* The effect of a request on a record: the record after it, the answer,   *)
(* and the offsets of the buffer that were written or read.                *)
Effect(x, response, touched) == [rec |-> x, response |-> response, touched |-> touched]
Closed(x) == [x EXCEPT !.state = "NONE"]
Fail(x, code) == Effect(Closed(x), Abort(code), {})

Bit(b, tog) == IF b \in tog THEN 1 ELSE 0
FlipLow(tog) == IF 0 \in tog THEN tog \ {0} ELSE tog \union {0}    \* mutant
KeepToggle(tog) == tog                                             \* mutant
Flip(tog) == {0, 4} \ tog
StayOpen(x) == Effect(x, Abort("TOGGLE"), {})                      \* mutant
ToggleError(x) == Fail(x, "TOGGLE")

Larger(a, b) == IF a < b THEN b ELSE a                             \* mutant
Smaller(a, b) == IF a < b THEN a ELSE b

(* XSDO_WriteNextSegment goes byte by byte; in a buffer of the application *)
(* it goes back to the start when the counter reaches the buffer's size,   *)
(* the first time after ToEnd bytes, and when no data are left.            *)
OneBehind(x) == x.bufsize - x.bufcnt + 1                           \* mutant
ToEnd(x) == IF x.bufcnt < x.bufsize THEN x.bufsize - x.bufcnt ELSE 1
Round(x) == IF x.bufsize = 0 THEN 1 ELSE x.bufsize
Restarts(x, i) == x.app /\ (i >= ToEnd(x) \/ (i > 0 /\ i = x.size))
BytesInRound(x, i) == IF i = x.size THEN 0 ELSE (i - ToEnd(x)) % Round(x)

(* The pointer and the counter after i bytes.                              *)
At(x, i) == IF Restarts(x, i) THEN BytesInRound(x, i) ELSE x.at + i
Count(x, i) == IF ~x.app THEN x.bufcnt
               ELSE IF Restarts(x, i) THEN BytesInRound(x, i) ELSE x.bufcnt + i

(* A segment, up to the byte for which there is no room.                   *)
Written(x, n) ==
  LET k == Smaller(n, x.size)
  IN [rec |-> [x EXCEPT !.size = @ - k, !.at = At(x, k), !.bufcnt = Count(x, k)],
      touched |-> {At(x, i) : i \in 0 .. k - 1}]

Download(x, r) ==
  LET w == Written(x, r.n)
      done == IF r.last THEN Closed(w.rec) ELSE w.rec
  IN IF r.cmd # "download" THEN Fail(x, "GENERAL")
     ELSE IF r.tog # Bit(0, x.tog) THEN ToggleError(x)
     ELSE IF r.n > x.size THEN Effect(Closed(w.rec), Abort("TRANSFER"), w.touched)
     ELSE Effect([done EXCEPT !.tog = Flip(@)],
                 [NoResponse EXCEPT !.cmd = "confirm", !.tog = Bit(4, x.tog)],
                 w.touched)

(* XSDO_ReadNextSegment; its second half, for size = 0, does nothing.      *)
LastTooSoon(left) == left < 7                                      \* mutant
LastSegment(left) == left = 0
Upload(x, r) ==
  LET k == Smaller(7, x.size)
      last == LastSegment(x.size - k)
      read == [x EXCEPT !.size = @ - k, !.at = @ + k, !.tog = Flip(@)]
  IN IF r.cmd # "upload" THEN Fail(x, "GENERAL")
     ELSE IF r.tog # Bit(0, x.tog) THEN ToggleError(x)
     ELSE Effect(IF last THEN Closed(read) ELSE read,
                 [NoResponse EXCEPT !.cmd = "data", !.tog = Bit(0, x.tog),
                                    !.n = k, !.last = last],
                 x.at .. x.at + k - 1)

(* XSDO_HandleExtended for a server that exists.                           *)
Handled(x, r) ==
  CASE r.cmd = "abort" -> Effect(Closed(x), NoResponse, {})
    [] r.cmd = "unknown" -> Fail(x, "UNKNOWN_COMMAND")
    [] r.cmd \notin {"abort", "unknown"} /\ x.state \in Downloads -> Download(x, r)
    [] r.cmd \notin {"abort", "unknown"} /\ x.state = "READ" -> Upload(x, r)
    [] OTHER -> Effect(x, NoResponse, {})

-----------------------------------------------------------------------------
VARIABLES
  mXSDO,    \* the servers' records
  handled,  \* what the last step made of a request
  begin,    \* history: the records at first
  device    \* history: the transfers as the device knows them

xsdoVars == <<mXSDO, handled, begin, device>>

NothingHandled ==
  [server |-> -1, request |-> [cmd |-> "other", tog |-> 0, n |-> 0, last |-> FALSE],
   response |-> NoResponse, flag |-> FALSE, touched |-> {}, before |-> -1]

(* What the memory holds and what the device has open need not agree.      *)
XsdoInit ==
  /\ mXSDO \in Memory /\ begin = mXSDO
  /\ handled = NothingHandled
  /\ \E open \in Opened :
       device = [s \in ServerIndex |->
                  [open |-> s \in open, bytes |-> 0, tog |-> -1,
                   missed |-> s \in open /\ ~Running(mXSDO[s]),
                   unheard |-> s \notin open /\ Running(mXSDO[s])]]

(* The device's view: whether it has the transfer open, bytes taken or     *)
(* given, the toggle bit of the last segment the server took, whether it   *)
(* has missed an answer, and whether an abort of its own was lost.         *)
(* An answer that arrives may end the transfer, and the device may give it *)
(* up, for a time-out of its own too: then it sends an abort.              *)
Ends(r, response) == \/ response.cmd = "abort" \/ response.last
                     \/ response.cmd = "confirm" /\ r.last
Seen(d, r, response, arrives) ==
  [open |-> d.open /\ ~(arrives /\ Ends(r, response)),
   bytes |-> d.bytes + (CASE arrives /\ response.cmd = "confirm" -> r.n
                          [] arrives /\ response.cmd = "data" -> response.n
                          [] OTHER -> 0),
   tog |-> IF response.cmd \in {"confirm", "data"} THEN r.tog ELSE d.tog,
   missed |-> d.missed \/ ~arrives,
   unheard |-> d.unheard]
GaveUp(d, sent) == [d EXCEPT !.open = FALSE, !.unheard = d.unheard \/ ~sent]

(* The flag of the 'G' packet.                                             *)
FlagAborts(response) == response.cmd = "abort"                     \* mutant
LastFlag(response) == response.cmd = "abort" \/ response.last

NothingRequested == handled' = NothingHandled /\ UNCHANGED <<mXSDO, begin>>
NothingServed == NothingRequested /\ UNCHANGED device

(* An 'F' packet, and whether the answer to it arrives; numbers of servers *)
(* that do not exist are ignored.                                          *)
HandleRequest(s, r, arrives) ==
  IF s \notin ServerIndex
    THEN NothingServed
    ELSE LET e == Handled(mXSDO[s], r)
         IN /\ mXSDO' = [mXSDO EXCEPT ![s] = e.rec]
            /\ device' = [device EXCEPT ![s] = Seen(@, r, e.response, arrives)]
            /\ handled' = [server |-> s, request |-> r, response |-> e.response,
                           flag |-> LastFlag(e.response), touched |-> e.touched,
                           before |-> device[s].tog]
            /\ UNCHANGED begin

-----------------------------------------------------------------------------
Answered == handled.response.cmd \in {"confirm", "data"}

(* What the device knows to be taken, or given, and what the server says   *)
(* is left make up the transfer, or less if an answer was lost; an upload  *)
(* ends with its last byte.  The server is at the place in the buffer that *)
(* this amounts to (an application's buffer starts over when it is full).  *)
BytesAgree ==
  \A s \in ServerIndex :
    LET x == mXSDO[s]  first == begin[s]  d == device[s]
        ended == handled.server = s /\ handled.response.last
    IN /\ Running(first) => d.bytes + x.size <= first.size
       /\ Running(first) /\ ~d.missed /\ (d.open \/ ended) =>
            d.bytes + x.size = first.size /\ (ended => x.size = 0)
       /\ Running(x) /\ ~(x.app /\ x.state \in Downloads) =>
            x.at = first.at + (first.size - x.size)

(* Whatever is requested, a server whose record was in order at first      *)
(* touches nothing outside the buffer.                                     *)
InOrder(x) == IF x.app /\ x.state \in Downloads
                THEN x.at = x.bufcnt /\ x.bufcnt < x.bufsize
                ELSE x.at + x.size <= x.bufsize
StaysInBuffer ==
  handled.server \in ServerIndex /\ InOrder(begin[handled.server]) =>
    handled.touched \subseteq 0 .. begin[handled.server].bufsize - 1

(* A segment that the device repeats, because an answer was late or lost,  *)
(* is not taken, or given, twice.                                          *)
NoReplay == Answered => handled.request.tog # handled.before

(* The answer has the toggle bit of the request ("Copy toggle bit",        *)
(* xsdo.cpp:130), if bits 0 and 4 of the toggle byte agreed at first: the  *)
(* one is compared and the other is sent.                                  *)
EchoesToggle ==
  Answered /\ begin[handled.server].tog \in {{}, {0, 4}} =>
    handled.response.tog = handled.request.tog

(* The 'G' packet tells that a transfer is over ("set value last to 1, if  *)
(* this was last segment", SerialProtocol.cpp:218) exactly when it is,     *)
(* except in the answer to the last segment of a download.                 *)
LastFlagTells ==
  handled.response.cmd # "none" =>
    (handled.flag <=> ~Running(mXSDO[handled.server])
                      /\ ~(handled.response.cmd = "confirm" /\ handled.request.last))
=============================================================================
