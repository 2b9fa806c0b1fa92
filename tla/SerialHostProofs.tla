-------------------------- MODULE SerialHostProofs --------------------------
(***************************************************************************)
(* Any program on SerialProtocol: its blocking calls implement CallService *)
(* (the safety part), their packets fit, and the SDO servers keep in step  *)
(* with the device; for every program and device, every number of calls    *)
(* and packets, and whatever is late or lost.                              *)
(***************************************************************************)
EXTENDS SerialHost, SequenceFacts

(***************************************************************************)
(* The servers: whatever is requested and whichever answers are lost.      *)
(***************************************************************************)
(* What the device may know of a transfer, and what becomes of that when   *)
(* it gives the transfer up or an abort is lost.                           *)
DeviceRecord == [open : BOOLEAN, bytes : Nat, tog : {-1, 0, 1}, missed : BOOLEAN,
                 unheard : BOOLEAN]
NoLonger(d, g) == /\ g.bytes = d.bytes /\ g.tog = d.tog /\ g.missed = d.missed
                  /\ g.open => d.open

(* What may happen to the servers in a step of the program.  A device that *)
(* sends an abort has nothing open any more.                               *)
XsdoStep == \/ /\ NothingRequested
               /\ device' \in [ServerIndex -> DeviceRecord]
               /\ \A s \in ServerIndex : NoLonger(device[s], device'[s])
            \/ \E s \in Int, r \in XsdoRequest, arrives \in BOOLEAN :
                 /\ HandleRequest(s, r, arrives)
                 /\ s \in ServerIndex /\ r.cmd = "abort" => ~device[s].open

-----------------------------------------------------------------------------
(* The four things that may become of a request.                           *)
SameBuffer(x, y) == y.bufsize = x.bufsize /\ y.app = x.app
Inside(x, touched) == InOrder(x) => touched \subseteq 0 .. x.bufsize - 1

Silent(x, r, e) ==
  /\ e.response = NoResponse /\ e.touched = {}
  /\ e.rec = [x EXCEPT !.state = e.rec.state] /\ ~Running(e.rec)
  /\ Running(x) => r.cmd = "abort"

Failed(x, r, e) ==
  /\ e.response.cmd = "abort" /\ ~e.response.last
  /\ SameBuffer(x, e.rec) /\ e.rec.tog = x.tog /\ e.rec.size <= x.size
  /\ ~Running(e.rec)
  /\ IF Running(x) THEN Inside(x, e.touched) ELSE e.touched = {}

Served(x, r, e, n, over) ==
  /\ r.tog = Bit(0, x.tog) /\ r.cmd # "abort"
  /\ n <= x.size /\ e.rec.size = x.size - n
  /\ e.rec.tog = Flip(x.tog) /\ SameBuffer(x, e.rec)
  /\ e.rec.state = IF over THEN "NONE" ELSE x.state
  /\ ~(x.app /\ x.state \in Downloads) => e.rec.at = x.at + n
  /\ Inside(x, e.touched)
  /\ ~over /\ InOrder(x) => InOrder(e.rec)

Taken(x, r, e) ==
  /\ x.state \in Downloads
  /\ e.response.cmd = "confirm" /\ ~e.response.last
  /\ e.response.tog = Bit(4, x.tog)
  /\ Served(x, r, e, r.n, r.last)

Given(x, r, e) ==
  /\ x.state = "READ"
  /\ e.response.cmd = "data" /\ e.response.last = (e.rec.size = 0)
  /\ e.response.tog = r.tog
  /\ Served(x, r, e, e.response.n, e.response.last)

(* Where the pointer and the counter can be after i of the bytes left.     *)
LEMMA Places ==
  ASSUME NEW x \in XsdoRecord, NEW i \in 0 .. x.size
  PROVE  /\ At(x, i) \in Nat /\ Count(x, i) \in Nat
         /\ ~x.app => At(x, i) = x.at + i
         /\ x.app /\ x.at = x.bufcnt /\ x.bufcnt < x.bufsize =>
              At(x, i) = Count(x, i) /\ At(x, i) < x.bufsize
<1>1. /\ x.size \in Nat /\ x.bufsize \in Nat /\ x.bufcnt \in Nat /\ x.at \in Nat
      /\ x.app \in BOOLEAN /\ i \in Nat
  BY DEF XsdoRecord
<1>2. ToEnd(x) \in Nat \ {0} /\ Round(x) \in Nat \ {0}
  BY <1>1 DEF ToEnd, Round
<1>3. Restarts(x, i) => /\ x.app
                        /\ BytesInRound(x, i) \in 0 .. Round(x) - 1
  <2>1. (i - ToEnd(x)) % Round(x) \in 0 .. Round(x) - 1
    BY <1>1, <1>2
  <2> QED
    BY <1>1, <1>2, <2>1 DEF Restarts, BytesInRound
<1>4. CASE Restarts(x, i)
  <2>1. x.bufcnt < x.bufsize => Round(x) = x.bufsize
    BY <1>1 DEF Round
  <2> QED
    BY <1>1, <1>2, <1>3, <1>4, <2>1 DEF At, Count
<1>5. CASE ~Restarts(x, i)
  <2>1. x.app => i < ToEnd(x)
    BY <1>1, <1>2, <1>5 DEF Restarts
  <2>2. x.bufcnt < x.bufsize => ToEnd(x) = x.bufsize - x.bufcnt
    BY DEF ToEnd
  <2> QED
    BY <1>1, <1>5, <2>1, <2>2 DEF At, Count
<1> QED
  BY <1>4, <1>5

(* The copy of a segment: the record stays one and in order, and nothing   *)
(* outside the buffer is written.                                          *)
LEMMA Copied ==
  ASSUME NEW x \in XsdoRecord, x.state \in Downloads, NEW n \in 0 .. 7
  PROVE  LET w == Written(x, n)
         IN /\ w.rec \in XsdoRecord
            /\ w.rec = [x EXCEPT !.size = w.rec.size, !.at = w.rec.at,
                                 !.bufcnt = w.rec.bufcnt]
            /\ w.rec.size <= x.size /\ (n <= x.size => w.rec.size = x.size - n)
            /\ ~x.app /\ n <= x.size => w.rec.at = x.at + n
            /\ Inside(x, w.touched)
            /\ InOrder(x) => InOrder(w.rec)
<1> DEFINE k == Smaller(n, x.size)
           w == Written(x, n)
<1>1. /\ x.size \in Nat /\ x.bufsize \in Nat /\ x.bufcnt \in Nat /\ x.at \in Nat
      /\ x.app \in BOOLEAN
  BY DEF XsdoRecord
<1>2. k \in 0 .. x.size /\ (n <= x.size => k = n)
  BY <1>1 DEF Smaller
<1>3. /\ w.rec = [x EXCEPT !.size = @ - k, !.at = At(x, k), !.bufcnt = Count(x, k)]
      /\ w.touched = {At(x, i) : i \in 0 .. k - 1}
  BY DEF Written
<1> HIDE DEF k, w
<1>4. /\ At(x, k) \in Nat /\ Count(x, k) \in Nat
      /\ ~x.app => At(x, k) = x.at + k
      /\ x.app /\ x.at = x.bufcnt /\ x.bufcnt < x.bufsize =>
           At(x, k) = Count(x, k) /\ At(x, k) < x.bufsize
  BY <1>2, Places
<1>5. /\ w.rec \in XsdoRecord
      /\ w.rec.size = x.size - k /\ w.rec.at = At(x, k) /\ w.rec.bufcnt = Count(x, k)
      /\ w.rec.state = x.state /\ w.rec.app = x.app /\ w.rec.bufsize = x.bufsize
      /\ w.rec = [x EXCEPT !.size = w.rec.size, !.at = w.rec.at, !.bufcnt = w.rec.bufcnt]
  <2>1. x.size - k \in Nat
    BY <1>1, <1>2
  <2>2. w.rec = [x EXCEPT !.size = x.size - k, !.at = At(x, k), !.bufcnt = Count(x, k)]
    BY <1>3
  <2>3. w.rec \in XsdoRecord
    BY <2>1, <2>2, <1>4 DEF XsdoRecord
  <2>4. /\ w.rec.size = x.size - k /\ w.rec.at = At(x, k) /\ w.rec.bufcnt = Count(x, k)
        /\ w.rec.state = x.state /\ w.rec.app = x.app /\ w.rec.bufsize = x.bufsize
    BY <2>2 DEF XsdoRecord
  <2> QED
    BY <2>2, <2>3, <2>4
<1>6. Inside(x, w.touched)
  <2> SUFFICES ASSUME InOrder(x), NEW i \in 0 .. k - 1
               PROVE  At(x, i) \in 0 .. x.bufsize - 1
    BY <1>3 DEF Inside
  <2>1. /\ At(x, i) \in Nat /\ i \in 0 .. x.size /\ i < x.size
        /\ ~x.app => At(x, i) = x.at + i
        /\ x.app /\ x.at = x.bufcnt /\ x.bufcnt < x.bufsize => At(x, i) < x.bufsize
    BY <1>1, <1>2, Places
  <2> QED
    BY <1>1, <2>1 DEF InOrder
<1>7. InOrder(x) => InOrder(w.rec)
  BY <1>1, <1>2, <1>4, <1>5 DEF InOrder
<1>8. w.rec.size <= x.size /\ (n <= x.size => w.rec.size = x.size - n)
  BY <1>1, <1>2, <1>5
<1>9. ~x.app /\ n <= x.size => w.rec.at = x.at + n
  BY <1>1, <1>2, <1>4, <1>5
<1> QED
  BY <1>5, <1>6, <1>7, <1>8, <1>9 DEF w

LEMMA Responses ==
  /\ NoResponse \in XsdoResponse /\ NoResponse.cmd = "none"
  /\ NoResponse.last = FALSE
  /\ \A code \in AbortCodes : /\ Abort(code) \in XsdoResponse
                          /\ Abort(code).cmd = "abort" /\ Abort(code).last = FALSE
<1>1. NoResponse \in XsdoResponse /\ NoResponse.cmd = "none" /\ NoResponse.last = FALSE
  BY DEF NoResponse, XsdoResponse
<1> QED
  BY <1>1 DEF Abort, XsdoResponse

(* A record after it is closed.                                            *)
LEMMA ClosedRecord ==
  ASSUME NEW x \in XsdoRecord
  PROVE  /\ Closed(x) \in XsdoRecord /\ Closed(x).state = "NONE"
         /\ Closed(x) = [x EXCEPT !.state = Closed(x).state]
         /\ Closed(x).size = x.size /\ Closed(x).at = x.at /\ Closed(x).tog = x.tog
         /\ SameBuffer(x, Closed(x)) /\ ~Running(Closed(x))
  BY DEF Closed, XsdoRecord, States, Downloads, Running, SameBuffer

LEMMA Fails ==
  ASSUME NEW x \in XsdoRecord, NEW r \in XsdoRequest, NEW code \in AbortCodes
  PROVE  LET e == Fail(x, code)
         IN e.rec \in XsdoRecord /\ e.response \in XsdoResponse /\ Failed(x, r, e)
<1> DEFINE e == Fail(x, code)
<1>1. e.rec = Closed(x) /\ e.response = Abort(code) /\ e.touched = {}
  BY DEF Fail, Effect
<1>2. x.size \in Nat
  BY DEF XsdoRecord
<1> QED
  BY <1>1, <1>2, ClosedRecord, Responses DEF Failed, Inside

LEMMA Toggle ==
  ASSUME NEW x \in XsdoRecord
  PROVE  /\ Bit(0, x.tog) \in {0, 1} /\ Bit(4, x.tog) \in {0, 1}
         /\ Flip(x.tog) \in SUBSET {0, 4}
         /\ Bit(0, Flip(x.tog)) = 1 - Bit(0, x.tog)
         /\ x.tog \in {{}, {0, 4}} => Flip(x.tog) \in {{}, {0, 4}}
         /\ x.tog \in {{}, {0, 4}} => Bit(0, x.tog) = Bit(4, x.tog)
<1>1. x.tog \in SUBSET {0, 4}
  BY DEF XsdoRecord
<1>2. x.tog \in {{}, {0, 4}} => Flip(x.tog) \in {{}, {0, 4}}
  BY <1>1 DEF Flip
<1> QED
  BY <1>1, <1>2 DEF Bit, Flip

(* A download segment.                                                     *)
LEMMA Downloaded ==
  ASSUME NEW x \in XsdoRecord, x.state \in Downloads, NEW r \in XsdoRequest
  PROVE  LET e == Download(x, r)
         IN /\ e.rec \in XsdoRecord /\ e.response \in XsdoResponse
            /\ Failed(x, r, e) \/ Taken(x, r, e)
<1> DEFINE e == Download(x, r)
           w == Written(x, r.n)
<1>1. /\ x.size \in Nat /\ r.n \in 0 .. 7 /\ r.last \in BOOLEAN /\ r.tog \in {0, 1}
      /\ Running(x)
  BY DEF XsdoRecord, XsdoRequest, Running
<1>2. /\ w.rec \in XsdoRecord
      /\ w.rec = [x EXCEPT !.size = w.rec.size, !.at = w.rec.at, !.bufcnt = w.rec.bufcnt]
      /\ w.rec.size <= x.size /\ (r.n <= x.size => w.rec.size = x.size - r.n)
      /\ ~x.app /\ r.n <= x.size => w.rec.at = x.at + r.n
      /\ Inside(x, w.touched)
      /\ InOrder(x) => InOrder(w.rec)
  BY <1>1, Copied
<1>3. w.rec.state = x.state /\ w.rec.tog = x.tog /\ SameBuffer(x, w.rec)
  BY <1>2 DEF XsdoRecord, SameBuffer
<1> HIDE DEF w
<1>4. CASE r.cmd # "download" \/ r.tog # Bit(0, x.tog)
  <2>1. e = Fail(x, "GENERAL") \/ e = Fail(x, "TOGGLE")
    BY <1>4 DEF Download, ToggleError
  <2> QED
    BY <2>1, Fails DEF AbortCodes
<1>5. CASE r.cmd = "download" /\ r.tog = Bit(0, x.tog) /\ r.n > x.size
  <2>1. e = Effect(Closed(w.rec), Abort("TRANSFER"), w.touched)
    BY <1>5 DEF Download, w
  <2>2. e.rec = Closed(w.rec) /\ e.response = Abort("TRANSFER") /\ e.touched = w.touched
    BY <2>1 DEF Effect
  <2> QED
    BY <1>1, <1>2, <1>3, <2>2, ClosedRecord, Responses DEF Failed, SameBuffer, AbortCodes
<1>6. CASE r.cmd = "download" /\ r.tog = Bit(0, x.tog) /\ r.n <= x.size
  <2> DEFINE done == IF r.last THEN Closed(w.rec) ELSE w.rec
             y == [done EXCEPT !.tog = Flip(@)]
             response == [NoResponse EXCEPT !.cmd = "confirm", !.tog = Bit(4, x.tog)]
  <2>1. e = Effect(y, response, w.touched)
    BY <1>1, <1>6 DEF Download, w
  <2>2. e.rec = y /\ e.response = response /\ e.touched = w.touched
    BY <2>1 DEF Effect
  <2>3. /\ done \in XsdoRecord /\ done.size = x.size - r.n /\ done.tog = x.tog
        /\ SameBuffer(x, done) /\ done.state = (IF r.last THEN "NONE" ELSE x.state)
        /\ done.at = w.rec.at /\ (~r.last => done = w.rec)
    BY <1>2, <1>3, <1>6, ClosedRecord DEF SameBuffer
  <2> HIDE DEF done
  <2>4. /\ y \in XsdoRecord /\ y.size = x.size - r.n /\ y.tog = Flip(x.tog)
        /\ SameBuffer(x, y) /\ y.state = (IF r.last THEN "NONE" ELSE x.state)
        /\ y.at = done.at /\ y.bufcnt = done.bufcnt
    BY <2>3, Toggle DEF XsdoRecord, SameBuffer
  <2>5. /\ response \in XsdoResponse /\ response.cmd = "confirm" /\ ~response.last
        /\ response.tog = Bit(4, x.tog)
    BY Toggle, Responses DEF XsdoResponse
  <2>6. ~r.last /\ InOrder(x) => InOrder(y)
    BY <1>2, <1>3, <2>3, <2>4 DEF InOrder, SameBuffer
  <2>7. ~(x.app /\ x.state \in Downloads) => y.at = x.at + r.n
    BY <1>2, <1>6, <2>3, <2>4
  <2> HIDE DEF y, response
  <2>8. Served(x, r, e, r.n, r.last)
    BY <1>2, <1>6, <2>2, <2>4, <2>6, <2>7 DEF Served
  <2> QED
    BY <2>2, <2>4, <2>5, <2>8 DEF Taken
<1> QED
  BY <1>1, <1>4, <1>5, <1>6

(* An upload segment.                                                      *)
LEMMA Uploaded ==
  ASSUME NEW x \in XsdoRecord, x.state = "READ", NEW r \in XsdoRequest
  PROVE  LET e == Upload(x, r)
         IN /\ e.rec \in XsdoRecord /\ e.response \in XsdoResponse
            /\ Failed(x, r, e) \/ Given(x, r, e)
<1> DEFINE e == Upload(x, r)
<1>1. /\ x.size \in Nat /\ x.at \in Nat /\ x.bufsize \in Nat /\ r.tog \in {0, 1}
      /\ x.state \notin Downloads
  BY DEF XsdoRecord, XsdoRequest, Downloads
<1>2. CASE r.cmd # "upload" \/ r.tog # Bit(0, x.tog)
  <2>1. e = Fail(x, "GENERAL") \/ e = Fail(x, "TOGGLE")
    BY <1>2 DEF Upload, ToggleError
  <2> QED
    BY <2>1, Fails DEF AbortCodes
<1>3. CASE r.cmd = "upload" /\ r.tog = Bit(0, x.tog)
  <2> DEFINE k == Smaller(7, x.size)
             last == LastSegment(x.size - k)
             read == [x EXCEPT !.size = @ - k, !.at = @ + k, !.tog = Flip(@)]
             y == IF last THEN Closed(read) ELSE read
             response == [NoResponse EXCEPT !.cmd = "data", !.tog = Bit(0, x.tog),
                                            !.n = k, !.last = last]
  <2>1. e = Effect(y, response, x.at .. x.at + k - 1)
    BY <1>3 DEF Upload
  <2>2. e.rec = y /\ e.response = response /\ e.touched = x.at .. x.at + k - 1
    BY <2>1 DEF Effect
  <2>3. k \in 0 .. 7 /\ k <= x.size /\ x.size - k \in Nat /\ x.at + k \in Nat
    BY <1>1 DEF Smaller
  <2>4. last \in BOOLEAN /\ (last <=> x.size - k = 0)
    BY DEF LastSegment
  <2> HIDE DEF k, last
  <2>5. /\ read \in XsdoRecord /\ read.size = x.size - k /\ read.at = x.at + k
        /\ read.tog = Flip(x.tog) /\ SameBuffer(x, read) /\ read.state = x.state
    BY <2>3, Toggle DEF XsdoRecord, SameBuffer
  <2> HIDE DEF read
  <2>6. /\ y \in XsdoRecord /\ y.size = x.size - k /\ y.at = x.at + k
        /\ y.tog = Flip(x.tog) /\ SameBuffer(x, y)
        /\ y.state = IF last THEN "NONE" ELSE x.state
    BY <2>5, ClosedRecord DEF SameBuffer
  <2>7. /\ response \in XsdoResponse /\ response.cmd = "data" /\ response.last = last
        /\ response.tog = r.tog /\ response.n = k
    BY <1>3, <2>3, <2>4, Toggle, Responses DEF XsdoResponse
  <2> HIDE DEF y, response
  <2>8. Inside(x, e.touched)
    <3>1. InOrder(x) => x.at + x.size <= x.bufsize
      BY <1>1 DEF InOrder
    <3>2. InOrder(x) => \A i \in x.at .. x.at + k - 1 : i \in 0 .. x.bufsize - 1
      BY <1>1, <2>3, <3>1
    <3> QED
      BY <2>2, <3>2 DEF Inside
  <2>9. ~last /\ InOrder(x) => InOrder(y)
    BY <1>1, <2>3, <2>6 DEF InOrder, SameBuffer
  <2>10. Served(x, r, e, k, last)
    BY <1>3, <2>2, <2>3, <2>6, <2>8, <2>9 DEF Served
  <2> QED
    BY <2>2, <2>4, <2>6, <2>7, <2>10 DEF Given
<1> QED
  BY <1>2, <1>3

(* Whatever is requested, one of the four happens.                         *)
LEMMA Outcomes ==
  ASSUME NEW x \in XsdoRecord, NEW r \in XsdoRequest
  PROVE  LET e == Handled(x, r)
         IN /\ e.rec \in XsdoRecord /\ e.response \in XsdoResponse
            /\ Silent(x, r, e) \/ Failed(x, r, e) \/ Taken(x, r, e) \/ Given(x, r, e)
<1> DEFINE e == Handled(x, r)
<1>1. CASE r.cmd = "abort"
  <2>1. e = Effect(Closed(x), NoResponse, {})
    BY <1>1 DEF Handled
  <2> QED
    BY <1>1, <2>1, ClosedRecord, Responses DEF Silent, Effect
<1>2. CASE r.cmd = "unknown"
  <2>1. e = Fail(x, "UNKNOWN_COMMAND")
    BY <1>2 DEF Handled
  <2> QED
    BY <2>1, Fails DEF AbortCodes
<1>3. CASE r.cmd \notin {"abort", "unknown"} /\ x.state \in Downloads
  <2>1. e = Download(x, r)
    BY <1>3 DEF Handled, Downloads
  <2> QED
    BY <1>3, <2>1, Downloaded
<1>4. CASE r.cmd \notin {"abort", "unknown"} /\ x.state = "READ"
  <2>1. e = Upload(x, r)
    BY <1>4 DEF Handled, Downloads
  <2> QED
    BY <1>4, <2>1, Uploaded
<1>5. CASE r.cmd \notin {"abort", "unknown"} /\ ~Running(x)
  <2>1. e = Effect(x, NoResponse, {})
    BY <1>5 DEF Handled, Running
  <2>2. e.rec = x /\ e.response = NoResponse /\ e.touched = {}
    BY <2>1 DEF Effect
  <2>3. x = [x EXCEPT !.state = x.state]
    BY DEF XsdoRecord
  <2> QED
    BY <1>5, <2>2, <2>3, Responses DEF Silent
<1> QED
  BY <1>1, <1>2, <1>3, <1>4, <1>5 DEF Running

-----------------------------------------------------------------------------
(* The inductive invariant: what holds of a record x that was first at the *)
(* start, and of the device's view d of the transfer.                      *)
InStep(x, first, d) ==
  /\ Running(x) => x.state = first.state
  /\ d.open /\ ~d.missed => Running(x)
InSize(x, first, d) ==
  /\ SameBuffer(first, x)
  /\ d.bytes + x.size <= first.size
  /\ (d.open \/ Running(x)) /\ ~d.missed => d.bytes + x.size = first.size
  /\ Running(x) /\ ~(x.app /\ x.state \in Downloads) =>
       x.at = first.at + (first.size - x.size)
  /\ Running(x) /\ InOrder(first) => InOrder(x)
InToggle(x, first, d) ==
  /\ Running(x) => Bit(0, x.tog) # d.tog
  /\ first.tog \in {{}, {0, 4}} => x.tog \in {{}, {0, 4}}
InvOf(x, first, d) == InStep(x, first, d) /\ InSize(x, first, d) /\ InToggle(x, first, d)

(* And of the last request: to the record that was first at the start and  *)
(* is x now; the device's view is d, and tog was its toggle bit before.    *)
AnswerOf(x, first, d, r, response, touched, tog) ==
  /\ response.last /\ ~d.missed => d.bytes + x.size = first.size
  /\ response.last => x.size = 0
  /\ InOrder(first) => touched \subseteq 0 .. first.bufsize - 1
  /\ response.cmd \in {"confirm", "data"} =>
       /\ r.tog # tog
       /\ first.tog \in {{}, {0, 4}} => response.tog = r.tog
  /\ response.cmd # "none" =>
       (LastFlag(response) <=> ~Running(x) /\ ~(response.cmd = "confirm" /\ r.last))

(* What the device sees of a request, for each of the four outcomes.       *)
LEMMA Views ==
  ASSUME NEW d \in DeviceRecord, NEW r \in XsdoRequest, NEW response \in XsdoResponse,
         NEW arrives \in BOOLEAN
  PROVE  LET g == Seen(d, r, response, arrives)
         IN /\ g \in DeviceRecord
            /\ g.missed = (d.missed \/ ~arrives)
            /\ g.open = (d.open /\ ~(arrives /\ Ends(r, response)))
            /\ g.unheard = d.unheard
            /\ response.cmd \notin {"confirm", "data"} => g.bytes = d.bytes /\ g.tog = d.tog
            /\ response.cmd \in {"confirm", "data"} => g.tog = r.tog
            /\ response.cmd = "confirm" => g.bytes = d.bytes + (IF arrives THEN r.n ELSE 0)
            /\ response.cmd = "data" => g.bytes = d.bytes + (IF arrives THEN response.n ELSE 0)
<1> DEFINE g == Seen(d, r, response, arrives)
           more == CASE arrives /\ response.cmd = "confirm" -> r.n
                     [] arrives /\ response.cmd = "data" -> response.n
                     [] OTHER -> 0
           tog == IF response.cmd \in {"confirm", "data"} THEN r.tog ELSE d.tog
           open == d.open /\ ~(arrives /\ Ends(r, response))
<1>1. /\ d.bytes \in Nat /\ d.tog \in {-1, 0, 1} /\ d.open \in BOOLEAN /\ d.missed \in BOOLEAN
      /\ d.unheard \in BOOLEAN
      /\ r.n \in Nat /\ response.n \in Nat /\ r.tog \in {0, 1}
  BY DEF DeviceRecord, XsdoRequest, XsdoResponse
<1>2. /\ g.bytes = d.bytes + more /\ g.tog = tog /\ g.open = open
      /\ g.missed = (d.missed \/ ~arrives) /\ g.unheard = d.unheard
      /\ g = [open |-> g.open, bytes |-> g.bytes, tog |-> g.tog, missed |-> g.missed,
              unheard |-> g.unheard]
  BY DEF Seen
<1>3. /\ response.cmd = "confirm" => more = IF arrives THEN r.n ELSE 0
      /\ response.cmd = "data" => more = IF arrives THEN response.n ELSE 0
      /\ response.cmd \notin {"confirm", "data"} => more = 0
      /\ more \in Nat
  BY <1>1
<1> HIDE DEF g, more
<1>4. tog \in {-1, 0, 1} /\ open \in BOOLEAN /\ (d.missed \/ ~arrives) \in BOOLEAN
  BY <1>1
<1>5. /\ g.bytes \in Nat /\ g.tog \in {-1, 0, 1} /\ g.open \in BOOLEAN
      /\ g.missed \in BOOLEAN /\ g.unheard \in BOOLEAN
  BY <1>1, <1>2, <1>3, <1>4
<1>6. g \in DeviceRecord
  BY <1>2, <1>5 DEF DeviceRecord
<1>7. response.cmd \notin {"confirm", "data"} => g.bytes = d.bytes /\ g.tog = d.tog
  BY <1>1, <1>2, <1>3
<1>8. response.cmd \in {"confirm", "data"} => g.tog = r.tog
  BY <1>2
<1> QED
  BY <1>2, <1>3, <1>6, <1>7, <1>8 DEF g

LEMMA Requested ==
  ASSUME NEW x \in XsdoRecord, NEW first \in XsdoRecord, NEW d \in DeviceRecord,
         NEW r \in XsdoRequest, NEW arrives \in BOOLEAN,
         InvOf(x, first, d), r.cmd = "abort" => ~d.open
  PROVE  LET e == Handled(x, r)
             g == Seen(d, r, e.response, arrives)
         IN /\ InvOf(e.rec, first, g)
            /\ g.open => d.open
            /\ Running(e.rec) => /\ Running(x) /\ r.cmd # "abort"
                                 /\ d.open => g.open
                                 /\ d.unheard => g.unheard
            /\ AnswerOf(e.rec, first, g, r, e.response, e.touched, d.tog)
<1> DEFINE e == Handled(x, r)
           y == e.rec
           g == Seen(d, r, e.response, arrives)
<1>1. /\ y \in XsdoRecord /\ e.response \in XsdoResponse
      /\ Silent(x, r, e) \/ Failed(x, r, e) \/ Taken(x, r, e) \/ Given(x, r, e)
  BY Outcomes
<1>2. /\ g \in DeviceRecord
      /\ g.missed = (d.missed \/ ~arrives)
      /\ g.open = (d.open /\ ~(arrives /\ Ends(r, e.response)))
      /\ g.unheard = d.unheard
      /\ e.response.cmd \notin {"confirm", "data"} => g.bytes = d.bytes /\ g.tog = d.tog
      /\ e.response.cmd \in {"confirm", "data"} => g.tog = r.tog
      /\ e.response.cmd = "confirm" => g.bytes = d.bytes + (IF arrives THEN r.n ELSE 0)
      /\ e.response.cmd = "data" =>
           g.bytes = d.bytes + (IF arrives THEN e.response.n ELSE 0)
  BY <1>1, Views
<1>3. InStep(x, first, d) /\ InSize(x, first, d) /\ InToggle(x, first, d)
  BY DEF InvOf
<1>4. /\ x.size \in Nat /\ y.size \in Nat /\ first.size \in Nat /\ d.bytes \in Nat
      /\ g.bytes \in Nat /\ first.at \in Nat /\ x.at \in Nat /\ r.n \in Nat
      /\ e.response.n \in Nat /\ d.missed \in BOOLEAN /\ d.open \in BOOLEAN
      /\ r.last \in BOOLEAN /\ e.response.last \in BOOLEAN
  BY <1>1, <1>2 DEF XsdoRecord, DeviceRecord, XsdoRequest, XsdoResponse
<1> HIDE DEF g, e
<1>5. CASE Silent(x, r, e)
  <2>1. /\ e.response.cmd = "none" /\ e.response.last = FALSE /\ e.touched = {}
        /\ ~Running(y) /\ SameBuffer(x, y) /\ y.size = x.size /\ y.tog = x.tog
        /\ Running(x) => r.cmd = "abort"
    BY <1>1, <1>5, Responses DEF Silent, XsdoRecord, SameBuffer
  <2>2. InStep(y, first, g)
    BY <1>2, <1>3, <2>1 DEF InStep
  <2>3. InSize(y, first, g)
    BY <1>2, <1>3, <1>4, <2>1 DEF InSize, SameBuffer
  <2>4. InToggle(y, first, g)
    BY <1>3, <2>1 DEF InToggle
  <2>5. AnswerOf(y, first, g, r, e.response, e.touched, d.tog)
    BY <2>1 DEF AnswerOf
  <2> QED
    BY <1>2, <2>1, <2>2, <2>3, <2>4, <2>5 DEF InvOf, g, e
<1>6. CASE Failed(x, r, e)
  <2>1. /\ e.response.cmd = "abort" /\ ~e.response.last
        /\ SameBuffer(x, y) /\ y.tog = x.tog /\ y.size <= x.size /\ ~Running(y)
        /\ IF Running(x) THEN Inside(x, e.touched) ELSE e.touched = {}
    BY <1>6 DEF Failed
  <2>2. Ends(r, e.response)
    BY <2>1 DEF Ends
  <2>3. InStep(y, first, g)
    BY <1>2, <2>1, <2>2 DEF InStep
  <2>4. InSize(y, first, g)
    BY <1>2, <1>3, <1>4, <2>1, <2>2 DEF InSize, SameBuffer
  <2>5. InToggle(y, first, g)
    BY <1>3, <2>1 DEF InToggle
  <2>6. InOrder(first) => e.touched \subseteq 0 .. first.bufsize - 1
    BY <1>3, <2>1 DEF InSize, Inside, SameBuffer
  <2>7. AnswerOf(y, first, g, r, e.response, e.touched, d.tog)
    BY <2>1, <2>6 DEF AnswerOf, LastFlag
  <2> QED
    BY <1>2, <2>1, <2>3, <2>4, <2>5, <2>7 DEF InvOf, g, e
<1>7. ASSUME NEW n \in Nat, NEW over \in BOOLEAN, Served(x, r, e, n, over), Running(x),
             e.response.cmd \in {"confirm", "data"},
             Ends(r, e.response) = over,
             g.bytes = d.bytes + (IF arrives THEN n ELSE 0)
      PROVE  /\ InvOf(y, first, g)
             /\ Running(y) = ~over
             /\ ~g.missed => g.bytes + y.size = first.size
             /\ InOrder(first) => e.touched \subseteq 0 .. first.bufsize - 1
             /\ r.tog # d.tog
             /\ Running(y) => r.cmd # "abort" /\ g.open = d.open
  <2>1. /\ r.tog = Bit(0, x.tog) /\ r.cmd # "abort"
        /\ n <= x.size /\ y.size = x.size - n
        /\ y.tog = Flip(x.tog) /\ SameBuffer(x, y)
        /\ y.state = IF over THEN "NONE" ELSE x.state
        /\ ~(x.app /\ x.state \in Downloads) => y.at = x.at + n
        /\ Inside(x, e.touched)
        /\ ~over /\ InOrder(x) => InOrder(y)
    BY <1>7 DEF Served
  <2>2. x.state = first.state
    BY <1>3, <1>7 DEF InStep
  <2>3. Running(y) = ~over
    BY <1>7, <2>1 DEF Running, Downloads
  <2>4. InStep(y, first, g)
    BY <1>2, <1>7, <2>1, <2>2, <2>3 DEF InStep
  <2>5. ~g.missed => g.bytes + y.size = first.size
    <3>1. ~g.missed => arrives /\ ~d.missed
      BY <1>2
    <3>2. ~d.missed => d.bytes + x.size = first.size
      BY <1>3, <1>7 DEF InSize
    <3>3. arrives => g.bytes = d.bytes + n
      BY <1>7
    <3> QED
      BY <1>4, <2>1, <3>1, <3>2, <3>3
  <2>6. InSize(y, first, g)
    <3>1. g.bytes + y.size <= first.size
      BY <1>3, <1>4, <1>7, <2>1 DEF InSize
    <3>2. ~over /\ ~(y.app /\ y.state \in Downloads) => y.at = first.at + (first.size - y.size)
      BY <1>3, <1>4, <1>7, <2>1, <2>2 DEF InSize, SameBuffer
    <3>3. ~over /\ InOrder(first) => InOrder(y)
      BY <1>3, <1>7, <2>1 DEF InSize
    <3>4. SameBuffer(first, y)
      BY <1>3, <2>1 DEF InSize, SameBuffer
    <3> QED
      BY <2>3, <2>5, <3>1, <3>2, <3>3, <3>4 DEF InSize
  <2>7. InToggle(y, first, g)
    <3>1. g.tog = Bit(0, x.tog) /\ Bit(0, y.tog) = 1 - Bit(0, x.tog) /\ Bit(0, x.tog) \in {0, 1}
      BY <1>2, <1>7, <2>1, Toggle
    <3>2. x.tog \in {{}, {0, 4}} => y.tog \in {{}, {0, 4}}
      BY <2>1, Toggle
    <3> QED
      BY <1>3, <3>1, <3>2 DEF InToggle
  <2>8. InOrder(first) => e.touched \subseteq 0 .. first.bufsize - 1
    BY <1>3, <1>7, <2>1 DEF InSize, Inside, SameBuffer
  <2>9. r.tog # d.tog
    BY <1>3, <1>7, <2>1 DEF InToggle
  <2>10. Running(y) => r.cmd # "abort" /\ g.open = d.open
    BY <1>2, <1>4, <1>7, <2>1, <2>3
  <2> QED
    BY <2>3, <2>4, <2>5, <2>6, <2>7, <2>8, <2>9, <2>10 DEF InvOf
<1>8. first.tog \in {{}, {0, 4}} => Bit(0, x.tog) = Bit(4, x.tog)
  BY <1>3, Toggle DEF InToggle
<1>9. CASE Taken(x, r, e)
  <2>1. /\ Running(x) /\ e.response.cmd = "confirm" /\ ~e.response.last
        /\ e.response.tog = Bit(4, x.tog) /\ Served(x, r, e, r.n, r.last)
        /\ r.tog = Bit(0, x.tog)
    BY <1>9 DEF Taken, Running, Served
  <2>2. Ends(r, e.response) = r.last
    BY <1>4, <2>1 DEF Ends
  <2>3. /\ InvOf(y, first, g)
        /\ Running(y) = ~r.last
        /\ InOrder(first) => e.touched \subseteq 0 .. first.bufsize - 1
        /\ r.tog # d.tog
        /\ Running(y) => r.cmd # "abort" /\ g.open = d.open
    BY <1>2, <1>4, <1>7, <2>1, <2>2
  <2>4. AnswerOf(y, first, g, r, e.response, e.touched, d.tog)
    BY <1>4, <1>8, <2>1, <2>3 DEF AnswerOf, LastFlag
  <2>5. g.open => d.open
    BY <1>2
  <2> QED
    BY <1>2, <2>1, <2>3, <2>4, <2>5 DEF g, e
<1>10. CASE Given(x, r, e)
  <2>1. /\ Running(x) /\ e.response.cmd = "data" /\ e.response.last = (y.size = 0)
        /\ e.response.tog = r.tog /\ Served(x, r, e, e.response.n, e.response.last)
    BY <1>10 DEF Given, Running
  <2>2. Ends(r, e.response) = e.response.last
    BY <1>4, <2>1 DEF Ends
  <2>3. /\ InvOf(y, first, g)
        /\ Running(y) = ~e.response.last
        /\ ~g.missed => g.bytes + y.size = first.size
        /\ InOrder(first) => e.touched \subseteq 0 .. first.bufsize - 1
        /\ r.tog # d.tog
        /\ Running(y) => r.cmd # "abort" /\ g.open = d.open
    BY <1>2, <1>4, <1>7, <2>1, <2>2
  <2>4. AnswerOf(y, first, g, r, e.response, e.touched, d.tog)
    BY <1>4, <2>1, <2>3 DEF AnswerOf, LastFlag
  <2>5. g.open => d.open
    BY <1>2
  <2> QED
    BY <1>2, <2>1, <2>3, <2>4, <2>5 DEF g, e
<1> QED
  BY <1>1, <1>5, <1>6, <1>9, <1>10

-----------------------------------------------------------------------------
(* The invariant of all servers, and that each step of a program keeps it. *)
XsdoTypeOK ==
  /\ mXSDO \in [ServerIndex -> XsdoRecord]
  /\ begin \in [ServerIndex -> XsdoRecord]
  /\ device \in [ServerIndex -> DeviceRecord]
  /\ handled.request \in XsdoRequest /\ handled.response \in XsdoResponse
  /\ handled.server \in ServerIndex \union {-1}

ServersInv == \A s \in ServerIndex : InvOf(mXSDO[s], begin[s], device[s])

HandledInv ==
  /\ handled.server \notin ServerIndex => handled.response = NoResponse
  /\ handled.server \in ServerIndex =>
       /\ AnswerOf(mXSDO[handled.server], begin[handled.server], device[handled.server],
                   handled.request, handled.response, handled.touched, handled.before)
       /\ handled.flag = LastFlag(handled.response)

XsdoInv == XsdoTypeOK /\ ServersInv /\ HandledInv

LEMMA Nothing ==
  /\ NothingHandled.request \in XsdoRequest /\ NothingHandled.response = NoResponse
  /\ NothingHandled.server = -1 /\ -1 \notin ServerIndex
<1>1. -1 \notin ServerIndex
  BY XsdoAssumption DEF ServerIndex
<1> QED
  BY <1>1 DEF NothingHandled, XsdoRequest

LEMMA XsdoFirst == XsdoInit => XsdoInv
<1> SUFFICES ASSUME XsdoInit PROVE XsdoInv
  OBVIOUS
<1>1. mXSDO \in [ServerIndex -> XsdoRecord] /\ begin = mXSDO /\ handled = NothingHandled
  BY XsdoAssumption DEF XsdoInit
<1>2. ASSUME NEW s \in ServerIndex
      PROVE  /\ mXSDO[s] \in XsdoRecord
             /\ device[s] \in DeviceRecord
             /\ device[s].bytes = 0 /\ device[s].tog = -1
             /\ device[s].open /\ ~device[s].missed => Running(mXSDO[s])
  <2>1. PICK open \in Opened :
          device[s] = [open |-> s \in open, bytes |-> 0, tog |-> -1,
                       missed |-> s \in open /\ ~Running(mXSDO[s]),
                       unheard |-> s \notin open /\ Running(mXSDO[s])]
    BY DEF XsdoInit
  <2> DEFINE missed == s \in open /\ ~Running(mXSDO[s])
             unheard == s \notin open /\ Running(mXSDO[s])
             opened == s \in open
  <2>2. missed \in BOOLEAN /\ unheard \in BOOLEAN /\ opened \in BOOLEAN
    BY DEF Running
  <2>3. opened /\ ~missed => Running(mXSDO[s])
    OBVIOUS
  <2> HIDE DEF missed, unheard, opened
  <2>4. device[s] = [open |-> opened, bytes |-> 0, tog |-> -1, missed |-> missed,
                     unheard |-> unheard]
    BY <2>1 DEF opened, missed, unheard
  <2>5. device[s] \in DeviceRecord
    BY <2>2, <2>4 DEF DeviceRecord
  <2> QED
    BY <1>1, <2>3, <2>4, <2>5
<1>3. XsdoTypeOK
  <2>1. device \in [ServerIndex -> DeviceRecord]
    BY <1>2 DEF XsdoInit
  <2> QED
    BY <1>1, <2>1, Nothing, Responses DEF XsdoTypeOK
<1>4. ServersInv
  <2> SUFFICES ASSUME NEW s \in ServerIndex
               PROVE  InvOf(mXSDO[s], mXSDO[s], device[s])
    BY <1>1 DEF ServersInv
  <2>1. /\ mXSDO[s].size \in Nat /\ mXSDO[s].at \in Nat
        /\ Bit(0, mXSDO[s].tog) \in {0, 1}
    BY <1>2, Toggle DEF XsdoRecord
  <2> QED
    BY <1>2, <2>1 DEF InvOf, InStep, InSize, InToggle, SameBuffer
<1>5. HandledInv
  BY <1>1, Nothing DEF HandledInv
<1> QED
  BY <1>3, <1>4, <1>5 DEF XsdoInv

LEMMA XsdoKept ==
  ASSUME XsdoInv, XsdoStep \/ UNCHANGED xsdoVars
  PROVE  XsdoInv'
<1> USE DEF XsdoInv
<1>1. CASE UNCHANGED xsdoVars
  BY <1>1 DEF xsdoVars, XsdoTypeOK, ServersInv, HandledInv
<1>2. CASE /\ NothingRequested
           /\ device' \in [ServerIndex -> DeviceRecord]
           /\ \A s \in ServerIndex : NoLonger(device[s], device'[s])
  <2>1. XsdoTypeOK'
    BY <1>2, Nothing, Responses DEF NothingRequested, XsdoTypeOK
  <2>2. ServersInv'
    <3> SUFFICES ASSUME NEW s \in ServerIndex
                 PROVE  InvOf(mXSDO[s], begin[s], device'[s])
      BY <1>2 DEF NothingRequested, ServersInv
    <3>1. InvOf(mXSDO[s], begin[s], device[s]) /\ NoLonger(device[s], device'[s])
      BY <1>2 DEF ServersInv
    <3> QED
      BY <3>1 DEF InvOf, InStep, InSize, InToggle, NoLonger
  <2>3. HandledInv'
    BY <1>2, Nothing DEF NothingRequested, HandledInv
  <2> QED
    BY <2>1, <2>2, <2>3
<1>3. ASSUME NEW s \in ServerIndex, NEW r \in XsdoRequest, NEW arrives \in BOOLEAN,
             HandleRequest(s, r, arrives), r.cmd = "abort" => ~device[s].open
      PROVE  XsdoInv'
  <2> DEFINE e == Handled(mXSDO[s], r)
             g == Seen(device[s], r, e.response, arrives)
  <2>1. /\ mXSDO' = [mXSDO EXCEPT ![s] = e.rec]
        /\ device' = [device EXCEPT ![s] = g]
        /\ handled' = [server |-> s, request |-> r, response |-> e.response,
                       flag |-> LastFlag(e.response), touched |-> e.touched,
                       before |-> device[s].tog]
        /\ begin' = begin
    BY <1>3 DEF HandleRequest
  <2>2. /\ mXSDO[s] \in XsdoRecord /\ begin[s] \in XsdoRecord /\ device[s] \in DeviceRecord
        /\ InvOf(mXSDO[s], begin[s], device[s])
    BY DEF XsdoTypeOK, ServersInv
  <2>3. e.rec \in XsdoRecord /\ e.response \in XsdoResponse
    BY <2>2, Outcomes
  <2>4. g \in DeviceRecord
    BY <2>2, <2>3, Views
  <2>5. /\ InvOf(e.rec, begin[s], g)
        /\ AnswerOf(e.rec, begin[s], g, r, e.response, e.touched, device[s].tog)
    BY <1>3, <2>2, Requested
  <2> HIDE DEF e, g
  <2>6. mXSDO'[s] = e.rec /\ device'[s] = g
    BY <2>1 DEF XsdoTypeOK
  <2>7. XsdoTypeOK'
    BY <2>1, <2>3, <2>4 DEF XsdoTypeOK
  <2>8. ServersInv'
    BY <2>1, <2>5 DEF ServersInv, XsdoTypeOK
  <2>9. HandledInv'
    BY <2>1, <2>5, <2>6 DEF HandledInv
  <2> QED
    BY <2>7, <2>8, <2>9
<1>4. ASSUME NEW s \in Int, s \notin ServerIndex, NEW r \in XsdoRequest,
             NEW arrives \in BOOLEAN, HandleRequest(s, r, arrives)
      PROVE  XsdoInv'
  <2>1. NothingRequested /\ device' = device
    BY <1>4 DEF HandleRequest, NothingServed
  <2>2. device' \in [ServerIndex -> DeviceRecord]
    BY <2>1 DEF XsdoTypeOK
  <2>3. \A t \in ServerIndex : NoLonger(device[t], device'[t])
    BY <2>1 DEF NoLonger
  <2> QED
    BY <1>2, <2>1, <2>2, <2>3
<1> QED
  BY <1>1, <1>2, <1>3, <1>4 DEF XsdoStep

(* The properties follow.                                                  *)
LEMMA InvBytes == XsdoInv => BytesAgree
<1> SUFFICES ASSUME XsdoInv, NEW s \in ServerIndex
             PROVE  LET x == mXSDO[s]  first == begin[s]  d == device[s]
                        ended == handled.server = s /\ handled.response.last
                    IN /\ d.bytes + x.size <= first.size
                       /\ ~d.missed /\ (d.open \/ ended) =>
                            d.bytes + x.size = first.size /\ (ended => x.size = 0)
                       /\ Running(x) /\ ~(x.app /\ x.state \in Downloads) =>
                            x.at = first.at + (first.size - x.size)
  BY DEF BytesAgree
<1>1. InvOf(mXSDO[s], begin[s], device[s])
  BY DEF XsdoInv, ServersInv
<1>2. CASE handled.server = s
  <2>1. AnswerOf(mXSDO[s], begin[s], device[s],
                 handled.request, handled.response, handled.touched, handled.before)
    BY <1>2 DEF XsdoInv, HandledInv
  <2> QED
    BY <1>1, <2>1 DEF InvOf, InSize, AnswerOf
<1>3. CASE handled.server # s
  BY <1>1, <1>3 DEF InvOf, InSize
<1> QED
  BY <1>2, <1>3

LEMMA InvBuffer == XsdoInv => StaysInBuffer
  BY DEF XsdoInv, HandledInv, AnswerOf, StaysInBuffer

LEMMA InvReplay == XsdoInv => NoReplay
  BY Responses DEF XsdoInv, HandledInv, AnswerOf, NoReplay, Answered

LEMMA InvEchoes == XsdoInv => EchoesToggle
  BY Responses DEF XsdoInv, HandledInv, AnswerOf, EchoesToggle, Answered

LEMMA InvLast == XsdoInv => LastFlagTells
  BY Responses DEF XsdoInv, HandledInv, AnswerOf, LastFlagTells

-----------------------------------------------------------------------------
(***************************************************************************)
(* The blocking calls, and the servers in the program.                     *)
(***************************************************************************)

Letters == {"R", "W", "U", "S"}
CallRecord == [letter : Letters, number : Nat]
AnswerRecord == [letter : Letters, to : CallRecord, error : BOOLEAN, value : {NoValue}]
Packet == AnswerRecord \union Unasked

(* The requests and the answers under way, dev and host, when the calls ks *)
(* have been made and the answer to the n-th was used last: those to later *)
(* calls only, in the order of the calls.                                  *)
MadeAfter(n, ks, q) == q.number \in n + 1 .. Len(ks) /\ q.letter = ks[q.number]
LineInv(dev, host, n, ks) ==
  /\ dev \in Seq(CallRecord) /\ host \in Seq(Packet)
  /\ \A i \in 1 .. Len(dev) : MadeAfter(n, ks, dev[i])
  /\ \A i \in 1 .. Len(host) : host[i] \in AnswerRecord =>
       MadeAfter(n, ks, host[i].to) /\ host[i].letter = host[i].to.letter
  /\ \A i, j \in 1 .. Len(dev) : i < j => dev[i].number < dev[j].number
  /\ \A i, j \in 1 .. Len(host) :
       i < j /\ host[i] \in AnswerRecord /\ host[j] \in AnswerRecord =>
         host[i].to.number < host[j].to.number
  /\ \A i \in 1 .. Len(host), j \in 1 .. Len(dev) :
       host[i] \in AnswerRecord => host[i].to.number < dev[j].number

Results == {"none", "ERROR_NOERROR", "ERROR_TX", "ERROR_NORESPONSE", "ERROR_NORESOURCES",
            "ERROR_WRONGRESPONSE", "ERROR_NODEERROR"}

CallInv ==
  /\ kinds \in Seq(Letters) /\ of \in 0 .. Len(kinds)
  /\ port \in BOOLEAN /\ result \in Results /\ ResponseReceived \in BOOLEAN
  /\ call # NoCall =>
       /\ call \in CallRecord /\ MadeAfter(Len(kinds) - 1, kinds, call)
       /\ ~ResponseReceived /\ result = "none"
  /\ PacketsFit

(* What only one side still has open is being aborted, or the abort was    *)
(* lost; and what is being aborted the device has not open any more.       *)
SidesInv ==
  \A s \in ServerIndex :
    /\ s \in AbortsUnderWay(toHost) => ~device[s].open
    /\ Running(mXSDO[s]) /\ ~device[s].open =>
         s \in AbortsUnderWay(toHost) \/ device[s].unheard

HostInv == XsdoInv /\ LineInv(toDevice, toHost, of, kinds) /\ CallInv /\ SidesInv

-----------------------------------------------------------------------------
(* Answers are told from what the device sends unasked.                    *)
LEMMA AnswersTold ==
  ASSUME NEW p \in Packet
  PROVE  /\ IsAnswer(p) <=> p \in AnswerRecord
         /\ p.letter = "F" => p.server \in Int /\ p.request \in XsdoRequest
<1>1. CASE p \in AnswerRecord
  BY <1>1 DEF AnswerRecord, IsAnswer, Letters
<1>2. CASE p \in Unasked
  <2>1. p \in [letter : {"D", "empty"}]
             \/ p \in [letter : {"F"}, server : 0 .. 255, request : XsdoRequest]
    BY <1>2, HostAssumption
  <2> QED
    BY <2>1 DEF AnswerRecord, IsAnswer, Letters
<1> QED
  BY <1>1, <1>2 DEF Packet

-----------------------------------------------------------------------------
(* The aborts under way, when a packet comes or goes.                      *)
LEMMA AbortsChange ==
  ASSUME NEW host \in Seq(Packet)
  PROVE  /\ AbortsUnderWay(<<>>) = {}
         /\ \A p \in Packet : AbortsUnderWay(Append(host, p)) =
              AbortsUnderWay(host) \union {s \in ServerIndex : Aborts(p, s)}
         /\ host # <<>> =>
              /\ AbortsUnderWay(Tail(host)) \subseteq AbortsUnderWay(host)
              /\ AbortsUnderWay(host) =
                   AbortsUnderWay(Tail(host)) \union {s \in ServerIndex : Aborts(Head(host), s)}
<1>1. AbortsUnderWay(<<>>) = {}
  BY DEF AbortsUnderWay
<1>2. ASSUME NEW p \in Packet
      PROVE  AbortsUnderWay(Append(host, p)) =
               AbortsUnderWay(host) \union {s \in ServerIndex : Aborts(p, s)}
  <2> DEFINE new == Append(host, p)
  <2>1. /\ new \in Seq(Packet) /\ Len(host) \in Nat /\ Len(new) = Len(host) + 1
        /\ \A i \in 1 .. Len(host) : new[i] = host[i]
        /\ new[Len(host) + 1] = p
    BY Adding
  <2>2. DOMAIN host = 1 .. Len(host) /\ DOMAIN new = 1 .. Len(new)
    BY <2>1, LenProperties
  <2> HIDE DEF new
  <2>3. \A i \in 1 .. Len(new) : \/ i \in 1 .. Len(host) /\ new[i] = host[i]
                                 \/ new[i] = p
    BY <2>1
  <2>4. Len(new) \in 1 .. Len(new) /\ new[Len(new)] = p
        /\ \A i \in 1 .. Len(host) : i \in 1 .. Len(new)
    BY <2>1
  <2>5. ASSUME NEW s \in ServerIndex
        PROVE  (\E i \in 1 .. Len(new) : Aborts(new[i], s))
                 <=> (\E i \in 1 .. Len(host) : Aborts(host[i], s)) \/ Aborts(p, s)
    BY <2>1, <2>3, <2>4
  <2>6. AbortsUnderWay(new) = AbortsUnderWay(host) \union {s \in ServerIndex : Aborts(p, s)}
    BY <2>2, <2>5 DEF AbortsUnderWay
  <2> QED
    BY <2>6 DEF new
<1>3. ASSUME host # <<>>
      PROVE  AbortsUnderWay(host) =
               AbortsUnderWay(Tail(host)) \union {s \in ServerIndex : Aborts(Head(host), s)}
  <2> DEFINE rest == Tail(host)
             p == Head(host)
  <2>1. /\ p = host[1] /\ Len(host) \in Nat \ {0}
        /\ rest \in Seq(Packet) /\ Len(rest) = Len(host) - 1
        /\ \A i \in 1 .. Len(rest) : i + 1 \in 1 .. Len(host) /\ rest[i] = host[i + 1]
    BY <1>3, Taking
  <2>2. DOMAIN host = 1 .. Len(host) /\ DOMAIN rest = 1 .. Len(rest)
    BY <2>1, LenProperties
  <2> HIDE DEF rest, p
  <2>3. \A i \in 1 .. Len(host) : i = 1 \/ (i - 1 \in 1 .. Len(rest) /\ rest[i - 1] = host[i])
    <3> SUFFICES ASSUME NEW i \in 1 .. Len(host), i # 1
                 PROVE  i - 1 \in 1 .. Len(rest) /\ rest[i - 1] = host[i]
      OBVIOUS
    <3>1. i - 1 \in 1 .. Len(rest) /\ (i - 1) + 1 = i
      BY <2>1
    <3> QED
      BY <2>1, <3>1
  <2>4. 1 \in 1 .. Len(host)
    BY <2>1
  <2>5. ASSUME NEW s \in ServerIndex
        PROVE  (\E i \in 1 .. Len(host) : Aborts(host[i], s))
                 <=> (\E i \in 1 .. Len(rest) : Aborts(rest[i], s)) \/ Aborts(p, s)
    <3>1. ASSUME NEW i \in 1 .. Len(host), Aborts(host[i], s)
          PROVE  (\E j \in 1 .. Len(rest) : Aborts(rest[j], s)) \/ Aborts(p, s)
      BY <2>1, <2>3, <3>1
    <3>2. ASSUME NEW i \in 1 .. Len(rest), Aborts(rest[i], s)
          PROVE  \E j \in 1 .. Len(host) : Aborts(host[j], s)
      BY <2>1, <3>2
    <3> QED
      BY <2>1, <2>4, <3>1, <3>2
  <2>6. AbortsUnderWay(host) = AbortsUnderWay(rest) \union {s \in ServerIndex : Aborts(p, s)}
    BY <2>2, <2>5 DEF AbortsUnderWay
  <2> QED
    BY <2>6 DEF rest, p
<1> QED
  BY <1>1, <1>2, <1>3

LEMMA AnswersAbortNothing == \A p \in AnswerRecord : {s \in ServerIndex : Aborts(p, s)} = {}
  BY DEF AnswerRecord, Letters, Aborts

(* The device's view after it has given up, and after an abort was lost.   *)
LEMMA ViewGivenUp ==
  ASSUME NEW d \in DeviceRecord, NEW sent \in BOOLEAN
  PROVE  LET g == GaveUp(d, sent)
         IN /\ g \in DeviceRecord /\ NoLonger(d, g) /\ ~g.open
            /\ sent \/ g.unheard
<1>1. /\ d.open \in BOOLEAN /\ d.unheard \in BOOLEAN /\ d.missed \in BOOLEAN
      /\ d.bytes \in Nat /\ d.tog \in {-1, 0, 1}
      /\ d = [open |-> d.open, bytes |-> d.bytes, tog |-> d.tog, missed |-> d.missed,
              unheard |-> d.unheard]
  BY DEF DeviceRecord
<1> DEFINE unheard == d.unheard \/ ~sent
<1>2. unheard \in BOOLEAN /\ (sent \/ unheard)
  BY <1>1
<1>3. GaveUp(d, sent) = [d EXCEPT !.open = FALSE, !.unheard = unheard]
  BY DEF GaveUp
<1> HIDE DEF unheard
<1>4. GaveUp(d, sent) = [open |-> FALSE, bytes |-> d.bytes, tog |-> d.tog,
                         missed |-> d.missed, unheard |-> unheard]
  BY <1>1, <1>3
<1> QED
  BY <1>1, <1>2, <1>4 DEF DeviceRecord, NoLonger

LEMMA ViewUnheard ==
  ASSUME NEW d \in DeviceRecord, NEW gone \in BOOLEAN
  PROVE  LET g == [d EXCEPT !.unheard = @ \/ gone]
         IN /\ g \in DeviceRecord /\ NoLonger(d, g)
            /\ g.open <=> d.open
            /\ d.unheard \/ gone => g.unheard
<1>1. /\ d.open \in BOOLEAN /\ d.unheard \in BOOLEAN /\ d.missed \in BOOLEAN
      /\ d.bytes \in Nat /\ d.tog \in {-1, 0, 1}
      /\ d = [open |-> d.open, bytes |-> d.bytes, tog |-> d.tog, missed |-> d.missed,
              unheard |-> d.unheard]
  BY DEF DeviceRecord
<1> DEFINE unheard == d.unheard \/ gone
<1>2. unheard \in BOOLEAN /\ (d.unheard \/ gone => unheard)
  BY <1>1
<1>3. [d EXCEPT !.unheard = @ \/ gone] =
        [open |-> d.open, bytes |-> d.bytes, tog |-> d.tog, missed |-> d.missed,
         unheard |-> unheard]
  BY <1>1
<1> HIDE DEF unheard
<1> QED
  BY <1>1, <1>2, <1>3 DEF DeviceRecord, NoLonger

-----------------------------------------------------------------------------
(* The steps of servers and device, each with the packets that come or go. *)

(* No server is asked, and no abort comes or goes.                         *)
LEMMA SidesSame ==
  ASSUME HostInv, NothingServed, AbortsUnderWay(toHost') = AbortsUnderWay(toHost)
  PROVE  XsdoStep /\ SidesInv'
<1>1. NothingRequested /\ UNCHANGED <<device, mXSDO>>
  BY DEF NothingServed, NothingRequested
<1>2. device' \in [ServerIndex -> DeviceRecord] /\ \A s \in ServerIndex : NoLonger(device[s], device'[s])
  BY <1>1 DEF HostInv, XsdoInv, XsdoTypeOK, NoLonger
<1>3. SidesInv'
  BY <1>1 DEF HostInv, SidesInv
<1> QED
  BY <1>1, <1>2, <1>3 DEF XsdoStep

(* Packets are lost.                                                       *)
LEMMA SidesUnheard ==
  ASSUME HostInv, Unheard, AbortsUnderWay(toHost') \subseteq AbortsUnderWay(toHost)
  PROVE  XsdoStep /\ SidesInv'
<1> DEFINE gone(s) == s \in AbortsUnderWay(toHost) \ AbortsUnderWay(toHost')
<1>1. NothingRequested /\ mXSDO' = mXSDO
  BY DEF Unheard, NothingRequested
<1>2. device' = [s \in ServerIndex |-> [device[s] EXCEPT !.unheard = @ \/ gone(s)]]
  BY DEF Unheard
<1>3. ASSUME NEW s \in ServerIndex
      PROVE  gone(s) \in BOOLEAN /\ device[s] \in DeviceRecord
  BY DEF HostInv, XsdoInv, XsdoTypeOK
<1>4. ASSUME NEW s \in ServerIndex
      PROVE  /\ device'[s] \in DeviceRecord /\ NoLonger(device[s], device'[s])
             /\ device'[s].open <=> device[s].open
             /\ device[s].unheard \/ gone(s) => device'[s].unheard
  <2> DEFINE b == gone(s)
  <2>1. b \in BOOLEAN /\ device[s] \in DeviceRecord
    BY <1>3
  <2>2. device'[s] = [device[s] EXCEPT !.unheard = @ \/ b]
    BY <1>2
  <2> HIDE DEF b
  <2>3. /\ device'[s] \in DeviceRecord /\ NoLonger(device[s], device'[s])
        /\ device'[s].open <=> device[s].open
        /\ device[s].unheard \/ b => device'[s].unheard
    BY <2>1, <2>2, ViewUnheard
  <2> QED
    BY <2>3 DEF b
<1>5. device' \in [ServerIndex -> DeviceRecord]
  BY <1>2, <1>4
<1>6. SidesInv'
  <2> SUFFICES ASSUME NEW s \in ServerIndex
               PROVE  /\ s \in AbortsUnderWay(toHost') => ~device'[s].open
                      /\ Running(mXSDO[s]) /\ ~device'[s].open =>
                           s \in AbortsUnderWay(toHost') \/ device'[s].unheard
    BY <1>1 DEF SidesInv
  <2>1. /\ s \in AbortsUnderWay(toHost) => ~device[s].open
        /\ Running(mXSDO[s]) /\ ~device[s].open =>
             s \in AbortsUnderWay(toHost) \/ device[s].unheard
    BY DEF HostInv, SidesInv
  <2> QED
    BY <1>4, <2>1
<1> QED
  BY <1>1, <1>4, <1>5, <1>6 DEF XsdoStep

(* The device sends something unasked; if it is an abort, it has given up. *)
LEMMA SidesPassed ==
  ASSUME HostInv, NEW p \in Unasked, Arrives(p), NothingRequested,
         device' = [s \in ServerIndex |->
                     IF Aborts(p, s) THEN GaveUp(device[s], port) ELSE device[s]]
  PROVE  XsdoStep /\ SidesInv'
<1>1. mXSDO' = mXSDO /\ port \in BOOLEAN /\ toHost \in Seq(Packet)
  BY DEF NothingRequested, HostInv, CallInv, LineInv
<1>2. AbortsUnderWay(toHost') = IF port
        THEN AbortsUnderWay(toHost) \union {s \in ServerIndex : Aborts(p, s)}
        ELSE AbortsUnderWay(toHost)
  <2> p \in Packet
    BY DEF Packet
  <2>1. CASE port
    <3>1. toHost' = Append(toHost, p)
      BY <2>1 DEF Arrives
    <3>2. AbortsUnderWay(toHost') = AbortsUnderWay(Append(toHost, p))
      BY <3>1
    <3> QED
      BY <1>1, <2>1, <3>2, AbortsChange
  <2>2. CASE ~port
    <3>1. toHost' = toHost
      BY <2>2 DEF Arrives
    <3> QED
      BY <2>2, <3>1
  <2> QED
    BY <2>1, <2>2
<1>3. ASSUME NEW s \in ServerIndex
      PROVE  /\ device'[s] \in DeviceRecord /\ NoLonger(device[s], device'[s])
             /\ Aborts(p, s) => ~device'[s].open /\ (port \/ device'[s].unheard)
             /\ ~Aborts(p, s) => device'[s] = device[s]
  <2>1. device[s] \in DeviceRecord
    BY DEF HostInv, XsdoInv, XsdoTypeOK
  <2>2. CASE Aborts(p, s)
    <3>1. device'[s] = GaveUp(device[s], port)
      BY <2>2
    <3> QED
      BY <1>1, <2>1, <2>2, <3>1, ViewGivenUp
  <2>3. CASE ~Aborts(p, s)
    <3>1. device'[s] = device[s]
      BY <2>3
    <3> QED
      BY <2>1, <2>3, <3>1 DEF NoLonger
  <2> QED
    BY <2>2, <2>3
<1>4. device' \in [ServerIndex -> DeviceRecord]
  BY <1>3
<1>5. SidesInv'
  <2> SUFFICES ASSUME NEW s \in ServerIndex
               PROVE  /\ s \in AbortsUnderWay(toHost') => ~device'[s].open
                      /\ Running(mXSDO[s]) /\ ~device'[s].open =>
                           s \in AbortsUnderWay(toHost') \/ device'[s].unheard
    BY <1>1 DEF SidesInv
  <2>1. /\ s \in AbortsUnderWay(toHost) => ~device[s].open
        /\ Running(mXSDO[s]) /\ ~device[s].open =>
             s \in AbortsUnderWay(toHost) \/ device[s].unheard
    BY DEF HostInv, SidesInv
  <2> QED
    BY <1>2, <1>3, <2>1
<1> QED
  BY <1>3, <1>4, <1>5 DEF XsdoStep

(* A request is served.                                                    *)
LEMMA SidesServed ==
  ASSUME HostInv, toHost # <<>>, toHost' = Tail(toHost), NEW arrives \in BOOLEAN,
         Head(toHost).letter = "F",
         HandleRequest(Head(toHost).server, Head(toHost).request, arrives)
  PROVE  XsdoStep /\ SidesInv'
<1> DEFINE p == Head(toHost)
           s == p.server
           r == p.request
<1>1. toHost \in Seq(Packet)
  BY DEF HostInv, LineInv
<1>2. p \in Packet
  BY <1>1, Taking
<1>3. s \in Int /\ r \in XsdoRequest
  BY <1>2, AnswersTold
<1>4. /\ AbortsUnderWay(toHost') \subseteq AbortsUnderWay(toHost)
      /\ AbortsUnderWay(toHost) =
           AbortsUnderWay(toHost') \union {t \in ServerIndex : Aborts(p, t)}
  BY <1>1, AbortsChange
<1>5. \A t : Aborts(p, t) <=> t = s /\ r.cmd = "abort"
  BY DEF Aborts
<1>6. HandleRequest(s, r, arrives)
  OBVIOUS
<1> HIDE DEF p, s, r
<1>7. CASE s \notin ServerIndex
  <2>1. NothingServed
    BY <1>6, <1>7 DEF HandleRequest
  <2>2. AbortsUnderWay(toHost') = AbortsUnderWay(toHost)
    BY <1>4, <1>5, <1>7
  <2> QED
    BY <2>1, <2>2, SidesSame
<1>8. CASE s \in ServerIndex
  <2> DEFINE e == Handled(mXSDO[s], r)
             g == Seen(device[s], r, e.response, arrives)
  <2>1. mXSDO' = [mXSDO EXCEPT ![s] = e.rec] /\ device' = [device EXCEPT ![s] = g]
    BY <1>6, <1>8 DEF HandleRequest
  <2>2. /\ mXSDO[s] \in XsdoRecord /\ begin[s] \in XsdoRecord /\ device[s] \in DeviceRecord
        /\ InvOf(mXSDO[s], begin[s], device[s])
        /\ mXSDO \in [ServerIndex -> XsdoRecord] /\ device \in [ServerIndex -> DeviceRecord]
    BY <1>8 DEF HostInv, XsdoInv, XsdoTypeOK, ServersInv
  <2>3. r.cmd = "abort" => ~device[s].open
    BY <1>4, <1>5, <1>8 DEF HostInv, SidesInv
  <2>4. /\ g.open => device[s].open
        /\ Running(e.rec) => /\ Running(mXSDO[s]) /\ r.cmd # "abort"
                             /\ device[s].open => g.open
                             /\ device[s].unheard => g.unheard
    BY <1>3, <2>2, <2>3, Requested
  <2> HIDE DEF e, g
  <2>5. XsdoStep
    BY <1>3, <1>6, <2>3 DEF XsdoStep
  <2>6. ASSUME NEW t \in ServerIndex
        PROVE  /\ t \in AbortsUnderWay(toHost') => ~device'[t].open
               /\ Running(mXSDO'[t]) /\ ~device'[t].open =>
                    t \in AbortsUnderWay(toHost') \/ device'[t].unheard
    <3>1. /\ t \in AbortsUnderWay(toHost) => ~device[t].open
          /\ Running(mXSDO[t]) /\ ~device[t].open =>
               t \in AbortsUnderWay(toHost) \/ device[t].unheard
      BY DEF HostInv, SidesInv
    <3>2. CASE t = s
      <4>1. mXSDO'[t] = e.rec /\ device'[t] = g
        BY <2>1, <2>2, <3>2
      <4>2. r.cmd # "abort" => (t \in AbortsUnderWay(toHost) <=> t \in AbortsUnderWay(toHost'))
        BY <1>4, <1>5
      <4> QED
        BY <1>4, <2>4, <3>1, <3>2, <4>1, <4>2
    <3>3. CASE t # s
      <4>1. mXSDO'[t] = mXSDO[t] /\ device'[t] = device[t]
        BY <2>1, <2>2, <3>3
      <4>2. t \in AbortsUnderWay(toHost) <=> t \in AbortsUnderWay(toHost')
        BY <1>4, <1>5, <3>3
      <4> QED
        BY <3>1, <4>1, <4>2
    <3> QED
      BY <3>2, <3>3
  <2> QED
    BY <2>5, <2>6 DEF SidesInv
<1> QED
  BY <1>7, <1>8

-----------------------------------------------------------------------------
(* What happens to the line.                                               *)

(* A call is made; its request is sent or not.                             *)
LEMMA LineCall ==
  ASSUME NEW dev, NEW host, NEW ks \in Seq(Letters), NEW n \in 0 .. Len(ks),
         LineInv(dev, host, n, ks), NEW letter \in Letters
  PROVE  LET more == Append(ks, letter)
             q == [letter |-> letter, number |-> Len(more)]
         IN /\ LineInv(dev, host, n, more) /\ LineInv(Append(dev, q), host, n, more)
            /\ q \in CallRecord /\ MadeAfter(Len(more) - 1, more, q)
<1> DEFINE more == Append(ks, letter)
           q == [letter |-> letter, number |-> Len(more)]
<1>1. /\ more \in Seq(Letters) /\ Len(ks) \in Nat /\ Len(more) = Len(ks) + 1
      /\ \A i \in 1 .. Len(ks) : more[i] = ks[i]
      /\ more[Len(ks) + 1] = letter
  BY Adding
<1> HIDE DEF more
<1>2. q \in CallRecord /\ q.letter = letter /\ q.number = Len(ks) + 1
  BY <1>1 DEF CallRecord
<1> HIDE DEF q
<1>3. MadeAfter(n, more, q) /\ MadeAfter(Len(more) - 1, more, q)
  BY <1>1, <1>2 DEF MadeAfter
<1>4. ASSUME NEW p, MadeAfter(n, ks, p)
      PROVE  MadeAfter(n, more, p) /\ p.number < q.number
  BY <1>1, <1>2, <1>4 DEF MadeAfter
<1>5. LineInv(dev, host, n, more)
  BY <1>4 DEF LineInv
<1>6. dev \in Seq(CallRecord)
  BY DEF LineInv
<1>7. /\ Append(dev, q) \in Seq(CallRecord) /\ Len(dev) \in Nat
      /\ Len(Append(dev, q)) = Len(dev) + 1
      /\ \A i \in 1 .. Len(dev) : Append(dev, q)[i] = dev[i]
      /\ Append(dev, q)[Len(dev) + 1] = q
  BY <1>2, <1>6, Adding
<1> DEFINE new == Append(dev, q)
<1> HIDE DEF new
<1>8. \A i \in 1 .. Len(new) : \/ i \in 1 .. Len(dev) /\ new[i] = dev[i]
                               \/ i = Len(dev) + 1 /\ new[i] = q
  BY <1>7 DEF new
<1>9. LineInv(new, host, n, more)
  <2>1. \A i \in 1 .. Len(new) : MadeAfter(n, more, new[i])
    BY <1>3, <1>5, <1>8 DEF LineInv
  <2>2. ASSUME NEW i \in 1 .. Len(new), NEW j \in 1 .. Len(new), i < j
        PROVE  new[i].number < new[j].number
    <3>1. i \in 1 .. Len(dev) /\ new[i] = dev[i]
      BY <1>7, <1>8, <2>2
    <3>2. CASE j \in 1 .. Len(dev) /\ new[j] = dev[j]
      BY <2>2, <3>1, <3>2 DEF LineInv
    <3>3. CASE new[j] = q
      <4>1. MadeAfter(n, ks, dev[i])
        BY <3>1 DEF LineInv
      <4> QED
        BY <1>4, <3>1, <3>3, <4>1
    <3> QED
      BY <1>8, <3>2, <3>3
  <2>3. \A i \in 1 .. Len(host), j \in 1 .. Len(new) :
          host[i] \in AnswerRecord => host[i].to.number < new[j].number
    BY <1>4, <1>8 DEF LineInv
  <2>4. new \in Seq(CallRecord)
    BY <1>7 DEF new
  <2> QED
    BY <1>5, <2>1, <2>2, <2>3, <2>4 DEF LineInv
<1> QED
  BY <1>2, <1>3, <1>5, <1>9 DEF more, q, new

(* The device takes a request, and answers it or not.                      *)
LEMMA LineAnswer ==
  ASSUME NEW dev, NEW host, NEW ks \in Seq(Letters), NEW n \in 0 .. Len(ks),
         LineInv(dev, host, n, ks), dev # <<>>, NEW error \in BOOLEAN
  PROVE  /\ LineInv(Tail(dev), host, n, ks)
         /\ LineInv(Tail(dev), Append(host, Answer(Head(dev), error, NoValue)), n, ks)
<1> DEFINE q == Head(dev)
           a == Answer(q, error, NoValue)
           rest == Tail(dev)
           new == Append(host, a)
<1>1. dev \in Seq(CallRecord) /\ host \in Seq(Packet) /\ Len(ks) \in Nat
  BY LenProperties DEF LineInv
<1>2. /\ q \in CallRecord /\ q = dev[1] /\ Len(dev) \in Nat \ {0}
      /\ rest \in Seq(CallRecord) /\ Len(rest) = Len(dev) - 1
      /\ \A i \in 1 .. Len(rest) : i + 1 \in 1 .. Len(dev) /\ rest[i] = dev[i + 1]
  BY <1>1, Taking
<1> HIDE DEF rest, q
<1>3. LineInv(rest, host, n, ks)
  <2>1. /\ \A i \in 1 .. Len(rest) : MadeAfter(n, ks, rest[i])
        /\ \A i \in 1 .. Len(host), j \in 1 .. Len(rest) :
             host[i] \in AnswerRecord => host[i].to.number < rest[j].number
    BY <1>2 DEF LineInv
  <2>2. \A i, j \in 1 .. Len(rest) : i < j => rest[i].number < rest[j].number
    <3> SUFFICES ASSUME NEW i \in 1 .. Len(rest), NEW j \in 1 .. Len(rest), i < j
                 PROVE  rest[i].number < rest[j].number
      OBVIOUS
    <3>1. i + 1 \in 1 .. Len(dev) /\ j + 1 \in 1 .. Len(dev) /\ i + 1 < j + 1
      BY <1>2
    <3>2. dev[i + 1].number < dev[j + 1].number
      BY <3>1 DEF LineInv
    <3> QED
      BY <1>2, <3>2
  <2> QED
    BY <1>2, <2>1, <2>2 DEF LineInv
<1>4. /\ MadeAfter(n, ks, q)
      /\ \A i \in 1 .. Len(rest) : q.number < rest[i].number
      /\ \A i \in 1 .. Len(host) : host[i] \in AnswerRecord => host[i].to.number < q.number
  <2>1. 1 \in 1 .. Len(dev)
    BY <1>2
  <2>2. \A i \in 1 .. Len(rest) : 1 < i + 1
    BY <1>2
  <2>3. \A i \in 1 .. Len(rest) : dev[1].number < dev[i + 1].number
    BY <1>2, <2>1, <2>2 DEF LineInv
  <2> QED
    BY <1>2, <2>1, <2>3 DEF LineInv
<1>5. a \in AnswerRecord /\ a.to = q /\ a.letter = q.letter
  BY <1>2 DEF Answer, AnswerRecord, CallRecord
<1> HIDE DEF a
<1>6. /\ new \in Seq(Packet) /\ Len(host) \in Nat /\ Len(new) = Len(host) + 1
      /\ \A i \in 1 .. Len(host) : new[i] = host[i]
      /\ new[Len(host) + 1] = a
  BY <1>1, <1>5, Adding DEF Packet
<1> HIDE DEF new
<1>7. \A i \in 1 .. Len(new) : \/ i \in 1 .. Len(host) /\ new[i] = host[i]
                               \/ i = Len(host) + 1 /\ new[i] = a
  BY <1>6
<1>8. LineInv(rest, new, n, ks)
  <2>1. \A i \in 1 .. Len(new) : new[i] \in AnswerRecord =>
          MadeAfter(n, ks, new[i].to) /\ new[i].letter = new[i].to.letter
    BY <1>3, <1>4, <1>5, <1>7 DEF LineInv
  <2>2. ASSUME NEW i \in 1 .. Len(new), NEW j \in 1 .. Len(new), i < j,
               new[i] \in AnswerRecord, new[j] \in AnswerRecord
        PROVE  new[i].to.number < new[j].to.number
    <3>1. i \in 1 .. Len(host) /\ new[i] = host[i]
      BY <1>6, <1>7, <2>2
    <3>2. CASE j \in 1 .. Len(host) /\ new[j] = host[j]
      BY <2>2, <3>1, <3>2 DEF LineInv
    <3>3. CASE new[j] = a
      BY <1>4, <1>5, <2>2, <3>1, <3>3
    <3> QED
      BY <1>7, <3>2, <3>3
  <2>3. \A i \in 1 .. Len(new), j \in 1 .. Len(rest) :
          new[i] \in AnswerRecord => new[i].to.number < rest[j].number
    BY <1>3, <1>4, <1>5, <1>7 DEF LineInv
  <2> QED
    BY <1>3, <1>6, <2>1, <2>2, <2>3 DEF LineInv
<1> QED
  BY <1>3, <1>8 DEF rest, new, a, q

(* A packet arrives that the host has not asked for.                       *)
LEMMA LineUnasked ==
  ASSUME NEW dev, NEW host, NEW ks, NEW n,
         LineInv(dev, host, n, ks), NEW p \in Unasked
  PROVE  LineInv(dev, Append(host, p), n, ks)
<1> DEFINE new == Append(host, p)
<1>1. p \in Packet /\ p \notin AnswerRecord
  <2>1. p \in [letter : {"D", "empty"}]
             \/ p \in [letter : {"F"}, server : 0 .. 255, request : XsdoRequest]
    BY HostAssumption
  <2> QED
    BY <2>1 DEF Packet, AnswerRecord, Letters
<1>2. host \in Seq(Packet)
  BY DEF LineInv
<1>3. /\ new \in Seq(Packet) /\ Len(host) \in Nat /\ Len(new) = Len(host) + 1
      /\ \A i \in 1 .. Len(host) : new[i] = host[i]
      /\ new[Len(host) + 1] = p
  BY <1>1, <1>2, Adding
<1> HIDE DEF new
<1>4. \A i \in 1 .. Len(new) : new[i] \in AnswerRecord => i \in 1 .. Len(host) /\ new[i] = host[i]
  BY <1>1, <1>3
<1>5. LineInv(dev, new, n, ks)
  BY <1>3, <1>4 DEF LineInv
<1> QED
  BY <1>5 DEF new

(* The host takes a packet; if it is an answer, it may be used.            *)
LEMMA LineTake ==
  ASSUME NEW dev, NEW host, NEW ks \in Seq(Letters), NEW n \in 0 .. Len(ks),
         LineInv(dev, host, n, ks), host # <<>>
  PROVE  LET p == Head(host)
         IN /\ p \in Packet /\ LineInv(dev, Tail(host), n, ks)
            /\ p \in AnswerRecord =>
                 /\ MadeAfter(n, ks, p.to) /\ p.letter = p.to.letter
                 /\ LineInv(dev, Tail(host), p.to.number, ks)
<1> DEFINE p == Head(host)
           rest == Tail(host)
<1>1. host \in Seq(Packet) /\ Len(ks) \in Nat
  BY LenProperties DEF LineInv
<1>2. /\ p \in Packet /\ p = host[1] /\ Len(host) \in Nat \ {0}
      /\ rest \in Seq(Packet) /\ Len(rest) = Len(host) - 1
      /\ \A i \in 1 .. Len(rest) : i + 1 \in 1 .. Len(host) /\ rest[i] = host[i + 1]
  BY <1>1, Taking
<1> HIDE DEF rest, p
<1>3. LineInv(dev, rest, n, ks)
  <2>1. /\ \A i \in 1 .. Len(rest) : rest[i] \in AnswerRecord =>
             MadeAfter(n, ks, rest[i].to) /\ rest[i].letter = rest[i].to.letter
        /\ \A i \in 1 .. Len(rest), j \in 1 .. Len(dev) :
             rest[i] \in AnswerRecord => rest[i].to.number < dev[j].number
    BY <1>2 DEF LineInv
  <2>2. ASSUME NEW i \in 1 .. Len(rest), NEW j \in 1 .. Len(rest), i < j,
               rest[i] \in AnswerRecord, rest[j] \in AnswerRecord
        PROVE  rest[i].to.number < rest[j].to.number
    <3>1. i + 1 \in 1 .. Len(host) /\ j + 1 \in 1 .. Len(host) /\ i + 1 < j + 1
      BY <1>2, <2>2
    <3>2. host[i + 1] \in AnswerRecord /\ host[j + 1] \in AnswerRecord
      BY <1>2, <2>2
    <3>3. host[i + 1].to.number < host[j + 1].to.number
      BY <3>1, <3>2 DEF LineInv
    <3> QED
      BY <1>2, <3>3
  <2> QED
    BY <1>2, <2>1, <2>2 DEF LineInv
<1>4. ASSUME p \in AnswerRecord
      PROVE  /\ MadeAfter(n, ks, p.to) /\ p.letter = p.to.letter
             /\ LineInv(dev, rest, p.to.number, ks)
  <2>1. MadeAfter(n, ks, p.to) /\ p.letter = p.to.letter
    BY <1>2, <1>4 DEF LineInv
  <2> 1 \in 1 .. Len(host)
    BY <1>2
  <2> \A i \in 1 .. Len(rest) : 1 < i + 1
    BY <1>2
  <2>2. /\ \A i \in 1 .. Len(dev) : p.to.number < dev[i].number
        /\ \A i \in 1 .. Len(rest) : rest[i] \in AnswerRecord => p.to.number < rest[i].to.number
    BY <1>2, <1>4 DEF LineInv
  <2> DEFINE m == p.to.number
  <2> n \in Nat /\ m \in Nat
    BY <1>1, <2>1 DEF MadeAfter
  <2> HIDE DEF m
  <2>3. ASSUME NEW q, MadeAfter(n, ks, q), m < q.number
        PROVE  MadeAfter(m, ks, q)
    BY <1>1, <2>3 DEF MadeAfter
  <2>4. \A i \in 1 .. Len(dev) : MadeAfter(m, ks, dev[i])
    <3>1. \A i \in 1 .. Len(dev) : MadeAfter(n, ks, dev[i])
      BY DEF LineInv
    <3> QED
      BY <2>2, <2>3, <3>1 DEF m
  <2>5. \A i \in 1 .. Len(rest) : rest[i] \in AnswerRecord =>
          MadeAfter(m, ks, rest[i].to) /\ rest[i].letter = rest[i].to.letter
    <3>1. \A i \in 1 .. Len(rest) : rest[i] \in AnswerRecord =>
            MadeAfter(n, ks, rest[i].to) /\ rest[i].letter = rest[i].to.letter
      BY <1>3 DEF LineInv
    <3> QED
      BY <2>2, <2>3, <3>1 DEF m
  <2> QED
    BY <1>3, <2>1, <2>4, <2>5 DEF LineInv, m
<1> QED
  BY <1>2, <1>3, <1>4 DEF rest, p

(* The port is closed.                                                     *)
LEMMA LineClose ==
  ASSUME NEW dev, NEW host, NEW ks, NEW n, LineInv(dev, host, n, ks)
  PROVE  LineInv(dev, <<>>, n, ks)
  BY EmptySeq DEF LineInv

-----------------------------------------------------------------------------
(* What is shown of every step: the parts of the invariant that are about  *)
(* the calls hold after it, the servers make one of their steps, and so    *)
(* does CallService, or none.                                              *)
Good == /\ LineInv(toDevice', toHost', of', kinds') /\ CallInv'
        /\ XsdoStep /\ SidesInv'
        /\ [Calls!Next]_(Calls!vars)

(* A step that no call notices.                                            *)
Unnoticed == /\ UNCHANGED <<call, result, asked, excess, kinds, of>>
             /\ call # NoCall => UNCHANGED ResponseReceived
             /\ ResponseReceived' \in BOOLEAN /\ port' \in BOOLEAN

LEMMA UnnoticedGood ==
  ASSUME CallInv, Unnoticed, XsdoStep, SidesInv', LineInv(toDevice', toHost', of, kinds)
  PROVE  Good
<1>1. CallInv'
  BY DEF CallInv, Unnoticed, PacketsFit, MadeAfter
<1>2. UNCHANGED Calls!vars
  BY DEF Unnoticed, Calls!vars
<1>3. LineInv(toDevice', toHost', of', kinds')
  BY DEF Unnoticed
<1> QED
  BY <1>1, <1>2, <1>3 DEF Good

(* A call that is made.                                                    *)
Fits(letter, length) == \/ length <= MAX_PACKET_LENGTH
                        \/ letter = "S" /\ length = MAX_PACKET_LENGTH + 1

LEMMA CallGood ==
  ASSUME HostInv, NEW letter \in Letters, NEW length \in Nat, Fits(letter, length),
         Call(letter, length)
  PROVE  Good
<1> DEFINE q == [letter |-> letter, number |-> Len(kinds')]
<1>1. /\ call = NoCall /\ kinds' = Append(kinds, letter)
      /\ of' = of /\ port' = port /\ asked' = q /\ toHost' = toHost
      /\ ResponseReceived' = FALSE
      /\ excess' = IF length > MAX_PACKET_LENGTH THEN length - MAX_PACKET_LENGTH ELSE 0
      /\ NothingServed
  BY DEF Call, Begin, ClearReceived
<1>2. \/ toDevice' = Append(toDevice, q) /\ call' = q /\ result' = "none"
      \/ toDevice' = toDevice /\ call' = NoCall /\ result' = "ERROR_TX"
  BY DEF Call, Begin
<1>3. kinds \in Seq(Letters) /\ of \in 0 .. Len(kinds) /\ LineInv(toDevice, toHost, of, kinds)
  BY DEF HostInv, CallInv
<1>4. /\ LineInv(toDevice, toHost, of, kinds')
      /\ LineInv(Append(toDevice, q), toHost, of, kinds')
      /\ q \in CallRecord /\ MadeAfter(Len(kinds') - 1, kinds', q)
  BY <1>1, <1>3, LineCall
<1>5. kinds' \in Seq(Letters) /\ Len(kinds) \in Nat /\ Len(kinds') = Len(kinds) + 1
  BY <1>1, <1>3, Adding
<1>6. q.letter = letter /\ q # NoCall
  BY <1>4 DEF CallRecord, NoCall, Letters
<1> HIDE DEF q
<1>7. CallInv'
  <2>1. PacketsFit'
    BY <1>1, <1>6, HostAssumption DEF PacketsFit, Fits
  <2>2. of' \in 0 .. Len(kinds')
    BY <1>1, <1>3, <1>5
  <2> QED
    BY <1>1, <1>2, <1>4, <1>5, <2>1, <2>2 DEF HostInv, CallInv, Results
<1>8. Calls!Next
  <2>1. Calls!Call(letter)
    BY <1>1, <1>2, <1>6 DEF Calls!Call
  <2> QED
    BY <2>1 DEF Calls!Next, Letters
<1>9. XsdoStep /\ SidesInv'
  BY <1>1, SidesSame
<1> QED
  BY <1>1, <1>2, <1>4, <1>7, <1>8, <1>9 DEF Good

LEMMA RefuseGood == HostInv /\ Refuse => Good
<1> SUFFICES ASSUME HostInv, Refuse PROVE Good
  OBVIOUS
<1>1. /\ call = NoCall /\ result' = "ERROR_NORESOURCES"
      /\ UNCHANGED <<call, asked, ResponseReceived, toDevice, toHost, port, excess, kinds, of>>
      /\ NothingServed
  BY DEF Refuse, linkVars, hostVars
<1>2. CallInv'
  BY <1>1 DEF HostInv, CallInv, PacketsFit, Results
<1>3. Calls!Next
  BY <1>1 DEF Calls!Next, Calls!Refuse
<1>4. XsdoStep /\ SidesInv'
  BY <1>1, SidesSame
<1> QED
  BY <1>1, <1>2, <1>3, <1>4 DEF Good, HostInv

(* What the program does is one of these.                                  *)
LEMMA Programs ==
  Program => \/ \E letter \in Letters, length \in Nat :
                  Fits(letter, length) /\ Call(letter, length)
             \/ Refuse \/ Connect \/ Disconnect
<1>1. /\ MAX_PACKET_LENGTH \in Nat /\ MAX_PACKET_LENGTH > 4
      /\ Lengths \subseteq Nat /\ MAX_WRITE_LENGTH = MAX_PACKET_LENGTH - 4
  BY HostAssumption DEF MAX_WRITE_LENGTH
<1>2. ASSUME NEW n \in Nat, WriteLocalOD(n)
      PROVE  Refuse \/ (Fits("W", 4 + n) /\ Call("W", 4 + n))
  BY <1>1, <1>2 DEF WriteLocalOD, Fits
<1>3. ASSUME NEW n \in Nat, WriteRemoteOD(n)
      PROVE  Refuse \/ (Fits("S", 5 + n) /\ Call("S", 5 + n))
  BY <1>1, <1>3 DEF WriteRemoteOD, Fits
<1>4. ReadLocalOD \/ WakeUp => Fits("R", 4) /\ Call("R", 4)
  BY <1>1 DEF ReadLocalOD, WakeUp, Fits
<1>5. ReadRemoteOD => Fits("U", 5) /\ Call("U", 5)
  BY <1>1 DEF ReadRemoteOD, Fits
<1>6. \A n \in Nat : 4 + n \in Nat /\ 5 + n \in Nat
  OBVIOUS
<1>7. {"R", "W", "U", "S"} = Letters /\ 1 \in Nat /\ 4 \in Nat /\ 5 \in Nat
  BY DEF Letters
<1>8. ASSUME NEW letter \in Letters, NEW length \in Nat,
             Fits(letter, length) /\ Call(letter, length)
      PROVE  \E l \in Letters, m \in Nat : Fits(l, m) /\ Call(l, m)
  BY <1>8
<1>9. CASE \E n \in Lengths : WriteLocalOD(n) \/ WriteRemoteOD(n)
  BY <1>1, <1>2, <1>3, <1>6, <1>7, <1>8, <1>9
<1>10. CASE Command
  BY <1>2, <1>6, <1>7, <1>8, <1>10 DEF Command
<1>11. CASE ReadLocalOD \/ WakeUp \/ ReadRemoteOD
  BY <1>4, <1>5, <1>7, <1>8, <1>11
<1> QED
  BY <1>9, <1>10, <1>11 DEF Program

LEMMA PortGood == HostInv /\ (Connect \/ Disconnect) => Good
<1> SUFFICES ASSUME HostInv, Connect \/ Disconnect PROVE Good
  OBVIOUS
<1>1. /\ call = NoCall /\ port' \in BOOLEAN /\ UNCHANGED toDevice
      /\ UNCHANGED <<call, result, asked, excess, kinds, of, ResponseReceived>>
      /\ (toHost' = toHost /\ NothingServed) \/ (toHost' = <<>> /\ Unheard)
  BY DEF Connect, Disconnect, callVars, linkVars
<1>2. LineInv(toDevice', toHost', of, kinds)
  BY <1>1, LineClose DEF HostInv
<1>3. Unnoticed
  BY <1>1 DEF HostInv, CallInv, Unnoticed
<1>4. AbortsUnderWay(<<>>) = {}
  BY DEF AbortsUnderWay
<1>5. XsdoStep /\ SidesInv'
  BY <1>1, <1>4, SidesSame, SidesUnheard
<1> QED
  BY <1>1, <1>2, <1>3, <1>5, UnnoticedGood DEF HostInv

(* Process takes a packet, or there is none; only an answer is stored.     *)
LEMMA Processed ==
  ASSUME HostInv, Process
  PROVE  /\ XsdoStep /\ SidesInv'
         /\ \/ /\ UNCHANGED <<ResponseReceived, ResponsePacket>>
               /\ LineInv(toDevice, toHost', of, kinds)
            \/ /\ ResponseReceived' = TRUE /\ ResponsePacket' \in AnswerRecord
               /\ MadeAfter(of, kinds, ResponsePacket'.to)
               /\ ResponsePacket'.letter = ResponsePacket'.to.letter
               /\ LineInv(toDevice, toHost', of, kinds)
               /\ LineInv(toDevice, toHost', ResponsePacket'.to.number, kinds)
<1>1. kinds \in Seq(Letters) /\ of \in 0 .. Len(kinds) /\ LineInv(toDevice, toHost, of, kinds)
  BY DEF HostInv, CallInv
<1>2. CASE ~port \/ toHost = <<>>
  <2>1. NothingServed /\ UNCHANGED <<ResponseReceived, ResponsePacket, toHost>>
    BY <1>2 DEF Process, KeepAnswer
  <2>2. XsdoStep /\ SidesInv'
    BY <2>1, SidesSame
  <2> QED
    BY <1>1, <2>1, <2>2
<1>3. CASE port /\ toHost # <<>>
  <2> DEFINE p == Head(toHost)
  <2>1. /\ toHost' = Tail(toHost)
        /\ IF IsAnswer(p) THEN StoreAnswer(p) ELSE KeepAnswer
        /\ IF p.letter # "F" THEN NothingServed
           ELSE \/ HandleRequest(p.server, p.request, TRUE)
                \/ HandleRequest(p.server, p.request, FALSE)
    BY <1>3 DEF Process
  <2>2. /\ p \in Packet /\ LineInv(toDevice, Tail(toHost), of, kinds)
        /\ p \in AnswerRecord =>
             /\ MadeAfter(of, kinds, p.to) /\ p.letter = p.to.letter
             /\ LineInv(toDevice, Tail(toHost), p.to.number, kinds)
    BY <1>1, <1>3, LineTake
  <2> HIDE DEF p
  <2>3. /\ IsAnswer(p) <=> p \in AnswerRecord
        /\ p.letter = "F" => p.server \in Int /\ p.request \in XsdoRequest
    BY <2>2, AnswersTold
  <2>4. XsdoStep /\ SidesInv'
    <3>1. CASE p.letter # "F"
      <4>1. \A s \in ServerIndex : ~Aborts(Head(toHost), s)
        BY <3>1 DEF Aborts, p
      <4>2. toHost \in Seq(Packet)
        BY <1>1 DEF LineInv
      <4>3. AbortsUnderWay(toHost) =
              AbortsUnderWay(Tail(toHost)) \union {s \in ServerIndex : Aborts(Head(toHost), s)}
        BY <1>3, <4>2, AbortsChange
      <4>4. {s \in ServerIndex : Aborts(Head(toHost), s)} = {}
        BY <4>1
      <4>5. AbortsUnderWay(Tail(toHost)) = AbortsUnderWay(toHost)
        BY <4>3, <4>4
      <4>6. AbortsUnderWay(toHost') = AbortsUnderWay(toHost)
        BY <2>1, <4>5
      <4> QED
        BY <2>1, <3>1, <4>6, SidesSame
    <3>2. CASE p.letter = "F"
      BY <1>3, <2>1, <3>2, SidesServed DEF p
    <3> QED
      BY <3>1, <3>2
  <2> QED
    BY <2>1, <2>2, <2>3, <2>4 DEF StoreAnswer, KeepAnswer
<1> QED
  BY <1>2, <1>3

(* The loop of a call: it goes on, or its answer has come.                 *)
LEMMA WaitGood == HostInv /\ Wait => Good
<1> SUFFICES ASSUME HostInv, Wait PROVE Good
  OBVIOUS
<1>1. /\ call # NoCall /\ Process
      /\ of' = IF ResponseReceived' THEN ResponsePacket'.to.number ELSE of
      /\ UNCHANGED <<asked, toDevice, port, excess, kinds>>
  BY DEF Wait
<1>2. IF ResponseReceived'
        THEN call' = NoCall /\ result' = Outcome(ResponsePacket')
        ELSE UNCHANGED <<call, result>>
  BY DEF Wait, Return
<1>3. /\ call \in CallRecord /\ MadeAfter(Len(kinds) - 1, kinds, call)
      /\ ResponseReceived = FALSE
  BY <1>1 DEF HostInv, CallInv
<1>4. XsdoStep /\ SidesInv'
  BY <1>1, Processed
<1>5. CASE UNCHANGED ResponseReceived /\ LineInv(toDevice, toHost', of, kinds)
  <2>1. Unnoticed
    BY <1>1, <1>2, <1>3, <1>5 DEF HostInv, CallInv, Unnoticed
  <2> QED
    BY <1>1, <1>4, <1>5, <2>1, UnnoticedGood DEF HostInv
<1>6. CASE /\ ResponseReceived' = TRUE /\ ResponsePacket' \in AnswerRecord
           /\ MadeAfter(of, kinds, ResponsePacket'.to)
           /\ ResponsePacket'.letter = ResponsePacket'.to.letter
           /\ LineInv(toDevice, toHost', ResponsePacket'.to.number, kinds)
  <2>1. call' = NoCall /\ result' = Outcome(ResponsePacket') /\ of' = ResponsePacket'.to.number
    BY <1>1, <1>2, <1>6
  <2>2. /\ of' \in of + 1 .. Len(kinds)
        /\ ResponsePacket'.letter = kinds[of']
        /\ call.letter = kinds[Len(kinds)]
    <3>1. Len(kinds) \in Nat
      BY LenProperties DEF HostInv, CallInv
    <3>2. call.number \in Len(kinds) - 1 + 1 .. Len(kinds) /\ call.letter = kinds[call.number]
      BY <1>3 DEF MadeAfter
    <3>3. call.number = Len(kinds)
      BY <3>1, <3>2
    <3> QED
      BY <1>6, <2>1, <3>2, <3>3 DEF MadeAfter
  <2>3. result' \in IF kinds[of'] = kinds[Len(kinds)]
                       THEN {"ERROR_NOERROR", "ERROR_NODEERROR"}
                       ELSE {"ERROR_WRONGRESPONSE"}
    BY <2>1, <2>2 DEF Outcome
  <2>4. CallInv'
    <3>1. kinds \in Seq(Letters) /\ Len(kinds) \in Nat /\ of \in 0 .. Len(kinds)
      BY LenProperties DEF HostInv, CallInv
    <3>2. of' \in 0 .. Len(kinds)
      BY <2>2, <3>1
    <3>3. result' \in Results
      BY <2>3 DEF Results
    <3>4. PacketsFit'
      BY <1>1 DEF HostInv, CallInv, PacketsFit
    <3> QED
      BY <1>1, <1>6, <2>1, <3>1, <3>2, <3>3, <3>4 DEF HostInv, CallInv
  <2>5. Calls!Next
    BY <1>1, <2>1, <2>2, <2>3 DEF Calls!Next, Calls!Answered
  <2> QED
    BY <1>1, <1>4, <1>6, <2>1, <2>4, <2>5 DEF Good
<1> QED
  BY <1>1, <1>5, <1>6, Processed

LEMMA TimeOutGood == HostInv /\ TimeOut => Good
<1> SUFFICES ASSUME HostInv, TimeOut PROVE Good
  OBVIOUS
<1>1. /\ call # NoCall /\ call' = NoCall /\ result' = "ERROR_NORESPONSE" /\ NothingServed
      /\ UNCHANGED <<asked, ResponseReceived, toDevice, toHost, port, excess, kinds, of>>
  BY DEF TimeOut, GiveUp, hostVars
<1>2. CallInv'
  BY <1>1 DEF HostInv, CallInv, PacketsFit, Results
<1>3. Calls!Next
  BY <1>1 DEF Calls!Next, Calls!GiveUp
<1>4. XsdoStep /\ SidesInv'
  BY <1>1, SidesSame
<1> QED
  BY <1>1, <1>2, <1>3, <1>4 DEF Good, HostInv

LEMMA ProcessGood == HostInv /\ ProcessOnce => Good
<1> SUFFICES ASSUME HostInv, ProcessOnce PROVE Good
  OBVIOUS
<1>1. /\ call = NoCall /\ Process
      /\ UNCHANGED <<call, result, asked, toDevice, port, excess, kinds, of>>
  BY DEF ProcessOnce, hostVars
<1>2. /\ XsdoStep /\ SidesInv' /\ LineInv(toDevice, toHost', of, kinds)
      /\ ResponseReceived' = ResponseReceived \/ ResponseReceived' = TRUE
  BY <1>1, Processed
<1>3. Unnoticed
  BY <1>1, <1>2 DEF HostInv, CallInv, Unnoticed
<1> QED
  BY <1>1, <1>2, <1>3, UnnoticedGood DEF HostInv

(* What happens on the line meets no call.                                 *)
LEMMA DeviceGood == HostInv /\ (DeviceAnswers \/ DevicePasses \/ Lose) => Good
<1> SUFFICES ASSUME HostInv, DeviceAnswers \/ DevicePasses \/ Lose PROVE Good
  OBVIOUS
<1>1. UNCHANGED <<call, result, ResponseReceived, asked, port, excess, kinds, of>>
  BY DEF DeviceAnswers, DevicePasses, Lose, LosePacket, callVars, hostVars, linkVars
<1>2. kinds \in Seq(Letters) /\ of \in 0 .. Len(kinds) /\ LineInv(toDevice, toHost, of, kinds)
  BY DEF HostInv, CallInv
<1>3. LineInv(toDevice', toHost', of, kinds) /\ XsdoStep /\ SidesInv'
  <2> toHost \in Seq(Packet)
    BY <1>2 DEF LineInv
  <2>1. CASE DeviceAnswers
    <3>1. toDevice # <<>> /\ toDevice' = Tail(toDevice)
      BY <2>1 DEF DeviceAnswers
    <3>2. PICK error \in BOOLEAN : Arrives(Answer(Head(toDevice), error, NoValue))
      BY <2>1 DEF DeviceAnswers
    <3>3. /\ LineInv(Tail(toDevice), toHost, of, kinds)
          /\ LineInv(Tail(toDevice), Append(toHost, Answer(Head(toDevice), error, NoValue)),
                     of, kinds)
      BY <1>2, <3>1, LineAnswer
    <3>4. AbortsUnderWay(toHost') = AbortsUnderWay(toHost)
      <4> DEFINE q == Head(toDevice)
                 a == Answer(q, error, NoValue)
      <4>1. q \in CallRecord
        BY <1>2, <3>1, Taking DEF LineInv
      <4> HIDE DEF q
      <4>2. a \in AnswerRecord
        BY <4>1 DEF Answer, AnswerRecord, CallRecord
      <4>3. Arrives(a)
        BY <3>2 DEF q
      <4> HIDE DEF a
      <4>4. a \in Packet
        BY <4>2 DEF Packet
      <4>5. AbortsUnderWay(Append(toHost, a)) =
              AbortsUnderWay(toHost) \union {s \in ServerIndex : Aborts(a, s)}
        BY <4>4, AbortsChange
      <4>6. {s \in ServerIndex : Aborts(a, s)} = {}
        BY <4>2, AnswersAbortNothing
      <4>7. AbortsUnderWay(Append(toHost, a)) = AbortsUnderWay(toHost)
        BY <4>5, <4>6
      <4>8. toHost' = Append(toHost, a) \/ toHost' = toHost
        BY <4>3 DEF Arrives
      <4> QED
        BY <4>7, <4>8
    <3>5. NothingServed
      BY <2>1 DEF DeviceAnswers
    <3> QED
      BY <3>1, <3>2, <3>3, <3>4, <3>5, SidesSame DEF Arrives
  <2>2. CASE DevicePasses
    <3>1. PICK p \in Unasked :
            /\ Arrives(p)
            /\ device' = [s \in ServerIndex |->
                           IF Aborts(p, s) THEN GaveUp(device[s], port) ELSE device[s]]
      BY <2>2 DEF DevicePasses
    <3>2. toDevice' = toDevice /\ NothingRequested
      BY <2>2 DEF DevicePasses
    <3>3. XsdoStep /\ SidesInv'
      BY <3>1, <3>2, SidesPassed
    <3> QED
      BY <1>2, <3>1, <3>2, <3>3, LineUnasked DEF Arrives
  <2>3. CASE Lose
    <3>1. \/ toDevice # <<>> /\ toDevice' = Tail(toDevice) /\ toHost' = toHost
          \/ toHost # <<>> /\ toHost' = Tail(toHost) /\ toDevice' = toDevice
      BY <2>3 DEF Lose, LosePacket
    <3>2. AbortsUnderWay(toHost') \subseteq AbortsUnderWay(toHost)
      BY <3>1, AbortsChange
    <3>3. XsdoStep /\ SidesInv'
      BY <2>3, <3>2, SidesUnheard DEF Lose
    <3> QED
      BY <1>2, <3>1, <3>3, LineAnswer, LineTake
  <2> QED
    BY <2>1, <2>2, <2>3
<1>4. Unnoticed
  BY <1>1 DEF HostInv, CallInv, Unnoticed
<1> QED
  BY <1>1, <1>3, <1>4, UnnoticedGood DEF HostInv

-----------------------------------------------------------------------------
LEMMA HostFirst == Init => HostInv
<1> SUFFICES ASSUME Init PROVE HostInv
  OBVIOUS
<1>1. /\ call = NoCall /\ result = "none" /\ ResponseReceived = FALSE
      /\ toDevice = <<>> /\ toHost = <<>> /\ port = FALSE /\ excess = 0
      /\ kinds = <<>> /\ of = 0
  BY DEF Init, CallsInit
<1>2. LineInv(toDevice, toHost, of, kinds)
  BY <1>1, EmptySeq DEF LineInv
<1>3. CallInv
  <2>1. kinds \in Seq(Letters) /\ Len(kinds) = 0
    BY <1>1, EmptySeq
  <2>2. of \in 0 .. Len(kinds)
    BY <1>1, <2>1
  <2>3. PacketsFit
    BY <1>1 DEF PacketsFit
  <2>4. result \in Results
    BY <1>1 DEF Results
  <2> QED
    BY <1>1, <2>1, <2>2, <2>3, <2>4 DEF CallInv
<1>4. XsdoInv
  BY XsdoFirst DEF Init
<1>5. SidesInv
  <2> SUFFICES ASSUME NEW s \in ServerIndex
               PROVE  Running(mXSDO[s]) /\ ~device[s].open => device[s].unheard
    BY <1>1 DEF SidesInv, AbortsUnderWay
  <2>1. PICK open \in Opened :
          device[s] = [open |-> s \in open, bytes |-> 0, tog |-> -1,
                       missed |-> s \in open /\ ~Running(mXSDO[s]),
                       unheard |-> s \notin open /\ Running(mXSDO[s])]
    BY DEF Init, XsdoInit
  <2>2. device[s].open = (s \in open) /\ device[s].unheard = (s \notin open /\ Running(mXSDO[s]))
    BY <2>1
  <2> QED
    BY <2>2
<1> QED
  BY <1>2, <1>3, <1>4, <1>5 DEF HostInv

LEMMA HostGood == HostInv /\ Next => Good
<1> SUFFICES ASSUME HostInv, Next PROVE Good
  OBVIOUS
<1>1. CASE Program
  BY <1>1, Programs, CallGood, RefuseGood, PortGood
<1>2. CASE Wait \/ TimeOut \/ ProcessOnce \/ DeviceAnswers \/ DevicePasses \/ Lose
  BY <1>2, WaitGood, TimeOutGood, ProcessGood, DeviceGood
<1> QED
  BY <1>1, <1>2 DEF Next, Loop

LEMMA HostKept == HostInv /\ [Next]_vars => HostInv'
<1> SUFFICES ASSUME HostInv, [Next]_vars PROVE HostInv'
  OBVIOUS
<1>1. CASE Next
  <2>1. Good
    BY <1>1, HostGood
  <2> QED
    BY <2>1, XsdoKept DEF Good, HostInv
<1>2. CASE UNCHANGED vars
  <2>1. UNCHANGED <<call, result, ResponseReceived, asked, toDevice, toHost, port, excess,
                    kinds, of>> /\ UNCHANGED xsdoVars
    BY <1>2 DEF vars, callVars, linkVars, hostVars
  <2>2. XsdoInv'
    BY <2>1, XsdoKept DEF HostInv
  <2>3. LineInv(toDevice', toHost', of', kinds')
    BY <2>1 DEF HostInv
  <2>4. CallInv'
    BY <2>1 DEF HostInv, CallInv, PacketsFit
  <2>5. SidesInv'
    BY <2>1 DEF HostInv, SidesInv, xsdoVars
  <2> QED
    BY <2>2, <2>3, <2>4, <2>5 DEF HostInv
<1> QED
  BY <1>1, <1>2

LEMMA HostAlways == Spec => []HostInv
  BY HostFirst, HostKept, PTL DEF Spec

-----------------------------------------------------------------------------
(* Records, answers and requests of the servers keep their types, and the  *)
(* calls' results too (xsdo.h:136, SerialProtocol.h).                      *)
THEOREM HostTypeOK == Spec => []TypeOK
<1>1. HostInv => TypeOK
  BY DEF HostInv, XsdoInv, XsdoTypeOK, CallInv, Results, TypeOK
<1> QED
  BY <1>1, HostAlways, PTL

(* No call puts a packet together that is too long, except for the longest *)
(* that WriteRemoteOD lets pass, by one byte (SerialProtocol.cpp:587).     *)
THEOREM HostPacketsFit == Spec => []PacketsFit
<1>1. HostInv => PacketsFit
  BY DEF HostInv, CallInv
<1> QED
  BY <1>1, HostAlways, PTL

(* Device and server only disagree on whether a transfer is open while an  *)
(* abort is under way, or if an abort or an answer was lost, whenever the  *)
(* device gives up (xsdo.cpp:354).                                         *)
THEOREM HostSidesAgree == Spec => []SidesAgree
<1>1. HostInv => SidesAgree
  BY DEF HostInv, SidesInv, XsdoInv, ServersInv, InvOf, InStep, SidesAgree
<1> QED
  BY <1>1, HostAlways, PTL

(* Nor on how many bytes have been passed on (xsdo.cpp:152 and 195).       *)
THEOREM HostBytesAgree == Spec => []BytesAgree
<1>1. HostInv => BytesAgree
  BY InvBytes DEF HostInv
<1> QED
  BY <1>1, HostAlways, PTL

(* Nothing outside a server's buffer is touched if its record was in order *)
(* at first (xsdo.cpp:174).                                                *)
THEOREM HostStaysInBuffer == Spec => []StaysInBuffer
<1>1. HostInv => StaysInBuffer
  BY InvBuffer DEF HostInv
<1> QED
  BY <1>1, HostAlways, PTL

(* A segment that is repeated is not taken or given again (xsdo.cpp:279).  *)
THEOREM HostNoReplay == Spec => []NoReplay
<1>1. HostInv => NoReplay
  BY InvReplay DEF HostInv
<1> QED
  BY <1>1, HostAlways, PTL

(* Answers have the request's toggle bit (xsdo.cpp:130).                   *)
THEOREM HostEchoesToggle == Spec => []EchoesToggle
<1>1. HostInv => EchoesToggle
  BY InvEchoes DEF HostInv
<1> QED
  BY <1>1, HostAlways, PTL

(* The 'G' packet's flag tells when a transfer is over, but for the end of *)
(* a download (SerialProtocol.cpp:218).                                    *)
THEOREM HostLastFlagTells == Spec => []LastFlagTells
<1>1. HostInv => LastFlagTells
  BY InvLast DEF HostInv
<1> QED
  BY <1>1, HostAlways, PTL

(* The safety part of ImplementsCallService: a call that returns with an   *)
(* answer has one to a request of its kind, and no answer is used twice    *)
(* (SerialProtocol.cpp:514).                                               *)
THEOREM HostImplementsCalls == Spec => Calls!Spec
<1>1. Init => Calls!Init
  BY DEF Init, CallsInit, Calls!Init
<1>2. HostInv /\ [Next]_vars => [Calls!Next]_(Calls!vars)
  <2> SUFFICES ASSUME HostInv, [Next]_vars PROVE [Calls!Next]_(Calls!vars)
    OBVIOUS
  <2>1. CASE Next
    BY <2>1, HostGood DEF Good
  <2>2. CASE UNCHANGED vars
    BY <2>2 DEF vars, callVars, hostVars, Calls!vars
  <2> QED
    BY <2>1, <2>2
<1> QED
  BY <1>1, <1>2, HostAlways, PTL DEF Spec, Calls!Spec
=============================================================================
