---------------------------- MODULE TimerProofs ----------------------------
(***************************************************************************)
(* The timer is exact for every width of the tick and every polling rate   *)
(* that is faster than half its range.                                     *)
(***************************************************************************)
EXTENDS Timer, TLAPS

(* Inv holds in the beginning.                                             *)
LEMMA InitInv == Init => Inv
<1> SUFFICES ASSUME Init PROVE Inv
  OBVIOUS
<1>1. TypeOK
  <2>1. /\ tick \in 0 .. Word - 1 /\ timestamp \in 0 .. Word - 1
        /\ reload \in Reloads \union {0} /\ since \in Nat
        /\ verdict \in {"none", "running", "expired"}
    BY DEF Init
  <2>2. idle \in 0 .. MaxGap
    BY GapAssumption, HalfAssumption DEF Init
  <2>3. armed \in BOOLEAN
    BY DEF Init
  <2> QED
    BY <2>1, <2>2, <2>3 DEF TypeOK
<1>2. Exact /\ InWindow
  BY DEF Init, Exact, InWindow
<1> QED
  BY <1>1, <1>2 DEF Inv

(* Time goes on: the tick and the distance to the timestamp move together. *)
LEMMA ElapseInv == Inv /\ Elapse => Inv'
<1> SUFFICES ASSUME Inv, Elapse PROVE Inv'
  OBVIOUS
<1>1. PICK d \in 1 .. MaxGap - idle :
        /\ tick' = Wrap(tick + d) /\ idle' = idle + d
        /\ since' = IF since + d < Longest THEN since + d ELSE Longest
  BY DEF Elapse
<1>2. /\ armed /\ verdict' = "none"
      /\ timestamp' = timestamp /\ reload' = reload /\ armed' = armed
  BY DEF Elapse
<1>3. d \in Nat /\ d >= 1 /\ d <= MaxGap - idle /\ MaxGap < Half /\ MaxGap \in Nat
  BY HalfAssumption, GapAssumption, <1>1 DEF Inv, TypeOK
<1>4. tick' = Wrap(tick + d) /\ idle' = idle + d /\ since' = since + d
  <2>1. since \in Nat /\ idle \in Nat /\ since - idle <= reload /\ reload \in 0 .. Word - 1
    BY <1>2, HalfAssumption, ReloadAssumption, GapAssumption DEF Inv, TypeOK, InWindow, Word
  <2>2. since + d < Longest
    BY <1>3, <2>1, HalfAssumption DEF Longest, Word
  <2> QED
    BY <1>1, <2>2
<1>5. TypeOK'
  BY <1>2, <1>3, <1>4, HalfAssumption DEF Inv, TypeOK, Word, Wrap
<1>6. InWindow'
  BY <1>2, <1>3, <1>4, HalfAssumption, ReloadAssumption DEF Inv, TypeOK, InWindow, Word, Wrap
<1> QED
  BY <1>2, <1>5, <1>6 DEF Inv, Exact

(* A timestamp that is taken lies the whole timeout ahead.                 *)
LEMMA ArmInv == ASSUME Inv, NEW r \in Reloads, Arm(r) PROVE Inv'
<1>1. r \in 0 .. Word - 1
  BY ReloadAssumption
<1> QED
  BY <1>1, HalfAssumption, GapAssumption
  DEF Arm, Inv, TypeOK, Exact, InWindow, Word, Wrap, GetTime

(* A poll answers as Exact says, and starts the wait for the next one.     *)
LEMMA PollInv == Inv /\ Poll => Inv'
<1> SUFFICES ASSUME Inv, Poll PROVE Inv'
  OBVIOUS
<1>1. /\ armed /\ armed' = ~IsTimeExpired(tick, timestamp)
      /\ verdict' = IF IsTimeExpired(tick, timestamp) THEN "expired" ELSE "running"
      /\ idle' = 0 /\ tick' = tick /\ timestamp' = timestamp
      /\ reload' = reload /\ since' = since
  BY DEF Poll, GetTime
<1>2. TypeOK'
  BY <1>1, HalfAssumption, GapAssumption DEF Inv, TypeOK
<1>3. /\ tick \in 0 .. Word - 1 /\ timestamp \in 0 .. Word - 1 /\ since \in Nat
      /\ reload \in 0 .. Word - 1 /\ idle \in Nat /\ idle < Half
      /\ since - idle <= reload
  BY <1>1, HalfAssumption, ReloadAssumption, GapAssumption DEF Inv, TypeOK, InWindow, Word
<1>4. IsTimeExpired(tick, timestamp) => since >= reload \/ reload - since >= Half
  BY <1>1, <1>3, HalfAssumption DEF Inv, InWindow, IsTimeExpired, Wrap, Word
<1>5. ~IsTimeExpired(tick, timestamp) => since < reload /\ reload - since <= Half
  BY <1>1, <1>3, HalfAssumption DEF Inv, InWindow, IsTimeExpired, Wrap, Word
<1>6. Exact'
  BY <1>1, <1>4, <1>5 DEF Exact
<1>7. InWindow'
  <2> SUFFICES ASSUME armed' PROVE /\ idle' <= since' /\ since' - idle' <= reload'
                                   /\ since' <= reload' => timestamp' = Wrap(tick' + (reload' - since'))
                                   /\ since' > reload' => tick' = Wrap(timestamp' + (since' - reload'))
    BY DEF InWindow
  <2>1. since < reload
    BY <1>1, <1>5
  <2>2. timestamp = Wrap(tick + (reload - since))
    BY <1>1, <1>3, <2>1 DEF Inv, InWindow
  <2> QED
    BY <1>1, <1>3, <2>1, <2>2
<1> QED
  BY <1>2, <1>6, <1>7 DEF Inv

(* For every width of the tick, every set of timeouts and every polling    *)
(* interval below half the range, the answers are exact.                   *)
THEOREM TimerIsExact == Spec => []Exact
<1>1. Init => Inv
  BY InitInv
<1>2. Inv /\ [Next]_vars => Inv'
  <2> SUFFICES ASSUME Inv, [Next]_vars PROVE Inv'
    OBVIOUS
  <2>1. CASE Elapse
    BY <2>1, ElapseInv
  <2>2. CASE \E r \in Reloads : Arm(r)
    BY <2>2, ArmInv
  <2>3. CASE Poll
    BY <2>3, PollInv
  <2>4. CASE UNCHANGED vars
    BY <2>4 DEF vars, Inv, TypeOK, Exact, InWindow
  <2> QED
    BY <2>1, <2>2, <2>3, <2>4 DEF Next
<1>3. Inv => Exact
  BY DEF Inv
<1> QED
  BY <1>1, <1>2, <1>3, PTL DEF Spec
=============================================================================
