------------------------------- MODULE Timer -------------------------------
(***************************************************************************)
(* The 16-bit millisecond timer the SDO client times its answers with: a   *)
(* timestamp is the tick of the moment plus the timeout, and the polling   *)
(* loop asks now and then whether it has passed.  The tick wraps; between  *)
(* two polls of the same timestamp up to MaxGap milliseconds go by.        *)
(***************************************************************************)
EXTENDS Integers

CONSTANTS Half,     \* half the range of the tick (0x8000 in the code)
          Reloads,  \* timeouts that are set
          MaxGap    \* longest time between two polls

Word == 2 * Half    \* number of values of the tick (0x10000)

ASSUME HalfAssumption == Half \in Nat \ {0}
ASSUME ReloadAssumption == Reloads \subseteq 0 .. Word - 1
ASSUME GapAssumption == MaxGap \in 1 .. Half - 1

VARIABLES
  tick,       \* what GetTime returns
  timestamp,  \* UNSIGNED16 timeout of the channel
  reload,     \* timeout_reload
  armed,      \* the channel waits
  verdict,    \* what the last poll said, until time goes on
  since,      \* history: time since the timestamp was taken
  idle        \* history: time since the last poll

vars == <<tick, timestamp, reload, armed, verdict, since, idle>>

(* The sum of two 16-bit numbers, as a 16-bit number.                      *)
Wrap(n) == IF n < Word THEN n ELSE n - Word

GetTime == tick

(* True if the timestamp has passed, given the tick now.                   *)
AfterTimestamp(now, stamp) == now >= stamp                       \* mutant
OnTimestamp(now, stamp) == now = stamp                           \* mutant
IsTimeExpired(now, stamp) ==
  \/ now >= stamp /\ now - stamp < Half
  \/ now < stamp /\ stamp - now >= Half

Init == /\ tick \in 0 .. Word - 1
        /\ timestamp = tick /\ reload = 0
        /\ armed = FALSE /\ verdict = "none"
        /\ since = 0 /\ idle = 0

(* Longest bounds the history; a timeout that is seen in time stays below. *)
Longest == 2 * Word

(* Time goes on, at most MaxGap milliseconds between two polls.            *)
Elapse == /\ armed
          /\ \E d \in 1 .. MaxGap - idle :
               /\ tick' = Wrap(tick + d)
               /\ since' = IF since + d < Longest THEN since + d ELSE Longest
               /\ idle' = idle + d
          /\ verdict' = "none"
          /\ UNCHANGED <<timestamp, reload, armed>>

(* The client sends a request: timeout = GetTime() + timeout_reload.       *)
Arm(r) == /\ ~armed
          /\ timestamp' = Wrap(GetTime + r)
          /\ reload' = r
          /\ armed' = TRUE
          /\ verdict' = "none"
          /\ since' = 0 /\ idle' = 0
          /\ UNCHANGED tick

(* The loop looks whether the answer is overdue.                           *)
Poll == /\ armed
        /\ armed' = ~IsTimeExpired(GetTime, timestamp)
        /\ verdict' = IF IsTimeExpired(GetTime, timestamp) THEN "expired" ELSE "running"
        /\ idle' = 0
        /\ UNCHANGED <<tick, timestamp, reload, since>>

Next == Elapse \/ (\E r \in Reloads : Arm(r)) \/ Poll

Spec == Init /\ [][Next]_vars

(* The clock runs and the loop polls again and again.                      *)
FairSpec == Spec /\ WF_vars(Elapse) /\ WF_vars(Poll)

-----------------------------------------------------------------------------
(* The types of the tick, the timestamp and the history.                   *)
TypeOK == /\ tick \in 0 .. Word - 1
          /\ timestamp \in 0 .. Word - 1
          /\ reload \in Reloads \union {0}
          /\ armed \in BOOLEAN
          /\ verdict \in {"none", "running", "expired"}
          /\ since \in Nat
          /\ idle \in 0 .. MaxGap

(* Wherever the tick wraps, "expired" means that the timeout is over and   *)
(* "running" that it is not (Timer_Linux.cpp:60-67), for every timeout     *)
(* below Half.  A longer one counts as expired from the start until less   *)
(* than Half of it is left; with exactly Half left either answer may come, *)
(* depending on the tick.                                                  *)
Exact == /\ verdict = "expired" => since >= reload \/ reload - since >= Half
         /\ verdict = "running" => since < reload /\ reload - since <= Half

(* A timeout that is set runs out in the end: no poll misses the window in *)
(* which the 16-bit comparison sees it.                                    *)
EveryTimeoutExpires == armed ~> verdict = "expired"

(* The inductive invariant behind Exact: the timestamp lies the rest of    *)
(* the timeout ahead of the tick, or at most MaxGap behind it.             *)
InWindow == armed => /\ idle <= since
                     /\ since - idle <= reload
                     /\ since <= reload => timestamp = Wrap(tick + (reload - since))
                     /\ since > reload => tick = Wrap(timestamp + (since - reload))
Inv == TypeOK /\ Exact /\ InWindow
=============================================================================
