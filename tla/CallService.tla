---------------------------- MODULE CallService ----------------------------
(***************************************************************************)
(* What a program may rely on when it makes blocking calls, whatever the   *)
(* serial line and the device do: a call returns; the answer it returns    *)
(* with is that to a request of the same kind, its own or an earlier one   *)
(* that was given up, and no answer ends two calls.                        *)
(***************************************************************************)
EXTENDS Integers, Sequences

CONSTANT Kinds   \* kinds of calls

VARIABLES
  calling,  \* a call is in progress
  kinds,    \* the kinds of the calls made so far, the last one included
  of,       \* the call whose answer was used last
  outcome   \* how the last call ended

vars == <<calling, kinds, of, outcome>>

Init == calling = FALSE /\ kinds = <<>> /\ of = 0 /\ outcome = "none"

Call(k) ==
  /\ ~calling
  /\ kinds' = Append(kinds, k)
  /\ \/ calling' = TRUE /\ outcome' = "none"
     \/ calling' = FALSE /\ outcome' = "ERROR_TX"
  /\ UNCHANGED of

Refuse ==
  /\ ~calling
  /\ outcome' = "ERROR_NORESOURCES"
  /\ UNCHANGED <<calling, kinds, of>>

Answered ==
  /\ calling /\ calling' = FALSE
  /\ \E n \in of + 1 .. Len(kinds) :
       /\ of' = n
       /\ outcome' \in IF kinds[n] = kinds[Len(kinds)]
                       THEN {"ERROR_NOERROR", "ERROR_NODEERROR"}
                       ELSE {"ERROR_WRONGRESPONSE"}
  /\ UNCHANGED kinds

GiveUp ==
  /\ calling /\ calling' = FALSE
  /\ outcome' = "ERROR_NORESPONSE"
  /\ UNCHANGED <<kinds, of>>

Next == (\E k \in Kinds : Call(k)) \/ Refuse \/ Answered \/ GiveUp

Spec == Init /\ [][Next]_vars

(* Every call returns.                                                     *)
Returns == calling ~> ~calling
Service == Spec /\ Returns
=============================================================================
