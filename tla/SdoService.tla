----------------------------- MODULE SdoService -----------------------------
(***************************************************************************)
(* What the SDO client promises its application, channel by channel: a     *)
(* transfer that was started is reported once; a write that is reported OK *)
(* has put the whole buffer into the object, a read that is reported OK    *)
(* has put the whole object into the buffer; an object never holds a part  *)
(* of a buffer, whatever becomes of the transfer; and neither the object   *)
(* nor the application's buffer changes while no transfer runs.            *)
(***************************************************************************)
CONSTANTS Channels, Muxes,
          Contents   \* the whole contents a buffer or an object can hold

VARIABLES transfer,  \* of each channel: what is asked for, while it runs
          object,    \* object dictionary of each node
          buffer,    \* what each channel's buffer for reads holds
          report     \* the report the last step made, if it made one

vars == <<transfer, object, buffer, report>>

None == [kind |-> "none"]
Transfers == [kind : {"write"}, mux : Muxes, content : Contents]
             \union [kind : {"read"}, mux : Muxes]
NoReport == [ok |-> FALSE]
Reported(c, ok) == [ch |-> c, ok |-> ok]

Init == /\ transfer = [c \in Channels |-> None]
        /\ object \in [Channels -> [Muxes -> Contents]]
        /\ report = NoReport

(* A buffer in use may hold anything until the transfer is reported.       *)
OnlyBuffer(c) == \A d \in Channels \ {c} : buffer'[d] = buffer[d]

Start(c) == /\ transfer[c] = None
            /\ \E t \in Transfers : transfer' = [transfer EXCEPT ![c] = t]
            /\ OnlyBuffer(c)
            /\ report' = NoReport
            /\ UNCHANGED object

Fill(c) == /\ transfer[c].kind = "read"
           /\ OnlyBuffer(c)
           /\ report' = NoReport
           /\ UNCHANGED <<transfer, object>>

TakeEffect(c) == /\ transfer[c].kind = "write"
                 /\ object' = [object EXCEPT ![c][transfer[c].mux] = transfer[c].content]
                 /\ report' = NoReport
                 /\ UNCHANGED <<transfer, buffer>>

Finish(c, ok) == /\ transfer[c] # None
                 /\ transfer' = [transfer EXCEPT ![c] = None]
                 /\ report' = Reported(c, ok)
                 /\ OnlyBuffer(c)
                 /\ UNCHANGED object

SucceedWrite(c) == /\ Finish(c, TRUE)
                   /\ transfer[c].kind = "write"
                   /\ object[c][transfer[c].mux] = transfer[c].content
                   /\ UNCHANGED buffer

SucceedRead(c) == /\ Finish(c, TRUE)
                  /\ transfer[c].kind = "read"
                  /\ buffer'[c] = object[c][transfer[c].mux]

FailTransfer(c) == Finish(c, FALSE)

(* Nothing happens; the report of the last step is over.                   *)
Quieten == report' = NoReport /\ UNCHANGED <<transfer, object, buffer>>

Next == \/ Quieten
        \/ \E c \in Channels : \/ Start(c) \/ Fill(c) \/ TakeEffect(c)
                               \/ SucceedWrite(c) \/ SucceedRead(c) \/ FailTransfer(c)

Spec == Init /\ [][Next]_vars
=============================================================================
