-------------------------- MODULE TransferContract --------------------------
(***************************************************************************)
(* What a transfer promises, without saying how: the destination only ever *)
(* changes to the whole object offered in the current session; the sender  *)
(* reports success only when the destination is that object; the receiver  *)
(* reports success only when, in addition, the sender has succeeded.       *)
(* Either side may fail at any time.  It is the promise of main.rs         *)
(* (receive_udp, send_udp_inner) that module UdpTransfer implements.       *)
(***************************************************************************)
CONSTANTS Objects, None

VARIABLES
    offered,   \* the object of the current session
    dest,      \* the destination file
    sender,    \* the sender's result: "idle", "busy", "ok" or "error"
    receiver   \* the receiver's result

vars == <<offered, dest, sender, receiver>>

Done == {"idle", "ok", "error"}

Init ==
    /\ offered \in Objects
    /\ dest \in Objects \cup {None}
    /\ sender = "idle"
    /\ receiver = "idle"

Start ==
    /\ sender \in Done /\ receiver \in Done
    /\ offered' \in Objects
    /\ sender' = "busy" /\ receiver' = "busy"
    /\ UNCHANGED dest

Install ==
    /\ receiver = "busy"
    /\ dest' = offered
    /\ UNCHANGED <<offered, sender, receiver>>

SenderSucceeds ==
    /\ sender = "busy"
    /\ dest = offered
    /\ sender' = "ok"
    /\ UNCHANGED <<offered, dest, receiver>>

ReceiverSucceeds ==
    /\ receiver = "busy"
    /\ sender = "ok" /\ dest = offered
    /\ receiver' = "ok"
    /\ UNCHANGED <<offered, dest, sender>>

SenderFails ==
    /\ sender = "busy"
    /\ sender' = "error"
    /\ UNCHANGED <<offered, dest, receiver>>

ReceiverFails ==
    /\ receiver = "busy"
    /\ receiver' = "error"
    /\ UNCHANGED <<offered, dest, sender>>

Next ==
    \/ Start \/ Install
    \/ SenderSucceeds \/ ReceiverSucceeds
    \/ SenderFails \/ ReceiverFails

Spec == Init /\ [][Next]_vars
=============================================================================
