------------------------------- MODULE Pacer --------------------------------
(***************************************************************************)
(* The sender's pacer: account_and_wait after every datagram, and          *)
(* set_bytes_per_second when the rate controller has changed the rate.     *)
(*                                                                         *)
(* Sending takes no time; time passes while the pacer sleeps and while the *)
(* sender is held up or has nothing to send.  A sleep ends at the first    *)
(* tick at which the target has been reached.                              *)
(***************************************************************************)
EXTENDS Integers

CONSTANTS Rates,      \* bytes per tick that the controller may choose
          MaxPacket,  \* length of the longest datagram
          MinBatch, MaxBatch,  \* bounds of batch_bytes
          BatchTime   \* ticks of data that make a batch

(* What the code guarantees: rates and bounds are positive.                *)
PacerAssumption ==
    /\ Rates \subseteq Nat \ {0}
    /\ MaxPacket \in Nat
    /\ MinBatch \in Nat /\ MaxBatch \in Nat
    /\ BatchTime \in Nat

VARIABLES
    rate,     \* bytes_per_second
    elapsed,  \* started.elapsed()
    sent,     \* bytes_sent
    since,    \* bytes_since_wait
    asleep,   \* in thread::sleep
    burst,    \* history: bytes sent since `started` and since time passed
    idle      \* history: ticks awake without sending, since `started`

vars == <<rate, elapsed, sent, since, asleep, burst, idle>>

TypeOK ==
    /\ rate \in Rates
    /\ elapsed \in Nat /\ sent \in Nat /\ since \in Nat
    /\ asleep \in BOOLEAN
    /\ burst \in Nat /\ idle \in Nat

Init ==
    /\ rate \in Rates
    /\ elapsed = 0 /\ sent = 0 /\ since = 0
    /\ asleep = FALSE
    /\ burst = 0 /\ idle = 0

batch_bytes ==
    LET wanted == rate * BatchTime
    IN  IF wanted < MinBatch THEN MinBatch
        ELSE IF wanted > MaxBatch THEN MaxBatch ELSE wanted

(* A datagram goes out; at the end of a batch the pacer sleeps until the   *)
(* bytes sent since `started` are due.                                     *)
account_and_wait(bytes) ==
    /\ ~asleep
    /\ sent' = sent + bytes
    /\ burst' = burst + bytes
    /\ IF since + bytes < batch_bytes
       THEN since' = since + bytes /\ UNCHANGED asleep
       ELSE since' = 0 /\ asleep' = (sent' > rate * elapsed)
    /\ UNCHANGED <<rate, elapsed, idle>>

Sleep ==
    /\ asleep
    /\ elapsed' = elapsed + 1
    /\ burst' = 0
    /\ asleep' = (sent > rate * elapsed')
    /\ UNCHANGED <<rate, sent, since, idle>>

Pause ==
    /\ ~asleep
    /\ elapsed' = elapsed + 1
    /\ burst' = 0
    /\ idle' = idle + 1
    /\ UNCHANGED <<rate, sent, since, asleep>>

(* The account begins anew with every change of the rate.                  *)
set_bytes_per_second(r) ==
    /\ ~asleep
    /\ r # rate
    /\ rate' = r
    /\ elapsed' = 0 /\ sent' = 0 /\ since' = 0
    /\ burst' = 0 /\ idle' = 0
    /\ UNCHANGED asleep

Next ==
    \/ \E bytes \in 1 .. MaxPacket : account_and_wait(bytes)
    \/ Sleep
    \/ Pause
    \/ \E r \in Rates : set_bytes_per_second(r)

Spec == Init /\ [][Next]_vars

-----------------------------------------------------------------------------
(* Since the last change of the rate no more has gone out than the rate    *)
(* allows, but for one batch, whatever the sizes of the datagrams.         *)
KeepsTheRate == sent <= rate * elapsed + batch_bytes + MaxPacket

(* DESIGN.md wants no uncontrolled bursts.  Between two changes of the     *)
(* rate, what goes out at one moment is at most a batch, a datagram, what  *)
(* became due within a tick and what was not sent while the sender was     *)
(* idle: the pacer makes up for all the time it was idle, at once.         *)
NoBursts == burst <= batch_bytes + MaxPacket + rate + rate * idle
=============================================================================
