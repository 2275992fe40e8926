------------------------------ MODULE Heartbeat -----------------------------
(***************************************************************************)
(* The control connection of a UDP transfer against the clock: heartbeats, *)
(* reports, both idle timeouts and the wait for COMPLETE_ACK, while the    *)
(* pacer and the disk hold the two main threads up.                        *)
(*                                                                         *)
(* Time is discrete and everything that can happen at once does: a thread  *)
(* that is neither asleep nor waiting takes its step before the next tick. *)
(* Which chunks are lost is arbitrary; only how many are missing counts.   *)
(* Either process may vanish without a word (a host or a path that fails). *)
(***************************************************************************)
EXTENDS Integers, Sequences, FiniteSetsExt

CONSTANTS SenderTimeout,   \* idle_timeout of the sender
          ReceiverTimeout, \* idle_timeout of the receiver, set on its own
          MaxInterval,     \* the second that bounds heartbeat_interval
          ReportInterval,  \* hello.report_interval
          CheckpointInterval,
          Chunks,          \* chunks to send
          Stride, Few,     \* a first pass repairs Few chunks every Stride
          Batch,           \* repairs of one turn after END
          Cost,            \* ticks that the pacer sleeps for a datagram
          Stall,           \* longest checkpoint or install
          Delay            \* longest way of a line

ASSUME HeartbeatAssumption ==
    /\ {SenderTimeout, ReceiverTimeout} \subseteq Nat \ {0}
    /\ {MaxInterval, ReportInterval, Stride, Batch, Cost} \subseteq Nat \ {0}
    /\ {CheckpointInterval, Chunks, Few, Stall, Delay} \subseteq Nat
    /\ ReportInterval < SenderTimeout

VARIABLES
    spc,       \* where the sender's main thread is
    next,      \* sequence of the first pass
    left,      \* repairs taken and not yet sent
    swait,     \* what is left of its sleep
    beat,      \* last_heartbeat.elapsed()
    pending,   \* length of the repair queue
    complete,
    serr,      \* feedback_error is set
    ssil,      \* time since the feedback thread read a line
    rpc,       \* where the receiver's main thread is
    rwait,     \* what is left of its disk operation
    since,     \* last_report.elapsed()
    ckpt,      \* last_checkpoint.elapsed()
    dirty,     \* checkpoint_dirty
    missing,   \* chunks that are not there
    ended,
    events,    \* control_rx
    reading,   \* the receiver's control thread runs
    rsil,      \* time since that thread read a line
    ackAge,    \* time in the wait for COMPLETE_ACK
    toR, toS   \* lines on their way, with their ages

sender   == <<spc, next, left, swait, beat>>
feedback == <<pending, complete, serr, ssil>>
receiver == <<rpc, rwait, since, ckpt, ended, ackAge>>
object   == <<missing, dirty>>
control  == <<reading, rsil>>
vars == <<sender, feedback, receiver, object, control, events, toR, toS>>

SenderRuns   == spc \in {"first", "extra", "tail"}
ReceiverRuns == rpc \in {"recv", "saved", "install", "ack", "closing"}

ToReceiver == {"PING", "END", "COMPLETE_ACK", "CANCEL"}
Reports == {"M"} \X (0 .. Chunks)
ToSender == Reports \cup ({"PONG", "COMPLETE", "EOF"} \X {0})

TypeOK ==
    /\ spc \in {"first", "extra", "tail", "done", "failed", "dead"}
    /\ rpc \in {"recv", "saved", "install", "ack", "closing", "done", "failed", "dead"}
    /\ {next, left, pending, missing} \subseteq 0 .. Chunks
    /\ {swait, beat, ssil, rwait, since, ckpt, rsil, ackAge} \subseteq Nat
    /\ {complete, serr, dirty, ended, reading} \subseteq BOOLEAN
    /\ events \in Seq(ToReceiver \cup {"Error"})
    /\ toR \in Seq([line : ToReceiver, age : 0 .. Delay])
    /\ toS \in Seq([line : ToSender, age : 0 .. Delay])

(* The receiver has sent READY before the sender begins.                   *)
Init ==
    /\ spc = "first" /\ next = 0 /\ left = 0 /\ swait = 0 /\ beat = 0
    /\ pending = 0 /\ complete = FALSE /\ serr = FALSE /\ ssil = 0
    /\ rpc = "recv" /\ rwait = 0 /\ since = 0 /\ ckpt = 0 /\ ackAge = 0
    /\ missing = Chunks /\ dirty = FALSE /\ ended = FALSE
    /\ events = <<>> /\ reading = TRUE /\ rsil \in 0 .. Min({Delay, ReceiverTimeout})
    /\ toR = <<>> /\ toS = <<>>

Lines(words) == [i \in 1 .. Len(words) |-> [line |-> words[i], age |-> 0]]

-----------------------------------------------------------------------------
(* The sender's main thread.                                               *)

heartbeat_interval == Min({SenderTimeout \div 3, MaxInterval})

SenderTurn == SenderRuns /\ swait = 0 /\ left = 0

(* At the top of both loops.                                               *)
send_heartbeat_if_due ==
    IF beat >= heartbeat_interval
    THEN beat' = 0 /\ toR' = toR \o Lines(<<"PING">>)
    ELSE UNCHANGED <<beat, toR>>

(* A datagram goes out and arrives or does not; the pacer sleeps.          *)
SendDatagram ==
    /\ swait' = Cost
    /\ \/ UNCHANGED object
       \/ /\ missing > 0 /\ rpc \in {"recv", "saved"}
          /\ missing' = missing - 1 /\ dirty' = TRUE

FirstPass ==
    /\ SenderTurn /\ spc = "first" /\ ~serr
    /\ next < Chunks
    /\ send_heartbeat_if_due
    /\ SendDatagram
    /\ spc' = IF next % Stride = Stride - 1 THEN "extra" ELSE "first"
    /\ next' = next + 1
    /\ UNCHANGED <<left, feedback, receiver, control, events, toS>>

(* Seeded fault: more is taken than is queued.                             *)
TakesMoreThanQueued(n) ==
    /\ left' = n
    /\ pending' = pending - n
    /\ UNCHANGED <<complete, serr, ssil>>

take_repairs(n) ==
    /\ left' = Min({n, pending})
    /\ pending' = pending - left'
    /\ UNCHANGED <<complete, serr, ssil>>

FirstPassRepairs ==
    /\ SenderTurn /\ spc = "extra"
    /\ take_repairs(Few)
    /\ spc' = "first"
    /\ UNCHANGED <<next, swait, beat, receiver, object, control, events, toR, toS>>

(* Neither the error nor a heartbeat is looked at between two repairs.     *)
SendRepair ==
    /\ SenderRuns /\ swait = 0 /\ left > 0
    /\ left' = left - 1
    /\ SendDatagram
    /\ UNCHANGED <<spc, next, beat, feedback, receiver, control, events, toR, toS>>

SendEnd ==
    /\ SenderTurn /\ spc = "first"
    /\ next = Chunks
    /\ toR' = toR \o Lines(<<"END">>)
    /\ spc' = "tail"
    /\ UNCHANGED <<next, left, swait, beat, feedback, receiver, object, control, events, toS>>

(* Seeded fault: no heartbeats after END.                                  *)
NoHeartbeatInTail ==
    /\ SenderTurn /\ spc = "tail" /\ ~complete /\ ~serr
    /\ take_repairs(Batch)
    /\ swait' = IF left' = 0 THEN 1 ELSE 0
    /\ UNCHANGED <<spc, next, beat, receiver, object, control, events, toR, toS>>

(* Seeded fault: the loop after END does not look at the error.            *)
IgnoresFeedbackError ==
    /\ SenderTurn /\ spc = "tail" /\ ~complete
    /\ send_heartbeat_if_due
    /\ take_repairs(Batch)
    /\ swait' = IF left' = 0 THEN 1 ELSE 0
    /\ UNCHANGED <<spc, next, receiver, object, control, events, toS>>

TailTurn ==
    /\ SenderTurn /\ spc = "tail" /\ ~complete /\ ~serr
    /\ send_heartbeat_if_due
    /\ take_repairs(Batch)
    /\ swait' = IF left' = 0 THEN 1 ELSE 0
    /\ UNCHANGED <<spc, next, receiver, object, control, events, toS>>

SendAck ==
    /\ SenderTurn /\ spc = "tail" /\ complete
    /\ toR' = toR \o Lines(<<"COMPLETE_ACK">>)
    /\ spc' = "done"
    /\ UNCHANGED <<next, left, swait, beat, feedback, receiver, object, control, events, toS>>

(* check_feedback_error at the top of both loops.                          *)
SenderAborts ==
    /\ SenderTurn /\ serr
    /\ \/ spc = "first" /\ next < Chunks
       \/ spc = "tail"
    /\ toR' = toR \o Lines(<<"CANCEL">>)
    /\ spc' = "failed"
    /\ UNCHANGED <<next, left, swait, beat, feedback, receiver, object, control, events, toS>>

-----------------------------------------------------------------------------
(* The sender's feedback thread.                                           *)

FeedbackReads == SenderRuns /\ ~complete /\ ~serr

read_feedback ==
    /\ FeedbackReads /\ toS # <<>>
    /\ LET line == Head(toS).line
       IN  /\ complete' = (line[1] = "COMPLETE")
           /\ serr' = (line[1] = "EOF")
           /\ IF line \in Reports
              THEN pending' \in pending .. Min({pending + line[2], Chunks})
              ELSE UNCHANGED pending
    /\ ssil' = 0
    /\ toS' = Tail(toS)
    /\ UNCHANGED <<sender, receiver, object, control, events, toR>>

FeedbackTimeout ==
    /\ FeedbackReads /\ ssil >= SenderTimeout
    /\ serr' = TRUE
    /\ UNCHANGED <<sender, pending, complete, ssil, receiver, object, control, events, toR, toS>>

-----------------------------------------------------------------------------
(* The receiver's control thread.                                          *)

ReadControl ==
    /\ ReceiverRuns /\ reading /\ toR # <<>>
    /\ events' = Append(events, Head(toR).line)
    /\ reading' = (Head(toR).line \in {"PING", "END"})
    /\ rsil' = 0
    /\ toR' = Tail(toR)
    /\ UNCHANGED <<sender, feedback, receiver, object, toS>>

ControlTimeout ==
    /\ ReceiverRuns /\ reading /\ rsil >= ReceiverTimeout
    /\ events' = Append(events, "Error")
    /\ reading' = FALSE
    /\ UNCHANGED <<sender, feedback, receiver, object, rsil, toR, toS>>

-----------------------------------------------------------------------------
(* The receiver's main thread.                                             *)

ReceiverTurn == ReceiverRuns /\ rwait = 0

HandleEnd ==
    /\ ReceiverTurn /\ rpc \in {"recv", "ack"}
    /\ events # <<>> /\ Head(events) = "END"
    /\ ended' = TRUE
    /\ events' = Tail(events)
    /\ UNCHANGED <<sender, feedback, rpc, rwait, since, ckpt, ackAge, object, control, toR, toS>>

HandlePing ==
    /\ ReceiverTurn /\ rpc \in {"recv", "ack"}
    /\ events # <<>> /\ Head(events) = "PING"
    /\ toS' = toS \o Lines(<<<<"PONG", 0>>>>)
    /\ events' = Tail(events)
    /\ UNCHANGED <<sender, feedback, receiver, object, control, toR>>

HandleAck ==
    /\ ReceiverTurn /\ rpc = "ack"
    /\ events # <<>> /\ Head(events) = "COMPLETE_ACK"
    /\ rpc' = "done"
    /\ events' = Tail(events)
    /\ UNCHANGED <<sender, feedback, rwait, since, ckpt, ended, ackAge, object, control, toR, toS>>

(* CANCEL, a control thread that stopped, or an answer that never came.    *)
(* What has arrived is first made durable, unless it is installed already. *)
ReceiverAborts ==
    /\ ReceiverTurn
    /\ \/ /\ rpc \in {"recv", "ack"} /\ events # <<>>
          /\ Head(events) \in {"CANCEL", "Error"}
       \/ rpc = "ack" /\ ackAge >= ReceiverTimeout
    /\ rwait' \in IF rpc = "recv" /\ dirty THEN 0 .. Stall ELSE {0}
    /\ rpc' = "closing"
    /\ UNCHANGED <<sender, feedback, since, ckpt, ended, ackAge, object, control, events, toR, toS>>

ReceiverCloses ==
    /\ ReceiverTurn /\ rpc = "closing"
    /\ rpc' = "failed"
    /\ toS' = toS \o Lines(<<<<"EOF", 0>>>>)
    /\ UNCHANGED <<sender, feedback, rwait, since, ckpt, ended, ackAge, object, control, events, toR>>

Receiving == ReceiverTurn /\ rpc = "recv" /\ events = <<>>

(* sync_all, the last of the hash and install.                             *)
Install ==
    /\ Receiving /\ ended /\ missing = 0
    /\ rwait' \in 0 .. Stall
    /\ rpc' = "install"
    /\ UNCHANGED <<sender, feedback, since, ckpt, ended, ackAge, object, control, events, toR, toS>>

SendComplete ==
    /\ ReceiverTurn /\ rpc = "install"
    /\ toS' = toS \o Lines(<<<<"M", 0>>, <<"COMPLETE", 0>>>>)
    /\ rpc' = "ack" /\ ackAge' = 0
    /\ UNCHANGED <<sender, feedback, rwait, since, ckpt, ended, object, control, events, toR>>

CheckpointDue == dirty /\ ckpt >= CheckpointInterval

Checkpoint ==
    /\ Receiving /\ ~(ended /\ missing = 0)
    /\ CheckpointDue
    /\ rwait' \in 0 .. Stall
    /\ rpc' = "saved"
    /\ dirty' = FALSE /\ ckpt' = 0
    /\ UNCHANGED <<sender, feedback, since, ended, ackAge, missing, control, events, toR, toS>>

(* At the end of a turn, also of one that made a checkpoint.               *)
Report ==
    /\ \/ Receiving /\ ~(ended /\ missing = 0) /\ ~CheckpointDue
       \/ ReceiverTurn /\ rpc = "saved"
    /\ since >= ReportInterval
    /\ \E n \in 0 .. missing : toS' = toS \o Lines(<<<<"M", n>>>>)
    /\ since' = 0
    /\ rpc' = "recv"
    /\ UNCHANGED <<sender, feedback, rwait, ckpt, ended, ackAge, object, control, events, toR>>

NoReport ==
    /\ ReceiverTurn /\ rpc = "saved"
    /\ since < ReportInterval
    /\ rpc' = "recv"
    /\ UNCHANGED <<sender, feedback, rwait, since, ckpt, ended, ackAge, object, control, events, toR, toS>>

-----------------------------------------------------------------------------
(* A process or its path fails for good; lines on their way still arrive.  *)
SenderDies ==
    /\ SenderRuns
    /\ spc' = "dead"
    /\ UNCHANGED <<next, left, swait, beat, feedback, receiver, object, control, events, toR, toS>>

ReceiverDies ==
    /\ ReceiverRuns
    /\ rpc' = "dead"
    /\ UNCHANGED <<sender, feedback, rwait, since, ckpt, ended, ackAge, object, control, events, toR, toS>>

(* No thread could take a step, and no line has been on its way for long.  *)
SenderWaits == SenderRuns =>
    /\ swait > 0
    /\ FeedbackReads => ssil < SenderTimeout
ReceiverWaits == ReceiverRuns =>
    /\ reading => rsil < ReceiverTimeout
    /\ rwait = 0 =>
         /\ events = <<>>
         /\ \/ rpc = "ack" /\ ackAge < ReceiverTimeout
            \/ /\ rpc = "recv" /\ ~(ended /\ missing = 0)
               /\ ~CheckpointDue /\ since < ReportInterval
InTime ==
    /\ FeedbackReads => \A i \in DOMAIN toS : toS[i].age < Delay
    /\ ReceiverRuns /\ reading => \A i \in DOMAIN toR : toR[i].age < Delay

Older(lines) == [i \in DOMAIN lines |-> [lines[i] EXCEPT !.age = Min({@ + 1, Delay})]]
Later(running, age) == IF running THEN age + 1 ELSE age
Upto(bound, age) == Min({bound, age + 1})

Tick ==
    /\ SenderRuns \/ ReceiverRuns
    /\ SenderWaits /\ ReceiverWaits /\ InTime
    /\ swait' = Max({swait - 1, 0}) /\ rwait' = Max({rwait - 1, 0})
    /\ beat' = Upto(heartbeat_interval, beat)
    /\ since' = Upto(ReportInterval, since)
    /\ ckpt' = Upto(CheckpointInterval, ckpt)
    /\ ssil' = Later(SenderRuns, ssil) /\ rsil' = Later(ReceiverRuns, rsil)
    /\ ackAge' = Later(rpc = "ack", ackAge)
    /\ toR' = Older(toR) /\ toS' = Older(toS)
    /\ UNCHANGED <<spc, next, left, pending, complete, serr,
                   rpc, ended, object, reading, events>>

Terminated == ~SenderRuns /\ ~ReceiverRuns /\ UNCHANGED vars

Next ==
    \/ FirstPass \/ FirstPassRepairs \/ SendRepair \/ SendEnd \/ TailTurn
    \/ SendAck \/ SenderAborts
    \/ read_feedback \/ FeedbackTimeout
    \/ ReadControl \/ ControlTimeout
    \/ HandleEnd \/ HandlePing \/ HandleAck \/ ReceiverAborts \/ ReceiverCloses
    \/ Install \/ SendComplete \/ Checkpoint \/ Report \/ NoReport
    \/ SenderDies \/ ReceiverDies
    \/ Tick \/ Terminated

Spec == Init /\ [][Next]_vars

-----------------------------------------------------------------------------
(* What the two command lines must agree on.  The receiver's timeout has   *)
(* room for the sender's heartbeat interval and a whole batch of repairs   *)
(* after it, and until COMPLETE is noticed, with the way of a line at both *)
(* ends (READY and the first heartbeat, COMPLETE and COMPLETE_ACK); the    *)
(* sender's has room for a report that waits for the disk.  Neither side   *)
(* knows the other's timeout, the hello does not carry it, and the command *)
(* line tests none of this but ReportInterval < SenderTimeout.             *)
BatchFits ==
    /\ heartbeat_interval + Max({Batch, 1 + Few}) * Cost + 2 * Delay < ReceiverTimeout
    /\ ReportInterval + Stall + Delay < SenderTimeout

(* Two processes that live never take each other for dead, whatever is     *)
(* lost: where BatchFits holds of the two timeouts, the heartbeats at the  *)
(* tops of the loops come in time for the receiver, the reports and PONGs  *)
(* between two disk operations for the sender, and COMPLETE_ACK for the    *)
(* receiver's deadline.                                                    *)
NoFalseTimeout ==
    BatchFits /\ spc # "dead" /\ rpc # "dead" =>
        ~serr /\ spc # "failed" /\ rpc \notin {"closing", "failed"}

(* Silence ends a transfer: the receiver within its timeout and the two    *)
(* disk operations it may be in or must still make, the sender within its  *)
(* timeout and the repairs that it took before check_feedback_error.       *)
AbortsInTime ==
    /\ SenderRuns => ssil <= SenderTimeout + Max({Batch, 1 + Few}) * Cost
    /\ ReceiverRuns => rsil <= ReceiverTimeout + 2 * Stall
=============================================================================
