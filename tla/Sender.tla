------------------------------- MODULE Sender -------------------------------
(***************************************************************************)
(* The sending process of a UDP transfer: send after the handshake,        *)
(* read_acceptance, send_udp and send_udp_inner on the main thread, and    *)
(* read_feedback on the feedback thread.                                   *)
(*                                                                         *)
(* The threads share the repair queue (a mutex), complete (an atomic flag) *)
(* and feedback_error (a mutex); every other variable belongs to the main  *)
(* thread.  Time is left out: a heartbeat may be due at any test of it,    *)
(* and a report finds an arbitrary set of cooldowns expired.  Rates,       *)
(* telemetry counters and the printed summary are not modelled here.       *)
(***************************************************************************)
EXTENDS Wire, RepairQueue

CONSTANTS RepairEvery,   \* 16: repairs are taken after every 16th chunk of the pass
          PassLimit,     \* 4: repairs taken at a time during the pass
          RepairLimit,   \* 1024: repairs taken at a time after END
          PingLimit      \* bound: PING is sent only into a shorter queue (0: never)

ASSUME SenderAssumption ==
    /\ RepairEvery \in Nat \ {0}
    /\ PassLimit \in Nat \ {0}
    /\ RepairLimit \in Nat \ {0}
    /\ PingLimit \in Nat

VARIABLES
    sphase,          \* where the main thread is
    src,             \* the source file as it is now
    offered,         \* its hash when the session began
    sequence,        \* next chunk of the first pass
    durable,         \* chunks the receiver already held (config.durable_chunks)
    batch,           \* repairs taken and still to be sent
    rq,              \* pending: the repair queue
    complete,        \* the receiver said COMPLETE
    feedback_error,  \* the feedback thread stored an error
    fb               \* the feedback thread: "off", "run" or "done"

senderVars == <<sphase, src, offered, sequence, durable, batch, rq,
                complete, feedback_error, fb>>

SenderPhases == {"idle", "accept", "pass", "repair", "ok", "error"}

SenderTypeOK ==
    /\ sphase \in SenderPhases
    /\ src \in Objects
    /\ offered \in Objects
    /\ sequence \in 0 .. N
    /\ durable \subseteq Chunks
    /\ batch \in Seq(Chunks)
    /\ rq \in RepairQueues(Chunks)
    /\ complete \in BOOLEAN
    /\ feedback_error \in BOOLEAN
    /\ fb \in {"off", "run", "done"}

SenderActive == sphase \in {"accept", "pass", "repair"}

SenderInit ==
    /\ sphase = "idle"
    /\ src = offered
    /\ sequence = 0
    /\ durable = {}
    /\ batch = <<>>
    /\ rq = NewRepairQueue
    /\ complete = FALSE
    /\ feedback_error = FALSE
    /\ fb = "off"

(* The memory of a process that has just started, or is gone.              *)
SenderMemoryReset ==
    /\ sequence' = 0
    /\ durable' = {}
    /\ batch' = <<>>
    /\ rq' = NewRepairQueue
    /\ complete' = FALSE
    /\ feedback_error' = FALSE
    /\ fb' = "off"

(* send: hash the file, connect and complete the handshake.                *)
SenderConnects(object) ==
    /\ ~SenderActive
    /\ sphase' = "accept"
    /\ src' = object
    /\ offered' = object
    /\ SenderMemoryReset

(* The process ends: its socket closes, both threads and the memory are    *)
(* gone.                                                                   *)
SenderExits(result) ==
    /\ sphase' = result
    /\ conn' = conn \ {"S"}
    /\ SenderMemoryReset
    /\ UNCHANGED <<src, offered>>

-----------------------------------------------------------------------------
(* The main thread: read_acceptance.                                       *)

(* READY ... GO: the pass starts, and with it the feedback thread.         *)
AcceptReady ==
    /\ sphase = "accept"
    /\ s2c # <<>>
    /\ Head(s2c).type = "READY"
    /\ durable' = Head(s2c).chunks
    /\ s2c' = Tail(s2c)
    /\ sphase' = "pass"
    /\ fb' = "run"
    /\ UNCHANGED <<sess, conn, c2s, net, src, offered, sequence, batch, rq,
                   complete, feedback_error>>

(* COMPLETE: the receiver already has the object.                          *)
AcceptComplete ==
    /\ sphase = "accept"
    /\ s2c # <<>>
    /\ Head(s2c).type = "COMPLETE"
    /\ s2c' = Tail(s2c)
    /\ SendToReceiver("COMPLETE_ACK")
    /\ SenderExits("ok")
    /\ UNCHANGED <<sess, net>>

(* End of file instead of an answer.                                       *)
AcceptFails ==
    /\ sphase = "accept"
    /\ SenderAtEOF
    /\ SenderExits("error")
    /\ UNCHANGED <<sess, c2s, s2c, net>>

-----------------------------------------------------------------------------
(* The main thread: send_udp_inner.                                        *)

Datagram(c, repair) ==
    [sess |-> sess, seq |-> c, data |-> src[c], repair |-> repair]

(* One iteration of the first pass.                                        *)
PassSkip ==
    /\ sphase = "pass" /\ batch = <<>> /\ sequence < N
    /\ ~feedback_error
    /\ sequence \in durable
    /\ sequence' = sequence + 1
    /\ UNCHANGED <<wireVars, sphase, src, offered, durable, batch, rq,
                   complete, feedback_error, fb>>

PassSend ==
    /\ sphase = "pass" /\ batch = <<>> /\ sequence < N
    /\ ~feedback_error
    /\ sequence \notin durable
    /\ Transmit(Datagram(sequence, FALSE))
    /\ IF sequence % RepairEvery = RepairEvery - 1
       THEN \E taken \in take_repairs(rq, PassLimit) :
                batch' = taken.batch /\ rq' = taken.rq
       ELSE UNCHANGED <<batch, rq>>
    /\ sequence' = sequence + 1
    /\ UNCHANGED <<sess, conn, c2s, s2c, sphase, src, offered, durable,
                   complete, feedback_error, fb>>

PassEnd ==
    /\ sphase = "pass" /\ batch = <<>> /\ sequence = N
    /\ SendToReceiver("END")
    /\ sphase' = "repair"
    /\ UNCHANGED <<sess, conn, s2c, net, src, offered, sequence, durable,
                   batch, rq, complete, feedback_error, fb>>

(* One iteration of the repair loop, up to the sends of its batch.         *)
RepairStep ==
    /\ sphase = "repair" /\ batch = <<>>
    /\ ~complete /\ ~feedback_error
    /\ \E taken \in take_repairs(rq, RepairLimit) :
            batch' = taken.batch /\ rq' = taken.rq
    /\ UNCHANGED <<wireVars, sphase, src, offered, sequence, durable,
                   complete, feedback_error, fb>>

(* The batch goes out with no look at complete or feedback_error between   *)
(* its datagrams.                                                          *)
SendRepair ==
    /\ sphase \in {"pass", "repair"} /\ batch # <<>>
    /\ Transmit(Datagram(Head(batch), TRUE))
    /\ batch' = Tail(batch)
    /\ UNCHANGED <<sess, conn, c2s, s2c, sphase, src, offered, sequence,
                   durable, rq, complete, feedback_error, fb>>

(* Seeded fault: the repair loop does not look at feedback_error.          *)
AtPassTop == batch = <<>> /\ sphase = "pass" /\ sequence < N

(* The tops of both loops, where an error is seen and a heartbeat sent.    *)
AtLoopTop ==
    /\ batch = <<>>
    /\ \/ sphase = "pass" /\ sequence < N
       \/ sphase = "repair" /\ ~complete

Heartbeat ==
    /\ AtLoopTop
    /\ ~feedback_error
    /\ Len(c2s) < PingLimit
    /\ SendToReceiver("PING")
    /\ UNCHANGED <<sess, conn, s2c, net, senderVars>>

(* check_feedback_error; send_udp then tells the receiver.                 *)
FailOnFeedback ==
    /\ AtLoopTop
    /\ feedback_error
    /\ SendToReceiver("CANCEL")
    /\ SenderExits("error")
    /\ UNCHANGED <<sess, s2c, net>>

(* complete was seen: join the feedback thread and acknowledge.            *)
SenderFinish ==
    /\ sphase = "repair" /\ batch = <<>>
    /\ complete
    /\ SendToReceiver("COMPLETE_ACK")
    /\ SenderExits("ok")
    /\ UNCHANGED <<sess, s2c, net>>

(* A write after the receiver closed fails: PING, END and COMPLETE_ACK on  *)
(* the control connection, or a datagram to a port nobody listens on.      *)
SenderWriteFails ==
    /\ SenderActive
    /\ "R" \notin conn
    /\ SenderExits("error")
    /\ UNCHANGED <<sess, c2s, s2c, net>>

SenderMain ==
    \/ AcceptReady \/ AcceptComplete \/ AcceptFails
    \/ PassSkip \/ PassSend \/ PassEnd
    \/ RepairStep \/ SendRepair
    \/ FailOnFeedback \/ SenderFinish

-----------------------------------------------------------------------------
(* The feedback thread: read_feedback, one line of the connection a step.  *)

FbReads(type) ==
    /\ fb = "run"
    /\ s2c # <<>>
    /\ Head(s2c).type = type
    /\ s2c' = Tail(s2c)

(* M: expire cooldowns, then queue what is reported missing.               *)
FbReport(expired) ==
    /\ FbReads("M")
    /\ rq' \in enqueue_repairs(Retain(rq, expired), Head(s2c).chunks)
    /\ UNCHANGED <<sess, conn, c2s, net, sphase, src, offered, sequence,
                   durable, batch, complete, feedback_error, fb>>

FbPong ==
    /\ FbReads("PONG")
    /\ UNCHANGED <<sess, conn, c2s, net, senderVars>>

FbComplete ==
    /\ FbReads("COMPLETE")
    /\ complete' = TRUE
    /\ fb' = "done"
    /\ UNCHANGED <<sess, conn, c2s, net, sphase, src, offered, sequence,
                   durable, batch, rq, feedback_error>>

(* The receiver cancelled.                                                 *)
FbCancel ==
    /\ FbReads("CANCEL")
    /\ feedback_error' = TRUE
    /\ fb' = "done"
    /\ UNCHANGED <<sess, conn, c2s, net, sphase, src, offered, sequence,
                   durable, batch, rq, complete>>

(* The connection ended.                                                   *)
FbStopped ==
    /\ fb = "run"
    /\ SenderAtEOF
    /\ feedback_error' = TRUE
    /\ fb' = "done"
    /\ UNCHANGED <<wireVars, sphase, src, offered, sequence, durable, batch,
                   rq, complete>>

Feedback ==
    \/ \E expired \in SUBSET rq.last_sent : FbReport(expired)
    \/ FbPong \/ FbComplete \/ FbCancel \/ FbStopped

-----------------------------------------------------------------------------
(* Faults of the sending host.                                             *)

(* No line within the idle timeout.                                        *)
FbTimeout ==
    /\ fb = "run"
    /\ s2c = <<>>
    /\ feedback_error' = TRUE
    /\ fb' = "done"
    /\ UNCHANGED <<wireVars, sphase, src, offered, sequence, durable, batch,
                   rq, complete>>

(* An I/O error on the file or the socket; before the pass there is no     *)
(* CANCEL.                                                                 *)
SenderIoError ==
    /\ SenderActive
    /\ IF sphase = "accept" THEN UNCHANGED c2s ELSE SendToReceiver("CANCEL")
    /\ SenderExits("error")
    /\ UNCHANGED <<sess, s2c, net>>

(* The process is killed.                                                  *)
SenderCrash ==
    /\ SenderActive
    /\ SenderExits("error")
    /\ UNCHANGED <<sess, c2s, s2c, net>>

(* Somebody writes to the source file while it is being sent.              *)
SourceEdited ==
    /\ SenderActive
    /\ \E c \in Chunks, b \in Bytes :
            b # src[c] /\ src' = [src EXCEPT ![c] = b]
    /\ UNCHANGED <<wireVars, sphase, offered, sequence, durable, batch, rq,
                   complete, feedback_error, fb>>

SenderFault == FbTimeout \/ SenderIoError \/ SenderCrash \/ SourceEdited
=============================================================================
