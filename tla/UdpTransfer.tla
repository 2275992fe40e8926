---------------------------- MODULE UdpTransfer ----------------------------
(***************************************************************************)
(* A UDP transfer: the sending and the receiving process, the connection   *)
(* and the network between them, over several sessions to one destination. *)
(* A session that failed is followed by another with the same object (a    *)
(* resume) or with another one (the source was replaced), and finds what   *)
(* its predecessors left on the receiver's disk and in the network.        *)
(***************************************************************************)
EXTENDS Sender, Receiver

CONSTANTS Sources,       \* the objects a session may offer
          MaxSessions,   \* bound: sessions
          MaxFaults      \* bound: faults, over all sessions

ASSUME TransferAssumption ==
    /\ Sources \subseteq Objects
    /\ MaxSessions \in Nat
    /\ MaxFaults \in Nat

VARIABLES faults,   \* history: faults so far
          edited,   \* history: some source was written to while it was sent
          torn      \* history: a crash left an old map beside a truncated .part

history == <<faults, edited, torn>>

vars == <<wireVars, senderVars, receiverVars, history>>

(* Every variable of the two processes and of the wire has its type; the   *)
(* hash has been fed exactly hash_frontier chunks.                         *)
TypeOK ==
    /\ WireTypeOK
    /\ SenderTypeOK
    /\ ReceiverTypeOK
    /\ faults \in Nat
    /\ edited \in BOOLEAN
    /\ torn \in BOOLEAN

Init ==
    /\ sess = 0 /\ conn = {} /\ c2s = <<>> /\ s2c = <<>> /\ net = {}
    /\ offered \in Sources
    /\ hello = offered
    /\ dest \in Sources \cup {None}
    /\ SenderInit
    /\ ReceiverInit
    /\ faults = 0
    /\ edited = FALSE
    /\ torn = FALSE

(* Both processes are started (again) and shake hands on a fresh session.  *)
StartSession ==
    /\ sess < MaxSessions
    /\ \E object \in Sources : SenderConnects(object) /\ ReceiverAccepts(object)
    /\ sess' = sess + 1
    /\ conn' = {"S", "R"}
    /\ c2s' = <<>>
    /\ s2c' = <<>>
    /\ UNCHANGED <<net, history>>

BySender(step) == step /\ UNCHANGED <<receiverVars, history>>
ByReceiver(step) == step /\ UNCHANGED <<senderVars, history>>
ByNetwork(step) == step /\ UNCHANGED <<senderVars, receiverVars, history>>

Receive(c) ==
    \E d \in net : d.seq = c /\ ByReceiver(RecvPacket(d))

PeriodicReport ==
    \E due \in BOOLEAN :
        \/ ByReceiver(NoReport(due))
        \/ \E end \in 0 .. N : ByReceiver(Report(due, end))

Fault ==
    /\ faults < MaxFaults
    /\ faults' = faults + 1
    /\ \/ SenderFault /\ UNCHANGED receiverVars
       \/ ReceiverFault /\ UNCHANGED senderVars
       \/ Disconnect /\ UNCHANGED <<senderVars, receiverVars>>
    /\ edited' = (edited \/ src' # src)
    /\ torn' = (torn \/ (rphase = "create" /\ rphase' = "error" /\ map # None))

Next ==
    \/ StartSession
    \/ BySender(SenderMain) \/ BySender(Heartbeat) \/ BySender(SenderWriteFails)
    \/ BySender(Feedback)
    \/ ByReceiver(ReceiverMain) \/ ByReceiver(ReceiverWriteFails)
    \/ ByReceiver(Control)
    \/ \E c \in Chunks : Receive(c)
    \/ \E d \in net : ByReceiver(RecvInvalid(d))
    \/ PeriodicReport
    \/ ByNetwork(Reset)
    \/ Fault

Spec == Init /\ [][Next]_vars

-----------------------------------------------------------------------------
(* Safety.                                                                 *)

SenderResult == IF SenderActive THEN "busy" ELSE sphase
ReceiverResult ==
    CASE ReceiverActive -> "busy" [] rphase = "listen" -> "idle" [] OTHER -> rphase

Contract == INSTANCE TransferContract
    WITH sender <- SenderResult, receiver <- ReceiverResult

(* The transfer keeps its contract: receive_udp installs nothing but the   *)
(* whole object of the session, send_udp_inner returns success only when   *)
(* that object is installed, and receive_udp only when the sender has.     *)
ContractKept == Contract!Spec

(* The incremental hash of receive_udp and the file it is to vouch for     *)
(* agree: what was hashed is held, and is what the .part file contains, so *)
(* no later write, duplicate or reuse changed a chunk already hashed.      *)
HashedPrefixIsOnDisk ==
    InLoop => /\ part # None
              /\ \A c \in 0 .. hash_frontier - 1 :
                    c \in bitmap /\ hasher[c] = part[c]

(* received_count, which decides completion, counts the bitmap, which      *)
(* decides what is hashed: the "hash-frontier gap" error cannot happen.    *)
CountIsBitmap == InLoop => received = Cardinality(bitmap)

(* The repair queue, shared by the two sender threads: the set mirrors the *)
(* deque, no chunk is queued twice or queued while it cools down, and both *)
(* collections stay within MAX_QUEUED_REPAIRS.                             *)
RepairQueueConsistent == Consistent(rq)

(* A resume map beside a .part file claims only chunks that the file has,  *)
(* with the content of the object the map is for, across crashes, power    *)
(* losses, resumed sessions and changes of object.  The exceptions are a   *)
(* source edited while it was being sent, and a crash of ResumeState::open *)
(* between the truncation and the new map (module ResumeState).            *)
MapClaimsAreTrue ==
    (~edited /\ ~torn /\ rphase # "create" /\ map # None /\ part # None) =>
        \A c \in map.chunks : part[c] = map.id[c]

(* Without a fault no sender fails, whatever the network loses, repeats    *)
(* and reorders, and whatever an earlier session left behind; a receiver   *)
(* can fail only after the install, when the sender's exit resets the      *)
(* connection under its acknowledgement.                                   *)
NoSpuriousFailure ==
    faults = 0 => /\ sphase # "error"
                  /\ rphase = "error" => dest = hello

(* Progress on disk is thrown away (hash mismatch and discard) only after  *)
(* one of those two: nothing the network does, and no other crash, makes a *)
(* session with an unchanged source fail its final hash.                   *)
DiscardOnlyAfterDamage ==
    [][part # None /\ part' = None /\ dest' = dest => edited \/ torn]_vars

(* As long as the map is for one object it only gains chunks, over any     *)
(* number of sessions.                                                     *)
DurableProgressGrows ==
    [][map # None /\ map' # None /\ map'.id = map.id
            => map.chunks \subseteq map'.chunks]_vars

-----------------------------------------------------------------------------
(* Liveness.  The threads run.  The network does not lose every copy of a  *)
(* chunk that is sent again and again, and a datagram that was not lost is *)
(* received; a report that lists the whole tail is due again and again     *)
(* (the report interval and the grace are finite); and a chunk that is     *)
(* reported again and again is at some time past its cooldown.  A PING is  *)
(* sent once an interval, so the drain finds its channel empty.            *)

DrainDone == PeriodicReport \/ ByReceiver(Finalize)

TailReport == \E due \in BOOLEAN : ByReceiver(Report(due, N))

Repaired(c) ==
    /\ BySender(SendRepair)
    /\ Head(batch) = c
    /\ Datagram(c, TRUE) \in net'

Requeue(c) ==
    /\ s2c # <<>> /\ c \in Head(s2c).chunks
    /\ \E expired \in SUBSET rq.last_sent :
            c \notin rq.last_sent \ expired /\ BySender(FbReport(expired))

Fairness ==
    /\ WF_vars(BySender(SenderMain))
    /\ WF_vars(BySender(Feedback))
    /\ WF_vars(ByReceiver(ReceiverMain))
    /\ WF_vars(ByReceiver(Control))
    /\ SF_vars(DrainDone)
    /\ SF_vars(TailReport)
    /\ \A c \in Chunks :
          SF_vars(Repaired(c)) /\ SF_vars(Receive(c)) /\ SF_vars(Requeue(c))

FairSpec == Spec /\ Fairness

(* Without faults a session ends with the object installed and the sender  *)
(* successful, although the network may lose any number of datagrams.      *)
Completes == SenderActive ~> (sphase = "ok" /\ dest = offered)

(* Whatever faults happen, both processes stop: neither waits for ever for *)
(* a peer that is gone.                                                    *)
SessionEnds == (conn # {}) ~> (~SenderActive /\ ~ReceiverActive)
=============================================================================
