---------------------------- MODULE TcpTransfer ----------------------------
(***************************************************************************)
(* A transfer over TCP: `tcp`, whose data follow the handshake on the      *)
(* control connection, and `tcp4`, whose data come on Lanes connections of *)
(* their own, each read and written by a thread.                           *)
(*                                                                         *)
(* The source may be edited, extended or truncated after it was hashed for *)
(* the hello.  A connection keeps the order of what is written to it.  A   *)
(* read times out only where neither side can go on; connections may break *)
(* and processes die at any time, up to MaxFaults.                         *)
(***************************************************************************)
EXTENDS Integers, Sequences, FiniteSets

CONSTANTS Lanes,       \* TCP4_LANES
          MaxLen,      \* bound: length of a file
          Bytes,       \* what a unit of a file may be
          Zero,        \* what set_len fills a file with
          None,        \* an absent file
          Modes,       \* the transports that are used
          MaxFaults,   \* bound: broken connections and dead processes
          MaxChanges   \* bound: changes of the source

Objects == UNION {[1 .. n -> Bytes] : n \in 0 .. MaxLen}

ASSUME TcpAssumption ==
    /\ Lanes \in Nat \ {0} /\ MaxLen \in Nat
    /\ Zero \in Bytes
    /\ None \notin Objects
    /\ Modes \subseteq {"tcp", "tcp4"} /\ Modes # {}
    /\ MaxFaults \in Nat /\ MaxChanges \in Nat

LaneIds == 0 .. Lanes - 1

VARIABLES
    source,   \* the file that is sent
    mode,     \* the transport of the session
    hello,    \* the object that its hello names: size and hash
    spc,      \* the sender
    size,     \* send_tcp4: the size that it reads again
    called,   \* lanes it has connected
    spos,     \* units each lane has sent
    stream,   \* units under way in each lane
    rpc,      \* the receiver
    joined,   \* lanes that were accepted
    rpos,     \* units each lane has written
    tmp,      \* the temporary file, or None
    dest,     \* the destination, or None
    reply,    \* control lines to the sender
    acked,    \* COMPLETE_ACK is under way
    faults,   \* history
    changes   \* history

sender == <<spc, size, called, spos>>
receiver == <<rpc, joined, rpos, tmp, dest>>
wire == <<stream, reply, acked>>
vars == <<source, mode, hello, sender, receiver, wire, faults, changes>>

SenderSteps == {"idle", "ready", "connect", "send", "await", "ok", "error"}
ReceiverSteps == {"idle", "accept", "read", "ack", "ok", "error", "killed"}

TypeOK ==
    /\ source \in Objects /\ hello \in Objects
    /\ mode \in Modes
    /\ spc \in SenderSteps /\ rpc \in ReceiverSteps
    /\ size \in 0 .. MaxLen
    /\ called \in 0 .. Lanes
    /\ spos \in [LaneIds -> 0 .. MaxLen]
    /\ rpos \in [LaneIds -> 0 .. MaxLen]
    /\ stream \in [LaneIds -> Seq(Bytes)]
    /\ joined \subseteq LaneIds
    /\ tmp \in Objects \cup {None} /\ dest \in Objects \cup {None}
    /\ reply \in Seq({"READY", "COMPLETE", "ERROR"})
    /\ acked \in BOOLEAN
    /\ faults \in Nat /\ changes \in Nat

Init ==
    /\ source \in Objects
    /\ mode \in Modes
    /\ hello = source
    /\ spc = "idle" /\ rpc = "idle"
    /\ size = 0 /\ called = 0
    /\ spos = [l \in LaneIds |-> 0]
    /\ rpos = [l \in LaneIds |-> 0]
    /\ stream = [l \in LaneIds |-> <<>>]
    /\ joined = {}
    /\ tmp = None
    /\ dest \in {None, source}
    /\ reply = <<>>
    /\ acked = FALSE
    /\ faults = 0
    /\ changes = 0

SenderActive == spc \in {"ready", "connect", "send", "await"}
ReceiverActive == rpc \in {"accept", "read", "ack"}

-----------------------------------------------------------------------------
Smaller(a, b) == IF a < b THEN a ELSE b

(* Seeded fault: the remainder is given to no lane.                        *)
EvenShare(n, l) == [start |-> (n \div Lanes) * l,
                    end |-> (n \div Lanes) * l + (n \div Lanes)]

(* tcp4_lane_range.                                                        *)
tcp4_lane_range(n, l) ==
    LET start == (n \div Lanes) * l + Smaller(n % Lanes, l)
    IN  [start |-> start,
         end |-> start + (n \div Lanes) + IF l < n % Lanes THEN 1 ELSE 0]

(* The lanes of the session and the part of n units that each carries.     *)
Used == IF mode = "tcp" THEN {0} ELSE LaneIds
Share(n, l) ==
    IF mode = "tcp" THEN [start |-> 0, end |-> n] ELSE tcp4_lane_range(n, l)

(* send and receive_on up to READY: the file is hashed, the hello sent and *)
(* the temporary file created (receive_tcp lets it grow; nobody looks at   *)
(* what is not written yet).                                               *)
Start(m) ==
    /\ ~SenderActive /\ ~ReceiverActive
    /\ mode' = m
    /\ hello' = source
    /\ spc' = "ready"
    /\ rpc' = "accept"
    /\ joined' = IF m = "tcp" THEN LaneIds ELSE {}
    /\ tmp' = [i \in DOMAIN source |-> Zero]
    /\ stream' = [l \in LaneIds |-> <<>>]
    /\ reply' = <<"READY">>
    /\ acked' = FALSE
    /\ size' = 0 /\ called' = 0
    /\ spos' = [l \in LaneIds |-> 0]
    /\ rpos' = [l \in LaneIds |-> 0]
    /\ UNCHANGED <<source, dest, faults, changes>>

(* read_acceptance; send_tcp4 reads the size.                              *)
Ready ==
    /\ spc = "ready"
    /\ reply # <<>> /\ Head(reply) = "READY"
    /\ reply' = Tail(reply)
    /\ size' = Len(source)
    /\ spc' = IF mode = "tcp" THEN "send" ELSE "connect"
    /\ UNCHANGED <<source, mode, hello, called, spos, receiver, stream, acked,
                   faults, changes>>

(* send_tcp4 connects the next lane; after the last the threads start.     *)
ConnectLane ==
    /\ spc = "connect"
    /\ called' = called + 1
    /\ spc' = IF called' = Lanes THEN "send" ELSE "connect"
    /\ UNCHANGED <<source, mode, hello, size, spos, receiver, wire,
                   faults, changes>>

(* send_tcp reads up to the end of the file, a lane of tcp4 up to the end  *)
(* of its range.                                                           *)
SendAt(l) == Share(size, l).start + spos[l] + 1

Sent(l) == SendAt(l) > IF mode = "tcp" THEN Len(source) ELSE Share(size, l).end

Send(l) ==
    /\ spc = "send"
    /\ l \in Used /\ ~Sent(l)
    /\ SendAt(l) \in DOMAIN source
    /\ spos' = [spos EXCEPT ![l] = @ + 1]
    /\ stream' = [stream EXCEPT ![l] = Append(@, source[SendAt(l)])]
    /\ UNCHANGED <<source, mode, hello, spc, size, called, receiver, reply,
                   acked, faults, changes>>

SendDone ==
    /\ spc = "send"
    /\ \A l \in Used : Sent(l)
    /\ spc' = "await"
    /\ UNCHANGED <<source, mode, hello, size, called, spos, receiver, wire,
                   faults, changes>>

(* A lane meets the end of a file that was truncated.                      *)
SendShort ==
    /\ spc = "send"
    /\ \E l \in Used : ~Sent(l) /\ SendAt(l) \notin DOMAIN source
    /\ spc' = "error"
    /\ UNCHANGED <<source, mode, hello, size, called, spos, receiver, wire,
                   faults, changes>>

(* expect_completion.                                                      *)
Completion ==
    /\ spc = "await"
    /\ reply # <<>>
    /\ reply' = Tail(reply)
    /\ acked' = (Head(reply) = "COMPLETE")
    /\ spc' = IF Head(reply) = "COMPLETE" THEN "ok" ELSE "error"
    /\ UNCHANGED <<source, mode, hello, size, called, spos, receiver, stream,
                   faults, changes>>

-----------------------------------------------------------------------------
(* receive_tcp4 accepts the lanes in whatever order they arrive.           *)
AcceptLane(l) ==
    /\ rpc = "accept"
    /\ l < called /\ l \notin joined
    /\ joined' = joined \cup {l}
    /\ UNCHANGED <<source, mode, hello, sender, rpc, rpos, tmp, dest, wire,
                   faults, changes>>

LanesComplete ==
    /\ rpc = "accept"
    /\ joined = LaneIds
    /\ rpc' = "read"
    /\ UNCHANGED <<source, mode, hello, sender, joined, rpos, tmp, dest, wire,
                   faults, changes>>

Want(l) == Share(Len(hello), l).end - Share(Len(hello), l).start

(* The unit of the file that a lane writes next.                           *)
Offset(l) == Share(Len(hello), l).start + rpos[l] + 1

Receive(l) ==
    /\ rpc = "read"
    /\ l \in Used /\ rpos[l] < Want(l)
    /\ stream[l] # <<>>
    /\ stream' = [stream EXCEPT ![l] = Tail(@)]
    /\ tmp' = [tmp EXCEPT ![Offset(l)] = Head(stream[l])]
    /\ rpos' = [rpos EXCEPT ![l] = @ + 1]
    /\ UNCHANGED <<source, mode, hello, sender, rpc, joined, dest, reply,
                   acked, faults, changes>>

(* Seeded fault: the hash is not compared.                                 *)
AnyHash == TRUE

HashMatches == tmp = hello

(* Everything has arrived: sync, hash and install, or the error and, in    *)
(* receive_on, the removal of the temporary file.                          *)
Finish ==
    /\ rpc = "read"
    /\ \A l \in Used : rpos[l] = Want(l)
    /\ tmp' = None
    /\ IF HashMatches
       THEN /\ dest' = tmp
            /\ rpc' = "ack"
            /\ reply' = Append(reply, "COMPLETE")
       ELSE /\ rpc' = "error"
            /\ reply' = Append(reply, "ERROR")
            /\ UNCHANGED dest
    /\ UNCHANGED <<source, mode, hello, sender, joined, rpos, stream, acked,
                   faults, changes>>

(* send_completion_and_wait: data behind the end of the object are no      *)
(* control frame.                                                          *)
Acknowledged ==
    /\ rpc = "ack"
    /\ IF mode = "tcp" /\ stream[0] # <<>>
       THEN rpc' = "error"
       ELSE acked /\ rpc' = "ok"
    /\ UNCHANGED <<source, mode, hello, sender, joined, rpos, tmp, dest, wire,
                   faults, changes>>

-----------------------------------------------------------------------------
(* Seeded fault: the temporary file stays after an error.                  *)
LeaveTemporary == UNCHANGED tmp

(* receive_on removes the temporary file of a failed session.              *)
RemoveTemporary == tmp' = None

(* A read or a connection fails.                                           *)
SenderGivesUp ==
    /\ spc' = "error"
    /\ UNCHANGED <<source, mode, hello, size, called, spos, receiver, wire,
                   changes>>

ReceiverGivesUp ==
    /\ rpc' = "error"
    /\ RemoveTemporary
    /\ UNCHANGED <<source, mode, hello, sender, joined, rpos, dest, wire,
                   changes>>

(* The sender waits for a reply, the receiver for data or for the          *)
(* acknowledgement, which the other side will not send any more.           *)
SenderStuck == spc \in {"ready", "await"} /\ reply = <<>>

(* Seeded fault: a receiver without lanes waits for ever.                  *)
PatientReceiver ==
    \/ rpc = "read" /\ \E l \in Used : rpos[l] < Want(l) /\ stream[l] = <<>>
    \/ rpc = "ack" /\ ~acked /\ (mode = "tcp4" \/ stream[0] = <<>>)

ReceiverStuck ==
    \/ rpc = "accept" /\ joined # LaneIds /\ 0 .. called - 1 \subseteq joined
    \/ rpc = "read" /\ \E l \in Used : rpos[l] < Want(l) /\ stream[l] = <<>>
    \/ rpc = "ack" /\ ~acked /\ (mode = "tcp4" \/ stream[0] = <<>>)

SenderTimeout ==
    /\ SenderStuck
    /\ ~ReceiverActive \/ ReceiverStuck
    /\ SenderGivesUp
    /\ UNCHANGED faults

ReceiverTimeout ==
    /\ ReceiverStuck
    /\ ~SenderActive \/ SenderStuck
    /\ ReceiverGivesUp
    /\ UNCHANGED faults

Fault == faults < MaxFaults /\ faults' = faults + 1

SenderFault == SenderActive /\ Fault /\ SenderGivesUp
ReceiverFault == ReceiverActive /\ Fault /\ ReceiverGivesUp

(* The receiver process is killed; nobody removes its temporary file, and  *)
(* the next process has a name of its own for it.                          *)
ReceiverKilled ==
    /\ ReceiverActive
    /\ Fault
    /\ rpc' = "killed"
    /\ UNCHANGED <<source, mode, hello, sender, joined, rpos, tmp, dest, wire,
                   changes>>

Change(object) ==
    /\ changes < MaxChanges
    /\ changes' = changes + 1
    /\ source' = object
    /\ UNCHANGED <<mode, hello, sender, receiver, wire, faults>>

Step ==
    \/ Ready \/ ConnectLane \/ SendDone \/ SendShort \/ Completion
    \/ \E l \in LaneIds : Send(l) \/ AcceptLane(l) \/ Receive(l)
    \/ LanesComplete \/ Finish \/ Acknowledged
    \/ SenderTimeout \/ ReceiverTimeout

Next ==
    \/ \E m \in Modes : Start(m)
    \/ Step
    \/ SenderFault \/ ReceiverFault \/ ReceiverKilled
    \/ \E object \in Objects : Change(object)

Spec == Init /\ [][Next]_vars

-----------------------------------------------------------------------------
(* Sender and receiver as the contract of a transfer sees them.            *)
SenderResult == IF SenderActive THEN "busy" ELSE spc
ReceiverResult ==
    IF ReceiverActive THEN "busy" ELSE IF rpc = "killed" THEN "error" ELSE rpc

Contract == INSTANCE TransferContract
            WITH offered <- hello, sender <- SenderResult,
                 receiver <- ReceiverResult

(* Both TCP transports keep the contract of a transfer, for every          *)
(* interleaving of the lanes and every change of the source: the           *)
(* destination only ever becomes the whole object of the hello, and each   *)
(* side's success means what the contract says.                            *)
ContractKept == Contract!Spec

(* A session of an unchanged file over connections that hold succeeds on   *)
(* both sides, whatever the length of the file and the speed of its lanes: *)
(* no two of the waits in it are for each other.                           *)
NoSpuriousFailure ==
    (faults = 0 /\ changes = 0) => spc # "error" /\ rpc # "error"

(* A receiver that was not killed leaves no temporary file, whichever way  *)
(* its session failed.                                                     *)
TemporaryRemoved == rpc \in {"ok", "error"} => tmp = None

(* Threads run on and a read that waits in vain times out.                 *)
FairSpec == Spec /\ WF_vars(Step)

(* Every session ends on both sides, also when the source shrinks while    *)
(* both sides wait.                                                        *)
SessionEnds ==
    (SenderActive \/ ReceiverActive) ~> (~SenderActive /\ ~ReceiverActive)
=============================================================================
