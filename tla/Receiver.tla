------------------------------ MODULE Receiver ------------------------------
(***************************************************************************)
(* The receiving process of a UDP transfer: receive_on after the           *)
(* handshake, receive_udp on the main thread and its control thread, which *)
(* turns control lines into events of an mpsc channel.                     *)
(*                                                                         *)
(* The main loop of receive_udp does, in this order, one udp.recv (which   *)
(* times out after 20 ms), a drain of all events, and then completion or   *)
(* checkpoint and report.  rphase tells the first two stages apart; the    *)
(* rest runs in the step that finds no more events.                        *)
(*                                                                         *)
(* The disk is the .part file, its .part.map and the destination.  A       *)
(* checkpoint and an install are one step here; module ResumeState models  *)
(* the crashes inside them.  Time is left out: a checkpoint or a report    *)
(* may be due at any test of it, and a report may stop at any earlier      *)
(* frontier, which covers every value of mature_frontier.                  *)
(***************************************************************************)
EXTENDS Wire

CONSTANTS HashEvery,   \* 64: new chunks between two advances of the hash
          MaxRanges,   \* MAX_RANGES_PER_REPORT
          Reusable     \* chunks whose content the --reuse-from candidate holds

(* A .part.map: the identity in its header and its bitmap.                 *)
Maps == [id : Objects, chunks : SUBSET Chunks]

ASSUME ReceiverAssumption ==
    /\ None \notin Maps
    /\ HashEvery \in Nat \ {0}
    /\ MaxRanges \in Nat \ {0}
    /\ Reusable \subseteq Chunks

VARIABLES
    rphase,         \* where the main thread is
    hello,          \* the hash the sender offered
    bitmap,         \* ResumeState.bitmap, as a set of chunks
    received,       \* ResumeState.received_count
    frontier,       \* highest + 1, or 0
    ended,          \* END was received
    dirty,          \* checkpoint_dirty
    hash_frontier,  \* chunks fed to the incremental hash
    hasher,         \* what was fed, chunk by chunk
    ctl,            \* the control thread: "off", "run" or "done"
    events,         \* the mpsc channel
    part,           \* the .part file, or None
    map,            \* the .part.map file: its object and its chunks, or None
    dest            \* the destination file, or None

receiverVars == <<rphase, hello, bitmap, received, frontier, ended, dirty,
                  hash_frontier, hasher, ctl, events, part, map, dest>>

diskVars == <<part, map, dest>>

ReceiverPhases == {"listen", "open", "create", "reused", "recv", "drain",
                   "announce", "ackwait", "retry", "ok", "error"}

(* COMPLETE_ACK, CANCEL, END and PING as events, and ERROR for a failed    *)
(* read.                                                                   *)
Events == ClientLines \cup {"ERROR"}

ReceiverTypeOK ==
    /\ rphase \in ReceiverPhases
    /\ hello \in Objects
    /\ bitmap \subseteq Chunks
    /\ received \in Nat
    /\ frontier \in 0 .. N
    /\ ended \in BOOLEAN
    /\ dirty \in BOOLEAN
    /\ hash_frontier \in 0 .. N
    /\ hasher \in [0 .. hash_frontier - 1 -> Bytes]
    /\ ctl \in {"off", "run", "done"}
    /\ events \in Seq(Events)
    /\ part \in Objects \cup {None}
    /\ map \in Maps \cup {None}
    /\ dest \in Objects \cup {None}

ReceiverActive == rphase \notin {"listen", "ok", "error"}

InLoop == rphase \in {"recv", "drain"}

EmptyHash == [c \in {} |-> Zero]

ReceiverInit ==
    /\ rphase = "listen"
    /\ bitmap = {}
    /\ received = 0
    /\ frontier = 0
    /\ ended = FALSE
    /\ dirty = FALSE
    /\ hash_frontier = 0
    /\ hasher = EmptyHash
    /\ ctl = "off"
    /\ events = <<>>
    /\ part = None
    /\ map = None

(* The memory of a process that has just started, or is gone.              *)
ReceiverMemoryReset ==
    /\ bitmap' = {}
    /\ received' = 0
    /\ frontier' = 0
    /\ ended' = FALSE
    /\ dirty' = FALSE
    /\ hash_frontier' = 0
    /\ hasher' = EmptyHash
    /\ ctl' = "off"
    /\ events' = <<>>

(* receive_on: accept, complete the handshake and parse the hello.         *)
ReceiverAccepts(object) ==
    /\ ~ReceiverActive
    /\ rphase' = "open"
    /\ hello' = object
    /\ ReceiverMemoryReset
    /\ UNCHANGED diskVars

(* The process ends: its socket closes, the threads and the memory are     *)
(* gone.                                                                   *)
ReceiverExits(result) ==
    /\ rphase' = result
    /\ conn' = conn \ {"R"}
    /\ ReceiverMemoryReset
    /\ UNCHANGED hello

(* What the main thread holds besides the disk and the control thread.     *)
memoryVars == <<hello, bitmap, received, frontier, ended, dirty,
                hash_frontier, hasher>>

-----------------------------------------------------------------------------
(* Helpers.                                                                *)

(* The file that set_len leaves after truncation.                          *)
Blank == [c \in Chunks |-> Zero]

(* highest_received + 1 of a set of chunks, as the only member of a set.   *)
FrontierOf(chunks) ==
    {f \in 0 .. N : /\ f > 0 => f - 1 \in chunks
                    /\ \A c \in chunks : c < f}

(* advance_hash_frontier: where the run of chunks held from `from` ends    *)
(* (a set of one), and what the hash has been fed by then.                 *)
RunEnds(chunks, from) ==
    {e \in from .. N : /\ \A c \in from .. e - 1 : c \in chunks
                       /\ e < N => e \notin chunks}

Fed(file, fed, from, end) ==
    [c \in 0 .. end - 1 |-> IF c < from THEN fed[c] ELSE file[c]]

advance_hash_frontier(file, chunks, fed, from) ==
    \E end \in RunEnds(chunks, from) :
        /\ hash_frontier' = end
        /\ hasher' = Fed(file, fed, from, end)

(* Seeded fault: the end of the report taken as inclusive.                 *)
MissingInclusive(end) == {c \in 0 .. end : c \notin bitmap}

(* missing_ranges, flattened: the chunks below `end` that are not held,    *)
(* up to the end of the MaxRanges-th run of them.                          *)
Missing(end) ==
    LET starts == {s \in 0 .. end - 1 :
                     s \notin bitmap /\ (s = 0 \/ s - 1 \in bitmap)}
    IN  {c \in 0 .. end - 1 :
            c \notin bitmap /\ Cardinality({s \in starts : s <= c}) <= MaxRanges}

(* Seeded fault: a high-water mark instead of the bitmap.                  *)
CheckpointBelowFrontier(chunks) == map' = [id |-> hello, chunks |-> 0 .. frontier - 1]

(* checkpoint: the map now claims the bitmap.                              *)
Checkpoint(chunks) == map' = [id |-> hello, chunks |-> chunks]

CheckpointIfDirty == IF dirty THEN Checkpoint(bitmap) ELSE UNCHANGED map

-----------------------------------------------------------------------------
(* Opening: the checks of receive_udp before its loop.                     *)

(* Seeded fault: only the length of the destination is compared.           *)
SameLength == dest # None

(* The destination is the offered object already: length and hash agree.   *)
AlreadyInstalled == dest = hello

OpenComplete ==
    /\ rphase = "open"
    /\ AlreadyInstalled
    /\ SendToSender(Line("COMPLETE", {}))
    /\ rphase' = "retry"
    /\ UNCHANGED <<sess, conn, c2s, net, memoryVars, ctl, events, diskVars>>

(* Seeded fault: the hash in the map's header is not compared.             *)
MapPresent == map # None /\ part # None

(* load_map of this object, beside a .part file of its size.               *)
MapTrusted == map # None /\ part # None /\ map.id = hello

(* apply_reusable_content until its checkpoint: what the candidate has is  *)
(* written into the .part file, also over chunks held, and marked, but no  *)
(* map claims it yet.  A crash between two of the writes is a crash here   *)
(* with fewer chunks copied.                                               *)
ReuseContent(held) ==
    /\ \E copied \in SUBSET Reusable :
         /\ part' = [c \in Chunks |-> IF c \in copied THEN hello[c] ELSE part[c]]
         /\ bitmap' = held \cup copied
         /\ received' = Cardinality(held \cup copied)
    /\ rphase' = "reused"
    /\ UNCHANGED <<wireVars, hello, frontier, ended, dirty, hash_frontier,
                   hasher, ctl, events, dest>>

(* The map is written again when the candidate added chunks.               *)
SaveReused == IF bitmap = map.chunks THEN UNCHANGED map ELSE Checkpoint(bitmap)

(* Seeded fault: the bitmap that was read is not used.                     *)
NothingLoaded == {}

(* The bitmap that load_map returns.                                       *)
Loaded == map.chunks

(* ResumeState::open of a trusted map.                                     *)
OpenResume ==
    /\ rphase = "open"
    /\ ~AlreadyInstalled
    /\ MapTrusted
    /\ ReuseContent(Loaded)
    /\ UNCHANGED map

(* ResumeState::open otherwise: the .part file is truncated and extended;  *)
(* until the checkpoint that follows, an old map is still beside it.       *)
OpenFresh ==
    /\ rphase = "open"
    /\ ~AlreadyInstalled
    /\ ~MapTrusted
    /\ part' = Blank
    /\ rphase' = "create"
    /\ UNCHANGED <<wireVars, memoryVars, ctl, events, map, dest>>

CreateMap ==
    /\ rphase = "create"
    /\ Checkpoint({})
    /\ ReuseContent({})

(* The checkpoint of apply_reusable_content, the first advance of the      *)
(* hash, and READY ... GO.                                                 *)
BeginLoop ==
    /\ rphase = "reused"
    /\ SaveReused
    /\ frontier' \in FrontierOf(bitmap)
    /\ advance_hash_frontier(part, bitmap, EmptyHash, 0)
    /\ SendToSender(Line("READY", bitmap))
    /\ ctl' = "run"
    /\ rphase' = "recv"
    /\ UNCHANGED <<sess, conn, c2s, net, hello, bitmap, received, ended, dirty,
                   events, part, dest>>

(* send_completion_and_wait, without a control thread.                     *)
RetryAcked ==
    /\ rphase = "retry"
    /\ c2s # <<>>
    /\ c2s' = Tail(c2s)
    /\ ReceiverExits(IF Head(c2s) = "COMPLETE_ACK" THEN "ok" ELSE "error")
    /\ UNCHANGED <<sess, s2c, net, diskVars>>

RetryStopped ==
    /\ rphase = "retry"
    /\ ReceiverAtEOF
    /\ ReceiverExits("error")
    /\ UNCHANGED <<sess, c2s, s2c, net, diskVars>>

-----------------------------------------------------------------------------
(* Stage 1 of the loop: udp.recv.                                          *)

(* Seeded fault: the tag is not verified.                                  *)
AnyTag(d) == TRUE

(* The tag is under the key of this session.                               *)
TagValid(d) == d.sess = sess

(* Seeded fault: no test of the bitmap before the write.                   *)
EveryCopy(c) == TRUE

(* The chunk is not held yet.                                              *)
FirstCopy(c) == c \notin bitmap

(* A datagram of this session.  The first copy of a chunk is written,      *)
(* marked and counted; a later copy changes nothing.  The network may      *)
(* keep a copy (duplication).                                              *)
RecvPacket(d) ==
    /\ rphase = "recv"
    /\ d \in net
    /\ TagValid(d)
    /\ IF FirstCopy(d.seq)
       THEN /\ part' = [part EXCEPT ![d.seq] = d.data]
            /\ bitmap' = bitmap \cup {d.seq}
            /\ received' = received + 1
            /\ dirty' = TRUE
            /\ IF received' % HashEvery = 0 \/ (d.repair /\ d.seq = hash_frontier)
               THEN advance_hash_frontier(part', bitmap', hasher, hash_frontier)
               ELSE UNCHANGED <<hash_frontier, hasher>>
       ELSE UNCHANGED <<bitmap, received, dirty, hash_frontier, hasher, part>>
    /\ frontier' = IF d.seq < frontier THEN frontier ELSE d.seq + 1
    /\ net' \in Remaining(d)
    /\ rphase' = "drain"
    /\ UNCHANGED <<sess, conn, c2s, s2c, hello, ended, ctl, events, map, dest>>

(* A datagram whose tag is not of this session (or that is malformed in    *)
(* another way) is only counted.                                           *)
RecvInvalid(d) ==
    /\ rphase = "recv"
    /\ d \in net
    /\ ~TagValid(d)
    /\ net' \in Remaining(d)
    /\ rphase' = "drain"
    /\ UNCHANGED <<sess, conn, c2s, s2c, memoryVars, ctl, events, diskVars>>

RecvTimeout ==
    /\ rphase = "recv"
    /\ rphase' = "drain"
    /\ UNCHANGED <<wireVars, memoryVars, ctl, events, diskVars>>

-----------------------------------------------------------------------------
(* Stage 2: one event of the drain.                                        *)

TakeEvent(event) ==
    /\ events # <<>>
    /\ Head(events) = event
    /\ events' = Tail(events)

DrainEnd ==
    /\ rphase = "drain"
    /\ TakeEvent("END")
    /\ ended' = TRUE
    /\ UNCHANGED <<wireVars, rphase, hello, bitmap, received, frontier, dirty,
                   hash_frontier, hasher, ctl, diskVars>>

(* PONG, from the drain and from the wait for the acknowledgement.         *)
AnswerPing ==
    /\ rphase \in {"drain", "ackwait"}
    /\ TakeEvent("PING")
    /\ "S" \in conn => RoomFor(s2c)
    /\ SendToSender(Line("PONG", {}))
    /\ UNCHANGED <<sess, conn, c2s, net, rphase, hello, bitmap, received,
                   frontier, ended, dirty, hash_frontier, hasher, ctl, diskVars>>

(* CANCEL and a failed control connection keep the progress; the           *)
(* acknowledgement of a completion that was never announced does not.      *)
DrainStop ==
    /\ rphase = "drain"
    /\ events # <<>>
    /\ Head(events) \in {"CANCEL", "ERROR", "COMPLETE_ACK"}
    /\ IF Head(events) = "COMPLETE_ACK" THEN UNCHANGED map ELSE CheckpointIfDirty
    /\ ReceiverExits("error")
    /\ UNCHANGED <<sess, c2s, s2c, net, part, dest>>

-----------------------------------------------------------------------------
(* Stage 3, in the step that finds no more events.                         *)

Drained == rphase = "drain" /\ events = <<>>

AllReceived == ended /\ received = N

(* Seeded fault: the hash is not compared.                                 *)
AnyHash(object) == TRUE

(* The hash of what was fed is the offered one.                            *)
HashMatches(object) == object = hello

(* The last advance, sync_all and the comparison of the hashes; then the   *)
(* install, or CANCEL and discard.  Nothing is discarded when a gap is     *)
(* found first, or when the CANCEL cannot be written.                      *)
Finalize ==
    /\ Drained
    /\ AllReceived
    /\ \E end \in RunEnds(bitmap, hash_frontier) :
         LET object == Fed(part, hasher, hash_frontier, end)
         IN  IF HashMatches(object)
             THEN /\ hash_frontier' = end
                  /\ hasher' = object
                  /\ dest' = part
                  /\ part' = None
                  /\ map' = None
                  /\ rphase' = "announce"
                  /\ UNCHANGED <<conn, s2c, hello, bitmap, received, frontier,
                                 ended, dirty, ctl, events>>
             ELSE /\ \/ /\ end = N
                        /\ SendToSender(Line("CANCEL", {}))
                        /\ part' = None
                        /\ map' = None
                     \/ /\ end # N \/ "S" \notin conn
                        /\ UNCHANGED <<s2c, part, map>>
                  /\ ReceiverExits("error")
                  /\ UNCHANGED dest
    /\ UNCHANGED <<sess, c2s, net>>

(* Seeded fault: END does not open the tail to the report.                 *)
ReportEndsAtFrontier == 0 .. frontier

(* The periodic checkpoint and the periodic report, each if it is due.     *)
ReportEnds == 0 .. frontier \cup (IF ended THEN {N} ELSE {})

CheckpointDue(due) ==
    IF due /\ dirty
    THEN Checkpoint(bitmap) /\ dirty' = FALSE
    ELSE UNCHANGED <<map, dirty>>

NoReport(checkpoint) ==
    /\ Drained
    /\ ~AllReceived
    /\ CheckpointDue(checkpoint)
    /\ rphase' = "recv"
    /\ UNCHANGED <<wireVars, hello, bitmap, received, frontier, ended,
                   hash_frontier, hasher, ctl, events, part, dest>>

Report(checkpoint, end) ==
    /\ Drained
    /\ ~AllReceived
    /\ CheckpointDue(checkpoint)
    /\ end \in ReportEnds
    /\ "S" \in conn => RoomFor(s2c)
    /\ SendToSender(Line("M", Missing(end)))
    /\ rphase' = "recv"
    /\ UNCHANGED <<sess, conn, c2s, net, hello, bitmap, received, frontier,
                   ended, hash_frontier, hasher, ctl, events, part, dest>>

-----------------------------------------------------------------------------
(* After the install.                                                      *)

Announce ==
    /\ rphase = "announce"
    /\ SendToSender(Line("COMPLETE", {}))
    /\ rphase' = "ackwait"
    /\ UNCHANGED <<sess, conn, c2s, net, memoryVars, ctl, events, diskVars>>

AckWaitEnd ==
    /\ rphase = "ackwait"
    /\ TakeEvent("END")
    /\ UNCHANGED <<wireVars, rphase, hello, bitmap, received, frontier, ended,
                   dirty, hash_frontier, hasher, ctl, diskVars>>

AckWaitStop ==
    /\ rphase = "ackwait"
    /\ events # <<>>
    /\ Head(events) \in {"COMPLETE_ACK", "CANCEL", "ERROR"}
    /\ ReceiverExits(IF Head(events) = "COMPLETE_ACK" THEN "ok" ELSE "error")
    /\ UNCHANGED <<sess, c2s, s2c, net, diskVars>>

(* A write to the sender after it closed fails: COMPLETE, M and PONG, with *)
(* no checkpoint, and READY, after the one of apply_reusable_content.      *)
ReceiverWriteFails ==
    /\ \/ /\ \/ rphase = "open" /\ AlreadyInstalled
             \/ rphase = "announce"
             \/ Drained /\ ~AllReceived
             \/ rphase \in {"drain", "ackwait"} /\ events # <<>> /\ Head(events) = "PING"
          /\ UNCHANGED map
       \/ rphase = "reused" /\ SaveReused
    /\ "S" \notin conn
    /\ ReceiverExits("error")
    /\ UNCHANGED <<sess, c2s, s2c, net, part, dest>>

ReceiverMain ==
    \/ OpenComplete \/ OpenResume \/ OpenFresh \/ CreateMap \/ BeginLoop
    \/ RetryAcked \/ RetryStopped
    \/ RecvTimeout
    \/ DrainEnd \/ AnswerPing \/ DrainStop
    \/ Finalize \/ Announce \/ AckWaitEnd \/ AckWaitStop

-----------------------------------------------------------------------------
(* The control thread.                                                     *)

CtlLine ==
    /\ ctl = "run"
    /\ c2s # <<>>
    /\ RoomFor(events)
    /\ c2s' = Tail(c2s)
    /\ events' = Append(events, Head(c2s))
    /\ ctl' = IF Head(c2s) \in {"COMPLETE_ACK", "CANCEL"} THEN "done" ELSE "run"
    /\ UNCHANGED <<sess, conn, s2c, net, rphase, hello, bitmap, received,
                   frontier, ended, dirty, hash_frontier, hasher, diskVars>>

CtlStopped ==
    /\ ctl = "run"
    /\ ReceiverAtEOF
    /\ events' = Append(events, "ERROR")
    /\ ctl' = "done"
    /\ UNCHANGED <<wireVars, rphase, hello, bitmap, received, frontier, ended,
                   dirty, hash_frontier, hasher, diskVars>>

Control == CtlLine \/ CtlStopped

-----------------------------------------------------------------------------
(* Faults of the receiving host.                                           *)

(* No control line within the idle timeout.                                *)
CtlTimeout ==
    /\ ctl = "run"
    /\ c2s = <<>>
    /\ events' = Append(events, "ERROR")
    /\ ctl' = "done"
    /\ UNCHANGED <<wireVars, rphase, hello, bitmap, received, frontier, ended,
                   dirty, hash_frontier, hasher, diskVars>>

(* The wait for the acknowledgement ends.                                  *)
AckTimeout ==
    /\ rphase \in {"ackwait", "retry"}
    /\ ReceiverExits("error")
    /\ UNCHANGED <<sess, c2s, s2c, net, diskVars>>

(* udp.recv fails: the progress is checkpointed.                           *)
RecvError ==
    /\ rphase = "recv"
    /\ CheckpointIfDirty
    /\ ReceiverExits("error")
    /\ UNCHANGED <<sess, c2s, s2c, net, part, dest>>

(* Any other I/O error, or the process is killed: no checkpoint.           *)
ReceiverCrash ==
    /\ ReceiverActive
    /\ ReceiverExits("error")
    /\ UNCHANGED <<sess, c2s, s2c, net, diskVars>>

(* The host loses power: writes that no checkpoint claims may be lost.     *)
PowerLoss ==
    /\ ReceiverActive
    /\ part # None
    /\ LET claimed == IF map = None THEN {} ELSE map.chunks
       IN  \E lost \in SUBSET (Chunks \ claimed) :
             /\ lost # {}
             /\ part' = [c \in Chunks |-> IF c \in lost THEN Zero ELSE part[c]]
    /\ ReceiverExits("error")
    /\ UNCHANGED <<sess, c2s, s2c, net, map, dest>>

ReceiverFault == CtlTimeout \/ AckTimeout \/ RecvError \/ ReceiverCrash \/ PowerLoss
=============================================================================
