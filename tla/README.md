# packet-tide: TLA+ models, model checking and proofs

packet-tide moves one file (or a tree of files) from a sender to a receiver.
An authenticated TCP *control connection* carries lines of text, the file's
chunks travel in UDP datagrams, the receiver reports what it is missing, and
the sender repairs it. Interrupted transfers resume from a `.part` file and a
`.part.map` bitmap beside the destination. The interesting part of the program
is therefore a small distributed system (two processes with two threads each,
a lossy network, a disk that may crash), and that is what the modules here
describe. Line numbers refer to `src/src/main.rs` unless another file is named;
`PROJECT.json` maps every definition to its lines.

## 1. Inventory

| Component | State it keeps | Operations | Modelled |
|---|---|---|---|
| UDP sender, `send`, `read_acceptance`, `send_udp`, `send_udp_inner`, `read_feedback` | next chunk of the pass, durable chunks, batch of repairs; shared by its two threads: repair queue (mutex), `complete` (atomic), `feedback_error` (mutex) | accept, first pass, END, repair loop, heartbeat, finish; per control line: M, PONG, COMPLETE, CANCEL, end of file, timeout | `Sender` |
| Repair queue, `RepairQueue`, `enqueue_repairs`, `take_repairs` | deque, set of its members, repairs cooling down | retain, enqueue, take, all capped by `MAX_QUEUED_REPAIRS` | `RepairQueue` |
| UDP receiver, `receive_on`, `receive_udp` and its control thread | receipt bitmap and count, frontier, `ended`, incremental hash and its frontier, mpsc channel of control events | open (fresh, resume, already complete), receive, drain, checkpoint, report, finalize, announce, wait for the acknowledgement | `Receiver` |
| Reordering grace and telemetry, `mature_frontier`, `ReceiverTelemetry`, `parse_feedback_report` | frontier history with times, whether reordering was seen, counters | observe a datagram, prune, report, test of a report's counters | `Feedback` |
| Resume state, `resume.rs` | `.part`, `.part.map`, temporary map, destination | `open`, `checkpoint`, `install`, `discard`, `load_map` | `ResumeState` (system calls), `Receiver` (whole operations) |
| Control connection, UDP path | lines and datagrams in flight | write, read, close, reset, lose, duplicate, reorder | `Wire` (external) |
| Handshake and framing, `auth.rs` | nonces, transcript, direction keys, sequence numbers | four handshake lines, key derivation, `ControlWriter::send`, `ControlReader::recv` | `Session` |
| Content reuse, `cdc.rs`, `apply_reusable_content` | manifest of the source, chunks of the candidate, covered ranges | scan, parse, copy with verification, merge, mark | `Reuse`; its outcome in `Receiver` |
| Rate controller, `RateController::observe` | rate, counters at the last decision | one decision per interval | `RateController` |
| Pacer | bytes sent since `started` and since the last wait | `account_and_wait`, `set_bytes_per_second` | `Pacer` |
| Heartbeats and idle timeouts | last heartbeat, last line read, last report, deadline of the acknowledgement | PING, PONG, report, timeout | `Heartbeat` (clock), `Sender` and `Receiver` (actions) |
| Directory transfer, `directory.rs`, `send_dir`, `receive_dir` | manifest, staging tree and marker, per-file resume files, destination | build, stage, validate, one session per file, verify and seal, unmark, rename | `Directory` |
| TCP and TCP4 transports | lane positions, temporary file, destination | lane ranges, connect, accept, copy, hash, install, acknowledge | `TcpTransfer` |
| Command line, key files, summaries; lab harness | none that a transfer depends on | | no |

**How they interact.** `send` hashes the file, connects and shakes hands; the
receiver answers `READY … GO` with the chunks it already holds, or `COMPLETE`
when the destination is already the offered file. With `--reuse-from` it first
reads the sender's manifest of content-defined chunks and copies what a local
candidate has too. The sender's main thread streams the chunks at the pace that
the rate controller derives from the reports; its feedback thread reads `M`
reports and fills the repair queue that the main thread empties. On the receiver
the main loop alternates between one `udp.recv`, a drain of the events that the
control thread has queued, and completion or checkpoint and report. When
everything is held and END has come, the receiver syncs, compares the hash,
renames the file into place, says COMPLETE and waits for COMPLETE_ACK. A
directory transfer sends a manifest first, then runs one such session per file
into a staging tree named after the manifest's hash, and renames the tree.

**What is hard here** (`hazards` in `PROJECT.json` gives each at its line): two
sender threads on one queue with caps and evictions; COMPLETE that arrives in the
middle of a batch; loss, duplication, reordering and datagrams of an earlier
session; an object hashed while it is still being written; crashes between two
system calls of a checkpoint, an install, an open or a staging; a destination, a
`.part` file and a map that each belong to another object; a source or a candidate
edited between two reads; a process that waits for a peer that is gone; an
acknowledgement destroyed by a TCP reset; a history that is pruned by one grace
and read by another; a rate that must come back after an outage.

**What makes each component correct.**
The *transfer*: nothing but the whole offered file is ever installed, success is
reported only after that, a transfer without faults succeeds whatever the
network loses, and both processes always stop; this holds for UDP and for TCP.
The *repair queue*: its three collections agree and stay capped. The *receiver*: the
count that decides completion is that of the bitmap, and the incremental hash
describes the file. The *reports*: what is only late is not called missing, what is
lost is, and the sender never rejects their counters. The *resume state*: the map
claims only durable data, progress is not lost without a reason, and no crash
leaves files that block later attempts. The *directory transfer*: a tree appears at
the destination only whole, and an interrupted one is resumed. The *session*: both
ends agree on key, hello and nonces, and control lines arrive in order without a
gap. *Reuse*: what is marked as held is the object's content. The *rate*: it uses
the path and does not flood it; the pacer keeps it.

## 2. Modules

```
Wire ──────────┬── Sender ───┐
RepairQueue ───┘             ├── UdpTransfer ──(Contract)── TransferContract ──(Contract)── TcpTransfer
Wire ────────────── Receiver ┘        │                                                         │
                     MCUdpTransfer, UdpTransferProofs                    MCTcpTransfer, TcpTransferProofs
ResumeState ── MCResumeState, ResumeStateProofs      Directory ── MCDirectory, DirectoryProofs
Feedback (MCFeedback) ────────────┐                  Session ── MCSession, SessionProofs
RateController (MCRateController) ┼─ FeedbackProofs
Pacer ───────────────────(Pacer)──┘
Reuse ── MCReuse, ReuseProofs                        Heartbeat ── HeartbeatProofs
```

* **Wire.** The object (chunks to contents), one connection with ordered lines in
  both directions, and a set of datagrams. A process that exits closes its end;
  what it wrote before can still be read, then comes the end of file; an exit
  with unread lines may reset the connection and destroy lines in flight
  (`Reset`). SHA-256 is taken to be injective, so an object stands for its hash,
  and a MAC under session keys is the session's number.
* **RepairQueue.** The operations as set-valued operators: the entry that
  `take_repairs` evicts is whichever the hash map iterates first, so any of them.
* **Sender.** One action per iteration step of `send_udp_inner` and per line that
  `read_feedback` handles. A batch, once taken, is sent without a look at
  `complete` or `feedback_error`, as in the code.
* **Receiver.** `rphase` is the stage of the loop: `recv` (one `udp.recv`), `drain`
  (one event a step), and the step that finds no more events does completion
  (`Finalize`) or checkpoint and report (`Report`, `NoReport`). Opening takes several
  steps, and a crash may come between them: in `create` the `.part` file is new and
  the old map still beside it; `CreateMap` replaces the map and, with `--reuse-from`, copies
  what the candidate has (`ReuseContent`, also after a resume); in `reused` that content is in the
  file and marked in the bitmap, but not yet in the map; `BeginLoop` writes the map
  (`SaveReused`) and announces READY.
* **UdpTransfer.** Both processes, the wire and a history of faults, over several
  sessions: after a failure the same or another object is offered, to the same
  disk and with the earlier sessions' datagrams still in the network.
* **TransferContract.** What a transfer promises, in six actions on four variables.
  `UdpTransfer` and `TcpTransfer` instantiate it with each process's state reduced to
  idle, busy, ok or error; `ContractKept` is its specification.
* **ResumeState.** The same disk system call by system call: truncation, `set_len`,
  `sync_data`, the rename of the map, `sync_all`, the rename over the destination,
  the removals; with kernel writeback, process crashes and power losses between
  any two of them.
* **Directory.** `send_dir` processes, one receiver, the staging tree of every
  manifest and the destination. `pc` names the next change of the receiver: the
  marker is created, then written; each file's session creates `.part`, replaces its
  map through a temporary file, renames and unlinks; `install` validates, opens,
  hashes and seals each file, removes the marker, renames and syncs the parent. The
  receiver may die at each of these points (`CrashPoints`); senders fail, are
  deserted and start again; the user edits the source, and occupies or removes the
  destination. A file's session is what `TransferContract` promises of it.
* **Feedback.** The receiver's loop with a clock: `history` of frontiers and their
  ages, pruning, the grace that the first reordered original activates, END, the
  counters of `ReceiverTelemetry`, and the sums that `parse_feedback_report` tests.
  The sender is its first pass, END and the repair of what was reported.
* **RateController.** `observe` over a path of limited capacity: the counters between
  two decisions, the tests for a stall, for waste and for throughput that follows or
  falls behind, and the bounds. What exceeds the capacity is lost on the path, unseen, or in the
  receiver's socket, which counts it. Second copies and partial progress occur in the
  bounded outages only; otherwise every valid datagram is accepted. The delay of the
  feedback is not modelled. Its names differ from those of `Feedback`
  (`RateInit`, `RateNext`, `RateSpec`), so that one module can reason about both.
* **Pacer.** `account_and_wait` after every datagram, sleeping and idle time, and
  `set_bytes_per_second`.
* **Heartbeat.** All four threads of a UDP transfer against a clock: the main thread of
  the sender sleeps `Cost` ticks for a datagram and looks at `complete`, the error and the
  heartbeat only at the tops of its two loops; the receiver is held up by checkpoints and
  the install for up to `Stall` ticks; a line takes up to `Delay` ticks. Each
  side has its own idle timeout, `SenderTimeout` and `ReceiverTimeout`: the heartbeat interval and
  the timeout of the feedback thread follow the sender's, the timeout of the control thread
  and the deadline for COMPLETE_ACK the receiver's. Either process may vanish without
  a word.
* **TcpTransfer.** `tcp` (one stream after the handshake) and `tcp4` (lane connections
  with a thread on each side): lane ranges, connecting and accepting, copying, the
  end of the data, the hash, the install and the acknowledgement; the temporary
  file and its removal on every error path; the source edited, extended or
  truncated after it was hashed for the hello.
* **Session.** TSU4, challenge, hello, response and finish, then numbered frames.
  Several connections follow one another while the receiver may still serve an old
  one; lines are read late, repeatedly or never, and may be damaged.
* **Reuse.** `scan`, byte by byte and with its limits of chunks and of bytes, the length of
  the manifest's text, and the tests of `parse` as operators on files; then
  `apply_reusable_content` step by step: open, scan of the candidate, reopening,
  copying chunk by chunk with a comparison of the content read, merging the
  ranges and marking the packets that they cover entirely.

Abstractions that a reader should know:

* No clock in `Sender` and `Receiver`: whatever the code does "when it is due"
  (heartbeat, checkpoint, report, expiry of a cooldown, timeouts) may happen at any
  test of it. There `mature_frontier` may return any earlier frontier, so a report
  may stop at any point up to the frontier and at the end of the file once END has
  come; which one it really returns is the subject of `Feedback`.
* `Feedback`, `Pacer` and `Heartbeat` have a discrete clock. In `Heartbeat` a thread that can
  take a step does so before time passes, only the number of missing chunks and of
  queued repairs is kept (a report may add any number up to those missing), and the hash
  of the object is right. In `Feedback` times are kept as ages up to
  the longest that matters, so time has no end; a report goes out as soon as it is
  due. In `Pacer` sending takes no time.
* `RateController` computes with integers, in hundredths of a Mbit/s, where the code has
  floating-point numbers: ratios are compared as products and rounded down.
* In `UdpTransfer` a checkpoint, an install and a discard are single steps;
  `ResumeState` justifies this by taking them apart. Conversely `ResumeState` takes
  the chunks written to be those of the object; a source edited while it is sent
  is in `UdpTransfer`. An error return of the receiver is a crash in `ResumeState`:
  the files are the same. Two crashes are in `ResumeState` alone: inside an install or a
  discard (`resume.rs:104-105`, `resume.rs:113-114`), which leaves a map without its `.part` file
  that the
  next open replaces by an empty one, so `DurableProgressGrows` speaks of installs and
  discards that are whole; and between the empty map and the copy of reusable content,
  which equals a copy of nothing.
* A write to a peer that has closed may vanish or fail; both are modelled.
* `ResumeState` and `Directory` assume that creations, truncations, renames and removals
  are atomic, ordered and durable. resume.rs syncs file data but never a directory,
  so it relies on a file system that behaves like that.
* `Directory` numbers the files in the manifest's order. A file has content and "sealed"
  (final mode and time) or not; symbolic links and special files, which `build`
  refuses, time stamps and the modes of directories are left out. A session that fails
  leaves its `.part` and map, as in `ResumeState`.
* In `Session` a MAC is the tuple it was computed from, and random values never repeat.
* In `Reuse` a chunk's hash is its content. The gear hash starts anew with every chunk, so
  whether it is zero depends on the bytes of the chunk: `Cuts` is the set of those after
  which it is, and any set of byte strings is allowed. Of the manifest's text only the length is
  kept, computed from the digits of its numbers (`Digits`), because both sides limit it.
* Definitions whose comment begins with "Seeded fault" are wrong variants of the
  definition that follows. They are used by no specification; replacing the right
  one by them shows that a property notices (`mutants` in `PROJECT.json`).

## 3. Runs

`tlc -workers 2 -config X.cfg M`, where M is `MCUdpTransfer` for `Udp*.cfg`,
`MCResumeState` for `Resume*.cfg`, `MCDirectory` for `Dir*.cfg`, `MCRateController` for
`RateAuto.cfg`, `MCTcpTransfer` for `Tcp.cfg`, `Heartbeat` for `Heartbeat.cfg`,
and `MCFeedback`, `MCSession`, `MCReuse` for the
configurations of the same name. The code's limits are constants, small in the
runs so that they are reached.

| Run | Instance | What it shows |
|---|---|---|
| UdpSafety | 2 chunks, 2 sessions, 2 objects, 1 fault of any kind, also between the copy of reusable content and its map; 1 reusable chunk | `TypeOK`: reports and batches name only chunks of the file. `RepairQueueConsistent`: under both threads' interleavings the deque and the set agree, nothing is queued twice or while it cools down, and the caps hold. `CountIsBitmap`: `received_count` is the size of the bitmap, so the "hash-frontier gap" error cannot happen. `HashedPrefixIsOnDisk`: what was hashed is held and is what the file contains. `MapClaimsAreTrue`: the map claims only what the file has. `NoSpuriousFailure`: stale, repeated and reordered datagrams never make a session fail; the only failure is that of a receiver whose acknowledgement was destroyed by the reset of the sender's exit, after the install. `ContractKept`: the refinement of `TransferContract`, also when the destination holds another object or the source is edited. `DurableProgressGrows`: over sessions the map of one object only gains chunks. `DiscardOnlyAfterDamage`: progress is thrown away only after an edit or a torn open. |
| UdpCompletes | 2 chunks, lossy network, fair | `Completes`: every session ends with the object installed and the sender successful. |
| UdpEnds | 1 chunk, 2 faults, heartbeats, reuse, fair | `SessionEnds`: whatever fails, both processes stop. |
| ResumeCrash | 3 chunks, 3 objects, 3 crashes, fair | `ClaimsDurableUnlessTorn`: at every moment the map's claims are durable, except after a torn open. `InstallsWholeObject`: only a whole, durable file of the offered object is renamed into place. `Recovers`: no crash leaves files that keep an object from being installed, also when it is the only one tried from then on; after a torn open the attempt that trusts the map fails its hash, discards, and the next one succeeds. `TypeOK`. |
| ResumeTorn | 2 chunks, 2 objects | violated, see section 6. |
| DirTree | 2 files, one read-only, 1 directory, 2 contents, 2 faults, 1 change by the user, fair | `InstallsWholeTree`: whatever sessions were mixed up, interrupted or retried, a tree that appears at the destination is the whole tree of the receiver's manifest and replaces nothing. `SuccessMeansStaged`: success of a sender whose source did not change means that its whole manifest is staged. `Recovers`: every interrupted transfer is resumed to the end, except from the states listed in `Stuck` (section 6). `TypeOK`. |
| Feedback | 3 chunks; fresh, with a prefix, with a hole; grace 2, interval 1, delay 1 | `ReportsAreConsistent`: no order of originals, repairs and copies makes counters that the sender rejects. `PruningLosesNothing`: the entries that `mature_frontier` drops are never needed, although the active grace changes. `ReorderingIsReal`: the grace is activated only after one datagram has overtaken another, unless the transfer was resumed with a hole. `OldHolesReported`: a hole older than grace and interval is in the next report. `NoEarlyRepair`: a chunk that is only late is not called missing once reordering is known. `TypeOK`. |
| RateAuto | capacities below, within and above the bounds, 2 outages, 1 change of capacity | `UsesThePath`: from some time on the rate is at least 0.7 of the capacity or the upper bound. `DoesNotFlood`: from some time on it is at most twice the capacity, or the lower bound, or one step of the search above. `WithinBounds`: the type invariant, which bounds the rate. |
| Heartbeat | 3 chunks, batches of 2, sender's timeout 6, receiver's 7, reports every 2, disk 2, delay 1 | `NoFalseTimeout`: as long as the receiver's timeout has room for the sender's heartbeat interval and a batch, and the sender's for a report and a disk operation (`BatchFits`), two processes that live never take each other for dead, and the acknowledgement comes before its deadline. `AbortsInTime`: silence ends the sender within its own timeout and one batch, the receiver within its own timeout and two disk operations. `TypeOK`. |
| Tcp | 2 lanes, all files of up to 3 units, 1 fault, 1 change of the source, fair | `ContractKept`: the refinement of `TransferContract`. `NoSpuriousFailure`: an unchanged file of any length over connections that hold arrives. `TemporaryRemoved`: a receiver that was not killed leaves no temporary file. `SessionEnds`: both sides stop, also when the source shrinks. |
| Session | 2 key files, hellos and payloads, 2 connections, 2 frames a side, 1 damaged line | `Agreement`: a handshake that succeeds at the receiver has the same key, hello and nonces at both ends of its connection. `DeliversPrefix`: frames are delivered in order, once and without a gap, whatever happens to the lines. (The type invariant is proved.) |
| Reuse | all sources and candidates of up to 5 bytes and five longer ones at the limits, chunks of 2 to 3, 5 chunks and 364 bytes a manifest, packets of 2, 1 edit | `ClaimsAreTrue`: as long as the source is unchanged, marked packets hold its bytes, also when the candidate is edited after the scan. `ReuseIsComplete`: without edits every packet within shared chunks is marked. `NoSpuriousFailure`: reuse fails a transfer only when a file was changed under it, when `scan` finds more chunks or text than a manifest may have, or for the one length of text that `scan` passes and the receiver refuses (section 6). |

**Why these bounds.** *UDP:* two chunks are enough for a gap below the frontier and for
a tail that is lost. The queue is capped below the number of chunks
(`MAX_QUEUED_REPAIRS` 1), so that entries are evicted and enqueues refused; with one entry
nothing can be queued twice, which only `RepairQueueSafe` shows for larger caps. Two chunks
have only one gap, so a report is never cut by its limit of ranges: with three, the
fairness of `Completes` is beyond TLC. That a cut report still names the whole first gap
is `FirstGapReported`. `UdpSafety` has no heartbeats (`PingLimit = 0`); that a PONG which meets a
closed connection, or a PING during the wait for the acknowledgement, does no harm is
shown by `NoFailureWithoutFault` and `ContractHolds`, and `UdpEnds` has one PING. Two sessions are
the fewest in which a datagram, a map or a file
outlives its session; with an initial destination of either object the case
"A, then B, then A" is reached as well. The content of a chunk is the content of a
hole, the object's, or another's. Object sets are not symmetric (a hole reads as
`Zero`), so no symmetry is used. *Feedback:* three chunks allow a gap between two
arrivals and a tail; the delay is below the grace, so that late and lost differ.
*Directory:* two files are a first and a last one; two faults allow a broken resume of
a broken transfer. *Tcp:* with two lanes, files of 0 to 3 units have an empty lane, a
remainder and none. *Session:* two connections are the fewest in which an old one is
still served. *Reuse:* five bytes hold two chunks and a remainder that straddle
three packets; of the longer files one has a manifest as long as it may be, one a manifest
one byte longer, which `scan` passes, one a longer one, and one more chunks than
allowed. *Heartbeat:* both timeouts are the least for which `BatchFits`
holds with these numbers, so that nothing is to spare, and they differ. *RateController:* the
bounds of the rate are 20 steps
apart, so that the search takes several decisions.

With `Lossy = FALSE` a datagram once sent stays deliverable. Delivery is never
forced, so losing it equals never delivering it, and the invariants see the same
states of both processes. The liveness run, where delivery is forced by
fairness, uses `Lossy = TRUE`. One line per direction (`MaxLines = 1`) bounds only the
lines that are repeated (M, PONG) and the hand-over from the control thread; END,
CANCEL, COMPLETE and COMPLETE_ACK are queued behind them.

Runs of `UdpTransfer`, `Session` and `Reuse` do not check for deadlock: a transfer ends, and
after the last session nothing is left to do. For `UdpTransfer` and `TcpTransfer`
`SessionEnds` excludes a deadlock of two running processes. The other runs check
deadlock.

**Fairness.** `UdpTransfer!Fairness`: weak fairness of each of the four threads: they
are scheduled, and blocking reads return when there is something to read. Strong
fairness of three things per chunk: the network does not lose every copy of a
repair that is sent for ever (`Repaired`) and delivers what it has not lost
(`Receive`); a chunk reported for ever is at some report past its finite
cooldown (`Requeue`). Strong fairness of `TailReport`: the report interval and the
grace are finite, so a report that reaches the end of the file is due again and
again. Strong fairness of `DrainDone`: without a clock a sender could follow every
drained PING with another one and keep the drain loop busy for ever, whereas the
code sends one per interval. Heartbeats themselves, failing writes, resets and
faults are never forced. `ResumeState!FairSpec`: a running process goes on, and when
it has ended another one is started, for whichever object. `Directory!FairSpec`: both
processes run on, give up when deserted, and are started again by the user, who
also stops a receiver that waits for a sender which is gone (`accept` has no
timeout); a session that is not broken makes progress between its checkpoints
(strong fairness of `RenamePart`, which `Completes` and `SessionEnds` justify).
`TcpTransfer!FairSpec`: threads run and reads that wait in vain time out.
`RateController`: reports arrive and decisions are taken; outages are not forced.

## 4. Proofs

All theorems hold for every value of the constants that satisfies the named
assumptions (`WireAssumption`, `MaxQueuedRepairsAssumption`, `SenderAssumption`,
`ReceiverAssumption`, `TransferAssumption`, `ResumeAssumption`, `DirectoryAssumption`,
`TcpAssumption`, `SessionAssumption`, `FeedbackAssumption`, `RateAssumption`,
`PacerAssumption`, `HeartbeatAssumption`, `ReuseAssumption`): any number of chunks, contents,
sources, files, lanes, senders, sessions, faults and crashes, positive limits, any
set of rates, files of any length.

* **UdpTransferProofs**, in five parts.
  1. *The repair queue.* Lemmas on the operators: enqueue and take keep the type and
     `Consistent`. They need that the ascending sequence of k chunks has k different
     members, so that the caps bound the deque as well as the set.
  2. *Types.* `TypeCorrect`: `Spec => []TypeOK`. The type invariant is not inductive
     alone: writing a chunk needs a `.part` file to exist, and so does the renaming of
     it into the destination. `Typed` adds `PartPresent`: from `create`, through `reused`, to the
     end of the loop there is a `.part` file.
  3. *The contract.* `RepairQueueSafe`: `Spec => []RepairQueueConsistent`.
     `HashVouchesForFile` and `CountIsRight`: inductive together with `Typed`, if the count
     is right from the copy of reusable content on (`CountIsReused`); the step that
     matters is `RecvPacket`, which writes only chunks outside the bitmap, hence outside
     the hashed prefix. `FirstGapReported`: whatever the limit of ranges, a report names every
     chunk of the first gap below its end, so no report of a receiver with a gap is idle.
     `ContractHolds`: `Spec => ContractKept`, the refinement. The
     invariant is `IInv == Typed /\ HashInv /\ ContractInv`. The install is right because
     the hashed prefix is the whole file and equals the offered object; the sender's
     success because of `NoEarlyComplete` (before the install there is no COMPLETE in
     the channel or in the flag), the receiver's because of `NoEarlyAck` (before the
     sender has succeeded there is no COMPLETE_ACK in the channel, nor among the
     events); `SameObject` and `Installed` relate what the two processes call the object.
  4. *Durability.* `MapIsTrue` (`Spec => []MapClaimsAreTrue`), `DiscardNeedsDamage` and
     `DurableProgress`. The invariant `DiskIInv` follows the content of a chunk from the
     source to the map: until somebody edits it the source is the offered object, every
     datagram with the session's number carries it (`WireIntact`; older ones have other
     numbers), hence what the bitmap counts is in the file (`BitmapTrue`), and the map
     is of the session's object and within the bitmap (`MapOfSession`); both hold from
     `reused` on (`Holding`), before the map is written. At the end of
     the loop the hash of such a file cannot fail, which is `DiscardNeedsDamage`.
  5. *A history without faults.* `NoFailureWithoutFault`: `Spec => []NoSpuriousFailure`.
     `CleanIInv` adds to `DiskIInv` that, before the first fault, the connection stands
     while the sender is active, carries no CANCEL and nothing but END and PING in the
     other direction until then, and that a receiver in its loop has a sender
     that serves it (`LoopServed`). So none of the ends of file, write errors and
     closed channels that the code maps to an error can be met before the install.
* **ResumeStateProofs.** `Invariance`, and from it `TypeCorrect`, `ClaimsAreDurable`
  (`Spec => []ClaimsDurableUnlessTorn`) and `InstallIsWhole`. The invariant adds to the
  property what each program point knows: the process's file exists
  (`PartInPlace`), its map is its own (`MapIsOwn`), the bitmap names only chunks written
  (`BitmapWritten`), and at the install the file is whole and durable
  (`ReadyToInstall`).
* **TcpTransferProofs.** `ContractHolds`: `Spec => ContractKept`, the refinement, and
  `NoTemporaryLeft`: `Spec => []TemporaryRemoved`. The invariant is that COMPLETE is among
  the replies, and the sender successful, only when the destination is the object of
  the hello (`NoEarlyComplete`), that the acknowledgement comes only from a successful
  sender (`NoEarlyAck`), and that the temporary file is gone by then. The lanes do not
  matter for this: the hash decides. They do for `CleanSessionSucceeds`
  (`Spec => []NoSpuriousFailure`): that an unchanged file does arrive rests on `LaneWithin` and
  `LanesCover` (the ranges of `tcp4_lane_range` lie within the file and cover it, for every
  length and number of lanes, with remainder or not) and on an invariant of each lane: what is in
  its stream
  is the part of its share between what was sent and what was written (`LaneCarries`),
  and what was written is in its place (`LaneWritten`).
* **DirectoryProofs.** `TypeCorrect`, and `InstallIsWhole`: `Spec => InstallsWholeTree` if no
  file of the source has the marker's name. The invariant says that the receiver's
  staging tree exists until the rename and has its directories from MANIFEST_OK on
  (`TreePresent`), and, from the validation on, that nothing partial is in it and the
  files already passed have the manifest's content and their final metadata
  (`InstallProgress`). It holds for any number of senders; the run has one, so the theorem
  is what covers sessions of several senders that meet one receiver. (With two
  senders `SuccessMeansStaged` is false, which is why it speaks of a sender alone: a
  session is bound to no manifest entry, so one sender's file may arrive in the
  other's place. The install then refuses the tree.) `SuccessIsMeant` is therefore
  `Spec => SuccessMeansStaged` under the assumption that there is one sender: while the
  source does not change, sender and receiver are at the same file (`InStep`), also
  across attempts in which one of them was left over from an earlier one, and all
  files before it are staged (`StagedSoFar`).
* **FeedbackProofs.** `TypeCorrect`, `CountersAgree` (`Spec => []ReportsAreConsistent`),
  `RaisedByReordering` (`Spec => []ReorderingIsReal`), `NothingPrunedIsMissed`
  (`Spec => []PruningLosesNothing`), `HolesAreReported` and `RepairIsNotEarly`. The history of
  frontiers is compared with `past`, which keeps the frontier of every age: for each
  grace up to the longest the newest mature entry of the pruned history is the one
  of the whole past (`PastKept`). The lemmas say what recording, pruning and the passing of
  time do to that entry; that there is such an entry is the one place where
  induction is needed, in the form that a nonempty set of naturals has a least member
  (`LeastNatural`, from the library's well-founded order of the naturals). `PassedKept`
  relates the time a chunk was passed to the frontiers recorded since (for
  `HolesAreReported`), `Order` the position of the first pass to them (for
  `RepairIsNotEarly`: a frontier that is a grace old was recorded after every original
  below it was sent, and an original is under way for less than that).
* **HeartbeatProofs.** `TypeCorrect`; `SilenceEndsTransfer` (`Spec => []AbortsInTime`): the
  sender's silence and what it still sleeps (`Owed`) stay within its own timeout and the largest
  batch (`SenderBudget`), and a receiver whose control thread has stopped has the event
  that ends it as the last of its queue (`LastTerminal`), behind at most two disk
  operations (`ReceiverBudget`). `LivingNeverTimeOut` (`Spec => []NoFalseTimeout`): with nothing
  on its way
  the receiver has heard nothing for at most the sender's `beat` and the delay, or, once
  a heartbeat is due, for so long that it and `Owed` fit (`ReceiverHears`); with a line on
  its way, for no longer than when it was sent and its age. `SenderHears` says the same
  of the reports and the disk, and `AckWait` follows COMPLETE, the end of the sender's
  batch and COMPLETE_ACK. The two timeouts are independent constants: `BatchFits` relates
  the sender's interval to the receiver's timeout, and the report interval to the sender's. The
  attempt to prove it showed that an earlier
  `BatchFits` was too weak: the first heartbeat comes after the way of READY and has its own
  way before it, so the delay counts twice.
* **SessionProofs.** `TypeCorrect`, `HandshakeAgrees` (`Spec => []Agreement`) and `FramesInOrder`
  (`Spec => []DeliversPrefix`). The invariant is about the lines of the connections in
  use: a finish has the MAC of its sender's own transcript (`FinishMade`), a frame,
  damaged or not, the MAC of a payload sent under the number in the MAC
  (`FramesMade`), a key and a transcript do not change once such a line exists
  (`Settled`), and nobody has read from a connection that the other side does not have
  yet (`ConnOrder`).
* **ReuseProofs.** `InvariantHolds`, and from it `ReusedIsTrue` (`Spec => []ClaimsAreTrue`),
  `NothingIsMissed` (`Spec => []ReuseIsComplete`) and `ReuseDoesNotFail`
  (`Spec => []NoSpuriousFailure`). The cut points and the merged ranges are computed by loops
  over data of any length, so the proof needs induction, which the prover does not have
  over an operator. It is stated over sets instead: a set that has 0 and with every n also
  n + 1 is the whole interval (`Induction`, by the least number outside it), and a
  function with given first and next values exists (`Recursion`, from the finite
  approximations of it). With these the loops are treated by their invariants: after n
  bytes of `scan` the chunks and the one under way make up the first n bytes
  (`ScanInv`), so that the chunks are the file's bytes without gap or overlap, all
  but the last long enough (`ScanTiles`), which `parse` accepts (`ScanAccepted`); after n ranges
  the merged ones are in order, apart from each other, and have the same bytes
  (`MergeInv`, `MergedRight`). Merged ranges that do not touch are what makes the test of a
  single range per packet complete: bytes next to each other that are all covered are
  in one range. `IInv` says that size, object and
  manifest are of one file until the source is edited (`SourceKept`), that a range copied has the
  object's bytes and lies before the chunks still to come (`CopiedRight`; a copy
  writes nothing that its hash does not vouch for, and so does not spoil
  packets that are held, `HeldRight`), and that without edits every chunk passed which the
  candidate has was copied (`AllCopied`). The limits of chunks and of bytes are constants; the
  length
  of a manifest's text is a natural number for every file (`BodyType`), and what `scan` lets pass
  `parse` accepts, except for the one length (`ScanAccepted`).
* **FeedbackProofs, the rate.** `RateInBounds`: `RateSpec => []WithinBounds`, for all
  bounds and paths: what `observe` decides is clamped, and no counter becomes
  negative. `PacesAllRates`: `Pacer!Spec => [](Pacer!KeepsTheRate /\ Pacer!NoBursts)`. The pacer's
  state
  space is unbounded and its bounds are products of a rate and a time, so it is proved
  and not model-checked. The invariant adds to the type `Account` (what is not yet due
  is at most what was sent since the last wait, or the pacer sleeps) and `Backlog`
  (what is due and not sent is at most a tick and the idle time). A change of the
  rate begins a new account, so each change allows one more batch.

**Only model-checked:** the liveness properties (`Completes`, `SessionEnds`, `Recovers`,
`UsesThePath`, `DoesNotFlood`), which are out of the prover's reach. Every invariant and every
action property of the runs is a theorem.

## 5. Not modelled, and the plan

What is left out, and why:

* *Directory operations that are lost or reordered by a power loss*: no directory is
  synced by `resume.rs` (`resume.rs:96`); a model of weaker file systems would refute
  nothing that the code claims for the usual ones.
* *Modes of directories* in a tree, symbolic links and special files.
* *The wording of a manifest's text*; its length is in `Reuse`.
* *Command-line parsing, key files, printed summaries and the lab harness*, which are
  sequential input and output; floating-point rounding of the controller.

## 6. Findings

**A torn open leaves a map that claims unwritten chunks** (`ResumeTorn`).
`ResumeState::open` truncates the `.part` file and sets its length
(`resume.rs:56-62`) while the map of another object is still beside it; that map is
replaced only by the checkpoint at `resume.rs:73`. A crash in between leaves the
old object's map next to a file of holes; if the old object has the same length and
is sent again, `load_map` trusts it and the receiver announces chunks that it does not
have. The comment at `resume.rs:82` says "A crash can therefore cause harmless
retransmission, never a bitmap entry that refers to unwritten data.",
`README.md:218` that a crash "cannot make a restart trust data that was not durable".
The damage is bounded: the final hash does not match, nothing is installed
(`InstallIsWhole`), the progress is discarded and the next attempt succeeds
(`Recovers`). Removing the map before the truncation would restore the comment.

**A death inside a checkpoint ends a directory transfer** (`Directory!Stuck`,
excepted in `Recovers`).
`checkpoint` writes the map to `X.part.map.tmp.PID` beside the staged file
(`resume.rs:85-96`). A receiver that dies before the rename leaves that file in the
staging tree; `validate_staging_tree` knows only `X`, `X.part` and `X.part.map`
(`directory.rs:651-663`) and refuses the tree in every later attempt
(`directory.rs:698`). `DESIGN.md:275-276` says "Interrupted transfers retain only the
hash-bound staging tree and per-file receipt maps; reconnecting with the same
manifest resumes it". Nothing wrong is installed; the user has to remove the file.

**A silent peer ends the sender only after its batch** (`AbortsInTime`). After END
the sender takes up to 1024 repairs and paces them without a look at `feedback_error`
(`main.rs:1370-1388`). `README.md:117-118` says "silence or connection loss aborts within
the configured timeout". A full batch of datagrams of 1.2 kB takes about 10 seconds
at 1 Mbit/s, whatever `--idle-timeout-ms` says; values from 500 ms are
accepted. `AbortsInTime` states the bound that does hold. For the same reason a batch
that takes longer than the timeout makes the receiver of a living sender give up, for want of a
PING or of
COMPLETE_ACK; `BatchFits` states the condition under which it does not
(`NoFalseTimeout`), which the command line does not test.

**The two idle timeouts are independent** (`BatchFits`). Each side has its own
`--idle-timeout-ms` (`main.rs:299`, `main.rs:459`), and the hello does not carry it. The sender
derives its heartbeat interval from its own (`main.rs:1321`: a third of it, at most a second), the
receiver its read timeout and the deadline for COMPLETE_ACK from its own (`main.rs:1724`,
`main.rs:2371`). A receiver at 500 ms that faces a sender at the default, which says PING once a
second, takes a living sender for dead when no other line comes in between.
`README.md:114-119` gives the default of "Both endpoints" and the accepted values, "500
milliseconds through one hour", but not that one has to fit the other; `BatchFits` is
the condition.

**A manifest one byte too long passes `scan`** (excepted in `Reuse!NoSpuriousFailure`). `scan`
counts 70 bytes for the last line (`cdc.rs:74`), which `encode` makes 71 bytes long
(`cdc.rs:84-87`), so a manifest of `MAX_ENCODED_BYTES` + 1 bytes passes `scan` and is refused by
the receiver (`main.rs:1937`) after the hello, instead of by the sender before it. The test at
`cdc.rs:245`, `assert_eq!(parse(&encode(&manifest)).unwrap(), manifest)`, takes it for granted
that
what was scanned can be parsed. It takes a file of several hundred thousand chunks
and exactly this length; the transfer fails and nothing is damaged. The run
`Reuse` reaches the case.

Other states that the models reach and a reader of the code should know of:

* `Directory!Stuck` lists three more staging trees that are not taken up: the receiver died
  between creating the tree and completing its marker, or between removing the marker
  and the rename; between a staged file's rename and the removal of its map (the next
  session finds the file complete and never removes the map, so the validation before
  the install refuses it); or after a read-only file got its final mode, since `install`
  opens every file for writing again. `Recovers` shows that these are all.
* With `BareOut`, `--out` is a bare name: its parent is the empty path, which cannot be
  opened for the sync, so `receive_dir` reports an error although the tree was installed.
  With `MarkerFile`, a file of the source is named `.packet-tide-manifest` like the marker and
  takes its place; `install` removes the marker by that name (`directory.rs:618`), so the tree
  that is
  installed lacks the file, although the transfer succeeds. Both are parameters of the module,
  outside the instance of `DirTree`.
* A transfer resumed with a hole below the last chunk held takes the chunks of the hole
  for reordered ones and reports them missing before their turn
  (`ReorderingIsReal` and `NoEarlyRepair` except this case): repairs too many, no harm.
* Loss that the receiver cannot count may leave the rate at up to twice the capacity
  (`DoesNotFlood`).
* After idle time the pacer makes up for all of it at once (`NoBursts`).
