----------------------------- MODULE Feedback ------------------------------
(***************************************************************************)
(* When the receiver of a UDP transfer calls a chunk missing, and what its *)
(* reports count: the loop of receive_udp with mature_frontier, the grace  *)
(* it activates on reordering, the counters of ReceiverTelemetry and the   *)
(* test that parse_feedback_report makes of them.                          *)
(*                                                                         *)
(* A time stamp is kept as its age, in ticks and up to Cap, so time has no *)
(* end.  A datagram is delivered or lost within Delay ticks of its         *)
(* sending.  A report is sent as soon as report_interval has passed: the   *)
(* loop turns within a tick.  The sender is reduced to its first pass, END *)
(* and the repair of what was reported; the number of ranges in a report   *)
(* is that of module Receiver.                                             *)
(***************************************************************************)
EXTENDS Integers, Sequences, FiniteSets, SequencesExt

CONSTANTS N,           \* chunks
          Holdings,    \* what a transfer may begin with: sets of chunks
          Grace,       \* repair_grace, in ticks
          Interval,    \* report_interval
          Delay,       \* the longest a datagram is under way
          MaxArrivals  \* bound: datagrams received in a session

Chunks == 0 .. N - 1
Cap == Grace + Interval
Ages == 0 .. Cap
Never == -1

ASSUME FeedbackAssumption ==
    /\ N \in Nat /\ Holdings \subseteq SUBSET Chunks /\ Holdings # {}
    /\ Interval \in Nat \ {0} /\ Grace \in Nat /\ Interval <= Grace
    /\ Delay \in 0 .. Cap
    /\ MaxArrivals \in Nat

VARIABLES
    held,         \* the chunks of the resumed transfer
    next,         \* the sender's first pass
    net,          \* datagrams under way, with their age
    repairs,      \* the sender's repair queue
    bitmap,       \* chunks held
    frontier,     \* highest + 1
    reordering,   \* reordering_observed
    history,      \* frontier_history, oldest first
    ended,        \* age of END, or Never
    last_report,  \* age of the last report
    tel,          \* the counters of ReceiverTelemetry
    past,         \* history: the newest frontier recorded a ticks ago
    passed,       \* history: age of the frontier's passing each chunk
    overtaken     \* history: an original came after one sent later

vars == <<held, next, net, repairs, bitmap, frontier, reordering, history,
          ended, last_report, tel, past, passed, overtaken>>

Datagrams == [seq : Chunks, repair : BOOLEAN, age : Ages]

TypeOK ==
    /\ held \in Holdings
    /\ next \in 0 .. N + 1
    /\ net \subseteq Datagrams
    /\ repairs \subseteq Chunks
    /\ bitmap \subseteq Chunks
    /\ frontier \in 0 .. N
    /\ reordering \in BOOLEAN
    /\ history \in Seq([age : Ages, value : 0 .. N])
    /\ ended \in Ages \cup {Never}
    /\ last_report \in 0 .. Interval
    /\ tel \in [accepted : Nat, valid : Nat, duplicate : Nat, repair : Nat]
    /\ past \in [0 .. Grace -> 0 .. N]
    /\ passed \in [Chunks -> Ages \cup {Never}]
    /\ overtaken \in BOOLEAN

(* highest_received + 1.                                                   *)
FrontierOf(chunks) ==
    CHOOSE f \in 0 .. N : /\ f > 0 => f - 1 \in chunks
                          /\ \A c \in chunks : c < f

Init ==
    /\ held \in Holdings
    /\ next = 0
    /\ net = {}
    /\ repairs = {}
    /\ bitmap = held
    /\ frontier = FrontierOf(held)
    /\ reordering = FALSE
    /\ history = <<[age |-> 0, value |-> FrontierOf(held)]>>
    /\ ended = Never
    /\ last_report = 0
    /\ tel = [accepted |-> 0, valid |-> 0, duplicate |-> 0, repair |-> 0]
    /\ past = [a \in 0 .. Grace |-> IF a = 0 THEN FrontierOf(held) ELSE 0]
    /\ passed = [c \in Chunks |-> IF c < FrontierOf(held) THEN 0 ELSE Never]
    /\ overtaken = FALSE

receiver == <<held, bitmap, frontier, reordering, history, ended, last_report,
              tel, past, passed, overtaken>>

-----------------------------------------------------------------------------
(* The sender: originals in order without those it was told are held, then *)
(* END, and repairs.                                                       *)
SendOriginal ==
    /\ next < N
    /\ next' = next + 1
    /\ net' = IF next \in held THEN net
              ELSE net \cup {[seq |-> next, repair |-> FALSE, age |-> 0]}
    /\ UNCHANGED <<repairs, receiver>>

(* The cooldown keeps a second repair back while one is under way.         *)
SendRepair(c) ==
    /\ c \in repairs
    /\ \A d \in net : d.seq = c => ~d.repair
    /\ repairs' = repairs \ {c}
    /\ net' = net \cup {[seq |-> c, repair |-> TRUE, age |-> 0]}
    /\ UNCHANGED <<next, receiver>>

(* END, on the control connection.                                         *)
DrainEnd ==
    /\ next = N
    /\ next' = N + 1
    /\ ended' = 0
    /\ UNCHANGED <<held, net, repairs, bitmap, frontier, reordering, history,
                   last_report, tel, past, passed, overtaken>>

Lose(d) ==
    /\ d \in net
    /\ net' = net \ {d}
    /\ UNCHANGED <<next, repairs, receiver>>

-----------------------------------------------------------------------------
(* Seeded fault: a late repair counts as reordering.                       *)
AnyBelowFrontier(d) == d.seq < frontier

(* An original below the frontier.                                         *)
Reordered(d) == ~d.repair /\ d.seq < frontier

(* Seeded fault: a second copy counts as accepted.                         *)
CountAccepted(d, first) ==
    [tel EXCEPT !.valid = @ + 1,
                !.repair = IF d.repair THEN @ + 1 ELSE @,
                !.accepted = @ + 1,
                !.duplicate = IF first THEN @ ELSE @ + 1]

(* The counters of a datagram that passed the checks.                      *)
Count(d, first) ==
    [tel EXCEPT !.valid = @ + 1,
                !.repair = IF d.repair THEN @ + 1 ELSE @,
                !.accepted = IF first THEN @ + 1 ELSE @,
                !.duplicate = IF first THEN @ ELSE @ + 1]

(* Seeded fault: the frontier is taken one chunk too far.                  *)
AdvanceTwice(seq) == IF seq < frontier THEN frontier ELSE seq + 2

(* highest + 1 after a datagram.                                           *)
Advance(seq) == IF seq < frontier THEN frontier ELSE seq + 1

(* A valid datagram; the network may keep a copy.                          *)
Recv(d) ==
    /\ tel.valid < MaxArrivals
    /\ d \in net
    /\ net' \in {net, net \ {d}}
    /\ tel' = Count(d, d.seq \notin bitmap)
    /\ IF d.seq \notin bitmap
       THEN /\ reordering' = (reordering \/ Reordered(d))
            /\ bitmap' = bitmap \cup {d.seq}
            /\ overtaken' = (overtaken \/
                   (~d.repair /\ \E c \in bitmap \ held : c > d.seq))
       ELSE UNCHANGED <<reordering, bitmap, overtaken>>
    /\ frontier' = Advance(d.seq)
    /\ passed' = [c \in Chunks |-> IF c < frontier' /\ passed[c] = Never
                                   THEN 0 ELSE passed[c]]
    /\ UNCHANGED <<held, next, repairs, history, ended, last_report, past>>

-----------------------------------------------------------------------------
(* mature_frontier: the history it leaves, and the value it returns.       *)

Recorded ==
    IF Last(history).value # frontier
    THEN Append(history, [age |-> 0, value |-> frontier]) ELSE history

(* Seeded fault: entries older than the active grace are dropped.          *)
PrunedByGrace(h, grace) ==
    LET old == {i \in 2 .. Len(h) : h[i].age >= grace}
    IN  SubSeq(h, IF old = {} THEN 1 ELSE Max(old), Len(h))

(* Of the entries that are at least `retention` old, the newest stays.     *)
Pruned(h, grace) ==
    LET old == {i \in 2 .. Len(h) : h[i].age >= Grace}
    IN  SubSeq(h, IF old = {} THEN 1 ELSE Max(old), Len(h))

(* Seeded fault: an entry of exactly that age does not count.              *)
StrictlyOlder(h, grace) ==
    LET mature == {i \in DOMAIN h : h[i].age > grace}
    IN  IF mature = {} THEN 0 ELSE h[Max(mature)].value

(* The newest entry that is at least `grace` old.                          *)
Newest(h, grace) ==
    LET mature == {i \in DOMAIN h : h[i].age >= grace}
    IN  IF mature = {} THEN 0 ELSE h[Max(mature)].value

(* Seeded fault: no grace, reordering or not.                              *)
NoGrace == 0

active_grace == IF reordering THEN Grace ELSE 0

(* END was received at least the active grace ago.                         *)
EndMature == ended # Never /\ ended >= active_grace

report_end ==
    IF EndMature THEN N
    ELSE Newest(Pruned(Recorded, active_grace), active_grace)

missing == {c \in 0 .. report_end - 1 : c \notin bitmap}

(* The report; what it calls missing joins the sender's repair queue.      *)
Report ==
    /\ last_report = Interval
    /\ last_report' = 0
    /\ history' = Pruned(Recorded, active_grace)
    /\ repairs' = repairs \cup missing
    /\ past' = [past EXCEPT ![0] = frontier]
    /\ UNCHANGED <<held, next, net, bitmap, frontier, reordering, ended, tel,
                   passed, overtaken>>

-----------------------------------------------------------------------------
Older(age) == IF age \in 0 .. Cap - 1 THEN age + 1 ELSE age

Tick ==
    /\ last_report < Interval
    /\ last_report' = last_report + 1
    /\ \A d \in net : d.age < Delay
    /\ net' = {[d EXCEPT !.age = @ + 1] : d \in net}
    /\ history' = [i \in DOMAIN history |->
                      [history[i] EXCEPT !.age = Older(@)]]
    /\ ended' = Older(ended)
    /\ passed' = [c \in Chunks |-> Older(passed[c])]
    /\ past' = [a \in 0 .. Grace |-> IF a = 0 THEN past[0] ELSE past[a - 1]]
    /\ UNCHANGED <<held, next, repairs, bitmap, frontier, reordering, tel,
                   overtaken>>

Next ==
    \/ SendOriginal
    \/ \E c \in Chunks : SendRepair(c)
    \/ DrainEnd
    \/ \E d \in net : Lose(d) \/ Recv(d)
    \/ Report
    \/ Tick

Spec == Init /\ [][Next]_vars

-----------------------------------------------------------------------------
(* What parse_feedback_report tests before it believes a report.           *)
Consistent(received) ==
    /\ received <= N
    /\ frontier <= N
    /\ tel.accepted <= received
    /\ tel.accepted <= tel.valid
    /\ tel.duplicate <= tel.valid
    /\ tel.repair <= tel.valid
    /\ tel.accepted + tel.duplicate = tel.valid

(* No order of originals, repairs and copies, in a fresh or in a resumed   *)
(* session, makes a report whose counters the sender would reject.         *)
ReportsAreConsistent == Consistent(Cardinality(bitmap))

(* The entries that mature_frontier drops are never needed: for the grace  *)
(* that is active and for the one a reordered datagram may activate, the   *)
(* history still gives the newest frontier recorded that long ago.         *)
PruningLosesNothing ==
    /\ Newest(history, 0) = past[0]
    /\ Newest(history, Grace) = past[Grace]

(* The chunks held at the start are a prefix of the object, or none.       *)
NoHoles == Cardinality(held) = FrontierOf(held)

(* What is called missing was sent, and its original is not under way.     *)
OnlyLostMissing ==
    \A c \in missing : c < next /\ \A d \in net : d.seq = c => d.repair

(* Once reordering was seen, a chunk whose original is still under way is  *)
(* never called missing, if no datagram is late by the grace or more.      *)
(* (Holes of a resumed transfer are, before their turn comes.)             *)
NoEarlyRepair ==
    [][Report /\ reordering /\ Delay < Grace /\ NoHoles => OnlyLostMissing]_vars

(* Chunks that the frontier passed a grace and a report interval ago.      *)
OldHolesCovered ==
    \A c \in Chunks : passed[c] >= Grace + Interval => c < report_end

(* The delay is bounded: a report reaches past every chunk that the        *)
(* frontier passed a grace and a report interval ago.                      *)
OldHolesReported == [][Report => OldHolesCovered]_vars

(* DESIGN.md: an original below the frontier means that the path reordered *)
(* datagrams.  So it is in a transfer that began with a prefix, or with    *)
(* nothing; one that was resumed with a hole takes the chunks of the hole  *)
(* for reordered ones.                                                     *)
ReorderingIsReal == reordering => overtaken \/ ~NoHoles
=============================================================================
