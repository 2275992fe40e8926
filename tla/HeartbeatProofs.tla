-------------------------- MODULE HeartbeatProofs ---------------------------
(***************************************************************************)
(* Proofs about Heartbeat, for every timeout, interval, batch, delay and   *)
(* number of chunks: types; silence ends a transfer (what a silent peer's  *)
(* partner may still have to do is bounded); and two processes that live   *)
(* never take each other for dead (what each has not heard for how long is *)
(* bounded by its clock and by the lines on their way).                    *)
(***************************************************************************)
EXTENDS Heartbeat, SequenceTheorems, TLAPS

LEMMA Constants ==
    /\ SenderTimeout \in Nat /\ ReceiverTimeout \in Nat
    /\ MaxInterval \in Nat /\ ReportInterval \in Nat
    /\ Stride \in Nat /\ Batch \in Nat /\ Cost \in Nat
    /\ CheckpointInterval \in Nat /\ Chunks \in Nat /\ Few \in Nat /\ Stall \in Nat
    /\ Delay \in Nat /\ 1 <= Cost /\ 1 <= Batch /\ 1 <= Stride
    /\ 1 <= SenderTimeout /\ 1 <= ReceiverTimeout
BY HeartbeatAssumption

LEMMA MinOfTwo ==
    ASSUME NEW a \in Int, NEW b \in Int
    PROVE  Min({a, b}) \in {a, b} /\ Min({a, b}) <= a /\ Min({a, b}) <= b
<1>1. \E x \in {a, b} : \A y \in {a, b} : x <= y
  <2>1. CASE a <= b BY <2>1
  <2>2. CASE ~(a <= b) BY <2>2
  <2> QED BY <2>1, <2>2
<1>2. Min({a, b}) \in {a, b} /\ \A y \in {a, b} : Min({a, b}) <= y BY <1>1 DEF Min
<1> QED BY <1>2

LEMMA MaxOfTwo ==
    ASSUME NEW a \in Int, NEW b \in Int
    PROVE  Max({a, b}) \in {a, b} /\ Max({a, b}) >= a /\ Max({a, b}) >= b
<1>1. \E x \in {a, b} : \A y \in {a, b} : x >= y
  <2>1. CASE a >= b BY <2>1
  <2>2. CASE ~(a >= b) BY <2>2
  <2> QED BY <2>1, <2>2
<1>2. Max({a, b}) \in {a, b} /\ \A y \in {a, b} : Max({a, b}) >= y BY <1>1 DEF Max
<1> QED BY <1>2

LEMMA IntervalType == heartbeat_interval \in Nat
<1>1. SenderTimeout \div 3 \in Nat /\ MaxInterval \in Nat BY Constants
<1> DEFINE i == SenderTimeout \div 3
<1>2. i \in Int /\ MaxInterval \in Int BY <1>1
<1> HIDE DEF i
<1>3. Min({i, MaxInterval}) \in {i, MaxInterval} BY <1>2, MinOfTwo
<1>4. heartbeat_interval \in {i, MaxInterval} BY <1>3 DEF heartbeat_interval, i
<1> QED BY <1>1, <1>4 DEF i

-----------------------------------------------------------------------------
(* Lines on their way.                                                     *)
Carrying(W) == [line : W, age : 0 .. Delay]

LEMMA OneLine ==
    ASSUME NEW W, NEW w \in W, NEW q \in Seq(Carrying(W))
    PROVE  q \o Lines(<<w>>) \in Seq(Carrying(W))
<1> DEFINE e == [line |-> w, age |-> 0]
<1>1. Lines(<<w>>) = <<e>> BY DEF Lines
<1>2. e \in Carrying(W) BY Constants DEF Carrying
<1> HIDE DEF e
<1>3. <<e>> \in Seq(Carrying(W)) BY <1>2
<1>4. q \o <<e>> \in Seq(Carrying(W)) BY <1>3, ConcatProperties
<1> QED BY <1>1, <1>4

LEMMA TwoLines ==
    ASSUME NEW W, NEW v \in W, NEW w \in W, NEW q \in Seq(Carrying(W))
    PROVE  q \o Lines(<<v, w>>) \in Seq(Carrying(W))
<1> DEFINE d == [line |-> v, age |-> 0]
           e == [line |-> w, age |-> 0]
<1>1. Lines(<<v, w>>) = <<d, e>> BY DEF Lines
<1>2. d \in Carrying(W) /\ e \in Carrying(W) BY Constants DEF Carrying
<1> HIDE DEF d, e
<1>3. <<d, e>> \in Seq(Carrying(W)) BY <1>2
<1>4. q \o <<d, e>> \in Seq(Carrying(W)) BY <1>3, ConcatProperties
<1> QED BY <1>1, <1>4

LEMMA OlderType ==
    ASSUME NEW W, NEW q \in Seq(Carrying(W))
    PROVE  /\ Older(q) \in Seq(Carrying(W)) /\ Len(Older(q)) = Len(q)
           /\ \A i \in 1 .. Len(q) : Older(q)[i].line = q[i].line
<1>1. Len(q) \in Nat /\ DOMAIN q = 1 .. Len(q) /\ q \in [1 .. Len(q) -> Carrying(W)]
  OBVIOUS
<1>2. ASSUME NEW i \in 1 .. Len(q)
      PROVE  Older(q)[i] \in Carrying(W) /\ Older(q)[i].line = q[i].line
  <2>1. q[i] \in Carrying(W) BY <1>1
  <2>2. Older(q)[i] = [q[i] EXCEPT !.age = Min({q[i].age + 1, Delay})]
    BY <1>1 DEF Older
  <2>3. PICK a \in 0 .. Delay : a = q[i].age BY <2>1 DEF Carrying
  <2>4. Min({a + 1, Delay}) \in {a + 1, Delay} /\ Min({a + 1, Delay}) <= Delay
    <3>1. a + 1 \in Int /\ Delay \in Int BY Constants
    <3> QED BY <3>1, MinOfTwo
  <2>5. Min({a + 1, Delay}) \in 0 .. Delay BY <2>4, Constants
  <2> QED BY <2>1, <2>2, <2>3, <2>5 DEF Carrying
<1>3. Older(q) \in [1 .. Len(q) -> Carrying(W)] BY <1>1, <1>2 DEF Older
<1>4. Older(q) \in Seq(Carrying(W)) /\ Len(Older(q)) = Len(q) BY <1>1, <1>3
<1> QED BY <1>2, <1>4

-----------------------------------------------------------------------------
(* Types.                                                                  *)
LEMMA Types ==
    ASSUME TypeOK
    PROVE  /\ next \in 0 .. Chunks /\ left \in 0 .. Chunks
           /\ pending \in 0 .. Chunks /\ missing \in 0 .. Chunks
           /\ swait \in Nat /\ beat \in Nat /\ ssil \in Nat /\ rwait \in Nat
           /\ since \in Nat /\ ckpt \in Nat /\ rsil \in Nat /\ ackAge \in Nat
           /\ complete \in BOOLEAN /\ serr \in BOOLEAN /\ dirty \in BOOLEAN
           /\ ended \in BOOLEAN /\ reading \in BOOLEAN
           /\ events \in Seq(ToReceiver \cup {"Error"})
           /\ toR \in Seq(Carrying(ToReceiver)) /\ toS \in Seq(Carrying(ToSender))
BY DEF TypeOK, Carrying

Counts == {next, left, pending, missing} \subseteq 0 .. Chunks
Clocks == {swait, beat, ssil, rwait, since, ckpt, rsil, ackAge} \subseteq Nat
Places ==
    /\ spc \in {"first", "extra", "tail", "done", "failed", "dead"}
    /\ rpc \in {"recv", "saved", "install", "ack", "closing", "done", "failed", "dead"}
    /\ {complete, serr, dirty, ended, reading} \subseteq BOOLEAN
Queues ==
    /\ events \in Seq(ToReceiver \cup {"Error"})
    /\ toR \in Seq(Carrying(ToReceiver))
    /\ toS \in Seq(Carrying(ToSender))

LEMMA TypeOKParts == TypeOK <=> Counts /\ Clocks /\ Places /\ Queues
BY DEF TypeOK, Counts, Clocks, Places, Queues, Carrying

LEMMA InitTyped == Init => TypeOK
<1> SUFFICES ASSUME Init PROVE TypeOK OBVIOUS
<1>1. rsil \in Nat
  <2>1. Min({Delay, ReceiverTimeout}) \in {Delay, ReceiverTimeout}
    <3>1. Delay \in Int /\ ReceiverTimeout \in Int BY Constants
    <3> QED BY <3>1, MinOfTwo
  <2>2. rsil \in 0 .. Min({Delay, ReceiverTimeout}) BY DEF Init
  <2> QED BY <2>1, <2>2, Constants
<1>2. Counts BY Constants DEF Init, Counts
<1>3. Clocks BY <1>1 DEF Init, Clocks
<1>4. Places BY DEF Init, Places
<1>5. Queues BY DEF Init, Queues
<1> QED BY <1>2, <1>3, <1>4, <1>5, TypeOKParts

(* Repairs are taken from the queue.                                       *)
LEMMA Taken ==
    ASSUME TypeOK, NEW n \in Nat, take_repairs(n)
    PROVE  /\ left' \in 0 .. Chunks /\ pending' \in 0 .. Chunks /\ left' <= n
           /\ UNCHANGED <<complete, serr, ssil>>
<1>0. pending \in 0 .. Chunks BY Types
<1>1. pending \in Int /\ n \in Int /\ pending \in 0 .. Chunks BY <1>0
<1>2. left' = Min({n, pending}) /\ pending' = pending - left' BY DEF take_repairs
<1>3. left' \in {n, pending} /\ left' <= n /\ left' <= pending BY <1>1, <1>2, MinOfTwo
<1>4. PICK x \in Int, p \in 0 .. Chunks : x = left' /\ p = pending BY <1>1, <1>3
<1>5. x \in 0 .. Chunks /\ p - x \in 0 .. Chunks
  <2>1. x \in {n, p} /\ x <= p BY <1>3, <1>4
  <2> QED BY <2>1, Constants
<1>6. UNCHANGED <<complete, serr, ssil>> BY DEF take_repairs
<1> QED BY <1>2, <1>3, <1>4, <1>5, <1>6

LEMMA SentDatagram ==
    ASSUME TypeOK, SendDatagram
    PROVE  missing' \in 0 .. Chunks /\ dirty' \in BOOLEAN /\ swait' = Cost
<1>1. missing \in 0 .. Chunks /\ dirty \in BOOLEAN BY Types
<1>2. swait' = Cost BY DEF SendDatagram
<1>3. CASE UNCHANGED object BY <1>1, <1>2, <1>3 DEF object
<1>4. CASE missing > 0 /\ missing' = missing - 1 /\ dirty' = TRUE
  <2>1. missing - 1 \in 0 .. Chunks BY <1>1, <1>4, Constants
  <2> QED BY <1>2, <1>4, <2>1
<1> QED BY <1>3, <1>4 DEF SendDatagram

LEMMA NextCounts == TypeOK /\ [Next]_vars => Counts'
<1> SUFFICES ASSUME TypeOK, [Next]_vars PROVE Counts' OBVIOUS
<1>0. next \in 0 .. Chunks /\ left \in 0 .. Chunks
      /\ pending \in 0 .. Chunks /\ missing \in 0 .. Chunks
  BY Types
<1>1. CASE FirstPass
  <2>1. missing' \in 0 .. Chunks BY <1>1, SentDatagram DEF FirstPass
  <2>2. next' \in 0 .. Chunks /\ UNCHANGED <<left, pending>>
    BY <1>0, <1>1, Constants DEF FirstPass, feedback
  <2> QED BY <1>0, <2>1, <2>2 DEF Counts
<1>2. CASE FirstPassRepairs
  <2>1. left' \in 0 .. Chunks /\ pending' \in 0 .. Chunks
    BY <1>2, Taken, Constants DEF FirstPassRepairs
  <2>2. UNCHANGED <<next, missing>> BY <1>2 DEF FirstPassRepairs, object
  <2> QED BY <1>0, <2>1, <2>2 DEF Counts
<1>3. CASE SendRepair
  <2>1. missing' \in 0 .. Chunks BY <1>3, SentDatagram DEF SendRepair
  <2>2. left' \in 0 .. Chunks /\ UNCHANGED <<next, pending>>
    BY <1>0, <1>3, Constants DEF SendRepair, feedback
  <2> QED BY <1>0, <2>1, <2>2 DEF Counts
<1>4. CASE TailTurn
  <2>1. left' \in 0 .. Chunks /\ pending' \in 0 .. Chunks
    BY <1>4, Taken, Constants DEF TailTurn
  <2>2. UNCHANGED <<next, missing>> BY <1>4 DEF TailTurn, object
  <2> QED BY <1>0, <2>1, <2>2 DEF Counts
<1>5. CASE read_feedback
  <2>1. pending' \in 0 .. Chunks
    <3> DEFINE line == Head(toS).line
    <3>1. CASE line \in Reports
      <4>1. line[2] \in 0 .. Chunks BY <3>1 DEF Reports
      <4>2. pending' \in pending .. Min({pending + line[2], Chunks})
        BY <1>5, <3>1 DEF read_feedback
      <4>3. pending + line[2] \in Int /\ Chunks \in Int BY <1>0, <4>1, Constants
      <4>4. PICK b \in Int : b = pending + line[2] BY <4>3
      <4>5. Min({b, Chunks}) <= Chunks /\ Min({b, Chunks}) \in {b, Chunks}
        BY <4>3, <4>4, MinOfTwo
      <4>6. PICK m \in Int : m = Min({b, Chunks}) BY <4>3, <4>5
      <4>7. pending' \in pending .. m /\ m <= Chunks BY <4>2, <4>4, <4>5, <4>6
      <4> QED BY <1>0, <4>7, Constants
    <3>2. CASE line \notin Reports BY <1>0, <1>5, <3>2 DEF read_feedback
    <3> QED BY <3>1, <3>2
  <2>2. UNCHANGED <<next, left, missing>> BY <1>5 DEF read_feedback, sender, object
  <2> QED BY <1>0, <2>1, <2>2 DEF Counts
<1>6. CASE UNCHANGED <<next, left, pending, missing>> BY <1>0, <1>6 DEF Counts
<1>7. SendEnd \/ SendAck \/ SenderAborts \/ FeedbackTimeout \/ ReadControl
      \/ ControlTimeout \/ HandleEnd \/ HandlePing \/ HandleAck
      \/ SenderDies \/ ReceiverDies \/ Terminated \/ Tick \/ UNCHANGED vars
      => UNCHANGED <<next, left, pending, missing>>
  BY DEF SendEnd, SendAck, SenderAborts, FeedbackTimeout, ReadControl, ControlTimeout,
         HandleEnd, HandlePing, HandleAck, SenderDies, ReceiverDies, Terminated, Tick,
         vars, sender, feedback, object
<1>8. ReceiverAborts \/ ReceiverCloses \/ Install \/ SendComplete \/ Checkpoint
      \/ Report \/ NoReport
      => UNCHANGED <<next, left, pending, missing>>
  BY DEF ReceiverAborts, ReceiverCloses, Install, SendComplete, Checkpoint, Report,
         NoReport, sender, feedback, object
<1> QED BY <1>1, <1>2, <1>3, <1>4, <1>5, <1>6, <1>7, <1>8 DEF Next

LEMMA NextClocks == TypeOK /\ [Next]_vars => Clocks'
<1> SUFFICES ASSUME TypeOK, [Next]_vars PROVE Clocks' OBVIOUS
<1>0. /\ swait \in Nat /\ beat \in Nat /\ ssil \in Nat /\ rwait \in Nat
      /\ since \in Nat /\ ckpt \in Nat /\ rsil \in Nat /\ ackAge \in Nat
  BY Types
<1>a. send_heartbeat_if_due => beat' \in Nat BY <1>0 DEF send_heartbeat_if_due
<1>1. CASE FirstPass \/ SendRepair
  <2>1. swait' \in Nat BY <1>1, SentDatagram, Constants DEF FirstPass, SendRepair
  <2>2. beat' \in Nat BY <1>0, <1>1, <1>a DEF FirstPass, SendRepair
  <2>3. UNCHANGED <<ssil, rwait, since, ckpt, rsil, ackAge>>
    BY <1>1 DEF FirstPass, SendRepair, feedback, receiver, control
  <2> QED BY <1>0, <2>1, <2>2, <2>3 DEF Clocks
<1>2. CASE TailTurn
  <2>1. beat' \in Nat /\ swait' \in Nat BY <1>2, <1>a DEF TailTurn
  <2>2. UNCHANGED <<ssil, rwait, since, ckpt, rsil, ackAge>>
    BY <1>2 DEF TailTurn, take_repairs, receiver, control
  <2> QED BY <1>0, <2>1, <2>2 DEF Clocks
<1>3. CASE Tick
  <2>1. ASSUME NEW b \in Nat, NEW x \in Nat PROVE Upto(b, x) \in Nat
    <3>1. Min({b, x + 1}) \in {b, x + 1} BY MinOfTwo
    <3> QED BY <3>1 DEF Upto
  <2>2. ASSUME NEW x \in Nat PROVE Max({x - 1, 0}) \in Nat
    <3>1. Max({x - 1, 0}) \in {x - 1, 0} /\ Max({x - 1, 0}) >= 0
      <4>1. x - 1 \in Int /\ 0 \in Int OBVIOUS
      <4> QED BY <4>1, MaxOfTwo
    <3>2. x - 1 \in Int OBVIOUS
    <3> QED BY <3>1, <3>2
  <2>3. beat' \in Nat /\ since' \in Nat /\ ckpt' \in Nat
    BY <1>0, <1>3, <2>1, IntervalType, Constants DEF Tick
  <2>4. swait' \in Nat /\ rwait' \in Nat BY <1>0, <1>3, <2>2 DEF Tick
  <2>5. ssil' \in Nat /\ rsil' \in Nat /\ ackAge' \in Nat BY <1>0, <1>3 DEF Tick, Later
  <2> QED BY <2>3, <2>4, <2>5 DEF Clocks
<1>4. CASE ReceiverAborts \/ Install \/ Checkpoint
  <2>1. rwait' \in Nat /\ ckpt' \in Nat
    BY <1>0, <1>4, Constants DEF ReceiverAborts, Install, Checkpoint
  <2>2. UNCHANGED <<swait, beat, ssil, since, rsil, ackAge>>
    BY <1>4 DEF ReceiverAborts, Install, Checkpoint, sender, feedback, control
  <2> QED BY <1>0, <2>1, <2>2 DEF Clocks
<1>5. CASE UNCHANGED <<swait, beat, ssil, rwait, since, ckpt, rsil, ackAge>>
  BY <1>0, <1>5 DEF Clocks
<1>6. FirstPassRepairs \/ SendEnd \/ SendAck \/ SenderAborts \/ FeedbackTimeout
      \/ ControlTimeout \/ HandleEnd \/ HandlePing \/ HandleAck \/ ReceiverCloses
      \/ NoReport \/ SenderDies \/ ReceiverDies \/ Terminated \/ UNCHANGED vars
      => UNCHANGED <<swait, beat, ssil, rwait, since, ckpt, rsil, ackAge>>
  BY DEF FirstPassRepairs, take_repairs, SendEnd, SendAck, SenderAborts,
         FeedbackTimeout, ControlTimeout, HandleEnd, HandlePing, HandleAck,
         ReceiverCloses, NoReport, SenderDies, ReceiverDies, Terminated,
         vars, sender, feedback, receiver, control
<1>7. CASE read_feedback \/ ReadControl \/ SendComplete \/ Report
  <2>1. /\ ssil' \in {0, ssil} /\ rsil' \in {0, rsil} /\ ackAge' \in {0, ackAge}
        /\ since' \in {0, since} /\ UNCHANGED <<swait, beat, rwait, ckpt>>
    BY <1>7 DEF read_feedback, ReadControl, SendComplete, Report, sender, feedback,
                receiver, control
  <2> QED BY <1>0, <2>1 DEF Clocks
<1> QED BY <1>1, <1>2, <1>3, <1>4, <1>5, <1>6, <1>7 DEF Next

LEMMA NextPlaces == TypeOK /\ [Next]_vars => Places'
<1> SUFFICES ASSUME TypeOK, [Next]_vars PROVE Places' OBVIOUS
<1>0. Places BY TypeOKParts
<1>1. CASE FirstPass \/ SendRepair
  <2>1. dirty' \in BOOLEAN BY <1>1, SentDatagram DEF FirstPass, SendRepair
  <2>2. /\ spc' \in {spc, "first", "extra"}
        /\ UNCHANGED <<rpc, complete, serr, ended, reading>>
    BY <1>1 DEF FirstPass, SendRepair, feedback, receiver, control
  <2> QED BY <1>0, <2>1, <2>2 DEF Places
<1>2. CASE FirstPassRepairs \/ SendEnd \/ TailTurn \/ SendAck \/ SenderAborts \/ SenderDies
  <2>1. /\ spc' \in {spc, "first", "tail", "done", "failed", "dead"}
        /\ UNCHANGED <<rpc, complete, serr, dirty, ended, reading>>
    BY <1>2 DEF FirstPassRepairs, SendEnd, TailTurn, SendAck, SenderAborts, SenderDies,
                take_repairs, feedback, receiver, object, control
  <2> QED BY <1>0, <2>1 DEF Places
<1>3. CASE read_feedback \/ FeedbackTimeout
  <2>1. UNCHANGED <<spc, rpc, dirty, ended, reading>>
    BY <1>3 DEF read_feedback, FeedbackTimeout, sender, receiver, object, control
  <2>2. complete \in BOOLEAN BY <1>0 DEF Places
  <2>3. complete' \in BOOLEAN /\ serr' \in BOOLEAN
    <3>1. CASE read_feedback BY <3>1 DEF read_feedback
    <3>2. CASE FeedbackTimeout BY <2>2, <3>2 DEF FeedbackTimeout
    <3> QED BY <1>3, <3>1, <3>2
  <2> QED BY <1>0, <2>1, <2>3 DEF Places
<1>4. CASE ReadControl \/ ControlTimeout
  <2>1. UNCHANGED <<spc, rpc, complete, serr, dirty, ended>>
    BY <1>4 DEF ReadControl, ControlTimeout, sender, feedback, receiver, object
  <2>2. reading' \in BOOLEAN
    <3>1. CASE ReadControl BY <3>1 DEF ReadControl
    <3>2. CASE ControlTimeout BY <3>2 DEF ControlTimeout
    <3> QED BY <1>4, <3>1, <3>2
  <2> QED BY <1>0, <2>1, <2>2 DEF Places
<1>5. CASE HandleEnd \/ HandlePing \/ HandleAck \/ ReceiverAborts \/ ReceiverCloses
           \/ Install \/ SendComplete \/ Checkpoint \/ Report \/ NoReport \/ ReceiverDies
  <2>1. /\ rpc' \in {rpc, "recv", "saved", "install", "ack", "closing", "done", "failed",
                      "dead"}
        /\ ended' \in {ended, TRUE} /\ dirty' \in {dirty, FALSE}
        /\ UNCHANGED <<spc, complete, serr, reading>>
    BY <1>5 DEF HandleEnd, HandlePing, HandleAck, ReceiverAborts, ReceiverCloses,
                Install, SendComplete, Checkpoint, Report, NoReport, ReceiverDies,
                sender, feedback, receiver, object, control
  <2> QED BY <1>0, <2>1 DEF Places
<1>6. CASE Tick \/ Terminated \/ UNCHANGED vars
  <2>1. UNCHANGED <<spc, rpc, complete, serr, dirty, ended, reading>>
    BY <1>6 DEF Tick, Terminated, vars, sender, feedback, receiver, object, control
  <2> QED BY <1>0, <2>1 DEF Places
<1> QED BY <1>1, <1>2, <1>3, <1>4, <1>5, <1>6 DEF Next

LEMMA NextQueues == TypeOK /\ [Next]_vars => Queues'
<1> SUFFICES ASSUME TypeOK, [Next]_vars PROVE Queues' OBVIOUS
<1> DEFINE Events == ToReceiver \cup {"Error"}
<1>0. /\ events \in Seq(Events) /\ toR \in Seq(Carrying(ToReceiver))
      /\ toS \in Seq(Carrying(ToSender))
  BY Types
<1>a. ASSUME NEW w \in ToReceiver PROVE toR \o Lines(<<w>>) \in Seq(Carrying(ToReceiver))
  BY <1>0, OneLine
<1>b. ASSUME NEW w \in ToSender PROVE toS \o Lines(<<w>>) \in Seq(Carrying(ToSender))
  BY <1>0, OneLine
<1>c. "PING" \in ToReceiver /\ "END" \in ToReceiver /\ "COMPLETE_ACK" \in ToReceiver
      /\ "CANCEL" \in ToReceiver
  BY DEF ToReceiver
<1>d. /\ <<"PONG", 0>> \in ToSender /\ <<"COMPLETE", 0>> \in ToSender
      /\ <<"EOF", 0>> \in ToSender /\ \A n \in 0 .. Chunks : <<"M", n>> \in ToSender
  BY DEF ToSender, Reports
<1>e. ASSUME NEW W, NEW q \in Seq(W), q # <<>> PROVE Head(q) \in W /\ Tail(q) \in Seq(W)
  BY <1>e, HeadTailProperties
<1> HIDE DEF Events
<1>1. CASE FirstPass \/ TailTurn \/ SendEnd \/ SendAck \/ SenderAborts
  <2>1. UNCHANGED <<events, toS>>
    BY <1>1 DEF FirstPass, TailTurn, SendEnd, SendAck, SenderAborts
  <2>2. toR' \in {toR} \cup {toR \o Lines(<<w>>) : w \in ToReceiver}
    BY <1>1, <1>c DEF FirstPass, TailTurn, SendEnd, SendAck, SenderAborts,
                      send_heartbeat_if_due
  <2>3. toR' \in Seq(Carrying(ToReceiver)) BY <1>0, <1>a, <2>2
  <2> QED BY <1>0, <2>1, <2>3 DEF Queues, Events
<1>2. CASE FirstPassRepairs \/ SendRepair \/ FeedbackTimeout \/ ReceiverAborts \/ Install
           \/ Checkpoint \/ NoReport \/ SenderDies \/ ReceiverDies \/ Terminated
           \/ UNCHANGED vars
  <2>1. UNCHANGED <<events, toR, toS>>
    BY <1>2 DEF FirstPassRepairs, SendRepair, FeedbackTimeout, ReceiverAborts, Install,
                Checkpoint, NoReport, SenderDies, ReceiverDies, Terminated, vars
  <2> QED BY <1>0, <2>1 DEF Queues, Events
<1>3. CASE read_feedback
  <2>1. toS # <<>> /\ toS' = Tail(toS) /\ UNCHANGED <<events, toR>>
    BY <1>3 DEF read_feedback
  <2>2. toS' \in Seq(Carrying(ToSender)) BY <1>0, <1>e, <2>1
  <2> QED BY <1>0, <2>1, <2>2 DEF Queues, Events
<1>4. CASE ReadControl
  <2>1. toR # <<>> /\ toR' = Tail(toR) /\ events' = Append(events, Head(toR).line)
        /\ UNCHANGED toS
    BY <1>4 DEF ReadControl
  <2>2. toR' \in Seq(Carrying(ToReceiver)) /\ Head(toR) \in Carrying(ToReceiver)
    BY <1>0, <1>e, <2>1
  <2>3. Head(toR).line \in Events BY <2>2 DEF Carrying, Events
  <2>4. events' \in Seq(Events) BY <1>0, <2>1, <2>3, AppendProperties
  <2> QED BY <1>0, <2>1, <2>2, <2>4 DEF Queues, Events
<1>5. CASE ControlTimeout
  <2>1. events' = Append(events, "Error") /\ UNCHANGED <<toR, toS>>
    BY <1>5 DEF ControlTimeout
  <2>2. "Error" \in Events BY DEF Events
  <2>3. events' \in Seq(Events) BY <1>0, <2>1, <2>2, AppendProperties
  <2> QED BY <1>0, <2>1, <2>3 DEF Queues, Events
<1>6. CASE HandleEnd \/ HandlePing \/ HandleAck
  <2>1. /\ events # <<>> /\ events' = Tail(events) /\ toR' = toR
        /\ toS' \in {toS, toS \o Lines(<<<<"PONG", 0>>>>)}
    BY <1>6 DEF HandleEnd, HandlePing, HandleAck
  <2>2. events' \in Seq(Events) BY <1>0, <1>e, <2>1
  <2>3. toS' \in Seq(Carrying(ToSender)) BY <1>0, <1>b, <1>d, <2>1
  <2> QED BY <1>0, <2>1, <2>2, <2>3 DEF Queues, Events
<1>7. CASE ReceiverCloses \/ SendComplete \/ Report
  <2>1. UNCHANGED <<events, toR>> BY <1>7 DEF ReceiverCloses, SendComplete, Report
  <2>2. toS' \in Seq(Carrying(ToSender))
    <3>1. CASE ReceiverCloses BY <1>b, <1>d, <3>1 DEF ReceiverCloses
    <3>2. CASE SendComplete
      <4>1. 0 \in 0 .. Chunks BY Constants
      <4>2. <<"M", 0>> \in ToSender BY <1>d, <4>1
      <4> QED BY <1>0, <1>d, <3>2, <4>2, TwoLines DEF SendComplete
    <3>3. CASE Report
      <4>1. PICK n \in 0 .. missing : toS' = toS \o Lines(<<<<"M", n>>>>)
        BY <3>3 DEF Report
      <4>2. missing \in 0 .. Chunks /\ Chunks \in Nat BY Types, Constants
      <4>3. n \in 0 .. Chunks BY <4>2
      <4> QED BY <1>b, <1>d, <4>1, <4>3
    <3> QED BY <1>7, <3>1, <3>2, <3>3
  <2> QED BY <1>0, <2>1, <2>2 DEF Queues, Events
<1>8. CASE Tick
  <2>1. toR' = Older(toR) /\ toS' = Older(toS) /\ events' = events BY <1>8 DEF Tick
  <2> QED BY <1>0, <2>1, OlderType DEF Queues, Events
<1> QED BY <1>1, <1>2, <1>3, <1>4, <1>5, <1>6, <1>7, <1>8 DEF Next

LEMMA NextTyped == TypeOK /\ [Next]_vars => TypeOK'
<1>1. Counts' /\ Clocks' /\ Places' /\ Queues' => TypeOK'
  BY DEF TypeOK, Counts, Clocks, Places, Queues, Carrying
<1> QED BY <1>1, NextCounts, NextClocks, NextPlaces, NextQueues

(* Every variable of Heartbeat keeps its type.                             *)
THEOREM TypeCorrect == Spec => []TypeOK
BY InitTyped, NextTyped, PTL DEF Spec

-----------------------------------------------------------------------------
(* COMPLETE comes after END: nothing of it exists before the sender has    *)
(* ended its first pass.                                                   *)
Carries(q, w) == \E i \in 1 .. Len(q) : q[i].line = w
Holds(q, w) == \E i \in 1 .. Len(q) : q[i] = w

FirstPassRuns == spc \in {"first", "extra"}

EndFirst ==
    FirstPassRuns =>
        /\ ~complete /\ ~ended /\ rpc \notin {"install", "ack"}
        /\ ~Holds(events, "END") /\ ~Carries(toR, "END")
        /\ ~Carries(toS, <<"COMPLETE", 0>>)

LEMMA CarriedByOne ==
    ASSUME NEW W, NEW v \in W, NEW w, NEW q \in Seq(Carrying(W)), v # w, ~Carries(q, w)
    PROVE  ~Carries(q \o Lines(<<v>>), w)
<1> DEFINE e == [line |-> v, age |-> 0]
<1>1. Lines(<<v>>) = <<e>> BY DEF Lines
<1>2. e \in Carrying(W) /\ e.line = v BY Constants DEF Carrying
<1> HIDE DEF e
<1>3. <<e>> \in Seq(Carrying(W)) /\ Len(<<e>>) = 1 /\ <<e>>[1] = e BY <1>2
<1>4. /\ Len(q \o <<e>>) = Len(q) + 1
      /\ \A i \in 1 .. Len(q) + 1 :
             (q \o <<e>>)[i] = IF i <= Len(q) THEN q[i] ELSE <<e>>[i - Len(q)]
  BY <1>3, ConcatProperties
<1>5. Len(q) \in Nat OBVIOUS
<1>6. ASSUME NEW i \in 1 .. Len(q) + 1 PROVE (q \o <<e>>)[i].line # w
  <2>1. CASE i <= Len(q)
    <3>1. i \in 1 .. Len(q) BY <1>5, <2>1
    <3>2. (q \o <<e>>)[i] = q[i] BY <1>4, <2>1
    <3> QED BY <3>1, <3>2 DEF Carries
  <2>2. CASE ~(i <= Len(q))
    <3>1. i - Len(q) = 1 BY <1>5, <2>2
    <3>2. (q \o <<e>>)[i] = e BY <1>3, <1>4, <2>2, <3>1
    <3> QED BY <1>2, <3>2
  <2> QED BY <2>1, <2>2
<1> QED BY <1>1, <1>4, <1>6 DEF Carries

LEMMA CarriedByTail ==
    ASSUME NEW W, NEW q \in Seq(Carrying(W)), q # <<>>, NEW w, ~Carries(q, w)
    PROVE  Head(q).line # w /\ ~Carries(Tail(q), w)
<1>1. Len(q) \in Nat /\ Len(q) # 0 BY EmptySeq
<1>2. Head(q) = q[1] /\ 1 \in 1 .. Len(q) BY <1>1
<1>3. /\ Len(Tail(q)) = Len(q) - 1 /\ \A i \in 1 .. Len(Tail(q)) : Tail(q)[i] = q[i + 1]
  BY HeadTailProperties
<1>4. \A i \in 1 .. Len(q) - 1 : i + 1 \in 1 .. Len(q) BY <1>1
<1> QED BY <1>2, <1>3, <1>4 DEF Carries

LEMMA HeldByTail ==
    ASSUME NEW W, NEW q \in Seq(W), q # <<>>, NEW w, ~Holds(q, w)
    PROVE  Head(q) # w /\ ~Holds(Tail(q), w)
<1>1. Len(q) \in Nat /\ Len(q) # 0 BY EmptySeq
<1>2. Head(q) = q[1] /\ 1 \in 1 .. Len(q) BY <1>1
<1>3. /\ Len(Tail(q)) = Len(q) - 1 /\ \A i \in 1 .. Len(Tail(q)) : Tail(q)[i] = q[i + 1]
  BY HeadTailProperties
<1>4. \A i \in 1 .. Len(q) - 1 : i + 1 \in 1 .. Len(q) BY <1>1
<1> QED BY <1>2, <1>3, <1>4 DEF Holds

LEMMA HeldByAppend ==
    ASSUME NEW W, NEW q \in Seq(W), NEW v \in W, NEW w, v # w, ~Holds(q, w)
    PROVE  ~Holds(Append(q, v), w)
<1>1. /\ Len(Append(q, v)) = Len(q) + 1 /\ Append(q, v)[Len(q) + 1] = v
      /\ \A i \in 1 .. Len(q) : Append(q, v)[i] = q[i]
  BY AppendProperties
<1>2. Len(q) \in Nat OBVIOUS
<1>3. \A i \in 1 .. Len(q) + 1 : i \in 1 .. Len(q) \/ i = Len(q) + 1 BY <1>2
<1> QED BY <1>1, <1>3 DEF Holds

LEMMA CarriedOlder ==
    ASSUME NEW W, NEW q \in Seq(Carrying(W)), NEW w, ~Carries(q, w)
    PROVE  ~Carries(Older(q), w)
BY OlderType DEF Carries

LEMMA InitEndFirst == Init => EndFirst
BY DEF Init, EndFirst, Holds, Carries

LEMMA NextEndFirst == TypeOK /\ EndFirst /\ [Next]_vars => EndFirst'
<1> SUFFICES ASSUME TypeOK, EndFirst, [Next]_vars, FirstPassRuns'
             PROVE  /\ ~complete' /\ ~ended' /\ rpc' \notin {"install", "ack"}
                    /\ ~Holds(events', "END") /\ ~Carries(toR', "END")
                    /\ ~Carries(toS', <<"COMPLETE", 0>>)
  BY DEF EndFirst, Holds, Carries
<1> DEFINE Events == ToReceiver \cup {"Error"}
<1>a. /\ events \in Seq(Events) /\ toR \in Seq(Carrying(ToReceiver))
      /\ toS \in Seq(Carrying(ToSender))
  BY Types
<1>b. FirstPassRuns
  <2>1. CASE FirstPass \/ FirstPassRepairs \/ SendRepair \/ SendEnd \/ TailTurn \/ SendAck
             \/ SenderAborts \/ SenderDies
    BY <2>1 DEF FirstPass, FirstPassRepairs, SendRepair, SendEnd, TailTurn, SendAck,
                SenderAborts, SenderDies, FirstPassRuns
  <2>2. CASE UNCHANGED spc BY <2>2 DEF FirstPassRuns
  <2>3. read_feedback \/ FeedbackTimeout \/ ReadControl \/ ControlTimeout
        \/ HandleEnd \/ HandlePing \/ HandleAck \/ ReceiverAborts \/ ReceiverCloses
        \/ Install \/ SendComplete \/ Checkpoint \/ Report \/ NoReport \/ ReceiverDies
        \/ Tick \/ Terminated \/ UNCHANGED vars
        => UNCHANGED spc
    BY DEF read_feedback, FeedbackTimeout, ReadControl, ControlTimeout, HandleEnd,
           HandlePing, HandleAck, ReceiverAborts, ReceiverCloses, Install, SendComplete,
           Checkpoint, Report, NoReport, ReceiverDies, Tick, Terminated, vars, sender
  <2> QED BY <2>1, <2>2, <2>3 DEF Next
<1>c. /\ ~complete /\ ~ended /\ rpc \notin {"install", "ack"}
      /\ ~Holds(events, "END") /\ ~Carries(toR, "END")
      /\ ~Carries(toS, <<"COMPLETE", 0>>)
  BY <1>b DEF EndFirst
<1>d. \A w \in ToSender : w # <<"COMPLETE", 0>> =>
         ~Carries(toS \o Lines(<<w>>), <<"COMPLETE", 0>>)
  BY <1>a, <1>c, CarriedByOne
<1>e. "PING" \in ToReceiver /\ "CANCEL" \in ToReceiver BY DEF ToReceiver
<1>f. ~Carries(toR \o Lines(<<"PING">>), "END") /\ ~Carries(toR \o Lines(<<"CANCEL">>), "END")
  BY <1>a, <1>c, <1>e, CarriedByOne
<1> HIDE DEF Events
<1>1. CASE FirstPass
  <2>1. UNCHANGED <<complete, ended, rpc, events, toS>>
    BY <1>1 DEF FirstPass, feedback, receiver
  <2>2. toR' \in {toR, toR \o Lines(<<"PING">>)}
    BY <1>1 DEF FirstPass, send_heartbeat_if_due
  <2> QED BY <1>c, <1>f, <2>1, <2>2
<1>2. CASE FirstPassRepairs \/ SendRepair \/ FeedbackTimeout \/ Checkpoint \/ NoReport
           \/ SenderDies \/ Terminated \/ UNCHANGED vars
  <2>1. /\ UNCHANGED <<complete, ended, events, toR, toS>> /\ rpc' \in {rpc, "saved", "recv"}
    BY <1>2 DEF FirstPassRepairs, SendRepair, FeedbackTimeout, Checkpoint, NoReport,
                SenderDies, Terminated, vars, take_repairs, feedback, receiver
  <2> QED BY <1>c, <2>1
<1>3. CASE TailTurn \/ SendEnd \/ SendAck \/ SenderAborts
  BY <1>3, <1>b DEF TailTurn, SendEnd, SendAck, SenderAborts, FirstPassRuns
<1>4. CASE read_feedback
  <2>1. /\ toS # <<>> /\ toS' = Tail(toS) /\ UNCHANGED <<ended, rpc, events, toR>>
        /\ complete' = (Head(toS).line[1] = "COMPLETE")
    BY <1>4 DEF read_feedback, receiver
  <2>2. Head(toS).line # <<"COMPLETE", 0>> /\ ~Carries(toS', <<"COMPLETE", 0>>)
    BY <1>a, <1>c, <2>1, CarriedByTail
  <2>3. Head(toS) \in Carrying(ToSender) BY <1>a, <2>1, HeadTailProperties
  <2>4. Head(toS).line \in ToSender BY <2>3 DEF Carrying
  <2>5. Head(toS).line[1] # "COMPLETE" BY <2>2, <2>4 DEF ToSender, Reports
  <2> QED BY <1>c, <2>1, <2>2, <2>5
<1>5. CASE ReadControl
  <2>1. /\ toR # <<>> /\ toR' = Tail(toR) /\ events' = Append(events, Head(toR).line)
        /\ UNCHANGED <<complete, ended, rpc, toS>>
    BY <1>5 DEF ReadControl, feedback, receiver
  <2>2. Head(toR).line # "END" /\ ~Carries(toR', "END") BY <1>a, <1>c, <2>1, CarriedByTail
  <2>3. Head(toR) \in Carrying(ToReceiver) BY <1>a, <2>1, HeadTailProperties
  <2>4. Head(toR).line \in Events BY <2>3 DEF Carrying, Events
  <2>5. ~Holds(events', "END") BY <1>a, <1>c, <2>1, <2>2, <2>4, HeldByAppend
  <2> QED BY <1>c, <2>1, <2>2, <2>5
<1>6. CASE ControlTimeout
  <2>1. events' = Append(events, "Error") /\ UNCHANGED <<complete, ended, rpc, toR, toS>>
    BY <1>6 DEF ControlTimeout, feedback, receiver
  <2>2. "Error" \in Events BY DEF Events
  <2>3. ~Holds(events', "END") BY <1>a, <1>c, <2>1, <2>2, HeldByAppend
  <2> QED BY <1>c, <2>1, <2>3
<1>7. CASE HandleEnd \/ HandlePing \/ HandleAck
  <2>1. events # <<>> /\ events' = Tail(events)
    BY <1>7 DEF HandleEnd, HandlePing, HandleAck
  <2>2. Head(events) # "END" /\ ~Holds(events', "END") BY <1>a, <1>c, <2>1, HeldByTail
  <2>3. /\ UNCHANGED <<complete, ended, toR>> /\ rpc' \in {rpc, "done"}
        /\ toS' \in {toS, toS \o Lines(<<<<"PONG", 0>>>>)}
    BY <1>7, <2>2 DEF HandleEnd, HandlePing, HandleAck, feedback, receiver
  <2>4. <<"PONG", 0>> \in ToSender /\ <<"PONG", 0>> # <<"COMPLETE", 0>>
    BY DEF ToSender
  <2> QED BY <1>c, <1>d, <2>2, <2>3, <2>4
<1>8. CASE ReceiverAborts \/ ReceiverDies
  <2>1. UNCHANGED <<complete, ended, events, toR, toS>> /\ rpc' \in {"closing", "dead"}
    BY <1>8 DEF ReceiverAborts, ReceiverDies, feedback
  <2> QED BY <1>c, <2>1
<1>9. CASE ReceiverCloses
  <2>1. /\ UNCHANGED <<complete, ended, events, toR>> /\ rpc' = "failed"
        /\ toS' = toS \o Lines(<<<<"EOF", 0>>>>)
    BY <1>9 DEF ReceiverCloses, feedback
  <2>2. <<"EOF", 0>> \in ToSender /\ <<"EOF", 0>> # <<"COMPLETE", 0>> BY DEF ToSender
  <2> QED BY <1>c, <1>d, <2>1, <2>2
<1>10. CASE Install \/ SendComplete BY <1>10, <1>c DEF Install, SendComplete
<1>11. CASE Report
  <2>1. PICK n \in 0 .. missing : toS' = toS \o Lines(<<<<"M", n>>>>) BY <1>11 DEF Report
  <2>2. UNCHANGED <<complete, ended, events, toR>> /\ rpc' = "recv"
    BY <1>11 DEF Report, feedback
  <2>3. n \in 0 .. Chunks
    <3>1. missing \in 0 .. Chunks /\ Chunks \in Nat BY Types, Constants
    <3> QED BY <3>1
  <2>4. <<"M", n>> \in ToSender /\ <<"M", n>> # <<"COMPLETE", 0>>
    BY <2>3 DEF ToSender, Reports
  <2> QED BY <1>c, <1>d, <2>1, <2>2, <2>4
<1>12. CASE Tick
  <2>1. /\ toR' = Older(toR) /\ toS' = Older(toS) /\ UNCHANGED <<complete, ended, rpc, events>>
    BY <1>12 DEF Tick
  <2> QED BY <1>a, <1>c, <2>1, CarriedOlder
<1> QED BY <1>1, <1>2, <1>3, <1>4, <1>5, <1>6, <1>7, <1>8, <1>9, <1>10, <1>11, <1>12
        DEF Next

-----------------------------------------------------------------------------
(* The sender.  What it still has to send and to sleep before it looks at  *)
(* feedback_error or at complete.                                          *)
Most == Max({Batch, 1 + Few})

Owed == swait + left * Cost + (IF spc = "extra" THEN Few * Cost ELSE 0)

SenderBudget ==
    SenderRuns =>
        /\ Owed <= Most * Cost
        /\ IF complete \/ serr THEN ssil + Owed <= SenderTimeout + Most * Cost
           ELSE ssil <= SenderTimeout

LEMMA TimesMonotone ==
    ASSUME NEW a \in Nat, NEW b \in Nat, NEW c \in Nat, a <= b
    PROVE  a * c \in Nat /\ b * c \in Nat /\ a * c <= b * c
<1>1. PICK d \in Nat : b = a + d
  <2>1. b - a \in Nat /\ b = a + (b - a) OBVIOUS
  <2> QED BY <2>1
<1>2. (a + d) * c = a * c + d * c OBVIOUS
<1>3. a * c \in Nat /\ d * c \in Nat OBVIOUS
<1>4. PICK x \in Nat, y \in Nat : x = a * c /\ y = d * c BY <1>3
<1>5. x <= x + y /\ x + y \in Nat OBVIOUS
<1> QED BY <1>1, <1>2, <1>4, <1>5

LEMMA MostHolds ==
    /\ Most \in Nat /\ Most * Cost \in Nat /\ Few * Cost \in Nat
    /\ Cost <= Most * Cost /\ Cost + Few * Cost <= Most * Cost
    /\ Few * Cost <= Most * Cost
    /\ \A n \in Nat : n <= Batch => n * Cost \in Nat /\ n * Cost <= Most * Cost
<1>1. Batch \in Int /\ 1 + Few \in Int BY Constants
<1>2. PICK f \in Int : f = 1 + Few BY <1>1
<1>3. Max({Batch, f}) \in {Batch, f} /\ Max({Batch, f}) >= Batch /\ Max({Batch, f}) >= f
  BY <1>1, <1>2, MaxOfTwo
<1>4. Most \in Nat /\ Batch <= Most /\ f <= Most /\ f \in Nat
  BY <1>2, <1>3, Constants DEF Most
<1>5. Few <= Most /\ 1 <= Most BY <1>2, <1>4, Constants
<1> HIDE DEF Most
<1>6. f * Cost <= Most * Cost /\ Few * Cost <= Most * Cost /\ 1 * Cost <= Most * Cost
      /\ Few * Cost \in Nat /\ Most * Cost \in Nat
  BY <1>4, <1>5, TimesMonotone, Constants
<1>7. (1 + Few) * Cost = Cost + Few * Cost /\ 1 * Cost = Cost BY Constants
<1>8. ASSUME NEW n \in Nat, n <= Batch PROVE n * Cost \in Nat /\ n * Cost <= Most * Cost
  <2>1. n <= Most BY <1>4, <1>8, Constants
  <2> QED BY <1>4, <2>1, TimesMonotone, Constants
<1> QED BY <1>2, <1>4, <1>6, <1>7, <1>8

LEMMA InitSender == Init => SenderBudget
<1> SUFFICES ASSUME Init PROVE SenderBudget OBVIOUS
<1>1. swait = 0 /\ left = 0 /\ spc = "first" /\ ssil = 0 /\ ~complete /\ ~serr BY DEF Init
<1>2. Owed = 0 BY <1>1, Constants DEF Owed
<1>3. PICK p \in Nat : p = Most * Cost BY MostHolds
<1> QED BY <1>1, <1>2, <1>3, Constants DEF SenderBudget

LEMMA NextSender == TypeOK /\ EndFirst /\ SenderBudget /\ [Next]_vars => SenderBudget'
<1> SUFFICES ASSUME TypeOK, EndFirst, SenderBudget, [Next]_vars, SenderRuns'
             PROVE  /\ Owed' <= Most * Cost
                    /\ IF complete' \/ serr' THEN ssil' + Owed' <= SenderTimeout + Most * Cost
                       ELSE ssil' <= SenderTimeout
  BY DEF SenderBudget, Most
<1>a. PICK p \in Nat, f \in Nat, l \in Nat :
         p = Most * Cost /\ f = Few * Cost /\ l = left * Cost
  <2>1. left * Cost \in Nat
    <3>0. left \in 0 .. Chunks BY Types
    <3>1. left \in Nat BY <3>0, Constants
    <3> QED BY <3>1, Constants
  <2> QED BY <2>1, MostHolds
<1>b. swait \in Nat /\ ssil \in Nat /\ left \in Nat /\ complete \in BOOLEAN /\ serr \in BOOLEAN
  <2>1. left \in 0 .. Chunks BY Types
  <2> QED BY <2>1, Types, Constants
<1>c. Owed = swait + l + (IF spc = "extra" THEN f ELSE 0) BY <1>a DEF Owed
<1>d. PICK o \in Nat : o = Owed BY <1>a, <1>b, <1>c
<1>e. SenderRuns => o <= p /\ (IF complete \/ serr THEN ssil + o <= SenderTimeout + p
                               ELSE ssil <= SenderTimeout)
  BY <1>a, <1>d DEF SenderBudget
<1>g. Cost <= p /\ Cost + f <= p /\ Cost \in Nat /\ SenderTimeout \in Nat
  BY <1>a, MostHolds, Constants
<1>1. CASE FirstPass
  <2>1. /\ spc = "first" /\ ~serr /\ left = 0 /\ swait' = Cost /\ left' = 0
        /\ spc' \in {"first", "extra"} /\ UNCHANGED <<complete, serr, ssil>>
    BY <1>1 DEF FirstPass, SendDatagram, SenderTurn, feedback
  <2>2. ~complete BY <2>1 DEF EndFirst, FirstPassRuns
  <2>3. SenderRuns BY <2>1 DEF SenderRuns
  <2>4. Owed' \in {Cost, Cost + f}
    <3>1. 0 * Cost = 0 BY Constants
    <3> QED BY <1>a, <1>g, <2>1, <3>1 DEF Owed
  <2> QED BY <1>a, <1>e, <1>g, <2>1, <2>2, <2>3, <2>4
<1>2. CASE FirstPassRepairs
  <2>1. /\ spc = "extra" /\ spc' = "first" /\ swait = 0 /\ swait' = 0 /\ left = 0
        /\ take_repairs(Few)
    BY <1>2 DEF FirstPassRepairs, SenderTurn
  <2>2. left' \in 0 .. Chunks /\ left' <= Few /\ UNCHANGED <<complete, serr, ssil>>
    BY <2>1, Taken, Constants
  <2>3. PICK m \in Nat : m = left' * Cost /\ m <= f
    <3>1. PICK x \in Nat : x = left' /\ x <= Few BY <2>2, Constants
    <3>2. x * Cost \in Nat /\ x * Cost <= Few * Cost BY <3>1, TimesMonotone, Constants
    <3> QED BY <1>a, <3>1, <3>2
  <2>4. Owed' = m BY <2>1, <2>3 DEF Owed
  <2>5. o = l + f BY <1>b, <1>c, <1>d, <2>1, <1>a
  <2>6. m <= o BY <1>a, <2>3, <2>5
  <2>7. SenderRuns BY <2>1 DEF SenderRuns
  <2>8. m <= p BY <1>e, <2>6, <2>7
  <2>9. CASE complete \/ serr
    <3>1. ssil + o <= SenderTimeout + p BY <1>e, <2>7, <2>9
    <3>2. ssil + m <= SenderTimeout + p BY <1>b, <1>g, <2>6, <3>1
    <3> QED BY <1>a, <2>2, <2>4, <2>8, <2>9, <3>2
  <2>10. CASE ~(complete \/ serr)
    <3>1. ssil <= SenderTimeout BY <1>e, <2>7, <2>10
    <3> QED BY <1>a, <2>2, <2>4, <2>8, <2>10, <3>1
  <2> QED BY <2>9, <2>10
<1>3. CASE SendRepair
  <2>1. /\ SenderRuns /\ swait = 0 /\ left > 0 /\ left' = left - 1 /\ swait' = Cost
        /\ UNCHANGED <<spc, complete, serr, ssil>>
    BY <1>3 DEF SendRepair, SendDatagram, feedback
  <2>2. (left - 1) * Cost + Cost = left * Cost
    <3>1. PICK x \in Nat : left = x + 1
      <4>1. left - 1 \in Nat /\ left = (left - 1) + 1 BY <1>b, <2>1
      <4> QED BY <4>1
    <3>2. (x + 1) * Cost = x * Cost + Cost BY Constants
    <3>3. left - 1 = x BY <3>1
    <3> QED BY <3>1, <3>2, <3>3
  <2>3. PICK m \in Int : m = (left - 1) * Cost /\ m + Cost = l
    <3>1. (left - 1) * Cost \in Int BY <1>b, Constants
    <3> QED BY <1>a, <2>2, <3>1
  <2>4. Owed' = Cost + m + (IF spc = "extra" THEN f ELSE 0) BY <1>a, <2>1, <2>3 DEF Owed
  <2>5. Owed' = o BY <1>a, <1>b, <1>c, <1>d, <1>g, <2>1, <2>3, <2>4
  <2> QED BY <1>a, <1>e, <2>1, <2>5
<1>4. CASE SendEnd
  <2>1. /\ spc = "first" /\ spc' = "tail" /\ UNCHANGED <<swait, left, complete, serr, ssil>>
    BY <1>4 DEF SendEnd, feedback
  <2>2. Owed' = o BY <1>c, <1>d, <1>a, <2>1 DEF Owed
  <2>3. SenderRuns BY <2>1 DEF SenderRuns
  <2> QED BY <1>a, <1>e, <2>1, <2>2, <2>3
<1>5. CASE TailTurn
  <2>1. /\ spc = "tail" /\ spc' = "tail" /\ ~complete /\ ~serr /\ take_repairs(Batch)
        /\ swait' = IF left' = 0 THEN 1 ELSE 0
    BY <1>5 DEF TailTurn
  <2>2. left' \in 0 .. Chunks /\ left' <= Batch /\ UNCHANGED <<complete, serr, ssil>>
    BY <2>1, Taken, Constants
  <2>3. PICK x \in Nat : x = left' /\ x <= Batch BY <2>2, Constants
  <2>4. PICK m \in Nat : m = x * Cost /\ m <= p BY <1>a, <2>3, MostHolds
  <2>5. Owed' = (IF x = 0 THEN 1 ELSE 0) + m BY <2>1, <2>3, <2>4 DEF Owed
  <2>6. x = 0 => m = 0 BY <2>4, Constants
  <2>7. SenderRuns BY <2>1 DEF SenderRuns
  <2>8. 1 <= Cost BY Constants
  <2>9. Owed' <= p BY <1>a, <1>g, <2>4, <2>5, <2>6, <2>8
  <2> QED BY <1>a, <1>e, <2>1, <2>2, <2>7, <2>9
<1>6. CASE SendAck \/ SenderAborts \/ SenderDies
  BY <1>6 DEF SendAck, SenderAborts, SenderDies, SenderRuns
<1>7. CASE read_feedback
  <2>1. SenderRuns /\ ssil' = 0 /\ UNCHANGED <<spc, swait, left>>
    BY <1>7 DEF read_feedback, FeedbackReads, sender
  <2>2. Owed' = o BY <1>d, <2>1 DEF Owed
  <2> QED BY <1>a, <1>d, <1>e, <1>g, <2>1, <2>2
<1>8. CASE FeedbackTimeout
  <2>1. SenderRuns /\ ~complete /\ ~serr /\ UNCHANGED <<spc, swait, left, complete, ssil>> /\ serr'
    BY <1>8 DEF FeedbackTimeout, FeedbackReads, sender
  <2>2. Owed' = o BY <1>d, <2>1 DEF Owed
  <2>3. o <= p /\ ssil <= SenderTimeout BY <1>e, <2>1
  <2>4. ssil + o <= SenderTimeout + p BY <1>b, <1>g, <2>3
  <2> QED BY <1>a, <2>1, <2>2, <2>3, <2>4
<1>9. CASE Tick
  <2>1. UNCHANGED <<spc, left, complete, serr>> BY <1>9 DEF Tick
  <2>2. SenderRuns BY <2>1 DEF SenderRuns
  <2>3. swait > 0 /\ (~complete /\ ~serr => ssil < SenderTimeout) /\ ssil' = ssil + 1
    BY <1>9, <2>2 DEF Tick, SenderWaits, FeedbackReads, Later
  <2>4. swait' = swait - 1
    <3>1. swait' = Max({swait - 1, 0}) BY <1>9 DEF Tick
    <3>2. PICK x \in Int : x = swait - 1 /\ x >= 0
      <4>1. swait - 1 \in Int /\ swait - 1 >= 0 BY <1>b, <2>3
      <4> QED BY <4>1
    <3>3. Max({x, 0}) \in {x, 0} /\ Max({x, 0}) >= x /\ Max({x, 0}) >= 0
      BY MaxOfTwo
    <3>4. Max({x, 0}) = x BY <3>2, <3>3
    <3> QED BY <3>1, <3>2, <3>4
  <2>5. Owed' = swait' + l + (IF spc = "extra" THEN f ELSE 0) BY <1>a, <2>1 DEF Owed
  <2>6. Owed' = o - 1 BY <1>a, <1>b, <1>c, <1>d, <2>3, <2>4, <2>5
  <2>7. CASE complete \/ serr
    <3>1. ssil + o <= SenderTimeout + p BY <1>e, <2>2, <2>7
    <3> QED BY <1>a, <1>b, <1>d, <1>e, <1>g, <2>1, <2>2, <2>3, <2>6, <2>7, <3>1
  <2>8. CASE ~(complete \/ serr)
    BY <1>a, <1>b, <1>d, <1>e, <1>g, <2>1, <2>2, <2>3, <2>6, <2>8
  <2> QED BY <2>7, <2>8
<1>10. CASE UNCHANGED <<spc, swait, left, complete, serr, ssil>>
  <2>1. Owed' = o /\ SenderRuns BY <1>10, <1>d DEF Owed, SenderRuns
  <2> QED BY <1>a, <1>e, <1>10, <2>1
<1>11. ReadControl \/ ControlTimeout \/ HandleEnd \/ HandlePing \/ HandleAck
       \/ ReceiverAborts \/ ReceiverCloses \/ Install \/ SendComplete \/ Checkpoint
       \/ Report \/ NoReport \/ ReceiverDies \/ Terminated \/ UNCHANGED vars
       => UNCHANGED <<spc, swait, left, complete, serr, ssil>>
  BY DEF ReadControl, ControlTimeout, HandleEnd, HandlePing, HandleAck, ReceiverAborts,
         ReceiverCloses, Install, SendComplete, Checkpoint, Report, NoReport,
         ReceiverDies, Terminated, vars, sender, feedback
<1> QED BY <1>1, <1>2, <1>3, <1>4, <1>5, <1>6, <1>7, <1>8, <1>9, <1>10, <1>11 DEF Next

-----------------------------------------------------------------------------
(* The receiver.  Once its control thread has stopped, the event that ends *)
(* its loop is the last of the queue; the loop gets there after the disk   *)
(* operation that runs, and then at most one more.                         *)
Terminal == {"Error", "CANCEL", "COMPLETE_ACK"}

LastTerminal == events # <<>> /\ events[Len(events)] \in Terminal

ReceiverBudget ==
    ReceiverRuns =>
        /\ rwait <= Stall
        /\ reading => rsil <= ReceiverTimeout
        /\ ~reading =>
             /\ LastTerminal
             /\ rsil + rwait + (IF rpc = "closing" THEN 0 ELSE Stall) <= ReceiverTimeout + 2 * Stall

LEMMA InitReceiver == Init => ReceiverBudget
<1> SUFFICES ASSUME Init PROVE ReceiverBudget OBVIOUS
<1>1. /\ Min({Delay, ReceiverTimeout}) \in {Delay, ReceiverTimeout}
      /\ Min({Delay, ReceiverTimeout}) <= ReceiverTimeout
  <2>1. Delay \in Int /\ ReceiverTimeout \in Int BY Constants
  <2> QED BY <2>1, MinOfTwo
<1>2. rsil \in 0 .. Min({Delay, ReceiverTimeout}) BY DEF Init
<1>3. rsil <= ReceiverTimeout BY <1>1, <1>2, Constants
<1>4. rwait = 0 /\ reading BY DEF Init
<1> QED BY <1>3, <1>4, Constants DEF ReceiverBudget

LEMMA NextReceiver == TypeOK /\ ReceiverBudget /\ [Next]_vars => ReceiverBudget'
<1> SUFFICES ASSUME TypeOK, ReceiverBudget, [Next]_vars, ReceiverRuns'
             PROVE  /\ rwait' <= Stall
                    /\ reading' => rsil' <= ReceiverTimeout
                    /\ ~reading' =>
                         /\ LastTerminal'
                         /\ rsil' + rwait' + (IF rpc' = "closing" THEN 0 ELSE Stall)
                                <= ReceiverTimeout + 2 * Stall
  BY DEF ReceiverBudget
<1>a. /\ rwait \in Nat /\ rsil \in Nat /\ reading \in BOOLEAN
      /\ Stall \in Nat /\ ReceiverTimeout \in Nat
  BY Types, Constants
<1>b. events \in Seq(ToReceiver \cup {"Error"}) /\ toR \in Seq(Carrying(ToReceiver)) BY Types
<1>c. ReceiverRuns =>
        /\ rwait <= Stall
        /\ reading => rsil <= ReceiverTimeout
        /\ ~reading =>
             /\ LastTerminal
             /\ rsil + rwait + (IF rpc = "closing" THEN 0 ELSE Stall) <= ReceiverTimeout + 2 * Stall
  BY DEF ReceiverBudget
<1>1. CASE ReadControl
  <2>1. /\ ReceiverRuns /\ toR # <<>> /\ events' = Append(events, Head(toR).line)
        /\ reading' = (Head(toR).line \in {"PING", "END"}) /\ rsil' = 0
        /\ UNCHANGED <<rpc, rwait>>
    BY <1>1 DEF ReadControl, receiver
  <2>2. Head(toR) \in Carrying(ToReceiver) BY <1>b, <2>1, HeadTailProperties
  <2>3. Head(toR).line \in ToReceiver BY <2>2 DEF Carrying
  <2>4. ~reading' => Head(toR).line \in Terminal BY <2>1, <2>3 DEF ToReceiver, Terminal
  <2>5. /\ events' # <<>> /\ events'[Len(events')] = Head(toR).line
    BY <1>b, <2>1, <2>3, AppendProperties
  <2>6. ~reading' => LastTerminal' BY <2>4, <2>5 DEF LastTerminal
  <2>7. rwait <= Stall BY <1>c, <2>1
  <2>8. 0 <= ReceiverTimeout /\ 0 + rwait + (IF rpc = "closing" THEN 0 ELSE Stall)
                                <= ReceiverTimeout + 2 * Stall
    BY <1>a, <2>7
  <2> QED BY <2>1, <2>6, <2>7, <2>8
<1>2. CASE ControlTimeout
  <2>1. /\ ReceiverRuns /\ reading /\ events' = Append(events, "Error") /\ reading' = FALSE
        /\ UNCHANGED <<rpc, rwait, rsil>>
    BY <1>2 DEF ControlTimeout, receiver
  <2>2. events' # <<>> /\ events'[Len(events')] = "Error" BY <1>b, <2>1, AppendProperties
  <2>3. LastTerminal' BY <2>2 DEF LastTerminal, Terminal
  <2>4. rwait <= Stall /\ rsil <= ReceiverTimeout BY <1>c, <2>1
  <2>5. rsil + rwait + (IF rpc = "closing" THEN 0 ELSE Stall) <= ReceiverTimeout + 2 * Stall
    BY <1>a, <2>4
  <2> QED BY <2>1, <2>3, <2>4, <2>5
<1>3. CASE HandleEnd \/ HandlePing
  <2>1. /\ ReceiverRuns /\ events # <<>> /\ events' = Tail(events)
        /\ Head(events) \in {"END", "PING"} /\ UNCHANGED <<rpc, rwait, reading, rsil>>
    BY <1>3 DEF HandleEnd, HandlePing, ReceiverTurn, receiver, control
  <2>2. LastTerminal => LastTerminal'
    <3> SUFFICES ASSUME LastTerminal PROVE LastTerminal' OBVIOUS
    <3>1. PICK n \in Nat : n = Len(events) /\ n # 0 BY <1>b, <2>1, EmptySeq
    <3>2. Head(events) = events[1] BY <2>1
    <3>3. n # 1 BY <2>1, <3>1, <3>2 DEF LastTerminal, Terminal
    <3>4. /\ events' \in Seq(ToReceiver \cup {"Error"}) /\ Len(events') = n - 1
          /\ \A i \in 1 .. n - 1 : events'[i] = events[i + 1]
      BY <1>b, <2>1, <3>1, HeadTailProperties
    <3>5. n - 1 \in 1 .. n - 1 /\ (n - 1) + 1 = n /\ n - 1 # 0 BY <3>1, <3>3
    <3>6. events'[n - 1] = events[n] BY <3>4, <3>5
    <3>7. events' # <<>> BY <3>4, <3>5, EmptySeq
    <3> QED BY <3>1, <3>4, <3>6, <3>7 DEF LastTerminal
  <2> QED BY <1>c, <2>1, <2>2
<1>4. CASE ReceiverAborts
  <2>1. /\ ReceiverRuns /\ rwait = 0 /\ rpc' = "closing" /\ UNCHANGED <<events, reading, rsil>>
        /\ rwait' \in 0 .. Stall
    BY <1>4, <1>a DEF ReceiverAborts, ReceiverTurn, control
  <2>2. LastTerminal => LastTerminal' BY <2>1 DEF LastTerminal
  <2>3. rpc # "closing" BY <1>4 DEF ReceiverAborts
  <2>4. rwait' <= Stall /\ rwait' \in Nat BY <1>a, <2>1
  <2>5. ~reading => rsil + rwait' + 0 <= ReceiverTimeout + 2 * Stall
    <3> SUFFICES ASSUME ~reading PROVE rsil + rwait' + 0 <= ReceiverTimeout + 2 * Stall OBVIOUS
    <3>1. rsil + rwait + Stall <= ReceiverTimeout + 2 * Stall BY <1>c, <2>1, <2>3
    <3>2. rsil + Stall <= ReceiverTimeout + 2 * Stall BY <1>a, <2>1, <3>1
    <3>3. PICK w \in Nat : w = rwait' BY <2>4
    <3>4. PICK i \in Nat, s \in Nat, r \in Nat : i = ReceiverTimeout /\ s = Stall /\ r = rsil
      BY <1>a
    <3>5. w <= s /\ r + s <= i + 2 * s BY <2>4, <3>2, <3>3, <3>4
    <3>6. r + w + 0 <= i + 2 * s BY <3>5
    <3> QED BY <3>3, <3>4, <3>6
  <2> QED BY <1>c, <2>1, <2>2, <2>4, <2>5
<1>5. CASE Install \/ Checkpoint
  <2>1. /\ ReceiverRuns /\ events = <<>> /\ rwait' \in 0 .. Stall /\ UNCHANGED <<reading, rsil>>
    BY <1>5 DEF Install, Checkpoint, Receiving, ReceiverTurn, control
  <2>2. reading BY <1>c, <2>1 DEF LastTerminal
  <2> QED BY <1>a, <1>c, <2>1, <2>2
<1>6. CASE SendComplete \/ Report \/ NoReport
  <2>1. /\ ReceiverRuns /\ UNCHANGED <<events, reading, rsil, rwait>>
        /\ rpc # "closing" /\ rpc' # "closing"
    BY <1>6 DEF SendComplete, Report, NoReport, Receiving, ReceiverTurn, control
  <2>2. LastTerminal => LastTerminal' BY <2>1 DEF LastTerminal
  <2> QED BY <1>c, <2>1, <2>2
<1>7. CASE HandleAck \/ ReceiverCloses \/ ReceiverDies
  BY <1>7 DEF HandleAck, ReceiverCloses, ReceiverDies, ReceiverRuns
<1>8. CASE Tick
  <2>1. UNCHANGED <<rpc, events, reading>> /\ rwait' = Max({rwait - 1, 0}) BY <1>8 DEF Tick
  <2>2. ReceiverRuns BY <2>1 DEF ReceiverRuns
  <2>3. /\ rsil' = rsil + 1 /\ (reading => rsil < ReceiverTimeout) /\ (rwait = 0 => events = <<>>)
    BY <1>8, <2>2 DEF Tick, ReceiverWaits, Later
  <2>4. LastTerminal => LastTerminal' BY <2>1 DEF LastTerminal
  <2>5. rwait' \in Nat /\ rwait' <= rwait /\ (rwait > 0 => rwait' = rwait - 1)
    <3>1. PICK x \in Int : x = rwait - 1 BY <1>a
    <3>2. Max({x, 0}) \in {x, 0} /\ Max({x, 0}) >= x /\ Max({x, 0}) >= 0
      BY <3>1, MaxOfTwo
    <3>3. PICK m \in Int : m = rwait' /\ m \in {x, 0} /\ m >= x /\ m >= 0
      BY <2>1, <3>1, <3>2
    <3>4. m \in Nat /\ m <= rwait /\ (rwait > 0 => m = rwait - 1) BY <1>a, <3>1, <3>3
    <3> QED BY <3>3, <3>4
  <2>6. rwait' <= Stall BY <1>a, <1>c, <2>2, <2>5
  <2>7. CASE reading BY <1>a, <2>1, <2>3, <2>6, <2>7
  <2>8. CASE ~reading
    <3>1. LastTerminal /\ rsil + rwait + (IF rpc = "closing" THEN 0 ELSE Stall)
                             <= ReceiverTimeout + 2 * Stall
      BY <1>c, <2>2, <2>8
    <3>2. rwait # 0 BY <2>3, <3>1 DEF LastTerminal
    <3>3. rwait' = rwait - 1 BY <1>a, <2>5, <3>2
    <3>4. rsil' + rwait' = rsil + rwait BY <1>a, <2>3, <3>3
    <3> QED BY <2>1, <2>4, <2>6, <2>8, <3>1, <3>4
  <2> QED BY <1>a, <2>7, <2>8
<1>9. CASE UNCHANGED <<rpc, rwait, reading, rsil, events>>
  <2>1. ReceiverRuns /\ (LastTerminal => LastTerminal') BY <1>9 DEF ReceiverRuns, LastTerminal
  <2> QED BY <1>9, <1>c, <2>1
<1>10. FirstPass \/ FirstPassRepairs \/ SendRepair \/ SendEnd \/ TailTurn \/ SendAck
       \/ SenderAborts \/ read_feedback \/ FeedbackTimeout \/ SenderDies \/ Terminated
       \/ UNCHANGED vars
       => UNCHANGED <<rpc, rwait, reading, rsil, events>>
  BY DEF FirstPass, FirstPassRepairs, SendRepair, SendEnd, TailTurn, SendAck,
         SenderAborts, read_feedback, FeedbackTimeout, SenderDies, Terminated, vars,
         receiver, control
<1> QED BY <1>1, <1>2, <1>3, <1>4, <1>5, <1>6, <1>7, <1>8, <1>9, <1>10 DEF Next

-----------------------------------------------------------------------------
IInv == TypeOK /\ EndFirst /\ SenderBudget /\ ReceiverBudget

(* A peer that falls silent never holds a process for ever: the feedback   *)
(* thread's idle timeout ends the sender within the repairs it has taken,  *)
(* and the control thread's the receiver within two disk operations, for   *)
(* every timeout, batch, rate and stall.                                   *)
THEOREM SilenceEndsTransfer == Spec => []AbortsInTime
<1>1. Init => IInv BY InitTyped, InitEndFirst, InitSender, InitReceiver DEF IInv
<1>2. IInv /\ [Next]_vars => IInv'
  BY NextTyped, NextEndFirst, NextSender, NextReceiver DEF IInv
<1>3. IInv => AbortsInTime
  <2> SUFFICES ASSUME IInv PROVE AbortsInTime OBVIOUS
  <2>1. SenderRuns => ssil <= SenderTimeout + Most * Cost
    <3> SUFFICES ASSUME SenderRuns PROVE ssil <= SenderTimeout + Most * Cost OBVIOUS
    <3>1. PICK p \in Nat : p = Most * Cost BY MostHolds
    <3>2. ssil \in Nat /\ Owed \in Nat
      <4>0. left \in 0 .. Chunks /\ swait \in Nat /\ ssil \in Nat BY Types DEF IInv
      <4>1. left \in Nat /\ swait \in Nat /\ ssil \in Nat BY <4>0, Constants
      <4>2. left * Cost \in Nat /\ Few * Cost \in Nat BY <4>1, Constants
      <4>3. PICK x \in Nat, y \in Nat : x = left * Cost /\ y = Few * Cost BY <4>2
      <4> QED BY <4>1, <4>3 DEF Owed
    <3>3. IF complete \/ serr THEN ssil + Owed <= SenderTimeout + p ELSE ssil <= SenderTimeout
      BY <3>1 DEF IInv, SenderBudget
    <3>4. ssil <= SenderTimeout + p
      <4> HIDE DEF Owed
      <4> QED BY <3>2, <3>3, Constants
    <3> QED BY <3>1, <3>4
  <2>2. ReceiverRuns => rsil <= ReceiverTimeout + 2 * Stall
    <3>1. rwait \in Nat /\ rsil \in Nat /\ reading \in BOOLEAN BY Types DEF IInv
    <3> QED BY <3>1, Constants DEF IInv, ReceiverBudget
  <2> QED BY <2>1, <2>2 DEF AbortsInTime, Most
<1> QED BY <1>1, <1>2, <1>3, PTL DEF Spec

-----------------------------------------------------------------------------
(* Two processes that live.  First, what happens to a queue of lines.      *)

(* A line w has been on its way for x or more.                             *)
Within(q, w, x) == \E i \in 1 .. Len(q) : q[i].line = w /\ x <= q[i].age

LEMMA LineAdded ==
    ASSUME NEW W, NEW v \in W, NEW q \in Seq(Carrying(W)),
           NEW r, r = q \o Lines(<<v>>)
    PROVE  /\ r \in Seq(Carrying(W)) /\ r # <<>>
           /\ Head(r) = IF q = <<>> THEN [line |-> v, age |-> 0] ELSE Head(q)
           /\ \A w : w # v /\ ~Carries(q, w) => ~Carries(r, w)
           /\ \A w, x : Within(q, w, x) => Within(r, w, x)
           /\ \A w : Carries(q, w) => Carries(r, w)
           /\ Carries(r, v)
           /\ \A x : x <= 0 => Within(r, v, x)
<1> DEFINE e == [line |-> v, age |-> 0]
<1>1. Lines(<<v>>) = <<e>> BY DEF Lines
<1>2. e \in Carrying(W) /\ e.line = v /\ e.age = 0 BY Constants DEF Carrying
<1> HIDE DEF e
<1>3. <<e>> \in Seq(Carrying(W)) /\ Len(<<e>>) = 1 /\ <<e>>[1] = e BY <1>2
<1>4. /\ r \in Seq(Carrying(W)) /\ Len(r) = Len(q) + 1
      /\ \A i \in 1 .. Len(q) + 1 : r[i] = IF i <= Len(q) THEN q[i] ELSE <<e>>[i - Len(q)]
  <2>1. /\ q \o <<e>> \in Seq(Carrying(W)) /\ Len(q \o <<e>>) = Len(q) + 1
        /\ \A i \in 1 .. Len(q) + 1 :
               (q \o <<e>>)[i] = IF i <= Len(q) THEN q[i] ELSE <<e>>[i - Len(q)]
    BY <1>3, ConcatProperties
  <2>2. r = q \o <<e>> BY <1>1
  <2> QED BY <2>1, <2>2
<1>5. PICK n \in Nat : n = Len(q) OBVIOUS
<1>6. /\ \A i \in 1 .. n : i \in 1 .. n + 1 /\ i <= n
      /\ n + 1 \in 1 .. n + 1 /\ ~(n + 1 <= n) /\ (n + 1) - n = 1
      /\ \A i \in 1 .. n + 1 : i \in 1 .. n \/ i = n + 1
  OBVIOUS
<1>7. r[n + 1] = e /\ \A i \in 1 .. n : r[i] = q[i] BY <1>3, <1>4, <1>5, <1>6
<1>8. r # <<>>
  <2>1. Len(r) # 0 BY <1>4, <1>5
  <2> QED BY <2>1
<1>9. Head(r) = IF q = <<>> THEN e ELSE Head(q)
  <2>1. Head(r) = r[1] BY <1>4, <1>8
  <2>2. CASE q = <<>>
    <3>1. n = 0 BY <1>5, <2>2
    <3> QED BY <1>7, <2>1, <2>2, <3>1
  <2>3. CASE q # <<>>
    <3>1. n # 0 BY <1>5, <2>3, EmptySeq
    <3>2. 1 \in 1 .. n BY <3>1
    <3>3. Head(q) = q[1] BY <2>3
    <3> QED BY <1>7, <2>1, <2>3, <3>2, <3>3
  <2> QED BY <2>2, <2>3
<1>10. \A w : w # v /\ ~Carries(q, w) => ~Carries(r, w)
  BY <1>2, <1>4, <1>5, <1>6, <1>7 DEF Carries
<1>11. \A w, x : Within(q, w, x) => Within(r, w, x) BY <1>4, <1>5, <1>6, <1>7 DEF Within
<1>12. \A w : Carries(q, w) => Carries(r, w) BY <1>4, <1>5, <1>6, <1>7 DEF Carries
<1>13. Carries(r, v) /\ \A x : x <= 0 => Within(r, v, x)
  BY <1>2, <1>4, <1>5, <1>6, <1>7 DEF Carries, Within
<1> QED BY <1>4, <1>8, <1>9, <1>10, <1>11, <1>12, <1>13 DEF e

LEMMA NewLine ==
    ASSUME NEW W, NEW v \in W, NEW q \in Seq(Carrying(W))
    PROVE  /\ Carries(q \o Lines(<<v>>), v)
           /\ \A x : x <= 0 => Within(q \o Lines(<<v>>), v, x)
           /\ \A w, x : Within(q, w, x) => Within(q \o Lines(<<v>>), w, x)
           /\ q \o Lines(<<v>>) # <<>>
           /\ Head(q \o Lines(<<v>>)) = IF q = <<>> THEN [line |-> v, age |-> 0] ELSE Head(q)
<1> DEFINE r == q \o Lines(<<v>>)
<1>1. r = q \o Lines(<<v>>) OBVIOUS
<1> HIDE DEF r
<1>2. /\ Carries(r, v) /\ r # <<>> /\ \A x : x <= 0 => Within(r, v, x)
      /\ \A w, x : Within(q, w, x) => Within(r, w, x)
      /\ Head(r) = IF q = <<>> THEN [line |-> v, age |-> 0] ELSE Head(q)
  BY <1>1, LineAdded
<1> QED BY <1>1, <1>2

LEMMA LineTaken ==
    ASSUME NEW W, NEW q \in Seq(Carrying(W)), q # <<>>
    PROVE  /\ Head(q) \in Carrying(W) /\ Tail(q) \in Seq(Carrying(W))
           /\ Head(q).line \in W /\ Carries(q, Head(q).line)
           /\ \A w : ~Carries(q, w) => ~Carries(Tail(q), w)
           /\ \A w : Carries(q, w) /\ Head(q).line # w => Carries(Tail(q), w)
           /\ \A w, x : Within(q, w, x) /\ Head(q).line # w => Within(Tail(q), w, x)
<1>1. PICK n \in Nat : n = Len(q) /\ n # 0 BY EmptySeq
<1>2. Head(q) = q[1] OBVIOUS
<1>3. /\ Head(q) \in Carrying(W) /\ Tail(q) \in Seq(Carrying(W))
      /\ Len(Tail(q)) = n - 1 /\ \A i \in 1 .. n - 1 : Tail(q)[i] = q[i + 1]
  BY <1>1, HeadTailProperties
<1>4. /\ 1 \in 1 .. n /\ \A i \in 1 .. n - 1 : i + 1 \in 1 .. n
      /\ \A i \in 1 .. n : i = 1 \/ (i - 1 \in 1 .. n - 1 /\ (i - 1) + 1 = i)
  BY <1>1
<1>5. Head(q).line \in W BY <1>3 DEF Carrying
<1>6. Carries(q, Head(q).line) BY <1>1, <1>2, <1>4 DEF Carries
<1>7. \A w : ~Carries(q, w) => ~Carries(Tail(q), w) BY <1>1, <1>3, <1>4 DEF Carries
<1>8. ASSUME NEW i \in 1 .. n, Head(q).line # q[i].line
      PROVE  i - 1 \in 1 .. n - 1 /\ Tail(q)[i - 1] = q[i]
  BY <1>2, <1>3, <1>4, <1>8
<1>9. \A w : Carries(q, w) /\ Head(q).line # w => Carries(Tail(q), w)
  BY <1>1, <1>3, <1>8 DEF Carries
<1>10. \A w, x : Within(q, w, x) /\ Head(q).line # w => Within(Tail(q), w, x)
  BY <1>1, <1>3, <1>8 DEF Within
<1> QED BY <1>3, <1>5, <1>6, <1>7, <1>9, <1>10

LEMMA LinesAge ==
    ASSUME NEW W, NEW q \in Seq(Carrying(W))
    PROVE  /\ Older(q) \in Seq(Carrying(W)) /\ (Older(q) = <<>> <=> q = <<>>)
           /\ \A w : Carries(Older(q), w) <=> Carries(q, w)
           /\ q # <<>> /\ Head(q).age < Delay => Head(Older(q)).age = Head(q).age + 1
           /\ \A w : \A x \in Int :
                 Within(q, w, x) /\ (\A i \in DOMAIN q : q[i].age < Delay)
                 => Within(Older(q), w, x + 1)
<1>1. /\ Older(q) \in Seq(Carrying(W)) /\ Len(Older(q)) = Len(q)
      /\ \A i \in 1 .. Len(q) : Older(q)[i].line = q[i].line
  BY OlderType
<1>2. PICK n \in Nat : n = Len(q) /\ DOMAIN q = 1 .. n OBVIOUS
<1>3. ASSUME NEW i \in 1 .. n, q[i].age < Delay PROVE Older(q)[i].age = q[i].age + 1
  <2>1. q[i] \in Carrying(W) BY <1>2
  <2>2. Older(q)[i] = [q[i] EXCEPT !.age = Min({q[i].age + 1, Delay})]
    BY <1>2 DEF Older
  <2>3. PICK a \in 0 .. Delay : a = q[i].age BY <2>1 DEF Carrying
  <2>4. /\ Min({a + 1, Delay}) \in {a + 1, Delay} /\ Min({a + 1, Delay}) <= a + 1
        /\ Min({a + 1, Delay}) <= Delay
    <3>1. a + 1 \in Int /\ Delay \in Int BY Constants
    <3> QED BY <3>1, MinOfTwo
  <2>5. Min({a + 1, Delay}) = a + 1 BY <1>3, <2>3, <2>4, Constants
  <2> QED BY <2>1, <2>2, <2>3, <2>5 DEF Carrying
<1>4. Older(q) = <<>> <=> q = <<>>
  <2>1. Older(q) = <<>> <=> Len(Older(q)) = 0 BY <1>1, EmptySeq
  <2>2. q = <<>> <=> Len(q) = 0 BY EmptySeq
  <2> QED BY <1>1, <2>1, <2>2
<1>5. \A w : Carries(Older(q), w) <=> Carries(q, w) BY <1>1 DEF Carries
<1>6. ASSUME q # <<>>, Head(q).age < Delay PROVE Head(Older(q)).age = Head(q).age + 1
  <2>1. n # 0 BY <1>2, <1>6, EmptySeq
  <2>2. 1 \in 1 .. n BY <2>1
  <2>3. Head(q) = q[1] BY <1>6
  <2>4. Head(Older(q)) = Older(q)[1] BY <1>1, <1>4, <1>6
  <2> QED BY <1>3, <1>6, <2>2, <2>3, <2>4
<1>7. ASSUME NEW w, NEW x \in Int, Within(q, w, x), \A i \in DOMAIN q : q[i].age < Delay
      PROVE  Within(Older(q), w, x + 1)
  <2>1. PICK i \in 1 .. n : q[i].line = w /\ x <= q[i].age BY <1>2, <1>7 DEF Within
  <2>2. Older(q)[i].age = q[i].age + 1 BY <1>2, <1>3, <1>7
  <2>3. q[i] \in Carrying(W) BY <1>2
  <2>4. PICK a \in Nat : a = q[i].age BY <2>3, Constants DEF Carrying
  <2>5. x + 1 <= a + 1 BY <2>1, <2>4
  <2> QED BY <1>1, <1>2, <2>1, <2>2, <2>4, <2>5 DEF Within
<1> QED BY <1>1, <1>4, <1>5, <1>6, <1>7

LEMMA WithinDelay ==
    ASSUME NEW W, NEW q \in Seq(Carrying(W)), NEW w, NEW x \in Int, Within(q, w, x)
    PROVE  x <= Delay /\ Carries(q, w) /\ q # <<>>
<1>1. PICK i \in 1 .. Len(q) : q[i].line = w /\ x <= q[i].age BY DEF Within
<1>2. q[i] \in Carrying(W) OBVIOUS
<1>3. PICK a \in 0 .. Delay : a = q[i].age BY <1>2 DEF Carrying
<1>4. x <= Delay BY <1>1, <1>3, Constants
<1>5. q # <<>> BY <1>1
<1> QED BY <1>1, <1>4, <1>5 DEF Carries

LEMMA TwoAreOneAndOne ==
    ASSUME NEW W, NEW v \in W, NEW w \in W, NEW q \in Seq(Carrying(W))
    PROVE  q \o Lines(<<v, w>>) = (q \o Lines(<<v>>)) \o Lines(<<w>>)
<1> DEFINE d == [line |-> v, age |-> 0]
           e == [line |-> w, age |-> 0]
<1>1. Lines(<<v, w>>) = <<d, e>> /\ Lines(<<v>>) = <<d>> /\ Lines(<<w>>) = <<e>>
  BY DEF Lines
<1>2. d \in Carrying(W) /\ e \in Carrying(W) BY Constants DEF Carrying
<1> HIDE DEF d, e
<1>3. <<d>> \in Seq(Carrying(W)) /\ <<e>> \in Seq(Carrying(W)) BY <1>2
<1>4. <<d>> \o <<e>> = <<d, e>>
  <2>1. /\ <<d>> \o <<e>> \in Seq(Carrying(W)) /\ Len(<<d>> \o <<e>>) = 2
        /\ \A i \in 1 .. 2 : (<<d>> \o <<e>>)[i] = IF i <= 1 THEN <<d>>[i] ELSE <<e>>[i - 1]
    BY <1>3, ConcatProperties
  <2>2. <<d, e>> \in Seq(Carrying(W)) /\ Len(<<d, e>>) = 2 BY <1>2
  <2>3. \A i \in 1 .. 2 : (<<d>> \o <<e>>)[i] = <<d, e>>[i] BY <2>1
  <2> QED BY <2>1, <2>2, <2>3, SeqEqual
<1>5. (q \o <<d>>) \o <<e>> = q \o (<<d>> \o <<e>>) BY <1>3, ConcatAssociative
<1> QED BY <1>1, <1>4, <1>5

(* What the sender still sleeps before it looks up, step by step.          *)
LEMMA OwedType == TypeOK => Owed \in Nat
<1> SUFFICES ASSUME TypeOK PROVE Owed \in Nat OBVIOUS
<1>0. left \in 0 .. Chunks /\ swait \in Nat BY Types
<1>1. left \in Nat /\ swait \in Nat BY <1>0, Constants
<1>2. left * Cost \in Nat /\ Few * Cost \in Nat BY <1>1, Constants
<1>3. PICK x \in Nat, y \in Nat : x = left * Cost /\ y = Few * Cost BY <1>2
<1> QED BY <1>1, <1>3 DEF Owed

LEMMA OwedSteps ==
    ASSUME TypeOK
    PROVE  /\ FirstPassRepairs => Owed' <= Owed
           /\ SendRepair => Owed' = Owed
           /\ Tick /\ SenderRuns => Owed' = Owed - 1
           /\ TailTurn => Owed' <= Batch * Cost
           /\ SenderTurn /\ spc # "extra" => Owed = 0
<1>a. PICK f \in Nat, l \in Nat : f = Few * Cost /\ l = left * Cost
  <2>0. left \in 0 .. Chunks BY Types
  <2>1. left \in Nat BY <2>0, Constants
  <2> QED BY <2>1, Constants
<1>b. swait \in Nat /\ left \in Nat
  <2>1. left \in 0 .. Chunks BY Types
  <2> QED BY <2>1, Types, Constants
<1>c. Owed = swait + l + (IF spc = "extra" THEN f ELSE 0) BY <1>a DEF Owed
<1>1. ASSUME FirstPassRepairs PROVE Owed' <= Owed
  <2>1. /\ spc = "extra" /\ spc' = "first" /\ swait = 0 /\ swait' = 0 /\ left = 0
        /\ take_repairs(Few)
    BY <1>1 DEF FirstPassRepairs, SenderTurn
  <2>2. left' \in 0 .. Chunks /\ left' <= Few BY <2>1, Taken, Constants
  <2>3. PICK x \in Nat : x = left' /\ x <= Few BY <2>2, Constants
  <2>4. PICK m \in Nat : m = x * Cost /\ m <= f
    <3>1. x * Cost \in Nat /\ x * Cost <= Few * Cost BY <2>3, TimesMonotone, Constants
    <3> QED BY <1>a, <3>1
  <2>5. Owed' = m BY <2>1, <2>3, <2>4 DEF Owed
  <2>6. Owed = l + f BY <1>b, <1>c, <2>1, <1>a
  <2>7. m <= l + f BY <1>a, <2>4
  <2> QED BY <2>5, <2>6, <2>7
<1>2. ASSUME SendRepair PROVE Owed' = Owed
  <2>1. swait = 0 /\ left > 0 /\ left' = left - 1 /\ swait' = Cost /\ UNCHANGED spc
    BY <1>2 DEF SendRepair, SendDatagram
  <2>2. PICK x \in Nat : left = x + 1 /\ left - 1 = x
    <3>1. left - 1 \in Nat /\ left = (left - 1) + 1 BY <1>b, <2>1
    <3> QED BY <3>1
  <2>3. (x + 1) * Cost = x * Cost + Cost /\ x * Cost \in Nat BY Constants
  <2>4. PICK m \in Nat : m = x * Cost /\ m + Cost = l BY <1>a, <2>2, <2>3
  <2>5. Owed' = Cost + m + (IF spc = "extra" THEN f ELSE 0)
    BY <1>a, <2>1, <2>2, <2>4 DEF Owed
  <2> QED BY <1>a, <1>b, <1>c, <2>1, <2>4, <2>5, Constants
<1>3. ASSUME Tick, SenderRuns PROVE Owed' = Owed - 1
  <2>1. UNCHANGED <<spc, left>> /\ swait > 0 /\ swait' = Max({swait - 1, 0})
    BY <1>3 DEF Tick, SenderWaits
  <2>2. PICK x \in Int : x = swait - 1 /\ x >= 0
    <3>1. swait - 1 \in Int /\ swait - 1 >= 0 BY <1>b, <2>1
    <3> QED BY <3>1
  <2>3. Max({x, 0}) \in {x, 0} /\ Max({x, 0}) >= x /\ Max({x, 0}) >= 0 BY MaxOfTwo
  <2>4. Max({x, 0}) = x BY <2>2, <2>3
  <2>5. swait' = x BY <2>1, <2>2, <2>4
  <2>6. Owed' = x + l + (IF spc = "extra" THEN f ELSE 0) BY <1>a, <2>1, <2>5 DEF Owed
  <2> QED BY <1>a, <1>b, <1>c, <2>2, <2>6
<1>4. ASSUME TailTurn PROVE Owed' <= Batch * Cost
  <2>1. spc' = "tail" /\ take_repairs(Batch) /\ swait' = IF left' = 0 THEN 1 ELSE 0
    BY <1>4 DEF TailTurn
  <2>2. left' \in 0 .. Chunks /\ left' <= Batch BY <2>1, Taken, Constants
  <2>3. PICK x \in Nat : x = left' /\ x <= Batch BY <2>2, Constants
  <2>4. x * Cost \in Nat /\ x * Cost <= Batch * Cost /\ Batch * Cost \in Nat
        /\ 1 * Cost <= Batch * Cost
    BY <2>3, TimesMonotone, Constants
  <2>5. PICK m \in Nat, b \in Nat : m = x * Cost /\ b = Batch * Cost BY <2>4
  <2>6. Owed' = (IF x = 0 THEN 1 ELSE 0) + m BY <2>1, <2>3, <2>5 DEF Owed
  <2>7. x = 0 => m = 0 BY <2>5, Constants
  <2>8. m <= b /\ 1 <= b
    <3>1. 1 * Cost = Cost BY Constants
    <3> QED BY <2>4, <2>5, <3>1, Constants
  <2>9. (IF x = 0 THEN 1 ELSE 0) + m <= b BY <2>7, <2>8
  <2> QED BY <2>5, <2>6, <2>9
<1>5. ASSUME SenderTurn, spc # "extra" PROVE Owed = 0
  <2>1. swait = 0 /\ left = 0 BY <1>5 DEF SenderTurn
  <2>2. 0 * Cost = 0 BY Constants
  <2> QED BY <1>5, <2>1, <2>2 DEF Owed
<1> QED BY <1>1, <1>2, <1>3, <1>4, <1>5

(* The silence that either reader, and the wait for COMPLETE_ACK, can see  *)
(* while both processes live.                                              *)
Alive == BatchFits /\ spc # "dead" /\ rpc # "dead"

Late == heartbeat_interval + Most * Cost + Delay

Complete == <<"COMPLETE", 0>>

Well ==
    /\ ~serr /\ spc # "failed" /\ rpc \notin {"closing", "failed"}
    /\ ~Holds(events, "CANCEL") /\ ~Holds(events, "Error")
    /\ ~Carries(toR, "CANCEL") /\ ~Carries(toS, <<"EOF", 0>>)

(* A heartbeat and a report are no later than the step that is due, and in *)
(* the tail the sender sleeps for at most a batch.                         *)
Bounds ==
    /\ beat <= heartbeat_interval /\ since <= ReportInterval
    /\ rpc \in {"recv", "ack"} => rwait = 0
    /\ spc = "tail" => Owed <= Batch * Cost

(* The last three lines follow each other: COMPLETE, the sender's end and  *)
(* COMPLETE_ACK.                                                           *)
Finish ==
    /\ spc = "done" => complete
    /\ complete \/ Carries(toS, Complete) => rpc \in {"ack", "done"}
    /\ Holds(events, "COMPLETE_ACK") \/ Carries(toR, "COMPLETE_ACK") \/ rpc = "done"
       => spc = "done"
    /\ spc = "done" /\ ReceiverRuns /\ reading => Carries(toR, "COMPLETE_ACK")

(* With nothing on its way, the next heartbeat is as near as the clock     *)
(* says; a line on its way was sent before that heartbeat was late.        *)
ReceiverHears ==
    ReceiverRuns /\ reading =>
        IF toR = <<>>
        THEN /\ beat < heartbeat_interval => rsil <= Delay + beat
             /\ beat = heartbeat_interval => rsil + Owed <= Late
        ELSE rsil <= Late + Head(toR).age

SenderHears ==
    SenderRuns /\ ~complete =>
        IF toS = <<>>
        THEN /\ since < ReportInterval \/ rpc = "recv" => ssil <= since
             /\ rpc # "recv" => ssil + rwait <= ReportInterval + Stall
        ELSE ssil <= ReportInterval + Stall + Head(toS).age

(* The wait is for COMPLETE to arrive, for the sender to look up, and for  *)
(* COMPLETE_ACK to arrive.                                                 *)
AckWait ==
    rpc = "ack" =>
        /\ SenderRuns /\ ~complete => Within(toS, Complete, ackAge)
        /\ SenderRuns /\ complete => ackAge + Owed <= Delay + Batch * Cost
        /\ spc = "done" /\ reading =>
              Within(toR, "COMPLETE_ACK", ackAge - (Delay + Batch * Cost))
        /\ ackAge < ReceiverTimeout

Living ==
    /\ IInv /\ Alive
    /\ Well /\ Bounds /\ Finish /\ ReceiverHears /\ SenderHears /\ AckWait

(* The numbers, by short names, and what BatchFits says of them.           *)
LEMMA Numbers ==
    ASSUME Living
    PROVE  /\ heartbeat_interval \in Nat /\ Most * Cost \in Nat /\ Late \in Nat
           /\ Late = heartbeat_interval + Most * Cost + Delay
           /\ Batch * Cost \in Nat /\ Batch * Cost <= Most * Cost
           /\ Late + Delay < ReceiverTimeout
           /\ ReportInterval + Stall + Delay < SenderTimeout
           /\ ReportInterval \in Nat /\ Stall \in Nat /\ Delay \in Nat
           /\ SenderTimeout \in Nat /\ ReceiverTimeout \in Nat
<1>1. heartbeat_interval \in Nat /\ Most * Cost \in Nat BY IntervalType, MostHolds
<1>2. PICK h \in Nat, p \in Nat : h = heartbeat_interval /\ p = Most * Cost BY <1>1
<1>3. h + p + 2 * Delay < ReceiverTimeout /\ ReportInterval + Stall + Delay < SenderTimeout
  BY <1>2 DEF Living, Alive, BatchFits, Most
<1>4. Late = h + p + Delay BY <1>2 DEF Late
<1>5. Late \in Nat /\ Late + Delay < ReceiverTimeout BY <1>3, <1>4, Constants
<1>6. Batch * Cost \in Nat /\ Batch * Cost <= Most * Cost BY MostHolds, Constants
<1> QED BY <1>1, <1>2, <1>3, <1>4, <1>5, <1>6, Constants

(* None of the alarms can go off.                                          *)
LEMMA NoAlarm ==
    ASSUME Living
    PROVE  /\ SenderRuns /\ ~complete => ssil < SenderTimeout
           /\ ReceiverRuns /\ reading => rsil < ReceiverTimeout
           /\ SenderRuns /\ ~complete /\ toS = <<>> => ssil <= ReportInterval + Stall
           /\ ReceiverRuns /\ reading /\ toR = <<>> => rsil <= Late
<1>0. TypeOK BY DEF Living, IInv
<1>1. /\ ssil \in Nat /\ rsil \in Nat /\ since \in Nat /\ beat \in Nat /\ rwait \in Nat
      /\ toS \in Seq(Carrying(ToSender)) /\ toR \in Seq(Carrying(ToReceiver))
  BY <1>0, Types
<1>2. PICK o \in Nat : o = Owed BY <1>0, OwedType
<1>3. beat <= heartbeat_interval /\ since <= ReportInterval BY DEF Living, Bounds
<1>4. ASSUME SenderRuns, ~complete
      PROVE  ssil < SenderTimeout /\ (toS = <<>> => ssil <= ReportInterval + Stall)
  <2>0. /\ ReportInterval + Stall + Delay < SenderTimeout
        /\ ReportInterval \in Nat /\ Stall \in Nat /\ Delay \in Nat /\ SenderTimeout \in Nat
    BY Numbers
  <2>1. CASE toS = <<>>
    <3>1. /\ rpc = "recv" => ssil <= since
          /\ rpc # "recv" => ssil + rwait <= ReportInterval + Stall
      BY <1>4, <2>1 DEF Living, SenderHears
    <3>2. ssil <= ReportInterval + Stall
      <4>1. CASE rpc = "recv"
        <5>1. ssil <= since BY <3>1, <4>1
        <5> QED BY <1>1, <1>3, <5>1, Constants
      <4>2. CASE rpc # "recv"
        <5>1. ssil + rwait <= ReportInterval + Stall BY <3>1, <4>2
        <5> QED BY <1>1, <5>1, Constants
      <4> QED BY <4>1, <4>2
    <3>3. ssil < SenderTimeout BY <1>1, <2>0, <3>2
    <3> QED BY <3>2, <3>3
  <2>2. CASE toS # <<>>
    <3>1. ssil <= ReportInterval + Stall + Head(toS).age
      BY <1>4, <2>2 DEF Living, SenderHears
    <3>2. Head(toS) \in Carrying(ToSender) BY <1>1, <2>2, LineTaken
    <3>3. PICK a \in 0 .. Delay : a = Head(toS).age BY <3>2 DEF Carrying
    <3>4. ssil <= ReportInterval + Stall + a BY <3>1, <3>3
    <3>5. ssil < SenderTimeout BY <1>1, <2>0, <3>4
    <3> QED BY <2>2, <3>5
  <2> QED BY <2>1, <2>2
<1>5. ASSUME ReceiverRuns, reading
      PROVE  rsil < ReceiverTimeout /\ (toR = <<>> => rsil <= Late)
  <2>0. PICK h \in Nat, p \in Nat, t \in Nat :
            h = heartbeat_interval /\ p = Most * Cost /\ t = Late
    BY Numbers
  <2>a. t = h + p + Delay /\ t + Delay < ReceiverTimeout /\ Delay \in Nat /\ ReceiverTimeout \in Nat
    BY <2>0, Numbers
  <2>1. CASE toR = <<>>
    <3>1. /\ beat < h => rsil <= Delay + beat
          /\ beat = h => rsil + o <= t
      BY <1>2, <1>5, <2>0, <2>1 DEF Living, ReceiverHears
    <3>2. beat <= h BY <1>3, <2>0
    <3>3. rsil <= t
      <4>1. CASE beat < h BY <1>1, <2>0, <2>a, <3>1, <4>1
      <4>2. CASE beat = h BY <1>1, <1>2, <2>0, <3>1, <4>2
      <4> QED BY <1>1, <2>0, <3>2, <4>1, <4>2
    <3>4. rsil < ReceiverTimeout BY <1>1, <2>a, <3>3
    <3> QED BY <2>0, <3>3, <3>4
  <2>2. CASE toR # <<>>
    <3>1. rsil <= Late + Head(toR).age BY <1>5, <2>2 DEF Living, ReceiverHears
    <3>2. Head(toR) \in Carrying(ToReceiver) BY <1>1, <2>2, LineTaken
    <3>3. PICK a \in 0 .. Delay : a = Head(toR).age BY <3>2 DEF Carrying
    <3>4. rsil <= t + a BY <2>0, <3>1, <3>3
    <3>5. rsil < ReceiverTimeout BY <1>1, <2>a, <3>4
    <3> QED BY <2>2, <3>5
  <2> QED BY <2>1, <2>2
<1> QED BY <1>4, <1>5

LivingStep ==
    \/ FirstPass \/ FirstPassRepairs \/ SendRepair \/ SendEnd \/ TailTurn \/ SendAck
    \/ read_feedback \/ ReadControl
    \/ HandleEnd \/ HandlePing \/ HandleAck
    \/ Install \/ SendComplete \/ Checkpoint \/ Report \/ NoReport
    \/ Tick \/ UNCHANGED vars

LEMMA LivingSteps ==
    ASSUME Living, [Next]_vars, Alive'
    PROVE  LivingStep
<1>0. TypeOK BY DEF Living, IInv
<1>1. /\ ssil \in Nat /\ rsil \in Nat /\ ackAge \in Nat
      /\ events \in Seq(ToReceiver \cup {"Error"})
  BY <1>0, Types
<1>2. ~SenderAborts BY DEF Living, Well, SenderAborts
<1>3. ~FeedbackTimeout
  <2>1. FeedbackReads => ssil < SenderTimeout BY NoAlarm DEF FeedbackReads
  <2>2. ~(ssil < SenderTimeout /\ ssil >= SenderTimeout) BY <1>1, Constants
  <2> QED BY <2>1, <2>2 DEF FeedbackTimeout
<1>4. ~ControlTimeout
  <2>1. ReceiverRuns /\ reading => rsil < ReceiverTimeout BY NoAlarm
  <2>2. ~(rsil < ReceiverTimeout /\ rsil >= ReceiverTimeout) BY <1>1, Constants
  <2> QED BY <2>1, <2>2 DEF ControlTimeout
<1>5. ~ReceiverAborts
  <2>1. rpc = "ack" => ackAge < ReceiverTimeout BY DEF Living, AckWait
  <2>2. ~(ackAge < ReceiverTimeout /\ ackAge >= ReceiverTimeout) BY <1>1, Constants
  <2>3. events # <<>> => Head(events) \notin {"CANCEL", "Error"}
    BY <1>1, HeldByTail DEF Living, Well
  <2> QED BY <2>1, <2>2, <2>3 DEF ReceiverAborts
<1>6. ~ReceiverCloses BY DEF Living, Well, ReceiverCloses
<1>7. ~SenderDies /\ ~ReceiverDies BY DEF Alive, SenderDies, ReceiverDies
<1>8. Terminated => UNCHANGED vars BY DEF Terminated
<1> QED BY <1>2, <1>3, <1>4, <1>5, <1>6, <1>7, <1>8 DEF Next, LivingStep

(* Which lines a step of the living puts on their way.                     *)
LEMMA Sent ==
    ASSUME TypeOK, LivingStep
    PROVE  /\ \/ toR' = toR \/ toR' = Older(toR) \/ (ReadControl /\ toR' = Tail(toR))
              \/ (SendAck /\ toR' = toR \o Lines(<<"COMPLETE_ACK">>))
              \/ \E w \in {"PING", "END"} : toR' = toR \o Lines(<<w>>)
           /\ \/ toS' = toS \/ toS' = Older(toS) \/ (read_feedback /\ toS' = Tail(toS))
              \/ (SendComplete /\ toS' = toS \o Lines(<<<<"M", 0>>, Complete>>))
              \/ toS' = toS \o Lines(<<<<"PONG", 0>>>>)
              \/ \E n \in 0 .. Chunks : toS' = toS \o Lines(<<<<"M", n>>>>)
<1>1. CASE FirstPass \/ SendEnd \/ TailTurn
  BY <1>1 DEF FirstPass, SendEnd, TailTurn, send_heartbeat_if_due
<1>2. CASE FirstPassRepairs \/ SendRepair \/ HandleEnd \/ HandleAck \/ Install \/ Checkpoint
           \/ NoReport \/ UNCHANGED vars
  BY <1>2 DEF FirstPassRepairs, SendRepair, HandleEnd, HandleAck, Install, Checkpoint,
              NoReport, vars
<1>3. CASE SendAck BY <1>3 DEF SendAck
<1>4. CASE read_feedback BY <1>4 DEF read_feedback
<1>5. CASE ReadControl BY <1>5 DEF ReadControl
<1>6. CASE HandlePing BY <1>6 DEF HandlePing
<1>7. CASE SendComplete BY <1>7 DEF SendComplete, Complete
<1>8. CASE Report
  <2>1. PICK n \in 0 .. missing : toS' = toS \o Lines(<<<<"M", n>>>>) BY <1>8 DEF Report
  <2>2. missing \in 0 .. Chunks BY Types
  <2>3. n \in 0 .. Chunks BY <2>2, Constants
  <2>4. toR' = toR BY <1>8 DEF Report
  <2> QED BY <2>1, <2>3, <2>4
<1>9. CASE Tick BY <1>9 DEF Tick
<1> QED BY <1>1, <1>2, <1>3, <1>4, <1>5, <1>6, <1>7, <1>8, <1>9 DEF LivingStep

LEMMA NextWell ==
    ASSUME Living, LivingStep, Alive'
    PROVE  Well'
<1>0. TypeOK BY DEF Living, IInv
<1>a. /\ events \in Seq(ToReceiver \cup {"Error"}) /\ toR \in Seq(Carrying(ToReceiver))
      /\ toS \in Seq(Carrying(ToSender))
  BY <1>0, Types
<1>b. Well BY DEF Living
<1>1. ~Carries(toR', "CANCEL")
  <2>1. ASSUME NEW w \in {"PING", "END", "COMPLETE_ACK"}, toR' = toR \o Lines(<<w>>)
        PROVE  ~Carries(toR', "CANCEL")
    <3>1. w \in ToReceiver /\ w # "CANCEL" BY DEF ToReceiver
    <3> QED BY <1>a, <1>b, <2>1, <3>1, CarriedByOne DEF Well
  <2>2. ASSUME ReadControl, toR' = Tail(toR) PROVE ~Carries(toR', "CANCEL")
    <3>1. toR # <<>> BY <2>2 DEF ReadControl
    <3> QED BY <1>a, <1>b, <2>2, <3>1, CarriedByTail DEF Well
  <2>3. ASSUME toR' \in {toR, Older(toR)} PROVE ~Carries(toR', "CANCEL")
    BY <1>a, <1>b, <2>3, CarriedOlder DEF Well
  <2> QED BY <1>0, <2>1, <2>2, <2>3, Sent
<1>2. ~Carries(toS', <<"EOF", 0>>)
  <2> DEFINE eof == <<"EOF", 0>>
  <2>a. ~Carries(toS, eof) BY <1>b DEF Well
  <2>b. ASSUME NEW v \in ToSender, v # eof PROVE ~Carries(toS \o Lines(<<v>>), eof)
    BY <1>a, <2>a, <2>b, CarriedByOne
  <2>c. /\ <<"PONG", 0>> \in ToSender /\ <<"PONG", 0>> # eof
        /\ \A n \in 0 .. Chunks : <<"M", n>> \in ToSender /\ <<"M", n>> # eof
        /\ Complete \in ToSender /\ Complete # eof
    BY DEF ToSender, Reports, Complete
  <2> HIDE DEF eof
  <2>1. ASSUME read_feedback, toS' = Tail(toS) PROVE ~Carries(toS', eof)
    <3>1. toS # <<>> BY <2>1 DEF read_feedback
    <3> QED BY <1>a, <2>a, <2>1, <3>1, CarriedByTail
  <2>2. ASSUME toS' \in {toS, Older(toS)} PROVE ~Carries(toS', eof)
    BY <1>a, <2>a, <2>2, CarriedOlder
  <2>3. ASSUME toS' = toS \o Lines(<<<<"M", 0>>, Complete>>) PROVE ~Carries(toS', eof)
    <3>1. 0 \in 0 .. Chunks BY Constants
    <3>2. PICK m \in ToSender : m = <<"M", 0>> /\ m # eof BY <2>c, <3>1
    <3>3. toS' = (toS \o Lines(<<m>>)) \o Lines(<<Complete>>)
      BY <1>a, <2>3, <2>c, <3>2, TwoAreOneAndOne
    <3>4. toS \o Lines(<<m>>) \in Seq(Carrying(ToSender)) BY <1>a, <3>2, OneLine
    <3>5. ~Carries(toS \o Lines(<<m>>), eof) BY <2>b, <3>2
    <3> QED BY <2>c, <3>3, <3>4, <3>5, CarriedByOne
  <2>4. ASSUME toS' = toS \o Lines(<<<<"PONG", 0>>>>) PROVE ~Carries(toS', eof)
    BY <2>b, <2>c, <2>4
  <2>5. ASSUME NEW n \in 0 .. Chunks, toS' = toS \o Lines(<<<<"M", n>>>>)
        PROVE  ~Carries(toS', eof)
    BY <2>b, <2>c, <2>5
  <2>6. ~Carries(toS', eof) BY <1>0, <2>1, <2>2, <2>3, <2>4, <2>5, Sent
  <2> QED BY <2>6 DEF eof
<1>3. ~serr'
  <2>1. CASE read_feedback
    <3>1. toS # <<>> /\ serr' = (Head(toS).line[1] = "EOF") BY <2>1 DEF read_feedback
    <3>2. Head(toS).line \in ToSender /\ Head(toS).line # <<"EOF", 0>>
      BY <1>a, <1>b, <3>1, LineTaken, CarriedByTail DEF Well
    <3>3. \A v \in ToSender : v[1] = "EOF" => v = <<"EOF", 0>> BY DEF ToSender, Reports
    <3> QED BY <3>1, <3>2, <3>3
  <2>2. ~read_feedback => UNCHANGED serr
    BY DEF LivingStep, FirstPass, FirstPassRepairs, SendRepair, SendEnd, TailTurn,
           SendAck, ReadControl, HandleEnd, HandlePing, HandleAck, Install, SendComplete,
           Checkpoint, Report, NoReport, Tick, take_repairs, vars, feedback
  <2> QED BY <1>b, <2>1, <2>2 DEF Well
<1>4. ~Holds(events', "CANCEL") /\ ~Holds(events', "Error")
  <2>1. CASE ReadControl
    <3>1. toR # <<>> /\ events' = Append(events, Head(toR).line) BY <2>1 DEF ReadControl
    <3>2. Head(toR).line \in ToReceiver /\ Head(toR).line # "CANCEL"
      BY <1>a, <1>b, <3>1, LineTaken, CarriedByTail DEF Well
    <3>3. Head(toR).line # "Error" BY <3>2 DEF ToReceiver
    <3> QED BY <1>a, <1>b, <3>1, <3>2, <3>3, HeldByAppend DEF Well
  <2>2. CASE HandleEnd \/ HandlePing \/ HandleAck
    <3>1. events # <<>> /\ events' = Tail(events)
      BY <2>2 DEF HandleEnd, HandlePing, HandleAck
    <3> QED BY <1>a, <1>b, <3>1, HeldByTail DEF Well
  <2>3. ~ReadControl /\ ~HandleEnd /\ ~HandlePing /\ ~HandleAck => UNCHANGED events
    BY DEF LivingStep, FirstPass, FirstPassRepairs, SendRepair, SendEnd, TailTurn,
           SendAck, read_feedback, Install, SendComplete, Checkpoint, Report, NoReport,
           Tick, vars
  <2> QED BY <1>b, <2>1, <2>2, <2>3 DEF Well
<1>5. spc' # "failed" /\ rpc' \notin {"closing", "failed"}
  BY <1>b DEF Well, LivingStep, FirstPass, FirstPassRepairs, SendRepair, SendEnd, TailTurn,
         SendAck, read_feedback, ReadControl, HandleEnd, HandlePing, HandleAck, Install,
         SendComplete, Checkpoint, Report, NoReport, Tick, vars, sender, receiver
<1> QED BY <1>1, <1>2, <1>3, <1>4, <1>5 DEF Well

(* A clock that stops at its bound.                                        *)
LEMMA UptoHolds ==
    ASSUME NEW b \in Nat, NEW x \in Nat, x <= b
    PROVE  Upto(b, x) = IF x < b THEN x + 1 ELSE b
<1>1. b \in Int /\ x + 1 \in Int OBVIOUS
<1>2. PICK y \in Int : y = x + 1 BY <1>1
<1>3. Min({b, y}) \in {b, y} /\ Min({b, y}) <= b /\ Min({b, y}) <= y BY MinOfTwo
<1>4. Min({b, y}) = IF x < b THEN y ELSE b BY <1>2, <1>3
<1> QED BY <1>2, <1>4 DEF Upto

LEMMA NextBounds ==
    ASSUME Living, LivingStep
    PROVE  Bounds'
<1>0. TypeOK BY DEF Living, IInv
<1>a. /\ beat \in Nat /\ since \in Nat /\ rwait \in Nat BY <1>0, Types
<1>b. heartbeat_interval \in Nat /\ ReportInterval \in Nat BY IntervalType, Constants
<1>c. Bounds BY DEF Living
<1>1. beat' <= heartbeat_interval
  <2>1. CASE Tick
    <3>1. beat' = Upto(heartbeat_interval, beat) BY <2>1 DEF Tick
    <3>2. beat' = IF beat < heartbeat_interval THEN beat + 1 ELSE heartbeat_interval
      BY <1>a, <1>b, <1>c, <3>1, UptoHolds DEF Bounds
    <3> QED BY <1>a, <1>b, <3>2
  <2>2. ~Tick => beat' \in {0, beat}
    BY DEF LivingStep, FirstPass, FirstPassRepairs, SendRepair, SendEnd, TailTurn,
           SendAck, read_feedback, ReadControl, HandleEnd, HandlePing, HandleAck, Install,
           SendComplete, Checkpoint, Report, NoReport, send_heartbeat_if_due, vars, sender
  <2> QED BY <1>a, <1>b, <1>c, <2>1, <2>2 DEF Bounds
<1>2. since' <= ReportInterval
  <2>1. CASE Tick
    <3>1. since' = Upto(ReportInterval, since) BY <2>1 DEF Tick
    <3>2. since' = IF since < ReportInterval THEN since + 1 ELSE ReportInterval
      BY <1>a, <1>b, <1>c, <3>1, UptoHolds DEF Bounds
    <3> QED BY <1>a, <1>b, <3>2
  <2>2. ~Tick => since' \in {0, since}
    BY DEF LivingStep, FirstPass, FirstPassRepairs, SendRepair, SendEnd, TailTurn,
           SendAck, read_feedback, ReadControl, HandleEnd, HandlePing, HandleAck, Install,
           SendComplete, Checkpoint, Report, NoReport, vars, receiver
  <2> QED BY <1>a, <1>b, <1>c, <2>1, <2>2 DEF Bounds
<1>3. rpc' \in {"recv", "ack"} => rwait' = 0
  <2>1. CASE Tick
    <3>1. rpc' = rpc /\ rwait' = Max({rwait - 1, 0}) BY <2>1 DEF Tick
    <3>2. ASSUME rwait = 0 PROVE rwait' = 0
      <4>1. PICK x \in Int : x = rwait - 1 /\ x < 0
        <5>1. rwait - 1 \in Int /\ rwait - 1 < 0 BY <3>2
        <5> QED BY <5>1
      <4>2. Max({x, 0}) \in {x, 0} /\ Max({x, 0}) >= 0 BY MaxOfTwo
      <4>3. Max({x, 0}) = 0 BY <4>1, <4>2
      <4> QED BY <3>1, <4>1, <4>3
    <3> QED BY <1>c, <3>1, <3>2 DEF Bounds
  <2>2. CASE ~Tick /\ rpc' \in {"recv", "ack"}
    <3>1. (rpc' = rpc \/ rwait = 0) /\ rwait' = rwait
      BY <2>2 DEF LivingStep, FirstPass, FirstPassRepairs, SendRepair, SendEnd, TailTurn,
           SendAck, read_feedback, ReadControl, HandleEnd, HandlePing, HandleAck, Install,
           SendComplete, Checkpoint, Report, NoReport, ReceiverTurn, Receiving, vars, receiver
    <3> QED BY <1>c, <2>2, <3>1 DEF Bounds
  <2> QED BY <2>1, <2>2
<1>4. spc' = "tail" => Owed' <= Batch * Cost
  <2> SUFFICES ASSUME spc' = "tail" PROVE Owed' <= Batch * Cost OBVIOUS
  <2>0. PICK o \in Nat, b \in Nat : o = Owed /\ b = Batch * Cost
    BY <1>0, OwedType, Numbers
  <2>1. CASE SendEnd
    <3>1. spc = "first" /\ SenderTurn /\ UNCHANGED <<swait, left>> BY <2>1 DEF SendEnd
    <3>2. o = 0 BY <1>0, <2>0, <3>1, OwedSteps
    <3>3. Owed' = Owed BY <2>1, <3>1 DEF Owed
    <3>4. Owed' = 0 BY <2>0, <3>2, <3>3
    <3>5. 0 <= b OBVIOUS
    <3> QED BY <2>0, <3>4, <3>5
  <2>2. CASE TailTurn BY <1>0, <2>2, OwedSteps
  <2>3. CASE ~SendEnd /\ ~TailTurn
    <3>1. spc = "tail"
      BY <2>3 DEF LivingStep, FirstPass, FirstPassRepairs, SendRepair, SendAck,
             read_feedback, ReadControl, HandleEnd, HandlePing, HandleAck, Install,
             SendComplete, Checkpoint, Report, NoReport, Tick, vars, sender
    <3>2. o <= b BY <1>c, <2>0, <3>1 DEF Bounds
    <3>3. SenderRuns BY <3>1 DEF SenderRuns
    <3>4. CASE SendRepair \/ Tick
      <4>1. Owed' \in {o, o - 1} BY <1>0, <2>0, <3>3, <3>4, OwedSteps
      <4> QED BY <2>0, <3>2, <4>1
    <3>5. CASE ~SendRepair /\ ~Tick
      <4>1. UNCHANGED <<spc, swait, left>>
        BY <2>3, <3>1, <3>5 DEF LivingStep, FirstPass, FirstPassRepairs, SendAck,
             read_feedback, ReadControl, HandleEnd, HandlePing, HandleAck, Install,
             SendComplete, Checkpoint, Report, NoReport, vars, sender
      <4>2. Owed' = o BY <2>0, <4>1 DEF Owed
      <4> QED BY <2>0, <3>2, <4>2
    <3> QED BY <3>4, <3>5
  <2> QED BY <2>1, <2>2, <2>3
<1> QED BY <1>1, <1>2, <1>3, <1>4 DEF Bounds

(* What a step that puts v on its way, or takes a line off, does to w.     *)
LEMMA Kept ==
    ASSUME TypeOK, LivingStep
    PROVE  /\ Carries(toR', "COMPLETE_ACK") => Carries(toR, "COMPLETE_ACK") \/ SendAck
           /\ Carries(toR, "COMPLETE_ACK") /\ ~ReadControl => Carries(toR', "COMPLETE_ACK")
           /\ Carries(toS', Complete) => Carries(toS, Complete) \/ SendComplete
<1>a. toR \in Seq(Carrying(ToReceiver)) /\ toS \in Seq(Carrying(ToSender)) BY Types
<1> DEFINE ack == "COMPLETE_ACK"
<1>1. ASSUME toR' \in {toR, Older(toR)} PROVE Carries(toR', ack) <=> Carries(toR, ack)
  BY <1>a, <1>1, LinesAge
<1>2. ASSUME ReadControl, toR' = Tail(toR) PROVE Carries(toR', ack) => Carries(toR, ack)
  <2>1. toR # <<>> BY <1>2 DEF ReadControl
  <2> QED BY <1>a, <1>2, <2>1, LineTaken
<1>3. ASSUME NEW w \in {"PING", "END"}, toR' = toR \o Lines(<<w>>)
      PROVE  Carries(toR', ack) <=> Carries(toR, ack)
  <2>1. w \in ToReceiver /\ w # ack BY DEF ToReceiver
  <2>2. Carries(toR, ack) => Carries(toR', ack) BY <1>a, <1>3, <2>1, LineAdded
  <2>3. ~Carries(toR, ack) => ~Carries(toR', ack) BY <1>a, <1>3, <2>1, CarriedByOne
  <2> QED BY <2>2, <2>3
<1>4. ASSUME toR' = toR \o Lines(<<ack>>) PROVE Carries(toR', ack)
  <2>1. ack \in ToReceiver BY DEF ToReceiver
  <2>2. Carries(toR \o Lines(<<ack>>), ack) BY <1>a, <2>1, NewLine
  <2> QED BY <1>4, <2>2
<1>5. ASSUME toS' \in {toS, Older(toS)} PROVE Carries(toS', Complete) => Carries(toS, Complete)
  BY <1>a, <1>5, LinesAge
<1>6. ASSUME read_feedback, toS' = Tail(toS)
      PROVE  Carries(toS', Complete) => Carries(toS, Complete)
  <2>1. toS # <<>> BY <1>6 DEF read_feedback
  <2> QED BY <1>a, <1>6, <2>1, LineTaken
<1>7. ASSUME NEW v \in ToSender, v # Complete, toS' = toS \o Lines(<<v>>)
      PROVE  Carries(toS', Complete) => Carries(toS, Complete)
  BY <1>a, <1>7, CarriedByOne
<1>8. /\ <<"PONG", 0>> \in ToSender /\ <<"PONG", 0>> # Complete
      /\ \A n \in 0 .. Chunks : <<"M", n>> \in ToSender /\ <<"M", n>> # Complete
  BY DEF ToSender, Reports, Complete
<1> HIDE DEF ack
<1>9. /\ Carries(toR', ack) => Carries(toR, ack) \/ SendAck
      /\ Carries(toR, ack) /\ ~ReadControl => Carries(toR', ack)
  BY <1>1, <1>2, <1>3, <1>4, Sent DEF ack
<1>10. Carries(toS', Complete) => Carries(toS, Complete) \/ SendComplete
  BY <1>5, <1>6, <1>7, <1>8, Sent
<1> QED BY <1>9, <1>10 DEF ack

(* Where a step of the living leads.                                       *)
LEMMA Moves ==
    ASSUME LivingStep
    PROVE  /\ spc = "done" => spc' = "done"
           /\ spc' = "done" => spc = "done" \/ SendAck
           /\ SenderRuns' => SenderRuns
           /\ complete' # complete => read_feedback
           /\ rpc \in {"ack", "done"} => rpc' \in {rpc, "done"}
           /\ rpc' = "done" => rpc = "done" \/ HandleAck
           /\ rpc' = "ack" => rpc = "ack" \/ SendComplete
           /\ ReceiverRuns' => ReceiverRuns
           /\ ReadControl \/ UNCHANGED reading
<1>1. /\ spc = "done" => spc' = "done"
      /\ spc' = "done" => spc = "done" \/ SendAck
      /\ SenderRuns' => SenderRuns
  BY DEF LivingStep, FirstPass, FirstPassRepairs, SendRepair, SendEnd, TailTurn,
         SendAck, read_feedback, ReadControl, HandleEnd, HandlePing, HandleAck, Install,
         SendComplete, Checkpoint, Report, NoReport, Tick, vars, sender, SenderTurn, SenderRuns
<1>2. complete' # complete => read_feedback
  BY DEF LivingStep, FirstPass, FirstPassRepairs, SendRepair, SendEnd, TailTurn,
         SendAck, read_feedback, ReadControl, HandleEnd, HandlePing, HandleAck, Install,
         SendComplete, Checkpoint, Report, NoReport, Tick, vars, feedback, take_repairs
<1>3. /\ rpc \in {"ack", "done"} => rpc' \in {rpc, "done"}
      /\ rpc' = "done" => rpc = "done" \/ HandleAck
      /\ rpc' = "ack" => rpc = "ack" \/ SendComplete
      /\ ReceiverRuns' => ReceiverRuns
  BY DEF LivingStep, FirstPass, FirstPassRepairs, SendRepair, SendEnd, TailTurn,
         SendAck, read_feedback, ReadControl, HandleEnd, HandlePing, HandleAck, Install,
         SendComplete, Checkpoint, Report, NoReport, Tick, vars, receiver,
         Receiving, ReceiverTurn, ReceiverRuns
<1>4. ReadControl \/ UNCHANGED reading
  BY DEF LivingStep, FirstPass, FirstPassRepairs, SendRepair, SendEnd, TailTurn,
         SendAck, read_feedback, ReadControl, HandleEnd, HandlePing, HandleAck, Install,
         SendComplete, Checkpoint, Report, NoReport, Tick, vars, control
<1> QED BY <1>1, <1>2, <1>3, <1>4

LEMMA NextFinish ==
    ASSUME Living, LivingStep
    PROVE  Finish'
<1>0. TypeOK BY DEF Living, IInv
<1>a. /\ events \in Seq(ToReceiver \cup {"Error"}) /\ toR \in Seq(Carrying(ToReceiver))
      /\ toS \in Seq(Carrying(ToSender)) /\ complete \in BOOLEAN
  BY <1>0, Types
<1>b. Finish BY DEF Living
<1>1. spc' = "done" => complete'
  <2> SUFFICES ASSUME spc' = "done" PROVE complete' OBVIOUS
  <2>1. CASE SendAck BY <2>1 DEF SendAck, feedback
  <2>2. CASE spc = "done"
    <3>1. ~read_feedback BY <2>2 DEF read_feedback, FeedbackReads, SenderRuns
    <3> QED BY <1>b, <2>2, <3>1, Moves DEF Finish
  <2> QED BY <2>1, <2>2, Moves
<1>2. complete' \/ Carries(toS', Complete) => rpc' \in {"ack", "done"}
  <2>1. CASE SendComplete BY <2>1 DEF SendComplete
  <2>2. CASE ~SendComplete
    <3>1. Carries(toS', Complete) => Carries(toS, Complete) BY <1>0, <2>2, Kept
    <3>2. complete' => complete \/ Carries(toS, Complete)
      <4>1. CASE read_feedback
        <5>1. toS # <<>> /\ complete' = (Head(toS).line[1] = "COMPLETE")
          BY <4>1 DEF read_feedback
        <5>2. Head(toS).line \in ToSender /\ Carries(toS, Head(toS).line)
          BY <1>a, <5>1, LineTaken
        <5>3. \A v \in ToSender : v[1] = "COMPLETE" => v = Complete
          BY DEF ToSender, Reports, Complete
        <5> QED BY <5>1, <5>2, <5>3
      <4> QED BY <4>1, Moves
    <3>3. complete \/ Carries(toS, Complete) => rpc \in {"ack", "done"} BY <1>b DEF Finish
    <3> QED BY <3>1, <3>2, <3>3, Moves
  <2> QED BY <2>1, <2>2
<1>3. Holds(events', "COMPLETE_ACK") => Holds(events, "COMPLETE_ACK") \/ Carries(toR, "COMPLETE_ACK")
  <2>1. CASE ReadControl
    <3>1. toR # <<>> /\ events' = Append(events, Head(toR).line) BY <2>1 DEF ReadControl
    <3>2. Head(toR).line \in ToReceiver /\ Carries(toR, Head(toR).line)
      BY <1>a, <3>1, LineTaken
    <3> QED BY <1>a, <3>1, <3>2, HeldByAppend
  <2>2. CASE HandleEnd \/ HandlePing \/ HandleAck
    <3>1. events # <<>> /\ events' = Tail(events)
      BY <2>2 DEF HandleEnd, HandlePing, HandleAck
    <3> QED BY <1>a, <3>1, HeldByTail
  <2>3. ~ReadControl /\ ~HandleEnd /\ ~HandlePing /\ ~HandleAck => UNCHANGED events
    BY DEF LivingStep, FirstPass, FirstPassRepairs, SendRepair, SendEnd, TailTurn,
           SendAck, read_feedback, Install, SendComplete, Checkpoint, Report, NoReport,
           Tick, vars
  <2> QED BY <2>1, <2>2, <2>3
<1>4. rpc' = "done" => rpc = "done" \/ Holds(events, "COMPLETE_ACK")
  <2>1. CASE HandleAck
    <3>1. events # <<>> /\ Head(events) = "COMPLETE_ACK" BY <2>1 DEF HandleAck
    <3> QED BY <1>a, <3>1, HeldByTail
  <2> QED BY <2>1, Moves
<1>5. Holds(events', "COMPLETE_ACK") \/ Carries(toR', "COMPLETE_ACK") \/ rpc' = "done"
      => spc' = "done"
  <2>1. SendAck => spc' = "done" BY DEF SendAck
  <2>2. Holds(events', "COMPLETE_ACK") \/ Carries(toR', "COMPLETE_ACK") \/ rpc' = "done"
        => SendAck \/ spc = "done"
    BY <1>0, <1>b, <1>3, <1>4, Kept DEF Finish
  <2> QED BY <2>1, <2>2, Moves
<1>6. spc' = "done" /\ ReceiverRuns' /\ reading' => Carries(toR', "COMPLETE_ACK")
  <2> SUFFICES ASSUME spc' = "done", ReceiverRuns', reading'
               PROVE  Carries(toR', "COMPLETE_ACK")
    OBVIOUS
  <2>1. CASE SendAck
    <3>1. toR' = toR \o Lines(<<"COMPLETE_ACK">>) BY <2>1 DEF SendAck
    <3>2. "COMPLETE_ACK" \in ToReceiver BY DEF ToReceiver
    <3>3. Carries(toR \o Lines(<<"COMPLETE_ACK">>), "COMPLETE_ACK") BY <1>a, <3>2, NewLine
    <3> QED BY <3>1, <3>3
  <2>2. CASE spc = "done" /\ ReadControl
    <3>1. /\ ReceiverRuns /\ reading /\ toR # <<>> /\ toR' = Tail(toR)
          /\ Head(toR).line # "COMPLETE_ACK"
      BY <2>2 DEF ReadControl
    <3>2. Carries(toR, "COMPLETE_ACK") BY <1>b, <2>2, <3>1 DEF Finish
    <3> QED BY <1>a, <3>1, <3>2, LineTaken
  <2>3. CASE spc = "done" /\ ~ReadControl
    <3>1. ReceiverRuns /\ reading BY <2>3, Moves
    <3>2. Carries(toR, "COMPLETE_ACK") BY <1>b, <2>3, <3>1 DEF Finish
    <3> QED BY <1>0, <2>3, <3>2, Kept
  <2> QED BY <2>1, <2>2, <2>3, Moves
<1> QED BY <1>1, <1>2, <1>5, <1>6 DEF Finish

LEMMA NextReceiverHears ==
    ASSUME Living, LivingStep, IInv', Well', Bounds', Finish', Alive'
    PROVE  ReceiverHears'
<1> SUFFICES ASSUME ReceiverRuns', reading'
             PROVE  IF toR' = <<>>
                    THEN /\ beat' < heartbeat_interval => rsil' <= Delay + beat'
                         /\ beat' = heartbeat_interval => rsil' + Owed' <= Late
                    ELSE rsil' <= Late + Head(toR').age
  BY DEF ReceiverHears, heartbeat_interval, Late, Most
<1>0. TypeOK /\ TypeOK' BY DEF Living, IInv
<1>a. beat \in Nat /\ rsil \in Nat /\ toR \in Seq(Carrying(ToReceiver)) BY <1>0, Types
<1>b. ReceiverRuns /\ reading BY Moves DEF ReadControl
<1>c. PICK h \in Nat, p \in Nat, t \in Nat :
         /\ h = heartbeat_interval /\ p = Most * Cost /\ t = Late
         /\ t = h + p + Delay /\ Delay \in Nat
  BY Numbers
<1>d. PICK o \in Nat : o = Owed BY <1>0, OwedType
<1>e. /\ beat <= h
      /\ toR = <<>> => /\ beat < h => rsil <= Delay + beat
                       /\ beat = h => rsil + o <= t
      /\ toR # <<>> => rsil <= t + Head(toR).age
  BY <1>b, <1>c, <1>d DEF Living, Bounds, ReceiverHears
<1>f. toR = <<>> => rsil <= t BY <1>b, <1>c, NoAlarm
<1>g. PICK n \in Nat : n = Owed' /\ (SenderRuns' => n <= p)
  <2>1. Owed' \in Nat
    <3>0. left' \in 0 .. Chunks /\ swait' \in Nat BY <1>0 DEF TypeOK
    <3>1. PICK l \in Nat, w \in Nat : l = left' /\ w = swait' BY <3>0, Constants
    <3>2. l * Cost \in Nat /\ Few * Cost \in Nat BY Constants
    <3>3. PICK x \in Nat, y \in Nat : x = l * Cost /\ y = Few * Cost BY <3>2
    <3>4. w + x + (IF spc' = "extra" THEN y ELSE 0) \in Nat OBVIOUS
    <3> QED BY <3>1, <3>3, <3>4 DEF Owed
  <2>2. SenderRuns' => Owed' <= Most * Cost BY DEF IInv, SenderBudget, Most
  <2> QED BY <1>c, <2>1, <2>2
<1>h. toR' = <<>> => SenderRuns'
  <2>1. spc' \in {"first", "extra", "tail", "done"} BY <1>0 DEF TypeOK, Well, Alive
  <2>2. spc' = "done" => Carries(toR', "COMPLETE_ACK") BY DEF Finish
  <2>3. toR' = <<>> => ~Carries(toR', "COMPLETE_ACK") BY DEF Carries
  <2> QED BY <2>1, <2>2, <2>3 DEF SenderRuns
<1>i. ASSUME NEW w \in ToReceiver, toR' = toR \o Lines(<<w>>), rsil' = rsil
      PROVE  toR' # <<>> /\ rsil' <= Late + Head(toR').age
  <2>1. toR' # <<>> /\ Head(toR') = IF toR = <<>> THEN [line |-> w, age |-> 0] ELSE Head(toR)
    BY <1>a, <1>i, NewLine
  <2>2. CASE toR = <<>>
    <3>1. Head(toR').age = 0 BY <2>1, <2>2
    <3>2. rsil <= t + 0 BY <1>a, <1>c, <1>f, <2>2
    <3> QED BY <1>c, <1>i, <2>1, <3>1, <3>2
  <2>3. CASE toR # <<>> BY <1>c, <1>e, <1>i, <2>1, <2>3
  <2> QED BY <2>2, <2>3
<1>j. ASSUME UNCHANGED <<beat, rsil, toR>>, n <= o \/ beat # h PROVE ReceiverHears'
  <2>1. CASE toR = <<>>
    <3>1. beat = h => rsil + n <= t BY <1>a, <1>c, <1>d, <1>e, <1>g, <1>j, <2>1
    <3> QED BY <1>c, <1>e, <1>g, <1>j, <2>1, <3>1
            DEF ReceiverHears, heartbeat_interval, Late, Most
  <2>2. CASE toR # <<>>
    BY <1>c, <1>e, <1>j, <2>2 DEF ReceiverHears, heartbeat_interval, Late, Most
  <2> QED BY <2>1, <2>2
<1>k. ReceiverHears' => IF toR' = <<>>
                    THEN /\ beat' < heartbeat_interval => rsil' <= Delay + beat'
                         /\ beat' = heartbeat_interval => rsil' + Owed' <= Late
                    ELSE rsil' <= Late + Head(toR').age
  BY DEF ReceiverHears, heartbeat_interval, Late, Most
<1>1. CASE FirstPass \/ TailTurn
  <2>1. send_heartbeat_if_due /\ rsil' = rsil BY <1>1 DEF FirstPass, TailTurn, control
  <2>2. CASE beat >= heartbeat_interval
    <3>1. toR' = toR \o Lines(<<"PING">>) BY <2>1, <2>2 DEF send_heartbeat_if_due
    <3>2. "PING" \in ToReceiver BY DEF ToReceiver
    <3> QED BY <1>i, <2>1, <3>1, <3>2
  <2>3. CASE ~(beat >= heartbeat_interval)
    <3>1. UNCHANGED <<beat, toR>> BY <2>1, <2>3 DEF send_heartbeat_if_due
    <3>2. beat # h BY <1>a, <1>c, <2>3
    <3> QED BY <1>j, <1>k, <2>1, <3>1, <3>2
  <2> QED BY <2>2, <2>3
<1>2. CASE SendEnd \/ SendAck
  <2>1. rsil' = rsil /\ \E w \in {"END", "COMPLETE_ACK"} : toR' = toR \o Lines(<<w>>)
    BY <1>2 DEF SendEnd, SendAck, control
  <2>2. {"END", "COMPLETE_ACK"} \subseteq ToReceiver BY DEF ToReceiver
  <2> QED BY <1>i, <2>1, <2>2
<1>3. CASE FirstPassRepairs \/ SendRepair
  <2>1. UNCHANGED <<beat, rsil, toR>> BY <1>3 DEF FirstPassRepairs, SendRepair, control
  <2>2. n <= o
    <3>1. Owed' <= Owed \/ Owed' = Owed BY <1>0, <1>3, OwedSteps
    <3> QED BY <1>d, <1>g, <3>1
  <2> QED BY <1>j, <1>k, <2>1, <2>2
<1>4. CASE ReadControl
  <2>1. rsil' = 0 /\ toR # <<>> /\ toR' = Tail(toR) BY <1>4 DEF ReadControl
  <2>2. CASE toR' = <<>>
    <3>1. n <= p BY <1>g, <1>h, <2>2
    <3>2. beat' \in Nat BY <1>0 DEF TypeOK
    <3>3. 0 + n <= t /\ 0 <= Delay + beat'
      <4>1. PICK c \in Nat : c = beat' BY <3>2
      <4>2. t = h + p + Delay /\ Delay \in Nat BY <1>c
      <4>3. 0 + n <= t /\ 0 <= Delay + c BY <3>1, <4>2
      <4> QED BY <4>1, <4>3
    <3> QED BY <1>c, <1>g, <2>1, <2>2, <3>3
  <2>3. CASE toR' # <<>>
    <3>1. toR' \in Seq(Carrying(ToReceiver)) BY <1>a, <2>1, LineTaken
    <3>2. Head(toR') \in Carrying(ToReceiver) BY <2>3, <3>1, LineTaken
    <3>3. PICK a \in 0 .. Delay : a = Head(toR').age BY <3>2 DEF Carrying
    <3>4. 0 <= t + a BY <1>c, <3>3
    <3> QED BY <1>c, <2>1, <2>3, <3>3, <3>4
  <2> QED BY <2>2, <2>3
<1>5. CASE Tick
  <2>1. /\ rsil' = rsil + 1 /\ toR' = Older(toR) /\ beat' = Upto(heartbeat_interval, beat)
        /\ \A i \in DOMAIN toR : toR[i].age < Delay
    BY <1>5, <1>b DEF Tick, Later, InTime
  <2>2. CASE toR = <<>>
    <3>1. toR' = <<>> BY <1>a, <2>1, <2>2, LinesAge
    <3>2. SenderRuns' BY <1>h, <3>1
    <3>3. SenderRuns BY <3>2, Moves
    <3>4. n = o - 1 /\ n <= p BY <1>0, <1>5, <1>d, <1>g, <3>2, <3>3, OwedSteps
    <3>5. beat' = IF beat < h THEN beat + 1 ELSE h BY <1>a, <1>c, <1>e, <2>1, UptoHolds
    <3>6. PICK c \in Nat : c = beat' BY <1>a, <1>c, <3>5
    <3>7. /\ beat < h => rsil <= Delay + beat
          /\ beat = h => rsil + o <= t
      BY <1>e, <2>2
    <3>8. /\ c < h => rsil + 1 <= Delay + c
          /\ c = h => rsil + 1 + n <= t
      <4>1. c = IF beat < h THEN beat + 1 ELSE h BY <3>5, <3>6
      <4>2. CASE beat < h BY <1>a, <1>c, <1>d, <1>g, <3>4, <3>7, <4>1, <4>2
      <4>3. CASE ~(beat < h)
        <5>1. beat = h /\ c = h BY <1>a, <1>c, <1>e, <4>1, <4>3
        <5> QED BY <1>a, <1>c, <1>d, <1>g, <3>4, <3>7, <5>1
      <4> QED BY <4>2, <4>3
    <3> QED BY <1>c, <1>g, <2>1, <3>1, <3>6, <3>8
  <2>3. CASE toR # <<>>
    <3>1. toR' # <<>> BY <1>a, <2>1, <2>3, LinesAge
    <3>2. Head(toR) = toR[1] /\ 1 \in DOMAIN toR
      <4>1. PICK m \in Nat : m = Len(toR) /\ m # 0 BY <1>a, <2>3, EmptySeq
      <4>2. 1 \in 1 .. m BY <4>1
      <4> QED BY <1>a, <2>3, <4>1, <4>2
    <3>3. Head(toR).age < Delay BY <2>1, <3>2
    <3>4. Head(toR').age = Head(toR).age + 1 BY <1>a, <2>1, <2>3, <3>3, LinesAge
    <3>5. Head(toR) \in Carrying(ToReceiver) BY <1>a, <2>3, LineTaken
    <3>6. PICK a \in Nat : a = Head(toR).age BY <3>5, Constants DEF Carrying
    <3>7. rsil <= t + a BY <1>e, <2>3, <3>6
    <3>8. rsil + 1 <= t + (a + 1) BY <1>a, <1>c, <3>7
    <3> QED BY <1>c, <2>1, <3>1, <3>4, <3>6, <3>8
  <2> QED BY <2>2, <2>3
<1>6. CASE read_feedback \/ HandleEnd \/ HandlePing \/ HandleAck \/ Install \/ SendComplete
           \/ Checkpoint \/ Report \/ NoReport \/ UNCHANGED vars
  <2>1. UNCHANGED <<beat, rsil, toR, spc, swait, left>>
    BY <1>6 DEF read_feedback, HandleEnd, HandlePing, HandleAck, Install, SendComplete,
                Checkpoint, Report, NoReport, vars, sender, control
  <2>2. Owed' = Owed BY <2>1 DEF Owed
  <2>3. n <= o BY <1>d, <1>g, <2>2
  <2> QED BY <1>j, <1>k, <2>1, <2>3
<1> QED BY <1>1, <1>2, <1>3, <1>4, <1>5, <1>6 DEF LivingStep

LEMMA NextSenderHears ==
    ASSUME Living, LivingStep, IInv', Well', Bounds', Finish', Alive'
    PROVE  SenderHears'
<1> SUFFICES ASSUME SenderRuns', ~complete'
             PROVE  IF toS' = <<>>
                    THEN /\ since' < ReportInterval \/ rpc' = "recv" => ssil' <= since'
                         /\ rpc' # "recv" => ssil' + rwait' <= ReportInterval + Stall
                    ELSE ssil' <= ReportInterval + Stall + Head(toS').age
  BY DEF SenderHears
<1>0. TypeOK /\ TypeOK' BY DEF Living, IInv
<1>a. /\ since \in Nat /\ ssil \in Nat /\ rwait \in Nat /\ toS \in Seq(Carrying(ToSender))
      /\ since' \in Nat /\ rwait' \in Nat /\ complete \in BOOLEAN
  BY <1>0, Types DEF TypeOK
<1>b. SenderRuns /\ ~complete
  <2>1. SenderRuns BY Moves
  <2>2. read_feedback => ~complete BY DEF read_feedback, FeedbackReads
  <2> QED BY <1>a, <2>1, <2>2, Moves
<1>c. PICK r \in Nat, s \in Nat : r = ReportInterval /\ s = Stall BY Constants
<1>e. /\ since <= r
      /\ toS = <<>> => /\ since < r \/ rpc = "recv" => ssil <= since
                       /\ rpc # "recv" => ssil + rwait <= r + s
      /\ toS # <<>> => ssil <= r + s + Head(toS).age
  BY <1>b, <1>c DEF Living, Bounds, SenderHears
<1>f. toS = <<>> => ssil <= r + s BY <1>b, <1>c, NoAlarm
<1>g. ReceiverRuns' /\ rwait' <= s
  <2>1. rpc' \in {"recv", "saved", "install", "ack", "done"} BY <1>0 DEF TypeOK, Well, Alive
  <2>2. rpc' # "done" BY DEF Finish, SenderRuns
  <2>3. ReceiverRuns' BY <2>1, <2>2 DEF ReceiverRuns
  <2> QED BY <1>c, <2>3 DEF IInv, ReceiverBudget
<1>i. ASSUME NEW v \in ToSender, toS' = toS \o Lines(<<v>>), ssil' = ssil
      PROVE  toS' # <<>> /\ ssil' <= ReportInterval + Stall + Head(toS').age
  <2>1. toS' # <<>> /\ Head(toS') = IF toS = <<>> THEN [line |-> v, age |-> 0] ELSE Head(toS)
    BY <1>a, <1>i, NewLine
  <2>2. CASE toS = <<>>
    <3>1. Head(toS').age = 0 BY <2>1, <2>2
    <3>2. ssil <= r + s + 0 BY <1>a, <1>c, <1>f, <2>2
    <3> QED BY <1>c, <1>i, <2>1, <3>1, <3>2
  <2>3. CASE toS # <<>> BY <1>c, <1>e, <1>i, <2>1, <2>3
  <2> QED BY <2>2, <2>3
<1>j. /\ <<"PONG", 0>> \in ToSender /\ Complete \in ToSender
      /\ \A n \in 0 .. Chunks : <<"M", n>> \in ToSender
  BY DEF ToSender, Reports, Complete
<1>1. CASE FirstPass \/ FirstPassRepairs \/ SendRepair \/ SendEnd \/ TailTurn \/ SendAck
           \/ ReadControl \/ HandleEnd \/ UNCHANGED vars
  <2>1. UNCHANGED <<since, ssil, rpc, rwait, toS>>
    BY <1>1 DEF FirstPass, FirstPassRepairs, SendRepair, SendEnd, TailTurn, SendAck,
                ReadControl, HandleEnd, take_repairs, vars, feedback, receiver
  <2> QED BY <1>c, <1>e, <2>1
<1>2. CASE read_feedback
  <2>1. ssil' = 0 /\ toS # <<>> /\ toS' = Tail(toS) BY <1>2 DEF read_feedback
  <2>2. CASE toS' = <<>>
    <3>1. 0 <= since' /\ 0 + rwait' <= r + s
      <4>1. PICK w \in Nat, x \in Nat : w = rwait' /\ w <= s /\ x = since' BY <1>a, <1>g
      <4>2. w <= s BY <4>1
      <4>3. 0 <= x /\ 0 + w <= r + s BY <4>2
      <4> QED BY <4>1, <4>3
    <3> QED BY <1>c, <2>1, <2>2, <3>1
  <2>3. CASE toS' # <<>>
    <3>1. toS' \in Seq(Carrying(ToSender)) BY <1>a, <2>1, LineTaken
    <3>2. Head(toS') \in Carrying(ToSender) BY <2>3, <3>1, LineTaken
    <3>3. PICK a \in Nat : a = Head(toS').age BY <3>2, Constants DEF Carrying
    <3>4. 0 <= r + s + a BY <1>c, <3>3
    <3> QED BY <1>c, <2>1, <2>3, <3>3, <3>4
  <2> QED BY <2>2, <2>3
<1>3. CASE HandlePing
  <2>1. toS' = toS \o Lines(<<<<"PONG", 0>>>>) /\ ssil' = ssil
    BY <1>3 DEF HandlePing, feedback
  <2> QED BY <1>i, <1>j, <2>1
<1>4. CASE HandleAck BY <1>4, <1>g DEF HandleAck, ReceiverRuns
<1>5. CASE Install \/ Checkpoint
  <2>1. rpc = "recv" /\ rpc' # "recv" /\ UNCHANGED <<since, ssil, toS>>
    BY <1>5 DEF Install, Checkpoint, Receiving, feedback
  <2>2. CASE toS = <<>>
    <3>1. ssil <= since BY <1>e, <2>1, <2>2
    <3>2. ssil + rwait' <= r + s
      <4>1. PICK w \in Nat : w = rwait' /\ w <= s BY <1>a, <1>g
      <4>2. PICK x \in Nat, y \in Nat : x = ssil /\ y = since /\ x <= y /\ y <= r
        BY <1>a, <1>e, <3>1
      <4>3. w <= s BY <4>1
      <4>4. x <= y /\ y <= r BY <4>2
      <4>5. x + w <= r + s BY <4>3, <4>4
      <4> QED BY <4>1, <4>2, <4>5
    <3> QED BY <1>c, <2>1, <2>2, <3>1, <3>2
  <2>3. CASE toS # <<>> BY <1>c, <1>e, <2>1, <2>3
  <2> QED BY <2>2, <2>3
<1>6. CASE SendComplete
  <2>1. toS' = toS \o Lines(<<<<"M", 0>>, Complete>>) /\ ssil' = ssil
    BY <1>6 DEF SendComplete, Complete, feedback
  <2>2. 0 \in 0 .. Chunks BY Constants
  <2>3. PICK m \in ToSender : m = <<"M", 0>> BY <1>j, <2>2
  <2>4. PICK q \in Seq(Carrying(ToSender)) : q = toS \o Lines(<<m>>)
    BY <1>a, <2>3, OneLine
  <2>5. toS' = q \o Lines(<<Complete>>) BY <1>a, <1>j, <2>1, <2>3, <2>4, TwoAreOneAndOne
  <2>6. q # <<>> /\ Head(q) = IF toS = <<>> THEN [line |-> m, age |-> 0] ELSE Head(toS)
    BY <1>a, <2>3, <2>4, NewLine
  <2>7. toS' # <<>> /\ Head(toS') = Head(q) BY <1>j, <2>5, <2>6, NewLine
  <2>8. CASE toS = <<>>
    <3>1. Head(toS').age = 0 BY <2>6, <2>7, <2>8
    <3>2. ssil <= r + s + 0 BY <1>a, <1>c, <1>f, <2>8
    <3> QED BY <1>c, <2>1, <2>7, <3>1, <3>2
  <2>9. CASE toS # <<>> BY <1>c, <1>e, <2>1, <2>6, <2>7, <2>9
  <2> QED BY <2>8, <2>9
<1>7. CASE Report
  <2>1. PICK n \in 0 .. missing : toS' = toS \o Lines(<<<<"M", n>>>>) BY <1>7 DEF Report
  <2>2. missing \in 0 .. Chunks BY <1>0, Types
  <2>3. n \in 0 .. Chunks BY <2>2, Constants
  <2>4. ssil' = ssil BY <1>7 DEF Report, feedback
  <2> QED BY <1>i, <1>j, <2>1, <2>3, <2>4
<1>8. CASE NoReport
  <2>1. since < ReportInterval /\ rpc' = "recv" /\ UNCHANGED <<since, ssil, toS>>
    BY <1>8 DEF NoReport, feedback
  <2> QED BY <1>c, <1>e, <2>1
<1>9. CASE Tick
  <2>1. /\ ssil' = ssil + 1 /\ toS' = Older(toS) /\ since' = Upto(ReportInterval, since)
        /\ rpc' = rpc /\ rwait' = Max({rwait - 1, 0}) /\ ReceiverWaits
        /\ FeedbackReads => \A i \in DOMAIN toS : toS[i].age < Delay
    BY <1>9, <1>b DEF Tick, Later, InTime
  <2>2. CASE toS = <<>>
    <3>1. toS' = <<>> BY <1>a, <2>1, <2>2, LinesAge
    <3>2. since' = IF since < r THEN since + 1 ELSE r BY <1>a, <1>c, <1>e, <2>1, UptoHolds
    <3>3. ReceiverRuns BY <1>g, <2>1 DEF ReceiverRuns
    <3>4. rpc # "ack"
      <4>1. rpc = "ack" => Within(toS, Complete, ackAge) BY <1>b DEF Living, AckWait
      <4> QED BY <2>2, <4>1 DEF Within
    <3>5. rwait = 0 => rpc = "recv" /\ since < r
      BY <1>c, <2>1, <3>3, <3>4 DEF ReceiverWaits
    <3>6. rpc = "recv" => rwait = 0 BY DEF Living, Bounds
    <3>7. /\ since < r \/ rpc = "recv" => ssil <= since
          /\ rpc # "recv" => ssil + rwait <= r + s
      BY <1>e, <2>2
    <3>8. since' < r \/ rpc' = "recv" => ssil + 1 <= since'
      <4>1. since' < r \/ rpc' = "recv" => since < r BY <1>a, <1>c, <2>1, <3>2, <3>5, <3>6
      <4>2. since < r => since' = since + 1 /\ ssil <= since BY <3>2, <3>7
      <4>3. ssil <= since => ssil + 1 <= since + 1 BY <1>a
      <4> QED BY <4>1, <4>2, <4>3
    <3>9. rpc' # "recv" => ssil + 1 + rwait' <= r + s
      <4> SUFFICES ASSUME rpc # "recv" PROVE ssil + 1 + rwait' <= r + s BY <2>1
      <4>1. rwait # 0 /\ ssil + rwait <= r + s BY <3>5, <3>7
      <4>2. PICK x \in Int : x = rwait - 1 /\ x >= 0
        <5>1. rwait - 1 \in Int /\ rwait - 1 >= 0 BY <1>a, <4>1
        <5> QED BY <5>1
      <4>3. Max({x, 0}) \in {x, 0} /\ Max({x, 0}) >= x /\ Max({x, 0}) >= 0 BY MaxOfTwo
      <4>4. Max({x, 0}) = x BY <4>2, <4>3
      <4>5. rwait' = x BY <2>1, <4>2, <4>4
      <4>6. ssil + 1 + x <= r + s BY <1>a, <1>c, <4>1, <4>2
      <4> QED BY <4>5, <4>6
    <3> QED BY <1>c, <2>1, <3>1, <3>8, <3>9
  <2>3. CASE toS # <<>>
    <3>1. toS' # <<>> BY <1>a, <2>1, <2>3, LinesAge
    <3>2. Head(toS) = toS[1] /\ 1 \in DOMAIN toS
      <4>1. PICK m \in Nat : m = Len(toS) /\ m # 0 BY <1>a, <2>3, EmptySeq
      <4>2. 1 \in 1 .. m BY <4>1
      <4> QED BY <1>a, <2>3, <4>1, <4>2
    <3>3. FeedbackReads BY <1>b DEF FeedbackReads, Living, Well
    <3>4. Head(toS).age < Delay BY <2>1, <3>2, <3>3
    <3>5. Head(toS').age = Head(toS).age + 1 BY <1>a, <2>1, <2>3, <3>4, LinesAge
    <3>6. Head(toS) \in Carrying(ToSender) BY <1>a, <2>3, LineTaken
    <3>7. PICK a \in Nat : a = Head(toS).age BY <3>6, Constants DEF Carrying
    <3>8. ssil <= r + s + a BY <1>e, <2>3, <3>7
    <3>9. ssil + 1 <= r + s + (a + 1) BY <1>a, <1>c, <3>8
    <3> QED BY <1>c, <2>1, <3>1, <3>5, <3>7, <3>9
  <2> QED BY <2>2, <2>3
<1> QED BY <1>1, <1>2, <1>3, <1>4, <1>5, <1>6, <1>7, <1>8, <1>9 DEF LivingStep

LEMMA NextAckWait ==
    ASSUME Living, LivingStep, IInv', Well', Bounds', Finish', Alive'
    PROVE  AckWait'
<1> SUFFICES ASSUME rpc' = "ack"
             PROVE  /\ SenderRuns' /\ ~complete' => Within(toS', Complete, ackAge')
                    /\ SenderRuns' /\ complete' => ackAge' + Owed' <= Delay + Batch * Cost
                    /\ spc' = "done" /\ reading' =>
                          Within(toR', "COMPLETE_ACK", ackAge' - (Delay + Batch * Cost))
                    /\ ackAge' < ReceiverTimeout
  BY DEF AckWait, Complete
<1>0. TypeOK /\ TypeOK' BY DEF Living, IInv
<1>a. /\ ackAge \in Nat /\ complete \in BOOLEAN /\ reading \in BOOLEAN
      /\ toS \in Seq(Carrying(ToSender)) /\ toR \in Seq(Carrying(ToReceiver))
  BY <1>0, Types
<1>c. PICK b \in Nat, d \in Nat, i \in Nat :
         /\ b = Batch * Cost /\ d = Delay /\ i = ReceiverTimeout
         /\ 2 * d + b < i
  <2>1. PICK h \in Nat, p \in Nat : h = heartbeat_interval /\ p = Most * Cost BY Numbers
  <2>2. PICK b \in Nat, d \in Nat, i \in Nat, t \in Nat :
           /\ b = Batch * Cost /\ d = Delay /\ i = ReceiverTimeout /\ t = Late
           /\ t = h + p + d /\ b <= p /\ t + d < i
    BY <2>1, Numbers
  <2>3. 2 * d + b < i BY <2>2
  <2> QED BY <2>2, <2>3
<1>d. PICK o \in Nat : o = Owed BY <1>0, OwedType
<1>1. CASE SendComplete
  <2>1. /\ rpc = "install" /\ ackAge' = 0 /\ UNCHANGED <<spc, complete>>
        /\ toS' = toS \o Lines(<<<<"M", 0>>, Complete>>)
    BY <1>1 DEF SendComplete, Complete, sender, feedback
  <2>2. ~complete /\ spc # "done" BY <2>1 DEF Living, Finish
  <2>3. Within(toS', Complete, 0)
    <3>1. 0 \in 0 .. Chunks BY Constants
    <3>2. <<"M", 0>> \in ToSender /\ Complete \in ToSender
      BY <3>1 DEF ToSender, Reports, Complete
    <3>3. PICK m \in ToSender : m = <<"M", 0>> BY <3>2
    <3>4. PICK q \in Seq(Carrying(ToSender)) : q = toS \o Lines(<<m>>)
      BY <1>a, <3>3, OneLine
    <3>5. toS' = q \o Lines(<<Complete>>) BY <1>a, <2>1, <3>2, <3>3, <3>4, TwoAreOneAndOne
    <3>6. 0 <= 0 OBVIOUS
    <3>7. Within(q \o Lines(<<Complete>>), Complete, 0) BY <3>2, <3>6, NewLine
    <3> QED BY <3>5, <3>7
  <2>4. 0 < ReceiverTimeout BY Constants
  <2> QED BY <2>1, <2>2, <2>3, <2>4
<1>2. CASE ~SendComplete
  <2>1. rpc = "ack" BY <1>2, Moves
  <2>2. /\ SenderRuns /\ ~complete => Within(toS, Complete, ackAge)
        /\ SenderRuns /\ complete => ackAge + o <= d + b
        /\ spc = "done" /\ reading => Within(toR, "COMPLETE_ACK", ackAge - (d + b))
        /\ ackAge < i
    BY <1>c, <1>d, <2>1 DEF Living, AckWait
  <2>3. SenderRuns => spc = "tail"
    BY <2>1 DEF Living, IInv, EndFirst, FirstPassRuns, SenderRuns
  <2>4. ~Tick => ackAge' = ackAge
    BY <1>2 DEF LivingStep, FirstPass, FirstPassRepairs, SendRepair, SendEnd, TailTurn,
           SendAck, read_feedback, ReadControl, HandleEnd, HandlePing, HandleAck, Install,
           Checkpoint, Report, NoReport, vars, receiver
  <2>5. Tick => /\ ackAge' = ackAge + 1 /\ toS' = Older(toS) /\ toR' = Older(toR)
                /\ UNCHANGED <<spc, complete, reading>>
                /\ SenderRuns /\ ~complete => \A j \in DOMAIN toS : toS[j].age < Delay
                /\ reading => \A j \in DOMAIN toR : toR[j].age < Delay
    <3>1. ReceiverRuns BY <2>1 DEF ReceiverRuns
    <3>2. ~serr BY DEF Living, Well
    <3> QED BY <2>1, <3>1, <3>2 DEF Tick, Later, InTime, FeedbackReads
  <2>6. ASSUME SenderRuns', ~complete' PROVE Within(toS', Complete, ackAge')
    <3>1. SenderRuns /\ ~complete
      <4>1. read_feedback => ~complete BY DEF read_feedback, FeedbackReads
      <4> QED BY <1>a, <2>6, <4>1, Moves
    <3>2. Within(toS, Complete, ackAge) BY <2>2, <3>1
    <3>3. CASE Tick
      <4>1. Within(Older(toS), Complete, ackAge + 1) BY <1>a, <2>5, <3>1, <3>2, <3>3, LinesAge
      <4> QED BY <2>5, <3>3, <4>1
    <3>4. CASE read_feedback
      <4>1. /\ toS # <<>> /\ toS' = Tail(toS) /\ complete' = (Head(toS).line[1] = "COMPLETE")
        BY <3>4 DEF read_feedback
      <4>2. Head(toS).line # Complete
        <5>1. Head(toS).line[1] # "COMPLETE" BY <2>6, <4>1
        <5>2. Complete[1] = "COMPLETE" BY DEF Complete
        <5> QED BY <5>1, <5>2
      <4>3. Within(Tail(toS), Complete, ackAge) BY <1>a, <3>2, <4>1, <4>2, LineTaken
      <4>4. ackAge' = ackAge BY <3>4 DEF read_feedback, receiver
      <4> QED BY <4>1, <4>3, <4>4
    <3>5. CASE ~Tick /\ ~read_feedback
      <4>1. ackAge' = ackAge BY <2>4, <3>5
      <4>2. CASE toS' = toS BY <3>2, <4>1, <4>2
      <4>3. CASE HandlePing
        <5>1. toS' = toS \o Lines(<<<<"PONG", 0>>>>) BY <4>3 DEF HandlePing
        <5>2. PICK v \in ToSender : v = <<"PONG", 0>> BY DEF ToSender
        <5>3. Within(toS \o Lines(<<v>>), Complete, ackAge) BY <1>a, <3>2, NewLine
        <5> QED BY <4>1, <5>1, <5>2, <5>3
      <4>4. HandlePing \/ toS' = toS
        BY <1>2, <2>1, <3>5 DEF LivingStep, FirstPass, FirstPassRepairs, SendRepair, SendEnd,
               TailTurn, SendAck, ReadControl, HandleEnd, HandleAck, Install, Checkpoint,
               Report, NoReport, Receiving, vars
      <4> QED BY <4>2, <4>3, <4>4
    <3> QED BY <3>3, <3>4, <3>5
  <2>7. ASSUME SenderRuns', complete' PROVE ackAge' + Owed' <= d + b
    <3>1. SenderRuns /\ spc = "tail" BY <2>3, <2>7, Moves
    <3>2. o <= b BY <1>c, <1>d, <3>1 DEF Living, Bounds
    <3>3. CASE read_feedback
      <4>1. UNCHANGED <<spc, swait, left, ackAge>> /\ ~complete
        BY <3>3 DEF read_feedback, FeedbackReads, sender, receiver
      <4>2. Owed' = o BY <1>d, <4>1 DEF Owed
      <4>3. Within(toS, Complete, ackAge) BY <2>2, <3>1, <4>1
      <4>4. ackAge \in Int BY <1>a
      <4>5. ackAge <= d BY <1>a, <1>c, <4>3, <4>4, WithinDelay
      <4>6. ackAge + o <= d + b BY <1>a, <3>2, <4>5
      <4> QED BY <4>1, <4>2, <4>6
    <3>4. CASE ~read_feedback
      <4>1. complete BY <1>a, <2>7, <3>4, Moves
      <4>2. ackAge + o <= d + b BY <2>2, <3>1, <4>1
      <4>3. CASE Tick
        <5>1. Owed' = o - 1 /\ ackAge' = ackAge + 1
          BY <1>0, <1>d, <2>5, <3>1, <4>3, OwedSteps
        <5>2. (ackAge + 1) + (o - 1) = ackAge + o BY <1>a
        <5> QED BY <4>2, <5>1, <5>2
      <4>4. CASE SendRepair /\ ~Tick
        <5>1. Owed' = o /\ ackAge' = ackAge BY <1>0, <1>d, <2>4, <4>4, OwedSteps
        <5> QED BY <4>2, <5>1
      <4>5. CASE ~SendRepair /\ ~Tick
        <5>1. UNCHANGED <<spc, swait, left>>
          BY <2>7, <3>1, <3>4, <4>1, <4>5
             DEF LivingStep, FirstPass, FirstPassRepairs, SendEnd, TailTurn, SendAck,
                 ReadControl, HandleEnd, HandlePing, HandleAck, Install, SendComplete,
                 Checkpoint, Report, NoReport, vars, sender, SenderRuns
        <5>2. Owed' = o BY <1>d, <5>1 DEF Owed
        <5> QED BY <2>4, <4>2, <4>5, <5>2
      <4> QED BY <4>3, <4>4, <4>5
    <3> QED BY <3>3, <3>4
  <2>8. ASSUME spc' = "done", reading'
        PROVE  Within(toR', "COMPLETE_ACK", ackAge' - (d + b))
    <3> DEFINE ack == "COMPLETE_ACK"
    <3>0. PICK x \in Int : x = ackAge - (d + b) /\ (ackAge + 1) - (d + b) = x + 1
      <4>1. ackAge - (d + b) \in Int /\ (ackAge + 1) - (d + b) = (ackAge - (d + b)) + 1
        BY <1>a
      <4> QED BY <4>1
    <3>1. CASE SendAck
      <4>1. SenderTurn /\ spc = "tail" /\ complete /\ toR' = toR \o Lines(<<ack>>)
            /\ ackAge' = ackAge
        BY <3>1 DEF SendAck, receiver
      <4>2. o = 0 BY <1>0, <1>d, <4>1, OwedSteps
      <4>3. ackAge + o <= d + b BY <2>2, <4>1 DEF SenderRuns
      <4>4. x <= 0 BY <1>a, <3>0, <4>2, <4>3
      <4>5. ack \in ToReceiver BY DEF ToReceiver
      <4>6. Within(toR \o Lines(<<ack>>), ack, x) BY <1>a, <4>4, <4>5, NewLine
      <4> QED BY <3>0, <4>1, <4>6
    <3>2. CASE spc = "done" /\ reading
      <4>0. Within(toR, ack, x) BY <2>2, <3>0, <3>2
      <4>1. CASE Tick
        <5>1. Within(Older(toR), ack, x + 1) BY <1>a, <2>5, <3>2, <4>0, <4>1, LinesAge
        <5>2. ackAge' - (d + b) = x + 1 /\ toR' = Older(toR) BY <2>5, <3>0, <4>1
        <5> QED BY <5>1, <5>2
      <4>2. CASE ReadControl
        <5>1. toR # <<>> /\ toR' = Tail(toR) /\ Head(toR).line # ack /\ ackAge' = ackAge
          BY <2>8, <4>2 DEF ReadControl, receiver
        <5>2. Within(Tail(toR), ack, x) BY <1>a, <4>0, <5>1, LineTaken
        <5> QED BY <3>0, <5>1, <5>2
      <4>3. CASE ~Tick /\ ~ReadControl
        <5>1. toR' = toR
          BY <3>2, <4>3
             DEF LivingStep, FirstPass, FirstPassRepairs, SendRepair, SendEnd, TailTurn,
                 SendAck, read_feedback, HandleEnd, HandlePing, HandleAck, Install,
                 SendComplete, Checkpoint, Report, NoReport, vars, SenderTurn, SenderRuns
        <5> QED BY <2>4, <3>0, <4>0, <4>3, <5>1
      <4> QED BY <4>1, <4>2, <4>3
    <3>3. SendAck \/ (spc = "done" /\ reading)
      <4>1. ReadControl => reading BY DEF ReadControl
      <4> QED BY <1>a, <2>8, <4>1, Moves
    <3> QED BY <3>1, <3>2, <3>3
  <2>9. ackAge' < ReceiverTimeout
    <3>1. CASE ~Tick BY <1>c, <2>2, <2>4, <3>1
    <3>2. CASE Tick
      <4>0. PICK g \in Nat : g = ackAge' /\ g = ackAge + 1 BY <1>a, <2>5, <3>2
      <4>a. toS' \in Seq(Carrying(ToSender)) /\ toR' \in Seq(Carrying(ToReceiver))
        BY <1>0 DEF TypeOK, Carrying
      <4>1. CASE SenderRuns' /\ ~complete'
        <5>1. Within(toS', Complete, g) BY <2>6, <4>0, <4>1
        <5>2. g <= d BY <1>c, <4>0, <4>a, <5>1, WithinDelay
        <5>3. g < i BY <1>c, <5>2
        <5> QED BY <1>c, <4>0, <5>3
      <4>2. CASE SenderRuns' /\ complete'
        <5>1. Owed' = o - 1 /\ SenderRuns BY <1>0, <1>d, <3>2, <4>2, OwedSteps, Moves
        <5>2. complete BY <2>5, <3>2, <4>2
        <5>3. ackAge + o <= d + b /\ ackAge < i BY <2>2, <5>1, <5>2
        <5>4. g + (o - 1) <= d + b BY <1>a, <4>0, <5>3
        <5>5. o # 0
          <6>1. swait > 0 BY <3>2, <5>1 DEF Tick, SenderWaits
          <6>2. PICK l \in Nat, f \in Nat : l = left * Cost /\ f = Few * Cost
            <7>1. left \in 0 .. Chunks BY <1>0, Types
            <7>2. left \in Nat BY <7>1, Constants
            <7> QED BY <7>2, Constants
          <6>3. o = swait + l + (IF spc = "extra" THEN f ELSE 0) BY <1>d, <6>2 DEF Owed
          <6>4. swait \in Nat BY <1>0, Types
          <6> QED BY <6>1, <6>2, <6>3, <6>4
        <5>6. g < i BY <1>c, <1>d, <4>0, <5>4, <5>5
        <5> QED BY <1>c, <4>0, <5>6
      <4>3. CASE spc' = "done" /\ reading'
        <5>1. PICK x \in Int : x = g - (d + b) OBVIOUS
        <5>2. Within(toR', "COMPLETE_ACK", x) BY <2>8, <4>0, <4>3, <5>1
        <5>3. x <= d BY <1>c, <4>a, <5>2, WithinDelay
        <5>4. g < i BY <1>c, <5>1, <5>3
        <5> QED BY <1>c, <4>0, <5>4
      <4>4. CASE spc' = "done" /\ ~reading'
        <5>1. ReceiverRuns BY <2>1 DEF ReceiverRuns
        <5>2. ~reading BY <2>5, <3>2, <4>4
        <5>3. events # <<>> BY <5>1, <5>2 DEF Living, IInv, ReceiverBudget, LastTerminal
        <5>4. rwait = 0 BY <2>1 DEF Living, Bounds
        <5> QED BY <3>2, <5>1, <5>3, <5>4 DEF Tick, ReceiverWaits
      <4>5. SenderRuns' \/ spc' = "done"
        <5>1. spc' \in {"first", "extra", "tail", "done"} BY <1>0 DEF TypeOK, Well, Alive
        <5> QED BY <5>1 DEF SenderRuns
      <4>6. complete' \in BOOLEAN /\ reading' \in BOOLEAN BY <1>0 DEF TypeOK
      <4> QED BY <4>1, <4>2, <4>3, <4>4, <4>5, <4>6
    <3> QED BY <3>1, <3>2
  <2> QED BY <1>c, <2>6, <2>7, <2>8, <2>9
<1> QED BY <1>1, <1>2

LivingInv ==
    Alive => Well /\ Bounds /\ Finish /\ ReceiverHears /\ SenderHears /\ AckWait

LEMMA InitLiving == Init => LivingInv
<1> SUFFICES ASSUME Init, Alive
             PROVE  Well /\ Bounds /\ Finish /\ ReceiverHears /\ SenderHears /\ AckWait
  BY DEF LivingInv
<1>1. /\ spc = "first" /\ rpc = "recv" /\ ~complete /\ ~serr /\ reading /\ beat = 0
      /\ since = 0 /\ ssil = 0 /\ rwait = 0 /\ swait = 0 /\ left = 0
      /\ events = <<>> /\ toR = <<>> /\ toS = <<>>
  BY DEF Init
<1>2. \A w : ~Carries(toR, w) /\ ~Carries(toS, w) /\ ~Holds(events, w)
  BY <1>1 DEF Carries, Holds
<1>3. PICK h \in Nat, p \in Nat : h = heartbeat_interval /\ p = Most * Cost
  BY IntervalType, MostHolds
<1>4. Well BY <1>1, <1>2 DEF Well
<1>5. Bounds BY <1>1, <1>3, Constants DEF Bounds
<1>6. Finish BY <1>1, <1>2 DEF Finish
<1>7. ReceiverHears
  <2>1. rsil \in Nat /\ rsil <= Delay
    <3>1. /\ Min({Delay, ReceiverTimeout}) \in {Delay, ReceiverTimeout}
          /\ Min({Delay, ReceiverTimeout}) <= Delay
      <4>1. Delay \in Int /\ ReceiverTimeout \in Int BY Constants
      <4> QED BY <4>1, MinOfTwo
    <3>2. rsil \in 0 .. Min({Delay, ReceiverTimeout}) BY DEF Init
    <3> QED BY <3>1, <3>2, Constants
  <2>2. Owed = 0
    <3>1. 0 * Cost = 0 BY Constants
    <3> QED BY <1>1, <3>1 DEF Owed
  <2>3. Late = h + p + Delay BY <1>3 DEF Late
  <2>4. rsil <= Delay + 0 /\ rsil + 0 <= h + p + Delay BY <1>3, <2>1, Constants
  <2> QED BY <1>1, <2>2, <2>3, <2>4 DEF ReceiverHears
<1>8. SenderHears
  <2>1. 0 <= 0 OBVIOUS
  <2> QED BY <1>1, <2>1 DEF SenderHears
<1>9. AckWait BY <1>1 DEF AckWait
<1> QED BY <1>4, <1>5, <1>6, <1>7, <1>8, <1>9

LEMMA NextLiving == IInv /\ LivingInv /\ [Next]_vars /\ IInv' => LivingInv'
<1> SUFFICES ASSUME IInv, LivingInv, [Next]_vars, IInv', Alive'
             PROVE  /\ Well' /\ Bounds' /\ Finish'
                    /\ ReceiverHears' /\ SenderHears' /\ AckWait'
  BY DEF LivingInv
<1>1. spc # "dead" /\ rpc # "dead"
  <2>1. spc = "dead" => spc' = "dead"
    BY DEF Next, vars, FirstPass, FirstPassRepairs, SendRepair, SendEnd, TailTurn, SendAck,
           SenderAborts, read_feedback, FeedbackTimeout, ReadControl, ControlTimeout,
           HandleEnd, HandlePing, HandleAck, ReceiverAborts, ReceiverCloses, Install,
           SendComplete, Checkpoint, Report, NoReport, SenderDies, ReceiverDies, Tick,
           Terminated, sender, SenderTurn, SenderRuns
  <2>2. rpc = "dead" => rpc' = "dead"
    BY DEF Next, vars, FirstPass, FirstPassRepairs, SendRepair, SendEnd, TailTurn, SendAck,
           SenderAborts, read_feedback, FeedbackTimeout, ReadControl, ControlTimeout,
           HandleEnd, HandlePing, HandleAck, ReceiverAborts, ReceiverCloses, Install,
           SendComplete, Checkpoint, Report, NoReport, SenderDies, ReceiverDies, Tick,
           Terminated, receiver, Receiving, ReceiverTurn, ReceiverRuns
  <2> QED BY <2>1, <2>2 DEF Alive
<1>2. Alive BY <1>1 DEF Alive, BatchFits, heartbeat_interval
<1>3. Living BY <1>2 DEF Living, LivingInv
<1>4. LivingStep BY <1>3, LivingSteps
<1>5. Well' /\ Bounds' /\ Finish' BY <1>3, <1>4, NextWell, NextBounds, NextFinish
<1> QED BY <1>3, <1>4, <1>5, NextReceiverHears, NextSenderHears, NextAckWait

(* Two processes that live never take each other for dead, for every       *)
(* timeout, interval, batch, rate, stall and delay that BatchFits admits:  *)
(* neither idle timeout nor the wait for COMPLETE_ACK ends a transfer both *)
(* of whose sides still work.                                              *)
THEOREM LivingNeverTimeOut == Spec => []NoFalseTimeout
<1>1. Init => IInv /\ LivingInv
  BY InitTyped, InitEndFirst, InitSender, InitReceiver, InitLiving DEF IInv
<1>2. IInv /\ LivingInv /\ [Next]_vars => (IInv /\ LivingInv)'
  BY NextTyped, NextEndFirst, NextSender, NextReceiver, NextLiving DEF IInv
<1>3. LivingInv => NoFalseTimeout BY DEF LivingInv, Alive, Well, NoFalseTimeout
<1> QED BY <1>1, <1>2, <1>3, PTL DEF Spec
=============================================================================
