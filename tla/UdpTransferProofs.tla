------------------------- MODULE UdpTransferProofs -------------------------
(***************************************************************************)
(* Safety of UdpTransfer for every object size, chunk content, cap, number *)
(* of sessions and number of faults.                                       *)
(*                                                                         *)
(*   1. The operations of RepairQueue keep its type and its consistency.   *)
(*   2. Types, with one fact besides themselves: the receiver has a .part  *)
(*      file from the creation of it to the end of its loop.               *)
(*   3. The contract.  The repair queue stays consistent, the incremental  *)
(*      hash vouches for the file, and the transfer implements             *)
(*      TransferContract.  That rests on four facts no single thread sees: *)
(*        SameObject        both processes speak of one object;            *)
(*        Installed         a receiver past its install has installed it;  *)
(*        NoEarlyComplete   before the install no COMPLETE is on its way;  *)
(*        NoEarlyAck        before the sender has succeeded no             *)
(*                          COMPLETE_ACK is.                               *)
(*   4. Durability: what the resume state claims is in the .part file, and *)
(*      is never given up without damage.                                  *)
(*   5. A history without faults: nothing fails.                           *)
(***************************************************************************)
EXTENDS UdpTransfer, TLAPS, FiniteSetTheorems, SequenceTheorems, NaturalsInduction,
        WellFoundedInduction

-----------------------------------------------------------------------------
(***************************************************************************)
(* 1. The repair queue.                                                    *)
(***************************************************************************)

LEMMA AtMostType ==
    ASSUME NEW a \in Int, NEW b \in Int
    PROVE  /\ AtMost(a, b) \in Int
           /\ AtMost(a, b) <= a
           /\ AtMost(a, b) <= b
           /\ AtMost(a, b) = a \/ AtMost(a, b) = b
BY DEF AtMost

(* A member of Ascending is a sequence, without repetition, of members of  *)
(* the set.                                                                *)
LEMMA AscendingIsSeq ==
    ASSUME NEW S \in SUBSET Int, NEW k \in Int, NEW f \in Ascending(S, k)
    PROVE  /\ f \in Seq(S)
           /\ Len(f) = IF k > 0 THEN k ELSE 0
           /\ Range(f) \subseteq S
           /\ IsInjective(f)
<1> DEFINE n == IF k > 0 THEN k ELSE 0
<1>1. n \in Nat /\ 1 .. n = 1 .. k
  OBVIOUS
<1>2. f \in [1 .. n -> S]
  BY <1>1 DEF Ascending
<1>3. f \in Seq(S) /\ Len(f) = n
  BY <1>1, <1>2, IsASeq
<1>4. Range(f) \subseteq S
  BY <1>2 DEF Range
<1>5. ASSUME NEW i \in DOMAIN f, NEW j \in DOMAIN f, f[i] = f[j] PROVE i = j
  <2>1. i \in 1 .. k /\ j \in 1 .. k BY <1>1, <1>2
  <2>2. \A a, b \in 1 .. k : a < b => f[a] < f[b] BY DEF Ascending
  <2>3. f[i] \in Int /\ f[j] \in Int BY <1>2
  <2> QED BY <1>5, <2>1, <2>2, <2>3
<1> QED BY <1>3, <1>4, <1>5 DEF IsInjective

(* The range of a sequence is no larger than its length.                   *)
LEMMA RangeCardinality ==
    ASSUME NEW S, NEW f \in Seq(S)
    PROVE  /\ IsFiniteSet(Range(f))
           /\ Cardinality(Range(f)) \in Nat
           /\ Cardinality(Range(f)) <= Len(f)
<1>1. Len(f) \in Nat /\ DOMAIN f = 1 .. Len(f)
  OBVIOUS
<1>2. f \in Surjection(1 .. Len(f), Range(f))
  BY <1>1 DEF Surjection, Range
<1>3. IsFiniteSet(1 .. Len(f)) /\ Cardinality(1 .. Len(f)) = Len(f)
  BY <1>1, FS_Interval, SMTT(15)
<1> QED BY <1>2, <1>3, FS_Surjection, FS_CardinalityType

-----------------------------------------------------------------------------
(* Expiring cooldowns keeps the queue consistent.                          *)
LEMMA RetainConsistent ==
    ASSUME NEW C, IsFiniteSet(C), NEW Q \in RepairQueues(C), NEW expired
    PROVE  /\ Retain(Q, expired) \in RepairQueues(C)
           /\ Consistent(Q) => Consistent(Retain(Q, expired))
<1> DEFINE new == Retain(Q, expired)
<1>1. /\ new.queue = Q.queue /\ new.queued = Q.queued
      /\ new.last_sent = Q.last_sent \ expired
      /\ new \in RepairQueues(C)
  BY DEF Retain, RepairQueues
<1>2. IsFiniteSet(Q.last_sent) BY FS_Subset DEF RepairQueues
<1>3. /\ Cardinality(new.last_sent) <= Cardinality(Q.last_sent)
      /\ Cardinality(new.last_sent) \in Nat /\ Cardinality(Q.last_sent) \in Nat
  BY <1>1, <1>2, FS_Subset, FS_CardinalityType
<1> HIDE DEF new
<1>4. Consistent(Q) => Consistent(new)
  BY <1>1, <1>3, MaxQueuedRepairsAssumption DEF Consistent
<1> QED BY <1>1, <1>4 DEF new

(* enqueue_repairs returns a queue, whatever is reported.                  *)
LEMMA EnqueueType ==
    ASSUME NEW C \in SUBSET Int, IsFiniteSet(C), NEW Q \in RepairQueues(C),
           NEW missing \in SUBSET C, NEW r \in enqueue_repairs(Q, missing)
    PROVE  r \in RepairQueues(C)
<1> DEFINE eligible == missing \ (Q.last_sent \cup Q.queued)
           room == MaxQueuedRepairs - Cardinality(Q.queued)
           k == AtMost(Cardinality(eligible), room)
<1>1. /\ Q.queue \in Seq(C) /\ Q.queued \in SUBSET C /\ Q.last_sent \in SUBSET C
      /\ eligible \in SUBSET C
  BY DEF RepairQueues
<1>2. Cardinality(Q.queued) \in Nat /\ Cardinality(eligible) \in Nat
  BY <1>1, FS_Subset, FS_CardinalityType
<1>3. k \in Int
  BY <1>2, MaxQueuedRepairsAssumption, AtMostType
<1>4. PICK new \in Ascending(eligible, k) :
        r = [Q EXCEPT !.queue = @ \o new, !.queued = @ \cup Range(new)]
  BY DEF enqueue_repairs
<1>5. new \in Seq(eligible) /\ Range(new) \subseteq eligible
  <2>1. eligible \in SUBSET Int BY <1>1
  <2> HIDE DEF eligible, k
  <2> QED BY <1>3, <1>4, <2>1, AscendingIsSeq
<1>6. new \in Seq(C)
  BY <1>1, <1>5, SeqMonotonic
<1>7. Q.queue \o new \in Seq(C)
  BY <1>1, <1>6
<1>8. Q.queued \cup Range(new) \in SUBSET C
  BY <1>1, <1>5
<1> QED BY <1>4, <1>7, <1>8 DEF RepairQueues

(* Queueing what is reported missing keeps the queue consistent: no chunk  *)
(* twice, none that cools down, and no more than the cap.                  *)
LEMMA EnqueueConsistent ==
    ASSUME NEW C \in SUBSET Int, IsFiniteSet(C), NEW Q \in RepairQueues(C),
           NEW missing \in SUBSET C, NEW r \in enqueue_repairs(Q, missing),
           Consistent(Q)
    PROVE  Consistent(r)
<1> DEFINE eligible == missing \ (Q.last_sent \cup Q.queued)
           room == MaxQueuedRepairs - Cardinality(Q.queued)
           k == AtMost(Cardinality(eligible), room)
<1>1. /\ Q.queue \in Seq(C) /\ Q.queued \in SUBSET C /\ Q.last_sent \in SUBSET C
      /\ eligible \in SUBSET C /\ eligible \in SUBSET Int
  BY DEF RepairQueues
<1>2. Cardinality(Q.queued) \in Nat /\ Cardinality(eligible) \in Nat
  BY <1>1, FS_Subset, FS_CardinalityType
<1>3. room \in Nat
  BY <1>2, MaxQueuedRepairsAssumption DEF Consistent
<1>4. k \in Nat /\ k <= room
  BY <1>2, <1>3 DEF AtMost
<1>5. PICK new \in Ascending(eligible, k) :
        r = [Q EXCEPT !.queue = @ \o new, !.queued = @ \cup Range(new)]
  BY DEF enqueue_repairs
<1>6. /\ r.queue = Q.queue \o new
      /\ r.queued = Q.queued \cup Range(new)
      /\ r.last_sent = Q.last_sent
  BY <1>5 DEF RepairQueues
<1>7. /\ new \in Seq(eligible) /\ Range(new) \subseteq eligible
      /\ Len(new) = k /\ IsInjective(new)
  <2>1. eligible \in SUBSET Int /\ k \in Int /\ k >= 0 BY <1>1, <1>4
  <2>2. new \in Ascending(eligible, k) BY <1>5
  <2> HIDE DEF eligible, k, room
  <2>3. /\ new \in Seq(eligible) /\ Range(new) \subseteq eligible /\ IsInjective(new)
        /\ Len(new) = IF k > 0 THEN k ELSE 0
    BY <2>1, <2>2, AscendingIsSeq
  <2> QED BY <2>1, <2>3
<1>8. new \in Seq(C) BY <1>1, <1>7, SeqMonotonic
<1>9. r.queued = Range(r.queue)
  BY <1>1, <1>6, <1>8, RangeConcatenation DEF Consistent
<1>10. IsInjective(r.queue)
  <2> DEFINE q == Q.queue
             cat == q \o new
  <2>1. /\ cat \in Seq(C) /\ Len(cat) = Len(q) + Len(new)
        /\ \A i \in 1 .. Len(q) + Len(new) :
              cat[i] = IF i <= Len(q) THEN q[i] ELSE new[i - Len(q)]
    BY <1>1, <1>8, ConcatProperties
  <2>2. \A i \in 1 .. Len(q), j \in 1 .. Len(new) : q[i] # new[j]
    <3>1. \A i \in 1 .. Len(q) : q[i] \in Q.queued
      BY <1>1, RangeEquality DEF Consistent
    <3>2. \A j \in 1 .. Len(new) : new[j] \in eligible BY <1>7
    <3> QED BY <3>1, <3>2
  <2>3. /\ \A a, b \in 1 .. Len(q) : q[a] = q[b] => a = b
        /\ \A a, b \in 1 .. Len(new) : new[a] = new[b] => a = b
    <3>1. IsInjective(q) BY DEF Consistent
    <3>2. DOMAIN q = 1 .. Len(q) /\ DOMAIN new = 1 .. Len(new) BY <1>1, <1>8
    <3> HIDE DEF q
    <3>3. \A a, b \in 1 .. Len(q) : q[a] = q[b] => a = b
      BY <3>1, <3>2 DEF IsInjective
    <3>4. \A a, b \in 1 .. Len(new) : new[a] = new[b] => a = b
      BY <1>7, <3>2 DEF IsInjective
    <3> QED BY <3>3, <3>4
  <2>4. Len(q) \in Nat /\ Len(new) \in Nat BY <1>1, <1>8
  <2>5. ASSUME NEW a \in 1 .. Len(cat), NEW b \in 1 .. Len(cat), cat[a] = cat[b]
        PROVE  a = b
    <3> HIDE DEF cat, q
    <3>1. CASE a <= Len(q) /\ b <= Len(q) BY <2>1, <2>3, <2>4, <2>5, <3>1
    <3>2. CASE a > Len(q) /\ b > Len(q)
      <4>1. new[a - Len(q)] = new[b - Len(q)] BY <2>1, <2>4, <2>5, <3>2
      <4>2. a - Len(q) \in 1 .. Len(new) /\ b - Len(q) \in 1 .. Len(new)
        BY <2>1, <2>4, <3>2
      <4>3. a - Len(q) = b - Len(q) BY <4>1, <4>2, <2>3
      <4> QED BY <4>3, <2>1, <2>4
    <3>3. CASE a <= Len(q) /\ b > Len(q) BY <2>1, <2>2, <2>4, <2>5, <3>3
    <3>4. CASE a > Len(q) /\ b <= Len(q) BY <2>1, <2>2, <2>4, <2>5, <3>4
    <3>5. a \in Int /\ b \in Int /\ Len(q) \in Int BY <2>4
    <3> QED BY <3>1, <3>2, <3>3, <3>4, <3>5
  <2>6. DOMAIN cat = 1 .. Len(cat) BY <2>1
  <2>7. r.queue = cat BY <1>6
  <2> HIDE DEF cat
  <2> QED BY <2>5, <2>6, <2>7 DEF IsInjective
<1>11. r.queued \cap r.last_sent = {}
  BY <1>6, <1>7 DEF Consistent
<1>12. Cardinality(r.queued) <= MaxQueuedRepairs
  <2>1. /\ IsFiniteSet(Range(new)) /\ Cardinality(Range(new)) \in Nat
        /\ Cardinality(Range(new)) <= k
    BY <1>7, RangeCardinality
  <2>2. IsFiniteSet(Q.queued) BY <1>1, FS_Subset
  <2>3. /\ Cardinality(Q.queued \cup Range(new)) =
              Cardinality(Q.queued) + Cardinality(Range(new))
                - Cardinality(Q.queued \cap Range(new))
    BY <2>1, <2>2, FS_Union
  <2>4. Cardinality(Q.queued \cap Range(new)) \in Nat
    BY <2>2, FS_Subset, FS_CardinalityType
  <2> HIDE DEF k
  <2> QED BY <1>2, <1>4, <1>6, <2>1, <2>3, <2>4, MaxQueuedRepairsAssumption
<1>13. Cardinality(r.last_sent) <= MaxQueuedRepairs
  BY <1>6 DEF Consistent
<1> QED BY <1>9, <1>10, <1>11, <1>12, <1>13 DEF Consistent

(* take_repairs returns a batch of chunks and a queue.                     *)
LEMMA TakeType ==
    ASSUME NEW C \in SUBSET Int, IsFiniteSet(C), NEW Q \in RepairQueues(C),
           NEW limit \in Nat, NEW t \in take_repairs(Q, limit)
    PROVE  t.batch \in Seq(C) /\ t.rq \in RepairQueues(C)
<1> DEFINE k == AtMost(limit, Len(Q.queue))
           taken == SubSeq(Q.queue, 1, k)
           rest == SubSeq(Q.queue, k + 1, Len(Q.queue))
<1>1. /\ Q.queue \in Seq(C) /\ Q.queued \in SUBSET C /\ Q.last_sent \in SUBSET C
      /\ Len(Q.queue) \in Nat
  BY DEF RepairQueues
<1>2. k \in 0 .. Len(Q.queue)
  BY <1>1 DEF AtMost
<1>3. taken \in Seq(C) /\ rest \in Seq(C)
  <2> HIDE DEF k
  <2>1. \A i \in 1 .. k : i \in 1 .. Len(Q.queue) BY <1>1, <1>2
  <2>2. \A i \in k + 1 .. Len(Q.queue) : i \in 1 .. Len(Q.queue) BY <1>1, <1>2
  <2>3. \A i \in 1 .. Len(Q.queue) : Q.queue[i] \in C BY <1>1
  <2> QED BY <1>1, <1>2, <2>1, <2>2, <2>3, SubSeqProperties
<1>4. Range(taken) \subseteq C BY <1>3, RangeOfSeq
<1>5. CASE k = 0
  <2>1. t = [batch |-> <<>>, rq |-> Q] BY <1>5 DEF take_repairs
  <2> QED BY <2>1
<1>6. CASE k # 0
  <2>1. PICK L \in SUBSET (Q.last_sent \cup Range(taken)) :
          t = [batch |-> taken,
               rq |-> [queue |-> rest, queued |-> Q.queued \ Range(taken),
                       last_sent |-> L]]
    BY <1>6 DEF take_repairs
  <2>2. t.batch = taken
    BY <2>1
  <2>3. t.rq = [queue |-> rest, queued |-> Q.queued \ Range(taken), last_sent |-> L]
    BY <2>1
  <2> HIDE DEF taken, rest
  <2>4. L \in SUBSET C /\ Q.queued \ Range(taken) \in SUBSET C BY <1>1, <1>4
  <2> QED BY <1>3, <2>2, <2>3, <2>4 DEF RepairQueues
<1> QED BY <1>5, <1>6

(* Taking a taken keeps the queue consistent: what leaves the deque leaves *)
(* the set, what stays is disjoint from the cooling chunks, and the        *)
(* eviction keeps last_sent at the cap.                                    *)
LEMMA TakeConsistent ==
    ASSUME NEW C \in SUBSET Int, IsFiniteSet(C), NEW Q \in RepairQueues(C),
           NEW limit \in Nat, NEW t \in take_repairs(Q, limit), Consistent(Q)
    PROVE  Consistent(t.rq)
<1> DEFINE q == Q.queue
           k == AtMost(limit, Len(q))
           taken == SubSeq(q, 1, k)
           rest == SubSeq(q, k + 1, Len(q))
           sent == Q.last_sent \cup Range(taken)
<1>1. /\ q \in Seq(C) /\ Q.queued \in SUBSET C /\ Q.last_sent \in SUBSET C
      /\ Len(q) \in Nat /\ DOMAIN q = 1 .. Len(q)
      /\ \A i \in 1 .. Len(q) : q[i] \in C
  BY DEF RepairQueues
<1>2. k \in 0 .. Len(q)
  BY <1>1 DEF AtMost
<1>3. CASE k = 0
  <2>1. t = [batch |-> <<>>, rq |-> Q] BY <1>3 DEF take_repairs
  <2> QED BY <2>1
<1>4. CASE k # 0
  <2>1. PICK L \in SUBSET sent :
          /\ Cardinality(L) = AtMost(MaxQueuedRepairs, Cardinality(sent))
          /\ t = [batch |-> taken,
                  rq |-> [queue |-> rest, queued |-> Q.queued \ Range(taken),
                          last_sent |-> L]]
    BY <1>4 DEF take_repairs
  <2>2. /\ t.rq.queue = rest /\ t.rq.queued = Q.queued \ Range(taken)
        /\ t.rq.last_sent = L
    BY <2>1
  <2>3. \A a, b \in 1 .. Len(q) : q[a] = q[b] => a = b
    <3>1. IsInjective(q) BY DEF Consistent
    <3> HIDE DEF q
    <3> QED BY <1>1, <3>1 DEF IsInjective
  <2>4. Q.queued = {q[i] : i \in 1 .. Len(q)}
    BY <1>1, RangeEquality DEF Consistent
  <2> HIDE DEF q, k
  <2>5. /\ taken \in Seq(C) /\ Len(taken) = k
        /\ \A i \in 1 .. k : taken[i] = q[i]
    <3>1. \A i \in 1 .. k : q[i] \in C BY <1>1, <1>2
    <3>2. /\ taken \in Seq(C) /\ Len(taken) = IF 1 <= k THEN k - 1 + 1 ELSE 0
          /\ \A i \in 1 .. k - 1 + 1 : taken[i] = q[1 + i - 1]
      BY <1>2, <3>1, SubSeqProperties
    <3> HIDE DEF taken
    <3> QED BY <1>2, <1>4, <3>2
  <2>6. /\ rest \in Seq(C) /\ Len(rest) = Len(q) - k
        /\ \A i \in 1 .. Len(q) - k : rest[i] = q[k + i]
    <3>1. \A i \in k + 1 .. Len(q) : q[i] \in C BY <1>1, <1>2
    <3>2. /\ rest \in Seq(C)
          /\ Len(rest) = IF k + 1 <= Len(q) THEN Len(q) - (k + 1) + 1 ELSE 0
          /\ \A i \in 1 .. Len(q) - (k + 1) + 1 : rest[i] = q[(k + 1) + i - 1]
      BY <1>1, <1>2, <3>1, SubSeqProperties, SMTT(15)
    <3> HIDE DEF rest
    <3>3. Len(rest) = Len(q) - k
      <4>1. Len(rest) = IF k + 1 <= Len(q) THEN Len(q) - (k + 1) + 1 ELSE 0
        BY <3>2
      <4>2. Len(q) \in Nat /\ k \in Int /\ k <= Len(q) BY <1>1, <1>2
      <4>3. CASE k + 1 <= Len(q) BY <4>1, <4>2, <4>3
      <4>4. CASE ~(k + 1 <= Len(q))
        <5>1. k = Len(q) BY <4>2, <4>4
        <5> QED BY <4>1, <4>2, <4>4, <5>1
      <4> QED BY <4>3, <4>4
    <3>4. ASSUME NEW i \in 1 .. Len(q) - k PROVE rest[i] = q[k + i]
      <4>1. Len(q) - (k + 1) + 1 = Len(q) - k /\ (k + 1) + i - 1 = k + i
        BY <1>1, <1>2
      <4> QED BY <3>2, <4>1
    <3> QED BY <3>2, <3>3, <3>4
  <2>7. /\ Range(taken) = {taken[i] : i \in 1 .. Len(taken)}
        /\ Range(rest) = {rest[i] : i \in 1 .. Len(rest)}
    BY <2>5, <2>6, RangeEquality
  <2> HIDE DEF taken, rest
  <2>8. Range(taken) = {q[i] : i \in 1 .. k}
    BY <2>5, <2>7
  <2>9. Range(rest) = {q[i] : i \in k + 1 .. Len(q)}
    <3>1. ASSUME NEW x \in Range(rest) PROVE \E i \in k + 1 .. Len(q) : x = q[i]
      <4>1. PICK i \in 1 .. Len(rest) : x = rest[i] BY <2>7
      <4>2. x = q[k + i] /\ k + i \in k + 1 .. Len(q) BY <1>1, <1>2, <2>6, <4>1
      <4> QED BY <4>2
    <3>2. ASSUME NEW i \in k + 1 .. Len(q) PROVE q[i] \in Range(rest)
      <4>1. i - k \in 1 .. Len(rest) /\ rest[i - k] = q[k + (i - k)]
        BY <1>1, <1>2, <2>6
      <4>2. k + (i - k) = i BY <1>2
      <4> QED BY <2>7, <4>1, <4>2
    <3> QED BY <3>1, <3>2
  <2>10. Q.queued \ Range(taken) = Range(rest)
    <3>1. \A x \in Range(rest) : x \in Q.queued BY <1>1, <1>2, <2>4, <2>9
    <3>2. \A x \in Range(rest) : x \notin Range(taken)
      <4>1. \A i \in 1 .. k, j \in k + 1 .. Len(q) : q[i] # q[j]
        BY <1>1, <1>2, <2>3
      <4> QED BY <2>8, <2>9, <4>1
    <3>3. \A x \in Q.queued : x \in Range(taken) \/ x \in Range(rest)
      <4>1. \A i \in 1 .. Len(q) : i \in 1 .. k \/ i \in k + 1 .. Len(q)
        BY <1>1, <1>2
      <4> QED BY <2>4, <2>8, <2>9, <4>1
    <3> QED BY <3>1, <3>2, <3>3
  <2>11. IsInjective(rest)
    <3>1. ASSUME NEW a \in 1 .. Len(rest), NEW b \in 1 .. Len(rest), rest[a] = rest[b]
          PROVE  a = b
      <4>1. /\ k + a \in 1 .. Len(q) /\ k + b \in 1 .. Len(q)
            /\ q[k + a] = q[k + b]
        BY <1>1, <1>2, <2>6, <3>1
      <4>2. k + a = k + b BY <2>3, <4>1
      <4> QED BY <1>2, <4>2
    <3>2. DOMAIN rest = 1 .. Len(rest) BY <2>6
    <3> QED BY <3>1, <3>2 DEF IsInjective
  <2>12. Range(rest) \cap L = {}
    <3>1. Range(rest) \subseteq Q.queued /\ Range(rest) \cap Range(taken) = {}
      BY <2>10
    <3>2. Q.queued \cap Q.last_sent = {} BY DEF Consistent
    <3> QED BY <2>1, <3>1, <3>2
  <2>13. Cardinality(L) <= MaxQueuedRepairs
    <3>1. Range(taken) \in SUBSET C BY <2>5, RangeOfSeq
    <3>2. sent \in SUBSET C BY <1>1, <3>1
    <3>3. Cardinality(sent) \in Nat
      BY <3>2, FS_Subset, FS_CardinalityType
    <3> HIDE DEF sent
    <3> QED BY <2>1, <3>3, MaxQueuedRepairsAssumption DEF AtMost
  <2>14. Cardinality(Q.queued \ Range(taken)) <= MaxQueuedRepairs
    <3>1. IsFiniteSet(Q.queued) BY <1>1, FS_Subset
    <3>2. /\ Cardinality(Q.queued \ Range(taken)) <= Cardinality(Q.queued)
          /\ Cardinality(Q.queued \ Range(taken)) \in Nat
          /\ Cardinality(Q.queued) \in Nat
      BY <3>1, FS_Subset, FS_CardinalityType
    <3> QED BY <3>2, MaxQueuedRepairsAssumption DEF Consistent
  <2> QED BY <2>2, <2>10, <2>11, <2>12, <2>13, <2>14 DEF Consistent
<1> QED BY <1>3, <1>4

-----------------------------------------------------------------------------
(***************************************************************************)
(* 2. Types.                                                               *)
(***************************************************************************)

PartPresent == rphase \in {"create", "reused", "recv", "drain"} => part # None

Typed == TypeOK /\ PartPresent

-----------------------------------------------------------------------------
(* Facts about chunks, sequences and the receiver's helpers.               *)

LEMMA ChunksFinite ==
    /\ Chunks \in SUBSET Int
    /\ IsFiniteSet(Chunks)
    /\ \A S \in SUBSET Chunks : IsFiniteSet(S) /\ Cardinality(S) \in Nat
<1>1. Chunks \in SUBSET Int BY WireAssumption DEF Chunks
<1>2. IsFiniteSet(Chunks) BY WireAssumption, FS_Interval DEF Chunks
<1> QED BY <1>1, <1>2, FS_Subset, FS_CardinalityType

LEMMA HeadTail ==
    ASSUME NEW S, NEW s \in Seq(S), s # <<>>
    PROVE  Head(s) \in S /\ Tail(s) \in Seq(S)
BY HeadTailProperties

LEMMA RunEndsType ==
    ASSUME NEW chunks, NEW from \in 0 .. N, NEW end \in RunEnds(chunks, from)
    PROVE  /\ end \in 0 .. N /\ from <= end
           /\ \A c \in from .. end - 1 : c \in chunks
BY WireAssumption DEF RunEnds

(* What the hash was fed is a function on the chunks below the new         *)
(* frontier.                                                               *)
LEMMA FedType ==
    ASSUME NEW file \in Objects, NEW from \in 0 .. N, NEW end \in 0 .. N,
           NEW fed \in [0 .. from - 1 -> Bytes]
    PROVE  Fed(file, fed, from, end) \in [0 .. end - 1 -> Bytes]
<1>1. ASSUME NEW c \in 0 .. end - 1
      PROVE  (IF c < from THEN fed[c] ELSE file[c]) \in Bytes
  <2>1. c \in Chunks BY WireAssumption DEF Chunks
  <2>2. c < from => c \in 0 .. from - 1 BY WireAssumption
  <2> QED BY <2>1, <2>2 DEF Objects
<1> QED BY <1>1 DEF Fed

(* An advance of the hash keeps the frontier and the hash in step.         *)
LEMMA AdvanceType ==
    ASSUME NEW file \in Objects, NEW chunks, NEW from \in 0 .. N,
           NEW fed \in [0 .. from - 1 -> Bytes],
           advance_hash_frontier(file, chunks, fed, from)
    PROVE  hash_frontier' \in 0 .. N /\ hasher' \in [0 .. hash_frontier' - 1 -> Bytes]
<1>1. PICK end \in RunEnds(chunks, from) :
        hash_frontier' = end /\ hasher' = Fed(file, fed, from, end)
  BY DEF advance_hash_frontier
<1>2. end \in 0 .. N BY RunEndsType
<1> QED BY <1>1, <1>2, FedType

LEMMA EmptyHashType == EmptyHash \in [0 .. 0 - 1 -> Bytes]
<1>1. 0 .. 0 - 1 = {} OBVIOUS
<1> QED BY <1>1 DEF EmptyHash

LEMMA MissingType ==
    ASSUME NEW end \in 0 .. N
    PROVE  Missing(end) \in SUBSET Chunks
BY WireAssumption DEF Missing, Chunks

-----------------------------------------------------------------------------
(* The steps that several actions share.                                   *)

LEMMA ToReceiver ==
    ASSUME WireTypeOK, NEW line \in ClientLines, SendToReceiver(line)
    PROVE  c2s' \in Seq(ClientLines)
BY DEF WireTypeOK, SendToReceiver

LEMMA ToSender ==
    ASSUME WireTypeOK, NEW line \in ServerLines, SendToSender(line)
    PROVE  s2c' \in Seq(ServerLines)
BY DEF WireTypeOK, SendToSender

LEMMA LineType ==
    ASSUME NEW type \in {"READY", "M", "PONG", "COMPLETE", "CANCEL"},
           NEW chunks \in SUBSET Chunks
    PROVE  Line(type, chunks) \in ServerLines
BY DEF Line, ServerLines

LEMMA NewQueueType == NewRepairQueue \in RepairQueues(Chunks)
BY DEF NewRepairQueue, RepairQueues

LEMMA SenderExitsType ==
    ASSUME SenderTypeOK, WireTypeOK, NEW result \in SenderPhases, SenderExits(result)
    PROVE  SenderTypeOK' /\ conn' \subseteq {"S", "R"}
<1>1. sequence' \in 0 .. N BY WireAssumption DEF SenderExits, SenderMemoryReset
<1>2. rq' \in RepairQueues(Chunks)
  BY NewQueueType DEF SenderExits, SenderMemoryReset
<1>3. batch' \in Seq(Chunks) BY DEF SenderExits, SenderMemoryReset
<1>4. src' = src /\ offered' = offered BY DEF SenderExits
<1>5. conn' \subseteq {"S", "R"} BY DEF SenderExits, WireTypeOK
<1>6. /\ sphase' \in SenderPhases /\ durable' \subseteq Chunks
      /\ complete' \in BOOLEAN /\ feedback_error' \in BOOLEAN
      /\ fb' \in {"off", "run", "done"}
  BY DEF SenderExits, SenderMemoryReset
<1> QED BY <1>1, <1>2, <1>3, <1>4, <1>5, <1>6 DEF SenderTypeOK

LEMMA ResetType ==
    ASSUME ReceiverMemoryReset
    PROVE  /\ bitmap' \subseteq Chunks /\ received' \in Nat /\ frontier' \in 0 .. N
           /\ ended' \in BOOLEAN /\ dirty' \in BOOLEAN
           /\ hash_frontier' \in 0 .. N
           /\ hasher' \in [0 .. hash_frontier' - 1 -> Bytes]
           /\ ctl' \in {"off", "run", "done"} /\ events' \in Seq(Events)
<1>1. hash_frontier' = 0 /\ hasher' = EmptyHash BY DEF ReceiverMemoryReset
<1>2. hasher' \in [0 .. hash_frontier' - 1 -> Bytes] BY <1>1, EmptyHashType
<1>3. hash_frontier' \in 0 .. N /\ frontier' \in 0 .. N /\ received' \in Nat
  BY WireAssumption DEF ReceiverMemoryReset
<1>4. events' \in Seq(Events) BY DEF ReceiverMemoryReset
<1>5. /\ bitmap' \subseteq Chunks /\ ended' \in BOOLEAN /\ dirty' \in BOOLEAN
      /\ ctl' \in {"off", "run", "done"}
  BY DEF ReceiverMemoryReset
<1> QED BY <1>2, <1>3, <1>4, <1>5

LEMMA ReceiverExitsType ==
    ASSUME ReceiverTypeOK, WireTypeOK, NEW result \in ReceiverPhases,
           ReceiverExits(result),
           part' \in Objects \cup {None}, map' \in Maps \cup {None},
           dest' \in Objects \cup {None}
    PROVE  ReceiverTypeOK' /\ conn' \subseteq {"S", "R"}
<1>1. ReceiverMemoryReset /\ rphase' = result /\ hello' = hello /\ conn' = conn \ {"R"}
  BY DEF ReceiverExits
<1> QED BY <1>1, ResetType DEF ReceiverTypeOK, WireTypeOK

LEMMA TransmitType ==
    ASSUME WireTypeOK, SenderTypeOK, NEW c \in Chunks, NEW repair \in BOOLEAN,
           Transmit(Datagram(c, repair))
    PROVE  net' \subseteq Datagrams
<1>1. Datagram(c, repair) \in Datagrams
  BY DEF Datagram, Datagrams, WireTypeOK, SenderTypeOK, Objects
<1> QED BY <1>1 DEF Transmit, WireTypeOK

-----------------------------------------------------------------------------
(* The sender keeps the types.                                             *)

LEMMA SenderMainType ==
    ASSUME WireTypeOK, SenderTypeOK, SenderMain
    PROVE  WireTypeOK' /\ SenderTypeOK'
<1>1. s2c # <<>> => Head(s2c) \in ServerLines /\ Tail(s2c) \in Seq(ServerLines)
  BY HeadTail DEF WireTypeOK
<1>2. batch # <<>> => Head(batch) \in Chunks /\ Tail(batch) \in Seq(Chunks)
  BY HeadTail DEF SenderTypeOK
<1>3. CASE AcceptReady
  <2>1. Head(s2c).chunks \in SUBSET Chunks BY <1>1, <1>3 DEF AcceptReady, ServerLines
  <2> QED BY <1>1, <1>3, <2>1 DEF AcceptReady, WireTypeOK, SenderTypeOK, SenderPhases
<1>4. CASE AcceptComplete
  <2>1. c2s' \in Seq(ClientLines) BY <1>4, ToReceiver DEF AcceptComplete, ClientLines
  <2>2. SenderTypeOK' /\ conn' \subseteq {"S", "R"}
    BY <1>4, SenderExitsType DEF AcceptComplete, SenderPhases
  <2> QED BY <1>1, <1>4, <2>1, <2>2 DEF AcceptComplete, WireTypeOK
<1>5. CASE AcceptFails
  <2>1. SenderTypeOK' /\ conn' \subseteq {"S", "R"}
    BY <1>5, SenderExitsType DEF AcceptFails, SenderPhases
  <2> QED BY <1>5, <2>1 DEF AcceptFails, WireTypeOK
<1>6. CASE PassSkip
  <2>1. sequence' \in 0 .. N BY <1>6, WireAssumption DEF PassSkip, SenderTypeOK
  <2> QED BY <1>6, <2>1 DEF PassSkip, WireTypeOK, SenderTypeOK, wireVars
<1>7. CASE PassSend
  <2>1. sequence' \in 0 .. N /\ sequence \in Chunks
    BY <1>7, WireAssumption DEF PassSend, SenderTypeOK, Chunks
  <2>2. net' \subseteq Datagrams BY <1>7, <2>1, TransmitType DEF PassSend
  <2>3. batch' \in Seq(Chunks) /\ rq' \in RepairQueues(Chunks)
    <3>1. CASE UNCHANGED <<batch, rq>> BY <3>1 DEF SenderTypeOK
    <3>2. CASE \E taken \in take_repairs(rq, PassLimit) :
                  batch' = taken.batch /\ rq' = taken.rq
      BY <3>2, ChunksFinite, TakeType, SenderAssumption DEF SenderTypeOK
    <3> QED BY <1>7, <3>1, <3>2 DEF PassSend
  <2> QED BY <1>7, <2>1, <2>2, <2>3 DEF PassSend, WireTypeOK, SenderTypeOK
<1>8. CASE PassEnd
  <2>1. c2s' \in Seq(ClientLines) BY <1>8, ToReceiver DEF PassEnd, ClientLines
  <2> QED BY <1>8, <2>1 DEF PassEnd, WireTypeOK, SenderTypeOK, SenderPhases
<1>9. CASE RepairStep
  <2>1. batch' \in Seq(Chunks) /\ rq' \in RepairQueues(Chunks)
    BY <1>9, ChunksFinite, TakeType, SenderAssumption DEF RepairStep, SenderTypeOK
  <2> QED BY <1>9, <2>1 DEF RepairStep, WireTypeOK, SenderTypeOK, wireVars
<1>10. CASE SendRepair
  <2>1. net' \subseteq Datagrams BY <1>2, <1>10, TransmitType DEF SendRepair
  <2> QED BY <1>2, <1>10, <2>1 DEF SendRepair, WireTypeOK, SenderTypeOK
<1>11. CASE FailOnFeedback
  <2>1. c2s' \in Seq(ClientLines) BY <1>11, ToReceiver DEF FailOnFeedback, ClientLines
  <2>2. SenderTypeOK' /\ conn' \subseteq {"S", "R"}
    BY <1>11, SenderExitsType DEF FailOnFeedback, SenderPhases
  <2> QED BY <1>11, <2>1, <2>2 DEF FailOnFeedback, WireTypeOK
<1>12. CASE SenderFinish
  <2>1. c2s' \in Seq(ClientLines) BY <1>12, ToReceiver DEF SenderFinish, ClientLines
  <2>2. SenderTypeOK' /\ conn' \subseteq {"S", "R"}
    BY <1>12, SenderExitsType DEF SenderFinish, SenderPhases
  <2> QED BY <1>12, <2>1, <2>2 DEF SenderFinish, WireTypeOK
<1> QED BY <1>3, <1>4, <1>5, <1>6, <1>7, <1>8, <1>9, <1>10, <1>11, <1>12
        DEF SenderMain

LEMMA SenderOtherType ==
    ASSUME WireTypeOK, SenderTypeOK, Heartbeat \/ SenderWriteFails
    PROVE  WireTypeOK' /\ SenderTypeOK'
<1>1. CASE Heartbeat
  <2>1. c2s' \in Seq(ClientLines) BY <1>1, ToReceiver DEF Heartbeat, ClientLines
  <2> QED BY <1>1, <2>1 DEF Heartbeat, WireTypeOK, SenderTypeOK, senderVars
<1>2. CASE SenderWriteFails
  <2>1. SenderTypeOK' /\ conn' \subseteq {"S", "R"}
    BY <1>2, SenderExitsType DEF SenderWriteFails, SenderPhases
  <2> QED BY <1>2, <2>1 DEF SenderWriteFails, WireTypeOK
<1> QED BY <1>1, <1>2

LEMMA FeedbackType ==
    ASSUME WireTypeOK, SenderTypeOK, Feedback
    PROVE  WireTypeOK' /\ SenderTypeOK'
<1>1. s2c # <<>> => Head(s2c) \in ServerLines /\ Tail(s2c) \in Seq(ServerLines)
  BY HeadTail DEF WireTypeOK
<1>2. ASSUME NEW expired \in SUBSET rq.last_sent, FbReport(expired)
      PROVE  WireTypeOK' /\ SenderTypeOK'
  <2>1. Head(s2c).chunks \in SUBSET Chunks
    BY <1>1, <1>2 DEF FbReport, FbReads, ServerLines
  <2>2. Retain(rq, expired) \in RepairQueues(Chunks)
    BY ChunksFinite, RetainConsistent DEF SenderTypeOK
  <2>3. rq' \in RepairQueues(Chunks)
    BY <1>2, <2>1, <2>2, ChunksFinite, EnqueueType DEF FbReport
  <2>4. s2c' \in Seq(ServerLines) BY <1>1, <1>2 DEF FbReport, FbReads
  <2> QED BY <1>2, <2>3, <2>4 DEF FbReport, WireTypeOK, SenderTypeOK
<1>3. CASE FbPong
  BY <1>1, <1>3 DEF FbPong, FbReads, WireTypeOK, SenderTypeOK, senderVars
<1>4. CASE FbComplete
  BY <1>1, <1>4 DEF FbComplete, FbReads, WireTypeOK, SenderTypeOK
<1>5. CASE FbCancel
  BY <1>1, <1>5 DEF FbCancel, FbReads, WireTypeOK, SenderTypeOK
<1>6. CASE FbStopped
  BY <1>6 DEF FbStopped, WireTypeOK, SenderTypeOK, wireVars
<1> QED BY <1>2, <1>3, <1>4, <1>5, <1>6 DEF Feedback

LEMMA SenderFaultType ==
    ASSUME WireTypeOK, SenderTypeOK, SenderFault
    PROVE  WireTypeOK' /\ SenderTypeOK'
<1>1. CASE FbTimeout
  BY <1>1 DEF FbTimeout, WireTypeOK, SenderTypeOK, wireVars
<1>2. CASE SenderIoError
  <2>1. c2s' \in Seq(ClientLines)
    <3>1. CASE UNCHANGED c2s BY <3>1 DEF WireTypeOK
    <3>2. CASE SendToReceiver("CANCEL") BY <3>2, ToReceiver DEF ClientLines
    <3> QED BY <1>2, <3>1, <3>2 DEF SenderIoError
  <2>2. SenderTypeOK' /\ conn' \subseteq {"S", "R"}
    BY <1>2, SenderExitsType DEF SenderIoError, SenderPhases
  <2> QED BY <1>2, <2>1, <2>2 DEF SenderIoError, WireTypeOK
<1>3. CASE SenderCrash
  <2>1. SenderTypeOK' /\ conn' \subseteq {"S", "R"}
    BY <1>3, SenderExitsType DEF SenderCrash, SenderPhases
  <2> QED BY <1>3, <2>1 DEF SenderCrash, WireTypeOK
<1>4. CASE SourceEdited
  <2>1. src' \in Objects BY <1>4 DEF SourceEdited, SenderTypeOK, Objects
  <2> QED BY <1>4, <2>1 DEF SourceEdited, WireTypeOK, SenderTypeOK, wireVars
<1> QED BY <1>1, <1>2, <1>3, <1>4 DEF SenderFault

-----------------------------------------------------------------------------
(* The receiver keeps the types and, while it needs one, a .part file.     *)

(* What the candidate copies, over a resumed or over a fresh .part file.   *)
LEMMA ReuseContentType ==
    ASSUME WireTypeOK, ReceiverTypeOK, part \in Objects,
           NEW held \in SUBSET Chunks, ReuseContent(held), map' \in Maps \cup {None}
    PROVE  WireTypeOK' /\ ReceiverTypeOK' /\ PartPresent'
<1>1. PICK copied \in SUBSET Reusable :
        /\ part' = [c \in Chunks |-> IF c \in copied THEN hello[c] ELSE part[c]]
        /\ bitmap' = held \cup copied
        /\ received' = Cardinality(held \cup copied)
  BY DEF ReuseContent
<1>2. bitmap' \in SUBSET Chunks BY <1>1, ReceiverAssumption
<1>3. part' \in Objects BY <1>1 DEF Objects, ReceiverTypeOK
<1>4. part' # None BY <1>3, WireAssumption
<1>5. received' \in Nat BY <1>1, <1>2, ChunksFinite
<1>6. /\ rphase' = "reused"
      /\ UNCHANGED <<wireVars, hello, frontier, ended, dirty, hash_frontier,
                     hasher, ctl, events, dest>>
  BY DEF ReuseContent
<1>7. WireTypeOK' BY <1>6 DEF WireTypeOK, wireVars
<1>8. ReceiverTypeOK'
  BY <1>2, <1>3, <1>5, <1>6 DEF ReceiverTypeOK, ReceiverPhases
<1> QED BY <1>4, <1>7, <1>8 DEF PartPresent

LEMMA SaveReusedType ==
    ASSUME ReceiverTypeOK, SaveReused
    PROVE  map' \in Maps \cup {None}
<1>1. CASE map' = map BY <1>1 DEF ReceiverTypeOK
<1>2. CASE map' = [id |-> hello, chunks |-> bitmap]
  BY <1>2 DEF ReceiverTypeOK, Maps
<1> QED BY <1>1, <1>2 DEF SaveReused, Checkpoint

(* The entry into the loop.                                                *)
LEMMA BeginLoopType ==
    ASSUME WireTypeOK, ReceiverTypeOK, PartPresent, BeginLoop
    PROVE  WireTypeOK' /\ ReceiverTypeOK' /\ PartPresent'
<1>1. /\ bitmap \in SUBSET Chunks
      /\ part \in Objects /\ part # None
  BY DEF BeginLoop, PartPresent, ReceiverTypeOK
<1>2. map' \in Maps \cup {None} BY SaveReusedType DEF BeginLoop
<1>3. frontier' \in 0 .. N BY DEF BeginLoop, FrontierOf
<1>4. hash_frontier' \in 0 .. N /\ hasher' \in [0 .. hash_frontier' - 1 -> Bytes]
  <2>1. advance_hash_frontier(part, bitmap, EmptyHash, 0) BY DEF BeginLoop
  <2>2. 0 \in 0 .. N BY WireAssumption
  <2> QED BY <1>1, <2>1, <2>2, AdvanceType, EmptyHashType
<1>5. s2c' \in Seq(ServerLines) BY <1>1, ToSender, LineType DEF BeginLoop
<1>6. /\ ctl' = "run" /\ rphase' = "recv"
      /\ UNCHANGED <<sess, conn, c2s, net, hello, bitmap, received, ended, dirty,
                     events, part, dest>>
  BY DEF BeginLoop
<1>7. WireTypeOK' BY <1>5, <1>6 DEF WireTypeOK
<1>8. ReceiverTypeOK'
  BY <1>2, <1>3, <1>4, <1>6 DEF ReceiverTypeOK, ReceiverPhases
<1> QED BY <1>1, <1>6, <1>7, <1>8 DEF PartPresent

(* A receiver that exits with its disk as it was, or with a new map.       *)
LEMMA ReceiverStopsType ==
    ASSUME WireTypeOK, ReceiverTypeOK, NEW result \in {"ok", "error"},
           ReceiverExits(result),
           c2s' \in Seq(ClientLines), s2c' \in Seq(ServerLines), UNCHANGED <<sess, net>>,
           part' \in Objects \cup {None}, map' \in Maps \cup {None},
           dest' \in Objects \cup {None}
    PROVE  WireTypeOK' /\ ReceiverTypeOK' /\ PartPresent'
<1>1. result \in ReceiverPhases BY DEF ReceiverPhases
<1>2. ReceiverTypeOK' /\ conn' \subseteq {"S", "R"} BY <1>1, ReceiverExitsType
<1>3. rphase' = result BY DEF ReceiverExits
<1> QED BY <1>2, <1>3 DEF WireTypeOK, PartPresent

LEMMA CheckpointType ==
    ASSUME ReceiverTypeOK, CheckpointIfDirty
    PROVE  map' \in Maps \cup {None}
BY DEF ReceiverTypeOK, CheckpointIfDirty, Checkpoint, Maps

LEMMA ReceiverMainType ==
    ASSUME WireTypeOK, ReceiverTypeOK, PartPresent, ReceiverMain
    PROVE  WireTypeOK' /\ ReceiverTypeOK' /\ PartPresent'
<1>1. c2s # <<>> => Head(c2s) \in ClientLines /\ Tail(c2s) \in Seq(ClientLines)
  BY HeadTail DEF WireTypeOK
<1>2. events # <<>> => Head(events) \in Events /\ Tail(events) \in Seq(Events)
  BY HeadTail DEF ReceiverTypeOK
<1>3. /\ c2s \in Seq(ClientLines) /\ s2c \in Seq(ServerLines)
      /\ part \in Objects \cup {None} /\ map \in Maps \cup {None}
      /\ dest \in Objects \cup {None}
  BY DEF WireTypeOK, ReceiverTypeOK
<1>4. CASE OpenComplete
  <2>1. s2c' \in Seq(ServerLines) BY <1>4, ToSender, LineType DEF OpenComplete
  <2> QED BY <1>4, <2>1 DEF OpenComplete, WireTypeOK, ReceiverTypeOK, PartPresent,
               memoryVars, diskVars, ReceiverPhases
<1>5. CASE OpenResume
  <2>1. part \in Objects /\ Loaded \in SUBSET Chunks
    BY <1>3, <1>5 DEF OpenResume, MapTrusted, Loaded, Maps
  <2>2. map' \in Maps \cup {None} BY <1>3, <1>5 DEF OpenResume
  <2> QED BY <1>5, <2>1, <2>2, ReuseContentType DEF OpenResume
<1>6. CASE OpenFresh
  <2>1. part' \in Objects /\ part' # None
    BY <1>6, WireAssumption DEF OpenFresh, Blank, Objects
  <2> QED BY <1>6, <2>1 DEF OpenFresh, WireTypeOK, ReceiverTypeOK, PartPresent,
               wireVars, memoryVars, ReceiverPhases
<1>7. CASE CreateMap
  <2>1. part \in Objects BY <1>3, <1>7 DEF CreateMap, PartPresent
  <2>2. map' \in Maps BY <1>7 DEF CreateMap, Checkpoint, Maps, ReceiverTypeOK
  <2> QED BY <1>7, <2>1, <2>2, ReuseContentType DEF CreateMap
<1>8. CASE RetryAcked
  <2>1. c2s' \in Seq(ClientLines) BY <1>1, <1>8 DEF RetryAcked
  <2> QED BY <1>3, <1>8, <2>1, ReceiverStopsType DEF RetryAcked, diskVars
<1>9. CASE RetryStopped
  BY <1>3, <1>9, ReceiverStopsType DEF RetryStopped, diskVars
<1>10. CASE RecvTimeout
  BY <1>10 DEF RecvTimeout, WireTypeOK, ReceiverTypeOK, PartPresent,
               wireVars, memoryVars, diskVars, ReceiverPhases
<1>11. CASE DrainEnd
  BY <1>2, <1>11 DEF DrainEnd, TakeEvent, WireTypeOK, ReceiverTypeOK, PartPresent,
               wireVars, diskVars
<1>12. CASE AnswerPing
  <2>1. s2c' \in Seq(ServerLines) BY <1>12, ToSender, LineType DEF AnswerPing
  <2> QED BY <1>2, <1>12, <2>1 DEF AnswerPing, TakeEvent, WireTypeOK, ReceiverTypeOK,
               PartPresent, diskVars
<1>13. CASE DrainStop
  <2>1. map' \in Maps \cup {None} BY <1>3, <1>13, CheckpointType DEF DrainStop
  <2> QED BY <1>3, <1>13, <2>1, ReceiverStopsType DEF DrainStop
<1>14. CASE Finalize
  <2>1. PICK end \in RunEnds(bitmap, hash_frontier) :
          LET object == Fed(part, hasher, hash_frontier, end)
          IN  IF HashMatches(object)
              THEN /\ hash_frontier' = end
                   /\ hasher' = object
                   /\ dest' = part
                   /\ part' = None
                   /\ map' = None
                   /\ rphase' = "announce"
                   /\ UNCHANGED <<conn, s2c, hello, bitmap, received, frontier,
                                  ended, dirty, ctl, events>>
              ELSE /\ \/ /\ end = N
                         /\ SendToSender(Line("CANCEL", {}))
                         /\ part' = None
                         /\ map' = None
                      \/ /\ end # N \/ "S" \notin conn
                         /\ UNCHANGED <<s2c, part, map>>
                   /\ ReceiverExits("error")
                   /\ UNCHANGED dest
    BY <1>14 DEF Finalize
  <2>2. UNCHANGED <<sess, c2s, net>> BY <1>14 DEF Finalize
  <2>3. part \in Objects BY <1>3, <1>14 DEF Finalize, Drained, PartPresent
  <2> DEFINE object == Fed(part, hasher, hash_frontier, end)
  <2>4. end \in 0 .. N BY RunEndsType DEF ReceiverTypeOK
  <2>5. object \in [0 .. end - 1 -> Bytes] BY <2>3, <2>4, FedType DEF ReceiverTypeOK
  <2>6. CASE HashMatches(object)
    <3>1. /\ hash_frontier' = end /\ hasher' = object /\ dest' = part
          /\ part' = None /\ map' = None /\ rphase' = "announce"
          /\ UNCHANGED <<conn, s2c, hello, bitmap, received, frontier,
                         ended, dirty, ctl, events>>
      BY <2>1, <2>6
    <3> HIDE DEF object
    <3>2. hasher' \in [0 .. hash_frontier' - 1 -> Bytes] BY <2>5, <3>1
    <3>3. ReceiverTypeOK' BY <2>3, <2>4, <3>1, <3>2 DEF ReceiverTypeOK, ReceiverPhases
    <3> QED BY <2>2, <3>1, <3>3 DEF WireTypeOK, PartPresent
  <2>7. CASE ~HashMatches(object)
    <3>1. /\ ReceiverExits("error") /\ dest' = dest
          /\ SendToSender(Line("CANCEL", {})) \/ s2c' = s2c
          /\ part' \in {part, None} /\ map' \in {map, None}
      BY <2>1, <2>7
    <3>2. s2c' \in Seq(ServerLines) BY <1>3, <3>1, ToSender, LineType
    <3> HIDE DEF object
    <3> QED BY <1>3, <2>2, <3>1, <3>2, ReceiverStopsType
  <2> QED BY <2>6, <2>7
<1>15. CASE Announce
  <2>1. s2c' \in Seq(ServerLines) BY <1>15, ToSender, LineType DEF Announce
  <2> QED BY <1>15, <2>1 DEF Announce, WireTypeOK, ReceiverTypeOK, PartPresent,
               memoryVars, diskVars, ReceiverPhases
<1>16. CASE AckWaitEnd
  BY <1>2, <1>16 DEF AckWaitEnd, TakeEvent, WireTypeOK, ReceiverTypeOK, PartPresent,
               wireVars, diskVars
<1>17. CASE AckWaitStop
  BY <1>3, <1>17, ReceiverStopsType DEF AckWaitStop, diskVars
<1>18. CASE BeginLoop BY <1>18, BeginLoopType
<1> QED BY <1>4, <1>5, <1>6, <1>7, <1>8, <1>9, <1>10, <1>11, <1>12, <1>13, <1>14,
           <1>15, <1>16, <1>17, <1>18
        DEF ReceiverMain

(* A datagram taken from the network.                                      *)
LEMMA RecvType ==
    ASSUME WireTypeOK, ReceiverTypeOK, PartPresent, NEW d \in net,
           RecvPacket(d) \/ RecvInvalid(d)
    PROVE  WireTypeOK' /\ ReceiverTypeOK' /\ PartPresent'
<1>1. d.seq \in Chunks /\ d.data \in Bytes BY DEF WireTypeOK, Datagrams
<1>2. net' \subseteq net
  BY DEF RecvPacket, RecvInvalid, Remaining
<1>3. part \in Objects /\ part # None
  BY DEF ReceiverTypeOK, PartPresent, RecvPacket, RecvInvalid
<1>4. CASE RecvPacket(d)
  <2>1. frontier' \in 0 .. N
    BY <1>1, <1>4, WireAssumption DEF RecvPacket, ReceiverTypeOK, Chunks
  <2>2. CASE FirstCopy(d.seq)
    <3>1. /\ part' = [part EXCEPT ![d.seq] = d.data]
          /\ bitmap' = bitmap \cup {d.seq} /\ received' = received + 1 /\ dirty' = TRUE
          /\ \/ advance_hash_frontier(part', bitmap', hasher, hash_frontier)
             \/ UNCHANGED <<hash_frontier, hasher>>
      BY <1>4, <2>2 DEF RecvPacket
    <3>2. part' \in Objects BY <1>1, <1>3, <3>1 DEF Objects
    <3>3. part' # None BY <3>2, WireAssumption
    <3>4. hash_frontier' \in 0 .. N /\ hasher' \in [0 .. hash_frontier' - 1 -> Bytes]
      <4>1. CASE advance_hash_frontier(part', bitmap', hasher, hash_frontier)
        BY <3>2, <4>1, AdvanceType DEF ReceiverTypeOK
      <4>2. CASE UNCHANGED <<hash_frontier, hasher>> BY <4>2 DEF ReceiverTypeOK
      <4> QED BY <3>1, <4>1, <4>2
    <3>5. /\ rphase' = "drain"
          /\ UNCHANGED <<sess, conn, c2s, s2c, hello, ended, ctl, events, map, dest>>
      BY <1>4 DEF RecvPacket
    <3>6. bitmap' \subseteq Chunks /\ received' \in Nat
      BY <1>1, <3>1 DEF ReceiverTypeOK
    <3>7. dirty' \in BOOLEAN BY <3>1
    <3>8. ReceiverTypeOK'
      BY <2>1, <3>2, <3>4, <3>5, <3>6, <3>7 DEF ReceiverTypeOK, ReceiverPhases
    <3> QED BY <1>2, <3>3, <3>5, <3>8 DEF WireTypeOK, PartPresent
  <2>3. CASE ~FirstCopy(d.seq)
    <3>1. /\ UNCHANGED <<bitmap, received, dirty, hash_frontier, hasher, part>>
          /\ rphase' = "drain"
          /\ UNCHANGED <<sess, conn, c2s, s2c, hello, ended, ctl, events, map, dest>>
      BY <1>4, <2>3 DEF RecvPacket
    <3> QED BY <1>2, <1>3, <2>1, <3>1 DEF ReceiverTypeOK, ReceiverPhases, WireTypeOK, PartPresent
  <2> QED BY <2>2, <2>3
<1>5. CASE RecvInvalid(d)
  BY <1>2, <1>3, <1>5 DEF RecvInvalid, memoryVars, diskVars, ReceiverTypeOK,
               ReceiverPhases, WireTypeOK, PartPresent
<1> QED BY <1>4, <1>5

LEMMA ReportType ==
    ASSUME WireTypeOK, ReceiverTypeOK, PartPresent, NEW due \in BOOLEAN,
           NoReport(due) \/ \E end \in 0 .. N : Report(due, end)
    PROVE  WireTypeOK' /\ ReceiverTypeOK' /\ PartPresent'
<1>1. ASSUME CheckpointDue(due)
      PROVE  map' \in Maps \cup {None} /\ dirty' \in BOOLEAN
  <2>1. CASE due /\ dirty
    <3>1. map' = [id |-> hello, chunks |-> bitmap] /\ dirty' = FALSE
      BY <1>1, <2>1 DEF CheckpointDue, Checkpoint
    <3> QED BY <3>1 DEF Maps, ReceiverTypeOK
  <2>2. CASE ~(due /\ dirty)
    <3>1. map' = map /\ dirty' = dirty BY <1>1, <2>2 DEF CheckpointDue
    <3> QED BY <3>1 DEF ReceiverTypeOK
  <2> QED BY <2>1, <2>2
<1>2. CASE NoReport(due)
  <2>1. map' \in Maps \cup {None} /\ dirty' \in BOOLEAN BY <1>1, <1>2 DEF NoReport
  <2> QED BY <1>2, <2>1 DEF NoReport, Drained, wireVars, ReceiverTypeOK,
               ReceiverPhases, WireTypeOK, PartPresent
<1>3. ASSUME NEW end \in 0 .. N, Report(due, end)
      PROVE  WireTypeOK' /\ ReceiverTypeOK' /\ PartPresent'
  <2>1. map' \in Maps \cup {None} /\ dirty' \in BOOLEAN BY <1>1, <1>3 DEF Report
  <2>2. s2c' \in Seq(ServerLines)
    BY <1>3, MissingType, LineType, ToSender DEF Report
  <2> QED BY <1>3, <2>1, <2>2 DEF Report, Drained, ReceiverTypeOK,
               ReceiverPhases, WireTypeOK, PartPresent
<1> QED BY <1>2, <1>3

LEMMA ReceiverOtherType ==
    ASSUME WireTypeOK, ReceiverTypeOK, PartPresent,
           ReceiverWriteFails \/ Control \/ ReceiverFault
    PROVE  WireTypeOK' /\ ReceiverTypeOK' /\ PartPresent'
<1>1. /\ c2s \in Seq(ClientLines) /\ s2c \in Seq(ServerLines)
      /\ part \in Objects \cup {None} /\ map \in Maps \cup {None}
      /\ dest \in Objects \cup {None} /\ events \in Seq(Events)
  BY DEF WireTypeOK, ReceiverTypeOK
<1>2. CASE ReceiverWriteFails
  <2>1. map' \in Maps \cup {None}
    BY <1>1, <1>2, SaveReusedType DEF ReceiverWriteFails
  <2> QED BY <1>1, <1>2, <2>1, ReceiverStopsType DEF ReceiverWriteFails
<1>3. CASE CtlLine
  <2>1. Head(c2s) \in ClientLines /\ Tail(c2s) \in Seq(ClientLines)
    BY <1>1, <1>3, HeadTail DEF CtlLine
  <2>2. events' \in Seq(Events) BY <1>1, <1>3, <2>1 DEF CtlLine, Events
  <2> QED BY <1>3, <2>1, <2>2 DEF CtlLine, diskVars, ReceiverTypeOK, WireTypeOK, PartPresent
<1>4. CASE CtlStopped \/ CtlTimeout
  <2>1. events' = Append(events, "ERROR") BY <1>4 DEF CtlStopped, CtlTimeout
  <2>2. events' \in Seq(Events) BY <1>1, <2>1 DEF Events
  <2> QED BY <1>4, <2>2 DEF CtlStopped, CtlTimeout, wireVars, diskVars,
               ReceiverTypeOK, WireTypeOK, PartPresent
<1>5. CASE AckTimeout
  BY <1>1, <1>5, ReceiverStopsType DEF AckTimeout, diskVars
<1>6. CASE RecvError
  BY <1>1, <1>6, CheckpointType, ReceiverStopsType DEF RecvError
<1>7. CASE ReceiverCrash
  BY <1>1, <1>7, ReceiverStopsType DEF ReceiverCrash, diskVars
<1>8. CASE PowerLoss
  <2>1. part' \in Objects
    BY <1>1, <1>8, WireAssumption DEF PowerLoss, Objects
  <2> QED BY <1>1, <1>8, <2>1, ReceiverStopsType DEF PowerLoss
<1> QED BY <1>2, <1>3, <1>4, <1>5, <1>6, <1>7, <1>8 DEF Control, ReceiverFault

-----------------------------------------------------------------------------
(* Types of the whole system.                                              *)

LEMMA InitTyped == Init => Typed
<1> SUFFICES ASSUME Init PROVE Typed OBVIOUS
<1> USE DEF Init
<1>1. offered \in Objects /\ hello \in Objects /\ dest \in Objects \cup {None}
  BY TransferAssumption
<1>2. WireTypeOK BY DEF WireTypeOK
<1>3. SenderTypeOK
  <2>1. sequence \in 0 .. N /\ rq \in RepairQueues(Chunks) /\ batch \in Seq(Chunks)
    BY WireAssumption, NewQueueType DEF SenderInit
  <2>2. /\ sphase \in SenderPhases /\ durable \subseteq Chunks
        /\ complete \in BOOLEAN /\ feedback_error \in BOOLEAN
        /\ fb \in {"off", "run", "done"} /\ src = offered
    BY DEF SenderInit, SenderPhases
  <2> QED BY <1>1, <2>1, <2>2 DEF SenderTypeOK
<1>4. hash_frontier \in 0 .. N /\ hasher \in [0 .. hash_frontier - 1 -> Bytes]
  BY WireAssumption, EmptyHashType DEF ReceiverInit
<1>5. ReceiverTypeOK
  <2>1. received \in Nat /\ frontier \in 0 .. N /\ events \in Seq(Events)
    BY WireAssumption DEF ReceiverInit
  <2>2. /\ rphase \in ReceiverPhases /\ bitmap \subseteq Chunks
        /\ ended \in BOOLEAN /\ dirty \in BOOLEAN /\ ctl \in {"off", "run", "done"}
        /\ part = None /\ map = None
    BY DEF ReceiverInit, ReceiverPhases
  <2> QED BY <1>1, <1>4, <2>1, <2>2 DEF ReceiverTypeOK
<1> QED BY <1>2, <1>3, <1>5 DEF Typed, TypeOK, PartPresent, ReceiverInit

LEMMA StartTyped == Typed /\ StartSession => Typed'
<1> SUFFICES ASSUME Typed, StartSession PROVE Typed' OBVIOUS
<1>1. PICK object \in Sources : SenderConnects(object) /\ ReceiverAccepts(object)
  BY DEF StartSession
<1>2. object \in Objects BY TransferAssumption
<1>3. SenderTypeOK'
  <2>1. /\ sequence' \in 0 .. N /\ rq' \in RepairQueues(Chunks)
        /\ batch' \in Seq(Chunks)
    BY <1>1, WireAssumption, NewQueueType DEF SenderConnects, SenderMemoryReset
  <2>2. /\ sphase' \in SenderPhases /\ durable' \subseteq Chunks
        /\ complete' \in BOOLEAN /\ feedback_error' \in BOOLEAN
        /\ fb' \in {"off", "run", "done"} /\ src' = object /\ offered' = object
    BY <1>1 DEF SenderConnects, SenderMemoryReset, SenderPhases
  <2> QED BY <1>2, <2>1, <2>2 DEF SenderTypeOK
<1>4. ReceiverMemoryReset /\ rphase' = "open" /\ hello' = object /\ UNCHANGED diskVars
  BY <1>1 DEF ReceiverAccepts
<1>5. ReceiverTypeOK'
  BY <1>2, <1>4, ResetType DEF Typed, TypeOK, ReceiverTypeOK, ReceiverPhases, diskVars
<1>6. WireTypeOK' BY DEF StartSession, Typed, TypeOK, WireTypeOK
<1> QED BY <1>3, <1>4, <1>5, <1>6 DEF Typed, TypeOK, PartPresent, StartSession, history

LEMMA NextTyped == Typed /\ [Next]_vars => Typed'
<1> SUFFICES ASSUME Typed, [Next]_vars PROVE Typed' OBVIOUS
<1> USE DEF Typed, TypeOK
<1>1. CASE StartSession BY <1>1, StartTyped
<1>2. ASSUME UNCHANGED <<receiverVars, history>>, WireTypeOK' /\ SenderTypeOK' PROVE Typed'
  BY <1>2 DEF receiverVars, history, ReceiverTypeOK, PartPresent
<1>3. ASSUME UNCHANGED <<senderVars, history>>,
             WireTypeOK' /\ ReceiverTypeOK' /\ PartPresent'
      PROVE  Typed'
  BY <1>3 DEF senderVars, history, SenderTypeOK
<1>4. CASE BySender(SenderMain) BY <1>2, <1>4, SenderMainType DEF BySender
<1>5. CASE BySender(Heartbeat) BY <1>2, <1>5, SenderOtherType DEF BySender
<1>6. CASE BySender(SenderWriteFails) BY <1>2, <1>6, SenderOtherType DEF BySender
<1>7. CASE BySender(Feedback) BY <1>2, <1>7, FeedbackType DEF BySender
<1>8. CASE ByReceiver(ReceiverMain) BY <1>3, <1>8, ReceiverMainType DEF ByReceiver
<1>9. CASE ByReceiver(ReceiverWriteFails) BY <1>3, <1>9, ReceiverOtherType DEF ByReceiver
<1>10. CASE ByReceiver(Control) BY <1>3, <1>10, ReceiverOtherType DEF ByReceiver
<1>11. CASE \E c \in Chunks : Receive(c) BY <1>3, <1>11, RecvType DEF ByReceiver, Receive
<1>12. CASE \E d \in net : ByReceiver(RecvInvalid(d)) BY <1>3, <1>12, RecvType DEF ByReceiver
<1>13. CASE PeriodicReport BY <1>3, <1>13, ReportType DEF ByReceiver, PeriodicReport
<1>14. CASE ByNetwork(Reset)
  BY <1>14 DEF ByNetwork, Reset, senderVars, receiverVars, history, WireTypeOK,
               SenderTypeOK, ReceiverTypeOK, PartPresent
<1>15. CASE Fault
  <2>1. faults' \in Nat /\ edited' \in BOOLEAN /\ torn' \in BOOLEAN
    <3>1. faults' \in Nat BY <1>15 DEF Fault
    <3>2. edited' \in BOOLEAN BY <1>15 DEF Fault
    <3>3. torn' \in BOOLEAN BY <1>15 DEF Fault
    <3> QED BY <3>1, <3>2, <3>3
  <2>2. CASE SenderFault /\ UNCHANGED receiverVars
    BY <2>1, <2>2, SenderFaultType DEF receiverVars, ReceiverTypeOK, PartPresent
  <2>3. CASE ReceiverFault /\ UNCHANGED senderVars
    BY <2>1, <2>3, ReceiverOtherType DEF senderVars, SenderTypeOK
  <2>4. CASE Disconnect /\ UNCHANGED <<senderVars, receiverVars>>
    BY <2>1, <2>4 DEF Disconnect, senderVars, receiverVars, WireTypeOK,
               SenderTypeOK, ReceiverTypeOK, PartPresent
  <2> QED BY <1>15, <2>2, <2>3, <2>4 DEF Fault
<1>16. CASE UNCHANGED vars
  BY <1>16 DEF vars, wireVars, senderVars, receiverVars, history, WireTypeOK,
               SenderTypeOK, ReceiverTypeOK, PartPresent
<1> QED BY <1>1, <1>4, <1>5, <1>6, <1>7, <1>8, <1>9, <1>10, <1>11, <1>12, <1>13,
           <1>14, <1>15, <1>16
        DEF Next

(* Every variable keeps its type in every reachable state: the feedback    *)
(* that read_feedback queues and take_repairs returns names chunks of the  *)
(* object, and the incremental hash has been fed exactly hash_frontier     *)
(* chunks.                                                                 *)
THEOREM TypeCorrect == Spec => []TypeOK
<1>1. Init => Typed BY InitTyped
<1>2. Typed /\ [Next]_vars => Typed' BY NextTyped
<1>3. Typed => TypeOK BY DEF Typed
<1> QED BY <1>1, <1>2, <1>3, PTL DEF Spec

-----------------------------------------------------------------------------
(***************************************************************************)
(* 3. The contract.                                                        *)
(***************************************************************************)

(* The repair queue.                                                       *)

LEMMA NewConsistent == Consistent(NewRepairQueue)
<1>1. Range(<<>>) = {} /\ IsInjective(<<>>)
  BY DEF Range, IsInjective
<1>2. Cardinality({}) = 0 BY FS_EmptySet
<1> QED BY <1>1, <1>2, MaxQueuedRepairsAssumption DEF Consistent, NewRepairQueue

LEMMA InitQueue == Init => RepairQueueConsistent
BY NewConsistent DEF Init, SenderInit, RepairQueueConsistent

LEMMA NextQueue ==
    ASSUME Typed, RepairQueueConsistent, [Next]_vars
    PROVE  RepairQueueConsistent'
<1>1. rq \in RepairQueues(Chunks) BY DEF Typed, TypeOK, SenderTypeOK
<1>2. ASSUME NEW limit \in Nat, NEW taken \in take_repairs(rq, limit), rq' = taken.rq
      PROVE  Consistent(rq')
  BY <1>1, <1>2, ChunksFinite, TakeConsistent DEF RepairQueueConsistent
<1>3. CASE rq' = rq BY <1>3 DEF RepairQueueConsistent
<1>4. CASE rq' = NewRepairQueue BY <1>4, NewConsistent DEF RepairQueueConsistent
<1>5. CASE PassSend
  <2>1. CASE rq' = rq BY <1>3, <2>1
  <2>2. CASE \E taken \in take_repairs(rq, PassLimit) : rq' = taken.rq
    BY <1>2, <2>2, SenderAssumption DEF RepairQueueConsistent
  <2> QED BY <1>5, <2>1, <2>2 DEF PassSend
<1>6. CASE RepairStep
  BY <1>2, <1>6, SenderAssumption DEF RepairStep, RepairQueueConsistent
<1>7. CASE \E expired \in SUBSET rq.last_sent : FbReport(expired)
  <2>1. PICK expired \in SUBSET rq.last_sent : FbReport(expired) BY <1>7
  <2>2. Head(s2c).chunks \in SUBSET Chunks
    <3>1. Head(s2c) \in ServerLines
      BY <2>1, HeadTail DEF FbReport, FbReads, Typed, TypeOK, WireTypeOK
    <3> QED BY <3>1 DEF ServerLines
  <2>3. /\ Retain(rq, expired) \in RepairQueues(Chunks)
        /\ Consistent(Retain(rq, expired))
    BY <1>1, ChunksFinite, RetainConsistent DEF RepairQueueConsistent
  <2>4. rq' \in enqueue_repairs(Retain(rq, expired), Head(s2c).chunks)
    BY <2>1 DEF FbReport
  <2> QED BY <2>2, <2>3, <2>4, ChunksFinite, EnqueueConsistent DEF RepairQueueConsistent
<1>8. CASE StartSession
  BY <1>4, <1>8 DEF StartSession, SenderConnects, SenderMemoryReset
<1>9. CASE BySender(SenderMain)
  BY <1>3, <1>4, <1>5, <1>6, <1>9
     DEF BySender, SenderMain, AcceptReady, AcceptComplete, AcceptFails, PassSkip,
         PassEnd, SendRepair, FailOnFeedback, SenderFinish, SenderExits,
         SenderMemoryReset
<1>10. CASE BySender(Heartbeat) \/ BySender(SenderWriteFails)
  BY <1>3, <1>4, <1>10
     DEF BySender, Heartbeat, SenderWriteFails, SenderExits, SenderMemoryReset, senderVars
<1>11. CASE BySender(Feedback)
  BY <1>3, <1>7, <1>11
     DEF BySender, Feedback, FbPong, FbComplete, FbCancel, FbStopped, senderVars
<1>12. CASE UNCHANGED senderVars BY <1>3, <1>12 DEF senderVars
<1>13. CASE Fault
  <2>1. CASE SenderFault
    BY <1>3, <1>4, <2>1
       DEF SenderFault, FbTimeout, SenderIoError, SenderCrash, SourceEdited,
           SenderExits, SenderMemoryReset
  <2> QED BY <1>12, <1>13, <2>1 DEF Fault
<1> QED BY <1>8, <1>9, <1>10, <1>11, <1>12, <1>13
        DEF Next, ByReceiver, ByNetwork, Receive, PeriodicReport, vars

(* The repair queue that the feedback thread fills and the sending thread  *)
(* empties is consistent after every interleaving of enqueue_repairs and   *)
(* take_repairs, for every MAX_QUEUED_REPAIRS.                             *)
THEOREM RepairQueueSafe == Spec => []RepairQueueConsistent
<1>1. Init => Typed /\ RepairQueueConsistent BY InitTyped, InitQueue
<1>2. Typed /\ RepairQueueConsistent /\ [Next]_vars => (Typed /\ RepairQueueConsistent)'
  BY NextTyped, NextQueue
<1> QED BY <1>1, <1>2, PTL DEF Spec

-----------------------------------------------------------------------------
(* The incremental hash.                                                   *)

CountIsReused == rphase = "reused" => received = Cardinality(bitmap)

HashInv == HashedPrefixIsOnDisk /\ CountIsBitmap /\ CountIsReused

hashVars == <<bitmap, received, hash_frontier, hasher, part>>

(* An advance from a hash that agrees with the file leaves one that does.  *)
LEMMA AdvanceAgrees ==
    ASSUME NEW file, NEW chunks, NEW fed, NEW from \in 0 .. N,
           \A c \in 0 .. from - 1 : c \in chunks /\ fed[c] = file[c],
           advance_hash_frontier(file, chunks, fed, from)
    PROVE  \A c \in 0 .. hash_frontier' - 1 : c \in chunks /\ hasher'[c] = file[c]
<1>1. PICK end \in RunEnds(chunks, from) :
        hash_frontier' = end /\ hasher' = Fed(file, fed, from, end)
  BY DEF advance_hash_frontier
<1>2. end \in 0 .. N /\ \A c \in from .. end - 1 : c \in chunks
  BY RunEndsType
<1>3. ASSUME NEW c \in 0 .. end - 1
      PROVE  c \in chunks /\ Fed(file, fed, from, end)[c] = file[c]
  <2>1. Fed(file, fed, from, end)[c] = IF c < from THEN fed[c] ELSE file[c]
    BY DEF Fed
  <2>2. c \in 0 .. from - 1 \/ c \in from .. end - 1
    BY <1>2, WireAssumption
  <2>3. c < from <=> c \in 0 .. from - 1 BY <1>2, WireAssumption
  <2> QED BY <1>2, <2>1, <2>2, <2>3
<1> QED BY <1>1, <1>3

LEMMA BeginLoopHash ==
    ASSUME Typed, HashInv, BeginLoop
    PROVE  HashInv'
<1>1. /\ advance_hash_frontier(part, bitmap, EmptyHash, 0)
      /\ rphase = "reused" /\ rphase' = "recv"
      /\ UNCHANGED <<bitmap, received, part>>
  BY DEF BeginLoop
<1>2. \A c \in 0 .. 0 - 1 : c \in bitmap /\ EmptyHash[c] = part[c] OBVIOUS
<1>3. 0 \in 0 .. N BY WireAssumption
<1>4. \A c \in 0 .. hash_frontier' - 1 : c \in bitmap /\ hasher'[c] = part[c]
  BY <1>1, <1>2, <1>3, AdvanceAgrees
<1>5. received = Cardinality(bitmap) BY <1>1 DEF HashInv, CountIsReused
<1>6. part # None BY <1>1 DEF Typed, PartPresent
<1> QED BY <1>1, <1>4, <1>5, <1>6
        DEF HashInv, HashedPrefixIsOnDisk, CountIsBitmap, CountIsReused

(* The first copy of a chunk: it is not yet hashed, so writing it does not *)
(* disturb the hashed prefix, and the count grows with the bitmap.         *)
LEMMA RecvHash ==
    ASSUME Typed, HashInv, NEW d \in net, RecvPacket(d)
    PROVE  HashInv'
<1>1. d.seq \in Chunks /\ d.data \in Bytes BY DEF Typed, TypeOK, WireTypeOK, Datagrams
<1>2. InLoop /\ InLoop' BY DEF RecvPacket, InLoop
<1>3. /\ part # None /\ received = Cardinality(bitmap)
      /\ \A c \in 0 .. hash_frontier - 1 : c \in bitmap /\ hasher[c] = part[c]
  BY <1>2 DEF HashInv, HashedPrefixIsOnDisk, CountIsBitmap
<1>4. part' # None BY RecvType DEF Typed, TypeOK, PartPresent, RecvPacket
<1>5. CASE FirstCopy(d.seq)
  <2>1. /\ part' = [part EXCEPT ![d.seq] = d.data]
        /\ bitmap' = bitmap \cup {d.seq} /\ received' = received + 1
        /\ \/ advance_hash_frontier(part', bitmap', hasher, hash_frontier)
           \/ UNCHANGED <<hash_frontier, hasher>>
    BY <1>5 DEF RecvPacket
  <2>2. d.seq \notin bitmap BY <1>5 DEF FirstCopy
  <2>3. received' = Cardinality(bitmap')
    <3>1. IsFiniteSet(bitmap)
      BY ChunksFinite DEF Typed, TypeOK, ReceiverTypeOK
    <3> QED BY <1>3, <2>1, <2>2, <3>1, FS_AddElement
  <2>4. ASSUME NEW c \in 0 .. hash_frontier - 1
        PROVE  c \in bitmap' /\ hasher[c] = part'[c]
    <3>1. c # d.seq /\ c \in bitmap BY <1>3, <2>2
    <3>2. part \in Objects /\ c \in Chunks
      BY <1>3, <3>1 DEF Typed, TypeOK, ReceiverTypeOK
    <3> QED BY <1>3, <2>1, <3>1, <3>2 DEF Objects
  <2>5. \A c \in 0 .. hash_frontier' - 1 : c \in bitmap' /\ hasher'[c] = part'[c]
    <3>1. CASE advance_hash_frontier(part', bitmap', hasher, hash_frontier)
      <4>1. hash_frontier \in 0 .. N BY DEF Typed, TypeOK, ReceiverTypeOK
      <4> QED BY <2>4, <3>1, <4>1, AdvanceAgrees
    <3>2. CASE UNCHANGED <<hash_frontier, hasher>> BY <2>4, <3>2
    <3> QED BY <2>1, <3>1, <3>2
  <2> QED BY <1>2, <1>4, <2>3, <2>5
          DEF HashInv, HashedPrefixIsOnDisk, CountIsBitmap, CountIsReused, InLoop
<1>6. CASE ~FirstCopy(d.seq)
  <2>1. UNCHANGED hashVars BY <1>6 DEF RecvPacket, hashVars
  <2> QED BY <1>2, <1>3, <2>1
          DEF hashVars, HashInv, HashedPrefixIsOnDisk, CountIsBitmap, CountIsReused, InLoop
<1> QED BY <1>5, <1>6

LEMMA InitHash == Init => HashInv
BY DEF Init, ReceiverInit, HashInv, HashedPrefixIsOnDisk, CountIsBitmap, CountIsReused,
       InLoop

LEMMA NextHash ==
    ASSUME Typed, HashInv, [Next]_vars
    PROVE  HashInv'
<1>1. CASE ~InLoop' /\ rphase' # "reused"
  BY <1>1 DEF HashInv, HashedPrefixIsOnDisk, CountIsBitmap, CountIsReused
<1>2. CASE UNCHANGED hashVars /\ InLoop
  BY <1>2 DEF hashVars, HashInv, HashedPrefixIsOnDisk, CountIsBitmap, CountIsReused
<1>3. ASSUME NEW result \in {"ok", "error"}, ReceiverExits(result) PROVE HashInv'
  BY <1>1, <1>3 DEF ReceiverExits, InLoop
<1>4. CASE UNCHANGED hashVars /\ UNCHANGED rphase
  BY <1>4
     DEF hashVars, HashInv, HashedPrefixIsOnDisk, CountIsBitmap, CountIsReused, InLoop
<1>5. CASE UNCHANGED receiverVars BY <1>4, <1>5 DEF receiverVars, hashVars
<1>6. CASE StartSession
  BY <1>1, <1>6 DEF StartSession, ReceiverAccepts, InLoop
<1>7. CASE ReceiverMain
  <2>1. CASE OpenComplete BY <1>1, <2>1 DEF OpenComplete, InLoop
  <2>2. CASE OpenResume \/ CreateMap
    <3>1. rphase' = "reused" /\ received' = Cardinality(bitmap')
      BY <2>2 DEF OpenResume, CreateMap, ReuseContent
    <3> QED BY <3>1 DEF HashInv, HashedPrefixIsOnDisk, CountIsBitmap, CountIsReused, InLoop
  <2>3. CASE OpenFresh BY <1>1, <2>3 DEF OpenFresh, InLoop
  <2>4. CASE BeginLoop BY <2>4, BeginLoopHash
  <2>5. CASE RetryAcked BY <1>3, <2>5 DEF RetryAcked
  <2>6. CASE RetryStopped BY <1>3, <2>6 DEF RetryStopped
  <2>7. CASE RecvTimeout
    BY <1>2, <2>7 DEF RecvTimeout, memoryVars, diskVars, hashVars, InLoop
  <2>8. CASE DrainEnd BY <1>4, <2>8 DEF DrainEnd, diskVars, hashVars
  <2>9. CASE AnswerPing BY <1>4, <2>9 DEF AnswerPing, diskVars, hashVars
  <2>10. CASE DrainStop BY <1>3, <2>10 DEF DrainStop
  <2>11. CASE Finalize
    <3>1. rphase' = "announce" \/ ReceiverExits("error") BY <2>11 DEF Finalize
    <3> QED BY <1>1, <1>3, <3>1 DEF InLoop
  <2>12. CASE Announce BY <1>1, <2>12 DEF Announce, InLoop
  <2>13. CASE AckWaitEnd BY <1>4, <2>13 DEF AckWaitEnd, diskVars, hashVars
  <2>14. CASE AckWaitStop BY <1>3, <2>14 DEF AckWaitStop
  <2> QED BY <1>7, <2>1, <2>2, <2>3, <2>4, <2>5, <2>6, <2>7, <2>8, <2>9, <2>10,
             <2>11, <2>12, <2>13, <2>14
          DEF ReceiverMain
<1>8. CASE ReceiverWriteFails BY <1>3, <1>8 DEF ReceiverWriteFails
<1>9. CASE Control \/ CtlTimeout
  BY <1>4, <1>9 DEF Control, CtlLine, CtlStopped, CtlTimeout, diskVars, hashVars
<1>10. CASE \E d \in net : RecvPacket(d) BY <1>10, RecvHash
<1>11. CASE \E d \in net : RecvInvalid(d)
  BY <1>2, <1>11 DEF RecvInvalid, memoryVars, diskVars, hashVars, InLoop
<1>12. ASSUME NEW due \in BOOLEAN, NoReport(due) \/ \E end \in 0 .. N : Report(due, end)
       PROVE  HashInv'
  BY <1>2, <1>12 DEF NoReport, Report, Drained, hashVars, InLoop
<1>13. CASE ReceiverFault
  BY <1>3, <1>9, <1>13 DEF ReceiverFault, AckTimeout, RecvError, ReceiverCrash, PowerLoss
<1>14. CASE Fault BY <1>5, <1>13, <1>14 DEF Fault
<1> QED BY <1>5, <1>6, <1>7, <1>8, <1>9, <1>10, <1>11, <1>12, <1>14
        DEF Next, BySender, ByReceiver, ByNetwork, Receive, PeriodicReport, vars

(* What receive_udp has hashed is what the .part file contains: no write,  *)
(* duplicate, reused chunk or resumed session changes a chunk after it was *)
(* hashed, so the final comparison is one of the file.                     *)
THEOREM HashVouchesForFile == Spec => []HashedPrefixIsOnDisk
<1>1. Init => Typed /\ HashInv BY InitTyped, InitHash
<1>2. Typed /\ HashInv /\ [Next]_vars => (Typed /\ HashInv)' BY NextTyped, NextHash
<1>3. HashInv => HashedPrefixIsOnDisk BY DEF HashInv
<1> QED BY <1>1, <1>2, <1>3, PTL DEF Spec

(* received_count is the number of chunks in the bitmap while receive_udp  *)
(* is in its loop.                                                         *)
THEOREM CountIsRight == Spec => []CountIsBitmap
<1>1. Init => Typed /\ HashInv BY InitTyped, InitHash
<1>2. Typed /\ HashInv /\ [Next]_vars => (Typed /\ HashInv)' BY NextTyped, NextHash
<1>3. HashInv => CountIsBitmap BY DEF HashInv
<1> QED BY <1>1, <1>2, <1>3, PTL DEF Spec

-----------------------------------------------------------------------------
(* The missing ranges.                                                     *)

(* A non-empty set of naturals has a least member.                         *)
LEMMA LeastChunk ==
    ASSUME NEW T, T \subseteq Nat, T # {}
    PROVE  \E x \in T : \A y \in T : x <= y
<1> DEFINE R == OpToRel(<, Nat)
<1>1. \A x, y \in Nat : y < x => <<y, x>> \in R BY DEF OpToRel
<1>2. IsWellFoundedOn(R, Nat) BY NatLessThanWellFounded
<1> HIDE DEF R
<1>3. PICK x \in T : \A y \in T : ~(<<y, x>> \in R) BY <1>2, WFMin
<1>4. \A y \in T : ~(y < x) BY <1>1, <1>3
<1>5. \A y \in T : x <= y BY <1>4
<1> QED BY <1>5

(* missing_ranges, whatever MAX_RANGES_PER_REPORT is: a report that ends   *)
(* at or after the first chunk missing names that chunk and all of the run *)
(* of missing chunks that it begins.  The limit cuts later gaps only, so   *)
(* each report of a receiver with a gap asks for something that is needed. *)
THEOREM FirstGapReported ==
    ASSUME NEW end \in 0 .. N, \E c \in 0 .. end - 1 : c \notin bitmap
    PROVE  \E first \in Missing(end) :
              /\ \A c \in 0 .. first - 1 : c \in bitmap
              /\ \A last \in first .. end - 1 :
                   (\A c \in first .. last : c \notin bitmap) => last \in Missing(end)
<1> DEFINE gaps == {c \in 0 .. end - 1 : c \notin bitmap}
           starts == {s \in 0 .. end - 1 :
                        s \notin bitmap /\ (s = 0 \/ s - 1 \in bitmap)}
<1>1. gaps \subseteq Nat /\ gaps # {} OBVIOUS
<1>2. PICK first \in gaps : \A c \in gaps : first <= c BY <1>1, LeastChunk
<1>3. first \in 0 .. end - 1 /\ first \notin bitmap /\ end \in Int
  BY <1>2, WireAssumption
<1>4. \A c \in 0 .. first - 1 : c \in bitmap
  <2>1. \A c \in 0 .. first - 1 : c \in 0 .. end - 1 /\ ~(first <= c) BY <1>3
  <2> QED BY <1>2, <2>1
<1>5. ASSUME NEW last \in first .. end - 1, \A c \in first .. last : c \notin bitmap
      PROVE  last \in Missing(end)
  <2>1. ASSUME NEW s \in starts, s <= last PROVE s = first
    <3>1. first <= s BY <1>2, <2>1
    <3>2. s # 0 /\ s # first => s - 1 \in bitmap /\ s - 1 \in first .. last
      BY <1>3, <2>1, <3>1
    <3>3. s = 0 => s = first BY <1>3, <3>1
    <3> QED BY <1>5, <3>2, <3>3
  <2> DEFINE upto == {s \in starts : s <= last}
  <2>2. upto \in SUBSET {first} BY <2>1
  <2>3. IsFiniteSet({first}) /\ Cardinality({first}) = 1 BY FS_Singleton
  <2>4. Cardinality(upto) <= MaxRanges
    <3> HIDE DEF upto
    <3>1. IsFiniteSet(upto) /\ Cardinality(upto) <= Cardinality({first})
      BY <2>2, <2>3, FS_Subset
    <3>2. Cardinality(upto) \in Nat BY <3>1, FS_CardinalityType
    <3> QED BY <2>3, <3>1, <3>2, ReceiverAssumption
  <2>5. last \in 0 .. end - 1 /\ last \notin bitmap BY <1>3, <1>5
  <2> QED BY <2>4, <2>5 DEF Missing
<1>6. first \in Missing(end)
  <2>1. first \in first .. end - 1 /\ \A c \in first .. first : c = first BY <1>3
  <2> QED BY <1>3, <1>5, <2>1
<1> QED BY <1>4, <1>5, <1>6

-----------------------------------------------------------------------------
(* The contract.                                                           *)

PlainServerLines == {line \in ServerLines : line.type # "COMPLETE"}
PlainClientLines == ClientLines \ {"COMPLETE_ACK"}
PlainEvents == Events \ {"COMPLETE_ACK"}

SameObject == hello = offered

Installed == rphase \in {"announce", "ackwait", "retry", "ok"} => dest = offered

NoEarlyComplete ==
    dest # offered => s2c \in Seq(PlainServerLines) /\ ~complete /\ sphase # "ok"

NoEarlyAck ==
    sphase # "ok" => c2s \in Seq(PlainClientLines) /\ events \in Seq(PlainEvents)

ContractInv == SameObject /\ Installed /\ NoEarlyComplete /\ NoEarlyAck

IInv == Typed /\ HashInv /\ ContractInv

(* A hash that matches is the hash of the whole file.                      *)
LEMMA MatchIsWhole ==
    ASSUME Typed, HashInv, InLoop, NEW end \in RunEnds(bitmap, hash_frontier),
           HashMatches(Fed(part, hasher, hash_frontier, end))
    PROVE  part = hello
<1>1. /\ part \in Objects /\ hello \in Objects /\ hash_frontier \in 0 .. N
      /\ \A c \in 0 .. hash_frontier - 1 : hasher[c] = part[c]
  BY DEF Typed, TypeOK, ReceiverTypeOK, PartPresent, InLoop, HashInv, HashedPrefixIsOnDisk
<1>2. end \in 0 .. N BY <1>1, RunEndsType
<1>3. Fed(part, hasher, hash_frontier, end) = hello BY DEF HashMatches
<1>4. ASSUME NEW c \in 0 .. end - 1 PROVE hello[c] = part[c]
  <2>1. hello[c] = IF c < hash_frontier THEN hasher[c] ELSE part[c] BY <1>3 DEF Fed
  <2>2. c < hash_frontier => c \in 0 .. hash_frontier - 1 BY <1>1, <1>2, WireAssumption
  <2> QED BY <1>1, <2>1, <2>2
<1>5. DOMAIN hello = 0 .. end - 1 BY <1>3 DEF Fed
<1>6. DOMAIN hello = 0 .. N - 1 /\ DOMAIN part = 0 .. N - 1 BY <1>1 DEF Objects, Chunks
<1>7. \A c \in Chunks : hello[c] = part[c] BY <1>4, <1>5, <1>6 DEF Chunks
<1> QED BY <1>1, <1>7 DEF Objects

(* A step of the sender that is not its exit, seen by the contract.        *)
LEMMA SenderQuiet ==
    ASSUME ContractInv, UNCHANGED <<receiverVars, offered>>,
           sphase' = sphase \/ (SenderActive /\ SenderActive'),
           s2c \in Seq(PlainServerLines) => s2c' \in Seq(PlainServerLines),
           c2s \in Seq(PlainClientLines) => c2s' \in Seq(PlainClientLines),
           complete' => dest = offered
    PROVE  ContractInv' /\ UNCHANGED Contract!vars
<1>1. sphase # "ok" <=> sphase' # "ok" BY DEF SenderActive
<1>2. ContractInv'
  BY <1>1 DEF ContractInv, SameObject, Installed, NoEarlyComplete, NoEarlyAck, receiverVars
<1>3. SenderResult' = SenderResult /\ ReceiverResult' = ReceiverResult
  BY DEF SenderResult, SenderActive, ReceiverResult, ReceiverActive, receiverVars
<1> QED BY <1>2, <1>3 DEF Contract!vars, receiverVars

(* The sender gives up.                                                    *)
LEMMA SenderFailing ==
    ASSUME ContractInv, UNCHANGED receiverVars, SenderActive, SenderExits("error"),
           s2c' = s2c,
           c2s \in Seq(PlainClientLines) => c2s' \in Seq(PlainClientLines)
    PROVE  ContractInv' /\ Contract!SenderFails
<1>1. sphase # "ok" /\ sphase' = "error" /\ complete' = FALSE /\ offered' = offered
  BY DEF SenderActive, SenderExits, SenderMemoryReset
<1>2. ContractInv'
  BY <1>1 DEF ContractInv, SameObject, Installed, NoEarlyComplete, NoEarlyAck, receiverVars
<1>3. /\ SenderResult = "busy" /\ SenderResult' = "error"
      /\ ReceiverResult' = ReceiverResult
  BY <1>1 DEF SenderResult, SenderActive, ReceiverResult, ReceiverActive, receiverVars
<1> QED BY <1>1, <1>2, <1>3 DEF Contract!SenderFails, receiverVars

(* The sender succeeds: what it read says that the object is installed.    *)
LEMMA SenderSucceeding ==
    ASSUME ContractInv, UNCHANGED receiverVars, SenderActive, SenderExits("ok"),
           dest = offered
    PROVE  ContractInv' /\ Contract!SenderSucceeds
<1>1. sphase' = "ok" /\ complete' = FALSE /\ offered' = offered
  BY DEF SenderExits, SenderMemoryReset
<1>2. ContractInv'
  BY <1>1 DEF ContractInv, SameObject, Installed, NoEarlyComplete, NoEarlyAck, receiverVars
<1>3. /\ SenderResult = "busy" /\ SenderResult' = "ok"
      /\ ReceiverResult' = ReceiverResult
  BY <1>1 DEF SenderResult, SenderActive, ReceiverResult, ReceiverActive, receiverVars
<1> QED BY <1>1, <1>2, <1>3 DEF Contract!SenderSucceeds, receiverVars

(* Writing a line other than COMPLETE_ACK; reading a line.                 *)
LEMMA PlainToReceiver ==
    ASSUME NEW line \in PlainClientLines, SendToReceiver(line),
           c2s \in Seq(PlainClientLines)
    PROVE  c2s' \in Seq(PlainClientLines)
BY DEF SendToReceiver

LEMMA PlainToSender ==
    ASSUME NEW line \in PlainServerLines, SendToSender(line),
           s2c \in Seq(PlainServerLines)
    PROVE  s2c' \in Seq(PlainServerLines)
BY DEF SendToSender

(* Only COMPLETE says that the object is installed.                        *)
LEMMA CompleteMeansInstalled ==
    ASSUME ContractInv, s2c # <<>>, Head(s2c).type = "COMPLETE"
    PROVE  dest = offered
<1> SUFFICES ASSUME dest # offered PROVE FALSE OBVIOUS
<1>1. Head(s2c) \in PlainServerLines
  BY HeadTail DEF ContractInv, NoEarlyComplete
<1> QED BY <1>1 DEF PlainServerLines

(* Every step of the sender is a step of the contract.                     *)
LEMMA SenderContract ==
    ASSUME IInv, UNCHANGED receiverVars,
           SenderMain \/ Heartbeat \/ SenderWriteFails \/ Feedback \/ SenderFault
    PROVE  ContractInv' /\ [Contract!Next]_(Contract!vars)
<1> USE DEF IInv
<1>1. s2c # <<>> /\ s2c \in Seq(PlainServerLines) => Tail(s2c) \in Seq(PlainServerLines)
  BY HeadTail
<1>2. complete => dest = offered BY DEF ContractInv, NoEarlyComplete
<1>3. {"END", "PING", "CANCEL"} \subseteq PlainClientLines
  BY DEF PlainClientLines, ClientLines
<1>4. CASE AcceptReady
  BY <1>1, <1>2, <1>4, SenderQuiet DEF AcceptReady, SenderActive
<1>5. CASE AcceptComplete
  <2>1. dest = offered BY <1>5, CompleteMeansInstalled DEF AcceptComplete
  <2> QED BY <1>5, <2>1, SenderSucceeding DEF AcceptComplete, SenderActive, Contract!Next
<1>6. CASE AcceptFails
  BY <1>6, SenderFailing DEF AcceptFails, SenderActive, Contract!Next
<1>7. CASE PassSkip
  BY <1>2, <1>7, SenderQuiet DEF PassSkip, wireVars
<1>8. CASE PassSend
  BY <1>2, <1>8, SenderQuiet DEF PassSend
<1>9. CASE PassEnd
  <2>1. c2s \in Seq(PlainClientLines) => c2s' \in Seq(PlainClientLines)
    BY <1>3, <1>9, PlainToReceiver DEF PassEnd
  <2> QED BY <1>2, <1>9, <2>1, SenderQuiet DEF PassEnd, SenderActive
<1>10. CASE RepairStep
  BY <1>2, <1>10, SenderQuiet DEF RepairStep, wireVars
<1>11. CASE SendRepair
  BY <1>2, <1>11, SenderQuiet DEF SendRepair
<1>12. CASE FailOnFeedback
  <2>1. c2s \in Seq(PlainClientLines) => c2s' \in Seq(PlainClientLines)
    BY <1>3, <1>12, PlainToReceiver DEF FailOnFeedback
  <2> QED BY <1>12, <2>1, SenderFailing
          DEF FailOnFeedback, AtLoopTop, SenderActive, Contract!Next
<1>13. CASE SenderFinish
  BY <1>2, <1>13, SenderSucceeding DEF SenderFinish, SenderActive, Contract!Next
<1>14. CASE Heartbeat
  <2>1. c2s \in Seq(PlainClientLines) => c2s' \in Seq(PlainClientLines)
    BY <1>3, <1>14, PlainToReceiver DEF Heartbeat
  <2> QED BY <1>2, <1>14, <2>1, SenderQuiet DEF Heartbeat, senderVars
<1>15. CASE SenderWriteFails \/ SenderCrash
  BY <1>15, SenderFailing DEF SenderWriteFails, SenderCrash, Contract!Next
<1>16. CASE \E expired \in SUBSET rq.last_sent : FbReport(expired)
  BY <1>1, <1>2, <1>16, SenderQuiet DEF FbReport, FbReads
<1>17. CASE FbPong
  BY <1>1, <1>2, <1>17, SenderQuiet DEF FbPong, FbReads, senderVars
<1>18. CASE FbComplete
  <2>1. dest = offered BY <1>18, CompleteMeansInstalled DEF FbComplete, FbReads
  <2> QED BY <1>1, <1>18, <2>1, SenderQuiet DEF FbComplete, FbReads
<1>19. CASE FbCancel
  BY <1>1, <1>2, <1>19, SenderQuiet DEF FbCancel, FbReads
<1>20. CASE FbStopped \/ FbTimeout
  BY <1>2, <1>20, SenderQuiet DEF FbStopped, FbTimeout, wireVars
<1>21. CASE SenderIoError
  <2>1. c2s \in Seq(PlainClientLines) => c2s' \in Seq(PlainClientLines)
    BY <1>3, <1>21, PlainToReceiver DEF SenderIoError
  <2> QED BY <1>21, <2>1, SenderFailing DEF SenderIoError, Contract!Next
<1>22. CASE SourceEdited
  BY <1>2, <1>22, SenderQuiet DEF SourceEdited, wireVars
<1> QED BY <1>4, <1>5, <1>6, <1>7, <1>8, <1>9, <1>10, <1>11, <1>12, <1>13, <1>14,
           <1>15, <1>16, <1>17, <1>18, <1>19, <1>20, <1>21, <1>22
        DEF SenderMain, Feedback, SenderFault

(* A step of the receiver that is neither an install nor its exit.         *)
LEMMA ReceiverQuiet ==
    ASSUME ContractInv, UNCHANGED <<senderVars, hello, dest>>,
           rphase' = rphase \/ (ReceiverActive /\ ReceiverActive'),
           rphase' = rphase \/ Installed',
           dest # offered /\ s2c \in Seq(PlainServerLines) => s2c' \in Seq(PlainServerLines),
           c2s \in Seq(PlainClientLines) /\ events \in Seq(PlainEvents)
             => c2s' \in Seq(PlainClientLines) /\ events' \in Seq(PlainEvents)
    PROVE  ContractInv' /\ UNCHANGED Contract!vars
<1>1. ContractInv'
  BY DEF ContractInv, SameObject, Installed, NoEarlyComplete, NoEarlyAck, senderVars
<1>2. SenderResult' = SenderResult /\ ReceiverResult' = ReceiverResult
  BY DEF SenderResult, SenderActive, ReceiverResult, ReceiverActive, senderVars
<1> QED BY <1>1, <1>2 DEF Contract!vars, senderVars

(* The receiver gives up.                                                  *)
LEMMA ReceiverFailing ==
    ASSUME ContractInv, UNCHANGED <<senderVars, dest>>, ReceiverActive, ReceiverExits("error"),
           s2c \in Seq(PlainServerLines) => s2c' \in Seq(PlainServerLines),
           c2s \in Seq(PlainClientLines) => c2s' \in Seq(PlainClientLines)
    PROVE  ContractInv' /\ Contract!ReceiverFails
<1>1. rphase' = "error" /\ hello' = hello /\ events' = <<>>
  BY DEF ReceiverExits, ReceiverMemoryReset
<1>2. events' \in Seq(PlainEvents) BY <1>1
<1>3. ContractInv'
  BY <1>1, <1>2 DEF ContractInv, SameObject, Installed, NoEarlyComplete, NoEarlyAck, senderVars
<1>4. /\ ReceiverResult = "busy" /\ ReceiverResult' = "error"
      /\ SenderResult' = SenderResult
  BY <1>1 DEF SenderResult, SenderActive, ReceiverResult, ReceiverActive, senderVars
<1> QED BY <1>3, <1>4 DEF Contract!ReceiverFails, senderVars

(* The receiver succeeds: the acknowledgement says that the sender has.    *)
LEMMA ReceiverSucceeding ==
    ASSUME ContractInv, UNCHANGED <<senderVars, dest>>, ReceiverActive, ReceiverExits("ok"),
           sphase = "ok", s2c' = s2c
    PROVE  ContractInv' /\ Contract!ReceiverSucceeds
<1>1. rphase' = "ok" /\ hello' = hello BY DEF ReceiverExits
<1>2. dest = offered BY DEF ContractInv, NoEarlyComplete
<1>3. ContractInv'
  BY <1>1, <1>2 DEF ContractInv, SameObject, Installed, NoEarlyComplete, NoEarlyAck, senderVars
<1>4. /\ ReceiverResult = "busy" /\ ReceiverResult' = "ok"
      /\ SenderResult = "ok" /\ SenderResult' = SenderResult
  BY <1>1 DEF SenderResult, SenderActive, ReceiverResult, ReceiverActive, senderVars
<1> QED BY <1>2, <1>3, <1>4 DEF Contract!ReceiverSucceeds, senderVars

LEMMA BeginLoopContract ==
    ASSUME Typed, ContractInv, UNCHANGED senderVars, BeginLoop
    PROVE  ContractInv' /\ UNCHANGED Contract!vars
<1>1. bitmap \in SUBSET Chunks BY DEF Typed, TypeOK, ReceiverTypeOK
<1>2. Line("READY", bitmap) \in PlainServerLines
  BY <1>1 DEF Line, PlainServerLines, ServerLines
<1>3. s2c \in Seq(PlainServerLines) => s2c' \in Seq(PlainServerLines)
  BY <1>2, PlainToSender DEF BeginLoop
<1>4. rphase' = "recv" /\ UNCHANGED <<c2s, hello, events, dest>> BY DEF BeginLoop
<1>5. ReceiverActive /\ ReceiverActive' /\ Installed'
  BY <1>4 DEF BeginLoop, ReceiverActive, Installed
<1> QED BY <1>3, <1>4, <1>5, ReceiverQuiet

(* Every step of the receiver is a step of the contract.                   *)
LEMMA ReceiverMainContract ==
    ASSUME IInv, UNCHANGED senderVars, ReceiverMain
    PROVE  ContractInv' /\ [Contract!Next]_(Contract!vars)
<1> USE DEF IInv
<1>1. c2s # <<>> /\ c2s \in Seq(PlainClientLines)
        => Head(c2s) \in PlainClientLines /\ Tail(c2s) \in Seq(PlainClientLines)
  BY HeadTail
<1>2. events # <<>> /\ events \in Seq(PlainEvents)
        => Head(events) \in PlainEvents /\ Tail(events) \in Seq(PlainEvents)
  BY HeadTail
<1>3. \A type \in {"M", "PONG", "CANCEL"} : Line(type, {}) \in PlainServerLines
  BY DEF Line, PlainServerLines, ServerLines
<1>4. hello = offered BY DEF ContractInv, SameObject
<1>5. CASE OpenComplete
  <2>1. dest = offered BY <1>4, <1>5 DEF OpenComplete, AlreadyInstalled
  <2>2. /\ ReceiverActive /\ ReceiverActive' /\ dest' = dest /\ hello' = hello
        /\ UNCHANGED <<c2s, events>>
    BY <1>5 DEF OpenComplete, ReceiverActive, memoryVars, diskVars
  <2>3. Installed' BY <2>1, <2>2 DEF Installed, senderVars
  <2> QED BY <2>1, <2>2, <2>3, ReceiverQuiet
<1>6. CASE OpenResume \/ CreateMap
  <2>1. Installed' /\ ReceiverActive /\ ReceiverActive'
    BY <1>6 DEF OpenResume, CreateMap, ReuseContent, Installed, ReceiverActive
  <2> QED BY <1>6, <2>1, ReceiverQuiet DEF OpenResume, CreateMap, ReuseContent, wireVars
<1>7. CASE OpenFresh
  <2>1. Installed' /\ ReceiverActive /\ ReceiverActive'
    BY <1>7 DEF OpenFresh, Installed, ReceiverActive
  <2> QED BY <1>7, <2>1, ReceiverQuiet DEF OpenFresh, wireVars, memoryVars
<1>8. CASE BeginLoop BY <1>8, BeginLoopContract
<1>9. CASE RetryAcked
  <2>1. CASE Head(c2s) = "COMPLETE_ACK"
    <3>1. sphase = "ok"
      BY <1>1, <1>9, <2>1 DEF RetryAcked, ContractInv, NoEarlyAck, PlainClientLines
    <3> QED BY <1>9, <2>1, <3>1, ReceiverSucceeding
            DEF RetryAcked, ReceiverActive, diskVars, Contract!Next
  <2>2. CASE Head(c2s) # "COMPLETE_ACK"
    BY <1>1, <1>9, <2>2, ReceiverFailing
       DEF RetryAcked, ReceiverActive, diskVars, Contract!Next
  <2> QED BY <2>1, <2>2
<1>10. CASE RetryStopped
  BY <1>10, ReceiverFailing DEF RetryStopped, ReceiverActive, diskVars, Contract!Next
<1>11. CASE RecvTimeout
  <2>1. Installed' /\ ReceiverActive /\ ReceiverActive'
    BY <1>11 DEF RecvTimeout, Installed, ReceiverActive
  <2> QED BY <1>11, <2>1, ReceiverQuiet DEF RecvTimeout, wireVars, memoryVars, diskVars
<1>12. CASE DrainEnd
  BY <1>2, <1>12, ReceiverQuiet DEF DrainEnd, TakeEvent, wireVars, diskVars
<1>13. CASE AnswerPing
  <2>1. s2c \in Seq(PlainServerLines) => s2c' \in Seq(PlainServerLines)
    BY <1>3, <1>13, PlainToSender DEF AnswerPing
  <2> QED BY <1>2, <1>13, <2>1, ReceiverQuiet DEF AnswerPing, TakeEvent, diskVars
<1>14. CASE DrainStop
  BY <1>14, ReceiverFailing DEF DrainStop, ReceiverActive, Contract!Next
<1>15. CASE Finalize
  <2>1. PICK end \in RunEnds(bitmap, hash_frontier) :
          IF HashMatches(Fed(part, hasher, hash_frontier, end))
          THEN /\ dest' = part
               /\ rphase' = "announce"
               /\ UNCHANGED <<s2c, hello, events>>
          ELSE /\ SendToSender(Line("CANCEL", {})) \/ s2c' = s2c
               /\ ReceiverExits("error")
               /\ UNCHANGED dest
    BY <1>15 DEF Finalize
  <2>2. InLoop /\ ReceiverActive /\ rphase = "drain" /\ c2s' = c2s
    BY <1>15 DEF Finalize, Drained, InLoop, ReceiverActive
  <2>3. CASE HashMatches(Fed(part, hasher, hash_frontier, end))
    <3>1. /\ dest' = part /\ rphase' = "announce"
          /\ UNCHANGED <<s2c, hello, events, c2s>>
      BY <2>1, <2>2, <2>3
    <3>2. part = hello BY <2>2, <2>3, MatchIsWhole
    <3>3. dest' = offered' BY <1>4, <3>1, <3>2 DEF senderVars
    <3>4. ContractInv'
      BY <3>1, <3>3
         DEF ContractInv, SameObject, Installed, NoEarlyComplete, NoEarlyAck, senderVars
    <3>5. /\ ReceiverResult = "busy" /\ ReceiverResult' = "busy"
          /\ SenderResult' = SenderResult
      BY <2>2, <3>1 DEF SenderResult, SenderActive, ReceiverResult, ReceiverActive, senderVars
    <3> QED BY <1>4, <3>1, <3>2, <3>4, <3>5 DEF Contract!Install, Contract!Next, senderVars
  <2>4. CASE ~HashMatches(Fed(part, hasher, hash_frontier, end))
    <3>1. s2c \in Seq(PlainServerLines) => s2c' \in Seq(PlainServerLines)
      BY <1>3, <2>1, <2>4, PlainToSender
    <3> QED BY <2>1, <2>2, <2>4, <3>1, ReceiverFailing DEF Contract!Next
  <2> QED BY <2>3, <2>4
<1>16. CASE Announce
  <2>1. dest = offered BY <1>16 DEF Announce, ContractInv, Installed
  <2>2. /\ ReceiverActive /\ ReceiverActive' /\ dest' = dest /\ hello' = hello
        /\ UNCHANGED <<c2s, events>>
    BY <1>16 DEF Announce, ReceiverActive, memoryVars, diskVars
  <2>3. Installed' BY <2>1, <2>2 DEF Installed, senderVars
  <2> QED BY <2>1, <2>2, <2>3, ReceiverQuiet
<1>17. CASE AckWaitEnd
  BY <1>2, <1>17, ReceiverQuiet DEF AckWaitEnd, TakeEvent, wireVars, diskVars
<1>18. CASE AckWaitStop
  <2>1. CASE Head(events) = "COMPLETE_ACK"
    <3>1. sphase = "ok"
      BY <1>2, <1>18, <2>1 DEF AckWaitStop, ContractInv, NoEarlyAck, PlainEvents
    <3> QED BY <1>18, <2>1, <3>1, ReceiverSucceeding
            DEF AckWaitStop, ReceiverActive, diskVars, Contract!Next
  <2>2. CASE Head(events) # "COMPLETE_ACK"
    BY <1>18, <2>2, ReceiverFailing
       DEF AckWaitStop, ReceiverActive, diskVars, Contract!Next
  <2> QED BY <2>1, <2>2
<1> QED BY <1>5, <1>6, <1>7, <1>8, <1>9, <1>10, <1>11, <1>12, <1>13, <1>14, <1>15,
           <1>16, <1>17, <1>18
        DEF ReceiverMain

LEMMA ReceiverOtherContract ==
    ASSUME IInv, UNCHANGED senderVars,
           \/ ReceiverWriteFails \/ Control \/ ReceiverFault
           \/ \E d \in net : RecvPacket(d) \/ RecvInvalid(d)
           \/ \E due \in BOOLEAN : NoReport(due) \/ \E end \in 0 .. N : Report(due, end)
    PROVE  ContractInv' /\ [Contract!Next]_(Contract!vars)
<1> USE DEF IInv
<1>1. CASE ReceiverWriteFails
  BY <1>1, ReceiverFailing
     DEF ReceiverWriteFails, Drained, ReceiverActive, Contract!Next
<1>2. CASE CtlLine
  <2>1. c2s \in Seq(PlainClientLines) =>
          Head(c2s) \in PlainClientLines /\ Tail(c2s) \in Seq(PlainClientLines)
    BY <1>2, HeadTail DEF CtlLine
  <2>2. PlainClientLines \subseteq PlainEvents BY DEF PlainClientLines, PlainEvents, Events
  <2>3. c2s \in Seq(PlainClientLines) /\ events \in Seq(PlainEvents)
          => c2s' \in Seq(PlainClientLines) /\ events' \in Seq(PlainEvents)
    BY <1>2, <2>1, <2>2 DEF CtlLine
  <2> QED BY <1>2, <2>3, ReceiverQuiet DEF CtlLine, diskVars
<1>3. CASE CtlStopped \/ CtlTimeout
  <2>1. "ERROR" \in PlainEvents BY DEF PlainEvents, Events
  <2>2. events \in Seq(PlainEvents) => events' \in Seq(PlainEvents)
    <3>1. events' = Append(events, "ERROR") BY <1>3 DEF CtlStopped, CtlTimeout
    <3> QED BY <2>1, <3>1
  <2>3. UNCHANGED <<c2s, s2c, rphase, hello, dest>>
    BY <1>3 DEF CtlStopped, CtlTimeout, wireVars, diskVars
  <2> QED BY <2>2, <2>3, ReceiverQuiet
<1>4. CASE AckTimeout \/ RecvError \/ ReceiverCrash \/ PowerLoss
  <2>1. /\ ReceiverActive /\ ReceiverExits("error") /\ UNCHANGED <<c2s, s2c, dest>>
    BY <1>4 DEF AckTimeout, RecvError, ReceiverCrash, PowerLoss, ReceiverActive, diskVars
  <2> QED BY <2>1, ReceiverFailing DEF Contract!Next
<1>5. CASE \E d \in net : RecvPacket(d) \/ RecvInvalid(d)
  <2>1. /\ ReceiverActive /\ rphase' = "drain" /\ UNCHANGED <<c2s, s2c, hello, events, dest>>
    BY <1>5 DEF RecvPacket, RecvInvalid, ReceiverActive, memoryVars, diskVars
  <2>2. ReceiverActive' /\ Installed' BY <2>1 DEF ReceiverActive, Installed
  <2> QED BY <2>1, <2>2, ReceiverQuiet
<1>6. CASE \E due \in BOOLEAN : NoReport(due)
  <2>1. /\ ReceiverActive /\ rphase' = "recv" /\ UNCHANGED <<c2s, s2c, hello, events, dest>>
    BY <1>6 DEF NoReport, Drained, ReceiverActive, wireVars
  <2>2. ReceiverActive' /\ Installed' BY <2>1 DEF ReceiverActive, Installed
  <2> QED BY <2>1, <2>2, ReceiverQuiet
<1>7. ASSUME NEW due \in BOOLEAN, NEW end \in 0 .. N, Report(due, end)
      PROVE  ContractInv' /\ [Contract!Next]_(Contract!vars)
  <2>1. /\ ReceiverActive /\ rphase' = "recv" /\ UNCHANGED <<c2s, hello, events, dest>>
    BY <1>7 DEF Report, Drained, ReceiverActive
  <2>2. ReceiverActive' /\ Installed' BY <2>1 DEF ReceiverActive, Installed
  <2>3. Line("M", Missing(end)) \in PlainServerLines
    BY MissingType DEF Line, PlainServerLines, ServerLines
  <2>4. s2c \in Seq(PlainServerLines) => s2c' \in Seq(PlainServerLines)
    BY <1>7, <2>3, PlainToSender DEF Report
  <2> QED BY <2>1, <2>2, <2>4, ReceiverQuiet
<1> QED BY <1>1, <1>2, <1>3, <1>4, <1>5, <1>6, <1>7 DEF Control, ReceiverFault

(* Init and every step of the transfer are Init and a step or a stutter of *)
(* the contract.                                                           *)
LEMMA InitContract == Init => ContractInv /\ Contract!Init
<1> SUFFICES ASSUME Init PROVE ContractInv /\ Contract!Init OBVIOUS
<1>1. sphase = "idle" /\ rphase = "listen" /\ complete = FALSE /\ events = <<>>
  BY DEF Init, SenderInit, ReceiverInit
<1>2. c2s \in Seq(PlainClientLines) /\ s2c \in Seq(PlainServerLines)
  BY DEF Init
<1>3. events \in Seq(PlainEvents) BY <1>1
<1>4. ContractInv
  BY <1>1, <1>2, <1>3 DEF Init, ContractInv, SameObject, Installed, NoEarlyComplete, NoEarlyAck
<1>5. SenderResult = "idle" /\ ReceiverResult = "idle"
  BY <1>1 DEF SenderResult, SenderActive, ReceiverResult, ReceiverActive
<1>6. offered \in Objects /\ dest \in Objects \cup {None}
  BY TransferAssumption DEF Init
<1> QED BY <1>4, <1>5, <1>6 DEF Contract!Init

LEMMA StartContract ==
    ASSUME IInv, StartSession
    PROVE  ContractInv' /\ Contract!Start
<1>1. PICK object \in Sources : SenderConnects(object) /\ ReceiverAccepts(object)
  BY DEF StartSession
<1>2. /\ ~SenderActive /\ ~ReceiverActive /\ sphase' = "accept" /\ rphase' = "open"
      /\ offered' = object /\ hello' = object /\ dest' = dest
      /\ complete' = FALSE /\ events' = <<>>
  BY <1>1 DEF SenderConnects, ReceiverAccepts, SenderMemoryReset, ReceiverMemoryReset,
              diskVars
<1>3. c2s' \in Seq(PlainClientLines) /\ s2c' \in Seq(PlainServerLines)
  BY DEF StartSession
<1>4. events' \in Seq(PlainEvents) BY <1>2
<1>5. ContractInv'
  BY <1>2, <1>3, <1>4 DEF ContractInv, SameObject, Installed, NoEarlyComplete, NoEarlyAck
<1>6. object \in Objects BY TransferAssumption
<1>7. SenderResult' = "busy" /\ ReceiverResult' = "busy"
  BY <1>2 DEF SenderResult, SenderActive, ReceiverResult, ReceiverActive
<1>8. sphase \in SenderPhases /\ rphase \in ReceiverPhases
  BY DEF IInv, Typed, TypeOK, SenderTypeOK, ReceiverTypeOK
<1>9. SenderResult \in {"idle", "ok", "error"}
  BY <1>2, <1>8 DEF SenderResult, SenderActive, SenderPhases
<1>10. ReceiverResult \in {"idle", "ok", "error"}
  BY <1>2, <1>8 DEF ReceiverResult, ReceiverActive, ReceiverPhases
<1> QED BY <1>2, <1>5, <1>6, <1>7, <1>9, <1>10 DEF Contract!Start, Contract!Done

LEMMA NextContract ==
    ASSUME IInv, [Next]_vars
    PROVE  ContractInv' /\ [Contract!Next]_(Contract!vars)
<1>1. CASE StartSession BY <1>1, StartContract DEF Contract!Next
<1>2. CASE \/ BySender(SenderMain) \/ BySender(Heartbeat)
           \/ BySender(SenderWriteFails) \/ BySender(Feedback)
  BY <1>2, SenderContract DEF BySender
<1>3. CASE ByReceiver(ReceiverMain) BY <1>3, ReceiverMainContract DEF ByReceiver
<1>4. CASE \/ ByReceiver(ReceiverWriteFails) \/ ByReceiver(Control)
           \/ \E c \in Chunks : Receive(c)
           \/ \E d \in net : ByReceiver(RecvInvalid(d))
           \/ PeriodicReport
  BY <1>4, ReceiverOtherContract DEF ByReceiver, Receive, PeriodicReport
<1>5. ASSUME UNCHANGED <<senderVars, receiverVars>>,
             c2s' \in {c2s, <<>>}, s2c' \in {s2c, <<>>}
      PROVE  ContractInv' /\ [Contract!Next]_(Contract!vars)
  <2>1. <<>> \in Seq(PlainClientLines) /\ <<>> \in Seq(PlainServerLines) OBVIOUS
  <2>2. s2c \in Seq(PlainServerLines) => s2c' \in Seq(PlainServerLines) BY <1>5, <2>1
  <2>3. c2s \in Seq(PlainClientLines) => c2s' \in Seq(PlainClientLines) BY <1>5, <2>1
  <2> QED BY <1>5, <2>2, <2>3, ReceiverQuiet DEF IInv, receiverVars
<1>6. CASE ByNetwork(Reset) BY <1>5, <1>6 DEF ByNetwork, Reset
<1>7. CASE Fault
  BY <1>5, <1>7, SenderContract, ReceiverOtherContract DEF Fault, Disconnect
<1>8. CASE UNCHANGED vars BY <1>5, <1>8 DEF vars, wireVars
<1> QED BY <1>1, <1>2, <1>3, <1>4, <1>6, <1>7, <1>8 DEF Next

(* The transfer implements its contract: the destination only ever becomes *)
(* the whole object of the session, the sender of send_udp_inner succeeds  *)
(* only when it is installed, and receive_udp only when the sender has,    *)
(* whatever is lost, repeated, reordered, crashed or edited.               *)
THEOREM ContractHolds == Spec => ContractKept
<1>1. Init => IInv /\ Contract!Init BY InitTyped, InitHash, InitContract DEF IInv
<1>2. IInv /\ [Next]_vars => IInv' /\ [Contract!Next]_(Contract!vars)
  BY NextTyped, NextHash, NextContract DEF IInv
<1> QED BY <1>1, <1>2, PTL DEF Spec, ContractKept, Contract!Spec

-----------------------------------------------------------------------------
(***************************************************************************)
(* 4. Durability.                                                          *)
(***************************************************************************)

(* The source and the datagrams of the session hold the offered object     *)
(* until somebody edits the source; those of earlier sessions have other   *)
(* session numbers.                                                        *)
SourceIntact == ~edited => src = offered

NetIntact ==
    \A d \in net : /\ d.sess <= sess
                   /\ ~edited /\ d.sess = sess => d.data = offered[d.seq]

(* What is on the receiver's disk: a session that receives is for an       *)
(* object not yet installed, and the map beside its .part file is its own  *)
(* and claims no more than its bitmap.                                     *)
(* From the copies of reused content until the final hash.                 *)
Holding == rphase = "reused" \/ InLoop

NotYetInstalled == rphase \in {"create", "reused", "recv", "drain"} => dest # hello

MapHasPart == map # None => part # None

MapOfSession ==
    /\ Holding => map # None /\ map.id = hello /\ map.chunks \subseteq bitmap
    /\ rphase = "create" => map = None \/ map.id # hello

BitmapTrue ==
    (~edited /\ ~torn /\ Holding) => \A c \in bitmap : part[c] = hello[c]

WireIntact == SourceIntact /\ NetIntact

DiskInv == NotYetInstalled /\ MapHasPart /\ MapOfSession

(* Datagrams of the session carry the object that it offered: one is made  *)
(* from a source nobody wrote to, and a new session has a number that no   *)
(* datagram in the network has.                                            *)
LEMMA TransmitIntact ==
    ASSUME Typed, WireIntact, UNCHANGED <<sess, src, offered, edited>>,
           NEW c \in Chunks, NEW repair \in BOOLEAN, Transmit(Datagram(c, repair))
    PROVE  WireIntact'
<1>1. net' \subseteq net \cup {Datagram(c, repair)} BY DEF Transmit
<1>2. sess \in Nat BY DEF Typed, TypeOK, WireTypeOK
<1>3. ASSUME NEW d \in net'
      PROVE  d.sess <= sess /\ (~edited /\ d.sess = sess => d.data = offered[d.seq])
  <2>1. CASE d \in net BY <2>1 DEF WireIntact, NetIntact
  <2>2. CASE d = Datagram(c, repair)
    BY <1>2, <2>2 DEF Datagram, WireIntact, SourceIntact
  <2> QED BY <1>1, <2>1, <2>2
<1> QED BY <1>3 DEF WireIntact, NetIntact, SourceIntact

LEMMA NextWireIntact ==
    ASSUME Typed, WireIntact, [Next]_vars
    PROVE  WireIntact'
<1>1. ASSUME net' \subseteq net, UNCHANGED <<sess, src, offered>>, edited => edited'
      PROVE  WireIntact'
  BY <1>1 DEF WireIntact, SourceIntact, NetIntact
<1>2. CASE StartSession
  <2>1. sess' = sess + 1 /\ net' = net /\ src' = offered' /\ edited' = edited
    BY <1>2 DEF StartSession, SenderConnects, history
  <2>2. sess \in Nat /\ \A d \in net : d.sess \in Nat
    BY DEF Typed, TypeOK, WireTypeOK, Datagrams
  <2>3. ASSUME NEW d \in net PROVE d.sess <= sess' /\ d.sess # sess'
    BY <2>1, <2>2 DEF WireIntact, NetIntact
  <2> QED BY <2>1, <2>3 DEF WireIntact, SourceIntact, NetIntact
<1>3. CASE BySender(SenderMain)
  <2>1. edited' = edited BY <1>3 DEF BySender, history
  <2>2. CASE PassSend
    <3>1. sequence \in Chunks
      BY <2>2, WireAssumption DEF PassSend, Typed, TypeOK, SenderTypeOK, Chunks
    <3> QED BY <2>1, <2>2, <3>1, TransmitIntact DEF PassSend
  <2>3. CASE SendRepair
    <3>1. Head(batch) \in Chunks
      BY <2>3, HeadTail DEF SendRepair, Typed, TypeOK, SenderTypeOK
    <3> QED BY <2>1, <2>3, <3>1, TransmitIntact DEF SendRepair
  <2> QED BY <1>1, <1>3, <2>1, <2>2, <2>3
          DEF BySender, SenderMain, AcceptReady, AcceptComplete, AcceptFails, PassSkip,
              PassEnd, RepairStep, FailOnFeedback, SenderFinish, SenderExits, wireVars
<1>4. CASE BySender(Heartbeat) \/ BySender(SenderWriteFails) \/ BySender(Feedback)
  BY <1>1, <1>4
     DEF BySender, Heartbeat, SenderWriteFails, SenderExits, Feedback, FbReport, FbPong,
         FbComplete, FbCancel, FbStopped, senderVars, wireVars, history
<1>5. CASE \/ ByReceiver(ReceiverMain) \/ ByReceiver(ReceiverWriteFails) \/ ByReceiver(Control)
  <2>1. UNCHANGED <<sess, net>>
    BY <1>5
       DEF ByReceiver, ReceiverMain, OpenComplete, OpenResume, OpenFresh, CreateMap,
           ReuseContent, BeginLoop, RetryAcked, RetryStopped, RecvTimeout, DrainEnd,
           AnswerPing, DrainStop,
           Finalize, Announce, AckWaitEnd, AckWaitStop, ReceiverWriteFails, Control,
           CtlLine, CtlStopped, wireVars
  <2> QED BY <1>1, <1>5, <2>1 DEF ByReceiver, senderVars, history
<1>6. CASE \/ \E c \in Chunks : Receive(c)
           \/ \E d \in net : ByReceiver(RecvInvalid(d))
  BY <1>1, <1>6
     DEF Receive, ByReceiver, RecvPacket, RecvInvalid, Remaining, senderVars, history
<1>7. CASE PeriodicReport
  BY <1>1, <1>7
     DEF PeriodicReport, ByReceiver, NoReport, Report, wireVars, senderVars, history
<1>8. CASE ByNetwork(Reset)
  BY <1>1, <1>8 DEF ByNetwork, Reset, senderVars, history
<1>9. CASE Fault
  <2>1. edited' = (edited \/ src' # src) BY <1>9 DEF Fault
  <2>2. UNCHANGED <<sess, net, offered>>
    BY <1>9
       DEF Fault, SenderFault, FbTimeout, SenderIoError, SenderCrash, SourceEdited,
           SenderExits, ReceiverFault, CtlTimeout, AckTimeout, RecvError, ReceiverCrash,
           PowerLoss, Disconnect, wireVars, senderVars
  <2>3. CASE src' = src
    <3>1. edited => edited' BY <2>1
    <3> QED BY <1>1, <2>2, <2>3, <3>1
  <2>4. CASE src' # src
    <3>1. edited' BY <2>1, <2>4
    <3> QED BY <2>2, <3>1 DEF WireIntact, SourceIntact, NetIntact
  <2> QED BY <2>3, <2>4
<1>10. CASE UNCHANGED vars
  BY <1>1, <1>10 DEF vars, wireVars, senderVars, history
<1> QED BY <1>2, <1>3, <1>4, <1>5, <1>6, <1>7, <1>8, <1>9, <1>10 DEF Next

(* The disk: the cases in which a step leaves it, and the receiver's view  *)
(* of it, as they were.                                                    *)
LEMMA NextDisk ==
    ASSUME Typed, DiskInv, [Next]_vars
    PROVE  DiskInv'
<1> DEFINE seen == <<hello, bitmap, part, map, dest>>
<1>0. Typed' BY NextTyped
<1>1. CASE UNCHANGED <<rphase, seen>>
  BY <1>1 DEF DiskInv, NotYetInstalled, MapHasPart, MapOfSession, Holding, InLoop
<1>2. ASSUME rphase' \notin {"create", "reused", "recv", "drain"}, MapHasPart'
      PROVE  DiskInv'
  BY <1>2 DEF DiskInv, NotYetInstalled, MapOfSession, Holding, InLoop
<1>3. CASE InLoop /\ InLoop' /\ UNCHANGED seen
  BY <1>3 DEF DiskInv, NotYetInstalled, MapHasPart, MapOfSession, Holding, InLoop
<1>4. ASSUME NEW result \in {"ok", "error"}, ReceiverExits(result), MapHasPart'
      PROVE  DiskInv'
  BY <1>2, <1>4 DEF ReceiverExits
<1>5. ASSUME UNCHANGED <<part, map>> PROVE MapHasPart'
  BY <1>5 DEF DiskInv, MapHasPart
<1>6. ASSUME InLoop, CheckpointIfDirty, part' = part PROVE MapHasPart'
  BY <1>6 DEF Typed, PartPresent, InLoop, MapHasPart
<1>7. ASSUME Holding, SaveReused
      PROVE  map' # None /\ map'.id = hello /\ map'.chunks \subseteq bitmap
  <2>1. CASE map' = map BY <1>7, <2>1 DEF DiskInv, MapOfSession
  <2>2. CASE map' = [id |-> hello, chunks |-> bitmap]
    <3>1. map' \in Maps BY <2>2 DEF Maps, Typed, TypeOK, ReceiverTypeOK
    <3> QED BY <2>2, <3>1, ReceiverAssumption
  <2> QED BY <1>7, <2>1, <2>2 DEF SaveReused, Checkpoint
<1>8. CASE StartSession
  BY <1>2, <1>5, <1>8 DEF StartSession, ReceiverAccepts, diskVars
<1>9. CASE ReceiverMain
  <2>1. CASE OpenComplete BY <1>2, <1>5, <2>1 DEF OpenComplete, diskVars
  <2>2. CASE OpenResume
    <3>1. /\ rphase' = "reused" /\ dest # hello /\ map # None /\ map.id = hello
          /\ map.chunks \subseteq bitmap' /\ UNCHANGED <<hello, dest, map>>
      BY <2>2 DEF OpenResume, AlreadyInstalled, MapTrusted, Loaded, ReuseContent
    <3>2. part' # None BY <1>0, <3>1 DEF Typed, PartPresent
    <3> QED BY <3>1, <3>2
            DEF DiskInv, NotYetInstalled, MapHasPart, MapOfSession, Holding, InLoop
  <2>3. CASE OpenFresh
    <3>1. /\ dest # hello /\ rphase' = "create" /\ part' = Blank
          /\ UNCHANGED <<map, hello, dest>>
      BY <2>3 DEF OpenFresh, AlreadyInstalled, memoryVars
    <3>2. Blank \in Objects BY WireAssumption DEF Blank, Objects
    <3>3. part' # None BY <3>1, <3>2, WireAssumption
    <3>4. map = None \/ map.id # hello
      BY <2>3 DEF OpenFresh, MapTrusted, DiskInv, MapHasPart
    <3> QED BY <3>1, <3>3, <3>4
            DEF DiskInv, NotYetInstalled, MapHasPart, MapOfSession, Holding, InLoop
  <2>4. CASE CreateMap
    <3>1. /\ rphase' = "reused" /\ dest # hello /\ UNCHANGED <<hello, dest>>
          /\ map' = [id |-> hello, chunks |-> {}]
      BY <2>4 DEF CreateMap, ReuseContent, Checkpoint, DiskInv, NotYetInstalled
    <3>2. map' \in Maps BY <3>1 DEF Maps, Typed, TypeOK, ReceiverTypeOK
    <3>3. map' # None /\ map'.id = hello /\ map'.chunks = {}
      BY <3>1, <3>2, ReceiverAssumption
    <3>4. part' # None BY <1>0, <3>1 DEF Typed, PartPresent
    <3> QED BY <3>1, <3>3, <3>4
            DEF DiskInv, NotYetInstalled, MapHasPart, MapOfSession, Holding, InLoop
  <2>5. CASE RetryAcked BY <1>4, <1>5, <2>5 DEF RetryAcked, diskVars
  <2>6. CASE RetryStopped BY <1>4, <1>5, <2>6 DEF RetryStopped, diskVars
  <2>7. CASE RecvTimeout BY <1>3, <2>7 DEF RecvTimeout, memoryVars, diskVars, InLoop
  <2>8. CASE DrainEnd BY <1>1, <2>8 DEF DrainEnd, diskVars
  <2>9. CASE AnswerPing BY <1>1, <2>9 DEF AnswerPing, diskVars
  <2>10. CASE DrainStop
    <3>1. MapHasPart' BY <1>5, <1>6, <2>10 DEF DrainStop, InLoop
    <3> QED BY <1>4, <2>10, <3>1 DEF DrainStop
  <2>11. CASE Finalize
    <3>1. /\ rphase' = "announce" \/ rphase' = "error"
          /\ (part' = None /\ map' = None) \/ UNCHANGED <<part, map>>
      BY <2>11 DEF Finalize, ReceiverExits
    <3>2. MapHasPart' BY <1>5, <3>1 DEF MapHasPart
    <3> QED BY <1>2, <3>1, <3>2
  <2>12. CASE Announce BY <1>2, <1>5, <2>12 DEF Announce, diskVars
  <2>13. CASE AckWaitEnd BY <1>1, <2>13 DEF AckWaitEnd, diskVars
  <2>14. CASE AckWaitStop BY <1>4, <1>5, <2>14 DEF AckWaitStop, diskVars
  <2>15. CASE BeginLoop
    <3>1. Holding /\ dest # hello /\ part # None
      BY <2>15 DEF BeginLoop, Holding, DiskInv, NotYetInstalled, Typed, PartPresent
    <3>2. rphase' = "recv" /\ SaveReused /\ UNCHANGED <<hello, bitmap, part, dest>>
      BY <2>15 DEF BeginLoop
    <3>3. map' # None /\ map'.id = hello /\ map'.chunks \subseteq bitmap
      BY <1>7, <3>1, <3>2
    <3> QED BY <3>1, <3>2, <3>3
            DEF DiskInv, NotYetInstalled, MapHasPart, MapOfSession, Holding, InLoop
  <2> QED BY <1>9, <2>1, <2>2, <2>3, <2>4, <2>5, <2>6, <2>7, <2>8, <2>9, <2>10,
             <2>11, <2>12, <2>13, <2>14, <2>15
          DEF ReceiverMain
<1>10. CASE ReceiverWriteFails
  <2>1. MapHasPart'
    <3>1. CASE map' = map BY <1>5, <1>10, <3>1 DEF ReceiverWriteFails
    <3>2. CASE rphase = "reused"
      BY <1>10, <3>2 DEF ReceiverWriteFails, Typed, PartPresent, MapHasPart
    <3> QED BY <1>10, <3>1, <3>2 DEF ReceiverWriteFails
  <2> QED BY <1>4, <1>10, <2>1 DEF ReceiverWriteFails
<1>11. CASE Control \/ CtlTimeout
  BY <1>1, <1>11 DEF Control, CtlLine, CtlStopped, CtlTimeout, diskVars
<1>12. ASSUME NEW d \in net, RecvPacket(d) \/ RecvInvalid(d)
       PROVE  DiskInv'
  <2>1. InLoop /\ InLoop' /\ UNCHANGED <<hello, map, dest>> /\ bitmap \subseteq bitmap'
    BY <1>12 DEF RecvPacket, RecvInvalid, InLoop, memoryVars, diskVars
  <2>2. part' # None BY <1>12, <2>1, RecvType DEF Typed, TypeOK, PartPresent, InLoop
  <2> QED BY <2>1, <2>2
          DEF DiskInv, NotYetInstalled, MapHasPart, MapOfSession, Holding, InLoop
<1>13. ASSUME NEW due \in BOOLEAN, NoReport(due) \/ \E end \in 0 .. N : Report(due, end)
       PROVE  DiskInv'
  <2>1. /\ InLoop /\ InLoop' /\ UNCHANGED <<hello, bitmap, part, dest>>
        /\ map' = map \/ map' = [id |-> hello, chunks |-> bitmap]
    BY <1>13 DEF NoReport, Report, Drained, CheckpointDue, Checkpoint, InLoop
  <2>2. CASE map' = map BY <1>3, <2>1, <2>2
  <2>3. CASE map' = [id |-> hello, chunks |-> bitmap]
    <3>1. map' \in Maps BY <2>3 DEF Maps, Typed, TypeOK, ReceiverTypeOK
    <3>2. map' # None /\ map'.id = hello /\ map'.chunks = bitmap
      BY <2>3, <3>1, ReceiverAssumption
    <3>3. part # None BY <2>1 DEF Typed, PartPresent, InLoop
    <3> QED BY <2>1, <3>2, <3>3
            DEF DiskInv, NotYetInstalled, MapHasPart, MapOfSession, Holding, InLoop
  <2> QED BY <2>1, <2>2, <2>3
<1>14. CASE ReceiverFault
  <2>1. CASE AckTimeout \/ ReceiverCrash
    BY <1>4, <1>5, <2>1 DEF AckTimeout, ReceiverCrash, diskVars
  <2>2. CASE RecvError
    <3>1. MapHasPart' BY <1>6, <2>2 DEF RecvError, InLoop
    <3> QED BY <1>4, <2>2, <3>1 DEF RecvError
  <2>3. CASE PowerLoss
    <3>1. part' \in Objects
      BY <2>3, WireAssumption DEF PowerLoss, Objects, Typed, TypeOK, ReceiverTypeOK
    <3>2. MapHasPart' BY <3>1, WireAssumption DEF MapHasPart
    <3> QED BY <1>4, <2>3, <3>2 DEF PowerLoss
  <2> QED BY <1>11, <1>14, <2>1, <2>2, <2>3 DEF ReceiverFault
<1>15. CASE UNCHANGED receiverVars BY <1>1, <1>15 DEF receiverVars
<1>16. CASE Fault BY <1>14, <1>15, <1>16 DEF Fault
<1> QED BY <1>8, <1>9, <1>10, <1>11, <1>12, <1>13, <1>15, <1>16
        DEF Next, BySender, ByReceiver, ByNetwork, Receive, PeriodicReport, vars

(* Without damage the chunks of the bitmap, and those that a map claims,   *)
(* hold the content of the object.                                         *)
TruthInv == BitmapTrue /\ MapClaimsAreTrue

Damaged == edited \/ torn

LEMMA DamageStays ==
    ASSUME [Next]_vars, Damaged
    PROVE  Damaged'
<1>1. CASE UNCHANGED <<edited, torn>> BY <1>1 DEF Damaged
<1>2. CASE Fault BY <1>2 DEF Fault, Damaged
<1> QED BY <1>1, <1>2
        DEF Next, StartSession, BySender, ByReceiver, ByNetwork, Receive, PeriodicReport,
            history, vars

LEMMA ReuseContentTrue ==
    ASSUME Typed, NEW held \in SUBSET Chunks, ReuseContent(held),
           \A c \in held : part[c] = hello[c]
    PROVE  \A c \in bitmap' : part'[c] = hello'[c]
<1>1. PICK copied \in SUBSET Reusable :
        /\ part' = [c \in Chunks |-> IF c \in copied THEN hello[c] ELSE part[c]]
        /\ bitmap' = held \cup copied
  BY DEF ReuseContent
<1>2. hello' = hello BY DEF ReuseContent
<1> QED BY <1>1, <1>2, ReceiverAssumption

LEMMA RecvTrue ==
    ASSUME Typed, WireIntact, SameObject, ~edited,
           NEW d \in net, RecvPacket(d), \A c \in bitmap : part[c] = hello[c]
    PROVE  \A c \in bitmap' : part'[c] = hello'[c]
<1>1. d.seq \in Chunks /\ hello' = hello
  BY DEF RecvPacket, Typed, TypeOK, WireTypeOK, Datagrams
<1>2. CASE FirstCopy(d.seq)
  <2>1. part' = [part EXCEPT ![d.seq] = d.data] /\ bitmap' = bitmap \cup {d.seq}
    BY <1>2 DEF RecvPacket
  <2>2. d.data = hello[d.seq]
    BY DEF RecvPacket, TagValid, WireIntact, NetIntact, SameObject
  <2>3. part \in Objects /\ bitmap \subseteq Chunks
    BY DEF RecvPacket, Typed, TypeOK, ReceiverTypeOK, PartPresent
  <2> QED BY <1>1, <2>1, <2>2, <2>3 DEF Objects
<1>3. CASE ~FirstCopy(d.seq) BY <1>1, <1>3 DEF RecvPacket
<1> QED BY <1>2, <1>3

LEMMA NextTruth ==
    ASSUME IInv, WireIntact, DiskInv, DiskInv', TruthInv, [Next]_vars
    PROVE  TruthInv'
<1> USE DEF IInv
<1> SUFFICES ASSUME ~edited', ~torn' PROVE TruthInv'
  BY DEF TruthInv, BitmapTrue, MapClaimsAreTrue
<1>0. ~edited /\ ~torn
  <2>1. ~Damaged' BY DEF Damaged
  <2>2. ~Damaged BY <2>1, DamageStays
  <2> QED BY <2>2 DEF Damaged
<1> DEFINE seen == <<hello, bitmap, part, map>>
(* Meanwhile the map is the session's and claims less than the bitmap.     *)
<1>1. ASSUME \/ ~Holding'
             \/ \A c \in bitmap' : part'[c] = hello'[c],
             Holding' \/ MapClaimsAreTrue'
      PROVE  TruthInv'
  BY <1>1 DEF TruthInv, BitmapTrue, MapClaimsAreTrue, DiskInv, MapOfSession
<1>2. Holding => \A c \in bitmap : part[c] = hello[c]
  BY <1>0 DEF TruthInv, BitmapTrue
<1>3. CASE UNCHANGED <<rphase, seen>>
  BY <1>0, <1>3 DEF TruthInv, BitmapTrue, MapClaimsAreTrue, Holding, InLoop
<1>4. CASE Holding /\ Holding' /\ UNCHANGED <<hello, bitmap, part>>
  BY <1>1, <1>2, <1>4
<1>5. ASSUME rphase # "create", ~Holding', UNCHANGED <<part, map>>
      PROVE  TruthInv'
  BY <1>0, <1>1, <1>5 DEF TruthInv, MapClaimsAreTrue
<1>6. ASSUME Holding, ~Holding', map' \in {map, [id |-> hello, chunks |-> bitmap]},
             part' = part
      PROVE  TruthInv'
  <2>1. CASE map' = map BY <1>5, <1>6, <2>1 DEF Holding, InLoop
  <2>2. CASE map' = [id |-> hello, chunks |-> bitmap]
    BY <1>1, <1>2, <1>6, <2>2 DEF MapClaimsAreTrue
  <2> QED BY <1>6, <2>1, <2>2
<1>7. ASSUME map' = None, ~Holding' PROVE TruthInv'
  BY <1>1, <1>7 DEF MapClaimsAreTrue
<1>8. CASE StartSession
  BY <1>5, <1>8 DEF StartSession, ReceiverAccepts, ReceiverActive, Holding, InLoop, diskVars
<1>9. CASE ReceiverMain
  <2>1. CASE OpenComplete BY <1>5, <2>1 DEF OpenComplete, Holding, InLoop, diskVars
  <2>2. CASE OpenResume
    <3>1. Loaded \in SUBSET Chunks
      BY <2>2 DEF OpenResume, MapTrusted, Loaded, Maps, Typed, TypeOK, ReceiverTypeOK
    <3>2. \A c \in Loaded : part[c] = hello[c]
      BY <1>0, <2>2 DEF OpenResume, MapTrusted, Loaded, TruthInv, MapClaimsAreTrue
    <3>3. \A c \in bitmap' : part'[c] = hello'[c]
      BY <2>2, <3>1, <3>2, ReuseContentTrue DEF OpenResume
    <3> QED BY <1>1, <2>2, <3>3 DEF OpenResume, ReuseContent, Holding
  <2>3. CASE OpenFresh BY <1>1, <2>3 DEF OpenFresh, Holding, InLoop, MapClaimsAreTrue
  <2>4. CASE CreateMap
    <3>1. \A c \in bitmap' : part'[c] = hello'[c]
      BY <2>4, ReuseContentTrue DEF CreateMap
    <3> QED BY <1>1, <2>4, <3>1 DEF CreateMap, ReuseContent, Holding
  <2>5. CASE RetryAcked BY <1>5, <2>5 DEF RetryAcked, ReceiverExits, Holding, InLoop, diskVars
  <2>6. CASE RetryStopped BY <1>5, <2>6 DEF RetryStopped, ReceiverExits, Holding, InLoop, diskVars
  <2>7. CASE RecvTimeout BY <1>4, <2>7 DEF RecvTimeout, memoryVars, diskVars, Holding, InLoop
  <2>8. CASE DrainEnd BY <1>3, <2>8 DEF DrainEnd, diskVars
  <2>9. CASE AnswerPing BY <1>3, <2>9 DEF AnswerPing, diskVars
  <2>10. CASE DrainStop
    BY <1>5, <1>6, <2>10
       DEF DrainStop, CheckpointIfDirty, Checkpoint, ReceiverExits, Holding, InLoop
  <2>11. CASE Finalize
    <3>1. /\ rphase = "drain" /\ rphase' \in {"announce", "error"}
          /\ map' = None \/ UNCHANGED <<part, map>>
      BY <2>11 DEF Finalize, Drained, ReceiverExits
    <3> QED BY <1>5, <1>7, <3>1 DEF Holding, InLoop
  <2>12. CASE Announce BY <1>5, <2>12 DEF Announce, Holding, InLoop, diskVars
  <2>13. CASE AckWaitEnd BY <1>3, <2>13 DEF AckWaitEnd, diskVars
  <2>14. CASE AckWaitStop BY <1>5, <2>14 DEF AckWaitStop, ReceiverExits, Holding, InLoop, diskVars
  <2>15. CASE BeginLoop BY <1>4, <2>15 DEF BeginLoop, Holding, InLoop
  <2> QED BY <1>9, <2>1, <2>2, <2>3, <2>4, <2>5, <2>6, <2>7, <2>8, <2>9, <2>10,
             <2>11, <2>12, <2>13, <2>14, <2>15
          DEF ReceiverMain
<1>10. CASE ReceiverWriteFails
  BY <1>5, <1>6, <1>10
     DEF ReceiverWriteFails, SaveReused, Checkpoint, Drained, ReceiverExits, Holding, InLoop
<1>11. CASE Control \/ CtlTimeout
  BY <1>3, <1>11 DEF Control, CtlLine, CtlStopped, CtlTimeout, diskVars
<1>12. CASE \E d \in net : RecvPacket(d)
  <2>1. PICK d \in net : RecvPacket(d) BY <1>12
  <2>2. Holding /\ Holding' BY <2>1 DEF RecvPacket, Holding, InLoop
  <2>3. \A c \in bitmap' : part'[c] = hello'[c]
    BY <1>0, <1>2, <2>1, <2>2, RecvTrue DEF ContractInv
  <2> QED BY <1>1, <2>2, <2>3
<1>13. CASE \E d \in net : RecvInvalid(d)
  BY <1>4, <1>13 DEF RecvInvalid, memoryVars, diskVars, Holding, InLoop
<1>14. ASSUME NEW due \in BOOLEAN, NoReport(due) \/ \E end \in 0 .. N : Report(due, end)
       PROVE  TruthInv'
  BY <1>4, <1>14 DEF NoReport, Report, Drained, Holding, InLoop
(* A crash between the truncation and the new map is damage, or there was  *)
(* no map.                                                                 *)
<1>15. CASE Fault /\ ReceiverFault
  <2>1. rphase = "create" /\ rphase' = "error" => map = None
    <3>1. torn' = (torn \/ (rphase = "create" /\ rphase' = "error" /\ map # None))
      BY <1>15 DEF Fault
    <3> QED BY <3>1
  <2>2. CASE ReceiverCrash \/ AckTimeout
    <3>1. rphase' = "error" /\ UNCHANGED <<part, map>>
      BY <2>2 DEF ReceiverCrash, AckTimeout, ReceiverExits, diskVars
    <3> QED BY <1>5, <1>7, <2>1, <3>1 DEF Holding, InLoop
  <2>3. CASE RecvError 
    BY <1>6, <2>3 DEF RecvError, CheckpointIfDirty, Checkpoint, ReceiverExits, Holding, InLoop
  <2>4. CASE PowerLoss
    <3>1. rphase' = "error" /\ map' = map BY <2>4 DEF PowerLoss, ReceiverExits
    <3>2. CASE map = None BY <1>7, <3>1, <3>2 DEF Holding, InLoop
    <3>3. CASE map # None
      <4>1. map.chunks \subseteq Chunks
        BY <3>3 DEF Typed, TypeOK, ReceiverTypeOK, Maps
      <4>2. part # None /\ \A c \in map.chunks : part'[c] = part[c]
        BY <2>4, <3>3, <4>1 DEF PowerLoss
      <4>3. \A c \in map.chunks : part[c] = map.id[c]
        BY <1>0, <2>1, <3>1, <3>3, <4>2 DEF TruthInv, MapClaimsAreTrue
      <4> QED BY <1>1, <3>1, <4>2, <4>3 DEF MapClaimsAreTrue, Holding, InLoop
    <3> QED BY <3>2, <3>3
  <2> QED BY <1>11, <1>15, <2>2, <2>3, <2>4 DEF ReceiverFault
<1>16. CASE UNCHANGED receiverVars BY <1>3, <1>16 DEF receiverVars
<1>17. CASE Fault BY <1>15, <1>16, <1>17 DEF Fault
<1> QED BY <1>8, <1>9, <1>10, <1>11, <1>12, <1>13, <1>14, <1>16, <1>17
        DEF Next, BySender, ByReceiver, ByNetwork, Receive, PeriodicReport, vars

(* A full count is a full bitmap, and an undamaged full bitmap the object. *)
LEMMA FullCountIsObject ==
    ASSUME Typed, HashInv, TruthInv, ~Damaged, InLoop, received = N,
           NEW end \in RunEnds(bitmap, hash_frontier), end = N
    PROVE  HashMatches(Fed(part, hasher, hash_frontier, end))
<1>1. /\ part \in Objects /\ hello \in Objects /\ hash_frontier \in 0 .. N
      /\ \A c \in 0 .. hash_frontier - 1 : c \in bitmap /\ hasher[c] = part[c]
  BY DEF Typed, TypeOK, ReceiverTypeOK, PartPresent, InLoop, HashInv, HashedPrefixIsOnDisk
<1>2. \A c \in hash_frontier .. N - 1 : c \in bitmap BY <1>1, RunEndsType
<1>3. ASSUME NEW c \in Chunks
      PROVE  /\ c \in bitmap
             /\ (IF c < hash_frontier THEN hasher[c] ELSE part[c]) = part[c]
  <2>1. c \in 0 .. hash_frontier - 1 \/ c \in hash_frontier .. N - 1
    BY <1>1, WireAssumption DEF Chunks
  <2>2. c < hash_frontier => c \in 0 .. hash_frontier - 1
    BY <1>1, WireAssumption DEF Chunks
  <2> QED BY <1>1, <1>2, <2>1, <2>2
<1>4. \A c \in Chunks : part[c] = hello[c]
  BY <1>3 DEF TruthInv, BitmapTrue, Damaged, Holding
<1>5. Fed(part, hasher, hash_frontier, end)
        = [c \in Chunks |-> IF c < hash_frontier THEN hasher[c] ELSE part[c]]
  BY DEF Fed, Chunks
<1>6. Fed(part, hasher, hash_frontier, end) = hello
  BY <1>1, <1>3, <1>4, <1>5 DEF Objects
<1> QED BY <1>6 DEF HashMatches

DiskIInv == IInv /\ WireIntact /\ DiskInv /\ TruthInv

(* A .part file disappears by an install, or by a discard after damage.    *)
LEMMA DiscardStep ==
    ASSUME DiskIInv, [Next]_vars, part # None, part' = None, dest' = dest
    PROVE  Damaged
<1> USE DEF DiskIInv, IInv
<1>1. CASE Finalize
  <2>1. PICK end \in RunEnds(bitmap, hash_frontier) :
          IF HashMatches(Fed(part, hasher, hash_frontier, end))
          THEN dest' = part
          ELSE end = N \/ part' = part
    BY <1>1 DEF Finalize
  <2>2. InLoop /\ received = N BY <1>1 DEF Finalize, Drained, AllReceived, InLoop
  <2>3. CASE HashMatches(Fed(part, hasher, hash_frontier, end))
    <3>1. part = hello BY <2>2, <2>3, MatchIsWhole
    <3>2. dest # hello BY <2>2 DEF DiskInv, NotYetInstalled, InLoop
    <3> QED BY <2>1, <2>3, <3>1, <3>2
  <2>4. CASE ~HashMatches(Fed(part, hasher, hash_frontier, end))
    BY <2>1, <2>2, <2>4, FullCountIsObject
  <2> QED BY <2>3, <2>4
<1>2. CASE part' = part BY <1>2
<1>3. CASE part' \in Objects BY <1>3, WireAssumption
<1>4. CASE Typed' /\ rphase' \in {"create", "reused", "recv", "drain"}
  BY <1>4 DEF Typed, PartPresent
<1>5. Typed' BY NextTyped
<1>6. CASE ReceiverMain
  BY <1>1, <1>2, <1>4, <1>5, <1>6
     DEF ReceiverMain, OpenComplete, OpenResume, OpenFresh, CreateMap, ReuseContent,
         BeginLoop, RetryAcked, RetryStopped, RecvTimeout, DrainEnd, AnswerPing, DrainStop,
         Announce, AckWaitEnd, AckWaitStop, diskVars
<1>7. CASE ReceiverWriteFails \/ Control
  BY <1>2, <1>7 DEF ReceiverWriteFails, Control, CtlLine, CtlStopped, diskVars
<1>8. CASE \E d \in net : RecvPacket(d) \/ RecvInvalid(d)
  BY <1>4, <1>5, <1>8 DEF RecvPacket, RecvInvalid
<1>9. ASSUME NEW due \in BOOLEAN, NoReport(due) \/ \E end \in 0 .. N : Report(due, end)
      PROVE  Damaged
  BY <1>2, <1>9 DEF NoReport, Report
<1>10. CASE ReceiverFault
  <2>1. CASE PowerLoss
    <3>1. part \in Objects BY DEF Typed, TypeOK, ReceiverTypeOK
    <3>2. part' \in Objects BY <2>1, <3>1, WireAssumption DEF PowerLoss, Objects
    <3> QED BY <1>3, <3>2
  <2> QED BY <1>2, <1>10, <2>1
          DEF ReceiverFault, CtlTimeout, AckTimeout, RecvError, ReceiverCrash, diskVars
<1>11. CASE UNCHANGED receiverVars BY <1>2, <1>11 DEF receiverVars
<1>12. CASE StartSession BY <1>2, <1>12 DEF StartSession, ReceiverAccepts, diskVars
<1> QED BY <1>6, <1>7, <1>8, <1>9, <1>10, <1>11, <1>12
        DEF Next, BySender, ByReceiver, ByNetwork, Receive, PeriodicReport, Fault, vars

(* A map that stays with its object loses no chunk.                        *)
LEMMA MapGrows ==
    ASSUME Typed, DiskInv, [Next]_vars, map # None, map' # None, map'.id = map.id
    PROVE  map.chunks \subseteq map'.chunks
<1>1. CASE map' = map BY <1>1
<1>2. CASE map' = None BY <1>2
<1>3. CASE Holding /\ map' = [id |-> hello, chunks |-> bitmap]
  BY <1>3 DEF DiskInv, MapOfSession
<1>4. CASE rphase = "reused" /\ SaveReused
  BY <1>1, <1>3, <1>4 DEF SaveReused, Checkpoint, Holding
<1>5. CASE CreateMap
  <2>1. map' = [id |-> hello, chunks |-> {}] BY <1>5 DEF CreateMap, Checkpoint
  <2>2. map.id # hello BY <1>5 DEF CreateMap, DiskInv, MapOfSession
  <2> QED BY <2>1, <2>2
<1>6. CASE ReceiverMain
  BY <1>1, <1>2, <1>3, <1>4, <1>5, <1>6
     DEF ReceiverMain, OpenComplete, OpenResume, OpenFresh, BeginLoop, RetryAcked,
         RetryStopped, RecvTimeout, DrainEnd, AnswerPing, DrainStop, CheckpointIfDirty,
         Checkpoint, Finalize,
         Announce, AckWaitEnd, AckWaitStop, diskVars, Holding, InLoop
<1>7. CASE ReceiverWriteFails \/ Control
  BY <1>1, <1>4, <1>7 DEF ReceiverWriteFails, Control, CtlLine, CtlStopped, diskVars
<1>8. CASE \E d \in net : RecvPacket(d) \/ RecvInvalid(d)
  BY <1>1, <1>8 DEF RecvPacket, RecvInvalid, diskVars
<1>9. ASSUME NEW due \in BOOLEAN, NoReport(due) \/ \E end \in 0 .. N : Report(due, end)
      PROVE  map.chunks \subseteq map'.chunks
  BY <1>1, <1>3, <1>9 DEF NoReport, Report, Drained, CheckpointDue, Checkpoint, Holding, InLoop
<1>10. CASE ReceiverFault
  BY <1>1, <1>3, <1>10
     DEF ReceiverFault, CtlTimeout, AckTimeout, RecvError, ReceiverCrash, PowerLoss,
         CheckpointIfDirty, Checkpoint, diskVars, Holding, InLoop
<1>11. CASE UNCHANGED receiverVars BY <1>1, <1>11 DEF receiverVars
<1>12. CASE StartSession BY <1>1, <1>12 DEF StartSession, ReceiverAccepts, diskVars
<1> QED BY <1>6, <1>7, <1>8, <1>9, <1>10, <1>11, <1>12
        DEF Next, BySender, ByReceiver, ByNetwork, Receive, PeriodicReport, Fault, vars

LEMMA InitDisk == Init => DiskIInv
<1> SUFFICES ASSUME Init PROVE DiskIInv OBVIOUS
<1>1. IInv BY InitTyped, InitHash, InitContract DEF IInv
<1>2. WireIntact BY DEF Init, SenderInit, WireIntact, SourceIntact, NetIntact
<1>3. DiskInv /\ TruthInv
  BY DEF Init, ReceiverInit, DiskInv, NotYetInstalled, MapHasPart, MapOfSession, Holding,
         InLoop, TruthInv, BitmapTrue, MapClaimsAreTrue
<1> QED BY <1>1, <1>2, <1>3 DEF DiskIInv

LEMMA NextDiskIInv == DiskIInv /\ [Next]_vars => DiskIInv'
<1> SUFFICES ASSUME DiskIInv, [Next]_vars PROVE DiskIInv' OBVIOUS
<1>1. IInv' BY NextTyped, NextHash, NextContract DEF DiskIInv, IInv
<1>2. WireIntact' /\ DiskInv' BY NextWireIntact, NextDisk DEF DiskIInv, IInv
<1>3. TruthInv' BY <1>2, NextTruth DEF DiskIInv
<1> QED BY <1>1, <1>2, <1>3 DEF DiskIInv

(* What a .part.map claims is in the .part file, with the content of the   *)
(* object the map is for, after any number of sessions, crashes and power  *)
(* losses, unless a source was edited while it was sent or ResumeState::   *)
(* open was interrupted between its truncation and its new map.            *)
THEOREM MapIsTrue == Spec => []MapClaimsAreTrue
<1>1. DiskIInv => MapClaimsAreTrue BY DEF DiskIInv, TruthInv
<1> QED BY InitDisk, NextDiskIInv, <1>1, PTL DEF Spec

(* receive_udp discards a .part file only after one of those two: nothing  *)
(* that the network loses, repeats, reorders or delays past its session    *)
(* makes the final hash of an unchanged source fail.                       *)
THEOREM DiscardNeedsDamage == Spec => DiscardOnlyAfterDamage
<1>1. DiskIInv /\ [Next]_vars
        => [part # None /\ part' = None /\ dest' = dest => edited \/ torn]_vars
  BY DiscardStep DEF Damaged
<1> QED BY InitDisk, NextDiskIInv, <1>1, PTL DEF Spec, DiscardOnlyAfterDamage

(* While the map on disk is for one object, each checkpoint and each       *)
(* resumed session keeps every chunk it claims.                            *)
THEOREM DurableProgress == Spec => DurableProgressGrows
<1>1. DiskIInv /\ [Next]_vars
        => [map # None /\ map' # None /\ map'.id = map.id
              => map.chunks \subseteq map'.chunks]_vars
  BY MapGrows DEF DiskIInv, IInv
<1> QED BY InitDisk, NextDiskIInv, <1>1, PTL DEF Spec, DurableProgressGrows

-----------------------------------------------------------------------------
(***************************************************************************)
(* 5. A history without faults.                                            *)
(***************************************************************************)

(* As long as there was no fault the sender is well and connected, reads   *)
(* no CANCEL, and serves the receiver's loop; a receiver that finds its    *)
(* object installed already sends nothing but COMPLETE.                    *)
Routine == {"END", "PING"}
NoCancelLines == {line \in ServerLines : line.type # "CANCEL"}
DoneLines == {line \in ServerLines : line.type = "COMPLETE"}

SenderWell ==
    /\ sphase # "error" /\ ~feedback_error
    /\ fb = "run" => sphase \in {"pass", "repair"}

Connected ==
    SenderActive => /\ conn = {"S", "R"}
                    /\ c2s \in Seq(Routine) /\ events \in Seq(Routine)

Opening ==
    /\ sphase = "accept" => c2s = <<>>
    /\ rphase \in {"open", "create", "reused"} => sphase = "accept" /\ s2c = <<>>

Retrying ==
    rphase = "retry" => /\ sphase \in {"accept", "ok"}
                        /\ c2s \in Seq({"COMPLETE_ACK"}) /\ s2c \in Seq(DoneLines)

LoopServed == InLoop => SenderActive

FailsInstalled == rphase = "error" => dest = hello

Clean ==
    /\ ~Damaged
    /\ SenderWell /\ Connected /\ s2c \in Seq(NoCancelLines)
    /\ Opening /\ Retrying /\ LoopServed /\ FailsInstalled

CleanIInv == DiskIInv /\ (faults = 0 => Clean)

(* received_count = N means that no chunk is missing: no gap is found.     *)
LEMMA FullCountNoGap ==
    ASSUME Typed, HashInv, InLoop, received = N,
           NEW end \in RunEnds(bitmap, hash_frontier)
    PROVE  end = N
<1>1. bitmap \subseteq Chunks /\ hash_frontier \in 0 .. N
  BY DEF Typed, TypeOK, ReceiverTypeOK
<1>2. Cardinality(bitmap) = N BY DEF HashInv, CountIsBitmap
<1>3. Cardinality(Chunks) = N BY WireAssumption, FS_Interval DEF Chunks
<1>4. bitmap = Chunks BY <1>1, <1>2, <1>3, ChunksFinite, FS_Subset
<1>5. end \in 0 .. N /\ (end < N => end \notin bitmap)
  BY <1>1, RunEndsType DEF RunEnds
<1> QED BY <1>4, <1>5, WireAssumption DEF Chunks

(* Lines that are routine stay routine when one is read.                   *)
LEMMA TailsStay ==
    ASSUME NEW S, NEW s \in Seq(S), NEW t, t = s \/ (s # <<>> /\ t = Tail(s))
    PROVE  t \in Seq(S)
BY HeadTail

(* A step of a sender that goes on.                                        *)
LEMMA SenderKeepsClean ==
    ASSUME Clean, UNCHANGED <<receiverVars, history, conn, feedback_error>>,
           SenderActive, SenderActive', fb' = "run" => sphase' \in {"pass", "repair"},
           c2s' \in Seq(Routine),
           s2c' = s2c \/ (s2c # <<>> /\ s2c' = Tail(s2c)),
           sphase = "accept" /\ (s2c = <<>> \/ rphase = "retry") => sphase' = sphase,
           sphase' = "accept" => sphase = "accept" /\ c2s' = c2s
    PROVE  Clean'
<1>1. s2c' \in Seq(NoCancelLines) BY TailsStay DEF Clean
<1>2. ~Damaged' BY DEF Clean, Damaged, history
<1>3. SenderWell' BY DEF Clean, SenderWell, SenderActive
<1>4. Connected' BY DEF Clean, Connected, receiverVars
<1>5. Opening' BY DEF Clean, Opening, receiverVars
<1>6. Retrying'
  <2>1. CASE rphase = "retry"
    <3>1. s2c \in Seq(DoneLines) BY <2>1 DEF Clean, Retrying
    <3>2. s2c' \in Seq(DoneLines) BY <3>1, TailsStay
    <3>3. sphase = "accept" BY <2>1 DEF Clean, Retrying, SenderActive
    <3> QED BY <2>1, <3>2, <3>3 DEF Clean, Retrying, receiverVars
  <2> QED BY <2>1 DEF Retrying, receiverVars
<1>7. LoopServed' /\ FailsInstalled'
  BY DEF Clean, LoopServed, FailsInstalled, InLoop, receiverVars
<1> QED BY <1>1, <1>2, <1>3, <1>4, <1>5, <1>6, <1>7 DEF Clean

(* A sender that returns success leaves a receiver past its install.       *)
LEMMA SenderEndsClean ==
    ASSUME DiskIInv, Clean, UNCHANGED <<receiverVars, history>>, SenderActive,
           SenderExits("ok"), dest = offered,
           rphase \notin {"open", "create", "reused"},
           s2c' = s2c \/ (s2c # <<>> /\ s2c' = Tail(s2c)),
           rphase = "retry" => c2s' \in Seq({"COMPLETE_ACK"})
    PROVE  Clean'
<1>1. s2c' \in Seq(NoCancelLines) BY TailsStay DEF Clean
<1>2. ~Damaged' BY DEF Clean, Damaged, history
<1>3. /\ sphase' = "ok" /\ fb' = "off" /\ feedback_error' = FALSE
      /\ UNCHANGED <<rphase, dest, hello>>
  BY DEF SenderExits, SenderMemoryReset, receiverVars
<1>4. SenderWell' /\ ~SenderActive' BY <1>3 DEF SenderWell, SenderActive
<1>5. Connected' /\ Opening' BY <1>3, <1>4 DEF Connected, Opening
<1>6. Retrying'
  <2>1. CASE rphase = "retry"
    <3>1. s2c \in Seq(DoneLines) BY <2>1 DEF Clean, Retrying
    <3>2. s2c' \in Seq(DoneLines) BY <3>1, TailsStay
    <3> QED BY <1>3, <2>1, <3>2 DEF Retrying
  <2> QED BY <1>3, <2>1 DEF Retrying
<1>7. ~InLoop
  BY DEF DiskIInv, IInv, ContractInv, SameObject, DiskInv, NotYetInstalled, InLoop
<1>8. LoopServed' /\ FailsInstalled'
  BY <1>3, <1>7 DEF Clean, LoopServed, FailsInstalled, InLoop
<1> QED BY <1>1, <1>2, <1>4, <1>5, <1>6, <1>8 DEF Clean

LEMMA SenderStepsClean ==
    ASSUME DiskIInv, Clean, UNCHANGED <<receiverVars, history>>,
           SenderMain \/ Heartbeat \/ SenderWriteFails \/ Feedback
    PROVE  Clean'
<1>1. SenderActive => conn = {"S", "R"} /\ c2s \in Seq(Routine) BY DEF Clean, Connected
<1>2. ASSUME SenderActive, NEW line \in Routine, SendToReceiver(line)
      PROVE  c2s' \in Seq(Routine)
  BY <1>1, <1>2 DEF SendToReceiver
<1>3. ~feedback_error /\ (fb = "run" => sphase \in {"pass", "repair"})
  BY DEF Clean, SenderWell
<1>4. s2c # <<>> => Head(s2c) \in NoCancelLines BY HeadTail DEF Clean
<1>5. rphase = "retry" /\ s2c # <<>> => Head(s2c) \in DoneLines
  BY HeadTail DEF Clean, Retrying
<1>6. rphase \in {"open", "create", "reused"} => s2c = <<>> /\ sphase = "accept"
  BY DEF Clean, Opening
<1>7. complete => dest = offered BY DEF DiskIInv, IInv, ContractInv, NoEarlyComplete
<1>8. CASE AcceptReady
  <2>1. rphase # "retry" BY <1>5, <1>8 DEF AcceptReady, DoneLines
  <2> QED BY <1>1, <1>8, <2>1, SenderKeepsClean DEF AcceptReady, SenderActive
<1>9. CASE AcceptComplete
  <2>1. dest = offered
    BY <1>9, CompleteMeansInstalled DEF AcceptComplete, DiskIInv, IInv
  <2>2. c2s = <<>> BY <1>9 DEF AcceptComplete, Clean, Opening
  <2>3. c2s' \in Seq({"COMPLETE_ACK"})
    <3>1. c2s' = Append(c2s, "COMPLETE_ACK") \/ c2s' = c2s
      BY <1>9 DEF AcceptComplete, SendToReceiver
    <3>2. c2s \in Seq({"COMPLETE_ACK"}) BY <2>2
    <3> QED BY <3>1, <3>2
  <2> QED BY <1>6, <1>9, <2>1, <2>3, SenderEndsClean DEF AcceptComplete, SenderActive
<1>10. ~AcceptFails
  BY <1>1 DEF AcceptFails, SenderAtEOF, SenderActive
<1>11. CASE PassSkip
  BY <1>1, <1>3, <1>11, SenderKeepsClean DEF PassSkip, wireVars, SenderActive
<1>12. CASE PassSend
  BY <1>1, <1>3, <1>12, SenderKeepsClean DEF PassSend, SenderActive
<1>13. CASE PassEnd
  <2>1. c2s' \in Seq(Routine) BY <1>2, <1>13 DEF PassEnd, SenderActive, Routine
  <2> QED BY <1>13, <2>1, SenderKeepsClean DEF PassEnd, SenderActive
<1>14. CASE RepairStep
  BY <1>1, <1>3, <1>14, SenderKeepsClean DEF RepairStep, wireVars, SenderActive
<1>15. CASE SendRepair
  BY <1>1, <1>3, <1>15, SenderKeepsClean DEF SendRepair, SenderActive
<1>16. ~FailOnFeedback BY <1>3 DEF FailOnFeedback
<1>17. CASE SenderFinish
  <2>1. rphase # "retry" BY <1>17 DEF SenderFinish, Clean, Retrying
  <2> QED BY <1>6, <1>7, <1>17, <2>1, SenderEndsClean DEF SenderFinish, SenderActive
<1>18. CASE Heartbeat
  <2>1. SenderActive /\ sphase # "accept" BY <1>18 DEF Heartbeat, AtLoopTop, SenderActive
  <2>2. c2s' \in Seq(Routine) BY <1>2, <1>18, <2>1 DEF Heartbeat, Routine
  <2> QED BY <1>3, <1>18, <2>1, <2>2, SenderKeepsClean DEF Heartbeat, senderVars, SenderActive
<1>19. ~SenderWriteFails BY <1>1 DEF SenderWriteFails
<1>20. CASE \E expired \in SUBSET rq.last_sent : FbReport(expired)
  BY <1>1, <1>3, <1>20, SenderKeepsClean DEF FbReport, FbReads, SenderActive
<1>21. CASE FbPong
  BY <1>1, <1>3, <1>21, SenderKeepsClean DEF FbPong, FbReads, SenderActive, senderVars
<1>22. CASE FbComplete
  BY <1>1, <1>3, <1>22, SenderKeepsClean DEF FbComplete, FbReads, SenderActive
<1>23. ~FbCancel BY <1>4 DEF FbCancel, FbReads, NoCancelLines
<1>24. ~FbStopped BY <1>1, <1>3 DEF FbStopped, SenderAtEOF, SenderActive
<1> QED BY <1>8, <1>9, <1>10, <1>11, <1>12, <1>13, <1>14, <1>15, <1>16, <1>17, <1>18,
           <1>19, <1>20, <1>21, <1>22, <1>23, <1>24
        DEF SenderMain, Feedback

(* A step of a receiver that goes on.                                      *)
LEMMA ReceiverKeepsClean ==
    ASSUME Clean, UNCHANGED <<senderVars, history, conn, hello>>,
           rphase' = "error" => rphase = "error" /\ dest' = dest,
           c2s' = c2s \/ (c2s # <<>> /\ c2s' = Tail(c2s)),
           SenderActive => events' \in Seq(Routine),
           s2c' \in Seq(NoCancelLines),
           rphase' \in {"open", "create", "reused"}
             => rphase \in {"open", "create", "reused"} /\ s2c' = s2c,
           rphase' = "retry" => /\ rphase \in {"open", "retry"}
                                /\ rphase = "retry" => s2c' = s2c
                                /\ rphase = "open" => c2s' = c2s /\ s2c' \in Seq(DoneLines),
           InLoop' => Holding
    PROVE  Clean'
<1>1. ~Damaged' /\ SenderWell' BY DEF Clean, Damaged, SenderWell, history, senderVars
<1>2. Connected'
  <2>1. SenderActive => c2s' \in Seq(Routine) BY TailsStay DEF Clean, Connected
  <2> QED BY <2>1 DEF Clean, Connected, SenderActive, senderVars
<1>3. Opening' BY DEF Clean, Opening, senderVars
<1>4. Retrying'
  <2>1. CASE rphase' = "retry" /\ rphase = "retry"
    <3>1. c2s \in Seq({"COMPLETE_ACK"}) BY <2>1 DEF Clean, Retrying
    <3>2. c2s' \in Seq({"COMPLETE_ACK"}) BY <3>1, TailsStay
    <3> QED BY <2>1, <3>2 DEF Clean, Retrying, senderVars
  <2>2. CASE rphase' = "retry" /\ rphase = "open"
    <3>1. sphase = "accept" /\ c2s = <<>> BY <2>2 DEF Clean, Opening
    <3>2. c2s' \in Seq({"COMPLETE_ACK"}) BY <2>2, <3>1
    <3> QED BY <2>2, <3>1, <3>2 DEF Retrying, senderVars
  <2> QED BY <2>1, <2>2 DEF Retrying
<1>5. LoopServed' BY DEF Clean, LoopServed, Opening, Holding, SenderActive, senderVars
<1>6. FailsInstalled' BY DEF Clean, FailsInstalled
<1> QED BY <1>1, <1>2, <1>3, <1>4, <1>5, <1>6 DEF Clean

(* A receiver that exits has no sender to disappoint.                      *)
LEMMA ReceiverEndsClean ==
    ASSUME Clean, UNCHANGED <<senderVars, history, dest>>, NEW result \in {"ok", "error"},
           ReceiverExits(result), ~SenderActive, result = "error" => dest = hello,
           s2c' = s2c
    PROVE  Clean'
<1>1. rphase' = result /\ hello' = hello BY DEF ReceiverExits
<1>2. ~SenderActive' /\ sphase' # "accept" BY DEF SenderActive, senderVars
<1>3. ~Damaged' /\ SenderWell' BY DEF Clean, Damaged, SenderWell, history, senderVars
<1>4. Connected' /\ Opening' /\ Retrying' /\ LoopServed' /\ FailsInstalled'
  BY <1>1, <1>2 DEF Connected, Opening, Retrying, LoopServed, FailsInstalled, InLoop
<1> QED BY <1>3, <1>4 DEF Clean

LEMMA ReceiverMainClean ==
    ASSUME DiskIInv, Clean, UNCHANGED <<senderVars, history>>, ReceiverMain
    PROVE  Clean'
<1> USE DEF DiskIInv, IInv
<1>1. SenderActive => conn = {"S", "R"} /\ events \in Seq(Routine) BY DEF Clean, Connected
<1>2. SenderActive /\ events # <<>>
        => Head(events) \in Routine /\ Tail(events) \in Seq(Routine)
  BY <1>1, HeadTail
<1>3. ASSUME NEW line \in NoCancelLines, SendToSender(line)
      PROVE  s2c' \in Seq(NoCancelLines)
  BY <1>3 DEF Clean, SendToSender
<1>4. \A type \in {"READY", "PONG", "COMPLETE", "M"}, chunks \in SUBSET Chunks :
        Line(type, chunks) \in NoCancelLines
  BY DEF Line, NoCancelLines, ServerLines
<1>5. s2c \in Seq(NoCancelLines) BY DEF Clean
<1>6. rphase \in {"announce", "ackwait", "retry"} => dest = hello
  BY DEF ContractInv, Installed, SameObject
<1>7. CASE BeginLoop
  <2>1. Line("READY", bitmap) \in NoCancelLines
    BY <1>4 DEF Typed, TypeOK, ReceiverTypeOK
  <2>2. s2c' \in Seq(NoCancelLines) BY <1>3, <1>7, <2>1 DEF BeginLoop
  <2>3. /\ rphase = "reused" /\ rphase' = "recv"
        /\ UNCHANGED <<conn, c2s, hello, events>>
    BY <1>7 DEF BeginLoop
  <2> QED BY <1>1, <2>2, <2>3, ReceiverKeepsClean DEF Holding
<1>8. CASE OpenComplete
  <2>1. s2c' \in Seq(NoCancelLines) BY <1>3, <1>4, <1>8 DEF OpenComplete
  <2>2. s2c' \in Seq(DoneLines)
    <3>1. Line("COMPLETE", {}) \in DoneLines BY DEF Line, DoneLines, ServerLines
    <3>2. s2c = <<>> BY <1>8 DEF OpenComplete, Clean, Opening
    <3>3. s2c \in Seq(DoneLines) BY <3>2
    <3> QED BY <1>8, <3>1, <3>3 DEF OpenComplete, SendToSender
  <2>3. /\ rphase = "open" /\ rphase' = "retry"
        /\ UNCHANGED <<conn, c2s, hello, events>>
    BY <1>8 DEF OpenComplete, memoryVars
  <2> QED BY <1>1, <2>1, <2>2, <2>3, ReceiverKeepsClean DEF Holding, InLoop
<1>9. CASE OpenResume \/ CreateMap
  <2>1. /\ rphase \in {"open", "create"} /\ rphase' = "reused"
        /\ UNCHANGED <<conn, c2s, s2c, hello, events>>
    BY <1>9 DEF OpenResume, CreateMap, ReuseContent, wireVars
  <2> QED BY <1>1, <1>5, <2>1, ReceiverKeepsClean DEF Holding, InLoop
<1>10. CASE OpenFresh
  BY <1>1, <1>5, <1>10, ReceiverKeepsClean DEF OpenFresh, wireVars, memoryVars, Holding, InLoop
<1>11. CASE RetryAcked
  <2>1. sphase # "accept" /\ c2s \in Seq({"COMPLETE_ACK"})
    BY <1>11 DEF RetryAcked, Clean, Opening, Retrying
  <2>2. ~SenderActive BY <1>11, <2>1 DEF RetryAcked, Clean, Retrying, SenderActive
  <2> QED BY <1>6, <1>11, <2>2, ReceiverEndsClean DEF RetryAcked, diskVars
<1>12. CASE RetryStopped
  <2>1. ~SenderActive BY <1>1, <1>12 DEF RetryStopped, ReceiverAtEOF
  <2> QED BY <1>6, <1>12, <2>1, ReceiverEndsClean DEF RetryStopped, diskVars
<1>13. CASE RecvTimeout
  BY <1>1, <1>5, <1>13, ReceiverKeepsClean DEF RecvTimeout, wireVars, memoryVars, Holding, InLoop
<1>14. CASE DrainEnd
  BY <1>2, <1>5, <1>14, ReceiverKeepsClean DEF DrainEnd, TakeEvent, wireVars, Holding, InLoop
<1>15. CASE AnswerPing
  <2>1. s2c' \in Seq(NoCancelLines) BY <1>3, <1>4, <1>15 DEF AnswerPing
  <2> QED BY <1>2, <1>15, <2>1, ReceiverKeepsClean DEF AnswerPing, TakeEvent, Holding, InLoop
<1>16. ~DrainStop
  BY <1>2 DEF DrainStop, Clean, LoopServed, InLoop, Routine
<1>17. CASE Finalize
  <2>1. PICK end \in RunEnds(bitmap, hash_frontier) :
          HashMatches(Fed(part, hasher, hash_frontier, end))
            => rphase' = "announce" /\ UNCHANGED <<conn, s2c, hello, events>>
    BY <1>17 DEF Finalize
  <2>2. InLoop /\ received = N /\ c2s' = c2s
    BY <1>17 DEF Finalize, Drained, AllReceived, InLoop
  <2>3. end = N BY <2>2, FullCountNoGap
  <2>4. HashMatches(Fed(part, hasher, hash_frontier, end))
    BY <2>2, <2>3, FullCountIsObject DEF Clean
  <2> QED BY <1>1, <1>5, <2>1, <2>2, <2>4, ReceiverKeepsClean DEF Holding, InLoop
<1>18. CASE Announce
  <2>1. s2c' \in Seq(NoCancelLines) BY <1>3, <1>4, <1>18 DEF Announce
  <2> QED BY <1>1, <1>18, <2>1, ReceiverKeepsClean DEF Announce, memoryVars, Holding, InLoop
<1>19. CASE AckWaitEnd
  BY <1>2, <1>5, <1>19, ReceiverKeepsClean DEF AckWaitEnd, TakeEvent, wireVars, Holding, InLoop
<1>20. CASE AckWaitStop
  <2>1. ~SenderActive BY <1>2, <1>20 DEF AckWaitStop, Routine
  <2> QED BY <1>6, <1>20, <2>1, ReceiverEndsClean DEF AckWaitStop, diskVars
<1> QED BY <1>7, <1>8, <1>9, <1>10, <1>11, <1>12, <1>13, <1>14, <1>15, <1>16, <1>17,
           <1>18, <1>19, <1>20
        DEF ReceiverMain

LEMMA ReceiverOtherClean ==
    ASSUME DiskIInv, Clean, UNCHANGED <<senderVars, history>>,
           \/ ReceiverWriteFails \/ Control
           \/ \E d \in net : RecvPacket(d) \/ RecvInvalid(d)
           \/ \E due \in BOOLEAN : NoReport(due) \/ \E end \in 0 .. N : Report(due, end)
    PROVE  Clean'
<1> USE DEF DiskIInv, IInv
<1>1. SenderActive => /\ conn = {"S", "R"}
                      /\ events \in Seq(Routine) /\ c2s \in Seq(Routine)
  BY DEF Clean, Connected
<1>2. s2c \in Seq(NoCancelLines) BY DEF Clean
<1>3. CASE ReceiverWriteFails
  <2>1. ~SenderActive BY <1>1, <1>3 DEF ReceiverWriteFails
  <2>2. rphase \in {"announce", "ackwait"}
    BY <1>3, <2>1 DEF ReceiverWriteFails, Drained, Clean, Opening, LoopServed, InLoop,
                      SenderActive
  <2>3. dest = hello BY <2>2 DEF ContractInv, Installed, SameObject
  <2> QED BY <1>3, <2>1, <2>3, ReceiverEndsClean DEF ReceiverWriteFails
<1>4. CASE CtlLine
  <2>1. SenderActive => events' \in Seq(Routine) BY <1>1, <1>4, HeadTail DEF CtlLine
  <2> QED BY <1>2, <1>4, <2>1, ReceiverKeepsClean DEF CtlLine, diskVars, Holding, InLoop
<1>5. CASE CtlStopped
  <2>1. ~SenderActive BY <1>1, <1>5 DEF CtlStopped, ReceiverAtEOF
  <2> QED BY <1>2, <1>5, <2>1, ReceiverKeepsClean
          DEF CtlStopped, wireVars, diskVars, Holding, InLoop
<1>6. CASE \E d \in net : RecvPacket(d) \/ RecvInvalid(d)
  BY <1>1, <1>2, <1>6, ReceiverKeepsClean DEF RecvPacket, RecvInvalid, memoryVars, Holding, InLoop
<1>7. CASE \E due \in BOOLEAN : NoReport(due)
  BY <1>1, <1>2, <1>7, ReceiverKeepsClean DEF NoReport, Drained, wireVars, Holding, InLoop
<1>8. ASSUME NEW due \in BOOLEAN, NEW end \in 0 .. N, Report(due, end)
      PROVE  Clean'
  <2>1. Line("M", Missing(end)) \in NoCancelLines
    BY MissingType DEF Line, NoCancelLines, ServerLines
  <2>2. s2c' \in Seq(NoCancelLines) BY <1>2, <1>8, <2>1 DEF Report, SendToSender
  <2> QED BY <1>1, <1>8, <2>2, ReceiverKeepsClean DEF Report, Drained, Holding, InLoop
<1> QED BY <1>3, <1>4, <1>5, <1>6, <1>7, <1>8 DEF Control

LEMMA InitClean == Init => CleanIInv
<1> SUFFICES ASSUME Init PROVE CleanIInv OBVIOUS
<1>1. sphase = "idle" /\ rphase = "listen" /\ fb = "off" /\ feedback_error = FALSE
  BY DEF Init, SenderInit, ReceiverInit
<1>2. s2c \in Seq(NoCancelLines) /\ ~Damaged BY DEF Init, Damaged
<1>3. Clean
  BY <1>1, <1>2 DEF Clean, SenderWell, SenderActive, Connected, Opening, Retrying,
                   LoopServed, InLoop, FailsInstalled
<1> QED BY <1>3, InitDisk DEF CleanIInv

LEMMA NextClean == CleanIInv /\ [Next]_vars => CleanIInv'
<1> SUFFICES ASSUME CleanIInv, [Next]_vars, faults' = 0 PROVE Clean'
  BY NextDiskIInv DEF CleanIInv
<1>1. ~Fault BY DEF Fault, CleanIInv, DiskIInv, IInv, Typed, TypeOK
<1>2. UNCHANGED history
  BY <1>1 DEF Next, StartSession, BySender, ByReceiver, ByNetwork, Receive, PeriodicReport,
              history, vars
<1>3. DiskIInv /\ Clean BY <1>2 DEF CleanIInv, history
<1>4. CASE StartSession
  <2>1. /\ sphase' = "accept" /\ rphase' = "open" /\ conn' = {"S", "R"}
        /\ fb' = "off" /\ feedback_error' = FALSE
        /\ c2s' = <<>> /\ s2c' = <<>> /\ events' = <<>>
    BY <1>4 DEF StartSession, SenderConnects, SenderMemoryReset, ReceiverAccepts,
                ReceiverMemoryReset
  <2>2. /\ c2s' \in Seq(Routine) /\ events' \in Seq(Routine)
        /\ s2c' \in Seq(NoCancelLines)
    BY <2>1
  <2>3. ~Damaged' BY <1>2, <1>3 DEF Clean, Damaged, history
  <2> QED BY <2>1, <2>2, <2>3 DEF Clean, SenderWell, SenderActive, Connected, Opening,
                                 Retrying, LoopServed, InLoop, FailsInstalled
<1>5. CASE \/ BySender(SenderMain) \/ BySender(Heartbeat)
           \/ BySender(SenderWriteFails) \/ BySender(Feedback)
  BY <1>3, <1>5, SenderStepsClean DEF BySender
<1>6. CASE ByReceiver(ReceiverMain) BY <1>3, <1>6, ReceiverMainClean DEF ByReceiver
<1>7. CASE \/ ByReceiver(ReceiverWriteFails) \/ ByReceiver(Control)
           \/ \E c \in Chunks : Receive(c)
           \/ \E d \in net : ByReceiver(RecvInvalid(d))
           \/ PeriodicReport
  BY <1>3, <1>7, ReceiverOtherClean DEF ByReceiver, Receive, PeriodicReport
<1>8. CASE ByNetwork(Reset)
  <2>1. /\ c2s' = <<>> /\ s2c' = <<>>
        /\ UNCHANGED <<senderVars, receiverVars, history, conn>>
    BY <1>8 DEF ByNetwork, Reset
  <2>2. /\ c2s' \in Seq(Routine) /\ s2c' \in Seq(NoCancelLines)
        /\ c2s' \in Seq({"COMPLETE_ACK"}) /\ s2c' \in Seq(DoneLines)
    BY <2>1
  <2>3. ~Damaged' /\ SenderWell'
    BY <1>3, <2>1 DEF Clean, Damaged, SenderWell, history, senderVars
  <2>4. Connected' /\ Opening' /\ Retrying' /\ LoopServed' /\ FailsInstalled'
    BY <1>3, <2>1, <2>2
       DEF Clean, SenderActive, Connected, Opening, Retrying, LoopServed, InLoop,
           FailsInstalled, senderVars, receiverVars
  <2> QED BY <2>2, <2>3, <2>4 DEF Clean
<1>9. CASE UNCHANGED vars
  BY <1>3, <1>9
     DEF Clean, Damaged, SenderWell, SenderActive, Connected, Opening, Retrying, LoopServed,
         InLoop, FailsInstalled, vars, wireVars, senderVars, receiverVars, history
<1> QED BY <1>1, <1>4, <1>5, <1>6, <1>7, <1>8, <1>9 DEF Next

(* Without a fault send_udp_inner does not fail, and receive_udp only when *)
(* the object is already installed and the exit of the sender reset the    *)
(* connection: no interleaving, loss, duplication or reordering, and       *)
(* nothing that an earlier session left, looks like a failure.             *)
THEOREM NoFailureWithoutFault == Spec => []NoSpuriousFailure
<1>1. CleanIInv => NoSpuriousFailure
  BY DEF CleanIInv, Clean, SenderWell, FailsInstalled, NoSpuriousFailure
<1> QED BY InitClean, NextClean, <1>1, PTL DEF Spec
=============================================================================
