--------------------------- MODULE FeedbackProofs ---------------------------
(***************************************************************************)
(* Proofs about the loop that sets the pace of a transfer: the reports     *)
(* (Feedback), for every number of chunks, every grace, report interval    *)
(* and delay, and every set of chunks a transfer begins with; the rate     *)
(* that they lead to (RateController), for all bounds and paths; and the   *)
(* pacer, for every set of rates, all bounds of a batch and all lengths of *)
(* datagrams.                                                              *)
(***************************************************************************)
EXTENDS Feedback, RateController, FiniteSetTheorems, SequenceTheorems, WellFoundedInduction, TLAPS

-----------------------------------------------------------------------------
(* A set of natural numbers has a least element, a bounded one a greatest. *)
LEMMA LeastNatural ==
    ASSUME NEW T, T \subseteq Nat, T # {}
    PROVE  \E x \in T : \A y \in T : x <= y
<1> DEFINE R == OpToRel(<, Nat)
<1>1. \A x, y \in Nat : y < x => <<y, x>> \in R BY DEF OpToRel
<1>2. IsWellFoundedOn(R, Nat) BY NatLessThanWellFounded
<1> HIDE DEF R
<1>3. \E x \in T : \A y \in T : ~(<<y, x>> \in R) BY <1>2, WFMin
<1>4. PICK x \in T : \A y \in T : ~(<<y, x>> \in R) BY <1>3
<1>5. \A y \in T : ~(y < x) BY <1>1, <1>4
<1>6. \A y \in T : x <= y BY <1>5
<1> QED BY <1>6

LEMMA MaxOfBounded ==
    ASSUME NEW n \in Nat, NEW T, T \subseteq 0 .. n, T # {}
    PROVE  Max(T) \in T /\ \A y \in T : y <= Max(T)
<1> DEFINE U == {n - i : i \in T}
<1>1. U \subseteq Nat OBVIOUS
<1>2. U # {} OBVIOUS
<1>3. PICK x \in U : \A y \in U : x <= y
  <2> HIDE DEF U
  <2> QED BY <1>1, <1>2, LeastNatural
<1>4. PICK i \in T : x = n - i OBVIOUS
<1>5. \A y \in T : i >= y BY <1>3, <1>4
<1> QED BY <1>5 DEF Max

(* highest_received + 1 is what FrontierOf finds.                          *)
LEMMA FrontierFound ==
    ASSUME NEW chunks \in SUBSET Chunks
    PROVE  /\ FrontierOf(chunks) \in 0 .. N
           /\ FrontierOf(chunks) > 0 => FrontierOf(chunks) - 1 \in chunks
           /\ \A c \in chunks : c < FrontierOf(chunks)
<1> USE FeedbackAssumption DEF Chunks
<1> SUFFICES \E f \in 0 .. N : /\ f > 0 => f - 1 \in chunks
                               /\ \A c \in chunks : c < f
  BY DEF FrontierOf
<1>1. CASE chunks = {} BY <1>1
<1>2. CASE chunks # {}
  <2>1. N \in Nat /\ chunks \subseteq 0 .. N OBVIOUS
  <2>2. Max(chunks) \in chunks /\ \A y \in chunks : y <= Max(chunks)
    BY <1>2, <2>1, MaxOfBounded
  <2>3. Max(chunks) \in 0 .. N - 1 BY <2>2
  <2> DEFINE m == Max(chunks)
  <2>4. m \in chunks /\ m \in 0 .. N - 1 /\ \A y \in chunks : y <= m BY <2>2, <2>3
  <2> HIDE DEF m
  <2>5. m + 1 \in 0 .. N /\ (m + 1) - 1 = m BY <2>4
  <2>6. \A c \in chunks : c < m + 1 BY <2>4
  <2> QED BY <2>4, <2>5, <2>6
<1> QED BY <1>1, <1>2

-----------------------------------------------------------------------------
(* mature_frontier.                                                        *)
Entries == [age : Ages, value : 0 .. N]

(* The entry that Newest takes: the last that is old enough.               *)
LastMature(h, grace, k) ==
    /\ k \in 1 .. Len(h) /\ h[k].age >= grace
    /\ \A j \in k + 1 .. Len(h) : ~(h[j].age >= grace)

LEMMA NewestTaken ==
    ASSUME NEW h \in Seq(Entries), NEW grace \in Nat,
           NEW k, LastMature(h, grace, k)
    PROVE  Newest(h, grace) = h[k].value
<1> DEFINE mature == {i \in DOMAIN h : h[i].age >= grace}
<1>1. Len(h) \in Nat /\ DOMAIN h = 1 .. Len(h) OBVIOUS
<1>2. k \in mature /\ mature \subseteq 0 .. Len(h) /\ \A i \in mature : i <= k
  BY <1>1 DEF LastMature
<1>3. Newest(h, grace) = IF mature = {} THEN 0 ELSE h[Max(mature)].value
  BY DEF Newest
<1> HIDE DEF mature
<1>4. Max(mature) \in mature /\ \A y \in mature : y <= Max(mature)
  BY <1>1, <1>2, MaxOfBounded
<1>5. Max(mature) = k
  <2> DEFINE m == Max(mature)
  <2>1. m \in mature /\ k <= m BY <1>2, <1>4
  <2>2. m <= k BY <1>2, <2>1
  <2>3. m \in 0 .. Len(h) /\ k \in 0 .. Len(h) BY <1>2, <2>1
  <2> HIDE DEF m
  <2>4. m \in Int /\ k \in Int BY <1>1, <2>3
  <2>5. m = k BY <2>1, <2>2, <2>4
  <2> QED BY <2>5 DEF m
<1> QED BY <1>2, <1>3, <1>5

LEMMA NoneMature ==
    ASSUME NEW h \in Seq(Entries), NEW grace \in Nat,
           \A i \in 1 .. Len(h) : ~(h[i].age >= grace)
    PROVE  Newest(h, grace) = 0
<1>1. DOMAIN h = 1 .. Len(h) OBVIOUS
<1> QED BY <1>1 DEF Newest

LEMMA MatureOrNot ==
    ASSUME NEW h \in Seq(Entries), NEW grace \in Nat
    PROVE  \/ \E k : LastMature(h, grace, k)
           \/ \A i \in 1 .. Len(h) : ~(h[i].age >= grace)
<1> DEFINE mature == {i \in 1 .. Len(h) : h[i].age >= grace}
<1>1. Len(h) \in Nat OBVIOUS
<1>2. CASE mature = {} BY <1>2
<1>3. CASE mature # {}
  <2>1. mature \subseteq 0 .. Len(h) BY <1>1
  <2>2. Max(mature) \in mature /\ \A y \in mature : y <= Max(mature)
    <3> HIDE DEF mature
    <3> QED BY <1>1, <1>3, <2>1, MaxOfBounded
  <2> DEFINE k == Max(mature)
  <2>3. k \in 1 .. Len(h) /\ h[k].age >= grace BY <2>2
  <2>4. \A j \in k + 1 .. Len(h) : ~(h[j].age >= grace)
    <3> SUFFICES ASSUME NEW j \in k + 1 .. Len(h), h[j].age >= grace PROVE FALSE
      OBVIOUS
    <3>1. j \in 1 .. Len(h) /\ j > k BY <1>1, <2>3
    <3>2. j \in mature BY <3>1
    <3>3. j <= k BY <2>2, <3>2
    <3> QED BY <1>1, <2>3, <3>1, <3>3
  <2>5. LastMature(h, grace, k) BY <2>3, <2>4 DEF LastMature
  <2> QED BY <2>5
<1> QED BY <1>2, <1>3

(* Pruning by retention keeps what any grace up to it looks for.           *)
LEMMA PruningKeeps ==
    ASSUME NEW h \in Seq(Entries), h # <<>>, NEW grace, NEW a \in 0 .. Grace
    PROVE  /\ Pruned(h, grace) \in Seq(Entries) /\ Pruned(h, grace) # <<>>
           /\ Newest(Pruned(h, grace), a) = Newest(h, a)
<1> DEFINE old == {i \in 2 .. Len(h) : h[i].age >= Grace}
           k == IF old = {} THEN 1 ELSE Max(old)
           p == SubSeq(h, k, Len(h))
<1>1. Len(h) \in Nat \ {0} /\ h \in [1 .. Len(h) -> Entries]
  BY EmptySeq
<1>2. Grace \in Nat /\ a \in Nat /\ a <= Grace BY FeedbackAssumption
<1>3. k \in 1 .. Len(h) /\ (k = 1 \/ h[k].age >= Grace)
  <2>1. CASE old = {} BY <1>1, <2>1
  <2>2. CASE old # {}
    <3>1. old \subseteq 0 .. Len(h) BY <1>1
    <3>2. Max(old) \in old
      <4> HIDE DEF old
      <4> QED BY <1>1, <2>2, <3>1, MaxOfBounded
    <3>3. k = Max(old) BY <2>2
    <3>4. k \in old BY <3>2, <3>3
    <3> QED BY <1>1, <3>4
  <2> QED BY <2>1, <2>2
<1>4. Pruned(h, grace) = p BY DEF Pruned
<1> HIDE DEF old, k
<1>5. /\ p \in Seq(Entries) /\ Len(p) = Len(h) - k + 1
      /\ \A i \in 1 .. Len(h) - k + 1 : p[i] = h[k + i - 1]
  <2>1. \A i \in k .. Len(h) : h[i] \in Entries BY <1>1, <1>3
  <2>2. k \in Int /\ Len(h) \in Int /\ k <= Len(h) BY <1>1, <1>3
  <2> QED BY <2>1, <2>2, SubSeqProperties
<1>6. p # <<>>
  <2>1. Len(p) # 0
    <3> HIDE DEF p
    <3> QED BY <1>1, <1>3, <1>5
  <2>2. Len(<<>>) = 0 OBVIOUS
  <2> HIDE DEF p
  <2> QED BY <2>1, <2>2
<1> HIDE DEF p
<1>7. ASSUME NEW i \in 1 .. Len(p)
      PROVE  k + i - 1 \in k .. Len(h) /\ p[i] = h[k + i - 1]
  BY <1>1, <1>3, <1>5
<1>8. CASE \E m : LastMature(h, a, m)
  <2>1. PICK m : LastMature(h, a, m) BY <1>8
  <2>2. m \in 1 .. Len(h) /\ h[m].age >= a BY <2>1 DEF LastMature
  <2>3. m >= k
    <3> SUFFICES ASSUME m < k PROVE FALSE BY <1>1, <1>3, <2>2
    <3>1. k \in m + 1 .. Len(h) /\ k # 1 BY <1>1, <1>3, <2>2
    <3>2. ~(h[k].age >= a) BY <2>1, <3>1 DEF LastMature
    <3>3. h[k].age >= Grace /\ h[k].age \in Nat
      BY <1>1, <1>3, <3>1, FeedbackAssumption DEF Entries, Ages, Cap
    <3> QED BY <1>2, <3>2, <3>3
  <2> DEFINE n == m - k + 1
  <2>4. n \in 1 .. Len(p) /\ k + n - 1 = m BY <1>1, <1>3, <1>5, <2>2, <2>3
  <2>5. p[n] = h[m] BY <1>7, <2>4
  <2>6. ASSUME NEW j \in n + 1 .. Len(p) PROVE ~(p[j].age >= a)
    <3>1. j \in 1 .. Len(p) /\ k + j - 1 \in m + 1 .. Len(h)
      BY <1>1, <1>3, <1>5, <2>2, <2>3
    <3>2. p[j] = h[k + j - 1] BY <1>7, <3>1
    <3> QED BY <2>1, <3>1, <3>2 DEF LastMature
  <2> HIDE DEF n
  <2>7. LastMature(p, a, n) BY <2>2, <2>4, <2>5, <2>6 DEF LastMature
  <2>8. Newest(p, a) = p[n].value BY <1>2, <1>5, <2>7, NewestTaken
  <2>9. Newest(h, a) = h[m].value BY <1>2, <2>1, NewestTaken
  <2> QED BY <1>4, <1>5, <1>6, <2>5, <2>8, <2>9
<1>9. CASE \A i \in 1 .. Len(h) : ~(h[i].age >= a)
  <2>1. \A i \in 1 .. Len(p) : ~(p[i].age >= a)
    <3> SUFFICES ASSUME NEW i \in 1 .. Len(p) PROVE ~(p[i].age >= a) OBVIOUS
    <3>1. k + i - 1 \in k .. Len(h) /\ p[i] = h[k + i - 1] BY <1>7
    <3>2. k + i - 1 \in 1 .. Len(h) BY <1>1, <1>3, <3>1
    <3> QED BY <1>9, <3>1, <3>2
  <2>2. Newest(p, a) = 0 BY <1>2, <1>5, <2>1, NoneMature
  <2>3. Newest(h, a) = 0 BY <1>2, <1>9, NoneMature
  <2> QED BY <1>4, <1>5, <1>6, <2>2, <2>3
<1> QED BY <1>2, <1>8, <1>9, MatureOrNot

(* Recording the frontier changes only what is newest now.                 *)
LEMMA RecordingAdds ==
    ASSUME history \in Seq(Entries), history # <<>>, frontier \in 0 .. N
    PROVE  /\ Recorded \in Seq(Entries) /\ Recorded # <<>>
           /\ Newest(Recorded, 0) = frontier
           /\ \A a \in 1 .. Grace : Newest(Recorded, a) = Newest(history, a)
<1> DEFINE h == history
           e == [age |-> 0, value |-> frontier]
           n == Len(history)
<1>1. n \in Nat \ {0} /\ h \in [1 .. n -> Entries] BY EmptySeq
<1>2. Grace \in Nat /\ \A x \in Entries : x.age \in Nat /\ x.age >= 0
  BY FeedbackAssumption DEF Entries, Ages, Cap
<1>3. e \in Entries /\ e.age = 0 /\ e.value = frontier
  BY FeedbackAssumption DEF Entries, Ages, Cap
<1>4. Last(h) = h[n] BY DEF Last
<1>5. CASE h[n].value = frontier
  <2>1. Recorded = h BY <1>4, <1>5 DEF Recorded
  <2>2. LastMature(h, 0, n)
    <3>1. n \in 1 .. n /\ h[n].age >= 0 BY <1>1, <1>2
    <3>2. \A j \in n + 1 .. n : FALSE BY <1>1
    <3> QED BY <3>1, <3>2 DEF LastMature
  <2>3. Newest(h, 0) = h[n].value BY <2>2, NewestTaken
  <2> QED BY <1>5, <2>1, <2>3
<1>6. CASE h[n].value # frontier
  <2> DEFINE r == Append(h, e)
  <2>1. Recorded = r BY <1>4, <1>6 DEF Recorded
  <2>2. /\ r \in Seq(Entries) /\ r # <<>> /\ Len(r) = n + 1
        /\ r[n + 1] = e /\ \A i \in 1 .. n : r[i] = h[i]
    BY <1>3, AppendProperties
  <2> HIDE DEF r, e, n, h
  <2>3. LastMature(r, 0, n + 1)
    <3>1. \A j \in (n + 1) + 1 .. n + 1 : FALSE BY <1>1
    <3>2. n + 1 \in 1 .. n + 1 BY <1>1
    <3> QED BY <1>3, <2>2, <3>1, <3>2 DEF LastMature
  <2>4. Newest(r, 0) = frontier BY <1>3, <2>2, <2>3, NewestTaken
  <2>5. ASSUME NEW a \in 1 .. Grace PROVE Newest(r, a) = Newest(h, a)
    <3>1. a \in Nat /\ ~(e.age >= a) BY <1>2, <1>3
    <3>2. h \in Seq(Entries) /\ Len(h) = n BY DEF h, n
    <3>3. CASE \E k : LastMature(h, a, k)
      <4>1. PICK k : LastMature(h, a, k) BY <3>3
      <4>2. k \in 1 .. n /\ k \in 1 .. n + 1 BY <1>1, <3>2, <4>1 DEF LastMature
      <4>3. ASSUME NEW j \in k + 1 .. n + 1 PROVE ~(r[j].age >= a)
        <5>1. j = n + 1 \/ (j \in k + 1 .. n /\ j \in 1 .. n) BY <1>1, <4>2
        <5> QED BY <2>2, <3>1, <3>2, <4>1, <5>1 DEF LastMature
      <4>4. LastMature(r, a, k)
        BY <2>2, <3>2, <4>1, <4>2, <4>3 DEF LastMature
      <4>5. Newest(r, a) = r[k].value /\ Newest(h, a) = h[k].value
        BY <2>2, <3>1, <3>2, <4>1, <4>4, NewestTaken
      <4> QED BY <2>2, <4>2, <4>5
    <3>4. CASE \A i \in 1 .. Len(h) : ~(h[i].age >= a)
      <4>1. \A i \in 1 .. n + 1 : i = n + 1 \/ i \in 1 .. n BY <1>1
      <4>2. \A i \in 1 .. Len(r) : ~(r[i].age >= a) BY <2>2, <3>1, <3>2, <3>4, <4>1
      <4> QED BY <2>2, <3>1, <3>2, <3>4, <4>2, NoneMature
    <3> QED BY <3>1, <3>2, <3>3, <3>4, MatureOrNot
  <2> QED BY <2>1, <2>2, <2>4, <2>5 DEF h
<1> QED BY <1>5, <1>6

(* A tick moves every entry on by one grace.                               *)
LEMMA AgingShifts ==
    ASSUME NEW h \in Seq(Entries), h # <<>>, NEW g,
           g = [i \in DOMAIN h |-> [h[i] EXCEPT !.age = Older(h[i].age)]]
    PROVE  /\ g \in Seq(Entries) /\ g # <<>>
           /\ Newest(g, 0) = Newest(h, 0)
           /\ \A a \in 1 .. Grace : Newest(g, a) = Newest(h, a - 1)
<1>1. Len(h) \in Nat \ {0} /\ h \in [1 .. Len(h) -> Entries] /\ DOMAIN h = 1 .. Len(h)
  BY EmptySeq
<1>2. /\ Grace \in Nat /\ Cap \in Nat /\ Grace < Cap /\ Cap > 0
      /\ \A x \in Entries : x.age \in 0 .. Cap /\ x.value \in 0 .. N
  BY FeedbackAssumption DEF Entries, Ages, Cap
<1>3. \A i \in 1 .. Len(h) :
         /\ g[i].value = h[i].value /\ g[i].age = Older(h[i].age)
         /\ g[i] \in Entries
  <2> SUFFICES ASSUME NEW i \in 1 .. Len(h)
               PROVE  /\ g[i].value = h[i].value /\ g[i].age = Older(h[i].age)
                      /\ g[i] \in Entries
    OBVIOUS
  <2>1. h[i] \in Entries /\ g[i] = [h[i] EXCEPT !.age = Older(h[i].age)] BY <1>1
  <2>2. Older(h[i].age) \in 0 .. Cap BY <1>2, <2>1 DEF Older
  <2> QED BY <2>1, <2>2 DEF Entries, Ages
<1>4. g \in Seq(Entries) /\ Len(g) = Len(h) /\ g # <<>>
  <2>1. g \in [1 .. Len(h) -> Entries] BY <1>1, <1>3
  <2>2. g \in Seq(Entries) /\ Len(g) = Len(h) BY <1>1, <2>1
  <2> QED BY <1>1, <2>2
<1>5. ASSUME NEW a \in 1 .. Grace, NEW i \in 1 .. Len(h)
      PROVE  g[i].age >= a <=> h[i].age >= a - 1
  <2>1. h[i].age \in 0 .. Cap BY <1>1, <1>2
  <2>2. g[i].age = Older(h[i].age) BY <1>3
  <2> QED BY <1>2, <2>1, <2>2 DEF Older
<1>6. ASSUME NEW i \in 1 .. Len(h) PROVE g[i].age >= 0 /\ h[i].age >= 0
  <2>1. h[i].age \in 0 .. Cap /\ g[i].age \in 0 .. Cap BY <1>1, <1>2, <1>3
  <2> QED BY <1>2, <2>1
<1>7. ASSUME NEW a \in Nat, NEW b \in Nat,
             \A i \in 1 .. Len(h) : g[i].age >= a <=> h[i].age >= b
      PROVE  Newest(g, a) = Newest(h, b)
  <2>1. CASE \E k : LastMature(h, b, k)
    <3>1. PICK k : LastMature(h, b, k) BY <2>1
    <3>2. k \in 1 .. Len(h) BY <3>1 DEF LastMature
    <3>3. \A j \in k + 1 .. Len(h) : j \in 1 .. Len(h) BY <1>1, <3>2
    <3>4. LastMature(g, a, k) BY <1>4, <1>7, <3>1, <3>2, <3>3 DEF LastMature
    <3>5. Newest(g, a) = g[k].value /\ Newest(h, b) = h[k].value
      BY <1>4, <3>1, <3>4, NewestTaken
    <3> QED BY <1>3, <3>2, <3>5
  <2>2. CASE \A i \in 1 .. Len(h) : ~(h[i].age >= b)
    <3>1. \A i \in 1 .. Len(g) : ~(g[i].age >= a) BY <1>4, <1>7, <2>2
    <3> QED BY <1>4, <2>2, <3>1, NoneMature
  <2> QED BY <2>1, <2>2, MatureOrNot
<1>8. Newest(g, 0) = Newest(h, 0) BY <1>6, <1>7
<1>9. ASSUME NEW a \in 1 .. Grace PROVE Newest(g, a) = Newest(h, a - 1)
  <2>1. a \in Nat /\ a - 1 \in Nat BY <1>2
  <2> QED BY <1>5, <1>7, <2>1
<1> QED BY <1>4, <1>8, <1>9

-----------------------------------------------------------------------------
(* Types.  mature_frontier never empties the history.                      *)
Typed == TypeOK /\ history # <<>>

LEMMA Constants ==
    /\ N \in Nat /\ Grace \in Nat /\ Interval \in Nat /\ Delay \in Nat
    /\ 1 <= Interval /\ Interval <= Grace /\ 1 <= Grace
    /\ Cap = Grace + Interval /\ Cap \in Nat /\ Delay <= Cap
    /\ Ages = 0 .. Cap /\ Chunks = 0 .. N - 1 /\ Never = -1
BY FeedbackAssumption DEF Cap, Ages, Chunks, Never

(* What a report leaves in the history, and how far it reaches.            *)
LEMMA HistoryOfReport ==
    ASSUME Typed
    PROVE  LET h == Pruned(Recorded, active_grace)
           IN  /\ h \in Seq(Entries) /\ h # <<>>
               /\ Newest(h, 0) = frontier
               /\ \A a \in 1 .. Grace : Newest(h, a) = Newest(history, a)
<1> DEFINE h == Pruned(Recorded, active_grace)
<1>1. history \in Seq(Entries) /\ history # <<>> /\ frontier \in 0 .. N
  BY DEF Typed, TypeOK, Entries
<1>2. /\ Recorded \in Seq(Entries) /\ Recorded # <<>>
      /\ Newest(Recorded, 0) = frontier
      /\ \A a \in 1 .. Grace : Newest(Recorded, a) = Newest(history, a)
  BY <1>1, RecordingAdds
<1>3. \A a \in 0 .. Grace : /\ h \in Seq(Entries) /\ h # <<>>
                            /\ Newest(h, a) = Newest(Recorded, a)
  BY <1>2, PruningKeeps
<1> HIDE DEF h
<1>4. 0 \in 0 .. Grace /\ \A a \in 1 .. Grace : a \in 0 .. Grace BY Constants
<1>5. QED BY <1>2, <1>3, <1>4 DEF h

(* A report reaches no further than the end of the object.                 *)
LEMMA ReportWithin ==
    ASSUME Typed
    PROVE  report_end \in 0 .. N /\ missing \subseteq Chunks
<1>1. report_end \in 0 .. N
  <2>1. CASE EndMature BY <2>1, Constants DEF report_end
  <2>2. CASE ~EndMature
    <3> DEFINE h == Pruned(Recorded, active_grace)
    <3>1. h \in Seq(Entries) BY HistoryOfReport
    <3>2. active_grace \in Nat BY Constants DEF active_grace
    <3>3. report_end = Newest(h, active_grace) BY <2>2 DEF report_end
    <3> HIDE DEF h
    <3>4. CASE \E k : LastMature(h, active_grace, k)
      <4>1. PICK k : LastMature(h, active_grace, k) BY <3>4
      <4>2. Newest(h, active_grace) = h[k].value BY <3>1, <3>2, <4>1, NewestTaken
      <4>3. h[k] \in Entries BY <3>1, <4>1 DEF LastMature
      <4> QED BY <3>3, <4>2, <4>3 DEF Entries
    <3>5. CASE \A i \in 1 .. Len(h) : ~(h[i].age >= active_grace)
      <4>1. Newest(h, active_grace) = 0 BY <3>1, <3>2, <3>5, NoneMature
      <4> QED BY <3>3, <4>1, Constants
    <3> QED BY <3>1, <3>2, <3>4, <3>5, MatureOrNot
  <2> QED BY <2>1, <2>2
<1> HIDE DEF report_end
<1>2. \A c \in 0 .. report_end - 1 : c \in Chunks BY <1>1, Constants
<1> QED BY <1>1, <1>2 DEF missing

(* What a datagram adds to the counters.                                   *)
Counters == [accepted : Nat, valid : Nat, duplicate : Nat, repair : Nat]

LEMMA CountAdds ==
    ASSUME tel \in Counters, NEW d, NEW first \in BOOLEAN, d.repair \in BOOLEAN
    PROVE  /\ Count(d, first) \in Counters
           /\ Count(d, first).valid = tel.valid + 1
           /\ Count(d, first).repair = IF d.repair THEN tel.repair + 1 ELSE tel.repair
           /\ Count(d, first).accepted = IF first THEN tel.accepted + 1 ELSE tel.accepted
           /\ Count(d, first).duplicate = IF first THEN tel.duplicate ELSE tel.duplicate + 1
<1> DEFINE r == IF d.repair THEN tel.repair + 1 ELSE tel.repair
           a == IF first THEN tel.accepted + 1 ELSE tel.accepted
           u == IF first THEN tel.duplicate ELSE tel.duplicate + 1
           v == tel.valid + 1
           t == [accepted |-> a, valid |-> v, duplicate |-> u, repair |-> r]
<1>1. r \in Nat /\ a \in Nat /\ u \in Nat /\ v \in Nat BY DEF Counters
<1>2. Count(d, first) = [tel EXCEPT !.valid = v, !.repair = r, !.accepted = a,
                                    !.duplicate = u]
  BY DEF Count
<1> HIDE DEF r, a, u, v
<1>3. Count(d, first) = t BY <1>2 DEF Counters
<1>4. t \in Counters BY <1>1 DEF Counters
<1> QED BY <1>3, <1>4 DEF r, a, u, v

LEMMA Places ==
    ASSUME Typed
    PROVE  /\ frontier \in Nat /\ frontier \in 0 .. N
           /\ bitmap \subseteq 0 .. N - 1 /\ held \in SUBSET Chunks
           /\ \A d \in net : d.seq \in 0 .. N - 1 /\ d.repair \in BOOLEAN /\ d.age \in 0 .. Cap
<1>1. /\ frontier \in 0 .. N /\ bitmap \subseteq Chunks /\ held \in Holdings
      /\ net \subseteq Datagrams
  BY DEF Typed, TypeOK
<1>2. \A d \in net : d.seq \in Chunks /\ d.repair \in BOOLEAN /\ d.age \in Ages
  BY <1>1 DEF Datagrams
<1>3. held \in SUBSET Chunks BY <1>1, FeedbackAssumption
<1>4. frontier \in Nat BY <1>1, Constants
<1> QED BY <1>1, <1>2, <1>3, <1>4, Constants

LEMMA InitTyped == Init => Typed
<1> SUFFICES ASSUME Init PROVE Typed OBVIOUS
<1>1. held \in SUBSET Chunks BY FeedbackAssumption DEF Init
<1>2. FrontierOf(held) \in 0 .. N BY <1>1, FrontierFound
<1>3. history \in Seq([age : Ages, value : 0 .. N]) /\ history # <<>>
  <2>1. [age |-> 0, value |-> FrontierOf(held)] \in [age : Ages, value : 0 .. N]
    BY <1>2, Constants
  <2> QED BY <2>1 DEF Init
<1>4. past \in [0 .. Grace -> 0 .. N] BY <1>2, Constants DEF Init
<1>5. passed \in [Chunks -> Ages \cup {Never}] BY Constants DEF Init
<1>6. next \in 0 .. N + 1 /\ ended \in Ages \cup {Never} /\ last_report \in 0 .. Interval
  BY Constants DEF Init
<1>7. tel \in [accepted : Nat, valid : Nat, duplicate : Nat, repair : Nat] BY DEF Init
<1>8. /\ net \subseteq Datagrams /\ repairs \subseteq Chunks /\ bitmap \subseteq Chunks
      /\ held \in Holdings /\ frontier \in 0 .. N
      /\ reordering \in BOOLEAN /\ overtaken \in BOOLEAN
  BY <1>1, <1>2 DEF Init
<1>9. TypeOK BY <1>3, <1>4, <1>5, <1>6, <1>7, <1>8, Zenon DEF TypeOK
<1> QED BY <1>3, <1>9 DEF Typed

LEMMA NextTyped == Typed /\ [Next]_vars => Typed'
<1> SUFFICES ASSUME Typed, [Next]_vars PROVE Typed' OBVIOUS
<1>0. /\ next \in 0 .. N + 1 /\ net \subseteq Datagrams /\ repairs \subseteq Chunks
      /\ bitmap \subseteq Chunks /\ frontier \in 0 .. N /\ reordering \in BOOLEAN
      /\ ended \in Ages \cup {Never} /\ last_report \in 0 .. Interval
      /\ passed \in [Chunks -> Ages \cup {Never}] /\ overtaken \in BOOLEAN
  BY DEF Typed, TypeOK
<1>1. CASE SendOriginal
  <2>1. next < N /\ next' = next + 1 /\ UNCHANGED <<repairs, receiver>> BY <1>1 DEF SendOriginal
  <2>2. next' \in 0 .. N + 1 /\ next \in Chunks BY <1>0, <2>1, Constants
  <2>3. [seq |-> next, repair |-> FALSE, age |-> 0] \in Datagrams
    BY <2>2, Constants DEF Datagrams
  <2>4. net' \subseteq Datagrams
    <3> HIDE DEF Datagrams
    <3> QED BY <1>0, <1>1, <2>3 DEF SendOriginal
  <2> QED BY <2>1, <2>2, <2>4, Zenon DEF Typed, TypeOK, receiver
<1>2. ASSUME NEW c \in Chunks, SendRepair(c) PROVE Typed'
  <2>1. [seq |-> c, repair |-> TRUE, age |-> 0] \in Datagrams
    BY Constants DEF Datagrams
  <2>2. net' \subseteq Datagrams BY <1>0, <1>2, <2>1 DEF SendRepair
  <2>3. repairs' \subseteq Chunks BY <1>0, <1>2 DEF SendRepair
  <2>4. UNCHANGED <<next, receiver>> BY <1>2 DEF SendRepair
  <2> QED BY <2>2, <2>3, <2>4, Zenon DEF Typed, TypeOK, receiver
<1>3. CASE DrainEnd
  <2>1. /\ next' = N + 1 /\ ended' = 0
        /\ UNCHANGED <<held, net, repairs, bitmap, frontier, reordering, history,
                       last_report, tel, past, passed, overtaken>>
    BY <1>3 DEF DrainEnd
  <2>2. next' \in 0 .. N + 1 /\ ended' \in Ages \cup {Never} BY <2>1, Constants
  <2> QED BY <2>1, <2>2, Zenon DEF Typed, TypeOK
<1>4. ASSUME NEW d \in net, Lose(d) PROVE Typed'
  <2>1. net' \subseteq Datagrams BY <1>0, <1>4 DEF Lose
  <2>2. UNCHANGED <<next, repairs, receiver>> BY <1>4 DEF Lose
  <2> QED BY <2>1, <2>2, Zenon DEF Typed, TypeOK, receiver
<1>5. ASSUME NEW d \in net, Recv(d) PROVE Typed'
  <2>1. d.seq \in Chunks /\ d.repair \in BOOLEAN BY <1>0 DEF Datagrams
  <2>2. frontier' \in 0 .. N BY <1>0, <1>5, <2>1, Constants DEF Recv, Advance
  <2>3. tel' \in [accepted : Nat, valid : Nat, duplicate : Nat, repair : Nat]
    <3>1. tel \in Counters BY DEF Typed, TypeOK, Counters
    <3>2. tel' = Count(d, d.seq \notin bitmap) BY <1>5 DEF Recv
    <3>3. (d.seq \notin bitmap) \in BOOLEAN OBVIOUS
    <3>4. Count(d, d.seq \notin bitmap) \in Counters BY <2>1, <3>1, <3>3, CountAdds
    <3> QED BY <3>2, <3>4 DEF Counters
  <2>4. passed' \in [Chunks -> Ages \cup {Never}]
    <3>1. passed' = [c \in Chunks |-> IF c < frontier' /\ passed[c] = Never
                                      THEN 0 ELSE passed[c]]
      BY <1>5 DEF Recv
    <3>2. 0 \in Ages \cup {Never} BY Constants
    <3> QED BY <1>0, <3>1, <3>2
  <2>5. bitmap' \subseteq Chunks /\ net' \subseteq Datagrams BY <1>0, <1>5, <2>1 DEF Recv
  <2>6. reordering' \in BOOLEAN /\ overtaken' \in BOOLEAN BY <1>0, <1>5 DEF Recv
  <2>7. UNCHANGED <<held, next, repairs, history, ended, last_report, past>>
    BY <1>5 DEF Recv
  <2> QED BY <2>2, <2>3, <2>4, <2>5, <2>6, <2>7, Zenon DEF Typed, TypeOK
<1>6. CASE Report
  <2>1. history' \in Seq([age : Ages, value : 0 .. N]) /\ history' # <<>>
    BY <1>6, HistoryOfReport DEF Report, Entries
  <2>2. missing \subseteq Chunks BY ReportWithin
  <2>3. repairs' \subseteq Chunks BY <1>0, <1>6, <2>2 DEF Report
  <2>4. past' \in [0 .. Grace -> 0 .. N]
    <3>1. past \in [0 .. Grace -> 0 .. N] BY DEF Typed, TypeOK
    <3> QED BY <1>0, <1>6, <3>1 DEF Report
  <2>5. last_report' \in 0 .. Interval BY <1>6, Constants DEF Report
  <2>6. UNCHANGED <<held, next, net, bitmap, frontier, reordering, ended, tel,
                    passed, overtaken>>
    BY <1>6 DEF Report
  <2> QED BY <2>1, <2>3, <2>4, <2>5, <2>6, Zenon DEF Typed, TypeOK
<1>7. CASE Tick
  <2>1. history' \in Seq([age : Ages, value : 0 .. N]) /\ history' # <<>>
    <3>1. history \in Seq(Entries) /\ history # <<>> BY DEF Typed, TypeOK, Entries
    <3>2. history' = [i \in DOMAIN history |->
                         [history[i] EXCEPT !.age = Older(history[i].age)]]
      BY <1>7 DEF Tick
    <3>3. history' \in Seq(Entries) /\ history' # <<>> BY <3>1, <3>2, AgingShifts
    <3> QED BY <3>3 DEF Entries
  <2>2. \A a \in Ages \cup {Never} : Older(a) \in Ages \cup {Never}
    BY Constants DEF Older
  <2>3. net' \subseteq Datagrams
    <3> SUFFICES ASSUME NEW d \in net
                 PROVE  [d EXCEPT !.age = d.age + 1] \in Datagrams
      BY <1>7 DEF Tick
    <3>1. d.age < Delay /\ d \in Datagrams BY <1>0, <1>7 DEF Tick
    <3>2. d.age \in 0 .. Cap /\ d.age + 1 \in Ages BY <3>1, Constants DEF Datagrams
    <3> QED BY <3>1, <3>2 DEF Datagrams
  <2>4. past' \in [0 .. Grace -> 0 .. N]
    <3>1. past \in [0 .. Grace -> 0 .. N] BY DEF Typed, TypeOK
    <3>2. past' = [a \in 0 .. Grace |-> IF a = 0 THEN past[0] ELSE past[a - 1]]
      BY <1>7 DEF Tick
    <3>3. 0 \in 0 .. Grace /\ \A a \in 0 .. Grace : a = 0 \/ a - 1 \in 0 .. Grace
      BY Constants
    <3> QED BY <3>1, <3>2, <3>3
  <2>5. passed' \in [Chunks -> Ages \cup {Never}]
    <3>1. passed' = [c \in Chunks |-> Older(passed[c])] BY <1>7 DEF Tick
    <3> QED BY <1>0, <2>2, <3>1
  <2>6. last_report' \in 0 .. Interval BY <1>0, <1>7, Constants DEF Tick
  <2>7. ended' \in Ages \cup {Never} BY <1>0, <1>7, <2>2 DEF Tick
  <2>8. UNCHANGED <<held, next, repairs, bitmap, frontier, reordering, tel,
                    overtaken>>
    BY <1>7 DEF Tick
  <2> QED BY <2>1, <2>3, <2>4, <2>5, <2>6, <2>7, <2>8, Zenon DEF Typed, TypeOK
<1>8. CASE UNCHANGED vars BY <1>8, Zenon DEF vars, Typed, TypeOK
<1> QED BY <1>1, <1>2, <1>3, <1>4, <1>5, <1>6, <1>7, <1>8 DEF Next

(* Every variable of Feedback keeps its type.                              *)
THEOREM TypeCorrect == Spec => []TypeOK
<1>1. Typed => TypeOK BY DEF Typed
<1> QED BY <1>1, InitTyped, NextTyped, PTL DEF Spec

-----------------------------------------------------------------------------
(* The counters.                                                           *)
LEMMA BitmapSize ==
    ASSUME Typed
    PROVE  IsFiniteSet(bitmap) /\ Cardinality(bitmap) \in Nat /\ Cardinality(bitmap) <= N
<1>1. bitmap \in SUBSET (0 .. N - 1) BY Constants DEF Typed, TypeOK
<1>2. 0 \in Int /\ N - 1 \in Int BY Constants
<1>3. IsFiniteSet(0 .. N - 1) /\ Cardinality(0 .. N - 1) = N
  <2>1. Cardinality(0 .. N - 1) = IF 0 > N - 1 THEN 0 ELSE (N - 1) - 0 + 1
    BY <1>2, FS_Interval
  <2> QED BY <1>2, <2>1, FS_Interval, Constants
<1> QED BY <1>1, <1>3, FS_Subset, FS_CardinalityType

Counted ==
    /\ tel.accepted <= Cardinality(bitmap)
    /\ tel.accepted + tel.duplicate = tel.valid
    /\ tel.repair <= tel.valid

LEMMA InitCounted == Init /\ Typed => Counted
<1> SUFFICES ASSUME Init, Typed PROVE Counted OBVIOUS
<1>1. Cardinality(bitmap) \in Nat BY BitmapSize
<1> QED BY <1>1 DEF Init, Counted

LEMMA RecvCounted ==
    ASSUME Typed, Counted, NEW d \in net, Recv(d) PROVE Counted'
<1> DEFINE n == Cardinality(bitmap)
<1>1. d.seq \in Chunks /\ d.repair \in BOOLEAN /\ tel \in Counters
  BY DEF Typed, TypeOK, Datagrams, Counters
<1>2. tel' = Count(d, d.seq \notin bitmap) /\ (d.seq \notin bitmap) \in BOOLEAN
  BY DEF Recv
<1>3. /\ tel'.valid = tel.valid + 1
      /\ tel'.repair = IF d.repair THEN tel.repair + 1 ELSE tel.repair
      /\ tel'.accepted = IF d.seq \notin bitmap THEN tel.accepted + 1 ELSE tel.accepted
      /\ tel'.duplicate = IF d.seq \notin bitmap THEN tel.duplicate ELSE tel.duplicate + 1
  BY <1>1, <1>2, CountAdds
<1>4. n \in Nat /\ IsFiniteSet(bitmap) BY BitmapSize
<1>5. PICK a \in Nat, v \in Nat, u \in Nat, r \in Nat :
         a = tel.accepted /\ v = tel.valid /\ u = tel.duplicate /\ r = tel.repair
  BY <1>1 DEF Counters
<1>6. a <= n /\ a + u = v /\ r <= v BY <1>5 DEF Counted
<1>7. tel'.repair <= tel'.valid
  <2>1. tel'.valid = v + 1 /\ tel'.repair \in {r, r + 1} BY <1>3, <1>5
  <2> QED BY <1>6, <2>1
<1>8. CASE d.seq \notin bitmap
  <2>1. Cardinality(bitmap') = n + 1
    BY <1>4, <1>8, FS_AddElement DEF Recv
  <2>2. tel'.accepted = a + 1 /\ tel'.duplicate = u /\ tel'.valid = v + 1
    BY <1>3, <1>5, <1>8
  <2> HIDE DEF n
  <2>3. a + 1 <= n + 1 /\ (a + 1) + u = v + 1 BY <1>4, <1>6
  <2> QED BY <1>7, <2>1, <2>2, <2>3 DEF Counted
<1>9. CASE d.seq \in bitmap
  <2>1. Cardinality(bitmap') = n BY <1>9 DEF Recv
  <2>2. tel'.accepted = a /\ tel'.duplicate = u + 1 /\ tel'.valid = v + 1
    BY <1>3, <1>5, <1>9
  <2> HIDE DEF n
  <2>3. a + (u + 1) = v + 1 BY <1>6
  <2> QED BY <1>6, <1>7, <2>1, <2>2, <2>3 DEF Counted
<1> QED BY <1>8, <1>9

LEMMA NextCounted == Typed /\ Counted /\ [Next]_vars => Counted'
<1> SUFFICES ASSUME Typed, Counted, [Next]_vars PROVE Counted' OBVIOUS
<1>1. CASE \E d \in net : Recv(d) BY <1>1, RecvCounted
<1>2. CASE UNCHANGED <<tel, bitmap>> BY <1>2 DEF Counted
<1> QED BY <1>1, <1>2 DEF Next, vars, receiver, SendOriginal, SendRepair, DrainEnd,
                          Lose, Report, Tick

(* The sender accepts the counters of every report: parse_feedback_report, *)
(* which ends the session on counters that disagree, never does so on what *)
(* receive_udp counted.                                                    *)
THEOREM CountersAgree == Spec => []ReportsAreConsistent
<1>1. Init => Typed /\ Counted BY InitTyped, InitCounted
<1>2. Typed /\ Counted => ReportsAreConsistent
  <2> SUFFICES ASSUME Typed, Counted PROVE ReportsAreConsistent OBVIOUS
  <2>1. Cardinality(bitmap) <= N BY BitmapSize
  <2>2. frontier <= N BY Constants DEF Typed, TypeOK
  <2>3. tel.accepted <= Cardinality(bitmap) /\ tel.accepted + tel.duplicate = tel.valid
        /\ tel.repair <= tel.valid
    BY DEF Counted
  <2>4. tel.accepted <= tel.valid /\ tel.duplicate <= tel.valid
    <3>1. tel.accepted \in Nat /\ tel.duplicate \in Nat BY DEF Typed, TypeOK
    <3> QED BY <2>3, <3>1
  <2> QED BY <2>1, <2>2, <2>3, <2>4 DEF ReportsAreConsistent, Consistent
<1> QED BY <1>1, <1>2, NextTyped, NextCounted, PTL DEF Spec

-----------------------------------------------------------------------------
(* The frontier is highest_received + 1, and what the transfer began with  *)
(* is still held.                                                          *)
FrontierRight ==
    /\ held \subseteq bitmap
    /\ frontier > 0 => frontier - 1 \in bitmap
    /\ \A c \in bitmap : c < frontier

(* Without holes, everything below the first frontier was held.            *)
LEMMA PrefixHeld ==
    ASSUME held \in SUBSET Chunks, NoHoles
    PROVE  \A c \in Chunks : c < FrontierOf(held) => c \in held
<1>1. PICK f \in 0 .. N : f = FrontierOf(held) BY FrontierFound
<1>2. \A c \in held : c < f BY <1>1, FrontierFound
<1>3. f \in Nat /\ f - 1 \in Int BY <1>1, Constants
<1>4. held \in SUBSET (0 .. f - 1) BY <1>2, <1>3, Constants
<1>5. IsFiniteSet(0 .. f - 1) /\ Cardinality(0 .. f - 1) = f
  <2>1. Cardinality(0 .. f - 1) = IF 0 > f - 1 THEN 0 ELSE (f - 1) - 0 + 1
    BY <1>3, FS_Interval
  <2> QED BY <1>3, <2>1, FS_Interval
<1>6. held = 0 .. f - 1
  <2>1. Cardinality(held) = Cardinality(0 .. f - 1) BY <1>1, <1>5 DEF NoHoles
  <2> QED BY <1>4, <1>5, <2>1, FS_Subset
<1>7. \A c \in Chunks : c < f => c \in 0 .. f - 1 BY <1>3, Constants
<1> QED BY <1>1, <1>6, <1>7

LEMMA InitFrontier == Init /\ Typed => FrontierRight
<1> SUFFICES ASSUME Init, Typed PROVE FrontierRight OBVIOUS
<1>1. held \in SUBSET Chunks BY FeedbackAssumption DEF Init
<1>2. frontier = FrontierOf(held) /\ bitmap = held BY DEF Init
<1> QED BY <1>1, <1>2, FrontierFound DEF FrontierRight

LEMMA RecvFrontier ==
    ASSUME Typed, FrontierRight, NEW d \in net, Recv(d)
    PROVE  /\ FrontierRight' /\ bitmap' = bitmap \cup {d.seq}
           /\ frontier <= frontier' /\ d.seq < frontier'
<1>1. d.seq \in 0 .. N - 1 /\ frontier \in Nat /\ bitmap \subseteq 0 .. N - 1
  BY Places
<1>2. bitmap' = bitmap \cup {d.seq} /\ held' = held BY DEF Recv
<1>3. frontier' = IF d.seq < frontier THEN frontier ELSE d.seq + 1 BY DEF Recv, Advance
<1>4. PICK q \in 0 .. N - 1 : q = d.seq BY <1>1
<1>5. /\ held \subseteq bitmap /\ (frontier > 0 => frontier - 1 \in bitmap)
      /\ \A c \in bitmap : c < frontier
  BY DEF FrontierRight
<1>6. CASE q < frontier
  <2>1. frontier' = frontier BY <1>3, <1>4, <1>6
  <2> QED BY <1>1, <1>2, <1>4, <1>5, <1>6, <2>1 DEF FrontierRight
<1>7. CASE ~(q < frontier)
  <2>1. frontier' = q + 1 /\ frontier <= q BY <1>1, <1>3, <1>4, <1>7, Constants
  <2>2. frontier' - 1 = q /\ frontier <= frontier' /\ q < frontier' BY <1>1, <2>1, Constants
  <2>3. \A c \in bitmap : c < frontier'
    <3> SUFFICES ASSUME NEW c \in bitmap PROVE c < frontier' OBVIOUS
    <3>1. c < frontier /\ c \in Int /\ q \in Int BY <1>1, <1>5
    <3> QED BY <1>1, <2>1, <3>1
  <2> QED BY <1>2, <1>4, <1>5, <2>2, <2>3 DEF FrontierRight
<1> QED BY <1>6, <1>7

LEMMA NextFrontier == Typed /\ FrontierRight /\ [Next]_vars => FrontierRight'
<1> SUFFICES ASSUME Typed, FrontierRight, [Next]_vars PROVE FrontierRight' OBVIOUS
<1>1. CASE \E d \in net : Recv(d) BY <1>1, RecvFrontier
<1>2. CASE UNCHANGED <<held, bitmap, frontier>> BY <1>2 DEF FrontierRight
<1> QED BY <1>1, <1>2 DEF Next, vars, receiver, SendOriginal, SendRepair, DrainEnd,
                          Lose, Report, Tick

LEMMA NextReal ==
    Typed /\ FrontierRight /\ ReorderingIsReal /\ [Next]_vars => ReorderingIsReal'
<1> SUFFICES ASSUME Typed, FrontierRight, ReorderingIsReal, [Next]_vars
             PROVE  ReorderingIsReal'
  OBVIOUS
<1>1. ASSUME NEW d \in net, Recv(d) PROVE ReorderingIsReal'
  <2> SUFFICES ASSUME reordering', NoHoles' PROVE overtaken' BY DEF ReorderingIsReal
  <2>1. NoHoles BY <1>1 DEF Recv, NoHoles, FrontierOf
  <2>2. CASE reordering
    <3>1. overtaken BY <2>1, <2>2 DEF ReorderingIsReal
    <3> QED BY <1>1, <3>1 DEF Recv
  <2>3. CASE ~reordering
    <3>1. /\ d.seq \notin bitmap /\ ~d.repair /\ d.seq < frontier
          /\ overtaken' = (overtaken \/ (~d.repair /\ \E c \in bitmap \ held : c > d.seq))
      BY <1>1, <2>3 DEF Recv, Reordered
    <3>2. /\ d.seq \in 0 .. N - 1 /\ frontier \in Nat /\ bitmap \subseteq 0 .. N - 1
          /\ held \in SUBSET Chunks
      BY Places
    <3>3. PICK q \in 0 .. N - 1 : q = d.seq BY <3>2
    <3>4. q < frontier /\ frontier > 0 BY <3>1, <3>2, <3>3, Constants
    <3>5. frontier - 1 \in bitmap /\ held \subseteq bitmap BY <3>4 DEF FrontierRight
    <3>6. frontier - 1 # q BY <3>1, <3>3, <3>5
    <3>7. frontier - 1 > q BY <3>2, <3>4, <3>6, Constants
    <3>8. frontier - 1 \notin held
      <4> SUFFICES ASSUME frontier - 1 \in held PROVE FALSE OBVIOUS
      <4>1. PICK f \in 0 .. N : f = FrontierOf(held) BY <3>2, FrontierFound
      <4>2. frontier - 1 < f BY <3>2, <4>1, FrontierFound
      <4>3. q < f BY <3>2, <3>7, <4>2, Constants
      <4>4. q \in held BY <2>1, <3>2, <4>1, <4>3, PrefixHeld, Constants
      <4> QED BY <3>1, <3>3, <3>5, <4>4
    <3> QED BY <3>1, <3>3, <3>5, <3>7, <3>8
  <2> QED BY <2>2, <2>3
<1>2. CASE UNCHANGED <<held, reordering, overtaken>>
  BY <1>2 DEF ReorderingIsReal, NoHoles, FrontierOf
<1> QED BY <1>1, <1>2 DEF Next, vars, receiver, SendOriginal, SendRepair, DrainEnd,
                          Lose, Report, Tick

(* receive_udp raises reordering_observed, in a transfer that began with a *)
(* prefix or nothing, only after an original came behind a later one.      *)
THEOREM RaisedByReordering == Spec => []ReorderingIsReal
<1>1. Init => Typed /\ FrontierRight /\ ReorderingIsReal
  BY InitTyped, InitFrontier DEF Init, ReorderingIsReal
<1> QED BY <1>1, NextTyped, NextFrontier, NextReal, PTL DEF Spec

-----------------------------------------------------------------------------
(* The history of mature_frontier gives the frontier of every age it may   *)
(* be asked for.                                                           *)
PastKept == \A a \in 0 .. Grace : Newest(history, a) = past[a]

LEMMA InitPast == Init /\ Typed => PastKept
<1> SUFFICES ASSUME Init, Typed, NEW a \in 0 .. Grace
             PROVE  Newest(history, a) = past[a]
  BY DEF PastKept
<1> DEFINE f == FrontierOf(held)
           e == [age |-> 0, value |-> f]
<1>1. history = <<e>> /\ past[a] = IF a = 0 THEN f ELSE 0 BY DEF Init
<1>2. history \in Seq(Entries) BY DEF Typed, TypeOK, Entries
<1>3. Len(history) = 1 /\ history[1] = e /\ e.age = 0 /\ e.value = f BY <1>1
<1> HIDE DEF e, f
<1>4. CASE a = 0
  <2>1. LastMature(history, 0, 1)
    <3>1. \A j \in 1 + 1 .. 1 : FALSE OBVIOUS
    <3> QED BY <1>3, <3>1 DEF LastMature
  <2>2. Newest(history, 0) = history[1].value BY <1>2, <2>1, NewestTaken
  <2> QED BY <1>1, <1>3, <1>4, <2>2
<1>5. CASE a # 0
  <2>1. a \in Nat /\ ~(0 >= a) BY <1>5, Constants
  <2>2. \A i \in 1 .. 1 : i = 1 OBVIOUS
  <2>3. \A i \in 1 .. Len(history) : ~(history[i].age >= a) BY <1>3, <2>1, <2>2
  <2>4. Newest(history, a) = 0 BY <1>2, <2>1, <2>3, NoneMature
  <2> QED BY <1>1, <1>5, <2>4
<1> QED BY <1>4, <1>5

LEMMA NextPast == Typed /\ PastKept /\ [Next]_vars => PastKept'
<1> SUFFICES ASSUME Typed, PastKept, [Next]_vars PROVE PastKept' OBVIOUS
<1>0. past \in [0 .. Grace -> 0 .. N] BY DEF Typed, TypeOK
<1>1. CASE Report
  <2>1. history' = Pruned(Recorded, active_grace) /\ past' = [past EXCEPT ![0] = frontier]
    BY <1>1 DEF Report
  <2>2. /\ Newest(history', 0) = frontier
        /\ \A a \in 1 .. Grace : Newest(history', a) = Newest(history, a)
    BY <2>1, HistoryOfReport
  <2>3. \A a \in 0 .. Grace : a = 0 \/ (a \in 1 .. Grace /\ a # 0) BY Constants
  <2>4. ASSUME NEW a \in 0 .. Grace PROVE Newest(history', a) = past'[a]
    <3>1. past'[a] = IF a = 0 THEN frontier ELSE past[a] BY <1>0, <2>1
    <3>2. Newest(history, a) = past[a] BY DEF PastKept
    <3> HIDE <1>0
    <3> QED BY <2>2, <2>3, <3>1, <3>2
  <2> QED BY <2>4 DEF PastKept
<1>2. CASE Tick
  <2>1. history \in Seq(Entries) /\ history # <<>> BY DEF Typed, TypeOK, Entries
  <2>2. history' = [i \in DOMAIN history |->
                       [history[i] EXCEPT !.age = Older(history[i].age)]]
    BY <1>2 DEF Tick
  <2>3. /\ Newest(history', 0) = Newest(history, 0)
        /\ \A a \in 1 .. Grace : Newest(history', a) = Newest(history, a - 1)
    BY <2>1, <2>2, AgingShifts
  <2>4. past' = [a \in 0 .. Grace |-> IF a = 0 THEN past[0] ELSE past[a - 1]]
    BY <1>2 DEF Tick
  <2>5. /\ 0 \in 0 .. Grace
        /\ \A a \in 0 .. Grace : a = 0 \/ (a \in 1 .. Grace /\ a # 0 /\ a - 1 \in 0 .. Grace)
    BY Constants
  <2>6. ASSUME NEW a \in 0 .. Grace PROVE Newest(history', a) = past'[a]
    <3>1. past'[a] = IF a = 0 THEN past[0] ELSE past[a - 1] BY <2>4
    <3>2. CASE a = 0 BY <2>3, <2>5, <3>1, <3>2 DEF PastKept
    <3>3. CASE a # 0
      <4>1. a \in 1 .. Grace /\ a - 1 \in 0 .. Grace BY <2>5, <3>3
      <4>2. Newest(history, a - 1) = past[a - 1] BY <4>1 DEF PastKept
      <4> QED BY <2>3, <3>1, <3>3, <4>1, <4>2
    <3> QED BY <3>2, <3>3
  <2> QED BY <2>6 DEF PastKept
<1>3. CASE UNCHANGED <<history, past>> BY <1>3 DEF PastKept
<1> QED BY <1>1, <1>2, <1>3 DEF Next, vars, receiver, SendOriginal, SendRepair, DrainEnd,
                                Lose, Recv

(* What mature_frontier drops from frontier_history is never missed: for   *)
(* no grace, and for the one that reordering may activate at any time, the *)
(* history gives the newest frontier that was recorded that long ago.      *)
THEOREM NothingPrunedIsMissed == Spec => []PruningLosesNothing
<1>1. Init => Typed /\ PastKept BY InitTyped, InitPast
<1>2. PastKept => PruningLosesNothing
  <2>1. 0 \in 0 .. Grace /\ Grace \in 0 .. Grace BY Constants
  <2> QED BY <2>1 DEF PastKept, PruningLosesNothing
<1> QED BY <1>1, <1>2, NextTyped, NextPast, PTL DEF Spec

(* How far a report reaches.                                               *)
LEMMA ReportReach ==
    ASSUME Typed, PastKept, ~EndMature
    PROVE  report_end = IF reordering THEN past[Grace] ELSE frontier
<1> DEFINE h == Pruned(Recorded, active_grace)
<1>1. report_end = Newest(h, active_grace) BY DEF report_end
<1>2. Newest(h, 0) = frontier /\ \A a \in 1 .. Grace : Newest(h, a) = Newest(history, a)
  BY HistoryOfReport
<1> HIDE DEF h
<1>3. Grace \in 1 .. Grace /\ Grace \in 0 .. Grace BY Constants
<1>4. Newest(history, Grace) = past[Grace] BY <1>3 DEF PastKept
<1> QED BY <1>1, <1>2, <1>3, <1>4 DEF active_grace

-----------------------------------------------------------------------------
(* Chunks the frontier has passed: the frontier recorded by the report     *)
(* after that, and each one of later ticks, lies beyond them.              *)
PassedKept ==
    \A c \in Chunks :
        /\ passed[c] # Never => c < frontier
        /\ passed[c] > last_report => c < past[0]
        /\ \A a \in 1 .. Grace : passed[c] >= a + Interval => c < past[a]

LEMMA InitPassed == Init /\ Typed => PassedKept
<1> SUFFICES ASSUME Init, Typed, NEW c \in Chunks
             PROVE  /\ passed[c] # Never => c < frontier
                    /\ passed[c] > last_report => c < past[0]
                    /\ \A a \in 1 .. Grace : passed[c] >= a + Interval => c < past[a]
  BY DEF PassedKept
<1>1. /\ passed[c] = IF c < FrontierOf(held) THEN 0 ELSE Never
      /\ frontier = FrontierOf(held) /\ last_report = 0
  BY DEF Init
<1>2. ~(0 > last_report) /\ ~(Never > last_report) BY <1>1, Constants
<1>3. \A a \in 1 .. Grace : ~(0 >= a + Interval) /\ ~(Never >= a + Interval) BY Constants
<1> QED BY <1>1, <1>2, <1>3

LEMMA NextPassed ==
    Typed /\ FrontierRight /\ PassedKept /\ [Next]_vars => PassedKept'
<1> SUFFICES ASSUME Typed, FrontierRight, PassedKept, [Next]_vars PROVE PassedKept'
  OBVIOUS
<1>0. /\ past \in [0 .. Grace -> 0 .. N] /\ passed \in [Chunks -> Ages \cup {Never}]
      /\ last_report \in 0 .. Interval
  BY DEF Typed, TypeOK
<1>a. ASSUME NEW c \in Chunks
      PROVE  /\ passed[c] # Never => c < frontier
             /\ passed[c] > last_report => c < past[0]
             /\ \A a \in 1 .. Grace : passed[c] >= a + Interval => c < past[a]
             /\ passed[c] \in -1 .. Cap
  <2>1. passed[c] \in Ages \cup {Never} BY <1>0
  <2>2. passed[c] \in -1 .. Cap BY <2>1, Constants
  <2> QED BY <2>2 DEF PassedKept
<1>1. ASSUME NEW d \in net, Recv(d) PROVE PassedKept'
  <2>1. frontier \in Nat /\ frontier' \in Nat /\ frontier <= frontier'
    <3>1. frontier' \in 0 .. N
      <4>1. Typed' BY NextTyped
      <4> QED BY <4>1 DEF Typed, TypeOK
    <3> QED BY <1>1, <3>1, RecvFrontier, Places, Constants
  <2>2. /\ passed' = [c \in Chunks |-> IF c < frontier' /\ passed[c] = Never
                                      THEN 0 ELSE passed[c]]
        /\ last_report' = last_report /\ past' = past
    BY <1>1 DEF Recv
  <2>3. ASSUME NEW c \in Chunks
        PROVE  /\ passed'[c] # Never => c < frontier'
               /\ passed'[c] > last_report' => c < past'[0]
               /\ \A a \in 1 .. Grace : passed'[c] >= a + Interval => c < past'[a]
    <3>1. passed'[c] = IF c < frontier' /\ passed[c] = Never THEN 0 ELSE passed[c]
      BY <2>2
    <3>2. CASE passed'[c] = passed[c]
      <4>1. c < frontier => c < frontier' BY <2>1, Constants
      <4> QED BY <1>a, <2>2, <3>2, <4>1
    <3>3. CASE c < frontier' /\ passed'[c] = 0
      <4>1. ~(0 > last_report) /\ \A a \in 1 .. Grace : ~(0 >= a + Interval)
        BY <1>0, Constants
      <4> QED BY <2>2, <3>3, <4>1
    <3> QED BY <3>1, <3>2, <3>3
  <2> QED BY <2>3 DEF PassedKept
<1>2. CASE Report
  <2>1. /\ past' = [past EXCEPT ![0] = frontier] /\ last_report' = 0
        /\ passed' = passed /\ frontier' = frontier
    BY <1>2 DEF Report
  <2>2. past'[0] = frontier /\ \A a \in 1 .. Grace : past'[a] = past[a]
    <3>1. 0 \in 0 .. Grace /\ \A a \in 1 .. Grace : a \in 0 .. Grace /\ a # 0 BY Constants
    <3> QED BY <1>0, <2>1, <3>1
  <2>3. ASSUME NEW c \in Chunks PROVE passed[c] > 0 => c < frontier
    <3>1. ~(Never > 0) BY Constants
    <3> QED BY <1>a, <3>1
  <2> QED BY <1>a, <2>1, <2>2, <2>3 DEF PassedKept
<1>3. CASE Tick
  <2>1. /\ last_report < Interval /\ last_report' = last_report + 1
        /\ passed' = [c \in Chunks |-> Older(passed[c])]
        /\ past' = [a \in 0 .. Grace |-> IF a = 0 THEN past[0] ELSE past[a - 1]]
        /\ frontier' = frontier
    BY <1>3 DEF Tick
  <2>2. past'[0] = past[0] /\ \A a \in 1 .. Grace : past'[a] = past[a - 1]
    <3>1. 0 \in 0 .. Grace /\ \A a \in 1 .. Grace : a \in 0 .. Grace /\ a # 0 BY Constants
    <3> QED BY <2>1, <3>1
  <2>3. ASSUME NEW c \in Chunks
        PROVE  /\ passed'[c] # Never => c < frontier'
               /\ passed'[c] > last_report' => c < past'[0]
               /\ \A a \in 1 .. Grace : passed'[c] >= a + Interval => c < past'[a]
    <3>1. PICK p \in -1 .. Cap : p = passed[c] BY <1>a
    <3>2. passed'[c] = Older(p) BY <2>1, <3>1
    <3>3. PICK r \in Nat : r = last_report /\ r < Interval BY <1>0, <2>1, Constants
    <3>4. (Older(p) # Never => p # Never) /\ (Older(p) > r + 1 => p > r)
      BY <3>1, <3>3, Constants DEF Older
    <3>5. ASSUME NEW a \in 1 .. Grace, Older(p) >= a + Interval
          PROVE  c < past[a - 1]
      <4>1. CASE a = 1
        <5>1. p > r BY <3>1, <3>3, <3>5, <4>1, Constants DEF Older
        <5>2. a - 1 = 0 BY <4>1
        <5> QED BY <1>a, <3>1, <3>3, <5>1, <5>2
      <4>2. CASE a # 1
        <5>1. a - 1 \in 1 .. Grace /\ p >= (a - 1) + Interval
          BY <3>1, <3>5, <4>2, Constants DEF Older
        <5> QED BY <1>a, <3>1, <5>1
      <4> QED BY <4>1, <4>2
    <3> HIDE DEF Older
    <3>6. passed'[c] # Never => c < frontier' BY <1>a, <2>1, <3>1, <3>2, <3>4
    <3>7. passed'[c] > last_report' => c < past'[0]
      BY <1>a, <2>1, <2>2, <3>1, <3>2, <3>3, <3>4
    <3> QED BY <2>2, <3>2, <3>5, <3>6, <3>7
  <2> QED BY <2>3 DEF PassedKept
<1>4. CASE UNCHANGED <<passed, frontier, last_report, past>> BY <1>4 DEF PassedKept
<1> QED BY <1>1, <1>2, <1>3, <1>4 DEF Next, vars, receiver, SendOriginal, SendRepair,
                                      DrainEnd, Lose

LEMMA Covered ==
    ASSUME Typed, PastKept, PassedKept PROVE OldHolesCovered
<1> SUFFICES ASSUME NEW c \in Chunks, passed[c] >= Grace + Interval
             PROVE  c < report_end
  BY DEF OldHolesCovered
<1>1. CASE EndMature BY <1>1, Constants DEF report_end
<1>2. CASE ~EndMature
  <2>1. report_end = IF reordering THEN past[Grace] ELSE frontier BY <1>2, ReportReach
  <2>2. Grace \in 1 .. Grace /\ ~(Never >= Grace + Interval) BY Constants
  <2>3. c < frontier /\ c < past[Grace] BY <2>2 DEF PassedKept
  <2> QED BY <2>1, <2>3
<1> QED BY <1>1, <1>2

(* The grace puts the report of a missing chunk off, but not for ever: the *)
(* report of receive_udp reaches past every chunk that the frontier passed *)
(* repair_grace and report_interval ago, whenever reordering was observed. *)
THEOREM HolesAreReported == Spec => OldHolesReported
<1> DEFINE IInv == Typed /\ FrontierRight /\ PastKept /\ PassedKept
<1>1. Init => IInv BY InitTyped, InitFrontier, InitPast, InitPassed
<1>2. IInv /\ [Next]_vars => IInv' BY NextTyped, NextFrontier, NextPast, NextPassed
<1>3. IInv => (Report => OldHolesCovered) BY Covered
<1> HIDE DEF IInv
<1> QED BY <1>1, <1>2, <1>3, PTL DEF Spec, OldHolesReported

-----------------------------------------------------------------------------
(* Ages of what is under way, and END behind every original.               *)
NetYoung == \A d \in net : d.age <= Delay

EndAfter ==
    ended # Never => next = N + 1 /\ \A d \in net : ~d.repair => ended <= d.age

LEMMA NextEnd ==
    Typed /\ NetYoung /\ EndAfter /\ [Next]_vars => NetYoung' /\ EndAfter'
<1> SUFFICES ASSUME Typed, NetYoung, EndAfter, [Next]_vars
             PROVE  NetYoung' /\ EndAfter'
  OBVIOUS
<1>0. next \in Int /\ ended \in -1 .. Cap
  <2>1. next \in 0 .. N + 1 /\ ended \in Ages \cup {Never} BY DEF Typed, TypeOK
  <2> QED BY <2>1, Constants
<1>1. CASE SendOriginal
  <2>1. ended = Never
    <3>1. next < N BY <1>1 DEF SendOriginal
    <3>2. next # N + 1 BY <1>0, <3>1, Constants
    <3> QED BY <3>2 DEF EndAfter
  <2>2. ended' = Never BY <1>1, <2>1 DEF SendOriginal, receiver
  <2>3. \A d \in net' : d \in net \/ d.age = 0 BY <1>1 DEF SendOriginal
  <2>4. NetYoung' BY <2>3, Constants DEF NetYoung
  <2> QED BY <2>2, <2>4 DEF EndAfter
<1>2. ASSUME NEW c \in Chunks, SendRepair(c) PROVE NetYoung' /\ EndAfter'
  <2>1. \A d \in net' : d \in net \/ (d.age = 0 /\ d.repair) BY <1>2 DEF SendRepair
  <2>2. ended' = ended /\ next' = next BY <1>2 DEF SendRepair, receiver
  <2>3. NetYoung' BY <2>1, Constants DEF NetYoung
  <2> QED BY <2>1, <2>2, <2>3 DEF EndAfter
<1>3. CASE DrainEnd
  <2>1. net' = net /\ next' = N + 1 /\ ended' = 0 BY <1>3 DEF DrainEnd
  <2>2. \A d \in net : 0 <= d.age BY Places, Constants
  <2> QED BY <2>1, <2>2 DEF NetYoung, EndAfter
<1>4. ASSUME net' \subseteq net, next' = next, ended' = ended
      PROVE  NetYoung' /\ EndAfter'
  BY <1>4 DEF NetYoung, EndAfter
<1>5. CASE Tick
  <2>1. /\ \A d \in net : d.age < Delay
        /\ net' = {[d EXCEPT !.age = d.age + 1] : d \in net}
        /\ ended' = Older(ended) /\ next' = next
    BY <1>5 DEF Tick
  <2>2. (Older(ended) # Never => ended # Never) /\ Older(ended) \in {ended, ended + 1}
    BY <1>0, Constants DEF Older
  <2>3. ASSUME NEW e \in net'
        PROVE  e.age <= Delay /\ (ended' # Never /\ ~e.repair => ended' <= e.age)
    <3>1. PICK d \in net : e = [d EXCEPT !.age = d.age + 1] BY <2>1
    <3>2. d \in Datagrams BY DEF Typed, TypeOK
    <3>3. e.age = d.age + 1 /\ e.repair = d.repair BY <3>1, <3>2 DEF Datagrams
    <3>4. PICK x \in 0 .. Cap : x = d.age /\ x < Delay BY <2>1, Places
    <3>5. e.age <= Delay BY <3>3, <3>4, Constants
    <3>6. ASSUME ended' # Never, ~e.repair PROVE ended' <= e.age
      <4>1. ended <= x BY <2>1, <2>2, <3>3, <3>4, <3>6 DEF EndAfter
      <4> QED BY <1>0, <2>1, <2>2, <3>3, <3>4, <4>1, Constants
    <3> QED BY <3>5, <3>6
  <2>4. ended' # Never => next' = N + 1 BY <2>1, <2>2 DEF EndAfter
  <2> QED BY <2>3, <2>4 DEF NetYoung, EndAfter
<1>6. CASE UNCHANGED vars BY <1>4, <1>6 DEF vars
<1>7. ASSUME NEW d \in net, Lose(d) \/ Recv(d) PROVE NetYoung' /\ EndAfter'
  <2>1. net' \subseteq net /\ next' = next /\ ended' = ended
    BY <1>7 DEF Lose, Recv, receiver
  <2> QED BY <1>4, <2>1
<1>8. CASE Report BY <1>4, <1>8 DEF Report
<1> QED BY <1>1, <1>2, <1>3, <1>5, <1>6, <1>7, <1>8 DEF Next

-----------------------------------------------------------------------------
(* The first pass is ahead of all that was received or is under way, and   *)
(* an original below an old frontier was sent before that frontier's age.  *)
SentBefore(c, a) ==
    c < next /\ \A d \in net : d.seq = c /\ ~d.repair => d.age >= a

Order ==
    /\ \A d \in net : d.seq < next
    /\ \A c \in repairs : c < next
    /\ \A c \in Chunks \ held : c < frontier => c < next
    /\ \A c \in Chunks \ held : \A a \in 0 .. Grace : c < past[a] => SentBefore(c, a)

LEMMA InitOrder == Init /\ Typed /\ NoHoles => Order
<1> SUFFICES ASSUME Init, Typed, NoHoles PROVE Order OBVIOUS
<1>1. /\ net = {} /\ repairs = {} /\ frontier = FrontierOf(held)
      /\ past = [a \in 0 .. Grace |-> IF a = 0 THEN FrontierOf(held) ELSE 0]
  BY DEF Init
<1>2. held \in SUBSET Chunks BY Places
<1>3. \A c \in Chunks \ held : ~(c < FrontierOf(held)) BY <1>2, PrefixHeld
<1>4. \A c \in Chunks : ~(c < 0) BY Constants
<1>5. \A c \in Chunks \ held : \A a \in 0 .. Grace : ~(c < past[a]) BY <1>1, <1>3, <1>4
<1> QED BY <1>1, <1>3, <1>5 DEF Order

(* What a report calls missing was sent.                                   *)
LEMMA MissingSent ==
    ASSUME Typed, FrontierRight, PastKept, EndAfter, Order, NEW c \in missing
    PROVE  c < next /\ (~EndMature /\ reordering => SentBefore(c, Grace))
<1>1. c \in 0 .. report_end - 1 /\ c \notin bitmap BY DEF missing
<1>2. report_end \in 0 .. N BY ReportWithin
<1>3. c \in Chunks \ held /\ c < report_end
  <2>1. c \in Chunks /\ c < report_end
    <3> HIDE DEF report_end
    <3> QED BY <1>1, <1>2, Constants
  <2> QED BY <1>1, <2>1 DEF FrontierRight
<1>4. CASE EndMature
  <2>1. next = N + 1 BY <1>4 DEF EndMature, EndAfter
  <2> QED BY <1>3, <1>4, <2>1, Constants
<1>5. CASE ~EndMature
  <2>1. report_end = IF reordering THEN past[Grace] ELSE frontier BY <1>5, ReportReach
  <2>2. Grace \in 0 .. Grace BY Constants
  <2>3. CASE reordering
    <3>1. SentBefore(c, Grace) BY <1>3, <2>1, <2>2, <2>3 DEF Order
    <3> QED BY <3>1 DEF SentBefore
  <2>4. CASE ~reordering BY <1>3, <2>1, <2>4 DEF Order
  <2> QED BY <2>3, <2>4
<1> QED BY <1>4, <1>5

LEMMA NextOrder ==
    ASSUME Typed, FrontierRight, PastKept, EndAfter, Order, [Next]_vars PROVE Order'
<1>0. next \in Int /\ past \in [0 .. Grace -> 0 .. N] /\ repairs \subseteq Chunks
  <2>1. next \in 0 .. N + 1 /\ past \in [0 .. Grace -> 0 .. N] /\ repairs \subseteq Chunks
    BY DEF Typed, TypeOK
  <2> QED BY <2>1, Constants
<1>a. \A c \in Chunks : c \in Int BY Constants
<1>b. \A d \in net : d.seq \in Int /\ d.age \in Int /\ d.age >= 0 BY Places, Constants
<1>1. CASE SendOriginal
  <2>1. /\ next' = next + 1 /\ repairs' = repairs /\ held' = held
        /\ frontier' = frontier /\ past' = past
    BY <1>1 DEF SendOriginal, receiver
  <2>2. \A d \in net' : d \in net \/ (d.seq = next /\ next \notin held)
    BY <1>1 DEF SendOriginal
  <2>3. \A x \in Int : x < next => x < next' BY <1>0, <2>1
  <2>4. \A d \in net' : d.seq < next'
    BY <1>0, <1>b, <2>1, <2>2, <2>3 DEF Order
  <2>5. ASSUME NEW c \in Chunks \ held, NEW a \in 0 .. Grace, c < past[a]
        PROVE  SentBefore(c, a)'
    <3>1. SentBefore(c, a) BY <2>5 DEF Order
    <3>2. c # next BY <1>0, <3>1 DEF SentBefore
    <3> QED BY <1>a, <2>2, <2>3, <3>1, <3>2 DEF SentBefore
  <2>6. \A c \in repairs' : c < next' BY <1>0, <1>a, <2>1, <2>3 DEF Order
  <2>7. \A c \in Chunks \ held : c < frontier => c < next' BY <1>a, <2>3 DEF Order
  <2> QED BY <2>1, <2>4, <2>5, <2>6, <2>7 DEF Order
<1>2. ASSUME NEW e \in Chunks, SendRepair(e) PROVE Order'
  <2>1. /\ next' = next /\ repairs' \subseteq repairs /\ held' = held
        /\ frontier' = frontier /\ past' = past /\ e \in repairs
    BY <1>2 DEF SendRepair, receiver
  <2>2. \A d \in net' : d \in net \/ (d.seq = e /\ d.repair) BY <1>2 DEF SendRepair
  <2>3. \A d \in net' : d.seq < next' BY <2>1, <2>2 DEF Order
  <2>4. \A c, a : SentBefore(c, a) => SentBefore(c, a)' BY <2>1, <2>2 DEF SentBefore
  <2> QED BY <2>1, <2>3, <2>4 DEF Order
<1>3. CASE DrainEnd
  <2>1. /\ next = N /\ next' = N + 1 /\ repairs' = repairs /\ held' = held
        /\ frontier' = frontier /\ past' = past /\ net' = net
    BY <1>3 DEF DrainEnd
  <2>2. \A x \in Int : x < next => x < next' BY <1>0, <2>1
  <2>3. \A c \in Chunks, a \in 0 .. Grace : SentBefore(c, a) => SentBefore(c, a)'
    BY <1>a, <2>1, <2>2 DEF SentBefore
  <2>4. \A d \in net' : d.seq < next' BY <1>b, <2>1, <2>2 DEF Order
  <2>5. \A c \in repairs' : c < next' BY <1>0, <1>a, <2>1, <2>2 DEF Order
  <2>6. \A c \in Chunks \ held : c < frontier => c < next' BY <1>a, <2>2 DEF Order
  <2> QED BY <2>1, <2>3, <2>4, <2>5, <2>6 DEF Order
<1>4. ASSUME NEW d \in net, Lose(d) PROVE Order'
  <2>1. /\ next' = next /\ repairs' = repairs /\ held' = held
        /\ frontier' = frontier /\ past' = past /\ net' \subseteq net
    BY <1>4 DEF Lose, receiver
  <2>2. \A c, a : SentBefore(c, a) => SentBefore(c, a)' BY <2>1 DEF SentBefore
  <2> QED BY <2>1, <2>2 DEF Order
<1>5. ASSUME NEW d \in net, Recv(d) PROVE Order'
  <2>1. /\ next' = next /\ repairs' = repairs /\ held' = held /\ past' = past
        /\ net' \subseteq net /\ frontier' = Advance(d.seq)
    BY <1>5 DEF Recv
  <2>2. \A c, a : SentBefore(c, a) => SentBefore(c, a)' BY <2>1 DEF SentBefore
  <2>3. ASSUME NEW c \in Chunks \ held, c < frontier' PROVE c < next
    <3>1. CASE d.seq < frontier
      <4>1. c < frontier BY <2>1, <2>3, <3>1 DEF Advance
      <4> QED BY <4>1 DEF Order
    <3>2. CASE ~(d.seq < frontier)
      <4>1. PICK q \in Int : q = d.seq BY <1>b
      <4>2. c < q + 1 BY <2>1, <2>3, <3>2, <4>1 DEF Advance
      <4>3. q < next BY <4>1 DEF Order
      <4> QED BY <1>0, <1>a, <4>2, <4>3
    <3> QED BY <3>1, <3>2
  <2> QED BY <2>1, <2>2, <2>3 DEF Order
<1>6. CASE Report
  <2>1. /\ next' = next /\ repairs' = repairs \cup missing /\ held' = held
        /\ frontier' = frontier /\ net' = net /\ past' = [past EXCEPT ![0] = frontier]
    BY <1>6 DEF Report
  <2>2. \A c \in repairs' : c < next' BY <2>1, MissingSent DEF Order
  <2>3. ASSUME NEW c \in Chunks \ held, NEW a \in 0 .. Grace, c < past'[a]
        PROVE  SentBefore(c, a)
    <3>1. CASE a = 0
      <4>1. past'[0] = frontier
        <5>1. 0 \in 0 .. Grace BY Constants
        <5> QED BY <1>0, <2>1, <5>1
      <4>2. c < next BY <2>3, <3>1, <4>1 DEF Order
      <4> QED BY <1>b, <3>1, <4>2 DEF SentBefore
    <3>2. CASE a # 0
      <4>1. past'[a] = past[a] BY <1>0, <2>1, <3>2
      <4> QED BY <2>3, <4>1 DEF Order
    <3> QED BY <3>1, <3>2
  <2>4. \A c, a : SentBefore(c, a) => SentBefore(c, a)' BY <2>1 DEF SentBefore
  <2> QED BY <2>1, <2>2, <2>3, <2>4 DEF Order
<1>7. CASE Tick
  <2>1. /\ next' = next /\ repairs' = repairs /\ held' = held /\ frontier' = frontier
        /\ net' = {[d EXCEPT !.age = d.age + 1] : d \in net}
        /\ past' = [a \in 0 .. Grace |-> IF a = 0 THEN past[0] ELSE past[a - 1]]
    BY <1>7 DEF Tick
  <2>2. ASSUME NEW e \in net'
        PROVE  \E d \in net : e.seq = d.seq /\ e.repair = d.repair /\ e.age = d.age + 1
    <3>1. PICK d \in net : e = [d EXCEPT !.age = d.age + 1] BY <2>1
    <3>2. d \in Datagrams BY DEF Typed, TypeOK
    <3>3. e.seq = d.seq /\ e.repair = d.repair /\ e.age = d.age + 1
      BY <3>1, <3>2 DEF Datagrams
    <3> QED BY <3>3
  <2>3. \A d \in net' : d.seq < next' BY <2>1, <2>2 DEF Order
  <2>4. ASSUME NEW c \in Chunks \ held, NEW a \in 0 .. Grace, c < past'[a]
        PROVE  SentBefore(c, a)'
    <3> DEFINE b == IF a = 0 THEN 0 ELSE a - 1
    <3>1. b \in 0 .. Grace /\ b \in Int /\ a \in Int /\ a <= b + 1 BY Constants
    <3>2. past'[a] = past[b] BY <2>1
    <3> HIDE DEF b
    <3>3. SentBefore(c, b) BY <2>4, <3>1, <3>2 DEF Order
    <3>4. ASSUME NEW e \in net', e.seq = c, ~e.repair PROVE e.age >= a
      <4>1. PICK d \in net : e.seq = d.seq /\ e.repair = d.repair /\ e.age = d.age + 1
        BY <2>2
      <4>2. d.age >= b BY <3>3, <3>4, <4>1 DEF SentBefore
      <4>3. PICK x \in Int : x = d.age BY <1>b
      <4> QED BY <3>1, <4>1, <4>2, <4>3
    <3> QED BY <2>1, <3>3, <3>4 DEF SentBefore
  <2> QED BY <2>1, <2>3, <2>4 DEF Order
<1>8. CASE UNCHANGED vars
  <2>1. /\ next' = next /\ repairs' = repairs /\ held' = held
        /\ frontier' = frontier /\ past' = past /\ net' = net
    BY <1>8 DEF vars
  <2>2. \A c, a : SentBefore(c, a) => SentBefore(c, a)' BY <2>1 DEF SentBefore
  <2> QED BY <2>1, <2>2 DEF Order
<1> QED BY <1>1, <1>2, <1>3, <1>4, <1>5, <1>6, <1>7, <1>8 DEF Next

LEMMA NotEarly ==
    ASSUME Typed, FrontierRight, PastKept, NetYoung, EndAfter, Order,
           reordering, Delay < Grace
    PROVE  OnlyLostMissing
<1> SUFFICES ASSUME NEW c \in missing, NEW d \in net, d.seq = c, ~d.repair
             PROVE  FALSE
  BY MissingSent DEF OnlyLostMissing
<1>1. PICK x \in 0 .. Cap : x = d.age /\ x <= Delay BY Places DEF NetYoung
<1>2. CASE EndMature
  <2>1. ended # Never /\ ended >= Grace BY <1>2 DEF EndMature, active_grace
  <2>2. ended <= x BY <1>1, <2>1 DEF EndAfter
  <2>3. ended \in Int
    <3>1. ended \in Ages \cup {Never} BY DEF Typed, TypeOK
    <3> QED BY <3>1, Constants
  <2> QED BY <1>1, <2>1, <2>2, <2>3, Constants
<1>3. CASE ~EndMature
  <2>1. SentBefore(c, Grace) BY <1>3, MissingSent
  <2>2. x >= Grace BY <1>1, <2>1 DEF SentBefore
  <2> QED BY <1>1, <2>2, Constants
<1> QED BY <1>2, <1>3

(* Once reordering was observed, and with no datagram late by the grace or *)
(* more, a report of receive_udp never calls missing a chunk that was not  *)
(* sent yet or whose original is still under way; in a transfer that began *)
(* with a prefix of the object, or with nothing.                           *)
THEOREM RepairIsNotEarly == Spec => NoEarlyRepair
<1> DEFINE IInv == /\ Typed /\ FrontierRight /\ PastKept /\ NetYoung /\ EndAfter
                   /\ (NoHoles => Order)
           Claim == Report /\ reordering /\ Delay < Grace /\ NoHoles => OnlyLostMissing
<1>1. Init => IInv
  <2>1. Init => NetYoung /\ EndAfter BY DEF Init, NetYoung, EndAfter
  <2> QED BY <2>1, InitTyped, InitFrontier, InitPast, InitOrder
<1>2. IInv /\ [Next]_vars => IInv'
  <2> SUFFICES ASSUME IInv, [Next]_vars PROVE IInv' OBVIOUS
  <2>1. held' = held
    BY DEF Next, vars, receiver, SendOriginal, SendRepair, DrainEnd, Lose, Recv, Report, Tick
  <2>2. NoHoles' = NoHoles BY <2>1 DEF NoHoles, FrontierOf
  <2>3. NoHoles => Order' BY NextOrder
  <2>4. Typed' /\ FrontierRight' /\ PastKept' /\ NetYoung' /\ EndAfter'
    BY NextTyped, NextFrontier, NextPast, NextEnd
  <2> QED BY <2>2, <2>3, <2>4
<1>3. IInv => Claim BY NotEarly
<1> HIDE DEF IInv
<1> QED BY <1>1, <1>2, <1>3, PTL DEF Spec, NoEarlyRepair

-----------------------------------------------------------------------------
(* The rate controller.                                                    *)

(* What clamp returns.                                                     *)
LEMMA ClampInBounds ==
    ASSUME NEW r \in Int
    PROVE  Clamp(r) \in MinRate .. MaxRate
  BY RateAssumption DEF Clamp, Greatest, Least

LEMMA InitRates ==
    ASSUME RateInit
    PROVE  WithinBounds
  BY RateAssumption DEF RateInit, WithinBounds

LEMMA NextRates ==
    ASSUME WithinBounds, [RateNext]_rate_vars
    PROVE  WithinBounds'
<1> USE DEF WithinBounds
<1>1. rate \in Nat /\ capacity \in Nat /\ Reports \in Nat BY RateAssumption
<1>2. Delivered \in Nat /\ Delivered <= rate
  BY <1>1 DEF Delivered, Least
<1>3. CASE Arrive
  BY <1>1, <1>2, <1>3 DEF Arrive
<1>4. CASE Outage
  <2>1. PICK fresh \in {0, Delivered \div 2} :
           /\ accepted' = accepted + fresh
           /\ valid' \in {valid + fresh, valid + Delivered}
    BY <1>4 DEF Outage
  <2>2. fresh \in Nat BY <1>2
  <2> QED BY <1>1, <1>2, <1>4, <2>1, <2>2 DEF Outage
<1>5. CASE Decide
  <2>1. Candidate \in Int
    BY <1>1, RateAssumption DEF Candidate, Greatest
  <2>2. rate' \in MinRate .. MaxRate BY <1>5, <2>1, ClampInBounds DEF Decide
  <2> QED BY <1>1, <1>5, <2>2 DEF Decide
<1>6. ASSUME NEW c \in Capacities, Shift(c) PROVE WithinBounds'
  BY <1>6 DEF Shift
<1>7. CASE UNCHANGED rate_vars BY <1>7 DEF rate_vars
<1> QED BY <1>3, <1>4, <1>5, <1>6, <1>7 DEF RateNext

(* Whatever the path does, what RateController::observe decides is within  *)
(* the configured bounds, for all of them, and no counter between two      *)
(* decisions becomes negative.                                             *)
THEOREM RateInBounds == RateSpec => []WithinBounds
<1>1. RateInit => WithinBounds BY InitRates
<1>2. WithinBounds /\ [RateNext]_rate_vars => WithinBounds'
  BY NextRates
<1> QED BY <1>1, <1>2, PTL DEF RateSpec

-----------------------------------------------------------------------------
(* The pacer.                                                              *)

CONSTANTS Rates, MaxPacket, MinBatch, MaxBatch, BatchTime

VARIABLES bps,    \* bytes_per_second
          clock,  \* started.elapsed()
          sent, since, asleep, burst, idle

Pacer == INSTANCE Pacer WITH rate <- bps, elapsed <- clock

(* Awake, all but the batch under way is due; asleep, the account is ahead *)
(* of the clock, by no more than a batch and the datagram that ended it.   *)
Account ==
    /\ since <= Pacer!batch_bytes
    /\ ~asleep => sent - since <= bps * clock
    /\ asleep => /\ since = 0
                 /\ sent > bps * clock
                 /\ sent <= bps * clock + Pacer!batch_bytes + MaxPacket

(* When the present burst began, the account was behind the clock by a     *)
(* tick and the idle time at most.                                         *)
Backlog == bps * clock <= sent - burst + bps + bps * idle

Paced == Pacer!TypeOK /\ Account /\ Backlog

LEMMA BatchType ==
    ASSUME Pacer!PacerAssumption, bps \in Rates
    PROVE  Pacer!batch_bytes \in Nat
<1>1. bps * BatchTime \in Nat BY DEF Pacer!PacerAssumption
<1> QED BY <1>1 DEF Pacer!batch_bytes, Pacer!PacerAssumption

LEMMA InitPaced ==
    ASSUME Pacer!PacerAssumption, Pacer!Init
    PROVE  Paced
<1>1. bps \in Nat /\ Pacer!batch_bytes \in Nat
  BY BatchType DEF Pacer!Init, Pacer!PacerAssumption
<1>2. bps * 0 = 0 BY <1>1
<1>3. ~asleep /\ asleep \in BOOLEAN BY DEF Pacer!Init
<1>4. clock = 0 /\ sent = 0 /\ since = 0 /\ burst = 0 /\ idle = 0 /\ bps \in Rates
  BY DEF Pacer!Init
<1>5. Pacer!TypeOK BY <1>3, <1>4 DEF Pacer!TypeOK
<1> QED BY <1>1, <1>2, <1>3, <1>4, <1>5 DEF Paced, Account, Backlog

LEMMA NextPaced ==
    ASSUME Pacer!PacerAssumption, Paced, [Pacer!Next]_(Pacer!vars)
    PROVE  Paced'
<1> DEFINE due == bps * clock
           slack == bps * idle
<1>1. /\ bps \in Nat /\ MaxPacket \in Nat
      /\ Pacer!batch_bytes \in Nat
      /\ due \in Nat /\ slack \in Nat
  BY BatchType DEF Paced, Pacer!TypeOK, Pacer!PacerAssumption
<1>2. bps * (clock + 1) = due + bps /\ bps * (idle + 1) = slack + bps
  BY DEF Paced, Pacer!TypeOK, Pacer!PacerAssumption
<1>3. ASSUME NEW bytes \in 1 .. MaxPacket, Pacer!account_and_wait(bytes)
      PROVE  Paced'
  <2>1. /\ bps' = bps /\ clock' = clock /\ idle' = idle
        /\ Pacer!batch_bytes' = Pacer!batch_bytes
        /\ (bps * clock)' = due /\ (bps * idle)' = slack
    BY <1>3 DEF Pacer!account_and_wait, Pacer!batch_bytes
  <2>2. Pacer!TypeOK'
    <3>1. asleep' \in BOOLEAN
      <4>1. CASE asleep' = asleep BY <4>1 DEF Paced, Pacer!TypeOK
      <4>2. CASE asleep' = (sent' > bps * clock) BY <4>2
      <4> QED BY <1>3, <4>1, <4>2 DEF Pacer!account_and_wait
    <3>2. sent' \in Nat /\ since' \in Nat /\ burst' \in Nat
      <4>1. since' = since + bytes \/ since' = 0 BY <1>3 DEF Pacer!account_and_wait
      <4>2. sent' = sent + bytes /\ burst' = burst + bytes
        BY <1>3 DEF Pacer!account_and_wait
      <4> QED BY <1>1, <1>3, <4>1, <4>2 DEF Paced, Pacer!TypeOK
    <3> QED BY <2>1, <3>1, <3>2 DEF Paced, Pacer!TypeOK
  <2>3. sent' = sent + bytes /\ burst' = burst + bytes /\ ~asleep
    BY <1>3 DEF Pacer!account_and_wait
  <2>4. Account'
    <3>1. CASE since + bytes < Pacer!batch_bytes
      <4>1. since' = since + bytes /\ ~asleep'
        BY <1>3, <2>3, <3>1 DEF Pacer!account_and_wait
      <4> HIDE DEF due
      <4> QED BY <1>1, <2>1, <2>3, <3>1, <4>1 DEF Paced, Pacer!TypeOK, Account, due
    <3>2. CASE ~(since + bytes < Pacer!batch_bytes)
      <4>1. since' = 0 /\ asleep' = (sent' > due)
        BY <1>3, <3>2 DEF Pacer!account_and_wait
      <4>2. sent - since <= due /\ since <= Pacer!batch_bytes
        BY <2>3 DEF Paced, Account
      <4>3. sent' <= due + Pacer!batch_bytes + MaxPacket
        <5> HIDE DEF due
        <5> QED BY <1>1, <2>3, <4>2 DEF Paced, Pacer!TypeOK
      <4>4. CASE asleep'
        <5>1. sent' > due BY <4>1, <4>4
        <5> QED BY <1>1, <2>1, <4>1, <4>3, <4>4, <5>1 DEF Account
      <4>5. CASE ~asleep'
        <5>1. ~(sent' > due) BY <4>1, <4>5
        <5>2. sent' \in Nat BY <1>3, <2>3 DEF Paced, Pacer!TypeOK
        <5> QED BY <1>1, <2>1, <4>1, <4>5, <5>1, <5>2 DEF Account
      <4> QED BY <4>4, <4>5
    <3> QED BY <3>1, <3>2
  <2>5. Backlog'
    <3>1. due <= sent - burst + bps + slack BY DEF Paced, Backlog
    <3>2. sent' - burst' = sent - burst BY <2>3 DEF Paced, Pacer!TypeOK
    <3> QED BY <2>1, <3>1, <3>2 DEF Backlog
  <2> QED BY <2>2, <2>4, <2>5 DEF Paced
<1>4. CASE Pacer!Sleep
  <2>1. /\ bps' = bps /\ idle' = idle /\ sent' = sent /\ since' = since
        /\ burst' = 0 /\ clock' = clock + 1 /\ asleep
        /\ Pacer!batch_bytes' = Pacer!batch_bytes
        /\ (bps * clock)' = due + bps /\ (bps * idle)' = slack
    BY <1>2, <1>4 DEF Pacer!Sleep, Pacer!batch_bytes
  <2>2. Pacer!TypeOK'
    <3>1. asleep' \in BOOLEAN BY <1>4 DEF Pacer!Sleep
    <3> QED BY <2>1, <3>1 DEF Paced, Pacer!TypeOK
  <2>3. asleep' = (sent > due + bps) BY <1>2, <1>4 DEF Pacer!Sleep
  <2>4. /\ since = 0 /\ sent > due /\ sent <= due + Pacer!batch_bytes + MaxPacket
    BY <2>1 DEF Paced, Account
  <2> HIDE DEF due, slack
  <2>5. Account'
    <3>1. CASE asleep'
      <4>1. sent > due + bps BY <2>3, <3>1
      <4> QED BY <1>1, <2>1, <2>4, <3>1, <4>1 DEF Paced, Pacer!TypeOK, Account
    <3>2. CASE ~asleep'
      <4>1. ~(sent > due + bps) BY <2>3, <3>2
      <4> QED BY <1>1, <2>1, <2>4, <3>2, <4>1 DEF Paced, Pacer!TypeOK, Account
    <3> QED BY <3>1, <3>2
  <2>6. Backlog' BY <1>1, <2>1, <2>4 DEF Paced, Pacer!TypeOK, Backlog
  <2> QED BY <2>2, <2>5, <2>6 DEF Paced
<1>5. CASE Pacer!Pause
  <2>1. /\ bps' = bps /\ sent' = sent /\ since' = since
        /\ burst' = 0 /\ ~asleep /\ ~asleep'
        /\ Pacer!batch_bytes' = Pacer!batch_bytes
        /\ (bps * clock)' = due + bps /\ (bps * idle)' = slack + bps
    BY <1>2, <1>5 DEF Pacer!Pause, Pacer!batch_bytes
  <2>2. Pacer!TypeOK'
    <3>1. clock' = clock + 1 /\ idle' = idle + 1 /\ asleep' = asleep
      BY <1>5 DEF Pacer!Pause
    <3> QED BY <2>1, <3>1 DEF Paced, Pacer!TypeOK
  <2>3. since <= Pacer!batch_bytes /\ sent - since <= due BY <2>1 DEF Paced, Account
  <2>4. due <= sent - burst + bps + slack BY DEF Paced, Backlog
  <2> HIDE DEF due, slack
  <2>5. Account' BY <1>1, <2>1, <2>3 DEF Paced, Pacer!TypeOK, Account
  <2>6. Backlog' BY <1>1, <2>1, <2>4 DEF Paced, Pacer!TypeOK, Backlog
  <2> QED BY <2>2, <2>5, <2>6 DEF Paced
<1>6. ASSUME NEW r \in Rates, Pacer!set_bytes_per_second(r)
      PROVE  Paced'
  <2>1. /\ bps' = r /\ clock' = 0 /\ sent' = 0 /\ since' = 0 /\ burst' = 0
        /\ idle' = 0 /\ asleep' = asleep /\ ~asleep
    BY <1>6 DEF Pacer!set_bytes_per_second
  <2>2. Pacer!TypeOK' BY <2>1 DEF Paced, Pacer!TypeOK
  <2>3. r \in Nat /\ r * 0 = 0 BY DEF Pacer!PacerAssumption
  <2>4. Pacer!batch_bytes' \in Nat
    <3>1. r * BatchTime \in Nat BY <2>3 DEF Pacer!PacerAssumption
    <3> QED BY <2>1, <3>1 DEF Pacer!batch_bytes, Pacer!PacerAssumption
  <2> QED BY <2>1, <2>2, <2>3, <2>4 DEF Paced, Account, Backlog
<1>7. CASE UNCHANGED Pacer!vars
  BY <1>7 DEF Pacer!vars, Paced, Pacer!TypeOK, Account, Backlog, Pacer!batch_bytes
<1> QED BY <1>3, <1>4, <1>5, <1>6, <1>7 DEF Pacer!Next

LEMMA PacedImplies ==
    ASSUME Pacer!PacerAssumption, Paced
    PROVE  Pacer!KeepsTheRate /\ Pacer!NoBursts
<1> DEFINE due == bps * clock
           slack == bps * idle
<1>1. /\ bps \in Nat /\ MaxPacket \in Nat
      /\ Pacer!batch_bytes \in Nat
      /\ due \in Nat /\ slack \in Nat
  BY BatchType DEF Paced, Pacer!TypeOK, Pacer!PacerAssumption
<1>2. due <= sent - burst + bps + slack BY DEF Paced, Backlog
<1>3. sent <= due + Pacer!batch_bytes + MaxPacket
  <2>1. CASE asleep BY <2>1 DEF Paced, Account
  <2>2. CASE ~asleep
    <3>1. since <= Pacer!batch_bytes /\ sent - since <= due BY <2>2 DEF Paced, Account
    <3> HIDE DEF due, slack
    <3> QED BY <1>1, <3>1 DEF Paced, Pacer!TypeOK
  <2> QED BY <2>1, <2>2
<1>4. Pacer!KeepsTheRate BY <1>3 DEF Pacer!KeepsTheRate
<1>5. Pacer!NoBursts
  <2>1. burst <= Pacer!batch_bytes + MaxPacket + bps + slack
    <3> HIDE DEF due, slack
    <3> QED BY <1>1, <1>2, <1>3 DEF Paced, Pacer!TypeOK
  <2> QED BY <2>1 DEF Pacer!NoBursts
<1> QED BY <1>4, <1>5

(* Since the last change of the rate account_and_wait lets out no more     *)
(* than the rate allows and one batch, at any time and at any one moment   *)
(* (but for what was held up).                                             *)
THEOREM PacesAllRates ==
    ASSUME Pacer!PacerAssumption
    PROVE  Pacer!Spec => [](Pacer!KeepsTheRate /\ Pacer!NoBursts)
<1>1. Pacer!Init => Paced BY InitPaced
<1>2. Paced /\ [Pacer!Next]_(Pacer!vars) => Paced' BY NextPaced
<1>3. Paced => Pacer!KeepsTheRate /\ Pacer!NoBursts BY PacedImplies
<1> QED BY <1>1, <1>2, <1>3, PTL DEF Pacer!Spec
=============================================================================
