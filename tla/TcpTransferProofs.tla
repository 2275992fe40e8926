------------------------- MODULE TcpTransferProofs -------------------------
(***************************************************************************)
(* Proofs about TcpTransfer, for every number of lanes, every length of    *)
(* file and any number of faults and changes of the source: the contract,  *)
(* the temporary file, and, for a session without faults, that the lanes   *)
(* carry the whole file between them.                                      *)
(***************************************************************************)
EXTENDS TcpTransfer, TLAPS

Replies == {"READY", "COMPLETE", "ERROR"}

(* The part of the type that the contract speaks of.                       *)
ContractTypes ==
    /\ source \in Objects /\ hello \in Objects
    /\ dest \in Objects \cup {None}
    /\ spc \in SenderSteps /\ rpc \in ReceiverSteps
    /\ reply \in Seq(Replies)
    /\ acked \in BOOLEAN

(* COMPLETE is under way, and success reported, only when the object of    *)
(* the session is at the destination.                                      *)
NoEarlyComplete ==
    /\ \A i \in 1 .. Len(reply) : reply[i] = "COMPLETE" => dest = hello
    /\ spc = "ok" => dest = hello

(* The acknowledgement is under way only after the sender has succeeded.   *)
NoEarlyAck == acked => spc = "ok"

(* The temporary file is gone once the object is installed.                *)
TemporaryGone == rpc \in {"ack", "ok", "error"} => tmp = None

IInv ==
    /\ ContractTypes
    /\ NoEarlyComplete
    /\ NoEarlyAck
    /\ TemporaryGone

LEMMA InitIInv == Init => IInv /\ Contract!Init
<1> SUFFICES ASSUME Init PROVE IInv /\ Contract!Init
  OBVIOUS
<1>1. ContractTypes
  <2>1. reply \in Seq(Replies) BY DEF Init
  <2>2. acked \in BOOLEAN BY DEF Init
  <2>3. spc \in SenderSteps /\ rpc \in ReceiverSteps
    BY DEF Init, SenderSteps, ReceiverSteps
  <2>4. source \in Objects /\ hello \in Objects /\ dest \in Objects \cup {None}
    BY DEF Init
  <2> QED BY <2>1, <2>2, <2>3, <2>4 DEF ContractTypes
<1>2. NoEarlyComplete /\ NoEarlyAck /\ TemporaryGone
  BY DEF Init, NoEarlyComplete, NoEarlyAck, TemporaryGone
<1>3. Contract!Init
  BY DEF Init, Contract!Init, SenderResult, ReceiverResult, SenderActive,
         ReceiverActive
<1> QED BY <1>1, <1>2, <1>3 DEF IInv

(* Replies that are taken and added.                                       *)
LEMMA TakeReply ==
    ASSUME reply \in Seq(Replies), reply # <<>>, reply' = Tail(reply)
    PROVE  /\ reply' \in Seq(Replies)
           /\ Head(reply) = reply[1] /\ 1 \in 1 .. Len(reply)
           /\ \A i \in 1 .. Len(reply') :
                 i + 1 \in 1 .. Len(reply) /\ reply'[i] = reply[i + 1]
OBVIOUS

LEMMA AddReply ==
    ASSUME reply \in Seq(Replies), NEW r \in Replies, reply' = Append(reply, r)
    PROVE  /\ reply' \in Seq(Replies)
           /\ \A i \in 1 .. Len(reply') :
                 \/ reply'[i] = r
                 \/ i \in 1 .. Len(reply) /\ reply'[i] = reply[i]
OBVIOUS

-----------------------------------------------------------------------------
(* The sender, up to the reply of the receiver.                            *)
LEMMA SenderContract ==
    ASSUME IInv,
           \/ Ready \/ ConnectLane \/ SendDone \/ SendShort \/ Completion
           \/ \E l \in LaneIds : Send(l)
           \/ SenderTimeout \/ SenderFault
    PROVE  IInv' /\ [Contract!Next]_(Contract!vars)
<1> USE DEF IInv, ContractTypes, NoEarlyComplete, NoEarlyAck, TemporaryGone,
            SenderSteps, SenderActive, receiver, wire
<1>r. ReceiverResult' = ReceiverResult /\ UNCHANGED <<hello, dest, rpc, tmp, source>>
  BY DEF Ready, ConnectLane, SendDone, SendShort, Completion, Send, SenderTimeout,
         SenderFault, SenderGivesUp, ReceiverResult, ReceiverActive
<1>1. CASE Ready
  <2>1. /\ reply' \in Seq(Replies)
        /\ \A i \in 1 .. Len(reply') :
              i + 1 \in 1 .. Len(reply) /\ reply'[i] = reply[i + 1]
    BY <1>1, TakeReply DEF Ready
  <2>2. spc = "ready" /\ spc' \in {"send", "connect"} /\ UNCHANGED acked
    BY <1>1 DEF Ready
  <2>3. IInv' BY <1>r, <2>1, <2>2
  <2>4. UNCHANGED Contract!vars BY <1>r, <2>2 DEF Contract!vars, SenderResult
  <2> QED BY <2>3, <2>4
<1>2. CASE ConnectLane \/ SendDone \/ \E l \in LaneIds : Send(l)
  <2>1. /\ spc \in {"connect", "send"} /\ spc' \in {"connect", "send", "await"}
        /\ UNCHANGED <<reply, acked>>
    BY <1>2 DEF ConnectLane, SendDone, Send
  <2>2. IInv' BY <1>r, <2>1
  <2>3. UNCHANGED Contract!vars BY <1>r, <2>1 DEF Contract!vars, SenderResult
  <2> QED BY <2>2, <2>3
<1>3. CASE SendShort \/ SenderTimeout \/ SenderFault
  <2>1. SenderActive /\ spc' = "error" /\ UNCHANGED <<reply, acked>>
    BY <1>3 DEF SendShort, SenderTimeout, SenderStuck, SenderFault, SenderGivesUp
  <2>2. IInv' BY <1>r, <2>1
  <2>3. Contract!SenderFails
    BY <1>r, <2>1 DEF Contract!SenderFails, SenderResult
  <2> QED BY <2>2, <2>3 DEF Contract!Next
<1>4. CASE Completion
  <2>1. /\ reply' \in Seq(Replies)
        /\ Head(reply) = reply[1] /\ 1 \in 1 .. Len(reply)
        /\ \A i \in 1 .. Len(reply') :
              i + 1 \in 1 .. Len(reply) /\ reply'[i] = reply[i + 1]
    BY <1>4, TakeReply DEF Completion
  <2>2. spc = "await" BY <1>4 DEF Completion
  <2>3. CASE Head(reply) = "COMPLETE"
    <3>1. dest = hello /\ spc' = "ok" /\ acked' = TRUE
      BY <1>4, <2>1, <2>3 DEF Completion
    <3>2. IInv' BY <1>r, <2>1, <3>1
    <3>3. Contract!SenderSucceeds
      BY <1>r, <2>2, <3>1 DEF Contract!SenderSucceeds, SenderResult
    <3> QED BY <3>2, <3>3 DEF Contract!Next
  <2>4. CASE Head(reply) # "COMPLETE"
    <3>1. spc' = "error" /\ acked' = FALSE BY <1>4, <2>4 DEF Completion
    <3>2. IInv' BY <1>r, <2>1, <3>1
    <3>3. Contract!SenderFails
      BY <1>r, <2>2, <3>1 DEF Contract!SenderFails, SenderResult
    <3> QED BY <3>2, <3>3 DEF Contract!Next
  <2> QED BY <2>3, <2>4
<1> QED BY <1>1, <1>2, <1>3, <1>4

(* The receiver.                                                           *)
LEMMA ReceiverContract ==
    ASSUME IInv,
           \/ \E l \in LaneIds : AcceptLane(l) \/ Receive(l)
           \/ LanesComplete \/ Finish \/ Acknowledged
           \/ ReceiverTimeout \/ ReceiverFault \/ ReceiverKilled
    PROVE  IInv' /\ [Contract!Next]_(Contract!vars)
<1> USE DEF IInv, ContractTypes, NoEarlyComplete, NoEarlyAck, TemporaryGone,
            ReceiverSteps, ReceiverActive, sender, wire
<1>s. SenderResult' = SenderResult /\ UNCHANGED <<hello, spc, acked, source>>
  BY DEF AcceptLane, Receive, LanesComplete, Finish, Acknowledged, ReceiverTimeout,
         ReceiverFault, ReceiverKilled, ReceiverGivesUp, SenderResult, SenderActive
<1>1. CASE LanesComplete \/ \E l \in LaneIds : AcceptLane(l) \/ Receive(l)
  <2>1. /\ rpc \in {"accept", "read"} /\ rpc' \in {"accept", "read"}
        /\ UNCHANGED <<reply, dest>>
    BY <1>1 DEF LanesComplete, AcceptLane, Receive
  <2>2. IInv' BY <1>s, <2>1
  <2>3. UNCHANGED Contract!vars BY <1>s, <2>1 DEF Contract!vars, ReceiverResult
  <2> QED BY <2>2, <2>3
<1>2. CASE Finish
  <2>0. rpc = "read" /\ tmp' = None BY <1>2 DEF Finish
  <2>1. CASE HashMatches
    <3>1. dest' = hello /\ rpc' = "ack" /\ reply' = Append(reply, "COMPLETE")
      BY <1>2, <2>1 DEF Finish, HashMatches
    <3>2. reply' \in Seq(Replies)
      <4>1. "COMPLETE" \in Replies BY DEF Replies
      <4> QED BY <3>1, <4>1, AddReply
    <3>3. IInv' BY <1>s, <2>0, <3>1, <3>2
    <3>4. Contract!Install
      BY <1>s, <2>0, <3>1 DEF Contract!Install, ReceiverResult
    <3> QED BY <3>3, <3>4 DEF Contract!Next
  <2>2. CASE ~HashMatches
    <3>1. UNCHANGED dest /\ rpc' = "error" /\ reply' = Append(reply, "ERROR")
      BY <1>2, <2>2 DEF Finish
    <3>2. /\ reply' \in Seq(Replies)
          /\ \A i \in 1 .. Len(reply') :
                \/ reply'[i] = "ERROR"
                \/ i \in 1 .. Len(reply) /\ reply'[i] = reply[i]
      <4>1. "ERROR" \in Replies BY DEF Replies
      <4> QED BY <3>1, <4>1, AddReply
    <3>3. IInv' BY <1>s, <2>0, <3>1, <3>2
    <3>4. Contract!ReceiverFails
      BY <1>s, <2>0, <3>1 DEF Contract!ReceiverFails, ReceiverResult
    <3> QED BY <3>3, <3>4 DEF Contract!Next
  <2> QED BY <2>1, <2>2
<1>3. CASE Acknowledged
  <2>1. rpc = "ack" /\ UNCHANGED <<reply, dest, tmp>> BY <1>3 DEF Acknowledged
  <2>2. CASE rpc' = "error"
    <3>1. IInv' BY <1>s, <2>1, <2>2
    <3>2. Contract!ReceiverFails
      BY <1>s, <2>1, <2>2 DEF Contract!ReceiverFails, ReceiverResult
    <3> QED BY <3>1, <3>2 DEF Contract!Next
  <2>3. CASE acked /\ rpc' = "ok"
    <3>1. IInv' BY <1>s, <2>1, <2>3
    <3>2. spc = "ok" /\ dest = hello BY <2>3
    <3>3. Contract!ReceiverSucceeds
      BY <1>s, <2>1, <2>3, <3>2
         DEF Contract!ReceiverSucceeds, ReceiverResult, SenderResult, SenderActive
    <3> QED BY <3>1, <3>3 DEF Contract!Next
  <2> QED BY <1>3, <2>2, <2>3 DEF Acknowledged
<1>4. CASE ReceiverTimeout \/ ReceiverFault \/ ReceiverKilled
  <2>1. /\ ReceiverActive /\ UNCHANGED <<reply, dest>>
        /\ rpc' = "killed" \/ (rpc' = "error" /\ tmp' = None)
    BY <1>4 DEF ReceiverTimeout, ReceiverStuck, ReceiverFault, ReceiverKilled,
                ReceiverGivesUp, RemoveTemporary
  <2>2. IInv' BY <1>s, <2>1
  <2>3. Contract!ReceiverFails
    BY <1>s, <2>1 DEF Contract!ReceiverFails, ReceiverResult
  <2> QED BY <2>2, <2>3 DEF Contract!Next
<1> QED BY <1>1, <1>2, <1>3, <1>4

LEMMA StartContract ==
    ASSUME IInv, NEW m \in Modes, Start(m)
    PROVE  IInv' /\ Contract!Start
<1> USE DEF IInv, ContractTypes
<1>1. /\ hello' = source /\ spc' = "ready" /\ rpc' = "accept" /\ acked' = FALSE
      /\ reply' = <<"READY">> /\ UNCHANGED <<source, dest>>
      /\ ~SenderActive /\ ~ReceiverActive
  BY DEF Start
<1>2. reply' \in Seq(Replies) /\ \A i \in 1 .. Len(reply') : reply'[i] = "READY"
  <2>1. "READY" \in Replies BY DEF Replies
  <2> QED BY <1>1, <2>1
<1>3. IInv'
  BY <1>1, <1>2 DEF NoEarlyComplete, NoEarlyAck, TemporaryGone, SenderSteps,
                    ReceiverSteps
<1>4. /\ SenderResult \in {"idle", "ok", "error"} /\ SenderResult' = "busy"
      /\ ReceiverResult \in {"idle", "ok", "error"} /\ ReceiverResult' = "busy"
  BY <1>1 DEF SenderResult, ReceiverResult, SenderActive, ReceiverActive,
              SenderSteps, ReceiverSteps
<1> QED BY <1>1, <1>3, <1>4 DEF Contract!Start, Contract!Done

LEMMA NextContract == IInv /\ [Next]_vars => IInv' /\ [Contract!Next]_(Contract!vars)
<1> SUFFICES ASSUME IInv, [Next]_vars
             PROVE  IInv' /\ [Contract!Next]_(Contract!vars)
  OBVIOUS
<1>1. ASSUME UNCHANGED vars \/ \E object \in Objects : Change(object)
      PROVE  IInv' /\ UNCHANGED Contract!vars
  <2>1. /\ UNCHANGED <<hello, dest, spc, rpc, reply, acked, tmp>>
        /\ source' \in Objects
    BY <1>1 DEF vars, Change, sender, receiver, wire, IInv, ContractTypes
  <2> QED BY <2>1 DEF IInv, ContractTypes, NoEarlyComplete, NoEarlyAck,
             TemporaryGone, Contract!vars, SenderResult, ReceiverResult,
             SenderActive, ReceiverActive
<1> QED BY <1>1, SenderContract, ReceiverContract, StartContract
        DEF Next, Step, Contract!Next

-----------------------------------------------------------------------------
(* send_tcp, send_tcp4, receive_tcp and receive_tcp4 keep the contract of  *)
(* a transfer: only the whole object of the hello is installed, and        *)
(* neither side reports success before.                                    *)
THEOREM ContractHolds == Spec => ContractKept
BY InitIInv, NextContract, PTL DEF Spec, ContractKept, Contract!Spec

(* receive_on leaves no temporary file on any path but that of a killed    *)
(* process.                                                                *)
THEOREM NoTemporaryLeft == Spec => []TemporaryRemoved
<1>1. Init => IInv BY InitIInv
<1>2. IInv /\ [Next]_vars => IInv' BY NextContract
<1>3. IInv => TemporaryRemoved BY DEF IInv, TemporaryGone, TemporaryRemoved
<1> QED BY <1>1, <1>2, <1>3, PTL DEF Spec

-----------------------------------------------------------------------------
(* The lanes of tcp4 share a file.                                         *)

LEMMA TimesMonotone ==
    ASSUME NEW a \in Nat, NEW b \in Nat, NEW c \in Nat, a <= b
    PROVE  c * a <= c * b
<1>1. PICK d \in Nat : b = a + d
  <2>1. b - a \in Nat /\ b = a + (b - a) OBVIOUS
  <2> QED BY <2>1
<1>2. c * (a + d) = c * a + c * d /\ c * d \in Nat OBVIOUS
<1>3. c * a \in Nat OBVIOUS
<1> QED BY <1>1, <1>2, <1>3

LEMMA Division ==
    ASSUME NEW n \in Nat, NEW d \in Nat \ {0}
    PROVE  /\ n \div d \in Nat /\ n % d \in 0 .. d - 1
           /\ n = d * (n \div d) + (n % d)
OBVIOUS

(* tcp4_lane_range: the range of a lane lies within the file.              *)
LEMMA LaneWithin ==
    ASSUME NEW n \in Nat, NEW l \in LaneIds
    PROVE  /\ tcp4_lane_range(n, l).start \in Nat /\ tcp4_lane_range(n, l).end \in Nat
           /\ tcp4_lane_range(n, l).start <= tcp4_lane_range(n, l).end
           /\ tcp4_lane_range(n, l).end <= n
<1> DEFINE q == n \div Lanes
           r == n % Lanes
<1>1. Lanes \in Nat \ {0} /\ l \in Nat /\ l + 1 <= Lanes
  BY TcpAssumption DEF LaneIds
<1>2. q \in Nat /\ r \in 0 .. Lanes - 1 /\ n = Lanes * q + r BY <1>1, Division
<1>3. /\ tcp4_lane_range(n, l).start = q * l + Smaller(r, l)
      /\ tcp4_lane_range(n, l).end
           = q * l + Smaller(r, l) + q + (IF l < r THEN 1 ELSE 0)
  BY DEF tcp4_lane_range
<1> HIDE DEF q, r
<1>4. /\ Smaller(r, l) \in Nat
      /\ Smaller(r, l) + (IF l < r THEN 1 ELSE 0) <= r
  BY <1>1, <1>2 DEF Smaller
<1>5. q * l \in Nat /\ q * (l + 1) = q * l + q BY <1>1, <1>2
<1>6. q * (l + 1) <= q * Lanes BY <1>1, <1>2, TimesMonotone
<1>7. Lanes * q = q * Lanes BY <1>1, <1>2
<1>8. q * Lanes \in Nat BY <1>1, <1>2
<1> HIDE DEF Smaller
<1> QED BY <1>1, <1>2, <1>3, <1>4, <1>5, <1>6, <1>7, <1>8

(* Together the ranges cover it.                                           *)
LEMMA LanesCover ==
    ASSUME NEW n \in Nat, NEW i \in 1 .. n
    PROVE  \E l \in LaneIds : /\ tcp4_lane_range(n, l).start < i
                              /\ i <= tcp4_lane_range(n, l).end
<1> DEFINE q == n \div Lanes
           r == n % Lanes
           p == i - 1
<1>1. Lanes \in Nat \ {0} BY TcpAssumption
<1>2. q \in Nat /\ r \in 0 .. Lanes - 1 /\ n = Lanes * q + r BY <1>1, Division
<1>3. \A l : /\ tcp4_lane_range(n, l).start = q * l + Smaller(r, l)
             /\ tcp4_lane_range(n, l).end
                  = q * l + Smaller(r, l) + q + (IF l < r THEN 1 ELSE 0)
  BY DEF tcp4_lane_range
<1>4. p \in Nat /\ p < n BY DEF p
<1> HIDE DEF q, r
<1>5. (q + 1) * r = q * r + r /\ q * r \in Nat BY <1>1, <1>2
<1>6. CASE p < (q + 1) * r
  <2> DEFINE l == p \div (q + 1)
  <2>1. /\ l \in Nat /\ p % (q + 1) \in 0 .. q
        /\ p = (q + 1) * l + (p % (q + 1))
    <3>1. q + 1 \in Nat \ {0} /\ (q + 1) - 1 = q BY <1>2
    <3> HIDE DEF p
    <3> QED BY <1>4, <3>1, Division
  <2> HIDE DEF l
  <2>2. l < r
    <3> SUFFICES ASSUME r <= l PROVE FALSE BY <1>1, <1>2, <2>1
    <3>1. (q + 1) * r <= (q + 1) * l BY <1>1, <1>2, <2>1, TimesMonotone
    <3>2. (q + 1) * l \in Nat /\ (q + 1) * r \in Nat BY <1>1, <1>2, <2>1
    <3> QED BY <1>4, <1>6, <2>1, <3>1, <3>2
  <2>3. (q + 1) * l = q * l + l /\ q * l \in Nat BY <1>2, <2>1
  <2>4. Smaller(r, l) = l BY <1>1, <1>2, <2>1, <2>2 DEF Smaller
  <2>5. l \in LaneIds BY <1>1, <1>2, <2>1, <2>2 DEF LaneIds
  <2>6. /\ tcp4_lane_range(n, l).start = q * l + l
        /\ tcp4_lane_range(n, l).end = q * l + l + q + 1
    BY <1>2, <1>3, <2>1, <2>2, <2>3, <2>4
  <2>7. p \in q * l + l .. q * l + l + q
    BY <1>2, <1>4, <2>1, <2>3
  <2>8. tcp4_lane_range(n, l).start < i /\ i <= tcp4_lane_range(n, l).end
    BY <1>2, <1>4, <2>1, <2>3, <2>6, <2>7 DEF p
  <2> QED BY <2>5, <2>8
<1>7. CASE p >= (q + 1) * r
  <2> DEFINE s == p - (q * r + r)
  <2>1. q # 0 /\ q \in Nat \ {0} BY <1>1, <1>2, <1>4, <1>7
  <2>2. s \in Nat BY <1>2, <1>4, <1>5, <1>7
  <2> DEFINE m == s \div q
  <2>3. m \in Nat /\ s % q \in 0 .. q - 1 /\ s = q * m + (s % q)
    BY <2>1, <2>2, Division
  <2> HIDE DEF m
  <2>4. m < Lanes - r
    <3> SUFFICES ASSUME Lanes - r <= m PROVE FALSE BY <1>1, <1>2, <2>3
    <3>1. Lanes - r \in Nat BY <1>1, <1>2
    <3>2. q * (Lanes - r) <= q * m BY <2>1, <2>3, <3>1, TimesMonotone
    <3>3. q * (Lanes - r) = Lanes * q - q * r /\ Lanes * q \in Nat BY <1>1, <1>2, <2>1
    <3>4. q * m \in Nat BY <2>1, <2>3
    <3>5. s < Lanes * q - q * r BY <1>1, <1>2, <1>4, <1>5, <3>3
    <3> HIDE DEF s
    <3> QED BY <1>2, <1>5, <2>2, <2>3, <3>2, <3>3, <3>4, <3>5
  <2> DEFINE l == r + m
  <2>5. l \in Nat /\ l < Lanes /\ r <= l BY <1>1, <1>2, <2>3, <2>4
  <2>6. q * l = q * r + q * m /\ q * m \in Nat BY <1>1, <1>2, <2>3
  <2>7. Smaller(r, l) = r BY <1>1, <1>2, <2>5 DEF Smaller
  <2>8. l \in LaneIds BY <1>1, <2>5 DEF LaneIds
  <2> HIDE DEF l
  <2>9. /\ tcp4_lane_range(n, l).start = q * r + q * m + r
        /\ tcp4_lane_range(n, l).end = q * r + q * m + r + q
    <3>1. (IF l < r THEN 1 ELSE 0) = 0 BY <1>1, <1>2, <2>5
    <3> QED BY <1>2, <1>3, <1>5, <2>5, <2>6, <2>7, <3>1
  <2>10. p \in q * r + q * m + r .. q * r + q * m + r + q - 1
    BY <1>2, <1>4, <1>5, <2>3, <2>6
  <2>11. tcp4_lane_range(n, l).start < i /\ i <= tcp4_lane_range(n, l).end
    BY <1>2, <1>4, <1>5, <2>6, <2>9, <2>10 DEF p
  <2> QED BY <2>8, <2>11
<1> QED BY <1>2, <1>4, <1>5, <1>6, <1>7

(* The same for the lanes of a session of either transport.                *)
LEMMA ShareWithin ==
    ASSUME NEW n \in Nat, NEW l \in LaneIds,
           NEW s \in {[start |-> 0, end |-> n], tcp4_lane_range(n, l)}
    PROVE  s.start \in Nat /\ s.end \in Nat /\ s.start <= s.end /\ s.end <= n
<1>1. CASE s = [start |-> 0, end |-> n] BY <1>1
<1>2. CASE s = tcp4_lane_range(n, l) BY <1>2, LaneWithin
<1> QED BY <1>1, <1>2

LEMMA UsedLanes == Used \subseteq LaneIds /\ 0 \in LaneIds
BY TcpAssumption DEF Used, LaneIds

LEMMA ShareCovers ==
    ASSUME NEW n \in Nat, NEW i \in 1 .. n
    PROVE  \E l \in Used : Share(n, l).start < i /\ i <= Share(n, l).end
<1>1. CASE mode = "tcp" BY <1>1 DEF Used, Share
<1>2. CASE mode # "tcp" BY <1>2, LanesCover DEF Used, Share
<1> QED BY <1>1, <1>2

LEMMA ObjectIsSeq ==
    ASSUME NEW object \in Objects
    PROVE  object \in Seq(Bytes) /\ Len(object) \in 0 .. MaxLen
           /\ DOMAIN object = 1 .. Len(object)
<1>1. PICK n \in 0 .. MaxLen : object \in [1 .. n -> Bytes] BY DEF Objects
<1>2. n \in Nat BY TcpAssumption
<1>3. object \in Seq(Bytes) /\ Len(object) = n BY <1>1, <1>2
<1> QED BY <1>1, <1>3

-----------------------------------------------------------------------------
(* A session of an unchanged file over connections that hold.              *)

From(l) == Share(Len(hello), l).start

(* What a lane has carried: the stream holds what was sent and not yet     *)
(* written, in its place.                                                  *)
LaneCarries(l) ==
    /\ spos[l] \in 0 .. Want(l) /\ rpos[l] \in 0 .. Want(l)
    /\ spos[l] = rpos[l] + Len(stream[l])
    /\ \A i \in 1 .. Len(stream[l]) : stream[l][i] = hello[From(l) + rpos[l] + i]

LaneWritten(l) == \A i \in 1 .. rpos[l] : tmp[From(l) + i] = hello[From(l) + i]

LaneTypes ==
    /\ stream \in [LaneIds -> Seq(Bytes)]
    /\ spos \in [LaneIds -> Nat] /\ rpos \in [LaneIds -> Nat]

LanesRight ==
    /\ LaneTypes
    /\ rpc # "idle" => \A l \in Used : LaneCarries(l)
    /\ rpc \in {"accept", "read"} => /\ tmp \in [1 .. Len(hello) -> Bytes]
                                     /\ \A l \in Used : LaneWritten(l)
    /\ spc = "await" => \A l \in Used : spos[l] = Want(l)
    /\ rpc = "ack" => \A l \in Used : rpos[l] = Want(l)

InStep ==
    /\ spc # "error" /\ rpc \notin {"error", "killed"}
    /\ spc = "idle" <=> rpc = "idle"
    /\ rpc \in {"accept", "read"} => SenderActive
    /\ spc = "ok" => acked
    /\ rpc = "ok" => spc = "ok"

LanesCalled ==
    /\ mode \in {"tcp", "tcp4"}
    /\ called \in Nat /\ joined \subseteq LaneIds
    /\ spc = "ready" => called = 0
    /\ mode = "tcp" => spc # "connect" /\ (rpc # "idle" => joined = LaneIds)
    /\ spc \in {"connect", "send", "await"} => size = Len(hello)
    /\ spc = "connect" => called < Lanes
    /\ mode = "tcp4" /\ spc \in {"send", "await"} => called = Lanes

Answers ==
    /\ spc = "ready" =>
         reply = IF rpc = "ack" THEN <<"READY", "COMPLETE">> ELSE <<"READY">>
    /\ spc \in {"connect", "send", "await"} =>
         reply = IF rpc = "ack" THEN <<"COMPLETE">> ELSE <<>>

Clean == source = hello /\ InStep /\ LanesCalled /\ LanesRight /\ Answers

LEMMA LaneFacts ==
    ASSUME IInv, NEW l \in Used
    PROVE  /\ l \in LaneIds /\ Len(hello) \in Nat
           /\ hello \in [1 .. Len(hello) -> Bytes]
           /\ From(l) \in Nat /\ Want(l) \in Nat /\ From(l) + Want(l) <= Len(hello)
           /\ Share(Len(hello), l).end = From(l) + Want(l)
<1>1. hello \in Objects BY DEF IInv, ContractTypes
<1>2. hello \in Seq(Bytes) /\ Len(hello) \in Nat BY <1>1, ObjectIsSeq
<1>3. l \in LaneIds BY UsedLanes
<1>4. Share(Len(hello), l)
        \in {[start |-> 0, end |-> Len(hello)], tcp4_lane_range(Len(hello), l)}
  BY DEF Share
<1>5. /\ Share(Len(hello), l).start \in Nat /\ Share(Len(hello), l).end \in Nat
      /\ Share(Len(hello), l).start <= Share(Len(hello), l).end
      /\ Share(Len(hello), l).end <= Len(hello)
  BY <1>2, <1>3, <1>4, ShareWithin
<1>6. hello \in [1 .. Len(hello) -> Bytes] BY <1>2
<1> QED BY <1>2, <1>3, <1>5, <1>6 DEF From, Want

LEMMA SameShares ==
    ASSUME UNCHANGED <<mode, hello>>
    PROVE  Used' = Used /\ \A k : Want(k)' = Want(k) /\ From(k)' = From(k)
BY DEF Used, Want, From, Share

(* A lane has sent its share when, and not before, spos says so.           *)
LEMMA SentMeansAll ==
    ASSUME IInv, Clean, spc = "send", NEW l \in Used
    PROVE  /\ SendAt(l) = From(l) + spos[l] + 1
           /\ Sent(l) <=> spos[l] >= Want(l)
<1>1. size = Len(hello) /\ source = hello BY DEF Clean, LanesCalled
<1>2. SendAt(l) = From(l) + spos[l] + 1 BY <1>1 DEF SendAt, From
<1>3. (IF mode = "tcp" THEN Len(source) ELSE Share(size, l).end) = From(l) + Want(l)
  <2>1. CASE mode = "tcp"
    <3>1. Share(Len(hello), l).end = Len(hello) BY <2>1 DEF Share
    <3> QED BY <1>1, <2>1, <3>1, LaneFacts
  <2>2. CASE mode # "tcp" BY <1>1, <2>2, LaneFacts
  <2> QED BY <2>1, <2>2
<1>4. spos[l] \in Nat BY LaneFacts DEF Clean, LanesRight, LaneTypes
<1>5. Sent(l) <=> From(l) + spos[l] + 1 > From(l) + Want(l) BY <1>2, <1>3 DEF Sent
<1> QED BY <1>2, <1>4, <1>5, LaneFacts

LEMMA SendClean ==
    ASSUME IInv, Clean, NEW l \in LaneIds, Send(l)
    PROVE  Clean'
<1>1. /\ spc = "send" /\ l \in Used /\ ~Sent(l)
      /\ spos' = [spos EXCEPT ![l] = spos[l] + 1]
      /\ stream' = [stream EXCEPT ![l] = Append(stream[l], source[SendAt(l)])]
      /\ UNCHANGED <<source, mode, hello, spc, size, called, rpc, joined, rpos, tmp, dest,
                     reply, acked>>
  BY DEF Send, receiver
<1>2. /\ LaneTypes
      /\ \A k \in Used : rpc # "idle" => LaneCarries(k)
      /\ rpc # "idle"
  BY <1>1 DEF Clean, LanesRight, InStep
<1>3. SendAt(l) = From(l) + spos[l] + 1 /\ spos[l] < Want(l)
  BY <1>1, <1>2, SentMeansAll, LaneFacts DEF LaneTypes
<1>4. /\ From(l) \in Nat /\ Want(l) \in Nat /\ From(l) + Want(l) <= Len(hello)
      /\ Len(hello) \in Nat /\ hello \in [1 .. Len(hello) -> Bytes]
  BY <1>1, LaneFacts
<1>5. source[SendAt(l)] = hello[From(l) + spos[l] + 1] /\ source[SendAt(l)] \in Bytes
  <2>1. spos[l] \in Nat BY <1>2 DEF LaneTypes
  <2>2. From(l) + spos[l] + 1 \in 1 .. Len(hello) BY <1>3, <1>4, <2>1
  <2> QED BY <1>3, <1>4, <2>2 DEF Clean
<1>6. Used' = Used /\ \A k : Want(k)' = Want(k) /\ From(k)' = From(k)
  BY <1>1, SameShares
<1>7. ASSUME NEW k \in Used PROVE LaneCarries(k)'
  <2>1. k \in LaneIds /\ LaneCarries(k) BY <1>2, LaneFacts
  <2>2. CASE k # l
    <3>1. spos'[k] = spos[k] /\ stream'[k] = stream[k]
      BY <1>1, <1>2, <2>1, <2>2 DEF LaneTypes
    <3> QED BY <1>1, <1>6, <2>1, <3>1 DEF LaneCarries
  <2>3. CASE k = l
    <3>1. /\ spos'[l] = spos[l] + 1 /\ rpos'[l] = rpos[l]
          /\ stream'[l] = Append(stream[l], hello[From(l) + spos[l] + 1])
      BY <1>1, <1>2, <1>5 DEF LaneTypes
    <3>2. stream[l] \in Seq(Bytes) /\ spos[l] \in Nat /\ rpos[l] \in Nat
      BY <1>2 DEF LaneTypes
    <3>3. /\ Len(stream'[l]) = Len(stream[l]) + 1
          /\ \A i \in 1 .. Len(stream'[l]) :
               stream'[l][i] = IF i <= Len(stream[l]) THEN stream[l][i]
                               ELSE hello[From(l) + spos[l] + 1]
      BY <3>1, <3>2
    <3>4. /\ Len(stream[l]) \in Nat /\ spos[l] = rpos[l] + Len(stream[l])
          /\ rpos[l] \in 0 .. Want(l)
      BY <2>1, <2>3, <3>2 DEF LaneCarries
    <3>n. /\ spos[l] \in Nat /\ rpos[l] \in Nat /\ spos[l] < Want(l)
          /\ From(l) \in Nat /\ Want(l) \in Nat
      BY <1>3, <1>4, <3>2
    <3>l. Len(stream'[l]) = Len(stream[l]) + 1 BY <3>3
    <3>5. ASSUME NEW i \in 1 .. Len(stream'[l])
          PROVE  stream'[l][i] = hello[From(l) + rpos[l] + i]
      <4>1. CASE i <= Len(stream[l])
        BY <2>1, <2>3, <3>3, <3>4, <4>1 DEF LaneCarries
      <4>2. CASE i > Len(stream[l])
        <5>1. i = Len(stream[l]) + 1 BY <3>l, <3>4, <4>2
        <5>2. From(l) + spos[l] + 1 = From(l) + rpos[l] + i
          <6>1. PICK f \in Nat, c \in Nat, a \in Nat, n \in Nat :
                  f = From(l) /\ c = spos[l] /\ a = rpos[l] /\ n = Len(stream[l])
            BY <3>n, <3>4
          <6>2. c = a + n /\ i = n + 1 BY <3>4, <5>1, <6>1
          <6>3. f + c + 1 = f + a + i BY <6>2
          <6> QED BY <6>1, <6>3
        <5> QED BY <3>3, <3>4, <4>2, <5>2
      <4> QED BY <3>l, <3>4, <4>1, <4>2
    <3>6. spos'[l] \in 0 .. Want(l)
      <4>1. spos'[l] = spos[l] + 1 BY <3>1
      <4> QED BY <3>n, <4>1
    <3>7. spos'[l] = rpos'[l] + Len(stream'[l])
      <4>1. spos'[l] = spos[l] + 1 /\ rpos'[l] = rpos[l] BY <3>1
      <4> QED BY <3>n, <3>4, <3>l, <4>1
    <3>8. rpos'[l] = rpos[l] /\ hello' = hello BY <1>1, <3>1
    <3> QED BY <1>6, <2>3, <3>4, <3>5, <3>6, <3>7, <3>8 DEF LaneCarries
  <2> QED BY <2>2, <2>3
<1>8. LaneTypes'
  <2>1. spos[l] + 1 \in Nat /\ Append(stream[l], source[SendAt(l)]) \in Seq(Bytes)
    BY <1>2, <1>5 DEF LaneTypes
  <2> QED BY <1>1, <1>2, <2>1 DEF LaneTypes
<1>9. \A k \in Used : LaneWritten(k)' <=> LaneWritten(k)
  BY <1>1, <1>6 DEF LaneWritten
<1>10. LanesRight'
  BY <1>1, <1>6, <1>7, <1>8, <1>9 DEF Clean, LanesRight
<1>11. InStep' /\ LanesCalled' /\ Answers'
  BY <1>1 DEF Clean, InStep, LanesCalled, Answers, SenderActive
<1> QED BY <1>1, <1>10, <1>11 DEF Clean

LEMMA ReceiveClean ==
    ASSUME IInv, Clean, NEW l \in LaneIds, Receive(l)
    PROVE  Clean'
<1>1. /\ rpc = "read" /\ l \in Used /\ rpos[l] < Want(l) /\ stream[l] # <<>>
      /\ stream' = [stream EXCEPT ![l] = Tail(stream[l])]
      /\ tmp' = [tmp EXCEPT ![Offset(l)] = Head(stream[l])]
      /\ rpos' = [rpos EXCEPT ![l] = rpos[l] + 1]
      /\ UNCHANGED <<source, mode, hello, spc, size, called, spos, rpc, joined, dest,
                     reply, acked>>
  BY DEF Receive, sender
<1>2. /\ LaneTypes
      /\ \A k \in Used : LaneCarries(k) /\ LaneWritten(k)
      /\ tmp \in [1 .. Len(hello) -> Bytes]
  BY <1>1 DEF Clean, LanesRight
<1>3. Offset(l) = From(l) + rpos[l] + 1 BY DEF Offset, From
<1>4. /\ From(l) \in Nat /\ Want(l) \in Nat /\ From(l) + Want(l) <= Len(hello)
      /\ Len(hello) \in Nat /\ hello \in [1 .. Len(hello) -> Bytes]
  BY <1>1, LaneFacts
<1>5. stream[l] \in Seq(Bytes) /\ spos[l] \in Nat /\ rpos[l] \in Nat
  BY <1>2 DEF LaneTypes
<1>6. Offset(l) \in 1 .. Len(hello) BY <1>1, <1>3, <1>4, <1>5
<1>7. /\ Head(stream[l]) = stream[l][1] /\ 1 \in 1 .. Len(stream[l])
      /\ Tail(stream[l]) \in Seq(Bytes) /\ Len(Tail(stream[l])) = Len(stream[l]) - 1
      /\ \A i \in 1 .. Len(Tail(stream[l])) :
            i + 1 \in 1 .. Len(stream[l]) /\ Tail(stream[l])[i] = stream[l][i + 1]
  BY <1>1, <1>5
<1>8. Head(stream[l]) = hello[Offset(l)]
  BY <1>1, <1>2, <1>3, <1>7 DEF LaneCarries
<1>9. /\ tmp' \in [1 .. Len(hello) -> Bytes]
      /\ \A i \in 1 .. Len(hello) :
            tmp'[i] = IF i = Offset(l) THEN hello[i] ELSE tmp[i]
  BY <1>1, <1>2, <1>4, <1>6, <1>8
<1>10. Used' = Used /\ \A k : Want(k)' = Want(k) /\ From(k)' = From(k)
  BY <1>1, SameShares
<1>11. ASSUME NEW k \in Used PROVE LaneCarries(k)'
  <2>1. k \in LaneIds /\ LaneCarries(k) BY <1>2, LaneFacts
  <2>2. CASE k # l
    <3>1. rpos'[k] = rpos[k] /\ stream'[k] = stream[k]
      BY <1>1, <1>2, <2>1, <2>2 DEF LaneTypes
    <3> QED BY <1>1, <1>10, <2>1, <3>1 DEF LaneCarries
  <2>3. CASE k = l
    <3>1. /\ rpos'[l] = rpos[l] + 1 /\ spos'[l] = spos[l]
          /\ stream'[l] = Tail(stream[l])
      BY <1>1, <1>2 DEF LaneTypes
    <3>2. /\ spos[l] = rpos[l] + Len(stream[l]) /\ Len(stream[l]) \in Nat
          /\ spos[l] \in 0 .. Want(l)
      BY <1>5, <2>1, <2>3 DEF LaneCarries
    <3>n. /\ spos[l] \in Nat /\ rpos[l] \in Nat /\ rpos[l] < Want(l)
          /\ From(l) \in Nat /\ Want(l) \in Nat
      BY <1>1, <1>4, <1>5
    <3>l. Len(stream'[l]) = Len(stream[l]) - 1 BY <1>7, <3>1
    <3>p. rpos'[l] = rpos[l] + 1 /\ spos'[l] = spos[l] /\ hello' = hello
      BY <1>1, <3>1
    <3>3. spos'[l] = rpos'[l] + Len(stream'[l]) /\ rpos'[l] \in 0 .. Want(l)
      <4>1. spos[l] = (rpos[l] + 1) + (Len(stream[l]) - 1) BY <3>n, <3>2
      <4>2. rpos[l] + 1 \in 0 .. Want(l) BY <3>n
      <4> QED BY <4>1, <4>2, <3>l, <3>p
    <3>4. ASSUME NEW i \in 1 .. Len(stream'[l])
          PROVE  stream'[l][i] = hello[From(l) + rpos'[l] + i]
      <4>1. i + 1 \in 1 .. Len(stream[l]) /\ stream'[l][i] = stream[l][i + 1]
        BY <1>7, <3>1
      <4>2. stream[l][i + 1] = hello[From(l) + rpos[l] + (i + 1)]
        BY <2>1, <2>3, <4>1 DEF LaneCarries
      <4>3. From(l) + rpos[l] + (i + 1) = From(l) + rpos'[l] + i
        <5>1. i \in Int BY <3>l, <3>2
        <5> QED BY <3>n, <3>p, <5>1
      <4> QED BY <4>1, <4>2, <4>3
    <3> QED BY <1>10, <2>3, <3>p, <3>2, <3>3, <3>4 DEF LaneCarries
  <2> QED BY <2>2, <2>3
<1>12. ASSUME NEW k \in Used PROVE LaneWritten(k)'
  <2>1. k \in LaneIds /\ LaneWritten(k) /\ LaneCarries(k) BY <1>2, LaneFacts
  <2>2. /\ From(k) \in Nat /\ Want(k) \in Nat /\ From(k) + Want(k) <= Len(hello)
        /\ rpos[k] \in Nat
    BY <1>2, <2>1, LaneFacts DEF LaneTypes
  <2>3. rpos'[k] <= Want(k) /\ rpos'[k] \in Nat
    BY <1>10, <1>11, <2>2 DEF LaneCarries
  <2>4. rpos'[k] = IF k = l THEN rpos[k] + 1 ELSE rpos[k]
    BY <1>1, <1>2, <2>1 DEF LaneTypes
  <2>5. ASSUME NEW i \in 1 .. rpos'[k] PROVE tmp'[From(k) + i] = hello[From(k) + i]
    <3>1. From(k) + i \in 1 .. Len(hello) BY <1>4, <2>2, <2>3
    <3>2. From(k) + i = Offset(l) \/ i \in 1 .. rpos[k]
      BY <1>3, <2>2, <2>3, <2>4
    <3> QED BY <1>9, <2>1, <3>1, <3>2 DEF LaneWritten
  <2> QED BY <1>1, <1>10, <2>5 DEF LaneWritten
<1>13. LaneTypes'
  <2>1. rpos[l] + 1 \in Nat BY <1>5
  <2> QED BY <1>1, <1>2, <1>7, <2>1 DEF LaneTypes
<1>14. LanesRight'
  BY <1>1, <1>9, <1>10, <1>11, <1>12, <1>13 DEF Clean, LanesRight
<1>15. InStep' /\ LanesCalled' /\ Answers'
  BY <1>1 DEF Clean, InStep, LanesCalled, Answers, SenderActive
<1> QED BY <1>1, <1>14, <1>15 DEF Clean

(* Steps that move no data.                                                *)
LEMMA SameLanes ==
    ASSUME UNCHANGED <<mode, hello, spos, rpos, stream>>
    PROVE  /\ LaneTypes' <=> LaneTypes
           /\ Used' = Used
           /\ \A k \in Used : LaneCarries(k)' <=> LaneCarries(k)
           /\ \A k : Want(k)' = Want(k)
           /\ UNCHANGED tmp => \A k \in Used : LaneWritten(k)' <=> LaneWritten(k)
BY SameShares DEF LaneTypes, LaneCarries, LaneWritten

(* The file has as many units as its hello says, so no lane meets its end  *)
(* too early.                                                              *)
LEMMA NeverShort ==
    ASSUME IInv, Clean, SendShort
    PROVE  FALSE
<1>1. PICK l \in Used : ~Sent(l) /\ SendAt(l) \notin DOMAIN source BY DEF SendShort
<1>2. spc = "send" /\ source = hello BY DEF SendShort, Clean
<1>3. DOMAIN source = 1 .. Len(hello)
  BY <1>2, ObjectIsSeq DEF IInv, ContractTypes
<1>4. spos[l] \in Nat BY LaneFacts DEF Clean, LanesRight, LaneTypes
<1>5. SendAt(l) = From(l) + spos[l] + 1 /\ spos[l] < Want(l)
  BY <1>1, <1>2, <1>4, SentMeansAll, LaneFacts
<1>6. /\ From(l) \in Nat /\ Want(l) \in Nat /\ From(l) + Want(l) <= Len(hello)
      /\ Len(hello) \in Nat
  BY LaneFacts
<1>7. From(l) + spos[l] + 1 \in 1 .. Len(hello) BY <1>4, <1>5, <1>6
<1> QED BY <1>1, <1>3, <1>5, <1>7

LEMMA SenderClean ==
    ASSUME IInv, Clean, Ready \/ ConnectLane \/ SendDone \/ Completion
    PROVE  Clean'
<1>1. UNCHANGED <<source, mode, hello, spos, rpos, stream, rpc, joined, tmp>>
  BY DEF Ready, ConnectLane, SendDone, Completion, receiver, wire
<1>2. /\ LaneTypes' <=> LaneTypes
      /\ Used' = Used
      /\ \A k \in Used : LaneCarries(k)' <=> LaneCarries(k)
      /\ \A k : Want(k)' = Want(k)
      /\ \A k \in Used : LaneWritten(k)' <=> LaneWritten(k)
  BY <1>1, SameLanes
<1>3. CASE Ready
  <2>1. spc = "ready" /\ spc' \in {"send", "connect"} /\ rpc # "idle" /\ rpc # "ok"
    BY <1>3 DEF Ready, Clean, InStep
  <2>2. LanesRight' BY <1>1, <1>2, <2>1 DEF Clean, LanesRight
  <2>3. InStep' BY <1>1, <2>1 DEF Clean, InStep, SenderActive
  <2>4. LanesCalled'
    BY <1>1, <1>3, <2>1, TcpAssumption DEF Ready, Clean, LanesCalled
  <2>5. reply' = IF rpc = "ack" THEN <<"COMPLETE">> ELSE <<>>
    <3>1. reply = IF rpc = "ack" THEN <<"READY", "COMPLETE">> ELSE <<"READY">>
      BY <2>1 DEF Clean, Answers
    <3>2. reply' = Tail(reply) BY <1>3 DEF Ready
    <3> QED BY <3>1, <3>2
  <2>6. Answers' BY <1>1, <2>1, <2>5 DEF Answers
  <2> QED BY <1>1, <2>2, <2>3, <2>4, <2>6 DEF Clean
<1>4. CASE ConnectLane
  <2>1. /\ spc = "connect" /\ called' = called + 1 /\ UNCHANGED <<size, reply, acked>>
        /\ spc' = IF called' = Lanes THEN "send" ELSE "connect"
    BY <1>4 DEF ConnectLane, wire
  <2>2. LanesRight' BY <1>1, <1>2, <2>1 DEF Clean, LanesRight
  <2>3. InStep' BY <1>1, <2>1 DEF Clean, InStep, SenderActive
  <2>4. LanesCalled' BY <1>1, <2>1, TcpAssumption DEF Clean, LanesCalled
  <2>5. Answers' BY <1>1, <2>1 DEF Clean, Answers
  <2> QED BY <1>1, <2>2, <2>3, <2>4, <2>5 DEF Clean
<1>5. CASE SendDone
  <2>1. /\ spc = "send" /\ spc' = "await" /\ UNCHANGED <<size, called, reply, acked>>
        /\ rpc # "idle"
    BY <1>5 DEF SendDone, wire, Clean, InStep
  <2>2. ASSUME NEW l \in Used PROVE spos[l] = Want(l)
    <3>1. spos[l] \in 0 .. Want(l) /\ Want(l) \in Nat
      BY <2>1, LaneFacts DEF Clean, LanesRight, LaneCarries
    <3>2. Sent(l) BY <1>5 DEF SendDone
    <3>3. spos[l] >= Want(l) BY <2>1, <3>2, SentMeansAll
    <3> QED BY <3>1, <3>3
  <2>3. LanesRight' BY <1>1, <1>2, <2>1, <2>2 DEF Clean, LanesRight
  <2>4. InStep' /\ LanesCalled' /\ Answers'
    BY <1>1, <2>1 DEF Clean, InStep, LanesCalled, Answers, SenderActive
  <2> QED BY <1>1, <2>3, <2>4 DEF Clean
<1>6. CASE Completion
  <2>1. spc = "await" /\ reply # <<>> BY <1>6 DEF Completion
  <2>2. rpc = "ack" /\ reply = <<"COMPLETE">> BY <2>1 DEF Clean, Answers
  <2>3. spc' = "ok" /\ acked' = TRUE /\ UNCHANGED <<size, called>>
    <3>1. Head(reply) = "COMPLETE" BY <2>2
    <3>2. acked' = (Head(reply) = "COMPLETE") BY <1>6 DEF Completion
    <3>3. acked' = TRUE BY <3>1, <3>2
    <3>4. spc' = "ok" /\ UNCHANGED <<size, called>> BY <1>6, <3>1 DEF Completion
    <3> QED BY <3>3, <3>4
  <2>4. LanesRight' BY <1>1, <1>2, <2>3 DEF Clean, LanesRight
  <2>5. InStep' /\ LanesCalled' /\ Answers'
    BY <1>1, <2>2, <2>3 DEF Clean, InStep, LanesCalled, Answers, SenderActive
  <2> QED BY <1>1, <2>4, <2>5 DEF Clean
<1> QED BY <1>3, <1>4, <1>5, <1>6

-----------------------------------------------------------------------------
(* Once every lane has written its share, the file is the object.          *)
LEMMA AllWritten ==
    ASSUME IInv, Clean, rpc = "read", \A l \in Used : rpos[l] = Want(l)
    PROVE  HashMatches
<1>1. hello \in Seq(Bytes) /\ Len(hello) \in Nat
  BY ObjectIsSeq DEF IInv, ContractTypes
<1>2. hello \in [1 .. Len(hello) -> Bytes] /\ tmp \in [1 .. Len(hello) -> Bytes]
  BY <1>1 DEF Clean, LanesRight
<1>3. ASSUME NEW i \in 1 .. Len(hello) PROVE tmp[i] = hello[i]
  <2>1. PICK l \in Used : /\ Share(Len(hello), l).start < i
                          /\ i <= Share(Len(hello), l).end
    BY <1>1, ShareCovers
  <2>2. From(l) < i /\ i <= From(l) + Want(l) /\ From(l) \in Nat /\ Want(l) \in Nat
    BY <2>1, LaneFacts DEF From
  <2>3. i - From(l) \in 1 .. Want(l) /\ From(l) + (i - From(l)) = i BY <2>2
  <2>4. LaneWritten(l) /\ rpos[l] = Want(l) BY DEF Clean, LanesRight
  <2> QED BY <2>3, <2>4 DEF LaneWritten
<1> QED BY <1>2, <1>3 DEF HashMatches

(* Nothing is left in the connection behind the object.                    *)
LEMMA NothingBehind ==
    ASSUME IInv, Clean, rpc = "ack", mode = "tcp"
    PROVE  stream[0] = <<>>
<1>1. 0 \in Used BY DEF Used
<1>2. /\ LaneCarries(0) /\ rpos[0] = Want(0) /\ Want(0) \in Nat
      /\ stream[0] \in Seq(Bytes)
  BY <1>1, LaneFacts DEF Clean, LanesRight, LaneTypes
<1>3. Len(stream[0]) \in Nat BY <1>2
<1>4. spos[0] <= Want(0) /\ spos[0] = Want(0) + Len(stream[0])
  BY <1>2 DEF LaneCarries
<1>5. spos[0] \in Int BY <1>2 DEF LaneCarries
<1>6. Len(stream[0]) = 0
  <2>1. PICK w \in Nat, n \in Nat : w = Want(0) /\ n = Len(stream[0]) BY <1>2, <1>3
  <2>2. w + n <= w BY <1>4, <2>1
  <2> QED BY <2>1, <2>2
<1> QED BY <1>2, <1>6

LEMMA ReadyComplete == Append(<<"READY">>, "COMPLETE") = <<"READY", "COMPLETE">>
<1> DEFINE a == Append(<<"READY">>, "COMPLETE")
           b == <<"READY", "COMPLETE">>
<1>1. <<"READY">> \in Seq({"READY"}) /\ Len(<<"READY">>) = 1 OBVIOUS
<1>2. a = [i \in 1 .. 2 |-> a[i]] /\ a[1] = "READY" /\ a[2] = "COMPLETE" BY <1>1
<1>3. b = [i \in 1 .. 2 |-> b[i]] /\ b[1] = "READY" /\ b[2] = "COMPLETE" OBVIOUS
<1> HIDE DEF a, b
<1>4. \A i \in 1 .. 2 : a[i] = b[i] BY <1>2, <1>3
<1>5. a = b BY <1>2, <1>3, <1>4
<1> QED BY <1>5 DEF a, b

LEMMA ReceiverClean ==
    ASSUME IInv, Clean,
           \/ \E l \in LaneIds : AcceptLane(l)
           \/ LanesComplete \/ Finish \/ Acknowledged
    PROVE  Clean'
<1>1. UNCHANGED <<source, mode, hello, spos, rpos, stream, spc, size, called, acked>>
  BY DEF AcceptLane, LanesComplete, Finish, Acknowledged, sender, wire
<1>2. /\ LaneTypes' <=> LaneTypes
      /\ Used' = Used
      /\ \A k \in Used : LaneCarries(k)' <=> LaneCarries(k)
      /\ \A k : Want(k)' = Want(k)
      /\ UNCHANGED tmp => \A k \in Used : LaneWritten(k)' <=> LaneWritten(k)
  BY <1>1, SameLanes
<1>3. CASE \E l \in LaneIds : AcceptLane(l)
  <2>1. PICK l \in LaneIds : AcceptLane(l) BY <1>3
  <2>2. UNCHANGED <<rpc, tmp, reply>> /\ joined' = joined \cup {l}
    BY <2>1 DEF AcceptLane, wire
  <2>3. LanesRight' BY <1>1, <1>2, <2>2 DEF Clean, LanesRight
  <2>4. LanesCalled' BY <1>1, <2>2 DEF Clean, LanesCalled
  <2>5. InStep' /\ Answers' BY <1>1, <2>2 DEF Clean, InStep, Answers, SenderActive
  <2> QED BY <1>1, <2>3, <2>4, <2>5 DEF Clean
<1>4. CASE LanesComplete
  <2>1. UNCHANGED <<joined, tmp, reply>> /\ rpc = "accept" /\ rpc' = "read"
    BY <1>4 DEF LanesComplete, wire
  <2>2. LanesRight' BY <1>1, <1>2, <2>1 DEF Clean, LanesRight
  <2>3. InStep' /\ LanesCalled' /\ Answers'
    BY <1>1, <2>1 DEF Clean, InStep, LanesCalled, Answers, SenderActive
  <2> QED BY <1>1, <2>2, <2>3 DEF Clean
<1>5. CASE Finish
  <2>1. rpc = "read" /\ UNCHANGED joined /\ \A l \in Used : rpos[l] = Want(l)
    BY <1>5 DEF Finish
  <2>2. HashMatches BY <2>1, AllWritten
  <2>3. rpc' = "ack" /\ reply' = Append(reply, "COMPLETE")
    BY <1>5, <2>2 DEF Finish
  <2>4. SenderActive BY <2>1 DEF Clean, InStep
  <2>5. LanesRight' BY <1>1, <1>2, <2>1, <2>3 DEF Clean, LanesRight
  <2>6. InStep' /\ LanesCalled'
    BY <1>1, <2>1, <2>3, <2>4 DEF Clean, InStep, LanesCalled, SenderActive
  <2>7. Answers'
    <3>1. /\ spc = "ready" => reply = <<"READY">>
          /\ spc \in {"connect", "send", "await"} => reply = <<>>
      BY <2>1 DEF Clean, Answers
    <3>2. /\ spc = "ready" => reply' = <<"READY", "COMPLETE">>
          /\ spc \in {"connect", "send", "await"} => reply' = <<"COMPLETE">>
      <4>1. Append(<<>>, "COMPLETE") = <<"COMPLETE">> OBVIOUS
      <4> QED BY <2>3, <3>1, <4>1, ReadyComplete
    <3> QED BY <1>1, <2>3, <3>2 DEF Answers
  <2> QED BY <1>1, <2>5, <2>6, <2>7 DEF Clean
<1>6. CASE Acknowledged
  <2>1. rpc = "ack" /\ UNCHANGED <<joined, tmp, reply>>
    BY <1>6 DEF Acknowledged, wire
  <2>2. acked /\ rpc' = "ok" BY <1>6, <2>1, NothingBehind DEF Acknowledged
  <2>3. spc = "ok" BY <2>2 DEF IInv, NoEarlyAck
  <2>4. LanesRight' BY <1>1, <1>2, <2>1, <2>2 DEF Clean, LanesRight
  <2>5. InStep' /\ LanesCalled' /\ Answers'
    BY <1>1, <2>1, <2>2, <2>3
       DEF Clean, InStep, LanesCalled, Answers, SenderActive
  <2> QED BY <1>1, <2>4, <2>5 DEF Clean
<1> QED BY <1>3, <1>4, <1>5, <1>6

-----------------------------------------------------------------------------
(* No two waits are for each other: where the receiver waits for the       *)
(* sender, the sender has something to do, and the other way round.        *)
LEMMA NeverBothStuck ==
    ASSUME IInv, Clean, SenderStuck
    PROVE  ReceiverActive /\ ~ReceiverStuck
<1>1. spc = "await" /\ rpc \in {"accept", "read"}
  <2>1. spc # "ready" BY DEF SenderStuck, Clean, Answers
  <2>2. spc = "await" /\ rpc # "ack" BY <2>1 DEF SenderStuck, Clean, Answers
  <2> QED BY <2>2 DEF Clean, InStep, IInv, ContractTypes, ReceiverSteps
<1>2. ~(joined # LaneIds /\ 0 .. called - 1 \subseteq joined)
  <2>1. CASE mode = "tcp" BY <1>1, <2>1 DEF Clean, LanesCalled
  <2>2. CASE mode = "tcp4"
    <3>1. called = Lanes /\ joined \subseteq LaneIds
      BY <1>1, <2>2 DEF Clean, LanesCalled
    <3> QED BY <3>1 DEF LaneIds
  <2> QED BY <2>1, <2>2 DEF Clean, LanesCalled
<1>3. ASSUME NEW l \in Used, rpos[l] < Want(l), stream[l] = <<>> PROVE FALSE
  <2>1. /\ spos[l] = Want(l) /\ LaneCarries(l) /\ rpos[l] \in Nat /\ Want(l) \in Nat
    BY <1>1, LaneFacts DEF Clean, LanesRight, LaneTypes
  <2>2. Len(stream[l]) = 0 BY <1>3
  <2>3. Want(l) = rpos[l] + 0 BY <2>1, <2>2 DEF LaneCarries
  <2> QED BY <1>3, <2>1, <2>3
<1> QED BY <1>1, <1>2, <1>3 DEF ReceiverActive, ReceiverStuck

LEMMA NoTimeout ==
    ASSUME IInv, Clean, SenderTimeout \/ ReceiverTimeout
    PROVE  FALSE
<1>1. CASE SenderTimeout BY <1>1, NeverBothStuck DEF SenderTimeout
<1>2. CASE ReceiverTimeout
  <2>1. ReceiverStuck /\ (~SenderActive \/ SenderStuck) BY <1>2 DEF ReceiverTimeout
  <2>2. ~SenderStuck BY <2>1, NeverBothStuck
  <2>3. ~SenderActive BY <2>1, <2>2
  <2>4. rpc = "ack" /\ ~acked BY <2>1, <2>3 DEF ReceiverStuck, Clean, InStep
  <2>5. spc # "ok" /\ spc # "idle" /\ spc # "error" BY <2>4 DEF Clean, InStep
  <2> QED BY <2>3, <2>5 DEF SenderActive, IInv, ContractTypes, SenderSteps
<1> QED BY <1>1, <1>2

LEMMA StartClean ==
    ASSUME IInv, NEW m \in Modes, Start(m)
    PROVE  Clean'
<1>1. /\ mode' = m /\ hello' = source /\ source' = source
      /\ spc' = "ready" /\ rpc' = "accept"
      /\ joined' = IF m = "tcp" THEN LaneIds ELSE {}
      /\ tmp' = [i \in DOMAIN source |-> Zero]
      /\ stream' = [l \in LaneIds |-> <<>>]
      /\ reply' = <<"READY">> /\ acked' = FALSE /\ called' = 0
      /\ spos' = [l \in LaneIds |-> 0] /\ rpos' = [l \in LaneIds |-> 0]
  BY DEF Start
<1>2. /\ source \in Seq(Bytes) /\ Len(source) \in Nat
      /\ DOMAIN source = 1 .. Len(source)
  BY ObjectIsSeq DEF IInv, ContractTypes
<1>3. LaneTypes' BY <1>1 DEF LaneTypes
<1>4. Used' \subseteq LaneIds BY TcpAssumption DEF Used, LaneIds
<1>5. ASSUME NEW l \in Used' PROVE LaneCarries(l)' /\ LaneWritten(l)'
  <2>1. l \in LaneIds BY <1>4
  <2>2. Share(Len(hello), l)'
          \in {[start |-> 0, end |-> Len(source)], tcp4_lane_range(Len(source), l)}
    BY <1>1 DEF Share
  <2>3. /\ Share(Len(hello), l)'.start \in Nat /\ Share(Len(hello), l)'.end \in Nat
        /\ Share(Len(hello), l)'.start <= Share(Len(hello), l)'.end
    BY <1>2, <2>1, <2>2, ShareWithin
  <2>4. Want(l)' \in Nat BY <2>3 DEF Want
  <2>5. spos'[l] = 0 /\ rpos'[l] = 0 /\ Len(stream'[l]) = 0 BY <1>1, <2>1
  <2>6. LaneCarries(l)' BY <2>4, <2>5 DEF LaneCarries
  <2>7. LaneWritten(l)' BY <2>5 DEF LaneWritten
  <2> QED BY <2>6, <2>7
<1>6. tmp' \in [1 .. Len(hello') -> Bytes] BY <1>1, <1>2, TcpAssumption
<1>7. LanesRight' BY <1>1, <1>3, <1>5, <1>6 DEF LanesRight
<1>8. LanesCalled'
  BY <1>1, TcpAssumption DEF LanesCalled
<1>9. InStep' /\ Answers' BY <1>1 DEF InStep, Answers, SenderActive
<1> QED BY <1>1, <1>7, <1>8, <1>9 DEF Clean

-----------------------------------------------------------------------------
CleanIInv ==
    /\ IInv
    /\ faults \in Nat /\ changes \in Nat
    /\ (faults = 0 /\ changes = 0) => Clean

LEMMA InitClean == Init => CleanIInv
<1> SUFFICES ASSUME Init PROVE CleanIInv OBVIOUS
<1>1. IInv BY InitIInv
<1>2. LanesRight
  <2>1. LaneTypes BY DEF Init, LaneTypes
  <2> QED BY <2>1 DEF Init, LanesRight
<1>3. InStep /\ LanesCalled /\ Answers
  BY TcpAssumption DEF Init, InStep, LanesCalled, Answers, SenderActive
<1> QED BY <1>1, <1>2, <1>3 DEF CleanIInv, Clean, Init

LEMMA NextClean == CleanIInv /\ [Next]_vars => CleanIInv'
<1> SUFFICES ASSUME CleanIInv, [Next]_vars PROVE CleanIInv' OBVIOUS
<1>1. IInv /\ IInv' BY NextContract DEF CleanIInv
<1>2. /\ faults \in Nat /\ changes \in Nat
      /\ (faults = 0 /\ changes = 0) => Clean
  BY DEF CleanIInv
<1>3. CASE SenderFault \/ ReceiverFault \/ ReceiverKilled
  BY <1>1, <1>2, <1>3 DEF SenderFault, ReceiverFault, ReceiverKilled, Fault,
     SenderGivesUp, ReceiverGivesUp, CleanIInv
<1>4. CASE \E object \in Objects : Change(object)
  BY <1>1, <1>2, <1>4 DEF Change, CleanIInv
<1>5. CASE \E m \in Modes : Start(m)
  BY <1>1, <1>2, <1>5, StartClean DEF Start, CleanIInv
<1>6. CASE Step
  <2>1. UNCHANGED <<faults, changes>>
    BY <1>6 DEF Step, Ready, ConnectLane, SendDone, SendShort, Completion, Send,
       AcceptLane, Receive, LanesComplete, Finish, Acknowledged, SenderTimeout,
       ReceiverTimeout, SenderGivesUp, ReceiverGivesUp
  <2>2. ASSUME Clean PROVE Clean'
    BY <1>1, <1>6, <2>2, SendClean, ReceiveClean, SenderClean, ReceiverClean,
       NeverShort, NoTimeout DEF Step
  <2> QED BY <1>1, <1>2, <2>1, <2>2 DEF CleanIInv
<1>7. CASE UNCHANGED vars
  <2>1. /\ UNCHANGED <<source, mode, hello, spc, size, called, spos, rpc, joined, rpos>>
        /\ UNCHANGED <<tmp, stream, reply, acked, faults, changes>>
    BY <1>7 DEF vars, sender, receiver, wire
  <2>2. LanesRight' <=> LanesRight BY <2>1, SameLanes DEF LanesRight
  <2>3. Clean' <=> Clean
    BY <2>1, <2>2 DEF Clean, InStep, LanesCalled, Answers, SenderActive
  <2> QED BY <1>1, <1>2, <2>1, <2>3 DEF CleanIInv
<1> QED BY <1>3, <1>4, <1>5, <1>6, <1>7 DEF Next

(* A session of a file that nobody changes, over connections that hold,    *)
(* fails on neither side: each lane of send_tcp4 delivers exactly its      *)
(* share, the shares of tcp4_lane_range cover the file so that the hash    *)
(* that receive_tcp4 compares matches, no byte is left behind the object   *)
(* for send_completion_and_wait to trip over, and the two sides never wait *)
(* for each other until a read times out.                                  *)
THEOREM CleanSessionSucceeds == Spec => []NoSpuriousFailure
<1>1. CleanIInv => NoSpuriousFailure
  BY DEF CleanIInv, Clean, InStep, NoSpuriousFailure
<1> QED BY <1>1, InitClean, NextClean, PTL DEF Spec
=============================================================================
