--------------------------- MODULE SessionProofs ---------------------------
(***************************************************************************)
(* Proofs about Session, for every number of connections, frames and       *)
(* damaged lines and for all sets of keys, hellos and payloads.            *)
(***************************************************************************)
EXTENDS Session, TLAPS

(* A side that is past its handshake: its key and transcript are settled.  *)
Settled(s) == pc[s] \in {"open", "closed"}

(* What a line is made of, damaged or not.                                 *)
LineForm(m) ==
    \E from \in Sides, c \in Nat : \E word, seq, field, mac :
        m = [from |-> from, conn |-> c, line |-> Line(word, seq, field, mac)]

(* The receiver accepts connections in the order in which they were made,  *)
(* and nobody has written to a connection that it does not have yet.       *)
ConnOrder ==
    /\ conn["server"] <= conn["client"]
    /\ \A m \in lines : LineForm(m) /\ m.conn <= conn[m.from]
    /\ conn["server"] < conn["client"] => got["client"] = <<>>

(* The field of a line is of the kind that its word promises.              *)
FieldTyped(line) ==
    /\ line.word \in {"TSU4C", "TSU4S"} => line.field \in Nat
    /\ line.word = "TSU4" => line.field \in Hellos \cup {NoHello}
    /\ line.word = "A" => line.field \in Payloads

FieldsTyped == \A m \in lines : FieldTyped(m.line)

(* The MAC of the finish is that of the sender's own transcript.           *)
FinishMade ==
    \A m \in lines :
        (m.from = "client" /\ m.conn = conn["client"] /\ m.line.word = "TSU4F")
            => /\ Settled("client")
               /\ m.line.mac = FinishMac(key["client"], script["client"])

(* The MAC of a frame, damaged or not, is that of a payload which its      *)
(* writer sent under the number in the MAC.                                *)
FramesMade ==
    \A m \in lines :
        (m.conn = conn[m.from] /\ m.line.word = "A")
            => /\ Settled(m.from)
               /\ \E i \in 1 .. Len(sent[m.from]) :
                     m.line.mac = ControlMac(key[m.from], script[m.from], m.from,
                                             i - 1, sent[m.from][i])

IInv ==
    /\ TypeOK
    /\ ConnOrder
    /\ FieldsTyped
    /\ FinishMade
    /\ FramesMade
    /\ Agreement
    /\ DeliversPrefix

(* An action of one side, by the state that it leaves to the other.        *)
LEMMA SidesAre == Sides = {"client", "server"} /\ \A s \in Sides : Other(s) \in Sides
BY DEF Sides, Other

LEMMA InitIInv == Init => IInv
<1> SUFFICES ASSUME Init PROVE IInv
  OBVIOUS
<1>1. TypeOK BY DEF Init, TypeOK, Phases, Transcripts, Sides
<1>2. ConnOrder BY DEF Init, ConnOrder, Sides
<1>3. FieldsTyped /\ FinishMade /\ FramesMade
  BY DEF Init, FieldsTyped, FinishMade, FramesMade
<1>4. Agreement BY DEF Init, Agreement, Sides
<1>5. DeliversPrefix BY SidesAre DEF Init, DeliversPrefix
<1> QED BY <1>1, <1>2, <1>3, <1>4, <1>5 DEF IInv

(* Reading the fields of a line.                                           *)
LEMMA FormFields ==
    ASSUME NEW from \in Sides, NEW c \in Nat, NEW word, NEW seq, NEW field, NEW mac,
           NEW m, m = [from |-> from, conn |-> c, line |-> Line(word, seq, field, mac)]
    PROVE  /\ LineForm(m)
           /\ m.from = from /\ m.conn = c
           /\ m.line.word = word /\ m.line.mac = mac
           /\ m.line.seq = seq /\ m.line.field = field
BY DEF LineForm, Line

-----------------------------------------------------------------------------
LEMMA ConnectIInv ==
    ASSUME IInv, NEW h \in Hellos, NEW k \in Keys, Connect(h, k)
    PROVE  IInv'
<1> USE DEF Sides
<1>1. TypeOK'
  <2>1. script' \in [Sides -> Transcripts]
    <3>1. [script["client"] EXCEPT !.hello = h] \in Transcripts
      BY DEF IInv, TypeOK, Transcripts
    <3> QED BY <3>1 DEF IInv, TypeOK, Connect
  <2> QED BY <2>1 DEF IInv, TypeOK, Connect, Begin, Phases
<1>2. /\ conn' = [conn EXCEPT !["client"] = conn["client"] + 1]
      /\ conn \in [Sides -> Nat]
      /\ pc' = [pc EXCEPT !["client"] = "challenge"]
      /\ key' = [key EXCEPT !["client"] = k]
      /\ got' = [got EXCEPT !["client"] = <<>>]
      /\ sent' = [sent EXCEPT !["client"] = <<>>]
      /\ script' = [script EXCEPT !["client"].hello = h]
      /\ lines' \subseteq lines
  BY DEF IInv, TypeOK, Connect, Begin, Kept
<1>3. /\ conn'["server"] < conn'["client"] /\ conn'["server"] = conn["server"]
      /\ conn'["server"] # conn'["client"]
  BY <1>2 DEF IInv, ConnOrder
<1>4. \A m \in lines' : /\ LineForm(m) /\ m.from \in Sides /\ m.conn \in Nat
                        /\ m.conn <= conn'[m.from]
                        /\ m.conn = conn'[m.from] => m.from = "server"
  <2> SUFFICES ASSUME NEW m \in lines'
               PROVE /\ LineForm(m) /\ m.from \in Sides /\ m.conn \in Nat
                     /\ m.conn <= conn'[m.from]
                     /\ m.conn = conn'[m.from] => m.from = "server"
    OBVIOUS
  <2>1. LineForm(m) /\ m.conn <= conn[m.from] BY <1>2 DEF IInv, ConnOrder
  <2>2. m.from \in Sides /\ m.conn \in Nat BY <2>1 DEF LineForm
  <2> QED BY <1>2, <2>1, <2>2
<1>5. ConnOrder' BY <1>2, <1>3, <1>4 DEF ConnOrder, IInv, TypeOK
<1>6. FinishMade' BY <1>4 DEF FinishMade
<1>7. FramesMade'
  BY <1>2, <1>4 DEF IInv, TypeOK, FramesMade, Settled
<1>8. Agreement' BY <1>3 DEF Agreement
<1>9. DeliversPrefix' BY <1>3 DEF DeliversPrefix, Other
<1>10. FieldsTyped' BY <1>2 DEF IInv, FieldsTyped
<1> QED BY <1>1, <1>5, <1>6, <1>7, <1>8, <1>9, <1>10 DEF IInv

LEMMA AcceptIInv ==
    ASSUME IInv, NEW c \in 1 .. MaxSessions, NEW k \in Keys, Accept(c, k)
    PROVE  IInv'
<1> USE DEF Sides
<1> DEFINE greeting == [from |-> "server", conn |-> c,
                        line |-> Line("TSU4C", 0, fresh + 1, <<>>)]
<1>1. TypeOK'
  <2>1. script' \in [Sides -> Transcripts]
    <3>1. script["server"] \in Transcripts /\ fresh + 1 \in Nat
      BY DEF IInv, TypeOK
    <3>2. [script["server"] EXCEPT !.challenge = fresh + 1] \in Transcripts
      BY <3>1 DEF Transcripts
    <3> QED BY <3>2 DEF IInv, TypeOK, Accept
  <2> QED BY <2>1 DEF IInv, TypeOK, Accept, Begin, Phases
<1>2. /\ conn' = [conn EXCEPT !["server"] = c]
      /\ conn \in [Sides -> Nat] /\ c \in Nat
      /\ conn["server"] < c /\ c <= conn["client"]
      /\ pc' = [pc EXCEPT !["server"] = "hello"]
      /\ key' = [key EXCEPT !["server"] = k]
      /\ got' = [got EXCEPT !["server"] = <<>>]
      /\ sent' = [sent EXCEPT !["server"] = <<>>]
      /\ script'["client"] = script["client"]
      /\ lines' \subseteq lines \cup {greeting}
  BY DEF IInv, TypeOK, Accept, Begin, Kept
<1>3. /\ pc'["server"] = "hello" /\ pc'["client"] = pc["client"]
      /\ key'["client"] = key["client"]
      /\ got'["server"] = <<>> /\ sent'["client"] = sent["client"]
      /\ got'["client"] = <<>>
      /\ conn'["client"] = conn["client"] /\ conn'["server"] = c
  BY <1>2 DEF IInv, TypeOK, ConnOrder
<1>4. \A m \in lines' :
        /\ LineForm(m) /\ m.from \in Sides /\ m.conn \in Nat
        /\ m.conn <= conn'[m.from]
        /\ m.conn = conn'[m.from] =>
              \/ m.line.word = "TSU4C"
              \/ m \in lines /\ m.from = "client"
  <2> SUFFICES ASSUME NEW m \in lines'
               PROVE /\ LineForm(m) /\ m.from \in Sides /\ m.conn \in Nat
                     /\ m.conn <= conn'[m.from]
                     /\ m.conn = conn'[m.from] =>
                           \/ m.line.word = "TSU4C"
                           \/ m \in lines /\ m.from = "client"
    OBVIOUS
  <2>1. CASE m \in lines
    <3>1. LineForm(m) /\ m.conn <= conn[m.from] BY <2>1 DEF IInv, ConnOrder
    <3>2. m.from \in Sides /\ m.conn \in Nat BY <3>1 DEF LineForm
    <3> QED BY <1>2, <2>1, <3>1, <3>2
  <2>2. CASE m = greeting
    <3>1. /\ LineForm(m) /\ m.from = "server" /\ m.conn = c
          /\ m.line.word = "TSU4C"
      BY <1>2, <2>2, FormFields
    <3> QED BY <1>2, <3>1
  <2> QED BY <1>2, <2>1, <2>2
<1>5. ConnOrder' BY <1>2, <1>3, <1>4 DEF ConnOrder
<1>6. FinishMade' BY <1>3, <1>4, <1>2 DEF IInv, FinishMade, Settled
<1>7. FramesMade'
  <2> SUFFICES ASSUME NEW m \in lines', m.conn = conn'[m.from], m.line.word = "A"
               PROVE  /\ Settled(m.from)'
                      /\ \E i \in 1 .. Len(sent'[m.from]) :
                            m.line.mac = ControlMac(key'[m.from], script'[m.from],
                                             m.from, i - 1, sent'[m.from][i])
    BY DEF FramesMade
  <2>1. m \in lines /\ m.from = "client" BY <1>4
  <2> QED BY <1>2, <1>3, <2>1 DEF IInv, FramesMade, Settled
<1>8. Agreement' BY <1>3 DEF Agreement
<1>9. DeliversPrefix'
  <2> SUFFICES ASSUME NEW s \in Sides
               PROVE  got'[s] = <<>>
    BY <1>1 DEF DeliversPrefix, Other, TypeOK
  <2> QED BY <1>3
<1>10. FieldsTyped'
  <2>1. FieldTyped(greeting.line)
    BY DEF IInv, TypeOK, FieldTyped, Line
  <2> QED BY <1>2, <2>1 DEF IInv, FieldsTyped
<1> QED BY <1>1, <1>5, <1>6, <1>7, <1>8, <1>9, <1>10 DEF IInv

-----------------------------------------------------------------------------
(* Within the connections: side s writes a line with this word and MAC.    *)
LEMMA Posted ==
    ASSUME IInv, UNCHANGED conn, UNCHANGED got, NEW s \in Sides,
           NEW word, NEW seq, NEW field, NEW mac, Post(s, Line(word, seq, field, mac)),
           FieldTyped(Line(word, seq, field, mac))
    PROVE  /\ ConnOrder'
           /\ FieldsTyped'
           /\ \A m \in lines' :
                 \/ m \in lines
                 \/ /\ m.from = s /\ m.conn = conn[s]
                    /\ m.line.word = word /\ m.line.mac = mac
<1> DEFINE new == [from |-> s, conn |-> conn[s], line |-> Line(word, seq, field, mac)]
<1>1. conn[s] \in Nat BY DEF IInv, TypeOK
<1>2. /\ LineForm(new) /\ new.from = s /\ new.conn = conn[s]
      /\ new.line.word = word /\ new.line.mac = mac
  BY <1>1, FormFields
<1>3. lines' = lines \cup {new} BY DEF Post
<1>4. FieldTyped(new.line) OBVIOUS
<1> HIDE DEF new
<1> QED BY <1>1, <1>2, <1>3, <1>4 DEF IInv, ConnOrder, FieldsTyped

(* A handshake line of a side that is not settled, or that settles by it.  *)
LEMMA ReadChallengeIInv ==
    ASSUME IInv, NEW m \in lines, ReadChallenge(m.line)
    PROVE  IInv'
<1> USE DEF Sides
<1>0. /\ UNCHANGED <<conn, key, sent, got, fresh, damaged>>
      /\ pc["client"] = "challenge" /\ pc' = [pc EXCEPT !["client"] = "response"]
      /\ \A s \in Sides : s # "client" => script'[s] = script[s]
  BY DEF IInv, TypeOK, ReadChallenge, Goto
<1>1. TypeOK'
  <2>1. script["client"] \in Transcripts /\ m.line.field \in Nat
    BY DEF IInv, TypeOK, FieldsTyped, FieldTyped, ReadChallenge
  <2>2. [script["client"] EXCEPT !.challenge = m.line.field] \in Transcripts
    BY <2>1 DEF Transcripts
  <2>3. script' \in [Sides -> Transcripts]
    BY <2>2 DEF IInv, TypeOK, ReadChallenge
  <2> QED BY <1>0, <2>3 DEF IInv, TypeOK, Phases
<1>2. /\ ConnOrder' /\ FieldsTyped'
      /\ \A n \in lines' : n \in lines \/ n.line.word = "TSU4"
  <2>1. script["client"].hello \in Hellos \cup {NoHello}
    BY DEF IInv, TypeOK, Transcripts
  <2>2. \A mac : FieldTyped(Line("TSU4", 0, script["client"].hello, mac))
    BY <2>1 DEF FieldTyped, Line
  <2> QED BY <1>0, <2>2, Posted, Zenon DEF ReadChallenge
<1>3. FinishMade' BY <1>0, <1>2 DEF IInv, TypeOK, FinishMade, Settled
<1>4. FramesMade'
  <2> SUFFICES ASSUME NEW n \in lines', n.conn = conn'[n.from], n.line.word = "A"
               PROVE  /\ Settled(n.from)'
                      /\ \E i \in 1 .. Len(sent'[n.from]) :
                            n.line.mac = ControlMac(key'[n.from], script'[n.from],
                                             n.from, i - 1, sent'[n.from][i])
    BY DEF FramesMade
  <2>1. n \in lines /\ Settled(n.from) /\ LineForm(n)
    BY <1>0, <1>2 DEF IInv, FramesMade, ConnOrder
  <2>2. n.from \in Sides /\ n.from # "client"
    BY <1>0, <2>1 DEF Settled, LineForm
  <2> QED BY <1>0, <2>1, <2>2 DEF IInv, TypeOK, FramesMade, Settled
<1>5. Agreement' BY <1>0 DEF IInv, TypeOK, Agreement
<1>6. DeliversPrefix' BY <1>0 DEF IInv, DeliversPrefix
<1> QED BY <1>1, <1>2, <1>3, <1>4, <1>5, <1>6 DEF IInv

LEMMA ReadHelloIInv ==
    ASSUME IInv, NEW m \in lines, ReadHello(m.line)
    PROVE  IInv'
<1> USE DEF Sides
<1> DEFINE t == [script["server"] EXCEPT !.hello = m.line.field,
                                         !.nonce = fresh + 1]
<1>0. /\ UNCHANGED <<conn, key, sent, got, damaged>> /\ fresh' = fresh + 1
      /\ pc["server"] = "hello" /\ pc' = [pc EXCEPT !["server"] = "finish"]
      /\ script' = [script EXCEPT !["server"] = t]
      /\ Post("server", Line("TSU4S", 0, fresh + 1, ServerMac(key["server"], t)))
  BY DEF ReadHello, Goto
<1>1. TypeOK'
  <2>1. /\ script["server"] \in Transcripts /\ fresh + 1 \in Nat
        /\ m.line.field \in Hellos \cup {NoHello}
    BY DEF IInv, TypeOK, FieldsTyped, FieldTyped, ReadHello, HelloValid
  <2>2. t \in Transcripts BY <2>1 DEF Transcripts
  <2> HIDE DEF t
  <2> QED BY <1>0, <2>1, <2>2 DEF IInv, TypeOK, Phases
<1> HIDE DEF t
<1>2. /\ ConnOrder' /\ FieldsTyped'
      /\ \A n \in lines' : n \in lines \/ n.line.word = "TSU4S"
  <2>1. \A mac : FieldTyped(Line("TSU4S", 0, fresh + 1, mac))
    BY DEF IInv, TypeOK, FieldTyped, Line
  <2> QED BY <1>0, <2>1, Posted, Zenon
<1>3. FinishMade' BY <1>0, <1>2 DEF IInv, TypeOK, FinishMade, Settled
<1>4. FramesMade'
  <2> SUFFICES ASSUME NEW n \in lines', n.conn = conn'[n.from], n.line.word = "A"
               PROVE  /\ Settled(n.from)'
                      /\ \E i \in 1 .. Len(sent'[n.from]) :
                            n.line.mac = ControlMac(key'[n.from], script'[n.from],
                                             n.from, i - 1, sent'[n.from][i])
    BY DEF FramesMade
  <2>1. n \in lines /\ Settled(n.from) /\ LineForm(n)
    BY <1>0, <1>2 DEF IInv, FramesMade, ConnOrder
  <2>2. n.from \in Sides /\ n.from # "server"
    BY <1>0, <2>1 DEF Settled, LineForm
  <2> QED BY <1>0, <2>1, <2>2 DEF IInv, TypeOK, FramesMade, Settled
<1>5. Agreement' BY <1>0 DEF IInv, TypeOK, Agreement
<1>6. DeliversPrefix' BY <1>0 DEF IInv, DeliversPrefix
<1> QED BY <1>1, <1>2, <1>3, <1>4, <1>5, <1>6 DEF IInv

LEMMA ReadResponseIInv ==
    ASSUME IInv, NEW m \in lines, ReadResponse(m.line)
    PROVE  IInv'
<1> USE DEF Sides
<1> DEFINE t == [script["client"] EXCEPT !.nonce = m.line.field]
<1>0. /\ UNCHANGED <<conn, key, sent, got, fresh, damaged>>
      /\ pc["client"] = "response" /\ pc' = [pc EXCEPT !["client"] = "open"]
      /\ script' = [script EXCEPT !["client"] = t]
      /\ Post("client", Line("TSU4F", 0, 0, FinishMac(key["client"], t)))
  BY DEF ReadResponse, Goto
<1>1. TypeOK'
  <2>1. script["client"] \in Transcripts /\ m.line.field \in Nat
    BY DEF IInv, TypeOK, FieldsTyped, FieldTyped, ReadResponse, ResponseValid
  <2>2. t \in Transcripts BY <2>1 DEF Transcripts
  <2> HIDE DEF t
  <2> QED BY <1>0, <2>1, <2>2 DEF IInv, TypeOK, Phases
<1> HIDE DEF t
<1>2. /\ ConnOrder' /\ FieldsTyped'
      /\ \A n \in lines' :
            \/ n \in lines
            \/ n.line.word = "TSU4F" /\ n.line.mac = FinishMac(key["client"], t)
  <2> DEFINE mac == FinishMac(key["client"], t)
  <2>1. FieldTyped(Line("TSU4F", 0, 0, mac)) BY DEF FieldTyped, Line
  <2>2. Post("client", Line("TSU4F", 0, 0, mac)) BY <1>0
  <2> HIDE DEF mac
  <2>3. /\ ConnOrder' /\ FieldsTyped'
        /\ \A n \in lines' : n \in lines \/ (n.line.word = "TSU4F" /\ n.line.mac = mac)
    BY <1>0, <2>1, <2>2, Posted, Zenon
  <2> QED BY <2>3 DEF mac
<1>3. FinishMade'
  <2>1. Settled("client")' /\ script'["client"] = t
    BY <1>0 DEF IInv, TypeOK, Settled
  <2>2. ~Settled("client") BY <1>0 DEF Settled
  <2>3. ASSUME NEW n \in lines', n.from = "client", n.conn = conn'["client"],
               n.line.word = "TSU4F"
        PROVE  n.line.mac = FinishMac(key'["client"], script'["client"])
    <3>1. n \notin lines BY <1>0, <2>2, <2>3 DEF IInv, FinishMade
    <3>2. n.line.mac = FinishMac(key["client"], t) BY <1>2, <3>1
    <3> QED BY <1>0, <2>1, <3>2
  <2> QED BY <2>1, <2>3 DEF FinishMade
<1>4. FramesMade'
  <2> SUFFICES ASSUME NEW n \in lines', n.conn = conn'[n.from], n.line.word = "A"
               PROVE  /\ Settled(n.from)'
                      /\ \E i \in 1 .. Len(sent'[n.from]) :
                            n.line.mac = ControlMac(key'[n.from], script'[n.from],
                                             n.from, i - 1, sent'[n.from][i])
    BY DEF FramesMade
  <2>1. n \in lines /\ Settled(n.from) /\ LineForm(n)
    BY <1>0, <1>2 DEF IInv, FramesMade, ConnOrder
  <2>2. n.from \in Sides /\ n.from # "client"
    BY <1>0, <2>1 DEF Settled, LineForm
  <2> QED BY <1>0, <2>1, <2>2 DEF IInv, TypeOK, FramesMade, Settled
<1>5. Agreement' BY <1>0 DEF IInv, TypeOK, Agreement
<1>6. DeliversPrefix' BY <1>0 DEF IInv, DeliversPrefix
<1> QED BY <1>1, <1>2, <1>3, <1>4, <1>5, <1>6 DEF IInv

(* The MAC of the finish tells the receiver that the sender has the same   *)
(* key and transcript.                                                     *)
LEMMA ReadFinishIInv ==
    ASSUME IInv, NEW m \in lines, m.from = "client", m.conn = conn["server"],
           ReadFinish(m.line)
    PROVE  IInv'
<1> USE DEF Sides
<1>0. /\ UNCHANGED <<conn, key, script, sent, got, lines, fresh, damaged>>
      /\ pc["server"] = "finish" /\ pc' = [pc EXCEPT !["server"] = "open"]
  BY DEF ReadFinish, Goto
<1>1. TypeOK' BY <1>0 DEF IInv, TypeOK, Phases
<1>2. ConnOrder' /\ FieldsTyped'
  BY <1>0 DEF IInv, ConnOrder, FieldsTyped
<1>3. FinishMade' BY <1>0 DEF IInv, TypeOK, FinishMade, Settled
<1>4. FramesMade'
  <2>1. \A s \in Sides : Settled(s) => Settled(s)'
    BY <1>0 DEF IInv, TypeOK, Settled
  <2>2. \A n \in lines : n.from \in Sides
    BY DEF IInv, ConnOrder, LineForm
  <2> QED BY <1>0, <2>1, <2>2 DEF IInv, FramesMade
<1>5. Agreement'
  <2> SUFFICES ASSUME conn["client"] = conn["server"]
               PROVE  /\ Settled("client")
                      /\ key["client"] = key["server"]
                      /\ script["client"] = script["server"]
    BY <1>0 DEF IInv, TypeOK, Agreement, Settled
  <2>1. m.line.word = "TSU4F" /\ m.line.mac = FinishMac(key["server"], script["server"])
    BY DEF ReadFinish, FinishValid
  <2>2. Settled("client") /\ m.line.mac = FinishMac(key["client"], script["client"])
    BY <2>1 DEF IInv, FinishMade
  <2>3. key["client"] = key["server"] /\ script["client"] = script["server"]
    <3>1. FinishMac(key["client"], script["client"])
            = FinishMac(key["server"], script["server"])
      BY <2>1, <2>2
    <3>2. key["client"] = key["server"] BY <3>1, SMT DEF FinishMac
    <3>3. script["client"] = script["server"] BY <3>1, SMT DEF FinishMac
    <3> QED BY <3>2, <3>3
  <2> QED BY <2>2, <2>3
<1>6. DeliversPrefix' BY <1>0 DEF IInv, DeliversPrefix
<1> QED BY <1>1, <1>2, <1>3, <1>4, <1>5, <1>6 DEF IInv

-----------------------------------------------------------------------------
LEMMA SendIInv ==
    ASSUME IInv, NEW s \in Sides, NEW p \in Payloads, Send(s, p)
    PROVE  IInv'
<1> DEFINE mac == ControlMac(key[s], script[s], s, Len(sent[s]), p)
<1>0. /\ UNCHANGED <<pc, conn, key, script, got, fresh, damaged>>
      /\ pc[s] = "open"
      /\ sent' = [sent EXCEPT ![s] = Append(@, p)]
      /\ Post(s, Line("A", Len(sent[s]), p, mac))
  BY DEF Send
<1>1. TypeOK' BY <1>0 DEF IInv, TypeOK
<1>2. /\ sent[s] \in Seq(Payloads) /\ sent \in [Sides -> Seq(Payloads)]
      /\ sent'[s] = Append(sent[s], p)
      /\ Len(sent'[s]) = Len(sent[s]) + 1 /\ Len(sent[s]) \in Nat
      /\ sent'[s][Len(sent[s]) + 1] = p
      /\ \A i \in 1 .. Len(sent[s]) : sent'[s][i] = sent[s][i]
      /\ \A r \in Sides : r # s => sent'[r] = sent[r]
  BY <1>0 DEF IInv, TypeOK
<1>3. FieldTyped(Line("A", Len(sent[s]), p, mac)) BY DEF FieldTyped, Line
<1> HIDE DEF mac
<1>4. /\ ConnOrder' /\ FieldsTyped'
      /\ \A n \in lines' :
            n \in lines \/ (n.from = s /\ n.line.word = "A" /\ n.line.mac = mac)
  <2>1. UNCHANGED conn /\ UNCHANGED got BY <1>0
  <2>2. Post(s, Line("A", Len(sent[s]), p, mac)) BY <1>0
  <2>3. /\ ConnOrder' /\ FieldsTyped'
        /\ \A n \in lines' :
              \/ n \in lines
              \/ /\ n.from = s /\ n.conn = conn[s]
                 /\ n.line.word = "A" /\ n.line.mac = mac
    BY <1>3, <2>1, <2>2, Posted
  <2> QED BY <2>3
<1>5. FinishMade' BY <1>0, <1>4 DEF IInv, FinishMade, Settled
<1>6. FramesMade'
  <2> SUFFICES ASSUME NEW n \in lines', n.conn = conn'[n.from], n.line.word = "A"
               PROVE  /\ Settled(n.from)'
                      /\ \E i \in 1 .. Len(sent'[n.from]) :
                            n.line.mac = ControlMac(key'[n.from], script'[n.from],
                                             n.from, i - 1, sent'[n.from][i])
    BY DEF FramesMade
  <2>1. CASE n \in lines
    <3>1. n.from \in Sides BY <2>1 DEF IInv, ConnOrder, LineForm
    <3>2. Settled(n.from)' BY <1>0, <2>1 DEF IInv, FramesMade, Settled
    <3>3. PICK i \in 1 .. Len(sent[n.from]) :
             n.line.mac = ControlMac(key[n.from], script[n.from], n.from,
                                     i - 1, sent[n.from][i])
      BY <1>0, <2>1 DEF IInv, FramesMade
    <3>4. i \in 1 .. Len(sent'[n.from]) /\ sent'[n.from][i] = sent[n.from][i]
      BY <1>2, <3>1
    <3> QED BY <1>0, <3>2, <3>3, <3>4
  <2>2. CASE n.from = s /\ n.line.mac = mac
    <3>1. Settled(n.from)' BY <1>0, <2>2 DEF Settled
    <3>2. Len(sent[s]) + 1 \in 1 .. Len(sent'[n.from]) BY <1>2, <2>2
    <3>3. n.line.mac = ControlMac(key'[n.from], script'[n.from], n.from,
                         (Len(sent[s]) + 1) - 1, sent'[n.from][Len(sent[s]) + 1])
      <4>1. (Len(sent[s]) + 1) - 1 = Len(sent[s]) BY <1>2
      <4> QED BY <1>0, <1>2, <2>2, <4>1 DEF mac
    <3> QED BY <3>1, <3>2, <3>3
  <2> QED BY <1>4, <2>1, <2>2
<1>7. Agreement' BY <1>0 DEF IInv, Agreement
<1>8. DeliversPrefix'
  <2> SUFFICES ASSUME NEW r \in Sides, conn[r] = conn[Other(r)]
               PROVE  /\ Len(got[r]) <= Len(sent'[Other(r)])
                      /\ \A i \in 1 .. Len(got[r]) : got[r][i] = sent'[Other(r)][i]
    BY <1>0 DEF DeliversPrefix
  <2>1. /\ Len(got[r]) <= Len(sent[Other(r)]) /\ Len(got[r]) \in Nat
        /\ \A i \in 1 .. Len(got[r]) : got[r][i] = sent[Other(r)][i]
    BY DEF IInv, TypeOK, DeliversPrefix
  <2>2. CASE Other(r) = s BY <1>2, <2>1, <2>2
  <2>3. CASE Other(r) # s BY <1>2, <2>1, <2>3, SidesAre
  <2> QED BY <2>2, <2>3
<1> QED BY <1>1, <1>4, <1>5, <1>6, <1>7, <1>8 DEF IInv

(* The MAC of a frame binds its payload to its number.                     *)
LEMMA RecvIInv ==
    ASSUME IInv, NEW s \in Sides, NEW m \in lines, m.from = Other(s),
           m.conn = conn[s], Recv(s, m.line)
    PROVE  IInv'
<1>0. /\ UNCHANGED <<pc, conn, key, script, sent, lines, fresh, damaged>>
      /\ got' = [got EXCEPT ![s] = Append(@, m.line.field)]
      /\ m.line.word = "A" /\ m.line.seq = Len(got[s])
      /\ m.line.mac = ControlMac(key[s], script[s], Other(s), m.line.seq, m.line.field)
  BY DEF Recv, FrameValid
<1>1. m.line.field \in Payloads BY <1>0 DEF IInv, FieldsTyped, FieldTyped
<1>2. TypeOK' BY <1>0, <1>1 DEF IInv, TypeOK
<1>3. ConnOrder'
  <2>1. s = "client" => conn["client"] <= conn["server"]
    BY DEF IInv, ConnOrder, Other
  <2>2. s # "client" => got'["client"] = got["client"]
    BY <1>0 DEF IInv, TypeOK, Sides
  <2>3. conn["client"] \in Nat /\ conn["server"] \in Nat
    BY DEF IInv, TypeOK, Sides
  <2> QED BY <1>0, <2>1, <2>2, <2>3 DEF IInv, ConnOrder
<1>4. FieldsTyped' /\ FinishMade' /\ FramesMade' /\ Agreement'
  BY <1>0 DEF IInv, FieldsTyped, FinishMade, FramesMade, Agreement, Settled
<1>5. DeliversPrefix'
  <2> SUFFICES ASSUME NEW r \in Sides, conn[r] = conn[Other(r)]
               PROVE  /\ Len(got'[r]) <= Len(sent[Other(r)])
                      /\ \A i \in 1 .. Len(got'[r]) : got'[r][i] = sent[Other(r)][i]
    BY <1>0 DEF DeliversPrefix
  <2>1. /\ Len(got[r]) <= Len(sent[Other(r)]) /\ Len(got[r]) \in Nat
        /\ Len(sent[Other(r)]) \in Nat
        /\ \A i \in 1 .. Len(got[r]) : got[r][i] = sent[Other(r)][i]
    BY SidesAre DEF IInv, TypeOK, DeliversPrefix
  <2>2. CASE r # s
    <3>1. got'[r] = got[r] BY <1>0, <2>2 DEF IInv, TypeOK
    <3> QED BY <2>1, <3>1
  <2>3. CASE r = s
    <3>1. PICK i \in 1 .. Len(sent[m.from]) :
             m.line.mac = ControlMac(key[m.from], script[m.from], m.from,
                                     i - 1, sent[m.from][i])
      BY <1>0, <2>3 DEF IInv, FramesMade
    <3>2. i - 1 = Len(got[s]) /\ sent[m.from][i] = m.line.field
      BY <1>0, <3>1, SMT DEF ControlMac
    <3>3. /\ Len(got'[s]) = Len(got[s]) + 1
          /\ got'[s][Len(got[s]) + 1] = m.line.field
          /\ \A j \in 1 .. Len(got[s]) : got'[s][j] = got[s][j]
      BY <1>0, <1>1 DEF IInv, TypeOK
    <3>4. /\ i \in Nat /\ i = Len(got[s]) + 1
          /\ i <= Len(sent[Other(s)])
          /\ sent[Other(s)][i] = m.line.field
      BY <2>1, <2>3, <3>1, <3>2
    <3>5. \A j \in 1 .. Len(got'[s]) : got'[s][j] = sent[Other(s)][j]
      <4> SUFFICES ASSUME NEW j \in 1 .. Len(got'[s])
                   PROVE  got'[s][j] = sent[Other(s)][j]
        OBVIOUS
      <4>1. CASE j = i BY <3>3, <3>4, <4>1
      <4>2. CASE j # i
        <5>1. j \in 1 .. Len(got[s]) BY <2>1, <2>3, <3>3, <3>4, <4>2
        <5> QED BY <2>1, <2>3, <3>3, <5>1
      <4> QED BY <4>1, <4>2
    <3> QED BY <2>3, <3>3, <3>4, <3>5
  <2> QED BY <2>2, <2>3
<1> QED BY <1>2, <1>3, <1>4, <1>5 DEF IInv

LEMMA CloseIInv ==
    ASSUME IInv, NEW s \in Sides, Close(s)
    PROVE  IInv'
<1>0. /\ UNCHANGED <<conn, key, script, sent, got, lines, fresh, damaged>>
      /\ pc' = [pc EXCEPT ![s] = "closed"]
  BY DEF Close, Goto
<1>1. TypeOK' BY <1>0 DEF IInv, TypeOK, Phases
<1>2. ConnOrder' /\ FieldsTyped' /\ DeliversPrefix'
  BY <1>0 DEF IInv, ConnOrder, FieldsTyped, DeliversPrefix
<1>3. \A r \in Sides : Settled(r) => Settled(r)'
  BY <1>0 DEF IInv, TypeOK, Settled
<1>4. FinishMade' BY <1>0, <1>3 DEF IInv, FinishMade, Sides
<1>5. FramesMade'
  <2>1. \A n \in lines : n.from \in Sides BY DEF IInv, ConnOrder, LineForm
  <2> QED BY <1>0, <1>3, <2>1 DEF IInv, FramesMade
<1>6. Agreement' BY <1>0 DEF IInv, TypeOK, Agreement, Sides
<1> QED BY <1>1, <1>2, <1>4, <1>5, <1>6 DEF IInv

(* Damage leaves a line its MAC.                                           *)
LEMMA DamageIInv ==
    ASSUME IInv, NEW m \in lines, NEW field, NEW seq, Damage(m, field, seq),
           \/ m.line.word = "A" /\ field \in Payloads
           \/ m.line.word = "TSU4" /\ field \in Hellos
    PROVE  IInv'
<1> DEFINE new == [m EXCEPT !.line.field = field, !.line.seq = seq]
<1>0. /\ UNCHANGED <<pc, conn, key, script, sent, got, fresh>>
      /\ damaged' = damaged + 1 /\ lines' = lines \cup {new}
  BY DEF Damage
<1>1. TypeOK' BY <1>0 DEF IInv, TypeOK
<1>2. /\ LineForm(new) /\ new.from = m.from /\ new.conn = m.conn
      /\ new.line.word = m.line.word /\ new.line.mac = m.line.mac
      /\ new.line.field = field
  <2>0. PICK from \in Sides, c \in Nat : \E word, q, f, mac :
           m = [from |-> from, conn |-> c, line |-> Line(word, q, f, mac)]
    BY DEF IInv, ConnOrder, LineForm
  <2>1. PICK word, q, f, mac :
           m = [from |-> from, conn |-> c, line |-> Line(word, q, f, mac)]
    BY <2>0
  <2>2. /\ m.from = from /\ m.conn = c
        /\ m.line.word = word /\ m.line.mac = mac
    BY <2>1 DEF Line
  <2>3. new = [from |-> from, conn |-> c, line |-> Line(word, seq, field, mac)]
    <3> DEFINE l == Line(word, q, f, mac)
    <3>1. new = [m EXCEPT !.line = [[m.line EXCEPT !.field = field] EXCEPT !.seq = seq]]
      BY <2>1
    <3>2. [[l EXCEPT !.field = field] EXCEPT !.seq = seq] = Line(word, seq, field, mac)
      <4>1. [l EXCEPT !.field = field] = Line(word, q, field, mac) BY DEF Line
      <4>2. [Line(word, q, field, mac) EXCEPT !.seq = seq]
              = Line(word, seq, field, mac)
        BY DEF Line
      <4> HIDE DEF l
      <4> QED BY <4>1, <4>2
    <3>3. m.line = l BY <2>1
    <3> HIDE DEF l
    <3>4. new = [m EXCEPT !.line = Line(word, seq, field, mac)]
      BY <3>1, <3>2, <3>3
    <3>5. m = [from |-> from, conn |-> c, line |-> l] BY <2>1 DEF l
    <3> HIDE DEF new
    <3> QED BY <3>4, <3>5
  <2> HIDE DEF new
  <2>4. /\ LineForm(new) /\ new.from = from /\ new.conn = c
        /\ new.line.word = word /\ new.line.mac = mac /\ new.line.field = field
    BY <2>3, FormFields
  <2> QED BY <2>2, <2>4
<1> HIDE DEF new
<1>3. ConnOrder' BY <1>0, <1>2 DEF IInv, ConnOrder
<1>4. FieldsTyped' BY <1>0, <1>2 DEF IInv, FieldsTyped, FieldTyped
<1>5. FinishMade' BY <1>0, <1>2 DEF IInv, FinishMade, Settled
<1>6. FramesMade'
  <2> SUFFICES ASSUME NEW n \in lines', n.conn = conn[n.from], n.line.word = "A"
               PROVE  /\ Settled(n.from)
                      /\ \E i \in 1 .. Len(sent[n.from]) :
                            n.line.mac = ControlMac(key[n.from], script[n.from],
                                             n.from, i - 1, sent[n.from][i])
    BY <1>0 DEF FramesMade, Settled
  <2>1. CASE n \in lines BY <2>1 DEF IInv, FramesMade
  <2>2. CASE n = new BY <1>2, <2>2 DEF IInv, FramesMade
  <2> QED BY <1>0, <2>1, <2>2
<1>7. Agreement' /\ DeliversPrefix' BY <1>0 DEF IInv, Agreement, DeliversPrefix
<1> QED BY <1>1, <1>3, <1>4, <1>5, <1>6, <1>7 DEF IInv

LEMMA NextIInv == IInv /\ [Next]_vars => IInv'
<1> SUFFICES ASSUME IInv, [Next]_vars PROVE IInv'
  OBVIOUS
<1>1. ASSUME NEW m \in lines, NEW s \in Sides, m.from = Other(s),
             m.conn = conn[s], Reads(s, m.line)
      PROVE  IInv'
  <2>1. CASE s = "client" /\ (ReadChallenge(m.line) \/ ReadResponse(m.line))
    BY <2>1, ReadChallengeIInv, ReadResponseIInv
  <2>2. CASE s = "server" /\ ReadHello(m.line) BY <2>2, ReadHelloIInv
  <2>3. CASE s = "server" /\ ReadFinish(m.line)
    BY <1>1, <2>3, ReadFinishIInv DEF Other
  <2>4. CASE Recv(s, m.line) BY <1>1, <2>4, RecvIInv
  <2> QED BY <1>1, <2>1, <2>2, <2>3, <2>4 DEF Reads
<1>2. CASE UNCHANGED vars
  BY <1>2 DEF vars, IInv, TypeOK, ConnOrder, FieldsTyped, FinishMade, FramesMade,
              Settled, Agreement, DeliversPrefix
<1>3. ASSUME NEW m \in lines, NEW seq \in 0 .. MaxFrames - 1,
             \/ m.line.word = "A" /\ \E p \in Payloads : Damage(m, p, seq)
             \/ m.line.word = "TSU4" /\ \E h \in Hellos : Damage(m, h, 0)
      PROVE  IInv'
  BY <1>3, DamageIInv
<1> QED BY <1>1, <1>2, <1>3, ConnectIInv, AcceptIInv, SendIInv, CloseIInv DEF Next

-----------------------------------------------------------------------------
(* Every variable of Session keeps its type.                               *)
THEOREM TypeCorrect == Spec => []TypeOK
<1>1. IInv => TypeOK BY DEF IInv
<1> QED BY <1>1, InitIInv, NextIInv, PTL DEF Spec

(* When server_handshake has returned, the sender of that connection has   *)
(* finished its handshake with the same key, hello and nonces, whatever    *)
(* connections were given up before and whatever was damaged or repeated.  *)
THEOREM HandshakeAgrees == Spec => []Agreement
<1>1. IInv => Agreement BY DEF IInv
<1> QED BY <1>1, InitIInv, NextIInv, PTL DEF Spec

(* ControlReader::recv returns the payloads of the other side's            *)
(* ControlWriter in order, once and without a gap.                         *)
THEOREM FramesInOrder == Spec => []DeliversPrefix
<1>1. IInv => DeliversPrefix BY DEF IInv
<1> QED BY <1>1, InitIInv, NextIInv, PTL DEF Spec
=============================================================================
