------------------------------ MODULE Session -------------------------------
(***************************************************************************)
(* The session layer of auth.rs: the TSU4 handshake and the numbered,      *)
(* authenticated frames of ControlWriter and ControlReader.                *)
(*                                                                         *)
(* A sender that gives up connects again, and a receiver may still be busy *)
(* with a connection whose sender is gone.  Within a connection the lines  *)
(* may be read never, late or twice, and their fields damaged: the layer   *)
(* does not rely on TCP for any of this.  A MAC is the value it was        *)
(* computed from with its label and key, so two MACs are equal when these  *)
(* are.  random_bytes never repeats a value.  The keys of a session are    *)
(* derived from the shared key and the transcript, one for each direction. *)
(***************************************************************************)
EXTENDS Integers, Sequences

CONSTANTS Keys,         \* contents of a key file
          Hellos,       \* greetings of the sender
          Payloads,     \* control lines
          MaxSessions,  \* bound: connections made by the sender
          MaxFrames,    \* bound: frames written in a session by each side
          MaxDamage     \* bound: damaged lines

Sides == {"client", "server"}

ASSUME SessionAssumption ==
    /\ MaxSessions \in Nat /\ MaxFrames \in Nat /\ MaxDamage \in Nat

VARIABLES
    pc,        \* where each side is
    conn,      \* the connection each side uses, 0 before the first
    key,       \* the key file each side has read
    script,    \* the transcript: challenge, hello and server nonce
    sent,      \* payloads sent by each ControlWriter: Len is its sequence
    got,       \* payloads returned by each ControlReader: Len is its sequence
    lines,     \* every line that was written, with its connection
    fresh,     \* random values drawn so far
    damaged    \* lines damaged so far

vars == <<pc, conn, key, script, sent, got, lines, fresh, damaged>>

Other(s) == IF s = "client" THEN "server" ELSE "client"
NoKey == "no key"
NoHello == "no hello"

Transcripts ==
    [challenge : Nat, hello : Hellos \cup {NoHello}, nonce : Nat]

(* MACs and lines.                                                         *)
HelloMac(k, c, h) == <<"client hello", k, c, h>>
ServerMac(k, t) == <<"server hello", k, t>>
FinishMac(k, t) == <<"client finish", k, t>>

(* control_mac_input under the key of the session and direction.           *)
ControlMac(k, t, side, seq, payload) ==
    <<"control", k, t, side, seq, payload>>

(* A line has its word, its field, its sequence number and its MAC.        *)
Line(word, seq, field, mac) ==
    [word |-> word, seq |-> seq, field |-> field, mac |-> mac]

Phases == {"idle", "challenge", "hello", "response", "finish", "open", "closed"}

TypeOK ==
    /\ pc \in [Sides -> Phases]
    /\ conn \in [Sides -> Nat]
    /\ key \in [Sides -> Keys \cup {NoKey}]
    /\ script \in [Sides -> Transcripts]
    /\ sent \in [Sides -> Seq(Payloads)]
    /\ got \in [Sides -> Seq(Payloads)]
    /\ fresh \in Nat
    /\ damaged \in Nat

Init ==
    /\ pc = [s \in Sides |-> "idle"]
    /\ conn = [s \in Sides |-> 0]
    /\ key = [s \in Sides |-> NoKey]
    /\ script = [s \in Sides |->
                    [challenge |-> 0, hello |-> NoHello, nonce |-> 0]]
    /\ sent = [s \in Sides |-> <<>>]
    /\ got = [s \in Sides |-> <<>>]
    /\ lines = {}
    /\ fresh = 0
    /\ damaged = 0

-----------------------------------------------------------------------------
(* A new connection c: both sequence numbers of the side are 0.            *)
Begin(s, c, k, phase) ==
    /\ pc[s] \in {"idle", "closed"}
    /\ conn' = [conn EXCEPT ![s] = c]
    /\ key' = [key EXCEPT ![s] = k]
    /\ pc' = [pc EXCEPT ![s] = phase]
    /\ sent' = [sent EXCEPT ![s] = <<>>]
    /\ got' = [got EXCEPT ![s] = <<>>]
    /\ UNCHANGED damaged

Goto(s, phase) == pc' = [pc EXCEPT ![s] = phase]

(* The lines of a connection are gone when neither side uses it.           *)
Kept(c1, c2) == {m \in lines : m.conn \in {c1, c2}}

(* A line that side s writes to its connection.                            *)
Post(s, line) ==
    lines' = lines \cup {[from |-> s, conn |-> conn[s], line |-> line]}

Connect(h, k) ==
    /\ conn["client"] < MaxSessions
    /\ Begin("client", conn["client"] + 1, k, "challenge")
    /\ script' = [script EXCEPT !["client"].hello = h]
    /\ lines' = Kept(conn["server"], conn'["client"])
    /\ UNCHANGED fresh

(* server_handshake: the challenge.                                        *)
Accept(c, k) ==
    /\ c \in conn["server"] + 1 .. conn["client"]
    /\ Begin("server", c, k, "hello")
    /\ fresh' = fresh + 1
    /\ script' = [script EXCEPT !["server"].challenge = fresh + 1]
    /\ lines' = Kept(conn["client"], c) \cup
                {[from |-> "server", conn |-> c,
                  line |-> Line("TSU4C", 0, fresh + 1, <<>>)]}

(* client_handshake: the challenge is answered with the hello.             *)
ReadChallenge(line) ==
    /\ pc["client"] = "challenge"
    /\ line.word = "TSU4C"
    /\ script' = [script EXCEPT !["client"].challenge = line.field]
    /\ LET h == script["client"].hello
       IN  Post("client",
                Line("TSU4", 0, h, HelloMac(key["client"], line.field, h)))
    /\ Goto("client", "response")
    /\ UNCHANGED <<conn, key, sent, got, fresh, damaged>>

HelloValid(line) ==
    /\ line.word = "TSU4"
    /\ line.mac = HelloMac(key["server"], script["server"].challenge, line.field)

(* server_handshake: the hello is answered with a nonce.                   *)
ReadHello(line) ==
    /\ pc["server"] = "hello"
    /\ HelloValid(line)
    /\ fresh' = fresh + 1
    /\ LET t == [script["server"] EXCEPT !.hello = line.field,
                                         !.nonce = fresh + 1]
       IN  /\ script' = [script EXCEPT !["server"] = t]
           /\ Post("server",
                   Line("TSU4S", 0, fresh + 1, ServerMac(key["server"], t)))
    /\ Goto("server", "finish")
    /\ UNCHANGED <<conn, key, sent, got, damaged>>

ResponseValid(line) ==
    /\ line.word = "TSU4S"
    /\ line.mac = ServerMac(key["client"],
                            [script["client"] EXCEPT !.nonce = line.field])

ReadResponse(line) ==
    /\ pc["client"] = "response"
    /\ ResponseValid(line)
    /\ LET t == [script["client"] EXCEPT !.nonce = line.field]
       IN  /\ script' = [script EXCEPT !["client"] = t]
           /\ Post("client",
                   Line("TSU4F", 0, 0, FinishMac(key["client"], t)))
    /\ Goto("client", "open")
    /\ UNCHANGED <<conn, key, sent, got, fresh, damaged>>

(* Seeded fault: whatever the sender has written completes the handshake.  *)
AnyFinish(line) == TRUE

FinishValid(line) ==
    line.word = "TSU4F" /\ line.mac = FinishMac(key["server"], script["server"])

ReadFinish(line) ==
    /\ pc["server"] = "finish"
    /\ FinishValid(line)
    /\ Goto("server", "open")
    /\ UNCHANGED <<conn, key, script, sent, got, lines, fresh, damaged>>

-----------------------------------------------------------------------------
(* ControlWriter::send.                                                    *)
Send(s, payload) ==
    /\ pc[s] = "open"
    /\ Len(sent[s]) < MaxFrames
    /\ LET seq == Len(sent[s])
       IN  Post(s,
                Line("A", seq, payload,
                     ControlMac(key[s], script[s], s, seq, payload)))
    /\ sent' = [sent EXCEPT ![s] = Append(@, payload)]
    /\ UNCHANGED <<pc, conn, key, script, got, fresh, damaged>>

(* Seeded fault: the sequence number is not compared.                      *)
AnySequence(s, line) ==
    /\ line.word = "A"
    /\ line.mac = ControlMac(key[s], script[s], Other(s), line.seq, line.field)

(* The next number, and the MAC of the other side in this session.         *)
FrameValid(s, line) ==
    /\ line.word = "A"
    /\ line.seq = Len(got[s])
    /\ line.mac = ControlMac(key[s], script[s], Other(s), line.seq, line.field)

(* ControlReader::recv.                                                    *)
Recv(s, line) ==
    /\ pc[s] = "open"
    /\ FrameValid(s, line)
    /\ got' = [got EXCEPT ![s] = Append(@, line.field)]
    /\ UNCHANGED <<pc, conn, key, script, sent, lines, fresh, damaged>>

(* What a side accepts now; any other line is an error that ends its       *)
(* session, as the end of the connection does.                             *)
Close(s) ==
    /\ pc[s] \notin {"idle", "closed"}
    /\ Goto(s, "closed")
    /\ UNCHANGED <<conn, key, script, sent, got, lines, fresh, damaged>>

(* A field or a number of a line is damaged on the way.                    *)
Damage(m, field, seq) ==
    /\ damaged < MaxDamage
    /\ damaged' = damaged + 1
    /\ lines' = lines \cup {[m EXCEPT !.line.field = field, !.line.seq = seq]}
    /\ UNCHANGED <<pc, conn, key, script, sent, got, fresh>>

Reads(s, line) ==
    \/ s = "client" /\ (ReadChallenge(line) \/ ReadResponse(line))
    \/ s = "server" /\ (ReadHello(line) \/ ReadFinish(line))
    \/ Recv(s, line)

Next ==
    \/ \E h \in Hellos, k \in Keys : Connect(h, k)
    \/ \E c \in 1 .. MaxSessions, k \in Keys : Accept(c, k)
    \/ \E m \in lines, s \in Sides :
          m.from = Other(s) /\ m.conn = conn[s] /\ Reads(s, m.line)
    \/ \E s \in Sides, p \in Payloads : Send(s, p)
    \/ \E s \in Sides : Close(s)
    \/ \E m \in lines, seq \in 0 .. MaxFrames - 1 :
          \/ m.line.word = "A" /\ \E p \in Payloads : Damage(m, p, seq)
          \/ m.line.word = "TSU4" /\ \E h \in Hellos : Damage(m, h, 0)

Spec == Init /\ [][Next]_vars

-----------------------------------------------------------------------------
(* A handshake that succeeded on the receiver's side did so on the         *)
(* sender's, with the same key file, hello and nonces: server_handshake    *)
(* never returns for a sender that has another key or whose hello was      *)
(* damaged, nor with keys that the sender does not have.                   *)
Agreement ==
    pc["server"] = "open" /\ conn["client"] = conn["server"] =>
        /\ pc["client"] \in {"open", "closed"}
        /\ key["client"] = key["server"]
        /\ script["client"] = script["server"]

(* What ControlReader::recv has returned to a side is what the other       *)
(* side's ControlWriter has sent in this connection, in order and without  *)
(* a gap, whatever happens to the lines.                                   *)
DeliversPrefix ==
    \A s \in Sides : conn[s] = conn[Other(s)] =>
        /\ Len(got[s]) <= Len(sent[Other(s)])
        /\ \A i \in 1 .. Len(got[s]) : got[s][i] = sent[Other(s)][i]
=============================================================================
