-------------------------------- MODULE Wire --------------------------------
(***************************************************************************)
(* What the two packet-tide processes share during a transfer: the object  *)
(* and its chunks, one authenticated control connection (a TCP stream of   *)
(* lines in each direction) and the UDP path that carries the chunks.      *)
(*                                                                         *)
(* The connection is external code, modelled from how src/ uses it:        *)
(*   - each direction delivers a prefix of the lines written, in order;    *)
(*   - a process that exits closes its end; the other side reads the lines *)
(*     still in flight and then an end of file;                            *)
(*   - a write to a peer that has closed either disappears or fails;       *)
(*   - a process that exits while it has unread lines resets the           *)
(*     connection, and its own last lines may be destroyed by the reset.   *)
(* UDP may lose, duplicate, delay and reorder datagrams, also past the     *)
(* session they were sent in.                                              *)
(***************************************************************************)
EXTENDS Integers, Sequences, FiniteSets

CONSTANTS N,         \* number of chunks of the object
          Bytes,     \* contents of one chunk
          Zero,      \* what a hole of a file reads as
          None,      \* an absent file
          MaxLines,  \* bound: lines queued in one direction of the connection
          Lossy      \* whether datagrams disappear (see Transmit)

Chunks == 0 .. N - 1

(* A file of the right length.  SHA-256 is taken to be injective, so an    *)
(* object also stands for its hash.                                        *)
Objects == [Chunks -> Bytes]

ASSUME WireAssumption ==
    /\ N \in Nat
    /\ Zero \in Bytes
    /\ None \notin Objects
    /\ MaxLines \in Nat \ {0}
    /\ Lossy \in BOOLEAN

VARIABLES
    sess,   \* number of the current session: its keys authenticate its datagrams
    conn,   \* the endpoints ("S", "R") whose control socket is open
    c2s,    \* control lines in flight to the receiver
    s2c,    \* control lines in flight to the sender
    net     \* datagrams in the network

wireVars == <<sess, conn, c2s, s2c, net>>

(* Sender to receiver: END, PING, COMPLETE_ACK and CANCEL.                 *)
ClientLines == {"END", "PING", "COMPLETE_ACK", "CANCEL"}

(* Receiver to sender: READY (with REUSED, the H words and GO) carries the *)
(* chunks already held, M the chunks reported missing; COMPLETE stands for *)
(* the final M with no ranges and the COMPLETE line after it.              *)
ServerLines == [type : {"READY", "M", "PONG", "COMPLETE", "CANCEL"},
                chunks : SUBSET Chunks]

Line(type, chunks) == [type |-> type, chunks |-> chunks]

(* build_packet: sequence, repair flag and payload under the session's tag. *)
Datagrams == [sess : Nat, seq : Chunks, data : Bytes, repair : BOOLEAN]

WireTypeOK ==
    /\ sess \in Nat
    /\ conn \subseteq {"S", "R"}
    /\ c2s \in Seq(ClientLines)
    /\ s2c \in Seq(ServerLines)
    /\ net \subseteq Datagrams

-----------------------------------------------------------------------------
(* Writing a line: lost when the peer has already closed.                  *)
SendToReceiver(line) ==
    c2s' = IF "R" \in conn THEN Append(c2s, line) ELSE c2s

SendToSender(line) ==
    s2c' = IF "S" \in conn THEN Append(s2c, line) ELSE s2c

(* Bound for the lines that may be sent again and again (M, PONG, PING):   *)
(* the socket buffer is full and the writer waits.                         *)
RoomFor(channel) == Len(channel) < MaxLines

SenderAtEOF == s2c = <<>> /\ "R" \notin conn
ReceiverAtEOF == c2s = <<>> /\ "S" \notin conn

(* UDP: a datagram sent may be lost on its way, and one delivered may be   *)
(* delivered again.  With Lossy = FALSE every datagram is and stays        *)
(* deliverable.  No delivery is ever forced, so a loss is then a delivery  *)
(* that does not happen: an invariant sees the same states of the two      *)
(* processes, in a smaller state space.                                    *)
Transmit(d) == net' \in {net \cup {d}} \cup (IF Lossy THEN {net} ELSE {})
Remaining(d) == {net} \cup (IF Lossy THEN {net \ {d}} ELSE {})

-----------------------------------------------------------------------------
(* A process has exited with unread lines: the reset that its kernel sends *)
(* makes the peer drop what it has not yet read.                           *)
Reset ==
    /\ \/ "S" \notin conn /\ s2c # <<>>
       \/ "R" \notin conn /\ c2s # <<>>
    /\ c2s' = <<>>
    /\ s2c' = <<>>
    /\ UNCHANGED <<sess, conn, net>>

(* The connection breaks for both ends.                                    *)
Disconnect ==
    /\ conn # {}
    /\ conn' = {}
    /\ c2s' = <<>>
    /\ s2c' = <<>>
    /\ UNCHANGED <<sess, net>>
=============================================================================
