--------------------------- MODULE MCUdpTransfer ---------------------------
(* Small instances of UdpTransfer. *)
EXTENDS UdpTransfer

(* Two objects that differ in their last chunk. *)
MCSources == {[c \in Chunks |-> 1], [c \in Chunks |-> IF c = N - 1 THEN 0 ELSE 1]}

OneSource == {[c \in Chunks |-> 1]}
=============================================================================
