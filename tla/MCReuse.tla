------------------------------ MODULE MCReuse -------------------------------
(* Files of zeros and ones, where the rolling hash is zero after a zero:   *)
(* all of up to five bytes, and longer ones at the limits of a manifest:   *)
(* four chunks of one digit and the text is as long as it may be, a size   *)
(* of two digits and it is one byte too long, five chunks and scan refuses *)
(* its length, six and it refuses their number.                            *)
EXTENDS Reuse

TwoBytes == {0, 1}
FilesUpTo(n) == UNION {[1 .. k -> TwoBytes] : k \in 0 .. n}
AfterZero == {chunk \in FilesUpTo(MaxChunk) : chunk # <<>> /\ Last(chunk) = 0}
Zeros(n) == [i \in 1 .. n |-> 0]
SomeFiles ==
    FilesUpTo(5) \cup {<<0, 0, 1, 0, 0, 0, 1>>, <<1, 0, 0, 0, 1, 1, 1, 0, 1>>,
                       <<1, 1, 1, 1, 1, 0, 0, 0, 1, 0>>, Zeros(10), Zeros(12)}
=============================================================================
