---------------------------- MODULE RepairQueue ----------------------------
(***************************************************************************)
(* RepairQueue of main.rs: the chunks the receiver reported missing and    *)
(* the sender has still to send again.  The feedback thread fills it and   *)
(* the sending thread empties it, both under one mutex, so each operation  *)
(* is one step.  A queue is a record                                       *)
(*    queue      the VecDeque,                                             *)
(*    queued     the HashSet of what it holds,                             *)
(*    last_sent  the keys of the HashMap of repairs still cooling down.    *)
(* An operation is the set of its possible results: the map entry that     *)
(* take_repairs evicts is whichever the HashMap iterates first.            *)
(***************************************************************************)
EXTENDS Integers, Sequences, FiniteSets, Functions

CONSTANT MaxQueuedRepairs   \* MAX_QUEUED_REPAIRS

ASSUME MaxQueuedRepairsAssumption == MaxQueuedRepairs \in Nat \ {0}

RepairQueues(C) ==
    [queue : Seq(C), queued : SUBSET C, last_sent : SUBSET C]

(* The set mirrors the deque, no chunk is queued twice or queued while it  *)
(* cools down, and both collections respect the cap.                       *)
Consistent(rq) ==
    /\ rq.queued = Range(rq.queue)
    /\ IsInjective(rq.queue)
    /\ rq.queued \cap rq.last_sent = {}
    /\ Cardinality(rq.queued) <= MaxQueuedRepairs
    /\ Cardinality(rq.last_sent) <= MaxQueuedRepairs

NewRepairQueue == [queue |-> <<>>, queued |-> {}, last_sent |-> {}]

AtMost(a, b) == IF a <= b THEN a ELSE b

(* The k smallest elements of S in ascending order, as the only sequence   *)
(* of a set: how enqueue_repairs meets the chunks of ascending ranges.     *)
Ascending(S, k) ==
    {f \in [1 .. k -> S] :
        /\ \A i, j \in 1 .. k : i < j => f[i] < f[j]
        /\ \A x \in S \ Range(f), i \in 1 .. k : f[i] < x}

(* last_sent.retain: the entries whose cooldown has run out are dropped.   *)
Retain(rq, expired) == [rq EXCEPT !.last_sent = @ \ expired]

(* Reported chunks that are neither cooling down nor queued join the tail  *)
(* in ascending order until the queue holds MAX_QUEUED_REPAIRS.            *)
enqueue_repairs(rq, missing) ==
    LET eligible == missing \ (rq.last_sent \cup rq.queued)
        room     == MaxQueuedRepairs - Cardinality(rq.queued)
    IN  {[rq EXCEPT !.queue  = @ \o new,
                    !.queued = @ \cup Range(new)] :
            new \in Ascending(eligible, AtMost(Cardinality(eligible), room))}

(* Seeded fault: what is popped from the deque stays in the set.           *)
take_repairs_keeps_queued(rq, limit) ==
    LET k     == AtMost(limit, Len(rq.queue))
        batch == SubSeq(rq.queue, 1, k)
    IN  {[batch |-> batch,
          rq    |-> [queue     |-> SubSeq(rq.queue, k + 1, Len(rq.queue)),
                     queued    |-> rq.queued,
                     last_sent |-> rq.last_sent]]}

(* Up to limit chunks leave the head and start to cool down; each arrival  *)
(* in a full last_sent evicts an arbitrary entry, so of the earlier        *)
(* entries and this batch any may be gone except the last one popped.      *)
take_repairs(rq, limit) ==
    LET k     == AtMost(limit, Len(rq.queue))
        batch == SubSeq(rq.queue, 1, k)
        sent  == rq.last_sent \cup Range(batch)
        kept  == {L \in SUBSET sent :
                    /\ Cardinality(L) = AtMost(MaxQueuedRepairs, Cardinality(sent))
                    /\ batch[k] \in L}
    IN  IF k = 0
        THEN {[batch |-> <<>>, rq |-> rq]}
        ELSE {[batch |-> batch,
               rq    |-> [queue     |-> SubSeq(rq.queue, k + 1, Len(rq.queue)),
                          queued    |-> rq.queued \ Range(batch),
                          last_sent |-> L]] : L \in kept}
=============================================================================
