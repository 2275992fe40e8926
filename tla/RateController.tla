--------------------------- MODULE RateController ---------------------------
(***************************************************************************)
(* The sender's automatic rate: RateController::observe, called for every  *)
(* report of the receiver, over a path of limited capacity.                *)
(*                                                                         *)
(* A rate is in hundredths of a Mbit/s, an amount of data in what such a   *)
(* rate carries between two reports; the quotients of the code, which are  *)
(* floating-point numbers, are compared as products and rounded down.      *)
(* A decision_interval is Reports reports.  What exceeds the capacity is   *)
(* lost on the path, unseen, or in the receiver's socket, which counts it. *)
(***************************************************************************)
EXTENDS Integers

CONSTANTS MinRate, MaxRate,
          Mbps,         \* 1.0 Mbit/s
          Reports,      \* reports in a decision_interval
          Capacities,   \* of the path
          MaxOutages,   \* bound: reports with less than full progress
          MaxShifts     \* bound: changes of the capacity

ASSUME RateAssumption ==
    /\ MinRate \in Nat \ {0} /\ MaxRate \in Nat /\ MinRate <= MaxRate
    /\ Mbps \in Nat \ {0}
    /\ Reports \in Nat \ {0}
    /\ Capacities \subseteq Nat \ {0}
    /\ MaxOutages \in Nat /\ MaxShifts \in Nat

VARIABLES
    rate,      \* rate_mbps
    elapsed,   \* reports since last_decision
    accepted,  \* accepted_datagrams since last_telemetry
    valid,     \* valid_datagrams since then
    drops,     \* socket_drops since then
    capacity,  \* the path
    counted,   \* excess is dropped by the receiver's socket
    outages,   \* history
    shifts     \* history

rate_vars == <<rate, elapsed, accepted, valid, drops, capacity, counted,
               outages, shifts>>

(* The types: every rate that observe chooses is within the configured     *)
(* bounds, and the counters since the last decision are not negative.      *)
WithinBounds ==
    /\ rate \in MinRate .. MaxRate
    /\ elapsed \in 0 .. Reports
    /\ accepted \in Nat /\ valid \in Nat /\ drops \in Nat
    /\ capacity \in Capacities
    /\ counted \in BOOLEAN
    /\ outages \in Nat /\ shifts \in Nat

RateInit ==
    /\ rate = MinRate
    /\ elapsed = 0
    /\ accepted = 0 /\ valid = 0 /\ drops = 0
    /\ capacity \in Capacities
    /\ counted \in BOOLEAN
    /\ outages = 0
    /\ shifts = 0

Least(a, b) == IF a < b THEN a ELSE b
Greatest(a, b) == IF a > b THEN a ELSE b

(* Seeded fault: the upper bound is not applied.                           *)
ClampBelow(r) == Greatest(MinRate, r)

Clamp(r) == Greatest(MinRate, Least(r, MaxRate))

Delivered == Least(rate, capacity)

(* A report of what the path delivered since the last one, all of it new.  *)
Arrive ==
    /\ elapsed < Reports
    /\ elapsed' = elapsed + 1
    /\ accepted' = accepted + Delivered
    /\ valid' = valid + Delivered
    /\ drops' = IF counted THEN drops + rate - Delivered ELSE drops
    /\ UNCHANGED <<rate, capacity, counted, outages, shifts>>

(* A report of nothing new or of half as much, the rest missing or second  *)
(* copies of what was there already.                                       *)
Outage ==
    /\ elapsed < Reports
    /\ outages < MaxOutages
    /\ outages' = outages + 1
    /\ elapsed' = elapsed + 1
    /\ \E fresh \in {0, Delivered \div 2} :
          /\ accepted' = accepted + fresh
          /\ valid' \in {valid + fresh, valid + Delivered}
    /\ UNCHANGED <<rate, drops, capacity, counted, shifts>>

(* The branches of observe.                                                *)
Stalled == accepted = 0

(* waste_ratio > 0.03 or socket drops.                                     *)
Waste ==
    \/ drops > 0
    \/ valid > 0 /\ 100 * (valid - accepted + drops) > 3 * valid

Followed == 10 * accepted >= 8 * rate * elapsed
FellBehind == 10 * accepted < 5 * rate * elapsed

(* Seeded fault: the rate is reduced although throughput follows it.       *)
TimidCandidate ==
    IF Stalled \/ Waste \/ Followed THEN (rate * 7) \div 10 ELSE rate

(* Seeded fault: nothing but drops and stalls reduces the rate.            *)
BoldCandidate ==
    IF Stalled \/ Waste THEN (rate * 7) \div 10
    ELSE Greatest((rate * 5) \div 4, rate + Mbps)

Candidate ==
    IF Stalled \/ Waste THEN (rate * 7) \div 10
    ELSE IF Followed THEN Greatest((rate * 5) \div 4, rate + Mbps)
    ELSE IF FellBehind THEN (rate * 85) \div 100
    ELSE rate

(* The decision when decision_interval has passed.                         *)
Decide ==
    /\ elapsed = Reports
    /\ rate' = Clamp(Candidate)
    /\ elapsed' = 0
    /\ accepted' = 0 /\ valid' = 0 /\ drops' = 0
    /\ UNCHANGED <<capacity, counted, outages, shifts>>

Shift(c) ==
    /\ shifts < MaxShifts
    /\ c # capacity
    /\ shifts' = shifts + 1
    /\ capacity' = c
    /\ UNCHANGED <<rate, elapsed, accepted, valid, drops, counted, outages>>

RateNext == Arrive \/ Outage \/ Decide \/ \E c \in Capacities : Shift(c)

RateSpec == RateInit /\ [][RateNext]_rate_vars /\ WF_rate_vars(Arrive \/ Decide)

-----------------------------------------------------------------------------
InUse ==
    \/ 10 * (rate + 1) >= 7 * capacity
    \/ rate >= MaxRate

(* After any outages and capacity changes the sender comes back to use the *)
(* path: from some time on it offers at least 0.7 of what the path carries *)
(* or its upper bound.                                                     *)
UsesThePath == <>[]InUse

Moderate ==
    \/ rate = MinRate
    \/ rate <= 2 * capacity
    \/ rate <= (5 * capacity) \div 4 + Mbps

(* It does not flood it either: from some time on the load is within twice *)
(* the capacity, or at the lower bound, or a step of the search above.     *)
DoesNotFlood == <>[]Moderate
=============================================================================
