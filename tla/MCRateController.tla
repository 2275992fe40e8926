-------------------------- MODULE MCRateController --------------------------
(* A path below the lower bound of the rate, two within the bounds and one *)
(* above the upper bound.                                                  *)
EXTENDS RateController

SomeCapacities == {50, 300, 1200, 5000}
=============================================================================
