----------------------------- MODULE MCFeedback -----------------------------
(* A new transfer, one resumed with a prefix, and one with holes below     *)
(* the last chunk that is held.                                            *)
EXTENDS Feedback

SomeHoldings == {{}, {0}, {2}}
=============================================================================
