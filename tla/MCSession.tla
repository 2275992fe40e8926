----------------------------- MODULE MCSession ------------------------------
(* Small instances of Session.  Keys, hellos and payloads are only ever    *)
(* compared with one another: the sets are symmetric.                      *)
EXTENDS Session, TLC

CONSTANTS k1, k2, h1, h2, p1, p2

Symmetry ==
    Permutations({k1, k2}) \cup Permutations({h1, h2}) \cup Permutations({p1, p2})
=============================================================================
