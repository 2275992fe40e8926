---------------------------- MODULE MCDirectory ----------------------------
(* The receiver may die anywhere.                                          *)
EXTENDS Directory

AllPoints == Steps
=============================================================================
