------------------------------ MODULE MCHealth ------------------------------
(* Health for TLC: a day of a few slots, limits that tell the times apart.  *)
EXTENDS Health
=============================================================================
