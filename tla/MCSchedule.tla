----------------------------- MODULE MCSchedule -----------------------------
(* The schedule for TLC, with a day of a few minutes.                       *)
EXTENDS Schedule
=============================================================================
