------------------------- MODULE MCRecurrenceOverrides -------------------------
(* The constants are given in RecurrenceOverrides.cfg; both instances are changed *)
(* elsewhere too.                                                           *)
EXTENDS RecurrenceOverrides, TLC
================================================================================
