------------------------- MODULE MCOutlookEventSync -------------------------
(* One Outlook calendar with a few events in two quarters. *)
EXTENDS OutlookEventSync, TLC

CONSTANTS w, c

(* Every write moves the event to the other bucket. *)
Alternating == [s \in 1..MaxStamp |-> 2 - (s % 2)]
=============================================================================
