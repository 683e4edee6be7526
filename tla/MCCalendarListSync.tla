------------------------- MODULE MCCalendarListSync -------------------------
(* One account with a few calendars; the second thread signs in. *)
EXTENDS CalendarListSync

CONSTANTS worker, signin
=============================================================================
