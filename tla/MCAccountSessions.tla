-------------------------- MODULE MCAccountSessions --------------------------
(* Two users with accounts at a provider, one coverage thread. *)
EXTENDS AccountSessions

CONSTANTS u1, u2, c
=============================================================================
