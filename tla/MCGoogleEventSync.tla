------------------------- MODULE MCGoogleEventSync -------------------------
(* One calendar with a few events. *)
EXTENDS GoogleEventSync, TLC

CONSTANTS f1, f2

FetcherSymmetry == Permutations(Fetchers)
=============================================================================
