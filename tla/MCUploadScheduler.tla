------------------------- MODULE MCUploadScheduler -------------------------
(* The scheduler on small sets of accounts. *)
EXTENDS UploadScheduler, TLC

CONSTANTS a1, a2, a3

TwoAccounts == {a1, a2}
ThreeAccounts == {a1, a2, a3}
Symmetry == Permutations(Accounts)
NoCallers == {}
=============================================================================
