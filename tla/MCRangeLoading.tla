---------------------------- MODULE MCRangeLoading ----------------------------
(* Two ranges that share a quarter; 48 is the first of January, so that one range *)
(* lies across New Year.                                                      *)
EXTENDS RangeLoading, TLC

NewYear == [from |-> 46, to |-> 50, cals |-> {1}]
January == [from |-> 49, to |-> 51, cals |-> {1, 2}]

OverlappingViews == {NewYear, January}
=============================================================================
