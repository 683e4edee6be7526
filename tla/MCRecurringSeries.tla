--------------------------- MODULE MCRecurringSeries ---------------------------
(* Every other day, twice, and two days of each week; day 1 is a Monday.  The  *)
(* user lets an event stay on its day or moves it back by one.                *)
EXTENDS RecurringSeries, TLC

Rule(freq, interval, count, byDay) ==
    [freq |-> freq, interval |-> interval, count |-> count, until |-> 0, byDay |-> byDay]

Choice(freq, count, untilDay) == [freq |-> freq, count |-> count, untilDay |-> untilDay]

SomeRules == {Rule("DAILY", 2, 2, {}), Rule("WEEKLY", 1, 0, {1, 4})}
SomeChoices == {Choice("NONE", 0, 0), Choice("DAILY", 0, 6)}
SomeShifts == {-1, 0}
==============================================================================
