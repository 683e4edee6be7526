---------------------------- MODULE RecurringSeries ----------------------------
(***************************************************************************)
(* A recurring event and what the user makes of it, between two fetches.     *)
(* A series is a master row with a rule; "this and following" splits it into  *)
(* segments, masters of their own that share recurrence_group_id; "this       *)
(* instance" leaves an override on the master; a master whose rule is taken    *)
(* away is a plain event of the group.  What is shown is computed from these   *)
(* rows each time.                                                          *)
(* Sources: ApplyRecurringEdit of src/ui/local_calendar_app.cpp, BuildEvent   *)
(* of src/ui/event_editor_dialog.cpp, src/events/event_occurrence_utils.cpp,   *)
(* AddRecurringOccurrences of src/events/event_load_operations.cpp.           *)
(*                                                                          *)
(* A day has DayTicks ticks.  Starts are stored in UTC and displayed Zone      *)
(* ticks later.  An event takes one tick.                                   *)
(***************************************************************************)
EXTENDS Integers, FiniteSets

CONSTANTS
    Days,       \* the days looked at
    FirstDays,  \* the days on which the series may start
    DayTicks,
    Zone,       \* the offset of the displayed time zone
    Times,      \* ticks of the day at which the user lets events start
    Rules,      \* the rules the series may have at first
    Choices,    \* what the user may set the editor's repeat controls to
    Shifts,     \* bound: the days by which the user moves an event
    Ids,        \* bound: rows of masters
    MaxEdits    \* bound: edits

(* What AddRecurringOccurrences reads of an RRULE; 0 is no end.                 *)
AnyRule == [freq : {"DAILY", "WEEKLY"}, interval : Nat \ {0}, count : Nat, until : Nat, byDay : SUBSET (1..7)]

(* There is a last day, and an offset is shorter than a day by a tick and more.   *)
ASSUME DaysAssumption ==
    /\ Days \subseteq Nat \ {0} /\ \E d \in Days : \A e \in Days : e <= d
    /\ FirstDays \subseteq Days
    /\ DayTicks \in Nat \ {0} /\ Zone \in 0..(DayTicks - 2)
    /\ Times \subseteq 0..(DayTicks - 1)
    /\ Rules \subseteq AnyRule /\ \A rule \in Rules : rule.count = 0 \/ rule.until = 0
    /\ Choices \subseteq [freq : {"NONE", "DAILY", "WEEKLY"}, count : Nat, untilDay : Nat]
    /\ Shifts \subseteq Int
    /\ Ids \subseteq Nat /\ MaxEdits \in Nat

VARIABLES
    masters,    \* the live rows of the group: masters, and those without a rule
    overrides,  \* recurrence_overrides
    changed,    \* rows of changed instances: plain events since then
    edits,
    cancelled,  \* history: days the user deleted, with the master
    reaching    \* history: segments that may reach over another one

historyVars == <<cancelled, reaching>>
vars == <<masters, overrides, changed, edits, historyVars>>

NoRule == [freq |-> "NONE", interval |-> 1, count |-> 0, until |-> 0, byDay |-> {}]
NoMaster == [start |-> 0, rule |-> NoRule]
Live(id) == masters[id] # NoMaster
Repeats(id) == Live(id) /\ masters[id].rule # NoRule

-----------------------------------------------------------------------------
(* src/utils/datetime_utils and timezone_utils, in ticks.                      *)

DayOf(t) == t \div DayTicks
TimeOffsetWithinDay(t) == t % DayTicks
DisplayOf(t) == t + Zone
StoredOf(t) == t - Zone
Weekday(d) == ((d - 1) % 7) + 1
Week(d) == (d - 1) \div 7
Larger(a, b) == IF a > b THEN a ELSE b

MatchesRecurringDay(m, d) ==
    LET startDay == DayOf(DisplayOf(m.start))
    IN  /\ d >= startDay
        /\ \/ /\ m.rule.freq = "DAILY"
              /\ (d - startDay) % m.rule.interval = 0
           \/ /\ m.rule.freq = "WEEKLY"
              /\ (Week(d) - Week(startDay)) % m.rule.interval = 0
              /\ Weekday(d) \in IF m.rule.byDay = {} THEN {Weekday(startDay)} ELSE m.rule.byDay

(* Mutant: the first day is not counted. *)
CountWithoutFirst(m, d) ==
    Cardinality({e \in DayOf(DisplayOf(m.start)) + 1..d - 1 : MatchesRecurringDay(m, e)})

CountOccurrencesBeforeDay(m, d) ==
    Cardinality({e \in DayOf(DisplayOf(m.start))..d - 1 : MatchesRecurringDay(m, e)})

(* Mutant: only the start itself is suppressed. *)
SuppressedStartOnly(starts, start) == start \in starts

(* An occurrence whose start, displayed day or stored day is that of an override. *)
Suppressed(starts, start) ==
    LET days == {DayOf(s) : s \in starts} \cup {DayOf(DisplayOf(s)) : s \in starts}
    IN  start \in starts \/ DayOf(DisplayOf(start)) \in days \/ DayOf(start) \in days

(* AddRecurringOccurrences and ExpandRecurringEventForRange: the starts of a    *)
(* master's occurrences in the displayed days from..to.                       *)
Expand(id, from, to) ==
    LET m == masters[id]
        rangeStart == from * DayTicks
        rangeEnd == (to + 1) * DayTicks
        starts == {o.originalStart : o \in {p \in overrides :
                       /\ p.master = id
                       /\ p.originalStart >= StoredOf(rangeStart) - DayTicks
                       /\ p.originalStart < rangeEnd + DayTicks}}
        scanStart == Larger(DayOf(DisplayOf(m.start)), from)
        matching == {d \in scanStart..to : MatchesRecurringDay(m, d)}
        before(d) == CountOccurrencesBeforeDay(m, scanStart) + Cardinality({e \in matching : e < d})
        startOn(d) == StoredOf(d * DayTicks + TimeOffsetWithinDay(DisplayOf(m.start)))
    IN  {startOn(d) : d \in {e \in matching :
            /\ m.rule.count > 0 => before(e) < m.rule.count
            /\ ~Suppressed(starts, startOn(e))
            /\ m.rule.until > 0 => startOn(e) <= m.rule.until
            /\ startOn(e) < rangeEnd
            /\ startOn(e) + 1 > rangeStart}}

(* A day on its own is computed with two days around it                       *)
(* (ExpandVisibleRangeForRecurrence).  Rows without a rule are shown as they    *)
(* are, whatever the overrides say, and are not counted here.                 *)
ShownOn(d) ==
    UNION {{<<id, t>> : t \in {s \in Expand(id, Larger(0, d - 2), d + 2) : DayOf(DisplayOf(s)) = d}} :
           id \in {i \in Ids : Live(i)}}

Occurrences == UNION {ShownOn(d) : d \in Days}

(* A master is also found by search, and its start edited as an instance.       *)
Editable == Occurrences \cup {<<id, masters[id].start>> : id \in {i \in Ids : Repeats(i)}}

-----------------------------------------------------------------------------
(* The editor builds the rule anew each time, for the day the event has now:    *)
(* the interval and further weekdays are lost, and the last day that is chosen  *)
(* ends with that day in UTC.                                               *)
BuildRecurrenceRule(day, c) ==
    IF c.freq = "NONE" THEN NoRule
    ELSE [freq |-> c.freq, interval |-> 1, count |-> c.count,
          until |-> IF c.count = 0 /\ c.untilDay > 0 THEN c.untilDay * DayTicks + DayTicks - 1 ELSE 0,
          byDay |-> IF c.freq = "WEEKLY" THEN {Weekday(day)} ELSE {}]

(* LoadInitialValues, WriteUntilDateControl: the last day is shown as displayed. *)
LoadInitialValues(rule) ==
    [freq |-> rule.freq, count |-> rule.count,
     untilDay |-> IF rule.until > 0 THEN DayOf(DisplayOf(rule.until)) ELSE 0]

(* The user sets the repeat controls, or leaves them.                          *)
EditedRules(rule, day) == {BuildRecurrenceRule(day, c) : c \in Choices \cup {LoadInitialValues(rule)}}

MovedFrom(d) == {e \in Days : e - d \in Shifts}

-----------------------------------------------------------------------------
(* Mutant: the series ends a day too early. *)
LimitedRuleDayEarly(rule, until) ==
    IF rule = NoRule THEN NoRule ELSE [rule EXCEPT !.count = 0, !.until = Larger(1, until - DayTicks)]

LimitedRecurrenceRule(rule, until) ==
    IF rule = NoRule THEN NoRule ELSE [rule EXCEPT !.count = 0, !.until = Larger(0, until)]

(* PreserveRecurrenceEndBoundary; of the two kinds of end UNTIL is read last.   *)
PreserveRecurrenceEndBoundary(new, previous) ==
    IF previous.until > 0 THEN [new EXCEPT !.count = 0, !.until = previous.until]
    ELSE IF previous.count > 0 /\ new.until = 0 THEN [new EXCEPT !.count = previous.count]
    ELSE new

(* Rows that deleteEvent, or the cascade from it, removes.                     *)
Without(S) == [id \in Ids |-> IF id \in S THEN NoMaster ELSE masters[id]]
OverridesWithout(S) == {o \in overrides : o.master \notin S}

Override(id, t, type) == [master |-> id, originalStart |-> t, type |-> type]
UpsertOverride(o) ==
    {p \in overrides : p.master # o.master \/ p.originalStart # o.originalStart} \cup {o}

Init ==
    /\ \E first \in Ids, d \in FirstDays, t \in Times, rule \in Rules :
           /\ \A id \in Ids : first <= id
           /\ masters = [id \in Ids |-> IF id = first
                            THEN [start |-> StoredOf(d * DayTicks + t), rule |-> rule] ELSE NoMaster]
    /\ overrides = {}
    /\ changed = {}
    /\ edits = 0
    /\ cancelled = {}
    /\ reaching = {}

Edits == edits < MaxEdits /\ edits' = edits + 1

-----------------------------------------------------------------------------
(* The edits: of the occurrence of master id that starts at t.                *)

(* ApplyRecurrenceRuleChangeToSeries: a changed rule is written to the master    *)
(* first, and the other segments stay.                                       *)
Ruled(id, rule) == [masters EXCEPT ![id].rule = rule]

(* Another rule than the one that ended a segment lets it go on.               *)
Extended(old, new) == old.until > 0 /\ new # NoRule /\ (new.until = 0 \/ new.until > old.until)

(* ApplySingleInstanceEdit                                                  *)
DeleteInstance(id, t) ==
    /\ Edits
    /\ overrides' = UpsertOverride(Override(id, t, "CANCELLED"))
    /\ cancelled' = cancelled \cup {<<id, DayOf(DisplayOf(t))>>}
    /\ UNCHANGED <<masters, changed, reaching>>

ChangeInstance(id, t, day, time, rule) ==
    /\ Edits
    /\ masters' = Ruled(id, rule)
    /\ changed' = changed \cup {StoredOf(day * DayTicks + time)}
    /\ overrides' = UpsertOverride(Override(id, t, "MODIFIED"))
    /\ reaching' = IF Extended(masters[id].rule, rule) THEN reaching \cup {id} ELSE reaching
    /\ UNCHANGED cancelled

(* AUTOINCREMENT: the first id that nothing names is as good as a new one.        *)
Unused(id) ==
    /\ ~Live(id)
    /\ \A o \in overrides : o.master # id
    /\ \A c \in cancelled : c[1] # id

NewIds == {i \in Ids : Unused(i) /\ \A j \in Ids : Unused(j) => i <= j}

(* Mutant: later segments stay. *)
NoLaterSegments(id, t) == {}

(* DeleteFutureLocalSeriesSegments: getRecurringMasters leaves out what has no rule. *)
LaterSegments(id, t) == {s \in Ids \ {id} : Repeats(s) /\ masters[s].start >= t}

(* ApplyThisAndFollowingEdit                                                *)
DeleteFollowing(id, t) ==
    LET later == LaterSegments(id, t)
    IN  /\ Edits
        /\ masters' = [Without(later) EXCEPT ![id].rule = LimitedRecurrenceRule(@, t - 1)]
        /\ overrides' = OverridesWithout(later)
        /\ UNCHANGED <<changed, historyVars>>

(* Nothing keeps the new segment from starting before the instance it is split   *)
(* at, or ties a master's start to what the rule still gives.                   *)
SplitInOrder(id, t, day) == DayOf(DisplayOf(t)) <= day /\ <<id, t>> \in Occurrences

ChangeFollowing(id, t, day, time, rule) ==
    LET later == LaterSegments(id, t)
        following == [start |-> StoredOf(day * DayTicks + time),
                      rule |-> PreserveRecurrenceEndBoundary(rule, Ruled(id, rule)[id].rule)]
    IN  /\ Edits
        /\ \E new \in NewIds :
               /\ masters' = [Without(later) EXCEPT ![id].rule = LimitedRecurrenceRule(rule, t - 1),
                                                    ![new] = following]
               /\ reaching' = IF id \notin reaching /\ SplitInOrder(id, t, day)
                              THEN reaching \ {new} ELSE reaching \cup {new}
        /\ overrides' = OverridesWithout(later)
        /\ UNCHANGED <<changed, cancelled>>

(* ApplyEntireSeriesEdit: the other rows of the group are deleted.              *)
ApplyEntireSeriesEdit(id, start, rule) ==
    /\ Edits
    /\ masters' = [Without(Ids \ {id}) EXCEPT ![id] = [start |-> start, rule |-> rule]]
    /\ overrides' = OverridesWithout(Ids \ {id})
    /\ reaching' = {}
    /\ UNCHANGED <<changed, cancelled>>

(* From an occurrence the series keeps the day it starts on                    *)
(* (PreserveSeriesAnchorDate); the master itself, found by search, may be moved. *)
ChangeSeries(id, time, rule) ==
    ApplyEntireSeriesEdit(id, StoredOf(DayOf(DisplayOf(masters[id].start)) * DayTicks + time), rule)

MoveMaster(id, day, time, rule) ==
    ApplyEntireSeriesEdit(id, StoredOf(day * DayTicks + time), rule)

(* DeleteEventById for the master: the segment is marked deleted, its overrides  *)
(* stay.                                                                    *)
DeleteSeries(id) ==
    /\ Edits
    /\ masters' = Without({id})
    /\ UNCHANGED <<overrides, changed, historyVars>>

(* A row without a rule is saved as any plain event, and may repeat again.        *)
SaveSingle(id, day, time, rule) ==
    /\ Edits
    /\ masters' = [masters EXCEPT ![id] = [start |-> StoredOf(day * DayTicks + time), rule |-> rule]]
    /\ reaching' = reaching \cup {id}
    /\ UNCHANGED <<overrides, changed, cancelled>>

DeleteChanged(t) ==
    /\ Edits
    /\ changed' = changed \ {t}
    /\ UNCHANGED <<masters, overrides, historyVars>>

Next ==
    \/ \E o \in Editable :
           \/ DeleteInstance(o[1], o[2])
           \/ DeleteFollowing(o[1], o[2])
           \/ \E day \in MovedFrom(DayOf(DisplayOf(o[2]))), time \in Times :
                  \E rule \in EditedRules(masters[o[1]].rule, day) :
                      \/ ChangeInstance(o[1], o[2], day, time, rule)
                      \/ ChangeFollowing(o[1], o[2], day, time, rule)
    \/ \E o \in Occurrences, time \in Times :
           \E day \in MovedFrom(DayOf(DisplayOf(o[2]))) :
               \E rule \in EditedRules(masters[o[1]].rule, day) : ChangeSeries(o[1], time, rule)
    \/ \E id \in {i \in Ids : Live(i)} :
           \/ DeleteSeries(id)
           \/ \E day \in MovedFrom(DayOf(DisplayOf(masters[id].start))), time \in Times :
                  \E rule \in EditedRules(masters[id].rule, day) :
                      IF Repeats(id) THEN MoveMaster(id, day, time, rule) ELSE SaveSingle(id, day, time, rule)
    \/ \E t \in changed : DeleteChanged(t)

Spec == Init /\ [][Next]_vars

-----------------------------------------------------------------------------
Ticks == -DayTicks..((CHOOSE d \in Days : \A e \in Days : e <= d) + 1) * DayTicks

TypeOK ==
    /\ \A id \in Ids : Live(id) =>
           /\ masters[id].start \in Ticks
           /\ masters[id].rule.freq \in {"DAILY", "WEEKLY"} \/ masters[id].rule = NoRule
           /\ masters[id].rule.interval \in Nat \ {0}
           /\ masters[id].rule.count = 0 \/ masters[id].rule.until = 0
    /\ overrides \subseteq [master : Ids, originalStart : Ticks, type : {"CANCELLED", "MODIFIED"}]
    /\ \A o, p \in overrides : o.master = p.master /\ o.originalStart = p.originalStart => o = p
    /\ changed \subseteq Ticks
    /\ edits \in 0..MaxEdits
    /\ cancelled \subseteq Ids \X Days
    /\ reaching \subseteq Ids

(* The segments of a series never show a day twice, but for those that may     *)
(* reach over another one: an ended segment that got a later end together with   *)
(* a change of one instance; a new segment that the user moved to a day before   *)
(* the instance it was split at, or split at a start the series does not show;   *)
(* a row that lost its rule and repeats again; and what was split from these.     *)
OncePerDay ==
    \A d \in Days : Cardinality({o \in ShownOn(d) : o[1] \notin reaching}) <= 1

(* An instance the user deleted is not shown again by the rule of its row,       *)
(* whatever becomes of the time and the rule, also when the rule was taken away   *)
(* and given back.  (A row without a rule is a plain event and is shown.)         *)
CancelledStaysHidden ==
    \A c \in cancelled : \A o \in ShownOn(c[2]) : o[1] # c[1]

(* What the rule means, counted from the start and without a range.            *)
OccurrenceDays(id) ==
    LET m == masters[id]
        startDay == DayOf(DisplayOf(m.start))
        all == {d \in startDay..(CHOOSE d \in Days : \A e \in Days : e <= d) :
                    MatchesRecurringDay(m, d)}
    IN  {d \in all :
            /\ m.rule.count > 0 => Cardinality({e \in all : e <= d}) <= m.rule.count
            /\ m.rule.until > 0 =>
                   StoredOf(d * DayTicks + TimeOffsetWithinDay(DisplayOf(m.start))) <= m.rule.until}

(* No start of the master lies on different days in UTC and as displayed.       *)
InOneDay(t) == DayOf(t) = DayOf(DisplayOf(t))
NeverAcrossDays(id) ==
    InOneDay(masters[id].start) /\ \A o \in overrides : o.master = id => InOneDay(o.originalStart)

(* Each day, computed on its own, shows the instance the rule gives it unless    *)
(* the user deleted or changed that instance.                                *)
ShownAsRuled ==
    \A id \in Ids : Repeats(id) /\ NeverAcrossDays(id) =>
        {d \in Days : \E o \in ShownOn(d) : o[1] = id} =
            (OccurrenceDays(id) \cap Days)
                \ {DayOf(DisplayOf(o.originalStart)) : o \in {p \in overrides : p.master = id}}

(* What the editor leaves of a rule on which days fit.                         *)
SamePattern(new, old) == new.freq = old.freq /\ new.interval = old.interval /\ new.byDay = old.byDay

(* Deleting one instance leaves the other days, and an edit of an instance and    *)
(* the following ones leaves the days before it (and before the day it is moved    *)
(* to) unless it changes on which days the series is: that is written to the whole *)
(* segment.                                                                 *)
Scope ==
    \A o \in Occurrences :
        LET day == DayOf(DisplayOf(o[2]))
        IN  /\ DeleteInstance(o[1], o[2]) /\ NeverAcrossDays(o[1])
                   => \A d \in Days \ {day} : ShownOn(d)' = ShownOn(d)
            /\ DeleteFollowing(o[1], o[2])
                   => \A d \in Days : d < day => ShownOn(d)' = ShownOn(d)
            /\ \A to \in MovedFrom(day), time \in Times :
                   \A rule \in EditedRules(masters[o[1]].rule, to) :
                       SamePattern(rule, masters[o[1]].rule) /\ ChangeFollowing(o[1], o[2], to, time, rule)
                           => \A d \in Days : d < day /\ d < to => ShownOn(d)' = ShownOn(d)

ScopeRespected == [][Scope]_vars
=============================================================================
