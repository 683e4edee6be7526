------------------------ MODULE RecurringSeriesProofs ------------------------
(***************************************************************************)
(* RecurringSeries for any days, rules, time zones, rows and number of edits:  *)
(* each day shows what the rules give it and no override took away, no day     *)
(* twice, no deleted instance again, and an edit leaves the days it is not     *)
(* about.                                                                   *)
(***************************************************************************)
EXTENDS RecurringSeries, FiniteSetTheorems, TLAPS

(* A rule, or none. *)
RuleFields == [freq : {"DAILY", "WEEKLY", "NONE"}, interval : Nat \ {0}, count : Nat, until : Nat, byDay : SUBSET (1..7)]
GoodRule(rule) ==
    /\ rule \in RuleFields
    /\ rule.count = 0 \/ rule.until = 0
    /\ rule.freq \in {"DAILY", "WEEKLY"} \/ rule = NoRule

AnyMaster == [start : Int, rule : RuleFields]
StartDay(m) == DayOf(DisplayOf(m.start))

(* The start of the occurrence of a displayed day. *)
StartOn(m, d) == StoredOf(d * DayTicks + TimeOffsetWithinDay(DisplayOf(m.start)))

Shape ==
    /\ \A id \in Ids : Live(id) => masters[id] \in AnyMaster
    /\ \A o \in overrides : o.originalStart \in Int

LEMMA Ticking == DayTicks \in Nat \ {0} /\ DayTicks > Zone + 1 /\ Zone \in Nat
BY DaysAssumption

LEMMA DayFacts ==
    ASSUME NEW t \in Int
    PROVE  /\ DayOf(t) \in Int /\ DisplayOf(t) \in Int /\ StoredOf(t) \in Int
           /\ TimeOffsetWithinDay(t) \in 0..(DayTicks - 1)
           /\ t = DayOf(t) * DayTicks + TimeOffsetWithinDay(t)
BY Ticking DEF DayOf, DisplayOf, StoredOf, TimeOffsetWithinDay

LEMMA DayIs ==
    ASSUME NEW d \in Int, NEW r \in 0..(DayTicks - 1)
    PROVE  DayOf(d * DayTicks + r) = d
BY Ticking DEF DayOf

LEMMA DaysApart ==
    ASSUME NEW a \in Int, NEW b \in Int, a < b
    PROVE  a * DayTicks \in Int /\ b * DayTicks \in Int /\ a * DayTicks + DayTicks <= b * DayTicks
BY Ticking

LEMMA LaterDay ==
    ASSUME NEW s \in Int, NEW t \in Int, DayOf(s) < DayOf(t)
    PROVE  s < t
<1>1. DayOf(s) \in Int /\ DayOf(t) \in Int
    BY DayFacts
<1>2. DayOf(s) * DayTicks + DayTicks <= DayOf(t) * DayTicks
    BY <1>1, DaysApart
<1> QED
    BY <1>1, <1>2, DayFacts, DaysApart, Ticking

LEMMA StartOnFacts ==
    ASSUME NEW m \in AnyMaster, NEW d \in Int
    PROVE  /\ StartOn(m, d) \in Int
           /\ DayOf(DisplayOf(StartOn(m, d))) = d
           /\ StartOn(m, d) + Zone >= d * DayTicks
           /\ StartOn(m, d) + Zone < d * DayTicks + DayTicks
           /\ StartDay(m) \in Int
<1>1. PICK r \in 0..(DayTicks - 1) : r = TimeOffsetWithinDay(DisplayOf(m.start))
    BY DayFacts DEF AnyMaster
<1>2. d * DayTicks \in Int
    BY Ticking
<1>3. StartOn(m, d) = d * DayTicks + r - Zone
    BY <1>1, <1>2, Ticking DEF StartOn, StoredOf
<1>4. DisplayOf(StartOn(m, d)) = d * DayTicks + r
    BY <1>2, <1>3, Ticking DEF DisplayOf
<1>5. DayOf(d * DayTicks + r) = d
    BY DayIs
<1>6. StartDay(m) \in Int
    BY DayFacts DEF AnyMaster, StartDay
<1> QED
    BY <1>2, <1>3, <1>4, <1>5, <1>6, Ticking

LEMMA StartsInOrder ==
    ASSUME NEW m \in AnyMaster, NEW d \in Int, NEW e \in Int
    PROVE  d < e <=> StartOn(m, d) < StartOn(m, e)
<1>1. PICK r \in 0..(DayTicks - 1) : r = TimeOffsetWithinDay(DisplayOf(m.start))
    BY DayFacts DEF AnyMaster
<1>5. d * DayTicks \in Int /\ e * DayTicks \in Int
    BY Ticking
<1>2. StartOn(m, d) = d * DayTicks + r - Zone /\ StartOn(m, e) = e * DayTicks + r - Zone
    BY <1>1, <1>5, Ticking DEF StartOn, StoredOf
<1>3. d < e => d * DayTicks + DayTicks <= e * DayTicks
    BY DaysApart
<1>4. e < d => e * DayTicks + DayTicks <= d * DayTicks
    BY DaysApart
<1> QED
    BY <1>2, <1>3, <1>4, <1>5, Ticking

LEMMA StartIsOn ==
    ASSUME NEW m \in AnyMaster
    PROVE  m.start = StartOn(m, StartDay(m))
<1>1. PICK s \in Int : s = m.start
    BY DEF AnyMaster
<1>2. DisplayOf(s) \in Int /\ DisplayOf(s) = s + Zone
    BY <1>1, Ticking DEF DisplayOf
<1>3. DisplayOf(s) = DayOf(DisplayOf(s)) * DayTicks + TimeOffsetWithinDay(DisplayOf(s))
    BY <1>2, DayFacts
<1>4. StoredOf(DisplayOf(s)) = s
    BY <1>1, <1>2, Ticking DEF StoredOf
<1> QED
    BY <1>1, <1>3, <1>4 DEF StartOn, StartDay

(* What a rule gives: the day fits, and the series has not ended. *)
Given(m, d) ==
    /\ MatchesRecurringDay(m, d)
    /\ m.rule.count > 0 => CountOccurrencesBeforeDay(m, d) < m.rule.count
    /\ m.rule.until > 0 => StartOn(m, d) <= m.rule.until

(* The overrides that are read for the display of a day. *)
StartsNear(id, d) ==
    {o.originalStart : o \in {p \in overrides :
        /\ p.master = id
        /\ p.originalStart >= StoredOf(Larger(0, d - 2) * DayTicks) - DayTicks
        /\ p.originalStart < (d + 2 + 1) * DayTicks + DayTicks}}

LEMMA CountSplits ==
    ASSUME NEW m \in AnyMaster, NEW from \in Int, NEW to \in Int, NEW d \in Int,
           StartDay(m) <= d, from <= d, d <= to,
           NEW scan, scan = Larger(StartDay(m), from)
    PROVE  CountOccurrencesBeforeDay(m, scan)
               + Cardinality({e \in {x \in scan..to : MatchesRecurringDay(m, x)} : e < d})
           = CountOccurrencesBeforeDay(m, d)
<1>1. StartDay(m) \in Int /\ scan \in Int /\ StartDay(m) <= scan /\ scan <= d
    BY StartOnFacts DEF Larger
<1> DEFINE A == {e \in StartDay(m)..scan - 1 : MatchesRecurringDay(m, e)}
           B == {e \in {x \in scan..to : MatchesRecurringDay(m, x)} : e < d}
           C == {e \in StartDay(m)..d - 1 : MatchesRecurringDay(m, e)}
<1>2. IsFiniteSet(A) /\ IsFiniteSet(B)
  <2>1. A \subseteq StartDay(m)..scan - 1 /\ B \subseteq scan..to
      OBVIOUS
  <2>2. IsFiniteSet(StartDay(m)..scan - 1) /\ IsFiniteSet(scan..to)
    <3>1. scan - 1 \in Int
        BY <1>1
    <3>2. IsFiniteSet(StartDay(m)..(scan - 1))
        BY <1>1, <3>1, FS_Interval
    <3>3. IsFiniteSet(scan..to)
        BY <1>1, FS_Interval
    <3> QED
        BY <3>2, <3>3
  <2> QED
      BY <2>1, <2>2, FS_Subset
<1>3. C = A \cup B /\ A \cap B = {}
  <2>1. ASSUME NEW e PROVE e \in C <=> e \in A \/ e \in B
      BY <1>1
  <2>2. ASSUME NEW e PROVE ~(e \in A /\ e \in B)
      BY <1>1
  <2> HIDE DEF A, B, C
  <2> QED
      BY <2>1, <2>2
<1>4. CountOccurrencesBeforeDay(m, scan) = Cardinality(A) /\ CountOccurrencesBeforeDay(m, d) = Cardinality(C)
    BY DEF CountOccurrencesBeforeDay, StartDay
<1> HIDE DEF A, B, C
<1>5. Cardinality(A \cup B) = Cardinality(A) + Cardinality(B) - Cardinality(A \cap B)
    BY <1>2, FS_Union
<1>6. Cardinality(A \cap B) = 0 /\ Cardinality(A) \in Nat /\ Cardinality(B) \in Nat
    BY <1>2, <1>3, FS_EmptySet, FS_CardinalityType
<1>7. Cardinality(C) = Cardinality(A) + Cardinality(B)
    BY <1>3, <1>5, <1>6
<1> QED
    BY <1>4, <1>7 DEF B

LEMMA MatchesFromStart ==
    ASSUME NEW m, NEW d, MatchesRecurringDay(m, d)
    PROVE  d >= StartDay(m)
BY DEF MatchesRecurringDay, StartDay

(* Expanding two days around a displayed day shows on it what the rule gives. *)
LEMMA Expanded ==
    ASSUME Shape, NEW id \in Ids, Live(id), NEW d \in Days, NEW s
    PROVE  s \in Expand(id, Larger(0, d - 2), d + 2) /\ DayOf(DisplayOf(s)) = d
           <=> /\ s = StartOn(masters[id], d) /\ Given(masters[id], d)
               /\ ~Suppressed(StartsNear(id, d), s)
<1> DEFINE m == masters[id]
           from == Larger(0, d - 2)
           to == d + 2
           scan == Larger(StartDay(m), from)
           matching == {x \in scan..to : MatchesRecurringDay(m, x)}
           before(e) == CountOccurrencesBeforeDay(m, scan) + Cardinality({x \in matching : x < e})
           startOn(e) == StoredOf(e * DayTicks + TimeOffsetWithinDay(DisplayOf(m.start)))
           Taken(e) == /\ m.rule.count > 0 => before(e) < m.rule.count
                       /\ ~Suppressed(StartsNear(id, d), startOn(e))
                       /\ m.rule.until > 0 => startOn(e) <= m.rule.until
                       /\ startOn(e) < (to + 1) * DayTicks
                       /\ startOn(e) + 1 > from * DayTicks
<1>1. Expand(id, from, to) = {startOn(e) : e \in {x \in matching : Taken(x)}}
    BY DEF Expand, StartsNear, StartDay
<1>2. /\ m \in AnyMaster /\ d \in Int /\ d > 0 /\ from \in Int /\ to \in Int /\ scan \in Int
      /\ from <= d /\ d <= to /\ StartDay(m) \in Int
    BY StartOnFacts, DaysAssumption DEF Shape, Larger
<1>3. \A e \in matching : e \in Int /\ startOn(e) = StartOn(m, e) /\ DayOf(DisplayOf(startOn(e))) = e
    BY <1>2, StartOnFacts DEF StartOn
<1>4. d \in matching <=> MatchesRecurringDay(m, d)
    BY <1>2, MatchesFromStart DEF Larger
<1>5. MatchesRecurringDay(m, d) => before(d) = CountOccurrencesBeforeDay(m, d)
  <2> SUFFICES ASSUME MatchesRecurringDay(m, d)
               PROVE  before(d) = CountOccurrencesBeforeDay(m, d)
      OBVIOUS
  <2>1. StartDay(m) <= d
      BY <1>2, MatchesFromStart
  <2> QED
      BY <1>2, <2>1, CountSplits
<1>6. StartOn(m, d) < (to + 1) * DayTicks /\ StartOn(m, d) + 1 > from * DayTicks
  <2>1. PICK t \in Int : t = StartOn(m, d) /\ t + Zone >= d * DayTicks /\ t + Zone < d * DayTicks + DayTicks
      BY <1>2, StartOnFacts
  <2>2. d * DayTicks + DayTicks <= (to + 1) * DayTicks /\ (to + 1) * DayTicks \in Int /\ d * DayTicks \in Int
      BY <1>2, DaysApart
  <2>3. from * DayTicks + DayTicks <= d * DayTicks /\ from * DayTicks \in Int
    <3>1. from < d
        BY <1>2 DEF Larger
    <3> QED
        BY <1>2, <3>1, DaysApart
  <2> QED
      BY <2>1, <2>2, <2>3, Ticking
<1>7. startOn(d) = StartOn(m, d)
    BY DEF StartOn
<1>8. MatchesRecurringDay(m, d) => (Taken(d) <=> Given(m, d) /\ ~Suppressed(StartsNear(id, d), StartOn(m, d)))
  <2> HIDE DEF before, startOn, from, to, m
  <2> QED
      BY <1>5, <1>6, <1>7 DEF Given
<1> HIDE DEF Taken, matching, startOn
<1>9. s \in Expand(id, from, to) /\ DayOf(DisplayOf(s)) = d <=> d \in matching /\ Taken(d) /\ s = startOn(d)
    BY <1>1, <1>3
<1> QED
    BY <1>4, <1>7, <1>8, <1>9 DEF Given

LEMMA Shown ==
    Shape => \A id, s : \A d \in Days :
        <<id, s>> \in ShownOn(d) <=>
            /\ id \in Ids /\ Live(id)
            /\ s = StartOn(masters[id], d) /\ Given(masters[id], d)
            /\ ~Suppressed(StartsNear(id, d), s)
<1> SUFFICES ASSUME Shape, NEW id, NEW s, NEW d \in Days
             PROVE  <<id, s>> \in ShownOn(d) <=>
                        /\ id \in Ids /\ Live(id)
                        /\ s = StartOn(masters[id], d) /\ Given(masters[id], d)
                        /\ ~Suppressed(StartsNear(id, d), s)
    OBVIOUS
<1>1. <<id, s>> \in ShownOn(d) <=>
          id \in Ids /\ Live(id) /\ s \in Expand(id, Larger(0, d - 2), d + 2) /\ DayOf(DisplayOf(s)) = d
    BY DEF ShownOn
<1> QED
    BY <1>1, Expanded

LEMMA ShownPairs == \A d : \A o \in ShownOn(d) : o = <<o[1], o[2]>> /\ o[1] \in Ids
BY DEF ShownOn

-----------------------------------------------------------------------------
GoodMaster(m) ==
    /\ m \in AnyMaster /\ StartDay(m) \in Days /\ m.start \in Ticks /\ m.start >= 2
    /\ GoodRule(m.rule)

MastersInv ==
    /\ masters = [id \in Ids |-> masters[id]]
    /\ \A id \in Ids : Live(id) => GoodMaster(masters[id])

OverridesInv ==
    /\ overrides \subseteq [master : Ids, originalStart : Ticks, type : {"CANCELLED", "MODIFIED"}]
    /\ \A o, p \in overrides : o.master = p.master /\ o.originalStart = p.originalStart => o = p

OthersInv ==
    changed \subseteq Ticks /\ edits \in 0..MaxEdits /\ cancelled \subseteq Ids \X Days /\ reaching \subseteq Ids

(* A day the user deleted is the displayed day of an override, as long as the master lives. *)
HiddenInv ==
    \A c \in cancelled : Live(c[1]) =>
        \E o \in overrides : o.master = c[1] /\ DayOf(DisplayOf(o.originalStart)) = c[2]

(* The end of m keeps all its occurrences before a day, whatever its rule.       *)
Ends(m, day) ==
    /\ m.rule.until > 0
    /\ \A e \in Int : e >= StartDay(m) /\ StartOn(m, e) <= m.rule.until => e < day

(* Of two segments one has ended before the other starts, but for those that may reach over it. *)
SegmentsInv ==
    \A a, b \in Ids :
        a # b /\ Repeats(a) /\ Repeats(b) /\ a \notin reaching /\ b \notin reaching =>
            \/ Ends(masters[a], StartDay(masters[b]))
            \/ Ends(masters[b], StartDay(masters[a]))

IInv == MastersInv /\ OverridesInv /\ OthersInv /\ HiddenInv /\ SegmentsInv

LEMMA LastDay ==
    \E last \in Days : /\ last = CHOOSE d \in Days : \A e \in Days : e <= d
                       /\ \A e \in Days : e <= last
BY DaysAssumption

LEMMA DayTypes == \A d \in Days : d \in Int /\ d >= 1 /\ d * DayTicks \in Int /\ d * DayTicks >= DayTicks
<1> SUFFICES ASSUME NEW d \in Days PROVE d \in Int /\ d >= 1 /\ d * DayTicks \in Int /\ d * DayTicks >= DayTicks
    OBVIOUS
<1>1. d \in Int /\ d >= 1
    BY DaysAssumption
<1>2. d = 1 \/ 1 < d
    BY <1>1
<1>3. 1 < d => 1 * DayTicks + DayTicks <= d * DayTicks
    BY <1>1, DaysApart
<1> QED
    BY <1>1, <1>2, <1>3, Ticking

LEMMA TicksMade ==
    /\ Ticks \subseteq Int
    /\ \A d \in Days, r \in 0..(DayTicks - 1) :
           StoredOf(d * DayTicks + r) \in Ticks /\ StoredOf(d * DayTicks + r) >= 2
<1>1. PICK last \in Days : /\ last = CHOOSE d \in Days : \A e \in Days : e <= d
                           /\ \A e \in Days : e <= last
    BY LastDay
<1>2. last \in Int /\ (last + 1) * DayTicks \in Int /\ (last + 1) * DayTicks = last * DayTicks + DayTicks
    BY <1>1, DayTypes, Ticking
<1>3. Ticks = -DayTicks..((last + 1) * DayTicks)
    BY <1>1 DEF Ticks
<1>4. ASSUME NEW d \in Days, NEW r \in 0..(DayTicks - 1)
      PROVE  StoredOf(d * DayTicks + r) \in Ticks /\ StoredOf(d * DayTicks + r) >= 2
  <2>1. d \in Int /\ d * DayTicks \in Int /\ d * DayTicks >= DayTicks /\ d <= last
      BY <1>1, <1>4, DayTypes
  <2>2. d * DayTicks <= last * DayTicks
    <3>1. d < last => d * DayTicks + DayTicks <= last * DayTicks
        BY <1>2, <2>1, DaysApart
    <3>2. d = last \/ d < last
        BY <1>2, <2>1
    <3> QED
        BY <2>1, <3>1, <3>2, DayTypes, Ticking
  <2>3. StoredOf(d * DayTicks + r) = d * DayTicks + r - Zone
      BY <2>1, Ticking DEF StoredOf
  <2>4. last * DayTicks \in Int
      BY <1>1, DayTypes
  <2> QED
      BY <1>2, <1>3, <2>1, <2>2, <2>3, <2>4, Ticking
<1>5. Ticks \subseteq Int
    BY <1>2, <1>3, Ticking
<1> QED
    BY <1>4, <1>5

(* A master as the user's edits make them. *)
LEMMA MasterMade ==
    ASSUME NEW d \in Days, NEW time \in 0..(DayTicks - 1), NEW rule, GoodRule(rule),
           NEW m, m = [start |-> StoredOf(d * DayTicks + time), rule |-> rule]
    PROVE  GoodMaster(m) /\ StartDay(m) = d /\ m.rule = rule
<1>1. PICK s \in Ticks : s = StoredOf(d * DayTicks + time) /\ s >= 2
    BY TicksMade
<1>2. m = [start |-> s, rule |-> rule] /\ s \in Int
    BY <1>1, TicksMade
<1>3. m \in AnyMaster /\ m.start = s /\ m.rule = rule
    BY <1>2 DEF AnyMaster, GoodRule
<1>4. DisplayOf(s) = d * DayTicks + time
    BY <1>1, DayTypes, Ticking DEF DisplayOf, StoredOf
<1>5. StartDay(m) = d
    BY <1>3, <1>4, DayIs, DayTypes DEF StartDay
<1> QED
    BY <1>1, <1>3, <1>5 DEF GoodMaster

(* What the editor makes of a rule. *)
LEMMA RuleEdited ==
    ASSUME NEW old, GoodRule(old), NEW day \in Days, NEW rule \in EditedRules(old, day)
    PROVE  GoodRule(rule)
<1>1. PICK c \in Choices \cup {LoadInitialValues(old)} : rule = BuildRecurrenceRule(day, c)
    BY DEF EditedRules
<1>2. c.freq \in {"NONE", "DAILY", "WEEKLY"} /\ c.count \in Nat /\ c.untilDay \in Int
  <2>1. CASE c \in Choices
      BY <2>1, DaysAssumption
  <2>2. CASE c = LoadInitialValues(old)
    <3>1. old.freq \in {"NONE", "DAILY", "WEEKLY"} /\ old.count \in Nat /\ old.until \in Int
        BY DEF GoodRule, RuleFields
    <3>2. DayOf(DisplayOf(old.until)) \in Int
        BY <3>1, DayFacts
    <3> QED
        BY <2>2, <3>1, <3>2 DEF LoadInitialValues
  <2> QED
      BY <1>1, <2>1, <2>2
<1>3. CASE c.freq = "NONE"
    BY <1>1, <1>3 DEF BuildRecurrenceRule, GoodRule, RuleFields, NoRule
<1>4. CASE c.freq # "NONE"
  <2>1. PICK u \in Nat : u = (IF c.count = 0 /\ c.untilDay > 0 THEN c.untilDay * DayTicks + DayTicks - 1 ELSE 0)
    <3>1. CASE c.untilDay > 0
      <4>1. PICK k \in Nat \ {0} : k = c.untilDay
          BY <1>2, <3>1
      <4>2. k * DayTicks \in Nat
          BY Ticking
      <4> QED
          BY <4>1, <4>2, Ticking
    <3>2. CASE ~(c.untilDay > 0)
        BY <3>2
    <3> QED
        BY <3>1, <3>2
  <2>2. Weekday(day) \in 1..7
    <3>1. day - 1 \in Int
        BY DayTypes
    <3> QED
        BY <3>1 DEF Weekday
  <2>3. PICK b \in SUBSET (1..7) : b = (IF c.freq = "WEEKLY" THEN {Weekday(day)} ELSE {})
      BY <2>2
  <2>4. rule = [freq |-> c.freq, interval |-> 1, count |-> c.count, until |-> u, byDay |-> b]
      BY <1>1, <1>4, <2>1, <2>3 DEF BuildRecurrenceRule
  <2>5. c.count = 0 \/ u = 0
      BY <2>1
  <2> QED
      BY <1>2, <1>4, <2>4, <2>5 DEF GoodRule, RuleFields
<1> QED
    BY <1>3, <1>4

LEMMA RuleLimited ==
    ASSUME NEW rule, GoodRule(rule), rule # NoRule, NEW u \in Nat \ {0}
    PROVE  /\ GoodRule(LimitedRecurrenceRule(rule, u))
           /\ LimitedRecurrenceRule(rule, u) # NoRule
           /\ LimitedRecurrenceRule(rule, u).count = 0
           /\ LimitedRecurrenceRule(rule, u).until = u
           /\ LimitedRecurrenceRule(rule, u).freq = rule.freq
           /\ LimitedRecurrenceRule(rule, u).interval = rule.interval
           /\ LimitedRecurrenceRule(rule, u).byDay = rule.byDay
<1>1. Larger(0, u) = u
    BY DEF Larger
<1>2. PICK r1 : r1 = [rule EXCEPT !.count = 0]
    OBVIOUS
<1>3. /\ r1 \in RuleFields /\ r1.count = 0 /\ r1.freq = rule.freq
      /\ r1.interval = rule.interval /\ r1.byDay = rule.byDay
    BY <1>2 DEF GoodRule, RuleFields
<1>4. PICK r2 : r2 = [r1 EXCEPT !.until = u]
    OBVIOUS
<1>5. /\ r2 \in RuleFields /\ r2.count = 0 /\ r2.until = u /\ r2.freq = rule.freq
      /\ r2.interval = rule.interval /\ r2.byDay = rule.byDay
    BY <1>3, <1>4 DEF RuleFields
<1>6. LimitedRecurrenceRule(rule, u) = r2
  <2>1. LimitedRecurrenceRule(rule, u) = [rule EXCEPT !.count = 0, !.until = u]
      BY <1>1 DEF LimitedRecurrenceRule
  <2> QED
      BY <2>1, <1>2, <1>4 DEF GoodRule, RuleFields
<1>7. r2 # NoRule /\ GoodRule(r2)
  <2>1. r2.until # NoRule.until
      BY <1>5 DEF NoRule
  <2>2. rule.freq \in {"DAILY", "WEEKLY"}
      BY DEF GoodRule
  <2> QED
      BY <1>5, <2>1, <2>2 DEF GoodRule
<1> QED
    BY <1>5, <1>6, <1>7

LEMMA RulePreserved ==
    ASSUME NEW rule, GoodRule(rule)
    PROVE  PreserveRecurrenceEndBoundary(rule, rule) = rule
<1>1. CASE rule.until > 0
  <2>1. rule.count = 0 /\ rule = [rule EXCEPT !.count = 0]
      BY <1>1 DEF GoodRule, RuleFields
  <2>2. rule = [rule EXCEPT !.until = rule.until]
      BY DEF GoodRule, RuleFields
  <2>3. PreserveRecurrenceEndBoundary(rule, rule) = [[rule EXCEPT !.count = 0] EXCEPT !.until = rule.until]
      BY <1>1 DEF PreserveRecurrenceEndBoundary
  <2> QED
      BY <2>1, <2>2, <2>3
<1>2. CASE ~(rule.until > 0)
  <2>1. rule = [rule EXCEPT !.count = rule.count]
      BY DEF GoodRule, RuleFields
  <2> QED
      BY <1>2, <2>1 DEF PreserveRecurrenceEndBoundary
<1> QED
    BY <1>1, <1>2

LEMMA NoMasterIsNone == \A m : GoodMaster(m) => m # NoMaster
<1>1. NoMaster.start = 0
    BY DEF NoMaster
<1> QED
    BY <1>1 DEF GoodMaster

LEMMA MasterFacts ==
    ASSUME IInv, NEW id \in Ids, Live(id)
    PROVE  /\ masters[id] \in AnyMaster /\ GoodMaster(masters[id])
           /\ GoodRule(masters[id].rule) /\ masters[id].start >= 2
           /\ masters[id].start \in Int /\ StartDay(masters[id]) \in Days
BY DEF IInv, MastersInv, GoodMaster, AnyMaster

LEMMA GivenRepeats ==
    ASSUME NEW id, Live(id), NEW d, Given(masters[id], d)
    PROVE  Repeats(id)
BY DEF Given, MatchesRecurringDay, Repeats, NoRule

LEMMA ShapeHolds == IInv => Shape
<1> SUFFICES ASSUME IInv PROVE Shape
    OBVIOUS
<1>1. \A id \in Ids : Live(id) => masters[id] \in AnyMaster
    BY DEF IInv, MastersInv, GoodMaster
<1>2. \A o \in overrides : o.originalStart \in Int
    BY TicksMade DEF IInv, OverridesInv
<1> QED
    BY <1>1, <1>2 DEF Shape

(* What the edits are given: an occurrence of a live master, or its start. *)
LEMMA OccurrenceFacts ==
    ASSUME IInv, NEW o \in Occurrences
    PROVE  \E id \in Ids, d \in Days, t \in Ticks :
               /\ o[1] = id /\ o[2] = t /\ Live(id) /\ Repeats(id)
               /\ masters[id] \in AnyMaster /\ StartDay(masters[id]) <= d
               /\ t = StartOn(masters[id], d) /\ Given(masters[id], d)
               /\ DayOf(DisplayOf(t)) = d /\ t >= 2
<1>1. PICK d \in Days : o \in ShownOn(d)
    BY DEF Occurrences
<1>2. PICK id, t : o = <<id, t>>
    BY <1>1, ShownPairs
<1>3. /\ id \in Ids /\ Live(id) /\ t = StartOn(masters[id], d) /\ Given(masters[id], d)
    BY <1>1, <1>2, Shown, ShapeHolds
<1>4. /\ masters[id] \in AnyMaster /\ masters[id].start \in Int /\ d \in Int
    BY <1>3, DayTypes DEF IInv, MastersInv, GoodMaster, AnyMaster
<1>5. /\ DayOf(DisplayOf(t)) = d /\ t + Zone >= d * DayTicks /\ t \in Int
    BY <1>3, <1>4, StartOnFacts
<1>6. t >= 2
    BY <1>5, DayTypes, DaysAssumption
<1>7. t \in Ticks
  <2>1. TimeOffsetWithinDay(DisplayOf(masters[id].start)) \in 0..(DayTicks - 1)
      BY <1>4, DayFacts
  <2> QED
      BY <1>3, <2>1, TicksMade DEF StartOn
<1>8. StartDay(masters[id]) <= d
    BY <1>3, <1>4, MatchesFromStart, StartOnFacts DEF Given
<1>9. Repeats(id)
    BY <1>3, GivenRepeats
<1> QED
    BY <1>2, <1>3, <1>4, <1>5, <1>6, <1>7, <1>8, <1>9

LEMMA EditableFacts ==
    ASSUME IInv, NEW o \in Editable
    PROVE  \E id \in Ids, d \in Days, t \in Ticks :
               /\ o[1] = id /\ o[2] = t /\ Repeats(id) /\ Live(id)
               /\ StartDay(masters[id]) <= d
               /\ t = StartOn(masters[id], d) /\ DayOf(DisplayOf(t)) = d /\ t >= 2
               /\ t = masters[id].start \/ Given(masters[id], d)
               /\ <<id, t>> \in Occurrences => Given(masters[id], d)
<1>1. CASE o \in Occurrences
    BY <1>1, OccurrenceFacts
<1>2. CASE o \in {<<id, masters[id].start>> : id \in {i \in Ids : Repeats(i)}}
  <2>1. PICK id \in Ids : Repeats(id) /\ o = <<id, masters[id].start>>
      BY <1>2
  <2>2. PICK t \in Ticks : t = masters[id].start
      BY <2>1, MasterFacts DEF Repeats, GoodMaster
  <2>3. PICK d \in Days : d = StartDay(masters[id])
      BY <2>1, MasterFacts DEF Repeats
  <2>4. t = StartOn(masters[id], d) /\ t >= 2 /\ Live(id)
      BY <2>1, <2>2, <2>3, MasterFacts, StartIsOn DEF Repeats
  <2>5. DayOf(DisplayOf(t)) = d /\ StartDay(masters[id]) <= d
      BY <2>2, <2>3, DayTypes DEF StartDay
  <2>6. ASSUME <<id, t>> \in Occurrences PROVE Given(masters[id], d)
      BY <2>5, <2>6, OccurrenceFacts
  <2> QED
      BY <2>1, <2>2, <2>4, <2>5, <2>6
<1> QED
    BY <1>1, <1>2 DEF Editable

(* Edits end a segment earlier and never move its start.                       *)
LEMMA EndsKept ==
    ASSUME NEW m \in AnyMaster, NEW n \in AnyMaster, NEW day,
           n.start = m.start, n.rule.until > 0, n.rule.until <= m.rule.until, Ends(m, day)
    PROVE  Ends(n, day)
<1>1. \A e \in Int : StartOn(n, e) = StartOn(m, e) /\ StartOn(m, e) \in Int
    BY StartOnFacts DEF StartOn
<1>2. n.rule.until \in Nat /\ m.rule.until \in Nat /\ StartDay(n) = StartDay(m)
    BY DEF AnyMaster, RuleFields, StartDay
<1>3. \A e \in Int : StartOn(n, e) <= n.rule.until => StartOn(m, e) <= m.rule.until
    BY <1>1, <1>2
<1> QED
    BY <1>2, <1>3 DEF Ends

LEMMA EndsLater ==
    ASSUME NEW m, NEW x \in Int, NEW y \in Int, x <= y, Ends(m, x)
    PROVE  Ends(m, y)
BY DEF Ends

LEMMA SegmentsKept ==
    ASSUME SegmentsInv,
           \A a \in Ids : Repeats(a)' /\ a \notin reaching' =>
               /\ Repeats(a) /\ a \notin reaching
               /\ StartDay(masters'[a]) = StartDay(masters[a])
               /\ \A day : Ends(masters[a], day) => Ends(masters'[a], day)
    PROVE  SegmentsInv'
<1> SUFFICES ASSUME NEW a \in Ids, NEW b \in Ids, a # b, Repeats(a)', Repeats(b)', a \notin reaching', b \notin reaching'
             PROVE  Ends(masters'[a], StartDay(masters'[b])) \/ Ends(masters'[b], StartDay(masters'[a]))
    BY DEF SegmentsInv, Ends, StartOn, StartDay
<1>1. Ends(masters[a], StartDay(masters[b])) \/ Ends(masters[b], StartDay(masters[a]))
    BY DEF SegmentsInv
<1> QED
    BY <1>1

LEMMA OverrideAdded ==
    ASSUME OverridesInv, NEW id \in Ids, NEW t \in Ticks, NEW type \in {"CANCELLED", "MODIFIED"},
           overrides' = UpsertOverride(Override(id, t, type))
    PROVE  OverridesInv'
BY DEF OverridesInv, UpsertOverride, Override

LEMMA HiddenByUpsert ==
    ASSUME HiddenInv, cancelled \subseteq Ids \X Days, NEW id, NEW t, NEW type,
           cancelled' \subseteq cancelled \cup {<<id, DayOf(DisplayOf(t))>>},
           \A i \in Ids : Live(i)' => Live(i),
           overrides' = UpsertOverride(Override(id, t, type))
    PROVE  HiddenInv'
<1> SUFFICES ASSUME NEW c \in cancelled', Live(c[1])'
             PROVE  \E o \in overrides' : o.master = c[1] /\ DayOf(DisplayOf(o.originalStart)) = c[2]
    BY DEF HiddenInv, DayOf, DisplayOf
<1> DEFINE new == Override(id, t, type)
<1>1. new \in overrides' /\ new.master = id /\ new.originalStart = t
    BY DEF UpsertOverride, Override
<1>2. CASE c = <<id, DayOf(DisplayOf(t))>>
    BY <1>1, <1>2
<1>3. CASE c \in cancelled
  <2>1. c[1] \in Ids
      BY <1>3
  <2>2. PICK o \in overrides : o.master = c[1] /\ DayOf(DisplayOf(o.originalStart)) = c[2]
      BY <1>3, <2>1 DEF HiddenInv
  <2>3. CASE o.master # id \/ o.originalStart # t
    <3>1. o \in overrides'
        BY <1>1, <2>3 DEF UpsertOverride
    <3> QED
        BY <2>2, <3>1
  <2>4. CASE o.master = id /\ o.originalStart = t
      BY <1>1, <2>2, <2>4
  <2> QED
      BY <2>3, <2>4
<1> QED
    BY <1>2, <1>3

LEMMA HiddenWithout ==
    ASSUME HiddenInv, NEW S, cancelled' = cancelled, overrides' = OverridesWithout(S),
           cancelled \subseteq Ids \X Days,
           \A i \in Ids : Live(i)' => i \notin S /\ (Live(i) \/ \A c \in cancelled : c[1] # i)
    PROVE  HiddenInv'
<1> SUFFICES ASSUME NEW c \in cancelled, Live(c[1])'
             PROVE  \E o \in overrides' : o.master = c[1] /\ DayOf(DisplayOf(o.originalStart)) = c[2]
    BY DEF HiddenInv, DayOf, DisplayOf
<1>1. c[1] \in Ids
    OBVIOUS
<1>2. Live(c[1]) /\ c[1] \notin S
    BY <1>1
<1>3. PICK o \in overrides : o.master = c[1] /\ DayOf(DisplayOf(o.originalStart)) = c[2]
    BY <1>2 DEF HiddenInv
<1>4. o \in overrides'
    BY <1>2, <1>3 DEF OverridesWithout
<1> QED
    BY <1>3, <1>4

LEMMA OverridesLess ==
    ASSUME OverridesInv, NEW S, overrides' = OverridesWithout(S)
    PROVE  OverridesInv'
BY DEF OverridesInv, OverridesWithout

LEMMA EditCounted ==
    ASSUME OthersInv, Edits
    PROVE  edits' \in 0..MaxEdits
BY DaysAssumption DEF OthersInv, Edits

LEMMA DeleteInstanceKeeps ==
    ASSUME IInv, NEW o \in Editable, DeleteInstance(o[1], o[2])
    PROVE  IInv'
<1>1. PICK id \in Ids, d \in Days, t \in Ticks :
          o[1] = id /\ o[2] = t /\ Live(id) /\ DayOf(DisplayOf(t)) = d
    BY EditableFacts
<1>2. /\ masters' = masters /\ changed' = changed /\ reaching' = reaching
      /\ overrides' = UpsertOverride(Override(id, t, "CANCELLED"))
      /\ cancelled' = cancelled \cup {<<id, d>>}
      /\ Edits
    BY <1>1 DEF DeleteInstance
<1>3. MastersInv' /\ SegmentsInv'
    BY <1>2 DEF IInv, MastersInv, SegmentsInv, Live, Repeats
<1>4. OverridesInv'
    BY <1>2, OverrideAdded DEF IInv
<1>5. HiddenInv'
  <2>1. \A i \in Ids : Live(i)' => Live(i)
      BY <1>2 DEF Live
  <2> QED
      BY <1>1, <1>2, <2>1, HiddenByUpsert DEF IInv, OthersInv
<1>6. OthersInv'
    BY <1>2, EditCounted DEF IInv, OthersInv
<1> QED
    BY <1>3, <1>4, <1>5, <1>6 DEF IInv

LEMMA MasterRuled ==
    ASSUME NEW m, GoodMaster(m), NEW rule, GoodRule(rule), NEW n, n = [m EXCEPT !.rule = rule]
    PROVE  GoodMaster(n) /\ n.start = m.start /\ n.rule = rule /\ StartDay(n) = StartDay(m)
<1>1. m \in AnyMaster
    BY DEF GoodMaster
<1>2. n \in AnyMaster /\ n.start = m.start /\ n.rule = rule
    BY <1>1 DEF AnyMaster, GoodRule
<1> QED
    BY <1>2 DEF GoodMaster, StartDay

(* A field of one master is all that changes. *)
LEMMA OneMaster ==
    ASSUME MastersInv, NEW id \in Ids, NEW n, GoodMaster(n), masters' = [masters EXCEPT ![id] = n]
    PROVE  /\ MastersInv'
           /\ masters'[id] = n /\ Live(id)'
           /\ \A i \in Ids : i # id => masters'[i] = masters[i]
           /\ \A i \in Ids : i # id => (Live(i)' <=> Live(i))
<1>1. \A i \in Ids : masters'[i] = IF i = id THEN n ELSE masters[i]
    BY DEF MastersInv
<1>2. masters' = [i \in Ids |-> masters'[i]]
    BY DEF MastersInv
<1>3. n # NoMaster
    BY NoMasterIsNone
<1>4. \A i \in Ids : Live(i)' => GoodMaster(masters'[i])
    BY <1>1 DEF MastersInv, Live
<1>5. MastersInv'
    BY <1>2, <1>4 DEF MastersInv, GoodMaster, StartDay, AnyMaster, GoodRule, RuleFields, NoRule, Ticks
<1> QED
    BY <1>1, <1>3, <1>5 DEF Live

LEMMA ChangeInstanceKeeps ==
    ASSUME IInv, NEW o \in Editable, NEW to \in Days, NEW time \in Times,
           NEW rule, GoodRule(rule), ChangeInstance(o[1], o[2], to, time, rule)
    PROVE  IInv'
<1>1. PICK id \in Ids, d \in Days, t \in Ticks :
          o[1] = id /\ o[2] = t /\ Live(id) /\ Repeats(id) /\ DayOf(DisplayOf(t)) = d
    BY EditableFacts
<1>2. PICK n : n = [masters[id] EXCEPT !.rule = rule]
    OBVIOUS
<1>4. GoodMaster(n) /\ n.start = masters[id].start /\ n.rule = rule /\ StartDay(n) = StartDay(masters[id])
    BY <1>1, <1>2, MasterFacts, MasterRuled
<1>5. /\ masters' = [masters EXCEPT ![id] = n]
      /\ changed' = changed \cup {StoredOf(to * DayTicks + time)}
      /\ overrides' = UpsertOverride(Override(id, t, "MODIFIED"))
      /\ reaching' = IF Extended(masters[id].rule, rule) THEN reaching \cup {id} ELSE reaching
      /\ cancelled' = cancelled
      /\ Edits
    BY <1>1, <1>2 DEF ChangeInstance, Ruled
<1>6. /\ MastersInv' /\ masters'[id] = n /\ Live(id)'
      /\ \A i \in Ids : i # id => masters'[i] = masters[i]
      /\ \A i \in Ids : Live(i)' <=> Live(i)
    BY <1>1, <1>4, <1>5, OneMaster DEF IInv
<1>7. OverridesInv'
    BY <1>5, OverrideAdded DEF IInv
<1>8. HiddenInv'
    BY <1>1, <1>5, <1>6, HiddenByUpsert DEF IInv, OthersInv
<1>9. OthersInv'
  <2>1. StoredOf(to * DayTicks + time) \in Ticks
      BY TicksMade, DaysAssumption
  <2> QED
      BY <1>5, <2>1, EditCounted DEF IInv, OthersInv, Ticks
<1>10. SegmentsInv'
  <2>1. ASSUME NEW a \in Ids, Repeats(a)', a \notin reaching'
        PROVE  /\ Repeats(a) /\ a \notin reaching
               /\ StartDay(masters'[a]) = StartDay(masters[a])
               /\ \A day : Ends(masters[a], day) => Ends(masters'[a], day)
    <3>1. CASE a # id
        BY <1>5, <1>6, <2>1, <3>1 DEF Repeats
    <3>2. CASE a = id
      <4>1. rule # NoRule /\ id \notin reaching /\ ~Extended(masters[id].rule, rule)
          BY <1>4, <1>5, <1>6, <2>1, <3>2 DEF Repeats
      <4>2. ASSUME NEW day, Ends(masters[id], day)
            PROVE  Ends(n, day)
        <5>1. n.rule.until \in Nat /\ masters[id].rule.until \in Nat /\ n \in AnyMaster /\ masters[id] \in AnyMaster
            BY <1>1, <1>4, MasterFacts DEF GoodMaster, GoodRule, RuleFields
        <5>2. n.rule.until > 0 /\ n.rule.until <= masters[id].rule.until
            BY <1>4, <4>1, <4>2, <5>1 DEF Extended, Ends
        <5> QED
            BY <1>4, <4>2, <5>1, <5>2, EndsKept
      <4> QED
          BY <1>1, <1>4, <1>6, <3>2, <4>1, <4>2
    <3> QED
        BY <3>1, <3>2
  <2> QED
      BY <2>1, SegmentsKept DEF IInv
<1> QED
    BY <1>6, <1>7, <1>8, <1>9, <1>10 DEF IInv

LEMMA DeleteSeriesKeeps ==
    ASSUME IInv, NEW id \in Ids, DeleteSeries(id)
    PROVE  IInv'
<1>1. /\ masters' = Without({id}) /\ Edits
      /\ UNCHANGED <<overrides, changed, cancelled, reaching>>
    BY DEF DeleteSeries, historyVars
<1>2. \A i \in Ids : Live(i)' => Live(i) /\ masters'[i] = masters[i]
    BY <1>1 DEF Without, Live
<1>3. MastersInv'
  <2>1. masters' = [i \in Ids |-> masters'[i]]
      BY <1>1 DEF Without
  <2>2. \A i \in Ids : Live(i)' => GoodMaster(masters'[i])
      BY <1>2 DEF IInv, MastersInv
  <2> QED
      BY <2>1, <2>2 DEF MastersInv, GoodMaster, StartDay, AnyMaster, GoodRule, RuleFields, NoRule, Ticks
<1>4. OverridesInv' /\ OthersInv'
    BY <1>1, EditCounted DEF IInv, OverridesInv, OthersInv
<1>5. HiddenInv'
    BY <1>1, <1>2 DEF IInv, HiddenInv, OthersInv
<1>6. SegmentsInv'
    BY <1>1, <1>2, SegmentsKept DEF IInv, Repeats
<1> QED
    BY <1>3, <1>4, <1>5, <1>6 DEF IInv

LEMMA SaveSingleKeeps ==
    ASSUME IInv, NEW id \in Ids, Live(id), NEW to \in Days, NEW time \in Times,
           NEW rule, GoodRule(rule), SaveSingle(id, to, time, rule)
    PROVE  IInv'
<1>1. PICK n : n = [start |-> StoredOf(to * DayTicks + time), rule |-> rule]
    OBVIOUS
<1>2. GoodMaster(n)
    BY <1>1, MasterMade, DaysAssumption
<1>3. /\ masters' = [masters EXCEPT ![id] = n] /\ Edits /\ reaching' = reaching \cup {id}
      /\ overrides' = overrides /\ changed' = changed /\ cancelled' = cancelled
    BY <1>1 DEF SaveSingle
<1>4. /\ MastersInv' /\ \A i \in Ids : i # id => masters'[i] = masters[i]
      /\ \A i \in Ids : Live(i)' <=> Live(i)
    BY <1>2, <1>3, OneMaster DEF IInv
<1>5. OverridesInv' /\ OthersInv'
    BY <1>3, EditCounted DEF IInv, OverridesInv, OthersInv
<1>6. HiddenInv'
    BY <1>3, <1>4 DEF IInv, HiddenInv, OthersInv
<1>7. SegmentsInv'
    BY <1>3, <1>4, SegmentsKept DEF IInv, Repeats
<1> QED
    BY <1>4, <1>5, <1>6, <1>7 DEF IInv

LEMMA DeleteChangedKeeps ==
    ASSUME IInv, NEW t, DeleteChanged(t)
    PROVE  IInv'
<1>1. /\ Edits /\ changed' = changed \ {t}
      /\ UNCHANGED <<masters, overrides, cancelled, reaching>>
    BY DEF DeleteChanged, historyVars
<1>2. OthersInv'
    BY <1>1, EditCounted DEF IInv, OthersInv
<1>3. MastersInv' /\ OverridesInv' /\ HiddenInv' /\ SegmentsInv'
    BY <1>1 DEF IInv, MastersInv, OverridesInv, HiddenInv, SegmentsInv, Live, Repeats
<1> QED
    BY <1>2, <1>3 DEF IInv

LEMMA EntireSeriesKeeps ==
    ASSUME IInv, NEW id \in Ids, Live(id), NEW d \in Days, NEW time \in Times,
           NEW rule, GoodRule(rule),
           ApplyEntireSeriesEdit(id, StoredOf(d * DayTicks + time), rule)
    PROVE  IInv'
<1>1. PICK n : n = [start |-> StoredOf(d * DayTicks + time), rule |-> rule]
    OBVIOUS
<1>2. GoodMaster(n)
    BY <1>1, MasterMade, DaysAssumption
<1>3. /\ masters' = [Without(Ids \ {id}) EXCEPT ![id] = n] /\ Edits
      /\ overrides' = OverridesWithout(Ids \ {id}) /\ reaching' = {}
      /\ changed' = changed /\ cancelled' = cancelled
    BY <1>1 DEF ApplyEntireSeriesEdit
<1>4. \A i \in Ids : masters'[i] = IF i = id THEN n ELSE NoMaster
    BY <1>3 DEF Without
<1>5. \A i \in Ids : Live(i)' => i = id
    BY <1>4 DEF Live
<1>6. MastersInv'
  <2>1. masters' = [i \in Ids |-> masters'[i]]
      BY <1>3 DEF Without
  <2>2. \A i \in Ids : Live(i)' => GoodMaster(masters'[i])
      BY <1>2, <1>4, <1>5
  <2> QED
      BY <2>1, <2>2 DEF MastersInv, GoodMaster, StartDay, AnyMaster, GoodRule, RuleFields, NoRule, Ticks
<1>7. OverridesInv'
    BY <1>3, OverridesLess DEF IInv
<1>8. HiddenInv'
  <2>1. \A i \in Ids : Live(i)' => i \notin Ids \ {id} /\ Live(i)
      BY <1>5
  <2> QED
      BY <1>3, <2>1, HiddenWithout DEF IInv, OthersInv
<1>9. OthersInv'
    BY <1>3, EditCounted DEF IInv, OthersInv
<1>10. SegmentsInv'
    BY <1>5 DEF SegmentsInv, Repeats
<1> QED
    BY <1>6, <1>7, <1>8, <1>9, <1>10 DEF IInv

LEMMA ChangeSeriesKeeps ==
    ASSUME IInv, NEW id \in Ids, Live(id), NEW time \in Times, NEW rule, GoodRule(rule),
           ChangeSeries(id, time, rule)
    PROVE  IInv'
<1>1. PICK d \in Days : d = StartDay(masters[id])
    BY MasterFacts
<1>2. ApplyEntireSeriesEdit(id, StoredOf(d * DayTicks + time), rule)
    BY <1>1 DEF ChangeSeries, StartDay
<1> QED
    BY <1>2, EntireSeriesKeeps

LEMMA MoveMasterKeeps ==
    ASSUME IInv, NEW id \in Ids, Live(id), NEW day \in Days, NEW time \in Times, NEW rule, GoodRule(rule),
           MoveMaster(id, day, time, rule)
    PROVE  IInv'
BY EntireSeriesKeeps DEF MoveMaster

Ended(m, rule, t) == [m EXCEPT !.rule = LimitedRecurrenceRule(rule, t - 1)]

(* A master that is ended before t, the start of a day of it.                    *)
LEMMA MasterLimited ==
    ASSUME NEW m, GoodMaster(m), NEW d \in Days, NEW t \in Ticks, t = StartOn(m, d), t >= 2,
           NEW rule, GoodRule(rule), NEW n, n = Ended(m, rule, t)
    PROVE  /\ GoodMaster(n) /\ n.start = m.start /\ StartDay(n) = StartDay(m)
           /\ rule = NoRule => n.rule = NoRule
           /\ rule # NoRule =>
                  /\ n.rule.count = 0 /\ n.rule.until = t - 1 /\ n.rule.freq = rule.freq
                  /\ n.rule.interval = rule.interval /\ n.rule.byDay = rule.byDay
<1>1. PICK u \in Nat \ {0} : u = t - 1
    BY TicksMade
<1>2. PICK r : r = LimitedRecurrenceRule(rule, u)
    OBVIOUS
<1>3. /\ GoodRule(r)
      /\ rule = NoRule => r = NoRule
      /\ rule # NoRule => /\ r.count = 0 /\ r.until = u
                          /\ r.freq = rule.freq /\ r.interval = rule.interval /\ r.byDay = rule.byDay
  <2>1. CASE rule = NoRule
      BY <1>2, <2>1 DEF LimitedRecurrenceRule
  <2>2. CASE rule # NoRule
      BY <1>2, <2>2, RuleLimited
  <2> QED
      BY <2>1, <2>2
<1>4. GoodMaster(n) /\ n.start = m.start /\ n.rule = r /\ StartDay(n) = StartDay(m)
    BY <1>1, <1>2, <1>3, MasterRuled DEF Ended
<1>5. n.start = m.start /\ GoodMaster(n) /\ StartDay(n) = StartDay(m)
    BY <1>4
<1> QED
    BY <1>1, <1>3, <1>4, <1>5

(* It keeps no day from there on, and none that it had not before.                 *)
LEMMA LimitedEnds ==
    ASSUME NEW m, GoodMaster(m), NEW d \in Days, NEW t \in Ticks, t = StartOn(m, d), t >= 2,
           t = m.start \/ Given(m, d), NEW n, GoodMaster(n), n.start = m.start,
           StartDay(n) = StartDay(m), n.rule.until = t - 1
    PROVE  /\ Ends(n, d)
           /\ \A day : Ends(m, day) => Ends(n, day)
           /\ Given(m, d) => \A day \in Int : Ends(m, day) => d < day
<1>1. t \in Int /\ t - 1 \in Int /\ d \in Int /\ m \in AnyMaster /\ n \in AnyMaster
      /\ m.rule.until \in Nat /\ StartDay(m) \in Int
    BY TicksMade, DayTypes, StartOnFacts DEF GoodMaster, GoodRule, RuleFields
<1>2. ASSUME NEW e \in Int, StartOn(n, e) <= n.rule.until
      PROVE  e < d /\ StartOn(n, e) = StartOn(m, e) /\ StartOn(m, e) \in Int
  <2>1. StartOn(n, e) = StartOn(m, e) /\ StartOn(m, e) \in Int
      BY <1>1, StartOnFacts DEF StartOn
  <2>2. StartOn(m, e) < StartOn(m, d)
      BY <1>1, <1>2, <2>1
  <2> QED
      BY <1>1, <2>1, <2>2, StartsInOrder
<1>3. n.rule.until > 0
    BY <1>1
<1>4. Given(m, d) /\ m.rule.until > 0 => t <= m.rule.until /\ StartDay(m) <= d
    BY <1>1, MatchesFromStart DEF Given
<1>5. ASSUME NEW day, Ends(m, day) PROVE Ends(n, day)
  <2>1. m.rule.until > 0
      BY <1>5 DEF Ends
  <2>2. ASSUME NEW e \in Int, e >= StartDay(n), StartOn(n, e) <= n.rule.until
        PROVE  e < day
    <3>1. CASE Given(m, d)
      <4>1. StartOn(m, e) <= m.rule.until
          BY <1>1, <1>2, <1>4, <2>1, <2>2, <3>1
      <4> QED
          BY <1>5, <2>2, <4>1 DEF Ends
    <3>2. CASE t = m.start
      <4>1. StartOn(m, StartDay(m)) = StartOn(m, d)
          BY <1>1, <3>2, StartIsOn
      <4>2. ~(StartDay(m) < d)
          BY <1>1, <4>1, StartsInOrder, StartOnFacts
      <4> QED
          BY <1>1, <1>2, <2>2, <4>2
    <3> QED
        BY <3>1, <3>2
  <2> QED
      BY <1>3, <2>2 DEF Ends
<1>6. ASSUME Given(m, d), NEW day \in Int, Ends(m, day) PROVE d < day
  <2>1. m.rule.until > 0
      BY <1>6 DEF Ends
  <2> QED
      BY <1>1, <1>4, <1>6, <2>1 DEF Ends
<1> QED
    BY <1>2, <1>3, <1>5, <1>6 DEF Ends

LEMMA LaterGone ==
    ASSUME NEW id \in Ids, NEW t, NEW i \in Ids, i # id, Repeats(i), i \notin LaterSegments(id, t)
    PROVE  ~(masters[i].start >= t)
BY DEF LaterSegments

LEMMA DeleteFollowingKeeps ==
    ASSUME IInv, NEW o \in Editable, DeleteFollowing(o[1], o[2])
    PROVE  IInv'
<1>1. PICK id \in Ids, d \in Days, t \in Ticks :
          /\ o[1] = id /\ o[2] = t /\ Live(id) /\ Repeats(id)
          /\ t = StartOn(masters[id], d) /\ t >= 2
          /\ t = masters[id].start \/ Given(masters[id], d)
    BY EditableFacts
<1>2. PICK later : later = LaterSegments(id, t)
    OBVIOUS
<1>3. later \subseteq Ids /\ id \notin later
    BY <1>2 DEF LaterSegments
<1>4. PICK n : n = Ended(masters[id], masters[id].rule, t)
    OBVIOUS
<1>5. /\ GoodMaster(n) /\ n.start = masters[id].start /\ StartDay(n) = StartDay(masters[id])
      /\ \A day : Ends(masters[id], day) => Ends(n, day)
  <2>1. /\ GoodMaster(n) /\ n.start = masters[id].start /\ StartDay(n) = StartDay(masters[id])
        /\ n.rule.until = t - 1
      BY <1>1, <1>4, MasterFacts, MasterLimited DEF Repeats
  <2> QED
      BY <1>1, <2>1, MasterFacts, LimitedEnds
<1>6. /\ masters' = [Without(later) EXCEPT ![id] = n] /\ Edits
      /\ overrides' = OverridesWithout(later)
      /\ UNCHANGED <<changed, cancelled, reaching>>
  <2>1. Without(later)[id] = masters[id]
      BY <1>3 DEF Without
  <2> QED
      BY <1>1, <1>2, <1>4, <2>1 DEF DeleteFollowing, Ended, historyVars
<1>7. \A i \in Ids : masters'[i] = IF i = id THEN n ELSE IF i \in later THEN NoMaster ELSE masters[i]
    BY <1>6 DEF Without
<1>8. \A i \in Ids : Live(i)' => i \notin later /\ Live(i)
    BY <1>1, <1>3, <1>7 DEF Live
<1>9. MastersInv'
  <2>1. masters' = [i \in Ids |-> masters'[i]]
      BY <1>6 DEF Without
  <2>2. \A i \in Ids : Live(i)' => GoodMaster(masters'[i])
      BY <1>5, <1>7, <1>8 DEF IInv, MastersInv
  <2> QED
      BY <2>1, <2>2 DEF MastersInv, GoodMaster, StartDay, AnyMaster, GoodRule, RuleFields, NoRule, Ticks
<1>10. OverridesInv'
    BY <1>6, OverridesLess DEF IInv
<1>11. HiddenInv'
    BY <1>6, <1>8, HiddenWithout DEF IInv, OthersInv
<1>12. OthersInv'
    BY <1>6, EditCounted DEF IInv, OthersInv
<1>13. SegmentsInv'
  <2>1. ASSUME NEW a \in Ids, Repeats(a)', a \notin reaching'
        PROVE  /\ Repeats(a) /\ a \notin reaching
               /\ StartDay(masters'[a]) = StartDay(masters[a])
               /\ \A day : Ends(masters[a], day) => Ends(masters'[a], day)
    <3>1. CASE a = id
        BY <1>1, <1>5, <1>6, <1>7, <2>1, <3>1
    <3>2. CASE a # id
        BY <1>6, <1>7, <1>8, <2>1, <3>2 DEF Repeats
    <3> QED
        BY <3>1, <3>2
  <2> QED
      BY <2>1, SegmentsKept DEF IInv
<1> QED
    BY <1>9, <1>10, <1>11, <1>12, <1>13 DEF IInv

(* What "this and following" makes of the rows. *)
LEMMA FollowingChanged ==
    ASSUME IInv, NEW id \in Ids, Live(id), NEW d \in Days, NEW t \in Ticks,
           t = StartOn(masters[id], d), t >= 2,
           NEW to \in Days, NEW time \in Times, NEW rule, GoodRule(rule),
           ChangeFollowing(id, t, to, time, rule)
    PROVE  \E new, n, f :
               /\ new \in Ids /\ Unused(new) /\ ~Live(new) /\ new # id /\ new \notin LaterSegments(id, t)
               /\ n = Ended(masters[id], rule, t) /\ GoodMaster(n)
               /\ GoodMaster(f) /\ StartDay(f) = to /\ f.rule = rule
               /\ \A i \in Ids : masters'[i] = IF i = new THEN f ELSE IF i = id THEN n
                                     ELSE IF i \in LaterSegments(id, t) THEN NoMaster ELSE masters[i]
               /\ masters' = [i \in Ids |-> masters'[i]]
               /\ reaching' = IF id \notin reaching /\ SplitInOrder(id, t, to)
                              THEN reaching \ {new} ELSE reaching \cup {new}
               /\ overrides' = OverridesWithout(LaterSegments(id, t)) /\ Edits
               /\ changed' = changed /\ cancelled' = cancelled
<1>1. PICK later : later = LaterSegments(id, t)
    OBVIOUS
<1>2. later \subseteq Ids /\ id \notin later
    BY <1>1 DEF LaterSegments
<1>3. Ruled(id, rule)[id].rule = rule
  <2>1. [masters[id] EXCEPT !.rule = rule].rule = rule
      BY MasterFacts DEF AnyMaster
  <2> QED
      BY <2>1 DEF Ruled, IInv, MastersInv
<1>4. PreserveRecurrenceEndBoundary(rule, Ruled(id, rule)[id].rule) = rule
    BY <1>3, RulePreserved
<1>5. PICK f : f = [start |-> StoredOf(to * DayTicks + time), rule |-> rule]
    OBVIOUS
<1>6. GoodMaster(f) /\ StartDay(f) = to /\ f.rule = rule
    BY <1>5, MasterMade, DaysAssumption
<1>7. PICK n : n = Ended(masters[id], rule, t)
    OBVIOUS
<1>8. GoodMaster(n)
    BY <1>7, MasterFacts, MasterLimited
<1>9. PICK new \in Ids :
          /\ Unused(new)
          /\ masters' = [Without(later) EXCEPT ![id] = n, ![new] = f]
          /\ reaching' = IF id \notin reaching /\ SplitInOrder(id, t, to)
                         THEN reaching \ {new} ELSE reaching \cup {new}
          /\ overrides' = OverridesWithout(later) /\ Edits
          /\ changed' = changed /\ cancelled' = cancelled
  <2>1. Without(later)[id] = masters[id]
      BY <1>2 DEF Without
  <2> QED
      BY <1>1, <1>4, <1>5, <1>7, <2>1 DEF ChangeFollowing, Ended, NewIds
<1>10. ~Live(new) /\ new # id /\ new \notin later
    BY <1>1, <1>9 DEF Unused, LaterSegments, Repeats
<1>11. \A i \in Ids : masters'[i] = IF i = new THEN f ELSE IF i = id THEN n
                                    ELSE IF i \in later THEN NoMaster ELSE masters[i]
    BY <1>9, <1>10 DEF Without
<1>12. masters' = [i \in Ids |-> masters'[i]]
    BY <1>9 DEF Without
<1> QED
    BY <1>1, <1>6, <1>7, <1>8, <1>9, <1>10, <1>11, <1>12

LEMMA ChangeFollowingKeeps ==
    ASSUME IInv, NEW o \in Editable, NEW to \in Days, NEW time \in Times, NEW rule, GoodRule(rule),
           ChangeFollowing(o[1], o[2], to, time, rule)
    PROVE  IInv'
<1>1. PICK id \in Ids, d \in Days, t \in Ticks :
          /\ o[1] = id /\ o[2] = t /\ Repeats(id) /\ Live(id) /\ StartDay(masters[id]) <= d
          /\ t = StartOn(masters[id], d) /\ DayOf(DisplayOf(t)) = d /\ t >= 2
          /\ t = masters[id].start \/ Given(masters[id], d)
          /\ <<id, t>> \in Occurrences => Given(masters[id], d)
    BY EditableFacts
<1>2. PICK later : later = LaterSegments(id, t)
    OBVIOUS
<1>3. id \notin later
    BY <1>2 DEF LaterSegments
<1>4. ChangeFollowing(id, t, to, time, rule)
    BY <1>1
<1>5. PICK new, n, f :
          /\ new \in Ids /\ Unused(new) /\ ~Live(new) /\ new # id /\ new \notin later
          /\ n = Ended(masters[id], rule, t) /\ GoodMaster(n)
          /\ GoodMaster(f) /\ StartDay(f) = to /\ f.rule = rule
          /\ \A i \in Ids : masters'[i] = IF i = new THEN f ELSE IF i = id THEN n
                                ELSE IF i \in later THEN NoMaster ELSE masters[i]
          /\ masters' = [i \in Ids |-> masters'[i]]
          /\ reaching' = IF id \notin reaching /\ SplitInOrder(id, t, to)
                         THEN reaching \ {new} ELSE reaching \cup {new}
          /\ overrides' = OverridesWithout(later) /\ Edits
          /\ changed' = changed /\ cancelled' = cancelled
    BY <1>1, <1>2, <1>4, FollowingChanged
<1>6. /\ n.start = masters[id].start /\ StartDay(n) = StartDay(masters[id])
      /\ rule = NoRule => n.rule = NoRule
      /\ rule # NoRule => n.rule.until = t - 1
    BY <1>1, <1>5, MasterFacts, MasterLimited
<1>7. rule # NoRule =>
          /\ Ends(n, d) /\ \A day : Ends(masters[id], day) => Ends(n, day)
          /\ Given(masters[id], d) => \A day \in Int : Ends(masters[id], day) => d < day
    BY <1>1, <1>5, <1>6, MasterFacts, LimitedEnds
<1>8. \A i \in Ids : Live(i)' => i \notin later /\ (i = new \/ Live(i))
    BY <1>1, <1>3, <1>5 DEF Live
<1>9. MastersInv'
  <2>1. \A i \in Ids : Live(i)' => GoodMaster(masters'[i])
      BY <1>5, <1>8 DEF IInv, MastersInv
  <2> QED
      BY <1>5, <2>1 DEF MastersInv, GoodMaster, StartDay, AnyMaster, GoodRule, RuleFields, NoRule, Ticks
<1>10. OverridesInv'
    BY <1>5, OverridesLess DEF IInv
<1>11. HiddenInv'
  <2>1. \A i \in Ids : Live(i)' => i \notin later /\ (Live(i) \/ \A c \in cancelled : c[1] # i)
      BY <1>5, <1>8 DEF Unused
  <2> QED
      BY <1>5, <2>1, HiddenWithout DEF IInv, OthersInv
<1>12. OthersInv'
    BY <1>5, EditCounted DEF IInv, OthersInv
<1>13. SegmentsInv'
  <2> DEFINE Apart(m, k) == Ends(m, StartDay(k)) \/ Ends(k, StartDay(m))
  <2>1. ASSUME NEW a \in Ids, a # new, Repeats(a)', a \notin reaching'
        PROVE  /\ Repeats(a) /\ a \notin reaching /\ a \notin later
               /\ StartDay(masters'[a]) = StartDay(masters[a])
               /\ \A day : Ends(masters[a], day) => Ends(masters'[a], day)
    <3>1. a \notin reaching /\ a \notin later /\ Live(a)
        BY <1>5, <1>8, <2>1 DEF Repeats
    <3>2. CASE a = id
      <4>1. masters'[id] = n /\ n.rule # NoRule
          BY <1>5, <2>1, <3>2 DEF Repeats
      <4> QED
          BY <1>1, <1>6, <1>7, <3>1, <3>2, <4>1
    <3>3. CASE a # id
      <4>1. masters'[a] = masters[a]
          BY <1>5, <2>1, <3>1, <3>3
      <4> QED
          BY <2>1, <3>1, <4>1 DEF Repeats
    <3> QED
        BY <3>2, <3>3
  <2>2. ASSUME NEW a \in Ids, NEW b \in Ids, a # b, a # new, b # new,
               Repeats(a)', Repeats(b)', a \notin reaching', b \notin reaching'
        PROVE  Apart(masters'[a], masters'[b])
    <3>1. Apart(masters[a], masters[b])
        BY <2>1, <2>2 DEF IInv, SegmentsInv
    <3> QED
        BY <2>1, <2>2, <3>1
  <2>3. ASSUME NEW a \in Ids, a # new, Repeats(a)', a \notin reaching', Repeats(new)', new \notin reaching'
        PROVE  Ends(masters'[a], StartDay(masters'[new]))
    <3>1. /\ id \notin reaching /\ d <= to /\ Given(masters[id], d)
      <4>1. id \notin reaching /\ SplitInOrder(id, t, to)
          BY <1>5, <2>3
      <4> QED
          BY <1>1, <4>1 DEF SplitInOrder
    <3>2. masters'[new] = f /\ rule # NoRule /\ d \in Int /\ to \in Int
        BY <1>5, <2>3, DayTypes DEF Repeats
    <3>3. Repeats(a) /\ a \notin reaching /\ a \notin later
        BY <2>1, <2>3
    <3>4. CASE a = id
        BY <1>5, <1>7, <2>3, <3>1, <3>2, <3>4, EndsLater
    <3>5. CASE a # id
      <4>1. masters'[a] = masters[a]
          BY <1>5, <2>3, <3>3, <3>5
      <4>2. masters[a] \in AnyMaster /\ masters[a].start \in Int /\ StartDay(masters[a]) \in Int
          BY <3>3, MasterFacts, DayTypes DEF Repeats
      <4>3. CASE Ends(masters[a], StartDay(masters[id]))
        <5>1. StartDay(masters[id]) \in Int /\ StartDay(masters[id]) <= to
            BY <1>1, <3>1, <3>2, MasterFacts, DayTypes
        <5> QED
            BY <1>5, <3>2, <4>1, <4>3, <5>1, EndsLater
      <4>4. CASE Ends(masters[id], StartDay(masters[a]))
        <5>1. d < StartDay(masters[a])
            BY <1>7, <3>1, <3>2, <4>2, <4>4
        <5>2. DisplayOf(t) \in Int /\ DisplayOf(masters[a].start) \in Int /\ t \in Int
            BY <4>2, TicksMade, DayFacts
        <5>3. DisplayOf(t) < DisplayOf(masters[a].start)
            BY <1>1, <5>1, <5>2, LaterDay DEF StartDay
        <5>4. t < masters[a].start
            BY <4>2, <5>2, <5>3, Ticking DEF DisplayOf
        <5> QED
            BY <1>2, <3>3, <3>5, <4>2, <5>2, <5>4, LaterGone
      <4> QED
          BY <1>1, <2>3, <3>1, <3>3, <3>5, <4>3, <4>4 DEF IInv, SegmentsInv
    <3> QED
        BY <3>4, <3>5
  <2>4. ASSUME NEW a \in Ids, NEW b \in Ids, a # b, Repeats(a)', Repeats(b)', a \notin reaching', b \notin reaching'
        PROVE  Apart(masters'[a], masters'[b])
      BY <2>2, <2>3, <2>4
  <2> QED
      BY <2>4 DEF SegmentsInv, Ends, StartOn, StartDay
<1> QED
    BY <1>9, <1>10, <1>11, <1>12, <1>13 DEF IInv

LEMMA InitHolds == Init => IInv
<1> SUFFICES ASSUME Init PROVE IInv
    OBVIOUS
<1>1. PICK first \in Ids, d \in FirstDays, t \in Times, rule \in Rules :
          masters = [id \in Ids |-> IF id = first
                        THEN [start |-> StoredOf(d * DayTicks + t), rule |-> rule] ELSE NoMaster]
    BY DEF Init
<1>2. GoodMaster([start |-> StoredOf(d * DayTicks + t), rule |-> rule])
  <2>1. GoodRule(rule)
      BY DaysAssumption DEF GoodRule, AnyRule, RuleFields
  <2> QED
      BY <2>1, MasterMade, DaysAssumption
<1>3. \A id \in Ids : Live(id) => id = first
    BY <1>1 DEF Live
<1>4. MastersInv
    BY <1>1, <1>2, <1>3 DEF MastersInv
<1>5. OverridesInv /\ OthersInv /\ HiddenInv /\ SegmentsInv
    BY <1>3, DaysAssumption DEF Init, OverridesInv, OthersInv, HiddenInv, SegmentsInv, Repeats
<1> QED
    BY <1>4, <1>5 DEF IInv

LEMMA StutterKeeps ==
    ASSUME IInv, UNCHANGED vars
    PROVE  IInv'
<1>1. UNCHANGED <<masters, overrides, changed, edits, cancelled, reaching>>
    BY DEF vars, historyVars
<1>2. MastersInv' /\ OverridesInv'
    BY <1>1 DEF IInv, MastersInv, OverridesInv, Live
<1>3. OthersInv' /\ HiddenInv' /\ SegmentsInv'
    BY <1>1 DEF IInv, OthersInv, HiddenInv, SegmentsInv, Live, Repeats
<1> QED
    BY <1>2, <1>3 DEF IInv

LEMMA MovedDays == \A d : MovedFrom(d) \subseteq Days
BY DEF MovedFrom

(* The invariant: a day the user deleted is the displayed day of an override, and of  *)
(* two segments one has ended before the other starts, unless one of them may reach    *)
(* over the other (its end was moved, it was split before its instance, it repeats      *)
(* again).                                                                       *)
THEOREM Inductive == Spec => []IInv
<1>1. Init => IInv
    BY InitHolds
<1>2. IInv /\ [Next]_vars => IInv'
  <2> SUFFICES ASSUME IInv, [Next]_vars PROVE IInv'
      OBVIOUS
  <2>1. ASSUME NEW id \in Ids, Live(id), NEW day \in Days, NEW rule \in EditedRules(masters[id].rule, day)
        PROVE  GoodRule(rule)
      BY <2>1, MasterFacts, RuleEdited
  <2>2. ASSUME NEW o \in Editable, DeleteInstance(o[1], o[2]) PROVE IInv'
      BY <2>2, DeleteInstanceKeeps
  <2>3. ASSUME NEW o \in Editable, DeleteFollowing(o[1], o[2]) PROVE IInv'
      BY <2>3, DeleteFollowingKeeps
  <2>4. ASSUME NEW o \in Editable, NEW day \in MovedFrom(DayOf(DisplayOf(o[2]))), NEW time \in Times,
               NEW rule \in EditedRules(masters[o[1]].rule, day),
               ChangeInstance(o[1], o[2], day, time, rule) \/ ChangeFollowing(o[1], o[2], day, time, rule)
        PROVE  IInv'
    <3>1. o[1] \in Ids /\ Live(o[1]) /\ day \in Days
        BY EditableFacts, MovedDays
    <3>2. GoodRule(rule)
        BY <2>1, <3>1
    <3> QED
        BY <2>4, <3>1, <3>2, ChangeInstanceKeeps, ChangeFollowingKeeps
  <2>5. ASSUME NEW o \in Occurrences, NEW time \in Times, NEW day \in MovedFrom(DayOf(DisplayOf(o[2]))),
               NEW rule \in EditedRules(masters[o[1]].rule, day), ChangeSeries(o[1], time, rule)
        PROVE  IInv'
    <3>1. o[1] \in Ids /\ Live(o[1]) /\ day \in Days
        BY OccurrenceFacts, MovedDays
    <3>2. GoodRule(rule)
        BY <2>1, <3>1
    <3> QED
        BY <2>5, <3>1, <3>2, ChangeSeriesKeeps
  <2>6. ASSUME NEW id \in Ids, Live(id), DeleteSeries(id) PROVE IInv'
      BY <2>6, DeleteSeriesKeeps
  <2>7. ASSUME NEW id \in Ids, Live(id), NEW day \in MovedFrom(DayOf(DisplayOf(masters[id].start))), NEW time \in Times,
               NEW rule \in EditedRules(masters[id].rule, day),
               IF Repeats(id) THEN MoveMaster(id, day, time, rule) ELSE SaveSingle(id, day, time, rule)
        PROVE  IInv'
    <3>1. day \in Days
        BY MovedDays
    <3>2. GoodRule(rule)
        BY <2>1, <2>7, <3>1
    <3> QED
        BY <2>7, <3>1, <3>2, MoveMasterKeeps, SaveSingleKeeps
  <2>8. ASSUME NEW t \in changed, DeleteChanged(t) PROVE IInv'
      BY <2>8, DeleteChangedKeeps
  <2>9. UNCHANGED vars => IInv'
      BY StutterKeeps
  <2> QED
      BY <2>2, <2>3, <2>4, <2>5, <2>6, <2>7, <2>8, <2>9 DEF Next
<1> QED
    BY <1>1, <1>2, PTL DEF Spec

(* The rows are what the edits can make them: positive intervals, one kind of end, no  *)
(* two overrides of one instance, stored starts within a day of the days looked at.   *)
THEOREM TypeCorrect == Spec => []TypeOK
<1>1. IInv => TypeOK
  <2> SUFFICES ASSUME IInv PROVE TypeOK
      OBVIOUS
  <2>1. ASSUME NEW id \in Ids, Live(id)
        PROVE  /\ masters[id].start \in Ticks
               /\ masters[id].rule.freq \in {"DAILY", "WEEKLY"} \/ masters[id].rule = NoRule
               /\ masters[id].rule.interval \in Nat \ {0}
               /\ masters[id].rule.count = 0 \/ masters[id].rule.until = 0
    <3>1. GoodMaster(masters[id]) /\ GoodRule(masters[id].rule)
        BY <2>1, MasterFacts
    <3> QED
        BY <3>1 DEF GoodMaster, GoodRule, RuleFields
  <2> QED
      BY <2>1 DEF IInv, OverridesInv, OthersInv, TypeOK
<1> QED
    BY <1>1, Inductive, PTL

(* Two segments are not both shown on a day, unless one of them may reach over the     *)
(* other.                                                                        *)
THEOREM OncePerDayHolds == Spec => []OncePerDay
<1>1. IInv => OncePerDay
  <2> SUFFICES ASSUME IInv, NEW d \in Days
               PROVE  Cardinality({o \in ShownOn(d) : o[1] \notin reaching}) <= 1
      BY DEF OncePerDay
  <2> DEFINE S == {o \in ShownOn(d) : o[1] \notin reaching}
  <2>1. ASSUME NEW o \in S
        PROVE  /\ o = <<o[1], o[2]>> /\ o[1] \in Ids /\ Live(o[1]) /\ Repeats(o[1]) /\ o[1] \notin reaching
               /\ o[2] = StartOn(masters[o[1]], d) /\ Given(masters[o[1]], d)
    <3>1. <<o[1], o[2]>> \in ShownOn(d) /\ o = <<o[1], o[2]>>
        BY ShownPairs
    <3> QED
        BY <3>1, Shown, ShapeHolds, GivenRepeats
  <2>2. ASSUME NEW a \in Ids, Live(a), Given(masters[a], d),
               NEW b \in Ids, Live(b), Given(masters[b], d)
        PROVE  ~Ends(masters[a], StartDay(masters[b]))
    <3>1. masters[a] \in AnyMaster /\ masters[b] \in AnyMaster /\ d \in Int
        BY <2>2, MasterFacts, DayTypes
    <3>2. StartDay(masters[b]) <= d /\ StartDay(masters[b]) \in Int /\ StartDay(masters[a]) <= d
        BY <2>2, <3>1, MatchesFromStart, StartOnFacts DEF Given
    <3> QED
        BY <2>2, <3>1, <3>2 DEF Ends, Given
  <2>3. ASSUME NEW o \in S, NEW p \in S PROVE o = p
    <3>1. o[1] = p[1]
      <4> SUFFICES ASSUME o[1] # p[1] PROVE FALSE
          OBVIOUS
      <4>1. \/ Ends(masters[o[1]], StartDay(masters[p[1]]))
            \/ Ends(masters[p[1]], StartDay(masters[o[1]]))
          BY <2>1, <2>3 DEF IInv, SegmentsInv
      <4> QED
          BY <2>1, <2>2, <2>3, <4>1
    <3> QED
        BY <2>1, <2>3, <3>1
  <2> HIDE DEF S
  <2>4. S = {} => Cardinality(S) <= 1
      BY FS_EmptySet
  <2>5. S # {} => Cardinality(S) <= 1
    <3>1. S # {} => \E o : S = {o}
        BY <2>3
    <3> QED
        BY <3>1, FS_Singleton
  <2>6. Cardinality(S) <= 1
      BY <2>4, <2>5
  <2> QED
      BY <2>6 DEF S
<1> QED
    BY <1>1, Inductive, PTL

(* An override is read for the display of the day its instance is displayed on.     *)
LEMMA OverrideNear ==
    ASSUME OverridesInv, NEW o \in overrides, NEW d \in Days, DayOf(DisplayOf(o.originalStart)) = d
    PROVE  o.originalStart \in StartsNear(o.master, d)
<1>1. PICK t \in Int : t = o.originalStart
    BY TicksMade DEF OverridesInv
<1>2. /\ DisplayOf(t) \in Int /\ d \in Int /\ d >= 1 /\ d * DayTicks \in Int
      /\ TimeOffsetWithinDay(DisplayOf(t)) \in 0..(DayTicks - 1)
    BY DayFacts, DayTypes
<1>3. DisplayOf(t) = d * DayTicks + TimeOffsetWithinDay(DisplayOf(t))
    BY <1>1, <1>2, DayFacts
<1>4. t + Zone >= d * DayTicks /\ t + Zone < d * DayTicks + DayTicks
    BY <1>2, <1>3, Ticking DEF DisplayOf
<1>5. Larger(0, d - 2) \in Int /\ Larger(0, d - 2) < d
    BY <1>2 DEF Larger
<1>6. Larger(0, d - 2) * DayTicks \in Int /\ Larger(0, d - 2) * DayTicks + DayTicks <= d * DayTicks
    BY <1>2, <1>5, DaysApart
<1>7. (d + 2 + 1) * DayTicks \in Int /\ d * DayTicks + DayTicks <= (d + 2 + 1) * DayTicks
    BY <1>2, DaysApart
<1>8. t >= StoredOf(Larger(0, d - 2) * DayTicks) - DayTicks /\ t < (d + 2 + 1) * DayTicks + DayTicks
    BY <1>2, <1>4, <1>6, <1>7, Ticking DEF StoredOf
<1> QED
    BY <1>1, <1>8 DEF StartsNear

(* A deleted instance is not shown again by the rule of its row, whatever the user     *)
(* does to the time or the rule, and when the rule was taken away and given back.       *)
THEOREM CancelledStaysHiddenHolds == Spec => []CancelledStaysHidden
<1>1. IInv => CancelledStaysHidden
  <2> SUFFICES ASSUME IInv, NEW c \in cancelled, NEW o \in ShownOn(c[2]), o[1] = c[1]
               PROVE  FALSE
      BY DEF CancelledStaysHidden
  <2>1. PICK id \in Ids, d \in Days : c = <<id, d>>
      BY DEF IInv, OthersInv
  <2>2. <<id, o[2]>> \in ShownOn(d)
      BY <2>1, ShownPairs
  <2>3. Live(id) /\ o[2] = StartOn(masters[id], d) /\ ~Suppressed(StartsNear(id, d), o[2])
      BY <2>2, Shown, ShapeHolds
  <2>4. PICK p \in overrides : p.master = id /\ DayOf(DisplayOf(p.originalStart)) = d
      BY <2>1, <2>3 DEF IInv, HiddenInv
  <2>5. p.originalStart \in StartsNear(id, d)
      BY <2>4, OverrideNear DEF IInv
  <2>6. DayOf(DisplayOf(o[2])) = d
      BY <2>3, MasterFacts, DayTypes, StartOnFacts
  <2> QED
      BY <2>3, <2>4, <2>5, <2>6 DEF Suppressed
<1> QED
    BY <1>1, Inductive, PTL

(* A start that lies on one day, in UTC and as displayed, does so on every day.   *)
LEMMA StartsInOneDay ==
    ASSUME NEW m \in AnyMaster, InOneDay(m.start), NEW d \in Int
    PROVE  DayOf(StartOn(m, d)) = d
<1>1. PICK s \in Int : s = m.start
    BY DEF AnyMaster
<1>2. PICK q \in Int, r0 \in 0..(DayTicks - 1) : DayOf(s) = q /\ s = q * DayTicks + r0
    BY DayFacts
<1>3. PICK r \in 0..(DayTicks - 1) : r = TimeOffsetWithinDay(DisplayOf(s)) /\ DisplayOf(s) = q * DayTicks + r
  <2>1. DayOf(DisplayOf(s)) = q /\ DisplayOf(s) \in Int
      BY <1>1, <1>2, DayFacts DEF InOneDay
  <2> QED
      BY <2>1, DayFacts
<1>4. q * DayTicks \in Int /\ d * DayTicks \in Int
    BY Ticking
<1>5. r - Zone = r0
    BY <1>2, <1>3, <1>4, Ticking DEF DisplayOf
<1>6. StartOn(m, d) = d * DayTicks + r0
  <2>1. StartOn(m, d) = StoredOf(d * DayTicks + r)
      BY <1>1, <1>3 DEF StartOn
  <2>2. StoredOf(d * DayTicks + r) = d * DayTicks + r - Zone
      BY <1>4, Ticking DEF StoredOf
  <2> QED
      BY <1>4, <1>5, <2>1, <2>2, Ticking
<1> QED
    BY <1>6, DayIs

(* Then the overrides of other days suppress nothing.                          *)
LEMMA SuppressedByDay ==
    ASSUME IInv, NEW id \in Ids, Live(id), NeverAcrossDays(id), NEW d \in Days
    PROVE  Suppressed(StartsNear(id, d), StartOn(masters[id], d)) <=>
               \E o \in overrides : o.master = id /\ DayOf(DisplayOf(o.originalStart)) = d
<1> DEFINE s == StartOn(masters[id], d)
<1>1. DayOf(s) = d /\ DayOf(DisplayOf(s)) = d
    BY MasterFacts, StartsInOneDay, StartOnFacts, DayTypes DEF NeverAcrossDays
<1> HIDE DEF s
<1>2. ASSUME NEW o \in overrides, o.master = id, DayOf(DisplayOf(o.originalStart)) = d
      PROVE  Suppressed(StartsNear(id, d), s)
  <2>1. o.originalStart \in StartsNear(id, d)
      BY <1>2, OverrideNear DEF IInv
  <2> QED
      BY <1>1, <1>2, <2>1 DEF Suppressed
<1>3. ASSUME Suppressed(StartsNear(id, d), s)
      PROVE  \E o \in overrides : o.master = id /\ DayOf(DisplayOf(o.originalStart)) = d
  <2>1. PICK t \in StartsNear(id, d) : t = s \/ DayOf(t) = d \/ DayOf(DisplayOf(t)) = d
      BY <1>1, <1>3 DEF Suppressed
  <2>2. PICK o \in overrides : o.master = id /\ o.originalStart = t
      BY <2>1 DEF StartsNear
  <2>3. DayOf(t) = DayOf(DisplayOf(t))
      BY <2>2 DEF NeverAcrossDays, InOneDay
  <2> QED
      BY <1>1, <2>1, <2>2, <2>3
<1> QED
    BY <1>2, <1>3 DEF s

(* The days a rule gives, counted without a range.                             *)
LEMMA GivenIsOccurrence ==
    ASSUME IInv, NEW id \in Ids, Live(id), NEW d \in Days
    PROVE  Given(masters[id], d) <=> d \in OccurrenceDays(id)
<1>1. PICK last \in Days : last = (CHOOSE x \in Days : \A e \in Days : e <= x) /\ \A e \in Days : e <= last
    BY LastDay
<1>2. PICK m \in AnyMaster : m = masters[id]
    BY MasterFacts
<1>3. PICK start \in Int : start = StartDay(m)
    BY StartOnFacts
<1> DEFINE all == {x \in start..last : MatchesRecurringDay(m, x)}
           Upto == {e \in all : e <= d}
           Before == {e \in start..d - 1 : MatchesRecurringDay(m, e)}
<1>4. d \in Int /\ d <= last /\ last \in Int
    BY <1>1, DayTypes
<1>5. d \in OccurrenceDays(id) <=>
          /\ d \in all
          /\ m.rule.count > 0 => Cardinality(Upto) <= m.rule.count
          /\ m.rule.until > 0 => StartOn(m, d) <= m.rule.until
    BY <1>1, <1>2, <1>3 DEF OccurrenceDays, StartOn, StartDay
<1>6. d \in all <=> MatchesRecurringDay(m, d)
    BY <1>3, <1>4, MatchesFromStart
<1>7. ASSUME MatchesRecurringDay(m, d)
      PROVE  Cardinality(Upto) = Cardinality(Before) + 1 /\ Cardinality(Before) \in Nat
  <2>1. \A e : e \in Upto <=> e \in Before \/ e = d
      BY <1>4, <1>6, <1>7
  <2>2. d \notin Before
      BY <1>4
  <2>3. IsFiniteSet(Before)
    <3>1. IsFiniteSet(start..(d - 1))
        BY <1>3, <1>4, FS_Interval
    <3>2. Before \subseteq start..(d - 1)
        OBVIOUS
    <3> HIDE DEF Before
    <3> QED
        BY <3>1, <3>2, FS_Subset
  <2> HIDE DEF Upto, Before
  <2>4. Upto = Before \cup {d}
      BY <2>1
  <2> QED
      BY <2>2, <2>3, <2>4, FS_AddElement, FS_CardinalityType
<1>8. CountOccurrencesBeforeDay(m, d) = Cardinality(Before)
    BY <1>3 DEF CountOccurrencesBeforeDay, StartDay
<1>9. m.rule.count \in Nat
    BY DEF AnyMaster, RuleFields
<1> HIDE DEF all, Upto, Before
<1>10. ASSUME MatchesRecurringDay(m, d)
       PROVE  Cardinality(Upto) <= m.rule.count <=> CountOccurrencesBeforeDay(m, d) < m.rule.count
  <2>1. PICK k \in Nat : k = Cardinality(Before)
      BY <1>7, <1>10
  <2>2. Cardinality(Upto) = k + 1
      BY <1>7, <1>10, <2>1
  <2> QED
      BY <1>8, <1>9, <2>1, <2>2
<1> QED
    BY <1>2, <1>5, <1>6, <1>10 DEF Given

(* A day on its own shows what the rule gives and no override took away.           *)
THEOREM ShownAsRuledHolds == Spec => []ShownAsRuled
<1>1. IInv => ShownAsRuled
  <2> SUFFICES ASSUME IInv, NEW id \in Ids, Repeats(id), Live(id), NeverAcrossDays(id)
               PROVE  {d \in Days : \E o \in ShownOn(d) : o[1] = id} =
                          (OccurrenceDays(id) \cap Days)
                              \ {DayOf(DisplayOf(o.originalStart)) : o \in {p \in overrides : p.master = id}}
      BY DEF ShownAsRuled, Repeats
  <2>1. ASSUME NEW d \in Days
        PROVE  (\E o \in ShownOn(d) : o[1] = id) <=>
                   /\ d \in OccurrenceDays(id)
                   /\ ~\E o \in overrides : o.master = id /\ DayOf(DisplayOf(o.originalStart)) = d
    <3>1. (\E o \in ShownOn(d) : o[1] = id) <=> \E s : <<id, s>> \in ShownOn(d)
      <4>1. ASSUME NEW o \in ShownOn(d), o[1] = id
            PROVE  \E s : <<id, s>> \in ShownOn(d)
        <5>1. o = <<id, o[2]>>
            BY <4>1, ShownPairs
        <5> QED
            BY <4>1, <5>1
      <4>2. ASSUME NEW s, <<id, s>> \in ShownOn(d)
            PROVE  \E o \in ShownOn(d) : o[1] = id
          BY <4>2
      <4> QED
          BY <4>1, <4>2
    <3>2. (\E s : <<id, s>> \in ShownOn(d)) <=>
              /\ Given(masters[id], d)
              /\ ~Suppressed(StartsNear(id, d), StartOn(masters[id], d))
        BY Shown, ShapeHolds
    <3> QED
        BY <3>1, <3>2, GivenIsOccurrence, SuppressedByDay
  <2> QED
      BY <2>1
<1> QED
    BY <1>1, Inductive, PTL

-----------------------------------------------------------------------------
(* What an edit changes of the days around it: the lemmas of this part are about a    *)
(* state and the next one.                                                       *)

LEMMA ShownNext ==
    (Shape => \A id, s : \A d \in Days :
        <<id, s>> \in ShownOn(d) <=>
            /\ id \in Ids /\ Live(id)
            /\ s = StartOn(masters[id], d) /\ Given(masters[id], d)
            /\ ~Suppressed(StartsNear(id, d), s))'
BY Shown, PTL

LEMMA ShownPairsNext == (\A d : \A o \in ShownOn(d) : o = <<o[1], o[2]>> /\ o[1] \in Ids)'
BY ShownPairs, PTL

LEMMA ShapeNext == (IInv => Shape)'
BY ShapeHolds, PTL

(* A day shows the same if the same masters give it, with the same overrides.       *)
LEMMA ShownKept ==
    ASSUME IInv, IInv', NEW d \in Days,
           \A i \in Ids : (Live(i) /\ Given(masters[i], d)) <=> (Live(i)' /\ Given(masters'[i], d)),
           \A i \in Ids : Live(i) /\ Live(i)' /\ Given(masters[i], d) =>
               /\ StartOn(masters'[i], d) = StartOn(masters[i], d)
               /\ Suppressed(StartsNear(i, d)', StartOn(masters[i], d))
                      <=> Suppressed(StartsNear(i, d), StartOn(masters[i], d))
    PROVE  ShownOn(d)' = ShownOn(d)
<1>1. Shape /\ Shape'
    BY ShapeHolds, ShapeNext
<1>2. ASSUME NEW id, NEW s PROVE <<id, s>> \in ShownOn(d)' <=> <<id, s>> \in ShownOn(d)
  <2>1. <<id, s>> \in ShownOn(d) <=>
            /\ id \in Ids /\ Live(id)
            /\ s = StartOn(masters[id], d) /\ Given(masters[id], d)
            /\ ~Suppressed(StartsNear(id, d), s)
      BY <1>1, Shown
  <2>2. <<id, s>> \in ShownOn(d)' <=>
            /\ id \in Ids /\ Live(id)'
            /\ s = StartOn(masters'[id], d) /\ Given(masters'[id], d)
            /\ ~Suppressed(StartsNear(id, d)', s)
      BY <1>1, ShownNext
  <2> QED
      BY <2>1, <2>2
<1>3. \A o \in ShownOn(d) : o = <<o[1], o[2]>>
    BY ShownPairs
<1>4. \A o \in ShownOn(d)' : o = <<o[1], o[2]>>
    BY ShownPairsNext
<1>5. \A o \in ShownOn(d) : o \in ShownOn(d)'
    BY <1>2, <1>3
<1>6. \A o \in ShownOn(d)' : o \in ShownOn(d)
    BY <1>2, <1>4
<1> QED
    BY <1>5, <1>6

LEMMA StartsNearNext ==
    ASSUME NEW i, NEW d
    PROVE  StartsNear(i, d)' =
               {o.originalStart : o \in {p \in overrides' :
                   /\ p.master = i
                   /\ p.originalStart >= StoredOf(Larger(0, d - 2) * DayTicks) - DayTicks
                   /\ p.originalStart < (d + 2 + 1) * DayTicks + DayTicks}}
BY DEF StartsNear, StoredOf, Larger

(* An override more is read for its own master only.                             *)
LEMMA StartsAdded ==
    ASSUME OverridesInv, NEW id, NEW t, NEW type, overrides' = UpsertOverride(Override(id, t, type)),
           NEW i, NEW d
    PROVE  /\ i # id => StartsNear(i, d)' = StartsNear(i, d)
           /\ StartsNear(i, d) \subseteq StartsNear(i, d)'
           /\ StartsNear(i, d)' \subseteq StartsNear(i, d) \cup {t}
<1> DEFINE Near(s) == /\ s >= StoredOf(Larger(0, d - 2) * DayTicks) - DayTicks
                      /\ s < (d + 2 + 1) * DayTicks + DayTicks
<1>1. \A s : s \in StartsNear(i, d) <=> Near(s) /\ \E o \in overrides : o.master = i /\ o.originalStart = s
    BY DEF StartsNear
<1>2. \A s : s \in StartsNear(i, d)' <=> Near(s) /\ \E o \in overrides' : o.master = i /\ o.originalStart = s
    BY StartsNearNext
<1> HIDE DEF Near
<1>3. ASSUME NEW s, s # t \/ i # id
      PROVE  (\E o \in overrides' : o.master = i /\ o.originalStart = s)
                 <=> \E o \in overrides : o.master = i /\ o.originalStart = s
  <2>1. \A o \in overrides' : o \in overrides \/ (o.master = id /\ o.originalStart = t)
      BY DEF UpsertOverride, Override
  <2>2. \A o \in overrides : o \in overrides' \/ (o.master = id /\ o.originalStart = t)
      BY DEF UpsertOverride, Override
  <2> QED
      BY <1>3, <2>1, <2>2
<1>4. \E o \in overrides' : o.master = id /\ o.originalStart = t
  <2>1. Override(id, t, type) \in overrides'
      BY DEF UpsertOverride
  <2> QED
      BY <2>1 DEF Override
<1> QED
    BY <1>1, <1>2, <1>3, <1>4

LEMMA DeletedInstanceAlone ==
    ASSUME IInv, IInv', NEW o \in Occurrences, DeleteInstance(o[1], o[2]), NeverAcrossDays(o[1]),
           NEW d \in Days, d # DayOf(DisplayOf(o[2]))
    PROVE  ShownOn(d)' = ShownOn(d)
<1>1. PICK id \in Ids, day \in Days, t \in Ticks :
          /\ o[1] = id /\ o[2] = t /\ Live(id)
          /\ masters[id] \in AnyMaster
          /\ t = StartOn(masters[id], day) /\ DayOf(DisplayOf(t)) = day
    BY OccurrenceFacts
<1>2. masters' = masters /\ overrides' = UpsertOverride(Override(id, t, "CANCELLED"))
    BY <1>1 DEF DeleteInstance
<1>3. \A i \in Ids : Live(i)' <=> Live(i)
    BY <1>2 DEF Live
<1>4. ASSUME NEW i \in Ids, Live(i)
      PROVE  Suppressed(StartsNear(i, d)', StartOn(masters[i], d))
                 <=> Suppressed(StartsNear(i, d), StartOn(masters[i], d))
  <2>1. CASE i # id
    <3>1. StartsNear(i, d)' = StartsNear(i, d)
        BY <1>2, <2>1, StartsAdded DEF IInv
    <3> QED
        BY <3>1
  <2>2. CASE i = id
    <3>1. StartsNear(id, d) \subseteq StartsNear(id, d)' /\ StartsNear(id, d)' \subseteq StartsNear(id, d) \cup {t}
        BY <1>2, StartsAdded DEF IInv
    <3>2. DayOf(t) = day /\ DayOf(StartOn(masters[id], d)) = d /\ DayOf(DisplayOf(StartOn(masters[id], d))) = d
        BY <1>1, StartsInOneDay, StartOnFacts, DayTypes DEF NeverAcrossDays
    <3>3. day # d
        BY <1>1
    <3> QED
        BY <1>1, <2>2, <3>1, <3>2, <3>3 DEF Suppressed
  <2> QED
      BY <2>1, <2>2
<1> QED
    BY <1>2, <1>3, <1>4, ShownKept

LEMMA StartsWithout ==
    ASSUME NEW S, overrides' = OverridesWithout(S), NEW i, i \notin S, NEW d
    PROVE  StartsNear(i, d)' = StartsNear(i, d)
<1> DEFINE Near(s) == /\ s >= StoredOf(Larger(0, d - 2) * DayTicks) - DayTicks
                      /\ s < (d + 2 + 1) * DayTicks + DayTicks
<1>1. \A s : s \in StartsNear(i, d) <=> Near(s) /\ \E o \in overrides : o.master = i /\ o.originalStart = s
    BY DEF StartsNear
<1>2. \A s : s \in StartsNear(i, d)' <=> Near(s) /\ \E o \in overrides' : o.master = i /\ o.originalStart = s
    BY StartsNearNext
<1> HIDE DEF Near
<1>3. \A o : o.master = i => (o \in overrides' <=> o \in overrides)
    BY DEF OverridesWithout
<1> QED
    BY <1>1, <1>2, <1>3

LEMMA CountGrows ==
    ASSUME NEW m \in AnyMaster, NEW d \in Int, NEW e \in Int, d <= e
    PROVE  /\ CountOccurrencesBeforeDay(m, d) \in Nat /\ CountOccurrencesBeforeDay(m, e) \in Nat
           /\ CountOccurrencesBeforeDay(m, d) <= CountOccurrencesBeforeDay(m, e)
<1>1. PICK start \in Int : start = StartDay(m)
    BY StartOnFacts
<1> DEFINE Before(x) == {y \in start..x - 1 : MatchesRecurringDay(m, y)}
<1>2. ASSUME NEW x \in Int
      PROVE  IsFiniteSet(Before(x)) /\ CountOccurrencesBeforeDay(m, x) = Cardinality(Before(x))
  <2>1. IsFiniteSet(start..(x - 1))
      BY <1>1, FS_Interval
  <2>2. Before(x) \subseteq start..(x - 1)
      OBVIOUS
  <2>3. CountOccurrencesBeforeDay(m, x) = Cardinality(Before(x))
      BY <1>1 DEF CountOccurrencesBeforeDay, StartDay
  <2> HIDE DEF Before
  <2> QED
      BY <2>1, <2>2, <2>3, FS_Subset
<1>3. Before(d) \subseteq Before(e)
    BY <1>1
<1> HIDE DEF Before
<1> QED
    BY <1>2, <1>3, FS_Subset, FS_CardinalityType

(* A rule that is ended on a day gives the days before it what it gave them.        *)
LEMMA GivenBefore ==
    ASSUME NEW m \in AnyMaster, NEW n \in AnyMaster, NEW day \in Int, Given(m, day),
           n.start = m.start, n.rule.count = 0, n.rule.until = StartOn(m, day) - 1,
           n.rule.freq = m.rule.freq, n.rule.interval = m.rule.interval, n.rule.byDay = m.rule.byDay,
           NEW d \in Int, d < day
    PROVE  Given(n, d) <=> Given(m, d)
<1>1. MatchesRecurringDay(n, d) <=> MatchesRecurringDay(m, d)
    BY DEF MatchesRecurringDay
<1>2. StartOn(n, d) = StartOn(m, d) /\ StartOn(m, d) \in Int /\ StartOn(m, day) \in Int
    BY StartOnFacts DEF StartOn
<1>3. StartOn(m, d) < StartOn(m, day)
    BY StartsInOrder
<1>4. m.rule.count \in Nat /\ m.rule.until \in Nat
    BY DEF AnyMaster, RuleFields
<1>5. Given(n, d) <=> MatchesRecurringDay(m, d)
    BY <1>1, <1>2, <1>3 DEF Given
<1>6. m.rule.count > 0 => CountOccurrencesBeforeDay(m, d) < m.rule.count
    BY <1>4, CountGrows DEF Given
<1>7. m.rule.until > 0 => StartOn(m, d) <= m.rule.until
    BY <1>2, <1>3, <1>4 DEF Given
<1> QED
    BY <1>5, <1>6, <1>7 DEF Given

LEMMA EarlierKept ==
    ASSUME IInv, IInv', NEW id \in Ids, Live(id), NEW day \in Days, NEW t \in Ticks,
           t = StartOn(masters[id], day), Given(masters[id], day), DayOf(DisplayOf(t)) = day,
           NEW to \in Days, NEW n, GoodMaster(n), n.start = masters[id].start, n.rule.count = 0, n.rule.until = t - 1,
           n.rule.freq = masters[id].rule.freq, n.rule.interval = masters[id].rule.interval,
           n.rule.byDay = masters[id].rule.byDay, masters'[id] = n,
           overrides' = OverridesWithout(LaterSegments(id, t)),
           \A i \in Ids \ {id} :
               IF i \in LaterSegments(id, t) THEN ~Live(i)'
               ELSE \/ masters'[i] = masters[i]
                    \/ ~Live(i) /\ masters'[i] \in AnyMaster /\ StartDay(masters'[i]) = to,
           NEW d \in Days, d < day, d < to
    PROVE  ShownOn(d)' = ShownOn(d)
<1>1. /\ masters[id] \in AnyMaster /\ n \in AnyMaster /\ n # NoMaster
      /\ d \in Int /\ day \in Int /\ to \in Int /\ t \in Int
    BY MasterFacts, NoMasterIsNone, DayTypes, TicksMade DEF GoodMaster
<1>2. Given(n, d) <=> Given(masters[id], d)
    BY <1>1, GivenBefore
<1>3. Live(id)' /\ StartOn(n, d) = StartOn(masters[id], d) /\ id \notin LaterSegments(id, t)
    BY <1>1 DEF Live, StartOn, LaterSegments
<1>4. ASSUME NEW i \in LaterSegments(id, t)
      PROVE  i \in Ids /\ ~Live(i)' /\ ~Given(masters[i], d)
  <2>1. i \in Ids \ {id} /\ Live(i) /\ masters[i].start >= t
      BY DEF LaterSegments, Repeats
  <2>2. masters[i] \in AnyMaster /\ masters[i].start \in Int /\ StartDay(masters[i]) \in Int
      BY <2>1, MasterFacts, StartOnFacts DEF AnyMaster
  <2>3. ~(StartDay(masters[i]) < day)
    <3> SUFFICES ASSUME StartDay(masters[i]) < day PROVE FALSE
        OBVIOUS
    <3>1. DisplayOf(masters[i].start) \in Int /\ DisplayOf(t) \in Int
        BY <1>1, <2>2, DayFacts
    <3>2. DisplayOf(masters[i].start) < DisplayOf(t)
        BY <3>1, LaterDay DEF StartDay
    <3> QED
        BY <1>1, <2>1, <2>2, <3>2, Ticking DEF DisplayOf
  <2>4. ~Given(masters[i], d)
      BY <1>1, <2>2, <2>3, MatchesFromStart DEF Given
  <2> QED
      BY <1>4, <2>1, <2>4
<1>5. ASSUME NEW i \in Ids, ~Live(i), masters'[i] \in AnyMaster, StartDay(masters'[i]) = to
      PROVE  ~Given(masters'[i], d)
    BY <1>1, <1>5, MatchesFromStart DEF Given
<1>6. ASSUME NEW i \in Ids
      PROVE  /\ (Live(i) /\ Given(masters[i], d)) <=> (Live(i)' /\ Given(masters'[i], d))
             /\ Live(i) /\ Live(i)' => /\ i \notin LaterSegments(id, t)
                                       /\ StartOn(masters'[i], d) = StartOn(masters[i], d)
  <2>1. CASE i = id
      BY <1>2, <1>3, <2>1
  <2>2. CASE i \in LaterSegments(id, t)
      BY <1>4, <2>2
  <2>3. CASE i # id /\ i \notin LaterSegments(id, t) /\ masters'[i] = masters[i]
      BY <2>3 DEF Live
  <2>4. CASE ~Live(i) /\ masters'[i] \in AnyMaster /\ StartDay(masters'[i]) = to
      BY <1>5, <2>4
  <2> QED
      BY <2>1, <2>2, <2>3, <2>4
<1>7. ASSUME NEW i \in Ids, Live(i), Live(i)'
      PROVE  StartsNear(i, d)' = StartsNear(i, d)
    BY <1>6, <1>7, StartsWithout
<1> QED
    BY <1>6, <1>7, ShownKept

LEMMA DeleteFollowingScope ==
    ASSUME IInv, IInv', NEW o \in Occurrences, DeleteFollowing(o[1], o[2]),
           NEW d \in Days, d < DayOf(DisplayOf(o[2]))
    PROVE  ShownOn(d)' = ShownOn(d)
<1>1. PICK id \in Ids, day \in Days, t \in Ticks :
          /\ o[1] = id /\ o[2] = t /\ Live(id) /\ Repeats(id)
          /\ masters[id] \in AnyMaster
          /\ t = StartOn(masters[id], day) /\ Given(masters[id], day)
          /\ DayOf(DisplayOf(t)) = day /\ t >= 2
    BY OccurrenceFacts
<1>2. id \notin LaterSegments(id, t)
    BY DEF LaterSegments
<1>3. PICK n : n = Ended(masters[id], masters[id].rule, t)
    OBVIOUS
<1>4. /\ GoodMaster(n) /\ n.start = masters[id].start
      /\ n.rule.count = 0 /\ n.rule.until = t - 1 /\ n.rule.freq = masters[id].rule.freq
      /\ n.rule.interval = masters[id].rule.interval /\ n.rule.byDay = masters[id].rule.byDay
    BY <1>1, <1>3, MasterFacts, MasterLimited DEF Repeats
<1>5. /\ masters' = [Without(LaterSegments(id, t)) EXCEPT ![id] = n]
      /\ overrides' = OverridesWithout(LaterSegments(id, t))
  <2>1. Without(LaterSegments(id, t))[id] = masters[id]
      BY <1>2 DEF Without
  <2> QED
      BY <1>1, <1>3, <2>1 DEF DeleteFollowing, Ended
<1>6. \A i \in Ids : masters'[i] = IF i = id THEN n ELSE IF i \in LaterSegments(id, t) THEN NoMaster ELSE masters[i]
    BY <1>5 DEF Without
<1>7. \A i \in Ids \ {id} :
          IF i \in LaterSegments(id, t) THEN ~Live(i)' ELSE masters'[i] = masters[i]
    BY <1>6 DEF Live
<1> QED
    BY <1>1, <1>4, <1>5, <1>6, <1>7, EarlierKept

LEMMA ChangeFollowingScope ==
    ASSUME IInv, IInv', NEW o \in Occurrences, NEW to \in Days, NEW time \in Times, NEW rule, GoodRule(rule),
           ChangeFollowing(o[1], o[2], to, time, rule), SamePattern(rule, masters[o[1]].rule),
           NEW d \in Days, d < DayOf(DisplayOf(o[2])), d < to
    PROVE  ShownOn(d)' = ShownOn(d)
<1>1. PICK id \in Ids, day \in Days, t \in Ticks :
          /\ o[1] = id /\ o[2] = t /\ Live(id) /\ Repeats(id)
          /\ t = StartOn(masters[id], day) /\ Given(masters[id], day)
          /\ DayOf(DisplayOf(t)) = day /\ t >= 2
    BY OccurrenceFacts
<1>2. ChangeFollowing(id, t, to, time, rule)
    BY <1>1
<1>3. PICK new, n, f :
          /\ new \in Ids /\ Unused(new) /\ ~Live(new) /\ new # id /\ new \notin LaterSegments(id, t)
          /\ n = Ended(masters[id], rule, t) /\ GoodMaster(n)
          /\ GoodMaster(f) /\ StartDay(f) = to /\ f.rule = rule
          /\ \A i \in Ids : masters'[i] = IF i = new THEN f ELSE IF i = id THEN n
                                ELSE IF i \in LaterSegments(id, t) THEN NoMaster ELSE masters[i]
          /\ overrides' = OverridesWithout(LaterSegments(id, t))
    BY <1>1, <1>2, FollowingChanged
<1>4. rule # NoRule
  <2>1. masters[id].rule.freq # "NONE" /\ rule.freq = masters[id].rule.freq
      BY <1>1 DEF Given, MatchesRecurringDay, SamePattern
  <2> QED
      BY <2>1 DEF NoRule
<1>5. /\ n.start = masters[id].start
      /\ n.rule.count = 0 /\ n.rule.until = t - 1 /\ n.rule.freq = masters[id].rule.freq
      /\ n.rule.interval = masters[id].rule.interval /\ n.rule.byDay = masters[id].rule.byDay
    BY <1>1, <1>3, <1>4, MasterFacts, MasterLimited DEF SamePattern
<1>6. \A i \in Ids \ {id} :
          IF i \in LaterSegments(id, t) THEN ~Live(i)'
          ELSE \/ masters'[i] = masters[i]
               \/ ~Live(i) /\ masters'[i] \in AnyMaster /\ StartDay(masters'[i]) = to
    BY <1>3 DEF Live, GoodMaster
<1>7. masters'[id] = n /\ d < day
    BY <1>1, <1>3
<1> QED
    BY <1>1, <1>3, <1>5, <1>6, <1>7, EarlierKept

(* Deleting an instance leaves the other days, and an edit of an instance and the     *)
(* following ones leaves every day before it and before the day it is moved to, if it   *)
(* leaves on which days the series is, whatever else the series is made of.            *)
THEOREM ScopeRespectedHolds == Spec => ScopeRespected
<1>1. IInv /\ IInv' => Scope
  <2> SUFFICES ASSUME IInv, IInv', NEW o \in Occurrences
               PROVE  /\ DeleteInstance(o[1], o[2]) /\ NeverAcrossDays(o[1])
                             => \A d \in Days \ {DayOf(DisplayOf(o[2]))} : ShownOn(d)' = ShownOn(d)
                      /\ DeleteFollowing(o[1], o[2])
                             => \A d \in Days : d < DayOf(DisplayOf(o[2])) => ShownOn(d)' = ShownOn(d)
                      /\ \A to \in MovedFrom(DayOf(DisplayOf(o[2]))), time \in Times :
                             \A rule \in EditedRules(masters[o[1]].rule, to) :
                                 ChangeFollowing(o[1], o[2], to, time, rule) /\ SamePattern(rule, masters[o[1]].rule)
                                     => \A d \in Days : d < DayOf(DisplayOf(o[2])) /\ d < to => ShownOn(d)' = ShownOn(d)
      BY DEF Scope
  <2>1. ASSUME DeleteInstance(o[1], o[2]), NeverAcrossDays(o[1]), NEW d \in Days \ {DayOf(DisplayOf(o[2]))}
        PROVE  ShownOn(d)' = ShownOn(d)
      BY <2>1, DeletedInstanceAlone
  <2>2. ASSUME DeleteFollowing(o[1], o[2]), NEW d \in Days, d < DayOf(DisplayOf(o[2]))
        PROVE  ShownOn(d)' = ShownOn(d)
      BY <2>2, DeleteFollowingScope
  <2>3. ASSUME NEW to \in MovedFrom(DayOf(DisplayOf(o[2]))), NEW time \in Times,
               NEW rule \in EditedRules(masters[o[1]].rule, to),
               ChangeFollowing(o[1], o[2], to, time, rule), SamePattern(rule, masters[o[1]].rule),
               NEW d \in Days, d < DayOf(DisplayOf(o[2])), d < to
        PROVE  ShownOn(d)' = ShownOn(d)
    <3>1. o[1] \in Ids /\ Live(o[1]) /\ to \in Days
        BY OccurrenceFacts, MovedDays
    <3>2. GoodRule(rule)
        BY <3>1, MasterFacts, RuleEdited
    <3> QED
        BY <2>3, <3>1, <3>2, ChangeFollowingScope
  <2> QED
      BY <2>1, <2>2, <2>3
<1> QED
    BY <1>1, Inductive, PTL DEF ScopeRespected
=============================================================================
