----------------------------- MODULE RangeLoading -----------------------------
(***************************************************************************)
(* How the main window gets the events it shows.  RefreshEvents starts a     *)
(* thread that reads the database; when its result is shown, a second thread *)
(* fetches from the server what has not been fetched yet of the range on     *)
(* show, quarter by quarter, and then RefreshEvents runs again.  The upload   *)
(* worker fetches the same range after each of its passes.                  *)
(* Sources: EnsureVisibleRangeCoverageAsync and RefreshEvents of             *)
(* src/ui/local_calendar_app.cpp, fetchAndStoreRemoteEventsInRange of both    *)
(* synchronisation services, CalendarSyncRangeRepository.                   *)
(*                                                                          *)
(* One account is open and signed in.  Time is counted in half months.        *)
(***************************************************************************)
EXTENDS Integers, FiniteSets, Sequences, SequencesExt

CONSTANTS
    Provider,      \* "microsoft" or "google"
    Cals,          \* the account's calendars that are synchronised, in list order
    Unreadable,    \* those the server refuses to list
    Views,         \* what can be shown: [from, to, cals]
    TodayView,     \* what the Today button shows
    MaxMoves,      \* bound: changes of the view
    MaxReloads,    \* bound: uses of the Today button
    MaxJobs,       \* bound: passes of the upload worker
    MaxFaults      \* bound: requests, reads and threads that fail

ASSUME ProviderAssumption == Provider \in {"microsoft", "google"}
ASSUME ViewsAssumption ==
    /\ Cals \subseteq Nat
    /\ \A v \in Views : v.from \in Nat /\ v.to \in Nat /\ v.from < v.to
    /\ \A v \in Views : v.cals \subseteq Cals /\ v.cals # {}
    /\ TodayView \in Views
    /\ Unreadable \subseteq Cals
ASSUME BoundsAssumption == {MaxMoves, MaxReloads, MaxJobs, MaxFaults} \subseteq Nat

VARIABLES
    view,         \* the range and the calendars on show
    loads,        \* threads of RefreshEvents, and results waiting for the event loop
    shown,        \* what the window shows: of which view, and the quarters read
    coveredKeys,  \* coveredRangeKeys_
    fetches,      \* coverageFetchKeys_ and their threads; a key stands for a view
    job,          \* the pass of the upload worker
    stored,       \* quarters of calendars whose events are in the database
    moves, reloads, jobs, faults,
    unseen,       \* history: quarters stored by threads that did not refresh the window
    awaited       \* history: quarters the Today button still has to fetch

windowVars == <<view, loads, shown>>
boundVars == <<moves, reloads, jobs, faults>>
historyVars == <<unseen, awaited>>
vars == <<windowVars, coveredKeys, fetches, job, stored, boundVars, historyVars>>

-----------------------------------------------------------------------------
(* Quarters, as the two services compute them.                                *)

Year(t) == t \div 24
Month(t) == (t % 24) \div 2 + 1
MakeUtcEpoch(y, m) == 24 * y + 2 * (m - 1)

QuarterStartMonth(t) == ((Month(t) - 1) \div 3) * 3 + 1

(* Outlook *)
BucketForEpoch(t) ==
    LET m == QuarterStartMonth(t)
    IN  <<MakeUtcEpoch(Year(t), m),
          IF m = 10 THEN MakeUtcEpoch(Year(t) + 1, 1) ELSE MakeUtcEpoch(Year(t), m + 3)>>

NextBucket(b) == BucketForEpoch(b[2])

(* Google *)
MonthAfter(y, m) == IF m + 3 > 12 THEN MakeUtcEpoch(y + 1, m + 3 - 12) ELSE MakeUtcEpoch(y, m + 3)

QuarterBucketForEpoch(t) ==
    LET m == QuarterStartMonth(t) IN <<MakeUtcEpoch(Year(t), m), MonthAfter(Year(t), m)>>

NextQuarterBucket(b) == <<b[2], MonthAfter(Year(b[2]), Month(b[2]))>>

FirstBucket(t) == IF Provider = "google" THEN QuarterBucketForEpoch(t) ELSE BucketForEpoch(t)
FollowingBucket(b) == IF Provider = "google" THEN NextQuarterBucket(b) ELSE NextBucket(b)

(* The loop over the quarters of a range; each of its turns adds one of them.   *)
BucketsForRange(from, to) ==
    LET buckets[n \in 0..(to - from)] ==
            IF n = 0 THEN <<>>
            ELSE LET done == buckets[n - 1]
                     next == IF done = <<>> THEN FirstBucket(from) ELSE FollowingBucket(Last(done))
                 IN  IF next[1] < to THEN Append(done, next) ELSE done
    IN  buckets[to - from]

Buckets == [v \in Views |-> BucketsForRange(v.from, v.to)]

(* The quarters of calendars that a view needs. *)
NeededBy == [v \in Views |-> v.cals \X ToSet(Buckets[v])]
Needed(v) == NeededBy[v]
AllNeeded == UNION {Cals \X ToSet(Buckets[v]) : v \in Views}

(* The rows of a calendar that meet a range, in the order of their starts.     *)
RowsInRange(c, from, to) ==
    LET rows == {p[2] : p \in {q \in stored : q[1] = c /\ q[2][2] > from /\ q[2][1] < to}}
    IN  CHOOSE s \in [1..Cardinality(rows) -> rows] :
            \A i, j \in 1..Cardinality(rows) : i < j => s[i][1] < s[j][1]

(* Mutant: rows that touch are taken for rows with a gap between them. *)
IsRangeCoveredGap(c, from, to) ==
    LET rows == RowsInRange(c, from, to)
        until[i \in 0..Len(rows)] ==
            IF i = 0 THEN from
            ELSE IF i > 1 /\ rows[i][1] >= until[i - 1] THEN until[i - 1]
            ELSE rows[i][2]
    IN  until[Len(rows)] >= to

(* isRangeCovered: the rows are followed up to the first gap.                  *)
IsRangeCovered(c, from, to) ==
    LET rows == RowsInRange(c, from, to)
        until[i \in 0..Len(rows)] ==
            IF i = 0 THEN from
            ELSE IF rows[i][1] > until[i - 1] \/ rows[i][2] < until[i - 1] THEN until[i - 1]
            ELSE rows[i][2]
    IN  from >= to \/ until[Len(rows)] >= to

-----------------------------------------------------------------------------
(* A thread of RefreshEvents; current says that no later one has been started  *)
(* (eventLoadGeneration_), left are the calendars it still has to read.         *)
Load(v, forced) ==
    [view |-> v, forced |-> forced, current |-> TRUE, left |-> v.cals, seen |-> {}]

(* A coverage thread: the calendars left, the quarters left of the first one,   *)
(* whether that one has succeeded so far (success), the flags fetchedAnyRange   *)
(* and allRangesCovered, and what it has stored.                              *)
NoFetch == [running |-> FALSE, forced |-> FALSE, cals |-> {}, left |-> <<>>, success |-> TRUE,
            any |-> FALSE, all |-> TRUE, error |-> FALSE, wrote |-> {}]

NoJob == [running |-> FALSE, left |-> {}, wrote |-> {}]

Init ==
    /\ view = TodayView
    /\ loads = {Load(view, FALSE)}
    /\ shown = [view |-> view, seen |-> {}]
    /\ coveredKeys = {}
    /\ fetches = [v \in Views |-> NoFetch]
    /\ job = NoJob
    /\ stored = {}
    /\ moves = 0 /\ reloads = 0 /\ jobs = 0 /\ faults = 0
    /\ unseen = {}
    /\ awaited = {}

(* Mutant: a load keeps its generation. *)
StillCurrent(L) == L

(* Loads that are outdated: what they have not read yet matters to nobody.     *)
Superseded(L) == {[l EXCEPT !.current = FALSE, !.left = {}] : l \in L}

(* What RefreshEvents changes: the loads that are under way become outdated.    *)
(* A reload that such a load was to ask for is not asked for any more.         *)
RefreshEvents(v, forced, asked) ==
    /\ loads' = Superseded(loads) \cup {Load(v, forced)}
    /\ unseen' = {}
    /\ awaited' = IF \E l \in loads : l.current /\ l.forced THEN asked ELSE awaited \cup asked

-----------------------------------------------------------------------------
(* The window. *)

ShowRange(v) ==
    /\ moves < MaxMoves
    /\ moves' = moves + 1
    /\ view' = v
    /\ RefreshEvents(v, FALSE, {})
    /\ UNCHANGED <<shown, coveredKeys, fetches, job, stored, reloads, jobs, faults>>

OnToday ==
    /\ reloads < MaxReloads
    /\ reloads' = reloads + 1
    /\ view' = TodayView
    /\ RefreshEvents(TodayView, TRUE, Needed(TodayView))
    /\ UNCHANGED <<shown, coveredKeys, fetches, job, stored, moves, jobs, faults>>

First(cals) == CHOOSE c \in cals : \A d \in cals : c <= d

(* LoadEventsForVisibleRange reads calendar after calendar.                   *)
LoadReads(l) ==
    /\ l \in loads
    /\ l.left # {}
    /\ LET c == First(l.left)
       IN  loads' = (loads \ {l}) \cup
               {[l EXCEPT !.left = @ \ {c},
                          !.seen = @ \cup {p \in stored \cap Needed(l.view) : p[1] = c}]}
    /\ UNCHANGED <<view, shown, coveredKeys, fetches, job, stored, boundVars, historyVars>>

Fetching(v) == fetches[v].running

(* Mutant: the covered range is not fetched again, whatever was asked. *)
EnsureWithoutForce(v, forced) ==
    IF v \in coveredKeys \/ Fetching(v)
    THEN UNCHANGED fetches
    ELSE fetches' = [fetches EXCEPT ![v] =
             [NoFetch EXCEPT !.running = TRUE, !.forced = forced, !.cals = v.cals]]

(* EnsureVisibleRangeCoverageAsync, up to the start of the thread.             *)
EnsureVisibleRangeCoverage(v, forced) ==
    IF (~forced /\ v \in coveredKeys) \/ Fetching(v)
    THEN UNCHANGED fetches
    ELSE fetches' = [fetches EXCEPT ![v] =
             [NoFetch EXCEPT !.running = TRUE, !.forced = forced, !.cals = v.cals]]

(* Mutant: the result of an outdated load is shown. *)
LoadResultAnyway(l) ==
    /\ l \in loads
    /\ l.left = {}
    /\ loads' = loads \ {l}
    /\ shown' = [view |-> l.view, seen |-> l.seen]
    /\ EnsureVisibleRangeCoverage(l.view, l.forced)
    /\ UNCHANGED <<view, coveredKeys, job, stored, boundVars, historyVars>>

(* The result reaches the event loop, where an outdated one is dropped.         *)
LoadResult(l) ==
    /\ l \in loads
    /\ l.left = {}
    /\ loads' = loads \ {l}
    /\ \/ /\ ~l.current
          /\ UNCHANGED <<shown, fetches, awaited>>
       \/ /\ l.current
          /\ shown' = [view |-> l.view, seen |-> l.seen]
          /\ EnsureVisibleRangeCoverage(l.view, l.forced)
          /\ awaited' = IF l.forced /\ Fetching(l.view) THEN {} ELSE awaited
    /\ UNCHANGED <<view, coveredKeys, job, stored, boundVars, unseen>>

(* Reading has thrown, at whatever calendar: nothing is shown.                 *)
LoadFailed(l) ==
    /\ l \in loads
    /\ l.current
    /\ faults < MaxFaults
    /\ faults' = faults + 1
    /\ loads' = loads \ {l}
    /\ unseen' = AllNeeded
    /\ awaited' = {}
    /\ UNCHANGED <<view, shown, coveredKeys, fetches, job, stored, moves, reloads, jobs>>

-----------------------------------------------------------------------------
(* The coverage threads. *)

(* Quarter p is stored: whoever has read it before has read something older.    *)
Store(p) ==
    /\ stored' = stored \cup {p}
    /\ loads' = {[l EXCEPT !.seen = @ \ {p}] : l \in loads}
    /\ shown' = [shown EXCEPT !.seen = @ \ {p}]

(* A calendar whose rows cover the range is skipped; Google's have none.       *)
Skipped(c, v) ==
    Provider # "google" /\ ~fetches[v].forced /\ IsRangeCovered(c, v.from, v.to)

NextCalendar(v) ==
    /\ Fetching(v)
    /\ fetches[v].left = <<>>
    /\ fetches[v].cals # {}
    /\ LET c == First(fetches[v].cals)
       IN  \/ /\ Skipped(c, v)
              /\ fetches' = [fetches EXCEPT ![v].cals = @ \ {c}]
           \/ /\ ~Skipped(c, v)
              /\ fetches' = [fetches EXCEPT ![v].left = Buckets[v]]
    /\ UNCHANGED <<windowVars, coveredKeys, job, stored, boundVars, historyVars>>

(* Mutant: the last quarter decides for the calendar. *)
AfterLastBucket(f, ok, wrote) ==
    LET last == Len(f.left) = 1
    IN  [f EXCEPT !.left = Tail(@), !.wrote = @ \cup wrote,
                  !.success = TRUE,
                  !.cals = IF last THEN @ \ {First(@)} ELSE @,
                  !.any = @ \/ (last /\ ok),
                  !.all = @ /\ (last => ok)]

(* A thread f after a quarter; the calendar's last one decides about its flags. *)
AfterBucket(f, ok, wrote) ==
    LET last == Len(f.left) = 1
        allSucceeded == f.success /\ ok
    IN  [f EXCEPT !.left = Tail(@), !.wrote = @ \cup wrote,
                  !.success = last \/ allSucceeded,
                  !.cals = IF last THEN @ \ {First(@)} ELSE @,
                  !.any = @ \/ (last /\ allSucceeded),
                  !.all = @ /\ (last => allSucceeded)]

(* fetchAndStoreRemoteEventsInRange, one quarter.                              *)
FetchBucket(v) ==
    /\ Fetching(v)
    /\ fetches[v].left # <<>>
    /\ LET p == <<First(fetches[v].cals), Head(fetches[v].left)>>
       IN  /\ \/ /\ p[1] \notin Unreadable
                 /\ Store(p)
                 /\ fetches' = [fetches EXCEPT ![v] = AfterBucket(@, TRUE, {p})]
                 /\ UNCHANGED faults
              \/ /\ p[1] \in Unreadable \/ faults < MaxFaults
                 /\ faults' = IF p[1] \in Unreadable THEN faults ELSE faults + 1
                 /\ fetches' = [fetches EXCEPT ![v] = AfterBucket(@, FALSE, {})]
                 /\ UNCHANGED <<stored, loads, shown>>
           /\ awaited' = awaited \ {p}
    /\ UNCHANGED <<view, coveredKeys, job, moves, reloads, jobs, unseen>>

CoverageThrows(v) ==
    /\ Fetching(v)
    /\ fetches[v].cals # {}
    /\ faults < MaxFaults
    /\ faults' = faults + 1
    /\ fetches' = [fetches EXCEPT ![v].error = TRUE, ![v].all = FALSE,
                                  ![v].cals = {}, ![v].left = <<>>, ![v].success = TRUE]
    /\ awaited' = {}
    /\ UNCHANGED <<windowVars, coveredKeys, job, stored, moves, reloads, jobs, unseen>>

(* Mutant: the window is refreshed until everything is covered. *)
CoverageResultRetries(v) ==
    /\ Fetching(v) /\ fetches[v].cals = {}
    /\ fetches' = [fetches EXCEPT ![v] = NoFetch]
    /\ coveredKeys' = IF fetches[v].all THEN coveredKeys \cup {v} ELSE coveredKeys
    /\ RefreshEvents(view, FALSE, {})
    /\ UNCHANGED <<view, shown, job, stored, boundVars>>

(* The thread's result reaches the event loop.                                *)
CoverageResult(v) ==
    /\ Fetching(v) /\ fetches[v].cals = {}
    /\ fetches' = [fetches EXCEPT ![v] = NoFetch]
    /\ coveredKeys' = IF fetches[v].all THEN coveredKeys \cup {v} ELSE coveredKeys
    /\ \/ /\ fetches[v].any /\ ~fetches[v].error
          /\ RefreshEvents(view, FALSE, {})
       \/ /\ fetches[v].error \/ ~fetches[v].any
          /\ unseen' = unseen \cup fetches[v].wrote
          /\ UNCHANGED <<loads, awaited>>
    /\ UNCHANGED <<view, shown, job, stored, boundVars>>

-----------------------------------------------------------------------------
(* The upload worker: RunJob's fetchRangeForAccount, for all calendars and the   *)
(* range RefreshEvents gave the session, and HandleEventUploadResult.          *)

JobStarts ==
    /\ ~job.running
    /\ jobs < MaxJobs
    /\ jobs' = jobs + 1
    /\ job' = [running |-> TRUE, left |-> Cals \X ToSet(Buckets[view]),
               wrote |-> {}]
    /\ UNCHANGED <<windowVars, coveredKeys, fetches, stored, moves, reloads, faults, historyVars>>

JobFetches ==
    /\ job.running
    /\ \E p \in job.left :
           /\ \A q \in job.left : p[1] < q[1] \/ (p[1] = q[1] /\ p[2][1] <= q[2][1])
           /\ \/ /\ p[1] \notin Unreadable
                 /\ Store(p)
                 /\ job' = [job EXCEPT !.left = @ \ {p}, !.wrote = @ \cup {p}]
                 /\ UNCHANGED faults
              \/ /\ p[1] \in Unreadable \/ faults < MaxFaults
                 /\ faults' = IF p[1] \in Unreadable THEN faults ELSE faults + 1
                 /\ job' = [job EXCEPT !.left = @ \ {p}]
                 /\ UNCHANGED <<stored, loads, shown>>
    /\ UNCHANGED <<view, coveredKeys, fetches, moves, reloads, jobs, historyVars>>

JobThrows ==
    /\ job.running
    /\ faults < MaxFaults
    /\ faults' = faults + 1
    /\ job' = NoJob
    /\ unseen' = unseen \cup job.wrote
    /\ UNCHANGED <<windowVars, coveredKeys, fetches, stored, moves, reloads, jobs, awaited>>

HandleEventUploadResult ==
    /\ job.running
    /\ job.left = {}
    /\ job' = NoJob
    /\ RefreshEvents(view, FALSE, {})
    /\ UNCHANGED <<view, shown, coveredKeys, fetches, stored, boundVars>>

-----------------------------------------------------------------------------
LoadNext(l) == LoadReads(l) \/ LoadResult(l) \/ LoadFailed(l)

CoverageNext(v) ==
    \/ NextCalendar(v)
    \/ FetchBucket(v)
    \/ CoverageThrows(v)
    \/ CoverageResult(v)

JobNext == JobFetches \/ JobThrows \/ HandleEventUploadResult

Next ==
    \/ \E v \in Views : ShowRange(v)
    \/ OnToday
    \/ \E l \in loads : LoadNext(l)
    \/ \E v \in Views : CoverageNext(v)
    \/ JobStarts
    \/ JobNext

Spec == Init /\ [][Next]_vars

(* Every thread runs to its end and its result is handled; nobody has to use    *)
(* the window, no pass has to start, and nothing has to fail.                 *)
FairSpec ==
    /\ Spec
    /\ WF_vars(\E l \in loads : LoadReads(l) \/ LoadResult(l))
    /\ \A v \in Views : WF_vars(CoverageNext(v))
    /\ WF_vars(JobNext)

-----------------------------------------------------------------------------
TypeOK ==
    /\ view \in Views
    /\ \A l \in loads :
           /\ l.view \in Views
           /\ l.forced \in BOOLEAN /\ l.current \in BOOLEAN
           /\ l.left \subseteq l.view.cals
           /\ l.seen \subseteq Needed(l.view)
    /\ Cardinality({l \in loads : l.current}) <= 1
    /\ \A l \in loads : l.current => l.view = view
    /\ shown.view \in Views /\ shown.seen \subseteq Needed(shown.view)
    /\ coveredKeys \subseteq Views
    /\ \A v \in Views :
           /\ fetches[v].running \in BOOLEAN
           /\ fetches[v].cals \subseteq v.cals
           /\ fetches[v].wrote \subseteq Needed(v)
           /\ fetches[v].left # <<>> => fetches[v].cals # {}
    /\ job.running \in BOOLEAN /\ job.left \cup job.wrote \subseteq AllNeeded
    /\ stored \subseteq AllNeeded
    /\ moves \in 0..MaxMoves /\ reloads \in 0..MaxReloads
    /\ jobs \in 0..MaxJobs /\ faults \in 0..MaxFaults
    /\ unseen \subseteq AllNeeded /\ awaited \subseteq AllNeeded

(* isRangeCovered says yes exactly when every moment of the range lies in a row *)
(* of the table: quarters that touch leave no gap, also at New Year, a quarter   *)
(* that is missing does; and the quarters fetched for a range cover it.         *)
CoverageExact ==
    \A c \in Cals, v \in Views :
        /\ {c} \X ToSet(Buckets[v]) \subseteq stored => IsRangeCovered(c, v.from, v.to)
        /\ IsRangeCovered(c, v.from, v.to) <=>
               \A t \in v.from..(v.to - 1) :
                   \E p \in stored : p[1] = c /\ t \in p[2][1]..(p[2][2] - 1)

(* A range that is never asked for again has been stored as a whole, for all    *)
(* the calendars on show, however threads for overlapping ranges mix.          *)
CoveredIsStored == \A v \in coveredKeys : Needed(v) \subseteq stored

AtRest ==
    /\ loads = {}
    /\ \A v \in Views : ~Fetching(v)
    /\ ~job.running

(* When no thread is left, the window shows its own range as the threads stored *)
(* it last, unless a thread stored something and failed, or a read failed.     *)
ShownIsStored ==
    AtRest => /\ shown.view = view \/ unseen = AllNeeded
              /\ stored \cap Needed(view) \subseteq shown.seen \cup unseen

(* The Today button makes the program fetch the range again, covered or not,   *)
(* unless another refresh overtakes it or the range is being fetched already.  *)
ReloadHappens == AtRest => awaited = {}

(* Refreshing the window and covering its range cause each other, but not      *)
(* without end: when nobody uses the window, all threads end.                 *)
FetchesEnd == <>[]AtRest
=============================================================================
