# Verification of the calendar's synchronisation

The program (`src/code`) is a desktop calendar: a wxWidgets window, one SQLite
database, and Google and Microsoft accounts whose calendars are kept in the
database and synchronised in the background. This directory holds TLA+ models
of it, the TLC configurations that check them on small instances, and proofs
that hold for every instance.

Contents: 1 the system, 2 the plan, 3 the upload scheduler, 4 the events of a
Google calendar, 5 the events of an Outlook calendar, 6 the list of calendars,
7 accounts, 8 ranges and what the window shows, 9 recurring events of a local
calendar, 10 changed instances of a remote series, 11 the runs, 12 what is
proved, 13 what the checks say about the code, 14 what is not modelled.

`tlc -config X.cfg M` runs one check of section 11. `tlapm M.tla` checks the
proofs of `UploadSchedulerProofs`, `GoogleEventSyncProofs`,
`OutlookEventSyncProofs`, `CalendarListProofs`, `AccountSessionsProofs`,
`RangeLoadingProofs`, `RecurringSeriesProofs` or `RecurrenceOverridesProofs`.

## 1. The system

Paths are below `src/code/src`.

| Part | State | Operations | What makes it correct |
|---|---|---|---|
| Upload scheduler, `sync/event_upload_scheduler.cpp` | `sessions_`, `jobs_`, `queuedAccountIds_`, `running_`, `stopping_`, a worker thread, a timer | Start, Stop, UpsertSession, RemoveSession, QueueAccount, QueueAllSignedInAccounts, RunAllSignedInAccountsNow, WorkerLoop, RunJob | no account queued twice, one job at a time, closing ends and has served everybody, nobody starves |
| Event synchronisation, `sync/calendar_sync_service.cpp`, `sync/calendar_sync_internal.h` | the events table; a pass keeps a copy of the rows it sent | syncPendingEvents, CanCompletePendingUpload, PersistRemoteEvent, override upload | a saved change stays pending until the server has it; nothing is marked SYNCED that was not served |
| Google service, `sync/google_calendar_sync_service.cpp` | covered quarters | batch upload, range fetch, reconciliation with the list | a range is stored as the server has it, local changes excepted |
| Outlook service, `sync/outlook_calendar_sync_service.cpp` | delta links per bucket | upload, delta fetch, full refetch | no removal is lost, a bucket never gets stuck |
| Calendar list, `sync/calendar_sync_service.cpp`, `sync/account_auth_operations.cpp` | the calendars table | upload and deletion of calendars, fetchRemoteCalendars, syncCalendarsIncremental | no calendar lost that exists, no deleted one resurrected, both sides agree in the end |
| Event repository, calendar repository, `repositories/` | rows, unique keys, cascades | upsert, updateById, upsertRemoteSnapshot, soft and hard deletion, pending queries | one row per provider id |
| Account life cycle and tokens, `sync/account_auth_operations.cpp`, `utils/access_token.cpp` | accounts table, cached access tokens, refresh tokens | add, silent and foreground activation, refresh, removal | a removed account stays removed; an expired token is not used |
| Range coverage, `repositories/calendar_sync_range_repository.cpp`, `ui/local_calendar_app.cpp` | covered ranges, `coverageFetchKeys_`, load generations | ensure coverage, merge ranges, load | a range that is said to be covered was fetched; the newest load wins |
| Recurrence, `models/rrule.cpp`, `events/*`, override tables | masters, overrides | expansion, splitting, overrides | an occurrence is shown exactly once |
| Main window, `ui/local_calendar_app.cpp`, `ui/event_editor_dialog.cpp` | what is loaded and shown | the user's changes, handlers of posted results, closing | works on copies; a save must not undo what arrived meanwhile |
| Text parser, iCalendar, time zones | none | conversions | - |
| OAuth, HTTP, account services, crypto, paths | none that matters | requests, files | - |

**How they interact.** The UI thread runs the window's handlers one at a time.
The scheduler owns one worker thread; adding or activating an account, fetching
a range that is not covered, loading events, and the final pass of closing run
on detached threads. Scheduler state is shared under `mutex_`. Everything else
the threads share goes through the database: each thread opens its own
connection, a savepoint is the only unit of atomicity, and no thread holds one
across a request. Threads report to the UI with posted callbacks.

**What is hard.** Rows are read, sent, and written again after the answer, so
every write may be based on an old copy. A list fetched from the server is
older than the table it is merged into. A lost answer makes the next pass
repeat what was done. Errors that arrive as JSON are not always told from
answers. Two threads may fetch one calendar, or merge the list of one account,
at the same time. Closing must wait for the worker and must not wait for ever.
`PROJECT.json` lists these hazards with their lines and the properties that
cover them.

## 2. The plan

In the order of what a user would lose:

| Step | Modules | Composition, abstract specification | State |
|---|---|---|---|
| 1 | `UploadScheduler`, `SyncRequests` | the scheduler implements the request service `SyncRequests` | checked, safety and refinement proved |
| 2 | `GoogleEventSync` | window, uploader, fetches and server on one events table | checked, safety proved |
| 3 | `CalendarListSync` | window, job, sign-in and server on one calendars table | checked, safety proved |
| 4 | `OutlookEventSync` | window and uploader are those of step 2 (`G == INSTANCE`); delta links instead of lists | checked, safety proved |
| 5 | `RangeLoading` | loads, coverage threads and the worker on one table of ranges | checked, safety proved |
| 6 | `AccountSessions` | sign-in, restoring, job and coverage threads on one accounts table; `uploads` is the `sessions` of step 1 | checked, safety proved |
| 7 | `RecurringSeries` | the recurring edits and the expansion, against what the rule says | checked, safety proved |
| 8 | `RecurrenceOverrides` | window, uploader, fetch and server on the overrides of a series | checked, safety proved |

What is left: one abstract specification of a replicated calendar that steps 2 and
4 both implement. It would have to name the moments at which a change is lost, and
those differ between the two services.

Runs stay few: one safety run and one liveness run for a component, often in
one, and one for a statement of the documentation that the code does not meet.
No module uses a RECURSIVE operator, since all are proved about.

## 3. The upload scheduler (`UploadScheduler`, `SyncRequests`)

One action is one critical section of `mutex_`, or the code between two. The
variables carry the names of the members: `sessions`, `jobs`,
`queuedAccountIds`, `running`, `stopping`; `periodicDue` says that
`nextPeriodicSync` has passed. `worker` and `closer` are program counters of
the worker thread and of closing; `phase` and `current` are those of `RunJob`,
which both may call. `account` is the accounts table as far as this component
needs it: an id is never used twice (AUTOINCREMENT), which is what makes
`RemoveSession` correct although it clears the flag and leaves the job.
`uiRemoving` splits the handler that removes an account into its two effects,
the deletion of the row and `RemoveSession`, because the worker runs between them.

| Code | Actions |
|---|---|
| `Start`, `UpsertSession`, `RemoveSession`, `QueueAccount`, `QueueAllSignedInAccounts` | of the same names |
| `WorkerLoop` | `WorkerStarts`, `WorkerWakes`, `WorkerTakesNext`, `WorkerEndsBurst`, `WorkerSeesStop`, `IntervalElapses` |
| `RunJob` | `JobLookup` (session found, or return), `JobSync` (everything until it returns or throws) |
| `Stop` | `StopClears` (under the lock), `StopJoins` |
| `OnClose` and the final pass | `OnCloseWithFinalSync`, `OnCloseAtOnce`, `RunAllCollects`, `RunAllTakes`, `RunAllKeepsResult`, `RunAllReturns`, `Destroy` |

`sessions_` is an unordered_map: queueing everybody appends the accounts in any
order (`Orderings`).

`QueueAccount` is public and has no caller. `QueueCallers` names the accounts
it may be called for: all of them in the safety run, none in the liveness run.
The difference matters. With the calls the window makes, every burst has queued
everybody, so resetting the timer after a burst hurts nobody
(`SignedInIsServed`). If one account were queued alone again and again, bursts
would keep resetting the timer and the others would never be served.

`SyncRequests` is what other parts rely on: a set of requested accounts, at most
one being served, a final pass after the worker is gone. `ImplementsRequests`
is the refinement, with the queue mapped to its set.

## 4. The events of a Google calendar (`GoogleEventSync`)

Four actors on one table `row` and one server calendar `remote`:

- the window (`CreateEvent`, `OpenEventDialog`, `SaveEvent`, `ReadForDelete`,
  `DeleteEvent`, `SoftDelete`, `SoftDeleteAllByCalendar`): dialogs are modal, other
  threads are not, so the editor holds a `snap` and writes it back;
- `syncPendingEvents`: `ReadPending` copies the rows to `pending`; each request is
  applied and answered (`ServerAccepts`), applied and not answered
  (`ResponseLost`) or refused (`ServerRejects`); `CheckResult` is
  `CanCompletePendingUpload`, `WriteResult` the write it allows, two steps because
  the code makes no transaction of them; `WriteThrows` is the UNIQUE constraint
  ending the pass;
- one or two fetches: `ListRange` (or `MisreadRange`), `PersistRemoteEvent` for each
  event, `SelectMissing` and `DeleteMissing` for `ReconcileGoogleRangeSnapshot`;
- somebody else using the calendar (`RemoteCreates`, `RemoteEdits`, `RemoteDeletes`).

Content is a stamp, a new one for each write, so comparing rows compares
everything but `updatedAt`, as the code does. An insert carries the row id as
`local_id` and a fetch may use it to find the row; `ForeignRows` are the ids that
events of another installation may carry by accident.

`owed` records what users have saved and neither the server has accepted nor the
user has replaced. `EditKept` says, for the rows outside `ForeignRows`, that each
such write is still in its row and pending. It is not true without exception:
`Exposed` names the four moments at which the code overwrites a change unnoticed
(between the check and the write; while the row's insert is on its way; while the
server has another event with that `local_id`; while a fetch is about to delete the
row as missing). The property says there are no others.

## 5. The events of an Outlook calendar (`OutlookEventSync`)

The window and `syncPendingEvents` are those of `GoogleEventSync`, instantiated
as `G`; what differs is how the server's changes arrive. Time is cut into
quarters; `calendar_sync_ranges` keeps a delta link for each, and asking a link
gives what changed since. A link is modelled as the set of events it will
report: `ServerSteps` adds an event to every link of the quarters it was in or is
in now, also to the links that threads have read (`pull.link`) and to those that
came with an answer and are not stored yet (`pull.fresh`).

| Code | Actions |
|---|---|
| `FetchAndPersistOutlookBucket` | `FetchInRange` (the range is read), `FetchDelta` (the answer), `UpsertRange` or `GiveUp` |
| `ResolveRemovedOutlookEvent` | `ResolveRemoved`: an @removed event is looked up, it may have moved to another quarter |
| `PersistRemoteEvent` | of the same name; no `local_id` comes back, so a row is found by provider id only |
| a page that is not answered with success | `FetchFails`: what came before it is stored, the link is not |
| `transactionId` | `MadeBefore`, `ServerRepeats`: a repeated POST is answered with the event it made before |
| an expired delta token | `TokenExpires`: the link is refused from then on and nothing clears it |

`Mirrored` is what makes deltas work: what a stored link will not report again is
in the table. The code keeps it but for four things that `stale` names: a
thread stores an event that another heard later news of (`overtaken`), a
removal whose look-up failed is skipped although the link is stored, the first
listing of a quarter is not compared with what the table has, and an editor opened
before the insert's answer writes over the row that has got its id meanwhile. `doubled` marks
changes made to the second row of one event, which comes to be when a
fetch runs between the POST and the write of its result. A row whose event was made
by another installation with a `transactionId` that is the id of a row here counts
as one, because that row may yet be answered with the same event; `EditKept`
speaks of the rows outside `ForeignRows`, as in section 4.

## 6. The list of calendars (`CalendarListSync`)

Deleting a row of the calendars table deletes the calendar's events, sent or
not, so the question is when rows are removed and whether deleted ones return.
The worker (`StartJob` ... `WriteReply`) uploads pending calendars one at a time and
writes its copy back without a check. Then, or on a sign-in thread instead, the
list is fetched (`ListCalendars`, `ListFails`, `ListMisread`) and merged in the steps
of `syncCalendarsIncremental`: `GetByAccount`, `GetPendingRemoteCalendars`,
`UpsertRemote` for each listed calendar, `DeleteAbsent` for each row of the copy
whose provider id is not in the list. The window edits `loaded`, the copy it shows,
which is reloaded by its own changes and by posted results. `UpdateCalendar` writes
the dialog's copy back with everything in it: one read before the upload's
answer takes the provider id from the row again, and `erased` remembers that.

`DeletionKept` and `CalendarsKept` state what the design can keep: a calendar
deleted while no thread holds a copy, and whose id no other row waits with,
stays marked until the server has deleted it; a row is removed only if the server
lost the calendar, if the list never vouched for it (older than the calendar, or
an error), or if its id was erased. `Converges` says that both sides agree once
users stop.

## 7. Accounts (`AccountSessions`)

One table of accounts, five kinds of threads that hold copies of its rows, and
the window. A refresh token is a number in the order of issue; the provider
may replace one when it is used (`GetToken`), and every replaced one works until
the user revokes the access (`Revoke`). Access tokens are left out: an
`AccessToken` object is the refresh token it has now, and since the code shares it
by `shared_ptr`, sessions and threads hold its number.

| Code | Actions |
|---|---|
| adding an account, logging in again | `AddAccount`, `LogIn`, `SignsIn`, `SignInFails`, `AddStores` |
| `RunActivate`, `RunSilentActivate` | `RestoreNext`, `Activate`: `Refreshes` or `RefreshFails`, then `StoreRotated` and `StoreUserInfo` write the thread's copy of the account, then a result is posted |
| handlers of the window | `HandleResult`, `UpdateSessions`, `DeleteAccount` |
| `RunJob` | `JobStarts`, `JobReads`, `JobStores`: the account is read, compared and written back in two steps |
| | `JobReads` may also end the job without storing: `RunJob` returns early without an access token, and an exception takes it to its end |
| the coverage threads | `CoverStarts`, `CoverReads`, `CoverStores`: likewise |
| end and start of the program | `Restart`, at any moment; only the database remains |

`Upsert` finds a row by provider and user or inserts one with the next id. So a
thread that writes an account the user has just removed inserts it again, under a new
id and without calendars. `RemovedStaysRemoved` says that this happens only if a
thread was about to write (`exposed`); `StoredTokenWorks` that a working token is
replaced by one that does not only if a thread had an older token during the sign-in
(`overlapped`); `SessionsAreAccounts` that what the scheduler uploads for is in the
table and has a token of its user; `SignInEnds` that no account is shown as signing
in for ever.

## 8. Ranges and what the window shows (`RangeLoading`)

`RefreshEvents` starts a thread that reads the database; showing its result starts
the coverage thread, which fetches the quarters that are missing and posts a result
that calls `RefreshEvents` again. The worker fetches the shown range after
each pass and refreshes too. A load of an older generation is dropped (`current`);
a range that has been covered completely is not asked for again (`coveredKeys`); a
range that is being fetched is not fetched twice (`fetches`).

Time is counted in half months, 48 being 1 January of a year, which is enough for
quarters, months and a view that crosses New Year. The two services compute
quarters differently and both are translated; `Provider` chooses.
`BucketsForRange` is the loop that collects the quarters of a range, one turn after
the other. `IsRangeCovered` is the repository's walk over the rows of its query
(`RowsInRange`).

`CoverageExact` compares that walk with its meaning, moment by moment.
`CoveredIsStored` says that a range not asked for again was stored for all its
calendars, `ShownIsStored` that the window shows in the end what was stored (but
for `unseen`, what a thread stored before it failed), `ReloadHappens` that the
Today button fetches (but for reloads that are overtaken), `FetchesEnd` that
refreshing and covering, which start each other, stop when nobody uses the window.

## 9. Recurring events of a local calendar (`RecurringSeries`)

A series is a master with a rule. "This and following" splits it into segments,
masters that share `recurrence_group_id`; "only this instance" leaves an override
and an event of its own; with "Does not repeat" the master becomes a SINGLE row, which
is shown as it is and may repeat again later. What is hard is a sequence of edits, a
time zone that puts an instance on another day than UTC does, and rules that end by
COUNT or UNTIL. The rows of a local calendar change by the user's edits alone;
that loads replace the ids by which the window finds a master is in section 14.

Days are numbers (day 1 is a Monday), a day has `DayTicks` ticks, the display is
`Zone` ticks ahead. `ShownOn(d)` is what `AddRecurringOccurrences` computes for one
day on its own: the query's window, the match, the count, the overrides.

| Code | Definitions |
|---|---|
| the editor: `LoadInitialValues`, `BuildRecurrenceRule`, the date controls | `LoadInitialValues` and `Choices` are what the repeat controls hold, `BuildRecurrenceRule` what is saved: interval 1, the weekday of the start, UNTIL at the end of a UTC day, or `NoRule`. `MovedFrom` and `Times` are the day and time the user sets. |
| `ApplyRecurringEdit`, one instance | `DeleteInstance`, `ChangeInstance` (a changed rule, or none, is written to the master first: `Ruled`) |
| this and following | `DeleteFollowing`, `ChangeFollowing`: the new segment starts on any day the user sets, before the split too |
| entire series | `ChangeSeries` (from an occurrence: the first day is kept), `MoveMaster` (the master itself, found by search), `DeleteSeries` |
| rows without a rule, changed instances | `SaveSingle`; `DeleteChanged` |

`ShownAsRuled` compares each day with the rule counted from the start of the series
(`OccurrenceDays`), for masters without an instance across midnight.
`OncePerDay` says that segments never show a day twice. It excepts segments that may
reach over another one (`reaching`): an ended segment that got a later end with
a change of one instance, a new segment moved to a day before the split or split at a start the
series does not show, a row that repeats again after it had no rule, and what is
split from these; an edit of the entire series ends the exception. `CancelledStaysHidden`
says that a deleted instance is not shown again by the rule of its row, also when the
rule was removed and given back; the plain row itself is shown where it is (section 13).
`ScopeRespected` says what an edit must leave alone: deleting an instance the other days,
splitting the days before the split and before the day it is moved to, unless the edit
changes the frequency, the interval or the weekdays (`SamePattern`), which the code
writes to the whole segment.

## 10. Changed instances of a remote series (`RecurrenceOverrides`)

The user's change of one instance is a row of `recurrence_overrides`, and for a
changed one a row of events that replaces it. `syncPendingEvents` sends pending
overrides after the pending events, one by one. The model has one master, on the
server from the start and never deleted; `masterPending` stands for any pending
event, because a pass with none returns before the overrides.

| Code | Actions |
|---|---|
| window | an occurrence is loaded, computed or stored (`ShowComputed`, `ShowStored`), and stays in `shown` until the next is; changing or cancelling it (`ChangeOccurrence`, `CancelOccurrence`, `ChangeStored`, `CancelStored`), editing a replacement, deleting it, changing the series (`UserNext`) |
| `syncPendingEvents` | `ReadPending`, then `PassStep`: batch, results, overrides; for each override the request, the write of the exception's id to the replacement, the mark. A 404 is taken for an acceptance (`ServerMissesInstance`) |
| fetch | `FetchLists`, `PersistException`, `PersistCancelled`, `SkipInstance`, `PersistPlain` |
| elsewhere | `RemoteWrites` |

Saving looks at the loaded occurrence only, whatever threads and earlier saves have made of
the instance since; it may leave a row behind that it does not know (`left`).
`plain` are replacements the server took for events of their own, which happens to
one that is edited before its override is sent. `owed` is the user's change
until the server has it; it is given up at the moments at which the code
drops it, which section 13 lists, and `InstanceChangeKept` says that there are no
others. `ShownOnce` says that the rows that stand for an instance, those linked to it and
those not uploaded yet, are the replacement its override names: there is one at most, and
the series, which leaves out overridden instances, does not show it too. The instances in
`left` are excepted. `OverridesUploaded`
is liveness under the assumption that events go on being changed
(`[]<>masterPending`), which is what the early return makes necessary, and excepts the
passes that a second row of an instance ends (`Blocked`).

## 11. The runs

| Run | Instance | What it shows |
|---|---|---|
| `SchedulerSafety` | 3 accounts, symmetric | queue discipline, one runner, complete final pass, nothing taken after Stop, and the invariant of the proofs |
| `SchedulerLiveness` | 2 accounts | refinement of `SyncRequests`; closing ends; queued and signed-in accounts are served |
| `EventSyncSafety` | 2 rows, 2 provider ids, 3 writes, 1 fetch at a time, 1 fault, row 1 may be named by foreign events | `SyncedWasServed`, `EditKept`, `WritesNeverConflict`, and the invariants of the proofs (`IInv`, `KeptInv`) |
| `EventSyncDelivery` | 3 rows, 2 writes, fairness | `EditDelivered` |
| `EventSyncEditLost` | as small as possible | violated, section 13 |
| `CalendarListSafety` | 3 rows, 2 calendars, worker and sign-in, 2 changes | `TypeOK`, `DeletionKept`, `CalendarsKept` |
| `CalendarListConverges` | 5 rows, worker, 3 changes, 1 fault, fairness | `Converges` |
| `OutlookSafety` | 2 rows, 1 event id, 1 quarter that events leave and enter, worker and a coverage thread, 2 writes, 1 fault, row 2 may be named by foreign events | `Mirrored`, `EditKept`, `UniqueProviderIds` |
| `AccountSafety` | 2 users, 3 ids, 1 coverage thread, 3 tokens, 3 token objects, 1 revocation, 1 restart, fairness | `SessionsAreAccounts`, `RemovedStaysRemoved`, `StoredTokenWorks`, `SignInEnds` |
| `RangeLoading` | 2 Outlook calendars, one unreadable; 2 views that share a quarter, one across New Year; a move, a reload, a pass and a fault; fairness | `CoverageExact`, `CoveredIsStored`, `ShownIsStored`, `ReloadHappens`, `FetchesEnd` |
| `RecurringSeries` | 5 days across a week's end, 3 ticks a day, the display 1 tick ahead, 2 times of day (one on the day before in UTC), moves by a day back or none, 2 initial rules, the editor's controls left alone or set to no rule or to a rule with an end, 3 segments, 3 edits | `OncePerDay`, `CancelledStaysHidden`, `ShownAsRuled`, `ScopeRespected` |
| `RecurrenceOverrides` | 2 instances, both changed elsewhere too, 2 rows, 2 writes, 2 faults, fairness | `TypeOK`, `InstanceChangeKept`, `ShownOnce`, `OverridesUploaded` |

**Bounds.** `MaxStamp` bounds what users write, here and elsewhere together;
`MaxFaults` bounds lost responses, failed requests and misread errors; refusals are
unbounded. `Rows`, `Pids` and `Ids` bound the tables; a row id that nothing
refers to any more is reused, which a state cannot tell from a fresh one (account
ids are counted up, since reuse is what the proofs exclude). An
action that would need another id, stamp or token is disabled. Two events are
enough for the races: each is between one write and one answer or list, and the
second event is there for the constraint and for `local_id`. Three writes allow
create, edit and delete of one event, and an edit on each side plus a deletion.
Three accounts let one be removed, one be queued and one run.
`CalendarListConverges` has five rows, because copies of removed rows (in
the window, in the pass, in the merge) keep their ids in use. Outlook's second
row, with one event id, is for the second row of an event; one quarter is enough,
because moving to another quarter is leaving this one. Three account ids let
one user be removed, return and be inserted again. Three edits of a series split
it twice, combine a split with a change and a deletion, or delete an instance, take the
rule away and give it back; moving back by a day is what puts a new segment before its
split. Two writes to the instances of a series are a change here and one elsewhere, or two
saves of one loaded occurrence, which are the races of section 10; the invariants of
`RecurrenceOverrides` also hold with three (2 million states without the fairness), and
are proved for any number. Two fetches
of one calendar at a time, and any foreign ids, are covered by the proofs and
have no run. `TypeOK` of `OutlookEventSync`, `RangeLoading` and `RecurringSeries`
holds in these instances too and is not listed.

**Deadlock** is checked for the scheduler, whose only final state is `Terminated`.
The other models end when users have made their writes and nothing is pending,
so their configurations switch the check off.

**Fairness.** Threads run: weak fairness of each thread's actions, and of the UI
handler that has begun or is posted. The timer fires. `RunJob` ends: no request
has a timeout in the code, so this is an assumption about the network. A sign-in
ends, because the browser is waited for three minutes at most. For the
delivery properties a server that keeps being asked answers in the end: strong
fairness of `ServerAccepts` and `ListCalendars`, because passes and refusals
alternate. `OverridesUploaded` needs no such assumption, because refused
requests are counted as faults there. Users owe the program nothing: none of
their actions is fair.

Each property has a mutant in `PROJECT.json`: an operator next to the one it
replaces, such as a dropped check, under which the run fails.

## 12. What is proved

**`UploadSchedulerProofs`** proves, for every finite set of accounts:

- `Inductive`: `IInv` always holds; with it `TypeCorrect`, `QueueDisciplineHolds`,
  `OneRunnerHolds`, `FinalPassCompleteHolds`;
- `StoppedTakesNoJobHolds`, the action property;
- `Refinement`: the scheduler implements `SyncRequests`.

The assumptions are those of `AccountsAssumption` (the ids are finitely many,
`NoAccount` is none of them). `IInv` is `TypeOK` and three parts.

*QueueInv.* "`queuedAccountIds` are the queued accounts that have a session" is not
inductive alone: `UpsertSession(a)` with a job of `a` left behind would break it.
It holds because such a job belongs to a deleted account, and
only a present account gets a session. The part says exactly that, and
that the account being removed by the UI thread is already deleted.

*RunnerInv.* `OneRunner` needs to know where the threads are: the worker is inside
`RunJob` only in `working`, the closer only in `final`, and from `collect` on the
worker has exited.

*CloseInv.* `FinalPassComplete` follows the accounts owed a final run: among the
sessions until they are collected, among `finalTodo` until they are run. It needs
`uiRemoving` to be empty from the close on, or an account could leave `sessions`
between.

`SchedulerSafety` checks `IInv` with TLC. The sequences make the lemmas:
appending an ordering of new accounts keeps the queue free of
duplicates, and popping its head removes exactly that account.

**`GoogleEventSyncProofs`** proves, for any tables, any number of concurrent
fetches and any foreign events, `Inductive` (`IInv` always holds), and with it
`TypeCorrect`, `UniqueProviderIdsHolds` and `SyncedWasServedHolds`. The assumptions
are those of `EventSyncAssumption`: ids are numbers, the null ids are none of
them. `IInv` adds one part, `CopiesInv`, to the properties themselves. They speak of
the table, and the table is written from copies: an answer in `results`, an event in
`seen`. `CopiesInv` says that whatever a copy holds the server has had under that
id; `ListInv`, that `todo` names only events that were listed. `BaseInv`, which is
`IInv` without `ListInv`, holds for the Outlook calendar too and is proved
separately. Unique ids then follow from the
look-ups before each write, one lemma for each way to write (`StoreKeeps`,
`ClearKeeps`, `UserWritesKeeps`); the two writes without one are those
`Conflict` guards.

Its second half proves `EditKeptHolds`: `EditKept` is an invariant, under
`EventSyncAssumption` alone. It speaks of the rows outside `ForeignRows`, since a fetch
may adopt a row whose id another installation's event carries. `KeptInv`, the
strengthening, has three parts.

*OutOfReach.* A change is lost by a write that was decided before it was saved. So
the invariant says, for a kept change, of each actor that might be about to
write: no event on the server or in a list names the row, unless it is the row's
own; no fetch has the row among its victims; the write that a check has allowed is
neither to this row nor with its provider id; and if the row's insert is on its way
it was sent as it is now.

*AnswerFits.* The check compares the row with what was sent, so it must be known
that an accepted copy is not owed any more, and that the id in the answer of an insert
(`OwnsAnswer`) is no other row's: the row may be found by it. An update's answer has
the id that was sent, and a deletion's has none.

*InUse.* Ids that rows and copies have are ids the server gave, so a new one
is found nowhere (`FreshId`); stamps do not exceed the clock, so what the user writes
is owed for the first time.

Each exception of `Exposed` is the negation of one part of `OutOfReach`, at the
moment of the user's write (`UserWritesSafe`): this is why there are no others.

`WritesNeverConflictHolds` needs to know which events a row may stand for, and that is
`SoleInv`. A row can come to stand for several events: an editor writes it back without
its provider id, it is inserted again, and answers, lists and copies of either event
are on their way. `SameName` says that all copies of an event carry one `local_id`.
`Sole(e)` says that if row `e` stands for several events, or for one whose id it has not
been given (`Several`), each of them was made by an upload of `e` itself, and no other
row, snapshot, pending copy or answer has its id (`OwnOnly`). So the id an
answer brings is in no other row.

**`OutlookEventSyncProofs`** proves `UniqueProviderIdsHolds`, `MirroredHolds` and
`EditKeptHolds` for any tables, buckets, foreign events and number of fetches, under
`OutlookAssumption`. The window and the pass are those of the Google calendar, so
their lemmas are taken over (`P == INSTANCE GoogleEventSyncProofs`; `SameBase` and
its like say that both names mean the same). `Shape` adds the types of links and of
what a thread has fetched. On it rest two arguments.

*AllKnown.* `Mirrored` speaks of links that are stored. `LinkKnown` says the same of
the link a thread has read and, for one that is still storing, that what its new link
will not report is in the table or still to be stored by it. `CopiesMirror` is what makes
this inductive: every older copy of the event, in a thread or an answer, is in
`overtaken`, so that its being stored is in `stale` when it happens.

*FirmHolds.* `OutOfReach` says of a change that is neither exposed nor doubled: the row's
requests have made no other event (`NamesNoOther`), the copy on its way to be inserted is the row
as it is (`AsRead`), the write a check has allowed goes elsewhere, and no other
row will be given the event's id (`OnlyRow`). The last is why `doubled` counts events with a
foreign `transactionId`. `IdsHold` says what becomes of ids: a row keeps the one it
has, and a pass knows it.

**`CalendarListProofs`** proves `TypeCorrect`, `DeletionKeptHolds` and
`CalendarsKeptHolds` for any numbers of rows, calendars and threads, under
`CalendarListAssumption`. The invariant follows the copies:

- a provider id is never given twice, so a calendar that was deleted on the server
  stays deleted, and a list that knows it is older than the deletion (`Later`,
  `ThreadOK`);
- no two rows have one provider id (`Unique`), and a copy of a row has the row's
  provider id or none (`SameRow`), so writing it back names no other calendar;
- a row deleted at an unexposed moment is in no thread's copy of the table, its
  calendar in no list to be merged, and a pass that holds it holds the deletion
  (`Guard`).

`SameRow` is why rows in `erased` are excepted: their id was written away.

**`AccountSessionsProofs`** proves `SessionsAreAccountsHolds` and
`RemovedStaysRemovedHolds` for any users, ids, threads and number of restarts, under
`AccountsAssumption`. What makes copies of accounts trustworthy is what never
changes (`Grows`): an id below `nextId` is one user's for ever, a token is its
owner's, and the token of an object may be replaced, but by one of the same owner.
`KnowsAccount`, `KnowsSession` and `Fits` say of every copy, in a thread, a post or
the scheduler, that it agrees with that. `NobodyWrites` says for a removed user that
was not exposed that no thread holds the account; it holds when the user is removed,
and no thread can take up an account that is not in the table.

`StoredTokenWorksHolds` follows from `FreshInv`. Revoking takes away all tokens a user
has, so a token works if an older one of the same user does, and it is enough
that none is stored that is older than the last sign-in's (`Fresh`). A sign-in makes every copy in
the window stale at once: what `loaded` and `sessions` still have may be old as long as
the posted result that will replace it is waiting (`Answered`), and since results are
handled in order, posts that are behind it were made after it. Copies in threads are
what `overlapped` is about: if the user is not in it, none of them is old.

`TypeCorrect` says that the ids given out are ids of the model, which is a matter of
counting (`CountInv`): an id is given to a user without an account, so
`nextId` and the users still without one never exceed the last id and the users of the
start. Here `BoundsAssumption` is needed, that `Ids` leaves one for everybody.

**`RangeLoadingProofs`** proves `CoverageExactHolds`, `CoveredIsStoredHolds`,
`ShownIsStoredHolds` and `ReloadHappensHolds` for any views, calendars and bounds, under
`ViewsAssumption`, `ProviderAssumption` and `BoundsAssumption`. The loops come first.
`BucketsForRange` returns the quarters that meet a range, one after the other, for
either service (`FollowingBucketIs` is the arithmetic of years), and the walk of
`IsRangeCovered` gets past a moment exactly if the rows so far cover it. Both are
shown without induction, by looking at the least turn that would fail.
The three arguments about threads are *FetchInv*, that what a coverage thread is done
with is stored as long as every calendar has been readable; *SeenInv*, that
whatever is stored of the range on show has been read by the current load, is shown,
or is known to a thread whose refresh is due; and *AwaitedInv*, that a quarter the
Today button waits for is still asked for by the current load or by a forced thread.

**`RecurrenceOverridesProofs`** proves `ShownOnceHolds` and
`InstanceChangeKeptHolds` for any instances, rows and number of faults, under
`OverridesAssumption`. `Shapes` is the type invariant in the form the steps need.
`Ties` says that a row belongs to one instance at most, whatever names it: its link,
an override, the server's `local_id`, an item of a listing, an override in the pass.
`PassInv` says that what the pass carries was read from the overrides. `Kept(i)` adds to
`InstanceChangeKept` where the pass is with an owed change: it has not read it, or
has read and sent it as it is, and no answer has accepted it yet.

`LeftInv` carries `ShownOnce`. Of an instance that is not in `left` it says (`Alone`) that a
living row that anything names for the instance is its row and nothing else: SYNCED, linked
to it or not uploaded, known to nobody as an event of its own, and named by the override.
So the replacement the pass links, the row a fetch stores an exception in and the one found by
`local_id` are the same row; that is what could have made two. Each action has a lemma
(`...Shown`) that takes every instance through one of a few cases: its rows are left as
they are (`AloneStays`), one is made its row (`AloneMade`), the last is taken
(`AloneEmptied`), or it enters `left`.

`TypeCorrect` adds that no two rows are one event or one instance. For that `OwnInv` follows
the replacements the server took for events of their own: such an event is known by the row
it was made of, and no other row stands for it. An id that such an event
still carries must therefore not be given to a new row, as AUTOINCREMENT sees to.

**`RecurringSeriesProofs`** proves `OncePerDayHolds`, `CancelledStaysHiddenHolds`,
`ShownAsRuledHolds` and `ScopeRespectedHolds` for any days, rules, ids and number of
edits and any display that is ahead of UTC by less than a day, under `DaysAssumption`.

*What a day shows.* The program expands five days to show one. `Shown` says what
comes of it: an occurrence is shown on day `d` exactly if its master's rule gives that
day (`Given`) and no override read for it suppresses it. The counts in it are of
finite sets of days: those before the window and those in it add up to those before `d`
(`CountSplits`). `GivenIsOccurrence` is the same for the count from the start, and with
`SuppressedByDay` it makes `ShownAsRuled`. There `NeverAcrossDays` is used:
without it an override of one day suppresses its neighbour.

*What edits leave.* `HiddenInv` says that a deleted day is the displayed day of an
override for as long as the row lives, whatever its time and rule are meanwhile, also
while it has none; it is why an override, and not a list of exceptions in the rule, keeps
instances away. `SegmentsInv` says of any two segments with a rule, neither of them
`reaching`, that one has ended before the other starts
(`Ends`: an UNTIL that lets no occurrence through from that day on). It is inductive
because a split ends the old segment before the start of the new one, deletes every
segment that starts later, and never moves a start; edits that do move one delete the
other segments or make the row `reaching`. The lemma for `ChangeFollowing` shows that a
new segment which starts no earlier than the occurrence it was split at, in a segment that
is not `reaching` itself, comes after the end of every other.

*What edits change.* `ShownKept` reduces `ScopeRespected` to the masters: a day shows the
same before and after if the same masters give it and the same overrides are read. A rule
that gets an UNTIL instead of its COUNT still gives the days before it what it gave them,
since a count only grows (`GivenBefore`), and so does one that is built anew with the same
pattern.

**Only model-checked.** All liveness (temporal reasoning under fairness is outside
the prover): `CloseCompletes`, `QueuedIsServed`, `SignedInIsServed`, `EditDelivered`, `Converges`,
`SignInEnds`, `FetchesEnd`, `OverridesUploaded`.

## 13. What the checks say about the code

One statement of the documentation has a run that shows the shortest way to break it.

- *Edits are sent* (`src/README.md:77`; run `EventSyncEditLost`). An edit saved while the
  event's insert is on its way fails the snapshot check, so the row stays
  PENDING_INSERT without provider id. The next fetch finds the event's own `local_id`,
  updates the row by id and marks it SYNCED. The edit is gone.

The following was met while modelling. The models contain it, and the properties
except exactly these cases.

*Events.*

- Rows marked deleted between the check and the write of an upload become SYNCED
  again; a row marked while its insert is on its way becomes PENDING_DELETE without
  provider id, which no pass selects (`ui/local_calendar_app.cpp:679`).
- An editor opened before the insert's answer writes the row back without its
  provider id. With Google the event is sent a second time. With Outlook the server
  knows the `transactionId` and answers with the event it has: the edit is lost.
- Outlook: a fetch between the POST and the write of its result makes a second row
  for the event, and every later pass that writes the result throws.
- Outlook: the first listing of a quarter is not compared with the table, so
  rows of events that are gone stay. An @removed event whose look-up fails is skipped
  although the link is stored. A delta token that has expired is never cleared, so
  its quarter is not fetched again. `transactionId` is made of local ids, which
  another installation may have used for the same account.

*Calendars.*

- A calendar that was created and not yet uploaded has no provider id; a list merged
  before the upload, as on a sign-in, removes it with its events, although the program
  is said to work offline (`src/README.md:22`).
- The status of a list's answer is not looked at; an error with a JSON body is an
  empty list and removes every calendar of the account
  (`sync/event_upload_scheduler.cpp:237`).
- A calendar dialog opened before the upload's answer writes the calendar back
  without its provider id. It is created on the server twice; a list read before, or
  the answer to a deletion, then removes the row that stands for the other one.

*Accounts.*

- An account removed while a thread is about to write it is inserted again, under a
  new id and without calendars.
- A coverage thread that started with an old token may overwrite the one a new
  sign-in has stored.

*Loading.*

- Google: with one unreadable calendar of two, a covered range is never marked so, and
  covering it and refreshing follow each other without end: `FetchesEnd` is violated
  with `Provider` `"google"`.
- What a coverage thread stored before it failed is not shown until the next
  refresh.
- The reload the Today button asks for is lost when another refresh overtakes it or
  the range is being fetched already.

*Series of a local calendar.*

- Cancelling an instance near midnight hides the instances of neighbouring days, if
  the display and UTC put it on different days.
- Each save builds the rule anew from the editor's controls (`ui/event_editor_dialog.cpp:169`):
  an interval and further weekdays are lost. If nothing else was changed the difference of
  the rules' texts makes it an edit of the entire series without a question
  (`ui/local_calendar_app.cpp:2711`), which deletes the other segments.
- The end of a rule is loaded as displayed and stored as the end of a UTC day: it may move
  on by a day with each save where the display is ahead of UTC.
- "This and following" with another rule gives the instances before it that rule too;
  with "Does not repeat" the whole old segment becomes a plain event. In a series that was
  split before, it deletes all later segments, and the new one ends where the old one did.
- "This and following" moved to an earlier day starts the new segment there, while the old
  one ends before the instance: the days between are shown by both (`:2659`). Deleting or
  splitting at a master found by search splits at its start, also if the series does not show it.
- Splitting a series that ends after a number of instances starts the count again.
- "Entire series", from a later segment, deletes the earlier ones; "Delete entire series"
  deletes only the segment. Both, and deleting the following instances, leave changed
  instances behind.
- A master whose rule is removed is shown as a plain event without a look at its
  overrides (`events/event_load_operations.cpp:214`): if its first instance was deleted,
  that instance returns.
- Another rule together with "only this instance" may give an ended segment a later end,
  also if the date of the end is left alone, because UNTIL is rounded up to the end of its day:
  it reaches over the next one.

*Changed instances of a remote series.*

- A pass with no event pending returns before the overrides
  (`sync/calendar_sync_service.cpp:240`), so a cancelled instance is not sent until an event is
  changed.
- An override is marked synced without a look at what was sent (`:314`): a change made
  between is never sent. A 404 answer counts as accepted
  (`sync/google_calendar_sync_service.cpp:616`): the change is given up and its replacement
  linked to an instance the server does not have.
- A fetch replaces a pending override by the server's exception.
- One instance is saved from the occurrence as it was loaded
  (`ui/local_calendar_app.cpp:2598`). If a fetch has stored an exception meanwhile, or the
  same occurrence is saved a second time, the instance has two rows and both are
  shown; when the second one's override is uploaded, the UNIQUE constraint throws after the
  server has taken the change, which ends this pass and every later one, so that overrides behind
  it wait too.
- A replacement edited before its override is sent becomes an event of its own, shown
  twice elsewhere; deleted then, it leaves an override that is never sent.
- Changing the entire series deletes stored changed instances; a pending change is
  lost and the instance hidden until the next fetch.
- A cancellation fetched over a replacement that is not uploaded leaves that row without an
  override: it is still shown.

## 14. What is not modelled

In `GoogleEventSync`: the limit of 500 rows in a pass, the streaming fetch (it
reconciles before its last flush), events that leave the fetched range, fields PATCH
omits because they are empty, moving an event to another calendar, imports. A range
is listed in one step, although its pages are requested one by one.

In `OutlookEventSync`: `ReconcileOutlookBucketSnapshot`, which is never called;
pages, but for the failure of one.

In `CalendarListSync`: colours, hidden calendars, read-only calendars, pages after
the first, local accounts, and the removal of the account.

In `AccountSessions`: the expiry of access tokens, users' names and pictures, local
accounts. In `RangeLoading`: `markRangeCovered`, which is never reached; more than one
account; search.

In `RecurringSeries`: MONTHLY and YEARLY rules (of several BYMONTHDAY only the first is
read), WKST (which the code ignores), daylight saving, events longer than a tick, and
series of remote calendars, whose instances are those of `RecurrenceOverrides`. Changed
instances (`changed`) are plain rows; only their deletion is modelled. An occurrence
names its master; in the code it has a negative id, and
`projectedOccurrenceMasterIds_` leads from it to the master at the moment of saving
(`ui/local_calendar_app.cpp:2460`). A load that ends while the editor is open replaces that map
(`:2027`), so the edit may reach another series or none; that needs several series and
loads, and no property covers it.

In `RecurrenceOverrides`: splitting and deleting the series, and Outlook's requests,
which differ in their addresses only. `SaveOwn` and `DeleteOwn` act on the row as it is: a
replacement that a pass links while its editor is open is not modelled here (the editor's
old copy of a row is in `GoogleEventSync`). Whether the server copies a master's `local_id` to its
exceptions is not known from the code; the model says it does not.

Whole parts: the parser of event texts, a pure function of a line; OAuth, HTTP, hashing
and paths, which are input and output; views and dialogs, which draw; the older copies
of `models` and `services` under `events` and `accounts`, which are not built; the
vendored libraries.
