--------------------------- MODULE CalendarListSync ---------------------------
(***************************************************************************)
(* The calendars of one remote account: the user creates, renames and       *)
(* deletes rows of the calendars table, RunJob uploads the pending ones     *)
(* (syncPendingCalendarsForAccount, UploadCalendarImpl, deleteRemoteCalendar)*)
(* and lists the server's calendars, signing in lists them too, and both    *)
(* give the list to syncCalendarsIncremental                                *)
(* (src/sync/calendar_sync_service.cpp, calendar_sync_internal.h,           *)
(* account_auth_operations.cpp, repositories/calendar_repository.cpp).      *)
(*                                                                          *)
(* Deleting a row cascades to the calendar's events, sent or not.  An       *)
(* action is one savepoint, one query, or one request the server handles.   *)
(* Content stands for name and description: a fresh stamp for every change. *)
(***************************************************************************)
EXTENDS Naturals, FiniteSets

CONSTANTS
    Rows,      \* ids of the calendars table
    Pids,      \* ids the server gives to calendars, in this order
    Threads,   \* threads that may synchronise this account
    Worker,    \* the upload scheduler's thread; the others sign in
    MaxStamp,  \* bound on the changes users make
    MaxFaults, \* bound on lost responses and on errors with a JSON body
    NoPid, NoRow

ASSUME CalendarListAssumption ==
    /\ Rows \subseteq Nat /\ NoRow \notin Rows
    /\ Pids \subseteq Nat /\ NoPid \notin Pids
    /\ Worker \in Threads
    /\ MaxStamp \in Nat
    /\ MaxFaults \in Nat

VARIABLES
    calendar,  \* the calendars table
    remote,    \* content of the server's calendars, 0 where there is none
    issued,    \* ids the server has given out
    clock,     \* changes users have made
    faults,    \* lost responses and JSON errors so far
    loaded,    \* accountCalendars_: what the window shows and edits
    pending,   \* pendingCalendars the worker has still to send, as it read them
    reply,     \* the row, and what the worker is about to write to it
    sync,      \* each thread: where it is, its list, what it read, what is left
    asked,     \* history: calendars the user asked to delete
    condemned, \* history: those of asked that were deleted at a safe moment
    erased     \* history: rows whose provider id the window wrote away

uploadVars == <<pending, reply>>
historyVars == <<asked, condemned, erased>>
vars == <<calendar, remote, issued, clock, faults, loaded, uploadVars, sync, historyVars>>

Stamps == 1..MaxStamp

Gone == [pid |-> NoPid, content |-> 0, deleted |-> FALSE, syncStatus |-> "GONE"]
RowType == [pid : Pids \cup {NoPid}, content : Stamps, deleted : BOOLEAN,
            syncStatus : {"PENDING_INSERT", "PENDING_UPDATE", "PENDING_DELETE", "SYNCED"}]

NoReply == [id |-> NoRow, row |-> Gone]
Nothing == [e \in Rows |-> Gone]
NoList == [p \in Pids |-> 0]
Idle == [at |-> "idle", list |-> NoList, known |-> {}, local |-> Nothing,
         merge |-> {}, victims |-> {}]

Init ==
    /\ calendar = Nothing
    /\ remote = NoList
    /\ issued = {}
    /\ clock = 0
    /\ faults = 0
    /\ loaded = Nothing
    /\ pending = <<>>
    /\ reply = NoReply
    /\ sync = [t \in Threads |-> Idle]
    /\ asked = {}
    /\ condemned = {}
    /\ erased = {}

-----------------------------------------------------------------------------
(* The calendars table. *)

LiveIn(table) == {e \in Rows : table[e] # Gone}

Live == LiveIn(calendar)

WithPid(p) == {e \in Rows : p # NoPid /\ calendar[e].pid = p}

(* AUTOINCREMENT: an id nothing refers to is as good as a new one. *)
Unused(e) ==
    /\ e \notin Live \cup LiveIn(loaded) \cup DOMAIN pending \cup {reply.id}
    /\ \A t \in Threads : e \notin LiveIn(sync[t].local) \cup sync[t].victims

NewRow == {e \in Rows : Unused(e) /\ \A d \in Rows : d < e => ~Unused(d)}

(* The row that upsert writes: the row of that id, else the one ON CONFLICT    *)
(* (account_id, provider_calendar_id) finds, else a new one.                 *)
UpsertTargets(e, p) ==
    IF e \in Live THEN {e} ELSE IF WithPid(p) # {} THEN WithPid(p) ELSE NewRow

(* UNIQUE (account_id, provider_calendar_id) makes updateById throw. *)
Conflict(e, p) == e \in Live /\ WithPid(p) \ {e} # {}

Upsert(e, r) ==
    /\ ~Conflict(e, r.pid)
    /\ \E d \in UpsertTargets(e, r.pid) : calendar' = [calendar EXCEPT ![d] = r]

(* getByAccount leaves deleted calendars out. *)
ByAccount(table) == [e \in Rows |-> IF table[e].deleted THEN Gone ELSE table[e]]

-----------------------------------------------------------------------------
(* The window.  Every change reloads the list it shows. *)

UserActs ==
    /\ clock < MaxStamp
    /\ clock' = clock + 1
    /\ loaded' = ByAccount(calendar')

CreateCalendar ==
    /\ Upsert(NoRow, [pid |-> NoPid, content |-> clock + 1, deleted |-> FALSE,
                      syncStatus |-> "PENDING_INSERT"])
    /\ UserActs
    /\ UNCHANGED <<remote, issued, faults, uploadVars, sync, historyVars>>

(* UpdateCalendar writes back the calendar the dialog was opened with, without  *)
(* a provider id if it had none then; a new colour alone is not sent.          *)
UpdateCalendar(e) ==
    /\ e \in LiveIn(loaded)
    /\ \E renamed \in BOOLEAN :
           Upsert(e, [loaded[e] EXCEPT
               !.content = IF renamed THEN clock + 1 ELSE @,
               !.syncStatus = IF renamed /\ loaded[e].pid # NoPid THEN "PENDING_UPDATE" ELSE @])
    /\ erased' = erased \cup {d \in Live : calendar[d].pid # NoPid /\ calendar'[d].pid = NoPid}
    /\ UserActs
    /\ UNCHANGED <<remote, issued, faults, uploadVars, sync, asked, condemned>>

(* A moment at which something under way may still write row e, or another row  *)
(* of calendar p, without a look at the deletion.                            *)
Exposed(e, p) ==
    \/ \E d \in WithPid(p) \cup {e} :
           \/ d \in DOMAIN pending \cup {reply.id}
           \/ \E t \in Threads : d \in LiveIn(sync[t].local)
    \/ \E d \in DOMAIN pending : pending[d].pid = p
    \/ reply.row.pid = p
    \/ \E t \in Threads : p \in sync[t].merge

(* DeleteCalendarById of a calendar the server knows. *)
SoftDeleteCalendar(e) ==
    LET r == loaded[e]
    IN  /\ e \in LiveIn(loaded)
        /\ r.pid # NoPid /\ r.syncStatus # "PENDING_INSERT"
        /\ Upsert(e, [r EXCEPT !.deleted = TRUE, !.syncStatus = "PENDING_DELETE"])
        /\ UserActs
        /\ asked' = asked \cup {r.pid}
        /\ condemned' = IF Exposed(e, r.pid) THEN condemned \ {r.pid} ELSE condemned \cup {r.pid}
        /\ UNCHANGED <<remote, issued, faults, uploadVars, sync, erased>>

DeleteCalendar(e) ==
    /\ e \in LiveIn(loaded)
    /\ loaded[e].pid = NoPid \/ loaded[e].syncStatus = "PENDING_INSERT"
    /\ calendar' = [calendar EXCEPT ![e] = Gone]
    /\ UserActs
    /\ UNCHANGED <<remote, issued, faults, uploadVars, sync, historyVars>>

(* A result posted by another thread reloads the list. *)
RefreshCalendars ==
    /\ loaded' = ByAccount(calendar)
    /\ UNCHANGED <<calendar, remote, issued, clock, faults, uploadVars, sync, historyVars>>

-----------------------------------------------------------------------------
(* RunJob uploads first. *)

PendingCalendars == {e \in Live : calendar[e].syncStatus # "SYNCED"}

StartJob ==
    /\ sync[Worker].at = "idle"
    /\ sync' = [sync EXCEPT ![Worker].at = "uploading"]
    /\ pending' = [e \in PendingCalendars |-> calendar[e]]
    /\ UNCHANGED <<calendar, remote, issued, clock, faults, loaded, reply, historyVars>>

(* ORDER BY id. *)
IsNext(e) ==
    /\ sync[Worker].at = "uploading"
    /\ reply = NoReply
    /\ e \in DOMAIN pending
    /\ \A d \in DOMAIN pending : e <= d

Rest(e) == [d \in DOMAIN pending \ {e} |-> pending[d]]

NewPid(p) == p \notin issued /\ \A q \in Pids : q < p => q \in issued

(* What the server does with the request for row e, and the id it answers.     *)
Applied(e, p) ==
    LET r == pending[e]
    IN  \/ /\ r.syncStatus # "PENDING_DELETE"
           /\ r.pid = NoPid
           /\ NewPid(p)
           /\ issued' = issued \cup {p}
           /\ remote' = [remote EXCEPT ![p] = r.content]
        \/ /\ r.syncStatus # "PENDING_DELETE"
           /\ r.pid = p
           /\ remote[p] # 0
           /\ remote' = [remote EXCEPT ![p] = r.content]
           /\ UNCHANGED issued
        \/ /\ r.syncStatus = "PENDING_DELETE"
           /\ r.pid = p       \* 404 counts as success
           /\ remote' = [remote EXCEPT ![p] = 0]
           /\ UNCHANGED issued

(* UploadCalendarImpl sets SYNCED and deletedAt = 0 in its copy of the row. *)
Uploaded(r, p) == [r EXCEPT !.pid = p, !.deleted = FALSE, !.syncStatus = "SYNCED"]

ReplyFor(e, p) ==
    [id |-> e, row |-> IF pending[e].syncStatus = "PENDING_DELETE"
                       THEN Gone ELSE Uploaded(pending[e], p)]

ServerAccepts(e) ==
    /\ IsNext(e)
    /\ \E p \in Pids : Applied(e, p) /\ reply' = ReplyFor(e, p)
    /\ pending' = Rest(e)
    /\ UNCHANGED <<calendar, clock, faults, loaded, sync, historyVars>>

(* Applied, but the response did not arrive. *)
ResponseLost(e) ==
    /\ IsNext(e)
    /\ faults < MaxFaults
    /\ faults' = faults + 1
    /\ \E p \in Pids : Applied(e, p)
    /\ pending' = Rest(e)
    /\ UNCHANGED <<calendar, clock, loaded, reply, sync, historyVars>>

(* POST and PATCH look at the body only: an error in JSON is taken for          *)
(* acceptance (UploadCalendarImpl, calendar_sync_internal.h:217-231).         *)
ErrorTaken(e) ==
    /\ IsNext(e)
    /\ faults < MaxFaults
    /\ faults' = faults + 1
    /\ pending[e].syncStatus # "PENDING_DELETE"
    /\ reply' = ReplyFor(e, pending[e].pid)
    /\ pending' = Rest(e)
    /\ UNCHANGED <<calendar, remote, issued, clock, loaded, sync, historyVars>>

(* No token, no answer, or a DELETE the server refuses. *)
ServerRejects(e) ==
    /\ IsNext(e)
    /\ pending' = Rest(e)
    /\ UNCHANGED <<calendar, remote, issued, clock, faults, loaded, reply, sync, historyVars>>

(* Mutant: the job ends with the first reply and leaves it behind. *)
WriteReplyLast ==
    /\ reply # NoReply
    /\ ~Conflict(reply.id, reply.row.pid)
    /\ IF reply.row = Gone
       THEN calendar' = [calendar EXCEPT ![reply.id] = Gone]
       ELSE Upsert(reply.id, reply.row)
    /\ sync' = [sync EXCEPT ![Worker].at = "idle"]
    /\ UNCHANGED <<remote, issued, clock, faults, loaded, uploadVars, historyVars>>

(* deleteById, or upsert of the copy whatever the row is by now. *)
WriteReply ==
    /\ reply # NoReply
    /\ IF reply.row = Gone
       THEN calendar' = [calendar EXCEPT ![reply.id] = Gone]
       ELSE Upsert(reply.id, reply.row)
    /\ reply' = NoReply
    /\ UNCHANGED <<remote, issued, clock, faults, loaded, pending, sync, historyVars>>

(* The exception ends the job. *)
WriteThrows ==
    /\ reply # NoReply
    /\ Conflict(reply.id, reply.row.pid)
    /\ reply' = NoReply
    /\ pending' = <<>>
    /\ sync' = [sync EXCEPT ![Worker] = Idle]
    /\ UNCHANGED <<calendar, remote, issued, clock, faults, loaded, historyVars>>

-----------------------------------------------------------------------------
(* fetchRemoteCalendars and syncCalendarsIncremental. *)

ReadyToList(t) ==
    IF t = Worker
    THEN sync[t].at = "uploading" /\ DOMAIN pending = {} /\ reply = NoReply
    ELSE sync[t].at = "idle"

ListCalendars(t) ==
    /\ ReadyToList(t)
    /\ sync' = [sync EXCEPT ![t].at = "listed", ![t].list = remote, ![t].known = issued]
    /\ UNCHANGED <<calendar, remote, issued, clock, faults, loaded, uploadVars, historyVars>>

(* Mutant: no list is an empty list. *)
ListFailsEmpty(t) ==
    /\ ReadyToList(t)
    /\ sync' = [sync EXCEPT ![t].at = "listed", ![t].list = NoList, ![t].known = issued]
    /\ UNCHANGED <<calendar, remote, issued, clock, faults, loaded, uploadVars, historyVars>>

(* "Remote calendar list could not be loaded." *)
ListFails(t) ==
    /\ t = Worker
    /\ ReadyToList(t)
    /\ sync' = [sync EXCEPT ![t] = Idle]
    /\ UNCHANGED <<calendar, remote, issued, clock, faults, loaded, uploadVars, historyVars>>

(* ParseCalendarCollection makes an empty list of a JSON body without items, so *)
(* of an error too.                                                          *)
ListMisread(t) ==
    /\ ReadyToList(t)
    /\ faults < MaxFaults
    /\ faults' = faults + 1
    /\ sync' = [sync EXCEPT ![t].at = "listed", ![t].list = NoList, ![t].known = {}]
    /\ UNCHANGED <<calendar, remote, issued, clock, loaded, uploadVars, historyVars>>

GetByAccount(t) ==
    /\ sync[t].at = "listed"
    /\ sync' = [sync EXCEPT ![t].at = "reading", ![t].local = ByAccount(calendar)]
    /\ UNCHANGED <<calendar, remote, issued, clock, faults, loaded, uploadVars, historyVars>>

(* Mutant: deletions on their way are listed calendars like any other. *)
NothingPendingDelete == {}

PendingDeletedIds ==
    {calendar[e].pid : e \in {d \in Live : calendar[d].syncStatus = "PENDING_DELETE"}}

(* Mutant: only rows with a provider id are compared with the list. *)
AbsentIds(local, remoteIds) ==
    {e \in LiveIn(local) : local[e].pid # NoPid /\ local[e].pid \notin remoteIds}

(* Rows the list does not vouch for, those without a provider id included.     *)
Absent(local, remoteIds) == {e \in LiveIn(local) : local[e].pid \notin remoteIds}

GetPendingRemoteCalendars(t) ==
    LET remoteIds == {p \in Pids : sync[t].list[p] # 0} \ PendingDeletedIds
    IN  /\ sync[t].at = "reading"
        /\ sync' = [sync EXCEPT ![t].at = "merging", ![t].merge = remoteIds,
                                ![t].victims = Absent(sync[t].local, remoteIds)]
        /\ UNCHANGED <<calendar, remote, issued, clock, faults, loaded, uploadVars, historyVars>>

(* The row of localMap, if any; only a PENDING_UPDATE keeps its own content.    *)
Merged(t, p) ==
    LET mine == {e \in LiveIn(sync[t].local) : sync[t].local[e].pid = p}
        kept == {e \in mine : sync[t].local[e].syncStatus = "PENDING_UPDATE"}
        fresh == [pid |-> p, content |-> sync[t].list[p], deleted |-> FALSE,
                  syncStatus |-> "SYNCED"]
    IN  [id |-> IF mine = {} THEN NoRow ELSE CHOOSE e \in mine : TRUE,
         row |-> IF kept = {} THEN fresh ELSE sync[t].local[CHOOSE e \in kept : TRUE]]

UpsertRemote(t, p) ==
    /\ sync[t].at = "merging"
    /\ p \in sync[t].merge
    /\ Upsert(Merged(t, p).id, Merged(t, p).row)
    /\ sync' = [sync EXCEPT ![t].merge = @ \ {p}]
    /\ UNCHANGED <<remote, issued, clock, faults, loaded, uploadVars, historyVars>>

UpsertThrows(t, p) ==
    /\ sync[t].at = "merging"
    /\ p \in sync[t].merge
    /\ Conflict(Merged(t, p).id, p)
    /\ sync' = [sync EXCEPT ![t] = Idle]
    /\ UNCHANGED <<calendar, remote, issued, clock, faults, loaded, uploadVars, historyVars>>

DeleteAbsent(t, e) ==
    /\ sync[t].at = "merging"
    /\ sync[t].merge = {}
    /\ e \in sync[t].victims
    /\ calendar' = [calendar EXCEPT ![e] = Gone]
    /\ sync' = [sync EXCEPT ![t].victims = @ \ {e}]
    /\ UNCHANGED <<remote, issued, clock, faults, loaded, uploadVars, historyVars>>

(* The job goes on to the events; signing in posts its result. *)
SyncEnds(t) ==
    /\ sync[t].at = "merging"
    /\ sync[t].merge = {} /\ sync[t].victims = {}
    /\ sync' = [sync EXCEPT ![t] = Idle]
    /\ UNCHANGED <<calendar, remote, issued, clock, faults, loaded, uploadVars, historyVars>>

-----------------------------------------------------------------------------
(* The same account, used from elsewhere. *)

RemoteWrites(p, content) ==
    /\ clock < MaxStamp
    /\ clock' = clock + 1
    /\ remote' = [remote EXCEPT ![p] = content]
    /\ issued' = issued \cup {p}
    /\ UNCHANGED <<calendar, faults, loaded, uploadVars, sync, historyVars>>

RemoteCreates(p) == NewPid(p) /\ RemoteWrites(p, clock + 1)

RemoteRenames(p) == remote[p] # 0 /\ RemoteWrites(p, clock + 1)

RemoteDeletes(p) == remote[p] # 0 /\ RemoteWrites(p, 0)

-----------------------------------------------------------------------------
UserNext ==
    \/ CreateCalendar
    \/ \E e \in Rows : UpdateCalendar(e) \/ SoftDeleteCalendar(e) \/ DeleteCalendar(e)
    \/ RefreshCalendars

UploadNext ==
    \/ StartJob
    \/ \E e \in Rows : ServerAccepts(e) \/ ResponseLost(e) \/ ErrorTaken(e) \/ ServerRejects(e)
    \/ WriteReply
    \/ WriteThrows

SyncNext(t) ==
    \/ ListCalendars(t)
    \/ ListFails(t)
    \/ ListMisread(t)
    \/ GetByAccount(t)
    \/ GetPendingRemoteCalendars(t)
    \/ \E p \in Pids : UpsertRemote(t, p) \/ UpsertThrows(t, p)
    \/ \E e \in Rows : DeleteAbsent(t, e)
    \/ SyncEnds(t)

ElsewhereNext == \E p \in Pids : RemoteCreates(p) \/ RemoteRenames(p) \/ RemoteDeletes(p)

Next == UserNext \/ UploadNext \/ (\E t \in Threads : SyncNext(t)) \/ ElsewhereNext

Spec == Init /\ [][Next]_vars

(* The scheduler runs the account's job again and again, and a server that     *)
(* keeps being asked answers in the end.  Users may stop at any time.        *)
Fairness ==
    /\ WF_vars(UploadNext)
    /\ \A e \in Rows : SF_vars(ServerAccepts(e))
    /\ \A t \in Threads : WF_vars(SyncNext(t)) /\ SF_vars(ListCalendars(t))

FairSpec == Spec /\ Fairness

-----------------------------------------------------------------------------
TypeOK ==
    /\ calendar \in [Rows -> RowType \cup {Gone}]
    /\ remote \in [Pids -> 0..MaxStamp]
    /\ issued \subseteq Pids
    /\ clock \in 0..MaxStamp
    /\ faults \in 0..MaxFaults
    /\ loaded \in [Rows -> RowType \cup {Gone}]
    /\ DOMAIN pending \subseteq Rows
    /\ pending \in [DOMAIN pending -> RowType]
    /\ reply \in [id : Rows, row : RowType \cup {Gone}] \cup {NoReply}
    /\ sync \in [Threads -> [at : {"idle", "uploading", "listed", "reading", "merging"},
                             list : [Pids -> 0..MaxStamp], known : SUBSET Pids,
                             local : [Rows -> RowType \cup {Gone}],
                             merge : SUBSET Pids, victims : SUBSET Rows]]
    /\ reply # NoReply \/ DOMAIN pending # {} => sync[Worker].at = "uploading"
    /\ asked \subseteq Pids
    /\ condemned \subseteq asked
    /\ erased \subseteq Rows

(* A calendar deleted while no thread holds a copy of its row stays marked      *)
(* until the server has deleted it: no list brings it back.                   *)
DeletionKept ==
    \A p \in condemned :
        \/ remote[p] = 0
        \/ \E e \in WithPid(p) : calendar[e].syncStatus = "PENDING_DELETE"

(* The row of a calendar is removed, and its events with it, only after the    *)
(* server lost the calendar, or for a list that does not vouch for it: one     *)
(* older than the calendar, or an error read as an empty list.  Whoever holds   *)
(* such a list is the only other one.  A row that was sent a second time,       *)
(* because its provider id was erased, goes with either of its calendars.      *)
CalendarsKept ==
    [][\A e \in Rows \ erased :
          /\ calendar[e].syncStatus \in {"SYNCED", "PENDING_UPDATE"}
          /\ calendar[e].pid # NoPid
          /\ calendar'[e] = Gone
          =>
          \/ remote[calendar[e].pid] = 0
          \/ clock' # clock \/ calendar[e].pid \in asked
          \/ \E t \in Threads :
                 e \in sync[t].victims /\ sync[t].local[e].pid \notin sync[t].known]_vars

(* The window's list and the server's agree, but for nothing.                  *)
Mirrored ==
    /\ \A e \in Live : /\ calendar[e].syncStatus = "SYNCED"
                       /\ calendar[e].pid # NoPid
                       /\ remote[calendar[e].pid] = calendar[e].content
    /\ \A p \in Pids : remote[p] # 0 => WithPid(p) # {}

(* When users stop, the calendars table becomes the server's list and stays so, *)
(* whatever was pending, lost, answered twice or in the middle of a step.      *)
Converges == <>[]Mirrored
=============================================================================
