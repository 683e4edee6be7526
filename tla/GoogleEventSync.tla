--------------------------- MODULE GoogleEventSync ---------------------------
(***************************************************************************)
(* The single events of one Google calendar: the user edits rows of the     *)
(* events table, syncPendingEvents uploads the pending ones, and range      *)
(* fetches store what the server has (src/sync/calendar_sync_service.cpp,   *)
(* calendar_sync_internal.h, google_calendar_sync_service.cpp,              *)
(* repositories/event_repository.cpp, ui/local_calendar_app.cpp).           *)
(*                                                                          *)
(* The three run on threads with database connections of their own and     *)
(* meet only in the database: an action is one savepoint, one request the   *)
(* server handles, or the reads between two of them.  Content is a stamp,   *)
(* a fresh one for every write a user makes here or elsewhere.              *)
(***************************************************************************)
EXTENDS Naturals, FiniteSets

CONSTANTS
    Rows,        \* ids of the events table
    Pids,        \* ids the server gives to events, in this order
    Fetchers,    \* threads that may fetch this calendar at the same time
    ForeignRows, \* row ids another installation's events carry as local_id
    MaxStamp,    \* bound on the writes users make
    MaxFaults,   \* bound on the lost responses and the errors taken for lists
    NoPid, NoRow

ASSUME EventSyncAssumption ==
    /\ Rows \subseteq Nat /\ NoRow \notin Rows
    /\ Pids \subseteq Nat /\ NoPid \notin Pids
    /\ ForeignRows \subseteq Rows
    /\ MaxStamp \in Nat
    /\ MaxFaults \in Nat

VARIABLES
    row,      \* the events table
    remote,   \* the server's calendar
    clock,    \* the last stamp
    faults,   \* lost responses and misread errors so far
    ui,       \* the editor, or a deletion between its read and its write
    uploader, \* where syncPendingEvents is
    pending,  \* pendingById: the rows as the pass read them
    unsent,   \* rows of pending the server has not seen yet
    results,  \* responses that report success
    checked,  \* the row CanCompletePendingUpload was just asked about
    fetch,    \* each fetch: where it is, what the server listed, what is left
    held,     \* history: contents the server has had
    owed,     \* history: writes the server has not accepted nor the user replaced
    exposed   \* history: those of owed that were made at a bad moment

uploadVars == <<uploader, pending, unsent, results, checked>>
historyVars == <<held, owed, exposed>>
vars == <<row, remote, clock, faults, ui, uploadVars, fetch, historyVars>>

Stamps == 1..MaxStamp

Gone == [pid |-> NoPid, content |-> 0, deletedAt |-> 0, syncStatus |-> "GONE"]
NoEvent == [content |-> 0, localId |-> NoRow]
Closed == [at |-> "idle", id |-> NoRow, snap |-> Gone]
NoFetch == [at |-> "idle", seen |-> [p \in Pids |-> NoEvent], todo |-> {}, victims |-> {}]

RowType == [pid : Pids \cup {NoPid}, content : Stamps, deletedAt : 0..MaxStamp,
            syncStatus : {"PENDING_INSERT", "PENDING_UPDATE", "PENDING_DELETE", "SYNCED"}]
RemoteType == [content : Stamps, localId : Rows \cup {NoRow}] \cup {NoEvent}

Init ==
    /\ row = [e \in Rows |-> Gone]
    /\ remote = [p \in Pids |-> NoEvent]
    /\ clock = 0
    /\ faults = 0
    /\ ui = Closed
    /\ uploader = "idle"
    /\ pending = <<>>
    /\ unsent = {}
    /\ results = <<>>
    /\ checked = NoRow
    /\ fetch = [f \in Fetchers |-> NoFetch]
    /\ held = {}
    /\ owed = {}
    /\ exposed = {}

-----------------------------------------------------------------------------
(* The events table. *)

Live(e) == e \in Rows /\ row[e] # Gone

WithPid(p) == {e \in Rows : p # NoPid /\ row[e].pid = p}

(* AUTOINCREMENT never hands out an id twice; an id nothing refers to any     *)
(* more is as good as a new one.  Events of another installation may refer to  *)
(* any id, also to one that is new here.                                     *)
Unused(e) ==
    /\ ~Live(e)
    /\ e \notin DOMAIN pending
    /\ e # ui.id
    /\ \/ e \in ForeignRows
       \/ \A p \in Pids : /\ remote[p].localId # e
                           /\ \A f \in Fetchers : fetch[f].seen[p].localId # e
    /\ \A o \in owed : o[1] # e

NewRow == {e \in Rows : Unused(e) /\ \A d \in Rows : d < e => ~Unused(d)}

(* The row that upsert(e) with provider id p writes: the row of that id, else *)
(* the row with that provider id, else a new one.                            *)
UpsertTargets(e, p) ==
    IF Live(e) THEN {e} ELSE IF WithPid(p) # {} THEN WithPid(p) ELSE NewRow

(* Mutant: the table has no such index. *)
NoConflict(e, p) == FALSE

(* UNIQUE (calendar_id, provider_event_id) makes the UPDATE throw. *)
Conflict(e, p) == Live(e) /\ WithPid(p) \ {e} # {}

SyncedRow(p, content) ==
    [pid |-> p, content |-> content, deletedAt |-> 0, syncStatus |-> "SYNCED"]

(* What the server is owed for a row r of id e: a content, or its deletion.    *)
Owing(e, r) ==
    LET deletion == r.syncStatus = "PENDING_DELETE"
    IN  <<e, IF deletion THEN r.deletedAt ELSE r.content, deletion>>

OfRows(S) == {o \in owed : o[1] \in S}

(* A write to row e, with provider id p from then on, that something under    *)
(* way may still overwrite without noticing it.                              *)
Exposed(e, p) ==
    \* between CanCompletePendingUpload and the write it allows
    \/ uploader = "writing" /\ (checked = e \/ (p # NoPid /\ results[checked].pid = p))
    \* the row is being inserted: once the server has it, a fetch adopts the row
    \/ e \in DOMAIN pending /\ pending[e].syncStatus = "PENDING_INSERT"
    \* the server has an event that carries the row's id and is not the row's own
    \/ \E q \in Pids \ {p} :
           \/ remote[q].localId = e
           \/ \E f \in Fetchers : fetch[f].seen[q].localId = e
    \* a fetch missed the event and is about to delete the row
    \/ \E f \in Fetchers : p \in fetch[f].victims

(* The user writes new over the rows of its domain: the stamp is owed to the   *)
(* server, and what was owed for these rows is replaced.                     *)
UserWrites(new) ==
    LET S == DOMAIN new
    IN  /\ clock < MaxStamp
        /\ clock' = clock + 1
        /\ row' = [e \in Rows |-> IF e \in S THEN new[e] ELSE row[e]]
        /\ owed' = (owed \ OfRows(S)) \cup {Owing(e, new[e]) : e \in S}
        /\ exposed' = (exposed \ OfRows(S))
                      \cup {Owing(e, new[e]) : e \in {d \in S : Exposed(d, new[d].pid)}}
        /\ UNCHANGED held

-----------------------------------------------------------------------------
(* The window: its dialogs are modal, the other threads go on meanwhile. *)

CreateEvent ==
    /\ ui = Closed
    /\ \E e \in NewRow :
           UserWrites([d \in {e} |-> [pid |-> NoPid, content |-> clock + 1,
                                      deletedAt |-> 0, syncStatus |-> "PENDING_INSERT"]])
    /\ UNCHANGED <<remote, faults, ui, uploadVars, fetch>>

OpenEventDialog(e) ==
    /\ ui = Closed
    /\ Live(e)
    /\ row[e].deletedAt = 0
    /\ ui' = [at |-> "editing", id |-> e, snap |-> row[e]]
    /\ UNCHANGED <<row, remote, clock, faults, uploadVars, fetch, historyVars>>

CloseEventDialog ==
    /\ ui.at = "editing"
    /\ ui' = Closed
    /\ UNCHANGED <<row, remote, clock, faults, uploadVars, fetch, historyVars>>

(* BuildEvent, PrepareEventForCalendarSync and PersistEvent: the editor writes  *)
(* back everything it opened with, the provider id included.                 *)
SaveEvent ==
    /\ ui.at = "editing"
    /\ ~Conflict(ui.id, ui.snap.pid)
    /\ \E e \in UpsertTargets(ui.id, ui.snap.pid) :
           UserWrites([d \in {e} |->
               [ui.snap EXCEPT !.content = clock + 1,
                               !.deletedAt = 0,
                               !.syncStatus = IF ui.snap.pid = NoPid THEN "PENDING_INSERT"
                                                                     ELSE "PENDING_UPDATE"]])
    /\ ui' = Closed
    /\ UNCHANGED <<remote, faults, uploadVars, fetch>>

(* DeleteEventById reads the row and then deletes it or marks it. *)
ReadForDelete(e) ==
    /\ ui = Closed
    /\ Live(e)
    /\ row[e].deletedAt = 0
    /\ ui' = [at |-> "deleting", id |-> e, snap |-> row[e]]
    /\ UNCHANGED <<row, remote, clock, faults, uploadVars, fetch, historyVars>>

DeleteEvent ==
    /\ ui.at = "deleting"
    /\ ui.snap.syncStatus = "PENDING_INSERT" \/ ui.snap.pid = NoPid
    /\ row' = [row EXCEPT ![ui.id] = Gone]
    /\ owed' = owed \ OfRows({ui.id})
    /\ exposed' = exposed \ OfRows({ui.id})
    /\ ui' = Closed
    /\ UNCHANGED <<remote, clock, faults, uploadVars, fetch, held>>

Marked(S) ==
    [e \in S |-> [row[e] EXCEPT !.deletedAt = clock + 1, !.syncStatus = "PENDING_DELETE"]]

SoftDelete ==
    /\ ui.at = "deleting"
    /\ ui.snap.syncStatus # "PENDING_INSERT" /\ ui.snap.pid # NoPid
    /\ UserWrites(Marked({e \in {ui.id} : Live(e)}))
    /\ ui' = Closed
    /\ UNCHANGED <<remote, faults, uploadVars, fetch>>

(* "Delete all events" of the calendar. *)
SoftDeleteAllByCalendar ==
    /\ ui = Closed
    /\ LET S == {e \in Rows : Live(e) /\ row[e].deletedAt = 0}
       IN  S # {} /\ UserWrites(Marked(S))
    /\ UNCHANGED <<remote, faults, ui, uploadVars, fetch>>

-----------------------------------------------------------------------------
(* syncPendingEvents. *)

(* Mutant: the query forgets rows that have no provider id yet. *)
PendingRowsWithId ==
    {e \in Rows : Live(e) /\ row[e].syncStatus # "SYNCED" /\ row[e].pid # NoPid}

(* getPendingRemoteEvents; the limit of 500 rows per pass is beyond the model. *)
PendingRows ==
    {e \in Rows : /\ Live(e)
                  /\ row[e].syncStatus # "SYNCED"
                  /\ row[e].pid # NoPid \/ row[e].syncStatus = "PENDING_INSERT"}

(* Mutant: deletions are put into the batch but not into pendingById. *)
ReadPendingChanges ==
    /\ uploader = "idle"
    /\ PendingRows # {}
    /\ uploader' = "sending"
    /\ pending' = [e \in {d \in PendingRows : row[d].deletedAt = 0} |-> row[e]]
    /\ unsent' = PendingRows
    /\ UNCHANGED <<row, remote, clock, faults, ui, results, checked, fetch, historyVars>>

ReadPending ==
    /\ uploader = "idle"
    /\ PendingRows # {}
    /\ uploader' = "sending"
    /\ pending' = [e \in PendingRows |-> row[e]]
    /\ unsent' = PendingRows
    /\ UNCHANGED <<row, remote, clock, faults, ui, results, checked, fetch, historyVars>>

Used(p) == \E h \in held : h[1] = p

NewPid(p) == ~Used(p) /\ \A q \in Pids : q < p => Used(q)

(* Mutant: the insert request does not carry the row's id. *)
AnonymousEvent(e) == [content |-> pending[e].content, localId |-> NoRow]

(* The event an insert request makes: extendedProperties.private.local_id is    *)
(* the id of the row.                                                        *)
InsertedEvent(e) == [content |-> pending[e].content, localId |-> e]

(* What the server does with the request for row e. *)
Applied(e, p) ==
    LET r == pending[e]
    IN  \/ /\ r.syncStatus = "PENDING_INSERT"
           /\ NewPid(p)
           /\ remote' = [remote EXCEPT ![p] = InsertedEvent(e)]
           /\ held' = held \cup {<<p, r.content>>}
        \/ /\ r.syncStatus = "PENDING_UPDATE"
           /\ r.pid = p
           /\ remote[p] # NoEvent
           /\ remote' = [remote EXCEPT ![p].content = r.content]
           /\ held' = held \cup {<<p, r.content>>}
        \/ /\ r.syncStatus = "PENDING_DELETE"
           /\ r.pid = p     \* 404, which counts as success, if it is gone already
           /\ remote' = [remote EXCEPT ![p] = NoEvent]
           /\ UNCHANGED held

Accepts(e, p) ==
    /\ uploader = "sending"
    /\ e \in unsent
    /\ Applied(e, p)
    /\ unsent' = unsent \ {e}
    /\ owed' = owed \ {Owing(e, pending[e])}
    /\ exposed' = exposed \ {Owing(e, pending[e])}
    /\ UNCHANGED <<row, clock, ui, uploader, pending, checked, fetch>>

Answer(e, p) ==
    IF pending[e].syncStatus = "PENDING_DELETE" THEN Gone ELSE SyncedRow(p, pending[e].content)

ServerAccepts(e) ==
    \E p \in Pids :
        /\ Accepts(e, p)
        /\ results' = [d \in DOMAIN results \cup {e} |-> IF d = e THEN Answer(e, p) ELSE results[d]]
        /\ UNCHANGED faults

(* The request was applied, the response did not arrive. *)
ResponseLost(e) ==
    /\ faults < MaxFaults
    /\ \E p \in Pids : Accepts(e, p)
    /\ faults' = faults + 1
    /\ UNCHANGED results

(* Mutant: the status of the response is not looked at. *)
RejectionTaken(e) ==
    /\ uploader = "sending"
    /\ e \in unsent
    /\ unsent' = unsent \ {e}
    /\ results' = [d \in DOMAIN results \cup {e} |->
                      IF d = e THEN Answer(e, pending[e].pid) ELSE results[d]]
    /\ UNCHANGED <<row, remote, clock, faults, ui, uploader, pending, checked,
                   fetch, historyVars>>

(* No token, no connection, or a status that is not success. *)
ServerRejects(e) ==
    /\ uploader = "sending"
    /\ e \in unsent
    /\ unsent' = unsent \ {e}
    /\ UNCHANGED <<row, remote, clock, faults, ui, uploader, pending, results, checked,
                   fetch, historyVars>>

Without(e) == [d \in DOMAIN results \ {e} |-> results[d]]

(* Mutant: any row will do. *)
RowStillThere(e) == Live(e)

(* Is the row still what was sent?  Everything but updatedAt is compared. *)
CanCompletePendingUpload(e) == row[e] = pending[e]

CheckResult(e) ==
    /\ uploader = "sending"
    /\ unsent = {}
    /\ e \in DOMAIN results
    /\ IF CanCompletePendingUpload(e)
       THEN /\ uploader' = "writing"
            /\ checked' = e
            /\ UNCHANGED results
       ELSE /\ results' = Without(e)
            /\ UNCHANGED <<uploader, checked>>
    /\ UNCHANGED <<row, remote, clock, faults, ui, pending, unsent, fetch, historyVars>>

EndOfPass ==
    /\ uploader' = "idle"
    /\ pending' = <<>>
    /\ unsent' = {}
    /\ results' = <<>>
    /\ checked' = NoRow

(* deleteEvent, or updateById with upsert as its fallback. *)
WriteResult ==
    /\ uploader = "writing"
    /\ ~Conflict(checked, results[checked].pid)
    /\ IF pending[checked].syncStatus = "PENDING_DELETE"
       THEN row' = [row EXCEPT ![checked] = Gone]
       ELSE \E e \in UpsertTargets(checked, results[checked].pid) :
                row' = [row EXCEPT ![e] = results[checked]]
    /\ uploader' = "sending"
    /\ results' = Without(checked)
    /\ checked' = NoRow
    /\ UNCHANGED <<remote, clock, faults, ui, pending, unsent, fetch, historyVars>>

(* The exception of the UNIQUE constraint ends the whole pass. *)
WriteThrows ==
    /\ uploader = "writing"
    /\ Conflict(checked, results[checked].pid)
    /\ EndOfPass
    /\ UNCHANGED <<row, remote, clock, faults, ui, fetch, historyVars>>

PassEnds ==
    /\ uploader = "sending"
    /\ unsent = {}
    /\ DOMAIN results = {}
    /\ EndOfPass
    /\ UNCHANGED <<row, remote, clock, faults, ui, fetch, historyVars>>

-----------------------------------------------------------------------------
(* fetchAndStoreRemoteEventsInRange, on the worker or on a coverage thread. *)

ListRange(f) ==
    /\ fetch[f].at = "idle"
    /\ fetch' = [fetch EXCEPT ![f] =
           [at |-> "storing", seen |-> remote,
            todo |-> {p \in Pids : remote[p] # NoEvent}, victims |-> {}]]
    /\ UNCHANGED <<row, remote, clock, faults, ui, uploadVars, historyVars>>

(* The status of the answer is not looked at: an error in JSON is a page with   *)
(* no items and no next page, and the events of the pages before it are taken  *)
(* for the whole list.                                                       *)
MisreadRange(f, S) ==
    /\ fetch[f].at = "idle"
    /\ faults < MaxFaults
    /\ faults' = faults + 1
    /\ fetch' = [fetch EXCEPT ![f] =
           [at |-> "storing", seen |-> [p \in Pids |-> IF p \in S THEN remote[p] ELSE NoEvent],
            todo |-> {p \in S : remote[p] # NoEvent}, victims |-> {}]]
    /\ UNCHANGED <<row, remote, clock, ui, uploadVars, historyVars>>

(* Mutant: local changes do not stop the server's. *)
NothingPending(p) == FALSE

LocallyChanged(p) == \E e \in WithPid(p) : row[e].syncStatus # "SYNCED"

(* The row a listed event is stored in: the one with its provider id, else the  *)
(* one upsertRemoteSnapshot finds for its local_id.                          *)
SnapshotTargets(event, p) ==
    IF WithPid(p) # {} THEN WithPid(p) ELSE UpsertTargets(event.localId, p)

(* PersistRemoteEvent.  The list is stored in chunks of kRemotePersistChunkSize *)
(* with one savepoint each; the model may cut it anywhere.                   *)
PersistRemoteEvent(f, p) ==
    LET event == fetch[f].seen[p]
    IN  /\ fetch[f].at = "storing"
        /\ p \in fetch[f].todo
        /\ IF LocallyChanged(p)
           THEN UNCHANGED row
           ELSE \E e \in SnapshotTargets(event, p) :
                    row' = [row EXCEPT ![e] = SyncedRow(p, event.content)]
        /\ fetch' = [fetch EXCEPT ![f].todo = @ \ {p}]
        /\ UNCHANGED <<remote, clock, faults, ui, uploadVars, historyVars>>

(* A page could not be loaded: no reconciliation. *)
RangeFails(f) ==
    /\ fetch[f].at = "storing"
    /\ fetch' = [fetch EXCEPT ![f] = NoFetch]
    /\ UNCHANGED <<row, remote, clock, faults, ui, uploadVars, historyVars>>

(* Mutant: the query does not ask for synced rows. *)
SelectUnlisted(f) ==
    /\ fetch[f].at = "storing"
    /\ fetch[f].todo = {}
    /\ fetch' = [fetch EXCEPT
           ![f].at = "reconciling",
           ![f].victims = {p \in Pids : fetch[f].seen[p] = NoEvent /\ WithPid(p) # {}}]
    /\ UNCHANGED <<row, remote, clock, faults, ui, uploadVars, historyVars>>

(* ReconcileGoogleRangeSnapshot selects the synced rows the list did not have *)
(* and deletes them one by one, whatever they are by then.                   *)
SelectMissing(f) ==
    /\ fetch[f].at = "storing"
    /\ fetch[f].todo = {}
    /\ fetch' = [fetch EXCEPT
           ![f].at = "reconciling",
           ![f].victims = {p \in Pids : /\ fetch[f].seen[p] = NoEvent
                                        /\ \E e \in WithPid(p) : row[e].syncStatus = "SYNCED"}]
    /\ UNCHANGED <<row, remote, clock, faults, ui, uploadVars, historyVars>>

DeleteMissing(f, p) ==
    /\ p \in fetch[f].victims
    /\ row' = [e \in Rows |-> IF e \in WithPid(p) THEN Gone ELSE row[e]]
    /\ fetch' = [fetch EXCEPT ![f].victims = @ \ {p}]
    /\ UNCHANGED <<remote, clock, faults, ui, uploadVars, historyVars>>

RangeEnds(f) ==
    /\ fetch[f].at = "reconciling"
    /\ fetch[f].victims = {}
    /\ fetch' = [fetch EXCEPT ![f] = NoFetch]
    /\ UNCHANGED <<row, remote, clock, faults, ui, uploadVars, historyVars>>

-----------------------------------------------------------------------------
(* The same calendar, used from elsewhere. *)

RemoteWrites(p, event) ==
    /\ remote' = [remote EXCEPT ![p] = event]
    /\ clock < MaxStamp
    /\ clock' = clock + 1
    /\ held' = IF event = NoEvent THEN held ELSE held \cup {<<p, clock + 1>>}
    /\ UNCHANGED <<row, faults, ui, uploadVars, fetch, owed, exposed>>

RemoteCreates(p) ==
    /\ NewPid(p)
    /\ \E e \in ForeignRows \cup {NoRow} :
           RemoteWrites(p, [content |-> clock + 1, localId |-> e])

RemoteEdits(p) ==
    /\ remote[p] # NoEvent
    /\ RemoteWrites(p, [remote[p] EXCEPT !.content = clock + 1])

RemoteDeletes(p) ==
    /\ remote[p] # NoEvent
    /\ RemoteWrites(p, NoEvent)

-----------------------------------------------------------------------------
UserNext ==
    \/ CreateEvent
    \/ \E e \in Rows : OpenEventDialog(e) \/ ReadForDelete(e)
    \/ CloseEventDialog
    \/ SaveEvent
    \/ DeleteEvent
    \/ SoftDelete
    \/ SoftDeleteAllByCalendar

UploadNext ==
    \/ ReadPending
    \/ \E e \in Rows : ServerAccepts(e) \/ ResponseLost(e) \/ ServerRejects(e) \/ CheckResult(e)
    \/ WriteResult
    \/ WriteThrows
    \/ PassEnds

FetchNext(f) ==
    \/ ListRange(f)
    \/ \E S \in SUBSET Pids : MisreadRange(f, S)
    \/ \E p \in Pids : PersistRemoteEvent(f, p) \/ DeleteMissing(f, p)
    \/ RangeFails(f)
    \/ SelectMissing(f)
    \/ RangeEnds(f)

ElsewhereNext == \E p \in Pids : RemoteCreates(p) \/ RemoteEdits(p) \/ RemoteDeletes(p)

Next == UserNext \/ UploadNext \/ (\E f \in Fetchers : FetchNext(f)) \/ ElsewhereNext

Spec == Init /\ [][Next]_vars

(* The worker uploads and fetches again and again, and a server that keeps     *)
(* being asked accepts in the end.  Users may stop at any time.              *)
Fairness ==
    /\ WF_vars(UploadNext)
    /\ \A e \in Rows : SF_vars(ServerAccepts(e))
    /\ \A f \in Fetchers : WF_vars(FetchNext(f))

FairSpec == Spec /\ Fairness

-----------------------------------------------------------------------------
TypeOK ==
    /\ row \in [Rows -> RowType \cup {Gone}]
    /\ remote \in [Pids -> RemoteType]
    /\ clock \in 0..MaxStamp
    /\ faults \in 0..MaxFaults
    /\ ui \in [at : {"editing", "deleting"}, id : Rows, snap : RowType] \cup {Closed}
    /\ uploader \in {"idle", "sending", "writing"}
    /\ DOMAIN pending \subseteq Rows
    /\ pending \in [DOMAIN pending -> RowType]
    /\ unsent \subseteq DOMAIN pending
    /\ DOMAIN results \subseteq DOMAIN pending
    /\ results \in [DOMAIN results -> RowType \cup {Gone}]
    /\ checked \in DOMAIN results \cup {NoRow}
    /\ fetch \in [Fetchers -> [at : {"idle", "storing", "reconciling"},
                               seen : [Pids -> RemoteType],
                               todo : SUBSET Pids, victims : SUBSET Pids]]
    /\ held \subseteq Pids \X Stamps
    /\ owed \subseteq Rows \X Stamps \X BOOLEAN
    /\ exposed \subseteq owed

(* No write but the two that are ready for it trips UNIQUE (calendar_id,        *)
(* provider_event_id): what PersistRemoteEvent and upsert look up first is     *)
(* enough, also when the server's events carry ids of unrelated rows.         *)
UniqueProviderIds ==
    \A d, e \in Rows : row[d].pid = row[e].pid /\ row[d].pid # NoPid => d = e

(* A row that says SYNCED shows content the server has had under that id.     *)
SyncedWasServed ==
    \A e \in Rows : row[e].syncStatus = "SYNCED" =>
        row[e].deletedAt = 0 /\ <<row[e].pid, row[e].content>> \in held

(* Why the two hold: whatever a thread is about to write, it has from the       *)
(* server.                                                                   *)
CopiesInv ==
    /\ uploader = "idle" => DOMAIN results = {}
    /\ IF uploader = "writing" THEN checked \in DOMAIN results ELSE checked = NoRow
    /\ \A e \in DOMAIN results :
           pending[e].syncStatus # "PENDING_DELETE" =>
               \E h \in held : results[e] = SyncedRow(h[1], h[2])
    /\ \A p \in Pids : remote[p] # NoEvent => <<p, remote[p].content>> \in held
    /\ \A f \in Fetchers, p \in Pids :
           fetch[f].seen[p] # NoEvent => <<p, fetch[f].seen[p].content>> \in held

(* Also true of the Outlook calendar, where the news of a fetch may be that an   *)
(* event is gone.                                                            *)
BaseInv == TypeOK /\ CopiesInv /\ UniqueProviderIds /\ SyncedWasServed

ListInv == \A f \in Fetchers : \A p \in fetch[f].todo : fetch[f].seen[p] # NoEvent

IInv == BaseInv /\ ListInv

(* The row a user wrote still says so, and is pending. *)
Kept(o) ==
    LET r == row[o[1]]
    IN  r # Gone /\ r.syncStatus # "SYNCED" /\ Owing(o[1], r) = o

(* What is owed and was not exposed when it was saved, in rows no event of       *)
(* another installation can name.                                            *)
Firm == {o \in owed \ exposed : o[1] \notin ForeignRows}

(* Every change a user saved to such a row is pending until the server accepts  *)
(* it, except one saved at the moments Exposed names.                         *)
EditKept == \A o \in Firm : Kept(o)

(* Why such a change is kept.                                                  *)
(* A kept change is out of reach of a fetch that adopts its row by local_id, of  *)
(* one that is about to delete it, and of the write a check has allowed; and a   *)
(* row that is being inserted was last written before it was read.              *)
OutOfReach(o) ==
    /\ \A q \in Pids :
           /\ remote[q].localId = o[1] => row[o[1]].pid = q
           /\ \A f \in Fetchers : fetch[f].seen[q].localId = o[1] => row[o[1]].pid = q
           /\ \A f \in Fetchers : q \in fetch[f].victims => row[o[1]].pid # q
    /\ o[1] \in DOMAIN pending /\ pending[o[1]].syncStatus = "PENDING_INSERT"
           => o = Owing(o[1], pending[o[1]])
    /\ uploader = "writing" =>
           /\ checked # o[1]
           /\ row[o[1]].pid = NoPid \/ results[checked].pid # row[o[1]].pid

(* The provider id an insert was answered with belongs to its row, as long as    *)
(* the row is there.                                                         *)
OwnsAnswer(e) ==
    LET p == results[e].pid
    IN  /\ Live(e) => /\ \A d \in Rows \ {e} : row[d].pid # p
                      /\ ui.snap.pid = p => ui.id = e
        /\ remote[p] # NoEvent => remote[p].localId = e
        /\ \A f \in Fetchers : fetch[f].seen[p] # NoEvent => fetch[f].seen[p].localId = e
        /\ \A d \in DOMAIN pending : pending[d].pid # p
        /\ \A d \in DOMAIN results \ {e} : results[d].pid # p

(* A pending copy and its answer. *)
AnswerFits(e) ==
    /\ Owing(e, pending[e]) \notin owed
    /\ pending[e].syncStatus = "PENDING_INSERT" => OwnsAnswer(e)
    /\ pending[e].syncStatus = "PENDING_UPDATE" => results[e].pid = pending[e].pid
    /\ pending[e].syncStatus = "PENDING_DELETE" => results[e].pid = NoPid

(* Every provider id in use was given by the server, a row to be inserted has    *)
(* none, and every stamp was given to some write.                            *)
InUse(r) ==
    /\ r.pid # NoPid => Used(r.pid)
    /\ r.syncStatus = "PENDING_INSERT" => r.pid = NoPid
    /\ r.content <= clock
    /\ r.deletedAt <= clock

KeptInv ==
    /\ \A o \in Firm : Kept(o) /\ OutOfReach(o)
    /\ \A e \in DOMAIN results : AnswerFits(e)
    /\ \A e \in Rows : InUse(row[e])
    /\ \A e \in DOMAIN pending : InUse(pending[e]) /\ pending[e].syncStatus # "SYNCED"
    /\ ui.snap.pid # NoPid => Used(ui.snap.pid)
    /\ \A h \in held : h[2] <= clock

(* "sending the real local changes from the database to the remote server"     *)
(* (README.md:77), read without the exception and for edits alone: a content   *)
(* a user saved stays pending until the server has it.                       *)
NoEditLost == \A o \in owed : ~o[3] => Kept(o)

(* The UNIQUE constraint never cuts a pass short, and never keeps the user     *)
(* from saving, but for rows that events of another installation can name.     *)
WritesNeverConflict ==
    /\ uploader = "writing" /\ checked \notin ForeignRows => ~Conflict(checked, results[checked].pid)
    /\ ui.at = "editing" /\ ui.id \notin ForeignRows => ~Conflict(ui.id, ui.snap.pid)

(* No request will ever deliver what row e holds: the server's event is gone,  *)
(* or there never was one the row knows of.                                  *)
Undeliverable(e) ==
    \/ row[e].syncStatus = "PENDING_DELETE" /\ row[e].pid = NoPid
    \/ row[e].syncStatus = "PENDING_UPDATE" /\ remote[row[e].pid] = NoEvent

(* A saved change reaches the server, unless the user replaces it first.      *)
EditDelivered ==
    \A o \in Rows \X Stamps \X BOOLEAN :
        (o \in owed \ exposed) ~> (o \notin owed \ exposed \/ Undeliverable(o[1]))
=============================================================================
