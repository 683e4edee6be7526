-------------------------- MODULE RecurrenceOverrides --------------------------
(***************************************************************************)
(* Changed and cancelled instances of a recurring event of a Google           *)
(* calendar.  The user's change becomes a recurrence_overrides row and, if the  *)
(* instance is not cancelled, a row of events that replaces it; syncPendingEvents *)
(* uploads pending overrides after the pending events; a fetch stores the       *)
(* exceptions the server lists.                                             *)
(* Sources: src/sync/calendar_sync_service.cpp, calendar_sync_internal.h,      *)
(* google_calendar_sync_service.cpp, ApplySingleInstanceEdit of                *)
(* src/ui/local_calendar_app.cpp.                                           *)
(*                                                                          *)
(* The series itself has one master, on the server from the start and never    *)
(* deleted.  Content is a stamp, fresh for every write of a user.  The link of a  *)
(* row is its provider_event_id: none yet for a replacement (of the instance in   *)
(* instance_start), else an instance of the series or an event of its own.       *)
(***************************************************************************)
EXTENDS Naturals, FiniteSets

CONSTANTS
    Instances,  \* original starts of the instances
    Shared,     \* bound: those that are written elsewhere too
    Rows,       \* ids of the events table
    NoRow,
    MaxStamp,   \* bound: writes of users
    MaxFaults   \* bound: requests that fail or lose their response

ASSUME OverridesAssumption ==
    /\ Instances \subseteq Nat \ {0} /\ Shared \subseteq Instances /\ Rows \subseteq Nat /\ NoRow \notin Rows
    /\ MaxStamp \in Nat /\ MaxFaults \in Nat

VARIABLES
    row,           \* replacements and what became of them
    shown,         \* the occurrence the user has before him, as it was loaded
    override,      \* recurrence_overrides of the master
    masterPending, \* the master is PENDING_UPDATE
    remote,        \* the instances on the server
    plain,         \* events of their own the server made of rows, by row
    clock, faults,
    pass,          \* where syncPendingEvents is
    fetch,         \* items of a listing that are not stored yet
    owed,          \* history: changes of instances the server has not got
    left           \* history: instances that may have a row nothing leads to

vars == <<row, shown, override, masterPending, remote, plain, clock, faults, pass, fetch, owed, left>>

Gone == [content |-> 0, link |-> <<"none">>, syncStatus |-> "GONE"]
NoOverride == [type |-> "NONE", replacement |-> NoRow, pending |-> FALSE]
AsRuled == [type |-> "AS_RULED", content |-> 0, localId |-> NoRow]
NoEvent == 0
NoPass == [at |-> "idle", batch |-> <<>>, master |-> FALSE, todo |-> <<>>, current |-> 0, sent |-> 0]
NoFetch == [instances |-> <<>>, plain |-> <<>>]
Nothing == [type |-> "NONE", content |-> 0]
NoneShown == [instance |-> 0, row |-> NoRow]

Live(r) == r \in Rows /\ row[r] # Gone
Linked(i) == {r \in Rows : row[r].link = <<"instance", i>>}
NotUploaded(i) == {r \in Rows : row[r].link = <<"replacement", i>>}

Init ==
    /\ row = [r \in Rows |-> Gone]
    /\ shown = NoneShown
    /\ override = [i \in Instances |-> NoOverride]
    /\ masterPending = FALSE
    /\ remote = [i \in Instances |-> AsRuled]
    /\ plain = [r \in Rows |-> NoEvent]
    /\ clock = 0
    /\ faults = 0
    /\ pass = NoPass
    /\ fetch = NoFetch
    /\ owed = [i \in Instances |-> Nothing]
    /\ left = {}

-----------------------------------------------------------------------------
(* The tables. *)

(* AUTOINCREMENT: an id nothing refers to any more is as good as a new one.      *)
Unused(r) ==
    /\ ~Live(r) /\ plain[r] = NoEvent /\ shown.row # r
    /\ \A q \in Rows : row[q].link # <<"own", r>>
    /\ \A q \in DOMAIN pass.batch : pass.batch[q].link # <<"own", r>>
    /\ \A i \in Instances : remote[i].localId # r
    /\ \A i \in DOMAIN fetch.instances : fetch.instances[i].localId # r
    /\ r \notin DOMAIN fetch.plain \cup DOMAIN pass.batch
    /\ \A i \in DOMAIN pass.todo : pass.todo[i].replacement # r

NewRow == {r \in Rows : Unused(r) /\ \A q \in Rows : q < r => ~Unused(q)}

Synced(link, content) == [content |-> content, link |-> link, syncStatus |-> "SYNCED"]
Override(type, r, pending) == [type |-> type, replacement |-> r, pending |-> pending]

(* deleteEvent, deleteByProviderIdentity: the foreign key of an override to its   *)
(* replacement is ON DELETE SET NULL.                                        *)
RowsWithout(S) == [r \in Rows |-> IF r \in S THEN Gone ELSE row[r]]
(* Mutant: the foreign key has no such clause. *)
OverridesKeep(S) == override

OverridesWithout(S) ==
    [i \in Instances |-> IF override[i].replacement \in S
        THEN [override[i] EXCEPT !.replacement = NoRow] ELSE override[i]]

-----------------------------------------------------------------------------
(* The user.  Edits of one instance go to ApplySingleInstanceEdit, which takes the *)
(* occurrence as it was loaded: a computed one when the instance had no override,  *)
(* a stored one when the server had linked a row to it.  Until the next load it     *)
(* stays on the screen, whatever other threads and the user himself do meanwhile. *)

ShowComputed(i) ==
    /\ override[i].type = "NONE"
    /\ clock < MaxStamp
    /\ shown' = [instance |-> i, row |-> NoRow]
    /\ UNCHANGED <<row, override, masterPending, remote, plain, clock, faults, pass, fetch, owed, left>>

ShowStored(i, r) ==
    /\ r \in Linked(i)
    /\ clock < MaxStamp
    /\ shown' = [instance |-> i, row |-> r]
    /\ UNCHANGED <<row, override, masterPending, remote, plain, clock, faults, pass, fetch, owed, left>>

Writes == clock < MaxStamp /\ clock' = clock + 1

(* A pass that has read the override marks it synced without looking again.      *)
Owes(i, type) ==
    owed' = [owed EXCEPT ![i] = IF i \in DOMAIN pass.todo THEN Nothing
                                ELSE [type |-> type, content |-> clock']]

(* Nothing asks whether the instance has got a row since: saving leaves it behind. *)
LeavesBehind(i, S) ==
    left' = IF (Linked(i) \cup NotUploaded(i)) \ S = {} THEN left ELSE left \cup {i}

ChangeOccurrence(i) ==
    /\ shown = [instance |-> i, row |-> NoRow]
    /\ Writes
    /\ \E r \in NewRow :
           /\ row' = [row EXCEPT ![r] = Synced(<<"replacement", i>>, clock')]
           /\ override' = [override EXCEPT ![i] = Override("MODIFIED", r, TRUE)]
    /\ Owes(i, "MODIFIED")
    /\ LeavesBehind(i, {})
    /\ UNCHANGED <<shown, masterPending, remote, plain, faults, pass, fetch>>

CancelOccurrence(i) ==
    /\ shown = [instance |-> i, row |-> NoRow]
    /\ Writes
    /\ override' = [override EXCEPT ![i] = Override("CANCELLED", NoRow, TRUE)]
    /\ Owes(i, "CANCELLED")
    /\ LeavesBehind(i, {})
    /\ UNCHANGED <<row, shown, masterPending, remote, plain, faults, pass, fetch>>

(* EventRepository::upsert: the row, if it is gone the row that is the instance by *)
(* now, else a new one.  UNIQUE makes the first throw, and nothing is changed, if    *)
(* the row has become another event and the instance another row.               *)
RowsOfStored(i, r) == IF Live(r) THEN {r} ELSE IF Linked(i) # {} THEN Linked(i) ELSE NewRow

ChangeStored(i, r) ==
    /\ shown = [instance |-> i, row |-> r]
    /\ Live(r) => Linked(i) \subseteq {r}
    /\ Writes
    /\ \E q \in RowsOfStored(i, r) :
           /\ row' = [row EXCEPT ![q] = Synced(<<"instance", i>>, clock')]
           /\ override' = [override EXCEPT ![i] = Override("MODIFIED", q, TRUE)]
           /\ LeavesBehind(i, {q})
    /\ Owes(i, "MODIFIED")
    /\ UNCHANGED <<shown, masterPending, remote, plain, faults, pass, fetch>>

CancelStored(i, r) ==
    /\ shown = [instance |-> i, row |-> r]
    /\ Writes
    /\ row' = RowsWithout({r})
    /\ override' = [OverridesWithout({r}) EXCEPT ![i] = Override("CANCELLED", NoRow, TRUE)]
    /\ Owes(i, "CANCELLED")
    /\ LeavesBehind(i, {r})
    /\ UNCHANGED <<shown, masterPending, remote, plain, faults, pass, fetch>>

(* Any other row is an event of its own for the editor, also a replacement that   *)
(* has not been uploaded: the change of the instance is not what is owed then.    *)
Own(r) == Live(r) /\ \A i \in Instances : r \notin Linked(i)
NoLonger(r) ==
    owed' = [i \in Instances |-> IF override[i].replacement = r THEN Nothing ELSE owed[i]]

SaveOwn(r) ==
    /\ Own(r) /\ row[r].syncStatus # "PENDING_DELETE"
    /\ Writes
    /\ row' = [row EXCEPT ![r] = [content |-> clock', link |-> @.link,
                  syncStatus |-> IF \E i \in Instances : r \in NotUploaded(i)
                                 THEN "PENDING_INSERT" ELSE "PENDING_UPDATE"]]
    /\ NoLonger(r)
    /\ left' = left \cup {i \in Instances : r \in NotUploaded(i)}
    /\ UNCHANGED <<shown, override, masterPending, remote, plain, faults, pass, fetch>>

DeleteOwn(r) ==
    /\ Own(r) /\ row[r].syncStatus # "PENDING_DELETE"
    /\ IF \E i \in Instances : r \in NotUploaded(i)
       THEN row' = RowsWithout({r}) /\ override' = OverridesWithout({r})
       ELSE row' = [row EXCEPT ![r].syncStatus = "PENDING_DELETE"] /\ UNCHANGED override
    /\ NoLonger(r)
    /\ UNCHANGED <<shown, masterPending, remote, plain, clock, faults, pass, fetch, left>>

(* "Change entire series": deleteStoredInstancesForMaster takes the rows the       *)
(* server has linked to the series, a change of theirs included that is pending.  *)
EditSeries ==
    LET stored == UNION {Linked(i) : i \in Instances}
    IN  /\ masterPending' = TRUE
        /\ pass' = [pass EXCEPT !.master = FALSE]
        /\ row' = RowsWithout(stored)
        /\ override' = OverridesWithout(stored)
        /\ owed' = [i \in Instances |-> IF override[i].replacement \in stored THEN Nothing ELSE owed[i]]
        /\ UNCHANGED <<shown, remote, plain, clock, faults, fetch, left>>

UserNext ==
    \/ \E i \in Instances : ShowComputed(i) \/ ChangeOccurrence(i) \/ CancelOccurrence(i)
    \/ \E i \in Instances, r \in Rows : ShowStored(i, r) \/ ChangeStored(i, r) \/ CancelStored(i, r)
    \/ \E r \in Rows : SaveOwn(r) \/ DeleteOwn(r)
    \/ EditSeries

-----------------------------------------------------------------------------
(* syncPendingEvents.  How the batch of events goes is the matter of            *)
(* GoogleEventSync: here the whole batch is accepted, and its results are        *)
(* written, in one step each.                                               *)

PendingRows == {r \in Rows : Live(r) /\ row[r].syncStatus # "SYNCED"}

(* With no event pending it returns before it comes to the overrides.           *)
ReadPending ==
    /\ pass.at = "idle"
    /\ PendingRows # {} \/ masterPending
    /\ pass' = [NoPass EXCEPT !.at = "read", !.batch = [r \in PendingRows |-> row[r]],
                              !.master = masterPending]
    /\ UNCHANGED <<row, shown, override, masterPending, remote, plain, clock, faults, fetch, owed, left>>

(* POST of a row without provider id, PATCH or DELETE of its own event.  Of a row   *)
(* sent twice the later event stands for both: GoogleEventSync has the duplicates. *)
ServerTakesBatch ==
    /\ pass.at = "read"
    /\ plain' = [p \in Rows |->
           IF p \in DOMAIN pass.batch /\ pass.batch[p].syncStatus = "PENDING_INSERT" THEN pass.batch[p].content
           ELSE LET of == {r \in DOMAIN pass.batch : pass.batch[r].link = <<"own", p>>}
                IN  IF of = {} THEN plain[p]
                    ELSE LET r == CHOOSE r \in of : TRUE
                         IN  IF pass.batch[r].syncStatus = "PENDING_DELETE" THEN NoEvent ELSE pass.batch[r].content]
    /\ pass' = [pass EXCEPT !.at = "answered"]
    /\ UNCHANGED <<row, shown, override, masterPending, remote, clock, faults, fetch, owed, left>>

(* Results are written to rows that are still as they were read.                *)
WriteResults ==
    LET same == {r \in DOMAIN pass.batch : row[r] = pass.batch[r]}
        deleted == {r \in same : row[r].syncStatus = "PENDING_DELETE"}
        link(r) == IF row[r].syncStatus = "PENDING_INSERT" THEN <<"own", r>> ELSE row[r].link
    IN  /\ pass.at = "answered"
        /\ row' = [r \in Rows |-> IF r \in deleted THEN Gone
                                  ELSE IF r \in same THEN Synced(link(r), row[r].content) ELSE row[r]]
        /\ override' = OverridesWithout(deleted)
        /\ masterPending' = (masterPending /\ ~pass.master)
        /\ pass' = [NoPass EXCEPT !.at = "written"]
        /\ UNCHANGED <<shown, remote, plain, clock, faults, fetch, owed, left>>

ReadOverrides ==
    /\ pass.at = "written"
    /\ LET waiting == {i \in Instances : override[i].pending}
       IN  pass' = IF waiting = {} THEN NoPass
                   ELSE [NoPass EXCEPT !.at = "overrides", !.todo = [i \in waiting |-> override[i]]]
    /\ UNCHANGED <<row, shown, override, masterPending, remote, plain, clock, faults, fetch, owed, left>>

IsNext(i) == i \in DOMAIN pass.todo /\ \A j \in DOMAIN pass.todo : i <= j

(* The pass goes on with the other overrides; after the last one it is over.      *)
Without(i) ==
    LET rest == DOMAIN pass.todo \ {i}
    IN  IF rest = {} THEN NoPass
        ELSE [NoPass EXCEPT !.at = "overrides", !.todo = [j \in rest |-> pass.todo[j]]]

(* uploadRecurrenceOverride up to its request, with the replacement as it is now. *)
Sendable(o) == o.type = "CANCELLED" \/ Live(o.replacement)

SendOverride(i) ==
    /\ pass.at = "overrides" /\ IsNext(i)
    /\ Sendable(pass.todo[i])
    /\ pass' = [pass EXCEPT !.at = "sent", !.current = i,
           !.sent = IF pass.todo[i].type = "CANCELLED" THEN 0 ELSE row[pass.todo[i].replacement].content]
    /\ UNCHANGED <<row, shown, override, masterPending, remote, plain, clock, faults, fetch, owed, left>>

(* It returns false: no replacement, or the instance was not found.             *)
NotSent(i) ==
    /\ pass.at = "overrides" /\ IsNext(i)
    /\ \/ ~Sendable(pass.todo[i]) /\ UNCHANGED faults
       \/ Sendable(pass.todo[i]) /\ faults < MaxFaults /\ faults' = faults + 1
    /\ pass' = Without(i)
    /\ UNCHANGED <<row, shown, override, masterPending, remote, plain, clock, fetch, owed, left>>

Received ==
    LET i == pass.current
        o == pass.todo[i]
    IN  /\ remote' = [remote EXCEPT ![i] = IF o.type = "CANCELLED" THEN [type |-> "CANCELLED", content |-> 0, localId |-> @.localId]
                          ELSE [type |-> "MODIFIED", content |-> pass.sent, localId |-> o.replacement]]
        /\ owed' = IF owed[i].type = o.type /\ (o.type = "CANCELLED" \/ owed[i].content = pass.sent)
                   THEN [owed EXCEPT ![i] = Nothing] ELSE owed

ServerAccepts ==
    /\ pass.at = "sent"
    /\ Received
    /\ pass' = [pass EXCEPT !.at = "accepted"]
    /\ UNCHANGED <<row, shown, override, masterPending, plain, clock, faults, fetch, left>>

(* 404 counts as accepted too: the change is given up.                         *)
ServerMissesInstance ==
    /\ pass.at = "sent"
    /\ faults < MaxFaults /\ faults' = faults + 1
    /\ owed' = [owed EXCEPT ![pass.current] = Nothing]
    /\ pass' = [pass EXCEPT !.at = "accepted"]
    /\ UNCHANGED <<row, shown, override, masterPending, remote, plain, clock, fetch, left>>

(* Mutant: so does every other status, and nobody knows. *)
RejectedButMarked ==
    /\ pass.at = "sent"
    /\ UNCHANGED <<remote, owed>>
    /\ faults < MaxFaults /\ faults' = faults + 1
    /\ pass' = [pass EXCEPT !.at = "accepted"]
    /\ UNCHANGED <<row, shown, override, masterPending, plain, clock, fetch, left>>

ServerRejects ==
    /\ pass.at = "sent"
    /\ Received \/ UNCHANGED <<remote, owed>>
    /\ faults < MaxFaults /\ faults' = faults + 1
    /\ pass' = Without(pass.current)
    /\ UNCHANGED <<row, shown, override, masterPending, plain, clock, fetch, left>>

(* The replacement, read again, becomes the instance; UNIQUE (calendar_id,       *)
(* provider_event_id) makes the UPDATE throw if another row is that instance.    *)
LinkReplacement ==
    LET i == pass.current
        r == pass.todo[i].replacement
    IN  /\ pass.at = "accepted"
        /\ Linked(i) \ {r} = {} \/ ~Live(r)
        /\ row' = IF Live(r) THEN [row EXCEPT ![r] = Synced(<<"instance", i>>, @.content)] ELSE row
        /\ pass' = [pass EXCEPT !.at = "linked"]
        /\ UNCHANGED <<shown, override, masterPending, remote, plain, clock, faults, fetch, owed, left>>

LinkThrows ==
    /\ pass.at = "accepted"
    /\ Live(pass.todo[pass.current].replacement)
    /\ Linked(pass.current) \ {pass.todo[pass.current].replacement} # {}
    /\ pass' = NoPass
    /\ UNCHANGED <<row, shown, override, masterPending, remote, plain, clock, faults, fetch, owed, left>>

(* Mutant: the override stays pending. *)
MarkNothing ==
    /\ pass.at = "linked"
    /\ pass' = Without(pass.current)
    /\ UNCHANGED <<row, shown, override, masterPending, remote, plain, clock, faults, fetch, owed, left>>

MarkRecurrenceOverrideSynced ==
    /\ pass.at = "linked"
    /\ override' = [override EXCEPT ![pass.current].pending = FALSE]
    /\ pass' = Without(pass.current)
    /\ UNCHANGED <<row, shown, masterPending, remote, plain, clock, faults, fetch, owed, left>>

PassStep ==
    \/ ServerTakesBatch \/ WriteResults \/ ReadOverrides
    \/ \E i \in Instances : SendOverride(i) \/ NotSent(i)
    \/ ServerAccepts \/ ServerMissesInstance \/ ServerRejects
    \/ LinkReplacement \/ LinkThrows \/ MarkRecurrenceOverrideSynced

-----------------------------------------------------------------------------
(* A fetch: what the server lists is stored item by item (PersistRemoteEvent).   *)

FetchIdle == DOMAIN fetch.instances = {} /\ DOMAIN fetch.plain = {}

FetchLists ==
    /\ FetchIdle
    /\ fetch' = [instances |-> [i \in {j \in Instances : remote[j] # AsRuled} |-> remote[i]],
                 plain |-> [p \in {q \in Rows : plain[q] # NoEvent} |-> plain[p]]]
    /\ fetch' # fetch
    /\ UNCHANGED <<row, shown, override, masterPending, remote, plain, clock, faults, pass, owed, left>>

Stored(i) == fetch' = [fetch EXCEPT !.instances = [j \in DOMAIN @ \ {i} |-> @[j]]]

(* It looks at the row and the master, not at the override.                    *)
Skips(i) == masterPending \/ \E r \in Linked(i) : row[r].syncStatus # "SYNCED"

(* Mutant: the replacement is not looked for. *)
TargetsById(i) ==
    IF Linked(i) # {} THEN Linked(i)
    ELSE IF Live(fetch.instances[i].localId) THEN {fetch.instances[i].localId}
    ELSE NewRow

(* The row of the instance, the replacement, or the row named by local_id.       *)
Targets(i) ==
    LET r == override[i].replacement
    IN  IF Linked(i) # {} THEN Linked(i)
        ELSE IF override[i].type = "MODIFIED" /\ Live(r) /\ row[r].syncStatus = "SYNCED" THEN {r}
        ELSE IF Live(fetch.instances[i].localId) THEN {fetch.instances[i].localId}
        ELSE NewRow

(* A pending change of the instance is overwritten.                            *)
Overwritten(i) == owed' = [owed EXCEPT ![i] = Nothing]

ExceptionOverride(i) ==
    \E r \in Rows : row'[r].link = <<"instance", i>> /\ override' = [override EXCEPT ![i] = Override("MODIFIED", r, FALSE)]

PersistException(i) ==
    /\ i \in DOMAIN fetch.instances /\ fetch.instances[i].type = "MODIFIED" /\ ~Skips(i)
    /\ \E r \in Targets(i) : row' = [row EXCEPT ![r] = Synced(<<"instance", i>>, fetch.instances[i].content)]
    /\ ExceptionOverride(i)
    /\ Overwritten(i)
    /\ Stored(i)
    /\ UNCHANGED <<shown, masterPending, remote, plain, clock, faults, pass, left>>

(* A replacement that is not uploaded stays in the table.                     *)
PersistCancelled(i) ==
    /\ i \in DOMAIN fetch.instances /\ fetch.instances[i].type = "CANCELLED" /\ ~Skips(i)
    /\ row' = RowsWithout(Linked(i))
    /\ override' = [OverridesWithout(Linked(i)) EXCEPT ![i] = Override("CANCELLED", NoRow, FALSE)]
    /\ Overwritten(i)
    /\ LeavesBehind(i, Linked(i))
    /\ Stored(i)
    /\ UNCHANGED <<shown, masterPending, remote, plain, clock, faults, pass>>

SkipInstance(i) ==
    /\ i \in DOMAIN fetch.instances /\ Skips(i)
    /\ Stored(i)
    /\ UNCHANGED <<row, shown, override, masterPending, remote, plain, clock, faults, pass, owed, left>>

(* An event of its own: to its row, else to the row named by local_id.           *)
PersistPlain(p) ==
    LET rows == {r \in Rows : row[r].link = <<"own", p>>}
    IN  /\ p \in DOMAIN fetch.plain
        /\ IF \E r \in rows : row[r].syncStatus # "SYNCED" THEN UNCHANGED row
           ELSE \E r \in IF rows # {} THEN rows ELSE IF Live(p) THEN {p} ELSE NewRow :
                    row' = [row EXCEPT ![r] = Synced(<<"own", p>>, fetch.plain[p])]
        /\ fetch' = [fetch EXCEPT !.plain = [q \in DOMAIN @ \ {p} |-> @[q]]]
        \* the row may be the replacement of a pending change
        /\ owed' = [i \in Instances |-> IF override[i].replacement # NoRow
                       /\ row'[override[i].replacement] # row[override[i].replacement] THEN Nothing ELSE owed[i]]
        /\ UNCHANGED <<shown, override, masterPending, remote, plain, clock, faults, pass, left>>

FetchStep ==
    \/ \E i \in Instances : PersistException(i) \/ PersistCancelled(i) \/ SkipInstance(i)
    \/ \E p \in Rows : PersistPlain(p)

(* Somebody changes or cancels an instance elsewhere.                          *)
RemoteWrites(i) ==
    /\ Writes
    /\ \E type \in {"MODIFIED", "CANCELLED"} :
           remote' = [remote EXCEPT ![i] = [type |-> type, localId |-> @.localId,
                                            content |-> IF type = "MODIFIED" THEN clock' ELSE 0]]
    /\ UNCHANGED <<row, shown, override, masterPending, plain, faults, pass, fetch, owed, left>>

Next ==
    \/ UserNext
    \/ ReadPending
    \/ PassStep
    \/ FetchLists
    \/ FetchStep
    \/ \E i \in Shared : RemoteWrites(i)

Spec == Init /\ [][Next]_vars

(* The worker runs a pass every interval, and requests end.                    *)
FairSpec == Spec /\ WF_vars(ReadPending) /\ WF_vars(PassStep) /\ WF_vars(FetchStep)

-----------------------------------------------------------------------------
Contents == 0..MaxStamp
Links == ({"replacement", "instance"} \X Instances) \cup ({"own"} \X Rows)
OverrideType == [type : {"CANCELLED", "MODIFIED"}, replacement : Rows \cup {NoRow}, pending : BOOLEAN]

TypeOK ==
    /\ \A r \in Rows : Live(r) => row[r] \in
           [content : 1..MaxStamp, link : Links,
            syncStatus : {"SYNCED", "PENDING_INSERT", "PENDING_UPDATE", "PENDING_DELETE"}]
    /\ \A r, q \in Rows : row[r].link = row[q].link /\ row[r].link[1] \in {"instance", "own"} => r = q
    /\ shown.instance \in Instances \cup {0} /\ shown.row \in Rows \cup {NoRow}
    /\ left \subseteq Instances
    /\ \A i \in Instances : override[i] \in OverrideType \cup {NoOverride}
    /\ \A i \in Instances : Live(override[i].replacement) \/ override[i].replacement = NoRow
    /\ masterPending \in BOOLEAN
    /\ \A i \in Instances : remote[i] \in
           [type : {"AS_RULED", "MODIFIED", "CANCELLED"}, content : Contents, localId : Rows \cup {NoRow}]
    /\ plain \in [Rows -> Contents]
    /\ clock \in Contents /\ faults \in 0..MaxFaults
    /\ pass.at \in {"idle", "read", "answered", "written", "overrides", "sent", "accepted", "linked"}
    /\ pass.at \in {"sent", "accepted", "linked"} <=> pass.current \in DOMAIN pass.todo
    /\ DOMAIN fetch.instances \subseteq Instances /\ DOMAIN fetch.plain \subseteq Rows
    /\ \A i \in Instances : owed[i].type \in {"NONE", "CANCELLED", "MODIFIED"} /\ owed[i].content \in Contents

(* A change of one instance is still pending with what the user wrote until the   *)
(* server gets it.  Not owed: changes made after a pass has read the override and  *)
(* before it marks it, changes a fetch finds another exception for, replacements the *)
(* user or a fetch made an event of its own or a change of the series deleted, and   *)
(* changes the server answers with 404, which uploadRecurrenceOverride takes for an *)
(* acceptance.                                                              *)
InstanceChangeKept ==
    \A i \in Instances : owed[i] # Nothing =>
        /\ override[i].pending
        /\ override[i].type = owed[i].type
        /\ owed[i].type = "MODIFIED" => row[override[i].replacement].content = owed[i].content

(* An instance is shown once: the rows of the table that stand for it are the      *)
(* replacement its override names, so there is one at most and the series does not   *)
(* show it too.  Not so where a save met a row its occurrence was loaded before, a    *)
(* replacement was made an event of its own before it was uploaded, or a fetch       *)
(* stored a cancellation over a replacement that was not.                        *)
ShownOnce ==
    \A i \in Instances \ left : \A r \in Linked(i) \cup NotUploaded(i) :
        override[i].type = "MODIFIED" /\ override[i].replacement = r

(* LinkReplacement would make a second row the instance.                       *)
Blocked(i) == override[i].pending /\ Linked(i) \ {override[i].replacement} # {}

(* While changes of events keep the passes going, a pending change of an instance *)
(* does not stay pending for ever, unless its replacement is gone or a change of an    *)
(* instance that has got another row ends every pass (LinkThrows).               *)
OverridesUploaded ==
    []<>masterPending =>
        \A i \in Instances : (override[i].pending ~>
            (~override[i].pending \/ ~Sendable(override[i]) \/ \E j \in Instances : Blocked(j)))
=============================================================================
