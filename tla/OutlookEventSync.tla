--------------------------- MODULE OutlookEventSync ---------------------------
(***************************************************************************)
(* The single events of one Outlook calendar.  The window and               *)
(* syncPendingEvents are those of GoogleEventSync; what differs is how the   *)
(* server's changes arrive (src/sync/outlook_calendar_sync_service.cpp):     *)
(* time is cut into buckets, one per quarter, a row of calendar_sync_ranges  *)
(* keeps a delta link for each, and asking a link gives what has changed     *)
(* since.                                                                    *)
(*                                                                          *)
(* A link is the set of events the server will report when it is asked: a    *)
(* change adds its event to the links of the buckets the event was in or is  *)
(* in now.  remote[p].localId is the transactionId the event was created     *)
(* with; no answer contains it.                                              *)
(***************************************************************************)
EXTENDS Naturals, FiniteSets

CONSTANTS
    Rows, Pids, Fetchers, ForeignRows, MaxStamp, MaxFaults, NoPid, NoRow,
    Worker,      \* the fetcher that refreshes after each pass
    Buckets,     \* the quarters in use
    BucketOf,    \* the bucket of a content: an event's time is part of it
    NoBucket,
    UsersHere    \* does anybody use the calendar here?

VARIABLES row, remote, clock, faults, ui, uploader, pending, unsent, results, checked,
          fetch, held, owed, exposed

G == INSTANCE GoogleEventSync

ASSUME OutlookAssumption ==
    /\ G!EventSyncAssumption
    /\ "pass" \notin Fetchers
    /\ NoBucket \notin Buckets

VARIABLES
    links,   \* calendar_sync_ranges: the link of each bucket
    pull,    \* each fetcher: the range it fetches, as it was read, and its news
    overtaken, \* history: copies of events a thread holds while another has newer
    stale,   \* history: buckets that missed news of an event, and the event
    doubled  \* history: writes to the second row of an event

uploadVars == <<uploader, pending, unsent, results, checked>>
historyVars == <<held, owed, exposed>>
outlookVars == <<links, pull, overtaken, stale, doubled>>
vars == <<row, remote, clock, faults, ui, uploadVars, fetch, historyVars, outlookVars>>

(* A range without a link is not stored; an expired one is refused. *)
Links == [state : {"none", "valid", "expired"}, due : SUBSET Pids]
NoLink == [state |-> "none", due |-> {}]
Valid(P) == [state |-> "valid", due |-> P]

(* ask: removals still to be looked up; fresh: the link the answer came with.   *)
NoPull == [bucket |-> NoBucket, link |-> NoLink, ask |-> {}, fresh |-> {}, failed |-> FALSE]

Init ==
    /\ G!Init
    /\ links = [b \in Buckets |-> NoLink]
    /\ pull = [f \in Fetchers |-> NoPull]
    /\ overtaken = {}
    /\ stale = {}
    /\ doubled = {}

-----------------------------------------------------------------------------
(* The server. *)

InBucket(event, b) == event # G!NoEvent /\ BucketOf[event.content] = b

(* Events that a step changes while they are in bucket b, or come there.      *)
ChangedIn(b) ==
    {p \in Pids : remote'[p] # remote[p] /\ (InBucket(remote[p], b) \/ InBucket(remote'[p], b))}

Reporting(l, P) == IF l.state = "valid" THEN Valid(l.due \cup P) ELSE l

(* Every link there is reports the step's changes: stored ones, copies of them,  *)
(* and those that have not been stored yet.                                  *)
ServerSteps ==
    /\ links' = [b \in Buckets |-> Reporting(links[b], ChangedIn(b))]
    /\ pull' = [f \in Fetchers |->
           LET P == ChangedIn(pull[f].bucket)
           IN  [pull[f] EXCEPT !.link = Reporting(@, P),
                               !.fresh = IF fetch[f].at = "storing" THEN @ \cup P ELSE @]]
    /\ stale' = {s \in stale : s[2] \notin ChangedIn(s[1])}
    /\ UNCHANGED <<overtaken, doubled>>

Inserts(e) == pending[e].syncStatus = "PENDING_INSERT"

(* The events that earlier requests with the row's transactionId have made.   *)
MadeBefore(e) == {p \in Pids : remote[p].localId = e}

ServerAccepts(e) ==
    /\ e \in unsent
    /\ Inserts(e) => MadeBefore(e) = {}
    /\ G!ServerAccepts(e)
    /\ ServerSteps

ResponseLost(e) ==
    /\ e \in unsent
    /\ Inserts(e) => MadeBefore(e) = {}
    /\ G!ResponseLost(e)
    /\ ServerSteps

(* The server knows the transactionId and answers with the event it has.  (It  *)
(* may refuse instead: ServerRejects.)                                       *)
ServerRepeats(e) ==
    /\ uploader = "sending"
    /\ e \in unsent
    /\ Inserts(e)
    /\ unsent' = unsent \ {e}
    /\ \E p \in MadeBefore(e) :
           LET done == IF remote[p].content = pending[e].content
                       THEN {G!Owing(e, pending[e])} ELSE {}
           IN  /\ results' = [d \in DOMAIN results \cup {e} |->
                      IF d = e THEN G!SyncedRow(p, remote[p].content) ELSE results[d]]
               /\ owed' = owed \ done
               /\ exposed' = exposed \ done
    /\ UNCHANGED <<row, remote, clock, faults, ui, uploader, pending, checked, fetch, held,
                   outlookVars>>

TokenExpires(b) ==
    /\ links[b].state = "valid"
    /\ faults < MaxFaults
    /\ faults' = faults + 1
    /\ links' = [links EXCEPT ![b] = [state |-> "expired", due |-> {}]]
    /\ UNCHANGED <<row, remote, clock, ui, uploader, pending, unsent, results, checked, fetch,
                   held, owed, exposed, pull, overtaken, stale, doubled>>

RemoteNext ==
    /\ \E p \in Pids : G!RemoteCreates(p) \/ G!RemoteEdits(p) \/ G!RemoteDeletes(p)
    /\ ServerSteps

-----------------------------------------------------------------------------
(* FetchAndPersistOutlookBucket, for one bucket after the other: on the worker   *)
(* after a pass, and on a thread that covers what is shown.  The range is read  *)
(* before it is asked for, on the worker together with those of other buckets.  *)

FetchInRange(f, b) ==
    /\ pull[f] = NoPull
    /\ f = Worker => uploader = "idle"
    /\ pull' = [pull EXCEPT ![f].bucket = b, ![f].link = links[b]]
    /\ UNCHANGED <<row, remote, clock, faults, ui, uploadVars, fetch, historyVars, links,
                   overtaken, stale, doubled>>

Fetching(f) == pull[f] # NoPull

(* The news a fetch has not stored yet, and the answers a pass has not written.  *)
News == {<<f, p, fetch[f].seen[p].content>> : f \in Fetchers, p \in Pids}
Holds(n) == n[2] \in fetch[n[1]].todo
Answers == {<<"pass", results[e].pid, results[e].content>> : e \in DOMAIN results}

(* Copies of events in P, or in bucket b, that are older than what f hears now.  *)
Overtaking(f, P, b) ==
    {<<n[1], n[2]>> : n \in {m \in Answers \cup {k \in News : Holds(k)} :
        /\ m[1] # f
        /\ m[2] \in P \/ (m[3] # 0 /\ BucketOf[m[3]] = b)}}

Without(x, P) == {o \in overtaken : o[1] # x \/ o[2] \notin P}

(* Events stored in bucket b that the server does not have there.             *)
NotListed(b) ==
    {p \in Pids : ~InBucket(remote[p], b) /\ \E e \in G!WithPid(p) : BucketOf[row[e].content] = b}

(* The answer: every event in the bucket if there is no link, else those the    *)
(* link reports, as they are or @removed.                                    *)
FetchDelta(f) ==
    /\ Fetching(f)
    /\ fetch[f].at = "idle"
    /\ pull[f].link.state # "expired"
    /\ LET b == pull[f].bucket
           here == {p \in Pids : InBucket(remote[p], b)}
           reported == IF pull[f].link = NoLink THEN here ELSE pull[f].link.due
       IN  /\ fetch' = [fetch EXCEPT ![f] =
                  [at |-> "storing", todo |-> reported, victims |-> {},
                   seen |-> [p \in Pids |-> IF p \in reported \cap here
                                            THEN [content |-> remote[p].content, localId |-> NoRow]
                                            ELSE G!NoEvent]]]
           /\ pull' = [pull EXCEPT ![f].ask = reported \ here]
           /\ overtaken' = overtaken \cup Overtaking(f, reported, b)
           /\ stale' = IF pull[f].link = NoLink THEN stale \cup ({b} \X NotListed(b)) ELSE stale
    /\ UNCHANGED <<row, remote, clock, faults, ui, uploadVars, historyVars, links, doubled>>

(* ResolveRemovedOutlookEvent: the event may have moved to another bucket.  If  *)
(* it cannot be looked up the removal is skipped.                            *)
ResolveRemoved(f, p) ==
    /\ p \in pull[f].ask
    /\ \/ /\ fetch' = [fetch EXCEPT ![f].seen[p] =
                 IF remote[p] = G!NoEvent THEN G!NoEvent
                 ELSE [content |-> remote[p].content, localId |-> NoRow]]
          /\ UNCHANGED stale
       \/ /\ fetch' = [fetch EXCEPT ![f].todo = @ \ {p}]
          /\ stale' = stale \cup (Buckets \X {p})
    /\ pull' = [pull EXCEPT ![f].ask = @ \ {p}]
    /\ overtaken' = overtaken \cup Overtaking(f, {p}, pull[f].bucket)
    /\ UNCHANGED <<row, remote, clock, faults, ui, uploadVars, historyVars, links, doubled>>

(* FlushOutlookRangeEventBuffer and PersistRemoteEvent, event by event.       *)
PersistRemoteEvent(f, p) ==
    LET event == fetch[f].seen[p]
    IN  /\ p \in fetch[f].todo \ pull[f].ask
        /\ IF G!LocallyChanged(p) THEN UNCHANGED row
           ELSE IF event = G!NoEvent
           THEN row' = [e \in Rows |-> IF e \in G!WithPid(p) THEN G!Gone ELSE row[e]]
           ELSE \E e \in G!UpsertTargets(NoRow, p) :
                    row' = [row EXCEPT ![e] = G!SyncedRow(p, event.content)]
        /\ fetch' = [fetch EXCEPT ![f].todo = @ \ {p}]
        /\ stale' = IF <<f, p>> \in overtaken THEN stale \cup (Buckets \X {p}) ELSE stale
        /\ overtaken' = Without(f, {p})
        /\ UNCHANGED <<remote, clock, faults, ui, uploadVars, historyVars,
                       links, pull, doubled>>

(* Mutant: removals are looked up after the failure too. *)
FetchFailsAndAsks(f) ==
    /\ Fetching(f)
    /\ ~pull[f].failed
    /\ fetch' = [fetch EXCEPT ![f].todo = {}, ![f].at = "storing"]
    /\ pull' = [pull EXCEPT ![f].failed = TRUE]
    /\ overtaken' = {o \in overtaken : o[1] = f => o[2] \in fetch'[f].todo}
    /\ UNCHANGED <<row, remote, clock, faults, ui, uploadVars, historyVars,
                   links, stale, doubled>>

(* A page is not answered with success.  The pages before it are stored, the    *)
(* link is not; a link that has expired is kept like any other.              *)
FetchFails(f) ==
    /\ Fetching(f)
    /\ ~pull[f].failed
    /\ \E S \in SUBSET (fetch[f].todo \ pull[f].ask) : fetch' = [fetch EXCEPT ![f].todo = S,
                                                                              ![f].at = "storing"]
    /\ pull' = [pull EXCEPT ![f].ask = {}, ![f].failed = TRUE]
    /\ overtaken' = {o \in overtaken : o[1] = f => o[2] \in fetch'[f].todo}
    /\ UNCHANGED <<row, remote, clock, faults, ui, uploadVars, historyVars,
                   links, stale, doubled>>

BucketDone(f) ==
    /\ fetch[f].at = "storing"
    /\ fetch[f].todo = {}
    /\ fetch' = [fetch EXCEPT ![f] = G!NoFetch]
    /\ pull' = [pull EXCEPT ![f] = NoPull]
    /\ UNCHANGED <<row, remote, clock, faults, ui, uploadVars, historyVars, overtaken, stale, doubled>>

(* Mutant: the link is stored although a page failed. *)
UpsertRangeAnyway(f) ==
    /\ BucketDone(f)
    /\ links' = [links EXCEPT ![pull[f].bucket] = Valid(pull[f].fresh)]

(* upsertRange *)
UpsertRange(f) ==
    /\ ~pull[f].failed
    /\ BucketDone(f)
    /\ links' = [links EXCEPT ![pull[f].bucket] = Valid(pull[f].fresh)]

GiveUp(f) == pull[f].failed /\ BucketDone(f) /\ UNCHANGED links

-----------------------------------------------------------------------------
(* The window, and the steps of a pass that do not reach the server.          *)

(* Another row waits for the id of the event that row e stands for already, or  *)
(* is about to be given it, or may yet be: another installation made the event  *)
(* with a transactionId that is the id of a row here.                         *)
SecondRow(e) ==
    LET p == row'[e].pid
    IN  p # NoPid /\ \E d \in Rows \ {e} :
            \/ /\ remote[p].localId = d
               /\ G!Live(d) \/ d \in DOMAIN pending \/ d \in ForeignRows
            \/ d \in DOMAIN results /\ results[d].pid = p

UserWrites ==
    /\ doubled' = (doubled \cap owed') \cup {o \in owed' \ owed : SecondRow(o[1])}
    /\ UNCHANGED <<links, pull, overtaken>>

(* The window read the row before its event had an id, and writes over it or   *)
(* deletes it when it has one.                                               *)
WriteBack ==
    /\ G!SaveEvent \/ G!DeleteEvent
    /\ stale' = stale \cup (Buckets \X {p \in Pids : row[ui.id].pid = p /\ ui.snap.pid = NoPid})
    /\ UserWrites

UserNext ==
    /\ UsersHere
    /\ \/ WriteBack
       \/ /\ \/ G!CreateEvent
             \/ \E e \in Rows : G!OpenEventDialog(e) \/ G!ReadForDelete(e)
             \/ G!CloseEventDialog
             \/ G!SoftDelete
             \/ G!SoftDeleteAllByCalendar
          /\ UserWrites
          /\ UNCHANGED stale

(* A result is written or dropped: the pass holds no copy of it any more.      *)
Forgotten == {o \in overtaken : o[1] = "pass" => \E e \in DOMAIN results' : results'[e].pid = o[2]}

WriteResult ==
    /\ G!WriteResult
    /\ stale' = IF <<"pass", results[checked].pid>> \in overtaken
                THEN stale \cup (Buckets \X {results[checked].pid}) ELSE stale
    /\ overtaken' = Forgotten
    /\ UNCHANGED <<links, pull, doubled>>

UploadNext ==
    \/ \E e \in Rows : ServerAccepts(e) \/ ResponseLost(e) \/ ServerRepeats(e)
    \/ WriteResult
    \/ /\ \/ (Worker \in Fetchers => pull[Worker] = NoPull) /\ G!ReadPending
          \/ \E e \in Rows : G!ServerRejects(e)
       /\ UNCHANGED outlookVars
    \/ /\ \/ \E e \in Rows : G!CheckResult(e)
          \/ G!WriteThrows
          \/ G!PassEnds
       /\ overtaken' = Forgotten
       /\ UNCHANGED <<links, pull, stale, doubled>>

FetchNext(f) ==
    \/ FetchDelta(f)
    \/ \E p \in Pids : ResolveRemoved(f, p) \/ PersistRemoteEvent(f, p)
    \/ FetchFails(f)
    \/ UpsertRange(f)
    \/ GiveUp(f)

Next ==
    \/ UserNext
    \/ UploadNext
    \/ RemoteNext
    \/ \E b \in Buckets : TokenExpires(b)
    \/ \E f \in Fetchers, b \in Buckets : FetchInRange(f, b)
    \/ \E f \in Fetchers : FetchNext(f)

Spec == Init /\ [][Next]_vars

-----------------------------------------------------------------------------
TypeOK ==
    /\ G!TypeOK
    /\ links \in [Buckets -> Links]
    /\ \A f \in Fetchers :
           /\ pull[f].bucket \in Buckets \cup {NoBucket}
           /\ pull[f].link \in Links
           /\ pull[f].ask \subseteq fetch[f].todo
           /\ pull[f].fresh \subseteq Pids
           /\ pull[f].failed \in BOOLEAN
           /\ fetch[f].at = "storing" => Fetching(f)
    /\ overtaken \subseteq (Fetchers \cup {"pass"}) \X Pids
    /\ stale \subseteq Buckets \X Pids
    /\ doubled \subseteq Rows \X G!Stamps \X BOOLEAN

(* What a stored link will not report is in the table: the row of an event in   *)
(* the link's bucket says what the server has, or waits to be sent, and no     *)
(* row says an event is there that is not.                                   *)
MirroredIn(b, p) ==
    /\ InBucket(remote[p], b) => G!WithPid(p) # {}
    /\ \A e \in G!WithPid(p) :
           \/ row[e].syncStatus # "SYNCED"
           \/ row[e].content = remote[p].content
           \/ ~InBucket(remote[p], b) /\ BucketOf[row[e].content] # b

Mirrored ==
    \A b \in Buckets : links[b].state = "valid" =>
        \A p \in Pids \ links[b].due : <<b, p>> \in stale \/ MirroredIn(b, p)

UniqueProviderIds == G!UniqueProviderIds

EditKept == \A o \in G!Firm \ doubled : G!Kept(o)
=============================================================================
