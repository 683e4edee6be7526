------------------------- MODULE OutlookEventSyncProofs -------------------------
(***************************************************************************)
(* OutlookEventSync, for any tables, buckets and events of other            *)
(* installations, and any number of fetches at once: a provider id belongs   *)
(* to one row; a link reports what the table does not have yet; and a saved   *)
(* change is kept until the server has accepted it.                          *)
(*                                                                          *)
(* The window and the pass are those of GoogleEventSync: their lemmas are     *)
(* taken over from GoogleEventSyncProofs.  Then come the shape of the state,   *)
(* what becomes of provider ids, and on top of these the two arguments that   *)
(* are Outlook's own, Mirrored and EditKept.                                 *)
(***************************************************************************)
EXTENDS OutlookEventSync, TLAPS

P == INSTANCE GoogleEventSyncProofs

-----------------------------------------------------------------------------
(* The invariant the two calendars share.  Each lemma takes over one of         *)
(* GoogleEventSyncProofs, whose definitions are those of GoogleEventSync.       *)

LEMMA SameBase == (P!BaseInv <=> G!BaseInv) /\ (P!BaseInv' <=> G!BaseInv')
  BY DEF P!BaseInv, G!BaseInv, P!TypeOK, G!TypeOK, P!CopiesInv, G!CopiesInv,
         P!UniqueProviderIds, G!UniqueProviderIds, P!SyncedWasServed, G!SyncedWasServed,
         P!RowType, G!RowType, P!RemoteType, G!RemoteType, P!Stamps, G!Stamps,
         P!Gone, G!Gone, P!NoEvent, G!NoEvent, P!Closed, G!Closed,
         P!SyncedRow, G!SyncedRow

LEMMA InitBase == G!Init => G!BaseInv
  <1>1. P!Init <=> G!Init
    BY DEF P!Init, G!Init, P!Gone, G!Gone, P!NoEvent, G!NoEvent, P!Closed, G!Closed,
           P!NoFetch, G!NoFetch
  <1> QED
    BY <1>1, SameBase, OutlookAssumption, P!InitBase
    DEF P!InitBase, P!EventSyncAssumption, G!EventSyncAssumption

(* What the window does keeps it. *)
LEMMA WindowKeepsBase == G!BaseInv /\ G!UserNext => G!BaseInv'
  <1>1. P!UserNext <=> G!UserNext
    BY DEF P!UserNext, G!UserNext, P!CreateEvent, G!CreateEvent,
           P!OpenEventDialog, G!OpenEventDialog, P!ReadForDelete, G!ReadForDelete,
           P!CloseEventDialog, G!CloseEventDialog, P!SaveEvent, G!SaveEvent,
           P!DeleteEvent, G!DeleteEvent, P!SoftDelete, G!SoftDelete,
           P!SoftDeleteAllByCalendar, G!SoftDeleteAllByCalendar, P!Marked, G!Marked,
           P!UserWrites, G!UserWrites, P!OfRows, G!OfRows, P!Owing, G!Owing,
           P!Exposed, G!Exposed, P!UpsertTargets, G!UpsertTargets, P!Conflict, G!Conflict,
           P!WithPid, G!WithPid, P!NewRow, G!NewRow, P!Unused, G!Unused, P!Live, G!Live,
           P!Closed, G!Closed, P!Gone, G!Gone, P!uploadVars, G!uploadVars,
           P!historyVars, G!historyVars
  <1> QED
    BY <1>1, SameBase, OutlookAssumption, P!UserStep
    DEF P!UserStep, P!EventSyncAssumption, G!EventSyncAssumption

(* So does every step of a pass that is also one of a Google pass. *)
LEMMA PassKeepsBase == G!BaseInv /\ G!UploadNext => G!BaseInv'
  <1>1. P!UploadNext <=> G!UploadNext
    BY DEF P!UploadNext, G!UploadNext, P!ReadPending, G!ReadPending,
           P!PendingRows, G!PendingRows, P!ServerAccepts, G!ServerAccepts,
           P!ResponseLost, G!ResponseLost, P!Accepts, G!Accepts, P!Applied, G!Applied,
           P!NewPid, G!NewPid, P!Used, G!Used, P!InsertedEvent, G!InsertedEvent,
           P!Answer, G!Answer, P!ServerRejects, G!ServerRejects,
           P!CheckResult, G!CheckResult,
           P!CanCompletePendingUpload, G!CanCompletePendingUpload, P!Without, G!Without,
           P!WriteResult, G!WriteResult, P!WriteThrows, G!WriteThrows,
           P!PassEnds, G!PassEnds, P!EndOfPass, G!EndOfPass, P!Owing, G!Owing,
           P!UpsertTargets, G!UpsertTargets, P!Conflict, G!Conflict,
           P!WithPid, G!WithPid, P!NewRow, G!NewRow, P!Unused, G!Unused, P!Live, G!Live,
           P!SyncedRow, G!SyncedRow, P!NoEvent, G!NoEvent, P!Gone, G!Gone,
           P!uploadVars, G!uploadVars, P!historyVars, G!historyVars
  <1> QED
    BY <1>1, SameBase, OutlookAssumption, P!UploadStep
    DEF P!UploadStep, P!EventSyncAssumption, G!EventSyncAssumption

(* And what others do to the calendar. *)
LEMMA OthersKeepBase == G!BaseInv /\ G!ElsewhereNext => G!BaseInv'
  <1>1. P!ElsewhereNext <=> G!ElsewhereNext
    BY DEF P!ElsewhereNext, G!ElsewhereNext, P!RemoteCreates, G!RemoteCreates,
           P!RemoteEdits, G!RemoteEdits, P!RemoteDeletes, G!RemoteDeletes,
           P!RemoteWrites, G!RemoteWrites, P!NewPid, G!NewPid, P!Used, G!Used,
           P!NoEvent, G!NoEvent, P!uploadVars, G!uploadVars
  <1> QED
    BY <1>1, SameBase, OutlookAssumption, P!ElsewhereStep
    DEF P!ElsewhereStep, P!EventSyncAssumption, G!EventSyncAssumption

(* No row, no event, no id. *)
LEMMA Nulls ==
    /\ G!Gone.pid = NoPid /\ G!Gone.syncStatus = "GONE" /\ G!Gone.content = 0
    /\ G!Gone \notin G!RowType
    /\ G!NoEvent.content = 0 /\ G!NoEvent.localId = NoRow /\ 0 \notin G!Stamps
    /\ G!NoEvent \in G!RemoteType
    /\ G!Closed.id = NoRow /\ G!Closed.snap = G!Gone /\ G!Closed.at = "idle"
    /\ NoRow \notin Rows /\ NoPid \notin Pids
  BY OutlookAssumption
  DEF G!EventSyncAssumption, G!Gone, G!NoEvent, G!Closed, G!RowType, G!RemoteType, G!Stamps

LEMMA RowParts ==
    /\ \A r \in G!RowType :
           /\ r.pid \in Pids \cup {NoPid} /\ r.content \in G!Stamps
           /\ r.deletedAt \in 0..MaxStamp
           /\ r.syncStatus \in {"PENDING_INSERT", "PENDING_UPDATE", "PENDING_DELETE", "SYNCED"}
    /\ \A p, c :
           /\ G!SyncedRow(p, c).pid = p /\ G!SyncedRow(p, c).content = c
           /\ G!SyncedRow(p, c).deletedAt = 0 /\ G!SyncedRow(p, c).syncStatus = "SYNCED"
           /\ p \in Pids /\ c \in G!Stamps => G!SyncedRow(p, c) \in G!RowType
  BY OutlookAssumption DEF G!EventSyncAssumption, G!RowType, G!SyncedRow

LEMMA EventParts ==
    /\ \A m \in G!RemoteType : m # G!NoEvent =>
           m.content \in G!Stamps /\ m.localId \in Rows \cup {NoRow}
    /\ \A c \in G!Stamps : /\ [content |-> c, localId |-> NoRow] \in G!RemoteType
                           /\ [content |-> c, localId |-> NoRow].content = c
                           /\ [content |-> c, localId |-> NoRow].localId = NoRow
  BY DEF G!RemoteType, G!NoEvent

(* A row in the table has a status and a content; one with an id is there.      *)
LEMMA LiveParts ==
    ASSUME G!BaseInv, NEW e \in Rows
    PROVE  /\ G!Live(e) => row[e] \in G!RowType
           /\ ~G!Live(e) => row[e] = G!Gone
           /\ row[e].pid \in Pids \cup {NoPid}
           /\ row[e].pid # NoPid => G!Live(e) /\ row[e].content \in G!Stamps
           /\ row[e].syncStatus = "SYNCED" => row[e].content \in G!Stamps
  BY Nulls, RowParts DEF G!BaseInv, G!TypeOK, G!Live

(* The one row upsert writes without a local_id. *)
LEMMA TargetParts ==
    ASSUME G!BaseInv, NEW p \in Pids, NEW t \in G!UpsertTargets(NoRow, p)
    PROVE  /\ t \in Rows
           /\ row[t].pid \in {p, NoPid}
           /\ \A d \in Rows \ {t} : row[d].pid # p
           /\ row[t].pid = NoPid => ~G!Live(t) /\ G!Unused(t)
  <1>1. t \in G!WithPid(p) \/ (G!WithPid(p) = {} /\ t \in G!NewRow)
    BY Nulls DEF G!UpsertTargets, G!Live
  <1>2. CASE t \in G!WithPid(p)
    BY <1>2, Nulls DEF G!WithPid, G!BaseInv, G!UniqueProviderIds
  <1>3. CASE G!WithPid(p) = {} /\ t \in G!NewRow
    BY <1>3, Nulls, LiveParts DEF G!WithPid, G!NewRow, G!Unused
  <1> QED
    BY <1>1, <1>2, <1>3

-----------------------------------------------------------------------------
(* The steps that are Outlook's own keep the shared invariant.                *)

FetchType == [at : {"idle", "storing", "reconciling"}, seen : [Pids -> G!RemoteType],
              todo : SUBSET Pids, victims : SUBSET Pids]

(* A fetch only hears what the server has had. *)
LEMMA FetchBase ==
    ASSUME G!BaseInv, UNCHANGED <<row, remote, clock, faults, ui, uploadVars, historyVars>>,
           fetch' \in [Fetchers -> FetchType],
           \A f \in Fetchers, p \in Pids :
               \/ fetch'[f].seen[p] = fetch[f].seen[p]
               \/ fetch'[f].seen[p] = G!NoEvent
               \/ remote[p] # G!NoEvent /\ fetch'[f].seen[p].content = remote[p].content
    PROVE  G!BaseInv'
  <1>1. G!TypeOK'
    BY DEF G!BaseInv, G!TypeOK, FetchType, uploadVars, historyVars
  <1>2. \A f \in Fetchers, p \in Pids : fetch'[f].seen[p] # G!NoEvent =>
            <<p, fetch'[f].seen[p].content>> \in held
    BY DEF G!BaseInv, G!CopiesInv
  <1>3. G!CopiesInv' /\ G!UniqueProviderIds' /\ G!SyncedWasServed'
    BY <1>2
    DEF G!BaseInv, G!CopiesInv, G!UniqueProviderIds, G!SyncedWasServed, uploadVars, historyVars
  <1> QED
    BY <1>1, <1>3 DEF G!BaseInv

(* Asking again for an insert that was made before. *)
LEMMA RepeatsBase == ASSUME G!BaseInv, NEW e \in Rows, ServerRepeats(e) PROVE G!BaseInv'
  <1>1. /\ UNCHANGED <<row, remote, clock, faults, ui, uploader, pending, checked, fetch, held>>
        /\ uploader = "sending" /\ e \in unsent /\ unsent' = unsent \ {e}
    BY DEF ServerRepeats
  <1>2. PICK p \in MadeBefore(e), done \in SUBSET (Rows \X G!Stamps \X BOOLEAN) \cup {owed} :
            /\ results' = [d \in DOMAIN results \cup {e} |->
                   IF d = e THEN G!SyncedRow(p, remote[p].content) ELSE results[d]]
            /\ owed' \subseteq owed /\ exposed' \subseteq owed'
    BY DEF ServerRepeats, G!BaseInv, G!TypeOK
  <1>3. /\ p \in Pids /\ remote[p] # G!NoEvent /\ remote[p].content \in G!Stamps
        /\ <<p, remote[p].content>> \in held
    BY Nulls, EventParts DEF MadeBefore, G!BaseInv, G!TypeOK, G!CopiesInv
  <1>4. e \in DOMAIN pending
    BY <1>1 DEF G!BaseInv, G!TypeOK
  <1> DEFINE r == G!SyncedRow(p, remote[p].content)
  <1>5. r \in G!RowType /\ \E h \in held : r = G!SyncedRow(h[1], h[2])
    BY <1>3, RowParts
  <1> HIDE DEF r
  <1>6. G!TypeOK'
    <2>1. /\ DOMAIN results' \subseteq DOMAIN pending'
          /\ results' \in [DOMAIN results' -> G!RowType \cup {G!Gone}]
          /\ checked' \in DOMAIN results' \cup {NoRow}
      BY <1>1, <1>2, <1>4, <1>5 DEF r, G!BaseInv, G!TypeOK
    <2>2. unsent' \subseteq DOMAIN pending' /\ owed' \subseteq Rows \X G!Stamps \X BOOLEAN
      BY <1>1, <1>2 DEF G!BaseInv, G!TypeOK
    <2> QED
      BY <1>1, <1>2, <2>1, <2>2 DEF G!BaseInv, G!TypeOK
  <1>7. G!CopiesInv'
    BY <1>1, <1>2, <1>5 DEF r, G!BaseInv, G!CopiesInv
  <1> QED
    BY <1>1, <1>6, <1>7 DEF G!BaseInv, G!UniqueProviderIds, G!SyncedWasServed

(* Storing one piece of news. *)
LEMMA StoresBase ==
    ASSUME G!BaseInv, NEW f \in Fetchers, NEW p \in Pids, PersistRemoteEvent(f, p)
    PROVE  G!BaseInv'
  <1> DEFINE event == fetch[f].seen[p]
  <1>1. /\ fetch' = [fetch EXCEPT ![f].todo = @ \ {p}]
        /\ UNCHANGED <<remote, clock, faults, ui, uploadVars, historyVars>>
    BY DEF PersistRemoteEvent
  <1>2. \A g \in Fetchers : fetch'[g].seen = fetch[g].seen
    BY <1>1 DEF G!BaseInv, G!TypeOK
  <1>3. /\ row' \in [Rows -> G!RowType \cup {G!Gone}]
        /\ G!UniqueProviderIds' /\ G!SyncedWasServed'
    <2>1. CASE row' = row
      BY <1>1, <2>1
      DEF G!BaseInv, G!TypeOK, G!UniqueProviderIds, G!SyncedWasServed, historyVars
    <2>2. CASE row' = [e \in Rows |-> IF e \in G!WithPid(p) THEN G!Gone ELSE row[e]]
      BY <1>1, <2>2, Nulls
      DEF G!BaseInv, G!TypeOK, G!UniqueProviderIds, G!SyncedWasServed, historyVars
    <2>3. ASSUME event # G!NoEvent, NEW t \in G!UpsertTargets(NoRow, p),
                 row' = [row EXCEPT ![t] = G!SyncedRow(p, event.content)]
          PROVE  /\ row' \in [Rows -> G!RowType \cup {G!Gone}]
                 /\ G!UniqueProviderIds' /\ G!SyncedWasServed'
      <3> DEFINE r == G!SyncedRow(p, event.content)
      <3>1. <<p, event.content>> \in held /\ event.content \in G!Stamps
        BY <2>3 DEF G!BaseInv, G!CopiesInv, G!TypeOK
      <3>2. /\ r \in G!RowType /\ r.pid = p /\ r.content = event.content
            /\ r.deletedAt = 0
        BY <3>1, RowParts
      <3>3. t \in Rows /\ \A d \in Rows \ {t} : row[d].pid # p
        BY <2>3, TargetParts
      <3> HIDE DEF r
      <3>4. \A d \in Rows : row'[d] = IF d = t THEN r ELSE row[d]
        BY <2>3, <3>3 DEF r, G!BaseInv, G!TypeOK
      <3>5. row' \in [Rows -> G!RowType \cup {G!Gone}]
        BY <2>3, <3>2, <3>3 DEF r, G!BaseInv, G!TypeOK
      <3>6. G!UniqueProviderIds'
        BY <3>2, <3>3, <3>4 DEF G!BaseInv, G!UniqueProviderIds
      <3>7. G!SyncedWasServed'
        BY <1>1, <3>1, <3>2, <3>4 DEF G!BaseInv, G!SyncedWasServed, historyVars
      <3> QED
        BY <3>5, <3>6, <3>7
    <2> QED
      BY <2>1, <2>2, <2>3 DEF PersistRemoteEvent
  <1>4. G!TypeOK'
    <2>1. fetch' \in [Fetchers -> FetchType]
      BY <1>1 DEF G!BaseInv, G!TypeOK, FetchType
    <2> QED
      BY <1>1, <1>3, <2>1 DEF G!BaseInv, G!TypeOK, FetchType, uploadVars, historyVars
  <1>5. G!CopiesInv'
    BY <1>1, <1>2 DEF G!BaseInv, G!CopiesInv, uploadVars, historyVars
  <1> QED
    BY <1>3, <1>4, <1>5 DEF G!BaseInv


-----------------------------------------------------------------------------
(* The shape of the state: what TypeOK says, and what a fetch is at each point. *)

PullType == [bucket : Buckets \cup {NoBucket}, link : Links, ask : SUBSET Pids,
             fresh : SUBSET Pids, failed : BOOLEAN]

PullShape(f) ==
    /\ fetch[f].at \in {"idle", "storing"}
    /\ fetch[f].at = "idle" => fetch[f].todo = {}
    /\ fetch[f].at = "storing" => pull[f].bucket \in Buckets
    /\ pull[f].bucket \in Buckets \/ pull[f] = NoPull
    /\ pull[f].ask \subseteq fetch[f].todo
    /\ pull[f].link.state # "valid" => pull[f].link.due = {}
    /\ \A p \in Pids : fetch[f].seen[p].localId = NoRow

(* The answer to a deletion is no event. *)
DeletionsAnswered ==
    \A e \in DOMAIN results : pending[e].syncStatus = "PENDING_DELETE" => results[e] = G!Gone

Shape ==
    /\ G!BaseInv
    /\ DeletionsAnswered
    /\ links \in [Buckets -> Links]
    /\ \A b \in Buckets : links[b].state # "valid" => links[b].due = {}
    /\ pull \in [Fetchers -> PullType]
    /\ \A f \in Fetchers : PullShape(f)
    /\ overtaken \subseteq (Fetchers \cup {"pass"}) \X Pids
    /\ stale \subseteq Buckets \X Pids
    /\ doubled \subseteq Rows \X G!Stamps \X BOOLEAN

LEMMA LinkParts ==
    /\ NoLink \in Links /\ NoLink.state = "none" /\ NoLink.due = {}
    /\ NoPull \in PullType /\ NoPull.bucket = NoBucket /\ NoPull.link = NoLink
    /\ NoPull.ask = {} /\ NoPull.fresh = {} /\ NoPull.failed = FALSE
    /\ \A D \in SUBSET Pids :
           /\ Valid(D) \in Links /\ Valid(D).state = "valid" /\ Valid(D).due = D
    /\ \A l \in Links, D \in SUBSET Pids :
           /\ Reporting(l, D) \in Links
           /\ Reporting(l, D).state = l.state
           /\ l.state = "valid" => Reporting(l, D).due = l.due \cup D
           /\ l.state # "valid" => Reporting(l, D) = l
    /\ \A l \in Links : l.due \in SUBSET Pids /\ l.state \in {"none", "valid", "expired"}
    /\ \A l \in Links : l.state = "none" /\ l.due = {} => l = NoLink
  BY DEF NoLink, Links, NoPull, PullType, Valid, Reporting

LEMMA FetchParts ==
    ASSUME G!BaseInv, NEW f \in Fetchers
    PROVE  /\ fetch[f] \in FetchType
           /\ fetch[f].todo \in SUBSET Pids
           /\ \A p \in Pids : fetch[f].seen[p] \in G!RemoteType
           /\ \A F \in FetchType : [fetch EXCEPT ![f] = F] \in [Fetchers -> FetchType]
           /\ \A F : [fetch EXCEPT ![f] = F][f] = F
           /\ \A F, g \in Fetchers : g # f => [fetch EXCEPT ![f] = F][g] = fetch[g]
  BY DEF G!BaseInv, G!TypeOK, FetchType

LEMMA ShapeImpliesType == Shape => TypeOK
  <1> SUFFICES ASSUME Shape PROVE TypeOK
    OBVIOUS
  <1>1. \A f \in Fetchers :
            /\ pull[f].bucket \in Buckets \cup {NoBucket}
            /\ pull[f].link \in Links
            /\ pull[f].ask \subseteq fetch[f].todo
            /\ pull[f].fresh \subseteq Pids
            /\ pull[f].failed \in BOOLEAN
    BY DEF Shape, PullShape, PullType
  <1>2. \A f \in Fetchers : fetch[f].at = "storing" => Fetching(f)
    BY OutlookAssumption, LinkParts DEF Shape, PullShape, Fetching
  <1> QED
    BY <1>1, <1>2 DEF Shape, TypeOK, G!BaseInv

LEMMA InitShape == Init => Shape
  <1> SUFFICES ASSUME Init PROVE Shape
    OBVIOUS
  <1>1. G!BaseInv
    BY InitBase DEF Init
  <1>2. \A f \in Fetchers : PullShape(f)
    BY LinkParts, Nulls DEF Init, G!Init, G!NoFetch, PullShape
  <1>3. DeletionsAnswered
    BY DEF Init, G!Init, DeletionsAnswered
  <1> QED
    BY <1>1, <1>2, <1>3, LinkParts DEF Init, G!Init, Shape

(* The window, and what of a pass does not concern the fetches.               *)
LEMMA UserShape == Shape /\ UserNext => Shape'
  <1> SUFFICES ASSUME Shape, UserNext PROVE Shape'
    OBVIOUS
  <1>1. G!UserNext
    BY DEF UserNext, WriteBack, G!UserNext
  <1>2. UNCHANGED <<links, pull, overtaken, fetch, results, pending>>
    BY <1>1
    DEF UserNext, WriteBack, UserWrites, G!UserNext, G!CreateEvent, G!OpenEventDialog,
        G!ReadForDelete, G!CloseEventDialog, G!SaveEvent, G!DeleteEvent, G!SoftDelete,
        G!SoftDeleteAllByCalendar, G!uploadVars
  <1>3. G!BaseInv'
    BY <1>1, WindowKeepsBase DEF Shape
  <1>4. doubled' \subseteq owed' /\ stale' \subseteq Buckets \X Pids
    BY DEF Shape, UserNext, WriteBack, UserWrites
  <1>5. doubled' \subseteq Rows \X G!Stamps \X BOOLEAN
    BY <1>3, <1>4 DEF G!BaseInv, G!TypeOK
  <1> QED
    BY <1>2, <1>3, <1>4, <1>5 DEF Shape, PullShape, DeletionsAnswered


(* What the server reports. *)
LEMMA ServerShape ==
    ASSUME Shape, ServerSteps, G!BaseInv', DeletionsAnswered', UNCHANGED fetch
    PROVE  Shape'
  <1>1. \A b : ChangedIn(b) \in SUBSET Pids
    BY DEF ChangedIn
  <1>2. /\ links' \in [Buckets -> Links]
        /\ \A b \in Buckets : links'[b].state # "valid" => links'[b].due = {}
    <2>1. /\ links \in [Buckets -> Links]
          /\ \A b \in Buckets : links[b].state # "valid" => links[b].due = {}
      BY DEF Shape
    <2>2. links' = [b \in Buckets |-> Reporting(links[b], ChangedIn(b))]
      BY DEF ServerSteps
    <2>3. ASSUME NEW b \in Buckets
          PROVE  links'[b] \in Links /\ (links'[b].state # "valid" => links'[b].due = {})
      BY <1>1, <2>1, <2>2, LinkParts
    <2> QED
      BY <2>2, <2>3
  <1>3. ASSUME NEW f \in Fetchers
        PROVE  /\ pull'[f] \in PullType
               /\ pull'[f].bucket = pull[f].bucket /\ pull'[f].ask = pull[f].ask
               /\ pull'[f].link = Reporting(pull[f].link, ChangedIn(pull[f].bucket))
               /\ fetch[f].at # "storing" => pull'[f].fresh = pull[f].fresh
               /\ pull'[f].failed = pull[f].failed
    <2> DEFINE C == ChangedIn(pull[f].bucket)
    <2>1. C \in SUBSET Pids
      BY <1>1
    <2>2. pull[f] \in PullType
      BY DEF Shape
    <2>3. pull'[f] = [pull[f] EXCEPT !.link = Reporting(@, C),
                                     !.fresh = IF fetch[f].at = "storing" THEN @ \cup C ELSE @]
      BY DEF ServerSteps
    <2>4. Reporting(pull[f].link, C) \in Links
      BY <2>1, <2>2, LinkParts DEF PullType
    <2> HIDE DEF C
    <2>5. pull'[f] \in PullType
      BY <2>1, <2>2, <2>3, <2>4 DEF PullType
    <2>6. /\ pull'[f].bucket = pull[f].bucket /\ pull'[f].ask = pull[f].ask
          /\ pull'[f].link = Reporting(pull[f].link, C)
          /\ fetch[f].at # "storing" => pull'[f].fresh = pull[f].fresh
          /\ pull'[f].failed = pull[f].failed
      BY <2>2, <2>3 DEF PullType
    <2> QED
      BY <2>5, <2>6 DEF C
  <1>4. ASSUME NEW f \in Fetchers PROVE PullShape(f)'
    <2>1. CASE pull[f] = NoPull
      <3>1. fetch[f].at # "storing"
        BY <2>1, LinkParts, OutlookAssumption DEF Shape, PullShape
      <3>2. pull'[f] = NoPull
        BY <1>1, <1>3, <2>1, <3>1, LinkParts DEF NoPull, PullType
      <3> QED
        BY <2>1, <3>2 DEF Shape, PullShape
    <2>2. CASE pull[f] # NoPull
      BY <1>1, <1>3, <2>2, LinkParts DEF Shape, PullShape, PullType
    <2> QED
      BY <2>1, <2>2
  <1>5. pull' \in [Fetchers -> PullType]
    BY <1>3 DEF ServerSteps
  <1> QED
    BY <1>2, <1>4, <1>5 DEF ServerSteps, Shape

(* The pass. *)
LEMMA UploadAnswers == Shape /\ UploadNext => DeletionsAnswered'
  <1> SUFFICES ASSUME Shape, UploadNext PROVE DeletionsAnswered'
    OBVIOUS
  <1> USE DEF DeletionsAnswered
  <1>1. ASSUME NEW e \in Rows, ServerAccepts(e) PROVE DeletionsAnswered'
    BY <1>1 DEF ServerAccepts, G!ServerAccepts, G!Accepts, G!Answer, Shape
  <1>2. ASSUME NEW e \in Rows, ResponseLost(e) \/ G!ServerRejects(e) PROVE DeletionsAnswered'
    BY <1>2 DEF ResponseLost, G!ResponseLost, G!Accepts, G!ServerRejects, Shape
  <1>3. ASSUME NEW e \in Rows, ServerRepeats(e) PROVE DeletionsAnswered'
    BY <1>3 DEF ServerRepeats, Inserts, Shape
  <1>4. CASE WriteResult
    BY <1>4 DEF WriteResult, G!WriteResult, G!Without, Shape
  <1>5. CASE G!ReadPending
    BY <1>5 DEF G!ReadPending, Shape, G!BaseInv, G!CopiesInv
  <1>6. ASSUME NEW e \in Rows, G!CheckResult(e) PROVE DeletionsAnswered'
    BY <1>6 DEF G!CheckResult, G!Without, Shape
  <1>7. CASE G!WriteThrows \/ G!PassEnds
    BY <1>7 DEF G!WriteThrows, G!PassEnds, G!EndOfPass
  <1> QED
    BY <1>1, <1>2, <1>3, <1>4, <1>5, <1>6, <1>7 DEF UploadNext

LEMMA UploadShape == Shape /\ UploadNext => Shape'
  <1> SUFFICES ASSUME Shape, UploadNext PROVE Shape'
    OBVIOUS
  <1>0. DeletionsAnswered'
    BY UploadAnswers
  <1>1. ASSUME NEW e \in Rows, ServerAccepts(e) \/ ResponseLost(e) PROVE Shape'
    <2>1. G!BaseInv'
      BY <1>1, PassKeepsBase DEF ServerAccepts, ResponseLost, G!UploadNext, Shape
    <2>2. ServerSteps /\ UNCHANGED fetch
      BY <1>1 DEF ServerAccepts, ResponseLost, G!ServerAccepts, G!ResponseLost, G!Accepts
    <2> QED
      BY <1>0, <2>1, <2>2, ServerShape
  <1>2. ASSUME NEW e \in Rows, ServerRepeats(e) PROVE Shape'
    BY <1>0, <1>2, RepeatsBase DEF ServerRepeats, outlookVars, Shape, PullShape
  <1>3. CASE WriteResult
    <2>1. G!BaseInv'
      BY <1>3, PassKeepsBase DEF WriteResult, G!UploadNext, Shape
    <2>2. UNCHANGED <<fetch, links, pull, doubled>> /\ overtaken' \subseteq overtaken
      BY <1>3 DEF WriteResult, G!WriteResult, Forgotten
    <2>3. stale' \subseteq Buckets \X Pids
      BY <1>3 DEF WriteResult, Shape
    <2> QED
      BY <1>0, <2>1, <2>2, <2>3 DEF Shape, PullShape
  <1>4. CASE /\ G!ReadPending \/ \E e \in Rows : G!ServerRejects(e)
             /\ UNCHANGED outlookVars
    <2>1. G!BaseInv'
      BY <1>4, PassKeepsBase DEF G!UploadNext, Shape
    <2>2. UNCHANGED fetch
      BY <1>4 DEF G!ReadPending, G!ServerRejects
    <2> QED
      BY <1>0, <1>4, <2>1, <2>2 DEF outlookVars, Shape, PullShape
  <1>5. CASE /\ (\E e \in Rows : G!CheckResult(e)) \/ G!WriteThrows \/ G!PassEnds
             /\ overtaken' = Forgotten
             /\ UNCHANGED <<links, pull, stale, doubled>>
    <2>1. G!BaseInv'
      BY <1>5, PassKeepsBase DEF G!UploadNext, Shape
    <2>2. UNCHANGED fetch /\ overtaken' \subseteq overtaken
      BY <1>5 DEF G!CheckResult, G!WriteThrows, G!PassEnds, Forgotten
    <2> QED
      BY <1>0, <1>5, <2>1, <2>2 DEF Shape, PullShape
  <1> QED
    BY <1>1, <1>2, <1>3, <1>4, <1>5 DEF UploadNext

LEMMA RemoteShape == Shape /\ RemoteNext => Shape'
  <1> SUFFICES ASSUME Shape, RemoteNext PROVE Shape'
    OBVIOUS
  <1>1. G!ElsewhereNext /\ ServerSteps
    BY DEF RemoteNext, G!ElsewhereNext
  <1>2. UNCHANGED <<fetch, results, pending>>
    BY <1>1
    DEF G!ElsewhereNext, G!RemoteCreates, G!RemoteEdits, G!RemoteDeletes, G!RemoteWrites,
        G!uploadVars
  <1> QED
    BY <1>1, <1>2, OthersKeepBase, ServerShape DEF Shape, DeletionsAnswered

(* The range on its way. *)
LEMMA RangeShape ==
    ASSUME Shape, NEW b \in Buckets,
           TokenExpires(b) \/ \E f \in Fetchers : FetchInRange(f, b)
    PROVE  Shape'
  <1>1. CASE TokenExpires(b)
    <2>1. /\ faults' \in 0..MaxFaults
          /\ UNCHANGED <<row, remote, clock, ui, uploadVars, fetch, historyVars,
                         pull, overtaken, stale, doubled>>
      BY <1>1, OutlookAssumption
      DEF TokenExpires, Shape, G!BaseInv, G!TypeOK, G!EventSyncAssumption, uploadVars, historyVars
    <2>2. G!BaseInv'
      BY <2>1
      DEF Shape, G!BaseInv, G!TypeOK, G!CopiesInv, G!UniqueProviderIds, G!SyncedWasServed,
          uploadVars, historyVars
    <2>3. [state |-> "expired", due |-> {}] \in Links
      BY DEF Links
    <2>4. /\ links' \in [Buckets -> Links]
          /\ \A c \in Buckets : links'[c].state # "valid" => links'[c].due = {}
      BY <1>1, <2>3 DEF TokenExpires, Shape
    <2> QED
      BY <2>1, <2>2, <2>4 DEF Shape, PullShape, DeletionsAnswered, uploadVars
  <1>2. ASSUME NEW f \in Fetchers, FetchInRange(f, b) PROVE Shape'
    <2>1. /\ UNCHANGED <<row, remote, clock, faults, ui, uploadVars, fetch, historyVars, links,
                         overtaken, stale, doubled>>
          /\ pull[f] = NoPull
          /\ pull' = [pull EXCEPT ![f].bucket = b, ![f].link = links[b]]
      BY <1>2 DEF FetchInRange
    <2>2. G!BaseInv'
      BY <2>1
      DEF Shape, G!BaseInv, G!TypeOK, G!CopiesInv, G!UniqueProviderIds, G!SyncedWasServed,
          uploadVars, historyVars
    <2>3. /\ pull'[f] \in PullType /\ pull'[f].bucket = b /\ pull'[f].link = links[b]
          /\ pull'[f].ask = {}
          /\ \A g \in Fetchers : g # f => pull'[g] = pull[g]
      <3>1. pull \in [Fetchers -> PullType] /\ links[b] \in Links
        BY DEF Shape
      <3>2. pull'[f] = [[NoPull EXCEPT !.bucket = b] EXCEPT !.link = links[b]]
        BY <2>1, <3>1
      <3>3. pull'[f] = [bucket |-> b, link |-> links[b], ask |-> {}, fresh |-> {},
                        failed |-> FALSE]
        BY <3>2 DEF NoPull
      <3> QED
        BY <2>1, <3>1, <3>3 DEF PullType
    <2>4. pull' \in [Fetchers -> PullType]
      BY <2>1, <2>3 DEF Shape
    <2> QED
      BY <2>1, <2>2, <2>3, <2>4 DEF Shape, PullShape, DeletionsAnswered, uploadVars
  <1> QED
    BY <1>1, <1>2

(* The copies a step may overtake are copies of events. *)
LEMMA OvertakingType ==
    ASSUME Shape, NEW f \in Fetchers, NEW Q \in SUBSET Pids, NEW b
    PROVE  Overtaking(f, Q, b) \subseteq (Fetchers \cup {"pass"}) \X Pids
  <1> SUFFICES ASSUME NEW m \in Answers \cup News, m[2] \in Q \/ m[3] # 0
               PROVE  m[1] \in Fetchers \cup {"pass"} /\ m[2] \in Pids
    BY DEF Overtaking
  <1>1. CASE m \in News
    BY <1>1 DEF News
  <1>2. CASE m \in Answers
    <2>1. PICK e \in DOMAIN results : m = <<"pass", results[e].pid, results[e].content>>
      BY <1>2 DEF Answers
    <2>2. results[e] = G!Gone \/ \E h \in held : results[e] = G!SyncedRow(h[1], h[2])
      BY DEF Shape, DeletionsAnswered, G!BaseInv, G!CopiesInv
    <2>3. CASE results[e] = G!Gone
      BY <2>1, <2>3, Nulls
    <2>4. ASSUME NEW h \in held, results[e] = G!SyncedRow(h[1], h[2]) PROVE m[2] \in Pids
      <3>1. h[1] \in Pids
        BY DEF Shape, G!BaseInv, G!TypeOK
      <3> QED
        BY <2>1, <2>4, <3>1, RowParts
    <2> QED
      BY <2>1, <2>2, <2>3, <2>4
  <1> QED
    BY <1>1, <1>2

(* The answer. *)
LEMMA DeltaShape == ASSUME Shape, NEW f \in Fetchers, FetchDelta(f) PROVE Shape'
  <1> DEFINE b == pull[f].bucket
             here == {p \in Pids : InBucket(remote[p], b)}
             reported == IF pull[f].link = NoLink THEN here ELSE pull[f].link.due
             heard == [p \in Pids |-> IF p \in reported \cap here
                                      THEN [content |-> remote[p].content, localId |-> NoRow]
                                      ELSE G!NoEvent]
  <1>1. /\ fetch \in [Fetchers -> FetchType] /\ pull \in [Fetchers -> PullType]
        /\ G!BaseInv /\ pull[f] # NoPull
        /\ UNCHANGED <<row, remote, clock, faults, ui, uploadVars, historyVars, links, doubled>>
    BY DEF Shape, G!BaseInv, G!TypeOK, FetchType, FetchDelta, Fetching
  <1>2. /\ fetch' = [fetch EXCEPT ![f] = [at |-> "storing", todo |-> reported, victims |-> {},
                                          seen |-> heard]]
        /\ pull' = [pull EXCEPT ![f].ask = reported \ here]
        /\ overtaken' = overtaken \cup Overtaking(f, reported, b)
        /\ stale' \subseteq stale \cup ({b} \X NotListed(b))
    BY DEF FetchDelta
  <1>3. reported \in SUBSET Pids /\ b \in Buckets
    BY <1>1, LinkParts DEF Shape, PullShape, PullType
  <1>4. \A p \in Pids : p \in here => remote[p] # G!NoEvent /\ remote[p].content \in G!Stamps
    BY EventParts DEF InBucket, Shape, G!BaseInv, G!TypeOK
  <1>5. heard \in [Pids -> G!RemoteType]
    BY <1>4, EventParts, Nulls
  <1>6. \A p \in Pids : \/ heard[p] = G!NoEvent
                        \/ remote[p] # G!NoEvent /\ heard[p].content = remote[p].content
    BY <1>4
  <1>7. \A p \in Pids : heard[p].localId = NoRow
    BY Nulls
  <1>8. overtaken' \subseteq (Fetchers \cup {"pass"}) \X Pids /\ stale' \subseteq Buckets \X Pids
    BY <1>2, <1>3, OvertakingType DEF Shape, NotListed
  <1> HIDE DEF reported, heard, b, here
  <1>9. fetch' \in [Fetchers -> FetchType]
    BY <1>1, <1>2, <1>3, <1>5 DEF FetchType
  <1>10. /\ fetch'[f].at = "storing" /\ fetch'[f].todo = reported /\ fetch'[f].seen = heard
         /\ \A g \in Fetchers : g # f => fetch'[g] = fetch[g] /\ pull'[g] = pull[g]
    BY <1>1, <1>2
  <1>11. G!BaseInv'
    BY <1>1, <1>6, <1>9, <1>10, FetchBase
  <1>12. /\ pull' \in [Fetchers -> PullType] /\ pull'[f].ask = reported \ here
         /\ pull'[f].bucket = pull[f].bucket /\ pull'[f].link = pull[f].link
    <2>1. pull'[f] = [pull[f] EXCEPT !.ask = reported \ here] /\ pull[f] \in PullType
      BY <1>1, <1>2
    <2> QED
      BY <1>1, <1>2, <1>3, <2>1 DEF PullType
  <1>13. \A g \in Fetchers : PullShape(g)'
    BY <1>3, <1>7, <1>10, <1>12 DEF PullShape, Shape, b
  <1> QED
    BY <1>1, <1>8, <1>11, <1>12, <1>13 DEF Shape, DeletionsAnswered, uploadVars

LEMMA ResolveShape ==
    ASSUME Shape, NEW f \in Fetchers, NEW p \in Pids, ResolveRemoved(f, p) PROVE Shape'
  <1>1. /\ fetch \in [Fetchers -> FetchType] /\ pull \in [Fetchers -> PullType]
        /\ G!BaseInv /\ p \in pull[f].ask /\ p \in fetch[f].todo
        /\ UNCHANGED <<row, remote, clock, faults, ui, uploadVars, historyVars, links, doubled>>
    BY DEF Shape, G!BaseInv, G!TypeOK, FetchType, ResolveRemoved, PullShape
  <1>2. fetch[f].at = "storing"
    BY <1>1 DEF Shape, PullShape
  <1> DEFINE now == IF remote[p] = G!NoEvent THEN G!NoEvent
                    ELSE [content |-> remote[p].content, localId |-> NoRow]
  <1>3. /\ now \in G!RemoteType /\ now.localId = NoRow
        /\ now = G!NoEvent \/ (remote[p] # G!NoEvent /\ now.content = remote[p].content)
    BY <1>1, EventParts, Nulls DEF G!BaseInv, G!TypeOK
  <1>4. /\ overtaken' \subseteq (Fetchers \cup {"pass"}) \X Pids
        /\ stale' \subseteq Buckets \X Pids
    BY OvertakingType DEF ResolveRemoved, Shape
  <1>5. \/ fetch' = [fetch EXCEPT ![f].seen[p] = now]
        \/ fetch' = [fetch EXCEPT ![f].todo = @ \ {p}]
    BY DEF ResolveRemoved
  <1> HIDE DEF now
  <1>6. /\ fetch' \in [Fetchers -> FetchType]
        /\ fetch'[f].at = "storing"
        /\ fetch[f].todo \ {p} \subseteq fetch'[f].todo
        /\ \A q \in Pids : fetch'[f].seen[q] = fetch[f].seen[q]
                           \/ (q = p /\ fetch'[f].seen[q] = now)
        /\ \A g \in Fetchers : g # f => fetch'[g] = fetch[g]
    <2>1. fetch[f] \in FetchType
      BY <1>1
    <2>2. CASE fetch' = [fetch EXCEPT ![f].seen[p] = now]
      <3>1. fetch[f].seen \in [Pids -> G!RemoteType]
        BY <2>1 DEF FetchType
      <3>2. [fetch[f].seen EXCEPT ![p] = now] \in [Pids -> G!RemoteType]
        BY <1>3, <3>1
      <3>3. [fetch[f] EXCEPT !.seen = [fetch[f].seen EXCEPT ![p] = now]] \in FetchType
        BY <2>1, <3>2 DEF FetchType
      <3>4. fetch'[f] = [fetch[f] EXCEPT !.seen = [fetch[f].seen EXCEPT ![p] = now]]
        BY <1>1, <2>2
      <3>5. fetch'[f].at = "storing" /\ fetch'[f].todo = fetch[f].todo
            /\ fetch'[f].seen = [fetch[f].seen EXCEPT ![p] = now]
        BY <1>2, <2>1, <3>4 DEF FetchType
      <3> QED
        BY <1>1, <2>2, <3>1, <3>3, <3>4, <3>5
    <2>3. CASE fetch' = [fetch EXCEPT ![f].todo = @ \ {p}]
      BY <1>1, <1>2, <2>1, <2>3 DEF FetchType
    <2> QED
      BY <1>5, <2>2, <2>3
  <1>7. G!BaseInv'
    BY <1>1, <1>3, <1>6, FetchBase
  <1>8. /\ pull' \in [Fetchers -> PullType] /\ pull'[f].ask = pull[f].ask \ {p}
        /\ pull'[f].bucket = pull[f].bucket /\ pull'[f].link = pull[f].link
        /\ \A g \in Fetchers : g # f => pull'[g] = pull[g]
    <2>1. pull' = [pull EXCEPT ![f].ask = @ \ {p}]
      BY DEF ResolveRemoved
    <2> QED
      BY <1>1, <2>1 DEF PullType
  <1>9. \A g \in Fetchers : PullShape(g)'
    BY <1>2, <1>3, <1>6, <1>8 DEF PullShape, Shape
  <1> QED
    BY <1>1, <1>4, <1>7, <1>8, <1>9 DEF Shape, DeletionsAnswered, uploadVars

LEMMA FailShape == ASSUME Shape, NEW f \in Fetchers, FetchFails(f) PROVE Shape'
  <1>1. /\ fetch \in [Fetchers -> FetchType] /\ pull \in [Fetchers -> PullType]
        /\ G!BaseInv /\ pull[f] # NoPull
        /\ UNCHANGED <<row, remote, clock, faults, ui, uploadVars, historyVars,
                       links, stale, doubled>>
    BY DEF Shape, G!BaseInv, G!TypeOK, FetchType, FetchFails, Fetching
  <1>2. PICK S \in SUBSET (fetch[f].todo \ pull[f].ask) :
            fetch' = [fetch EXCEPT ![f].todo = S, ![f].at = "storing"]
    BY DEF FetchFails
  <1>3. /\ fetch' \in [Fetchers -> FetchType] /\ fetch'[f].at = "storing"
        /\ fetch'[f].seen = fetch[f].seen
        /\ \A g \in Fetchers : g # f => fetch'[g] = fetch[g]
    <2>1. fetch[f] \in FetchType /\ S \in SUBSET Pids
      BY <1>1 DEF FetchType
    <2>2. fetch'[f] = [[fetch[f] EXCEPT !.todo = S] EXCEPT !.at = "storing"]
      BY <1>1, <1>2
    <2> QED
      BY <1>1, <1>2, <2>1, <2>2 DEF FetchType
  <1>4. G!BaseInv'
    BY <1>1, <1>3, FetchBase
  <1>5. /\ pull' \in [Fetchers -> PullType] /\ pull'[f].ask = {}
        /\ pull'[f].bucket = pull[f].bucket /\ pull'[f].link = pull[f].link
        /\ \A g \in Fetchers : g # f => pull'[g] = pull[g]
    <2>1. pull' = [pull EXCEPT ![f].ask = {}, ![f].failed = TRUE]
      BY DEF FetchFails
    <2>2. pull'[f] = [[pull[f] EXCEPT !.ask = {}] EXCEPT !.failed = TRUE] /\ pull[f] \in PullType
      BY <1>1, <2>1
    <2> QED
      BY <1>1, <2>1, <2>2 DEF PullType
  <1>6. \A g \in Fetchers : PullShape(g)'
    BY <1>1, <1>3, <1>5 DEF PullShape, Shape
  <1>7. overtaken' \subseteq overtaken
    BY DEF FetchFails
  <1> QED
    BY <1>1, <1>4, <1>5, <1>6, <1>7 DEF Shape, DeletionsAnswered, uploadVars

LEMMA DoneShape ==
    ASSUME Shape, NEW f \in Fetchers, UpsertRange(f) \/ GiveUp(f) PROVE Shape'
  <1>1. /\ fetch \in [Fetchers -> FetchType] /\ pull \in [Fetchers -> PullType]
        /\ G!BaseInv /\ fetch[f].at = "storing"
        /\ fetch' = [fetch EXCEPT ![f] = G!NoFetch] /\ pull' = [pull EXCEPT ![f] = NoPull]
        /\ UNCHANGED <<row, remote, clock, faults, ui, uploadVars, historyVars, overtaken,
                       stale, doubled>>
    BY DEF Shape, G!BaseInv, G!TypeOK, FetchType, UpsertRange, GiveUp, BucketDone
  <1>2. /\ links' \in [Buckets -> Links]
        /\ \A b \in Buckets : links'[b].state # "valid" => links'[b].due = {}
    <2>1. pull[f].bucket \in Buckets /\ pull[f].fresh \in SUBSET Pids
      BY <1>1 DEF Shape, PullShape, PullType
    <2> QED
      BY <2>1, LinkParts DEF UpsertRange, GiveUp, Shape
  <1>3. /\ G!NoFetch \in FetchType /\ G!NoFetch.at = "idle" /\ G!NoFetch.todo = {}
        /\ \A p \in Pids : G!NoFetch.seen[p] = G!NoEvent
    BY Nulls DEF G!NoFetch, FetchType
  <1>4. G!BaseInv'
    BY <1>1, <1>3, FetchBase
  <1>5. \A g \in Fetchers : PullShape(g)'
    BY <1>1, <1>3, LinkParts, Nulls DEF PullShape, Shape
  <1> QED
    BY <1>1, <1>2, <1>4, <1>5, LinkParts DEF Shape, DeletionsAnswered, uploadVars

LEMMA FetchShape == ASSUME Shape, NEW f \in Fetchers, FetchNext(f) PROVE Shape'
  <1>1. ASSUME NEW p \in Pids, PersistRemoteEvent(f, p) PROVE Shape'
    <2>1. /\ p \in fetch[f].todo \ pull[f].ask
          /\ fetch' = [fetch EXCEPT ![f].todo = @ \ {p}]
          /\ stale' \subseteq Buckets \X Pids /\ overtaken' \subseteq overtaken
          /\ UNCHANGED <<links, pull, doubled, uploadVars>>
      BY <1>1 DEF Shape, PersistRemoteEvent, Without
    <2>2. G!BaseInv'
      BY <1>1, StoresBase DEF Shape
    <2>3. fetch \in [Fetchers -> FetchType]
      BY DEF Shape, G!BaseInv, G!TypeOK, FetchType
    <2>4. \A g \in Fetchers : PullShape(g)'
      BY <2>1, <2>3 DEF Shape, FetchType, PullShape
    <2> QED
      BY <2>1, <2>2, <2>4 DEF Shape, DeletionsAnswered, uploadVars
  <1> QED
    BY <1>1, DeltaShape, ResolveShape, FailShape, DoneShape DEF FetchNext

LEMMA StepShape == Shape /\ [Next]_vars => Shape'
  <1>1. Shape /\ UNCHANGED vars => Shape'
    BY DEF vars, uploadVars, historyVars, outlookVars, Shape, PullShape, DeletionsAnswered,
           G!BaseInv, G!TypeOK, G!CopiesInv, G!UniqueProviderIds, G!SyncedWasServed
  <1> QED
    BY <1>1, UserShape, UploadShape, RemoteShape, RangeShape, FetchShape DEF Next

(* A fetch is what its place in the code says, and deletions are answered with    *)
(* nothing.                                                                  *)
THEOREM ShapeInductive == Spec => []Shape
  BY InitShape, StepShape, PTL DEF Spec

(* Every variable of the calendar, its links and its fetches has its type.       *)
THEOREM TypeCorrect == Spec => []TypeOK
  BY ShapeInductive, ShapeImpliesType, PTL

(* A row has a provider id for itself, however the buckets' answers mix with the  *)
(* answers to a pass, which do not name the row they are about.                *)
THEOREM UniqueProviderIdsHolds == Spec => []UniqueProviderIds
  <1>1. Shape => UniqueProviderIds
    BY DEF Shape, G!BaseInv, UniqueProviderIds
  <1> QED
    BY <1>1, ShapeInductive, PTL

-----------------------------------------------------------------------------
(* What becomes of provider ids: a row keeps the one it has, except when the     *)
(* window writes back a row it read without one; and a pass has the id of each   *)
(* row it sends.                                                             *)

AllInUse ==
    /\ \A e \in Rows : G!InUse(row[e])
    /\ \A e \in DOMAIN pending : G!InUse(pending[e])
    /\ G!InUse(ui.snap)
    /\ \A h \in held : h[2] <= clock

SnapFits == G!Live(ui.id) /\ ui.snap.pid # NoPid => row[ui.id].pid = ui.snap.pid

PendingFits ==
    \A e \in DOMAIN pending :
        /\ pending[e].syncStatus # "SYNCED"
        /\ pending[e].pid = NoPid => pending[e].syncStatus = "PENDING_INSERT"
        /\ G!Live(e) /\ row[e].pid # NoPid =>
               IF pending[e].pid # NoPid THEN row[e].pid = pending[e].pid
                                         ELSE e \notin unsent \cup DOMAIN results

AnswersFit ==
    /\ DOMAIN results \cap unsent = {}
    /\ \A e \in DOMAIN results :
           /\ pending[e].syncStatus = "PENDING_UPDATE" => results[e].pid = pending[e].pid
           /\ pending[e].syncStatus = "PENDING_DELETE" => remote[pending[e].pid] = G!NoEvent

IdsHold == AllInUse /\ SnapFits /\ PendingFits /\ AnswersFit

LEMMA InitIds == Init => IdsHold
  BY Nulls DEF Init, G!Init, IdsHold, AllInUse, SnapFits, PendingFits, AnswersFit, G!InUse,
               G!Live, G!Gone, G!Closed

(* A stamp that is used stays used. *)
LEMMA InUseStays ==
    ASSUME Shape, held \subseteq held', clock' \in {clock, clock + 1},
           NEW r \in G!RowType \cup {G!Gone}, G!InUse(r)
    PROVE  G!InUse(r)'
  <1>1. clock \in Nat /\ r.content \in Nat /\ r.deletedAt \in Nat
    BY OutlookAssumption
    DEF Shape, G!BaseInv, G!TypeOK, G!EventSyncAssumption, G!RowType, G!Gone, G!Stamps
  <1> QED
    BY <1>1 DEF G!InUse, G!Used

(* A step that reads nothing anew, and gives no row another provider id. *)
LEMMA IdsStay ==
    ASSUME Shape, IdsHold, held \subseteq held', clock' \in {clock, clock + 1},
           UNCHANGED pending, unsent' \subseteq unsent,
           DOMAIN results' \subseteq DOMAIN results,
           \A e \in DOMAIN results' : results'[e] = results[e],
           \A h \in held' : h \in held \/ h[2] <= clock',
           \A p \in Pids : G!Used(p) /\ remote[p] = G!NoEvent => remote'[p] = G!NoEvent,
           ui' = ui \/ ui' = G!Closed,
           \A e \in Rows :
               /\ row'[e] = row[e] \/ G!InUse(row[e])'
               /\ \/ row'[e] = row[e]
                  \/ row'[e] = G!Gone
                  \/ row'[e].pid = row[e].pid /\ G!Live(e)
                  \/ row'[e].pid = NoPid /\ ui' = G!Closed
                  \/ e \notin DOMAIN pending /\ (e # ui.id \/ ui' = G!Closed)
    PROVE  IdsHold'
  <1>1. AllInUse'
    <2>1. ASSUME NEW e \in Rows PROVE G!InUse(row[e])'
      <3>1. CASE row'[e] = row[e]
        <4>1. row[e] \in G!RowType \cup {G!Gone} /\ G!InUse(row[e])
          BY DEF IdsHold, AllInUse, Shape, G!BaseInv, G!TypeOK
        <4> QED
          BY <3>1, <4>1, InUseStays DEF G!InUse, G!Used
      <3> QED
        BY <3>1
    <2>2. ASSUME NEW e \in DOMAIN pending PROVE G!InUse(pending[e])'
      <3>1. pending[e] \in G!RowType \cup {G!Gone} /\ G!InUse(pending[e])
        BY DEF IdsHold, AllInUse, Shape, G!BaseInv, G!TypeOK
      <3> QED
        BY <3>1, InUseStays DEF G!InUse, G!Used
    <2>3. G!InUse(ui.snap)'
      <3>1. ui.snap \in G!RowType \cup {G!Gone} /\ G!InUse(ui.snap)
        BY Nulls DEF IdsHold, AllInUse, Shape, G!BaseInv, G!TypeOK
      <3>2. CASE ui' = ui
        BY <3>1, <3>2, InUseStays DEF G!InUse, G!Used
      <3>3. CASE ui' = G!Closed
        <4>1. clock' \in Nat
          BY OutlookAssumption DEF Shape, G!BaseInv, G!TypeOK, G!EventSyncAssumption
        <4> QED
          BY <3>3, <4>1 DEF G!InUse, G!Closed, G!Gone
      <3> QED
        BY <3>2, <3>3
    <2>4. \A h \in held : h[2] \in Nat /\ clock \in Nat
      BY OutlookAssumption
      DEF Shape, G!BaseInv, G!TypeOK, G!EventSyncAssumption, G!Stamps
    <2> QED
      BY <2>1, <2>2, <2>3, <2>4 DEF IdsHold, AllInUse
  <1>2. \A e \in Rows : row[e].pid # NoPid => G!Live(e)
    BY LiveParts DEF Shape
  <1>3. SnapFits'
    <2>1. CASE ui' = G!Closed
      BY <2>1, Nulls DEF SnapFits, G!Live
    <2>2. ASSUME ui' = ui, ui' # G!Closed, G!Live(ui.id)', ui.snap.pid # NoPid
          PROVE  row'[ui.id].pid = ui.snap.pid
      <3>1. ui.id \in Rows /\ row'[ui.id] # G!Gone
        BY <2>2 DEF G!Live
      <3>2. row'[ui.id].pid = row[ui.id].pid /\ G!Live(ui.id)
        BY <2>2, <3>1 DEF G!Live
      <3> QED
        BY <2>2, <3>1, <3>2 DEF IdsHold, SnapFits, G!Live
    <2> QED
      BY <2>1, <2>2 DEF SnapFits
  <1>4. PendingFits'
    <2>1. DOMAIN pending \subseteq Rows
      BY DEF Shape, G!BaseInv, G!TypeOK
    <2> QED
      BY <1>2, <2>1, Nulls DEF IdsHold, PendingFits
  <1>5. AnswersFit'
    <2>1. ASSUME NEW e \in DOMAIN results', pending[e].syncStatus = "PENDING_DELETE"
          PROVE  remote'[pending[e].pid] = G!NoEvent
      <3>1. e \in DOMAIN results /\ e \in DOMAIN pending /\ remote[pending[e].pid] = G!NoEvent
        BY <2>1 DEF IdsHold, AnswersFit, Shape, G!BaseInv, G!TypeOK
      <3>2. pending[e].pid # NoPid /\ pending[e].pid \in Pids \cup {NoPid}
        BY <2>1, <3>1 DEF IdsHold, PendingFits, Shape, G!BaseInv, G!TypeOK, G!RowType
      <3>3. G!Used(pending[e].pid)
        BY <3>1, <3>2 DEF IdsHold, AllInUse, G!InUse
      <3> QED
        BY <3>1, <3>2, <3>3
    <2> QED
      BY <2>1 DEF IdsHold, AnswersFit
  <1> QED
    BY <1>1, <1>3, <1>4, <1>5 DEF IdsHold

(* A row a user writes is pending, or gone.  It keeps its provider id; only the  *)
(* window's copy of a row without one, written back, costs it.                 *)
Unwritten(e) == G!Unused(e) /\ ~G!Live(e)

LEMMA UserRows ==
    ASSUME Shape, IdsHold, UserNext, NEW e \in Rows
    PROVE  /\ UNCHANGED <<remote, faults, uploadVars, fetch, held>>
           /\ clock' \in {clock, clock + 1}
           /\ row'[e] = row[e] \/ G!InUse(row[e])'
           /\ row'[e] = row[e] \/ row'[e].syncStatus # "SYNCED"
           /\ \/ row'[e] = row[e]
              \/ row'[e].pid = row[e].pid /\ G!Live(e)
              \/ Unwritten(e) /\ ui' \in {ui, G!Closed}
              \/ /\ e = ui.id /\ ui.snap.pid = NoPid /\ WriteBack
                 /\ row'[e].pid = NoPid /\ ui' = G!Closed
  <1>1. /\ G!BaseInv /\ AllInUse /\ SnapFits /\ clock \in Nat /\ row \in [Rows -> G!RowType \cup {G!Gone}]
        /\ 0 <= clock + 1 /\ clock <= clock + 1
    BY OutlookAssumption
    DEF Shape, IdsHold, G!BaseInv, G!TypeOK, G!EventSyncAssumption
  <1>2. UNCHANGED <<remote, faults, uploadVars, fetch, held>> /\ clock' \in {clock, clock + 1}
    BY DEF UserNext, WriteBack, G!CreateEvent, G!OpenEventDialog, G!ReadForDelete,
           G!CloseEventDialog, G!SaveEvent, G!DeleteEvent, G!SoftDelete,
           G!SoftDeleteAllByCalendar, G!UserWrites, historyVars, G!uploadVars, uploadVars,
           G!historyVars
  <1> DEFINE Goal == /\ row'[e] = row[e] \/ G!InUse(row[e])'
                     /\ row'[e] = row[e] \/ row'[e].syncStatus # "SYNCED"
                     /\ \/ row'[e] = row[e]
                        \/ row'[e].pid = row[e].pid /\ G!Live(e)
                        \/ Unwritten(e) /\ ui' \in {ui, G!Closed}
                        \/ /\ e = ui.id /\ ui.snap.pid = NoPid /\ WriteBack
                           /\ row'[e].pid = NoPid /\ ui' = G!Closed
  <1> SUFFICES Goal
    BY <1>2
  <1>3. CASE G!CreateEvent
    <2>1. PICK t \in G!NewRow :
              /\ clock' = clock + 1 /\ ui' = ui
              /\ row' = [d \in Rows |-> IF d \in {t} THEN [pid |-> NoPid, content |-> clock + 1,
                                             deletedAt |-> 0, syncStatus |-> "PENDING_INSERT"]
                                        ELSE row[d]]
      BY <1>3 DEF G!CreateEvent, G!UserWrites
    <2> QED
      BY <1>1, <2>1 DEF G!InUse, G!NewRow, G!Unused, Unwritten
  <1>4. CASE \/ \E d \in Rows : G!OpenEventDialog(d) \/ G!ReadForDelete(d)
             \/ G!CloseEventDialog
    BY <1>4 DEF G!OpenEventDialog, G!ReadForDelete, G!CloseEventDialog
  <1>5. CASE G!SaveEvent /\ WriteBack
    <2> DEFINE r == [ui.snap EXCEPT !.content = clock + 1,
                               !.deletedAt = 0,
                               !.syncStatus = IF ui.snap.pid = NoPid THEN "PENDING_INSERT"
                                                                     ELSE "PENDING_UPDATE"]
    <2>1. PICK t \in G!UpsertTargets(ui.id, ui.snap.pid) :
              /\ clock' = clock + 1 /\ ui' = G!Closed /\ ui.at = "editing"
              /\ row' = [d \in Rows |-> IF d \in {t} THEN [x \in {t} |-> r][d] ELSE row[d]]
      BY <1>5 DEF G!SaveEvent, G!UserWrites
    <2>2. ui.snap \in G!RowType /\ ui.id \in Rows
      BY <1>1, <2>1, Nulls DEF G!BaseInv, G!TypeOK
    <2>3. /\ r.pid = ui.snap.pid /\ r.content = clock + 1 /\ r.deletedAt = 0
          /\ r.syncStatus = IF ui.snap.pid = NoPid THEN "PENDING_INSERT" ELSE "PENDING_UPDATE"
      BY <2>2 DEF G!RowType
    <2>4. e # t => row'[e] = row[e]
      BY <2>1
    <2>5. e = t => row'[e] = r
      BY <2>1
    <2> HIDE DEF r
    <2>6. ASSUME e = t PROVE G!InUse(row[e])'
      BY <1>1, <1>2, <2>1, <2>3, <2>5, <2>6 DEF AllInUse, G!InUse, G!Used
    <2>7. CASE e = t /\ G!Live(ui.id)
      <3>1. e = ui.id
        BY <2>7 DEF G!UpsertTargets
      <3>2. ui.snap.pid # NoPid => row[e].pid = ui.snap.pid
        BY <1>1, <2>7, <3>1 DEF SnapFits
      <3> QED
        BY <1>5, <2>1, <2>3, <2>5, <2>6, <2>7, <3>1, <3>2
    <2>8. CASE e = t /\ ~G!Live(ui.id)
      <3>1. e \in G!WithPid(ui.snap.pid) \/ e \in G!NewRow
        BY <2>8 DEF G!UpsertTargets
      <3>2. CASE e \in G!WithPid(ui.snap.pid)
        <4>1. row[e].pid = ui.snap.pid /\ G!Live(e)
          BY <1>1, <3>2, LiveParts DEF G!WithPid
        <4> QED
          BY <2>1, <2>3, <2>5, <2>6, <2>8, <4>1
      <3>3. CASE e \in G!NewRow
        BY <2>1, <2>3, <2>5, <2>6, <2>8, <3>3 DEF G!NewRow, G!Unused, Unwritten
      <3> QED
        BY <3>1, <3>2, <3>3
    <2> QED
      BY <2>4, <2>7, <2>8
  <1>6. CASE G!DeleteEvent /\ WriteBack
    <2>1. /\ row' = [row EXCEPT ![ui.id] = G!Gone] /\ ui' = G!Closed
          /\ ui.snap.syncStatus = "PENDING_INSERT" \/ ui.snap.pid = NoPid
      BY <1>6 DEF G!DeleteEvent
    <2>2. ui.snap.pid = NoPid
      BY <1>1, <2>1 DEF AllInUse, G!InUse
    <2>3. clock' \in Nat
      BY <1>1, <1>2
    <2> QED
      BY <1>1, <1>6, <2>1, <2>2, <2>3, Nulls DEF G!InUse, G!Gone
  <1>7. ASSUME NEW S \in SUBSET Rows, \A d \in S : G!Live(d), G!UserWrites(G!Marked(S))
        PROVE  Goal
    <2>1. /\ clock' = clock + 1
          /\ row' = [d \in Rows |-> IF d \in S
                        THEN [row[d] EXCEPT !.deletedAt = clock + 1, !.syncStatus = "PENDING_DELETE"]
                        ELSE row[d]]
      BY <1>7 DEF G!UserWrites, G!Marked
    <2>2. CASE e \in S
      <3>1. row[e] \in G!RowType /\ G!Live(e) /\ G!InUse(row[e])
        BY <1>1, <1>7, <2>2, LiveParts DEF AllInUse
      <3>2. /\ row'[e].pid = row[e].pid /\ row'[e].content = row[e].content
            /\ row'[e].deletedAt = clock + 1 /\ row'[e].syncStatus = "PENDING_DELETE"
            /\ row[e].content \in Nat
        <4>1. row'[e] = [row[e] EXCEPT !.deletedAt = clock + 1, !.syncStatus = "PENDING_DELETE"]
          BY <2>1, <2>2
        <4>2. row[e].content \in Nat
          BY <3>1, RowParts, OutlookAssumption DEF G!Stamps, G!EventSyncAssumption
        <4> QED
          BY <3>1, <4>1, <4>2 DEF G!RowType
      <3>3. row'[e].pid # NoPid => G!Used(row[e].pid)'
        BY <1>2, <3>1, <3>2 DEF G!InUse, G!Used
      <3>4. row'[e].content <= clock' /\ row'[e].deletedAt <= clock'
        <4>1. clock \in Nat /\ clock' = clock + 1 /\ row[e].content <= clock
          BY <1>1, <2>1, <3>1 DEF G!InUse
        <4> QED
          BY <3>2, <4>1
      <3>5. G!InUse(row[e])'
        BY <3>2, <3>3, <3>4 DEF G!InUse
      <3> QED
        BY <3>1, <3>2, <3>5
    <2>3. CASE e \notin S
      BY <2>1, <2>3
    <2> QED
      BY <2>2, <2>3
  <1>8. CASE G!SoftDelete
    BY <1>7, <1>8 DEF G!SoftDelete, G!Live
  <1>9. CASE G!SoftDeleteAllByCalendar
    BY <1>7, <1>9 DEF G!SoftDeleteAllByCalendar
  <1> QED
    BY <1>2, <1>3, <1>4, <1>5, <1>6, <1>8, <1>9 DEF UserNext, WriteBack

LEMMA UserIds == Shape /\ IdsHold /\ UserNext => IdsHold'
  <1> SUFFICES ASSUME Shape, IdsHold, UserNext PROVE IdsHold'
    OBVIOUS
  <1>1. CASE ui' = ui \/ ui' = G!Closed
    <2>1. /\ held' = held /\ clock' \in {clock, clock + 1} /\ remote' = remote
          /\ UNCHANGED <<pending, unsent, results>>
      BY <1>1
      DEF UserNext, WriteBack, G!CreateEvent, G!OpenEventDialog, G!ReadForDelete,
          G!CloseEventDialog, G!SaveEvent, G!DeleteEvent, G!SoftDelete,
          G!SoftDeleteAllByCalendar, G!UserWrites, G!uploadVars, G!historyVars
    <2>2. ASSUME NEW e \in Rows
          PROVE  /\ row'[e] = row[e] \/ G!InUse(row[e])'
                 /\ \/ row'[e] = row[e]
                    \/ row'[e] = G!Gone
                    \/ row'[e].pid = row[e].pid /\ G!Live(e)
                    \/ row'[e].pid = NoPid /\ ui' = G!Closed
                    \/ e \notin DOMAIN pending /\ (e # ui.id \/ ui' = G!Closed)
      BY UserRows DEF Unwritten, G!Unused
    <2> QED
      BY <1>1, <2>1, <2>2, IdsStay
  <1>2. CASE ~(ui' = ui \/ ui' = G!Closed)
    <2>1. PICK e \in Rows :
              /\ UNCHANGED <<row, clock, remote, uploadVars, held>>
              /\ ui'.id = e /\ ui'.snap = row[e]
      BY <1>2
      DEF UserNext, WriteBack, G!CreateEvent, G!OpenEventDialog, G!ReadForDelete,
          G!CloseEventDialog, G!SaveEvent, G!DeleteEvent, G!SoftDelete,
          G!SoftDeleteAllByCalendar, G!uploadVars, uploadVars, G!historyVars
    <2> QED
      BY <2>1
      DEF IdsHold, AllInUse, SnapFits, PendingFits, AnswersFit, uploadVars, G!InUse, G!Used,
          G!Live
  <1> QED
    BY <1>1, <1>2

(* What an answer is, and what becomes of it.                                 *)
LEMMA AnswerParts ==
    ASSUME Shape, IdsHold, NEW c \in DOMAIN results
    PROVE  /\ c \in DOMAIN pending /\ c \in Rows /\ c \notin unsent
           /\ pending[c] \in G!RowType /\ pending[c].syncStatus # "SYNCED"
           /\ G!InUse(pending[c])
           /\ pending[c].syncStatus # "PENDING_INSERT" =>
                  pending[c].pid \in Pids /\ G!Used(pending[c].pid)
           /\ pending[c].syncStatus = "PENDING_INSERT" => pending[c].pid = NoPid
           /\ pending[c].syncStatus = "PENDING_DELETE" => results[c] = G!Gone
           /\ pending[c].syncStatus # "PENDING_DELETE" =>
                  /\ results[c].pid \in Pids /\ results[c].content \in G!Stamps
                  /\ results[c].syncStatus = "SYNCED" /\ results[c] \in G!RowType
                  /\ results[c].deletedAt = 0
                  /\ <<results[c].pid, results[c].content>> \in held
                  /\ G!InUse(results[c])
  <1>1. /\ c \in DOMAIN pending /\ c \in Rows /\ c \notin unsent
        /\ pending[c] \in G!RowType /\ pending[c].syncStatus # "SYNCED"
        /\ G!InUse(pending[c])
        /\ pending[c].syncStatus = "PENDING_DELETE" => results[c] = G!Gone
        /\ pending[c].pid = NoPid => pending[c].syncStatus = "PENDING_INSERT"
    BY DEF Shape, G!BaseInv, G!TypeOK, IdsHold, PendingFits, AnswersFit, AllInUse,
           DeletionsAnswered
  <1>2. /\ pending[c].syncStatus # "PENDING_INSERT" =>
               pending[c].pid \in Pids /\ G!Used(pending[c].pid)
        /\ pending[c].syncStatus = "PENDING_INSERT" => pending[c].pid = NoPid
    BY <1>1, RowParts DEF G!InUse
  <1>3. ASSUME pending[c].syncStatus # "PENDING_DELETE"
        PROVE  /\ results[c].pid \in Pids /\ results[c].content \in G!Stamps
               /\ results[c].syncStatus = "SYNCED" /\ results[c] \in G!RowType
               /\ results[c].deletedAt = 0
               /\ <<results[c].pid, results[c].content>> \in held
               /\ G!InUse(results[c])
    <2>1. PICK h \in held : results[c] = G!SyncedRow(h[1], h[2])
      BY <1>3 DEF Shape, G!BaseInv, G!CopiesInv
    <2>2. /\ h[1] \in Pids /\ h[2] \in G!Stamps /\ h[2] <= clock
          /\ h = <<h[1], h[2]>> /\ clock \in Nat
      BY OutlookAssumption
      DEF Shape, G!BaseInv, G!TypeOK, IdsHold, AllInUse, G!EventSyncAssumption
    <2>3. /\ results[c].pid = h[1] /\ results[c].content = h[2]
          /\ results[c].syncStatus = "SYNCED" /\ results[c] \in G!RowType
          /\ results[c].deletedAt = 0
      BY <2>1, <2>2, RowParts
    <2> QED
      BY <2>2, <2>3 DEF G!InUse, G!Used
  <1> QED
    BY <1>1, <1>2, <1>3

LEMMA ResultRows ==
    ASSUME Shape, IdsHold, WriteResult
    PROVE  /\ checked \in DOMAIN results
           /\ UNCHANGED <<remote, clock, faults, ui, pending, unsent, fetch, held>>
           /\ DOMAIN results' = DOMAIN results \ {checked}
           /\ \A d \in DOMAIN results' : results'[d] = results[d]
           /\ \/ /\ pending[checked].syncStatus = "PENDING_DELETE"
                 /\ row' = [row EXCEPT ![checked] = G!Gone]
                 /\ row[checked].pid \in {NoPid, pending[checked].pid}
                 /\ remote[pending[checked].pid] = G!NoEvent
              \/ /\ pending[checked].syncStatus # "PENDING_DELETE"
                 /\ \E t \in Rows :
                        /\ row' = [row EXCEPT ![t] = results[checked]]
                        /\ \A d \in Rows \ {t} : row[d].pid # results[checked].pid
                        /\ \/ G!Live(t) /\ row[t].pid = results[checked].pid
                           \/ G!Live(t) /\ row[t].pid = NoPid /\ t = checked
                           \/ Unwritten(t)
  <1> DEFINE c == checked
             p == results[c].pid
  <1>1. /\ c \in DOMAIN results
        /\ UNCHANGED <<remote, clock, faults, ui, pending, unsent, fetch, held>>
        /\ results' = [d \in DOMAIN results \ {c} |-> results[d]]
        /\ ~G!Conflict(c, p)
    BY DEF WriteResult, G!WriteResult, G!historyVars, Shape, G!BaseInv, G!CopiesInv, G!Without
  <1>2. G!Live(c) /\ row[c].pid # NoPid => pending[c].pid # NoPid /\ row[c].pid = pending[c].pid
    BY <1>1, AnswerParts DEF IdsHold, PendingFits
  <1>3. CASE pending[c].syncStatus = "PENDING_DELETE"
    <2>1. row' = [row EXCEPT ![c] = G!Gone]
      BY <1>3 DEF WriteResult, G!WriteResult
    <2>2. row[c].pid \in {NoPid, pending[c].pid}
      BY <1>1, <1>2, AnswerParts, LiveParts DEF Shape
    <2>3. remote[pending[c].pid] = G!NoEvent
      BY <1>1, <1>3 DEF IdsHold, AnswersFit
    <2> QED
      BY <1>1, <1>3, <2>1, <2>2, <2>3
  <1>4. CASE pending[c].syncStatus # "PENDING_DELETE"
    <2>1. PICK t \in G!UpsertTargets(c, p) : row' = [row EXCEPT ![t] = results[c]]
      BY <1>4 DEF WriteResult, G!WriteResult
    <2>2. p \in Pids /\ c \in Rows
      BY <1>1, <1>4, AnswerParts
    <2>3. CASE G!Live(c)
      <3>1. t = c
        BY <2>1, <2>3 DEF G!UpsertTargets
      <3>2. \A d \in Rows \ {c} : row[d].pid # p
        BY <1>1, <2>2, <2>3, Nulls DEF G!Conflict, G!WithPid
      <3>3. row[c].pid # NoPid => row[c].pid = p
        BY <1>1, <1>2, <1>4, <2>3, AnswerParts, RowParts DEF IdsHold, AnswersFit
      <3> HIDE DEF c, p
      <3> QED
        BY <1>1, <1>4, <2>1, <2>2, <2>3, <3>1, <3>2, <3>3 DEF c, p
    <2>4. CASE ~G!Live(c) /\ t \in G!WithPid(p)
      <3>1. t \in Rows /\ row[t].pid = p /\ \A d \in Rows \ {t} : row[d].pid # p
        BY <2>2, <2>4, Nulls DEF G!WithPid, Shape, G!BaseInv, G!UniqueProviderIds
      <3>2. G!Live(t)
        BY <2>2, <3>1, Nulls, LiveParts DEF Shape
      <3> QED
        BY <1>1, <1>4, <2>1, <3>1, <3>2
    <2>5. CASE ~G!Live(c) /\ G!WithPid(p) = {} /\ t \in G!NewRow
      <3>1. t \in Rows /\ Unwritten(t) /\ \A d \in Rows \ {t} : row[d].pid # p
        BY <2>2, <2>5, Nulls DEF G!WithPid, G!NewRow, Unwritten, G!Unused
      <3> QED
        BY <1>1, <1>4, <2>1, <3>1
    <2> QED
      BY <2>1, <2>3, <2>4, <2>5 DEF G!UpsertTargets
  <1> QED
    BY <1>3, <1>4

LEMMA ResultIds == Shape /\ IdsHold /\ WriteResult => IdsHold'
  <1> SUFFICES ASSUME Shape, IdsHold, WriteResult PROVE IdsHold'
    OBVIOUS
  <1> DEFINE c == checked
  <1>1. /\ c \in DOMAIN results
        /\ UNCHANGED <<remote, clock, ui, pending, unsent, fetch, held>>
        /\ DOMAIN results' = DOMAIN results \ {c}
        /\ \A d \in DOMAIN results' : results'[d] = results[d]
        /\ row \in [Rows -> G!RowType \cup {G!Gone}]
    BY ResultRows DEF Shape, G!BaseInv, G!TypeOK
  <1>2. CASE row' = [row EXCEPT ![c] = G!Gone]
    <2>1. \A e \in Rows : row'[e] = row[e] \/ row'[e] = G!Gone
      BY <1>1, <1>2
    <2>2. \A e \in Rows : row'[e] = G!Gone => G!InUse(row[e])'
      <3>1. clock' \in Nat /\ 0 <= clock'
        BY <1>1, OutlookAssumption DEF Shape, G!BaseInv, G!TypeOK, G!EventSyncAssumption
      <3> QED
        BY <3>1 DEF G!InUse, G!Gone
    <2> QED
      BY <1>1, <2>1, <2>2, IdsStay
  <1>3. ASSUME NEW t \in Rows, row' = [row EXCEPT ![t] = results[c]],
               pending[c].syncStatus # "PENDING_DELETE",
               \/ G!Live(t) /\ row[t].pid = results[c].pid
               \/ G!Live(t) /\ row[t].pid = NoPid /\ t = c
               \/ Unwritten(t)
        PROVE  IdsHold'
    <2>1. /\ row'[t] = results[c] /\ \A e \in Rows \ {t} : row'[e] = row[e]
          /\ results[c].pid \in Pids /\ G!InUse(results[c])
      BY <1>1, <1>3, AnswerParts
    <2>2. G!InUse(row[t])'
      BY <1>1, <2>1 DEF G!InUse, G!Used
    <2>3. CASE (G!Live(t) /\ row[t].pid = results[c].pid) \/ Unwritten(t)
      <3>1. ASSUME NEW e \in Rows
            PROVE  /\ row'[e] = row[e] \/ G!InUse(row[e])'
                   /\ \/ row'[e] = row[e]
                      \/ row'[e].pid = row[e].pid /\ G!Live(e)
                      \/ e \notin DOMAIN pending /\ e # ui.id
        BY <2>1, <2>2, <2>3 DEF Unwritten, G!Unused
      <3> HIDE DEF c
      <3> QED
        BY <1>1, <3>1, IdsStay
    <2>4. CASE G!Live(t) /\ row[t].pid = NoPid /\ t = c
      <3>1. AllInUse'
        <4>1. \A e \in Rows : G!InUse(row[e])'
          BY <1>1, <2>1, <2>2 DEF IdsHold, AllInUse, G!InUse, G!Used
        <4> QED
          BY <1>1, <4>1 DEF IdsHold, AllInUse, G!InUse, G!Used
      <3>2. SnapFits'
        BY <1>1, <2>1, <2>4 DEF IdsHold, SnapFits, G!Live
      <3>3. PendingFits'
        <4>1. pending[c].pid # NoPid => pending[c].pid = results[c].pid
          BY <1>1, <1>3, AnswerParts, RowParts DEF IdsHold, AnswersFit
        <4>2. c \notin unsent /\ c \notin DOMAIN results' /\ DOMAIN pending \subseteq Rows
          BY <1>1, AnswerParts DEF Shape, G!BaseInv, G!TypeOK
        <4>3. ASSUME NEW e \in DOMAIN pending, e # c PROVE row'[e] = row[e]
          BY <2>1, <2>4, <4>2, <4>3
        <4> HIDE DEF c
        <4> QED
          BY <1>1, <2>1, <2>4, <4>1, <4>2, <4>3 DEF IdsHold, PendingFits, G!Live
      <3>4. AnswersFit'
        BY <1>1 DEF IdsHold, AnswersFit
      <3> QED
        BY <3>1, <3>2, <3>3, <3>4 DEF IdsHold
    <2> QED
      BY <1>3, <2>3, <2>4
  <1> QED
    BY <1>2, <1>3, ResultRows

(* What the server does with a request, seen from the ids.                    *)
LEMMA AppliedIds ==
    ASSUME Shape, IdsHold, NEW e \in Rows, NEW p \in Pids, G!Accepts(e, p)
    PROVE  /\ e \in unsent /\ e \in DOMAIN pending /\ unsent' = unsent \ {e}
           /\ UNCHANGED <<row, clock, ui, uploader, pending, checked, fetch>>
           /\ held \subseteq held'
           /\ \A h \in held' : h \in held \/ h[2] <= clock
           /\ \A q \in Pids : q # p => remote'[q] = remote[q]
           /\ \A q \in Pids : G!Used(q) /\ remote[q] = G!NoEvent => remote'[q] = G!NoEvent
           /\ pending[e].syncStatus = "PENDING_UPDATE" => p = pending[e].pid
           /\ pending[e].syncStatus = "PENDING_DELETE" =>
                  p = pending[e].pid /\ remote'[p] = G!NoEvent
           /\ pending[e].syncStatus # "PENDING_DELETE" => remote'[p].content = pending[e].content
           /\ pending[e].syncStatus = "PENDING_INSERT" =>
                  /\ remote[p] = G!NoEvent /\ ~G!Used(p)
                  /\ remote'[p].localId = e
           /\ pending[e].syncStatus # "PENDING_INSERT" =>
                  remote'[p] = G!NoEvent \/ remote'[p].localId = remote[p].localId
  <1>1. /\ e \in unsent /\ e \in DOMAIN pending /\ unsent' = unsent \ {e}
        /\ UNCHANGED <<row, clock, ui, uploader, pending, checked, fetch>>
        /\ remote \in [Pids -> G!RemoteType]
        /\ \A q \in Pids : remote[q] # G!NoEvent => G!Used(q)
        /\ G!InUse(pending[e]) /\ pending[e].syncStatus # "SYNCED"
        /\ pending[e] \in G!RowType
    BY DEF G!Accepts, Shape, G!BaseInv, G!TypeOK, G!CopiesInv, G!Used, IdsHold, AllInUse,
           PendingFits
  <1> DEFINE r == pending[e]
  <1>2. CASE /\ r.syncStatus = "PENDING_INSERT"
             /\ G!NewPid(p)
             /\ remote' = [remote EXCEPT ![p] = G!InsertedEvent(e)]
             /\ held' = held \cup {<<p, r.content>>}
    <2>1. ~G!Used(p) /\ remote[p] = G!NoEvent
      BY <1>1, <1>2 DEF G!NewPid
    <2>2. remote'[p] = [content |-> r.content, localId |-> e]
      BY <1>1, <1>2 DEF G!InsertedEvent
    <2>3. r.content <= clock
      BY <1>1 DEF G!InUse
    <2> QED
      BY <1>1, <1>2, <2>1, <2>2, <2>3
  <1>3. CASE /\ r.syncStatus = "PENDING_UPDATE"
             /\ r.pid = p
             /\ remote[p] # G!NoEvent
             /\ remote' = [remote EXCEPT ![p].content = r.content]
             /\ held' = held \cup {<<p, r.content>>}
    <2>1. /\ remote'[p].content = r.content /\ remote'[p].localId = remote[p].localId
          /\ \A q \in Pids : q # p => remote'[q] = remote[q]
      BY <1>1, <1>3 DEF G!RemoteType, G!NoEvent
    <2>2. r.content <= clock
      BY <1>1 DEF G!InUse
    <2> QED
      BY <1>1, <1>3, <2>1, <2>2
  <1>4. CASE /\ r.syncStatus = "PENDING_DELETE"
             /\ r.pid = p
             /\ remote' = [remote EXCEPT ![p] = G!NoEvent]
             /\ held' = held
    BY <1>1, <1>4
  <1> QED
    BY <1>2, <1>3, <1>4 DEF G!Accepts, G!Applied

LEMMA AcceptsIds ==
    ASSUME Shape, IdsHold, NEW e \in Rows, NEW p \in Pids, G!Accepts(e, p),
           \/ results' = results
           \/ results' = [d \in DOMAIN results \cup {e} |->
                             IF d = e THEN G!Answer(e, p) ELSE results[d]]
    PROVE  IdsHold'
  <1>1. /\ e \in unsent /\ e \in DOMAIN pending /\ unsent' = unsent \ {e}
        /\ UNCHANGED <<row, clock, ui, pending>>
        /\ held \subseteq held'
        /\ \A h \in held' : h \in held \/ h[2] <= clock
        /\ \A q \in Pids : G!Used(q) /\ remote[q] = G!NoEvent => remote'[q] = G!NoEvent
        /\ pending[e].syncStatus = "PENDING_UPDATE" => p = pending[e].pid
        /\ pending[e].syncStatus = "PENDING_DELETE" =>
                  p = pending[e].pid /\ remote'[p] = G!NoEvent
    BY AppliedIds
  <1>2. AllInUse'
    BY <1>1 DEF IdsHold, AllInUse, G!InUse, G!Used
  <1>3. SnapFits'
    BY <1>1 DEF IdsHold, SnapFits, G!Live
  <1>4. PendingFits'
    BY <1>1 DEF IdsHold, PendingFits, G!Live
  <1>5. DOMAIN results' \cap unsent' = {}
    BY <1>1 DEF IdsHold, AnswersFit
  <1>6. ASSUME NEW d \in DOMAIN results'
        PROVE  /\ pending[d].syncStatus = "PENDING_UPDATE" => results'[d].pid = pending[d].pid
               /\ pending[d].syncStatus = "PENDING_DELETE" => remote'[pending[d].pid] = G!NoEvent
    <2>1. CASE d \in DOMAIN results /\ results'[d] = results[d]
      BY <1>1, <2>1, AnswerParts DEF IdsHold, AnswersFit
    <2>2. CASE d = e /\ results'[d] = G!Answer(e, p)
      BY <1>1, <2>2, RowParts DEF G!Answer
    <2> QED
      BY <2>1, <2>2
  <1> QED
    BY <1>1, <1>2, <1>3, <1>4, <1>5, <1>6 DEF IdsHold, AnswersFit

LEMMA UploadIds == Shape /\ IdsHold /\ UploadNext => IdsHold'
  <1> SUFFICES ASSUME Shape, IdsHold, UploadNext PROVE IdsHold'
    OBVIOUS
  <1>1. ASSUME NEW e \in Rows, ServerAccepts(e) \/ ResponseLost(e) PROVE IdsHold'
    BY <1>1, AcceptsIds DEF ServerAccepts, ResponseLost, G!ServerAccepts, G!ResponseLost
  <1>2. ASSUME NEW e \in Rows, ServerRepeats(e) PROVE IdsHold'
    <2>1. /\ e \in unsent /\ unsent' = unsent \ {e} /\ Inserts(e)
          /\ UNCHANGED <<row, remote, clock, ui, pending, held>>
          /\ DOMAIN results' = DOMAIN results \cup {e}
          /\ \A d \in DOMAIN results : d # e => results'[d] = results[d]
      BY <1>2 DEF ServerRepeats
    <2>2. AllInUse' /\ SnapFits' /\ PendingFits'
      BY <2>1 DEF IdsHold, AllInUse, SnapFits, PendingFits, G!InUse, G!Used, G!Live
    <2>3. AnswersFit'
      BY <2>1 DEF IdsHold, AnswersFit, Inserts
    <2> QED
      BY <2>2, <2>3 DEF IdsHold
  <1>3. CASE G!ReadPending
    <2>1. /\ UNCHANGED <<row, remote, clock, ui, results, held>>
          /\ pending' = [e \in G!PendingRows |-> row[e]] /\ unsent' = G!PendingRows
          /\ DOMAIN results = {}
      BY <1>3 DEF G!ReadPending, Shape, G!BaseInv, G!CopiesInv, G!historyVars
    <2>2. AllInUse' /\ SnapFits' /\ AnswersFit'
      BY <2>1
      DEF IdsHold, AllInUse, SnapFits, AnswersFit, G!InUse, G!Used, G!Live, G!PendingRows
    <2>3. PendingFits'
      BY <2>1 DEF PendingFits, G!PendingRows
    <2> QED
      BY <2>2, <2>3 DEF IdsHold
  <1>4. CASE \/ \E e \in Rows : G!ServerRejects(e) \/ G!CheckResult(e)
             \/ G!WriteThrows \/ G!PassEnds
    <2>1. UNCHANGED <<row, remote, clock, ui, held>>
      BY <1>4 DEF G!ServerRejects, G!CheckResult, G!WriteThrows, G!PassEnds, G!historyVars
    <2>2. CASE /\ pending' = pending /\ unsent' \subseteq unsent
               /\ DOMAIN results' \subseteq DOMAIN results
               /\ \A d \in DOMAIN results' : results'[d] = results[d]
      BY <2>1, <2>2, IdsStay
    <2>3. CASE pending' = <<>> /\ unsent' = {} /\ results' = <<>>
      BY <2>1, <2>3
      DEF IdsHold, AllInUse, SnapFits, PendingFits, AnswersFit, G!InUse, G!Used, G!Live
    <2> QED
      BY <1>4, <2>2, <2>3
      DEF G!ServerRejects, G!CheckResult, G!Without, G!WriteThrows, G!PassEnds, G!EndOfPass
  <1> QED
    BY <1>1, <1>2, <1>3, <1>4, ResultIds DEF UploadNext

LEMMA RemoteIds == Shape /\ IdsHold /\ RemoteNext => IdsHold'
  <1> SUFFICES ASSUME Shape, IdsHold, NEW p \in Pids,
                      G!RemoteCreates(p) \/ G!RemoteEdits(p) \/ G!RemoteDeletes(p)
               PROVE  IdsHold'
    BY DEF RemoteNext
  <1>1. /\ UNCHANGED <<row, ui, pending, unsent, results>> /\ clock' = clock + 1
        /\ held \subseteq held' /\ \A h \in held' : h \in held \/ h[2] = clock + 1
        /\ \A q \in Pids : q # p => remote'[q] = remote[q]
        /\ remote[p] = G!NoEvent => ~G!Used(p) \/ remote'[p] = G!NoEvent
        /\ clock \in Nat
    BY OutlookAssumption
    DEF G!RemoteCreates, G!RemoteEdits, G!RemoteDeletes, G!RemoteWrites, G!NewPid,
        G!uploadVars, Shape, G!BaseInv, G!TypeOK, G!EventSyncAssumption
  <1>2. \A h \in held' : h \in held \/ h[2] <= clock'
    BY <1>1
  <1> QED
    BY <1>1, <1>2, IdsStay

(* What a fetch stores. *)
LEMMA StoreRows ==
    ASSUME Shape, NEW f \in Fetchers, NEW p \in Pids, PersistRemoteEvent(f, p)
    PROVE  /\ p \in fetch[f].todo /\ p \notin pull[f].ask /\ fetch[f].at = "storing"
           /\ fetch' = [fetch EXCEPT ![f].todo = @ \ {p}]
           /\ UNCHANGED <<remote, clock, faults, ui, uploader, pending, unsent, results, checked,
                          held, owed, exposed, links, pull, doubled>>
           /\ \/ G!LocallyChanged(p) /\ row' = row
              \/ /\ fetch[f].seen[p] = G!NoEvent /\ ~G!LocallyChanged(p)
                 /\ row' = [e \in Rows |-> IF e \in G!WithPid(p) THEN G!Gone ELSE row[e]]
              \/ /\ fetch[f].seen[p] # G!NoEvent /\ ~G!LocallyChanged(p)
                 /\ \E t \in Rows :
                        /\ row' = [row EXCEPT ![t] = G!SyncedRow(p, fetch[f].seen[p].content)]
                        /\ \A d \in Rows \ {t} : row[d].pid # p
                        /\ \/ G!Live(t) /\ row[t].pid = p
                           \/ Unwritten(t) /\ row[t].pid = NoPid
  <1>1. /\ p \in fetch[f].todo /\ p \notin pull[f].ask
        /\ fetch' = [fetch EXCEPT ![f].todo = @ \ {p}]
        /\ UNCHANGED <<remote, clock, faults, ui, uploader, pending, unsent, results, checked,
                       held, owed, exposed, links, pull, doubled>>
    BY DEF PersistRemoteEvent, uploadVars, historyVars
  <1>2. fetch[f].at = "storing"
    BY <1>1 DEF Shape, PullShape
  <1>3. ASSUME NEW t \in G!UpsertTargets(NoRow, p)
        PROVE  /\ t \in Rows
               /\ \A d \in Rows \ {t} : row[d].pid # p
               /\ \/ G!Live(t) /\ row[t].pid = p
                  \/ Unwritten(t) /\ row[t].pid = NoPid
    <2>1. /\ t \in Rows /\ row[t].pid \in {p, NoPid} /\ \A d \in Rows \ {t} : row[d].pid # p
          /\ row[t].pid = NoPid => ~G!Live(t) /\ G!Unused(t)
      BY TargetParts DEF Shape
    <2>2. row[t].pid = p => G!Live(t)
      BY <2>1, LiveParts, Nulls DEF Shape
    <2> QED
      BY <2>1, <2>2 DEF Unwritten
  <1> QED
    BY <1>1, <1>2, <1>3 DEF PersistRemoteEvent

LEMMA StoreIds ==
    ASSUME Shape, IdsHold, NEW f \in Fetchers, NEW p \in Pids, PersistRemoteEvent(f, p)
    PROVE  IdsHold'
  <1> DEFINE x == fetch[f].seen[p]
  <1>1. /\ UNCHANGED <<remote, clock, ui, pending, unsent, results, held>>
        /\ row \in [Rows -> G!RowType \cup {G!Gone}] /\ clock \in Nat
    BY StoreRows, OutlookAssumption DEF Shape, G!BaseInv, G!TypeOK, G!EventSyncAssumption
  <1>2. \A e \in Rows : row'[e] = G!Gone => G!InUse(row[e])'
    BY <1>1 DEF G!InUse, G!Gone
  <1>3. CASE row' = row
    BY <1>1, <1>3, IdsStay
  <1>4. CASE row' = [e \in Rows |-> IF e \in G!WithPid(p) THEN G!Gone ELSE row[e]]
    <2>1. \A e \in Rows : row'[e] = row[e] \/ row'[e] = G!Gone
      BY <1>4
    <2> QED
      BY <1>1, <1>2, <2>1, IdsStay
  <1>5. ASSUME NEW t \in Rows, x # G!NoEvent, row' = [row EXCEPT ![t] = G!SyncedRow(p, x.content)],
               (G!Live(t) /\ row[t].pid = p) \/ Unwritten(t)
        PROVE  IdsHold'
    <2>1. <<p, x.content>> \in held
      BY <1>5 DEF Shape, G!BaseInv, G!CopiesInv
    <2>2. G!Used(p) /\ x.content <= clock
      BY <2>1 DEF G!Used, IdsHold, AllInUse
    <2>3. row'[t] = G!SyncedRow(p, x.content) /\ \A e \in Rows \ {t} : row'[e] = row[e]
      BY <1>1, <1>5
    <2>4. G!InUse(row[t])'
      BY <1>1, <2>2, <2>3, RowParts DEF G!InUse, G!Used
    <2>5. row'[t].pid = p
      BY <2>3, RowParts
    <2>6. ASSUME NEW e \in Rows
          PROVE  /\ row'[e] = row[e] \/ G!InUse(row[e])'
                 /\ \/ row'[e] = row[e]
                    \/ row'[e].pid = row[e].pid /\ G!Live(e)
                    \/ e \notin DOMAIN pending /\ e # ui.id
      BY <1>5, <2>3, <2>4, <2>5 DEF Unwritten, G!Unused
    <2> QED
      BY <1>1, <2>6, IdsStay
  <1> QED
    BY <1>3, <1>4, <1>5, StoreRows

LEMMA StepIds == Shape /\ IdsHold /\ [Next]_vars => IdsHold'
  <1> SUFFICES ASSUME Shape, IdsHold, [Next]_vars PROVE IdsHold'
    OBVIOUS
  <1>1. CASE UNCHANGED <<row, remote, clock, ui, pending, unsent, results, held>>
    BY <1>1, IdsStay
  <1>2. CASE UNCHANGED vars \/ \E b \in Buckets : TokenExpires(b) \/ \E f \in Fetchers : FetchInRange(f, b)
    BY <1>1, <1>2 DEF TokenExpires, FetchInRange, vars, uploadVars, historyVars
  <1>3. ASSUME NEW f \in Fetchers, FetchDelta(f) \/ FetchFails(f) \/ UpsertRange(f) \/ GiveUp(f)
                                   \/ \E p \in Pids : ResolveRemoved(f, p)
        PROVE  IdsHold'
    BY <1>1, <1>3
    DEF FetchDelta, FetchFails, UpsertRange, GiveUp, BucketDone, ResolveRemoved, uploadVars,
        historyVars
  <1> QED
    BY <1>2, <1>3, StoreIds, UserIds, UploadIds, RemoteIds DEF Next, FetchNext

-----------------------------------------------------------------------------
(* Mirrored.  A link that does not report an event leaves it to the table, to    *)
(* what threads hold of it and have not written yet, and to the fetch that is   *)
(* about to replace the link.                                                *)

(* A row with content c says of event p what a link of bucket b leaves to it.    *)
Fits(b, p, c) ==
    \/ c = remote[p].content
    \/ ~InBucket(remote[p], b) /\ (c # 0 => BucketOf[c] # b)

(* News the fetch can store at once. *)
Unsettled(f, p) == p \in fetch[f].todo /\ p \notin pull[f].ask

CopiesMirror(b, p) ==
    /\ \A e \in DOMAIN results : results[e].pid = p =>
           <<"pass", p>> \in overtaken \/ Fits(b, p, results[e].content)
    /\ \A f \in Fetchers : Unsettled(f, p) =>
           <<f, p>> \in overtaken \/ Fits(b, p, fetch[f].seen[p].content)

Settled(b, p) == <<b, p>> \in stale \/ (MirroredIn(b, p) /\ CopiesMirror(b, p))

OnTheWay(f, b, p) ==
    \/ <<b, p>> \in stale
    \/ (p \in fetch[f].todo \/ MirroredIn(b, p)) /\ CopiesMirror(b, p)

LinkKnown(b) ==
    links[b].state = "valid" => \A p \in Pids : p \notin links[b].due => Settled(b, p)

PullKnown(f) ==
    /\ fetch[f].at = "idle" /\ pull[f].link.state = "valid" =>
           \A p \in Pids : p \notin pull[f].link.due => Settled(pull[f].bucket, p)
    /\ fetch[f].at = "storing" /\ ~pull[f].failed =>
           \A p \in Pids : p \notin pull[f].fresh => OnTheWay(f, pull[f].bucket, p)

AllKnown == (\A b \in Buckets : LinkKnown(b)) /\ \A f \in Fetchers : PullKnown(f)

(* MirroredIn, said of all rows. *)
LEMMA MirrorParts ==
    ASSUME Shape, NEW b, NEW p \in Pids
    PROVE  MirroredIn(b, p) <=>
               /\ InBucket(remote[p], b) => \E e \in Rows : row[e].pid = p
               /\ \A e \in Rows : row[e].pid = p /\ row[e].syncStatus = "SYNCED" =>
                      Fits(b, p, row[e].content)
  <1>1. G!WithPid(p) = {e \in Rows : row[e].pid = p}
    BY Nulls DEF G!WithPid
  <1>2. \A e \in Rows : row[e].pid = p => row[e].content # 0
    BY LiveParts, Nulls DEF Shape
  <1> QED
    BY <1>1, <1>2 DEF MirroredIn, Fits

LEMMA MirrorPartsNext ==
    ASSUME Shape', NEW b, NEW p \in Pids
    PROVE  MirroredIn(b, p)' <=>
               /\ InBucket(remote'[p], b) => \E e \in Rows : row'[e].pid = p
               /\ \A e \in Rows : row'[e].pid = p /\ row'[e].syncStatus = "SYNCED" =>
                      \/ row'[e].content = remote'[p].content
                      \/ ~InBucket(remote'[p], b) /\ BucketOf[row'[e].content] # b
  <1>1. \A e \in Rows : e \in G!WithPid(p)' <=> row'[e].pid = p
    BY Nulls DEF G!WithPid
  <1> QED
    BY <1>1 DEF MirroredIn, G!WithPid, InBucket

LEMMA LinkBucket ==
    ASSUME Shape, NEW f \in Fetchers
    PROVE  /\ pull[f].link.state = "valid" => pull[f].bucket \in Buckets
           /\ fetch[f].at = "storing" => pull[f].bucket \in Buckets
           /\ fetch[f].at = "idle" \/ fetch[f].at = "storing"
  BY LinkParts DEF Shape, PullShape

(* A step the server takes no part in keeps what is known, if it keeps each    *)
(* event's mirror or marks the event as missed.                              *)
LEMMA KnownStays ==
    ASSUME Shape, AllKnown, UNCHANGED links, stale \subseteq stale',
           \A f \in Fetchers :
               /\ pull'[f].bucket = pull[f].bucket /\ pull'[f].link = pull[f].link
               /\ pull'[f].fresh = pull[f].fresh
               /\ pull[f].failed => pull'[f].failed
               /\ fetch'[f].at = fetch[f].at \/ (fetch'[f].at = "storing" /\ pull'[f].failed),
           \A b \in Buckets, p \in Pids : <<b, p>> \notin stale' /\ CopiesMirror(b, p) =>
               /\ CopiesMirror(b, p)'
               /\ MirroredIn(b, p) => MirroredIn(b, p)'
               /\ \A f \in Fetchers :
                      ~pull'[f].failed /\ p \in fetch[f].todo /\ p \notin fetch'[f].todo
                          => MirroredIn(b, p)'
    PROVE  AllKnown'
  <1>1. ASSUME NEW b \in Buckets, NEW p \in Pids, Settled(b, p) PROVE Settled(b, p)'
    BY <1>1 DEF Settled
  <1>2. ASSUME NEW f \in Fetchers, ~pull'[f].failed, NEW b \in Buckets, NEW p \in Pids, OnTheWay(f, b, p)
        PROVE  OnTheWay(f, b, p)'
    BY <1>2 DEF OnTheWay
  <1>3. ASSUME NEW b \in Buckets PROVE LinkKnown(b)'
    BY <1>1 DEF AllKnown, LinkKnown
  <1>4. ASSUME NEW f \in Fetchers PROVE PullKnown(f)'
    <2>1. PullKnown(f)
      BY DEF AllKnown
    <2>2. ASSUME fetch'[f].at = "idle", pull'[f].link.state = "valid",
                 NEW p \in Pids, p \notin pull'[f].link.due
          PROVE  Settled(pull[f].bucket, p)'
      <3>1. Settled(pull[f].bucket, p) /\ pull[f].bucket \in Buckets
        BY <2>1, <2>2, LinkBucket DEF PullKnown
      <3>2. PICK b \in Buckets : b = pull[f].bucket
        BY <3>1
      <3>3. Settled(b, p)
        BY <3>1, <3>2
      <3>4. Settled(b, p)'
        BY <1>1, <3>3
      <3> QED
        BY <3>2, <3>4 DEF Settled, MirroredIn, CopiesMirror, Fits, InBucket
    <2>3. ASSUME fetch'[f].at = "storing", ~pull'[f].failed,
                 NEW p \in Pids, p \notin pull'[f].fresh
          PROVE  OnTheWay(f, pull[f].bucket, p)'
      <3>1. OnTheWay(f, pull[f].bucket, p) /\ pull[f].bucket \in Buckets
        BY <2>1, <2>3, LinkBucket DEF PullKnown
      <3>2. PICK b \in Buckets : b = pull[f].bucket
        BY <3>1
      <3>3. OnTheWay(f, b, p)
        BY <3>1, <3>2
      <3>4. OnTheWay(f, b, p)'
        BY <1>2, <2>3, <3>3
      <3> QED
        BY <3>2, <3>4 DEF OnTheWay, MirroredIn, CopiesMirror, Fits, InBucket
    <2> QED
      BY <2>2, <2>3 DEF PullKnown
  <1> QED
    BY <1>3, <1>4 DEF AllKnown

(* Rows keep an event's mirror when none that has its id loses it, and none gets *)
(* it with content that does not fit.                                         *)
LEMMA RowsKeepMirror ==
    ASSUME Shape, Shape', UNCHANGED remote, NEW b, NEW p \in Pids, MirroredIn(b, p),
           \A e \in Rows :
               row'[e] = row[e] \/ (row'[e].pid = p /\ row'[e].syncStatus = "SYNCED"
                                        => Fits(b, p, row'[e].content)),
           InBucket(remote[p], b) /\ (\E e \in Rows : row[e].pid = p)
               => \E e \in Rows : row'[e].pid = p
    PROVE  MirroredIn(b, p)'
  <1>1. \A e \in Rows : row'[e].pid = p => row'[e].content # 0
    <2>1. row' \in [Rows -> G!RowType \cup {G!Gone}]
      BY DEF Shape, G!BaseInv, G!TypeOK, G!RowType, G!Gone, G!Stamps
    <2> QED
      BY <2>1, Nulls, RowParts
  <1>2. ASSUME NEW e \in Rows, row'[e].pid = p, row'[e].syncStatus = "SYNCED"
        PROVE  row'[e].content = remote[p].content
               \/ (~InBucket(remote[p], b) /\ BucketOf[row'[e].content] # b)
    <2>1. Fits(b, p, row'[e].content)
      BY <1>2, MirrorParts
    <2> QED
      BY <1>1, <1>2, <2>1 DEF Fits
  <1> QED
    BY <1>2, MirrorParts, MirrorPartsNext DEF InBucket

(* The window. *)
LEMMA UserKnown == Shape /\ Shape' /\ IdsHold /\ AllKnown /\ UserNext => AllKnown'
  <1> SUFFICES ASSUME Shape, Shape', IdsHold, AllKnown, UserNext PROVE AllKnown'
    OBVIOUS
  <1>1. /\ UNCHANGED <<remote, results, fetch, pull, links, overtaken>>
        /\ stale \subseteq stale'
    BY DEF UserNext, WriteBack, UserWrites, G!CreateEvent, G!OpenEventDialog, G!ReadForDelete,
           G!CloseEventDialog, G!SaveEvent, G!DeleteEvent, G!SoftDelete,
           G!SoftDeleteAllByCalendar, G!uploadVars
  <1>2. ASSUME NEW b \in Buckets, NEW p \in Pids, CopiesMirror(b, p) PROVE CopiesMirror(b, p)'
    BY <1>1, <1>2 DEF CopiesMirror, Unsettled, Fits, InBucket
  <1>3. ASSUME NEW b \in Buckets, NEW p \in Pids, <<b, p>> \notin stale', MirroredIn(b, p)
        PROVE  MirroredIn(b, p)'
    <2>1. ASSUME NEW e \in Rows, row[e].pid = p PROVE row'[e].pid = p
      <3>1. G!Live(e)
        BY <2>1, LiveParts, Nulls DEF Shape
      <3>2. WriteBack /\ e = ui.id /\ ui.snap.pid = NoPid => <<b, p>> \in stale'
        BY <2>1 DEF WriteBack
      <3> QED
        BY <1>3, <2>1, <3>1, <3>2, UserRows DEF Unwritten
    <2>2. \A e \in Rows : row'[e] = row[e] \/ row'[e].syncStatus # "SYNCED"
      BY UserRows
    <2> QED
      BY <1>1, <1>3, <2>1, <2>2, RowsKeepMirror
  <1> QED
    BY <1>1, <1>2, <1>3, KnownStays

(* A pass forgets answers. *)
LEMMA ForgetKeeps ==
    ASSUME Shape, UNCHANGED <<remote, fetch, pull>>, overtaken' = Forgotten,
           DOMAIN results' \subseteq DOMAIN results,
           \A d \in DOMAIN results' : results'[d] = results[d],
           NEW b, NEW p \in Pids, CopiesMirror(b, p)
    PROVE  CopiesMirror(b, p)'
  BY OutlookAssumption DEF CopiesMirror, Unsettled, Fits, InBucket, Forgotten

LEMMA ResultKnown == Shape /\ Shape' /\ IdsHold /\ AllKnown /\ WriteResult => AllKnown'
  <1> SUFFICES ASSUME Shape, Shape', IdsHold, AllKnown, WriteResult PROVE AllKnown'
    OBVIOUS
  <1> DEFINE c == checked
  <1>1. /\ c \in DOMAIN results
        /\ UNCHANGED <<remote, fetch, links, pull>> /\ overtaken' = Forgotten
        /\ DOMAIN results' \subseteq DOMAIN results
        /\ \A d \in DOMAIN results' : results'[d] = results[d]
        /\ stale \subseteq stale'
        /\ row \in [Rows -> G!RowType \cup {G!Gone}]
    BY ResultRows DEF WriteResult, Shape, G!BaseInv, G!TypeOK
  <1>2. ASSUME NEW b \in Buckets, NEW p \in Pids, <<b, p>> \notin stale', CopiesMirror(b, p),
               MirroredIn(b, p)
        PROVE  MirroredIn(b, p)'
    <2>1. CASE /\ pending[c].syncStatus = "PENDING_DELETE"
               /\ row' = [row EXCEPT ![c] = G!Gone]
               /\ row[c].pid \in {NoPid, pending[c].pid}
               /\ remote[pending[c].pid] = G!NoEvent
      <3>1. \A e \in Rows : row'[e] = row[e] \/ row'[e].syncStatus # "SYNCED"
        BY <1>1, <2>1, Nulls
      <3>2. ASSUME InBucket(remote[p], b), NEW e \in Rows, row[e].pid = p
            PROVE  row'[e].pid = p
        BY <1>1, <2>1, <3>2, Nulls DEF InBucket
      <3> QED
        BY <1>1, <1>2, <3>1, <3>2, RowsKeepMirror
    <2>2. ASSUME pending[c].syncStatus # "PENDING_DELETE", NEW t \in Rows,
                 row' = [row EXCEPT ![t] = results[c]],
                 row[t].pid \in {results[c].pid, NoPid}
          PROVE  MirroredIn(b, p)'
      <3>1. row'[t] = results[c] /\ \A e \in Rows \ {t} : row'[e] = row[e]
        BY <1>1, <2>2
      <3>2. ASSUME results[c].pid = p PROVE Fits(b, p, results[c].content)
        <4>1. <<"pass", p>> \notin overtaken
          BY <1>2, <3>2 DEF WriteResult
        <4> QED
          BY <1>1, <1>2, <3>2, <4>1 DEF CopiesMirror
      <3>3. \A e \in Rows : row[e].pid = p => row'[e].pid = p
        BY <2>2, <3>1, Nulls
      <3>4. \A e \in Rows : row'[e] = row[e] \/ (row'[e].pid = p => Fits(b, p, row'[e].content))
        BY <3>1, <3>2
      <3> QED
        BY <1>1, <1>2, <3>3, <3>4, RowsKeepMirror
    <2>3. \A t \in Rows : Unwritten(t) => row[t].pid = NoPid
      BY LiveParts, Nulls DEF Shape, Unwritten
    <2> QED
      BY <2>1, <2>2, <2>3, ResultRows
  <1>3. ASSUME NEW b \in Buckets, NEW p \in Pids, CopiesMirror(b, p) PROVE CopiesMirror(b, p)'
    BY <1>1, <1>3, ForgetKeeps
  <1> HIDE DEF c
  <1> QED
    BY <1>1, <1>2, <1>3, KnownStays

(* The server: its links report what a step changes in their bucket, and what it *)
(* does not change there still fits.                                          *)
LEMMA FitsStays ==
    ASSUME Shape, NEW b, NEW p \in Pids, p \notin ChangedIn(b), NEW c, Fits(b, p, c)
    PROVE  \/ c = remote'[p].content
           \/ ~InBucket(remote'[p], b) /\ (c # 0 => BucketOf[c] # b)
  <1>1. \/ remote'[p] = remote[p]
        \/ ~InBucket(remote[p], b) /\ ~InBucket(remote'[p], b)
    BY DEF ChangedIn, InBucket
  <1>2. remote[p] = G!NoEvent => remote[p].content = 0
    BY Nulls
  <1> QED
    BY <1>1, <1>2 DEF Fits, InBucket

LEMMA ServerKnown ==
    ASSUME Shape, Shape', AllKnown, ServerSteps, UNCHANGED <<row, fetch>>,
           \A e \in DOMAIN results', p \in Pids : results'[e].pid = p =>
               \/ e \in DOMAIN results /\ results'[e] = results[e]
               \/ results'[e].content = remote'[p].content
    PROVE  AllKnown'
  <1>1. \A b : ChangedIn(b) \in SUBSET Pids
    BY DEF ChangedIn
  <1>2. \A f \in Fetchers :
            /\ pull'[f].bucket = pull[f].bucket /\ pull'[f].ask = pull[f].ask
            /\ pull'[f].link = Reporting(pull[f].link, ChangedIn(pull[f].bucket))
            /\ pull'[f].fresh = IF fetch[f].at = "storing"
                                THEN pull[f].fresh \cup ChangedIn(pull[f].bucket)
                                ELSE pull[f].fresh
            /\ pull'[f].failed = pull[f].failed
    <2> SUFFICES ASSUME NEW f \in Fetchers
                 PROVE  /\ pull'[f].bucket = pull[f].bucket /\ pull'[f].ask = pull[f].ask
                        /\ pull'[f].link = Reporting(pull[f].link, ChangedIn(pull[f].bucket))
                        /\ pull'[f].fresh = IF fetch[f].at = "storing"
                                            THEN pull[f].fresh \cup ChangedIn(pull[f].bucket)
                                            ELSE pull[f].fresh
                        /\ pull'[f].failed = pull[f].failed
      OBVIOUS
    <2> DEFINE C == ChangedIn(pull[f].bucket)
    <2>1. pull[f] \in PullType
      BY DEF Shape
    <2>2. pull'[f] = [pull[f] EXCEPT !.link = Reporting(@, C),
                                     !.fresh = IF fetch[f].at = "storing" THEN @ \cup C ELSE @]
      BY DEF ServerSteps
    <2> HIDE DEF C
    <2> QED
      BY <2>1, <2>2 DEF PullType, C
  <1>3. ASSUME NEW b \in Buckets, NEW p \in Pids, p \notin ChangedIn(b), CopiesMirror(b, p)
        PROVE  CopiesMirror(b, p)'
    <2>1. ASSUME NEW e \in DOMAIN results', results'[e].pid = p,
                 <<"pass", p>> \notin overtaken'
          PROVE  Fits(b, p, results[e].content)'
      <3>1. CASE e \in DOMAIN results /\ results'[e] = results[e]
        <4>1. Fits(b, p, results[e].content)
          BY <1>3, <2>1, <3>1 DEF CopiesMirror, ServerSteps
        <4> QED
          BY <1>3, <3>1, <4>1, FitsStays DEF Fits, InBucket
      <3> QED
        BY <2>1, <3>1 DEF Fits
    <2>2. ASSUME NEW f \in Fetchers, Unsettled(f, p)', <<f, p>> \notin overtaken'
          PROVE  Fits(b, p, fetch[f].seen[p].content)'
      <3>1. Fits(b, p, fetch[f].seen[p].content)
        BY <1>2, <1>3, <2>2 DEF CopiesMirror, ServerSteps, Unsettled
      <3> QED
        BY <1>3, <3>1, FitsStays DEF Fits, InBucket
    <2> QED
      BY <2>1, <2>2 DEF CopiesMirror
  <1>4. ASSUME NEW b \in Buckets, NEW p \in Pids, p \notin ChangedIn(b), MirroredIn(b, p)
        PROVE  MirroredIn(b, p)'
    <2>1. InBucket(remote'[p], b) => InBucket(remote[p], b)
      BY <1>4 DEF ChangedIn
    <2>2. ASSUME NEW e \in Rows, row[e].pid = p, row[e].syncStatus = "SYNCED"
          PROVE  \/ row[e].content = remote'[p].content
                 \/ ~InBucket(remote'[p], b) /\ BucketOf[row[e].content] # b
      <3>1. Fits(b, p, row[e].content) /\ row[e].content # 0
        BY <1>4, <2>2, MirrorParts, LiveParts, Nulls DEF Shape
      <3> QED
        BY <1>4, <3>1, FitsStays
    <2> QED
      BY <1>4, <2>1, <2>2, MirrorParts, MirrorPartsNext
  <1>5. \A b \in Buckets, p \in Pids : p \notin ChangedIn(b) /\ <<b, p>> \in stale => <<b, p>> \in stale'
    BY DEF ServerSteps
  <1>6. ASSUME NEW b \in Buckets PROVE LinkKnown(b)'
    <2>1. /\ links'[b].state = links[b].state
          /\ links[b].state = "valid" => links'[b].due = links[b].due \cup ChangedIn(b)
      <3>1. ChangedIn(b) \in SUBSET Pids
        BY <1>1
      <3>2. links[b] \in Links /\ links'[b] = Reporting(links[b], ChangedIn(b))
        BY DEF ServerSteps, Shape
      <3> QED
        BY <3>1, <3>2, LinkParts
    <2> QED
      BY <1>3, <1>4, <1>5, <2>1 DEF AllKnown, LinkKnown, Settled
  <1>7. ASSUME NEW f \in Fetchers PROVE PullKnown(f)'
    <2>1. PullKnown(f) /\ pull[f].link \in Links
      BY DEF AllKnown, Shape, PullType
    <2>2. /\ pull'[f].link.state = pull[f].link.state
          /\ pull[f].link.state = "valid" =>
                 pull'[f].link.due = pull[f].link.due \cup ChangedIn(pull[f].bucket)
      <3>1. ChangedIn(pull[f].bucket) \in SUBSET Pids
        BY <1>1
      <3>2. pull'[f].link = Reporting(pull[f].link, ChangedIn(pull[f].bucket))
        BY <1>2
      <3> QED
        BY <2>1, <3>1, <3>2, LinkParts
    <2>3. ASSUME fetch'[f].at = "idle", pull'[f].link.state = "valid",
                 NEW p \in Pids, p \notin pull'[f].link.due
          PROVE  Settled(pull[f].bucket, p)'
      <3>1. PICK b \in Buckets : b = pull[f].bucket
        BY <2>2, <2>3, LinkBucket
      <3>2. Settled(b, p) /\ p \notin ChangedIn(b)
        BY <2>1, <2>2, <2>3, <3>1 DEF PullKnown
      <3>3. Settled(b, p)'
        BY <1>3, <1>4, <1>5, <3>2 DEF Settled
      <3> QED
        BY <1>2, <3>1, <3>3 DEF Settled, MirroredIn, CopiesMirror, Fits, InBucket
    <2>4. ASSUME fetch'[f].at = "storing", ~pull'[f].failed,
                 NEW p \in Pids, p \notin pull'[f].fresh
          PROVE  OnTheWay(f, pull[f].bucket, p)'
      <3>1. PICK b \in Buckets : b = pull[f].bucket
        BY <2>4, LinkBucket
      <3>2. OnTheWay(f, b, p) /\ p \notin ChangedIn(b)
        BY <1>2, <2>1, <2>4, <3>1 DEF PullKnown
      <3>3. OnTheWay(f, b, p)'
        BY <1>3, <1>4, <1>5, <3>2 DEF OnTheWay
      <3> QED
        BY <1>2, <3>1, <3>3 DEF OnTheWay, MirroredIn, CopiesMirror, Fits, InBucket
    <2> QED
      BY <2>3, <2>4 DEF PullKnown
  <1> QED
    BY <1>6, <1>7 DEF AllKnown

LEMMA UploadKnown == Shape /\ Shape' /\ IdsHold /\ AllKnown /\ UploadNext => AllKnown'
  <1> SUFFICES ASSUME Shape, Shape', IdsHold, AllKnown, UploadNext PROVE AllKnown'
    OBVIOUS
  <1>1. ASSUME NEW e \in Rows, NEW q \in Pids, G!Accepts(e, q), ServerSteps,
               \/ results' = results
               \/ results' = [d \in DOMAIN results \cup {e} |->
                                 IF d = e THEN G!Answer(e, q) ELSE results[d]]
        PROVE  AllKnown'
    <2>1. UNCHANGED <<row, fetch>>
      BY <1>1, AppliedIds
    <2>2. pending[e].syncStatus # "PENDING_DELETE" => remote'[q].content = pending[e].content
      BY <1>1, AppliedIds
    <2>3. ASSUME NEW d \in DOMAIN results', NEW p \in Pids, results'[d].pid = p
          PROVE  \/ d \in DOMAIN results /\ results'[d] = results[d]
                 \/ results'[d].content = remote'[p].content
      <3>1. CASE d = e /\ results'[d] = G!Answer(e, q)
        BY <2>2, <2>3, <3>1, RowParts, Nulls DEF G!Answer
      <3> QED
        BY <1>1, <3>1
    <2> QED
      BY <1>1, <2>1, <2>3, ServerKnown
  <1>2. ASSUME NEW e \in Rows, ServerAccepts(e) \/ ResponseLost(e) PROVE AllKnown'
    BY <1>1, <1>2 DEF ServerAccepts, ResponseLost, G!ServerAccepts, G!ResponseLost
  <1>3. ASSUME UNCHANGED <<row, remote, fetch, links, pull, stale>>,
               \A b \in Buckets, p \in Pids : CopiesMirror(b, p) => CopiesMirror(b, p)'
        PROVE  AllKnown'
    <2>1. \A b, p : MirroredIn(b, p) => MirroredIn(b, p)'
      BY <1>3 DEF MirroredIn, G!WithPid, InBucket
    <2> QED
      BY <1>3, <2>1, KnownStays
  <1>4. ASSUME NEW e \in Rows, ServerRepeats(e) PROVE AllKnown'
    <2>1. PICK q \in Pids :
              /\ results' = [d \in DOMAIN results \cup {e} |->
                     IF d = e THEN G!SyncedRow(q, remote[q].content) ELSE results[d]]
              /\ UNCHANGED <<row, remote, fetch, links, pull, stale, overtaken>>
      BY <1>4 DEF ServerRepeats, MadeBefore, outlookVars
    <2>2. ASSUME NEW b \in Buckets, NEW p \in Pids, CopiesMirror(b, p)
          PROVE  CopiesMirror(b, p)'
      <3>1. ASSUME NEW d \in DOMAIN results', results'[d].pid = p, <<"pass", p>> \notin overtaken
            PROVE  Fits(b, p, results'[d].content)
        <4>1. CASE d = e
          BY <2>1, <3>1, <4>1, RowParts DEF Fits
        <4>2. CASE d # e
          BY <2>1, <2>2, <3>1, <4>2 DEF CopiesMirror
        <4> QED
          BY <4>1, <4>2
      <3> QED
        BY <2>1, <2>2, <3>1 DEF CopiesMirror, Unsettled, Fits, InBucket
    <2> QED
      BY <1>3, <2>1, <2>2
  <1>5. CASE /\ G!ReadPending \/ \E e \in Rows : G!ServerRejects(e)
             /\ UNCHANGED outlookVars
    <2>1. UNCHANGED <<row, remote, fetch, links, pull, stale, overtaken, results>>
      BY <1>5 DEF G!ReadPending, G!ServerRejects, outlookVars
    <2>2. \A b, p : CopiesMirror(b, p) => CopiesMirror(b, p)'
      BY <2>1 DEF CopiesMirror, Unsettled, Fits, InBucket
    <2> QED
      BY <1>3, <2>1, <2>2
  <1>6. CASE /\ (\E e \in Rows : G!CheckResult(e)) \/ G!WriteThrows \/ G!PassEnds
             /\ overtaken' = Forgotten
             /\ UNCHANGED <<links, pull, stale, doubled>>
    <2>1. UNCHANGED <<row, remote, fetch>>
      BY <1>6 DEF G!CheckResult, G!WriteThrows, G!PassEnds
    <2>2. /\ DOMAIN results' \subseteq DOMAIN results
          /\ \A d \in DOMAIN results' : results'[d] = results[d]
      <3>1. ASSUME NEW e \in Rows, G!CheckResult(e)
            PROVE  /\ DOMAIN results' \subseteq DOMAIN results
                   /\ \A d \in DOMAIN results' : results'[d] = results[d]
        BY <3>1 DEF G!CheckResult, G!Without
      <3>2. CASE G!WriteThrows \/ G!PassEnds
        <4>1. results' = <<>>
          BY <3>2 DEF G!WriteThrows, G!PassEnds, G!EndOfPass
        <4> QED
          BY <4>1
      <3> QED
        BY <1>6, <3>1, <3>2
    <2>3. \A b \in Buckets, p \in Pids : CopiesMirror(b, p) => CopiesMirror(b, p)'
      BY <1>6, <2>1, <2>2, ForgetKeeps
    <2> QED
      BY <1>3, <1>6, <2>1, <2>3
  <1> QED
    BY <1>2, <1>4, <1>5, <1>6, ResultKnown DEF UploadNext

LEMMA RemoteKnown == Shape /\ Shape' /\ AllKnown /\ RemoteNext => AllKnown'
  <1> SUFFICES ASSUME Shape, Shape', AllKnown, RemoteNext PROVE AllKnown'
    OBVIOUS
  <1>1. ServerSteps /\ UNCHANGED <<row, fetch, results>>
    BY DEF RemoteNext, G!RemoteCreates, G!RemoteEdits, G!RemoteDeletes, G!RemoteWrites,
           G!uploadVars
  <1> QED
    BY <1>1, ServerKnown

(* The range on its way. *)
LEMMA RangeKnown ==
    ASSUME Shape, AllKnown, NEW b \in Buckets,
           TokenExpires(b) \/ \E f \in Fetchers : FetchInRange(f, b)
    PROVE  AllKnown'
  <1>1. CASE TokenExpires(b)
    <2>1. /\ UNCHANGED <<row, remote, results, fetch, pull, overtaken, stale>>
          /\ links' = [links EXCEPT ![b] = [state |-> "expired", due |-> {}]]
          /\ links \in [Buckets -> Links]
      BY <1>1 DEF TokenExpires, Shape
    <2>2. \A c, p : Settled(c, p) => Settled(c, p)'
      BY <2>1 DEF Settled, MirroredIn, CopiesMirror, Unsettled, Fits, InBucket, G!WithPid
    <2>3. ASSUME NEW c \in Buckets PROVE LinkKnown(c)'
      BY <2>1, <2>2 DEF AllKnown, LinkKnown
    <2>4. ASSUME NEW f \in Fetchers PROVE PullKnown(f)'
      <3>1. PullKnown(f)
        BY DEF AllKnown
      <3> QED
        BY <2>1, <3>1
        DEF PullKnown, Settled, OnTheWay, MirroredIn, CopiesMirror, Unsettled, Fits, InBucket,
            G!WithPid
    <2> QED
      BY <2>3, <2>4 DEF AllKnown
  <1>2. ASSUME NEW f \in Fetchers, FetchInRange(f, b) PROVE AllKnown'
    <2>1. /\ UNCHANGED <<row, remote, results, fetch, links, overtaken, stale>>
          /\ pull[f] = NoPull /\ pull \in [Fetchers -> PullType]
          /\ pull' = [pull EXCEPT ![f].bucket = b, ![f].link = links[b]]
      BY <1>2 DEF FetchInRange, uploadVars, Shape
    <2>2. pull'[f] = [[NoPull EXCEPT !.bucket = b] EXCEPT !.link = links[b]]
      BY <2>1
    <2>3. /\ pull'[f].bucket = b /\ pull'[f].link = links[b] /\ pull'[f].ask = {}
          /\ pull[f].ask = {} /\ \A g \in Fetchers : g # f => pull'[g] = pull[g]
      BY <2>1, <2>2 DEF NoPull
    <2>4. fetch[f].at = "idle"
      BY <2>1, LinkParts, OutlookAssumption DEF Shape, PullShape
    <2>5. \A c, p : Settled(c, p) => Settled(c, p)'
      BY <2>1, <2>3 DEF Settled, MirroredIn, CopiesMirror, Unsettled, Fits, InBucket, G!WithPid
    <2>6. ASSUME NEW c \in Buckets PROVE LinkKnown(c)'
      BY <2>1, <2>5 DEF AllKnown, LinkKnown
    <2>7. PullKnown(f)'
      <3>1. ASSUME links[b].state = "valid", NEW p \in Pids, p \notin links[b].due
            PROVE  Settled(b, p)'
        BY <2>5, <3>1 DEF AllKnown, LinkKnown
      <3>2. fetch'[f].at = "idle"
        BY <2>1, <2>4
      <3> QED
        BY <2>3, <3>1, <3>2
        DEF PullKnown, Settled, MirroredIn, CopiesMirror, Unsettled, Fits, InBucket, G!WithPid
    <2>8. ASSUME NEW g \in Fetchers, g # f PROVE PullKnown(g)'
      <3>1. PullKnown(g)
        BY DEF AllKnown
      <3>2. \A c, p : CopiesMirror(c, p) => CopiesMirror(c, p)'
        BY <2>1, <2>3 DEF CopiesMirror, Unsettled, Fits, InBucket
      <3>3. \A c, p : MirroredIn(c, p) => MirroredIn(c, p)'
        BY <2>1 DEF MirroredIn, InBucket, G!WithPid
      <3>4. \A c, p : OnTheWay(g, c, p) => OnTheWay(g, c, p)'
        BY <2>1, <3>2, <3>3 DEF OnTheWay
      <3>5. pull'[g] = pull[g] /\ fetch'[g] = fetch[g]
        BY <2>1, <2>3, <2>8
      <3>6. ASSUME fetch[g].at = "idle", pull[g].link.state = "valid",
                   NEW p \in Pids, p \notin pull[g].link.due
            PROVE  Settled(pull[g].bucket, p)'
        <4>1. PICK c : c = pull[g].bucket
          OBVIOUS
        <4>2. Settled(c, p)'
          BY <2>5, <3>1, <3>6, <4>1 DEF PullKnown
        <4> QED
          BY <3>5, <4>1, <4>2 DEF Settled, MirroredIn, CopiesMirror, Fits, InBucket
      <3>7. ASSUME fetch[g].at = "storing", ~pull[g].failed,
                   NEW p \in Pids, p \notin pull[g].fresh
            PROVE  OnTheWay(g, pull[g].bucket, p)'
        <4>1. PICK c : c = pull[g].bucket
          OBVIOUS
        <4>2. OnTheWay(g, c, p)'
          BY <3>1, <3>4, <3>7, <4>1 DEF PullKnown
        <4> QED
          BY <3>5, <4>1, <4>2 DEF OnTheWay, MirroredIn, CopiesMirror, Fits, InBucket
      <3> QED
        BY <3>5, <3>6, <3>7 DEF PullKnown
    <2> QED
      BY <2>6, <2>7, <2>8 DEF AllKnown
  <1> QED
    BY <1>1, <1>2

LEMMA StoreKnown ==
    ASSUME Shape, Shape', AllKnown, NEW f \in Fetchers, NEW p \in Pids, PersistRemoteEvent(f, p)
    PROVE  AllKnown'
  <1> DEFINE x == fetch[f].seen[p]
  <1>1. /\ UNCHANGED <<remote, results, links, pull>>
        /\ p \in fetch[f].todo /\ p \notin pull[f].ask /\ Unsettled(f, p)
        /\ stale \subseteq stale' /\ overtaken' = Without(f, {p})
        /\ <<f, p>> \in overtaken => \A b \in Buckets : <<b, p>> \in stale'
        /\ row \in [Rows -> G!RowType \cup {G!Gone}]
        /\ fetch \in [Fetchers -> FetchType]
    <2>1. /\ UNCHANGED <<remote, results, links, pull>>
          /\ p \in fetch[f].todo /\ p \notin pull[f].ask
      BY StoreRows
    <2>2. /\ overtaken' = Without(f, {p})
          /\ stale' = IF <<f, p>> \in overtaken THEN stale \cup (Buckets \X {p}) ELSE stale
      BY DEF PersistRemoteEvent
    <2>3. row \in [Rows -> G!RowType \cup {G!Gone}] /\ fetch \in [Fetchers -> FetchType]
      BY DEF Shape, G!BaseInv, G!TypeOK, FetchType
    <2> QED
      BY <2>1, <2>2, <2>3 DEF Unsettled
  <1>2. /\ fetch' = [fetch EXCEPT ![f].todo = @ \ {p}]
        /\ fetch'[f].at = fetch[f].at /\ fetch'[f].seen = fetch[f].seen
        /\ fetch'[f].todo = fetch[f].todo \ {p}
        /\ \A g \in Fetchers : g # f => fetch'[g] = fetch[g]
    BY <1>1, StoreRows DEF FetchType
  <1>3. ASSUME NEW b \in Buckets, NEW q \in Pids, CopiesMirror(b, q)
        PROVE  CopiesMirror(b, q)'
    <2>1. \A g \in Fetchers : Unsettled(g, q)' => /\ Unsettled(g, q) /\ <<g, q>> # <<f, p>>
                                                 /\ fetch'[g].seen = fetch[g].seen
      BY <1>1, <1>2 DEF Unsettled
    <2>2. \A o \in overtaken : o # <<f, p>> => o \in overtaken'
      <3>1. overtaken \subseteq (Fetchers \cup {"pass"}) \X Pids
        BY DEF Shape
      <3> QED
        BY <1>1, <3>1 DEF Without
    <2>3. \A c : Fits(b, q, c) => Fits(b, q, c)'
      BY <1>1 DEF Fits, InBucket
    <2>4. <<"pass", q>> # <<f, p>>
      BY OutlookAssumption
    <2> QED
      BY <1>1, <1>3, <2>1, <2>2, <2>3, <2>4 DEF CopiesMirror, Fits, InBucket
  <1>4. ASSUME NEW b \in Buckets, <<b, p>> \notin stale', CopiesMirror(b, p)
        PROVE  Fits(b, p, x.content)
    BY <1>1, <1>4 DEF CopiesMirror
  <1>5. ASSUME NEW b \in Buckets, NEW q \in Pids, q # p, MirroredIn(b, q)
        PROVE  MirroredIn(b, q)'
    <2>1. \A e \in Rows : row'[e] = row[e] \/ (row[e].pid # q /\ row'[e].pid # q)
      BY <1>1, <1>5, StoreRows, Nulls, RowParts DEF G!WithPid
    <2> QED
      BY <1>1, <1>5, <2>1, RowsKeepMirror
  <1>6. ASSUME NEW b \in Buckets, <<b, p>> \notin stale', CopiesMirror(b, p)
        PROVE  MirroredIn(b, p)'
    <2>0. Fits(b, p, x.content)
      BY <1>4, <1>6
    <2>1. CASE G!LocallyChanged(p) /\ row' = row
      <3>1. PICK e \in Rows : row[e].pid = p /\ row[e].syncStatus # "SYNCED"
        BY <2>1 DEF G!LocallyChanged, G!WithPid
      <3>2. \A d \in Rows : row[d].pid = p => d = e
        BY <3>1, Nulls DEF Shape, G!BaseInv, G!UniqueProviderIds
      <3> QED
        BY <1>1, <2>1, <3>1, <3>2, MirrorPartsNext
    <2>2. CASE /\ x = G!NoEvent
               /\ row' = [e \in Rows |-> IF e \in G!WithPid(p) THEN G!Gone ELSE row[e]]
      <3>1. \A e \in Rows : row'[e].pid # p
        BY <2>2, Nulls DEF G!WithPid
      <3>2. ~InBucket(remote[p], b)
        <4>1. x.content = 0
          BY <2>2, Nulls
        <4>2. remote[p].content = 0 => remote[p] = G!NoEvent
          BY Nulls, EventParts DEF Shape, G!BaseInv, G!TypeOK
        <4> QED
          BY <2>0, <4>1, <4>2 DEF Fits, InBucket
      <3> QED
        BY <1>1, <3>1, <3>2, MirrorPartsNext
    <2>3. ASSUME x # G!NoEvent, NEW t \in Rows, row' = [row EXCEPT ![t] = G!SyncedRow(p, x.content)],
                 \A d \in Rows \ {t} : row[d].pid # p
          PROVE  MirroredIn(b, p)'
      <3>1. /\ row'[t].pid = p /\ row'[t].content = x.content
            /\ \A d \in Rows \ {t} : row'[d].pid # p
        BY <1>1, <2>3, RowParts
      <3>2. x.content # 0
        <4>1. x \in G!RemoteType
          BY <1>1 DEF FetchType
        <4> QED
          BY <2>3, <4>1, EventParts, Nulls
      <3> QED
        BY <1>1, <2>0, <3>1, <3>2, MirrorPartsNext DEF Fits
    <2> QED
      BY <2>1, <2>2, <2>3, StoreRows
  <1>7. ASSUME NEW b \in Buckets, NEW q \in Pids, <<b, q>> \notin stale' /\ CopiesMirror(b, q)
        PROVE  /\ CopiesMirror(b, q)'
               /\ MirroredIn(b, q) => MirroredIn(b, q)'
               /\ \A g \in Fetchers :
                      ~pull'[g].failed /\ q \in fetch[g].todo /\ q \notin fetch'[g].todo
                          => MirroredIn(b, q)'
    <2>1. CASE q = p
      BY <1>3, <1>6, <1>7, <2>1
    <2>2. CASE q # p
      BY <1>2, <1>3, <1>5, <1>7, <2>2
    <2> QED
      BY <2>1, <2>2
  <1> HIDE DEF x
  <1> QED
    BY <1>1, <1>2, <1>7, KnownStays

LEMMA ResolveKnown ==
    ASSUME Shape, AllKnown, NEW f \in Fetchers, NEW p \in Pids, ResolveRemoved(f, p)
    PROVE  AllKnown'
  <1>1. /\ UNCHANGED <<row, remote, results, links>>
        /\ p \in pull[f].ask /\ overtaken \subseteq overtaken' /\ stale \subseteq stale'
        /\ pull' = [pull EXCEPT ![f].ask = @ \ {p}]
        /\ fetch \in [Fetchers -> FetchType] /\ pull \in [Fetchers -> PullType]
    BY DEF ResolveRemoved, uploadVars, Shape, G!BaseInv, G!TypeOK, FetchType
  <1>2. /\ pull'[f].ask = pull[f].ask \ {p} /\ pull'[f].bucket = pull[f].bucket
        /\ pull'[f].link = pull[f].link /\ pull'[f].fresh = pull[f].fresh
        /\ pull'[f].failed = pull[f].failed
        /\ \A g \in Fetchers : g # f => pull'[g] = pull[g]
    BY <1>1 DEF PullType
  <1> DEFINE now == IF remote[p] = G!NoEvent THEN G!NoEvent
                    ELSE [content |-> remote[p].content, localId |-> NoRow]
  <1>3. /\ fetch'[f].at = fetch[f].at
        /\ \A g \in Fetchers : g # f => fetch'[g] = fetch[g]
        /\ \A q \in Pids : q # p => fetch'[f].seen[q] = fetch[f].seen[q]
                                    /\ (q \in fetch'[f].todo <=> q \in fetch[f].todo)
        /\ \/ fetch'[f].seen[p] = now /\ fetch'[f].todo = fetch[f].todo
           \/ p \notin fetch'[f].todo /\ \A b \in Buckets : <<b, p>> \in stale'
    <2>1. fetch[f] \in FetchType /\ fetch[f].seen \in [Pids -> G!RemoteType]
      BY <1>1 DEF FetchType
    <2>2. CASE fetch' = [fetch EXCEPT ![f].seen[p] = now]
      <3>1. fetch'[f] = [fetch[f] EXCEPT !.seen = [fetch[f].seen EXCEPT ![p] = now]]
        BY <1>1, <2>2
      <3> HIDE DEF now
      <3>2. /\ fetch'[f].at = fetch[f].at /\ fetch'[f].todo = fetch[f].todo
            /\ fetch'[f].seen = [fetch[f].seen EXCEPT ![p] = now]
        BY <2>1, <3>1 DEF FetchType
      <3> QED
        BY <1>1, <2>1, <2>2, <3>2
    <2>3. CASE /\ fetch' = [fetch EXCEPT ![f].todo = @ \ {p}]
               /\ stale' = stale \cup (Buckets \X {p})
      BY <1>1, <2>1, <2>3 DEF FetchType
    <2> QED
      BY <2>2, <2>3 DEF ResolveRemoved
  <1>4. now.content = remote[p].content
    BY Nulls
  <1>5. \A b, c, q : Fits(b, q, c) => Fits(b, q, c)'
    BY <1>1 DEF Fits, InBucket
  <1>6. \A b, q : MirroredIn(b, q) => MirroredIn(b, q)'
    BY <1>1 DEF MirroredIn, InBucket, G!WithPid
  <1> HIDE DEF now
  <1>7. ASSUME NEW b \in Buckets, NEW q \in Pids, CopiesMirror(b, q), <<b, q>> \notin stale'
        PROVE  CopiesMirror(b, q)'
    <2>1. ASSUME NEW g \in Fetchers, Unsettled(g, q)', <<g, q>> \notin overtaken'
          PROVE  Fits(b, q, fetch[g].seen[q].content)'
      <3>1. CASE g = f /\ q = p
        BY <1>1, <1>3, <1>4, <1>7, <2>1, <3>1 DEF Unsettled, Fits
      <3>2. CASE ~(g = f /\ q = p)
        <4>1. Unsettled(g, q) /\ fetch'[g].seen[q] = fetch[g].seen[q]
          BY <1>2, <1>3, <2>1, <3>2 DEF Unsettled
        <4>2. Fits(b, q, fetch[g].seen[q].content)
          BY <1>1, <1>7, <2>1, <4>1 DEF CopiesMirror
        <4> QED
          BY <1>1, <4>1, <4>2 DEF Fits, InBucket
      <3> QED
        BY <3>1, <3>2
    <2>2. ASSUME NEW e \in DOMAIN results', results'[e].pid = q, <<"pass", q>> \notin overtaken'
          PROVE  Fits(b, q, results[e].content)'
      BY <1>1, <1>7, <2>2 DEF CopiesMirror, Fits, InBucket
    <2> QED
      BY <2>1, <2>2 DEF CopiesMirror
  <1>8. ASSUME NEW b \in Buckets, NEW q \in Pids, <<b, q>> \notin stale' /\ CopiesMirror(b, q)
        PROVE  /\ CopiesMirror(b, q)'
               /\ MirroredIn(b, q) => MirroredIn(b, q)'
               /\ \A g \in Fetchers :
                      ~pull'[g].failed /\ q \in fetch[g].todo /\ q \notin fetch'[g].todo
                          => MirroredIn(b, q)'
    BY <1>3, <1>6, <1>7, <1>8
  <1> QED
    BY <1>1, <1>2, <1>3, <1>8, KnownStays

LEMMA FailKnown ==
    ASSUME Shape, AllKnown, NEW f \in Fetchers, FetchFails(f)
    PROVE  AllKnown'
  <1>1. PICK S \in SUBSET (fetch[f].todo \ pull[f].ask) :
            /\ UNCHANGED <<row, remote, results, links, stale>>
            /\ fetch' = [fetch EXCEPT ![f].todo = S, ![f].at = "storing"]
            /\ pull' = [pull EXCEPT ![f].ask = {}, ![f].failed = TRUE]
            /\ overtaken' = {o \in overtaken : o[1] = f => o[2] \in fetch'[f].todo}
            /\ fetch \in [Fetchers -> FetchType] /\ pull \in [Fetchers -> PullType]
    BY DEF FetchFails, uploadVars, Shape, G!BaseInv, G!TypeOK, FetchType
  <1>2. /\ pull'[f].bucket = pull[f].bucket
        /\ pull'[f].link = pull[f].link /\ pull'[f].fresh = pull[f].fresh
        /\ pull'[f].failed
        /\ \A g \in Fetchers : g # f => pull'[g] = pull[g]
    <2>1. pull'[f] = [[pull[f] EXCEPT !.ask = {}] EXCEPT !.failed = TRUE] /\ pull[f] \in PullType
      BY <1>1
    <2> QED
      BY <1>1, <2>1 DEF PullType
  <1>3. /\ fetch'[f].at = "storing" /\ fetch'[f].todo = S /\ fetch'[f].seen = fetch[f].seen
        /\ \A g \in Fetchers : g # f => fetch'[g] = fetch[g]
    <2>1. fetch'[f] = [[fetch[f] EXCEPT !.todo = S] EXCEPT !.at = "storing"]
          /\ fetch[f] \in FetchType
      BY <1>1
    <2> QED
      BY <1>1, <2>1 DEF FetchType
  <1>4. \A b, q : MirroredIn(b, q) => MirroredIn(b, q)'
    BY <1>1 DEF MirroredIn, InBucket, G!WithPid
  <1>5. ASSUME NEW b \in Buckets, NEW q \in Pids, CopiesMirror(b, q)
        PROVE  CopiesMirror(b, q)'
    <2>1. \A g \in Fetchers : Unsettled(g, q)' =>
              /\ Unsettled(g, q) /\ fetch'[g].seen = fetch[g].seen
              /\ <<g, q>> \in overtaken => <<g, q>> \in overtaken'
      BY <1>1, <1>2, <1>3 DEF Unsettled
    <2>2. <<"pass", q>> \in overtaken => <<"pass", q>> \in overtaken'
      BY <1>1, OutlookAssumption
    <2> QED
      BY <1>1, <1>5, <2>1, <2>2 DEF CopiesMirror, Fits, InBucket
  <1>6. ASSUME NEW b \in Buckets, NEW q \in Pids, <<b, q>> \notin stale' /\ CopiesMirror(b, q)
        PROVE  /\ CopiesMirror(b, q)'
               /\ MirroredIn(b, q) => MirroredIn(b, q)'
               /\ \A g \in Fetchers :
                      ~pull'[g].failed /\ q \in fetch[g].todo /\ q \notin fetch'[g].todo
                          => MirroredIn(b, q)'
    BY <1>2, <1>3, <1>4, <1>5, <1>6
  <1> QED
    BY <1>1, <1>2, <1>3, <1>6, KnownStays

(* A fetch hears from the server: what others hold of the events it hears of is  *)
(* overtaken, and of those it does not hear of there is nothing to miss.        *)
LEMMA OvertakenThen ==
    ASSUME NEW f \in Fetchers, NEW Q, NEW b, overtaken' = overtaken \cup Overtaking(f, Q, b),
           NEW p \in Pids
    PROVE  /\ \A e \in DOMAIN results :
                  /\ results[e].pid = p
                  /\ p \in Q \/ (results[e].content # 0 /\ BucketOf[results[e].content] = b)
                  => <<"pass", p>> \in overtaken'
           /\ \A g \in Fetchers \ {f} :
                  /\ p \in fetch[g].todo
                  /\ p \in Q \/ (/\ fetch[g].seen[p].content # 0
                                 /\ BucketOf[fetch[g].seen[p].content] = b)
                  => <<g, p>> \in overtaken'
  <1>1. ASSUME NEW e \in DOMAIN results, results[e].pid = p,
               p \in Q \/ (results[e].content # 0 /\ BucketOf[results[e].content] = b)
        PROVE  <<"pass", p>> \in overtaken'
    <2> DEFINE m == <<"pass", results[e].pid, results[e].content>>
    <2>1. m \in Answers /\ m[1] # f /\ m[2] = p /\ m[3] = results[e].content
      BY <1>1, OutlookAssumption DEF Answers
    <2>2. <<m[1], m[2]>> \in Overtaking(f, Q, b)
      BY <1>1, <2>1 DEF Overtaking
    <2> QED
      BY <1>1, <2>2
  <1>2. ASSUME NEW g \in Fetchers \ {f}, p \in fetch[g].todo,
               p \in Q \/ (fetch[g].seen[p].content # 0 /\ BucketOf[fetch[g].seen[p].content] = b)
        PROVE  <<g, p>> \in overtaken'
    <2> DEFINE m == <<g, p, fetch[g].seen[p].content>>
    <2>1. m \in News /\ Holds(m) /\ m[1] # f
      BY <1>2 DEF News, Holds
    <2>2. <<m[1], m[2]>> \in Overtaking(f, Q, b)
      BY <1>2, <2>1 DEF Overtaking
    <2> QED
      BY <2>2
  <1> QED
    BY <1>1, <1>2

LEMMA DeltaKnown ==
    ASSUME Shape, Shape', AllKnown, NEW f \in Fetchers, FetchDelta(f)
    PROVE  AllKnown'
  <1>0. PICK b : b = pull[f].bucket
    OBVIOUS
  <1> DEFINE here == {p \in Pids : InBucket(remote[p], b)}
             reported == IF pull[f].link = NoLink THEN here ELSE pull[f].link.due
             heard == [p \in Pids |-> IF p \in reported \cap here
                                      THEN [content |-> remote[p].content, localId |-> NoRow]
                                      ELSE G!NoEvent]
  <1>1. /\ fetch \in [Fetchers -> FetchType] /\ pull \in [Fetchers -> PullType]
        /\ fetch[f].at = "idle"
        /\ UNCHANGED <<row, remote, results, links>>
    BY DEF Shape, G!BaseInv, G!TypeOK, FetchType, FetchDelta, uploadVars
  <1>2. /\ fetch' = [fetch EXCEPT ![f] = [at |-> "storing", todo |-> reported, victims |-> {},
                                          seen |-> heard]]
        /\ pull' = [pull EXCEPT ![f].ask = reported \ here]
        /\ overtaken' = overtaken \cup Overtaking(f, reported, b)
        /\ stale \subseteq stale'
        /\ pull[f].link = NoLink => \A p \in NotListed(b) : <<b, p>> \in stale'
    BY <1>0 DEF FetchDelta
  <1>3. b \in Buckets
    BY <1>0, LinkParts DEF Shape, PullShape, FetchDelta, Fetching
  <1>4. \A p \in reported \cap here : heard[p].content = remote[p].content
    OBVIOUS
  <1>5. pull[f].link # NoLink => pull[f].link.state = "valid"
    BY <1>1, LinkParts DEF Shape, PullShape, PullType, FetchDelta
  <1>6. /\ pull[f].link = NoLink => \A p \in Pids \ reported : ~InBucket(remote[p], b)
        /\ pull[f].link # NoLink => reported = pull[f].link.due
    OBVIOUS
  <1> HIDE DEF heard, reported, here
  <1>7. /\ fetch'[f].at = "storing" /\ fetch'[f].todo = reported /\ fetch'[f].seen = heard
        /\ \A g \in Fetchers : g # f => fetch'[g] = fetch[g] /\ pull'[g] = pull[g]
        /\ pull'[f].ask = reported \ here /\ pull'[f].bucket = b
        /\ pull'[f].link = pull[f].link /\ pull'[f].failed = pull[f].failed
    <2>1. pull'[f] = [pull[f] EXCEPT !.ask = reported \ here] /\ pull[f] \in PullType
      BY <1>1, <1>2
    <2> QED
      BY <1>0, <1>1, <1>2, <2>1 DEF PullType
  <1>8. ASSUME NEW p \in Pids, Unsettled(f, p)', NEW c
        PROVE  Fits(c, p, fetch[f].seen[p].content)'
    BY <1>1, <1>4, <1>7, <1>8 DEF Unsettled, Fits
  <1>9. ASSUME NEW c, NEW p \in Pids, CopiesMirror(c, p) PROVE CopiesMirror(c, p)'
    <2>1. ASSUME NEW g \in Fetchers, Unsettled(g, p)', <<g, p>> \notin overtaken'
          PROVE  Fits(c, p, fetch[g].seen[p].content)'
      <3>1. CASE g = f
        BY <1>8, <2>1, <3>1
      <3>2. CASE g # f
        BY <1>1, <1>2, <1>7, <1>9, <2>1, <3>2 DEF CopiesMirror, Unsettled, Fits, InBucket
      <3> QED
        BY <3>1, <3>2
    <2> QED
      BY <1>1, <1>2, <1>9, <2>1 DEF CopiesMirror, Fits, InBucket
  <1>10. \A c, p : MirroredIn(c, p) => MirroredIn(c, p)'
    BY <1>1 DEF MirroredIn, InBucket, G!WithPid
  <1>11. ASSUME NEW c \in Buckets PROVE LinkKnown(c)'
    BY <1>1, <1>2, <1>9, <1>10 DEF AllKnown, LinkKnown, Settled
  <1>12. ASSUME NEW p \in Pids PROVE OnTheWay(f, b, p)'
    <2>1. ASSUME p \in reported \/ (~InBucket(remote[p], b) /\ p \notin reported)
          PROVE  CopiesMirror(b, p)'
      <3>1. ASSUME NEW c, c # 0 /\ BucketOf[c] = b => p \in reported,
                   ~(p \in reported \/ (c # 0 /\ BucketOf[c] = b))
            PROVE  Fits(b, p, c)'
        BY <1>1, <2>1, <3>1 DEF Fits, InBucket
      <3>2. ASSUME NEW g \in Fetchers, Unsettled(g, p)', <<g, p>> \notin overtaken'
            PROVE  Fits(b, p, fetch[g].seen[p].content)'
        <4>1. CASE g = f
          BY <1>8, <3>2, <4>1
        <4>2. CASE g # f
          <5>1. p \in fetch[g].todo /\ fetch'[g] = fetch[g]
            BY <1>7, <3>2, <4>2 DEF Unsettled
          <5>2. ~(p \in reported \/ (/\ fetch[g].seen[p].content # 0
                                     /\ BucketOf[fetch[g].seen[p].content] = b))
            BY <1>2, <3>2, <4>2, <5>1, OvertakenThen
          <5> QED
            BY <3>1, <5>1, <5>2 DEF Fits, InBucket
        <4> QED
          BY <4>1, <4>2
      <3>3. ASSUME NEW e \in DOMAIN results, results[e].pid = p, <<"pass", p>> \notin overtaken'
            PROVE  Fits(b, p, results[e].content)'
        <4>1. ~(p \in reported \/ (results[e].content # 0 /\ BucketOf[results[e].content] = b))
          BY <1>2, <3>3, OvertakenThen
        <4> QED
          BY <1>1, <3>1, <4>1 DEF Fits, InBucket
      <3> QED
        BY <1>1, <3>2, <3>3 DEF CopiesMirror, Fits, InBucket
    <2>2. CASE p \in reported
      BY <1>7, <2>1, <2>2 DEF OnTheWay
    <2>3. CASE p \notin reported /\ pull[f].link = NoLink
      <3>1. ~InBucket(remote[p], b)
        BY <1>6, <2>3
      <3>2. CASE p \in NotListed(b)
        BY <1>2, <2>3, <3>2 DEF OnTheWay
      <3>3. CASE p \notin NotListed(b)
        <4>1. MirroredIn(b, p)
          BY <3>1, <3>3 DEF MirroredIn, NotListed
        <4> QED
          BY <1>10, <2>1, <2>3, <3>1, <4>1 DEF OnTheWay
      <3> QED
        BY <3>2, <3>3
    <2>4. CASE p \notin reported /\ pull[f].link # NoLink
      <3>1. Settled(b, p)
        BY <1>0, <1>1, <1>5, <1>6, <2>4 DEF AllKnown, PullKnown
      <3> QED
        BY <1>2, <1>3, <1>9, <1>10, <3>1 DEF Settled, OnTheWay
    <2> QED
      BY <2>2, <2>3, <2>4
  <1>13. PullKnown(f)'
    BY <1>7, <1>12 DEF PullKnown, OnTheWay, MirroredIn, CopiesMirror, Fits, InBucket
  <1>14. ASSUME NEW g \in Fetchers, g # f PROVE PullKnown(g)'
    <2>1. PullKnown(g) /\ fetch'[g] = fetch[g] /\ pull'[g] = pull[g]
      BY <1>7, <1>14 DEF AllKnown
    <2>2. PICK c : c = pull[g].bucket
      OBVIOUS
    <2>3. ASSUME NEW p \in Pids
          PROVE  /\ Settled(c, p) => Settled(c, p)'
                 /\ OnTheWay(g, c, p) => OnTheWay(g, c, p)'
      BY <1>2, <1>9, <1>10, <2>1 DEF Settled, OnTheWay
    <2>4. ASSUME NEW p \in Pids
          PROVE  /\ Settled(c, p)' <=> Settled(pull[g].bucket, p)'
                 /\ OnTheWay(g, c, p)' <=> OnTheWay(g, pull[g].bucket, p)'
      BY <2>1, <2>2 DEF Settled, OnTheWay, MirroredIn, CopiesMirror, Fits, InBucket
    <2>5. ASSUME fetch'[g].at = "idle", pull'[g].link.state = "valid",
                 NEW p \in Pids, p \notin pull'[g].link.due
          PROVE  Settled(pull[g].bucket, p)'
      BY <2>1, <2>2, <2>3, <2>4, <2>5 DEF PullKnown
    <2>6. ASSUME fetch'[g].at = "storing", ~pull'[g].failed,
                 NEW p \in Pids, p \notin pull'[g].fresh
          PROVE  OnTheWay(g, pull[g].bucket, p)'
      BY <2>1, <2>2, <2>3, <2>4, <2>6 DEF PullKnown
    <2> QED
      BY <2>5, <2>6 DEF PullKnown
  <1> QED
    BY <1>11, <1>13, <1>14 DEF AllKnown

(* The end of a fetch.  Everything it heard is stored, so what was on its way is  *)
(* settled for the link it keeps.                                            *)
LEMMA DoneKnown ==
    ASSUME Shape, Shape', AllKnown, NEW f \in Fetchers, UpsertRange(f) \/ GiveUp(f)
    PROVE  AllKnown'
  <1>1. /\ fetch \in [Fetchers -> FetchType] /\ pull \in [Fetchers -> PullType]
        /\ fetch[f].at = "storing" /\ fetch[f].todo = {}
        /\ fetch' = [fetch EXCEPT ![f] = G!NoFetch] /\ pull' = [pull EXCEPT ![f] = NoPull]
        /\ UNCHANGED <<row, remote, results, overtaken, stale>>
    BY DEF Shape, G!BaseInv, G!TypeOK, FetchType, UpsertRange, GiveUp, BucketDone, uploadVars
  <1>2. /\ fetch'[f].at = "idle" /\ fetch'[f].todo = {} /\ pull'[f].link.state = "none"
        /\ \A g \in Fetchers : g # f => fetch'[g] = fetch[g] /\ pull'[g] = pull[g]
    BY <1>1, LinkParts DEF G!NoFetch
  <1>3. ASSUME NEW c, NEW p \in Pids, CopiesMirror(c, p) PROVE CopiesMirror(c, p)'
    BY <1>1, <1>2, <1>3 DEF CopiesMirror, Unsettled, Fits, InBucket
  <1>4. \A c, p : MirroredIn(c, p) => MirroredIn(c, p)'
    BY <1>1 DEF MirroredIn, InBucket, G!WithPid
  <1>5. ASSUME NEW c, NEW p \in Pids, Settled(c, p) PROVE Settled(c, p)'
    BY <1>1, <1>3, <1>4, <1>5 DEF Settled
  <1>6. ASSUME NEW c \in Buckets PROVE LinkKnown(c)'
    <2>1. CASE UpsertRange(f) /\ c = pull[f].bucket
      <3>1. ~pull[f].failed /\ links' = [links EXCEPT ![c] = Valid(pull[f].fresh)]
        BY <2>1 DEF UpsertRange
      <3>2. links'[c].due = pull[f].fresh
        <4>1. pull[f].fresh \in SUBSET Pids
          BY <1>1 DEF PullType
        <4>2. links'[c] = Valid(pull[f].fresh)
          BY <3>1 DEF Shape
        <4> QED
          BY <4>1, <4>2, LinkParts
      <3>3. ASSUME NEW p \in Pids, p \notin pull[f].fresh PROVE Settled(c, p)
        <4>1. OnTheWay(f, c, p)
          BY <1>1, <2>1, <3>1, <3>3 DEF AllKnown, PullKnown
        <4> QED
          BY <1>1, <4>1 DEF OnTheWay, Settled
      <3> QED
        BY <1>5, <3>2, <3>3 DEF LinkKnown
    <2>2. CASE ~(UpsertRange(f) /\ c = pull[f].bucket)
      <3>1. links'[c] = links[c]
        BY <2>2 DEF UpsertRange, GiveUp, Shape
      <3> QED
        BY <1>5, <3>1 DEF AllKnown, LinkKnown
    <2> QED
      BY <2>1, <2>2
  <1>7. ASSUME NEW g \in Fetchers, g # f PROVE PullKnown(g)'
    <2>1. PullKnown(g) /\ fetch'[g] = fetch[g] /\ pull'[g] = pull[g]
      BY <1>2, <1>7 DEF AllKnown
    <2>2. PICK c : c = pull[g].bucket
      OBVIOUS
    <2>3. ASSUME NEW p \in Pids
          PROVE  OnTheWay(g, c, p) => OnTheWay(g, c, p)'
      BY <1>1, <1>3, <1>4, <2>1 DEF OnTheWay
    <2>4. ASSUME NEW p \in Pids
          PROVE  /\ Settled(c, p)' <=> Settled(pull[g].bucket, p)'
                 /\ OnTheWay(g, c, p)' <=> OnTheWay(g, pull[g].bucket, p)'
      BY <2>1, <2>2 DEF Settled, OnTheWay, MirroredIn, CopiesMirror, Fits, InBucket
    <2>5. ASSUME fetch'[g].at = "idle", pull'[g].link.state = "valid",
                 NEW p \in Pids, p \notin pull'[g].link.due
          PROVE  Settled(pull[g].bucket, p)'
      BY <1>5, <2>1, <2>2, <2>4, <2>5 DEF PullKnown
    <2>6. ASSUME fetch'[g].at = "storing", ~pull'[g].failed,
                 NEW p \in Pids, p \notin pull'[g].fresh
          PROVE  OnTheWay(g, pull[g].bucket, p)'
      BY <2>1, <2>2, <2>3, <2>4, <2>6 DEF PullKnown
    <2> QED
      BY <2>5, <2>6 DEF PullKnown
  <1>8. PullKnown(f)'
    BY <1>2 DEF PullKnown
  <1> QED
    BY <1>6, <1>7, <1>8 DEF AllKnown

LEMMA InitKnown == Init => AllKnown
  BY LinkParts DEF Init, G!Init, G!NoFetch, AllKnown, LinkKnown, PullKnown

LEMMA StepKnown == Shape /\ IdsHold /\ AllKnown /\ [Next]_vars => AllKnown'
  <1> SUFFICES ASSUME Shape, IdsHold, AllKnown, [Next]_vars PROVE AllKnown'
    OBVIOUS
  <1>1. Shape'
    BY StepShape
  <1>2. CASE UNCHANGED vars
    <2>1. UNCHANGED <<row, remote, results, fetch, links, pull, overtaken, stale>>
      BY <1>2 DEF vars, uploadVars, outlookVars
    <2>2. ASSUME NEW c, NEW p \in Pids, CopiesMirror(c, p) PROVE CopiesMirror(c, p)'
      BY <2>1, <2>2 DEF CopiesMirror, Unsettled, Fits, InBucket
    <2>3. \A c, p : MirroredIn(c, p) => MirroredIn(c, p)'
      BY <2>1 DEF MirroredIn, InBucket, G!WithPid
    <2> QED
      BY <2>1, <2>2, <2>3, KnownStays
  <1>3. ASSUME NEW f \in Fetchers, FetchNext(f) PROVE AllKnown'
    BY <1>1, <1>3, DeltaKnown, ResolveKnown, StoreKnown, FailKnown, DoneKnown DEF FetchNext
  <1> QED
    BY <1>1, <1>2, <1>3, UserKnown, UploadKnown, RemoteKnown, RangeKnown DEF Next

(* What a stored link leaves unreported is in the table, or a thread holds it     *)
(* and will write it; both are what the server has, but for the noted cases.    *)
THEOREM KnownInductive == Spec => [](Shape /\ IdsHold /\ AllKnown)
  <1>1. Init => Shape /\ IdsHold /\ AllKnown
    BY InitShape, InitIds, InitKnown
  <1>2. Shape /\ IdsHold /\ AllKnown /\ [Next]_vars => (Shape /\ IdsHold /\ AllKnown)'
    BY StepShape, StepIds, StepKnown
  <1> QED
    BY <1>1, <1>2, PTL DEF Spec

(* A valid delta link reports every event whose row is not what the server has:    *)
(* answers of passes and of other buckets, stored in any order, never leave a    *)
(* difference that no later answer repairs, but for the cases noted in stale.    *)
THEOREM MirroredHolds == Spec => []Mirrored
  <1>1. AllKnown => Mirrored
    BY DEF AllKnown, LinkKnown, Settled, Mirrored
  <1> QED
    BY <1>1, KnownInductive, PTL

-----------------------------------------------------------------------------
(* EditKept.  A change that was not exposed when it was saved, to a row that has   *)
(* its event for itself, is out of reach of everything that writes rows.        *)

Firm == G!Firm \ doubled

(* No event that a request for row e made belongs to another row. *)
NamesNoOther(e, p) == \A q \in Pids : remote[q].localId = e => q = p

(* A row that is being inserted is what was read. *)
AsRead(e) ==
    e \in DOMAIN pending /\ pending[e].syncStatus = "PENDING_INSERT" => row[e] = pending[e]

(* The write that a check has allowed goes elsewhere. *)
NotWritten(e, p) ==
    uploader = "writing" => checked # e /\ (p = NoPid \/ results[checked].pid # p)

(* No other row waits for the id of the row's event, or may wait for it again.    *)
OnlyRow(e, p) ==
    p # NoPid => \A d \in Rows \ {e} :
        /\ remote[p].localId = d => ~G!Live(d) /\ d \notin DOMAIN pending /\ d \notin ForeignRows
        /\ d \in DOMAIN results /\ pending[d].syncStatus = "PENDING_INSERT" => results[d].pid # p

NotAnswered(o) == o[1] \in DOMAIN results => G!Owing(o[1], pending[o[1]]) # o

OutOfReach(o) ==
    /\ NamesNoOther(o[1], row[o[1]].pid)
    /\ AsRead(o[1])
    /\ NotWritten(o[1], row[o[1]].pid)
    /\ OnlyRow(o[1], row[o[1]].pid)
    /\ NotAnswered(o)

FirmHolds ==
    /\ \A o \in owed : o[2] <= clock
    /\ \A o \in Firm : G!Kept(o) /\ OutOfReach(o)

LEMMA InitFirm == Init => FirmHolds
  BY DEF Init, G!Init, FirmHolds, Firm, G!Firm

(* The row of such a change. *)
LEMMA FirmParts ==
    ASSUME Shape, IdsHold, FirmHolds, NEW o \in Firm
    PROVE  /\ o[1] \in Rows /\ o[1] \notin ForeignRows /\ o[1] # NoRow
           /\ G!Live(o[1]) /\ row[o[1]] \in G!RowType
           /\ row[o[1]].syncStatus # "SYNCED" /\ o = G!Owing(o[1], row[o[1]])
           /\ row[o[1]].pid \in Pids \cup {NoPid}
           /\ row[o[1]].pid # NoPid => /\ row[o[1]].pid \in Pids
                                       /\ G!Used(row[o[1]].pid)
                                       /\ G!LocallyChanged(row[o[1]].pid)
           /\ row[o[1]].syncStatus = "PENDING_INSERT" => row[o[1]].pid = NoPid
           /\ OutOfReach(o)
  <1>1. o \in owed /\ o[1] \in Rows /\ o[1] \notin ForeignRows /\ G!Kept(o) /\ OutOfReach(o)
    BY DEF Firm, G!Firm, FirmHolds, Shape, G!BaseInv, G!TypeOK
  <1>2. /\ G!Live(o[1]) /\ row[o[1]] \in G!RowType
        /\ row[o[1]].syncStatus # "SYNCED" /\ o = G!Owing(o[1], row[o[1]])
    BY <1>1, LiveParts DEF Shape, G!Kept, G!Live
  <1>3. G!InUse(row[o[1]]) /\ row[o[1]].pid \in Pids \cup {NoPid}
    BY <1>1, <1>2, RowParts DEF IdsHold, AllInUse
  <1>4. row[o[1]].pid # NoPid => G!LocallyChanged(row[o[1]].pid)
    BY <1>1, <1>2 DEF G!LocallyChanged, G!WithPid
  <1> QED
    BY <1>1, <1>2, <1>3, <1>4, Nulls DEF G!InUse

(* Rows are written elsewhere: what no step of the server or a pass disturbs.      *)
LEMMA FirmStays ==
    ASSUME Shape, IdsHold, FirmHolds, NEW o \in Firm,
           row'[o[1]] = row[o[1]],
           \A d \in Rows : G!Live(d)' => G!Live(d) \/ G!Unused(d),
           UNCHANGED <<remote, pending>>,
           \/ UNCHANGED <<uploader, checked, results>>
           \/ /\ uploader' # "writing" /\ DOMAIN results' \subseteq DOMAIN results
              /\ \A d \in DOMAIN results' : results'[d] = results[d]
    PROVE  G!Kept(o)' /\ OutOfReach(o)'
  <1> DEFINE e == o[1]
             p == row[o[1]].pid
  <1>1. /\ e \in Rows /\ G!Kept(o) /\ OutOfReach(o) /\ row'[e].pid = p
        /\ p \in Pids \cup {NoPid}
    BY FirmParts DEF FirmHolds
  <1>2. G!Kept(o)'
    BY <1>1 DEF G!Kept, G!Owing
  <1>3. NamesNoOther(e, p)' /\ AsRead(e)' /\ NotWritten(e, p)' /\ NotAnswered(o)'
    BY <1>1 DEF OutOfReach, NamesNoOther, AsRead, NotWritten, NotAnswered, G!Owing
  <1>4. OnlyRow(e, p)'
    <2>1. ASSUME p # NoPid, NEW d \in Rows \ {e}, remote[p].localId = d
          PROVE  ~G!Live(d)' /\ d \notin DOMAIN pending /\ d \notin ForeignRows
      <3>1. ~G!Live(d) /\ d \notin DOMAIN pending /\ d \notin ForeignRows
        BY <1>1, <2>1 DEF OutOfReach, OnlyRow
      <3>2. ~G!Unused(d)
        BY <1>1, <2>1, <3>1 DEF G!Unused
      <3> QED
        BY <3>1, <3>2
    <2>2. ASSUME p # NoPid, NEW d \in Rows \ {e}, d \in DOMAIN results',
                 pending[d].syncStatus = "PENDING_INSERT"
          PROVE  results'[d].pid # p
      BY <1>1, <2>2 DEF OutOfReach, OnlyRow
    <2> QED
      BY <2>1, <2>2 DEF OnlyRow, G!Live
  <1> QED
    BY <1>1, <1>2, <1>3, <1>4
    DEF OutOfReach, NamesNoOther, AsRead, NotWritten, OnlyRow, G!Live

(* The user writes rows S.  What is still firm then was so before, in another row, *)
(* or is the new change of a row that is out of reach.                         *)
LEMMA WritesFirm ==
    ASSUME Shape, IdsHold, FirmHolds, NEW S \in SUBSET Rows, NEW new,
           DOMAIN new = S, G!UserWrites(new), UserWrites,
           UNCHANGED <<remote, uploadVars>>,
           \A e \in S :
               /\ new[e] # G!Gone /\ new[e].syncStatus # "SYNCED"
               /\ new[e].pid \in Pids \cup {NoPid}
               /\ G!Owing(e, new[e])[2] = clock + 1
               /\ G!Live(e) \/ G!Unused(e)
    PROVE  FirmHolds'
  <1>1. /\ clock \in Nat /\ clock' = clock + 1
        /\ \A e \in Rows : row'[e] = IF e \in S THEN new[e] ELSE row[e]
        /\ owed' = (owed \ G!OfRows(S)) \cup {G!Owing(e, new[e]) : e \in S}
        /\ \A e \in S : G!Exposed(e, new[e].pid) => G!Owing(e, new[e]) \in exposed'
        /\ exposed \ G!OfRows(S) \subseteq exposed'
        /\ \A o \in owed' : o \in doubled \/ (o \notin owed /\ SecondRow(o[1])) => o \in doubled'
        /\ UNCHANGED <<remote, uploader, pending, results, checked>>
    BY OutlookAssumption
    DEF G!UserWrites, UserWrites, uploadVars, Shape, G!BaseInv, G!TypeOK, G!EventSyncAssumption
  <1>2. \A e, r : G!Owing(e, r)[1] = e
    BY DEF G!Owing
  <1>3. \A o \in owed' : o[2] <= clock'
    <2>1. \A o \in owed : o[2] \in Nat /\ o[2] <= clock
      BY OutlookAssumption
      DEF FirmHolds, Shape, G!BaseInv, G!TypeOK, G!Stamps, G!EventSyncAssumption
    <2> QED
      BY <1>1, <2>1
  <1>4. ASSUME NEW o \in Firm, o[1] \notin S PROVE G!Kept(o)' /\ OutOfReach(o)'
    <2>1. row'[o[1]] = row[o[1]]
      BY <1>1, <1>4, FirmParts
    <2>2. \A d \in Rows : G!Live(d)' => G!Live(d) \/ G!Unused(d)
      BY <1>1 DEF G!Live
    <2> QED
      BY <1>1, <2>1, <2>2, FirmStays
  <1>5. ASSUME NEW e \in S, ~G!Exposed(e, new[e].pid), ~SecondRow(e),
               NEW o, o = G!Owing(e, new[e])
        PROVE  G!Kept(o)' /\ OutOfReach(o)'
    <2> DEFINE p == new[e].pid
    <2>1. e \in Rows /\ row'[e] = new[e] /\ o[1] = e
      BY <1>1, <1>2, <1>5
    <2>2. G!Kept(o)'
      BY <1>5, <2>1 DEF G!Kept, G!Owing
    <2>3. NamesNoOther(e, p)' /\ AsRead(e)' /\ NotWritten(e, p)'
      BY <1>1, <1>5 DEF G!Exposed, NamesNoOther, AsRead, NotWritten
    <2>4. OnlyRow(e, p)'
      <3>1. ASSUME p # NoPid, NEW d \in Rows \ {e}, remote[p].localId = d
            PROVE  ~G!Live(d)' /\ d \notin DOMAIN pending /\ d \notin ForeignRows
        <4>1. ~G!Live(d) /\ d \notin DOMAIN pending /\ d \notin ForeignRows
          BY <1>5, <2>1, <3>1 DEF SecondRow
        <4>2. d \notin S
          <5>1. p \in Pids
            BY <3>1
          <5> QED
            BY <3>1, <4>1, <5>1 DEF G!Unused
        <4> QED
          BY <1>1, <4>1, <4>2 DEF G!Live
      <3>2. ASSUME p # NoPid, NEW d \in Rows \ {e}, d \in DOMAIN results PROVE results[d].pid # p
        BY <1>5, <2>1, <3>2 DEF SecondRow
      <3> QED
        BY <1>1, <3>1, <3>2 DEF OnlyRow, G!Live
    <2>5. NotAnswered(o)'
      <3>1. ASSUME e \in DOMAIN results PROVE G!Owing(e, pending[e]) # o
        <4>1. G!InUse(pending[e]) /\ pending[e] \in G!RowType
          BY <3>1, AnswerParts
        <4>2. G!Owing(e, pending[e])[2] <= clock
          BY <4>1 DEF G!InUse, G!Owing
        <4> QED
          BY <1>1, <1>5, <4>2
      <3> QED
        BY <1>1, <2>1, <3>1 DEF NotAnswered, G!Owing
    <2> QED
      BY <2>1, <2>2, <2>3, <2>4, <2>5
      DEF OutOfReach, NamesNoOther, AsRead, NotWritten, OnlyRow, G!Live
  <1>6. ASSUME NEW o \in Firm' PROVE G!Kept(o)' /\ OutOfReach(o)'
    <2>1. /\ o \in owed' /\ o \notin exposed' /\ o \notin doubled' /\ o[1] \notin ForeignRows
      BY DEF Firm, G!Firm
    <2>2. CASE o \in owed \ G!OfRows(S)
      <3>1. o \in Firm /\ o[1] \notin S
        BY <1>1, <2>1, <2>2 DEF Firm, G!Firm, G!OfRows
      <3> QED
        BY <1>4, <3>1
    <2>3. ASSUME NEW e \in S, o = G!Owing(e, new[e]) PROVE G!Kept(o)' /\ OutOfReach(o)'
      <3>1. o \notin owed
        BY <1>1, <2>3 DEF FirmHolds
      <3>2. ~G!Exposed(e, new[e].pid) /\ ~SecondRow(e)
        BY <1>1, <1>2, <2>1, <2>3, <3>1
      <3> QED
        BY <1>5, <2>3, <3>2
    <2> QED
      BY <1>1, <2>1, <2>2, <2>3
  <1> QED
    BY <1>3, <1>6 DEF FirmHolds

LEMMA UserFirm == Shape /\ IdsHold /\ FirmHolds /\ UserNext => FirmHolds'
  <1> SUFFICES ASSUME Shape, IdsHold, FirmHolds, UserNext PROVE FirmHolds'
    OBVIOUS
  <1>1. /\ clock \in Nat /\ clock + 1 # 0 /\ UserWrites /\ G!BaseInv
        /\ UNCHANGED <<remote, uploadVars>>
        /\ ui.snap \in G!RowType \cup {G!Gone}
    BY OutlookAssumption, Nulls
    DEF UserNext, WriteBack, G!CreateEvent, G!OpenEventDialog, G!ReadForDelete,
        G!CloseEventDialog, G!SaveEvent, G!DeleteEvent, G!SoftDelete,
        G!SoftDeleteAllByCalendar, uploadVars, G!uploadVars, Shape, G!BaseInv, G!TypeOK,
        G!EventSyncAssumption
  <1>2. ASSUME NEW t \in Rows, G!Live(t) \/ G!Unused(t), NEW r,
               r.pid \in Pids \cup {NoPid}, r.content = clock + 1,
               r.syncStatus \in {"PENDING_INSERT", "PENDING_UPDATE"},
               G!UserWrites([d \in {t} |-> r])
        PROVE  FirmHolds'
    <2> DEFINE new == [d \in {t} |-> r]
    <2>1. /\ r # G!Gone /\ r.syncStatus # "SYNCED" /\ G!Owing(t, r)[2] = clock + 1
      BY <1>1, <1>2, Nulls DEF G!Owing
    <2>2. DOMAIN new = {t} /\ \A e \in {t} : new[e] = r
      OBVIOUS
    <2> HIDE DEF new
    <2>3. G!UserWrites(new)
      BY <1>2 DEF new
    <2> QED
      BY <1>1, <1>2, <2>1, <2>2, <2>3, WritesFirm
  <1>3. CASE G!CreateEvent
    <2>1. PICK t \in G!NewRow :
              G!UserWrites([d \in {t} |-> [pid |-> NoPid, content |-> clock + 1,
                                           deletedAt |-> 0, syncStatus |-> "PENDING_INSERT"]])
      BY <1>3 DEF G!CreateEvent
    <2> QED
      BY <1>2, <2>1 DEF G!NewRow
  <1>4. CASE G!SaveEvent
    <2> DEFINE r == [ui.snap EXCEPT !.content = clock + 1,
                               !.deletedAt = 0,
                               !.syncStatus = IF ui.snap.pid = NoPid THEN "PENDING_INSERT"
                                                                     ELSE "PENDING_UPDATE"]
    <2>1. PICK t \in G!UpsertTargets(ui.id, ui.snap.pid) : G!UserWrites([d \in {t} |-> r])
      BY <1>4 DEF G!SaveEvent
    <2>2. ui.snap \in G!RowType
      BY <1>1, <1>4, Nulls DEF G!SaveEvent, G!BaseInv, G!TypeOK
    <2>3. /\ r.pid \in Pids \cup {NoPid} /\ r.content = clock + 1
          /\ r.syncStatus \in {"PENDING_INSERT", "PENDING_UPDATE"}
      BY <2>2 DEF G!RowType
    <2>4. t \in Rows /\ (G!Live(t) \/ G!Unused(t))
      <3>1. CASE t = ui.id /\ G!Live(ui.id)
        BY <3>1 DEF G!Live
      <3>2. CASE t \in G!WithPid(ui.snap.pid)
        BY <1>1, <3>2, LiveParts DEF G!WithPid
      <3>3. CASE t \in G!NewRow
        BY <3>3 DEF G!NewRow
      <3> QED
        BY <2>1, <3>1, <3>2, <3>3 DEF G!UpsertTargets
    <2> HIDE DEF r
    <2> QED
      BY <1>2, <2>1, <2>3, <2>4
  <1>5. ASSUME NEW S \in SUBSET Rows, \A d \in S : G!Live(d), G!UserWrites(G!Marked(S))
        PROVE  FirmHolds'
    <2>1. ASSUME NEW e \in S
          PROVE  /\ G!Marked(S)[e] # G!Gone /\ G!Marked(S)[e].syncStatus # "SYNCED"
                 /\ G!Marked(S)[e].pid \in Pids \cup {NoPid}
                 /\ G!Owing(e, G!Marked(S)[e])[2] = clock + 1
      <3>1. row[e] \in G!RowType
        BY <1>1, <1>5, LiveParts
      <3>2. G!Marked(S)[e] = [row[e] EXCEPT !.deletedAt = clock + 1, !.syncStatus = "PENDING_DELETE"]
        BY DEF G!Marked
      <3>3. /\ G!Marked(S)[e].pid = row[e].pid /\ G!Marked(S)[e].syncStatus = "PENDING_DELETE"
            /\ G!Marked(S)[e].deletedAt = clock + 1
        BY <3>1, <3>2 DEF G!RowType
      <3> QED
        BY <1>1, <3>1, <3>3, Nulls, RowParts DEF G!Owing
    <2>2. DOMAIN G!Marked(S) = S
      BY DEF G!Marked
    <2> QED
      BY <1>1, <1>5, <2>1, <2>2, WritesFirm
  <1>6. CASE G!SoftDelete
    BY <1>5, <1>6 DEF G!SoftDelete, G!Live
  <1>7. CASE G!SoftDeleteAllByCalendar
    BY <1>5, <1>7 DEF G!SoftDeleteAllByCalendar
  <1>8. ASSUME owed' \subseteq owed, clock' = clock,
               \A o \in Firm' : o \in Firm /\ row'[o[1]] = row[o[1]],
               \A d \in Rows : G!Live(d)' => G!Live(d)
        PROVE  FirmHolds'
    <2>1. ASSUME NEW o \in Firm' PROVE G!Kept(o)' /\ OutOfReach(o)'
      <3>1. o \in Firm /\ row'[o[1]] = row[o[1]]
        BY <1>8
      <3> QED
        BY <1>1, <1>8, <3>1, FirmStays DEF uploadVars
    <2> QED
      BY <1>8, <2>1 DEF FirmHolds
  <1>9. CASE G!DeleteEvent
    <2>1. /\ owed' = owed \ G!OfRows({ui.id}) /\ exposed' = exposed \ G!OfRows({ui.id})
          /\ row' = [row EXCEPT ![ui.id] = G!Gone] /\ clock' = clock
          /\ doubled \cap owed' \subseteq doubled'
      BY <1>1, <1>9 DEF G!DeleteEvent, UserWrites
    <2>2. \A o \in Firm' : o \in Firm /\ o[1] # ui.id
      BY <2>1 DEF Firm, G!Firm, G!OfRows
    <2>3. row \in [Rows -> G!RowType \cup {G!Gone}]
      BY <1>1 DEF G!BaseInv, G!TypeOK
    <2>4. \A o \in Firm' : row'[o[1]] = row[o[1]]
      BY <2>1, <2>2, <2>3, FirmParts
    <2>5. \A d \in Rows : G!Live(d)' => G!Live(d)
      BY <2>1, <2>3 DEF G!Live
    <2> QED
      BY <1>8, <2>1, <2>2, <2>4, <2>5
  <1>10. CASE \/ \E e \in Rows : G!OpenEventDialog(e) \/ G!ReadForDelete(e)
              \/ G!CloseEventDialog
    <2>1. UNCHANGED <<row, clock, owed, exposed>> /\ doubled \cap owed' \subseteq doubled'
      BY <1>1, <1>10
      DEF G!OpenEventDialog, G!ReadForDelete, G!CloseEventDialog, G!historyVars, UserWrites
    <2> QED
      BY <1>8, <2>1 DEF Firm, G!Firm, G!Live
  <1> QED
    BY <1>3, <1>4, <1>6, <1>7, <1>9, <1>10 DEF UserNext, WriteBack

(* The server accepts a request: what it delivered is owed no more, and an event   *)
(* it made belongs to no row yet.                                            *)
LEMMA AcceptsFirm ==
    ASSUME Shape, IdsHold, FirmHolds, NEW c \in Rows, NEW n \in Pids, G!Accepts(c, n),
           UNCHANGED doubled,
           \/ results' = results
           \/ results' = [d \in DOMAIN results \cup {c} |->
                             IF d = c THEN G!Answer(c, n) ELSE results[d]]
    PROVE  FirmHolds'
  <1>1. /\ owed' = owed \ {G!Owing(c, pending[c])}
        /\ exposed' = exposed \ {G!Owing(c, pending[c])}
        /\ uploader = "sending"
    BY DEF G!Accepts
  <1>2. /\ c \in DOMAIN pending
        /\ UNCHANGED <<row, clock, uploader, pending, checked>>
        /\ \A q \in Pids : q # n => remote'[q] = remote[q]
        /\ pending[c].syncStatus = "PENDING_INSERT" => ~G!Used(n) /\ remote'[n].localId = c
        /\ pending[c].syncStatus # "PENDING_INSERT" =>
               remote'[n] = G!NoEvent \/ remote'[n].localId = remote[n].localId
    BY AppliedIds
  <1>3. ASSUME NEW o \in Firm'
        PROVE  o \in Firm /\ o # G!Owing(c, pending[c])
    BY <1>1 DEF Firm, G!Firm
  <1>4. ASSUME NEW o \in Firm, o # G!Owing(c, pending[c]) PROVE G!Kept(o)' /\ OutOfReach(o)'
    <2> DEFINE e == o[1]
               p == row[o[1]].pid
    <2>1. /\ e \in Rows /\ G!Kept(o) /\ OutOfReach(o) /\ e # NoRow
          /\ o = G!Owing(e, row[e]) /\ (p # NoPid => G!Used(p) /\ p \in Pids)
      BY FirmParts DEF FirmHolds
    <2>2. ~(c = e /\ pending[c].syncStatus = "PENDING_INSERT")
      BY <1>2, <1>4, <2>1 DEF OutOfReach, AsRead
    <2>3. \A q \in Pids :
              \/ remote'[q].localId = remote[q].localId
              \/ remote'[q].localId = NoRow
              \/ q = n /\ remote'[q].localId = c /\ ~G!Used(n)
                 /\ pending[c].syncStatus = "PENDING_INSERT"
      BY <1>2, Nulls
    <2>4. NamesNoOther(e, p)'
      BY <1>2, <2>1, <2>2, <2>3 DEF OutOfReach, NamesNoOther
    <2>5. OnlyRow(e, p)'
      <3>1. ASSUME p # NoPid, NEW d \in Rows \ {e}, remote'[p].localId = d
            PROVE  ~G!Live(d) /\ d \notin DOMAIN pending /\ d \notin ForeignRows
        <4>1. remote[p].localId = d
          BY <2>1, <2>3, <3>1, Nulls
        <4> QED
          BY <2>1, <3>1, <4>1 DEF OutOfReach, OnlyRow
      <3>2. ASSUME p # NoPid, NEW d \in Rows \ {e}, d \in DOMAIN results',
                   pending[d].syncStatus = "PENDING_INSERT"
            PROVE  results'[d].pid # p
        <4>1. CASE d \in DOMAIN results /\ results'[d] = results[d]
          BY <2>1, <3>2, <4>1 DEF OutOfReach, OnlyRow
        <4>2. CASE d = c /\ results'[d] = G!Answer(c, n)
          BY <1>2, <2>1, <3>2, <4>2, RowParts DEF G!Answer
        <4> QED
          BY <3>2, <4>1, <4>2
      <3> QED
        BY <1>2, <3>1, <3>2 DEF OnlyRow, G!Live
    <2>6. NotAnswered(o)'
      BY <1>2, <1>4, <2>1 DEF OutOfReach, NotAnswered, G!Owing
    <2> QED
      BY <1>1, <1>2, <2>1, <2>4, <2>5, <2>6
      DEF OutOfReach, G!Kept, G!Owing, NamesNoOther, AsRead, NotWritten, OnlyRow, G!Live
  <1> QED
    BY <1>1, <1>2, <1>3, <1>4 DEF FirmHolds

(* It answers with the event it has: a row whose change is firm has no such event. *)
LEMMA RepeatsFirm ==
    ASSUME Shape, IdsHold, FirmHolds, NEW c \in Rows, ServerRepeats(c)
    PROVE  FirmHolds'
  <1>1. PICK n \in MadeBefore(c) :
            /\ results' = [d \in DOMAIN results \cup {c} |->
                   IF d = c THEN G!SyncedRow(n, remote[n].content) ELSE results[d]]
            /\ \E done : owed' = owed \ done /\ exposed' = exposed \ done
    BY DEF ServerRepeats
  <1>2. /\ UNCHANGED <<row, remote, clock, uploader, pending, checked, doubled>>
        /\ uploader = "sending" /\ c \in DOMAIN pending
        /\ pending[c].syncStatus = "PENDING_INSERT"
        /\ n \in Pids /\ remote[n].localId = c
    BY DEF ServerRepeats, Inserts, MadeBefore, outlookVars, Shape, G!BaseInv, G!TypeOK
  <1>3. \A o \in Firm' : o \in Firm
    BY <1>1, <1>2 DEF Firm, G!Firm
  <1>4. ASSUME NEW o \in Firm PROVE G!Kept(o)' /\ OutOfReach(o)'
    <2> DEFINE e == o[1]
               p == row[o[1]].pid
    <2>1. /\ e \in Rows /\ G!Kept(o) /\ OutOfReach(o)
          /\ row[e].syncStatus = "PENDING_INSERT" => p = NoPid
      BY FirmParts DEF FirmHolds
    <2>2. c # e
      BY <1>2, <2>1, Nulls DEF OutOfReach, NamesNoOther, AsRead
    <2>3. p # NoPid => p # n
      BY <1>2, <2>1, <2>2 DEF OutOfReach, OnlyRow
    <2>4. OnlyRow(e, p)'
      BY <1>1, <1>2, <2>1, <2>3, RowParts DEF OutOfReach, OnlyRow, G!Live
    <2>5. NotAnswered(o)'
      BY <1>1, <1>2, <2>1, <2>2 DEF OutOfReach, NotAnswered, G!Owing
    <2> QED
      BY <1>2, <2>1, <2>4, <2>5
      DEF OutOfReach, G!Kept, G!Owing, NamesNoOther, AsRead, NotWritten, OnlyRow, G!Live
  <1> QED
    BY <1>1, <1>2, <1>3, <1>4 DEF FirmHolds

(* A result is written: not to the row of a firm change. *)
LEMMA ResultFirm == Shape /\ IdsHold /\ FirmHolds /\ WriteResult => FirmHolds'
  <1> SUFFICES ASSUME Shape, IdsHold, FirmHolds, WriteResult PROVE FirmHolds'
    OBVIOUS
  <1>1. /\ UNCHANGED <<remote, clock, pending, owed, exposed, doubled>>
        /\ uploader = "writing" /\ uploader' = "sending"
        /\ checked \in DOMAIN results
        /\ DOMAIN results' \subseteq DOMAIN results
        /\ \A d \in DOMAIN results' : results'[d] = results[d]
        /\ row \in [Rows -> G!RowType \cup {G!Gone}]
    BY ResultRows DEF WriteResult, G!WriteResult, G!historyVars, Shape, G!BaseInv, G!TypeOK
  <1>2. ASSUME NEW o \in Firm
        PROVE  /\ o[1] # checked
               /\ row[o[1]].pid # NoPid => row[o[1]].pid # results[checked].pid
               /\ G!Live(o[1]) /\ o[1] \in Rows
    BY <1>1, FirmParts DEF OutOfReach, NotWritten
  <1>3. CASE /\ pending[checked].syncStatus = "PENDING_DELETE"
             /\ row' = [row EXCEPT ![checked] = G!Gone]
    <2>1. \A o \in Firm : row'[o[1]] = row[o[1]]
      BY <1>1, <1>2, <1>3
    <2>2. \A d \in Rows : G!Live(d)' => G!Live(d)
      BY <1>1, <1>3 DEF G!Live
    <2>3. \A o \in Firm : G!Kept(o)' /\ OutOfReach(o)'
      BY <1>1, <2>1, <2>2, FirmStays
    <2> QED
      BY <1>1, <2>3 DEF FirmHolds, Firm, G!Firm
  <1>4. ASSUME NEW t \in Rows, pending[checked].syncStatus # "PENDING_DELETE",
               row' = [row EXCEPT ![t] = results[checked]],
               \/ G!Live(t) /\ row[t].pid = results[checked].pid
               \/ G!Live(t) /\ row[t].pid = NoPid /\ t = checked
               \/ Unwritten(t)
        PROVE  FirmHolds'
    <2>1. results[checked].pid # NoPid
      BY <1>1, <1>4, AnswerParts, Nulls
    <2>2. \A o \in Firm : row'[o[1]] = row[o[1]]
      BY <1>1, <1>2, <1>4, <2>1 DEF Unwritten
    <2>3. \A d \in Rows : G!Live(d)' => G!Live(d) \/ G!Unused(d)
      BY <1>1, <1>4 DEF G!Live, Unwritten
    <2>4. \A o \in Firm : G!Kept(o)' /\ OutOfReach(o)'
      BY <1>1, <2>2, <2>3, FirmStays
    <2> QED
      BY <1>1, <2>4 DEF FirmHolds, Firm, G!Firm
  <1> QED
    BY <1>3, <1>4, ResultRows

LEMMA UploadFirm == Shape /\ IdsHold /\ FirmHolds /\ UploadNext => FirmHolds'
  <1> SUFFICES ASSUME Shape, IdsHold, FirmHolds, UploadNext PROVE FirmHolds'
    OBVIOUS
  <1>1. ASSUME NEW c \in Rows, ServerAccepts(c) \/ ResponseLost(c) PROVE FirmHolds'
    BY <1>1, AcceptsFirm
    DEF ServerAccepts, ResponseLost, G!ServerAccepts, G!ResponseLost, ServerSteps
  <1>2. ASSUME UNCHANGED <<row, remote, clock, owed, exposed, doubled>>,
               \A o \in Firm : AsRead(o[1])' /\ NotWritten(o[1], row[o[1]].pid)'
                               /\ OnlyRow(o[1], row[o[1]].pid)' /\ NotAnswered(o)'
        PROVE  FirmHolds'
    <2>1. ASSUME NEW o \in Firm PROVE G!Kept(o)' /\ OutOfReach(o)'
      <3>1. G!Kept(o) /\ OutOfReach(o)
        BY DEF FirmHolds
      <3> QED
        BY <1>2, <3>1
        DEF OutOfReach, G!Kept, G!Owing, NamesNoOther, AsRead, NotWritten, OnlyRow, NotAnswered,
            G!Live
    <2> QED
      BY <1>2, <2>1 DEF FirmHolds, Firm, G!Firm
  <1>3. CASE G!ReadPending /\ UNCHANGED outlookVars
    <2>1. /\ UNCHANGED <<row, remote, clock, owed, exposed, doubled, results>>
          /\ uploader' = "sending" /\ pending' = [e \in G!PendingRows |-> row[e]]
          /\ DOMAIN results = {}
      BY <1>3 DEF G!ReadPending, outlookVars, G!historyVars, Shape, G!BaseInv, G!CopiesInv
    <2>2. ASSUME NEW o \in Firm
          PROVE  AsRead(o[1])' /\ NotWritten(o[1], row[o[1]].pid)'
                 /\ OnlyRow(o[1], row[o[1]].pid)' /\ NotAnswered(o)'
      <3>1. OnlyRow(o[1], row[o[1]].pid) /\ o[1] \in Rows
        BY FirmParts DEF OutOfReach
      <3>2. AsRead(o[1])' /\ NotWritten(o[1], row[o[1]].pid)' /\ NotAnswered(o)'
        BY <2>1 DEF AsRead, NotWritten, NotAnswered
      <3>3. \A d \in G!PendingRows : G!Live(d)
        BY DEF G!PendingRows
      <3>4. OnlyRow(o[1], row[o[1]].pid)'
        BY <2>1, <3>1, <3>3 DEF OnlyRow, G!Live
      <3> QED
        BY <3>2, <3>4
    <2> QED
      BY <1>2, <2>1, <2>2
  <1>4. ASSUME NEW c \in Rows, G!CheckResult(c), UNCHANGED doubled PROVE FirmHolds'
    <2>1. /\ UNCHANGED <<row, remote, clock, owed, exposed, pending>>
          /\ c \in DOMAIN results /\ uploader = "sending"
          /\ DOMAIN results' \subseteq DOMAIN results
          /\ \A d \in DOMAIN results' : results'[d] = results[d]
          /\ \/ uploader' = "sending"
             \/ /\ row[c] = pending[c] /\ checked' = c /\ results' = results
      BY <1>4 DEF G!CheckResult, G!CanCompletePendingUpload, G!Without, G!historyVars
    <2>2. ASSUME NEW o \in Firm
          PROVE  AsRead(o[1])' /\ NotWritten(o[1], row[o[1]].pid)'
                 /\ OnlyRow(o[1], row[o[1]].pid)' /\ NotAnswered(o)'
      <3> DEFINE e == o[1]
                 p == row[o[1]].pid
      <3>1. OutOfReach(o) /\ e \in Rows /\ o = G!Owing(e, row[e]) /\ p \in Pids \cup {NoPid}
        BY FirmParts
      <3>2. AsRead(e)' /\ OnlyRow(e, p)' /\ NotAnswered(o)'
        BY <2>1, <3>1 DEF OutOfReach, AsRead, OnlyRow, NotAnswered, G!Live, G!Owing
      <3>3. ASSUME row[c] = pending[c] PROVE c # e /\ (p = NoPid \/ results[c].pid # p)
        <4>1. c # e
          BY <2>1, <3>1, <3>3 DEF OutOfReach, NotAnswered
        <4>2. ASSUME p # NoPid PROVE results[c].pid # p
          <5>1. CASE pending[c].syncStatus = "PENDING_INSERT"
            BY <2>1, <3>1, <4>1, <4>2, <5>1 DEF OutOfReach, OnlyRow
          <5>2. CASE pending[c].syncStatus = "PENDING_DELETE"
            BY <2>1, <4>2, <5>2, Nulls DEF Shape, DeletionsAnswered
          <5>3. CASE pending[c].syncStatus = "PENDING_UPDATE"
            <6>1. results[c].pid = row[c].pid
              BY <2>1, <3>3, <5>3 DEF IdsHold, AnswersFit
            <6> QED
              BY <3>1, <4>1, <4>2, <6>1 DEF Shape, G!BaseInv, G!UniqueProviderIds
          <5> QED
            BY <2>1, <5>1, <5>2, <5>3, AnswerParts, RowParts
        <4> QED
          BY <4>1, <4>2
      <3>4. NotWritten(e, p)'
        BY <2>1, <3>3 DEF NotWritten
      <3> QED
        BY <3>2, <3>4
    <2> QED
      BY <1>2, <1>4, <2>1, <2>2
  <1>5. CASE /\ G!WriteThrows \/ G!PassEnds \/ \E c \in Rows : G!ServerRejects(c)
             /\ UNCHANGED doubled
    <2>1. /\ UNCHANGED <<row, remote, clock, owed, exposed, doubled>>
          /\ \/ UNCHANGED <<uploader, pending, results, checked>>
             \/ uploader' = "idle" /\ pending' = <<>> /\ results' = <<>>
      BY <1>5
      DEF G!WriteThrows, G!PassEnds, G!EndOfPass, G!ServerRejects, G!historyVars
    <2>2. ASSUME NEW o \in Firm
          PROVE  AsRead(o[1])' /\ NotWritten(o[1], row[o[1]].pid)'
                 /\ OnlyRow(o[1], row[o[1]].pid)' /\ NotAnswered(o)'
      <3>1. OutOfReach(o)
        BY FirmParts
      <3> QED
        BY <2>1, <3>1
        DEF OutOfReach, AsRead, NotWritten, OnlyRow, NotAnswered, G!Live, G!Owing
    <2> QED
      BY <1>2, <2>1, <2>2
  <1> QED
    BY <1>1, <1>3, <1>4, <1>5, RepeatsFirm, ResultFirm DEF UploadNext, outlookVars

(* Others' events are new, or stay who they are. *)
LEMMA RemoteFirm == Shape /\ IdsHold /\ FirmHolds /\ RemoteNext => FirmHolds'
  <1> SUFFICES ASSUME Shape, IdsHold, FirmHolds, NEW n \in Pids, UNCHANGED doubled,
                      G!RemoteCreates(n) \/ G!RemoteEdits(n) \/ G!RemoteDeletes(n)
               PROVE  FirmHolds'
    BY DEF RemoteNext, ServerSteps
  <1>1. /\ UNCHANGED <<row, uploader, pending, results, checked, owed, exposed>>
        /\ clock' = clock + 1 /\ clock \in Nat /\ remote \in [Pids -> G!RemoteType]
    BY OutlookAssumption
    DEF G!RemoteCreates, G!RemoteEdits, G!RemoteDeletes, G!RemoteWrites, G!uploadVars,
        Shape, G!BaseInv, G!TypeOK, G!EventSyncAssumption
  <1>2. \A q \in Pids :
            \/ remote'[q].localId = remote[q].localId
            \/ remote'[q].localId = NoRow
            \/ remote'[q].localId \in ForeignRows /\ ~G!Used(q)
    <2>1. ASSUME G!RemoteEdits(n) PROVE remote'[n].localId = remote[n].localId
      <3>1. remote[n] \in [content : G!Stamps, localId : Rows \cup {NoRow}]
        BY <1>1, <2>1 DEF G!RemoteEdits, G!RemoteType
      <3>2. remote'[n] = [remote[n] EXCEPT !.content = clock + 1]
        BY <1>1, <2>1 DEF G!RemoteEdits, G!RemoteWrites
      <3> QED
        BY <3>1, <3>2
    <2>2. ASSUME G!RemoteCreates(n)
          PROVE  remote'[n].localId \in ForeignRows \cup {NoRow} /\ ~G!Used(n)
      BY <1>1, <2>2 DEF G!RemoteCreates, G!RemoteWrites, G!NewPid
    <2>3. ASSUME G!RemoteDeletes(n) PROVE remote'[n].localId = NoRow
      BY <1>1, <2>3, Nulls DEF G!RemoteDeletes, G!RemoteWrites
    <2>4. \A q \in Pids : q # n => remote'[q] = remote[q]
      BY <1>1 DEF G!RemoteCreates, G!RemoteEdits, G!RemoteDeletes, G!RemoteWrites
    <2> QED
      BY <2>1, <2>2, <2>3, <2>4
  <1>3. ASSUME NEW o \in Firm PROVE G!Kept(o)' /\ OutOfReach(o)'
    <2> DEFINE e == o[1]
               p == row[o[1]].pid
    <2>1. /\ e \in Rows /\ e \notin ForeignRows /\ e # NoRow /\ G!Kept(o) /\ OutOfReach(o)
          /\ (p # NoPid => p \in Pids /\ G!Used(p))
      BY FirmParts DEF FirmHolds
    <2>2. NamesNoOther(e, p)'
      BY <1>1, <1>2, <2>1 DEF OutOfReach, NamesNoOther
    <2>3. ASSUME p # NoPid, NEW d \in Rows \ {e}, remote'[p].localId = d
          PROVE  remote[p].localId = d
      BY <1>2, <2>1, <2>3, Nulls
    <2>4. OnlyRow(e, p)'
      BY <1>1, <2>1, <2>3 DEF OutOfReach, OnlyRow, G!Live
    <2> QED
      BY <1>1, <2>1, <2>2, <2>4
      DEF OutOfReach, G!Kept, G!Owing, NamesNoOther, AsRead, NotWritten, OnlyRow, NotAnswered,
          G!Live
  <1>4. \A o \in owed : o[2] <= clock'
    <2>1. \A o \in owed : o[2] \in Nat /\ o[2] <= clock
      BY OutlookAssumption
      DEF FirmHolds, Shape, G!BaseInv, G!TypeOK, G!Stamps, G!EventSyncAssumption
    <2> QED
      BY <1>1, <2>1
  <1> QED
    BY <1>1, <1>3, <1>4 DEF FirmHolds, Firm, G!Firm

(* A fetch stores what it heard: not over a row that waits to be sent.         *)
LEMMA StoreFirm ==
    ASSUME Shape, IdsHold, FirmHolds, NEW f \in Fetchers, NEW p \in Pids, PersistRemoteEvent(f, p)
    PROVE  FirmHolds'
  <1>1. /\ UNCHANGED <<remote, clock, uploader, pending, results, checked, owed, exposed, doubled>>
        /\ row \in [Rows -> G!RowType \cup {G!Gone}]
    BY StoreRows DEF Shape, G!BaseInv, G!TypeOK
  <1>2. ASSUME \A o \in Firm : row'[o[1]] = row[o[1]],
               \A d \in Rows : G!Live(d)' => G!Live(d) \/ G!Unused(d)
        PROVE  FirmHolds'
    <2>1. \A o \in Firm : G!Kept(o)' /\ OutOfReach(o)'
      BY <1>1, <1>2, FirmStays
    <2> QED
      BY <1>1, <2>1 DEF FirmHolds, Firm, G!Firm
  <1>3. CASE row' = row
    BY <1>2, <1>3 DEF G!Live
  <1>4. ASSUME ~G!LocallyChanged(p), NEW o \in Firm PROVE row[o[1]].pid # p
    BY <1>4, FirmParts, Nulls
  <1>5. CASE /\ ~G!LocallyChanged(p)
             /\ row' = [e \in Rows |-> IF e \in G!WithPid(p) THEN G!Gone ELSE row[e]]
    <2>1. \A o \in Firm : row'[o[1]] = row[o[1]]
      BY <1>4, <1>5, FirmParts DEF G!WithPid
    <2>2. \A d \in Rows : G!Live(d)' => G!Live(d)
      BY <1>5 DEF G!Live
    <2> QED
      BY <1>2, <2>1, <2>2
  <1>6. ASSUME ~G!LocallyChanged(p), NEW t \in Rows, NEW r, row' = [row EXCEPT ![t] = r],
               (G!Live(t) /\ row[t].pid = p) \/ Unwritten(t)
        PROVE  FirmHolds'
    <2>1. \A o \in Firm : row'[o[1]] = row[o[1]]
      BY <1>1, <1>4, <1>6, FirmParts DEF Unwritten
    <2>2. \A d \in Rows : G!Live(d)' => G!Live(d) \/ G!Unused(d)
      BY <1>1, <1>6 DEF G!Live, Unwritten
    <2> QED
      BY <1>2, <2>1, <2>2
  <1> QED
    BY <1>3, <1>5, <1>6, StoreRows

LEMMA StepFirm == Shape /\ IdsHold /\ FirmHolds /\ [Next]_vars => FirmHolds'
  <1> SUFFICES ASSUME Shape, IdsHold, FirmHolds, [Next]_vars PROVE FirmHolds'
    OBVIOUS
  <1>1. ASSUME UNCHANGED <<row, remote, clock, uploader, pending, results, checked, owed, exposed,
                           doubled>>
        PROVE  FirmHolds'
    BY <1>1
    DEF FirmHolds, Firm, G!Firm, OutOfReach, G!Kept, G!Owing, NamesNoOther, AsRead, NotWritten,
        OnlyRow, NotAnswered, G!Live
  <1>2. CASE UNCHANGED vars \/ \E b \in Buckets : TokenExpires(b) \/ \E f \in Fetchers : FetchInRange(f, b)
    BY <1>1, <1>2 DEF TokenExpires, FetchInRange, vars, uploadVars, historyVars, outlookVars
  <1>3. ASSUME NEW f \in Fetchers, FetchDelta(f) \/ FetchFails(f) \/ UpsertRange(f) \/ GiveUp(f)
                                   \/ \E p \in Pids : ResolveRemoved(f, p)
        PROVE  FirmHolds'
    BY <1>1, <1>3
    DEF FetchDelta, FetchFails, UpsertRange, GiveUp, BucketDone, ResolveRemoved, uploadVars,
        historyVars
  <1> QED
    BY <1>2, <1>3, StoreFirm, UserFirm, UploadFirm, RemoteFirm DEF Next, FetchNext

(* A change a user saved to a row stays pending until the server has accepted it,  *)
(* unless it was exposed when it was saved, or another row waits for the event.   *)
THEOREM EditKeptHolds == Spec => []EditKept
  <1>1. Init => Shape /\ IdsHold /\ FirmHolds
    BY InitShape, InitIds, InitFirm
  <1>2. Shape /\ IdsHold /\ FirmHolds /\ [Next]_vars => (Shape /\ IdsHold /\ FirmHolds)'
    BY StepShape, StepIds, StepFirm
  <1>3. FirmHolds => EditKept
    BY DEF FirmHolds, Firm, EditKept
  <1> QED
    BY <1>1, <1>2, <1>3, PTL DEF Spec
=============================================================================
