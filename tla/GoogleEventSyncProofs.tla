----------------------- MODULE GoogleEventSyncProofs -----------------------
(***************************************************************************)
(* GoogleEventSync for any tables, any number of fetches at once and any     *)
(* events of other installations.  First type correctness, at most one row  *)
(* for a provider id, and SYNCED only with content the server has had.      *)
(* Then what users save: a change to a row that no event of another          *)
(* installation can name, saved at none of the moments Exposed names, stays  *)
(* in a pending row until the server has accepted it or the user has         *)
(* replaced it; and neither an upload nor a save of such a row trips the     *)
(* UNIQUE constraint of the table.                                          *)
(***************************************************************************)
EXTENDS GoogleEventSync, TLAPS

Statuses == {"PENDING_INSERT", "PENDING_UPDATE", "PENDING_DELETE", "SYNCED"}

(* What a row is made of, and that the empty row is none. *)
LEMMA RowParts ==
    /\ \A r : r \in RowType <=>
           /\ r = [pid |-> r.pid, content |-> r.content, deletedAt |-> r.deletedAt,
                   syncStatus |-> r.syncStatus]
           /\ r.pid \in Pids \cup {NoPid}
           /\ r.content \in Stamps
           /\ r.deletedAt \in 0..MaxStamp
           /\ r.syncStatus \in Statuses
    /\ Gone \notin RowType
    /\ Gone.pid = NoPid /\ Gone.syncStatus = "GONE"
    /\ \A p \in Pids, c \in Stamps :
           /\ SyncedRow(p, c) \in RowType
           /\ SyncedRow(p, c) # Gone
           /\ SyncedRow(p, c).pid = p /\ SyncedRow(p, c).content = c
           /\ SyncedRow(p, c).deletedAt = 0 /\ SyncedRow(p, c).syncStatus = "SYNCED"
  BY EventSyncAssumption DEF RowType, Gone, SyncedRow, Stamps, Statuses

(* What the server has had is typed. *)
LEMMA HeldParts ==
    ASSUME TypeOK, NEW p, NEW c, <<p, c>> \in held
    PROVE  p \in Pids /\ c \in Stamps
  BY DEF TypeOK

(* An event with content is a typed one; the empty event has no content. *)
LEMMA EventParts ==
    /\ NoEvent \in RemoteType
    /\ NoEvent.content = 0 /\ 0 \notin Stamps
    /\ \A c \in Stamps, l \in Rows \cup {NoRow} :
           [content |-> c, localId |-> l] \in RemoteType
    /\ \A m \in RemoteType : m # NoEvent =>
           m.content \in Stamps /\ m.localId \in Rows \cup {NoRow}
  BY DEF RemoteType, NoEvent, Stamps

LEMMA InitBase == Init => BaseInv
  <1> SUFFICES ASSUME Init PROVE BaseInv
    OBVIOUS
  <1> USE DEF Init
  <1>1. TypeOK
    BY EventParts, EventSyncAssumption DEF TypeOK, Closed, NoFetch
  <1>2. CopiesInv
    BY DEF CopiesInv, NoFetch
  <1>3. UniqueProviderIds /\ SyncedWasServed
    BY DEF UniqueProviderIds, SyncedWasServed, Gone
  <1> QED
    BY <1>1, <1>2, <1>3 DEF BaseInv

-----------------------------------------------------------------------------
(* What a write does to the table. *)

(* A step that leaves the table alone keeps what is said of it. *)
LEMMA RowsFrame ==
    ASSUME BaseInv, row' = row, held \subseteq held'
    PROVE  UniqueProviderIds' /\ SyncedWasServed'
  BY DEF BaseInv, UniqueProviderIds, SyncedWasServed

(* Storing served content in the one row that may have its provider id. *)
LEMMA StoreKeeps ==
    ASSUME BaseInv, held' = held,
           NEW p, NEW c, <<p, c>> \in held,
           NEW e \in Rows, WithPid(p) \subseteq {e} \/ e \in WithPid(p),
           row' = [row EXCEPT ![e] = SyncedRow(p, c)]
    PROVE  /\ row' \in [Rows -> RowType \cup {Gone}]
           /\ UniqueProviderIds' /\ SyncedWasServed'
  <1>1. p \in Pids /\ c \in Stamps /\ p # NoPid
    BY HeldParts, EventSyncAssumption DEF BaseInv
  <1>2. row \in [Rows -> RowType \cup {Gone}]
    BY DEF BaseInv, TypeOK
  <1>3. row' \in [Rows -> RowType \cup {Gone}]
    BY <1>1, <1>2, RowParts
  <1>4. \A d \in Rows \ {e} : row[d].pid # p
    BY <1>1 DEF BaseInv, UniqueProviderIds, WithPid
  <1>5. row'[e] = SyncedRow(p, c) /\ \A d \in Rows \ {e} : row'[d] = row[d]
    BY <1>2
  <1>6. UniqueProviderIds'
    BY <1>1, <1>4, <1>5, RowParts DEF BaseInv, UniqueProviderIds
  <1>7. SyncedWasServed'
    BY <1>1, <1>5, RowParts DEF BaseInv, SyncedWasServed
  <1> QED
    BY <1>3, <1>6, <1>7

(* Removing rows. *)
LEMMA ClearKeeps ==
    ASSUME BaseInv, held' = held, NEW S,
           row' = [e \in Rows |-> IF e \in S THEN Gone ELSE row[e]]
    PROVE  /\ row' \in [Rows -> RowType \cup {Gone}]
           /\ UniqueProviderIds' /\ SyncedWasServed'
  <1>1. \A e \in Rows : row'[e] = Gone \/ row'[e] = row[e]
    OBVIOUS
  <1>2. UniqueProviderIds' /\ SyncedWasServed'
    BY <1>1, RowParts DEF BaseInv, UniqueProviderIds, SyncedWasServed
  <1> QED
    BY <1>2 DEF BaseInv, TypeOK

(* The user's writes are pending ones, and give no provider id to a second row. *)
LEMMA UserWritesKeeps ==
    ASSUME BaseInv, NEW new, UserWrites(new),
           DOMAIN new \subseteq Rows,
           \A e \in DOMAIN new :
               /\ new[e] \in RowType
               /\ new[e].syncStatus # "SYNCED"
               /\ Owing(e, new[e]) \in Rows \X Stamps \X BOOLEAN,
           \A e \in DOMAIN new, d \in Rows :
               /\ new[e].pid # NoPid
               /\ new[e].pid = IF d \in DOMAIN new THEN new[d].pid ELSE row[d].pid
               => d = e
    PROVE  /\ row' \in [Rows -> RowType \cup {Gone}]
           /\ clock' \in 0..MaxStamp
           /\ held' = held
           /\ owed' \subseteq Rows \X Stamps \X BOOLEAN
           /\ exposed' \subseteq owed'
           /\ UniqueProviderIds' /\ SyncedWasServed'
  <1> USE DEF UserWrites
  <1>1. row \in [Rows -> RowType \cup {Gone}] /\ clock \in 0..MaxStamp
    BY DEF BaseInv, TypeOK
  <1>2. \A e \in Rows : row'[e] = IF e \in DOMAIN new THEN new[e] ELSE row[e]
    OBVIOUS
  <1>3. row' \in [Rows -> RowType \cup {Gone}] /\ clock' \in 0..MaxStamp /\ held' = held
    BY <1>1, EventSyncAssumption
  <1>4. owed' \subseteq Rows \X Stamps \X BOOLEAN
    BY DEF BaseInv, TypeOK
  <1>5. exposed' \subseteq owed'
    BY DEF BaseInv, TypeOK, OfRows
  <1>6. UniqueProviderIds'
    BY <1>2 DEF BaseInv, UniqueProviderIds
  <1>7. SyncedWasServed'
    BY <1>2, <1>3 DEF BaseInv, SyncedWasServed
  <1> QED
    BY <1>3, <1>4, <1>5, <1>6, <1>7

(* A step that keeps the uploader, the server and the fetches keeps what is     *)
(* said of them.                                                             *)
LEMMA CopiesFrame ==
    ASSUME CopiesInv, held \subseteq held', UNCHANGED <<remote, uploadVars, fetch>>
    PROVE  CopiesInv'
  BY DEF CopiesInv, uploadVars

-----------------------------------------------------------------------------
(* The user. *)

(* The row a new event gets is a free one. *)
LEMMA NewRowParts == \A e \in NewRow : e \in Rows /\ ~Live(e)
  BY DEF NewRow, Unused

(* The row upsert writes may carry the provider id it is given. *)
LEMMA UpsertTargetsParts ==
    ASSUME BaseInv, NEW e \in Rows, NEW p, ~Conflict(e, p),
           NEW d \in UpsertTargets(e, p)
    PROVE  d \in Rows /\ (p = NoPid \/ WithPid(p) \subseteq {d})
  <1>1. CASE Live(e)
    BY <1>1 DEF UpsertTargets, Conflict, WithPid
  <1>2. CASE ~Live(e) /\ WithPid(p) # {}
    BY <1>2 DEF UpsertTargets, WithPid, BaseInv, UniqueProviderIds
  <1>3. CASE ~Live(e) /\ WithPid(p) = {}
    BY <1>3, NewRowParts DEF UpsertTargets
  <1> QED
    BY <1>1, <1>2, <1>3

(* Rows marked for deletion keep their provider ids. *)
LEMMA MarkedKeeps ==
    ASSUME BaseInv, NEW S, S \subseteq Rows, \A e \in S : Live(e), UserWrites(Marked(S))
    PROVE  /\ row' \in [Rows -> RowType \cup {Gone}]
           /\ clock' \in 0..MaxStamp
           /\ held' = held
           /\ owed' \subseteq Rows \X Stamps \X BOOLEAN
           /\ exposed' \subseteq owed'
           /\ UniqueProviderIds' /\ SyncedWasServed'
  <1> DEFINE new == Marked(S)
  <1>1. DOMAIN new = S
    BY DEF Marked
  <1>2. clock + 1 \in Stamps
    BY EventSyncAssumption DEF UserWrites, BaseInv, TypeOK, Stamps
  <1>3. ASSUME NEW e \in S
        PROVE  /\ new[e] \in RowType
               /\ new[e].pid = row[e].pid
               /\ new[e].syncStatus = "PENDING_DELETE"
               /\ Owing(e, new[e]) \in Rows \X Stamps \X BOOLEAN
    <2>1. row[e] \in RowType
      BY <1>3 DEF BaseInv, TypeOK, Live
    <2>2. new[e] = [row[e] EXCEPT !.deletedAt = clock + 1, !.syncStatus = "PENDING_DELETE"]
      BY <1>3 DEF Marked
    <2>3. new[e] \in RowType /\ new[e].pid = row[e].pid
          /\ new[e].syncStatus = "PENDING_DELETE" /\ new[e].deletedAt = clock + 1
      <3> DEFINE c == clock + 1
      <3>1. c \in Stamps
        BY <1>2
      <3> HIDE DEF c
      <3>2. new[e] = [row[e] EXCEPT !.deletedAt = c, !.syncStatus = "PENDING_DELETE"]
        BY <2>2 DEF c
      <3> HIDE DEF new
      <3>3. /\ new[e] \in RowType /\ new[e].pid = row[e].pid
            /\ new[e].syncStatus = "PENDING_DELETE" /\ new[e].deletedAt = c
        <4>1. c \in 0..MaxStamp
          BY <3>1, EventSyncAssumption DEF Stamps
        <4>2. new[e] \in RowType
          BY <2>1, <3>2, <4>1 DEF RowType
        <4>3. /\ new[e].pid = row[e].pid
              /\ new[e].syncStatus = "PENDING_DELETE" /\ new[e].deletedAt = c
          BY <2>1, <3>2 DEF RowType
        <4> QED
          BY <4>2, <4>3
      <3> QED
        BY <3>3 DEF c
    <2> QED
      BY <2>3, <1>2, <1>3 DEF Owing
  <1>4. \A e \in S, d \in Rows :
            /\ new[e].pid # NoPid
            /\ new[e].pid = IF d \in S THEN new[d].pid ELSE row[d].pid
            => d = e
    BY <1>3 DEF BaseInv, UniqueProviderIds
  <1> HIDE DEF new
  <1> QED
    BY <1>1, <1>3, <1>4, UserWritesKeeps DEF new

(* Every step of the user keeps the invariant. *)
LEMMA UserStep == BaseInv /\ UserNext => BaseInv'
  <1> SUFFICES ASSUME BaseInv, UserNext PROVE BaseInv'
    OBVIOUS
  <1>1. CASE CreateEvent
    <2>1. PICK e \in NewRow :
              UserWrites([d \in {e} |-> [pid |-> NoPid, content |-> clock + 1,
                                         deletedAt |-> 0, syncStatus |-> "PENDING_INSERT"]])
      BY <1>1 DEF CreateEvent
    <2> DEFINE r == [pid |-> NoPid, content |-> clock + 1, deletedAt |-> 0,
                     syncStatus |-> "PENDING_INSERT"]
    <2> DEFINE new == [d \in {e} |-> r]
    <2>2. clock + 1 \in Stamps
      BY <2>1, EventSyncAssumption DEF UserWrites, BaseInv, TypeOK, Stamps
    <2>3. r \in RowType /\ Owing(e, r) \in Rows \X Stamps \X BOOLEAN
      <3>1. 0 \in 0..MaxStamp /\ e \in Rows
        BY NewRowParts, EventSyncAssumption
      <3>2. r \in RowType
        BY <2>2, <3>1 DEF RowType
      <3>3. r.content \in Stamps /\ r.syncStatus = "PENDING_INSERT"
        BY <2>2
      <3> HIDE DEF r
      <3>4. Owing(e, r) \in Rows \X Stamps \X BOOLEAN
        BY <3>1, <3>3 DEF Owing
      <3> QED
        BY <3>2, <3>4
    <2>4. /\ DOMAIN new = {e} /\ e \in Rows
          /\ new[e] = r /\ r.pid = NoPid /\ r.syncStatus = "PENDING_INSERT"
      BY NewRowParts
    <2>5. UserWrites(new)
      BY <2>1
    <2> HIDE DEF new, r
    <2>6. /\ row' \in [Rows -> RowType \cup {Gone}]
          /\ clock' \in 0..MaxStamp
          /\ held' = held
          /\ owed' \subseteq Rows \X Stamps \X BOOLEAN
          /\ exposed' \subseteq owed'
          /\ UniqueProviderIds' /\ SyncedWasServed'
      BY <2>3, <2>4, <2>5, UserWritesKeeps
    <2>7. TypeOK'
      BY <1>1, <2>6 DEF CreateEvent, BaseInv, TypeOK, uploadVars
    <2>8. CopiesInv'
      BY <1>1, <2>6, CopiesFrame DEF CreateEvent, BaseInv
    <2> QED
      BY <2>6, <2>7, <2>8 DEF BaseInv
  <1>2. ASSUME NEW e \in Rows, OpenEventDialog(e) \/ ReadForDelete(e)
        PROVE  BaseInv'
    <2>1. UNCHANGED <<row, remote, clock, faults, uploadVars, fetch, historyVars>>
      BY <1>2 DEF OpenEventDialog, ReadForDelete
    <2>2. row[e] \in RowType
      BY <1>2 DEF OpenEventDialog, ReadForDelete, Live, BaseInv, TypeOK
    <2>3. TypeOK'
      BY <1>2, <2>1, <2>2
      DEF OpenEventDialog, ReadForDelete, BaseInv, TypeOK, uploadVars, historyVars
    <2> QED
      BY <2>1, <2>3, RowsFrame, CopiesFrame DEF BaseInv, historyVars
  <1>3. CASE CloseEventDialog
    <2>1. UNCHANGED <<row, remote, clock, faults, uploadVars, fetch, historyVars>>
      BY <1>3 DEF CloseEventDialog
    <2>2. TypeOK'
      BY <1>3, <2>1 DEF CloseEventDialog, BaseInv, TypeOK, uploadVars, historyVars
    <2> QED
      BY <2>1, <2>2, RowsFrame, CopiesFrame DEF BaseInv, historyVars
  <1>4. CASE SaveEvent
    <2> DEFINE status == IF ui.snap.pid = NoPid THEN "PENDING_INSERT" ELSE "PENDING_UPDATE"
    <2> DEFINE r == [ui.snap EXCEPT !.content = clock + 1, !.deletedAt = 0,
                                    !.syncStatus = status]
    <2>1. PICK e \in UpsertTargets(ui.id, ui.snap.pid) : UserWrites([d \in {e} |-> r])
      BY <1>4 DEF SaveEvent
    <2> DEFINE new == [d \in {e} |-> r]
    <2>2. ui.snap \in RowType /\ ui.id \in Rows /\ ~Conflict(ui.id, ui.snap.pid)
      BY <1>4 DEF SaveEvent, BaseInv, TypeOK, Closed
    <2>3. clock + 1 \in Stamps
      BY <2>1, EventSyncAssumption DEF UserWrites, BaseInv, TypeOK, Stamps
    <2>4. /\ r \in RowType /\ r.pid = ui.snap.pid /\ r.content = clock + 1
          /\ r.syncStatus \in {"PENDING_INSERT", "PENDING_UPDATE"}
      <3> DEFINE c == clock + 1
      <3>1. status \in {"PENDING_INSERT", "PENDING_UPDATE"}
        OBVIOUS
      <3>2. c \in Stamps /\ 0 \in 0..MaxStamp
        BY <2>3, EventSyncAssumption
      <3>3. r = [ui.snap EXCEPT !.content = c, !.deletedAt = 0, !.syncStatus = status]
        OBVIOUS
      <3> HIDE DEF c, status, r
      <3>4. r \in RowType
        BY <2>2, <3>1, <3>2, <3>3 DEF RowType
      <3>5. r.pid = ui.snap.pid /\ r.content = c /\ r.syncStatus = status
        BY <2>2, <3>3 DEF RowType
      <3> QED
        BY <3>1, <3>4, <3>5 DEF c
    <2>5. e \in Rows /\ (r.pid = NoPid \/ WithPid(r.pid) \subseteq {e})
      BY <2>1, <2>2, <2>4, UpsertTargetsParts
    <2>6. Owing(e, r) \in Rows \X Stamps \X BOOLEAN
      BY <2>3, <2>4, <2>5 DEF Owing
    <2>7. DOMAIN new = {e} /\ new[e] = r /\ UserWrites(new)
      BY <2>1
    <2>8. \A d \in Rows : r.pid # NoPid /\ row[d].pid = r.pid => d = e
      BY <2>5 DEF WithPid
    <2> HIDE DEF new, r
    <2>9. /\ row' \in [Rows -> RowType \cup {Gone}]
          /\ clock' \in 0..MaxStamp
          /\ held' = held
          /\ owed' \subseteq Rows \X Stamps \X BOOLEAN
          /\ exposed' \subseteq owed'
          /\ UniqueProviderIds' /\ SyncedWasServed'
      BY <2>4, <2>5, <2>6, <2>7, <2>8, UserWritesKeeps
    <2>10. TypeOK'
      BY <1>4, <2>9 DEF SaveEvent, BaseInv, TypeOK, uploadVars
    <2>11. CopiesInv'
      BY <1>4, <2>9, CopiesFrame DEF SaveEvent, BaseInv
    <2> QED
      BY <2>9, <2>10, <2>11 DEF BaseInv
  <1>5. CASE DeleteEvent
    <2>1. ui.id \in Rows /\ held' = held
      BY <1>5 DEF DeleteEvent, BaseInv, TypeOK, Closed
    <2>2. row' = [e \in Rows |-> IF e \in {ui.id} THEN Gone ELSE row[e]]
      BY <1>5, <2>1 DEF DeleteEvent, BaseInv, TypeOK
    <2>3. /\ row' \in [Rows -> RowType \cup {Gone}]
          /\ UniqueProviderIds' /\ SyncedWasServed'
      BY <2>1, <2>2, ClearKeeps
    <2>4. TypeOK'
      BY <1>5, <2>3 DEF DeleteEvent, BaseInv, TypeOK, uploadVars, OfRows
    <2>5. CopiesInv'
      BY <1>5, CopiesFrame DEF DeleteEvent, BaseInv
    <2> QED
      BY <2>3, <2>4, <2>5 DEF BaseInv
  <1>6. CASE SoftDelete \/ SoftDeleteAllByCalendar
    <2>1. PICK S \in SUBSET Rows : (\A e \in S : Live(e)) /\ UserWrites(Marked(S))
      <3>1. CASE SoftDelete
        <4>1. {e \in {ui.id} : Live(e)} \subseteq Rows
          BY DEF Live
        <4> QED
          BY <3>1, <4>1 DEF SoftDelete
      <3>2. CASE SoftDeleteAllByCalendar
        BY <3>2 DEF SoftDeleteAllByCalendar
      <3> QED
        BY <1>6, <3>1, <3>2
    <2>2. /\ row' \in [Rows -> RowType \cup {Gone}]
          /\ clock' \in 0..MaxStamp
          /\ held' = held
          /\ owed' \subseteq Rows \X Stamps \X BOOLEAN
          /\ exposed' \subseteq owed'
          /\ UniqueProviderIds' /\ SyncedWasServed'
      BY <2>1, MarkedKeeps
    <2>3. UNCHANGED <<remote, faults, uploadVars, fetch>> /\ ui' \in {ui, Closed}
      BY <1>6 DEF SoftDelete, SoftDeleteAllByCalendar
    <2>4. TypeOK'
      BY <2>2, <2>3 DEF BaseInv, TypeOK, uploadVars
    <2>5. CopiesInv'
      BY <2>2, <2>3, CopiesFrame DEF BaseInv
    <2> QED
      BY <2>2, <2>4, <2>5 DEF BaseInv
  <1> QED
    BY <1>1, <1>2, <1>3, <1>4, <1>5, <1>6 DEF UserNext

-----------------------------------------------------------------------------
(* The uploader. *)

(* Changing the content of an event the server has. *)
LEMMA ContentParts ==
    ASSUME NEW m \in RemoteType, m # NoEvent, NEW c \in Stamps
    PROVE  /\ [m EXCEPT !.content = c] \in RemoteType
           /\ [m EXCEPT !.content = c].content = c
  BY DEF RemoteType

(* A request the server accepts leaves the server with content it has had. *)
LEMMA AcceptsKeeps ==
    ASSUME BaseInv, NEW e \in Rows, NEW p \in Pids, Accepts(e, p)
    PROVE  /\ remote' \in [Pids -> RemoteType]
           /\ \A q \in Pids : remote'[q] # NoEvent => <<q, remote'[q].content>> \in held'
           /\ held \subseteq held'
           /\ held' \subseteq Pids \X Stamps
           /\ pending[e].syncStatus # "PENDING_DELETE" => <<p, pending[e].content>> \in held'
           /\ e \in DOMAIN pending
           /\ pending[e] \in RowType
  <1>1. e \in DOMAIN pending /\ pending[e] \in RowType
    BY DEF Accepts, BaseInv, TypeOK
  <1>2. pending[e].content \in Stamps
    BY <1>1 DEF RowType
  <1>3. /\ remote \in [Pids -> RemoteType] /\ held \subseteq Pids \X Stamps
        /\ \A q \in Pids : remote[q] # NoEvent => <<q, remote[q].content>> \in held
    BY DEF BaseInv, TypeOK, CopiesInv
  <1>4. Applied(e, p)
    BY DEF Accepts
  <1>5. CASE /\ pending[e].syncStatus = "PENDING_INSERT"
             /\ remote' = [remote EXCEPT ![p] = InsertedEvent(e)]
             /\ held' = held \cup {<<p, pending[e].content>>}
    <2>1. InsertedEvent(e) \in RemoteType /\ InsertedEvent(e).content = pending[e].content
      BY <1>2, EventParts DEF InsertedEvent
    <2> QED
      BY <1>1, <1>2, <1>3, <1>5, <2>1
  <1>6. CASE /\ pending[e].syncStatus = "PENDING_UPDATE"
             /\ remote[p] # NoEvent
             /\ remote' = [remote EXCEPT ![p].content = pending[e].content]
             /\ held' = held \cup {<<p, pending[e].content>>}
    <2> DEFINE m == [remote[p] EXCEPT !.content = pending[e].content]
    <2>1. m \in RemoteType /\ m.content = pending[e].content
      <3>1. remote[p] \in RemoteType
        BY <1>3
      <3> QED
        BY <1>2, <1>6, <3>1, ContentParts
    <2>2. remote' = [remote EXCEPT ![p] = m]
      BY <1>6
    <2> HIDE DEF m
    <2> QED
      BY <1>1, <1>2, <1>3, <1>6, <2>1, <2>2
  <1>7. CASE /\ pending[e].syncStatus = "PENDING_DELETE"
             /\ remote' = [remote EXCEPT ![p] = NoEvent]
             /\ held' = held
    BY <1>1, <1>3, <1>7, EventParts
  <1> QED
    BY <1>4, <1>5, <1>6, <1>7 DEF Applied

(* An answer is a deletion or a row the server has just been given. *)
LEMMA AnswerParts ==
    ASSUME BaseInv, NEW e \in Rows, NEW p \in Pids, Accepts(e, p)
    PROVE  /\ Answer(e, p) \in RowType \cup {Gone}
           /\ pending[e].syncStatus # "PENDING_DELETE" =>
                  \E h \in held' : Answer(e, p) = SyncedRow(h[1], h[2])
  <1>1. CASE pending[e].syncStatus = "PENDING_DELETE"
    BY <1>1 DEF Answer
  <1>2. CASE pending[e].syncStatus # "PENDING_DELETE"
    <2>1. Answer(e, p) = SyncedRow(p, pending[e].content)
      BY <1>2 DEF Answer
    <2>2. <<p, pending[e].content>> \in held' /\ pending[e].content \in Stamps
      BY <1>2, AcceptsKeeps
    <2>3. SyncedRow(p, pending[e].content) \in RowType
      BY <2>2, RowParts
    <2> DEFINE h == <<p, pending[e].content>>
    <2>4. h \in held' /\ h[1] = p /\ h[2] = pending[e].content
      BY <2>2
    <2> QED
      BY <2>1, <2>3, <2>4
  <1> QED
    BY <1>1, <1>2

(* Every step of the uploader keeps the invariant. *)
LEMMA UploadStep == BaseInv /\ UploadNext => BaseInv'
  <1> SUFFICES ASSUME BaseInv, UploadNext PROVE BaseInv'
    OBVIOUS
  <1>1. CASE ReadPending
    <2>1. UNCHANGED <<row, remote, clock, faults, ui, results, checked, fetch, historyVars>>
      BY <1>1 DEF ReadPending
    <2>2. DOMAIN results = {} /\ uploader' = "sending"
      BY <1>1 DEF ReadPending, BaseInv, CopiesInv
    <2>3. /\ DOMAIN pending' = PendingRows
          /\ \A e \in PendingRows : e \in Rows /\ pending'[e] \in RowType
      BY <1>1 DEF ReadPending, PendingRows, Live, BaseInv, TypeOK
    <2>4. pending' \in [DOMAIN pending' -> RowType] /\ unsent' = DOMAIN pending'
      BY <1>1, <2>3 DEF ReadPending
    <2>5. TypeOK'
      BY <2>1, <2>2, <2>3, <2>4 DEF BaseInv, TypeOK, historyVars
    <2>6. CopiesInv'
      BY <2>1, <2>2 DEF BaseInv, CopiesInv, historyVars
    <2> QED
      BY <2>1, <2>5, <2>6, RowsFrame DEF BaseInv, historyVars
  <1>2. ASSUME NEW e \in Rows, ServerAccepts(e) PROVE BaseInv'
    <2>1. PICK p \in Pids :
              /\ Accepts(e, p)
              /\ results' = [d \in DOMAIN results \cup {e} |->
                                IF d = e THEN Answer(e, p) ELSE results[d]]
              /\ UNCHANGED faults
      BY <1>2 DEF ServerAccepts
    <2>2. UNCHANGED <<row, clock, ui, uploader, pending, checked, fetch>>
      BY <2>1 DEF Accepts
    <2>3. /\ DOMAIN results' = DOMAIN results \cup {e}
          /\ results' \in [DOMAIN results' -> RowType \cup {Gone}]
          /\ DOMAIN results' \subseteq DOMAIN pending
      BY <2>1, AnswerParts, AcceptsKeeps DEF BaseInv, TypeOK
    <2>4. TypeOK'
      BY <2>1, <2>2, <2>3, AcceptsKeeps DEF Accepts, BaseInv, TypeOK
    <2>5. CopiesInv'
      <3>1. uploader' = "sending"
        BY <2>1, <2>2 DEF Accepts
      <3>2. ASSUME NEW d \in DOMAIN results', pending'[d].syncStatus # "PENDING_DELETE"
            PROVE  \E h \in held' : results'[d] = SyncedRow(h[1], h[2])
        <4>1. CASE d = e
          BY <2>1, <2>2, <3>2, <4>1, AnswerParts
        <4>2. CASE d # e
          BY <2>1, <2>2, <2>3, <3>2, <4>2, AcceptsKeeps DEF BaseInv, CopiesInv
        <4> QED
          BY <4>1, <4>2
      <3>3. \A f \in Fetchers, q \in Pids :
                fetch'[f].seen[q] # NoEvent => <<q, fetch'[f].seen[q].content>> \in held'
        BY <2>1, <2>2, AcceptsKeeps DEF BaseInv, CopiesInv
      <3> QED
        BY <2>1, <2>2, <3>1, <3>2, <3>3, AcceptsKeeps DEF BaseInv, CopiesInv
    <2> QED
      BY <2>1, <2>2, <2>4, <2>5, AcceptsKeeps, RowsFrame DEF BaseInv
  <1>3. ASSUME NEW e \in Rows, ResponseLost(e) PROVE BaseInv'
    <2>1. PICK p \in Pids : Accepts(e, p)
      BY <1>3 DEF ResponseLost
    <2>2. UNCHANGED <<row, clock, ui, uploader, pending, checked, fetch, results>>
      BY <1>3, <2>1 DEF Accepts, ResponseLost
    <2>3. faults' \in 0..MaxFaults
      BY <1>3, EventSyncAssumption DEF ResponseLost, BaseInv, TypeOK
    <2>4. TypeOK'
      BY <2>1, <2>2, <2>3, AcceptsKeeps DEF Accepts, BaseInv, TypeOK
    <2>5. CopiesInv'
      BY <2>1, <2>2, AcceptsKeeps DEF BaseInv, CopiesInv
    <2> QED
      BY <2>1, <2>2, <2>4, <2>5, AcceptsKeeps, RowsFrame DEF BaseInv
  <1>4. ASSUME NEW e \in Rows, ServerRejects(e) PROVE BaseInv'
    <2>1. UNCHANGED <<row, remote, clock, faults, ui, uploader, pending, results, checked,
                      fetch, historyVars>>
      BY <1>4 DEF ServerRejects
    <2>2. TypeOK'
      BY <1>4, <2>1 DEF ServerRejects, BaseInv, TypeOK, historyVars
    <2>3. CopiesInv'
      BY <2>1 DEF BaseInv, CopiesInv, historyVars
    <2> QED
      BY <2>1, <2>2, <2>3, RowsFrame DEF BaseInv, historyVars
  <1>5. ASSUME NEW e \in Rows, CheckResult(e) PROVE BaseInv'
    <2>1. UNCHANGED <<row, remote, clock, faults, ui, pending, unsent, fetch, historyVars>>
      BY <1>5 DEF CheckResult
    <2>2. CASE CanCompletePendingUpload(e)
      <3>1. uploader' = "writing" /\ checked' = e /\ results' = results /\ e \in DOMAIN results
        BY <1>5, <2>2 DEF CheckResult
      <3>2. TypeOK' /\ CopiesInv'
        BY <2>1, <3>1 DEF BaseInv, TypeOK, CopiesInv, historyVars
      <3> QED
        BY <2>1, <3>2, RowsFrame DEF BaseInv, historyVars
    <2>3. CASE ~CanCompletePendingUpload(e)
      <3>1. results' = Without(e) /\ UNCHANGED <<uploader, checked>> /\ uploader = "sending"
        BY <1>5, <2>3 DEF CheckResult
      <3>2. /\ DOMAIN results' = DOMAIN results \ {e}
            /\ \A d \in DOMAIN results' : results'[d] = results[d]
            /\ results' \in [DOMAIN results' -> RowType \cup {Gone}]
        BY <3>1 DEF Without, BaseInv, TypeOK
      <3>3. checked = NoRow
        BY <3>1 DEF BaseInv, CopiesInv
      <3>4. TypeOK'
        BY <2>1, <3>1, <3>2, <3>3 DEF BaseInv, TypeOK, historyVars
      <3>5. CopiesInv'
        BY <2>1, <3>1, <3>2 DEF BaseInv, CopiesInv, historyVars
      <3> QED
        BY <2>1, <3>4, <3>5, RowsFrame DEF BaseInv, historyVars
    <2> QED
      BY <2>2, <2>3
  <1>6. CASE WriteResult
    <2>1. UNCHANGED <<remote, clock, faults, ui, pending, unsent, fetch, historyVars>>
      BY <1>6 DEF WriteResult
    <2>2. checked \in DOMAIN results /\ checked \in Rows
      BY <1>6 DEF WriteResult, BaseInv, CopiesInv, TypeOK
    <2>3. /\ row' \in [Rows -> RowType \cup {Gone}]
          /\ UniqueProviderIds' /\ SyncedWasServed'
      <3>1. CASE pending[checked].syncStatus = "PENDING_DELETE"
        <4>1. row' = [e \in Rows |-> IF e \in {checked} THEN Gone ELSE row[e]]
          BY <1>6, <3>1 DEF WriteResult, BaseInv, TypeOK
        <4> QED
          BY <2>1, <4>1, ClearKeeps DEF historyVars
      <3>2. CASE pending[checked].syncStatus # "PENDING_DELETE"
        <4>1. PICK h \in held : results[checked] = SyncedRow(h[1], h[2])
          BY <2>2, <3>2 DEF BaseInv, CopiesInv
        <4>2. h = <<h[1], h[2]>> /\ h[1] \in Pids /\ h[2] \in Stamps
          BY <4>1 DEF BaseInv, TypeOK
        <4>3. results[checked].pid = h[1] /\ h[1] # NoPid
          BY <4>1, <4>2, RowParts, EventSyncAssumption
        <4>4. PICK e \in UpsertTargets(checked, h[1]) :
                  row' = [row EXCEPT ![e] = SyncedRow(h[1], h[2])]
          BY <1>6, <3>2, <4>1, <4>3 DEF WriteResult
        <4>5. e \in Rows /\ WithPid(h[1]) \subseteq {e}
          BY <1>6, <2>2, <4>3, <4>4, UpsertTargetsParts DEF WriteResult
        <4> QED
          BY <2>1, <4>2, <4>4, <4>5, StoreKeeps DEF historyVars
      <3> QED
        BY <3>1, <3>2
    <2>4. /\ uploader' = "sending" /\ checked' = NoRow
          /\ DOMAIN results' = DOMAIN results \ {checked}
          /\ \A d \in DOMAIN results' : results'[d] = results[d]
      BY <1>6 DEF WriteResult, Without
    <2>5. results' \in [DOMAIN results' -> RowType \cup {Gone}]
      BY <1>6, <2>4 DEF WriteResult, Without, BaseInv, TypeOK
    <2>6. TypeOK'
      BY <2>1, <2>3, <2>4, <2>5 DEF BaseInv, TypeOK, historyVars
    <2>7. CopiesInv'
      BY <2>1, <2>4 DEF BaseInv, CopiesInv, historyVars
    <2> QED
      BY <2>3, <2>6, <2>7 DEF BaseInv
  <1>7. CASE WriteThrows \/ PassEnds
    <2>1. /\ EndOfPass
          /\ UNCHANGED <<row, remote, clock, faults, ui, fetch, historyVars>>
      BY <1>7 DEF WriteThrows, PassEnds
    <2>2. /\ uploader' = "idle" /\ checked' = NoRow /\ unsent' = {}
          /\ DOMAIN pending' = {} /\ DOMAIN results' = {}
          /\ pending' \in [DOMAIN pending' -> RowType]
          /\ results' \in [DOMAIN results' -> RowType \cup {Gone}]
      BY <2>1 DEF EndOfPass
    <2>3. TypeOK'
      BY <2>1, <2>2 DEF BaseInv, TypeOK, historyVars
    <2>4. CopiesInv'
      BY <2>1, <2>2 DEF BaseInv, CopiesInv, historyVars
    <2> QED
      BY <2>1, <2>3, <2>4, RowsFrame DEF BaseInv, historyVars
  <1> QED
    BY <1>1, <1>2, <1>3, <1>4, <1>5, <1>6, <1>7 DEF UploadNext

-----------------------------------------------------------------------------
(* Fetches, and what happens elsewhere. *)

(* Every step of a fetch, of the worker or of a coverage thread, keeps the invariant. *)
LEMMA FetchStep == ASSUME BaseInv, ListInv, NEW f \in Fetchers, FetchNext(f) PROVE BaseInv'
  <1> DEFINE FetchType == [at : {"idle", "storing", "reconciling"}, seen : [Pids -> RemoteType],
                           todo : SUBSET Pids, victims : SUBSET Pids]
  <1>1. ASSUME ListRange(f) \/ \E S \in SUBSET Pids : MisreadRange(f, S)
        PROVE  BaseInv'
    <2>1. PICK S \in SUBSET Pids :
              fetch' = [fetch EXCEPT ![f] =
                  [at |-> "storing",
                   seen |-> [p \in Pids |-> IF p \in S THEN remote[p] ELSE NoEvent],
                   todo |-> {p \in S : remote[p] # NoEvent}, victims |-> {}]]
      <3>1. CASE ListRange(f)
        <4>1. [p \in Pids |-> IF p \in Pids THEN remote[p] ELSE NoEvent] = remote
          BY DEF BaseInv, TypeOK
        <4> QED
          BY <3>1, <4>1 DEF ListRange
      <3>2. CASE \E S \in SUBSET Pids : MisreadRange(f, S)
        BY <3>2 DEF MisreadRange
      <3> QED
        BY <1>1, <3>1, <3>2
    <2>2. /\ UNCHANGED <<row, remote, clock, ui, uploadVars, historyVars>>
          /\ faults' \in 0..MaxFaults
      BY <1>1, EventSyncAssumption DEF ListRange, MisreadRange, BaseInv, TypeOK
    <2> DEFINE new == [at |-> "storing",
                       seen |-> [p \in Pids |-> IF p \in S THEN remote[p] ELSE NoEvent],
                       todo |-> {p \in S : remote[p] # NoEvent}, victims |-> {}]
    <2>3. /\ new \in FetchType
          /\ \A p \in Pids : new.seen[p] # NoEvent => <<p, new.seen[p].content>> \in held
          /\ \A p \in new.todo : new.seen[p] # NoEvent
      BY EventParts DEF BaseInv, TypeOK, CopiesInv
    <2>4. fetch' = [fetch EXCEPT ![f] = new]
      BY <2>1
    <2> HIDE DEF new
    <2>5. TypeOK'
      BY <2>2, <2>3, <2>4 DEF BaseInv, TypeOK, uploadVars, historyVars
    <2>6. CopiesInv'
      BY <2>2, <2>3, <2>4 DEF BaseInv, TypeOK, CopiesInv, uploadVars, historyVars
    <2> QED
      BY <2>2, <2>5, <2>6, RowsFrame DEF BaseInv, historyVars
  <1>2. ASSUME NEW p \in Pids, PersistRemoteEvent(f, p) PROVE BaseInv'
    <2>1. /\ fetch' = [fetch EXCEPT ![f].todo = @ \ {p}]
          /\ UNCHANGED <<remote, clock, faults, ui, uploadVars, historyVars>>
          /\ p \in fetch[f].todo
      BY <1>2 DEF PersistRemoteEvent
    <2> DEFINE event == fetch[f].seen[p]
    <2>2. event # NoEvent /\ <<p, event.content>> \in held
      BY <2>1 DEF ListInv, BaseInv, CopiesInv
    <2>3. p # NoPid
      BY EventSyncAssumption
    <2>4. /\ row' \in [Rows -> RowType \cup {Gone}]
          /\ UniqueProviderIds' /\ SyncedWasServed'
      <3>1. CASE LocallyChanged(p)
        BY <1>2, <2>1, <3>1, RowsFrame DEF PersistRemoteEvent, BaseInv, TypeOK, historyVars
      <3>2. CASE ~LocallyChanged(p)
        <4>1. PICK e \in SnapshotTargets(event, p) :
                  row' = [row EXCEPT ![e] = SyncedRow(p, event.content)]
          BY <1>2, <3>2 DEF PersistRemoteEvent
        <4>2. e \in Rows /\ (WithPid(p) \subseteq {e} \/ e \in WithPid(p))
          BY <4>1, <2>3, NewRowParts DEF SnapshotTargets, UpsertTargets, WithPid, Live
        <4> QED
          BY <2>1, <2>2, <4>1, <4>2, StoreKeeps DEF historyVars
      <3> QED
        BY <3>1, <3>2
    <2>5. /\ fetch' \in [Fetchers -> FetchType]
          /\ \A g \in Fetchers : /\ fetch'[g].seen = fetch[g].seen
                                 /\ fetch'[g].todo \subseteq fetch[g].todo
      BY <2>1 DEF BaseInv, TypeOK
    <2>6. TypeOK'
      BY <2>1, <2>4, <2>5 DEF BaseInv, TypeOK, uploadVars, historyVars
    <2>7. CopiesInv'
      BY <2>1, <2>5 DEF BaseInv, CopiesInv, uploadVars, historyVars
    <2> QED
      BY <2>4, <2>6, <2>7 DEF BaseInv
  <1>3. ASSUME NEW p \in Pids, DeleteMissing(f, p) PROVE BaseInv'
    <2>1. /\ row' = [e \in Rows |-> IF e \in WithPid(p) THEN Gone ELSE row[e]]
          /\ fetch' = [fetch EXCEPT ![f].victims = @ \ {p}]
          /\ UNCHANGED <<remote, clock, faults, ui, uploadVars, historyVars>>
      BY <1>3 DEF DeleteMissing
    <2>2. /\ row' \in [Rows -> RowType \cup {Gone}]
          /\ UniqueProviderIds' /\ SyncedWasServed'
      BY <2>1, ClearKeeps DEF historyVars
    <2>3. /\ fetch' \in [Fetchers -> FetchType]
          /\ \A g \in Fetchers : /\ fetch'[g].seen = fetch[g].seen
                                 /\ fetch'[g].todo = fetch[g].todo
      BY <2>1 DEF BaseInv, TypeOK
    <2>4. TypeOK'
      BY <2>1, <2>2, <2>3 DEF BaseInv, TypeOK, uploadVars, historyVars
    <2>5. CopiesInv'
      BY <2>1, <2>3 DEF BaseInv, CopiesInv, uploadVars, historyVars
    <2> QED
      BY <2>2, <2>4, <2>5 DEF BaseInv
  <1>4. ASSUME RangeFails(f) \/ RangeEnds(f) PROVE BaseInv'
    <2>1. /\ fetch' = [fetch EXCEPT ![f] = NoFetch]
          /\ UNCHANGED <<row, remote, clock, faults, ui, uploadVars, historyVars>>
      BY <1>4 DEF RangeFails, RangeEnds
    <2>2. NoFetch \in FetchType /\ NoFetch.todo = {} /\ \A p \in Pids : NoFetch.seen[p] = NoEvent
      BY EventParts DEF NoFetch
    <2>3. TypeOK'
      BY <2>1, <2>2 DEF BaseInv, TypeOK, uploadVars, historyVars
    <2>4. CopiesInv'
      BY <2>1, <2>2 DEF BaseInv, TypeOK, CopiesInv, uploadVars, historyVars
    <2> QED
      BY <2>1, <2>3, <2>4, RowsFrame DEF BaseInv, historyVars
  <1>5. CASE SelectMissing(f)
    <2>1. PICK V \in SUBSET Pids :
              fetch' = [fetch EXCEPT ![f].at = "reconciling", ![f].victims = V]
      BY <1>5 DEF SelectMissing
    <2>2. UNCHANGED <<row, remote, clock, faults, ui, uploadVars, historyVars>>
      BY <1>5 DEF SelectMissing
    <2>3. /\ fetch' \in [Fetchers -> FetchType]
          /\ \A g \in Fetchers : /\ fetch'[g].seen = fetch[g].seen
                                 /\ fetch'[g].todo = fetch[g].todo
      <3>1. fetch \in [Fetchers -> FetchType] /\ fetch[f] \in FetchType
        BY DEF BaseInv, TypeOK
      <3>2. PICK m : m = [fetch[f] EXCEPT !.at = "reconciling", !.victims = V]
        OBVIOUS
      <3>3. m \in FetchType /\ m.seen = fetch[f].seen /\ m.todo = fetch[f].todo
        BY <3>1, <3>2 DEF FetchType
      <3>4. fetch' = [fetch EXCEPT ![f] = m]
        BY <2>1, <3>2
      <3> QED
        BY <3>1, <3>3, <3>4
    <2>4. TypeOK'
      BY <2>2, <2>3 DEF BaseInv, TypeOK, uploadVars, historyVars
    <2>5. CopiesInv'
      BY <2>2, <2>3 DEF BaseInv, CopiesInv, uploadVars, historyVars
    <2> QED
      BY <2>2, <2>4, <2>5, RowsFrame DEF BaseInv, historyVars
  <1> QED
    BY <1>1, <1>2, <1>3, <1>4, <1>5 DEF FetchNext

(* What others do to the server's calendar keeps the invariant. *)
LEMMA ElsewhereStep == BaseInv /\ ElsewhereNext => BaseInv'
  <1> SUFFICES ASSUME BaseInv, ElsewhereNext PROVE BaseInv'
    OBVIOUS
  <1>1. PICK p \in Pids, event \in RemoteType :
            /\ RemoteWrites(p, event)
            /\ event # NoEvent => event.content = clock + 1
    <2>1. PICK p \in Pids : RemoteCreates(p) \/ RemoteEdits(p) \/ RemoteDeletes(p)
      BY DEF ElsewhereNext
    <2>2. clock + 1 \in Stamps
      BY <2>1, EventSyncAssumption
      DEF RemoteCreates, RemoteEdits, RemoteDeletes, RemoteWrites, BaseInv, TypeOK, Stamps
    <2>3. CASE RemoteCreates(p)
      <3>1. PICK l \in ForeignRows \cup {NoRow} :
                RemoteWrites(p, [content |-> clock + 1, localId |-> l])
        BY <2>3 DEF RemoteCreates
      <3>2. [content |-> clock + 1, localId |-> l] \in RemoteType
        BY <2>2, EventParts, EventSyncAssumption
      <3> QED
        BY <3>1, <3>2
    <2>4. CASE RemoteEdits(p)
      <3>1. remote[p] # NoEvent /\ remote[p] \in RemoteType
        BY <2>4 DEF RemoteEdits, BaseInv, TypeOK
      <3> DEFINE c == clock + 1
                 event == [remote[p] EXCEPT !.content = c]
      <3>2. c \in Stamps
        BY <2>2
      <3>3. RemoteWrites(p, event)
        BY <2>4 DEF RemoteEdits
      <3> HIDE DEF c
      <3>4. event \in RemoteType /\ event.content = c
        BY <3>1, <3>2, ContentParts
      <3> HIDE DEF event
      <3> QED
        BY <3>3, <3>4 DEF c
    <2>5. CASE RemoteDeletes(p)
      BY <2>5, EventParts DEF RemoteDeletes
    <2> QED
      BY <2>1, <2>3, <2>4, <2>5
  <1>2. /\ remote' = [remote EXCEPT ![p] = event]
        /\ clock < MaxStamp
        /\ clock' = clock + 1
        /\ held' = IF event = NoEvent THEN held ELSE held \cup {<<p, clock + 1>>}
        /\ UNCHANGED <<row, faults, ui, uploadVars, fetch, owed, exposed>>
    BY <1>1 DEF RemoteWrites
  <1>3. clock \in 0..MaxStamp /\ clock' \in 0..MaxStamp /\ clock + 1 \in Stamps
    BY <1>2, EventSyncAssumption DEF BaseInv, TypeOK, Stamps
  <1>4. held \subseteq held' /\ held' \subseteq Pids \X Stamps
    BY <1>2, <1>3 DEF BaseInv, TypeOK
  <1>5. TypeOK'
    BY <1>2, <1>3, <1>4 DEF BaseInv, TypeOK, uploadVars
  <1>6. CopiesInv'
    <2>1. \A q \in Pids : remote'[q] # NoEvent => <<q, remote'[q].content>> \in held'
      BY <1>1, <1>2 DEF BaseInv, TypeOK, CopiesInv
    <2> QED
      BY <1>2, <1>4, <2>1 DEF BaseInv, CopiesInv, uploadVars
  <1> QED
    BY <1>2, <1>4, <1>5, <1>6, RowsFrame DEF BaseInv

(* Doing nothing keeps the invariant. *)
LEMMA StutterStep == BaseInv /\ UNCHANGED vars => BaseInv'
  <1> SUFFICES ASSUME BaseInv, UNCHANGED vars PROVE BaseInv'
    OBVIOUS
  <1>1. TypeOK'
    BY DEF vars, uploadVars, historyVars, BaseInv, TypeOK
  <1> QED
    BY <1>1, RowsFrame, CopiesFrame DEF vars, historyVars, BaseInv

(* Every step keeps the invariant, but for what a fetch has to store. *)
LEMMA StepBase == BaseInv /\ ListInv /\ [Next]_vars => BaseInv'
  BY UserStep, UploadStep, FetchStep, ElsewhereStep, StutterStep DEF Next

(* A fetch stores events the server listed. *)
LEMMA FetchLists ==
    ASSUME BaseInv, ListInv, NEW f \in Fetchers, FetchNext(f)
    PROVE  ListInv'
  <1>1. ASSUME ListRange(f) \/ \E S \in SUBSET Pids : MisreadRange(f, S)
        PROVE  ListInv'
    <2>1. PICK new :
              /\ fetch' = [fetch EXCEPT ![f] = new]
              /\ \A p \in new.todo : new.seen[p] # NoEvent
      <3>1. CASE ListRange(f)
        <4> DEFINE n == [at |-> "storing", seen |-> remote,
                         todo |-> {p \in Pids : remote[p] # NoEvent}, victims |-> {}]
        <4>1. fetch' = [fetch EXCEPT ![f] = n] /\ \A p \in n.todo : n.seen[p] # NoEvent
          BY <3>1 DEF ListRange
        <4> QED
          BY <4>1
      <3>2. ASSUME NEW S \in SUBSET Pids, MisreadRange(f, S)
            PROVE  \E n : /\ fetch' = [fetch EXCEPT ![f] = n]
                          /\ \A p \in n.todo : n.seen[p] # NoEvent
        <4> DEFINE n == [at |-> "storing",
                         seen |-> [p \in Pids |-> IF p \in S THEN remote[p] ELSE NoEvent],
                         todo |-> {p \in S : remote[p] # NoEvent}, victims |-> {}]
        <4>1. fetch' = [fetch EXCEPT ![f] = n] /\ \A p \in n.todo : n.seen[p] # NoEvent
          BY <3>2 DEF MisreadRange
        <4> QED
          BY <4>1
      <3> QED
        BY <1>1, <3>1, <3>2
    <2> QED
      BY <2>1 DEF BaseInv, TypeOK, ListInv
  <1>2. CASE RangeFails(f) \/ RangeEnds(f)
    <2>1. fetch' = [fetch EXCEPT ![f] = NoFetch] /\ NoFetch.todo = {}
      BY <1>2 DEF RangeFails, RangeEnds, NoFetch
    <2>2. \A g \in Fetchers : fetch'[g] = fetch[g] \/ fetch'[g].todo = {}
      BY <2>1 DEF BaseInv, TypeOK
    <2> QED
      BY <2>2 DEF ListInv
  <1>3. CASE \/ SelectMissing(f)
             \/ \E p \in Pids : PersistRemoteEvent(f, p) \/ DeleteMissing(f, p)
    <2>1. PICK T, V : \/ fetch' = [fetch EXCEPT ![f].todo = @ \ T]
                      \/ fetch' = [fetch EXCEPT ![f].victims = V]
                      \/ fetch' = [fetch EXCEPT ![f].at = "reconciling", ![f].victims = V]
      BY <1>3 DEF SelectMissing, PersistRemoteEvent, DeleteMissing
    <2>2. \A g \in Fetchers : /\ fetch'[g].seen = fetch[g].seen
                               /\ fetch'[g].todo \subseteq fetch[g].todo
      BY <2>1 DEF BaseInv, TypeOK
    <2> QED
      BY <2>2 DEF ListInv
  <1> QED
    BY <1>1, <1>2, <1>3 DEF FetchNext

LEMMA InitIInv == Init => IInv
  BY InitBase DEF Init, NoFetch, ListInv, IInv

(* Every step keeps the invariant. *)
LEMMA StepIInv == IInv /\ [Next]_vars => IInv'
  <1> SUFFICES ASSUME BaseInv, ListInv, [Next]_vars PROVE ListInv'
    BY StepBase DEF IInv
  <1>1. CASE UNCHANGED fetch
    BY <1>1 DEF ListInv
  <1>2. CASE UserNext \/ UploadNext \/ ElsewhereNext \/ UNCHANGED vars
    <2>1. UNCHANGED fetch
      BY <1>2 DEF UserNext, CreateEvent, OpenEventDialog, ReadForDelete, CloseEventDialog,
                  SaveEvent, DeleteEvent, SoftDelete, SoftDeleteAllByCalendar,
                  UploadNext, ReadPending, ServerAccepts, ResponseLost, Accepts, ServerRejects,
                  CheckResult, WriteResult, WriteThrows, PassEnds,
                  ElsewhereNext, RemoteCreates, RemoteEdits, RemoteDeletes, RemoteWrites, vars
    <2> QED
      BY <1>1, <2>1
  <1> QED
    BY <1>2, FetchLists DEF Next

-----------------------------------------------------------------------------
(* The invariant holds in every state of the events, the uploader and the      *)
(* fetches (calendar_sync_service.cpp, calendar_sync_internal.h).             *)
THEOREM Inductive == Spec => []IInv
  BY InitIInv, StepIInv, PTL DEF Spec

(* Tables, copies and histories keep their types. *)
THEOREM TypeCorrect == Spec => []TypeOK
  BY Inductive, PTL DEF IInv, BaseInv

(* No two rows have one provider id: the lookups of PersistRemoteEvent and      *)
(* upsert come before every write, so UNIQUE (calendar_id, provider_event_id)  *)
(* only stops the writes that are ready for it.                              *)
THEOREM UniqueProviderIdsHolds == Spec => []UniqueProviderIds
  BY Inductive, PTL DEF IInv, BaseInv

(* A row marked SYNCED shows content the server has had under its id, whatever  *)
(* the user, the uploader, the fetches and others do meanwhile.               *)
THEOREM SyncedWasServedHolds == Spec => []SyncedWasServed
  BY Inductive, PTL DEF IInv, BaseInv

-----------------------------------------------------------------------------
USE DEF Firm

OwedSafe == \A o \in Firm : Kept(o) /\ OutOfReach(o)

AnswersFit == \A e \in DOMAIN results : AnswerFits(e)

AllInUse ==
    /\ \A e \in Rows : InUse(row[e])
    /\ \A e \in DOMAIN pending : InUse(pending[e]) /\ pending[e].syncStatus # "SYNCED"
    /\ ui.snap.pid # NoPid => Used(ui.snap.pid)
    /\ \A h \in held : h[2] <= clock

(* The invariant in three parts. *)
LEMMA KeptParts ==
    /\ KeptInv <=> OwedSafe /\ AnswersFit /\ AllInUse
    /\ KeptInv' <=> OwedSafe' /\ AnswersFit' /\ AllInUse'
  BY DEF KeptInv, OwedSafe, AnswersFit, AllInUse

(* What is owed is owed for a row. *)
LEMMA OwingParts ==
    ASSUME NEW e, NEW r
    PROVE  /\ Owing(e, r)[1] = e
           /\ r.syncStatus = "PENDING_DELETE" => Owing(e, r)[2] = r.deletedAt
           /\ r.syncStatus # "PENDING_DELETE" => Owing(e, r)[2] = r.content
  BY DEF Owing

LEMMA OwedParts ==
    ASSUME BaseInv, NEW o \in owed
    PROVE  o[1] \in Rows /\ o[2] \in Stamps
  BY DEF BaseInv, TypeOK

(* Ids stay used. *)
LEMMA UsedStays ==
    ASSUME held \subseteq held', NEW p, Used(p)
    PROVE  Used(p)'
  BY DEF Used

LEMMA NullEvent ==
    /\ NoEvent.localId = NoRow /\ NoRow \notin Rows
    /\ Gone.pid = NoPid /\ Gone.syncStatus = "GONE" /\ Gone.content = 0 /\ Gone.deletedAt = 0
    /\ Closed.snap = Gone
  BY EventSyncAssumption DEF NoEvent, Gone, Closed

(* The id in an answer is one the server gave, or there is none. *)
LEMMA AnswerPid ==
    ASSUME BaseInv, KeptInv, NEW e \in DOMAIN results
    PROVE  /\ pending[e].syncStatus # "PENDING_DELETE" =>
                  results[e].pid \in Pids /\ Used(results[e].pid) /\ results[e].pid # NoPid
           /\ results[e].pid # NoPid => Used(results[e].pid)
  <1>1. ASSUME pending[e].syncStatus # "PENDING_DELETE"
        PROVE  results[e].pid \in Pids /\ Used(results[e].pid) /\ results[e].pid # NoPid
    <2>1. PICK h \in held : results[e] = SyncedRow(h[1], h[2])
      BY <1>1 DEF BaseInv, CopiesInv
    <2>2. h[1] \in Pids /\ h[2] \in Stamps
      BY <2>1 DEF BaseInv, TypeOK
    <2> QED
      BY <2>1, <2>2, RowParts, EventSyncAssumption DEF Used
  <1>2. pending[e].syncStatus = "PENDING_DELETE" => results[e].pid = NoPid
    BY DEF KeptInv, AnswerFits
  <1> QED
    BY <1>1, <1>2

LEMMA InitKept == Init => KeptInv
  <1> SUFFICES ASSUME Init PROVE KeptInv
    OBVIOUS
  <1> USE DEF Init
  <1>1. OwedSafe /\ AnswersFit
    BY DEF OwedSafe, AnswersFit
  <1>2. AllInUse
    BY NullEvent DEF AllInUse, InUse
  <1> QED
    BY <1>1, <1>2, KeptParts

-----------------------------------------------------------------------------
(* What the user writes. *)

(* A write at a safe moment is kept, and one elsewhere disturbs nothing. *)
LEMMA UserWritesSafe ==
    ASSUME BaseInv, KeptInv, NEW new, UserWrites(new), DOMAIN new \subseteq Rows,
           \A e \in DOMAIN new : new[e] \in RowType /\ new[e].syncStatus # "SYNCED",
           UNCHANGED <<remote, uploadVars, fetch>>
    PROVE  OwedSafe'
  <1> DEFINE S == DOMAIN new
  <1>1. /\ row' = [e \in Rows |-> IF e \in S THEN new[e] ELSE row[e]]
        /\ owed' = (owed \ OfRows(S)) \cup {Owing(e, new[e]) : e \in S}
        /\ exposed' = (exposed \ OfRows(S))
                      \cup {Owing(e, new[e]) : e \in {d \in S : Exposed(d, new[d].pid)}}
    BY DEF UserWrites
  <1>2. ASSUME NEW o \in Firm'
        PROVE  \/ o \in Firm /\ o[1] \notin S
               \/ \E e \in S : o = Owing(e, new[e]) /\ ~Exposed(e, new[e].pid)
    <2>1. CASE o \in owed \ OfRows(S)
      BY <1>1, <1>2, <2>1 DEF OfRows
    <2>2. CASE o \in {Owing(e, new[e]) : e \in S}
      BY <1>1, <1>2, <2>2
    <2> QED
      BY <1>1, <1>2, <2>1, <2>2
  <1>3. ASSUME NEW o \in Firm, o[1] \notin S
        PROVE  Kept(o)' /\ OutOfReach(o)'
    <2>1. o[1] \in Rows /\ row'[o[1]] = row[o[1]]
      BY <1>1, <1>3, OwedParts
    <2>2. Kept(o) /\ OutOfReach(o)
      BY <1>3 DEF KeptInv
    <2>3. Kept(o)'
      BY <2>1, <2>2 DEF Kept
    <2>4. OutOfReach(o)'
      BY <2>1, <2>2 DEF OutOfReach, uploadVars
    <2> QED
      BY <2>3, <2>4
  <1>4. ASSUME NEW e \in S, ~Exposed(e, new[e].pid)
        PROVE  Kept(Owing(e, new[e]))' /\ OutOfReach(Owing(e, new[e]))'
    <2> DEFINE o == Owing(e, new[e])
    <2>1. e \in Rows /\ row'[e] = new[e] /\ o[1] = e
      BY <1>1, OwingParts
    <2>2. Kept(o)'
      BY <2>1, RowParts DEF Kept
    <2>3. OutOfReach(o)'
      <3> HIDE DEF o
      <3> QED
        BY <1>4, <2>1 DEF OutOfReach, Exposed, uploadVars
    <2> QED
      BY <2>2, <2>3
  <1> QED
    BY <1>2, <1>3, <1>4 DEF OwedSafe

(* Rows other than e carry another provider id than e's answer after a step    *)
(* that gives it to none of them.                                            *)
LEMMA OwnerStays ==
    ASSUME BaseInv, KeptInv, NEW e \in DOMAIN results, OwnsAnswer(e),
           Live(e)' => Live(e),
           Live(e) => \A d \in Rows \ {e} :
               row'[d].pid = row[d].pid \/ row'[d].pid # results[e].pid,
           Live(e) => (ui' = ui \/ ui'.snap.pid # results[e].pid \/ ui'.id = e),
           results' = results,
           UNCHANGED <<remote, pending, fetch>>
    PROVE  OwnsAnswer(e)'
  BY DEF OwnsAnswer

(* A write of the user keeps the invariant, unless it brings back a row that is  *)
(* being sent, or gives the id of an answer to another row.                   *)
LEMMA UserWritesKept ==
    ASSUME BaseInv, KeptInv, NEW new, UserWrites(new), DOMAIN new \subseteq Rows,
           \A e \in DOMAIN new :
               /\ new[e] \in RowType
               /\ new[e].syncStatus # "SYNCED"
               /\ Owing(e, new[e])[2] = clock + 1
               /\ new[e].pid # NoPid => Used(new[e].pid)
               /\ new[e].syncStatus = "PENDING_INSERT" => new[e].pid = NoPid
               /\ new[e].content <= clock + 1
               /\ new[e].deletedAt <= clock + 1
               /\ Live(e) \/ e \notin DOMAIN pending,
           \A c \in DOMAIN results, e \in DOMAIN new :
               pending[c].syncStatus = "PENDING_INSERT" /\ Live(c) /\ e # c
                   => new[e].pid # results[c].pid,
           UNCHANGED <<remote, uploadVars, fetch>>,
           ui' \in {ui, Closed}
    PROVE  KeptInv'
  <1>1. OwedSafe'
    BY UserWritesSafe
  <1>2. /\ row' = [e \in Rows |-> IF e \in DOMAIN new THEN new[e] ELSE row[e]]
        /\ owed' = (owed \ OfRows(DOMAIN new)) \cup {Owing(e, new[e]) : e \in DOMAIN new}
        /\ clock' = clock + 1 /\ held' = held /\ clock \in Nat
    BY EventSyncAssumption DEF UserWrites, BaseInv, TypeOK
  <1>3. UNCHANGED <<pending, results>>
    BY DEF uploadVars
  <1>4. ASSUME NEW e \in DOMAIN results PROVE AnswerFits(e)'
    <2>1. e \in DOMAIN pending /\ e \in Rows /\ AnswerFits(e) /\ pending[e] \in RowType
      BY DEF BaseInv, TypeOK, KeptInv
    <2>2. Owing(e, pending[e]) \notin owed'
      <3>1. Owing(e, pending[e])[2] <= clock
        BY <2>1, OwingParts DEF KeptInv, InUse
      <3>2. \A d \in DOMAIN new : Owing(d, new[d])[2] = clock + 1
        OBVIOUS
      <3>3. Owing(e, pending[e])[2] \in Nat
        BY <2>1, OwingParts, EventSyncAssumption DEF RowType, Stamps
      <3>4. \A d \in DOMAIN new : Owing(e, pending[e]) # Owing(d, new[d])
        BY <3>1, <3>2, <3>3, <1>2
      <3> QED
        BY <1>2, <2>1, <3>4 DEF AnswerFits
    <2>3. ASSUME pending[e].syncStatus = "PENDING_INSERT" PROVE OwnsAnswer(e)'
      <3>1. OwnsAnswer(e) /\ results[e].pid # NoPid
        BY <2>1, <2>3, AnswerPid DEF AnswerFits
      <3>2. Live(e)' => Live(e)
        BY <1>2, <2>1 DEF Live
      <3>3. ASSUME Live(e), NEW d \in Rows \ {e}
            PROVE  row'[d].pid = row[d].pid \/ row'[d].pid # results[e].pid
        BY <1>2, <2>3, <3>3
      <3> QED
        BY <1>3, <3>1, <3>2, <3>3, OwnerStays, NullEvent
    <2> QED
      BY <1>3, <2>1, <2>2, <2>3 DEF AnswerFits
  <1>5. AllInUse'
    <2>1. \A p : Used(p) => Used(p)'
      BY <1>2 DEF Used
    <2>2. ASSUME NEW e \in Rows PROVE InUse(row[e])'
      <3>1. CASE e \in DOMAIN new
        BY <1>2, <2>1, <3>1 DEF InUse
      <3>2. CASE e \notin DOMAIN new
        <4>1. row'[e] = row[e] /\ InUse(row[e]) /\ row[e] \in RowType \cup {Gone}
          BY <1>2, <3>2 DEF KeptInv, BaseInv, TypeOK
        <4>2. row[e].content \in Nat /\ row[e].deletedAt \in Nat
          BY <4>1, NullEvent, EventSyncAssumption DEF RowType, Stamps
        <4> QED
          BY <1>2, <2>1, <4>1, <4>2 DEF InUse
      <3> QED
        BY <3>1, <3>2
    <2>3. ASSUME NEW e \in DOMAIN pending
          PROVE  InUse(pending[e])' /\ pending[e].syncStatus # "SYNCED"
      <3>1. InUse(pending[e]) /\ pending[e].syncStatus # "SYNCED" /\ pending[e] \in RowType
        BY DEF KeptInv, BaseInv, TypeOK
      <3>2. pending[e].content \in Nat /\ pending[e].deletedAt \in Nat
        BY <3>1, EventSyncAssumption DEF RowType, Stamps
      <3> QED
        BY <1>2, <1>3, <2>1, <3>1, <3>2 DEF InUse
    <2>4. (ui.snap.pid # NoPid => Used(ui.snap.pid))'
      BY <1>2, NullEvent DEF KeptInv, Used
    <2>5. \A h \in held : h[2] \in Nat /\ h[2] <= clock
      BY EventSyncAssumption DEF KeptInv, BaseInv, TypeOK, Stamps
    <2> QED
      BY <1>2, <1>3, <2>2, <2>3, <2>4, <2>5 DEF AllInUse
  <1> QED
    BY <1>1, <1>3, <1>4, <1>5, KeptParts DEF AnswersFit

(* A step that changes neither what is owed nor the rows it is owed for keeps    *)
(* it safe, as long as it reaches for none of them.                           *)
LEMMA SafeFrame ==
    ASSUME BaseInv, KeptInv,
           owed' \subseteq owed, Firm' \subseteq Firm,
           \A o \in Firm' : row'[o[1]] = row[o[1]],
           UNCHANGED <<remote, uploadVars, fetch>>
    PROVE  OwedSafe'
  <1>1. ASSUME NEW o \in Firm' PROVE Kept(o)' /\ OutOfReach(o)'
    <2>1. Kept(o) /\ OutOfReach(o) /\ row'[o[1]] = row[o[1]]
      BY <1>1 DEF KeptInv
    <2>2. Kept(o)'
      BY <2>1 DEF Kept
    <2>3. OutOfReach(o)'
      BY <2>1 DEF OutOfReach, uploadVars
    <2> QED
      BY <2>2, <2>3
  <1> QED
    BY <1>1 DEF OwedSafe

(* Every step of the user keeps the invariant. *)
LEMMA UserKept == BaseInv /\ KeptInv /\ UserNext => KeptInv'
  <1> SUFFICES ASSUME BaseInv, KeptInv, UserNext PROVE KeptInv'
    OBVIOUS
  <1>1. CASE CreateEvent
    <2> DEFINE r == [pid |-> NoPid, content |-> clock + 1, deletedAt |-> 0,
                     syncStatus |-> "PENDING_INSERT"]
    <2>1. PICK e \in NewRow : UserWrites([d \in {e} |-> r])
      BY <1>1 DEF CreateEvent
    <2> DEFINE new == [d \in {e} |-> r]
    <2>2. clock \in Nat /\ clock + 1 \in Stamps /\ 0 \in 0..MaxStamp
      BY <2>1, EventSyncAssumption DEF UserWrites, BaseInv, TypeOK, Stamps
    <2>3. /\ r \in RowType /\ r.pid = NoPid /\ r.syncStatus = "PENDING_INSERT"
          /\ r.content = clock + 1 /\ r.deletedAt <= clock + 1
      BY <2>2 DEF RowType
    <2>4. e \in Rows /\ e \notin DOMAIN pending
      BY DEF NewRow, Unused
    <2>5. DOMAIN new = {e} /\ new[e] = r /\ UserWrites(new)
      BY <2>1
    <2>6. \A c \in DOMAIN results :
              pending[c].syncStatus = "PENDING_INSERT" => results[c].pid # NoPid
      BY AnswerPid
    <2>7. UNCHANGED <<remote, uploadVars, fetch, ui>>
      BY <1>1 DEF CreateEvent
    <2> HIDE DEF new, r
    <2>8. Owing(e, new[e])[2] = clock + 1
      BY <2>3, <2>5, OwingParts
    <2> QED
      BY <2>2, <2>3, <2>4, <2>5, <2>6, <2>7, <2>8, UserWritesKept
  <1>2. ASSUME NEW e \in Rows, OpenEventDialog(e) \/ ReadForDelete(e)
        PROVE  KeptInv'
    <2>1. /\ UNCHANGED <<row, remote, clock, faults, uploadVars, fetch, historyVars>>
          /\ ui'.id = e /\ ui'.snap = row[e] /\ Live(e)
      BY <1>2 DEF OpenEventDialog, ReadForDelete
    <2>2. OwedSafe'
      BY <2>1, SafeFrame DEF historyVars
    <2>3. ASSUME NEW c \in DOMAIN results PROVE AnswerFits(c)'
      <3>1. AnswerFits(c) /\ c \in DOMAIN pending /\ c \in Rows
        BY DEF KeptInv, BaseInv, TypeOK
      <3>2. ASSUME pending[c].syncStatus = "PENDING_INSERT" PROVE OwnsAnswer(c)'
        <4>1. OwnsAnswer(c)
          BY <3>1, <3>2 DEF AnswerFits
        <4>2. Live(c) => row[e].pid # results[c].pid \/ e = c
          BY <4>1 DEF OwnsAnswer
        <4>3. (Live(c)' => Live(c)) /\ UNCHANGED <<row, remote, pending, results, fetch>>
          BY <2>1 DEF Live, uploadVars
        <4> QED
          BY <2>1, <4>1, <4>2, <4>3, OwnerStays
      <3> QED
        BY <2>1, <3>1, <3>2 DEF AnswerFits, uploadVars, historyVars
    <2>4. AllInUse'
      <3>1. InUse(row[e])
        BY DEF KeptInv
      <3>2. (ui.snap.pid # NoPid => Used(ui.snap.pid))'
        BY <2>1, <3>1 DEF InUse, Used, historyVars
      <3> QED
        BY <2>1, <3>2 DEF KeptInv, AllInUse, InUse, Used, uploadVars, historyVars
    <2> QED
      BY <2>1, <2>2, <2>3, <2>4, KeptParts DEF AnswersFit, uploadVars
  <1>3. CASE CloseEventDialog
    <2>1. /\ UNCHANGED <<row, remote, clock, faults, uploadVars, fetch, historyVars>>
          /\ ui' = Closed
      BY <1>3 DEF CloseEventDialog
    <2>2. OwedSafe'
      BY <2>1, SafeFrame DEF historyVars
    <2>3. ASSUME NEW c \in DOMAIN results PROVE AnswerFits(c)'
      <3>1. AnswerFits(c)
        BY DEF KeptInv
      <3>2. ASSUME pending[c].syncStatus = "PENDING_INSERT" PROVE OwnsAnswer(c)'
        <4>1. OwnsAnswer(c) /\ results[c].pid # NoPid
          BY <3>1, <3>2, AnswerPid DEF AnswerFits
        <4>2. (Live(c)' => Live(c)) /\ UNCHANGED <<row, remote, pending, results, fetch>>
          BY <2>1 DEF Live, uploadVars
        <4> QED
          BY <2>1, <4>1, <4>2, NullEvent, OwnerStays
      <3> QED
        BY <2>1, <3>1, <3>2 DEF AnswerFits, uploadVars, historyVars
    <2>4. AllInUse'
      BY <2>1, NullEvent DEF KeptInv, AllInUse, InUse, Used, uploadVars, historyVars
    <2> QED
      BY <2>1, <2>2, <2>3, <2>4, KeptParts DEF AnswersFit, uploadVars
  <1>4. CASE SaveEvent
    <2> DEFINE status == IF ui.snap.pid = NoPid THEN "PENDING_INSERT" ELSE "PENDING_UPDATE"
    <2> DEFINE r == [ui.snap EXCEPT !.content = clock + 1, !.deletedAt = 0,
                                    !.syncStatus = status]
    <2>1. PICK e \in UpsertTargets(ui.id, ui.snap.pid) : UserWrites([d \in {e} |-> r])
      BY <1>4 DEF SaveEvent
    <2> DEFINE new == [d \in {e} |-> r]
    <2>2. ui.snap \in RowType /\ ui.id \in Rows /\ ~Conflict(ui.id, ui.snap.pid)
      BY <1>4 DEF SaveEvent, BaseInv, TypeOK, Closed
    <2>3. clock \in Nat /\ clock + 1 \in Stamps /\ 0 \in 0..MaxStamp
      BY <2>1, EventSyncAssumption DEF UserWrites, BaseInv, TypeOK, Stamps
    <2>4. /\ r \in RowType /\ r.pid = ui.snap.pid /\ r.content = clock + 1 /\ r.deletedAt = 0
          /\ r.syncStatus = status /\ status \in {"PENDING_INSERT", "PENDING_UPDATE"}
          /\ status = "PENDING_INSERT" => ui.snap.pid = NoPid
      <3> DEFINE c == clock + 1
      <3>1. /\ status \in {"PENDING_INSERT", "PENDING_UPDATE"}
            /\ status = "PENDING_INSERT" => ui.snap.pid = NoPid
        OBVIOUS
      <3>2. c \in Stamps
        BY <2>3
      <3>3. r = [ui.snap EXCEPT !.content = c, !.deletedAt = 0, !.syncStatus = status]
        OBVIOUS
      <3> HIDE DEF c, status, r
      <3>4. r \in RowType
        BY <2>2, <2>3, <3>1, <3>2, <3>3 DEF RowType
      <3>5. r.pid = ui.snap.pid /\ r.content = c /\ r.deletedAt = 0 /\ r.syncStatus = status
        BY <2>2, <3>3 DEF RowType
      <3> QED
        BY <3>1, <3>4, <3>5 DEF c
    <2>5. e \in Rows
      BY <2>1, <2>2, UpsertTargetsParts
    <2>6. /\ Live(e) \/ e \notin DOMAIN pending
          /\ Live(ui.id) => e = ui.id
      <3>1. CASE e \in NewRow
        BY <2>1, <3>1 DEF UpsertTargets, NewRow, Unused, WithPid, Live
      <3>2. CASE e = ui.id /\ Live(ui.id)
        BY <3>2
      <3>3. CASE ~Live(ui.id) /\ e \in WithPid(ui.snap.pid)
        BY <3>3, NullEvent DEF WithPid, Live
      <3> QED
        BY <2>1, <3>1, <3>2, <3>3 DEF UpsertTargets
    <2>7. ASSUME NEW c \in DOMAIN results, pending[c].syncStatus = "PENDING_INSERT",
                 Live(c), e # c
          PROVE  r.pid # results[c].pid
      BY <2>4, <2>6, <2>7 DEF KeptInv, AnswerFits, OwnsAnswer
    <2>8. ui.snap.pid # NoPid => Used(ui.snap.pid)
      BY DEF KeptInv
    <2>9. DOMAIN new = {e} /\ new[e] = r /\ UserWrites(new)
      BY <2>1
    <2>10. UNCHANGED <<remote, uploadVars, fetch>> /\ ui' = Closed
      BY <1>4 DEF SaveEvent
    <2> HIDE DEF new, r, status
    <2>11. Owing(e, new[e])[2] = clock + 1
      BY <2>4, <2>9, OwingParts
    <2> QED
      BY <2>3, <2>4, <2>5, <2>6, <2>7, <2>8, <2>9, <2>10, <2>11, UserWritesKept
  <1>5. CASE DeleteEvent
    <2>1. /\ ui.id \in Rows /\ UNCHANGED <<remote, clock, faults, uploadVars, fetch, held>>
          /\ row' = [row EXCEPT ![ui.id] = Gone]
          /\ owed' = owed \ OfRows({ui.id}) /\ exposed' = exposed \ OfRows({ui.id})
          /\ ui' = Closed
      BY <1>5 DEF DeleteEvent, BaseInv, TypeOK, Closed
    <2>2. \A d \in Rows : row'[d] = IF d = ui.id THEN Gone ELSE row[d]
      BY <2>1 DEF BaseInv, TypeOK
    <2>3. OwedSafe'
      <3>1. \A o \in Firm' : o \in Firm /\ o[1] # ui.id
        BY <2>1 DEF OfRows
      <3>2. \A o \in Firm' : row'[o[1]] = row[o[1]]
        BY <2>2, <3>1, OwedParts
      <3>3. owed' \subseteq owed
        BY <2>1
      <3> QED
        BY <2>1, <3>1, <3>2, <3>3, SafeFrame
    <2>4. ASSUME NEW c \in DOMAIN results PROVE AnswerFits(c)'
      <3>1. AnswerFits(c)
        BY DEF KeptInv
      <3>2. ASSUME pending[c].syncStatus = "PENDING_INSERT" PROVE OwnsAnswer(c)'
        <4>1. OwnsAnswer(c) /\ results[c].pid # NoPid
          BY <3>1, <3>2, AnswerPid DEF AnswerFits
        <4>2. (Live(c)' => Live(c)) /\ UNCHANGED <<remote, pending, results, fetch>>
          BY <2>1, <2>2 DEF Live, uploadVars
        <4>3. \A d \in Rows \ {c} :
                  row'[d].pid = row[d].pid \/ row'[d].pid # results[c].pid
          BY <2>2, <4>1, NullEvent
        <4> QED
          BY <2>1, <4>1, <4>2, <4>3, NullEvent, OwnerStays
      <3> QED
        BY <2>1, <3>1, <3>2 DEF AnswerFits, uploadVars
    <2>5. AllInUse'
      <3>1. \A d \in Rows : InUse(row[d])'
        <4>1. clock \in Nat
          BY EventSyncAssumption DEF BaseInv, TypeOK
        <4>2. ASSUME NEW d \in Rows PROVE InUse(row[d])'
          <5>1. InUse(row[d])
            BY DEF KeptInv
          <5> QED
            BY <2>1, <2>2, <4>1, <5>1, NullEvent DEF InUse, Used
        <4> QED
          BY <4>2
      <3> QED
        BY <2>1, <3>1, NullEvent DEF KeptInv, AllInUse, InUse, Used, uploadVars
    <2> QED
      BY <2>1, <2>3, <2>4, <2>5, KeptParts DEF AnswersFit, uploadVars
  <1>6. CASE SoftDelete \/ SoftDeleteAllByCalendar
    <2>1. PICK S \in SUBSET Rows : (\A e \in S : Live(e)) /\ UserWrites(Marked(S))
      <3>1. CASE SoftDelete
        <4>1. {e \in {ui.id} : Live(e)} \subseteq Rows
          BY DEF Live
        <4> QED
          BY <3>1, <4>1 DEF SoftDelete
      <3>2. CASE SoftDeleteAllByCalendar
        BY <3>2 DEF SoftDeleteAllByCalendar
      <3> QED
        BY <1>6, <3>1, <3>2
    <2>2. UNCHANGED <<remote, faults, uploadVars, fetch>> /\ ui' \in {ui, Closed}
      BY <1>6 DEF SoftDelete, SoftDeleteAllByCalendar
    <2>3. clock \in Nat /\ clock + 1 \in Stamps
      BY <2>1, EventSyncAssumption DEF UserWrites, BaseInv, TypeOK, Stamps
    <2> DEFINE new == Marked(S)
    <2>4. DOMAIN new = S /\ UserWrites(new)
      BY <2>1 DEF Marked
    <2>5. ASSUME NEW e \in S
          PROVE  /\ new[e] \in RowType
                 /\ new[e].pid = row[e].pid
                 /\ new[e].content = row[e].content
                 /\ new[e].deletedAt = clock + 1
                 /\ new[e].syncStatus = "PENDING_DELETE"
      <3> DEFINE c == clock + 1
      <3>1. row[e] \in RowType
        BY <2>1, <2>5 DEF BaseInv, TypeOK, Live
      <3>2. new[e] = [row[e] EXCEPT !.deletedAt = c, !.syncStatus = "PENDING_DELETE"]
        BY <2>5 DEF Marked
      <3>3. c \in 0..MaxStamp
        BY <2>3, EventSyncAssumption DEF Stamps
      <3> HIDE DEF c, new
      <3>4. new[e] \in RowType
        BY <3>1, <3>2, <3>3 DEF RowType
      <3>5. /\ new[e].pid = row[e].pid /\ new[e].content = row[e].content
            /\ new[e].deletedAt = c /\ new[e].syncStatus = "PENDING_DELETE"
        BY <3>1, <3>2 DEF RowType
      <3> QED
        BY <3>4, <3>5 DEF c
    <2> HIDE DEF new
    <2>6. ASSUME NEW e \in S
          PROVE  /\ Owing(e, new[e])[2] = clock + 1
                 /\ new[e].pid # NoPid => Used(new[e].pid)
                 /\ new[e].content <= clock + 1
                 /\ new[e].deletedAt <= clock + 1
      <3>1. InUse(row[e]) /\ row[e] \in RowType
        BY <2>1 DEF KeptInv, BaseInv, TypeOK, Live
      <3>2. row[e].content \in Nat
        BY <3>1, EventSyncAssumption DEF RowType, Stamps
      <3> QED
        BY <2>3, <2>5, <3>1, <3>2, OwingParts DEF InUse
    <2>7. ASSUME NEW c \in DOMAIN results, pending[c].syncStatus = "PENDING_INSERT",
                 Live(c), NEW e \in S, e # c
          PROVE  new[e].pid # results[c].pid
      <3>1. OwnsAnswer(c)
        BY <2>7 DEF KeptInv, AnswerFits
      <3> QED
        BY <2>1, <2>5, <2>7, <3>1 DEF OwnsAnswer
    <2> QED
      BY <2>1, <2>2, <2>4, <2>5, <2>6, <2>7, UserWritesKept
  <1> QED
    BY <1>1, <1>2, <1>3, <1>4, <1>5, <1>6 DEF UserNext

-----------------------------------------------------------------------------
(* The uploader. *)

(* An id the server has not given yet is nowhere. *)
LEMMA FreshId ==
    ASSUME BaseInv, KeptInv, NEW p \in Pids, ~Used(p)
    PROVE  /\ remote[p] = NoEvent
           /\ \A f \in Fetchers : fetch[f].seen[p] = NoEvent
           /\ \A d \in Rows : row[d].pid # p
           /\ ui.snap.pid # p
           /\ \A d \in DOMAIN pending : pending[d].pid # p
           /\ \A d \in DOMAIN results : results[d].pid # p
  <1>1. p # NoPid
    BY EventSyncAssumption
  <1>2. \A c : <<p, c>> \notin held
    BY DEF Used
  <1>3. remote[p] = NoEvent /\ \A f \in Fetchers : fetch[f].seen[p] = NoEvent
    BY <1>2 DEF BaseInv, CopiesInv
  <1>4. \A d \in DOMAIN results : results[d].pid # p
    BY <1>1, AnswerPid
  <1> QED
    BY <1>1, <1>3, <1>4 DEF KeptInv, InUse

(* What the server does with a request. *)
LEMMA AppliedParts ==
    ASSUME BaseInv, NEW e \in Rows, NEW p \in Pids, Accepts(e, p)
    PROVE  /\ \/ /\ pending[e].syncStatus = "PENDING_INSERT"
                 /\ ~Used(p) /\ remote'[p].localId = e /\ Answer(e, p).pid = p
              \/ /\ pending[e].syncStatus = "PENDING_UPDATE"
                 /\ pending[e].pid = p /\ remote[p] # NoEvent
                 /\ remote'[p].localId = remote[p].localId /\ Answer(e, p).pid = p
              \/ /\ pending[e].syncStatus = "PENDING_DELETE"
                 /\ remote'[p] = NoEvent /\ Answer(e, p).pid = NoPid
           /\ \A q \in Pids \ {p} : remote'[q] = remote[q]
           /\ held \subseteq held' /\ held' \subseteq held \cup {<<p, pending[e].content>>}
  <1>1. e \in DOMAIN pending /\ pending[e].content \in Stamps
    BY AcceptsKeeps DEF RowType
  <1>2. remote \in [Pids -> RemoteType]
    BY DEF BaseInv, TypeOK
  <1>3. Applied(e, p)
    BY DEF Accepts
  <1>4. CASE /\ pending[e].syncStatus = "PENDING_INSERT" /\ ~Used(p)
             /\ remote' = [remote EXCEPT ![p] = InsertedEvent(e)]
             /\ held' = held \cup {<<p, pending[e].content>>}
    <2>1. Answer(e, p).pid = p
      BY <1>1, <1>4, RowParts DEF Answer
    <2> QED
      BY <1>2, <1>4, <2>1 DEF InsertedEvent
  <1>5. CASE /\ pending[e].syncStatus = "PENDING_UPDATE" /\ pending[e].pid = p
             /\ remote[p] # NoEvent
             /\ remote' = [remote EXCEPT ![p].content = pending[e].content]
             /\ held' = held \cup {<<p, pending[e].content>>}
    <2>1. Answer(e, p).pid = p
      BY <1>1, <1>5, RowParts DEF Answer
    <2>2. [remote[p] EXCEPT !.content = pending[e].content].localId = remote[p].localId
      BY <1>2, <1>5 DEF RemoteType
    <2> QED
      BY <1>2, <1>5, <2>1, <2>2
  <1>6. CASE /\ pending[e].syncStatus = "PENDING_DELETE"
             /\ remote' = [remote EXCEPT ![p] = NoEvent]
             /\ held' = held
    <2>1. Answer(e, p).pid = NoPid
      BY <1>6, NullEvent DEF Answer
    <2> QED
      BY <1>2, <1>6, <2>1
  <1> QED
    BY <1>3, <1>4, <1>5, <1>6 DEF Applied, NewPid

(* Accepting a request, whether its answer arrives or not. *)
LEMMA AcceptsKept ==
    ASSUME BaseInv, KeptInv, NEW e \in Rows, NEW p \in Pids, Accepts(e, p),
           \/ results' = results
           \/ results' = [d \in DOMAIN results \cup {e} |->
                             IF d = e THEN Answer(e, p) ELSE results[d]]
    PROVE  KeptInv'
  <1>1. /\ UNCHANGED <<row, clock, ui, uploader, pending, checked, fetch>>
        /\ uploader = "sending"
        /\ owed' = owed \ {Owing(e, pending[e])}
        /\ exposed' = exposed \ {Owing(e, pending[e])}
    BY DEF Accepts
  <1>2. e \in DOMAIN pending /\ pending[e] \in RowType
    BY AcceptsKeeps
  <1>3. ASSUME NEW o \in Firm' PROVE Kept(o)' /\ OutOfReach(o)'
    <2>1. o \in Firm /\ o # Owing(e, pending[e]) /\ o[1] \in Rows
      BY <1>1, <1>3, OwedParts
    <2>2. Kept(o) /\ OutOfReach(o)
      BY <2>1 DEF KeptInv
    <2>3. Kept(o)'
      BY <1>1, <2>2 DEF Kept
    <2>4. ASSUME NEW q \in Pids, remote'[q].localId = o[1] PROVE row[o[1]].pid = q
      <3>1. CASE remote'[q].localId = remote[q].localId
        BY <2>2, <2>4, <3>1 DEF OutOfReach
      <3>2. CASE q = p /\ pending[e].syncStatus = "PENDING_INSERT" /\ remote'[q].localId = e
        BY <1>2, <2>1, <2>2, <2>4, <3>2 DEF OutOfReach
      <3>3. CASE remote'[q] = NoEvent
        BY <2>1, <2>4, <3>3, NullEvent
      <3> QED
        BY <3>1, <3>2, <3>3, AppliedParts
    <2>5. OutOfReach(o)'
      BY <1>1, <2>2, <2>4 DEF OutOfReach
    <2> QED
      BY <2>3, <2>5
  <1>4. ASSUME NEW d \in DOMAIN results' PROVE AnswerFits(d)'
    <2>1. CASE d \in DOMAIN results /\ results'[d] = results[d]
      <3>1. AnswerFits(d) /\ owed' \subseteq owed
        BY <1>1, <2>1 DEF KeptInv
      <3>2. ASSUME pending[d].syncStatus = "PENDING_INSERT" PROVE OwnsAnswer(d)'
        <4> DEFINE r == results[d].pid
        <4>1. OwnsAnswer(d) /\ r \in Pids /\ Used(r) /\ r # NoPid
          BY <2>1, <3>1, <3>2, AnswerPid DEF AnswerFits
        <4>2. remote'[r] # NoEvent => remote'[r].localId = d
          BY <4>1, AppliedParts DEF OwnsAnswer
        <4>3. Answer(e, p).pid # r
          BY <1>2, <4>1, AppliedParts DEF OwnsAnswer
        <4>4. \A c \in DOMAIN results' \ {d} : results'[c].pid # r
          BY <4>1, <4>3 DEF OwnsAnswer
        <4> QED
          BY <1>1, <2>1, <4>1, <4>2, <4>4 DEF OwnsAnswer, Live
      <3> QED
        BY <1>1, <2>1, <3>1, <3>2 DEF AnswerFits
    <2>2. CASE /\ d = e /\ results'[d] = Answer(e, p)
               /\ \A c \in DOMAIN results' \ {e} : c \in DOMAIN results /\ results'[c] = results[c]
      <3>1. Owing(d, pending[d]) \notin owed'
        BY <1>1, <2>2
      <3>2. CASE /\ pending[e].syncStatus = "PENDING_INSERT"
                 /\ ~Used(p) /\ remote'[p].localId = e /\ Answer(e, p).pid = p
        <4>1. OwnsAnswer(d)'
          BY <1>1, <2>2, <3>2, FreshId DEF OwnsAnswer, Live
        <4> QED
          BY <1>1, <2>2, <3>1, <3>2, <4>1 DEF AnswerFits
      <3>3. CASE pending[e].syncStatus = "PENDING_UPDATE" /\ pending[e].pid = Answer(e, p).pid
        BY <1>1, <2>2, <3>1, <3>3 DEF AnswerFits
      <3>4. CASE pending[e].syncStatus = "PENDING_DELETE" /\ Answer(e, p).pid = NoPid
        BY <1>1, <2>2, <3>1, <3>4 DEF AnswerFits
      <3> QED
        BY <3>2, <3>3, <3>4, AppliedParts
    <2> QED
      BY <1>4, <2>1, <2>2
  <1>5. AllInUse'
    <2>1. held \subseteq held' /\ held' \subseteq held \cup {<<p, pending[e].content>>}
      BY AppliedParts
    <2>2. \A h \in held' : h[2] <= clock
      BY <1>2, <2>1 DEF KeptInv, InUse
    <2>3. \A q : Used(q) => Used(q)'
      BY <2>1 DEF Used
    <2>4. /\ \A d \in Rows : InUse(row[d])'
          /\ \A d \in DOMAIN pending : InUse(pending[d])'
      BY <1>1, <2>3 DEF KeptInv, InUse
    <2>5. (ui.snap.pid # NoPid => Used(ui.snap.pid))'
      BY <1>1, <2>3 DEF KeptInv
    <2> QED
      BY <1>1, <2>2, <2>4, <2>5 DEF KeptInv, AllInUse
  <1> QED
    BY <1>3, <1>4, <1>5, KeptParts DEF OwedSafe, AnswersFit

(* Reading the pending rows: what they owe is what is owed. *)
LEMMA ReadKept == BaseInv /\ KeptInv /\ ReadPending => KeptInv'
  <1> SUFFICES ASSUME BaseInv, KeptInv, ReadPending PROVE KeptInv'
    OBVIOUS
  <1>1. /\ UNCHANGED <<row, remote, clock, ui, results, fetch, held, owed, exposed>>
        /\ uploader' = "sending" /\ DOMAIN results = {}
        /\ pending' = [e \in PendingRows |-> row[e]]
    BY DEF ReadPending, BaseInv, CopiesInv, historyVars
  <1>2. ASSUME NEW o \in Firm' PROVE Kept(o)' /\ OutOfReach(o)'
    <2>1. Kept(o) /\ OutOfReach(o)
      BY <1>1, <1>2 DEF KeptInv
    <2>2. o[1] \in DOMAIN pending' => o = Owing(o[1], pending'[o[1]])
      BY <1>1, <2>1 DEF Kept
    <2>3. OutOfReach(o)'
      BY <1>1, <2>1, <2>2 DEF OutOfReach
    <2> QED
      BY <1>1, <2>1, <2>3 DEF Kept
  <1>3. AllInUse'
    <2>1. \A e \in PendingRows : InUse(row[e]) /\ row[e].syncStatus # "SYNCED"
      BY DEF KeptInv, PendingRows
    <2> QED
      BY <1>1, <2>1 DEF KeptInv, AllInUse, InUse, Used
  <1> QED
    BY <1>1, <1>2, <1>3, KeptParts DEF OwedSafe, AnswersFit

(* Comparing a row with what was sent of it. *)
LEMMA CheckKept == ASSUME BaseInv, KeptInv, NEW e \in Rows, CheckResult(e) PROVE KeptInv'
  <1>1. /\ UNCHANGED <<row, remote, clock, ui, pending, fetch, held, owed, exposed>>
        /\ e \in DOMAIN results /\ e \in DOMAIN pending /\ AnswerFits(e)
        /\ uploader = "sending"
    BY DEF CheckResult, BaseInv, TypeOK, KeptInv, historyVars
  <1>2. AllInUse'
    BY <1>1 DEF KeptInv, AllInUse, InUse, Used
  <1>3. CASE CanCompletePendingUpload(e)
    <2>1. uploader' = "writing" /\ checked' = e /\ results' = results /\ row[e] = pending[e]
      BY <1>3 DEF CheckResult, CanCompletePendingUpload
    <2>2. pending[e] \in RowType /\ pending[e].syncStatus # "SYNCED"
      BY <1>1 DEF BaseInv, TypeOK, KeptInv
    <2>3. ASSUME NEW o \in Firm' PROVE Kept(o)' /\ OutOfReach(o)'
      <3>1. Kept(o) /\ OutOfReach(o) /\ o \in owed /\ o[1] \in Rows
        BY <1>1, <2>3, OwedParts DEF KeptInv
      <3>2. e # o[1]
        BY <1>1, <2>1, <3>1 DEF Kept, AnswerFits
      <3>3. ASSUME row[o[1]].pid = results[e].pid PROVE row[o[1]].pid = NoPid
        <4>1. CASE pending[e].syncStatus = "PENDING_INSERT"
          BY <1>1, <2>1, <2>2, <3>1, <3>2, <3>3, <4>1, RowParts DEF AnswerFits, OwnsAnswer, Live
        <4>2. CASE pending[e].syncStatus = "PENDING_UPDATE"
          BY <1>1, <2>1, <3>1, <3>2, <3>3, <4>2 DEF AnswerFits, BaseInv, UniqueProviderIds
        <4>3. CASE pending[e].syncStatus = "PENDING_DELETE"
          BY <1>1, <3>3, <4>3 DEF AnswerFits
        <4> QED
          BY <2>2, <4>1, <4>2, <4>3, RowParts DEF Statuses
      <3>4. OutOfReach(o)'
        BY <1>1, <2>1, <3>1, <3>2, <3>3 DEF OutOfReach
      <3> QED
        BY <1>1, <3>1, <3>4 DEF Kept
    <2>4. ASSUME NEW d \in DOMAIN results PROVE AnswerFits(d)'
      BY <1>1, <2>1 DEF KeptInv, AnswerFits, OwnsAnswer, Live
    <2> QED
      BY <1>2, <2>1, <2>3, <2>4, KeptParts DEF OwedSafe, AnswersFit
  <1>4. CASE ~CanCompletePendingUpload(e)
    <2>1. uploader' = "sending" /\ results' = Without(e)
      BY <1>1, <1>4 DEF CheckResult
    <2>2. OwedSafe'
      BY <1>1, <2>1 DEF KeptInv, OwedSafe, Kept, OutOfReach
    <2>3. ASSUME NEW d \in DOMAIN results' PROVE AnswerFits(d)'
      <3>1. AnswerFits(d) /\ results'[d] = results[d]
        BY <2>1, <2>3 DEF KeptInv, Without
      <3>2. \A c \in DOMAIN results' : c \in DOMAIN results /\ results'[c] = results[c]
        BY <2>1 DEF Without
      <3> QED
        BY <1>1, <3>1, <3>2 DEF AnswerFits, OwnsAnswer, Live
    <2> QED
      BY <1>2, <2>2, <2>3, KeptParts DEF AnswersFit
  <1> QED
    BY <1>3, <1>4

(* Writing what was checked: no row that is owed something is the one written. *)
LEMMA WriteKept == BaseInv /\ KeptInv /\ WriteResult => KeptInv'
  <1> SUFFICES ASSUME BaseInv, KeptInv, WriteResult PROVE KeptInv'
    OBVIOUS
  <1>1. /\ UNCHANGED <<remote, clock, ui, pending, fetch, held, owed, exposed>>
        /\ uploader = "writing" /\ uploader' = "sending" /\ results' = Without(checked)
    BY DEF WriteResult, historyVars
  <1>2. /\ checked \in DOMAIN results /\ checked \in DOMAIN pending /\ checked \in Rows
        /\ AnswerFits(checked) /\ clock \in Nat
    BY <1>1, EventSyncAssumption DEF BaseInv, CopiesInv, TypeOK, KeptInv
  <1> DEFINE p == results[checked].pid
  <1>3. PICK t, r :
            /\ t \in Rows
            /\ row' = [row EXCEPT ![t] = r]
            /\ r.pid = p /\ InUse(r)
            /\ t = checked \/ (row[t].pid = p /\ p # NoPid) \/ t \in NewRow
    <2>1. CASE pending[checked].syncStatus = "PENDING_DELETE"
      <3>1. row' = [row EXCEPT ![checked] = Gone] /\ p = NoPid
        BY <1>2, <2>1 DEF WriteResult, AnswerFits
      <3>2. InUse(Gone) /\ Gone.pid = NoPid
        BY <1>2, NullEvent DEF InUse
      <3> QED
        BY <1>2, <3>1, <3>2
    <2>2. CASE pending[checked].syncStatus # "PENDING_DELETE"
      <3>1. PICK h \in held : results[checked] = SyncedRow(h[1], h[2])
        BY <1>2, <2>2 DEF BaseInv, CopiesInv
      <3>2. h[1] \in Pids /\ h[2] \in Stamps /\ h[2] <= clock
        BY <3>1 DEF BaseInv, TypeOK, KeptInv
      <3>3. InUse(results[checked])
        BY <1>2, <3>1, <3>2, RowParts DEF InUse, Used
      <3>4. PICK t \in UpsertTargets(checked, p) : row' = [row EXCEPT ![t] = results[checked]]
        BY <2>2 DEF WriteResult
      <3>5. t \in Rows /\ (t = checked \/ (row[t].pid = p /\ p # NoPid) \/ t \in NewRow)
        BY <1>2, <3>4, NewRowParts DEF UpsertTargets, WithPid
      <3> QED
        BY <3>3, <3>4, <3>5
    <2> QED
      BY <2>1, <2>2
  <1>4. \A d \in Rows : row'[d] = IF d = t THEN r ELSE row[d]
    BY <1>3 DEF BaseInv, TypeOK
  <1>5. ASSUME NEW o \in Firm' PROVE Kept(o)' /\ OutOfReach(o)'
    <2>1. Kept(o) /\ OutOfReach(o) /\ o[1] \in Rows
      BY <1>1, <1>5, OwedParts DEF KeptInv
    <2>2. o[1] # t
      BY <1>1, <1>3, <2>1, NewRowParts DEF OutOfReach, Kept, Live
    <2>3. row'[o[1]] = row[o[1]]
      BY <1>4, <2>1, <2>2
    <2> QED
      BY <1>1, <2>1, <2>3 DEF Kept, OutOfReach
  <1>6. ASSUME NEW d \in DOMAIN results' PROVE AnswerFits(d)'
    <2>1. /\ d \in DOMAIN results /\ d # checked /\ results'[d] = results[d]
          /\ AnswerFits(d) /\ d \in DOMAIN pending /\ d \in Rows
      BY <1>1, <1>6 DEF Without, KeptInv, BaseInv, TypeOK
    <2>2. \A c \in DOMAIN results' : c \in DOMAIN results /\ results'[c] = results[c]
      BY <1>1 DEF Without
    <2>3. ASSUME pending[d].syncStatus = "PENDING_INSERT" PROVE OwnsAnswer(d)'
      <3>1. OwnsAnswer(d)
        BY <2>1, <2>3 DEF AnswerFits
      <3>2. p # results[d].pid
        BY <1>2, <2>1, <3>1 DEF OwnsAnswer
      <3>3. Live(d)' => Live(d)
        <4>1. CASE d = t
          BY <1>3, <2>1, <4>1, NullEvent DEF NewRow, Unused, Live
        <4>2. CASE d # t
          BY <1>4, <2>1, <4>2 DEF Live
        <4> QED
          BY <4>1, <4>2
      <3>4. Live(d) => \A c \in Rows \ {d} : row'[c].pid # results[d].pid
        BY <1>3, <1>4, <3>1, <3>2 DEF OwnsAnswer
      <3> QED
        BY <1>1, <2>1, <2>2, <3>1, <3>3, <3>4 DEF OwnsAnswer
    <2> QED
      BY <1>1, <2>1, <2>3 DEF AnswerFits
  <1>7. AllInUse'
    <2>1. \A d \in Rows : InUse(row'[d])
      BY <1>3, <1>4 DEF KeptInv
    <2>2. \A d \in Rows : InUse(row[d])'
      BY <1>1, <2>1 DEF InUse, Used
    <2> QED
      BY <1>1, <2>2 DEF KeptInv, AllInUse, InUse, Used
  <1> QED
    BY <1>5, <1>6, <1>7, KeptParts DEF OwedSafe, AnswersFit

(* Every step of the uploader keeps the invariant. *)
LEMMA UploadKept == BaseInv /\ KeptInv /\ UploadNext => KeptInv'
  <1> SUFFICES ASSUME BaseInv, KeptInv, UploadNext PROVE KeptInv'
    OBVIOUS
  <1>1. ASSUME NEW e \in Rows, ServerAccepts(e) \/ ResponseLost(e) PROVE KeptInv'
    BY <1>1, AcceptsKept DEF ServerAccepts, ResponseLost
  <1>2. ASSUME NEW e \in Rows, ServerRejects(e) PROVE KeptInv'
    <2>1. UNCHANGED <<row, remote, clock, ui, uploader, pending, results, checked, fetch,
                      historyVars>>
      BY <1>2 DEF ServerRejects
    <2> QED
      BY <2>1 DEF KeptInv, Kept, OutOfReach, AnswerFits, OwnsAnswer, InUse, Used, Live, historyVars
  <1>3. CASE WriteThrows \/ PassEnds
    <2>1. /\ uploader' = "idle" /\ DOMAIN pending' = {} /\ DOMAIN results' = {}
          /\ UNCHANGED <<row, remote, clock, ui, fetch, historyVars>>
      BY <1>3 DEF WriteThrows, PassEnds, EndOfPass
    <2>2. OwedSafe'
      BY <2>1 DEF KeptInv, OwedSafe, Kept, OutOfReach, historyVars
    <2>3. AnswersFit' /\ AllInUse'
      BY <2>1 DEF KeptInv, AnswersFit, AllInUse, InUse, Used, historyVars
    <2> QED
      BY <2>2, <2>3, KeptParts
  <1> QED
    BY <1>1, <1>2, <1>3, ReadKept, CheckKept, WriteKept DEF UploadNext

-----------------------------------------------------------------------------
(* Fetches. *)

(* A fetch may list what the server has, pick rows that owe nothing, and change *)
(* other rows, as long as it gives no row the id of another one's answer.      *)
LEMMA FetchKeeps ==
    ASSUME BaseInv, KeptInv, UNCHANGED <<remote, clock, ui, uploadVars, historyVars>>,
           \A f \in Fetchers, q \in Pids :
               fetch'[f].seen[q] \in {fetch[f].seen[q], remote[q], NoEvent},
           \A f \in Fetchers, o \in Firm : \A q \in fetch'[f].victims :
               q \in fetch[f].victims \/ row[o[1]].pid # q,
           \A o \in Firm : row'[o[1]] = row[o[1]],
           \A d \in Rows : InUse(row'[d]),
           \A c \in DOMAIN results :
               pending[c].syncStatus = "PENDING_INSERT" /\ Live(c)' =>
                   Live(c) /\ \A d \in Rows \ {c} : row'[d].pid # results[c].pid
    PROVE  KeptInv'
  <1>1. UNCHANGED <<uploader, pending, results, checked, held, owed, exposed>>
    BY DEF uploadVars, historyVars
  <1>2. ASSUME NEW o \in Firm PROVE Kept(o)' /\ OutOfReach(o)'
    <2>1. Kept(o) /\ OutOfReach(o) /\ o[1] \in Rows /\ row'[o[1]] = row[o[1]]
      BY <1>2, OwedParts DEF KeptInv
    <2>2. ASSUME NEW f \in Fetchers, NEW q \in Pids, fetch'[f].seen[q].localId = o[1]
          PROVE  row[o[1]].pid = q
      BY <2>1, <2>2, NullEvent DEF OutOfReach
    <2>3. \A f \in Fetchers : \A q \in fetch'[f].victims : row[o[1]].pid # q
      BY <2>1 DEF OutOfReach, BaseInv, TypeOK
    <2>4. OutOfReach(o)'
      BY <1>1, <2>1, <2>2, <2>3 DEF OutOfReach
    <2> QED
      BY <2>1, <2>4 DEF Kept
  <1>3. ASSUME NEW c \in DOMAIN results PROVE AnswerFits(c)'
    <2>1. AnswerFits(c)
      BY DEF KeptInv
    <2>2. ASSUME pending[c].syncStatus = "PENDING_INSERT" PROVE OwnsAnswer(c)'
      <3>1. OwnsAnswer(c) /\ results[c].pid \in Pids
        BY <2>1, <2>2, AnswerPid DEF AnswerFits
      <3>2. ASSUME NEW f \in Fetchers, fetch'[f].seen[results[c].pid] # NoEvent
            PROVE  fetch'[f].seen[results[c].pid].localId = c
        BY <3>1, <3>2 DEF OwnsAnswer
      <3> QED
        BY <1>1, <2>2, <3>1, <3>2 DEF OwnsAnswer
    <2> QED
      BY <1>1, <2>1, <2>2 DEF AnswerFits
  <1>4. AllInUse'
    <2>1. \A d \in Rows : InUse(row[d])'
      BY <1>1 DEF InUse, Used
    <2> QED
      BY <1>1, <2>1 DEF KeptInv, AllInUse, InUse, Used
  <1> QED
    BY <1>1, <1>2, <1>3, <1>4, KeptParts DEF OwedSafe, AnswersFit

(* Storing a listed event. *)
LEMMA PersistKept ==
    ASSUME BaseInv, ListInv, KeptInv, NEW f \in Fetchers, NEW p \in Pids, PersistRemoteEvent(f, p)
    PROVE  KeptInv'
  <1> DEFINE event == fetch[f].seen[p]
  <1>1. /\ fetch' = [fetch EXCEPT ![f].todo = @ \ {p}]
        /\ UNCHANGED <<remote, clock, ui, uploadVars, historyVars>>
        /\ p \in fetch[f].todo /\ p # NoPid
    BY EventSyncAssumption DEF PersistRemoteEvent
  <1>2. event # NoEvent /\ <<p, event.content>> \in held
    BY <1>1 DEF ListInv, BaseInv, CopiesInv
  <1>3. \A g \in Fetchers : /\ fetch'[g].seen = fetch[g].seen
                             /\ fetch'[g].victims = fetch[g].victims
    BY <1>1 DEF BaseInv, TypeOK
  <1>4. CASE LocallyChanged(p)
    <2>1. row' = row
      BY <1>4 DEF PersistRemoteEvent
    <2>2. ASSUME NEW c \in DOMAIN results, pending[c].syncStatus = "PENDING_INSERT", Live(c)'
          PROVE  Live(c) /\ \A d \in Rows \ {c} : row'[d].pid # results[c].pid
      BY <2>1, <2>2 DEF KeptInv, AnswerFits, OwnsAnswer, Live
    <2> QED
      BY <1>1, <1>3, <2>1, <2>2, FetchKeeps DEF KeptInv
  <1>5. CASE ~LocallyChanged(p)
    <2> DEFINE r == SyncedRow(p, event.content)
    <2>1. PICK t \in SnapshotTargets(event, p) : row' = [row EXCEPT ![t] = r]
      BY <1>5 DEF PersistRemoteEvent
    <2>2. /\ t \in Rows
          /\ \/ t \in WithPid(p)
             \/ WithPid(p) = {} /\ t = event.localId /\ Live(t)
             \/ WithPid(p) = {} /\ t \in NewRow /\ ~Live(event.localId)
      BY <2>1, NewRowParts DEF SnapshotTargets, UpsertTargets, WithPid, Live
    <2>3. r.pid = p /\ InUse(r)
      <3>1. /\ r.pid = p /\ r.content = event.content /\ r.deletedAt = 0
            /\ r.syncStatus = "SYNCED" /\ event.content <= clock
        BY <1>2, HeldParts, RowParts DEF KeptInv, BaseInv
      <3>2. clock \in Nat /\ Used(p)
        BY <1>2, EventSyncAssumption DEF BaseInv, TypeOK, Used
      <3> HIDE DEF r
      <3> QED
        BY <3>1, <3>2 DEF InUse
    <2> HIDE DEF r
    <2>4. \A d \in Rows : row'[d] = IF d = t THEN r ELSE row[d]
      BY <2>1, <2>2 DEF BaseInv, TypeOK
    <2>5. ASSUME NEW o \in Firm PROVE row'[o[1]] = row[o[1]]
      <3>1. Kept(o) /\ OutOfReach(o) /\ o[1] \in Rows
        BY <2>5, OwedParts DEF KeptInv
      <3>2. CASE t \in WithPid(p)
        BY <1>5, <2>4, <3>1, <3>2 DEF LocallyChanged, Kept
      <3>3. CASE WithPid(p) = {} /\ t = event.localId
        <4>1. o[1] = event.localId => row[o[1]].pid = p
          BY <3>1 DEF OutOfReach
        <4> QED
          BY <1>1, <2>4, <3>1, <3>3, <4>1 DEF WithPid
      <3>4. CASE t \in NewRow
        BY <2>4, <3>1, <3>4, NewRowParts DEF Kept, Live
      <3> QED
        BY <2>2, <3>2, <3>3, <3>4
    <2>6. ASSUME NEW c \in DOMAIN results, pending[c].syncStatus = "PENDING_INSERT", Live(c)'
          PROVE  Live(c) /\ \A d \in Rows \ {c} : row'[d].pid # results[c].pid
      <3>1. OwnsAnswer(c) /\ c \in Rows /\ c \in DOMAIN pending
        BY <2>6 DEF KeptInv, AnswerFits, BaseInv, TypeOK
      <3>2. Live(c)
        <4>1. CASE c = t
          BY <1>1, <2>2, <3>1, <4>1, NullEvent DEF NewRow, Unused, WithPid, Live
        <4>2. CASE c # t
          BY <2>4, <2>6, <3>1, <4>2 DEF Live
        <4> QED
          BY <4>1, <4>2
      <3>3. ASSUME t # c PROVE p # results[c].pid
        <4>1. p = results[c].pid => event.localId = c /\ t \notin WithPid(p)
          BY <1>2, <2>2, <3>1, <3>2, <3>3 DEF OwnsAnswer, WithPid
        <4> QED
          BY <2>2, <3>2, <3>3, <4>1
      <3> QED
        BY <2>3, <2>4, <3>1, <3>2, <3>3 DEF OwnsAnswer
    <2>7. \A d \in Rows : InUse(row'[d])
      BY <2>3, <2>4 DEF KeptInv
    <2> QED
      BY <1>1, <1>3, <2>5, <2>6, <2>7, FetchKeeps
  <1> QED
    BY <1>4, <1>5

(* Every step of a fetch keeps the invariant. *)
LEMMA FetchKept ==
    ASSUME BaseInv, ListInv, KeptInv, NEW f \in Fetchers, FetchNext(f)
    PROVE  KeptInv'
  <1>1. ASSUME UNCHANGED row
        PROVE  /\ \A o \in Firm : row'[o[1]] = row[o[1]]
               /\ \A d \in Rows : InUse(row'[d])
               /\ \A c \in DOMAIN results :
                      pending[c].syncStatus = "PENDING_INSERT" /\ Live(c)' =>
                          Live(c) /\ \A d \in Rows \ {c} : row'[d].pid # results[c].pid
    BY <1>1 DEF KeptInv, AnswerFits, OwnsAnswer, Live
  <1>2. ASSUME ListRange(f) \/ \E S \in SUBSET Pids : MisreadRange(f, S)
        PROVE  KeptInv'
    <2>1. UNCHANGED <<row, remote, clock, ui, uploadVars, historyVars>>
      BY <1>2 DEF ListRange, MisreadRange
    <2>2. PICK new :
              /\ fetch' = [fetch EXCEPT ![f] = new]
              /\ \A q \in Pids : new.seen[q] \in {remote[q], NoEvent}
              /\ new.victims = {}
      <3>1. CASE ListRange(f)
        <4> DEFINE n == [at |-> "storing", seen |-> remote,
                         todo |-> {q \in Pids : remote[q] # NoEvent}, victims |-> {}]
        <4>1. fetch' = [fetch EXCEPT ![f] = n] /\ n.seen = remote /\ n.victims = {}
          BY <3>1 DEF ListRange
        <4> QED
          BY <4>1
      <3>2. CASE \E S \in SUBSET Pids : MisreadRange(f, S)
        <4>1. PICK S \in SUBSET Pids : MisreadRange(f, S)
          BY <3>2
        <4> DEFINE n == [at |-> "storing",
                         seen |-> [p \in Pids |-> IF p \in S THEN remote[p] ELSE NoEvent],
                         todo |-> {p \in S : remote[p] # NoEvent}, victims |-> {}]
        <4>2. fetch' = [fetch EXCEPT ![f] = n]
          BY <4>1 DEF MisreadRange
        <4>3. (\A q \in Pids : n.seen[q] \in {remote[q], NoEvent}) /\ n.victims = {}
          OBVIOUS
        <4> QED
          BY <4>2, <4>3
      <3> QED
        BY <1>2, <3>1, <3>2
    <2>3. /\ \A g \in Fetchers, q \in Pids :
                 fetch'[g].seen[q] \in {fetch[g].seen[q], remote[q], NoEvent}
          /\ \A g \in Fetchers : \A q \in fetch'[g].victims : q \in fetch[g].victims
      BY <2>2 DEF BaseInv, TypeOK
    <2> QED
      BY <1>1, <2>1, <2>3, FetchKeeps
  <1>3. ASSUME NEW p \in Pids, DeleteMissing(f, p) PROVE KeptInv'
    <2>1. /\ row' = [e \in Rows |-> IF e \in WithPid(p) THEN Gone ELSE row[e]]
          /\ fetch' = [fetch EXCEPT ![f].victims = @ \ {p}]
          /\ UNCHANGED <<remote, clock, faults, ui, uploadVars, historyVars>>
          /\ p \in fetch[f].victims /\ p # NoPid
      BY <1>3, EventSyncAssumption DEF DeleteMissing
    <2>2. \A g \in Fetchers : /\ fetch'[g].seen = fetch[g].seen
                               /\ fetch'[g].victims \subseteq fetch[g].victims
      BY <2>1 DEF BaseInv, TypeOK
    <2>3. ASSUME NEW o \in Firm PROVE row'[o[1]] = row[o[1]]
      <3>1. o[1] \in Rows /\ row[o[1]].pid # p
        BY <2>1, <2>3, OwedParts DEF KeptInv, OutOfReach
      <3> QED
        BY <2>1, <3>1 DEF WithPid
    <2>4. \A d \in Rows : InUse(row'[d])
      <3>1. InUse(Gone)
        BY NullEvent, EventSyncAssumption DEF InUse, BaseInv, TypeOK
      <3> QED
        BY <2>1, <3>1 DEF KeptInv
    <2>5. ASSUME NEW c \in DOMAIN results, pending[c].syncStatus = "PENDING_INSERT", Live(c)'
          PROVE  Live(c) /\ \A d \in Rows \ {c} : row'[d].pid # results[c].pid
      <3>1. OwnsAnswer(c) /\ results[c].pid # NoPid
        BY <2>5, AnswerPid DEF KeptInv, AnswerFits
      <3>2. \A d \in Rows : row'[d] = Gone \/ row'[d] = row[d]
        BY <2>1
      <3>3. Live(c)
        BY <2>5, <3>2 DEF Live
      <3> QED
        BY <3>1, <3>2, <3>3, NullEvent DEF OwnsAnswer
    <2> QED
      BY <2>1, <2>2, <2>3, <2>4, <2>5, FetchKeeps
  <1>4. ASSUME RangeFails(f) \/ RangeEnds(f) PROVE KeptInv'
    <2>1. /\ fetch' = [fetch EXCEPT ![f] = NoFetch]
          /\ UNCHANGED <<row, remote, clock, ui, uploadVars, historyVars>>
      BY <1>4 DEF RangeFails, RangeEnds
    <2>2. NoFetch.victims = {} /\ \A q \in Pids : NoFetch.seen[q] = NoEvent
      BY DEF NoFetch
    <2>3. /\ \A g \in Fetchers, q \in Pids :
                 fetch'[g].seen[q] \in {fetch[g].seen[q], remote[q], NoEvent}
          /\ \A g \in Fetchers : \A q \in fetch'[g].victims : q \in fetch[g].victims
      BY <2>1, <2>2 DEF BaseInv, TypeOK
    <2> QED
      BY <1>1, <2>1, <2>3, FetchKeeps
  <1>5. CASE SelectMissing(f)
    <2> DEFINE V == {p \in Pids : /\ fetch[f].seen[p] = NoEvent
                                  /\ \E e \in WithPid(p) : row[e].syncStatus = "SYNCED"}
    <2>1. /\ fetch' = [fetch EXCEPT ![f].at = "reconciling", ![f].victims = V]
          /\ UNCHANGED <<row, remote, clock, ui, uploadVars, historyVars>>
      BY <1>5 DEF SelectMissing
    <2>2. ASSUME NEW o \in Firm, NEW q \in V PROVE row[o[1]].pid # q
      <3>1. PICK e \in WithPid(q) : row[e].syncStatus = "SYNCED"
        BY <2>2
      <3>2. Kept(o) /\ o[1] \in Rows
        BY <2>2, OwedParts DEF KeptInv
      <3> QED
        BY <3>1, <3>2 DEF WithPid, Kept, BaseInv, UniqueProviderIds
    <2> HIDE DEF V
    <2>3. \A g \in Fetchers : /\ fetch'[g].seen = fetch[g].seen
                               /\ fetch'[g].victims = IF g = f THEN V ELSE fetch[g].victims
      BY <2>1 DEF BaseInv, TypeOK
    <2> QED
      BY <1>1, <2>1, <2>2, <2>3, FetchKeeps
  <1> QED
    BY <1>2, <1>3, <1>4, <1>5, PersistKept DEF FetchNext

-----------------------------------------------------------------------------
(* What others do to the server's calendar does not reach the rows their events *)
(* cannot name.                                                              *)
LEMMA ElsewhereKept == BaseInv /\ KeptInv /\ ElsewhereNext => KeptInv'
  <1> SUFFICES ASSUME BaseInv, KeptInv, ElsewhereNext PROVE KeptInv'
    OBVIOUS
  <1>1. PICK p, event :
            /\ p \in Pids
            /\ RemoteWrites(p, event)
            /\ event.localId \in {remote[p].localId, NoRow} \cup ForeignRows
            /\ Used(p) /\ event # NoEvent => event.localId = remote[p].localId /\ remote[p] # NoEvent
    <2>1. PICK p \in Pids : RemoteCreates(p) \/ RemoteEdits(p) \/ RemoteDeletes(p)
      BY DEF ElsewhereNext
    <2>2. CASE RemoteCreates(p)
      <3>1. PICK l \in ForeignRows \cup {NoRow} : RemoteWrites(p, [content |-> clock + 1, localId |-> l])
        BY <2>2 DEF RemoteCreates
      <3>2. ~Used(p)
        BY <2>2 DEF RemoteCreates, NewPid
      <3> QED
        BY <3>1, <3>2
    <2>3. CASE RemoteEdits(p)
      <3> DEFINE c == clock + 1
                 event == [remote[p] EXCEPT !.content = c]
      <3>1. RemoteWrites(p, event) /\ remote[p] # NoEvent /\ remote[p] \in RemoteType
        BY <2>3 DEF RemoteEdits, BaseInv, TypeOK
      <3> HIDE DEF c
      <3>2. event.localId = remote[p].localId
        BY <3>1 DEF RemoteType
      <3> QED
        BY <3>1, <3>2 DEF c
    <2>4. CASE RemoteDeletes(p)
      BY <2>4, NullEvent DEF RemoteDeletes
    <2> QED
      BY <2>1, <2>2, <2>3, <2>4
  <1>2. /\ remote' = [remote EXCEPT ![p] = event]
        /\ clock' = clock + 1
        /\ held' = IF event = NoEvent THEN held ELSE held \cup {<<p, clock + 1>>}
        /\ UNCHANGED <<row, ui, uploader, pending, results, checked, fetch, owed, exposed>>
    BY <1>1 DEF RemoteWrites, uploadVars
  <1>3. remote \in [Pids -> RemoteType] /\ clock \in Nat
    BY EventSyncAssumption DEF BaseInv, TypeOK
  <1>4. ASSUME NEW o \in Firm' PROVE Kept(o)' /\ OutOfReach(o)'
    <2>1. Kept(o) /\ OutOfReach(o) /\ o[1] \in Rows
      BY <1>2, <1>4, OwedParts DEF KeptInv
    <2>2. ASSUME NEW q \in Pids, remote'[q].localId = o[1] PROVE row[o[1]].pid = q
      <3>1. remote[q].localId = o[1]
        BY <1>1, <1>2, <1>3, <2>1, <2>2, NullEvent
      <3> QED
        BY <2>1, <3>1 DEF OutOfReach
    <2>3. OutOfReach(o)'
      BY <1>2, <2>1, <2>2 DEF OutOfReach
    <2> QED
      BY <1>2, <2>1, <2>3 DEF Kept
  <1>5. ASSUME NEW c \in DOMAIN results PROVE AnswerFits(c)'
    <2>1. AnswerFits(c)
      BY DEF KeptInv
    <2>2. ASSUME pending[c].syncStatus = "PENDING_INSERT" PROVE OwnsAnswer(c)'
      <3> DEFINE r == results[c].pid
      <3>1. OwnsAnswer(c) /\ r \in Pids /\ Used(r)
        BY <2>1, <2>2, AnswerPid DEF AnswerFits
      <3>2. remote'[r] # NoEvent => remote'[r].localId = c
        BY <1>1, <1>2, <1>3, <3>1 DEF OwnsAnswer
      <3> QED
        BY <1>2, <3>1, <3>2 DEF OwnsAnswer, Live
    <2> QED
      BY <1>2, <2>1, <2>2 DEF AnswerFits
  <1>6. AllInUse'
    <2>1. \A q : Used(q) => Used(q)'
      BY <1>2 DEF Used
    <2>2. ASSUME NEW r \in RowType \cup {Gone}, InUse(r) PROVE InUse(r)'
      <3>1. r.content \in Nat /\ r.deletedAt \in Nat
        BY NullEvent, EventSyncAssumption DEF RowType, Stamps
      <3> QED
        BY <1>2, <1>3, <2>1, <2>2, <3>1 DEF InUse
    <2>3. \A d \in Rows : InUse(row[d])'
      BY <1>2, <2>2 DEF KeptInv, BaseInv, TypeOK, InUse
    <2>4. \A d \in DOMAIN pending : InUse(pending[d])'
      BY <1>2, <2>2 DEF KeptInv, BaseInv, TypeOK, InUse
    <2>5. \A h \in held' : h[2] <= clock'
      BY <1>2, <1>3, EventSyncAssumption DEF KeptInv, BaseInv, TypeOK, Stamps
    <2> QED
      BY <1>2, <2>1, <2>3, <2>4, <2>5 DEF KeptInv, AllInUse
  <1> QED
    BY <1>2, <1>4, <1>5, <1>6, KeptParts DEF OwedSafe, AnswersFit

(* Doing nothing keeps the invariant. *)
LEMMA StutterKept == KeptInv /\ UNCHANGED vars => KeptInv'
  BY DEF vars, uploadVars, historyVars, KeptInv, Kept, OutOfReach, AnswerFits, OwnsAnswer,
         InUse, Used, Live

(* Every step keeps the invariant. *)
LEMMA StepKept == BaseInv /\ ListInv /\ KeptInv /\ [Next]_vars => KeptInv'
  BY UserKept, UploadKept, FetchKept, ElsewhereKept, StutterKept DEF Next

-----------------------------------------------------------------------------
(* What a thread may still do to a row with an unsent change that no event of   *)
(* another installation can name is bounded by KeptInv                         *)
(* (calendar_sync_service.cpp, calendar_sync_internal.h).                     *)
THEOREM KeptInductive == Spec => []KeptInv
  <1>1. Init => IInv /\ KeptInv
    BY InitIInv, InitKept
  <1>2. IInv /\ KeptInv /\ [Next]_vars => (IInv /\ KeptInv)'
    BY StepIInv, StepKept DEF IInv
  <1> QED
    BY <1>1, <1>2, PTL DEF Spec

(* Such a change, saved at none of the moments Exposed names, stays in a pending *)
(* row until the server accepts it or the user replaces it: CanCompletePendingUpload, *)
(* the guards of PersistRemoteEvent and the choice of the rows to delete are    *)
(* enough, for any number of events, fetches, lost answers and misread errors.  *)
THEOREM EditKeptHolds == Spec => []EditKept
  <1>1. KeptInv => EditKept
    BY DEF KeptInv, EditKept
  <1> QED
    BY <1>1, KeptInductive, PTL
-----------------------------------------------------------------------------
(* Which row a provider id stands for.                                        *)

(* Provider id p is known as row d's: in the table, to the editor, or to a pass. *)
Has(d, p) ==
    \/ row[d].pid = p
    \/ ui.id = d /\ ui.snap.pid = p
    \/ d \in DOMAIN pending /\ pending[d].pid = p
    \/ d \in DOMAIN results /\ pending[d].syncStatus # "PENDING_DELETE" /\ results[d].pid = p

(* Event p names row e by its local_id, and no copy of it says otherwise.      *)
Names(p, e) == remote[p].localId = e \/ \E f \in Fetchers : fetch[f].seen[p].localId = e

OwnEvent(p, e) ==
    /\ remote[p] # NoEvent => remote[p].localId = e
    /\ \A f \in Fetchers : fetch[f].seen[p] # NoEvent => fetch[f].seen[p].localId = e

SameName == \A p \in Pids : \E e \in Rows \cup {NoRow} : OwnEvent(p, e)

(* Row e stands for several events, or for one it has not been given the id of. *)
Several(e) ==
    \/ \E p, q \in Pids \cup {NoPid} : p # q /\ Has(e, p) /\ Has(e, q)
    \/ \E p \in Pids : Names(p, e)

(* Then each of them is an event the row was uploaded as, and no other row knows  *)
(* its id.                                                                   *)
OwnOnly(e, p) == OwnEvent(p, e) /\ \A d \in Rows \ {e} : ~Has(d, p)
Sole(e) ==
    Live(e) /\ Several(e) => \A p \in Pids : Has(e, p) \/ Names(p, e) => OwnOnly(e, p)

SoleInv == SameName /\ \A e \in Rows \ ForeignRows : Sole(e)

LEMMA InitSole == Init => SoleInv
  <1> SUFFICES ASSUME Init PROVE SoleInv
    OBVIOUS
  <1>1. \A e \in Rows : ~Live(e)
    BY DEF Init, Live
  <1>2. SameName
    BY DEF Init, SameName, OwnEvent, NoFetch
  <1> QED
    BY <1>1, <1>2 DEF SoleInv, Sole

(* What is known as anybody's is in use.                                      *)
LEMMA HasUsed ==
    ASSUME BaseInv, KeptInv, NEW d \in Rows, NEW p \in Pids, Has(d, p)
    PROVE  Used(p)
  <1>1. p # NoPid
    BY EventSyncAssumption
  <1>2. d \in DOMAIN results /\ results[d].pid = p => Used(p)
    BY <1>1, AnswerPid
  <1> QED
    BY <1>1, <1>2 DEF Has, KeptInv, InUse

LEMMA NamesUsed ==
    ASSUME BaseInv, KeptInv, NEW e \in Rows, NEW p \in Pids, Names(p, e)
    PROVE  Used(p)
  BY FreshId, NullEvent DEF Names

(* A row that nothing refers to is not several events.                        *)
LEMMA UnusedNotSeveral ==
    ASSUME BaseInv, NEW e \in Rows \ ForeignRows, Unused(e), row' \in [Rows -> RowType \cup {Gone}],
           ui'.id # e, e \notin DOMAIN pending', e \notin DOMAIN results',
           UNCHANGED remote,
           \A f \in Fetchers, p \in Pids : fetch'[f].seen[p] = fetch[f].seen[p]
    PROVE  ~Several(e)'
  BY DEF Unused, Several, Has, Names

(* A step that makes row e known by no more ids, and no other row by e's.      *)
LEMMA SoleStays ==
    ASSUME NEW e \in Rows, Sole(e),
           Live(e)' => /\ Live(e)
                       /\ \A p \in Pids \cup {NoPid} : Has(e, p)' => Has(e, p)
                       /\ \A p \in Pids : Names(p, e)' => Names(p, e),
           \A p \in Pids : Has(e, p) \/ Names(p, e) =>
               /\ OwnEvent(p, e) => OwnEvent(p, e)'
               /\ \A d \in Rows \ {e} : Has(d, p)' => Has(d, p)
    PROVE  Sole(e)'
  BY DEF Sole, Several, OwnOnly

(* Row t is written with id p, which is known as row c's, or is the id of an event  *)
(* that names c.                                                             *)
LEMMA TargetKeeps ==
    ASSUME BaseInv, KeptInv, SoleInv,
           NEW c \in Rows \cup {NoRow}, NEW p \in Pids \cup {NoPid}, NEW t \in UpsertTargets(c, p),
           \/ c = NoRow /\ p = NoPid
           \/ c \in Rows /\ Has(c, p)
           \/ p \in Pids /\ \E f \in Fetchers : fetch[f].seen[p] # NoEvent /\ fetch[f].seen[p].localId = c,
           t \in Rows, row' \in [Rows -> RowType \cup {Gone}],
           row'[t].pid = p, \A d \in Rows \ {t} : row'[d] = row[d],
           ui' \in {ui, Closed}, pending' = pending,
           \A d \in DOMAIN results' : d \in DOMAIN results /\ results'[d] = results[d],
           UNCHANGED remote,
           \A f \in Fetchers, q \in Pids : fetch'[f].seen[q] = fetch[f].seen[q]
    PROVE  SoleInv'
  <1>0. NoRow \notin Rows /\ NoPid \notin Pids
    BY EventSyncAssumption
  <1>1. SameName'
    <2>1. \A q \in Pids, e \in Rows \cup {NoRow} : OwnEvent(q, e) => OwnEvent(q, e)'
      BY DEF OwnEvent
    <2> QED
      BY <2>1 DEF SoleInv, SameName
  <1>2. ASSUME NEW e \in Rows \ ForeignRows PROVE Sole(e)'
    <2>1. Sole(e)
      BY DEF SoleInv
    <2>2. \A d \in Rows, q \in Pids : Has(d, q)' => Has(d, q) \/ (d = t /\ q = p)
      BY NullEvent, EventSyncAssumption DEF Has
    <2>3. \A q \in Pids : Names(q, e)' => Names(q, e)
      BY DEF Names
    <2>4. \A q \in Pids : OwnEvent(q, e) => OwnEvent(q, e)'
      BY DEF OwnEvent
    <2>5. p # NoPid => p \in Pids
      OBVIOUS
    \* an id e goes with is known as e's only
    <2>6. ASSUME Live(e), p \in Pids, Has(e, p) \/ Names(p, e), Several(e) PROVE c = e
      <3>1. OwnOnly(e, p)
        BY <2>1, <2>6 DEF Sole
      <3> QED
        BY <1>0, <2>6, <3>1 DEF OwnOnly, OwnEvent
    <2>7. CASE t # e
      <3>1. Live(e)' => Live(e)
        BY <2>7 DEF Live
      <3>2. \A q \in Pids \cup {NoPid} : Live(e) /\ Has(e, q)' => Has(e, q)
        <4>1. e # NoRow
          BY EventSyncAssumption
        <4> QED
          BY <2>7, <4>1 DEF Has, Closed
      <3>3. Live(e) /\ c = e => FALSE
        BY <2>7 DEF UpsertTargets
      <3>4. CASE ~Live(e) \/ ~Several(e)
        <4>1. ~Several(e)' \/ ~Live(e)'
          BY <3>1, <3>2, <2>3, <3>4 DEF Several
        <4> QED
          BY <4>1 DEF Sole
      <3>5. CASE Live(e) /\ Several(e)
        <4>1. \A q \in Pids : Has(e, q) \/ Names(q, e) => q # p
          BY <2>6, <3>3, <3>5
        <4> QED
          BY <2>1, <2>2, <2>3, <2>4, <3>1, <3>2, <4>1, SoleStays
      <3> QED
        BY <3>4, <3>5
    <2>8. CASE t = e /\ WithPid(p) # {} /\ ~Live(c)
      <3>1. row[e].pid = p /\ Live(e)
        BY <2>8, NullEvent DEF UpsertTargets, WithPid, Live
      <3>2. \A d \in Rows, q \in Pids : Has(d, q)' => Has(d, q)
        BY <2>2, <2>8, <3>1 DEF Has
      <3>3. \A q \in Pids \cup {NoPid} : Has(e, q)' => Has(e, q)
        BY <2>8, <3>1, EventSyncAssumption DEF Has, Closed
      <3> QED
        BY <2>1, <2>3, <2>4, <3>1, <3>2, <3>3, SoleStays
    <2>9. CASE t = e /\ WithPid(p) = {} /\ ~Live(c)
      <3>1. Unused(e)
        BY <2>9 DEF UpsertTargets, NewRow
      <3>2. ui'.id # e /\ e \notin DOMAIN pending' /\ e \notin DOMAIN results'
        BY <3>1, EventSyncAssumption DEF Unused, Closed, BaseInv, TypeOK
      <3>3. ~Several(e)'
        BY <3>1, <3>2, UnusedNotSeveral
      <3> QED
        BY <3>3 DEF Sole
    <2>10. CASE t = e /\ Live(c)
      <3>1. c = e /\ Live(e)
        BY <2>10 DEF UpsertTargets
      <3>2. CASE Has(e, p)
        <4>1. \A d \in Rows, q \in Pids : Has(d, q)' => Has(d, q)
          BY <2>2, <2>10, <3>2
        <4>2. \A q \in Pids \cup {NoPid} : Has(e, q)' => Has(e, q)
          BY <2>10, <3>2, EventSyncAssumption DEF Has, Closed
        <4> QED
          BY <2>1, <2>3, <2>4, <3>1, <4>1, <4>2, SoleStays
      <3>3. CASE p \in Pids /\ Names(p, e)
        <4>1. Several(e) /\ OwnOnly(e, p)
          BY <2>1, <3>1, <3>3 DEF Several, Sole
        <4>2. ASSUME NEW q \in Pids, Has(e, q)' \/ Names(q, e)' PROVE OwnOnly(e, q)'
          <5>1. Has(e, q) \/ Names(q, e)
            BY <2>2, <2>3, <3>3, <4>2
          <5>2. OwnOnly(e, q)
            BY <2>1, <3>1, <4>1, <5>1 DEF Sole
          <5> QED
            BY <2>2, <2>4, <2>10, <5>2 DEF OwnOnly
        <4> QED
          BY <4>2 DEF Sole
      <3> QED
        BY <1>0, <3>1, <3>2, <3>3 DEF Names
    <2> QED
      BY <2>7, <2>8, <2>9, <2>10
  <1> QED
    BY <1>1, <1>2 DEF SoleInv

(* A step that writes no provider id and hears nothing new of the server.      *)
LEMMA CalmKeeps ==
    ASSUME BaseInv, SoleInv,
           \A e \in Rows : Live(e)' => Live(e) /\ row'[e].pid = row[e].pid,
           \A e \in Rows : ~Live(e)' => row'[e].pid = NoPid,
           \A d \in Rows : ui'.id = d => Has(d, ui'.snap.pid),
           \A d \in DOMAIN pending' : Has(d, pending'[d].pid),
           \A d \in DOMAIN results' :
               /\ d \in DOMAIN results /\ results'[d] = results[d]
               /\ pending'[d] = pending[d],
           \A p \in Pids :
               /\ remote'[p] = remote[p]
               /\ \A f \in Fetchers : fetch'[f].seen[p] \in {fetch[f].seen[p], remote[p], NoEvent}
    PROVE  SoleInv'
  <1>1. ASSUME NEW p \in Pids, NEW e, OwnEvent(p, e) PROVE OwnEvent(p, e)'
    BY <1>1 DEF OwnEvent
  <1>2. SameName'
    BY <1>1 DEF SoleInv, SameName
  <1>3. ASSUME NEW e \in Rows \ ForeignRows PROVE Sole(e)'
    <2>1. \A d \in Rows, p \in Pids : Has(d, p)' => Has(d, p)
      BY EventSyncAssumption DEF Has
    <2>2. Live(e)' => \A p \in Pids \cup {NoPid} : Has(e, p)' => Has(e, p)
      BY DEF Has
    <2>3. \A p \in Pids : Names(p, e)' => Names(p, e)
      BY NullEvent DEF Names
    <2> QED
      BY <1>1, <2>1, <2>2, <2>3, SoleStays DEF SoleInv
  <1> QED
    BY <1>2, <1>3 DEF SoleInv

(* The same when the server changes or loses events, but gains none. *)
LEMMA NoNewsKeeps ==
    ASSUME BaseInv, SoleInv, UNCHANGED <<row, fetch>>,
           \A d \in Rows, q \in Pids \cup {NoPid} : Has(d, q)' => Has(d, q),
           \A q \in Pids :
               \/ remote'[q] = NoEvent
               \/ remote[q] # NoEvent /\ remote'[q].localId = remote[q].localId
    PROVE  SoleInv'
  <1>1. ASSUME NEW q \in Pids, NEW e, OwnEvent(q, e) PROVE OwnEvent(q, e)'
    BY <1>1 DEF OwnEvent
  <1>2. SameName'
    BY <1>1 DEF SoleInv, SameName
  <1>3. ASSUME NEW e \in Rows \ ForeignRows PROVE Sole(e)'
    <2>1. Live(e)' => Live(e)
      BY DEF Live
    <2>2. \A q \in Pids : Names(q, e)' => Names(q, e)
      BY NullEvent DEF Names
    <2> QED
      BY <1>1, <2>1, <2>2, SoleStays DEF SoleInv
  <1> QED
    BY <1>2, <1>3 DEF SoleInv

(* A new event is the row's it was uploaded from, or names no row of ours.      *)
LEMMA NewEventKeeps ==
    ASSUME BaseInv, KeptInv, SoleInv, UNCHANGED <<row, ui, pending, fetch>>,
           NEW p \in Pids, ~Used(p), NEW u \in Rows \cup {NoRow},
           remote'[p].localId = u,
           \A q \in Pids \ {p} : remote'[q] = remote[q],
           \/ u \in ForeignRows \cup {NoRow} /\ results' = results
           \/ /\ u \in DOMAIN pending /\ pending[u].pid = NoPid
              /\ \A d \in DOMAIN results' :
                     \/ d \in DOMAIN results /\ results'[d] = results[d]
                     \/ d = u /\ results'[d].pid = p
    PROVE  SoleInv'
  <1>1. NoRow \notin Rows /\ p # NoPid
    BY EventSyncAssumption
  <1>2. /\ \A d \in Rows : ~Has(d, p)
        /\ \A e \in Rows : ~Names(p, e)
        /\ \A f \in Fetchers : fetch[f].seen[p] = NoEvent
    BY <1>1, FreshId, HasUsed, NamesUsed
  <1>3. OwnEvent(p, u)'
    BY <1>2 DEF OwnEvent
  <1>4. ASSUME NEW q \in Pids \ {p}, NEW e, OwnEvent(q, e) PROVE OwnEvent(q, e)'
    BY <1>4 DEF OwnEvent
  <1>5. SameName'
    BY <1>3, <1>4 DEF SoleInv, SameName
  <1>6. \A d \in Rows, q \in Pids \cup {NoPid} : Has(d, q)' => Has(d, q) \/ (d = u /\ q = p)
    BY <1>1 DEF Has
  <1>7. \A e \in Rows, q \in Pids : Names(q, e)' => Names(q, e) \/ (e = u /\ q = p)
    BY <1>1 DEF Names
  <1>8. ASSUME NEW e \in Rows \ ForeignRows PROVE Sole(e)'
    <2>1. Sole(e) /\ (Live(e)' <=> Live(e))
      BY DEF SoleInv, Live
    <2>2. CASE e # u
      <3>1. \A q \in Pids : Has(e, q) \/ Names(q, e) => q # p
        BY <1>2
      <3>2. \A q \in Pids : Has(e, q) \/ Names(q, e) => (OwnEvent(q, e) => OwnEvent(q, e)')
        BY <1>4, <3>1
      <3> QED
        BY <1>6, <1>7, <2>1, <2>2, <3>1, <3>2, SoleStays
    <2>3. CASE e = u
      <3>1. Has(e, NoPid)
        BY <2>3, <1>1 DEF Has
      <3>2. ASSUME NEW q \in Pids, Has(e, q)' \/ Names(q, e)', Live(e) PROVE OwnOnly(e, q)'
        <4>1. CASE q = p
          BY <1>2, <1>3, <1>6, <2>3, <4>1 DEF OwnOnly
        <4>2. CASE q # p
          <5>1. Has(e, q) \/ Names(q, e)
            BY <1>6, <1>7, <3>2, <4>2
          <5>2. Several(e)
            BY <3>1, <5>1, EventSyncAssumption DEF Several
          <5>3. OwnOnly(e, q)
            BY <2>1, <3>2, <5>1, <5>2 DEF Sole
          <5> QED
            BY <1>4, <1>6, <4>2, <5>3 DEF OwnOnly
        <4> QED
          BY <4>1, <4>2
      <3> QED
        BY <2>1, <3>2 DEF Sole
    <2> QED
      BY <2>2, <2>3
  <1> QED
    BY <1>5, <1>8 DEF SoleInv

(* A window's write of one row. *)
LEMMA WriteOne ==
    ASSUME BaseInv, NEW t \in Rows, NEW r, UserWrites([d \in {t} |-> r])
    PROVE  row' = [row EXCEPT ![t] = r]
  <1>1. row' = [e \in Rows |-> IF e \in {t} THEN r ELSE row[e]]
    BY DEF UserWrites
  <1> QED
    BY <1>1 DEF BaseInv, TypeOK

(* Marking rows deleted leaves them their ids. *)
LEMMA MarkedPids ==
    ASSUME BaseInv, NEW S, S \subseteq Rows, \A e \in S : Live(e), UserWrites(Marked(S))
    PROVE  /\ row' \in [Rows -> RowType \cup {Gone}]
           /\ \A e \in Rows : Live(e)' => Live(e) /\ row'[e].pid = row[e].pid
  <1>1. row' = [e \in Rows |-> IF e \in S THEN Marked(S)[e] ELSE row[e]]
    BY DEF UserWrites, Marked
  <1>2. ASSUME NEW e \in S PROVE Marked(S)[e].pid = row[e].pid
    <2>1. row[e] \in RowType
      BY <1>2 DEF BaseInv, TypeOK, Live
    <2> QED
      BY <1>2, <2>1 DEF Marked, RowType
  <1> QED
    BY <1>1, <1>2, MarkedKeeps DEF Live

(* A row that is not there carries no id. *)
LEMMA GoneHasNoPid ==
    ASSUME row' \in [Rows -> RowType \cup {Gone}], NEW e \in Rows, ~Live(e)'
    PROVE  row'[e].pid = NoPid
  BY NullEvent DEF Live

LEMMA UserSole == BaseInv /\ KeptInv /\ SoleInv /\ UserNext => SoleInv'
  <1> SUFFICES ASSUME BaseInv, KeptInv, SoleInv, UserNext PROVE SoleInv'
    OBVIOUS
  <1>0. BaseInv' /\ row' \in [Rows -> RowType \cup {Gone}]
    BY UserStep DEF BaseInv, TypeOK
  <1>1. ASSUME ui' \in {ui, Closed}, UNCHANGED <<remote, uploadVars, fetch>>,
               \A e \in Rows : Live(e)' => Live(e) /\ row'[e].pid = row[e].pid
        PROVE  SoleInv'
    <2>1. \A d \in Rows : ui'.id = d => Has(d, ui'.snap.pid)
      BY <1>1, EventSyncAssumption DEF Has, Closed
    <2>2. \A d \in DOMAIN pending' : Has(d, pending'[d].pid)
      BY <1>1 DEF Has, uploadVars
    <2>3. \A e \in Rows : ~Live(e)' => row'[e].pid = NoPid
      BY <1>0, GoneHasNoPid
    <2> QED
      BY <1>1, <2>1, <2>2, <2>3, CalmKeeps DEF uploadVars
  <1>2. ASSUME NEW t \in Rows, NEW r, UserWrites([d \in {t} |-> r]),
               NEW c \in Rows \cup {NoRow}, t \in UpsertTargets(c, r.pid), r.pid \in Pids \cup {NoPid},
               (c = NoRow /\ r.pid = NoPid) \/ (c \in Rows /\ Has(c, r.pid)),
               ui' \in {ui, Closed}, UNCHANGED <<remote, uploadVars, fetch>>
        PROVE  SoleInv'
    <2>1. row' = [row EXCEPT ![t] = r]
      BY <1>2, WriteOne
    <2>2. row'[t].pid = r.pid /\ \A d \in Rows \ {t} : row'[d] = row[d]
      BY <2>1 DEF BaseInv, TypeOK
    <2> QED
      BY <1>0, <1>2, <2>2, TargetKeeps DEF uploadVars
  <1>3. CASE CreateEvent
    <2> DEFINE r == [pid |-> NoPid, content |-> clock + 1, deletedAt |-> 0,
                     syncStatus |-> "PENDING_INSERT"]
    <2>1. PICK t \in NewRow : UserWrites([d \in {t} |-> r])
      BY <1>3 DEF CreateEvent
    <2>2. UNCHANGED <<remote, ui, uploadVars, fetch>>
      BY <1>3 DEF CreateEvent
    <2>3. t \in Rows /\ r.pid = NoPid /\ t \in UpsertTargets(NoRow, r.pid)
      BY EventSyncAssumption DEF NewRow, UpsertTargets, Live, WithPid
    <2> HIDE DEF r
    <2> QED
      BY <1>2, <2>1, <2>2, <2>3
  <1>4. ASSUME NEW e \in Rows, OpenEventDialog(e) \/ ReadForDelete(e) PROVE SoleInv'
    <2>1. /\ UNCHANGED <<row, remote, uploadVars, fetch>>
          /\ ui'.id = e /\ ui'.snap = row[e]
      BY <1>4 DEF OpenEventDialog, ReadForDelete
    <2>2. \A d \in Rows : ui'.id = d => Has(d, ui'.snap.pid)
      BY <2>1 DEF Has
    <2>3. \A d \in DOMAIN pending' : Has(d, pending'[d].pid)
      BY <2>1 DEF Has, uploadVars
    <2>4. \A d \in Rows : ~Live(d)' => row'[d].pid = NoPid
      BY <1>0, GoneHasNoPid
    <2>5. \A d \in Rows : Live(d)' => Live(d) /\ row'[d].pid = row[d].pid
      BY <2>1 DEF Live
    <2> QED
      BY <2>1, <2>2, <2>3, <2>4, <2>5, CalmKeeps DEF uploadVars
  <1>5. CASE CloseEventDialog
    BY <1>1, <1>5 DEF CloseEventDialog, Live
  <1>6. CASE SaveEvent
    <2> DEFINE status == IF ui.snap.pid = NoPid THEN "PENDING_INSERT" ELSE "PENDING_UPDATE"
               r == [ui.snap EXCEPT !.content = clock + 1, !.deletedAt = 0,
                                    !.syncStatus = status]
    <2>1. PICK t \in UpsertTargets(ui.id, ui.snap.pid) : UserWrites([d \in {t} |-> r])
      BY <1>6 DEF SaveEvent
    <2>2. ui.snap \in RowType /\ ui.id \in Rows /\ ~Conflict(ui.id, ui.snap.pid)
      BY <1>6 DEF SaveEvent, BaseInv, TypeOK, Closed
    <2>3. r.pid = ui.snap.pid /\ ui.snap.pid \in Pids \cup {NoPid}
      BY <2>2 DEF RowType
    <2>4. t \in Rows /\ Has(ui.id, ui.snap.pid)
      BY <2>1, <2>2, UpsertTargetsParts DEF Has
    <2>5. ui' \in {ui, Closed} /\ UNCHANGED <<remote, uploadVars, fetch>>
      BY <1>6 DEF SaveEvent
    <2> HIDE DEF r, status
    <2> QED
      BY <1>2, <2>1, <2>2, <2>3, <2>4, <2>5
  <1>7. CASE DeleteEvent
    <2>1. /\ row' = [row EXCEPT ![ui.id] = Gone]
          /\ ui' = Closed /\ UNCHANGED <<remote, uploadVars, fetch>>
      BY <1>7 DEF DeleteEvent
    <2>2. \A e \in Rows : row'[e] = Gone \/ row'[e] = row[e]
      BY <2>1 DEF BaseInv, TypeOK
    <2> QED
      BY <1>1, <2>1, <2>2 DEF Live
  <1>8. CASE SoftDelete
    <2>1. UserWrites(Marked({e \in {ui.id} : Live(e)}))
      BY <1>8 DEF SoftDelete
    <2>2. \A e \in Rows : Live(e)' => Live(e) /\ row'[e].pid = row[e].pid
      BY <2>1, MarkedPids DEF Live
    <2> QED
      BY <1>1, <1>8, <2>2 DEF SoftDelete
  <1>9. CASE SoftDeleteAllByCalendar
    <2>1. UserWrites(Marked({e \in Rows : Live(e) /\ row[e].deletedAt = 0}))
      BY <1>9 DEF SoftDeleteAllByCalendar
    <2>2. \A e \in Rows : Live(e)' => Live(e) /\ row'[e].pid = row[e].pid
      BY <2>1, MarkedPids
    <2> QED
      BY <1>1, <1>9, <2>2 DEF SoftDeleteAllByCalendar
  <1> QED
    BY <1>3, <1>4, <1>5, <1>6, <1>7, <1>8, <1>9 DEF UserNext

(* A request the server accepts: a new event is its row's, any other stays whose *)
(* it was.                                                                   *)
LEMMA AcceptsSole ==
    ASSUME BaseInv, KeptInv, SoleInv, NEW u \in Rows, NEW p \in Pids, Accepts(u, p),
           \/ results' = results
           \/ results' = [d \in DOMAIN results \cup {u} |->
                             IF d = u THEN Answer(u, p) ELSE results[d]]
    PROVE  SoleInv'
  <1>1. UNCHANGED <<row, ui, pending, fetch>> /\ u \in DOMAIN pending
    BY AcceptsKeeps DEF Accepts
  <1>2. \A d \in DOMAIN results' :
            \/ d \in DOMAIN results /\ results'[d] = results[d]
            \/ d = u /\ results'[d] = Answer(u, p)
    OBVIOUS
  <1>3. \A q \in Pids \ {p} : remote'[q] = remote[q]
    BY AppliedParts
  <1>4. CASE /\ pending[u].syncStatus = "PENDING_INSERT"
             /\ ~Used(p) /\ remote'[p].localId = u /\ Answer(u, p).pid = p
    <2>1. pending[u].pid = NoPid
      BY <1>1, <1>4 DEF KeptInv, InUse
    <2>2. \A d \in DOMAIN results' :
              \/ d \in DOMAIN results /\ results'[d] = results[d]
              \/ d = u /\ results'[d].pid = p
      BY <1>2, <1>4
    <2> QED
      BY <1>1, <1>3, <1>4, <2>1, <2>2, NewEventKeeps
  <1>5. ASSUME \/ /\ remote'[p] = NoEvent
                  /\ pending[u].syncStatus = "PENDING_DELETE"
               \/ /\ remote[p] # NoEvent /\ remote'[p].localId = remote[p].localId
                  /\ pending[u].pid = p /\ Answer(u, p).pid = p
        PROVE  SoleInv'
    <2>1. \A d \in Rows, q \in Pids \cup {NoPid} : Has(d, q)' => Has(d, q)
      BY <1>1, <1>2, <1>5 DEF Has
    <2>2. ASSUME NEW q \in Pids
          PROVE  \/ remote'[q] = NoEvent
                 \/ remote[q] # NoEvent /\ remote'[q].localId = remote[q].localId
      BY <1>3, <1>5
    <2> QED
      BY <1>1, <2>1, <2>2, NoNewsKeeps
  <1> QED
    BY <1>4, <1>5, AppliedParts

LEMMA UploadSole == BaseInv /\ KeptInv /\ SoleInv /\ UploadNext => SoleInv'
  <1> SUFFICES ASSUME BaseInv, KeptInv, SoleInv, UploadNext PROVE SoleInv'
    OBVIOUS
  <1>0. row' \in [Rows -> RowType \cup {Gone}]
    BY UploadStep DEF BaseInv, TypeOK
  <1>1. ASSUME UNCHANGED <<ui, remote, fetch>>,
               \A e \in Rows : Live(e)' => Live(e) /\ row'[e].pid = row[e].pid,
               \A d \in DOMAIN pending' : Has(d, pending'[d].pid),
               \A d \in DOMAIN results' :
                   /\ d \in DOMAIN results /\ results'[d] = results[d]
                   /\ pending'[d] = pending[d]
        PROVE  SoleInv'
    <2>1. \A d \in Rows : ui'.id = d => Has(d, ui'.snap.pid)
      BY <1>1 DEF Has
    <2>2. \A e \in Rows : ~Live(e)' => row'[e].pid = NoPid
      BY <1>0, GoneHasNoPid
    <2> QED
      BY <1>1, <2>1, <2>2, CalmKeeps
  <1>2. \A d \in DOMAIN pending : Has(d, pending[d].pid)
    BY DEF Has
  <1>3. CASE ReadPending
    <2>1. /\ UNCHANGED <<row, ui, remote, fetch, results>> /\ DOMAIN results = {}
          /\ pending' = [e \in PendingRows |-> row[e]]
      BY <1>3 DEF ReadPending, BaseInv, CopiesInv
    <2>2. \A d \in DOMAIN pending' : Has(d, pending'[d].pid)
      BY <2>1 DEF Has
    <2> QED
      BY <1>1, <2>1, <2>2 DEF Live
  <1>4. ASSUME NEW e \in Rows, ServerAccepts(e) \/ ResponseLost(e) PROVE SoleInv'
    BY <1>4, AcceptsSole DEF ServerAccepts, ResponseLost
  <1>5. ASSUME NEW e \in Rows, ServerRejects(e) \/ CheckResult(e) PROVE SoleInv'
    <2>1. /\ UNCHANGED <<row, ui, remote, fetch, pending>>
          /\ results' \in {results, Without(e)}
      BY <1>5 DEF ServerRejects, CheckResult
    <2>2. \A d \in DOMAIN results' : d \in DOMAIN results /\ results'[d] = results[d]
      BY <2>1 DEF Without
    <2> QED
      BY <1>1, <1>2, <2>1, <2>2 DEF Live
  <1>6. CASE WriteThrows \/ PassEnds
    <2>1. /\ UNCHANGED <<row, ui, remote, fetch>>
          /\ DOMAIN pending' = {} /\ DOMAIN results' = {}
      BY <1>6 DEF WriteThrows, PassEnds, EndOfPass
    <2> QED
      BY <1>1, <2>1 DEF Live
  <1>7. CASE WriteResult
    <2> DEFINE p == results[checked].pid
    <2>1. /\ UNCHANGED <<ui, remote, fetch, pending>>
          /\ checked \in DOMAIN results /\ checked \in DOMAIN pending /\ checked \in Rows
      BY <1>7 DEF WriteResult, BaseInv, CopiesInv, TypeOK
    <2>2. \A d \in DOMAIN results' : d \in DOMAIN results /\ results'[d] = results[d]
      BY <1>7 DEF WriteResult, Without
    <2>3. CASE pending[checked].syncStatus = "PENDING_DELETE"
      <3>1. row' = [row EXCEPT ![checked] = Gone]
        BY <1>7, <2>3 DEF WriteResult
      <3>2. \A e \in Rows : row'[e] = Gone \/ row'[e] = row[e]
        BY <3>1 DEF BaseInv, TypeOK
      <3> QED
        BY <1>1, <1>2, <2>1, <2>2, <3>2 DEF Live
    <2>4. CASE pending[checked].syncStatus # "PENDING_DELETE"
      <3>1. PICK t \in UpsertTargets(checked, p) : row' = [row EXCEPT ![t] = results[checked]]
        BY <1>7, <2>4 DEF WriteResult
      <3>2. t \in Rows
        BY <1>7, <2>1, <3>1, UpsertTargetsParts DEF WriteResult
      <3>3. row'[t].pid = p /\ \A d \in Rows \ {t} : row'[d] = row[d]
        BY <3>1, <3>2 DEF BaseInv, TypeOK
      <3>4. Has(checked, p) /\ p \in Pids
        BY <2>1, <2>4, AnswerPid DEF Has
      <3> QED
        BY <1>0, <2>1, <2>2, <3>1, <3>2, <3>3, <3>4, TargetKeeps
    <2> QED
      BY <2>3, <2>4
  <1> QED
    BY <1>3, <1>4, <1>5, <1>6, <1>7 DEF UploadNext

LEMMA FetchSole ==
    ASSUME BaseInv, ListInv, KeptInv, SoleInv, NEW f \in Fetchers, FetchNext(f)
    PROVE  SoleInv'
  <1>0. row' \in [Rows -> RowType \cup {Gone}]
    BY FetchStep DEF BaseInv, TypeOK
  <1>1. UNCHANGED <<remote, ui, pending, results>>
    BY DEF FetchNext, ListRange, MisreadRange, PersistRemoteEvent, DeleteMissing, RangeFails,
           SelectMissing, RangeEnds, uploadVars
  <1>2. ASSUME \A e \in Rows : Live(e)' => Live(e) /\ row'[e].pid = row[e].pid,
               \A g \in Fetchers, q \in Pids :
                   fetch'[g].seen[q] \in {fetch[g].seen[q], remote[q], NoEvent}
        PROVE  SoleInv'
    <2>1. \A d \in Rows : ui'.id = d => Has(d, ui'.snap.pid)
      BY <1>1 DEF Has
    <2>2. \A d \in DOMAIN pending' : Has(d, pending'[d].pid)
      BY <1>1 DEF Has
    <2>3. \A e \in Rows : ~Live(e)' => row'[e].pid = NoPid
      BY <1>0, GoneHasNoPid
    <2> QED
      BY <1>1, <1>2, <2>1, <2>2, <2>3, CalmKeeps
  <1>3. CASE ListRange(f)
    <2>1. \A g \in Fetchers, q \in Pids : fetch'[g].seen[q] \in {fetch[g].seen[q], remote[q]}
      BY <1>3 DEF ListRange, BaseInv, TypeOK
    <2> QED
      BY <1>2, <1>3, <2>1 DEF ListRange, Live
  <1>4. ASSUME NEW S \in SUBSET Pids, MisreadRange(f, S) PROVE SoleInv'
    <2> DEFINE n == [at |-> "storing",
                     seen |-> [p \in Pids |-> IF p \in S THEN remote[p] ELSE NoEvent],
                     todo |-> {p \in S : remote[p] # NoEvent}, victims |-> {}]
    <2>1. fetch' = [fetch EXCEPT ![f] = n] /\ \A q \in Pids : n.seen[q] \in {remote[q], NoEvent}
      BY <1>4 DEF MisreadRange
    <2>2. \A g \in Fetchers, q \in Pids :
              fetch'[g].seen[q] \in {fetch[g].seen[q], remote[q], NoEvent}
      BY <2>1 DEF BaseInv, TypeOK
    <2> QED
      BY <1>2, <1>4, <2>2 DEF MisreadRange, Live
  <1>5. CASE RangeFails(f) \/ RangeEnds(f)
    <2>1. \A g \in Fetchers, q \in Pids : fetch'[g].seen[q] \in {fetch[g].seen[q], NoEvent}
      BY <1>5 DEF RangeFails, RangeEnds, NoFetch, BaseInv, TypeOK
    <2> QED
      BY <1>2, <1>5, <2>1 DEF RangeFails, RangeEnds, Live
  <1>6. CASE SelectMissing(f)
    <2>1. \A g \in Fetchers, q \in Pids : fetch'[g].seen[q] = fetch[g].seen[q]
      BY <1>6 DEF SelectMissing, BaseInv, TypeOK
    <2> QED
      BY <1>2, <1>6, <2>1 DEF SelectMissing, Live
  <1>7. ASSUME NEW p \in Pids, DeleteMissing(f, p) PROVE SoleInv'
    <2>1. \A g \in Fetchers, q \in Pids : fetch'[g].seen[q] = fetch[g].seen[q]
      BY <1>7 DEF DeleteMissing, BaseInv, TypeOK
    <2>2. \A e \in Rows : row'[e] = Gone \/ row'[e] = row[e]
      BY <1>7 DEF DeleteMissing
    <2> QED
      BY <1>2, <2>1, <2>2 DEF Live
  <1>8. ASSUME NEW p \in Pids, PersistRemoteEvent(f, p) PROVE SoleInv'
    <2> DEFINE event == fetch[f].seen[p]
    <2>1. \A g \in Fetchers, q \in Pids : fetch'[g].seen[q] = fetch[g].seen[q]
      BY <1>8 DEF PersistRemoteEvent, BaseInv, TypeOK
    <2>2. event # NoEvent /\ event.localId \in Rows \cup {NoRow} /\ p # NoPid
      BY <1>8, EventParts, EventSyncAssumption DEF PersistRemoteEvent, ListInv, BaseInv, TypeOK
    <2>3. CASE LocallyChanged(p)
      BY <1>2, <1>8, <2>1, <2>3 DEF PersistRemoteEvent, Live
    <2>4. CASE ~LocallyChanged(p)
      <3>1. PICK t \in SnapshotTargets(event, p) : row' = [row EXCEPT ![t] = SyncedRow(p, event.content)]
        BY <1>8, <2>4 DEF PersistRemoteEvent
      <3>2. t \in Rows
        BY <3>1, NewRowParts DEF SnapshotTargets, UpsertTargets, WithPid, Live
      <3>3. row'[t].pid = p /\ \A d \in Rows \ {t} : row'[d] = row[d]
        BY <3>1, <3>2 DEF BaseInv, TypeOK, SyncedRow
      <3>4. CASE WithPid(p) # {}
        <4>1. row[t].pid = p /\ Live(t)
          BY <2>2, <3>1, <3>2, <3>4, NullEvent DEF SnapshotTargets, WithPid, Live
        <4> QED
          BY <1>2, <2>1, <3>3, <4>1 DEF Live
      <3>5. CASE WithPid(p) = {}
        <4>1. t \in UpsertTargets(event.localId, p)
          BY <3>1, <3>5 DEF SnapshotTargets
        <4> QED
          BY <1>0, <1>1, <2>1, <2>2, <3>2, <3>3, <4>1, TargetKeeps
      <3> QED
        BY <3>4, <3>5
    <2> QED
      BY <2>3, <2>4
  <1> QED
    BY <1>3, <1>4, <1>5, <1>6, <1>7, <1>8 DEF FetchNext

(* Others give their events ids of rows that are not ours to keep apart. *)
LEMMA ElsewhereSole == BaseInv /\ KeptInv /\ SoleInv /\ ElsewhereNext => SoleInv'
  <1> SUFFICES ASSUME BaseInv, KeptInv, SoleInv, ElsewhereNext PROVE SoleInv'
    OBVIOUS
  <1>1. PICK p \in Pids : RemoteCreates(p) \/ RemoteEdits(p) \/ RemoteDeletes(p)
    BY DEF ElsewhereNext
  <1>2. UNCHANGED <<row, ui, pending, results, fetch>>
    BY <1>1 DEF RemoteCreates, RemoteEdits, RemoteDeletes, RemoteWrites, uploadVars
  <1>3. remote \in [Pids -> RemoteType]
    BY DEF BaseInv, TypeOK
  <1>4. CASE RemoteCreates(p)
    <2>1. PICK l \in ForeignRows \cup {NoRow} : RemoteWrites(p, [content |-> clock + 1, localId |-> l])
      BY <1>4 DEF RemoteCreates
    <2>2. remote'[p].localId = l /\ \A q \in Pids \ {p} : remote'[q] = remote[q]
      BY <1>3, <2>1 DEF RemoteWrites
    <2>3. ~Used(p) /\ l \in Rows \cup {NoRow}
      BY <1>4, EventSyncAssumption DEF RemoteCreates, NewPid
    <2> QED
      BY <1>2, <2>2, <2>3, NewEventKeeps
  <1>5. CASE RemoteEdits(p) \/ RemoteDeletes(p)
    <2>1. /\ \A q \in Pids \ {p} : remote'[q] = remote[q]
          /\ \/ remote'[p] = NoEvent
             \/ remote[p] # NoEvent /\ remote'[p].localId = remote[p].localId
      <3>1. CASE RemoteDeletes(p)
        BY <1>3, <3>1 DEF RemoteDeletes, RemoteWrites
      <3>2. CASE RemoteEdits(p)
        <4> DEFINE c == clock + 1
                   event == [remote[p] EXCEPT !.content = c]
        <4>1. RemoteWrites(p, event) /\ remote[p] # NoEvent /\ remote[p] \in RemoteType
          BY <1>3, <3>2 DEF RemoteEdits
        <4> HIDE DEF c
        <4>2. event.localId = remote[p].localId
          BY <4>1 DEF RemoteType, NoEvent
        <4> HIDE DEF event
        <4> QED
          BY <1>3, <4>1, <4>2 DEF RemoteWrites
      <3> QED
        BY <1>5, <3>1, <3>2
    <2>2. \A d \in Rows, q \in Pids \cup {NoPid} : Has(d, q)' => Has(d, q)
      BY <1>2 DEF Has
    <2>3. \A q \in Pids :
              \/ remote'[q] = NoEvent
              \/ remote[q] # NoEvent /\ remote'[q].localId = remote[q].localId
      BY <2>1
    <2> QED
      BY <1>2, <2>2, <2>3, NoNewsKeeps
  <1> QED
    BY <1>1, <1>4, <1>5

LEMMA StutterSole == SoleInv /\ UNCHANGED vars => SoleInv'
  BY DEF vars, uploadVars, SoleInv, SameName, Sole, Several, OwnOnly, OwnEvent, Has, Names, Live

LEMMA StepSole == BaseInv /\ ListInv /\ KeptInv /\ SoleInv /\ [Next]_vars => SoleInv'
  BY UserSole, UploadSole, FetchSole, ElsewhereSole, StutterSole DEF Next

-----------------------------------------------------------------------------
(* A row of ours that stands for several events stands for them alone: no other  *)
(* row, copy of a row or answer has their ids (PersistRemoteEvent, upsert,      *)
(* upsertRemoteSnapshot and the completion of an upload).                     *)
THEOREM SoleInductive == Spec => []SoleInv
  <1>1. Init => IInv /\ KeptInv /\ SoleInv
    BY InitIInv, InitKept, InitSole
  <1>2. IInv /\ KeptInv /\ SoleInv /\ [Next]_vars => (IInv /\ KeptInv /\ SoleInv)'
    BY StepIInv, StepKept, StepSole DEF IInv
  <1> QED
    BY <1>1, <1>2, PTL DEF Spec

(* Neither a completed upload nor a save of the editor trips UNIQUE            *)
(* (calendar_id, provider_event_id), for a row that no event of another         *)
(* installation can name: the id it carries was never given to another row.     *)
THEOREM WritesNeverConflictHolds == Spec => []WritesNeverConflict
  <1>1. ASSUME BaseInv, SoleInv, NEW e \in Rows \ ForeignRows, NEW p \in Pids \cup {NoPid}, Has(e, p)
        PROVE  ~Conflict(e, p)
    <2> SUFFICES ASSUME Live(e), NEW d \in Rows \ {e}, p # NoPid, row[d].pid = p PROVE FALSE
      BY DEF Conflict, WithPid
    <2>1. row[e].pid # p
      BY <1>1 DEF BaseInv, UniqueProviderIds
    <2>2. row[e].pid \in Pids \cup {NoPid} /\ Has(e, row[e].pid)
      BY <1>1, NullEvent DEF BaseInv, TypeOK, RowType, Has
    <2>3. OwnOnly(e, p)
      BY <1>1, <2>1, <2>2 DEF SoleInv, Sole, Several
    <2> QED
      BY <2>3 DEF OwnOnly, Has
  <1>2. IInv /\ KeptInv /\ SoleInv => WritesNeverConflict
    <2> SUFFICES ASSUME BaseInv, KeptInv, SoleInv PROVE WritesNeverConflict
      BY DEF IInv
    <2>1. ASSUME uploader = "writing", checked \notin ForeignRows
          PROVE  ~Conflict(checked, results[checked].pid)
      <3>1. checked \in DOMAIN results /\ checked \in Rows
        BY <2>1 DEF BaseInv, CopiesInv, TypeOK
      <3>2. CASE pending[checked].syncStatus = "PENDING_DELETE"
        BY <3>1, <3>2 DEF KeptInv, AnswerFits, Conflict, WithPid
      <3>3. CASE pending[checked].syncStatus # "PENDING_DELETE"
        BY <1>1, <2>1, <3>1, <3>3, AnswerPid DEF Has
      <3> QED
        BY <3>2, <3>3
    <2>2. ASSUME ui.at = "editing", ui.id \notin ForeignRows
          PROVE  ~Conflict(ui.id, ui.snap.pid)
      <3>1. ui.id \in Rows /\ ui.snap.pid \in Pids \cup {NoPid} /\ Has(ui.id, ui.snap.pid)
        BY <2>2 DEF BaseInv, TypeOK, Closed, RowType, Has
      <3> QED
        BY <1>1, <2>2, <3>1
    <2> QED
      BY <2>1, <2>2 DEF WritesNeverConflict
  <1> QED
    BY <1>2, Inductive, KeptInductive, SoleInductive, PTL
=============================================================================
