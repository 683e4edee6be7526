-------------------------- MODULE CalendarListProofs --------------------------
(***************************************************************************)
(* CalendarListSync for any number of rows, calendars, signing-in threads,   *)
(* changes and faults: its types, DeletionKept and CalendarsKept.            *)
(*                                                                          *)
(* The server never issues an id twice, so a calendar that has been deleted  *)
(* there stays deleted, and what a thread learnt from a list does not age    *)
(* (Later, ThreadOK).  A row keeps its provider id, unless the window writes *)
(* it away, so every copy of it has that id or none (SameRow): what is       *)
(* removed for a copy's sake is removed for the row's.  A row deleted at a   *)
(* moment that is not exposed is guarded (Guard): no thread, reply or dialog *)
(* has a copy of it, and its calendar is on no list being merged.            *)
(***************************************************************************)
EXTENDS CalendarListSync, TLAPS

USE CalendarListAssumption

SyncRecord == [at : {"idle", "uploading", "listed", "reading", "merging"},
               list : [Pids -> 0..MaxStamp], known : SUBSET Pids,
               local : [Rows -> RowType \cup {Gone}],
               merge : SUBSET Pids, victims : SUBSET Rows]

(* The conjuncts of TypeOK. *)
Table(c) == c \in [Rows -> RowType \cup {Gone}]
WorkerAt == reply # NoReply \/ DOMAIN pending # {} => sync[Worker].at = "uploading"

LEMMA TypeParts ==
    TypeOK <=>
        /\ Table(calendar)
        /\ remote \in [Pids -> 0..MaxStamp]
        /\ issued \subseteq Pids
        /\ clock \in 0..MaxStamp
        /\ faults \in 0..MaxFaults
        /\ Table(loaded)
        /\ DOMAIN pending \subseteq Rows /\ pending \in [DOMAIN pending -> RowType]
        /\ reply \in [id : Rows, row : RowType \cup {Gone}] \cup {NoReply}
        /\ sync \in [Threads -> SyncRecord]
        /\ WorkerAt
        /\ asked \subseteq Pids /\ condemned \subseteq asked /\ erased \subseteq Rows
BY DEF TypeOK, Table, SyncRecord, WorkerAt

LEMMA GoneFacts ==
    /\ Gone \notin RowType
    /\ Gone.pid = NoPid /\ Gone.deleted = FALSE /\ Gone.syncStatus = "GONE"
    /\ NoReply.id = NoRow /\ NoReply.row = Gone
    /\ Nothing \in [Rows -> RowType \cup {Gone}] /\ \A e \in Rows : Nothing[e] = Gone
    /\ Idle \in SyncRecord
BY DEF Gone, RowType, NoReply, Nothing, Idle, SyncRecord, NoList

LEMMA RowFacts ==
    ASSUME NEW r \in RowType
    PROVE  /\ r # Gone
           /\ r.pid \in Pids \cup {NoPid}
           /\ r.content \in Stamps /\ r.deleted \in BOOLEAN
           /\ r.syncStatus \in {"PENDING_INSERT", "PENDING_UPDATE", "PENDING_DELETE", "SYNCED"}
BY GoneFacts DEF RowType

LEMMA ChangedRow ==
    ASSUME NEW r \in RowType, NEW p \in Pids \cup {NoPid}, NEW c \in Stamps,
           NEW s \in {"PENDING_INSERT", "PENDING_UPDATE", "PENDING_DELETE", "SYNCED"}
    PROVE  /\ [r EXCEPT !.content = c, !.syncStatus = s] \in RowType
           /\ [r EXCEPT !.content = c, !.syncStatus = s].pid = r.pid
           /\ [r EXCEPT !.content = c, !.syncStatus = s].syncStatus = s
           /\ [r EXCEPT !.deleted = TRUE, !.syncStatus = "PENDING_DELETE"] \in RowType
           /\ [r EXCEPT !.deleted = TRUE, !.syncStatus = "PENDING_DELETE"].pid = r.pid
           /\ [r EXCEPT !.deleted = TRUE, !.syncStatus = "PENDING_DELETE"].deleted
           /\ [r EXCEPT !.deleted = TRUE, !.syncStatus = "PENDING_DELETE"].syncStatus = "PENDING_DELETE"
           /\ Uploaded(r, p) \in RowType
           /\ Uploaded(r, p).pid = p /\ Uploaded(r, p).syncStatus = "SYNCED"
           /\ Uploaded(r, p).deleted = FALSE
BY DEF RowType, Uploaded

(* A table read without its deleted rows. *)
LEMMA ByAccountFacts ==
    ASSUME NEW c, Table(c)
    PROVE  /\ Table(ByAccount(c))
           /\ \A e \in Rows : ByAccount(c)[e] = IF c[e].deleted THEN Gone ELSE c[e]
BY DEF Table, ByAccount

(* What a step makes of thread t, and leaves of the others. *)
Turns(x, t, s) ==
    /\ x \in [Threads -> SyncRecord]
    /\ x[t] = s
    /\ \A u \in Threads \ {t} : x[u] = sync[u]

LEMMA SyncSteps ==
    ASSUME sync \in [Threads -> SyncRecord], NEW t \in Threads,
           NEW a \in {"idle", "uploading", "listed", "reading", "merging"},
           NEW l \in [Pids -> 0..MaxStamp], NEW k \in SUBSET Pids, NEW c, Table(c),
           NEW m \in SUBSET Pids, NEW v \in SUBSET Rows
    PROVE  /\ Turns([sync EXCEPT ![t].at = a], t, [sync[t] EXCEPT !.at = a])
           /\ Turns([sync EXCEPT ![t] = Idle], t, Idle)
           /\ Turns([sync EXCEPT ![t].at = a, ![t].list = l, ![t].known = k], t,
                    [sync[t] EXCEPT !.at = a, !.list = l, !.known = k])
           /\ Turns([sync EXCEPT ![t].at = a, ![t].local = c], t,
                    [sync[t] EXCEPT !.at = a, !.local = c])
           /\ Turns([sync EXCEPT ![t].at = a, ![t].merge = m, ![t].victims = v], t,
                    [sync[t] EXCEPT !.at = a, !.merge = m, !.victims = v])
           /\ Turns([sync EXCEPT ![t].merge = m], t, [sync[t] EXCEPT !.merge = m])
           /\ Turns([sync EXCEPT ![t].victims = v], t, [sync[t] EXCEPT !.victims = v])
<1>1. \A s \in SyncRecord : Turns([sync EXCEPT ![t] = s], t, s)
    BY DEF Turns
<1>2. /\ [sync[t] EXCEPT !.at = a] \in SyncRecord
      /\ [sync[t] EXCEPT !.at = a, !.list = l, !.known = k] \in SyncRecord
      /\ [sync[t] EXCEPT !.at = a, !.local = c] \in SyncRecord
      /\ [sync[t] EXCEPT !.at = a, !.merge = m, !.victims = v] \in SyncRecord
      /\ [sync[t] EXCEPT !.merge = m] \in SyncRecord
      /\ [sync[t] EXCEPT !.victims = v] \in SyncRecord
    <2>1. sync[t] \in SyncRecord
        OBVIOUS
    <2> QED BY <2>1 DEF SyncRecord, Table
<1>3. /\ [sync EXCEPT ![t].at = a] = [sync EXCEPT ![t] = [sync[t] EXCEPT !.at = a]]
      /\ [sync EXCEPT ![t].merge = m] = [sync EXCEPT ![t] = [sync[t] EXCEPT !.merge = m]]
      /\ [sync EXCEPT ![t].victims = v] = [sync EXCEPT ![t] = [sync[t] EXCEPT !.victims = v]]
    OBVIOUS
<1>4. [sync EXCEPT ![t].at = a, ![t].list = l, ![t].known = k]
        = [sync EXCEPT ![t] = [sync[t] EXCEPT !.at = a, !.list = l, !.known = k]]
    OBVIOUS
<1>5. [sync EXCEPT ![t].at = a, ![t].local = c]
        = [sync EXCEPT ![t] = [sync[t] EXCEPT !.at = a, !.local = c]]
    OBVIOUS
<1>6. [sync EXCEPT ![t].at = a, ![t].merge = m, ![t].victims = v]
        = [sync EXCEPT ![t] = [sync[t] EXCEPT !.at = a, !.merge = m, !.victims = v]]
    OBVIOUS
<1>7. Idle \in SyncRecord
    BY GoneFacts
<1>8. Turns([sync EXCEPT ![t] = Idle], t, Idle)
    BY <1>1, <1>7
<1> QED BY <1>1, <1>2, <1>3, <1>4, <1>5, <1>6, <1>8

-----------------------------------------------------------------------------
(* The inductive invariant.                                                   *)

(* UNIQUE (account_id, provider_calendar_id). *)
Unique ==
    \A d, e \in Rows : calendar[d].pid # NoPid /\ calendar[d].pid = calendar[e].pid => d = e

(* A provider id that is in use anywhere has been issued, and stays so.         *)
Known == issued \cup {NoPid}
IssuedInv ==
    /\ \A e \in Rows : calendar[e].pid \in Known /\ loaded[e].pid \in Known
    /\ \A e \in DOMAIN pending : pending[e].pid \in Known
    /\ reply.row.pid \in Known
    /\ \A t \in Threads, e \in Rows : sync[t].local[e].pid \in Known
    /\ \A p \in Pids : remote[p] # 0 => p \in issued
    /\ asked \subseteq issued

(* A row or a copy waits for its deletion only if the user asked for that.      *)
DeletingInv ==
    /\ \A e \in Rows : calendar[e].syncStatus = "PENDING_DELETE" =>
           calendar[e].deleted /\ calendar[e].pid \in asked
    /\ \A e \in Rows : loaded[e].syncStatus # "PENDING_DELETE"
    /\ \A e \in DOMAIN pending : pending[e].syncStatus = "PENDING_DELETE" => pending[e].pid \in asked
    /\ reply.row.syncStatus # "PENDING_DELETE"

(* What a thread's list says of the server, and whom it is about to remove.     *)
ThreadOK(s) ==
    /\ s.at \in {"idle", "uploading", "listed"} => s.local = Nothing
    /\ s.at # "merging" => s.merge = {} /\ s.victims = {}
    /\ s.known \subseteq issued
    /\ \A p \in Pids : s.list[p] # 0 => p \in issued
    /\ \A p \in s.known : s.list[p] = 0 => remote[p] = 0
    /\ \A p \in s.merge : s.list[p] # 0
    /\ \A e \in s.victims :
           /\ e \in LiveIn(s.local)
           /\ s.local[e].pid \in s.known => remote[s.local[e].pid] = 0 \/ s.local[e].pid \in asked

ThreadInv == \A t \in Threads : ThreadOK(sync[t])

(* Copies of a row that keeps its provider id have that id, or are older.       *)
SameRow(e) ==
    /\ loaded[e].pid \in {NoPid, calendar[e].pid}
    /\ e \in DOMAIN pending => pending[e].pid = calendar[e].pid
    /\ \A t \in Threads : sync[t].local[e].pid \in {NoPid, calendar[e].pid}
    /\ reply.id = e /\ reply.row = Gone => calendar[e].pid # NoPid /\ remote[calendar[e].pid] = 0
    /\ reply.id = e /\ reply.row # Gone => calendar[e].pid \in {NoPid, reply.row.pid}

SameInv ==
    /\ reply.id \notin DOMAIN pending
    /\ \A e \in Live \ erased : SameRow(e)

(* Row e waits for the deletion of calendar p, and nothing under way reaches it.  *)
Guard(e, p) ==
    /\ calendar[e].pid = p /\ calendar[e].syncStatus = "PENDING_DELETE"
    /\ \A d \in DOMAIN pending : d = e \/ pending[d].pid = p =>
           pending[d].pid = p /\ pending[d].syncStatus = "PENDING_DELETE"
    /\ reply.id # e /\ reply.row.pid # p
    /\ \A t \in Threads : sync[t].local[e] = Gone /\ p \notin sync[t].merge
    /\ loaded[e] = Gone
    /\ \A d \in Rows : loaded[d].pid # p

KeptInv == \A p \in condemned : remote[p] = 0 \/ \E e \in Rows : Guard(e, p)

IInv ==
    /\ TypeOK /\ Unique
    /\ IssuedInv /\ DeletingInv /\ ThreadInv /\ SameInv
    /\ KeptInv

-----------------------------------------------------------------------------
(* What every step leaves of the server: ids are not issued twice, so what has   *)
(* been deleted is so for ever.                                               *)
Later ==
    /\ issued \subseteq issued'
    /\ \A p \in issued : remote[p] = 0 => remote'[p] = 0
    /\ asked \subseteq asked'

LEMMA SameLater ==
    ASSUME UNCHANGED <<remote, issued>>, asked \subseteq asked'
    PROVE  Later
BY DEF Later

(* A thread's knowledge does not age. *)
LEMMA ThreadKept ==
    ASSUME Later, NEW s \in SyncRecord, ThreadOK(s)
    PROVE  ThreadOK(s)'
BY DEF Later, ThreadOK, LiveIn

LEMMA ThreadsKept ==
    ASSUME TypeOK, Later, ThreadInv, UNCHANGED sync
    PROVE  ThreadInv'
<1>1. ASSUME NEW t \in Threads PROVE ThreadOK(sync[t])'
    <2>1. PICK s : s = sync[t]
        OBVIOUS
    <2>2. s \in SyncRecord /\ ThreadOK(s)
        BY <2>1, TypeParts DEF ThreadInv
    <2>3. ThreadOK(s)'
        BY <2>2, ThreadKept
    <2> QED BY <2>1, <2>3 DEF ThreadOK, LiveIn
<1> QED BY <1>1 DEF ThreadInv

(* One thread turns to something it may turn to. *)
LEMMA ThreadTurns ==
    ASSUME TypeOK, Later, ThreadInv, NEW t \in Threads, NEW s, Turns(sync', t, s), ThreadOK(s)'
    PROVE  ThreadInv'
<1>1. ASSUME NEW u \in Threads PROVE ThreadOK(sync[u])'
    <2>1. CASE u = t
        BY <2>1 DEF Turns, ThreadOK, LiveIn
    <2>2. CASE u # t
        <3>1. PICK x : x = sync[u]
            OBVIOUS
        <3>2. x \in SyncRecord /\ ThreadOK(x) /\ sync'[u] = x
            BY <2>2, <3>1, TypeParts DEF ThreadInv, Turns
        <3>3. ThreadOK(x)'
            BY <3>2, ThreadKept
        <3> QED BY <3>2, <3>3 DEF ThreadOK, LiveIn
    <2> QED BY <2>1, <2>2
<1> QED BY <1>1 DEF ThreadInv

LEMMA KeptStep ==
    ASSUME TypeOK, IssuedInv, KeptInv, Later, condemned' \subseteq condemned,
           \A p \in condemned, e \in Rows : Guard(e, p) => remote'[p] = 0 \/ Guard(e, p)'
    PROVE  KeptInv'
<1>1. ASSUME NEW p \in condemned PROVE remote'[p] = 0 \/ \E e \in Rows : Guard(e, p)'
    <2>1. p \in issued
        BY TypeParts DEF IssuedInv
    <2> QED BY <1>1, <2>1 DEF KeptInv, Later
<1> QED BY <1>1 DEF KeptInv

-----------------------------------------------------------------------------
(* Writes to the table. *)

Put(d, r) ==
    /\ Table(calendar')
    /\ calendar'[d] = r
    /\ \A x \in Rows \ {d} : calendar'[x] = calendar[x]

(* Where upsert puts a row with id e and provider id p: over row e, over the row *)
(* that has p, or nowhere yet.                                                *)
Where(d, e, p) ==
    \/ e \in Live /\ d = e /\ (p # NoPid => \A x \in Rows : calendar[x].pid = p => x = e)
    \/ e \notin Live /\ d \in Live /\ p # NoPid /\ calendar[d].pid = p
    \/ e \notin Live /\ Unused(d) /\ (p # NoPid => \A x \in Rows : calendar[x].pid # p)

LEMMA UpsertFacts ==
    ASSUME TypeOK, NEW e, NEW r \in RowType, Upsert(e, r)
    PROVE  \E d \in Rows : Put(d, r) /\ Where(d, e, r.pid)
<1>1. PICK d \in UpsertTargets(e, r.pid) : calendar' = [calendar EXCEPT ![d] = r]
    BY DEF Upsert
<1>2. Table(calendar) /\ \A x \in Rows : calendar[x] = Gone => calendar[x].pid = NoPid
    BY TypeParts, GoneFacts
<1>3. d \in Rows /\ Where(d, e, r.pid)
    <2>1. CASE e \in Live
        <3>1. d = e /\ WithPid(r.pid) \ {e} = {}
            BY <1>1, <2>1 DEF UpsertTargets, Upsert, Conflict
        <3> QED BY <2>1, <3>1 DEF Where, WithPid, Live, LiveIn
    <2>2. CASE e \notin Live /\ WithPid(r.pid) # {}
        <3>1. d \in WithPid(r.pid)
            BY <1>1, <2>2 DEF UpsertTargets
        <3> QED BY <1>2, <2>2, <3>1 DEF Where, WithPid, Live, LiveIn
    <2>3. CASE e \notin Live /\ WithPid(r.pid) = {}
        <3>1. d \in NewRow
            BY <1>1, <2>3 DEF UpsertTargets
        <3> QED BY <2>3, <3>1 DEF Where, WithPid, NewRow
    <2> QED BY <2>1, <2>2, <2>3
<1>4. Put(d, r)
    BY <1>1, <1>2, <1>3 DEF Put, Table
<1> QED BY <1>3, <1>4

LEMMA PutUnique ==
    ASSUME Unique, NEW d \in Rows, NEW e, NEW r, Put(d, r), Where(d, e, r.pid)
    PROVE  Unique'
BY DEF Unique, Put, Where

(* Row d is removed. *)
Remove(d) ==
    /\ Table(calendar')
    /\ calendar'[d] = Gone
    /\ \A x \in Rows \ {d} : calendar'[x] = calendar[x]

LEMMA RemoveFacts ==
    ASSUME TypeOK, NEW d \in Rows, calendar' = [calendar EXCEPT ![d] = Gone]
    PROVE  Remove(d)
BY TypeParts DEF Remove, Table

LEMMA RemoveUnique ==
    ASSUME Unique, NEW d \in Rows, Remove(d)
    PROVE  Unique'
BY GoneFacts DEF Unique, Remove

(* A row nothing refers to. *)
LEMMA UnusedFacts ==
    ASSUME TypeOK, NEW d \in Rows, Unused(d)
    PROVE  /\ calendar[d] = Gone /\ loaded[d] = Gone
           /\ d \notin DOMAIN pending /\ d # reply.id
           /\ \A t \in Threads : sync[t].local[d] = Gone
BY DEF Unused, Live, LiveIn

(* A write that leaves the row its provider id, as all do but the one of a reply. *)
LEMMA PutSame ==
    ASSUME TypeOK, SameInv, NEW d \in Rows, NEW e, NEW r \in RowType, Put(d, r), Where(d, e, r.pid),
           d \in Live \ erased' => r.pid = calendar[d].pid,
           UNCHANGED <<remote, pending, reply>>, erased \subseteq erased',
           \A t \in Threads : sync'[t].local = sync[t].local,
           loaded' = loaded \/ loaded' = ByAccount(calendar')
    PROVE  SameInv'
<1>1. ASSUME NEW x \in Rows, calendar'[x] # Gone, x \notin erased' PROVE SameRow(x)'
    <2>1. calendar'[x] \in RowType
        BY <1>1 DEF Put, Table
    <2>2. loaded' = ByAccount(calendar') => loaded'[x].pid \in {NoPid, calendar'[x].pid}
        BY ByAccountFacts, GoneFacts DEF Put
    <2>3. CASE calendar[x] = Gone
        <3>1. x = d /\ Unused(d)
            BY <1>1, <2>3 DEF Put, Where, Live, LiveIn
        <3> QED BY <2>2, <3>1, UnusedFacts, GoneFacts DEF SameRow
    <2>4. CASE calendar[x] # Gone
        <3>1. x \in Live \ erased /\ calendar'[x].pid = calendar[x].pid
            BY <1>1, <2>4 DEF Put, Live, LiveIn
        <3>2. SameRow(x)
            BY <3>1 DEF SameInv
        <3> QED BY <2>2, <3>1, <3>2 DEF SameRow
    <2> QED BY <2>3, <2>4
<1> QED BY <1>1 DEF SameInv, Live, LiveIn

(* A guarded row is neither written nor shown. *)
LEMMA PutGuard ==
    ASSUME TypeOK, Unique, Unique', DeletingInv, NEW d \in Rows, NEW r \in RowType, Put(d, r),
           NEW e \in Rows, NEW p \in Pids, Guard(e, p), d # e,
           UNCHANGED pending, reply' = reply \/ reply' = NoReply,
           \A t \in Threads : sync'[t].local = sync[t].local /\ sync'[t].merge \subseteq sync[t].merge,
           loaded' = loaded \/ loaded' = ByAccount(calendar')
    PROVE  Guard(e, p)'
<1>1. calendar'[e] = calendar[e] /\ calendar[e].pid = p /\ calendar[e].deleted
    BY DEF Put, Guard, DeletingInv
<1>2. loaded'[e] = Gone /\ \A x \in Rows : loaded'[x].pid # p
    <2>1. CASE loaded' = loaded
        BY <2>1 DEF Guard
    <2>2. CASE loaded' = ByAccount(calendar')
        <3>1. \A x \in Rows : loaded'[x] = IF calendar'[x].deleted THEN Gone ELSE calendar'[x]
            BY <2>2, ByAccountFacts DEF Put
        <3>2. loaded'[e] = Gone
            BY <1>1, <3>1
        <3>3. ASSUME NEW x \in Rows, loaded'[x].pid = p PROVE FALSE
            <4>1. calendar'[x].pid = p /\ x # e
                BY <3>1, <3>2, <3>3, GoneFacts
            <4> QED BY <1>1, <4>1 DEF Unique
        <3> QED BY <3>2, <3>3
    <2> QED BY <2>1, <2>2
<1>3. reply'.id # e /\ reply'.row.pid # p
    BY GoneFacts DEF Guard
<1> QED BY <1>1, <1>2, <1>3 DEF Guard

LEMMA RemoveSame ==
    ASSUME TypeOK, SameInv, NEW d \in Rows, Remove(d), reply' = reply \/ reply' = NoReply,
           UNCHANGED <<remote, pending>>, erased \subseteq erased',
           \A t \in Threads : sync'[t].local = sync[t].local,
           loaded' = loaded \/ loaded' = ByAccount(calendar')
    PROVE  SameInv'
<1>1. ASSUME NEW x \in Rows, calendar'[x] # Gone, x \notin erased' PROVE SameRow(x)'
    <2>1. x # d /\ calendar'[x] = calendar[x] /\ x \in Live \ erased
        BY <1>1 DEF Remove, Live, LiveIn
    <2>2. SameRow(x)
        BY <2>1 DEF SameInv
    <2>3. loaded' = ByAccount(calendar') => loaded'[x].pid \in {NoPid, calendar'[x].pid}
        BY ByAccountFacts, GoneFacts DEF Remove
    <2>4. reply' = NoReply => reply'.id # x
        BY GoneFacts
    <2> QED BY <2>1, <2>2, <2>3, <2>4 DEF SameRow
<1>2. reply'.id \notin DOMAIN pending'
    BY GoneFacts, TypeParts DEF SameInv
<1> QED BY <1>1, <1>2 DEF SameInv, Live, LiveIn

LEMMA RemoveGuard ==
    ASSUME TypeOK, Unique, DeletingInv, NEW d \in Rows, Remove(d),
           NEW e \in Rows, NEW p \in Pids, Guard(e, p), d # e,
           UNCHANGED pending, reply' = reply \/ reply' = NoReply,
           \A t \in Threads : sync'[t].local = sync[t].local /\ sync'[t].merge \subseteq sync[t].merge,
           loaded' = loaded \/ loaded' = ByAccount(calendar')
    PROVE  Guard(e, p)'
<1>1. calendar'[e] = calendar[e] /\ calendar[e].pid = p /\ calendar[e].deleted
    BY DEF Remove, Guard, DeletingInv
<1>2. loaded'[e] = Gone /\ \A x \in Rows : loaded'[x].pid # p
    <2>1. CASE loaded' = loaded
        BY <2>1 DEF Guard
    <2>2. CASE loaded' = ByAccount(calendar')
        <3>1. \A x \in Rows : loaded'[x] = IF calendar'[x].deleted THEN Gone ELSE calendar'[x]
            BY <2>2, ByAccountFacts DEF Remove
        <3>2. loaded'[e] = Gone
            BY <1>1, <3>1
        <3>3. ASSUME NEW x \in Rows, loaded'[x].pid = p PROVE FALSE
            <4>1. calendar[x].pid = p /\ x # e
                BY <3>1, <3>2, <3>3, GoneFacts DEF Remove
            <4> QED BY <1>1, <4>1 DEF Unique
        <3> QED BY <3>2, <3>3
    <2> QED BY <2>1, <2>2
<1>3. reply'.id # e /\ reply'.row.pid # p
    BY GoneFacts DEF Guard
<1> QED BY <1>1, <1>2, <1>3 DEF Guard

(* A write for another row and another calendar spares the guarded one.         *)
LEMMA WhereSpares ==
    ASSUME TypeOK, NEW x \in Rows, NEW p \in Pids, Guard(x, p), NEW d \in Rows, NEW e, e # x,
           NEW q, q # p, Where(d, e, q)
    PROVE  d # x
BY UnusedFacts, GoneFacts DEF Where, Guard

LEMMA TypePrime ==
    ASSUME Table(calendar'), remote' \in [Pids -> 0..MaxStamp], issued' \subseteq Pids,
           clock' \in 0..MaxStamp, faults' \in 0..MaxFaults, Table(loaded'),
           DOMAIN pending' \subseteq Rows, pending' \in [DOMAIN pending' -> RowType],
           reply' \in [id : Rows, row : RowType \cup {Gone}] \cup {NoReply},
           sync' \in [Threads -> SyncRecord], WorkerAt',
           asked' \subseteq Pids, condemned' \subseteq asked', erased' \subseteq Rows
    PROVE  TypeOK'
BY DEF TypeOK, Table, SyncRecord, WorkerAt

LEMMA NoReplyTyped == NoReply \in [id : Rows, row : RowType \cup {Gone}] \cup {NoReply}
OBVIOUS

-----------------------------------------------------------------------------
(* The window. *)

(* What the user's write of row r leaves, whatever row it is for.               *)
LEMMA UserPut ==
    ASSUME IInv, UserActs, UNCHANGED <<remote, issued, faults, pending, reply, sync>>,
           NEW d \in Rows, NEW e, NEW r \in RowType, Put(d, r), Where(d, e, r.pid),
           r.pid \in Known,
           r.syncStatus = "PENDING_DELETE" => r.deleted /\ r.pid \in asked',
           d \in Live \ erased' => r.pid = calendar[d].pid,
           asked \subseteq asked', asked' \subseteq issued, condemned' \subseteq asked',
           erased \subseteq erased', erased' \subseteq Rows
    PROVE  /\ TypeOK' /\ Unique' /\ IssuedInv' /\ DeletingInv' /\ ThreadInv' /\ SameInv'
           /\ Later /\ loaded' = ByAccount(calendar')
<1> USE DEF IInv
<1>1. /\ loaded' = ByAccount(calendar') /\ clock' \in 0..MaxStamp
      /\ Table(loaded')
      /\ \A x \in Rows : loaded'[x] = IF calendar'[x].deleted THEN Gone ELSE calendar'[x]
    BY TypeParts, ByAccountFacts DEF UserActs, Put
<1>2. Later
    BY SameLater
<1>3. TypeOK'
    <2>1. WorkerAt'
        BY TypeParts DEF WorkerAt
    <2> QED BY <1>1, <2>1, TypeParts, TypePrime DEF Put, IssuedInv
<1>4. Unique'
    BY PutUnique
<1>5. IssuedInv'
    BY <1>1, GoneFacts DEF IssuedInv, Known, Put
<1>6. DeletingInv'
    <2>1. \A x \in Rows : calendar'[x].syncStatus = "PENDING_DELETE" =>
              calendar'[x].deleted /\ calendar'[x].pid \in asked'
        BY DEF DeletingInv, Put
    <2>2. \A x \in Rows : loaded'[x].syncStatus # "PENDING_DELETE"
        BY <1>1, <2>1, GoneFacts
    <2> QED BY <2>1, <2>2 DEF DeletingInv
<1>7. ThreadInv'
    BY <1>2, ThreadsKept
<1>8. SameInv'
    BY <1>1, PutSame
<1> QED BY <1>1, <1>2, <1>3, <1>4, <1>5, <1>6, <1>7, <1>8

LEMMA CreateCalendarKeeps == ASSUME IInv, CreateCalendar PROVE IInv'
<1> USE DEF IInv
<1>1. PICK r : r = [pid |-> NoPid, content |-> clock + 1, deleted |-> FALSE,
                    syncStatus |-> "PENDING_INSERT"]
    OBVIOUS
<1>2. /\ Upsert(NoRow, r) /\ UserActs
      /\ UNCHANGED <<remote, issued, faults, pending, reply, sync, asked, condemned, erased>>
    BY <1>1 DEF CreateCalendar, uploadVars, historyVars
<1>3. r \in RowType /\ r.pid = NoPid /\ r.syncStatus # "PENDING_DELETE"
    BY <1>1, <1>2, TypeParts DEF RowType, UserActs, Stamps
<1>4. PICK d \in Rows : Put(d, r) /\ Where(d, NoRow, r.pid)
    BY <1>2, <1>3, UpsertFacts
<1>5. d \notin Live
    BY <1>3, <1>4, UnusedFacts DEF Where, Live, LiveIn
<1>6. /\ TypeOK' /\ Unique' /\ IssuedInv' /\ DeletingInv' /\ ThreadInv' /\ SameInv'
      /\ Later /\ loaded' = ByAccount(calendar')
    BY <1>2, <1>3, <1>4, <1>5, UserPut, TypeParts DEF Known, IssuedInv
<1>7. ASSUME NEW p \in condemned, NEW x \in Rows, Guard(x, p) PROVE Guard(x, p)'
    <2>1. p \in Pids
        BY TypeParts
    <2>2. d # x
        BY <1>3, <1>4, <1>7, <2>1, WhereSpares
    <2> QED BY <1>2, <1>3, <1>4, <1>6, <1>7, <2>1, <2>2, PutGuard
<1> QED BY <1>2, <1>6, <1>7, KeptStep

LEMMA UpdateCalendarKeeps == ASSUME IInv, NEW e \in Rows, UpdateCalendar(e) PROVE IInv'
<1> USE DEF IInv
<1>1. PICK renamed \in BOOLEAN :
          Upsert(e, [loaded[e] EXCEPT
              !.content = IF renamed THEN clock + 1 ELSE @,
              !.syncStatus = IF renamed /\ loaded[e].pid # NoPid THEN "PENDING_UPDATE" ELSE @])
    BY DEF UpdateCalendar
<1>2. /\ e \in LiveIn(loaded) /\ UserActs
      /\ UNCHANGED <<remote, issued, faults, pending, reply, sync, asked, condemned>>
      /\ erased' = erased \cup {d \in Live : calendar[d].pid # NoPid /\ calendar'[d].pid = NoPid}
    BY DEF UpdateCalendar, uploadVars
<1>3. loaded[e] \in RowType /\ loaded[e].pid \in Known
      /\ loaded[e].syncStatus # "PENDING_DELETE"
    BY <1>2, TypeParts DEF LiveIn, Table, IssuedInv, DeletingInv
<1>4. PICK c, s : /\ c = IF renamed THEN clock + 1 ELSE loaded[e].content
                  /\ s = IF renamed /\ loaded[e].pid # NoPid THEN "PENDING_UPDATE"
                         ELSE loaded[e].syncStatus
    OBVIOUS
<1>5. c \in Stamps /\ s \in {"PENDING_INSERT", "PENDING_UPDATE", "PENDING_DELETE", "SYNCED"}
      /\ s # "PENDING_DELETE"
    BY <1>2, <1>3, <1>4, RowFacts, TypeParts DEF UserActs, Stamps
<1>6. PICK r : r = [loaded[e] EXCEPT !.content = c, !.syncStatus = s]
    OBVIOUS
<1>7. r \in RowType /\ r.pid = loaded[e].pid /\ r.syncStatus = s
    <2>1. PICK k \in RowType : k = loaded[e]
        BY <1>3
    <2>2. r = [k EXCEPT !.content = c, !.syncStatus = s]
        BY <1>6, <2>1
    <2> QED BY <1>5, <2>1, <2>2 DEF RowType
<1>8. Upsert(e, r)
    BY <1>1, <1>4, <1>6
<1>9. PICK d \in Rows : Put(d, r) /\ Where(d, e, r.pid)
    BY <1>7, <1>8, UpsertFacts
<1>10. d \in Live \ erased' => r.pid = calendar[d].pid
    <2>1. SUFFICES ASSUME d \in Live, d \notin erased' PROVE r.pid = calendar[d].pid
        OBVIOUS
    <2>2. CASE d = e
        <3>1. r.pid \in {NoPid, calendar[d].pid}
            BY <1>2, <1>7, <2>1, <2>2 DEF SameInv, SameRow
        <3>2. r.pid = NoPid => calendar[d].pid = NoPid
            BY <1>2, <1>9, <2>1 DEF Put
        <3> QED BY <3>1, <3>2
    <2>3. CASE d # e
        BY <1>9, <2>1, <2>3, UnusedFacts DEF Where, Live, LiveIn
    <2> QED BY <2>2, <2>3
<1>11. erased' \subseteq Rows /\ erased \subseteq erased'
    BY <1>2, TypeParts DEF Live, LiveIn
<1>12. /\ TypeOK' /\ Unique' /\ IssuedInv' /\ DeletingInv' /\ ThreadInv' /\ SameInv'
       /\ Later /\ loaded' = ByAccount(calendar')
    BY <1>2, <1>3, <1>5, <1>7, <1>9, <1>10, <1>11, UserPut, TypeParts DEF IssuedInv
<1>13. ASSUME NEW p \in condemned, NEW x \in Rows, Guard(x, p) PROVE Guard(x, p)'
    <2>1. p \in Pids /\ e # x /\ r.pid # p
        BY <1>2, <1>7, <1>13, TypeParts DEF Guard, LiveIn
    <2>2. d # x
        BY <1>9, <1>13, <2>1, WhereSpares
    <2> QED BY <1>2, <1>7, <1>9, <1>12, <1>13, <2>1, <2>2, PutGuard
<1> QED BY <1>2, <1>12, <1>13, KeptStep

(* A deletion at a moment that is not exposed puts the guard up.                *)
LEMMA SoftDeleteCalendarKeeps == ASSUME IInv, NEW e \in Rows, SoftDeleteCalendar(e) PROVE IInv'
<1> USE DEF IInv
<1>1. PICK q : q = loaded[e].pid
    OBVIOUS
<1>2. /\ e \in LiveIn(loaded) /\ UserActs
      /\ q # NoPid
      /\ Upsert(e, [loaded[e] EXCEPT !.deleted = TRUE, !.syncStatus = "PENDING_DELETE"])
      /\ UNCHANGED <<remote, issued, faults, pending, reply, sync, erased>>
      /\ asked' = asked \cup {q}
      /\ condemned' = IF Exposed(e, q) THEN condemned \ {q} ELSE condemned \cup {q}
    BY <1>1 DEF SoftDeleteCalendar, uploadVars
<1>3. loaded[e] \in RowType /\ q \in issued /\ q \in Pids
    BY <1>1, <1>2, TypeParts, RowFacts DEF LiveIn, Table, IssuedInv, Known
<1>4. PICK r : r = [loaded[e] EXCEPT !.deleted = TRUE, !.syncStatus = "PENDING_DELETE"]
    OBVIOUS
<1>5. /\ r \in RowType /\ r.pid = q /\ r.deleted /\ r.syncStatus = "PENDING_DELETE"
    <2>1. PICK s : s = "SYNCED"
        OBVIOUS
    <2>2. loaded[e].content \in Stamps
        BY <1>3, RowFacts
    <2> QED BY <1>1, <1>3, <1>4, <2>1, <2>2, ChangedRow
<1>6. PICK d \in Rows : Put(d, r) /\ Where(d, e, r.pid)
    BY <1>2, <1>4, <1>5, UpsertFacts
<1>7. d \in Live \ erased' => r.pid = calendar[d].pid
    <2>1. SUFFICES ASSUME d \in Live, d \notin erased' PROVE r.pid = calendar[d].pid
        OBVIOUS
    <2>2. CASE d = e
        BY <1>1, <1>2, <1>5, <2>1, <2>2 DEF SameInv, SameRow
    <2>3. CASE d # e
        BY <1>6, <2>1, <2>3, UnusedFacts DEF Where, Live, LiveIn
    <2> QED BY <2>2, <2>3
<1>8. asked' \subseteq issued /\ condemned' \subseteq asked'
    BY <1>2, <1>3, TypeParts DEF IssuedInv
<1>9. /\ TypeOK' /\ Unique' /\ IssuedInv' /\ DeletingInv' /\ ThreadInv' /\ SameInv'
      /\ Later /\ loaded' = ByAccount(calendar')
    BY <1>2, <1>3, <1>5, <1>6, <1>7, <1>8, UserPut, TypeParts DEF Known
<1>10. ASSUME NEW p \in condemned, p # q, NEW x \in Rows, Guard(x, p) PROVE Guard(x, p)'
    <2>1. p \in Pids /\ e # x /\ r.pid # p
        BY <1>2, <1>5, <1>10, TypeParts DEF Guard, LiveIn
    <2>2. d # x
        BY <1>6, <1>10, <2>1, WhereSpares
    <2> QED BY <1>2, <1>5, <1>6, <1>9, <1>10, <2>1, <2>2, PutGuard
<1>11. ASSUME ~Exposed(e, q) PROVE Guard(d, q)'
    <2>1. /\ d \notin DOMAIN pending /\ reply.id # d
          /\ \A t \in Threads : sync[t].local[d] = Gone
        <3>1. CASE d \in WithPid(q) \cup {e}
            BY <1>11, <3>1 DEF Exposed, LiveIn
        <3>2. CASE d \notin WithPid(q) \cup {e}
            <4>1. Unused(d)
                BY <1>5, <1>6, <3>2 DEF Where, WithPid
            <4> QED BY <4>1, UnusedFacts
        <3> QED BY <3>1, <3>2
    <2>2. /\ \A x \in DOMAIN pending : pending[x].pid # q
          /\ reply.row.pid # q
          /\ \A t \in Threads : q \notin sync[t].merge
        BY <1>11 DEF Exposed
    <2>3. \A x \in Rows : loaded'[x] = IF calendar'[x].deleted THEN Gone ELSE calendar'[x]
        BY <1>6, <1>9, ByAccountFacts DEF Put
    <2>4. calendar'[d] = r
        BY <1>6 DEF Put
    <2>5. loaded'[d] = Gone /\ \A x \in Rows : loaded'[x].pid # q
        <3>1. ASSUME NEW x \in Rows, x # d PROVE calendar'[x].pid # q
            BY <1>2, <1>5, <1>9, <2>4, <3>1 DEF Unique
        <3> QED BY <1>2, <1>5, <2>3, <2>4, <3>1, GoneFacts
    <2> QED BY <1>2, <1>5, <2>1, <2>2, <2>4, <2>5 DEF Guard
<1>12. KeptInv'
    <2>1. ASSUME NEW p \in condemned' PROVE remote'[p] = 0 \/ \E x \in Rows : Guard(x, p)'
        <3>1. CASE p = q
            BY <1>2, <1>11, <2>1, <3>1
        <3>2. CASE p # q
            <4>1. p \in condemned
                BY <1>2, <2>1, <3>2
            <4> QED BY <1>2, <1>10, <3>2, <4>1 DEF KeptInv
        <3> QED BY <3>1, <3>2
    <2> QED BY <2>1 DEF KeptInv
<1> QED BY <1>9, <1>12

LEMMA DeleteCalendarKeeps == ASSUME IInv, NEW e \in Rows, DeleteCalendar(e) PROVE IInv'
<1> USE DEF IInv
<1>1. /\ e \in LiveIn(loaded) /\ UserActs
      /\ calendar' = [calendar EXCEPT ![e] = Gone]
      /\ UNCHANGED <<remote, issued, faults, pending, reply, sync, asked, condemned, erased>>
    BY DEF DeleteCalendar, uploadVars, historyVars
<1>2. Remove(e)
    BY <1>1, RemoveFacts
<1>3. /\ loaded' = ByAccount(calendar') /\ clock' \in 0..MaxStamp
      /\ Table(loaded')
      /\ \A x \in Rows : loaded'[x] = IF calendar'[x].deleted THEN Gone ELSE calendar'[x]
    <2>1. loaded' = ByAccount(calendar') /\ clock' \in 0..MaxStamp
        BY <1>1, TypeParts DEF UserActs
    <2>2. PICK c : c = calendar'
        OBVIOUS
    <2>3. Table(c)
        BY <1>2, <2>2 DEF Remove, Table
    <2>4. Table(ByAccount(c)) /\ \A x \in Rows : ByAccount(c)[x] = IF c[x].deleted THEN Gone ELSE c[x]
        BY <2>3, ByAccountFacts
    <2>5. loaded' = ByAccount(c)
        BY <2>1, <2>2
    <2> QED BY <2>1, <2>2, <2>4, <2>5 DEF Table
<1>4. Later
    BY <1>1, SameLater
<1>5. TypeOK'
    <2>1. WorkerAt'
        BY <1>1, TypeParts DEF WorkerAt
    <2> QED BY <1>1, <1>2, <1>3, <2>1, TypeParts, TypePrime DEF Remove
<1>6. Unique'
    BY <1>2, RemoveUnique
<1>7. IssuedInv'
    <2>1. \A x \in Rows : calendar'[x] = Gone \/ calendar'[x] = calendar[x]
        BY <1>2 DEF Remove
    <2>2. \A x \in Rows : calendar'[x].pid \in Known /\ loaded'[x].pid \in Known
        BY <1>3, <2>1, GoneFacts DEF IssuedInv, Known
    <2> QED BY <1>1, <2>2 DEF IssuedInv, Known
<1>8. DeletingInv'
    <2>1. \A x \in Rows : calendar'[x].syncStatus = "PENDING_DELETE" =>
              calendar'[x].deleted /\ calendar'[x].pid \in asked'
        BY <1>1, <1>2, GoneFacts DEF DeletingInv, Remove
    <2>2. \A x \in Rows : loaded'[x].syncStatus # "PENDING_DELETE"
        BY <1>3, <2>1, GoneFacts
    <2> QED BY <1>1, <2>1, <2>2 DEF DeletingInv
<1>9. ThreadInv'
    BY <1>1, <1>4, ThreadsKept
<1>10. SameInv'
    BY <1>1, <1>2, <1>3, RemoveSame
<1>11. ASSUME NEW p \in condemned, NEW x \in Rows, Guard(x, p) PROVE Guard(x, p)'
    <2>1. p \in Pids /\ e # x
        BY <1>1, <1>11, TypeParts DEF Guard, LiveIn
    <2> QED BY <1>1, <1>2, <1>3, <1>11, <2>1, RemoveGuard
<1> QED BY <1>1, <1>4, <1>5, <1>6, <1>7, <1>8, <1>9, <1>10, <1>11, KeptStep

LEMMA RefreshCalendarsKeeps == ASSUME IInv, RefreshCalendars PROVE IInv'
<1> USE DEF IInv
<1>1. /\ UNCHANGED <<calendar, remote, issued, clock, faults, pending, reply, sync, asked, condemned,
                     erased>>
      /\ loaded' = ByAccount(calendar)
    BY DEF RefreshCalendars, uploadVars, historyVars
<1>2. /\ Table(loaded')
      /\ \A x \in Rows : loaded'[x] = IF calendar[x].deleted THEN Gone ELSE calendar[x]
    BY <1>1, TypeParts, ByAccountFacts
<1>3. Later
    BY <1>1, SameLater
<1>4. TypeOK'
    <2>1. WorkerAt'
        BY <1>1, TypeParts DEF WorkerAt
    <2> QED BY <1>1, <1>2, <2>1, TypeParts, TypePrime
<1>5. Unique' /\ IssuedInv'
    BY <1>1, <1>2, GoneFacts DEF Unique, IssuedInv, Known
<1>6. DeletingInv'
    BY <1>1, <1>2, GoneFacts DEF DeletingInv
<1>7. ThreadInv'
    BY <1>1, <1>3, ThreadsKept
<1>8. SameInv'
    BY <1>1, <1>2, GoneFacts DEF SameInv, SameRow, Live, LiveIn
<1>9. ASSUME NEW p \in condemned, NEW x \in Rows, Guard(x, p) PROVE Guard(x, p)'
    <2>1. p \in Pids /\ calendar[x].deleted /\ calendar[x].pid = p
        BY <1>9, TypeParts DEF Guard, DeletingInv
    <2>2. loaded'[x] = Gone
        BY <1>2, <2>1
    <2>3. ASSUME NEW y \in Rows, loaded'[y].pid = p PROVE FALSE
        <3>1. y # x /\ calendar[y].pid = p
            BY <1>2, <2>1, <2>2, <2>3, GoneFacts
        <3> QED BY <2>1, <3>1 DEF Unique
    <2> QED BY <1>1, <1>9, <2>2, <2>3 DEF Guard
<1> QED BY <1>1, <1>3, <1>4, <1>5, <1>6, <1>7, <1>8, <1>9, KeptStep

-----------------------------------------------------------------------------
(* The upload. *)

LEMMA RestFacts ==
    ASSUME TypeOK, NEW e
    PROVE  /\ DOMAIN Rest(e) = DOMAIN pending \ {e}
           /\ \A d \in DOMAIN pending \ {e} : Rest(e)[d] = pending[d]
           /\ Rest(e) \in [DOMAIN Rest(e) -> RowType]
<1>1. \A d \in DOMAIN pending : pending[d] \in RowType
    BY TypeParts
<1> QED BY <1>1 DEF Rest

(* Thread t turns to s, and the worker may drop its job.                        *)
LEMMA TurnKeeps ==
    ASSUME IInv, NEW t \in Threads, NEW s \in SyncRecord, Turns(sync', t, s), ThreadOK(s)',
           UNCHANGED <<calendar, remote, issued, clock, loaded, asked, condemned, erased>>,
           faults' \in 0..MaxFaults,
           UNCHANGED <<pending, reply>> \/ (pending' = <<>> /\ reply' = NoReply),
           t = Worker => s.at = "uploading" \/ (reply' = NoReply /\ DOMAIN pending' = {}),
           t # Worker => UNCHANGED <<pending, reply>>,
           \A e \in Rows : \/ s.local[e] = sync[t].local[e] \/ s.local[e] = Gone
                           \/ s.local[e] = calendar[e] /\ ~calendar[e].deleted,
           \A p \in s.merge :
               \/ p \in sync[t].merge
               \/ \A e \in Rows : calendar[e].syncStatus = "PENDING_DELETE" => calendar[e].pid # p
    PROVE  IInv'
<1> USE DEF IInv
<1>1. Later
    BY SameLater
<1>2. /\ DOMAIN pending' \subseteq DOMAIN pending
      /\ \A d \in DOMAIN pending' : pending'[d] = pending[d]
      /\ pending' \in [DOMAIN pending' -> RowType]
    <2>1. CASE pending' = pending
        BY <2>1, TypeParts
    <2>2. CASE pending' = <<>>
        BY <2>2
    <2> QED BY <2>1, <2>2
<1>3. \A u \in Threads, e \in Rows :
          \/ sync'[u].local[e] = sync[u].local[e] \/ sync'[u].local[e] = Gone
          \/ sync'[u].local[e] = calendar[e] /\ ~calendar[e].deleted
    BY DEF Turns
<1>4. TypeOK'
    <2>1. WorkerAt'
        <3>1. CASE t = Worker
            BY <3>1 DEF WorkerAt, Turns
        <3>2. CASE t # Worker
            BY <3>2, TypeParts DEF WorkerAt, Turns
        <3> QED BY <3>1, <3>2
    <2>2. reply' \in [id : Rows, row : RowType \cup {Gone}] \cup {NoReply}
        BY TypeParts
    <2> QED BY <1>2, <2>1, <2>2, TypeParts, TypePrime DEF Turns
<1>5. Unique'
    BY DEF Unique
<1>6. IssuedInv'
    <2>1. \A u \in Threads, e \in Rows : sync'[u].local[e].pid \in Known
        BY <1>3, GoneFacts DEF IssuedInv, Known
    <2>2. reply'.row.pid \in Known
        BY GoneFacts DEF IssuedInv, Known
    <2> QED BY <1>2, <2>1, <2>2 DEF IssuedInv, Known
<1>7. DeletingInv'
    BY <1>2, GoneFacts DEF DeletingInv
<1>8. ThreadInv'
    BY <1>1, ThreadTurns
<1>9. SameInv'
    <2>1. reply'.id \notin DOMAIN pending'
        BY <1>2, TypeParts, GoneFacts DEF SameInv
    <2>2. ASSUME NEW e \in Live \ erased PROVE SameRow(e)'
        <3>1. SameRow(e) /\ e \in Rows
            BY <2>2 DEF SameInv, Live, LiveIn
        <3>2. \A u \in Threads : sync'[u].local[e].pid \in {NoPid, calendar[e].pid}
            BY <1>3, <3>1, GoneFacts DEF SameRow
        <3>3. reply' = NoReply => reply'.id # e
            BY <3>1, GoneFacts
        <3> QED BY <1>2, <3>1, <3>2, <3>3 DEF SameRow
    <2> QED BY <2>1, <2>2 DEF SameInv, Live, LiveIn
<1>10. ASSUME NEW p \in condemned, NEW x \in Rows, Guard(x, p) PROVE Guard(x, p)'
    <2>1. p \in Pids /\ calendar[x].deleted /\ calendar[x].pid = p
        BY <1>10, TypeParts DEF Guard, DeletingInv
    <2>2. \A u \in Threads : sync'[u].local[x] = Gone /\ p \notin sync'[u].merge
        BY <1>3, <1>10, <2>1 DEF Guard, Turns
    <2>3. reply'.id # x /\ reply'.row.pid # p
        BY <1>10, <2>1, GoneFacts DEF Guard
    <2> QED BY <1>2, <1>10, <2>2, <2>3 DEF Guard
<1> QED BY <1>1, <1>4, <1>5, <1>6, <1>7, <1>8, <1>9, <1>10, KeptStep

LEMMA StartJobKeeps == ASSUME IInv, StartJob PROVE IInv'
<1> USE DEF IInv
<1>1. /\ sync[Worker].at = "idle"
      /\ sync' = [sync EXCEPT ![Worker].at = "uploading"]
      /\ pending' = [e \in PendingCalendars |-> calendar[e]]
      /\ UNCHANGED <<calendar, remote, issued, clock, faults, loaded, reply, asked, condemned, erased>>
    BY DEF StartJob, historyVars
<1>2. reply = NoReply
    BY <1>1, TypeParts DEF WorkerAt
<1>3. PICK s : s = [sync[Worker] EXCEPT !.at = "uploading"]
    OBVIOUS
<1>4. Turns(sync', Worker, s)
    <2>1. PICK a, l, k, c, m, v : /\ a = "uploading" /\ l = NoList /\ k = {} /\ c = Nothing
                                  /\ m = {} /\ v = {}
        OBVIOUS
    <2>2. l \in [Pids -> 0..MaxStamp] /\ Table(c)
        BY <2>1, GoneFacts DEF NoList, Table
    <2> QED BY <1>1, <1>3, <2>1, <2>2, SyncSteps, TypeParts
<1>5. /\ DOMAIN pending' = PendingCalendars /\ PendingCalendars \subseteq Rows
      /\ \A d \in DOMAIN pending' : pending'[d] = calendar[d] /\ calendar[d] \in RowType
      /\ pending' \in [DOMAIN pending' -> RowType]
    BY <1>1, TypeParts DEF PendingCalendars, Live, LiveIn, Table
<1>6. sync[Worker] \in SyncRecord /\ s.at = "uploading" /\ s.local = sync[Worker].local
      /\ s.merge = sync[Worker].merge /\ s.victims = sync[Worker].victims
      /\ s.known = sync[Worker].known /\ s.list = sync[Worker].list
    BY <1>3, TypeParts DEF SyncRecord
<1>7. \A u \in Threads : sync'[u].local = sync[u].local /\ sync'[u].merge = sync[u].merge
    BY <1>4, <1>6 DEF Turns
<1>8. Later
    BY <1>1, SameLater
<1>9. TypeOK'
    <2>1. WorkerAt'
        BY <1>4, <1>6 DEF WorkerAt, Turns
    <2>2. sync' \in [Threads -> SyncRecord]
        BY <1>4 DEF Turns
    <2> QED BY <1>1, <1>5, <2>1, <2>2, TypeParts, TypePrime
<1>10. Unique' /\ IssuedInv' /\ DeletingInv'
    BY <1>1, <1>5, <1>7 DEF Unique, IssuedInv, Known, DeletingInv
<1>11. ThreadInv'
    <2>1. ThreadOK(sync[Worker])
        BY DEF ThreadInv
    <2>2. ThreadOK(s)
        BY <1>1, <1>6, <2>1 DEF ThreadOK, LiveIn
    <2>3. s \in SyncRecord
        BY <1>4 DEF Turns
    <2>4. ThreadOK(s)'
        BY <1>8, <2>2, <2>3, ThreadKept
    <2> QED BY <1>4, <1>8, <2>4, ThreadTurns
<1>12. SameInv'
    <2>1. ASSUME NEW e \in Live \ erased PROVE SameRow(e)'
        <3>1. SameRow(e)
            BY <2>1 DEF SameInv
        <3> QED BY <1>1, <1>5, <1>7, <3>1 DEF SameRow
    <2>2. reply'.id \notin DOMAIN pending'
        BY <1>1, <1>2, <1>5, GoneFacts
    <2> QED BY <1>1, <2>1, <2>2 DEF SameInv, Live, LiveIn
<1>13. ASSUME NEW p \in condemned, NEW x \in Rows, Guard(x, p) PROVE Guard(x, p)'
    <2>1. p \in Pids /\ p # NoPid
        BY TypeParts
    <2>2. \A d \in DOMAIN pending' : d = x \/ pending'[d].pid = p =>
              pending'[d].pid = p /\ pending'[d].syncStatus = "PENDING_DELETE"
        BY <1>5, <1>13, <2>1 DEF Guard, Unique
    <2> QED BY <1>1, <1>7, <1>13, <2>2 DEF Guard
<1> QED BY <1>1, <1>8, <1>9, <1>10, <1>11, <1>12, <1>13, KeptStep

(* The request for row e is done, and leaves a reply or none.                   *)
LEMMA SentKeeps ==
    ASSUME IInv, NEW e \in Rows, IsNext(e), pending' = Rest(e),
           UNCHANGED <<calendar, clock, loaded, sync, asked, condemned, erased>>,
           faults' \in 0..MaxFaults,
           Later, remote' \in [Pids -> 0..MaxStamp], issued' \subseteq Pids,
           \A p \in Pids : remote'[p] # 0 => p \in issued',
           \/ reply' = reply
           \/ /\ reply' \in [id : Rows, row : RowType \cup {Gone}]
              /\ reply'.id = e
              /\ reply'.row.pid \in issued' \cup {NoPid}
              /\ reply'.row.syncStatus # "PENDING_DELETE"
              /\ reply'.row = Gone =>
                     pending[e].pid # NoPid /\ remote'[pending[e].pid] = 0
              /\ reply'.row # Gone =>
                     /\ pending[e].syncStatus # "PENDING_DELETE"
                     /\ pending[e].pid \in {NoPid, reply'.row.pid}
                     /\ reply'.row.pid \in issued => reply'.row.pid = pending[e].pid
    PROVE  IInv'
<1> USE DEF IInv
<1>1. /\ sync[Worker].at = "uploading" /\ reply = NoReply /\ e \in DOMAIN pending
      /\ DOMAIN pending' = DOMAIN pending \ {e}
      /\ \A d \in DOMAIN pending' : pending'[d] = pending[d]
      /\ pending' \in [DOMAIN pending' -> RowType]
    BY RestFacts DEF IsNext
<1>2. Known \subseteq Known'
    BY DEF Known, Later
<1>3. TypeOK'
    <2>1. WorkerAt'
        BY <1>1 DEF WorkerAt
    <2>2. reply' \in [id : Rows, row : RowType \cup {Gone}] \cup {NoReply}
        BY <1>1
    <2> QED BY <1>1, <2>1, <2>2, TypeParts, TypePrime
<1>4. Unique'
    BY DEF Unique
<1>5. IssuedInv'
    <2>1. reply'.row.pid \in Known'
        BY <1>1, GoneFacts DEF Known
    <2>2. asked' \subseteq issued'
        BY DEF IssuedInv, Later
    <2> QED BY <1>1, <1>2, <2>1, <2>2 DEF IssuedInv
<1>6. DeletingInv'
    BY <1>1 DEF DeletingInv
<1>7. ThreadInv'
    BY ThreadsKept
<1>8. SameInv'
    <2>1. ASSUME NEW x \in Live \ erased PROVE SameRow(x)'
        <3>1. SameRow(x) /\ x \in Rows
            BY <2>1 DEF SameInv, Live, LiveIn
        <3>2. CASE reply' = reply
            BY <1>1, <3>1, <3>2, GoneFacts DEF SameRow
        <3>3. CASE reply' # reply /\ x # e
            BY <1>1, <3>1, <3>3 DEF SameRow
        <3>4. CASE reply' # reply /\ x = e
            <4>1. pending[e].pid = calendar[e].pid
                BY <1>1, <3>1, <3>4 DEF SameRow
            <4> QED BY <1>1, <3>1, <3>4, <4>1 DEF SameRow
        <3> QED BY <3>2, <3>3, <3>4
    <2>2. reply'.id \notin DOMAIN pending'
        BY <1>1 DEF SameInv
    <2> QED BY <2>1, <2>2 DEF SameInv, Live, LiveIn
<1>9. ASSUME NEW p \in condemned, NEW x \in Rows, Guard(x, p) PROVE remote'[p] = 0 \/ Guard(x, p)'
    <2>1. p \in Pids /\ p # NoPid /\ p \in issued
        BY TypeParts DEF IssuedInv
    <2>2. CASE reply' = reply
        BY <1>1, <1>9, <2>2 DEF Guard
    <2>3. CASE reply' # reply /\ reply'.row = Gone
        <3>1. CASE e = x
            BY <1>1, <1>9, <2>3, <3>1 DEF Guard
        <3>2. CASE e # x
            BY <1>1, <1>9, <2>1, <2>3, <3>2, GoneFacts DEF Guard
        <3> QED BY <3>1, <3>2
    <2>4. CASE reply' # reply /\ reply'.row # Gone
        <3>1. e # x
            BY <1>1, <1>9, <2>4 DEF Guard
        <3>2. reply'.row.pid # p
            BY <1>1, <1>9, <2>1, <2>4 DEF Guard
        <3> QED BY <1>1, <1>9, <2>4, <3>1, <3>2 DEF Guard
    <2> QED BY <2>2, <2>3, <2>4
<1> QED BY <1>3, <1>4, <1>5, <1>6, <1>7, <1>8, <1>9, KeptStep

(* What the server does with a request, and the reply that stands for it.       *)
LEMMA AppliedFacts ==
    ASSUME IInv, NEW e \in Rows, IsNext(e), NEW p \in Pids, Applied(e, p)
    PROVE  /\ issued \subseteq issued' /\ \A q \in issued : remote[q] = 0 => remote'[q] = 0
           /\ remote' \in [Pids -> 0..MaxStamp] /\ issued' \subseteq Pids
           /\ \A q \in Pids : remote'[q] # 0 => q \in issued'
           /\ p \in issued'
           /\ pending[e].pid \in {NoPid, p} /\ (p \in issued => pending[e].pid = p)
           /\ pending[e].syncStatus = "PENDING_DELETE" => pending[e].pid = p /\ remote'[p] = 0
<1> USE DEF IInv
<1>1. PICK r \in RowType : r = pending[e]
    BY TypeParts DEF IsNext
<1>2. r.content \in Stamps /\ r.content \in 0..MaxStamp /\ 0 \in 0..MaxStamp
    BY <1>1, RowFacts DEF Stamps
<1>3. /\ remote \in [Pids -> 0..MaxStamp] /\ issued \subseteq Pids
      /\ \A q \in Pids : remote[q] # 0 => q \in issued
      /\ r.pid \in issued \cup {NoPid} /\ p # NoPid
    BY <1>1, TypeParts DEF IssuedInv, Known, IsNext
<1>4. CASE /\ r.syncStatus # "PENDING_DELETE" /\ r.pid = NoPid /\ NewPid(p)
           /\ issued' = issued \cup {p} /\ remote' = [remote EXCEPT ![p] = r.content]
    BY <1>1, <1>2, <1>3, <1>4 DEF NewPid
<1>5. CASE /\ r.syncStatus # "PENDING_DELETE" /\ r.pid = p /\ remote[p] # 0
           /\ remote' = [remote EXCEPT ![p] = r.content] /\ issued' = issued
    BY <1>1, <1>2, <1>3, <1>5
<1>6. CASE /\ r.syncStatus = "PENDING_DELETE" /\ r.pid = p
           /\ remote' = [remote EXCEPT ![p] = 0] /\ issued' = issued
    <2>1. p \in issued
        BY <1>3, <1>6
    <2>2. /\ remote' \in [Pids -> 0..MaxStamp] /\ remote'[p] = 0
          /\ \A q \in Pids \ {p} : remote'[q] = remote[q]
        BY <1>2, <1>3, <1>6
    <2> QED BY <1>1, <1>3, <1>6, <2>1, <2>2
<1> QED BY <1>1, <1>4, <1>5, <1>6 DEF Applied

LEMMA ReplyFacts ==
    ASSUME TypeOK, NEW e \in Rows, IsNext(e), NEW p \in Pids \cup {NoPid}
    PROVE  LET m == ReplyFor(e, p)
           IN  /\ m \in [id : Rows, row : RowType \cup {Gone}] /\ m.id = e
               /\ m.row.syncStatus # "PENDING_DELETE"
               /\ m.row = Gone <=> pending[e].syncStatus = "PENDING_DELETE"
               /\ m.row = Gone \/ m.row.pid = p
               /\ m.row.pid \in {p, NoPid}
<1>1. PICK r \in RowType : r = pending[e]
    BY TypeParts DEF IsNext
<1>2. r.content \in Stamps
    BY <1>1, RowFacts
<1>3. Uploaded(r, p) \in RowType /\ Uploaded(r, p).pid = p /\ Uploaded(r, p).syncStatus = "SYNCED"
    BY <1>1, <1>2 DEF RowType, Uploaded
<1>4. Uploaded(r, p) # Gone
    BY <1>3, GoneFacts
<1> QED BY <1>1, <1>3, <1>4, GoneFacts DEF ReplyFor

LEMMA ServerAcceptsKeeps == ASSUME IInv, NEW e \in Rows, ServerAccepts(e) PROVE IInv'
<1> USE DEF IInv
<1>1. PICK p \in Pids : Applied(e, p) /\ reply' = ReplyFor(e, p)
    BY DEF ServerAccepts
<1>2. /\ IsNext(e) /\ pending' = Rest(e)
      /\ UNCHANGED <<calendar, clock, faults, loaded, sync, asked, condemned, erased>>
    BY DEF ServerAccepts, historyVars
<1>3. PICK m : m = ReplyFor(e, p)
    OBVIOUS
<1>4. /\ m \in [id : Rows, row : RowType \cup {Gone}] /\ m.id = e
      /\ m.row.syncStatus # "PENDING_DELETE"
      /\ m.row = Gone <=> pending[e].syncStatus = "PENDING_DELETE"
      /\ m.row = Gone \/ m.row.pid = p
      /\ m.row.pid \in {p, NoPid}
    BY <1>2, <1>3, ReplyFacts
<1>5. Later
    BY <1>1, <1>2, AppliedFacts DEF Later
<1>6. /\ remote' \in [Pids -> 0..MaxStamp] /\ issued' \subseteq Pids
      /\ \A q \in Pids : remote'[q] # 0 => q \in issued'
      /\ p \in issued' /\ p # NoPid
      /\ pending[e].pid \in {NoPid, p} /\ (p \in issued => pending[e].pid = p)
      /\ pending[e].syncStatus = "PENDING_DELETE" => pending[e].pid = p /\ remote'[p] = 0
    BY <1>1, <1>2, AppliedFacts
<1>7. faults' \in 0..MaxFaults
    BY <1>2, TypeParts
<1> QED BY <1>1, <1>2, <1>3, <1>4, <1>5, <1>6, <1>7, SentKeeps

LEMMA ResponseLostKeeps == ASSUME IInv, NEW e \in Rows, ResponseLost(e) PROVE IInv'
<1> USE DEF IInv
<1>1. PICK p \in Pids : Applied(e, p)
    BY DEF ResponseLost
<1>2. /\ IsNext(e) /\ pending' = Rest(e) /\ faults < MaxFaults /\ faults' = faults + 1
      /\ UNCHANGED <<calendar, clock, loaded, reply, sync, asked, condemned, erased>>
    BY DEF ResponseLost, historyVars
<1>3. Later
    BY <1>1, <1>2, AppliedFacts DEF Later
<1>4. /\ remote' \in [Pids -> 0..MaxStamp] /\ issued' \subseteq Pids
      /\ \A q \in Pids : remote'[q] # 0 => q \in issued'
    BY <1>1, <1>2, AppliedFacts
<1>5. faults' \in 0..MaxFaults
    BY <1>2, TypeParts
<1> QED BY <1>2, <1>3, <1>4, <1>5, SentKeeps

LEMMA ErrorTakenKeeps == ASSUME IInv, NEW e \in Rows, ErrorTaken(e) PROVE IInv'
<1> USE DEF IInv
<1>1. PICK p : p = pending[e].pid
    OBVIOUS
<1>2. /\ IsNext(e) /\ pending' = Rest(e) /\ faults < MaxFaults /\ faults' = faults + 1
      /\ pending[e].syncStatus # "PENDING_DELETE" /\ reply' = ReplyFor(e, p)
      /\ UNCHANGED <<calendar, remote, issued, clock, loaded, sync, asked, condemned, erased>>
    BY <1>1 DEF ErrorTaken, historyVars
<1>3. p \in issued \cup {NoPid} /\ p \in Pids \cup {NoPid}
    BY <1>1, <1>2, TypeParts DEF IssuedInv, Known, IsNext
<1>4. PICK m : m = ReplyFor(e, p)
    OBVIOUS
<1>5. /\ m \in [id : Rows, row : RowType \cup {Gone}] /\ m.id = e
      /\ m.row.syncStatus # "PENDING_DELETE"
      /\ m.row # Gone /\ m.row.pid = p
    BY <1>2, <1>3, <1>4, ReplyFacts
<1>6. Later /\ faults' \in 0..MaxFaults
    BY <1>2, TypeParts, SameLater
<1>7. /\ remote' \in [Pids -> 0..MaxStamp] /\ issued' \subseteq Pids
      /\ \A q \in Pids : remote'[q] # 0 => q \in issued'
    BY <1>2, TypeParts DEF IssuedInv
<1> QED BY <1>1, <1>2, <1>3, <1>4, <1>5, <1>6, <1>7, SentKeeps

LEMMA ServerRejectsKeeps == ASSUME IInv, NEW e \in Rows, ServerRejects(e) PROVE IInv'
<1> USE DEF IInv
<1>1. /\ IsNext(e) /\ pending' = Rest(e)
      /\ UNCHANGED <<calendar, remote, issued, clock, faults, loaded, reply, sync, asked, condemned,
                     erased>>
    BY DEF ServerRejects, historyVars
<1>2. Later /\ faults' \in 0..MaxFaults
    BY <1>1, TypeParts, SameLater
<1>3. /\ remote' \in [Pids -> 0..MaxStamp] /\ issued' \subseteq Pids
      /\ \A q \in Pids : remote'[q] # 0 => q \in issued'
    BY <1>1, TypeParts DEF IssuedInv
<1> QED BY <1>1, <1>2, <1>3, SentKeeps

(* deleteById of a reply, or of a row the list does not vouch for.              *)
LEMMA RemoveKeeps ==
    ASSUME IInv, NEW d \in Rows, Remove(d), reply' = reply \/ reply' = NoReply,
           UNCHANGED <<remote, issued, clock, faults, loaded, pending, asked, condemned, erased>>,
           sync' \in [Threads -> SyncRecord], ThreadInv', sync'[Worker].at = sync[Worker].at,
           \A t \in Threads : sync'[t].local = sync[t].local /\ sync'[t].merge = sync[t].merge,
           \A x \in Rows, p \in Pids : Guard(x, p) => d # x
    PROVE  IInv'
<1> USE DEF IInv
<1>1. Later
    BY SameLater
<1>2. TypeOK'
    <2>1. WorkerAt'
        BY TypeParts DEF WorkerAt
    <2>2. reply' \in [id : Rows, row : RowType \cup {Gone}] \cup {NoReply}
        BY TypeParts
    <2> QED BY <2>1, <2>2, TypeParts, TypePrime DEF Remove
<1>3. Unique'
    BY RemoveUnique
<1>4. \A x \in Rows : calendar'[x] = Gone \/ calendar'[x] = calendar[x]
    BY DEF Remove
<1>5. IssuedInv'
    BY <1>4, GoneFacts DEF IssuedInv, Known
<1>6. DeletingInv'
    BY <1>4, GoneFacts DEF DeletingInv
<1>7. SameInv'
    BY RemoveSame
<1>8. ASSUME NEW p \in condemned, NEW x \in Rows, Guard(x, p) PROVE Guard(x, p)'
    <2>1. p \in Pids /\ d # x
        BY <1>8, TypeParts
    <2> QED BY <1>8, <2>1, RemoveGuard
<1> QED BY <1>1, <1>2, <1>3, <1>5, <1>6, <1>7, <1>8, KeptStep

(* upsert of a reply, or of a listed calendar. *)
LEMMA PutKeeps ==
    ASSUME IInv, NEW d \in Rows, NEW e, NEW r \in RowType, Put(d, r), Where(d, e, r.pid),
           r.pid \in Known, r.syncStatus # "PENDING_DELETE",
           reply' = reply \/ reply' = NoReply,
           UNCHANGED <<remote, issued, clock, faults, loaded, pending, asked, condemned, erased>>,
           sync' \in [Threads -> SyncRecord], ThreadInv', sync'[Worker].at = sync[Worker].at,
           \A t \in Threads : sync'[t].local = sync[t].local /\ sync'[t].merge \subseteq sync[t].merge,
           \A p \in condemned, x \in Rows : Guard(x, p) => e # x /\ r.pid # p,
           SameInv'
    PROVE  IInv'
<1> USE DEF IInv
<1>1. Later
    BY SameLater
<1>2. TypeOK'
    <2>1. WorkerAt'
        BY TypeParts DEF WorkerAt
    <2>2. reply' \in [id : Rows, row : RowType \cup {Gone}] \cup {NoReply}
        BY TypeParts
    <2> QED BY <2>1, <2>2, TypeParts, TypePrime DEF Put
<1>3. Unique'
    BY PutUnique
<1>4. \A x \in Rows : calendar'[x] = r \/ calendar'[x] = calendar[x]
    BY DEF Put
<1>5. IssuedInv'
    BY <1>4, GoneFacts DEF IssuedInv, Known
<1>6. DeletingInv'
    BY <1>4, GoneFacts DEF DeletingInv
<1>7. ASSUME NEW p \in condemned, NEW x \in Rows, Guard(x, p) PROVE Guard(x, p)'
    <2>1. p \in Pids /\ e # x /\ r.pid # p
        BY <1>7, TypeParts
    <2>2. d # x
        BY <1>7, <2>1, WhereSpares
    <2> QED BY <1>3, <1>7, <2>1, <2>2, PutGuard
<1> QED BY <1>1, <1>2, <1>3, <1>5, <1>6, <1>7, KeptStep

LEMMA WriteReplyKeeps == ASSUME IInv, WriteReply PROVE IInv'
<1> USE DEF IInv
<1>1. /\ reply # NoReply /\ reply' = NoReply
      /\ UNCHANGED <<remote, issued, clock, faults, loaded, pending, sync, asked, condemned, erased>>
    BY DEF WriteReply, historyVars
<1>2. PICK i, r : i = reply.id /\ r = reply.row
    OBVIOUS
<1>3. i \in Rows /\ r \in RowType \cup {Gone}
    BY <1>1, <1>2, TypeParts
<1>4. ThreadInv' /\ sync' \in [Threads -> SyncRecord]
    BY <1>1, ThreadsKept, SameLater, TypeParts
<1>5. CASE r = Gone
    <2>1. Remove(i)
        BY <1>2, <1>3, <1>5, RemoveFacts DEF WriteReply
    <2>2. \A x \in Rows, p \in Pids : Guard(x, p) => i # x
        BY <1>2 DEF Guard
    <2> QED BY <1>1, <1>3, <1>4, <2>1, <2>2, RemoveKeeps
<1>6. CASE r # Gone
    <2>1. Upsert(i, r) /\ r \in RowType
        BY <1>2, <1>3, <1>6 DEF WriteReply
    <2>2. PICK d \in Rows : Put(d, r) /\ Where(d, i, r.pid)
        BY <2>1, UpsertFacts
    <2>3. \A p \in condemned, x \in Rows : Guard(x, p) => i # x /\ r.pid # p
        BY <1>2 DEF Guard
    <2>4. r.pid \in Known /\ r.syncStatus # "PENDING_DELETE"
        BY <1>2 DEF IssuedInv, DeletingInv
    <2>5. SameInv'
        <3>1. ASSUME NEW x \in Rows, calendar'[x] # Gone, x \notin erased PROVE SameRow(x)'
            <4>1. reply'.id # x
                BY <1>1, GoneFacts
            <4>2. CASE calendar[x] = Gone
                <5>1. x = d /\ Unused(d)
                    BY <2>2, <3>1, <4>2 DEF Put, Where, Live, LiveIn
                <5> QED BY <1>1, <4>1, <5>1, UnusedFacts, GoneFacts DEF SameRow
            <4>3. CASE calendar[x] # Gone
                <5>1. SameRow(x)
                    BY <3>1, <4>3 DEF SameInv, Live, LiveIn
                <5>2. CASE calendar'[x].pid = calendar[x].pid
                    BY <1>1, <4>1, <5>1, <5>2 DEF SameRow
                <5>3. CASE calendar'[x].pid # calendar[x].pid
                    <6>1. x = d /\ calendar'[x] = r
                        BY <2>2, <5>3 DEF Put
                    <6>2. d = i
                        BY <2>2, <4>3, <5>3, <6>1 DEF Where, Live, LiveIn, Unused
                    <6>3. calendar[x].pid = NoPid /\ x \notin DOMAIN pending
                        BY <1>2, <1>6, <5>1, <5>3, <6>1, <6>2 DEF SameRow, SameInv
                    <6> QED BY <1>1, <4>1, <5>1, <6>3 DEF SameRow
                <5> QED BY <5>2, <5>3
            <4> QED BY <4>2, <4>3
        <3>2. reply'.id \notin DOMAIN pending'
            BY <1>1, TypeParts, GoneFacts
        <3> QED BY <1>1, <3>1, <3>2 DEF SameInv, Live, LiveIn
    <2> QED BY <1>1, <1>4, <2>1, <2>2, <2>3, <2>4, <2>5, PutKeeps
<1> QED BY <1>5, <1>6

LEMMA WriteThrowsKeeps == ASSUME IInv, WriteThrows PROVE IInv'
<1> USE DEF IInv
<1>1. /\ reply' = NoReply /\ pending' = <<>>
      /\ sync' = [sync EXCEPT ![Worker] = Idle]
      /\ UNCHANGED <<calendar, remote, issued, clock, faults, loaded, asked, condemned, erased>>
    BY DEF WriteThrows, historyVars
<1>2. PICK s : s = Idle
    OBVIOUS
<1>3. s \in SyncRecord /\ Turns(sync', Worker, s)
    BY <1>1, <1>2, TypeParts, GoneFacts DEF Turns
<1>4. ThreadOK(s)' /\ s.merge = {} /\ s.local = Nothing
    BY <1>2 DEF ThreadOK, Idle, NoList, LiveIn
<1>5. DOMAIN pending' = {} /\ faults' \in 0..MaxFaults
    BY <1>1, TypeParts
<1>6. \A e \in Rows : s.local[e] = Gone
    BY <1>4, GoneFacts
<1> QED BY <1>1, <1>3, <1>4, <1>5, <1>6, TurnKeeps

-----------------------------------------------------------------------------
(* Listing and merging. *)

LEMMA ListKeeps ==
    ASSUME IInv, NEW t \in Threads, ReadyToList(t), faults' \in 0..MaxFaults,
           NEW l \in [Pids -> 0..MaxStamp], NEW k \in SUBSET Pids,
           (l = remote /\ k = issued) \/ (l = NoList /\ k = {}),
           sync' = [sync EXCEPT ![t].at = "listed", ![t].list = l, ![t].known = k],
           UNCHANGED <<calendar, remote, issued, clock, loaded, pending, reply, asked, condemned, erased>>
    PROVE  IInv'
<1> USE DEF IInv
<1>1. PICK s : s = [sync[t] EXCEPT !.at = "listed", !.list = l, !.known = k]
    OBVIOUS
<1>2. Turns(sync', t, s)
    <2>1. PICK a, c, m, v : a = "listed" /\ c = Nothing /\ m = {} /\ v = {}
        OBVIOUS
    <2>2. Table(c)
        BY <2>1, GoneFacts DEF Table
    <2> QED BY <1>1, <2>1, <2>2, SyncSteps, TypeParts
<1>3. PICK x \in SyncRecord : x = sync[t]
    BY TypeParts
<1>4. /\ s.at = "listed" /\ s.list = l /\ s.known = k /\ s.local = x.local
      /\ s.merge = x.merge /\ s.victims = x.victims
    BY <1>1, <1>3 DEF SyncRecord
<1>5. x.at \in {"idle", "uploading"}
    BY <1>3 DEF ReadyToList
<1>6. ThreadOK(x)
    BY <1>3 DEF ThreadInv
<1>7. s.local = Nothing /\ s.merge = {} /\ s.victims = {}
    BY <1>4, <1>5, <1>6 DEF ThreadOK
<1>8. k \subseteq issued /\ \A p \in Pids : l[p] # 0 => p \in issued
    BY TypeParts DEF IssuedInv, NoList
<1>9. \A p \in k : l[p] = 0 => remote[p] = 0
    OBVIOUS
<1>10. ThreadOK(s)'
    BY <1>4, <1>7, <1>8, <1>9 DEF ThreadOK
<1>11. s \in SyncRecord
    BY <1>2 DEF Turns
<1>12. t = Worker => reply' = NoReply /\ DOMAIN pending' = {}
    BY DEF ReadyToList
<1>13. \A e \in Rows : s.local[e] = Gone
    BY <1>7, GoneFacts
<1> QED BY <1>2, <1>7, <1>10, <1>11, <1>12, <1>13, TurnKeeps

LEMMA ListCalendarsKeeps == ASSUME IInv, NEW t \in Threads, ListCalendars(t) PROVE IInv'
<1> USE DEF IInv
<1>1. PICK l, k : l = remote /\ k = issued
    OBVIOUS
<1>2. l \in [Pids -> 0..MaxStamp] /\ k \in SUBSET Pids
    BY <1>1, TypeParts
<1>3. /\ ReadyToList(t) /\ faults' \in 0..MaxFaults
      /\ sync' = [sync EXCEPT ![t].at = "listed", ![t].list = l, ![t].known = k]
      /\ UNCHANGED <<calendar, remote, issued, clock, loaded, pending, reply, asked, condemned, erased>>
    BY <1>1, TypeParts DEF ListCalendars, uploadVars, historyVars
<1> QED BY <1>1, <1>2, <1>3, ListKeeps

LEMMA ListMisreadKeeps == ASSUME IInv, NEW t \in Threads, ListMisread(t) PROVE IInv'
<1> USE DEF IInv
<1>1. PICK l, k : l = NoList /\ k = {}
    OBVIOUS
<1>2. l \in [Pids -> 0..MaxStamp] /\ k \in SUBSET Pids
    BY <1>1 DEF NoList
<1>3. faults' \in 0..MaxFaults
    BY TypeParts DEF ListMisread
<1>4. /\ ReadyToList(t)
      /\ sync' = [sync EXCEPT ![t].at = "listed", ![t].list = l, ![t].known = k]
      /\ UNCHANGED <<calendar, remote, issued, clock, loaded, pending, reply, asked, condemned, erased>>
    BY <1>1 DEF ListMisread, uploadVars, historyVars
<1> QED BY <1>1, <1>2, <1>3, <1>4, ListKeeps

(* A thread gives up, or has done its work. *)
LEMMA IdleKeeps ==
    ASSUME IInv, NEW t \in Threads, sync' = [sync EXCEPT ![t] = Idle],
           t = Worker => reply = NoReply /\ DOMAIN pending = {},
           UNCHANGED <<calendar, remote, issued, clock, faults, loaded, pending, reply, asked, condemned,
                       erased>>
    PROVE  IInv'
<1> USE DEF IInv
<1>1. PICK s : s = Idle
    OBVIOUS
<1>2. s \in SyncRecord /\ Turns(sync', t, s)
    BY <1>1, TypeParts, GoneFacts DEF Turns
<1>3. ThreadOK(s)' /\ s.merge = {} /\ s.local = Nothing
    BY <1>1 DEF ThreadOK, Idle, NoList, LiveIn
<1>4. faults' \in 0..MaxFaults
    BY TypeParts
<1>5. \A e \in Rows : s.local[e] = Gone
    BY <1>3, GoneFacts
<1> QED BY <1>2, <1>3, <1>4, <1>5, TurnKeeps

LEMMA NotUploading ==
    ASSUME TypeOK, NEW t \in Threads, sync[t].at # "uploading"
    PROVE  t = Worker => reply = NoReply /\ DOMAIN pending = {}
BY TypeParts DEF WorkerAt

LEMMA IdleStepsKeep ==
    ASSUME IInv, NEW t \in Threads,
           ListFails(t) \/ (\E p \in Pids : UpsertThrows(t, p)) \/ SyncEnds(t)
    PROVE  IInv'
<1> USE DEF IInv
<1>1. CASE ListFails(t)
    <2>1. reply = NoReply /\ DOMAIN pending = {}
        BY <1>1 DEF ListFails, ReadyToList
    <2> QED BY <1>1, <2>1, IdleKeeps DEF ListFails, uploadVars, historyVars
<1>2. CASE \E p \in Pids : UpsertThrows(t, p)
    <2>1. sync[t].at # "uploading"
        BY <1>2 DEF UpsertThrows
    <2> QED BY <1>2, <2>1, NotUploading, IdleKeeps DEF UpsertThrows, uploadVars, historyVars
<1>3. CASE SyncEnds(t)
    <2>1. sync[t].at # "uploading"
        BY <1>3 DEF SyncEnds
    <2> QED BY <1>3, <2>1, NotUploading, IdleKeeps DEF SyncEnds, uploadVars, historyVars
<1> QED BY <1>1, <1>2, <1>3

LEMMA GetByAccountKeeps == ASSUME IInv, NEW t \in Threads, GetByAccount(t) PROVE IInv'
<1> USE DEF IInv
<1>1. PICK c : c = ByAccount(calendar)
    OBVIOUS
<1>2. /\ sync[t].at = "listed"
      /\ sync' = [sync EXCEPT ![t].at = "reading", ![t].local = c]
      /\ UNCHANGED <<calendar, remote, issued, clock, faults, loaded, pending, reply, asked, condemned,
                     erased>>
    BY <1>1 DEF GetByAccount, uploadVars, historyVars
<1>3. Table(c) /\ \A e \in Rows : c[e] = IF calendar[e].deleted THEN Gone ELSE calendar[e]
    BY <1>1, ByAccountFacts, TypeParts
<1>4. PICK s : s = [sync[t] EXCEPT !.at = "reading", !.local = c]
    OBVIOUS
<1>5. Turns(sync', t, s)
    <2>1. PICK a, l, k, m, v : a = "reading" /\ l = NoList /\ k = {} /\ m = {} /\ v = {}
        OBVIOUS
    <2>2. l \in [Pids -> 0..MaxStamp]
        BY <2>1 DEF NoList
    <2> QED BY <1>2, <1>3, <1>4, <2>1, <2>2, SyncSteps, TypeParts
<1>6. PICK x \in SyncRecord : x = sync[t]
    BY TypeParts
<1>7. /\ s.at = "reading" /\ s.list = x.list /\ s.known = x.known /\ s.local = c
      /\ s.merge = x.merge /\ s.victims = x.victims
    BY <1>4, <1>6 DEF SyncRecord
<1>8. ThreadOK(x)
    BY <1>6 DEF ThreadInv
<1>9. s.merge = {} /\ s.victims = {}
    BY <1>2, <1>6, <1>7, <1>8 DEF ThreadOK
<1>10. ThreadOK(s)'
    BY <1>2, <1>7, <1>8, <1>9 DEF ThreadOK
<1>11. s \in SyncRecord
    BY <1>5 DEF Turns
<1>12. t = Worker => reply' = NoReply /\ DOMAIN pending' = {}
    BY <1>2, NotUploading
<1>13. faults' \in 0..MaxFaults
    BY <1>2, TypeParts
<1>14. \A e \in Rows : 
          s.local[e] = Gone \/ (s.local[e] = calendar[e] /\ ~calendar[e].deleted)
    BY <1>3, <1>7
<1> QED BY <1>2, <1>5, <1>9, <1>10, <1>11, <1>12, <1>13, <1>14, TurnKeeps

(* A row is to be removed because the list lacks its calendar, or because the    *)
(* user has asked to delete it.                                              *)
LEMMA GetPendingRemoteCalendarsKeeps ==
    ASSUME IInv, NEW t \in Threads, GetPendingRemoteCalendars(t) PROVE IInv'
<1> USE DEF IInv
<1>1. PICK m, v : /\ m = {p \in Pids : sync[t].list[p] # 0} \ PendingDeletedIds
                  /\ v = Absent(sync[t].local, m)
    OBVIOUS
<1>2. /\ sync[t].at = "reading"
      /\ sync' = [sync EXCEPT ![t].at = "merging", ![t].merge = m, ![t].victims = v]
      /\ UNCHANGED <<calendar, remote, issued, clock, faults, loaded, pending, reply, asked, condemned,
                     erased>>
    BY <1>1 DEF GetPendingRemoteCalendars, uploadVars, historyVars
<1>3. m \in SUBSET Pids /\ v \in SUBSET Rows
    BY <1>1 DEF Absent, LiveIn
<1>4. PICK s : s = [sync[t] EXCEPT !.at = "merging", !.merge = m, !.victims = v]
    OBVIOUS
<1>5. Turns(sync', t, s)
    <2>1. PICK a, l, k, c : a = "merging" /\ l = NoList /\ k = {} /\ c = Nothing
        OBVIOUS
    <2>2. l \in [Pids -> 0..MaxStamp] /\ Table(c)
        BY <2>1, GoneFacts DEF NoList, Table
    <2> QED BY <1>2, <1>3, <1>4, <2>1, <2>2, SyncSteps, TypeParts
<1>6. PICK x \in SyncRecord : x = sync[t]
    BY TypeParts
<1>7. /\ s.at = "merging" /\ s.list = x.list /\ s.known = x.known /\ s.local = x.local
      /\ s.merge = m /\ s.victims = v
    BY <1>4, <1>6 DEF SyncRecord
<1>8. ThreadOK(x)
    BY <1>6 DEF ThreadInv
<1>9. \A p \in m : x.list[p] # 0
    BY <1>1, <1>6
<1>10. ASSUME NEW e \in v
       PROVE  /\ e \in LiveIn(x.local)
              /\ x.local[e].pid \in x.known => remote[x.local[e].pid] = 0 \/ x.local[e].pid \in asked
    <2>1. e \in LiveIn(x.local) /\ x.local[e].pid \notin m
        BY <1>1, <1>6 DEF Absent
    <2>2. ASSUME x.local[e].pid \in x.known PROVE remote[x.local[e].pid] = 0 \/ x.local[e].pid \in asked
        <3>1. PICK p \in Pids : p = x.local[e].pid /\ p \in x.known
            BY <2>2, <1>6 DEF SyncRecord
        <3>2. CASE x.list[p] = 0
            BY <1>8, <3>1, <3>2 DEF ThreadOK
        <3>3. CASE x.list[p] # 0
            <4>1. p \in PendingDeletedIds
                BY <1>1, <1>6, <2>1, <3>1, <3>3
            <4> QED BY <3>1, <4>1 DEF PendingDeletedIds, Live, LiveIn, DeletingInv
        <3> QED BY <3>2, <3>3
    <2> QED BY <2>1, <2>2
<1>11. ThreadOK(s)'
    BY <1>2, <1>7, <1>8, <1>9, <1>10 DEF ThreadOK, LiveIn
<1>12. s \in SyncRecord
    BY <1>5 DEF Turns
<1>13. t = Worker => reply' = NoReply /\ DOMAIN pending' = {}
    BY <1>2, NotUploading
<1>14. faults' \in 0..MaxFaults
    BY <1>2, TypeParts
<1>15. \A p \in m, e \in Rows : calendar[e].syncStatus = "PENDING_DELETE" => calendar[e].pid # p
    BY <1>1, GoneFacts DEF PendingDeletedIds, Live, LiveIn
<1>16. \A e \in Rows : s.local[e] = sync[t].local[e]
    BY <1>6, <1>7
<1> QED BY <1>2, <1>5, <1>7, <1>11, <1>12, <1>13, <1>14, <1>15, <1>16, TurnKeeps

LEMMA MergedFacts ==
    ASSUME IInv, NEW t \in Threads, NEW p \in sync[t].merge
    PROVE  LET m == Merged(t, p)
           IN  /\ m.row \in RowType /\ m.row.pid = p /\ m.row.syncStatus # "PENDING_DELETE"
               /\ \/ m.id = NoRow
                  \/ m.id \in Rows /\ sync[t].local[m.id] # Gone /\ sync[t].local[m.id].pid = p
<1> USE DEF IInv
<1>1. PICK x \in SyncRecord : x = sync[t]
    BY TypeParts
<1>2. p \in Pids /\ x.list[p] \in Stamps
    <2>1. x.merge \subseteq Pids /\ x.list \in [Pids -> 0..MaxStamp]
        BY DEF SyncRecord
    <2>2. ThreadOK(x)
        BY <1>1 DEF ThreadInv
    <2>3. p \in x.merge /\ x.list[p] # 0
        BY <1>1, <2>2 DEF ThreadOK
    <2>4. p \in Pids
        BY <2>1, <2>3
    <2>5. x.list[p] \in 0..MaxStamp
        BY <2>1, <2>4
    <2> QED BY <2>3, <2>4, <2>5 DEF Stamps
<1>3. PICK mine : mine = {e \in LiveIn(x.local) : x.local[e].pid = p}
    OBVIOUS
<1>4. PICK kept : kept = {e \in mine : x.local[e].syncStatus = "PENDING_UPDATE"}
    OBVIOUS
<1>5. PICK fresh : fresh = [pid |-> p, content |-> x.list[p], deleted |-> FALSE, syncStatus |-> "SYNCED"]
    OBVIOUS
<1>6. fresh \in RowType /\ fresh.pid = p /\ fresh.syncStatus # "PENDING_DELETE"
    BY <1>2, <1>5 DEF RowType
<1>7. Merged(t, p) = [id |-> IF mine = {} THEN NoRow ELSE CHOOSE e \in mine : TRUE,
                      row |-> IF kept = {} THEN fresh ELSE x.local[CHOOSE e \in kept : TRUE]]
    BY <1>1, <1>3, <1>4, <1>5 DEF Merged
<1>8. mine # {} => (CHOOSE e \in mine : TRUE) \in mine
    OBVIOUS
<1>9. kept # {} => (CHOOSE e \in kept : TRUE) \in kept
    OBVIOUS
<1>10. \A e \in kept : x.local[e] \in RowType /\ x.local[e].pid = p
                       /\ x.local[e].syncStatus # "PENDING_DELETE"
    BY <1>1, <1>3, <1>4 DEF LiveIn, SyncRecord
<1>11. \A e \in mine : e \in Rows /\ x.local[e] # Gone /\ x.local[e].pid = p
    BY <1>3 DEF LiveIn
<1>12. Merged(t, p).row = fresh \/ \E e \in kept : Merged(t, p).row = x.local[e]
    <2>1. CASE kept = {}
        BY <1>7, <2>1
    <2>2. CASE kept # {}
        <3>1. Merged(t, p).row = x.local[CHOOSE e \in kept : TRUE]
            BY <1>7, <2>2
        <3> QED BY <1>9, <2>2, <3>1
    <2> QED BY <2>1, <2>2
<1>13. Merged(t, p).id = NoRow \/ Merged(t, p).id \in mine
    BY <1>7, <1>8
<1> QED BY <1>1, <1>6, <1>10, <1>11, <1>12, <1>13

LEMMA UpsertRemoteKeeps ==
    ASSUME IInv, NEW t \in Threads, NEW p \in Pids, UpsertRemote(t, p) PROVE IInv'
<1> USE DEF IInv
<1>1. PICK i, r : i = Merged(t, p).id /\ r = Merged(t, p).row
    OBVIOUS
<1>2. /\ sync[t].at = "merging" /\ p \in sync[t].merge /\ Upsert(i, r)
      /\ sync' = [sync EXCEPT ![t].merge = @ \ {p}]
      /\ UNCHANGED <<remote, issued, clock, faults, loaded, pending, reply, asked, condemned, erased>>
    BY <1>1 DEF UpsertRemote, uploadVars, historyVars
<1>3. /\ r \in RowType /\ r.pid = p /\ r.syncStatus # "PENDING_DELETE"
      /\ \/ i = NoRow
         \/ i \in Rows /\ sync[t].local[i] # Gone /\ sync[t].local[i].pid = p
    BY <1>1, <1>2, MergedFacts
<1>4. PICK d \in Rows : Put(d, r) /\ Where(d, i, r.pid)
    BY <1>2, <1>3, UpsertFacts
<1>5. PICK x \in SyncRecord : x = sync[t]
    BY TypeParts
<1>6. PICK m : m = x.merge \ {p}
    OBVIOUS
<1>7. PICK s : s = [sync[t] EXCEPT !.merge = m]
    OBVIOUS
<1>8. Turns(sync', t, s)
    <2>1. PICK a, l, k, c, v : a = "merging" /\ l = NoList /\ k = {} /\ c = Nothing /\ v = {}
        OBVIOUS
    <2>2. l \in [Pids -> 0..MaxStamp] /\ Table(c) /\ m \in SUBSET Pids
        BY <1>5, <1>6, <2>1, GoneFacts DEF NoList, Table, SyncRecord
    <2>3. sync' = [sync EXCEPT ![t].merge = m]
        BY <1>2, <1>5, <1>6
    <2> QED BY <1>7, <2>1, <2>2, <2>3, SyncSteps, TypeParts
<1>9. /\ s.at = x.at /\ s.list = x.list /\ s.known = x.known /\ s.local = x.local
      /\ s.merge = m /\ s.victims = x.victims
    BY <1>5, <1>7 DEF SyncRecord
<1>10. ThreadOK(x)
    BY <1>5 DEF ThreadInv
<1>11. Later
    BY <1>2, SameLater
<1>12. ThreadInv'
    <2>1. ThreadOK(s)
        BY <1>2, <1>5, <1>6, <1>9, <1>10 DEF ThreadOK, LiveIn
    <2>2. s \in SyncRecord
        BY <1>8 DEF Turns
    <2>3. ThreadOK(s)'
        BY <1>11, <2>1, <2>2, ThreadKept
    <2> QED BY <1>8, <1>11, <2>3, ThreadTurns
<1>13. /\ \A u \in Threads : sync'[u].local = sync[u].local /\ sync'[u].merge \subseteq sync[u].merge
       /\ sync'[Worker].at = sync[Worker].at
       /\ sync' \in [Threads -> SyncRecord]
    BY <1>5, <1>6, <1>8, <1>9 DEF Turns
<1>14. r.pid \in Known
    BY <1>3, <1>2, <1>5, <1>10 DEF ThreadOK, Known
<1>15. SameInv'
    <2>1. ASSUME d \in Live \ erased PROVE r.pid = calendar[d].pid
        <3>1. CASE i \in Live
            <4>1. i = d /\ i \in Rows /\ i # NoRow
                BY <1>4, <3>1 DEF Where, Live, LiveIn
            <4>2. sync[t].local[d].pid = p
                BY <1>3, <4>1
            <4>3. SameRow(d)
                BY <2>1 DEF SameInv
            <4> QED BY <1>3, <4>2, <4>3 DEF SameRow
        <3>2. CASE i \notin Live
            BY <1>4, <2>1, <3>2 DEF Where, Unused
        <3> QED BY <3>1, <3>2
    <2> QED BY <1>2, <1>3, <1>4, <1>13, <2>1, PutSame
<1>16. \A q \in condemned, y \in Rows : Guard(y, q) => i # y /\ r.pid # q
    BY <1>2, <1>3 DEF Guard
<1>17. /\ reply' = reply /\ r \in RowType /\ r.syncStatus # "PENDING_DELETE"
       /\ UNCHANGED <<remote, issued, clock, faults, loaded, pending, asked, condemned, erased>>
    BY <1>2, <1>3
<1> QED BY <1>4, <1>12, <1>13, <1>14, <1>15, <1>16, <1>17, PutKeeps

LEMMA DeleteAbsentKeeps ==
    ASSUME IInv, NEW t \in Threads, NEW e \in Rows, DeleteAbsent(t, e) PROVE IInv'
<1> USE DEF IInv
<1>1. /\ sync[t].at = "merging" /\ e \in sync[t].victims
      /\ calendar' = [calendar EXCEPT ![e] = Gone]
      /\ sync' = [sync EXCEPT ![t].victims = @ \ {e}]
      /\ UNCHANGED <<remote, issued, clock, faults, loaded, pending, reply, asked, condemned, erased>>
    BY DEF DeleteAbsent, uploadVars, historyVars
<1>2. Remove(e)
    BY <1>1, RemoveFacts
<1>3. PICK x \in SyncRecord : x = sync[t]
    BY TypeParts
<1>4. PICK v : v = x.victims \ {e}
    OBVIOUS
<1>5. PICK s : s = [sync[t] EXCEPT !.victims = v]
    OBVIOUS
<1>6. Turns(sync', t, s)
    <2>1. s \in SyncRecord
        BY <1>3, <1>4, <1>5 DEF SyncRecord
    <2>2. sync' = [sync EXCEPT ![t] = s]
        BY <1>1, <1>3, <1>4, <1>5
    <2> QED BY <2>1, <2>2, TypeParts DEF Turns
<1>7. /\ s.at = x.at /\ s.list = x.list /\ s.known = x.known /\ s.local = x.local
      /\ s.merge = x.merge /\ s.victims = v
    BY <1>3, <1>5 DEF SyncRecord
<1>8. ThreadOK(x)
    BY <1>3 DEF ThreadInv
<1>9. Later
    BY <1>1, SameLater
<1>10. ThreadInv'
    <2>1. ThreadOK(s)
        BY <1>1, <1>3, <1>4, <1>7, <1>8 DEF ThreadOK, LiveIn
    <2>2. s \in SyncRecord
        BY <1>6 DEF Turns
    <2>3. ThreadOK(s)'
        BY <1>9, <2>1, <2>2, ThreadKept
    <2> QED BY <1>6, <1>9, <2>3, ThreadTurns
<1>11. /\ \A u \in Threads : sync'[u].local = sync[u].local /\ sync'[u].merge = sync[u].merge
       /\ sync'[Worker].at = sync[Worker].at
       /\ sync' \in [Threads -> SyncRecord]
    BY <1>3, <1>6, <1>7 DEF Turns
<1>12. ASSUME NEW y \in Rows, NEW p \in Pids, Guard(y, p) PROVE e # y
    BY <1>1, <1>3, <1>8, <1>12 DEF Guard, ThreadOK, LiveIn
<1> QED BY <1>1, <1>2, <1>10, <1>11, <1>12, RemoveKeeps

-----------------------------------------------------------------------------
(* Elsewhere. *)

LEMMA RemoteWritesKeeps ==
    ASSUME IInv, NEW p \in Pids, NEW c \in 0..MaxStamp, RemoteWrites(p, c),
           NewPid(p) \/ remote[p] # 0
    PROVE  IInv'
<1> USE DEF IInv
<1>1. /\ clock < MaxStamp /\ clock' = clock + 1
      /\ remote' = [remote EXCEPT ![p] = c]
      /\ issued' = issued \cup {p}
      /\ UNCHANGED <<calendar, faults, loaded, pending, reply, sync, asked, condemned, erased>>
    BY DEF RemoteWrites, uploadVars, historyVars
<1>2. /\ remote' \in [Pids -> 0..MaxStamp] /\ clock' \in 0..MaxStamp
      /\ \A q \in Pids \ {p} : remote'[q] = remote[q]
    BY <1>1, TypeParts
<1>3. Later
    BY <1>1, <1>2, TypeParts DEF Later, NewPid
<1>4. Known \subseteq Known'
    BY <1>1 DEF Known
<1>5. TypeOK'
    <2>1. WorkerAt'
        BY <1>1, TypeParts DEF WorkerAt
    <2> QED BY <1>1, <1>2, <2>1, TypeParts, TypePrime
<1>6. Unique' /\ DeletingInv'
    BY <1>1 DEF Unique, DeletingInv
<1>7. IssuedInv'
    BY <1>1, <1>2, <1>4 DEF IssuedInv
<1>8. ThreadInv'
    BY <1>1, <1>3, ThreadsKept
<1>9. SameInv'
    <2>1. ASSUME NEW e \in Live \ erased PROVE SameRow(e)'
        <3>1. SameRow(e) /\ e \in Rows
            BY <2>1 DEF SameInv, Live, LiveIn
        <3>2. calendar[e].pid = NoPid \/ calendar[e].pid \in issued
            BY <3>1 DEF IssuedInv, Known
        <3> QED BY <1>1, <1>3, <3>1, <3>2 DEF SameRow, Later
    <2> QED BY <1>1, <2>1 DEF SameInv, Live, LiveIn
<1>10. ASSUME NEW q \in condemned, NEW x \in Rows, Guard(x, q) PROVE Guard(x, q)'
    BY <1>1, <1>10 DEF Guard
<1> QED BY <1>1, <1>3, <1>5, <1>6, <1>7, <1>8, <1>9, <1>10, KeptStep

LEMMA ElsewhereKeeps == ASSUME IInv, ElsewhereNext PROVE IInv'
<1> USE DEF IInv
<1>1. PICK p \in Pids : RemoteCreates(p) \/ RemoteRenames(p) \/ RemoteDeletes(p)
    BY DEF ElsewhereNext
<1>2. PICK c : c = clock + 1
    OBVIOUS
<1>3. clock < MaxStamp => c \in 0..MaxStamp
    BY <1>2, TypeParts
<1>4. CASE RemoteDeletes(p)
    <2>1. PICK z : z = 0
        OBVIOUS
    <2> QED BY <1>4, <2>1, RemoteWritesKeeps DEF RemoteDeletes
<1>5. CASE RemoteCreates(p) \/ RemoteRenames(p)
    <2>1. RemoteWrites(p, c) /\ clock < MaxStamp /\ (NewPid(p) \/ remote[p] # 0)
        BY <1>2, <1>5 DEF RemoteCreates, RemoteRenames, RemoteWrites
    <2> QED BY <1>3, <2>1, RemoteWritesKeeps
<1> QED BY <1>1, <1>4, <1>5

-----------------------------------------------------------------------------
LEMMA InitIInv == Init => IInv
<1> SUFFICES ASSUME Init PROVE IInv
    OBVIOUS
<1>1. /\ \A e \in Rows : calendar[e] = Gone /\ loaded[e] = Gone
      /\ Table(calendar) /\ Table(loaded)
    BY GoneFacts DEF Init, Table
<1>2. \A t \in Threads : sync[t] = Idle
    BY DEF Init
<1>3. /\ \A t \in Threads, e \in Rows : sync[t].local[e] = Gone
      /\ sync \in [Threads -> SyncRecord]
    BY GoneFacts DEF Init, Idle
<1>4. DOMAIN pending = {} /\ pending \in [DOMAIN pending -> RowType]
    BY DEF Init
<1>5. TypeOK
    <2>1. WorkerAt
        BY <1>4 DEF Init, WorkerAt
    <2> QED BY <1>1, <1>3, <1>4, <2>1, TypeParts DEF Init, NoList
<1>6. Unique /\ IssuedInv /\ DeletingInv
    BY <1>1, <1>3, <1>4, GoneFacts DEF Init, NoList, Unique, IssuedInv, Known, DeletingInv
<1>7. ThreadInv
    BY <1>2 DEF ThreadInv, ThreadOK, Idle, NoList
<1>8. SameInv /\ KeptInv
    BY <1>1, <1>4 DEF Init, SameInv, Live, LiveIn, KeptInv
<1> QED BY <1>5, <1>6, <1>7, <1>8 DEF IInv

LEMMA StutterKeeps == ASSUME IInv, UNCHANGED vars PROVE IInv'
<1> USE DEF IInv
<1>1. UNCHANGED <<calendar, remote, issued, clock, faults, loaded, pending, reply, sync, asked, condemned,
                  erased>>
    BY DEF vars, uploadVars, historyVars
<1>2. Later
    BY <1>1, SameLater
<1>3. TypeOK'
    <2>1. WorkerAt'
        BY <1>1, TypeParts DEF WorkerAt
    <2> QED BY <1>1, <2>1, TypeParts, TypePrime
<1>4. Unique' /\ IssuedInv' /\ DeletingInv'
    BY <1>1 DEF Unique, IssuedInv, Known, DeletingInv
<1>5. ThreadInv'
    BY <1>1, <1>2, ThreadsKept
<1>6. SameInv'
    BY <1>1 DEF SameInv, SameRow, Live, LiveIn
<1>7. KeptInv'
    BY <1>1 DEF KeptInv, Guard
<1> QED BY <1>3, <1>4, <1>5, <1>6, <1>7

LEMMA NextIInv == IInv /\ [Next]_vars => IInv'
<1> SUFFICES ASSUME IInv, [Next]_vars PROVE IInv'
    OBVIOUS
<1>1. CASE UserNext
    BY <1>1, CreateCalendarKeeps, UpdateCalendarKeeps, SoftDeleteCalendarKeeps, DeleteCalendarKeeps,
       RefreshCalendarsKeeps DEF UserNext
<1>2. CASE UploadNext
    BY <1>2, StartJobKeeps, ServerAcceptsKeeps, ResponseLostKeeps, ErrorTakenKeeps, ServerRejectsKeeps,
       WriteReplyKeeps, WriteThrowsKeeps DEF UploadNext
<1>3. ASSUME NEW t \in Threads, SyncNext(t) PROVE IInv'
    BY <1>3, ListCalendarsKeeps, ListMisreadKeeps, IdleStepsKeep, GetByAccountKeeps,
       GetPendingRemoteCalendarsKeeps, UpsertRemoteKeeps, DeleteAbsentKeeps DEF SyncNext
<1>4. CASE ElsewhereNext
    BY <1>4, ElsewhereKeeps
<1>5. CASE UNCHANGED vars
    BY <1>5, StutterKeeps
<1> QED BY <1>1, <1>2, <1>3, <1>4, <1>5 DEF Next

(* The table, the server, every thread's list and every copy on its way fit      *)
(* together as IInv says, whatever the user, the server, a scheduled job and a  *)
(* sign-in do at the same time (syncCalendarsIncremental, UploadCalendarImpl).  *)
THEOREM Inductive == Spec => []IInv
BY InitIInv, NextIInv, PTL DEF Spec

(* TypeOK, for any number of rows, calendars, threads and faults.              *)
THEOREM TypeCorrect == Spec => []TypeOK
<1>1. IInv => TypeOK
    BY DEF IInv
<1> QED BY <1>1, Inductive, PTL

(* DeletionKept: a calendar deleted while nothing under way holds a copy of its  *)
(* row stays marked until the server has deleted it, although the list that     *)
(* syncCalendarsIncremental merges may still name it.                         *)
THEOREM DeletionKeptHolds == Spec => []DeletionKept
<1>1. IInv => DeletionKept
    <2> SUFFICES ASSUME IInv PROVE DeletionKept
        OBVIOUS
    <2>1. ASSUME NEW p \in condemned
          PROVE  remote[p] = 0 \/ \E e \in WithPid(p) : calendar[e].syncStatus = "PENDING_DELETE"
        BY <2>1, TypeParts DEF IInv, KeptInv, Guard, WithPid
    <2> QED BY <2>1 DEF DeletionKept
<1> QED BY <1>1, Inductive, PTL

-----------------------------------------------------------------------------
(* What CalendarsKept says of one step. *)
RowsKept ==
    \A e \in Rows \ erased :
        /\ calendar[e].syncStatus \in {"SYNCED", "PENDING_UPDATE"}
        /\ calendar[e].pid # NoPid
        /\ calendar'[e] = Gone
        =>
        \/ remote[calendar[e].pid] = 0
        \/ clock' # clock \/ calendar[e].pid \in asked
        \/ \E t \in Threads :
               e \in sync[t].victims /\ sync[t].local[e].pid \notin sync[t].known

LEMMA UntouchedKept == ASSUME UNCHANGED calendar PROVE RowsKept
BY GoneFacts DEF RowsKept

LEMMA PutKept ==
    ASSUME TypeOK, NEW e, NEW r \in RowType, Upsert(e, r)
    PROVE  RowsKept
<1>1. PICK d \in Rows : Put(d, r)
    BY UpsertFacts
<1>2. \A x \in Rows : calendar'[x] = Gone => calendar[x] = Gone
    BY <1>1, GoneFacts DEF Put
<1> QED BY <1>2, GoneFacts DEF RowsKept

LEMMA StepKept == IInv /\ [Next]_vars => RowsKept
<1> SUFFICES ASSUME IInv, [Next]_vars PROVE RowsKept
    OBVIOUS
<1> USE DEF IInv
<1>1. CASE UserNext
    <2>1. UserActs => clock' # clock
        BY TypeParts DEF UserActs
    <2>2. ASSUME NEW e \in Rows, UpdateCalendar(e) \/ SoftDeleteCalendar(e) \/ DeleteCalendar(e)
          PROVE  UserActs
        BY <2>2 DEF UpdateCalendar, SoftDeleteCalendar, DeleteCalendar
    <2>3. CreateCalendar => UserActs
        BY DEF CreateCalendar
    <2>4. RefreshCalendars => UNCHANGED calendar
        BY DEF RefreshCalendars
    <2>5. clock' # clock \/ UNCHANGED calendar
        BY <1>1, <2>1, <2>2, <2>3, <2>4 DEF UserNext
    <2> QED BY <2>5, UntouchedKept DEF RowsKept
<1>2. CASE UploadNext
    <2>1. CASE WriteReply
        <3>1. CASE reply.row = Gone
            <4>1. reply.id \in Rows /\ calendar' = [calendar EXCEPT ![reply.id] = Gone]
                BY <2>1, <3>1, TypeParts DEF WriteReply
            <4>2. Remove(reply.id)
                BY <4>1, RemoveFacts
            <4>3. ASSUME NEW e \in Rows \ erased, calendar[e] # Gone, calendar'[e] = Gone
                  PROVE  remote[calendar[e].pid] = 0
                <5>1. e = reply.id
                    BY <4>2, <4>3 DEF Remove
                <5>2. SameRow(e)
                    BY <4>3 DEF SameInv, Live, LiveIn
                <5> QED BY <3>1, <5>1, <5>2 DEF SameRow
            <4> QED BY <4>3, GoneFacts DEF RowsKept
        <3>2. CASE reply.row # Gone
            BY <2>1, <3>2, PutKept, TypeParts DEF WriteReply
        <3> QED BY <3>1, <3>2
    <2>2. CASE ~WriteReply
        <3>1. UNCHANGED calendar
            BY <1>2, <2>2 DEF UploadNext, StartJob, ServerAccepts, ResponseLost, ErrorTaken, ServerRejects,
               WriteThrows
        <3> QED BY <3>1, UntouchedKept
    <2> QED BY <2>1, <2>2
<1>3. ASSUME NEW t \in Threads, SyncNext(t) PROVE RowsKept
    <2>1. ASSUME NEW p \in Pids, UpsertRemote(t, p) PROVE RowsKept
        <3>1. p \in sync[t].merge /\ Upsert(Merged(t, p).id, Merged(t, p).row)
            BY <2>1 DEF UpsertRemote
        <3>2. Merged(t, p).row \in RowType
            BY <3>1, MergedFacts
        <3> QED BY <3>1, <3>2, PutKept
    <2>2. ASSUME NEW e \in Rows, DeleteAbsent(t, e) PROVE RowsKept
        <3>1. e \in sync[t].victims /\ calendar' = [calendar EXCEPT ![e] = Gone]
            BY <2>2 DEF DeleteAbsent
        <3>2. Remove(e)
            BY <3>1, RemoveFacts
        <3>3. PICK x \in SyncRecord : x = sync[t]
            BY TypeParts
        <3>4. ThreadOK(x)
            BY <3>3 DEF ThreadInv
        <3>5. x.local[e].pid \in x.known => remote[x.local[e].pid] = 0 \/ x.local[e].pid \in asked
            BY <3>1, <3>3, <3>4 DEF ThreadOK
        <3>6. ASSUME NEW y \in Rows \ erased, calendar[y] # Gone, calendar'[y] = Gone,
                     x.local[e].pid \in x.known
              PROVE  y = e /\ x.local[e].pid = calendar[y].pid
            <4>1. y = e
                BY <3>2, <3>6 DEF Remove
            <4>2. SameRow(y)
                BY <3>6 DEF SameInv, Live, LiveIn
            <4>3. x.local[e].pid # NoPid
                BY <3>6 DEF SyncRecord
            <4> QED BY <3>3, <4>1, <4>2, <4>3 DEF SameRow
        <3>7. \A y \in Rows : calendar[y] # Gone /\ calendar'[y] = Gone => y = e
            BY <3>2 DEF Remove
        <3> QED BY <3>1, <3>3, <3>5, <3>6, <3>7, GoneFacts DEF RowsKept
    <2>3. CASE UNCHANGED calendar
        BY <2>3, UntouchedKept
    <2> QED BY <1>3, <2>1, <2>2, <2>3 DEF SyncNext, ListCalendars, ListFails, ListMisread, GetByAccount,
            GetPendingRemoteCalendars, UpsertThrows, SyncEnds
<1>4. CASE ElsewhereNext
    <2>1. UNCHANGED calendar
        BY <1>4 DEF ElsewhereNext, RemoteCreates, RemoteRenames, RemoteDeletes, RemoteWrites
    <2> QED BY <2>1, UntouchedKept
<1>5. CASE UNCHANGED vars
    <2>1. UNCHANGED calendar
        BY <1>5 DEF vars
    <2> QED BY <2>1, UntouchedKept
<1> QED BY <1>1, <1>2, <1>3, <1>4, <1>5 DEF Next

(* CalendarsKept: the row of a calendar the server still has goes, and its       *)
(* events with it, only for a list that does not know the calendar             *)
(* (calendarRepo->deleteById in syncCalendarsIncremental and UploadCalendarImpl). *)
THEOREM CalendarsKeptHolds == Spec => CalendarsKept
<1>1. IInv /\ [Next]_vars => [RowsKept]_vars
    BY StepKept
<1> QED BY <1>1, Inductive, PTL DEF Spec, CalendarsKept, RowsKept
=============================================================================
