---------------------- MODULE RecurrenceOverridesProofs ----------------------
(***************************************************************************)
(* RecurrenceOverrides, for any instances, rows and bounds: the change of an    *)
(* instance stays pending, with what the user wrote, until the server answers    *)
(* it; and the table has one row at most for an instance, the one its override   *)
(* names, where no save and no fetch left another behind.                     *)
(***************************************************************************)
EXTENDS RecurrenceOverrides, TLAPS

(* Variables are what they look like: what records hold is left open.          *)
RowShaped(table) ==
    table = [r \in Rows |-> [content |-> table[r].content, link |-> table[r].link,
                             syncStatus |-> table[r].syncStatus]]

AnyOverride == [type : {"NONE", "CANCELLED", "MODIFIED"}, replacement : Rows \cup {NoRow}, pending : BOOLEAN]

Shapes ==
    /\ RowShaped(row)
    /\ override \in [Instances -> AnyOverride]
    /\ remote = [i \in Instances |-> [type |-> remote[i].type, content |-> remote[i].content,
                                      localId |-> remote[i].localId]]
    /\ pass = [at |-> pass.at, batch |-> pass.batch, master |-> pass.master,
               todo |-> pass.todo, current |-> pass.current, sent |-> pass.sent]
    /\ fetch = [instances |-> fetch.instances, plain |-> fetch.plain]
    /\ owed = [i \in Instances |-> owed[i]]
    /\ DOMAIN fetch.instances \subseteq Instances

(* Whatever names a row for an instance.                                       *)
Tied(i, r) ==
    \/ override[i].replacement = r
    \/ row[r].link = <<"instance", i>>
    \/ remote[i].localId = r
    \/ i \in DOMAIN fetch.instances /\ fetch.instances[i].localId = r
    \/ row[r].link = <<"replacement", i>>
    \/ i \in DOMAIN pass.todo /\ pass.todo[i].replacement = r
    \/ shown.instance = i /\ shown.row = r

(* A row stands for one instance at most, and an instance has one row at most;    *)
(* an override names a row that exists.                                        *)
Ties ==
    /\ \A r \in Rows : \A i, j \in Instances : Tied(i, r) /\ Tied(j, r) => i = j
    /\ \A i \in Instances : \A r, q \in Linked(i) : r = q
    /\ \A i \in Instances : override[i].replacement = NoRow \/ Live(override[i].replacement)

(* What the pass has read was pending.                                         *)
PassInv ==
    /\ DOMAIN pass.todo \subseteq Instances
    /\ pass.at \in {"idle", "read", "answered", "written"} => DOMAIN pass.todo = {}
    /\ pass.at \in {"sent", "accepted", "linked"} => pass.current \in DOMAIN pass.todo
    /\ \A i \in DOMAIN pass.todo : pass.todo[i].type \in {"CANCELLED", "MODIFIED"} /\ override[i].type # "NONE"
    /\ \A i \in Instances : override[i].pending => override[i].type # "NONE"

(* InstanceChangeKept, and where the pass is with a change that is owed.          *)
Kept(i) ==
    /\ override[i].pending
    /\ override[i].type = owed[i].type
    /\ owed[i].type = "MODIFIED" =>
           /\ override[i].replacement \in Rows
           /\ row[override[i].replacement].content = owed[i].content
           /\ row[override[i].replacement].syncStatus = "SYNCED"
    /\ i \in DOMAIN pass.todo => pass.todo[i] = override[i]
    /\ pass.at = "sent" /\ pass.current = i /\ owed[i].type = "MODIFIED" => pass.sent = owed[i].content
    /\ pass.at \in {"accepted", "linked"} => pass.current # i

KeptInv == \A i \in Instances : owed[i] # Nothing => Kept(i)

IInv == Shapes /\ Ties /\ PassInv /\ KeptInv

-----------------------------------------------------------------------------
(* Helpers. *)

LEMMA GoneRow ==
    /\ Gone.content = 0 /\ Gone.link = <<"none">> /\ Gone.syncStatus = "GONE"
    /\ \A i : Gone.link # <<"instance", i>> /\ Gone.link # <<"replacement", i>> /\ Gone.link # <<"own", i>>
  BY DEF Gone

LEMMA SyncedRow ==
    ASSUME NEW l, NEW c
    PROVE  /\ Synced(l, c).link = l /\ Synced(l, c).content = c /\ Synced(l, c).syncStatus = "SYNCED"
           /\ Synced(l, c) # Gone
           /\ Synced(l, c) = [content |-> c, link |-> l, syncStatus |-> "SYNCED"]
  BY DEF Synced, Gone

(* The three kinds of links. *)
LEMMA LinksDiffer ==
    \A i, j :
        /\ <<"own", i>> # <<"instance", j>> /\ <<"own", i>> # <<"replacement", j>>
        /\ <<"instance", i>> # <<"replacement", j>>
        /\ <<"instance", i>> = <<"instance", j>> => i = j
        /\ <<"replacement", i>> = <<"replacement", j>> => i = j
        /\ <<"own", i>> = <<"own", j>> => i = j
  <1> SUFFICES ASSUME NEW i, NEW j
               PROVE  /\ <<"own", i>> # <<"instance", j>> /\ <<"own", i>> # <<"replacement", j>>
                      /\ <<"instance", i>> # <<"replacement", j>>
                      /\ <<"instance", i>> = <<"instance", j>> => i = j
                      /\ <<"replacement", i>> = <<"replacement", j>> => i = j
                      /\ <<"own", i>> = <<"own", j>> => i = j
    OBVIOUS
  <1>1. /\ <<"own", i>>[1] = "own" /\ <<"own", j>>[1] = "own" /\ <<"own", i>>[2] = i /\ <<"own", j>>[2] = j
        /\ <<"instance", i>>[1] = "instance" /\ <<"instance", j>>[1] = "instance"
        /\ <<"instance", i>>[2] = i /\ <<"instance", j>>[2] = j
        /\ <<"replacement", i>>[1] = "replacement" /\ <<"replacement", j>>[1] = "replacement"
        /\ <<"replacement", i>>[2] = i /\ <<"replacement", j>>[2] = j
    OBVIOUS
  <1> QED
    BY <1>1

(* A row nothing refers to is no instance's. *)
LEMMA NewRowIsFree ==
    ASSUME Shapes, Ties, PassInv, NEW r \in NewRow
    PROVE  r \in Rows /\ ~Live(r) /\ \A i \in Instances : ~Tied(i, r)
  <1>1. r \in Rows /\ Unused(r) /\ r # NoRow
    BY OverridesAssumption DEF NewRow
  <1>2. ~Live(r) /\ row[r] = Gone
    BY <1>1 DEF Unused, Live
  <1>3. ASSUME NEW i \in Instances PROVE ~Tied(i, r)
    <2>1. override[i].replacement # r
      BY <1>1, <1>2 DEF Ties
    <2>2. row[r].link # <<"instance", i>> /\ row[r].link # <<"replacement", i>>
      BY <1>2, GoneRow
    <2> QED
      BY <1>1, <2>1, <2>2 DEF Unused, Tied
  <1> QED
    BY <1>1, <1>2, <1>3

(* The first part of Ties is kept when one row at most gets an instance, and no     *)
(* other instance had it.                                                     *)
LEMMA TiesStay ==
    ASSUME Ties, NEW i0, NEW r0,
           \A j \in Instances : Tied(j, r0) => j = i0,
           \A r \in Rows, j \in Instances : Tied(j, r)' => Tied(j, r) \/ (j = i0 /\ r = r0)
    PROVE  \A r \in Rows : \A i, j \in Instances : Tied(i, r)' /\ Tied(j, r)' => i = j
  BY DEF Ties

LEMMA NoNewTies ==
    ASSUME Ties, \A r \in Rows, j \in Instances : Tied(j, r)' => Tied(j, r)
    PROVE  \A r \in Rows : \A i, j \in Instances : Tied(i, r)' /\ Tied(j, r)' => i = j
  BY DEF Ties

LEMMA InitIInv == Init => IInv
  <1> SUFFICES ASSUME Init PROVE IInv
    OBVIOUS
  <1> USE DEF Init
  <1>1. Shapes
    BY DEF Shapes, RowShaped, AnyOverride, Gone, NoOverride, AsRuled, NoPass, NoFetch, Nothing
  <1>2. Ties
    <2>1. \A r \in Rows, i \in Instances : ~Tied(i, r)
      BY OverridesAssumption, GoneRow DEF Tied, NoOverride, AsRuled, NoFetch, NoPass, NoneShown
    <2>2. \A i \in Instances : Linked(i) = {} /\ override[i].replacement = NoRow
      BY GoneRow DEF Linked, NoOverride
    <2> QED
      BY <2>1, <2>2 DEF Ties
  <1>3. PassInv
    BY DEF PassInv, NoPass, NoOverride
  <1>5. KeptInv
    BY DEF KeptInv
  <1> QED
    BY <1>1, <1>2, <1>3, <1>5 DEF IInv

-----------------------------------------------------------------------------
(* The user. *)

(* What the new owed change of an instance is: none if the pass has read it. *)
LEMMA OwesOne ==
    ASSUME Shapes, NEW i \in Instances, NEW type, Owes(i, type)
    PROVE  /\ owed' = [j \in Instances |-> owed'[j]]
           /\ \A j \in Instances : j # i => owed'[j] = owed[j]
           /\ i \in DOMAIN pass.todo => owed'[i] = Nothing
           /\ owed'[i] # Nothing => owed'[i] = [type |-> type, content |-> clock']
  BY DEF Owes, Shapes

LEMMA ChangeOccurrenceKeeps ==
    ASSUME IInv, NEW i \in Instances, ChangeOccurrence(i)
    PROVE  IInv'
  <1> USE DEF IInv
  <1>1. PICK r \in NewRow :
           /\ row' = [row EXCEPT ![r] = Synced(<<"replacement", i>>, clock')]
           /\ override' = [override EXCEPT ![i] = Override("MODIFIED", r, TRUE)]
    BY DEF ChangeOccurrence
  <1>2. /\ r \in Rows /\ ~Live(r) /\ \A j \in Instances : ~Tied(j, r)
        /\ UNCHANGED <<remote, fetch, pass, shown>>
        /\ Owes(i, "MODIFIED")
    BY NewRowIsFree DEF ChangeOccurrence
  <1>3. /\ override' \in [Instances -> AnyOverride]
        /\ override'[i].type = "MODIFIED" /\ override'[i].replacement = r /\ override'[i].pending = TRUE
        /\ \A j \in Instances : j # i => override'[j] = override[j]
        /\ RowShaped(row')
        /\ row'[r] = Synced(<<"replacement", i>>, clock') /\ \A q \in Rows : q # r => row'[q] = row[q]
    <2>1. override \in [Instances -> AnyOverride] /\ RowShaped(row)
      BY DEF Shapes
    <2>2. /\ override' \in [Instances -> AnyOverride]
          /\ override'[i].type = "MODIFIED" /\ override'[i].replacement = r /\ override'[i].pending = TRUE
          /\ \A j \in Instances : j # i => override'[j] = override[j]
      BY <1>1, <1>2, <2>1 DEF AnyOverride, Override
    <2>3. /\ RowShaped(row')
          /\ row'[r] = Synced(<<"replacement", i>>, clock') /\ \A q \in Rows : q # r => row'[q] = row[q]
      BY <1>1, <1>2, <2>1 DEF RowShaped, Synced
    <2> QED
      BY <2>2, <2>3
  <1>4. Shapes'
    BY <1>2, <1>3, OwesOne DEF Shapes
  <1>5. Ties'
    <2>1. \A q \in Rows, j \in Instances : Tied(j, q)' => Tied(j, q) \/ (j = i /\ q = r)
      BY <1>2, <1>3, SyncedRow, LinksDiffer DEF Tied
    <2>2. \A j \in Instances : Linked(j)' \subseteq Linked(j)
      BY <1>2, <1>3, SyncedRow, LinksDiffer DEF Linked
    <2>3. \A j \in Instances : override'[j].replacement = NoRow \/ Live(override[j].replacement)'
      BY <1>2, <1>3, SyncedRow DEF Live, Ties
    <2> QED
      BY <1>2, <2>1, <2>2, <2>3, TiesStay DEF Ties
  <1>6. PassInv'
    BY <1>2, <1>3 DEF PassInv
  <1>8. KeptInv'
    <2> SUFFICES ASSUME NEW j \in Instances, owed'[j] # Nothing PROVE Kept(j)'
      BY DEF KeptInv
    <2>1. CASE j = i
      <3>1. owed'[i] = [type |-> "MODIFIED", content |-> clock'] /\ i \notin DOMAIN pass.todo
        BY <1>2, <2>1, OwesOne
      <3> QED
        BY <1>2, <1>3, <2>1, <3>1, SyncedRow DEF Kept, PassInv
    <2>2. CASE j # i
      <3>1. Kept(j) /\ owed'[j] = owed[j]
        BY <1>2, <2>2, OwesOne DEF KeptInv
      <3>2. override[j].replacement # r
        BY <1>2 DEF Tied
      <3> QED
        BY <1>2, <1>3, <2>2, <3>1, <3>2 DEF Kept
    <2> QED
      BY <2>1, <2>2
  <1> QED
    BY <1>4, <1>5, <1>6, <1>8

LEMMA CancelOccurrenceKeeps ==
    ASSUME IInv, NEW i \in Instances, CancelOccurrence(i)
    PROVE  IInv'
  <1> USE DEF IInv
  <1>1. /\ UNCHANGED <<row, remote, fetch, pass, shown>>
        /\ Owes(i, "CANCELLED")
    BY DEF CancelOccurrence
  <1>2. /\ override' \in [Instances -> AnyOverride]
        /\ override'[i].type = "CANCELLED" /\ override'[i].replacement = NoRow /\ override'[i].pending = TRUE
        /\ \A j \in Instances : j # i => override'[j] = override[j]
    <2>1. override \in [Instances -> AnyOverride]
      BY DEF Shapes
    <2>2. override' = [override EXCEPT ![i] = Override("CANCELLED", NoRow, TRUE)]
      BY DEF CancelOccurrence
    <2> QED
      BY <2>1, <2>2 DEF AnyOverride, Override
  <1>3. Shapes'
    BY <1>1, <1>2, OwesOne DEF Shapes
  <1>4. Ties'
    <2>1. \A q \in Rows, j \in Instances : Tied(j, q)' => Tied(j, q)
      BY <1>1, <1>2, OverridesAssumption DEF Tied
    <2> QED
      BY <1>1, <1>2, <2>1, NoNewTies DEF Ties, Live, Linked
  <1>5. PassInv'
    BY <1>1, <1>2 DEF PassInv
  <1>7. KeptInv'
    <2> SUFFICES ASSUME NEW j \in Instances, owed'[j] # Nothing PROVE Kept(j)'
      BY DEF KeptInv
    <2>1. CASE j = i
      <3>1. owed'[i] = [type |-> "CANCELLED", content |-> clock'] /\ i \notin DOMAIN pass.todo
        BY <1>1, <2>1, OwesOne
      <3> QED
        BY <1>1, <1>2, <2>1, <3>1 DEF Kept, PassInv
    <2>2. CASE j # i
      <3>1. Kept(j) /\ owed'[j] = owed[j]
        BY <1>1, <2>2, OwesOne DEF KeptInv
      <3> QED
        BY <1>1, <1>2, <2>2, <3>1 DEF Kept
    <2> QED
      BY <2>1, <2>2
  <1> QED
    BY <1>3, <1>4, <1>5, <1>7

(* The rows a stored instance may be saved in are no other instance's. *)
LEMMA RowsOfStoredAreFree ==
    ASSUME Shapes, Ties, PassInv, NEW i \in Instances, NEW r \in Rows, Tied(i, r),
           Live(r) => Linked(i) \subseteq {r}, NEW q \in RowsOfStored(i, r)
    PROVE  q \in Rows /\ (\A j \in Instances : Tied(j, q) => j = i) /\ Linked(i) \subseteq {q}
  <1>1. CASE Live(r)
    BY <1>1 DEF RowsOfStored, Ties
  <1>2. CASE ~Live(r) /\ q \in Linked(i)
    BY <1>2 DEF Ties, Tied, Linked
  <1>3. CASE Linked(i) = {} /\ q \in NewRow
    BY <1>3, NewRowIsFree
  <1> QED
    BY <1>1, <1>2, <1>3 DEF RowsOfStored

LEMMA ChangeStoredKeeps ==
    ASSUME IInv, NEW i \in Instances, NEW r \in Rows, ChangeStored(i, r)
    PROVE  IInv'
  <1> USE DEF IInv
  <1>0. PICK q \in RowsOfStored(i, r) :
           /\ row' = [row EXCEPT ![q] = Synced(<<"instance", i>>, clock')]
           /\ override' = [override EXCEPT ![i] = Override("MODIFIED", q, TRUE)]
    BY DEF ChangeStored
  <1>1. /\ q \in Rows /\ (\A j \in Instances : Tied(j, q) => j = i) /\ Linked(i) \subseteq {q}
        /\ UNCHANGED <<remote, fetch, pass, shown>>
        /\ Owes(i, "MODIFIED")
    <2>1. Tied(i, r) /\ (Live(r) => Linked(i) \subseteq {r})
      BY DEF ChangeStored, Tied
    <2> QED
      BY <2>1, RowsOfStoredAreFree DEF ChangeStored
  <1>2. /\ override' \in [Instances -> AnyOverride]
        /\ override'[i].type = "MODIFIED" /\ override'[i].replacement = q /\ override'[i].pending = TRUE
        /\ \A j \in Instances : j # i => override'[j] = override[j]
        /\ RowShaped(row')
        /\ row'[q] = Synced(<<"instance", i>>, clock') /\ \A p \in Rows : p # q => row'[p] = row[p]
    <2>1. override \in [Instances -> AnyOverride] /\ RowShaped(row)
      BY DEF Shapes
    <2>2. /\ override' \in [Instances -> AnyOverride]
          /\ override'[i].type = "MODIFIED" /\ override'[i].replacement = q /\ override'[i].pending = TRUE
          /\ \A j \in Instances : j # i => override'[j] = override[j]
      BY <1>0, <1>1, <2>1 DEF AnyOverride, Override
    <2>3. /\ RowShaped(row')
          /\ row'[q] = Synced(<<"instance", i>>, clock') /\ \A p \in Rows : p # q => row'[p] = row[p]
      BY <1>0, <1>1, <2>1 DEF RowShaped, Synced
    <2> QED
      BY <2>2, <2>3
  <1>3. Shapes'
    BY <1>1, <1>2, OwesOne DEF Shapes
  <1>4. Ties'
    <2>1. \A p \in Rows, j \in Instances : Tied(j, p)' => Tied(j, p) \/ (j = i /\ p = q)
      BY <1>1, <1>2, SyncedRow, LinksDiffer DEF Tied
    <2>2. \A p \in Rows : \A j, k \in Instances : Tied(j, p)' /\ Tied(k, p)' => j = k
      BY <1>1, <2>1, TiesStay
    <2>3. \A j \in Instances : \A p, o \in Linked(j)' : p = o
      <3>1. Linked(i)' \subseteq {q}
        BY <1>1, <1>2 DEF Linked
      <3>2. \A j \in Instances : j # i => Linked(j)' \subseteq Linked(j)
        BY <1>2, SyncedRow, LinksDiffer DEF Linked
      <3> QED
        BY <3>1, <3>2 DEF Ties
    <2>4. \A j \in Instances : override'[j].replacement = NoRow \/ Live(override[j].replacement)'
      BY <1>1, <1>2, SyncedRow DEF Live, Ties
    <2> QED
      BY <2>2, <2>3, <2>4 DEF Ties
  <1>5. PassInv'
    BY <1>1, <1>2 DEF PassInv
  <1>6. KeptInv'
    <2> SUFFICES ASSUME NEW j \in Instances, owed'[j] # Nothing PROVE Kept(j)'
      BY DEF KeptInv
    <2>1. CASE j = i
      <3>1. owed'[i] = [type |-> "MODIFIED", content |-> clock'] /\ i \notin DOMAIN pass.todo
        BY <1>1, <2>1, OwesOne
      <3> QED
        BY <1>1, <1>2, <2>1, <3>1, SyncedRow DEF Kept, PassInv
    <2>2. CASE j # i
      <3>1. Kept(j) /\ owed'[j] = owed[j]
        BY <1>1, <2>2, OwesOne DEF KeptInv
      <3>2. override[j].replacement # q
        BY <1>1, <2>2 DEF Tied
      <3> QED
        BY <1>1, <1>2, <2>2, <3>1, <3>2 DEF Kept
    <2> QED
      BY <2>1, <2>2
  <1> QED
    BY <1>3, <1>4, <1>5, <1>6

(* The user turns to another occurrence. *)
LEMMA ShowingKeeps ==
    ASSUME IInv, NEW i \in Instances, NEW r, shown' = [instance |-> i, row |-> r],
           r \in Rows => Tied(i, r),
           UNCHANGED <<row, override, remote, pass, fetch, owed>>
    PROVE  IInv'
  <1> USE DEF IInv
  <1>1. Shapes' /\ PassInv' /\ KeptInv'
    BY DEF Shapes, PassInv, KeptInv, Kept
  <1>2. \A q \in Rows, j \in Instances : Tied(j, q)' => Tied(j, q)
    BY DEF Tied
  <1>3. Ties'
    BY <1>2, NoNewTies DEF Ties, Linked, Live
  <1> QED
    BY <1>1, <1>3

LEMMA ShowComputedKeeps ==
    ASSUME IInv, NEW i \in Instances, ShowComputed(i)
    PROVE  IInv'
  BY ShowingKeeps, OverridesAssumption DEF ShowComputed

LEMMA ShowStoredKeeps ==
    ASSUME IInv, NEW i \in Instances, NEW r \in Rows, ShowStored(i, r)
    PROVE  IInv'
  <1>1. Tied(i, r) /\ shown' = [instance |-> i, row |-> r] /\ UNCHANGED <<row, override, remote, pass, fetch, owed>>
    BY DEF ShowStored, Linked, Tied
  <1> QED
    BY <1>1, ShowingKeeps

(* Deleting rows that belong to instances which owe nothing for them. *)
LEMMA OverridesWithoutRows ==
    ASSUME Shapes, Ties, NEW S \in SUBSET Rows
    PROVE  /\ OverridesWithout(S) \in [Instances -> AnyOverride]
           /\ \A j \in Instances :
                  /\ OverridesWithout(S)[j].type = override[j].type
                  /\ OverridesWithout(S)[j].pending = override[j].pending
                  /\ \/ override[j].replacement \in S /\ OverridesWithout(S)[j].replacement = NoRow
                     \/ override[j].replacement \notin S /\ OverridesWithout(S)[j] = override[j]
  BY DEF OverridesWithout, Shapes, AnyOverride

LEMMA RowsWithoutRows ==
    ASSUME Shapes, NEW S \in SUBSET Rows
    PROVE  /\ RowShaped(RowsWithout(S))
           /\ \A r \in Rows : RowsWithout(S)[r] = IF r \in S THEN Gone ELSE row[r]
  BY DEF RowsWithout, Shapes, RowShaped, Gone

(* A set of rows is deleted, the overrides of other instances than i lose them, and  *)
(* that of i becomes a cancellation.                                          *)
LEMMA DeletingKeeps ==
    ASSUME IInv, NEW S \in SUBSET Rows, row' = RowsWithout(S), override' = OverridesWithout(S),
           UNCHANGED <<remote, fetch, shown>>, pass'.at = pass.at, pass'.todo = pass.todo,
           pass'.current = pass.current, pass'.sent = pass.sent,
           pass' = [at |-> pass'.at, batch |-> pass'.batch, master |-> pass'.master,
                    todo |-> pass'.todo, current |-> pass'.current, sent |-> pass'.sent],
           owed' = [j \in Instances |-> owed'[j]],
           \A j \in Instances : owed'[j] # Nothing =>
               owed'[j] = owed[j] /\ override[j].replacement \notin S
    PROVE  IInv'
  <1> USE DEF IInv
  <1>0. \A r \in Rows : row'[r] = IF r \in S THEN Gone ELSE row[r]
    BY RowsWithoutRows
  <1>1. \A j \in Instances :
          /\ override'[j].type = override[j].type /\ override'[j].pending = override[j].pending
          /\ \/ override[j].replacement \in S /\ override'[j].replacement = NoRow
             \/ override[j].replacement \notin S /\ override'[j] = override[j]
    BY OverridesWithoutRows
  <1>2. Shapes'
    BY OverridesWithoutRows, RowsWithoutRows DEF Shapes
  <1>3. Ties'
    <2>1. \A q \in Rows, j \in Instances : Tied(j, q)' => Tied(j, q)
      BY <1>0, <1>1, GoneRow, OverridesAssumption DEF Tied
    <2>2. \A j \in Instances : Linked(j)' \subseteq Linked(j)
      BY <1>0, GoneRow DEF Linked
    <2>3. \A j \in Instances : override'[j].replacement = NoRow \/ Live(override[j].replacement)'
      BY <1>0, <1>1 DEF Live, Ties
    <2> QED
      BY <2>1, <2>2, <2>3, NoNewTies DEF Ties
  <1>4. PassInv'
    BY <1>1 DEF PassInv
  <1>6. KeptInv'
    <2> SUFFICES ASSUME NEW j \in Instances, owed'[j] # Nothing PROVE Kept(j)'
      BY DEF KeptInv
    <2>1. Kept(j) /\ owed'[j] = owed[j] /\ override'[j] = override[j] /\ override[j].replacement \notin S
      BY <1>1 DEF KeptInv
    <2> QED
      BY <1>0, <2>1 DEF Kept
  <1> QED
    BY <1>2, <1>3, <1>4, <1>6

LEMMA CancelStoredKeeps ==
    ASSUME IInv, NEW i \in Instances, NEW r \in Rows, CancelStored(i, r)
    PROVE  IInv'
  <1> USE DEF IInv
  <1>1. /\ \A j \in Instances : Tied(j, r) => j = i
        /\ UNCHANGED <<remote, fetch, pass, shown>> /\ Owes(i, "CANCELLED")
    BY DEF CancelStored, Tied, Ties
  <1>2. /\ override' \in [Instances -> AnyOverride]
        /\ override'[i].type = "CANCELLED" /\ override'[i].replacement = NoRow /\ override'[i].pending = TRUE
        /\ \A j \in Instances : j # i => override'[j] = override[j] /\ override[j].replacement # r
    <2>1. override' = [OverridesWithout({r}) EXCEPT ![i] = Override("CANCELLED", NoRow, TRUE)]
      BY DEF CancelStored
    <2>2. \A j \in Instances : j # i => override[j].replacement # r
      BY <1>1 DEF Tied
    <2>3. \A j \in Instances : j # i => OverridesWithout({r})[j] = override[j]
      BY <2>2, OverridesWithoutRows
    <2>4. OverridesWithout({r}) \in [Instances -> AnyOverride]
      BY OverridesWithoutRows
    <2>5. /\ override' \in [Instances -> AnyOverride]
          /\ override'[i].type = "CANCELLED" /\ override'[i].replacement = NoRow /\ override'[i].pending = TRUE
          /\ \A j \in Instances : j # i => override'[j] = OverridesWithout({r})[j]
      BY <2>1, <2>4 DEF AnyOverride, Override
    <2> QED
      BY <2>2, <2>3, <2>5
  <1>3. RowShaped(row') /\ row'[r] = Gone /\ \A q \in Rows : q # r => row'[q] = row[q]
    BY RowsWithoutRows DEF CancelStored
  <1>4. Shapes'
    BY <1>1, <1>2, <1>3, OwesOne DEF Shapes
  <1>5. Ties'
    <2>1. \A q \in Rows, j \in Instances : Tied(j, q)' => Tied(j, q)
      BY <1>1, <1>2, <1>3, GoneRow, OverridesAssumption DEF Tied
    <2>2. \A j \in Instances : Linked(j)' \subseteq Linked(j)
      BY <1>3, GoneRow DEF Linked
    <2>3. \A j \in Instances : override'[j].replacement = NoRow \/ Live(override[j].replacement)'
      BY <1>2, <1>3 DEF Live, Ties
    <2> QED
      BY <2>1, <2>2, <2>3, NoNewTies DEF Ties
  <1>6. PassInv'
    BY <1>1, <1>2 DEF PassInv
  <1>8. KeptInv'
    <2> SUFFICES ASSUME NEW j \in Instances, owed'[j] # Nothing PROVE Kept(j)'
      BY DEF KeptInv
    <2>1. CASE j = i
      <3>1. owed'[i] = [type |-> "CANCELLED", content |-> clock'] /\ i \notin DOMAIN pass.todo
        BY <1>1, <2>1, OwesOne
      <3> QED
        BY <1>1, <1>2, <2>1, <3>1 DEF Kept, PassInv
    <2>2. CASE j # i
      <3>1. Kept(j) /\ owed'[j] = owed[j]
        BY <1>1, <2>2, OwesOne DEF KeptInv
      <3> QED
        BY <1>1, <1>2, <1>3, <2>2, <3>1 DEF Kept
    <2> QED
      BY <2>1, <2>2
  <1> QED
    BY <1>4, <1>5, <1>6, <1>8

(* A row that is no instance's is written; what it was owed for is given up. *)
LEMMA OwnRowKeeps ==
    ASSUME IInv, NEW r \in Rows, Own(r), NoLonger(r), RowShaped(row'),
           row'[r].link = row[r].link, row'[r] # Gone, \A q \in Rows : q # r => row'[q] = row[q],
           UNCHANGED <<override, remote, pass, fetch, shown>>
    PROVE  IInv'
  <1> USE DEF IInv
  <1>0. \A q \in Rows : row'[q].link = row[q].link
    OBVIOUS
  <1>1. Shapes'
    BY DEF Shapes, NoLonger
  <1>2. Ties'
    <2>1. \A q \in Rows, j \in Instances : Tied(j, q)' => Tied(j, q)
      BY <1>0 DEF Tied
    <2>2. \A j \in Instances : Linked(j)' = Linked(j)
      BY <1>0 DEF Linked
    <2>3. \A j \in Instances : override[j].replacement = NoRow \/ Live(override[j].replacement)'
      BY DEF Live, Ties
    <2> QED
      BY <2>1, <2>2, <2>3, NoNewTies DEF Ties
  <1>3. PassInv'
    BY DEF PassInv
  <1>5. KeptInv'
    <2> SUFFICES ASSUME NEW j \in Instances, owed'[j] # Nothing PROVE Kept(j)'
      BY DEF KeptInv
    <2>1. override[j].replacement # r /\ owed'[j] = owed[j] /\ Kept(j)
      BY DEF NoLonger, KeptInv
    <2> QED
      BY <2>1 DEF Kept
  <1> QED
    BY <1>1, <1>2, <1>3, <1>5

LEMMA SaveOwnKeeps ==
    ASSUME IInv, NEW r \in Rows, SaveOwn(r)
    PROVE  IInv'
  <1>1. Own(r) /\ NoLonger(r) /\ UNCHANGED <<override, remote, pass, fetch, shown>> /\ RowShaped(row)
    BY DEF SaveOwn, IInv, Shapes
  <1>2. PICK status \in {"PENDING_INSERT", "PENDING_UPDATE"} :
           row' = [row EXCEPT ![r] = [content |-> clock', link |-> row[r].link, syncStatus |-> status]]
    BY <1>1 DEF SaveOwn, RowShaped
  <1>3. /\ RowShaped(row') /\ row'[r].link = row[r].link /\ row'[r] # Gone
        /\ \A q \in Rows : q # r => row'[q] = row[q]
    BY <1>1, <1>2 DEF RowShaped, Gone
  <1> QED
    BY <1>1, <1>3, OwnRowKeeps

LEMMA DeleteOwnKeeps ==
    ASSUME IInv, NEW r \in Rows, DeleteOwn(r)
    PROVE  IInv'
  <1>1. /\ Own(r) /\ NoLonger(r) /\ UNCHANGED <<remote, pass, fetch, shown>>
        /\ RowShaped(row) /\ Shapes
    BY DEF DeleteOwn, IInv, Shapes
  <1>2. CASE row' = RowsWithout({r}) /\ override' = OverridesWithout({r})
    <2>1. \A j \in Instances : owed'[j] # Nothing => owed'[j] = owed[j] /\ override[j].replacement \notin {r}
      BY <1>1 DEF NoLonger
    <2>2. owed' = [j \in Instances |-> owed'[j]]
      BY <1>1 DEF NoLonger
    <2>3. pass' = [at |-> pass'.at, batch |-> pass'.batch, master |-> pass'.master,
                    todo |-> pass'.todo, current |-> pass'.current, sent |-> pass'.sent]
      BY <1>1 DEF Shapes
    <2> QED
      BY <1>1, <1>2, <2>1, <2>2, <2>3, DeletingKeeps
  <1>3. CASE row' = [row EXCEPT ![r].syncStatus = "PENDING_DELETE"] /\ UNCHANGED override
    <2>1. /\ RowShaped(row') /\ row'[r].link = row[r].link /\ row'[r] # Gone
          /\ \A q \in Rows : q # r => row'[q] = row[q]
      BY <1>1, <1>3 DEF RowShaped, Gone
    <2> QED
      BY <1>1, <1>3, <2>1, OwnRowKeeps
  <1> QED
    BY <1>2, <1>3 DEF DeleteOwn

LEMMA EditSeriesKeeps ==
    ASSUME IInv, EditSeries
    PROVE  IInv'
  <1> DEFINE stored == UNION {Linked(i) : i \in Instances}
  <1>1. /\ row' = RowsWithout(stored) /\ override' = OverridesWithout(stored)
        /\ owed' = [i \in Instances |-> IF override[i].replacement \in stored THEN Nothing ELSE owed[i]]
        /\ UNCHANGED <<remote, fetch, shown>> /\ Shapes
    BY DEF EditSeries, IInv
  <1>2. stored \in SUBSET Rows
    BY DEF Linked
  <1>3. /\ pass' = [at |-> pass.at, batch |-> pass.batch, master |-> FALSE,
                    todo |-> pass.todo, current |-> pass.current, sent |-> pass.sent]
    BY <1>1 DEF EditSeries, Shapes
  <1> HIDE DEF stored
  <1>4. /\ owed' = [j \in Instances |-> owed'[j]]
        /\ \A j \in Instances : owed'[j] # Nothing => owed'[j] = owed[j] /\ override[j].replacement \notin stored
    BY <1>1
  <1> QED
    BY <1>1, <1>2, <1>3, <1>4, DeletingKeeps

(* Every change of a user keeps the invariant. *)
LEMMA UserKeeps == IInv /\ UserNext => IInv'
  BY ShowComputedKeeps, ChangeOccurrenceKeeps, CancelOccurrenceKeeps, ShowStoredKeeps, ChangeStoredKeeps,
     CancelStoredKeeps, SaveOwnKeeps, DeleteOwnKeeps, EditSeriesKeeps
  DEF UserNext

-----------------------------------------------------------------------------
(* syncPendingEvents. *)

(* The pass goes on: what it has to do becomes less, or is what is pending now; what *)
(* the server gets is what the pass has read, and what is owed becomes less.       *)
LEMMA PassMoves ==
    ASSUME IInv, UNCHANGED <<row, override, fetch, shown>>,
           pass' = [at |-> pass'.at, batch |-> pass'.batch, master |-> pass'.master,
                    todo |-> pass'.todo, current |-> pass'.current, sent |-> pass'.sent],
           DOMAIN pass'.todo \subseteq Instances,
           \A i \in DOMAIN pass'.todo :
               \/ i \in DOMAIN pass.todo /\ pass'.todo[i] = pass.todo[i]
               \/ pass'.todo[i] = override[i] /\ override[i].pending,
           pass'.at \in {"idle", "read", "answered", "written"} => DOMAIN pass'.todo = {},
           pass'.at \in {"sent", "accepted", "linked"} => pass'.current \in DOMAIN pass'.todo,
           remote' = [i \in Instances |-> [type |-> remote'[i].type, content |-> remote'[i].content,
                                           localId |-> remote'[i].localId]],
           \A i \in Instances : \/ remote'[i].localId = remote[i].localId
                                \/ i \in DOMAIN pass.todo /\ remote'[i].localId = pass.todo[i].replacement,
           owed' = [i \in Instances |-> owed'[i]],
           \A i \in Instances : owed'[i] # Nothing =>
               /\ owed'[i] = owed[i]
               /\ pass'.at = "sent" /\ pass'.current = i /\ owed[i].type = "MODIFIED" => pass'.sent = owed[i].content
               /\ pass'.at \in {"accepted", "linked"} => pass'.current # i
    PROVE  IInv'
  <1> USE DEF IInv
  <1>1. Shapes'
    BY DEF Shapes
  <1>2. Ties'
    <2>1. \A q \in Rows, j \in Instances : Tied(j, q)' => Tied(j, q)
      BY DEF Tied
    <2> QED
      BY <2>1, NoNewTies DEF Ties, Live, Linked
  <1>3. PassInv'
    <2>1. \A i \in Instances : override[i].pending => override[i].type \in {"CANCELLED", "MODIFIED"}
      BY DEF PassInv, Shapes, AnyOverride
    <2> QED
      BY <2>1 DEF PassInv
  <1>5. KeptInv'
    <2> SUFFICES ASSUME NEW j \in Instances, owed'[j] # Nothing PROVE Kept(j)'
      BY DEF KeptInv
    <2>1. Kept(j) /\ owed'[j] = owed[j]
      BY DEF KeptInv
    <2> QED
      BY <2>1 DEF Kept
  <1> QED
    BY <1>1, <1>2, <1>3, <1>5

LEMMA NoPassShape ==
    /\ NoPass = [at |-> NoPass.at, batch |-> NoPass.batch, master |-> NoPass.master,
                 todo |-> NoPass.todo, current |-> NoPass.current, sent |-> NoPass.sent]
    /\ NoPass.at = "idle" /\ DOMAIN NoPass.todo = {}
  BY DEF NoPass

(* What remains to do without instance i. *)
LEMMA WithoutOne ==
    ASSUME NEW i
    PROVE  /\ Without(i) = [at |-> Without(i).at, batch |-> Without(i).batch, master |-> Without(i).master,
                 todo |-> Without(i).todo, current |-> Without(i).current, sent |-> Without(i).sent]
           /\ Without(i).at \in {"idle", "overrides"} /\ (Without(i).at = "idle" => DOMAIN Without(i).todo = {})
           /\ DOMAIN Without(i).todo = DOMAIN pass.todo \ {i}
           /\ \A j \in DOMAIN pass.todo \ {i} : Without(i).todo[j] = pass.todo[j]
  <1> DEFINE rest == DOMAIN pass.todo \ {i}
  <1>1. CASE rest = {}
    BY <1>1, NoPassShape DEF Without
  <1>2. CASE rest # {}
    BY <1>2 DEF Without, NoPass
  <1> QED
    BY <1>1, <1>2

LEMMA ReadPendingKeeps == IInv /\ ReadPending => IInv'
  <1> SUFFICES ASSUME IInv, ReadPending PROVE IInv'
    OBVIOUS
  <1>1. /\ Shapes /\ KeptInv /\ UNCHANGED <<row, override, remote, fetch, owed, shown>>
        /\ pass' = [at |-> "read", batch |-> pass'.batch, master |-> pass'.master,
                    todo |-> NoPass.todo, current |-> NoPass.current, sent |-> NoPass.sent]
    BY DEF ReadPending, NoPass, IInv
  <1> QED
    BY <1>1, NoPassShape, PassMoves DEF Shapes

LEMMA ServerTakesBatchKeeps == IInv /\ ServerTakesBatch => IInv'
  <1> SUFFICES ASSUME IInv, ServerTakesBatch PROVE IInv'
    OBVIOUS
  <1>1. /\ Shapes /\ PassInv /\ UNCHANGED <<row, override, remote, fetch, owed, shown>> /\ pass.at = "read"
        /\ pass' = [at |-> "answered", batch |-> pass.batch, master |-> pass.master,
                    todo |-> pass.todo, current |-> pass.current, sent |-> pass.sent]
    BY DEF ServerTakesBatch, IInv, Shapes
  <1> QED
    BY <1>1, PassMoves DEF Shapes, PassInv

LEMMA ReadOverridesKeeps == IInv /\ ReadOverrides => IInv'
  <1> SUFFICES ASSUME IInv, ReadOverrides PROVE IInv'
    OBVIOUS
  <1> DEFINE waiting == {i \in Instances : override[i].pending}
  <1>1. /\ Shapes /\ UNCHANGED <<row, override, remote, fetch, owed, shown>>
        /\ pass' = IF waiting = {} THEN NoPass
                   ELSE [NoPass EXCEPT !.at = "overrides", !.todo = [i \in waiting |-> override[i]]]
    BY DEF ReadOverrides, IInv
  <1>2. CASE waiting = {}
    <2>1. pass' = NoPass
      BY <1>1, <1>2
    <2> QED
      BY <1>1, <2>1, NoPassShape, PassMoves DEF Shapes
  <1>3. CASE waiting # {}
    <2>1. pass' = [at |-> "overrides", batch |-> NoPass.batch, master |-> NoPass.master,
                   todo |-> [i \in waiting |-> override[i]], current |-> NoPass.current, sent |-> NoPass.sent]
      BY <1>1, <1>3 DEF NoPass
    <2>2. /\ DOMAIN pass'.todo = waiting /\ waiting \subseteq Instances /\ pass'.at = "overrides"
          /\ \A i \in waiting : pass'.todo[i] = override[i] /\ override[i].pending
      BY <2>1
    <2>3. pass' = [at |-> pass'.at, batch |-> pass'.batch, master |-> pass'.master,
                   todo |-> pass'.todo, current |-> pass'.current, sent |-> pass'.sent]
      BY <2>1
    <2> HIDE DEF waiting
    <2> QED
      BY <1>1, <2>2, <2>3, PassMoves DEF Shapes
  <1> QED
    BY <1>2, <1>3

LEMMA SendOverrideKeeps ==
    ASSUME IInv, NEW i \in Instances, SendOverride(i)
    PROVE  IInv'
  <1> DEFINE content == IF pass.todo[i].type = "CANCELLED" THEN 0 ELSE row[pass.todo[i].replacement].content
  <1>1. /\ Shapes /\ PassInv /\ KeptInv /\ UNCHANGED <<row, override, remote, fetch, owed, shown>>
        /\ i \in DOMAIN pass.todo
        /\ pass' = [at |-> "sent", batch |-> pass.batch, master |-> pass.master,
                    todo |-> pass.todo, current |-> i, sent |-> content]
    BY DEF SendOverride, IInv, IsNext, Shapes
  <1>2. ASSUME owed[i] # Nothing, owed[i].type = "MODIFIED" PROVE content = owed[i].content
    <2>1. Kept(i)
      BY <1>2, <1>1 DEF KeptInv
    <2> QED
      BY <1>1, <1>2, <2>1 DEF Kept
  <1> HIDE DEF content
  <1> QED
    BY <1>1, <1>2, PassMoves DEF Shapes, PassInv

LEMMA NotSentKeeps ==
    ASSUME IInv, NEW i \in Instances, NotSent(i)
    PROVE  IInv'
  <1>1. Shapes /\ PassInv /\ UNCHANGED <<row, override, remote, fetch, owed, shown>> /\ pass' = Without(i)
    BY DEF NotSent, IInv
  <1> QED
    BY <1>1, WithoutOne, PassMoves DEF Shapes, PassInv

(* What the server takes is no longer owed. *)
LEMMA ReceivedPays ==
    ASSUME IInv, pass.at = "sent", Received
    PROVE  /\ remote' = [i \in Instances |-> [type |-> remote'[i].type, content |-> remote'[i].content,
                                              localId |-> remote'[i].localId]]
           /\ \A i \in Instances : \/ remote'[i].localId = remote[i].localId
                                   \/ i \in DOMAIN pass.todo /\ remote'[i].localId = pass.todo[i].replacement
           /\ owed' = [i \in Instances |-> owed'[i]]
           /\ \A i \in Instances : owed'[i] # Nothing => owed'[i] = owed[i] /\ pass.current # i
  <1> DEFINE i == pass.current
             o == pass.todo[i]
  <1>1. i \in DOMAIN pass.todo /\ i \in Instances /\ Shapes
    BY DEF IInv, PassInv
  <1>2. remote' = [remote EXCEPT ![i] = IF o.type = "CANCELLED" THEN [type |-> "CANCELLED", content |-> 0, localId |-> @.localId]
                       ELSE [type |-> "MODIFIED", content |-> pass.sent, localId |-> o.replacement]]
    BY DEF Received
  <1> HIDE DEF o
  <1>3. /\ remote' = [j \in Instances |-> [type |-> remote'[j].type, content |-> remote'[j].content,
                                              localId |-> remote'[j].localId]]
        /\ \A j \in Instances : j # i => remote'[j] = remote[j]
        /\ remote'[i].localId \in {remote[i].localId, o.replacement}
    <2>1. CASE o.type = "CANCELLED"
      BY <1>1, <1>2, <2>1 DEF Shapes
    <2>2. CASE o.type # "CANCELLED"
      BY <1>1, <1>2, <2>2 DEF Shapes
    <2> QED
      BY <2>1, <2>2
  <1> USE DEF o
  <1>4. /\ owed' = [j \in Instances |-> owed'[j]]
        /\ \A j \in Instances : owed'[j] # Nothing => owed'[j] = owed[j]
    BY <1>1 DEF Received, Shapes
  <1>5. owed'[i] = Nothing
    <2>1. CASE owed[i] = Nothing
      BY <1>1, <2>1 DEF Received, Shapes
    <2>2. CASE owed[i] # Nothing
      <3>1. Kept(i)
        BY <1>1, <2>2 DEF IInv, KeptInv
      <3>2. owed[i].type = o.type /\ (o.type = "MODIFIED" => owed[i].content = pass.sent)
        BY <1>1, <3>1 DEF Kept
      <3>3. o.type \in {"CANCELLED", "MODIFIED"}
        BY <1>1 DEF IInv, PassInv
      <3> QED
        BY <1>1, <3>2, <3>3 DEF Received, Shapes
    <2> QED
      BY <2>1, <2>2
  <1> QED
    BY <1>1, <1>3, <1>4, <1>5

LEMMA ServerAcceptsKeeps == IInv /\ ServerAccepts => IInv'
  <1> SUFFICES ASSUME IInv, ServerAccepts PROVE IInv'
    OBVIOUS
  <1>1. /\ Shapes /\ PassInv /\ UNCHANGED <<row, override, fetch, shown>> /\ pass.at = "sent" /\ Received
        /\ pass' = [at |-> "accepted", batch |-> pass.batch, master |-> pass.master,
                    todo |-> pass.todo, current |-> pass.current, sent |-> pass.sent]
    BY DEF ServerAccepts, IInv, Shapes
  <1> QED
    BY <1>1, ReceivedPays, PassMoves DEF PassInv

LEMMA ServerMissesInstanceKeeps == IInv /\ ServerMissesInstance => IInv'
  <1> SUFFICES ASSUME IInv, ServerMissesInstance PROVE IInv'
    OBVIOUS
  <1>1. /\ Shapes /\ PassInv /\ UNCHANGED <<row, override, remote, fetch, shown>> /\ pass.at = "sent"
        /\ pass' = [at |-> "accepted", batch |-> pass.batch, master |-> pass.master,
                    todo |-> pass.todo, current |-> pass.current, sent |-> pass.sent]
    BY DEF ServerMissesInstance, IInv, Shapes
  <1>2. /\ owed' = [i \in Instances |-> owed'[i]]
        /\ \A i \in Instances : owed'[i] # Nothing => owed'[i] = owed[i] /\ pass.current # i
    BY <1>1 DEF ServerMissesInstance, Shapes
  <1> QED
    BY <1>1, <1>2, PassMoves DEF Shapes, PassInv

LEMMA ServerRejectsKeeps == IInv /\ ServerRejects => IInv'
  <1> SUFFICES ASSUME IInv, ServerRejects PROVE IInv'
    OBVIOUS
  <1>1. /\ Shapes /\ PassInv /\ UNCHANGED <<row, override, fetch, shown>> /\ pass.at = "sent"
        /\ pass' = Without(pass.current)
    BY DEF ServerRejects, IInv
  <1>2. CASE Received
    BY <1>1, <1>2, ReceivedPays, WithoutOne, PassMoves DEF PassInv
  <1>3. CASE UNCHANGED <<remote, owed, shown>>
    BY <1>1, <1>3, WithoutOne, PassMoves DEF PassInv, Shapes
  <1> QED
    BY <1>2, <1>3 DEF ServerRejects

LEMMA LinkThrowsKeeps == IInv /\ LinkThrows => IInv'
  <1> SUFFICES ASSUME IInv, LinkThrows PROVE IInv'
    OBVIOUS
  <1>1. /\ Shapes /\ UNCHANGED <<row, override, remote, fetch, owed, shown>> /\ pass' = NoPass
    BY DEF LinkThrows, IInv
  <1> QED
    BY <1>1, NoPassShape, PassMoves DEF Shapes

LEMMA WriteResultsKeeps == IInv /\ WriteResults => IInv'
  <1> SUFFICES ASSUME IInv, WriteResults PROVE IInv'
    OBVIOUS
  <1> USE DEF IInv
  <1> DEFINE same == {r \in DOMAIN pass.batch : row[r] = pass.batch[r]}
             deleted == {r \in same : row[r].syncStatus = "PENDING_DELETE"}
             link(r) == IF row[r].syncStatus = "PENDING_INSERT" THEN <<"own", r>> ELSE row[r].link
             S == deleted \cap Rows
  <1>1. /\ row' = [r \in Rows |-> IF r \in deleted THEN Gone
                                  ELSE IF r \in same THEN Synced(link(r), row[r].content) ELSE row[r]]
        /\ override' = OverridesWithout(deleted) /\ pass' = [NoPass EXCEPT !.at = "written"]
        /\ UNCHANGED <<remote, fetch, owed, shown>>
    BY DEF WriteResults
  <1>2. \A r \in Rows :
          \/ r \in S /\ row'[r] = Gone /\ row[r].syncStatus = "PENDING_DELETE"
          \/ /\ r \notin S /\ row'[r].content = row[r].content /\ row'[r] # Gone
             /\ row'[r].syncStatus = "SYNCED" /\ row'[r].link \in {row[r].link, <<"own", r>>}
          \/ r \notin S /\ row'[r] = row[r]
    <2> SUFFICES ASSUME NEW r \in Rows
                 PROVE \/ r \in S /\ row'[r] = Gone /\ row[r].syncStatus = "PENDING_DELETE"
                       \/ /\ r \notin S /\ row'[r].content = row[r].content /\ row'[r] # Gone
                          /\ row'[r].syncStatus = "SYNCED" /\ row'[r].link \in {row[r].link, <<"own", r>>}
                       \/ r \notin S /\ row'[r] = row[r]
      OBVIOUS
    <2>1. CASE r \in deleted
      BY <1>1, <2>1
    <2>2. CASE r \in same \ deleted
      <3>1. row'[r] = Synced(link(r), row[r].content)
        BY <1>1, <2>2
      <3> HIDE DEF same, deleted
      <3> QED
        BY <2>2, <3>1, SyncedRow
    <2>3. CASE r \notin same
      BY <1>1, <2>3
    <2> QED
      BY <2>1, <2>2, <2>3
  <1>3. \A j \in Instances :
          /\ override'[j].type = override[j].type /\ override'[j].pending = override[j].pending
          /\ \/ override[j].replacement \in S /\ override'[j].replacement = NoRow
             \/ override[j].replacement \notin S /\ override'[j] = override[j]
    <2>1. \A j \in Instances : override[j].replacement \in Rows \/ override[j].replacement = NoRow
      BY DEF Shapes, AnyOverride
    <2>2. \A j \in Instances : override[j].replacement = NoRow /\ NoRow \in deleted => override'[j] = override[j]
      BY <1>1 DEF OverridesWithout, Shapes, AnyOverride
    <2>3. override' = [i \in Instances |-> IF override[i].replacement \in deleted
                         THEN [override[i] EXCEPT !.replacement = NoRow] ELSE override[i]]
      BY <1>1 DEF OverridesWithout
    <2> HIDE DEF same, deleted
    <2> QED
      BY <2>1, <2>2, <2>3, OverridesAssumption DEF Shapes, AnyOverride
  <1>4. override' \in [Instances -> AnyOverride]
    BY <1>1 DEF OverridesWithout, Shapes, AnyOverride
  <1>5. pass' = [at |-> "written", batch |-> NoPass.batch, master |-> NoPass.master,
                todo |-> NoPass.todo, current |-> NoPass.current, sent |-> NoPass.sent]
    BY <1>1 DEF NoPass
  <1>6. Shapes'
    <2>1. RowShaped(row')
      BY <1>1 DEF RowShaped, Shapes, Gone, Synced
    <2> QED
      BY <1>1, <1>4, <1>5, <2>1 DEF Shapes
  <1> HIDE DEF S, same, deleted, link
  <1>7. Ties'
    <2>1. \A q \in Rows, j \in Instances :
            /\ row'[q].link = <<"instance", j>> => row[q].link = <<"instance", j>>
            /\ row'[q].link = <<"replacement", j>> => row[q].link = <<"replacement", j>>
      BY <1>2, GoneRow, LinksDiffer
    <2>2. \A q \in Rows, j \in Instances : Tied(j, q)' => Tied(j, q)
      BY <1>1, <1>3, <1>5, <2>1, NoPassShape, OverridesAssumption DEF Tied
    <2>3. \A j \in Instances : Linked(j)' \subseteq Linked(j)
      BY <2>1 DEF Linked
    <2>4. \A j \in Instances : override'[j].replacement = NoRow \/ Live(override[j].replacement)'
      BY <1>2, <1>3 DEF Live, Ties
    <2> QED
      BY <2>2, <2>3, <2>4, NoNewTies DEF Ties
  <1>8. PassInv'
    BY <1>3, <1>5, NoPassShape DEF PassInv
  <1>10. KeptInv'
    <2> SUFFICES ASSUME NEW j \in Instances, owed'[j] # Nothing PROVE Kept(j)'
      BY DEF KeptInv
    <2>1. Kept(j) /\ owed'[j] = owed[j]
      BY <1>1 DEF KeptInv
    <2>2. owed[j].type = "MODIFIED" =>
            /\ override'[j] = override[j]
            /\ row'[override[j].replacement].content = row[override[j].replacement].content
            /\ row'[override[j].replacement].syncStatus = "SYNCED"
      BY <1>2, <1>3, <2>1 DEF Kept
    <2> QED
      BY <1>3, <1>5, <2>1, <2>2, NoPassShape DEF Kept
  <1> QED
    BY <1>6, <1>7, <1>8, <1>10

(* A row that was tied to an instance becomes its row. *)
LEMMA LinkingKeeps ==
    ASSUME IInv, NEW i \in Instances, NEW r \in Rows, Tied(i, r), Linked(i) \subseteq {r}, i \in DOMAIN pass.todo,
           RowShaped(row'), \A q \in Rows : q # r => row'[q] = row[q],
           row'[r].link = <<"instance", i>>, row'[r].content = row[r].content,
           row'[r].syncStatus = "SYNCED", row'[r] # Gone,
           UNCHANGED <<override, remote, fetch, owed, shown>>,
           pass.at = "accepted",
           pass' = [at |-> "linked", batch |-> pass.batch, master |-> pass.master,
                    todo |-> pass.todo, current |-> pass.current, sent |-> pass.sent]
    PROVE  IInv'
  <1> USE DEF IInv
  <1>1. Shapes'
    BY DEF Shapes
  <1>2. \A j \in Instances : j # i => Linked(j)' \subseteq Linked(j)
    BY LinksDiffer DEF Linked
  <1>3. Ties'
    <2>1. \A q \in Rows, j \in Instances : Tied(j, q)' => Tied(j, q) \/ (j = i /\ q = r)
      BY LinksDiffer DEF Tied
    <2>2. \A j \in Instances : Tied(j, r) => j = i
      BY DEF Ties
    <2>3. \A q \in Rows : \A j, k \in Instances : Tied(j, q)' /\ Tied(k, q)' => j = k
      BY <2>1, <2>2, TiesStay
    <2>4. \A j \in Instances : \A q, p \in Linked(j)' : q = p
      <3>1. Linked(i)' \subseteq {r}
        BY DEF Linked
      <3> QED
        BY <1>2, <3>1 DEF Ties
    <2>5. \A j \in Instances : override[j].replacement = NoRow \/ Live(override[j].replacement)'
      BY DEF Live, Ties
    <2> QED
      BY <2>3, <2>4, <2>5 DEF Ties
  <1>4. PassInv'
    BY DEF PassInv
  <1>6. KeptInv'
    <2> SUFFICES ASSUME NEW j \in Instances, owed'[j] # Nothing PROVE Kept(j)'
      BY DEF KeptInv
    <2>1. Kept(j)
      BY DEF KeptInv
    <2> QED
      BY <2>1 DEF Kept
  <1> QED
    BY <1>1, <1>3, <1>4, <1>6

LEMMA LinkReplacementKeeps == IInv /\ LinkReplacement => IInv'
  <1> SUFFICES ASSUME IInv, LinkReplacement PROVE IInv'
    OBVIOUS
  <1> DEFINE i == pass.current
             r == pass.todo[i].replacement
  <1>1. /\ UNCHANGED <<override, remote, fetch, owed, shown>>
        /\ pass.at = "accepted" /\ i \in DOMAIN pass.todo /\ i \in Instances
        /\ pass' = [at |-> "linked", batch |-> pass.batch, master |-> pass.master,
                    todo |-> pass.todo, current |-> pass.current, sent |-> pass.sent]
        /\ RowShaped(row)
    BY DEF LinkReplacement, IInv, PassInv, Shapes
  <1>2. CASE ~Live(r)
    <2>1. UNCHANGED row
      BY <1>2 DEF LinkReplacement
    <2> QED
      BY <1>1, <2>1, PassMoves DEF IInv, Shapes, PassInv, KeptInv, Kept
  <1>3. CASE Live(r)
    <2>1. /\ row' = [row EXCEPT ![r] = Synced(<<"instance", i>>, row[r].content)] /\ r \in Rows
          /\ Linked(i) \subseteq {r}
      BY <1>1, <1>3 DEF LinkReplacement, Live, RowShaped
    <2>2. /\ RowShaped(row') /\ \A q \in Rows : q # r => row'[q] = row[q]
          /\ row'[r].link = <<"instance", i>> /\ row'[r].content = row[r].content
          /\ row'[r].syncStatus = "SYNCED" /\ row'[r] # Gone
      BY <1>1, <2>1 DEF RowShaped, Synced, Gone
    <2>3. Tied(i, r)
      BY <1>1 DEF Tied
    <2> QED
      BY <1>1, <2>1, <2>2, <2>3, LinkingKeeps
  <1> QED
    BY <1>2, <1>3

LEMMA MarkKeeps == IInv /\ MarkRecurrenceOverrideSynced => IInv'
  <1> SUFFICES ASSUME IInv, MarkRecurrenceOverrideSynced PROVE IInv'
    OBVIOUS
  <1> USE DEF IInv
  <1> DEFINE i == pass.current
  <1>1. /\ UNCHANGED <<row, remote, fetch, owed, shown>> /\ pass' = Without(i)
        /\ pass.at = "linked" /\ i \in DOMAIN pass.todo /\ i \in Instances
    BY DEF MarkRecurrenceOverrideSynced, PassInv
  <1>2. /\ override' \in [Instances -> AnyOverride]
        /\ override'[i].type = override[i].type /\ override'[i].replacement = override[i].replacement
        /\ override'[i].pending = FALSE
        /\ \A j \in Instances : j # i => override'[j] = override[j]
    <2>1. override' = [override EXCEPT ![i].pending = FALSE]
      BY DEF MarkRecurrenceOverrideSynced
    <2> HIDE DEF i
    <2> QED
      BY <1>1, <2>1 DEF Shapes, AnyOverride
  <1>3. owed[i] = Nothing
    BY <1>1 DEF KeptInv, Kept
  <1> HIDE DEF i
  <1>4. Shapes'
    BY <1>1, <1>2, WithoutOne DEF Shapes
  <1>5. Ties'
    <2>1. \A q \in Rows, j \in Instances : Tied(j, q)' => Tied(j, q)
      BY <1>1, <1>2, WithoutOne DEF Tied
    <2>2. \A j \in Instances : override'[j].replacement = override[j].replacement
      BY <1>2
    <2> QED
      BY <1>1, <2>1, <2>2, NoNewTies DEF Ties, Live, Linked
  <1>6. PassInv'
    BY <1>1, <1>2, WithoutOne DEF PassInv
  <1>8. KeptInv'
    <2> SUFFICES ASSUME NEW j \in Instances, owed'[j] # Nothing PROVE Kept(j)'
      BY DEF KeptInv
    <2>1. j # i /\ Kept(j) /\ owed'[j] = owed[j] /\ override'[j] = override[j]
      BY <1>1, <1>2, <1>3 DEF KeptInv
    <2> QED
      BY <1>1, <2>1, WithoutOne DEF Kept
  <1> QED
    BY <1>4, <1>5, <1>6, <1>8

(* Every step of a pass keeps the invariant. *)
LEMMA PassKeeps == IInv /\ (ReadPending \/ PassStep) => IInv'
  BY ReadPendingKeeps, ServerTakesBatchKeeps, WriteResultsKeeps, ReadOverridesKeeps, SendOverrideKeeps,
     NotSentKeeps, ServerAcceptsKeeps, ServerMissesInstanceKeeps, ServerRejectsKeeps, LinkReplacementKeeps, LinkThrowsKeeps, MarkKeeps
  DEF PassStep

-----------------------------------------------------------------------------
(* A fetch. *)

LEMMA FetchListsKeeps == IInv /\ FetchLists => IInv'
  <1> SUFFICES ASSUME IInv, FetchLists PROVE IInv'
    OBVIOUS
  <1> USE DEF IInv
  <1>1. /\ UNCHANGED <<row, override, remote, pass, owed, shown>>
        /\ fetch' = [instances |-> [i \in {j \in Instances : remote[j] # AsRuled} |-> remote[i]],
                     plain |-> [p \in {q \in Rows : plain[q] # NoEvent} |-> plain[p]]]
    BY DEF FetchLists
  <1>2. Shapes'
    BY <1>1 DEF Shapes
  <1>3. Ties'
    <2>1. \A q \in Rows, j \in Instances : Tied(j, q)' => Tied(j, q)
      BY <1>1 DEF Tied
    <2> QED
      BY <1>1, <2>1, NoNewTies DEF Ties, Live, Linked
  <1>4. PassInv'
    BY <1>1 DEF PassInv, Linked
  <1>5. KeptInv'
    BY <1>1 DEF KeptInv, Kept
  <1> QED
    BY <1>2, <1>3, <1>4, <1>5

(* An item is stored: the list is shorter by it. *)
LEMMA StoredOne ==
    ASSUME Shapes, NEW i, Stored(i)
    PROVE  /\ fetch' = [instances |-> fetch'.instances, plain |-> fetch'.plain]
           /\ DOMAIN fetch'.instances = DOMAIN fetch.instances \ {i}
           /\ \A j \in DOMAIN fetch'.instances : fetch'.instances[j] = fetch.instances[j]
  <1>1. fetch' = [instances |-> [j \in DOMAIN fetch.instances \ {i} |-> fetch.instances[j]], plain |-> fetch.plain]
    BY DEF Stored, Shapes
  <1> QED
    BY <1>1

LEMMA SkipInstanceKeeps ==
    ASSUME IInv, NEW i \in Instances, SkipInstance(i)
    PROVE  IInv'
  <1> USE DEF IInv
  <1>1. /\ UNCHANGED <<row, override, remote, pass, owed, shown>> /\ Stored(i)
    BY DEF SkipInstance
  <1>2. Shapes'
    BY <1>1, StoredOne DEF Shapes
  <1>3. Ties'
    <2>1. \A q \in Rows, j \in Instances : Tied(j, q)' => Tied(j, q)
      BY <1>1, StoredOne DEF Tied
    <2> QED
      BY <1>1, <2>1, NoNewTies DEF Ties, Live, Linked
  <1>4. PassInv'
    BY <1>1 DEF PassInv, Linked
  <1>5. KeptInv'
    BY <1>1 DEF KeptInv, Kept
  <1> QED
    BY <1>2, <1>3, <1>4, <1>5

(* The rows an exception may be stored in are no other instance's. *)
LEMMA TargetsAreFree ==
    ASSUME IInv, NEW i \in DOMAIN fetch.instances, NEW r \in Targets(i)
    PROVE  r \in Rows /\ \A j \in Instances : Tied(j, r) => j = i
  <1> USE DEF IInv
  <1>0. i \in Instances
    BY DEF Shapes
  <1>1. ASSUME r \in Rows, Tied(i, r) PROVE \A j \in Instances : Tied(j, r) => j = i
    BY <1>0, <1>1 DEF Ties
  <1>2. CASE r \in Linked(i)
    BY <1>1, <1>2 DEF Linked, Tied
  <1>3. CASE Live(r) /\ r = override[i].replacement
    BY <1>1, <1>3 DEF Live, Tied
  <1>4. CASE Live(r) /\ r = fetch.instances[i].localId
    BY <1>1, <1>4 DEF Live, Tied
  <1>5. CASE r \in NewRow
    BY <1>5, NewRowIsFree
  <1> QED
    BY <1>2, <1>3, <1>4, <1>5 DEF Targets

LEMMA PersistExceptionKeeps ==
    ASSUME IInv, NEW i \in Instances, PersistException(i)
    PROVE  IInv'
  <1> USE DEF IInv
  <1>1. /\ i \in DOMAIN fetch.instances /\ UNCHANGED <<remote, pass, shown>> /\ Stored(i) /\ Overwritten(i)
        /\ RowShaped(row)
    BY DEF PersistException, Shapes
  <1>2. PICK r \in Targets(i) : row' = [row EXCEPT ![r] = Synced(<<"instance", i>>, fetch.instances[i].content)]
    BY DEF PersistException
  <1>3. r \in Rows /\ \A j \in Instances : Tied(j, r) => j = i
    BY <1>1, TargetsAreFree
  <1>4. /\ RowShaped(row') /\ \A q \in Rows : q # r => row'[q] = row[q]
        /\ row'[r].link = <<"instance", i>> /\ row'[r] # Gone
    BY <1>1, <1>2, <1>3 DEF RowShaped, Synced, Gone
  <1>5. Linked(i) \subseteq {r}
    BY <1>2 DEF Targets, Ties
  <1>6. override' = [override EXCEPT ![i] = Override("MODIFIED", r, FALSE)]
    <2>1. PICK q \in Rows : row'[q].link = <<"instance", i>> /\ override' = [override EXCEPT ![i] = Override("MODIFIED", q, FALSE)]
      BY DEF PersistException, ExceptionOverride
    <2>2. q = r
      BY <1>4, <1>5, <2>1 DEF Linked
    <2> QED
      BY <2>1, <2>2
  <1>7. /\ override' \in [Instances -> AnyOverride]
        /\ override'[i].type = "MODIFIED" /\ override'[i].replacement = r /\ override'[i].pending = FALSE
        /\ \A j \in Instances : j # i => override'[j] = override[j]
    BY <1>3, <1>6 DEF Shapes, AnyOverride, Override
  <1>8. owed' = [j \in Instances |-> owed'[j]] /\ owed'[i] = Nothing /\ \A j \in Instances : j # i => owed'[j] = owed[j]
    BY <1>1 DEF Overwritten, Shapes
  <1>9. Shapes'
    BY <1>1, <1>4, <1>7, <1>8, StoredOne DEF Shapes
  <1>10. \A j \in Instances : j # i => Linked(j)' \subseteq Linked(j)
    BY <1>4, LinksDiffer DEF Linked
  <1>11. Ties'
    <2>1. \A q \in Rows, j \in Instances : Tied(j, q)' => Tied(j, q) \/ (j = i /\ q = r)
      BY <1>1, <1>4, <1>7, StoredOne, LinksDiffer DEF Tied
    <2>2. \A q \in Rows : \A j, k \in Instances : Tied(j, q)' /\ Tied(k, q)' => j = k
      BY <1>3, <2>1, TiesStay
    <2>3. \A j \in Instances : \A q, p \in Linked(j)' : q = p
      <3>1. Linked(i)' \subseteq {r}
        BY <1>4, <1>5 DEF Linked
      <3> QED
        BY <1>10, <3>1 DEF Ties
    <2>4. \A j \in Instances : override'[j].replacement = NoRow \/ Live(override[j].replacement)'
      BY <1>3, <1>4, <1>7 DEF Live, Ties
    <2> QED
      BY <2>2, <2>3, <2>4 DEF Ties
  <1>12. PassInv'
    BY <1>1, <1>7 DEF PassInv
  <1>14. KeptInv'
    <2> SUFFICES ASSUME NEW j \in Instances, owed'[j] # Nothing PROVE Kept(j)'
      BY DEF KeptInv
    <2>1. j # i /\ Kept(j) /\ owed'[j] = owed[j] /\ override'[j] = override[j]
      BY <1>7, <1>8 DEF KeptInv
    <2>2. override[j].replacement # r
      BY <1>3, <2>1 DEF Tied
    <2> QED
      BY <1>1, <1>4, <2>1, <2>2 DEF Kept
  <1> QED
    BY <1>9, <1>11, <1>12, <1>14

LEMMA PersistCancelledKeeps ==
    ASSUME IInv, NEW i \in Instances, PersistCancelled(i)
    PROVE  IInv'
  <1> USE DEF IInv
  <1>1. /\ UNCHANGED <<remote, pass, shown>> /\ Stored(i) /\ Overwritten(i)
        /\ row' = RowsWithout(Linked(i)) /\ Linked(i) \in SUBSET Rows
        /\ \A j \in Instances, r \in Linked(i) : Tied(j, r) => j = i
    BY DEF PersistCancelled, Linked, Tied, Ties
  <1>2. /\ override' \in [Instances -> AnyOverride]
        /\ override'[i].type = "CANCELLED" /\ override'[i].replacement = NoRow /\ override'[i].pending = FALSE
        /\ \A j \in Instances : j # i => override'[j] = override[j] /\ override[j].replacement \notin Linked(i)
    <2>1. override' = [OverridesWithout(Linked(i)) EXCEPT ![i] = Override("CANCELLED", NoRow, FALSE)]
      BY DEF PersistCancelled
    <2>2. \A j \in Instances : j # i => override[j].replacement \notin Linked(i)
      BY <1>1 DEF Tied
    <2>3. \A j \in Instances : j # i => OverridesWithout(Linked(i))[j] = override[j]
      BY <1>1, <2>2, OverridesWithoutRows
    <2>4. OverridesWithout(Linked(i)) \in [Instances -> AnyOverride]
      BY <1>1, OverridesWithoutRows
    <2>5. /\ override' \in [Instances -> AnyOverride]
          /\ override'[i].type = "CANCELLED" /\ override'[i].replacement = NoRow /\ override'[i].pending = FALSE
          /\ \A j \in Instances : j # i => override'[j] = OverridesWithout(Linked(i))[j]
      BY <2>1, <2>4 DEF AnyOverride, Override
    <2> QED
      BY <2>2, <2>3, <2>5
  <1>3. RowShaped(row') /\ \A r \in Rows : row'[r] = IF r \in Linked(i) THEN Gone ELSE row[r]
    BY <1>1, RowsWithoutRows
  <1>4. owed' = [j \in Instances |-> owed'[j]] /\ owed'[i] = Nothing /\ \A j \in Instances : j # i => owed'[j] = owed[j]
    BY <1>1 DEF Overwritten, Shapes
  <1>5. Shapes'
    BY <1>1, <1>2, <1>3, <1>4, StoredOne DEF Shapes
  <1>6. \A j \in Instances : Linked(j)' \subseteq Linked(j)
    BY <1>3, GoneRow DEF Linked
  <1>7. Ties'
    <2>1. \A q \in Rows, j \in Instances : Tied(j, q)' => Tied(j, q)
      BY <1>1, <1>2, <1>3, GoneRow, StoredOne, OverridesAssumption DEF Tied
    <2>2. \A j \in Instances : override'[j].replacement = NoRow \/ Live(override[j].replacement)'
      BY <1>2, <1>3 DEF Live, Ties
    <2> QED
      BY <1>6, <2>1, <2>2, NoNewTies DEF Ties
  <1>8. PassInv'
    BY <1>1, <1>2 DEF PassInv
  <1>10. KeptInv'
    <2> SUFFICES ASSUME NEW j \in Instances, owed'[j] # Nothing PROVE Kept(j)'
      BY DEF KeptInv
    <2>1. j # i /\ Kept(j) /\ owed'[j] = owed[j] /\ override'[j] = override[j]
      BY <1>2, <1>4 DEF KeptInv
    <2> QED
      BY <1>1, <1>2, <1>3, <2>1 DEF Kept
  <1> QED
    BY <1>5, <1>7, <1>8, <1>10

LEMMA PersistPlainKeeps ==
    ASSUME IInv, NEW p \in Rows, PersistPlain(p)
    PROVE  IInv'
  <1> USE DEF IInv
  <1>1. /\ UNCHANGED <<override, remote, pass, shown>>
        /\ fetch' = [instances |-> fetch.instances, plain |-> fetch'.plain]
        /\ owed' = [i \in Instances |-> IF override[i].replacement # NoRow
                       /\ row'[override[i].replacement] # row[override[i].replacement] THEN Nothing ELSE owed[i]]
        /\ RowShaped(row)
    BY DEF PersistPlain, Shapes
  <1>2. /\ RowShaped(row')
        /\ \A r \in Rows : row'[r] = row[r] \/ (row'[r].link = <<"own", p>> /\ row'[r] # Gone)
    <2>1. CASE UNCHANGED row
      BY <1>1, <2>1
    <2>2. ASSUME NEW r \in Rows, row' = [row EXCEPT ![r] = Synced(<<"own", p>>, fetch.plain[p])]
          PROVE  /\ RowShaped(row') /\ \A q \in Rows : q # r => row'[q] = row[q]
                 /\ row'[r].link = <<"own", p>> /\ row'[r] # Gone
      BY <1>1, <2>2 DEF RowShaped, Synced, Gone
    <2>3. UNCHANGED row \/ \E r \in Rows : row' = [row EXCEPT ![r] = Synced(<<"own", p>>, fetch.plain[p])]
      BY DEF PersistPlain, NewRow
    <2> QED
      BY <2>1, <2>2, <2>3
  <1>3. Shapes'
    BY <1>1, <1>2 DEF Shapes
  <1>4. \A r \in Rows, j \in Instances :
          /\ row'[r].link = <<"instance", j>> => row[r].link = <<"instance", j>>
          /\ row'[r].link = <<"replacement", j>> => row[r].link = <<"replacement", j>>
    BY <1>2, LinksDiffer
  <1>5. \A j \in Instances : Linked(j)' \subseteq Linked(j)
    BY <1>4 DEF Linked
  <1>6. Ties'
    <2>1. \A q \in Rows, j \in Instances : Tied(j, q)' => Tied(j, q)
      BY <1>1, <1>4 DEF Tied
    <2>2. \A j \in Instances : override[j].replacement = NoRow \/ Live(override[j].replacement)'
      BY <1>1, <1>2 DEF Live, Ties
    <2> QED
      BY <1>1, <1>5, <2>1, <2>2, NoNewTies DEF Ties
  <1>7. PassInv'
    BY <1>1 DEF PassInv
  <1>9. KeptInv'
    <2> SUFFICES ASSUME NEW j \in Instances, owed'[j] # Nothing PROVE Kept(j)'
      BY DEF KeptInv
    <2>1. /\ Kept(j) /\ owed'[j] = owed[j]
          /\ override[j].replacement \in Rows => row'[override[j].replacement] = row[override[j].replacement]
      BY <1>1, OverridesAssumption DEF KeptInv
    <2> QED
      BY <1>1, <2>1 DEF Kept
  <1> QED
    BY <1>3, <1>6, <1>7, <1>9

(* Every step of a fetch keeps the invariant. *)
LEMMA FetchKeeps == IInv /\ (FetchLists \/ FetchStep) => IInv'
  BY FetchListsKeeps, PersistExceptionKeeps, PersistCancelledKeeps, SkipInstanceKeeps, PersistPlainKeeps
  DEF FetchStep

LEMMA RemoteWritesKeeps ==
    ASSUME IInv, NEW i \in Instances, RemoteWrites(i)
    PROVE  IInv'
  <1> USE DEF IInv
  <1>1. /\ UNCHANGED <<row, override, fetch, pass, owed, shown>>
        /\ remote' = [j \in Instances |-> [type |-> remote'[j].type, content |-> remote'[j].content,
                                           localId |-> remote'[j].localId]]
        /\ \A j \in Instances : remote'[j].localId = remote[j].localId
    BY DEF RemoteWrites, Shapes
  <1>2. Shapes'
    BY <1>1 DEF Shapes
  <1>3. Ties'
    <2>1. \A q \in Rows, j \in Instances : Tied(j, q)' => Tied(j, q)
      BY <1>1 DEF Tied
    <2> QED
      BY <1>1, <2>1, NoNewTies DEF Ties, Live, Linked
  <1>4. PassInv' /\ KeptInv'
    BY <1>1 DEF PassInv, Linked, KeptInv, Kept
  <1> QED
    BY <1>2, <1>3, <1>4

LEMMA StutterKeeps == IInv /\ UNCHANGED vars => IInv'
  <1> SUFFICES ASSUME IInv, UNCHANGED vars PROVE IInv'
    OBVIOUS
  <1>1. UNCHANGED <<row, override, remote, fetch, pass, owed, shown>>
    BY DEF vars
  <1>2. Shapes' /\ PassInv'
    BY <1>1 DEF IInv, Shapes, RowShaped, PassInv
  <1>3. Ties'
    BY <1>1 DEF IInv, Ties, Tied, Linked, Live
  <1>4. KeptInv'
    BY <1>1 DEF IInv, KeptInv, Kept
  <1> QED
    BY <1>2, <1>3, <1>4 DEF IInv

-----------------------------------------------------------------------------
(* What syncPendingEvents, the fetches and the editor keep together: which row   *)
(* is which instance's, and what the pass has read of an override it is about to    *)
(* mark (calendar_sync_service.cpp, google_calendar_sync_service.cpp).           *)
THEOREM Inductive == Spec => []IInv
  <1>1. IInv /\ [Next]_vars => IInv'
    BY UserKeeps, PassKeeps, FetchKeeps, RemoteWritesKeeps, StutterKeeps, OverridesAssumption DEF Next
  <1> QED
    BY InitIInv, <1>1, PTL DEF Spec

(* A change of one instance that is owed is in a pending override and its        *)
(* replacement, whatever else the pass, a fetch and the user do meanwhile: the     *)
(* override is marked synced only when the server has that change, or answered    *)
(* 404, after which uploadRecurrenceOverride owes it no more.                   *)
THEOREM InstanceChangeKeptHolds == Spec => []InstanceChangeKept
  <1>1. IInv => InstanceChangeKept
    BY DEF IInv, KeptInv, Kept, InstanceChangeKept
  <1> QED
    BY <1>1, Inductive, PTL

-----------------------------------------------------------------------------
(* What the tables, the pass, the list of a fetch and the server hold.           *)

Stamps == 1..MaxStamp
States == {"SYNCED", "PENDING_INSERT", "PENDING_UPDATE", "PENDING_DELETE"}
LiveRow == [content : Stamps, link : Links, syncStatus : States]

(* A row that stands for the event made of row p is the only one, and it is p itself
   as long as p exists.                                                        *)
OwnInv ==
    \A p, q \in Rows : row[q].link = <<"own", p>> =>
        /\ q = p \/ ~Live(p)
        /\ \A r \in Rows : row[r].link = <<"own", p>> => r = q

RowInv == (\A r \in Rows : row[r] = Gone \/ row[r] \in LiveRow) /\ OwnInv

OverrideInv == \A i \in Instances : override[i].type = "NONE" => override[i].replacement = NoRow

(* An instance on the server, or a copy of it. *)
InstanceData(e) ==
    /\ e.type \in {"AS_RULED", "MODIFIED", "CANCELLED"}
    /\ e.content \in Contents /\ e.localId \in Rows \cup {NoRow}
    /\ e.type = "MODIFIED" => e.content \in Stamps

ServerData ==
    /\ \A i \in Instances : InstanceData(remote[i])
    /\ plain \in [Rows -> Contents]

ListData ==
    /\ \A i \in DOMAIN fetch.instances : InstanceData(fetch.instances[i])
    /\ DOMAIN fetch.plain \subseteq Rows
    /\ \A p \in DOMAIN fetch.plain : fetch.plain[p] \in Stamps

PassData ==
    /\ pass.at \in {"idle", "read", "answered", "written", "overrides", "sent", "accepted", "linked"}
    /\ pass.at \notin {"sent", "accepted", "linked"} => pass.current = 0
    /\ DOMAIN pass.batch \subseteq Rows
    /\ \A r \in DOMAIN pass.batch : pass.batch[r] \in LiveRow
    /\ \A i \in DOMAIN pass.todo : pass.todo[i].replacement \in Rows \cup {NoRow}
    /\ pass.at = "sent" /\ pass.todo[pass.current].type = "MODIFIED" => pass.sent \in Stamps

HistoryData ==
    \A i \in Instances : owed[i].type \in {"NONE", "CANCELLED", "MODIFIED"} /\ owed[i].content \in Contents

CounterData == clock \in Contents /\ faults \in 0..MaxFaults /\ masterPending \in BOOLEAN

DataInv ==
    RowInv /\ OverrideInv /\ ServerData /\ ListData /\ PassData /\ HistoryData /\ CounterData

(* What the table's rows are made of. *)
LEMMA RowMade ==
    /\ \A l \in Links, c \in Stamps, s \in States : [content |-> c, link |-> l, syncStatus |-> s] \in LiveRow
    /\ \A l \in Links, c \in Stamps : Synced(l, c) \in LiveRow
    /\ Gone \notin LiveRow
    /\ \A i \in Instances : <<"replacement", i>> \in Links
    /\ \A i \in Instances : <<"instance", i>> \in Links
    /\ \A p \in Rows : <<"own", p>> \in Links
    /\ \A p : Gone.link # <<"own", p>>
    /\ \A p, i : <<"replacement", i>> # <<"own", p>> /\ <<"instance", i>> # <<"own", p>>
    /\ \A p, q : <<"own", p>> = <<"own", q>> => p = q
<1>1. /\ \A l \in Links, c \in Stamps, s \in States : [content |-> c, link |-> l, syncStatus |-> s] \in LiveRow
      /\ \A l \in Links, c \in Stamps : Synced(l, c) \in LiveRow
      /\ Gone \notin LiveRow
    BY DEF LiveRow, Synced, Gone, States
<1>2. /\ \A i \in Instances : <<"replacement", i>> \in Links
      /\ \A i \in Instances : <<"instance", i>> \in Links
      /\ \A p \in Rows : <<"own", p>> \in Links
    BY DEF Links
<1> QED
    BY <1>1, <1>2, LinksDiffer, GoneRow

(* One row is written. *)
LEMMA PutKeeps ==
    ASSUME Shapes, RowInv, NEW r \in Rows, NEW c \in Stamps, NEW l \in Links, NEW s \in States,
           row' = [row EXCEPT ![r] = [content |-> c, link |-> l, syncStatus |-> s]],
           Live(r) \/ \A q \in Rows : row[q].link # <<"own", r>>,
           \/ l = row[r].link
           \/ \A p : l # <<"own", p>>
           \/ \E p \in Rows : /\ l = <<"own", p>>
                              /\ p = r \/ ~Live(p)
                              /\ \A q \in Rows \ {r} : row[q].link # <<"own", p>>
    PROVE  RowInv'
<1>1. row = [q \in Rows |-> row[q]]
    BY DEF Shapes, RowShaped
<1>2. PICK x : x = [content |-> c, link |-> l, syncStatus |-> s]
    OBVIOUS
<1>3. x \in LiveRow /\ x.link = l /\ x # Gone
    BY <1>2, RowMade
<1>4. /\ row'[r] = x
      /\ \A q \in Rows : q # r => row'[q] = row[q]
    BY <1>1, <1>2
<1>5. \A q \in Rows : row'[q] = Gone \/ row'[q] \in LiveRow
    BY <1>3, <1>4 DEF RowInv
<1>6. \A q \in Rows : Live(q)' <=> q = r \/ Live(q)
    BY <1>3, <1>4 DEF Live
<1>7. ASSUME NEW p \in Rows, NEW q \in Rows, row'[q].link = <<"own", p>>
      PROVE  q = p \/ ~Live(p)'
  <2>1. CASE q = r
    <3>1. l = <<"own", p>>
        BY <1>3, <1>4, <1>7, <2>1
    <3>2. CASE l = row[r].link
        BY <1>6, <2>1, <3>1, <3>2 DEF RowInv, OwnInv
    <3>3. CASE l # row[r].link
        BY <1>6, <2>1, <3>1, <3>3, RowMade
    <3> QED
        BY <3>2, <3>3
  <2>2. CASE q # r
      BY <1>4, <1>6, <1>7, <2>2 DEF RowInv, OwnInv
  <2> QED
      BY <2>1, <2>2
<1>8. ASSUME NEW p \in Rows, NEW q \in Rows, NEW t \in Rows, row'[q].link = <<"own", p>>,
             row'[t].link = <<"own", p>>, q # t
      PROVE  FALSE
  <2>1. ASSUME NEW u \in Rows, u # r, row[u].link = <<"own", p>>, l = <<"own", p>>
        PROVE  FALSE
    <3>1. CASE l = row[r].link
        BY <2>1, <3>1 DEF RowInv, OwnInv
    <3>2. CASE l # row[r].link
        BY <2>1, <3>2, RowMade
    <3> QED
        BY <3>1, <3>2
  <2>2. CASE q = r
      BY <1>3, <1>4, <1>8, <2>1, <2>2
  <2>3. CASE t = r
      BY <1>3, <1>4, <1>8, <2>1, <2>3
  <2>4. CASE q # r /\ t # r
      BY <1>4, <1>8, <2>4 DEF RowInv, OwnInv
  <2> QED
      BY <2>2, <2>3, <2>4
<1> QED
    BY <1>5, <1>7, <1>8 DEF RowInv, OwnInv

(* Rows are deleted. *)
LEMMA GoneKeeps ==
    ASSUME Shapes, RowInv, NEW S, row' = RowsWithout(S)
    PROVE  RowInv'
<1>1. \A q \in Rows : row'[q] = IF q \in S THEN Gone ELSE row[q]
    BY DEF RowsWithout
<1>2. \A q \in Rows, p \in Rows : row'[q].link = <<"own", p>> => q \notin S /\ row'[q] = row[q]
    BY <1>1, RowMade
<1>3. \A q \in Rows : Live(q)' => Live(q)
    BY <1>1 DEF Live
<1>4. \A q \in Rows : row'[q] = Gone \/ row'[q] \in LiveRow
    BY <1>1 DEF RowInv
<1>5. ASSUME NEW p \in Rows, NEW q \in Rows, row'[q].link = <<"own", p>>
      PROVE  /\ q = p \/ ~Live(p)'
             /\ \A r \in Rows : row'[r].link = <<"own", p>> => r = q
    BY <1>2, <1>3, <1>5 DEF RowInv, OwnInv
<1> QED
    BY <1>4, <1>5 DEF RowInv, OwnInv

LEMMA SameRows == ASSUME RowInv, UNCHANGED row PROVE RowInv'
BY DEF RowInv, OwnInv, Live

(* A row nothing refers to. *)
LEMMA NewRowUnused ==
    ASSUME NEW r \in NewRow
    PROVE  r \in Rows /\ ~Live(r) /\ \A q \in Rows : row[q].link # <<"own", r>>
BY DEF NewRow, Unused

LEMMA WriteStamp == ASSUME CounterData, Writes PROVE clock' \in Stamps /\ clock' \in Contents
BY OverridesAssumption DEF CounterData, Writes, Contents, Stamps

LEMMA SameServer == ASSUME ServerData, UNCHANGED <<remote, plain>> PROVE ServerData'
BY DEF ServerData, InstanceData

LEMMA SameList == ASSUME ListData, UNCHANGED fetch PROVE ListData'
BY DEF ListData, InstanceData

LEMMA SamePass == ASSUME PassData, UNCHANGED pass PROVE PassData'
BY DEF PassData

LEMMA OwesData ==
    ASSUME Shapes, HistoryData, NEW i \in Instances, NEW type \in {"CANCELLED", "MODIFIED"}, Owes(i, type),
           clock' \in Contents
    PROVE  HistoryData'
<1>1. Nothing.type = "NONE" /\ Nothing.content = 0 /\ 0 \in Contents
    BY OverridesAssumption DEF Nothing, Contents
<1>2. ASSUME NEW j \in Instances
      PROVE  owed'[j].type \in {"NONE", "CANCELLED", "MODIFIED"} /\ owed'[j].content \in Contents
  <2>1. CASE j # i
      BY <2>1, OwesOne DEF HistoryData
  <2>2. CASE j = i /\ owed'[i] = Nothing
      BY <1>1, <2>2
  <2>3. CASE j = i /\ owed'[i] # Nothing
    <3>1. PICK c \in Contents : c = clock'
        OBVIOUS
    <3>2. owed'[i] = [type |-> type, content |-> c]
        BY <2>3, <3>1, OwesOne
    <3> QED
        BY <2>3, <3>2
  <2> QED
      BY <2>1, <2>2, <2>3
<1> QED
    BY <1>2 DEF HistoryData

(* What is owed becomes less. *)
LEMMA LessOwed ==
    ASSUME HistoryData, \A j \in Instances : owed'[j] = owed[j] \/ owed'[j] = Nothing
    PROVE  HistoryData'
<1>1. Nothing.type = "NONE" /\ Nothing.content = 0 /\ 0 \in Contents
    BY OverridesAssumption DEF Nothing, Contents
<1> QED
    BY <1>1 DEF HistoryData

LEMMA OverrideSet ==
    ASSUME Shapes, OverrideInv, NEW i \in Instances, NEW type \in {"CANCELLED", "MODIFIED"}, NEW r, NEW pending,
           override' = [override EXCEPT ![i] = Override(type, r, pending)]
    PROVE  OverrideInv'
<1>1. /\ override'[i].type = type
      /\ \A j \in Instances : j # i => override'[j] = override[j]
    BY DEF Shapes, Override
<1> QED
    BY <1>1 DEF OverrideInv

LEMMA OverridesLess ==
    ASSUME Shapes, Ties, OverrideInv, NEW S \in SUBSET Rows, override' = OverridesWithout(S)
    PROVE  OverrideInv'
BY OverridesWithoutRows DEF OverrideInv

LEMMA OverridesLessSet ==
    ASSUME Shapes, Ties, OverrideInv, NEW S \in SUBSET Rows, NEW i \in Instances, NEW pending,
           override' = [OverridesWithout(S) EXCEPT ![i] = Override("CANCELLED", NoRow, pending)]
    PROVE  OverrideInv'
<1>1. PICK o \in [Instances -> AnyOverride] : o = OverridesWithout(S)
    BY OverridesWithoutRows
<1>2. /\ override'[i].type = "CANCELLED"
      /\ \A j \in Instances : j # i => override'[j] = o[j]
    BY <1>1 DEF Override
<1>3. \A j \in Instances : o[j].type = "NONE" => o[j].replacement = NoRow
    BY <1>1, OverridesWithoutRows DEF OverrideInv
<1> QED
    BY <1>2, <1>3 DEF OverrideInv

-----------------------------------------------------------------------------
LEMMA ChangeOccurrenceData ==
    ASSUME IInv, DataInv, NEW i \in Instances, ChangeOccurrence(i)
    PROVE  DataInv'
<1>1. PICK r \in NewRow :
         /\ row' = [row EXCEPT ![r] = Synced(<<"replacement", i>>, clock')]
         /\ override' = [override EXCEPT ![i] = Override("MODIFIED", r, TRUE)]
    BY DEF ChangeOccurrence
<1>2. /\ Writes /\ Owes(i, "MODIFIED")
      /\ UNCHANGED <<masterPending, remote, plain, faults, pass, fetch>>
    BY DEF ChangeOccurrence
<1>3. clock' \in Stamps /\ clock' \in Contents
    BY <1>2, WriteStamp DEF DataInv
<1>4. RowInv'
    BY <1>1, <1>3, NewRowUnused, PutKeeps, RowMade DEF IInv, DataInv, Synced, States
<1>5. OverrideInv'
    BY <1>1, OverrideSet DEF IInv, DataInv
<1>6. HistoryData'
    BY <1>2, <1>3, OwesData DEF IInv, DataInv
<1>7. CounterData'
    BY <1>2, <1>3 DEF DataInv, CounterData
<1> QED
    BY <1>2, <1>4, <1>5, <1>6, <1>7, SameServer, SameList, SamePass DEF DataInv

LEMMA CancelOccurrenceData ==
    ASSUME IInv, DataInv, NEW i \in Instances, CancelOccurrence(i)
    PROVE  DataInv'
<1>1. /\ Writes /\ Owes(i, "CANCELLED") /\ override' = [override EXCEPT ![i] = Override("CANCELLED", NoRow, TRUE)]
      /\ UNCHANGED <<row, masterPending, remote, plain, faults, pass, fetch>>
    BY DEF CancelOccurrence
<1>2. clock' \in Contents
    BY <1>1, WriteStamp DEF DataInv
<1>3. OverrideInv' /\ HistoryData'
    BY <1>1, <1>2, OverrideSet, OwesData DEF IInv, DataInv
<1>4. CounterData'
    BY <1>1, <1>2 DEF DataInv, CounterData
<1> QED
    BY <1>1, <1>3, <1>4, SameRows, SameServer, SameList, SamePass DEF DataInv

LEMMA ChangeStoredData ==
    ASSUME IInv, DataInv, NEW i \in Instances, NEW r \in Rows, ChangeStored(i, r)
    PROVE  DataInv'
<1>1. PICK q \in RowsOfStored(i, r) :
         /\ row' = [row EXCEPT ![q] = Synced(<<"instance", i>>, clock')]
         /\ override' = [override EXCEPT ![i] = Override("MODIFIED", q, TRUE)]
    BY DEF ChangeStored
<1>2. /\ Writes /\ Owes(i, "MODIFIED")
      /\ UNCHANGED <<masterPending, remote, plain, faults, pass, fetch>>
    BY DEF ChangeStored
<1>3. clock' \in Stamps /\ clock' \in Contents
    BY <1>2, WriteStamp DEF DataInv
<1>4. q \in Rows /\ (Live(q) \/ \A p \in Rows : row[p].link # <<"own", q>>)
  <2>1. CASE Live(r) /\ q = r
      BY <2>1
  <2>2. CASE q \in Linked(i)
      BY <2>2, GoneRow DEF Linked, Live
  <2>3. CASE q \in NewRow
      BY <2>3, NewRowUnused
  <2> QED
      BY <2>1, <2>2, <2>3 DEF RowsOfStored
<1>5. RowInv'
    BY <1>1, <1>3, <1>4, PutKeeps, RowMade DEF IInv, DataInv, Synced, States
<1>6. OverrideInv' /\ HistoryData'
    BY <1>1, <1>2, <1>3, OverrideSet, OwesData DEF IInv, DataInv
<1>7. CounterData'
    BY <1>2, <1>3 DEF DataInv, CounterData
<1> QED
    BY <1>2, <1>5, <1>6, <1>7, SameServer, SameList, SamePass DEF DataInv

LEMMA ShowingData ==
    ASSUME DataInv,
           UNCHANGED <<row, override, masterPending, remote, plain, clock, faults, pass, fetch, owed>>
    PROVE  DataInv'
<1>1. OverrideInv' /\ HistoryData' /\ CounterData'
    BY DEF DataInv, OverrideInv, HistoryData, CounterData
<1> QED
    BY <1>1, SameRows, SameServer, SameList, SamePass DEF DataInv

LEMMA CancelStoredData ==
    ASSUME IInv, DataInv, NEW i \in Instances, NEW r \in Rows, CancelStored(i, r)
    PROVE  DataInv'
<1>1. /\ Writes /\ Owes(i, "CANCELLED") /\ row' = RowsWithout({r})
      /\ override' = [OverridesWithout({r}) EXCEPT ![i] = Override("CANCELLED", NoRow, TRUE)]
      /\ UNCHANGED <<masterPending, remote, plain, faults, pass, fetch>>
    BY DEF CancelStored
<1>2. clock' \in Contents
    BY <1>1, WriteStamp DEF DataInv
<1>3. RowInv' /\ HistoryData'
    BY <1>1, <1>2, GoneKeeps, OwesData DEF IInv, DataInv
<1>4. OverrideInv'
    BY <1>1, OverridesLessSet DEF IInv, DataInv
<1>5. CounterData'
    BY <1>1, <1>2 DEF DataInv, CounterData
<1> QED
    BY <1>1, <1>3, <1>4, <1>5, SameServer, SameList, SamePass DEF DataInv

LEMMA LiveRows == ASSUME DataInv, NEW r \in Rows, Live(r) PROVE row[r] \in LiveRow
BY DEF DataInv, RowInv, Live

LEMMA LiveRowParts ==
    ASSUME NEW x \in LiveRow
    PROVE  /\ x.content \in Stamps /\ x.link \in Links /\ x.syncStatus \in States
           /\ x = [content |-> x.content, link |-> x.link, syncStatus |-> x.syncStatus]
BY DEF LiveRow

LEMMA NoLongerOwed == ASSUME HistoryData, NEW r, NoLonger(r) PROVE HistoryData'
<1>1. \A j \in Instances : owed'[j] = owed[j] \/ owed'[j] = Nothing
    BY DEF NoLonger
<1> QED
    BY <1>1, LessOwed

LEMMA SaveOwnData ==
    ASSUME IInv, DataInv, NEW r \in Rows, SaveOwn(r)
    PROVE  DataInv'
<1>1. /\ Writes /\ NoLonger(r) /\ Live(r)
      /\ UNCHANGED <<override, masterPending, remote, plain, faults, pass, fetch>>
    BY DEF SaveOwn, Own
<1>2. clock' \in Stamps /\ clock' \in Contents
    BY <1>1, WriteStamp DEF DataInv
<1>3. PICK s \in {"PENDING_INSERT", "PENDING_UPDATE"} :
         row' = [row EXCEPT ![r] = [content |-> clock', link |-> row[r].link, syncStatus |-> s]]
    BY DEF SaveOwn, IInv, Shapes, RowShaped
<1>4. row[r].link \in Links
    BY <1>1, LiveRows, LiveRowParts
<1>5. RowInv'
    BY <1>1, <1>2, <1>3, <1>4, PutKeeps DEF IInv, DataInv, States
<1>6. HistoryData'
    BY <1>1, NoLongerOwed DEF DataInv
<1>7. OverrideInv' /\ CounterData'
    BY <1>1, <1>2 DEF DataInv, OverrideInv, CounterData
<1> QED
    BY <1>1, <1>5, <1>6, <1>7, SameServer, SameList, SamePass DEF DataInv

LEMMA DeleteOwnData ==
    ASSUME IInv, DataInv, NEW r \in Rows, DeleteOwn(r)
    PROVE  DataInv'
<1>1. /\ NoLonger(r) /\ Live(r)
      /\ UNCHANGED <<masterPending, remote, plain, clock, faults, pass, fetch>>
    BY DEF DeleteOwn, Own
<1>2. RowInv' /\ OverrideInv'
  <2>1. CASE row' = RowsWithout({r}) /\ override' = OverridesWithout({r})
      BY <2>1, GoneKeeps, OverridesLess DEF IInv, DataInv
  <2>2. CASE row' = [row EXCEPT ![r].syncStatus = "PENDING_DELETE"] /\ UNCHANGED override
    <3>1. PICK x \in LiveRow : x = row[r]
        BY <1>1, LiveRows
    <3>2. row' = [row EXCEPT ![r] = [content |-> x.content, link |-> x.link, syncStatus |-> "PENDING_DELETE"]]
      <4>1. row' = [row EXCEPT ![r] = [x EXCEPT !.syncStatus = "PENDING_DELETE"]]
          BY <2>2, <3>1
      <4>2. [x EXCEPT !.syncStatus = "PENDING_DELETE"]
               = [content |-> x.content, link |-> x.link, syncStatus |-> "PENDING_DELETE"]
          BY DEF LiveRow
      <4> QED
          BY <4>1, <4>2
    <3>3. RowInv'
        BY <1>1, <3>1, <3>2, LiveRowParts, PutKeeps DEF IInv, DataInv, States
    <3> QED
        BY <2>2, <3>3 DEF DataInv, OverrideInv
  <2> QED
      BY <2>1, <2>2 DEF DeleteOwn
<1>3. HistoryData'
    BY <1>1, NoLongerOwed DEF DataInv
<1>4. CounterData'
    BY <1>1 DEF DataInv, CounterData
<1> QED
    BY <1>1, <1>2, <1>3, <1>4, SameServer, SameList, SamePass DEF DataInv

LEMMA EditSeriesData ==
    ASSUME IInv, DataInv, EditSeries
    PROVE  DataInv'
<1> DEFINE stored == UNION {Linked(i) : i \in Instances}
<1>1. /\ row' = RowsWithout(stored) /\ override' = OverridesWithout(stored) /\ masterPending' = TRUE
      /\ pass' = [pass EXCEPT !.master = FALSE]
      /\ owed' = [i \in Instances |-> IF override[i].replacement \in stored THEN Nothing ELSE owed[i]]
      /\ UNCHANGED <<remote, plain, clock, faults, fetch>>
    BY DEF EditSeries
<1>2. stored \in SUBSET Rows
    BY DEF Linked
<1> HIDE DEF stored
<1>3. RowInv' /\ OverrideInv'
    BY <1>1, <1>2, GoneKeeps, OverridesLess DEF IInv, DataInv
<1>4. HistoryData'
    BY <1>1, LessOwed DEF DataInv
<1>5. PassData'
  <2>1. /\ pass'.at = pass.at /\ pass'.batch = pass.batch /\ pass'.todo = pass.todo
        /\ pass'.current = pass.current /\ pass'.sent = pass.sent
      BY <1>1 DEF IInv, Shapes
  <2> QED
      BY <2>1 DEF DataInv, PassData
<1>6. CounterData'
    BY <1>1 DEF DataInv, CounterData
<1> QED
    BY <1>1, <1>3, <1>4, <1>5, <1>6, SameServer, SameList DEF DataInv

LEMMA UserData == IInv /\ DataInv /\ UserNext => DataInv'
BY ShowingData, ChangeOccurrenceData, CancelOccurrenceData, ChangeStoredData, CancelStoredData,
   SaveOwnData, DeleteOwnData, EditSeriesData
DEF UserNext, ShowComputed, ShowStored

-----------------------------------------------------------------------------
(* The pass reads nothing new from the overrides. *)
LEMMA EmptyPass ==
    /\ NoPass.current = 0 /\ NoPass.at = "idle"
    /\ DOMAIN NoPass.batch = {} /\ DOMAIN NoPass.todo = {}
BY DEF NoPass

LEMMA WithoutData ==
    ASSUME PassData, NEW i, pass' = Without(i)
    PROVE  PassData'
<1>1. pass'.current = 0 /\ DOMAIN pass'.batch = {}
  <2>1. CASE DOMAIN pass.todo \ {i} = {}
      BY <2>1, EmptyPass DEF Without
  <2>2. CASE DOMAIN pass.todo \ {i} # {}
      BY <2>2, EmptyPass DEF Without, NoPass
  <2> QED
      BY <2>1, <2>2
<1> QED
    BY <1>1, WithoutOne DEF PassData

LEMMA ReadPendingData ==
    ASSUME IInv, DataInv, ReadPending
    PROVE  DataInv'
<1>1. UNCHANGED <<row, override, masterPending, remote, plain, clock, faults, fetch, owed>>
    BY DEF ReadPending
<1>2. /\ pass'.at = "read" /\ pass'.batch = [r \in PendingRows |-> row[r]] /\ pass'.current = 0
      /\ DOMAIN pass'.todo = {}
    BY DEF ReadPending, NoPass
<1>3. PassData'
  <2>1. \A r \in PendingRows : r \in Rows /\ row[r] \in LiveRow
      BY LiveRows DEF PendingRows
  <2> QED
      BY <1>2, <2>1 DEF PassData
<1>4. OverrideInv' /\ HistoryData' /\ CounterData'
    BY <1>1 DEF DataInv, OverrideInv, HistoryData, CounterData
<1> QED
    BY <1>1, <1>3, <1>4, SameRows, SameServer, SameList DEF DataInv

LEMMA ServerTakesBatchData ==
    ASSUME IInv, DataInv, ServerTakesBatch
    PROVE  DataInv'
<1>1. /\ UNCHANGED <<row, override, masterPending, remote, clock, faults, fetch, owed>>
      /\ pass.at = "read" /\ pass' = [pass EXCEPT !.at = "answered"]
    BY DEF ServerTakesBatch
<1>2. PassData'
  <2>1. /\ pass'.at = "answered" /\ pass'.batch = pass.batch /\ pass'.todo = pass.todo
        /\ pass'.current = pass.current /\ pass'.sent = pass.sent
      BY <1>1 DEF IInv, Shapes
  <2> QED
      BY <1>1, <2>1 DEF DataInv, PassData
<1>3. \A r \in DOMAIN pass.batch : pass.batch[r].content \in Contents
  <2>1. \A r \in DOMAIN pass.batch : pass.batch[r] \in LiveRow
      BY DEF DataInv, PassData
  <2>2. Stamps \subseteq Contents
      BY OverridesAssumption DEF Stamps, Contents
  <2> QED
      BY <2>1, <2>2, LiveRowParts
<1>4. plain' \in [Rows -> Contents]
  <2> DEFINE of(p) == {r \in DOMAIN pass.batch : pass.batch[r].link = <<"own", p>>}
             Made(p) == IF p \in DOMAIN pass.batch /\ pass.batch[p].syncStatus = "PENDING_INSERT"
                        THEN pass.batch[p].content
                        ELSE IF of(p) = {} THEN plain[p]
                        ELSE LET r == CHOOSE r \in of(p) : TRUE
                             IN  IF pass.batch[r].syncStatus = "PENDING_DELETE" THEN NoEvent ELSE pass.batch[r].content
  <2>1. plain' = [p \in Rows |-> Made(p)]
      BY DEF ServerTakesBatch
  <2>2. ASSUME NEW p \in Rows PROVE Made(p) \in Contents
    <3>1. CASE p \in DOMAIN pass.batch /\ pass.batch[p].syncStatus = "PENDING_INSERT"
        BY <1>3, <3>1
    <3>2. CASE ~(p \in DOMAIN pass.batch /\ pass.batch[p].syncStatus = "PENDING_INSERT") /\ of(p) = {}
        BY <3>2 DEF DataInv, ServerData
    <3>3. CASE ~(p \in DOMAIN pass.batch /\ pass.batch[p].syncStatus = "PENDING_INSERT") /\ of(p) # {}
      <4>1. PICK x : x = CHOOSE r \in of(p) : TRUE
          OBVIOUS
      <4>2. x \in DOMAIN pass.batch
          BY <3>3, <4>1
      <4>3. Made(p) = IF pass.batch[x].syncStatus = "PENDING_DELETE" THEN NoEvent ELSE pass.batch[x].content
          BY <3>3, <4>1
      <4>4. NoEvent \in Contents
          BY OverridesAssumption DEF NoEvent, Contents
      <4> HIDE DEF Made
      <4> QED
          BY <1>3, <4>2, <4>3, <4>4
    <3> QED
        BY <3>1, <3>2, <3>3
  <2> HIDE DEF Made
  <2> QED
      BY <2>1, <2>2
<1>5. ServerData'
    BY <1>1, <1>4 DEF DataInv, ServerData, InstanceData
<1>6. OverrideInv' /\ HistoryData' /\ CounterData'
    BY <1>1 DEF DataInv, OverrideInv, HistoryData, CounterData
<1> QED
    BY <1>1, <1>2, <1>5, <1>6, SameRows, SameList DEF DataInv

LEMMA WriteResultsData ==
    ASSUME IInv, DataInv, WriteResults
    PROVE  DataInv'
<1> DEFINE same == {r \in DOMAIN pass.batch : row[r] = pass.batch[r]}
           deleted == {r \in same : row[r].syncStatus = "PENDING_DELETE"}
           link(r) == IF row[r].syncStatus = "PENDING_INSERT" THEN <<"own", r>> ELSE row[r].link
<1>1. /\ row' = [r \in Rows |-> IF r \in deleted THEN Gone
                                ELSE IF r \in same THEN Synced(link(r), row[r].content) ELSE row[r]]
      /\ override' = OverridesWithout(deleted)
      /\ masterPending' = (masterPending /\ ~pass.master)
      /\ pass' = [NoPass EXCEPT !.at = "written"]
      /\ UNCHANGED <<remote, plain, clock, faults, fetch, owed>>
    BY DEF WriteResults
<1>2. deleted \in SUBSET Rows /\ \A r \in same : r \in Rows /\ row[r] \in LiveRow
    BY DEF DataInv, PassData
<1>3. \A r \in same : link(r) \in Links
    BY <1>2, RowMade, LiveRowParts
<1>4. ASSUME NEW r \in Rows
      PROVE  \/ row'[r] = Gone
             \/ row'[r] = row[r]
             \/ r \in same /\ row'[r] = Synced(link(r), row[r].content)
    BY <1>1
<1>5. OverrideInv'
    BY <1>1, <1>2, OverridesLess DEF IInv, DataInv
<1> HIDE DEF deleted, link, same
<1>6. ASSUME NEW r \in Rows
      PROVE  /\ row'[r] = Gone \/ row'[r] \in LiveRow
             /\ Live(r)' => Live(r)
             /\ \A p \in Rows : row'[r].link = <<"own", p>> => row[r].link = <<"own", p>> \/ (p = r /\ Live(r))
  <2>1. CASE row'[r] = Gone
      BY <2>1, RowMade DEF Live
  <2>2. CASE row'[r] = row[r]
      BY <2>2 DEF Live, DataInv, RowInv
  <2>3. CASE r \in same /\ row'[r] = Synced(link(r), row[r].content)
    <3>1. row[r] \in LiveRow /\ Live(r) /\ link(r) \in Links
        BY <1>2, <1>3, <2>3, RowMade DEF Live
    <3>2. row'[r] \in LiveRow /\ row'[r].link = link(r)
        BY <2>3, <3>1, LiveRowParts, RowMade, SyncedRow
    <3>3. link(r) = <<"own", r>> \/ link(r) = row[r].link
        BY DEF link
    <3> QED
        BY <3>1, <3>2, <3>3, RowMade
  <2> QED
      BY <1>4, <2>1, <2>2, <2>3
<1>7. RowInv'
  <2>1. ASSUME NEW p \in Rows, NEW q \in Rows, row'[q].link = <<"own", p>>
        PROVE  q = p \/ ~Live(p)'
      BY <1>6, <2>1 DEF DataInv, RowInv, OwnInv
  <2>2. ASSUME NEW p \in Rows, NEW q \in Rows, NEW r \in Rows,
               row'[q].link = <<"own", p>>, row'[r].link = <<"own", p>>
        PROVE  r = q
    <3>1. row[q].link = <<"own", p>> \/ (p = q /\ Live(q))
        BY <1>6, <2>2
    <3>2. row[r].link = <<"own", p>> \/ (p = r /\ Live(r))
        BY <1>6, <2>2
    <3> QED
        BY <3>1, <3>2 DEF DataInv, RowInv, OwnInv
  <2> QED
      BY <1>6, <2>1, <2>2 DEF RowInv, OwnInv
<1>8. PassData'
  <2>1. pass'.at = "written" /\ pass'.current = 0 /\ DOMAIN pass'.batch = {} /\ DOMAIN pass'.todo = {}
      BY <1>1 DEF NoPass
  <2> QED
      BY <2>1 DEF PassData
<1>9. HistoryData' /\ CounterData'
    BY <1>1 DEF DataInv, HistoryData, CounterData
<1> QED
    BY <1>1, <1>5, <1>7, <1>8, <1>9, SameServer, SameList DEF DataInv

LEMMA ReadOverridesData ==
    ASSUME IInv, DataInv, ReadOverrides
    PROVE  DataInv'
<1>1. UNCHANGED <<row, override, masterPending, remote, plain, clock, faults, fetch, owed>>
    BY DEF ReadOverrides
<1> DEFINE waiting == {i \in Instances : override[i].pending}
<1>2. \/ pass' = NoPass
      \/ pass' = [NoPass EXCEPT !.at = "overrides", !.todo = [i \in waiting |-> override[i]]]
    BY DEF ReadOverrides
<1>3. PassData'
  <2>1. CASE pass' = NoPass
      BY <2>1, EmptyPass DEF PassData
  <2>2. CASE pass' = [NoPass EXCEPT !.at = "overrides", !.todo = [i \in waiting |-> override[i]]]
    <3>1. /\ pass'.at = "overrides" /\ pass'.current = 0 /\ DOMAIN pass'.batch = {}
          /\ pass'.todo = [i \in waiting |-> override[i]]
        BY <2>2 DEF NoPass
    <3>2. \A i \in Instances : override[i].replacement \in Rows \cup {NoRow}
        BY DEF IInv, Shapes, AnyOverride
    <3> QED
        BY <3>1, <3>2 DEF PassData
  <2> QED
      BY <1>2, <2>1, <2>2
<1>4. OverrideInv' /\ HistoryData' /\ CounterData'
    BY <1>1 DEF DataInv, OverrideInv, HistoryData, CounterData
<1> QED
    BY <1>1, <1>3, <1>4, SameRows, SameServer, SameList DEF DataInv

LEMMA SendOverrideData ==
    ASSUME IInv, DataInv, NEW i \in Instances, SendOverride(i)
    PROVE  DataInv'
<1>1. /\ UNCHANGED <<row, override, masterPending, remote, plain, clock, faults, fetch, owed>>
      /\ i \in DOMAIN pass.todo /\ Sendable(pass.todo[i])
      /\ pass' = [pass EXCEPT !.at = "sent", !.current = i,
             !.sent = IF pass.todo[i].type = "CANCELLED" THEN 0 ELSE row[pass.todo[i].replacement].content]
    BY DEF SendOverride, IsNext
<1>2. /\ pass'.at = "sent" /\ pass'.current = i /\ pass'.batch = pass.batch /\ pass'.todo = pass.todo
      /\ pass'.sent = IF pass.todo[i].type = "CANCELLED" THEN 0 ELSE row[pass.todo[i].replacement].content
    BY <1>1 DEF IInv, Shapes
<1>3. pass.todo[i].type = "MODIFIED" => pass'.sent \in Stamps
  <2> SUFFICES ASSUME pass.todo[i].type = "MODIFIED" PROVE pass'.sent \in Stamps
      OBVIOUS
  <2>1. PICK r : r = pass.todo[i].replacement
      OBVIOUS
  <2>2. r \in Rows /\ Live(r)
      BY <1>1, <2>1 DEF Sendable, Live
  <2> QED
      BY <1>2, <2>1, <2>2, LiveRows, LiveRowParts
<1>4. PassData'
    BY <1>2, <1>3 DEF DataInv, PassData
<1>5. OverrideInv' /\ HistoryData' /\ CounterData'
    BY <1>1 DEF DataInv, OverrideInv, HistoryData, CounterData
<1> QED
    BY <1>1, <1>4, <1>5, SameRows, SameServer, SameList DEF DataInv

LEMMA FaultCounted ==
    ASSUME CounterData, UNCHANGED <<clock, masterPending>>,
           UNCHANGED faults \/ (faults < MaxFaults /\ faults' = faults + 1)
    PROVE  CounterData'
BY OverridesAssumption DEF CounterData

LEMMA NotSentData ==
    ASSUME IInv, DataInv, NEW i \in Instances, NotSent(i)
    PROVE  DataInv'
<1>1. /\ UNCHANGED <<row, override, masterPending, remote, plain, clock, fetch, owed>>
      /\ pass' = Without(i) /\ (UNCHANGED faults \/ (faults < MaxFaults /\ faults' = faults + 1))
    BY DEF NotSent
<1>2. OverrideInv' /\ HistoryData' /\ CounterData' /\ PassData'
    BY <1>1, FaultCounted, WithoutData DEF DataInv, OverrideInv, HistoryData
<1> QED
    BY <1>1, <1>2, SameRows, SameServer, SameList DEF DataInv

LEMMA ReceivedData ==
    ASSUME IInv, DataInv, pass.at = "sent", Received, UNCHANGED plain
    PROVE  ServerData' /\ HistoryData'
<1>1. PICK i \in Instances : i = pass.current
    BY DEF IInv, PassInv
<1>2. PICK o : o = pass.todo[i]
    OBVIOUS
<1>3. /\ i \in DOMAIN pass.todo /\ o.replacement \in Rows \cup {NoRow} /\ o.type \in {"CANCELLED", "MODIFIED"}
      /\ o.type = "MODIFIED" => pass.sent \in Stamps
    BY <1>1, <1>2 DEF IInv, PassInv, DataInv, PassData
<1>4. /\ remote' = [remote EXCEPT ![i] =
              IF o.type = "CANCELLED" THEN [type |-> "CANCELLED", content |-> 0, localId |-> remote[i].localId]
              ELSE [type |-> "MODIFIED", content |-> pass.sent, localId |-> o.replacement]]
      /\ \A j \in Instances : owed'[j] = owed[j] \/ owed'[j] = Nothing
  <2>1. remote = [j \in Instances |-> remote[j]] /\ owed = [j \in Instances |-> owed[j]]
      BY DEF IInv, Shapes
  <2> QED
      BY <1>1, <1>2, <2>1 DEF Received
<1>5. ASSUME NEW j \in Instances PROVE InstanceData(remote'[j])
  <2>1. CASE j # i
      BY <1>4, <2>1 DEF DataInv, ServerData, IInv, Shapes
  <2>2. CASE j = i /\ o.type = "CANCELLED"
    <3>1. remote'[i] = [type |-> "CANCELLED", content |-> 0, localId |-> remote[i].localId]
        BY <1>4, <2>2 DEF IInv, Shapes
    <3> QED
        BY <2>2, <3>1, OverridesAssumption DEF DataInv, ServerData, InstanceData, Contents
  <2>3. CASE j = i /\ o.type = "MODIFIED"
    <3>1. remote'[i] = [type |-> "MODIFIED", content |-> pass.sent, localId |-> o.replacement]
        BY <1>4, <2>3 DEF IInv, Shapes
    <3>2. pass.sent \in Contents /\ pass.sent \in Stamps
        BY <1>3, <2>3, OverridesAssumption DEF Contents, Stamps
    <3> QED
        BY <1>3, <2>3, <3>1, <3>2 DEF InstanceData
  <2> QED
      BY <1>3, <2>1, <2>2, <2>3
<1> QED
    BY <1>4, <1>5, LessOwed DEF DataInv, ServerData

LEMMA ServerAcceptsData ==
    ASSUME IInv, DataInv, ServerAccepts
    PROVE  DataInv'
<1>1. /\ pass.at = "sent" /\ Received /\ pass' = [pass EXCEPT !.at = "accepted"]
      /\ UNCHANGED <<row, override, masterPending, plain, clock, faults, fetch>>
    BY DEF ServerAccepts
<1>2. PassData'
  <2>1. /\ pass'.at = "accepted" /\ pass'.batch = pass.batch /\ pass'.todo = pass.todo
        /\ pass'.current = pass.current /\ pass'.sent = pass.sent
      BY <1>1 DEF IInv, Shapes
  <2> QED
      BY <1>1, <2>1 DEF DataInv, PassData
<1>3. OverrideInv' /\ CounterData'
    BY <1>1 DEF DataInv, OverrideInv, CounterData
<1> QED
    BY <1>1, <1>2, <1>3, ReceivedData, SameRows, SameList DEF DataInv

LEMMA ServerMissesInstanceData ==
    ASSUME IInv, DataInv, ServerMissesInstance
    PROVE  DataInv'
<1>1. /\ pass.at = "sent" /\ pass' = [pass EXCEPT !.at = "accepted"]
      /\ faults < MaxFaults /\ faults' = faults + 1
      /\ owed' = [owed EXCEPT ![pass.current] = Nothing]
      /\ UNCHANGED <<row, override, masterPending, remote, plain, clock, fetch>>
    BY DEF ServerMissesInstance
<1>2. PassData'
  <2>1. /\ pass'.at = "accepted" /\ pass'.batch = pass.batch /\ pass'.todo = pass.todo
        /\ pass'.current = pass.current /\ pass'.sent = pass.sent
      BY <1>1 DEF IInv, Shapes
  <2> QED
      BY <1>1, <2>1 DEF DataInv, PassData
<1>3. HistoryData'
  <2>1. \A j \in Instances : owed'[j] = owed[j] \/ owed'[j] = Nothing
      BY <1>1 DEF IInv, Shapes
  <2> QED
      BY <2>1, LessOwed DEF DataInv
<1>4. OverrideInv' /\ CounterData'
    BY <1>1, FaultCounted DEF DataInv, OverrideInv
<1> QED
    BY <1>1, <1>2, <1>3, <1>4, SameRows, SameServer, SameList DEF DataInv

LEMMA ServerRejectsData ==
    ASSUME IInv, DataInv, ServerRejects
    PROVE  DataInv'
<1>1. /\ pass.at = "sent" /\ (Received \/ UNCHANGED <<remote, owed>>) /\ pass' = Without(pass.current)
      /\ faults < MaxFaults /\ faults' = faults + 1
      /\ UNCHANGED <<row, override, masterPending, plain, clock, fetch>>
    BY DEF ServerRejects
<1>2. ServerData' /\ HistoryData'
  <2>1. CASE Received
      BY <1>1, <2>1, ReceivedData
  <2>2. CASE UNCHANGED <<remote, owed>>
      BY <1>1, <2>2, SameServer DEF DataInv, HistoryData
  <2> QED
      BY <1>1, <2>1, <2>2
<1>3. OverrideInv' /\ CounterData' /\ PassData'
    BY <1>1, WithoutData, FaultCounted DEF DataInv, OverrideInv
<1> QED
    BY <1>1, <1>2, <1>3, SameRows, SameList DEF DataInv

LEMMA LinkReplacementData ==
    ASSUME IInv, DataInv, LinkReplacement
    PROVE  DataInv'
<1>1. PICK i \in Instances : i = pass.current
    BY DEF IInv, PassInv, LinkReplacement
<1>2. PICK r : r = pass.todo[i].replacement
    OBVIOUS
<1>3. /\ pass.at = "accepted" /\ pass' = [pass EXCEPT !.at = "linked"]
      /\ UNCHANGED <<override, masterPending, remote, plain, clock, faults, fetch, owed>>
    BY DEF LinkReplacement
<1>4. RowInv'
  <2>1. CASE Live(r)
    <3>1. r \in Rows /\ row' = [row EXCEPT ![r] = Synced(<<"instance", i>>, row[r].content)]
        BY <1>1, <1>2, <2>1 DEF LinkReplacement, Live, IInv, Shapes, RowShaped
    <3>2. row[r].content \in Stamps
        BY <2>1, <3>1, LiveRows, LiveRowParts
    <3> QED
        BY <2>1, <3>1, <3>2, RowMade, PutKeeps DEF IInv, DataInv, Synced, States
  <2>2. CASE ~Live(r)
      BY <1>1, <1>2, <2>2, SameRows DEF LinkReplacement, DataInv
  <2> QED
      BY <2>1, <2>2
<1>5. PassData'
  <2>1. /\ pass'.at = "linked" /\ pass'.batch = pass.batch /\ pass'.todo = pass.todo
        /\ pass'.current = pass.current /\ pass'.sent = pass.sent
      BY <1>3 DEF IInv, Shapes
  <2> QED
      BY <1>3, <2>1 DEF DataInv, PassData
<1>6. OverrideInv' /\ HistoryData' /\ CounterData'
    BY <1>3 DEF DataInv, OverrideInv, HistoryData, CounterData
<1> QED
    BY <1>3, <1>4, <1>5, <1>6, SameServer, SameList DEF DataInv

LEMMA LinkThrowsData ==
    ASSUME IInv, DataInv, LinkThrows
    PROVE  DataInv'
<1>1. UNCHANGED <<row, override, masterPending, remote, plain, clock, faults, fetch, owed>> /\ pass' = NoPass
    BY DEF LinkThrows
<1>2. OverrideInv' /\ HistoryData' /\ CounterData' /\ PassData'
    BY <1>1, EmptyPass DEF DataInv, OverrideInv, HistoryData, CounterData, PassData
<1> QED
    BY <1>1, <1>2, SameRows, SameServer, SameList DEF DataInv

LEMMA MarkData ==
    ASSUME IInv, DataInv, MarkRecurrenceOverrideSynced
    PROVE  DataInv'
<1>1. /\ UNCHANGED <<row, masterPending, remote, plain, clock, faults, fetch, owed>> /\ pass' = Without(pass.current)
      /\ override' = [override EXCEPT ![pass.current].pending = FALSE]
    BY DEF MarkRecurrenceOverrideSynced
<1>2. OverrideInv'
  <2>1. \A j \in Instances : override'[j].type = override[j].type /\ override'[j].replacement = override[j].replacement
      BY <1>1 DEF IInv, Shapes, AnyOverride
  <2> QED
      BY <2>1 DEF DataInv, OverrideInv
<1>3. HistoryData' /\ CounterData' /\ PassData'
    BY <1>1, WithoutData DEF DataInv, HistoryData, CounterData
<1> QED
    BY <1>1, <1>2, <1>3, SameRows, SameServer, SameList DEF DataInv

LEMMA PassStepData == IInv /\ DataInv /\ (ReadPending \/ PassStep) => DataInv'
BY ReadPendingData, ServerTakesBatchData, WriteResultsData, ReadOverridesData, SendOverrideData, NotSentData,
   ServerAcceptsData, ServerMissesInstanceData, ServerRejectsData, LinkReplacementData, LinkThrowsData, MarkData
DEF PassStep

-----------------------------------------------------------------------------
LEMMA FetchListsData ==
    ASSUME IInv, DataInv, FetchLists
    PROVE  DataInv'
<1>1. /\ UNCHANGED <<row, override, masterPending, remote, plain, clock, faults, pass, owed>>
      /\ fetch' = [instances |-> [i \in {j \in Instances : remote[j] # AsRuled} |-> remote[i]],
                   plain |-> [p \in {q \in Rows : plain[q] # NoEvent} |-> plain[p]]]
    BY DEF FetchLists
<1>2. /\ fetch'.instances = [i \in {j \in Instances : remote[j] # AsRuled} |-> remote[i]]
      /\ fetch'.plain = [p \in {q \in Rows : plain[q] # NoEvent} |-> plain[p]]
    BY <1>1
<1>3. \A q \in Rows : plain[q] # NoEvent => plain[q] \in Stamps
  <2>1. \A q \in Rows : plain[q] \in Contents
      BY DEF DataInv, ServerData
  <2> QED
      BY <2>1, OverridesAssumption DEF Contents, Stamps, NoEvent
<1>4. ListData'
  <2>1. \A i \in Instances : InstanceData(remote[i])
      BY DEF DataInv, ServerData
  <2>2. \A i \in DOMAIN fetch'.instances : InstanceData(fetch'.instances[i])
      BY <1>2, <2>1
  <2> QED
      BY <1>2, <1>3, <2>2 DEF ListData
<1>5. OverrideInv' /\ HistoryData' /\ CounterData'
    BY <1>1 DEF DataInv, OverrideInv, HistoryData, CounterData
<1> QED
    BY <1>1, <1>4, <1>5, SameRows, SameServer, SamePass DEF DataInv

(* An item is stored. *)
LEMMA StoredData ==
    ASSUME Shapes, ListData, NEW i, Stored(i)
    PROVE  ListData'
<1>1. fetch'.plain = fetch.plain
    BY DEF Shapes, Stored
<1>2. \A j \in DOMAIN fetch'.instances : InstanceData(fetch'.instances[j])
    BY StoredOne DEF ListData
<1> QED
    BY <1>1, <1>2 DEF ListData

LEMMA OverwrittenData == ASSUME Shapes, HistoryData, NEW i, Overwritten(i) PROVE HistoryData'
<1>1. \A j \in Instances : owed'[j] = owed[j] \/ owed'[j] = Nothing
    BY DEF Overwritten, Shapes
<1> QED
    BY <1>1, LessOwed

LEMMA PersistExceptionData ==
    ASSUME IInv, DataInv, NEW i \in Instances, PersistException(i)
    PROVE  DataInv'
<1>1. /\ i \in DOMAIN fetch.instances /\ fetch.instances[i].type = "MODIFIED"
      /\ Overwritten(i) /\ Stored(i)
      /\ UNCHANGED <<masterPending, remote, plain, clock, faults, pass>>
    BY DEF PersistException
<1>2. PICK r \in Targets(i) : row' = [row EXCEPT ![r] = Synced(<<"instance", i>>, fetch.instances[i].content)]
    BY DEF PersistException
<1>3. r \in Rows /\ (Live(r) \/ \A q \in Rows : row[q].link # <<"own", r>>)
  <2>1. CASE r \in Linked(i)
      BY <2>1, GoneRow DEF Linked, Live
  <2>2. CASE Live(r)
      BY <2>2 DEF Live
  <2>3. CASE r \in NewRow
      BY <2>3, NewRowUnused
  <2> QED
      BY <1>2, <2>1, <2>2, <2>3 DEF Targets
<1>4. PICK c \in Stamps : c = fetch.instances[i].content
    BY <1>1 DEF DataInv, ListData, InstanceData
<1>5. RowInv'
    BY <1>2, <1>3, <1>4, RowMade, PutKeeps DEF IInv, DataInv, Synced, States
<1>6. OverrideInv'
  <2>1. PICK q \in Rows : override' = [override EXCEPT ![i] = Override("MODIFIED", q, FALSE)]
      BY DEF PersistException, ExceptionOverride
  <2> QED
      BY <2>1, OverrideSet DEF IInv, DataInv
<1>7. CounterData'
    BY <1>1 DEF DataInv, CounterData
<1> QED
    BY <1>1, <1>5, <1>6, <1>7, StoredData, OverwrittenData, SameServer, SamePass DEF IInv, DataInv

LEMMA PersistCancelledData ==
    ASSUME IInv, DataInv, NEW i \in Instances, PersistCancelled(i)
    PROVE  DataInv'
<1>1. /\ row' = RowsWithout(Linked(i)) /\ Linked(i) \in SUBSET Rows
      /\ override' = [OverridesWithout(Linked(i)) EXCEPT ![i] = Override("CANCELLED", NoRow, FALSE)]
      /\ Overwritten(i) /\ Stored(i)
      /\ UNCHANGED <<masterPending, remote, plain, clock, faults, pass>>
    BY DEF PersistCancelled, Linked
<1>2. RowInv' /\ OverrideInv'
    BY <1>1, GoneKeeps, OverridesLessSet DEF IInv, DataInv
<1>3. CounterData'
    BY <1>1 DEF DataInv, CounterData
<1> QED
    BY <1>1, <1>2, <1>3, StoredData, OverwrittenData, SameServer, SamePass DEF IInv, DataInv

LEMMA SkipInstanceData ==
    ASSUME IInv, DataInv, NEW i \in Instances, SkipInstance(i)
    PROVE  DataInv'
<1>1. Stored(i) /\ UNCHANGED <<row, override, masterPending, remote, plain, clock, faults, pass, owed>>
    BY DEF SkipInstance
<1>2. OverrideInv' /\ HistoryData' /\ CounterData'
    BY <1>1 DEF DataInv, OverrideInv, HistoryData, CounterData
<1> QED
    BY <1>1, <1>2, StoredData, SameRows, SameServer, SamePass DEF IInv, DataInv

LEMMA PersistPlainData ==
    ASSUME IInv, DataInv, NEW p \in Rows, PersistPlain(p)
    PROVE  DataInv'
<1> DEFINE rows == {r \in Rows : row[r].link = <<"own", p>>}
<1>1. /\ p \in DOMAIN fetch.plain
      /\ fetch' = [fetch EXCEPT !.plain = [q \in DOMAIN fetch.plain \ {p} |-> fetch.plain[q]]]
      /\ UNCHANGED <<override, masterPending, remote, plain, clock, faults, pass>>
      /\ \A i \in Instances : owed'[i] = owed[i] \/ owed'[i] = Nothing
    BY DEF PersistPlain
<1>2. PICK c \in Stamps : c = fetch.plain[p]
    BY <1>1 DEF DataInv, ListData
<1>3. RowInv'
  <2>1. CASE UNCHANGED row
      BY <2>1, SameRows DEF DataInv
  <2>2. CASE row' # row
    <3>1. PICK r \in IF rows # {} THEN rows ELSE IF Live(p) THEN {p} ELSE NewRow :
             row' = [row EXCEPT ![r] = Synced(<<"own", p>>, c)]
        BY <1>2, <2>2 DEF PersistPlain
    <3>2. CASE r \in rows
      <4>1. r \in Rows /\ Live(r) /\ row[r].link = <<"own", p>>
          BY <3>2, RowMade DEF Live
      <4> QED
          BY <3>1, <4>1, RowMade, PutKeeps DEF IInv, DataInv, Synced, States
    <3>3. CASE rows = {} /\ Live(p)
      <4>1. r = p /\ \A q \in Rows \ {r} : row[q].link # <<"own", p>>
          BY <3>1, <3>3
      <4> QED
          BY <3>1, <3>3, <4>1, RowMade, PutKeeps DEF IInv, DataInv, Synced, States
    <3>4. CASE rows = {} /\ ~Live(p)
      <4>1. r \in NewRow /\ \A q \in Rows \ {r} : row[q].link # <<"own", p>>
          BY <3>1, <3>4
      <4> QED
          BY <3>1, <3>4, <4>1, NewRowUnused, RowMade, PutKeeps DEF IInv, DataInv, Synced, States
    <3> HIDE DEF rows
    <3> QED
        BY <3>1, <3>2, <3>3, <3>4
  <2> QED
      BY <2>1, <2>2
<1>4. ListData'
  <2>1. /\ fetch'.instances = fetch.instances
        /\ fetch'.plain = [q \in DOMAIN fetch.plain \ {p} |-> fetch.plain[q]]
      BY <1>1 DEF IInv, Shapes
  <2>2. \A i \in DOMAIN fetch'.instances : InstanceData(fetch'.instances[i])
      BY <2>1 DEF DataInv, ListData
  <2> QED
      BY <2>1, <2>2 DEF DataInv, ListData
<1>5. OverrideInv' /\ CounterData' /\ HistoryData'
    BY <1>1, LessOwed DEF DataInv, OverrideInv, CounterData
<1> QED
    BY <1>1, <1>3, <1>4, <1>5, SameServer, SamePass DEF DataInv

LEMMA FetchData == IInv /\ DataInv /\ (FetchLists \/ FetchStep) => DataInv'
BY FetchListsData, PersistExceptionData, PersistCancelledData, SkipInstanceData, PersistPlainData
DEF FetchStep

LEMMA RemoteWritesData ==
    ASSUME IInv, DataInv, NEW i \in Instances, RemoteWrites(i)
    PROVE  DataInv'
<1>1. Writes /\ UNCHANGED <<row, override, masterPending, plain, faults, pass, fetch, owed>>
    BY DEF RemoteWrites
<1>2. clock' \in Stamps /\ clock' \in Contents
    BY <1>1, WriteStamp DEF DataInv
<1>3. PICK type \in {"MODIFIED", "CANCELLED"} :
         remote' = [remote EXCEPT ![i] = [type |-> type, localId |-> remote[i].localId,
                                          content |-> IF type = "MODIFIED" THEN clock' ELSE 0]]
    BY DEF RemoteWrites, IInv, Shapes
<1>4. ServerData'
  <2>1. PICK c \in Contents : c = (IF type = "MODIFIED" THEN clock' ELSE 0) /\ (type = "MODIFIED" => c \in Stamps)
      BY <1>2, OverridesAssumption DEF Contents
  <2>2. /\ remote'[i] = [type |-> type, localId |-> remote[i].localId, content |-> c]
        /\ \A j \in Instances : j # i => remote'[j] = remote[j]
      BY <1>3, <2>1 DEF IInv, Shapes
  <2>3. remote[i].localId \in Rows \cup {NoRow}
      BY DEF DataInv, ServerData, InstanceData
  <2>4. PICK l \in Rows \cup {NoRow} : l = remote[i].localId
      BY <2>3
  <2>5. InstanceData(remote'[i])
      BY <2>1, <2>2, <2>4 DEF InstanceData
  <2>6. \A j \in Instances : InstanceData(remote'[j])
      BY <2>2, <2>5 DEF DataInv, ServerData
  <2> QED
      BY <1>1, <2>6 DEF DataInv, ServerData
<1>5. OverrideInv' /\ HistoryData' /\ CounterData'
    BY <1>1, <1>2 DEF DataInv, OverrideInv, HistoryData, CounterData
<1> QED
    BY <1>1, <1>4, <1>5, SameRows, SameList, SamePass DEF DataInv

LEMMA StutterData ==
    ASSUME DataInv, UNCHANGED vars
    PROVE  DataInv'
<1>1. UNCHANGED <<row, override, masterPending, remote, plain, clock, faults, pass, fetch, owed>>
    BY DEF vars
<1>2. OverrideInv' /\ HistoryData' /\ CounterData'
    BY <1>1 DEF DataInv, OverrideInv, HistoryData, CounterData
<1> QED
    BY <1>1, <1>2, SameRows, SameServer, SameList, SamePass DEF DataInv

LEMMA InitData == Init => DataInv
<1> SUFFICES ASSUME Init PROVE DataInv
    OBVIOUS
<1>1. RowInv
    BY RowMade DEF Init, RowInv, OwnInv
<1>2. OverrideInv
    BY DEF Init, OverrideInv, NoOverride
<1>3. ServerData
  <2>1. 0 \in Contents
      BY OverridesAssumption DEF Contents
  <2>2. InstanceData(AsRuled)
      BY <2>1 DEF InstanceData, AsRuled
  <2> QED
      BY <2>1, <2>2 DEF Init, ServerData, NoEvent
<1>7. CounterData
  <2>1. masterPending \in BOOLEAN
      BY DEF Init
  <2>2. clock \in Contents /\ faults \in 0..MaxFaults
      BY OverridesAssumption DEF Init, Contents
  <2> QED
      BY <2>1, <2>2 DEF CounterData
<1>4. ListData
  <2>1. DOMAIN NoFetch.instances = {} /\ DOMAIN NoFetch.plain = {}
      BY DEF NoFetch
  <2> QED
      BY <2>1 DEF Init, ListData
<1>5. PassData
    BY EmptyPass DEF Init, PassData
<1>6. HistoryData
    BY OverridesAssumption DEF Init, HistoryData, Nothing, Contents
<1> QED
    BY <1>1, <1>2, <1>3, <1>4, <1>5, <1>6, <1>7 DEF DataInv

LEMMA DataStep == IInv /\ DataInv /\ [Next]_vars => DataInv'
BY UserData, PassStepData, FetchData, RemoteWritesData, StutterData, OverridesAssumption DEF Next

(* What the user sees, and the instances with a row too many. *)
ShownData == shown.instance \in Instances \cup {0} /\ shown.row \in Rows \cup {NoRow} /\ left \subseteq Instances

LEMMA LeavesOne ==
    ASSUME left \subseteq Instances, NEW i \in Instances, NEW S, LeavesBehind(i, S)
    PROVE  left' \subseteq Instances /\ left \subseteq left' /\ left' \subseteq left \cup {i}
BY DEF LeavesBehind

LEMMA ShownDataStep == ShownData /\ [Next]_vars => ShownData'
<1> SUFFICES ASSUME ShownData, [Next]_vars PROVE ShownData'
    OBVIOUS
<1> USE DEF ShownData
<1>1. CASE UNCHANGED vars
    BY <1>1 DEF vars
<1>2. CASE UserNext
  <2>1. ASSUME NEW i \in Instances, ShowComputed(i) PROVE ShownData'
    <3>1. shown'.instance = i /\ shown'.row = NoRow /\ left' = left
        BY <2>1 DEF ShowComputed
    <3> QED
        BY <3>1
  <2>2. ASSUME NEW i \in Instances, ChangeOccurrence(i) \/ CancelOccurrence(i) PROVE ShownData'
    <3>1. shown' = shown /\ LeavesBehind(i, {})
        BY <2>2 DEF ChangeOccurrence, CancelOccurrence
    <3> QED
        BY <3>1, LeavesOne
  <2>3. ASSUME NEW i \in Instances, NEW r \in Rows, ShowStored(i, r) PROVE ShownData'
    <3>1. shown'.instance = i /\ shown'.row = r /\ left' = left
        BY <2>3 DEF ShowStored
    <3> QED
        BY <3>1
  <2>4. ASSUME NEW i \in Instances, NEW r \in Rows, ChangeStored(i, r) \/ CancelStored(i, r) PROVE ShownData'
    <3>1. shown' = shown /\ \E S : LeavesBehind(i, S)
        BY <2>4 DEF ChangeStored, CancelStored
    <3> QED
        BY <3>1, LeavesOne
  <2>5. ASSUME NEW r \in Rows, SaveOwn(r) \/ DeleteOwn(r) PROVE ShownData'
      BY <2>5 DEF SaveOwn, DeleteOwn
  <2>6. CASE EditSeries
      BY <2>6 DEF EditSeries
  <2> QED
      BY <1>2, <2>1, <2>2, <2>3, <2>4, <2>5, <2>6 DEF UserNext
<1>3. CASE ReadPending \/ PassStep
  <2>1. UNCHANGED <<shown, left>>
      BY <1>3 DEF ReadPending, PassStep, ServerTakesBatch, WriteResults, ReadOverrides, SendOverride, NotSent,
                  ServerAccepts, ServerMissesInstance, ServerRejects, LinkReplacement, LinkThrows,
                  MarkRecurrenceOverrideSynced
  <2> QED
      BY <2>1
<1>4. CASE FetchLists \/ FetchStep \/ \E i \in Shared : RemoteWrites(i)
    BY <1>4 DEF FetchLists, FetchStep, PersistException, PersistCancelled, SkipInstance, PersistPlain,
                RemoteWrites, LeavesBehind
<1> QED
    BY <1>1, <1>2, <1>3, <1>4 DEF Next

LEMMA DataImpliesTypeOK == IInv /\ DataInv /\ ShownData => TypeOK
<1> SUFFICES ASSUME IInv, DataInv, ShownData PROVE TypeOK
    OBVIOUS
<1>1. \A r \in Rows : Live(r) => row[r] \in LiveRow
    BY LiveRows
<1>2. \A r, q \in Rows : row[r].link = row[q].link /\ row[r].link[1] \in {"instance", "own"} => r = q
  <2> SUFFICES ASSUME NEW r \in Rows, NEW q \in Rows, row[r].link = row[q].link, row[r].link[1] \in {"instance", "own"}
               PROVE  r = q
      OBVIOUS
  <2>1. row[r].link \in {"instance"} \X Instances \/ row[r].link \in {"own"} \X Rows
    <3>1. Live(r)
        BY DEF Live, Gone
    <3>2. row[r].link \in Links
        BY <1>1, <3>1, LiveRowParts
    <3> QED
        BY <3>2 DEF Links
  <2>2. CASE \E i \in Instances : row[r].link = <<"instance", i>>
    <3>1. PICK i \in Instances : r \in Linked(i) /\ q \in Linked(i)
        BY <2>2 DEF Linked
    <3> QED
        BY <3>1 DEF IInv, Ties
  <2>3. CASE \E p \in Rows : row[r].link = <<"own", p>>
      BY <2>3 DEF DataInv, RowInv, OwnInv
  <2> QED
      BY <2>1, <2>2, <2>3
<1>3. \A i \in Instances : override[i] \in OverrideType \cup {NoOverride}
  <2> SUFFICES ASSUME NEW i \in Instances PROVE override[i] \in OverrideType \cup {NoOverride}
      OBVIOUS
  <2>1. override[i] \in AnyOverride
      BY DEF IInv, Shapes
  <2>2. CASE override[i].type = "NONE"
    <3>1. override[i].replacement = NoRow /\ override[i].pending = FALSE
        BY <2>1, <2>2 DEF DataInv, OverrideInv, IInv, PassInv, AnyOverride
    <3> QED
        BY <2>1, <2>2, <3>1 DEF AnyOverride, NoOverride
  <2>3. CASE override[i].type # "NONE"
      BY <2>1, <2>3 DEF AnyOverride, OverrideType
  <2> QED
      BY <2>2, <2>3
<1>4. \A i \in Instances : Live(override[i].replacement) \/ override[i].replacement = NoRow
    BY DEF IInv, Ties
<1>5. \A i \in Instances : remote[i] \in
         [type : {"AS_RULED", "MODIFIED", "CANCELLED"}, content : Contents, localId : Rows \cup {NoRow}]
  <2> SUFFICES ASSUME NEW i \in Instances
               PROVE  remote[i] \in [type : {"AS_RULED", "MODIFIED", "CANCELLED"}, content : Contents,
                                     localId : Rows \cup {NoRow}]
      OBVIOUS
  <2>1. PICK type, content, localId : type = remote[i].type /\ content = remote[i].content
                                      /\ localId = remote[i].localId
      OBVIOUS
  <2>2. /\ type \in {"AS_RULED", "MODIFIED", "CANCELLED"} /\ content \in Contents
        /\ localId \in Rows \cup {NoRow}
      BY <2>1 DEF DataInv, ServerData, InstanceData
  <2>3. remote[i] = [type |-> type, content |-> content, localId |-> localId]
      BY <2>1 DEF IInv, Shapes
  <2> QED
      BY <2>2, <2>3
<1>6. pass.at \in {"sent", "accepted", "linked"} <=> pass.current \in DOMAIN pass.todo
    BY OverridesAssumption DEF IInv, PassInv, DataInv, PassData
<1>7. DOMAIN fetch.instances \subseteq Instances /\ DOMAIN fetch.plain \subseteq Rows
    BY DEF IInv, Shapes, DataInv, ListData
<1>8. pass.at \in {"idle", "read", "answered", "written", "overrides", "sent", "accepted", "linked"}
    BY DEF DataInv, PassData
<1>9. /\ plain \in [Rows -> Contents] /\ masterPending \in BOOLEAN
      /\ clock \in Contents /\ faults \in 0..MaxFaults
      /\ \A i \in Instances : owed[i].type \in {"NONE", "CANCELLED", "MODIFIED"} /\ owed[i].content \in Contents
    BY DEF DataInv, ServerData, CounterData, HistoryData
<1> QED
    BY <1>1, <1>2, <1>3, <1>4, <1>5, <1>6, <1>7, <1>8, <1>9 DEF TypeOK, LiveRow, Stamps, States, ShownData

(* The tables, the pass, the list of a fetch and the server hold what they may hold,
   and no two rows stand for the same event or the same instance: what the UNIQUE
   index of events promises (database_schema.h), from ids that are not given to a
   new row as long as an event on the server stands for the old one.           *)
THEOREM TypeCorrect == Spec => []TypeOK
<1>1. Spec => []DataInv
  <2>1. IInv /\ DataInv /\ [Next]_vars => DataInv'
      BY DataStep
  <2> QED
      BY InitData, <2>1, Inductive, PTL DEF Spec
<1>2. Spec => []ShownData
  <2>1. Init => ShownData
      BY DEF Init, ShownData, NoneShown
  <2> QED
      BY <2>1, ShownDataStep, PTL DEF Spec
<1> QED
    BY <1>1, <1>2, Inductive, DataImpliesTypeOK, PTL

-----------------------------------------------------------------------------
(* Which rows show an instance.                                               *)

(* The server, a fetch, the pass or the table takes the row for an event of its own. *)
Known(p) ==
    \/ plain[p] # NoEvent \/ p \in DOMAIN fetch.plain \/ p \in DOMAIN pass.batch
    \/ \E q \in Rows : row[q].link = <<"own", p>>
    \/ \E q \in DOMAIN pass.batch : pass.batch[q].link = <<"own", p>>

Stands(i, r) == r \in Linked(i) \cup NotUploaded(i)

(* Of an instance that no row was left behind of: a row named for it is its row, and
   nothing else than its row; its override and the pass name no other.            *)
Alone(i) ==
    /\ \A r \in Rows : Tied(i, r) /\ Live(r) => Stands(i, r) /\ row[r].syncStatus = "SYNCED" /\ ~Known(r)
    /\ \A r \in Rows : i \in DOMAIN pass.todo /\ pass.todo[i].replacement = r /\ Live(r)
                       => override[i].replacement = r
    /\ \A r \in Rows : Stands(i, r) => override[i].type = "MODIFIED" /\ override[i].replacement = r

LeftInv ==
    /\ \A i \in Instances : override[i].replacement # NoRow => override[i].type = "MODIFIED"
    /\ \A i \in Instances \ left : Alone(i)

LEMMA StandsTied ==
    ASSUME NEW i \in Instances, NEW r, Stands(i, r)
    PROVE  r \in Rows /\ Live(r) /\ Tied(i, r)
BY GoneRow DEF Stands, Linked, NotUploaded, Live, Tied

LEMMA StandsTiedNext ==
    ASSUME NEW i \in Instances, NEW r, Stands(i, r)'
    PROVE  r \in Rows /\ Live(r)' /\ Tied(i, r)'
BY GoneRow DEF Stands, Linked, NotUploaded, Live, Tied

LEMMA RowStands ==
    ASSUME NEW i \in Instances, NEW r \in Rows
    PROVE  /\ Stands(i, r) <=> row[r].link \in {<<"instance", i>>, <<"replacement", i>>}
           /\ Stands(i, r)' <=> row'[r].link \in {<<"instance", i>>, <<"replacement", i>>}
BY DEF Stands, Linked, NotUploaded

(* An instance the step does not touch, or takes something from. *)
LEMMA AloneStays ==
    ASSUME NEW j \in Instances, Alone(j),
           \A r \in Rows : Tied(j, r)' /\ Live(r)' => Tied(j, r) /\ Live(r) /\ row'[r] = row[r],
           \A r \in Rows : Tied(j, r) /\ Live(r) /\ Known(r)' => Known(r),
           j \in DOMAIN pass'.todo =>
               \/ pass'.todo[j].replacement = override'[j].replacement
               \/ j \in DOMAIN pass.todo /\ pass'.todo[j] = pass.todo[j],
           override'[j].type = override[j].type,
           \A r \in Rows : Live(r)' /\ override[j].replacement = r => override'[j].replacement = r
    PROVE  Alone(j)'
<1>1. \A r \in Rows : Tied(j, r)' /\ Live(r)' => Stands(j, r)' /\ row'[r].syncStatus = "SYNCED" /\ ~Known(r)'
    BY RowStands DEF Alone
<1>2. ASSUME NEW r \in Rows, Stands(j, r)' PROVE override'[j].type = "MODIFIED" /\ override'[j].replacement = r
  <2>1. Tied(j, r)' /\ Live(r)'
      BY <1>2, StandsTiedNext
  <2>2. Stands(j, r)
      BY <1>2, <2>1, RowStands
  <2> QED
      BY <2>1, <2>2 DEF Alone
<1>3. ASSUME NEW r \in Rows, j \in DOMAIN pass'.todo, pass'.todo[j].replacement = r, Live(r)'
      PROVE  override'[j].replacement = r
  <2>1. CASE j \in DOMAIN pass.todo /\ pass'.todo[j] = pass.todo[j]
    <3>1. Tied(j, r)'
        BY <1>3 DEF Tied
    <3>2. Live(r) /\ r = pass.todo[j].replacement
        BY <1>3, <2>1, <3>1
    <3> QED
        BY <1>3, <2>1, <3>2 DEF Alone
  <2> QED
      BY <1>3, <2>1
<1> QED
    BY <1>1, <1>2, <1>3 DEF Alone

(* The instance the step makes row q of. *)
LEMMA AloneMade ==
    ASSUME NEW i \in Instances, NEW q \in Rows,
           row'[q].link \in {<<"instance", i>>, <<"replacement", i>>}, row'[q].syncStatus = "SYNCED", ~Known(q)',
           override'[i].type = "MODIFIED", override'[i].replacement = q,
           \A r \in Rows : Tied(i, r)' /\ Live(r)' => r = q
    PROVE  Alone(i)'
<1>1. \A r \in Rows : Tied(i, r)' /\ Live(r)' => Stands(i, r)' /\ row'[r].syncStatus = "SYNCED" /\ ~Known(r)'
    BY RowStands
<1>2. \A r \in Rows : Stands(i, r)' => r = q
    BY StandsTiedNext
<1>3. \A r \in Rows : i \in DOMAIN pass'.todo /\ pass'.todo[i].replacement = r /\ Live(r)' => r = q
    BY DEF Tied
<1> QED
    BY <1>1, <1>2, <1>3 DEF Alone

(* The instance the step takes the last row from. *)
LEMMA AloneEmptied ==
    ASSUME NEW i \in Instances, \A r \in Rows : ~(Tied(i, r)' /\ Live(r)')
    PROVE  Alone(i)'
<1>1. \A r \in Rows : ~Stands(i, r)'
    BY StandsTiedNext
<1>2. \A r \in Rows : i \in DOMAIN pass'.todo /\ pass'.todo[i].replacement = r => ~Live(r)'
    BY DEF Tied
<1> QED
    BY <1>1, <1>2 DEF Alone

LEMMA NewRowUnknown == ASSUME NEW r \in NewRow PROVE ~Known(r)
BY DEF NewRow, Unused, Known

(* No row but q is left of an instance the save left nothing behind of. *)
LEMMA NothingLeft ==
    ASSUME NEW i \in Instances, NEW S, LeavesBehind(i, S), left \subseteq Instances
    PROVE  /\ left \subseteq left' /\ \A j \in Instances : j # i => (j \in left' <=> j \in left)
           /\ i \notin left' => \A r \in Rows : Stands(i, r) => r \in S
BY DEF LeavesBehind, Stands

(* Nothing becomes an event of its own when a row becomes an instance's. *)
LEMMA KnownLess ==
    ASSUME UNCHANGED plain, DOMAIN fetch'.plain \subseteq DOMAIN fetch.plain,
           \A q \in DOMAIN pass'.batch : q \in DOMAIN pass.batch /\ pass'.batch[q] = pass.batch[q],
           \A q \in Rows : \A p : row'[q].link = <<"own", p>> => row[q].link = <<"own", p>>
    PROVE  \A p \in Rows : Known(p)' => Known(p)
BY DEF Known

(* Rows and overrides stay; what the server, the pass and the lists hold moves. *)
LEMMA MovesKeep ==
    ASSUME LeftInv, UNCHANGED <<row, left>>,
           \A j \in Instances : override'[j].type = override[j].type /\ override'[j].replacement = override[j].replacement,
           \A j \in DOMAIN pass'.todo :
               \/ pass'.todo[j].replacement = override'[j].replacement
               \/ j \in DOMAIN pass.todo /\ pass'.todo[j] = pass.todo[j],
           \A j \in Instances, r \in Rows : Tied(j, r)' => Tied(j, r),
           \A j \in Instances \ left, r \in Rows : Tied(j, r) /\ Live(r) /\ Known(r)' => Known(r)
    PROVE  LeftInv'
<1>1. ASSUME NEW j \in Instances \ left PROVE Alone(j)'
  <2>1. Alone(j)
      BY DEF LeftInv
  <2>2. \A r \in Rows : Live(r)' => Live(r)
      BY DEF Live
  <2> QED
      BY <2>1, <2>2, AloneStays
<1> QED
    BY <1>1 DEF LeftInv

(* One instance is written, the others are not touched. *)
LEMMA OthersStay ==
    ASSUME LeftInv, NEW i \in Instances, pass'.todo = pass.todo,
           \A j \in Instances : j # i => (j \in left' <=> j \in left) /\ override'[j] = override[j],
           \A j \in Instances, r \in Rows : j # i /\ Tied(j, r)' => Tied(j, r) /\ row'[r] = row[r],
           \A r \in Rows : Known(r)' => Known(r),
           override'[i].replacement # NoRow => override'[i].type = "MODIFIED",
           i \notin left' => Alone(i)'
    PROVE  LeftInv'
<1>1. ASSUME NEW j \in Instances \ left', j # i PROVE Alone(j)'
  <2>1. Alone(j)
      BY <1>1 DEF LeftInv
  <2>2. \A r \in Rows : Tied(j, r)' /\ Live(r)' => Tied(j, r) /\ Live(r) /\ row'[r] = row[r]
      BY <1>1 DEF Live
  <2> QED
      BY <1>1, <2>1, <2>2, AloneStays
<1> QED
    BY <1>1 DEF LeftInv

-----------------------------------------------------------------------------
LEMMA ShowingShown ==
    ASSUME LeftInv, NEW i \in Instances, NEW r,
           shown' = [instance |-> i, row |-> r], r \in Rows => Tied(i, r),
           UNCHANGED <<row, override, remote, plain, pass, fetch, left>>
    PROVE  LeftInv'
<1>1. \A j \in Instances, q \in Rows : Tied(j, q)' => Tied(j, q)
    BY DEF Tied
<1>2. \A q \in Rows : Known(q)' => Known(q)
    BY DEF Known
<1> QED
    BY <1>1, <1>2, MovesKeep

LEMMA ShowComputedShown == ASSUME LeftInv, NEW i \in Instances, ShowComputed(i) PROVE LeftInv'
BY ShowingShown, OverridesAssumption DEF ShowComputed

LEMMA ShowStoredShown == ASSUME LeftInv, NEW i \in Instances, NEW r \in Rows, ShowStored(i, r) PROVE LeftInv'
<1>1. /\ Tied(i, r) /\ shown' = [instance |-> i, row |-> r]
      /\ UNCHANGED <<row, override, remote, plain, pass, fetch, left>>
    BY DEF ShowStored, Linked, Tied
<1> QED
    BY <1>1, ShowingShown

(* A row becomes the row of an instance which has no other. *)
LEMMA MakingShown ==
    ASSUME IInv, LeftInv, ShownData, NEW i \in Instances, NEW q \in Rows, NEW S, LeavesBehind(i, S), S \subseteq {q},
           NEW l \in {<<"instance", i>>, <<"replacement", i>>}, NEW c, NEW pending \in BOOLEAN,
           row' = [row EXCEPT ![q] = Synced(l, c)],
           override' = [override EXCEPT ![i] = Override("MODIFIED", q, pending)],
           \A j \in Instances : Tied(j, q) => j = i,
           i \notin left => ~Known(q),
           UNCHANGED <<shown, remote, plain, pass, fetch>>
    PROVE  LeftInv'
<1>1. /\ override'[i].type = "MODIFIED" /\ override'[i].replacement = q
      /\ \A j \in Instances : j # i => override'[j] = override[j]
    BY DEF IInv, Shapes, Override
<1>2. /\ row'[q].link = l /\ row'[q].syncStatus = "SYNCED" /\ row'[q] # Gone
      /\ \A r \in Rows : r # q => row'[r] = row[r]
    BY SyncedRow DEF IInv, Shapes, RowShaped
<1>3. \A j \in Instances, r \in Rows : Tied(j, r)' => Tied(j, r) \/ (j = i /\ r = q)
    BY <1>1, <1>2, LinksDiffer DEF Tied
<1>4. /\ left \subseteq left' /\ \A j \in Instances : j # i => (j \in left' <=> j \in left)
      /\ i \notin left' => \A r \in Rows : Stands(i, r) => r \in S
    BY NothingLeft DEF ShownData
<1>5. \A r \in Rows : Known(r)' => Known(r)
  <2>1. \A r \in Rows : \A p : row'[r].link = <<"own", p>> => row[r].link = <<"own", p>>
      BY <1>2, LinksDiffer
  <2> QED
      BY <2>1, KnownLess
<1>6. ASSUME i \notin left' PROVE Alone(i)'
  <2>1. Alone(i) /\ ~Known(q)'
      BY <1>4, <1>5, <1>6 DEF LeftInv
  <2>2. ASSUME NEW r \in Rows, Tied(i, r)', Live(r)', r # q PROVE FALSE
    <3>1. Tied(i, r) /\ Live(r)
        BY <1>2, <1>3, <2>2 DEF Live
    <3>2. Stands(i, r)
        BY <2>1, <3>1 DEF Alone
    <3> QED
        BY <1>4, <1>6, <2>2, <3>2
  <2> QED
      BY <1>1, <1>2, <2>1, <2>2, AloneMade
<1>7. \A j \in Instances, r \in Rows : j # i /\ Tied(j, r)' => Tied(j, r) /\ row'[r] = row[r]
    BY <1>2, <1>3
<1> QED
    BY <1>1, <1>4, <1>5, <1>6, <1>7, OthersStay

LEMMA ChangeOccurrenceShown ==
    ASSUME IInv, LeftInv, ShownData, NEW i \in Instances, ChangeOccurrence(i)
    PROVE  LeftInv'
<1>1. PICK r \in NewRow :
         /\ row' = [row EXCEPT ![r] = Synced(<<"replacement", i>>, clock')]
         /\ override' = [override EXCEPT ![i] = Override("MODIFIED", r, TRUE)]
    BY DEF ChangeOccurrence
<1>2. r \in Rows /\ (\A j \in Instances : ~Tied(j, r)) /\ ~Known(r)
    BY NewRowIsFree, NewRowUnknown DEF IInv
<1>3. LeavesBehind(i, {}) /\ UNCHANGED <<shown, remote, plain, pass, fetch>>
    BY DEF ChangeOccurrence
<1>4. <<"replacement", i>> \in {<<"instance", i>>, <<"replacement", i>>} /\ {} \subseteq {r}
    OBVIOUS
<1> QED
    BY <1>1, <1>2, <1>3, <1>4, MakingShown

LEMMA ChangeStoredShown ==
    ASSUME IInv, LeftInv, ShownData, NEW i \in Instances, NEW r \in Rows, ChangeStored(i, r)
    PROVE  LeftInv'
<1>1. PICK q \in RowsOfStored(i, r) :
         /\ row' = [row EXCEPT ![q] = Synced(<<"instance", i>>, clock')]
         /\ override' = [override EXCEPT ![i] = Override("MODIFIED", q, TRUE)]
         /\ LeavesBehind(i, {q})
    BY DEF ChangeStored
<1>2. Tied(i, r) /\ UNCHANGED <<shown, remote, plain, pass, fetch>> /\ (Live(r) => Linked(i) \subseteq {r})
    BY DEF ChangeStored, Tied
<1>3. q \in Rows /\ (\A j \in Instances : Tied(j, q) => j = i)
    BY <1>2, RowsOfStoredAreFree DEF IInv
<1>4. ASSUME i \notin left PROVE ~Known(q)
  <2>1. Alone(i)
      BY <1>4 DEF LeftInv
  <2>2. CASE Live(r)
      BY <1>1, <1>2, <2>1, <2>2 DEF RowsOfStored, Alone
  <2>3. CASE ~Live(r) /\ Linked(i) # {}
    <3>1. Stands(i, q)
        BY <1>1, <2>3 DEF RowsOfStored, Stands
    <3> QED
        BY <2>1, <3>1, StandsTied DEF Alone
  <2>4. CASE ~Live(r) /\ Linked(i) = {}
      BY <1>1, <2>4, NewRowUnknown DEF RowsOfStored
  <2> QED
      BY <2>2, <2>3, <2>4
<1>5. <<"instance", i>> \in {<<"instance", i>>, <<"replacement", i>>} /\ {q} \subseteq {q}
    OBVIOUS
<1> QED
    BY <1>1, <1>2, <1>3, <1>4, <1>5, MakingShown

(* An instance loses its row S, and is cancelled. *)
LEMMA EmptyingShown ==
    ASSUME IInv, LeftInv, ShownData, NEW i \in Instances, NEW S \in SUBSET Rows, LeavesBehind(i, S),
           \A r \in Rows : row'[r] = IF r \in S THEN Gone ELSE row[r],
           override'[i].replacement = NoRow, \A j \in Instances : j # i => override'[j] = override[j],
           \A r \in S, j \in Instances : Tied(j, r) => j = i,
           UNCHANGED <<shown, remote, plain, pass>>, fetch'.plain = fetch.plain,
           DOMAIN fetch'.instances \subseteq DOMAIN fetch.instances,
           \A j \in DOMAIN fetch'.instances : fetch'.instances[j] = fetch.instances[j]
    PROVE  LeftInv'
<1>1. \A j \in Instances, r \in Rows : Tied(j, r)' => Tied(j, r)
    BY GoneRow, OverridesAssumption DEF Tied
<1>2. /\ left \subseteq left' /\ \A j \in Instances : j # i => (j \in left' <=> j \in left)
      /\ i \notin left' => \A r \in Rows : Stands(i, r) => r \in S
    BY NothingLeft DEF ShownData
<1>3. \A r \in Rows : Known(r)' => Known(r)
  <2>1. \A r \in Rows : \A p : row'[r].link = <<"own", p>> => row[r].link = <<"own", p>>
      BY GoneRow
  <2> QED
      BY <2>1, KnownLess
<1>4. ASSUME i \notin left' PROVE Alone(i)'
  <2>1. Alone(i)
      BY <1>2, <1>4 DEF LeftInv
  <2>2. ASSUME NEW r \in Rows, Tied(i, r)', Live(r)' PROVE FALSE
    <3>1. Tied(i, r) /\ Live(r) /\ r \notin S
        BY <1>1, <2>2 DEF Live
    <3>2. Stands(i, r)
        BY <2>1, <3>1 DEF Alone
    <3> QED
        BY <1>2, <1>4, <3>1, <3>2
  <2> QED
      BY <2>2, AloneEmptied
<1>5. \A j \in Instances, r \in Rows : j # i /\ Tied(j, r)' => Tied(j, r) /\ row'[r] = row[r]
    BY <1>1
<1> QED
    BY <1>2, <1>3, <1>4, <1>5, OthersStay

LEMMA CancelOccurrenceShown ==
    ASSUME IInv, LeftInv, ShownData, NEW i \in Instances, CancelOccurrence(i)
    PROVE  LeftInv'
<1>1. /\ UNCHANGED <<row, shown, remote, plain, pass, fetch>> /\ LeavesBehind(i, {})
      /\ override' = [override EXCEPT ![i] = Override("CANCELLED", NoRow, TRUE)]
    BY DEF CancelOccurrence
<1>2. override'[i].replacement = NoRow /\ \A j \in Instances : j # i => override'[j] = override[j]
    BY <1>1 DEF IInv, Shapes, Override
<1>3. {} \in SUBSET Rows
    OBVIOUS
<1> QED
    BY <1>1, <1>2, <1>3, EmptyingShown

(* The overrides of other instances keep their rows. *)
LEMMA OthersKeepRows ==
    ASSUME IInv, NEW i \in Instances, NEW S \in SUBSET Rows, \A r \in S, j \in Instances : Tied(j, r) => j = i,
           NEW pending \in BOOLEAN,
           override' = [OverridesWithout(S) EXCEPT ![i] = Override("CANCELLED", NoRow, pending)]
    PROVE  override'[i].replacement = NoRow /\ \A j \in Instances : j # i => override'[j] = override[j]
<1>1. \A j \in Instances : j # i => override[j].replacement \notin S
    BY DEF Tied
<1>2. \A j \in Instances : j # i => OverridesWithout(S)[j] = override[j]
    BY <1>1, OverridesWithoutRows DEF IInv
<1>3. OverridesWithout(S) \in [Instances -> AnyOverride]
    BY OverridesWithoutRows DEF IInv
<1> QED
    BY <1>2, <1>3 DEF Override

LEMMA CancelStoredShown ==
    ASSUME IInv, LeftInv, ShownData, NEW i \in Instances, NEW r \in Rows, CancelStored(i, r)
    PROVE  LeftInv'
<1>1. /\ UNCHANGED <<shown, remote, plain, pass, fetch>> /\ LeavesBehind(i, {r}) /\ Tied(i, r)
      /\ row' = RowsWithout({r})
      /\ override' = [OverridesWithout({r}) EXCEPT ![i] = Override("CANCELLED", NoRow, TRUE)]
    BY DEF CancelStored, Tied
<1>2. \A q \in {r}, j \in Instances : Tied(j, q) => j = i
    BY <1>1 DEF IInv, Ties
<1>3. {r} \in SUBSET Rows /\ \A q \in Rows : row'[q] = IF q \in {r} THEN Gone ELSE row[q]
    BY <1>1, RowsWithoutRows DEF IInv
<1>4. override'[i].replacement = NoRow /\ \A j \in Instances : j # i => override'[j] = override[j]
    BY <1>1, <1>2, <1>3, OthersKeepRows
<1> QED
    BY <1>1, <1>2, <1>3, <1>4, EmptyingShown

LEMMA PersistCancelledShown ==
    ASSUME IInv, LeftInv, ShownData, NEW i \in Instances, PersistCancelled(i)
    PROVE  LeftInv'
<1>1. /\ UNCHANGED <<shown, remote, plain, pass>> /\ LeavesBehind(i, Linked(i)) /\ Stored(i)
      /\ row' = RowsWithout(Linked(i)) /\ Linked(i) \in SUBSET Rows
      /\ override' = [OverridesWithout(Linked(i)) EXCEPT ![i] = Override("CANCELLED", NoRow, FALSE)]
    BY DEF PersistCancelled, Linked
<1>2. \A q \in Linked(i), j \in Instances : Tied(j, q) => j = i
    BY DEF IInv, Ties, Linked, Tied
<1>3. \A q \in Rows : row'[q] = IF q \in Linked(i) THEN Gone ELSE row[q]
    BY <1>1, RowsWithoutRows DEF IInv
<1>4. override'[i].replacement = NoRow /\ \A j \in Instances : j # i => override'[j] = override[j]
    BY <1>1, <1>2, OthersKeepRows
<1>5. /\ fetch'.plain = fetch.plain /\ DOMAIN fetch'.instances \subseteq DOMAIN fetch.instances
      /\ \A j \in DOMAIN fetch'.instances : fetch'.instances[j] = fetch.instances[j]
    BY <1>1, StoredOne DEF IInv, Shapes, Stored
<1> QED
    BY <1>1, <1>2, <1>3, <1>4, <1>5, EmptyingShown

(* Rows are written that are no instance's with nothing left behind. *)
LEMMA OwnRowsShown ==
    ASSUME LeftInv, left \subseteq left',
           \A j \in Instances, r \in Rows : Tied(j, r)' => Tied(j, r),
           \A j \in Instances \ left', r \in Rows :
               Tied(j, r) /\ Live(r)' => Live(r) /\ row'[r] = row[r],
           \A j \in Instances \ left', r \in Rows : Tied(j, r) /\ Live(r) /\ Known(r)' => Known(r),
           \A j \in Instances : override'[j].type = override[j].type
               /\ (\/ override'[j].replacement = override[j].replacement
                   \/ override'[j].replacement = NoRow
                      /\ \A r \in Rows : override[j].replacement = r => ~Live(r)'),
           \A j \in DOMAIN pass'.todo : j \in DOMAIN pass.todo /\ pass'.todo[j] = pass.todo[j]
    PROVE  LeftInv'
<1>1. ASSUME NEW j \in Instances \ left' PROVE Alone(j)'
  <2>1. Alone(j)
      BY DEF LeftInv
  <2>2. \A r \in Rows : Tied(j, r)' /\ Live(r)' => Tied(j, r) /\ Live(r) /\ row'[r] = row[r]
      OBVIOUS
  <2>3. \A r \in Rows : Live(r)' /\ override[j].replacement = r => override'[j].replacement = r
      BY DEF Live
  <2> QED
      BY <2>1, <2>2, <2>3, AloneStays
<1> QED
    BY <1>1 DEF LeftInv

(* An instance with nothing left behind has no row that is an event of its own. *)
LEMMA OwnIsNoInstance ==
    ASSUME LeftInv, NEW r \in Rows, Own(r), NEW j \in Instances \ left, Tied(j, r)
    PROVE  r \in NotUploaded(j)
BY DEF LeftInv, Alone, Own, Stands

LEMMA SaveOwnShown ==
    ASSUME IInv, LeftInv, NEW r \in Rows, SaveOwn(r)
    PROVE  LeftInv'
<1>1. /\ Own(r) /\ left' = left \cup {i \in Instances : r \in NotUploaded(i)}
      /\ UNCHANGED <<override, shown, remote, plain, pass, fetch>> /\ RowShaped(row)
    BY DEF SaveOwn, IInv, Shapes
<1>2. \A q \in Rows : row'[q].link = row[q].link /\ (q # r => row'[q] = row[q])
    BY <1>1 DEF SaveOwn, RowShaped
<1>3. \A j \in Instances, q \in Rows : Tied(j, q)' => Tied(j, q)
    BY <1>1, <1>2 DEF Tied
<1>4. \A j \in Instances \ left' : ~Tied(j, r)
    BY <1>1, OwnIsNoInstance
<1>5. \A q \in Rows : Known(q)' => Known(q)
    BY <1>1, <1>2, KnownLess
<1>6. \A j \in Instances \ left', q \in Rows : Tied(j, q) /\ Live(q)' => Live(q) /\ row'[q] = row[q]
    BY <1>2, <1>4 DEF Live
<1> QED
    BY <1>1, <1>3, <1>5, <1>6, OwnRowsShown

(* A set of rows is deleted, with what names them. *)
LEMMA DeletingShown ==
    ASSUME IInv, LeftInv, NEW S \in SUBSET Rows, row' = RowsWithout(S), override' = OverridesWithout(S),
           UNCHANGED <<shown, remote, plain, fetch, left>>, pass'.todo = pass.todo, pass'.batch = pass.batch
    PROVE  LeftInv'
<1>1. \A q \in Rows : row'[q] = IF q \in S THEN Gone ELSE row[q]
    BY RowsWithoutRows DEF IInv
<1>2. \A j \in Instances :
         /\ override'[j].type = override[j].type
         /\ \/ override[j].replacement \in S /\ override'[j].replacement = NoRow
            \/ override[j].replacement \notin S /\ override'[j] = override[j]
    BY OverridesWithoutRows DEF IInv
<1>3. \A j \in Instances, q \in Rows : Tied(j, q)' => Tied(j, q)
    BY <1>1, <1>2, GoneRow, OverridesAssumption DEF Tied
<1>4. \A q \in Rows : Known(q)' => Known(q)
  <2>1. \A q \in Rows : \A p : row'[q].link = <<"own", p>> => row[q].link = <<"own", p>>
      BY <1>1, GoneRow
  <2> QED
      BY <2>1, KnownLess
<1>5. \A j \in Instances, q \in Rows : Live(q)' => Live(q) /\ row'[q] = row[q] /\ q \notin S
    BY <1>1 DEF Live
<1> QED
    BY <1>2, <1>3, <1>4, <1>5, OwnRowsShown

LEMMA DeleteOwnShown ==
    ASSUME IInv, LeftInv, NEW r \in Rows, DeleteOwn(r)
    PROVE  LeftInv'
<1>1. /\ Own(r) /\ UNCHANGED <<shown, remote, plain, pass, fetch, left>> /\ RowShaped(row)
    BY DEF DeleteOwn, IInv, Shapes
<1>2. CASE \E i \in Instances : r \in NotUploaded(i)
  <2>1. row' = RowsWithout({r}) /\ override' = OverridesWithout({r}) /\ {r} \in SUBSET Rows
      BY <1>2 DEF DeleteOwn
  <2> QED
      BY <1>1, <2>1, DeletingShown
<1>3. CASE ~\E i \in Instances : r \in NotUploaded(i)
  <2>1. row' = [row EXCEPT ![r].syncStatus = "PENDING_DELETE"] /\ UNCHANGED override
      BY <1>3 DEF DeleteOwn
  <2>2. \A q \in Rows : row'[q].link = row[q].link /\ (q # r => row'[q] = row[q])
      BY <1>1, <2>1 DEF RowShaped
  <2>3. \A j \in Instances, q \in Rows : Tied(j, q)' => Tied(j, q)
      BY <1>1, <2>1, <2>2 DEF Tied
  <2>4. \A j \in Instances \ left : ~Tied(j, r)
      BY <1>1, <1>3, OwnIsNoInstance
  <2>5. \A q \in Rows : Known(q)' => Known(q)
      BY <1>1, <2>2, KnownLess
  <2>6. \A j \in Instances \ left', q \in Rows : Tied(j, q) /\ Live(q)' => Live(q) /\ row'[q] = row[q]
      BY <1>1, <2>2, <2>4 DEF Live
  <2> QED
      BY <1>1, <2>1, <2>3, <2>5, <2>6, OwnRowsShown
<1> QED
    BY <1>2, <1>3

LEMMA EditSeriesShown ==
    ASSUME IInv, LeftInv, EditSeries
    PROVE  LeftInv'
<1> DEFINE stored == UNION {Linked(i) : i \in Instances}
<1>1. /\ row' = RowsWithout(stored) /\ override' = OverridesWithout(stored)
      /\ UNCHANGED <<shown, remote, plain, fetch, left>>
    BY DEF EditSeries
<1>2. pass'.todo = pass.todo /\ pass'.batch = pass.batch
    BY DEF EditSeries, IInv, Shapes
<1>3. stored \in SUBSET Rows
    BY DEF Linked
<1> HIDE DEF stored
<1> QED
    BY <1>1, <1>2, <1>3, DeletingShown

-----------------------------------------------------------------------------
(* A pass. *)

LEMMA ReadPendingShown ==
    ASSUME IInv, DataInv, LeftInv, ReadPending
    PROVE  LeftInv'
<1>1. /\ UNCHANGED <<row, shown, override, remote, plain, fetch, left>>
      /\ pass'.batch = [r \in PendingRows |-> row[r]] /\ DOMAIN pass'.todo = {}
    BY DEF ReadPending, NoPass
<1>2. \A j \in Instances, r \in Rows : Tied(j, r)' => Tied(j, r)
    BY <1>1 DEF Tied
<1>3. \A r \in Rows : Known(r)' => Known(r) \/ row[r].syncStatus # "SYNCED"
    BY <1>1 DEF Known, PendingRows
<1>4. \A j \in Instances \ left, r \in Rows : Tied(j, r) /\ Live(r) /\ Known(r)' => Known(r)
    BY <1>3 DEF LeftInv, Alone
<1> QED
    BY <1>1, <1>2, <1>4, MovesKeep

(* The pass comes to another override, and takes no row for an event of its own. *)
LEMMA PassMovesShown ==
    ASSUME LeftInv, UNCHANGED <<row, shown, fetch, left>>,
           \A p \in Rows : plain'[p] # NoEvent => Known(p),
           pass'.batch = pass.batch \/ DOMAIN pass'.batch = {},
           \A j \in Instances : override'[j].type = override[j].type /\ override'[j].replacement = override[j].replacement,
           \A j \in DOMAIN pass'.todo : j \in DOMAIN pass.todo /\ pass'.todo[j] = pass.todo[j],
           \A i \in Instances : \/ remote'[i].localId = remote[i].localId
                                \/ i \in DOMAIN pass.todo /\ remote'[i].localId = pass.todo[i].replacement
    PROVE  LeftInv'
<1>1. \A j \in Instances, r \in Rows : Tied(j, r)' => Tied(j, r)
    BY DEF Tied
<1>2. \A r \in Rows : Known(r)' => Known(r)
    BY DEF Known
<1> QED
    BY <1>1, <1>2, MovesKeep

LEMMA EmptyBatch ==
    /\ DOMAIN NoPass.batch = {} /\ DOMAIN NoPass.todo = {}
    /\ \A i : DOMAIN Without(i).batch = {}
BY DEF NoPass, Without

LEMMA ServerTakesBatchShown ==
    ASSUME IInv, LeftInv, ServerTakesBatch
    PROVE  LeftInv'
<1>1. /\ UNCHANGED <<row, shown, override, remote, fetch, left>>
      /\ pass'.batch = pass.batch /\ pass'.todo = pass.todo
    BY DEF ServerTakesBatch, IInv, Shapes
<1>2. ASSUME NEW p \in Rows, plain'[p] # NoEvent, ~Known(p) PROVE FALSE
  <2>1. p \notin DOMAIN pass.batch /\ {r \in DOMAIN pass.batch : pass.batch[r].link = <<"own", p>>} = {}
      BY <1>2 DEF Known
  <2>2. plain'[p] = plain[p]
      BY <2>1 DEF ServerTakesBatch
  <2> QED
      BY <1>2, <2>2 DEF Known
<1> QED
    BY <1>1, <1>2, PassMovesShown

LEMMA ReadOverridesShown ==
    ASSUME IInv, LeftInv, ReadOverrides
    PROVE  LeftInv'
<1> DEFINE waiting == {i \in Instances : override[i].pending}
<1>1. /\ UNCHANGED <<row, shown, override, remote, plain, fetch, left>>
      /\ pass' = IF waiting = {} THEN NoPass
                 ELSE [NoPass EXCEPT !.at = "overrides", !.todo = [i \in waiting |-> override[i]]]
    BY DEF ReadOverrides
<1>2. DOMAIN pass'.batch = {} /\ \A j \in DOMAIN pass'.todo : j \in Instances /\ pass'.todo[j] = override[j]
  <2>1. CASE waiting = {}
      BY <1>1, <2>1, EmptyBatch
  <2>2. CASE waiting # {}
      BY <1>1, <2>2 DEF NoPass
  <2> QED
      BY <2>1, <2>2
<1>3. \A j \in Instances, r \in Rows : Tied(j, r)' => Tied(j, r)
    BY <1>1, <1>2 DEF Tied
<1>4. \A r \in Rows : Known(r)' => Known(r)
    BY <1>1, <1>2 DEF Known
<1> QED
    BY <1>1, <1>2, <1>3, <1>4, MovesKeep

LEMMA SendOverrideShown ==
    ASSUME IInv, LeftInv, NEW i \in Instances, SendOverride(i)
    PROVE  LeftInv'
<1>1. /\ UNCHANGED <<row, shown, override, remote, plain, fetch, left>>
      /\ pass'.batch = pass.batch /\ pass'.todo = pass.todo
    BY DEF SendOverride, IInv, Shapes
<1>2. \A p \in Rows : plain'[p] # NoEvent => Known(p)
    BY <1>1 DEF Known
<1> QED
    BY <1>1, <1>2, PassMovesShown

(* The pass goes on with the other overrides, or is over. *)
LEMMA GoesOnShown ==
    ASSUME IInv, LeftInv, NEW i, pass' = Without(i) \/ pass' = NoPass,
           UNCHANGED <<row, shown, plain, fetch, left>>,
           \A j \in Instances : override'[j].type = override[j].type /\ override'[j].replacement = override[j].replacement,
           \A j \in Instances : \/ remote'[j].localId = remote[j].localId
                                \/ j \in DOMAIN pass.todo /\ remote'[j].localId = pass.todo[j].replacement
    PROVE  LeftInv'
<1>1. DOMAIN pass'.batch = {}
    BY EmptyBatch
<1>2. \A j \in DOMAIN pass'.todo : j \in DOMAIN pass.todo /\ pass'.todo[j] = pass.todo[j]
    BY WithoutOne, EmptyBatch
<1>3. \A p \in Rows : plain'[p] # NoEvent => Known(p)
    BY DEF Known
<1> QED
    BY <1>1, <1>2, <1>3, PassMovesShown

LEMMA ReceivedTies ==
    ASSUME IInv, pass.current \in DOMAIN pass.todo, Received
    PROVE  \A j \in Instances : \/ remote'[j].localId = remote[j].localId
                                \/ j \in DOMAIN pass.todo /\ remote'[j].localId = pass.todo[j].replacement
<1> DEFINE i == pass.current
<1>1. i \in Instances /\ Shapes
    BY DEF IInv, PassInv
<1>2. remote' = [remote EXCEPT ![i] =
         IF pass.todo[i].type = "CANCELLED" THEN [type |-> "CANCELLED", content |-> 0, localId |-> remote[i].localId]
         ELSE [type |-> "MODIFIED", content |-> pass.sent, localId |-> pass.todo[i].replacement]]
    BY <1>1 DEF Received, Shapes
<1> HIDE DEF i
<1>3. \A j \in Instances : j # i => remote'[j] = remote[j]
    BY <1>1, <1>2 DEF Shapes
<1>4. remote'[i].localId \in {remote[i].localId, pass.todo[i].replacement}
    BY <1>1, <1>2 DEF Shapes
<1> QED
    BY <1>3, <1>4 DEF i

LEMMA AnswerShown ==
    ASSUME IInv, LeftInv, ServerAccepts \/ ServerMissesInstance
    PROVE  LeftInv'
<1>1. /\ UNCHANGED <<row, shown, override, plain, fetch, left>>
      /\ pass'.batch = pass.batch /\ pass'.todo = pass.todo
    BY DEF ServerAccepts, ServerMissesInstance, IInv, Shapes
<1>2. pass.current \in DOMAIN pass.todo
    BY DEF ServerAccepts, ServerMissesInstance, IInv, PassInv
<1>3. \A j \in Instances : \/ remote'[j].localId = remote[j].localId
                           \/ j \in DOMAIN pass.todo /\ remote'[j].localId = pass.todo[j].replacement
    BY <1>2, ReceivedTies DEF ServerAccepts, ServerMissesInstance
<1>4. \A p \in Rows : plain'[p] # NoEvent => Known(p)
    BY <1>1 DEF Known
<1> QED
    BY <1>1, <1>3, <1>4, PassMovesShown

LEMMA EndsShown ==
    ASSUME IInv, LeftInv, NEW i \in Instances, NotSent(i) \/ ServerRejects \/ LinkThrows \/ MarkRecurrenceOverrideSynced
    PROVE  LeftInv'
<1>1. CASE NotSent(i)
  <2>1. UNCHANGED <<row, shown, override, remote, plain, fetch, left>> /\ pass' = Without(i)
      BY <1>1 DEF NotSent
  <2> QED
      BY <2>1, GoesOnShown
<1>2. CASE ServerRejects
  <2>1. /\ UNCHANGED <<row, shown, override, plain, fetch, left>> /\ pass' = Without(pass.current)
        /\ Received \/ UNCHANGED <<remote, owed>>
      BY <1>2 DEF ServerRejects
  <2>2. pass.current \in DOMAIN pass.todo
      BY <1>2 DEF ServerRejects, IInv, PassInv
  <2>3. \A j \in Instances : \/ remote'[j].localId = remote[j].localId
                             \/ j \in DOMAIN pass.todo /\ remote'[j].localId = pass.todo[j].replacement
      BY <2>1, <2>2, ReceivedTies
  <2> QED
      BY <2>1, <2>3, GoesOnShown
<1>3. CASE LinkThrows
  <2>1. UNCHANGED <<row, shown, override, remote, plain, fetch, left>> /\ pass' = NoPass
      BY <1>3 DEF LinkThrows
  <2> QED
      BY <2>1, GoesOnShown
<1>4. CASE MarkRecurrenceOverrideSynced
  <2>1. /\ UNCHANGED <<row, shown, remote, plain, fetch, left>> /\ pass' = Without(pass.current)
        /\ override' = [override EXCEPT ![pass.current].pending = FALSE]
      BY <1>4 DEF MarkRecurrenceOverrideSynced
  <2>2. \A j \in Instances : override'[j].type = override[j].type /\ override'[j].replacement = override[j].replacement
      BY <2>1 DEF IInv, Shapes, AnyOverride
  <2> QED
      BY <2>1, <2>2, GoesOnShown
<1> QED
    BY <1>1, <1>2, <1>3, <1>4

LEMMA LinkReplacementShown ==
    ASSUME IInv, LeftInv, LinkReplacement
    PROVE  LeftInv'
<1> DEFINE i == pass.current
           r == pass.todo[i].replacement
<1>1. /\ UNCHANGED <<shown, override, remote, plain, fetch, left>> /\ i \in DOMAIN pass.todo /\ i \in Instances
      /\ pass'.batch = pass.batch /\ pass'.todo = pass.todo /\ RowShaped(row)
    BY DEF LinkReplacement, IInv, PassInv, Shapes
<1>2. CASE ~Live(r)
  <2>1. UNCHANGED row
      BY <1>2 DEF LinkReplacement
  <2>2. \A p \in Rows : plain'[p] # NoEvent => Known(p)
      BY <1>1 DEF Known
  <2> QED
      BY <1>1, <2>1, <2>2, PassMovesShown
<1>3. CASE Live(r)
  <2>1. /\ r \in Rows /\ row'[r] = Synced(<<"instance", i>>, row[r].content)
        /\ \A q \in Rows : q # r => row'[q] = row[q]
      BY <1>1, <1>3 DEF LinkReplacement, Live, RowShaped
  <2>2. PICK k \in Instances, q \in Rows : k = i /\ q = r
      BY <1>1, <2>1
  <2>3. /\ k \in DOMAIN pass.todo /\ pass.todo[k].replacement = q /\ Live(q)
        /\ row'[q].link = <<"instance", k>> /\ row'[q].syncStatus = "SYNCED" /\ row'[q] # Gone
        /\ \A p \in Rows : p # q => row'[p] = row[p]
      BY <1>1, <1>3, <2>1, <2>2, SyncedRow
  <2> HIDE DEF i, r
  <2>4. Tied(k, q)
      BY <2>3 DEF Tied
  <2>5. \A j \in Instances : Tied(j, q) => j = k
      BY <2>4 DEF IInv, Ties
  <2>6. \A j \in Instances, p \in Rows : Tied(j, p)' => Tied(j, p) \/ (j = k /\ p = q)
      BY <1>1, <2>3, LinksDiffer DEF Tied
  <2>7. \A p \in Rows : Known(p)' => Known(p)
    <3>1. \A p \in Rows : \A o : row'[p].link = <<"own", o>> => row[p].link = <<"own", o>>
        BY <2>3, LinksDiffer
    <3> QED
        BY <1>1, <3>1, KnownLess
  <2>8. \A j \in Instances, p \in Rows : j # k /\ Tied(j, p)' => Tied(j, p) /\ row'[p] = row[p]
      BY <2>3, <2>5, <2>6
  <2>9. ASSUME k \notin left' PROVE Alone(k)'
    <3>1. Alone(k)
        BY <1>1, <2>9 DEF LeftInv
    <3>2. ~Known(q)' /\ override[k].replacement = q /\ override[k].type = "MODIFIED"
        BY <2>3, <2>4, <2>7, <3>1, OverridesAssumption DEF Alone, LeftInv
    <3>3. ASSUME NEW p \in Rows, Tied(k, p)', Live(p)', p # q PROVE FALSE
      <4>1. Tied(k, p) /\ Live(p)
          BY <2>3, <2>6, <3>3 DEF Live
      <4> QED
          BY <3>1, <3>2, <3>3, <4>1 DEF Alone
    <3> QED
        BY <1>1, <2>3, <3>2, <3>3, AloneMade
  <2>10. override'[k].replacement # NoRow => override'[k].type = "MODIFIED"
      BY <1>1 DEF LeftInv
  <2> QED
      BY <1>1, <2>7, <2>8, <2>9, <2>10, OthersStay
<1> QED
    BY <1>2, <1>3

LEMMA WriteResultsShown ==
    ASSUME IInv, DataInv, LeftInv, WriteResults
    PROVE  LeftInv'
<1> DEFINE same == {r \in DOMAIN pass.batch : row[r] = pass.batch[r]}
           deleted == {r \in same : row[r].syncStatus = "PENDING_DELETE"}
           link(r) == IF row[r].syncStatus = "PENDING_INSERT" THEN <<"own", r>> ELSE row[r].link
<1>1. /\ row' = [r \in Rows |-> IF r \in deleted THEN Gone
                                ELSE IF r \in same THEN Synced(link(r), row[r].content) ELSE row[r]]
      /\ override' = OverridesWithout(deleted) /\ DOMAIN pass'.batch = {} /\ DOMAIN pass'.todo = {}
      /\ UNCHANGED <<shown, remote, plain, fetch, left>>
    BY DEF WriteResults, NoPass
<1>2. same \subseteq DOMAIN pass.batch /\ same \subseteq Rows /\ deleted \in SUBSET Rows
    BY DEF DataInv, PassData
<1>3. \A r \in same : Live(r) /\ Known(r)
    BY <1>2, RowMade DEF Live, Known, DataInv, PassData
<1>4. \A r \in Rows : (r \in deleted => row'[r] = Gone) /\ (r \notin same => row'[r] = row[r])
    BY <1>1
<1>5. \A r \in Rows : row'[r].link \in {row[r].link, Gone.link} \/ (row'[r].link = <<"own", r>> /\ r \in same)
  <2> SUFFICES ASSUME NEW r \in Rows
               PROVE  row'[r].link \in {row[r].link, Gone.link} \/ (row'[r].link = <<"own", r>> /\ r \in same)
      OBVIOUS
  <2>1. CASE r \in same \ deleted
    <3>1. row'[r] = Synced(link(r), row[r].content) /\ r \in same
        BY <1>1, <2>1
    <3> HIDE DEF same, deleted
    <3> QED
        BY <3>1, SyncedRow
  <2> QED
      BY <1>4, <2>1
<1>6. \A j \in Instances :
         /\ override'[j].type = override[j].type
         /\ \/ override[j].replacement \in deleted /\ override'[j].replacement = NoRow
            \/ override[j].replacement \notin deleted /\ override'[j] = override[j]
    BY <1>1, <1>2, OverridesWithoutRows DEF IInv
<1> HIDE DEF same, deleted, link
<1>7. \A j \in Instances, r \in Rows : Tied(j, r)' => Tied(j, r)
  <2>1. \A j \in Instances, r \in Rows :
           /\ row'[r].link = <<"instance", j>> => row[r].link = <<"instance", j>>
           /\ row'[r].link = <<"replacement", j>> => row[r].link = <<"replacement", j>>
      BY <1>5, GoneRow, LinksDiffer
  <2> QED
      BY <1>1, <1>6, <2>1, OverridesAssumption DEF Tied
<1>8. \A r \in Rows : Known(r)' => Known(r)
  <2>1. ASSUME NEW p \in Rows, NEW q \in Rows, row'[q].link = <<"own", p>> PROVE Known(p)
    <3>1. CASE row[q].link = <<"own", p>>
        BY <3>1 DEF Known
    <3>2. CASE row'[q].link = <<"own", q>> /\ q \in same
        BY <1>3, <2>1, <3>2, LinksDiffer
    <3> QED
        BY <1>5, <2>1, <3>1, <3>2, GoneRow
  <2> QED
      BY <1>1, <2>1 DEF Known
<1>9. \A j \in Instances \ left, r \in Rows : Tied(j, r) /\ Live(r)' => Live(r) /\ row'[r] = row[r]
  <2> SUFFICES ASSUME NEW j \in Instances \ left, NEW r \in Rows, Tied(j, r), Live(r)'
               PROVE  Live(r) /\ row'[r] = row[r]
      OBVIOUS
  <2>1. r \notin same
      BY <1>3 DEF LeftInv, Alone
  <2> QED
      BY <1>4, <2>1 DEF Live
<1>10. \A j \in Instances :
         /\ override'[j].type = override[j].type
         /\ \/ override'[j].replacement = override[j].replacement
            \/ override'[j].replacement = NoRow /\ \A r \in Rows : override[j].replacement = r => ~Live(r)'
    BY <1>4, <1>6 DEF Live
<1> QED
    BY <1>1, <1>7, <1>8, <1>9, <1>10, OwnRowsShown

-----------------------------------------------------------------------------
(* A fetch, and the others. *)

LEMMA FetchListsShown ==
    ASSUME IInv, LeftInv, FetchLists
    PROVE  LeftInv'
<1>1. /\ UNCHANGED <<row, shown, override, remote, plain, pass, left>>
      /\ fetch'.instances = [i \in {j \in Instances : remote[j] # AsRuled} |-> remote[i]]
      /\ DOMAIN fetch'.plain = {q \in Rows : plain[q] # NoEvent}
    BY DEF FetchLists
<1>2. \A j \in Instances, r \in Rows : Tied(j, r)' => Tied(j, r)
    BY <1>1 DEF Tied
<1>3. \A r \in Rows : Known(r)' => Known(r)
    BY <1>1 DEF Known
<1> QED
    BY <1>1, <1>2, <1>3, MovesKeep

LEMMA SkipInstanceShown ==
    ASSUME IInv, LeftInv, NEW i \in Instances, SkipInstance(i)
    PROVE  LeftInv'
<1>1. UNCHANGED <<row, shown, override, remote, plain, pass, left>> /\ Stored(i)
    BY DEF SkipInstance
<1>2. /\ fetch'.plain = fetch.plain /\ DOMAIN fetch'.instances \subseteq DOMAIN fetch.instances
      /\ \A j \in DOMAIN fetch'.instances : fetch'.instances[j] = fetch.instances[j]
    BY <1>1, StoredOne DEF IInv, Shapes, Stored
<1>3. \A j \in Instances, r \in Rows : Tied(j, r)' => Tied(j, r)
    BY <1>1, <1>2 DEF Tied
<1>4. \A r \in Rows : Known(r)' => Known(r)
    BY <1>1, <1>2 DEF Known
<1> QED
    BY <1>1, <1>3, <1>4, MovesKeep

LEMMA PersistExceptionShown ==
    ASSUME IInv, LeftInv, NEW i \in Instances, PersistException(i)
    PROVE  LeftInv'
<1>1. /\ i \in DOMAIN fetch.instances /\ UNCHANGED <<shown, remote, plain, pass, left>> /\ Stored(i) /\ RowShaped(row)
    BY DEF PersistException, IInv, Shapes
<1>2. PICK r \in Targets(i) : row' = [row EXCEPT ![r] = Synced(<<"instance", i>>, fetch.instances[i].content)]
    BY DEF PersistException
<1>3. r \in Rows /\ \A j \in Instances : Tied(j, r) => j = i
    BY <1>1, TargetsAreFree
<1>4. /\ row'[r].link = <<"instance", i>> /\ row'[r].syncStatus = "SYNCED"
      /\ \A q \in Rows : q # r => row'[q] = row[q]
    BY <1>1, <1>2, <1>3, SyncedRow DEF RowShaped
<1>5. override' = [override EXCEPT ![i] = Override("MODIFIED", r, FALSE)]
  <2>1. PICK q \in Rows : /\ row'[q].link = <<"instance", i>>
                          /\ override' = [override EXCEPT ![i] = Override("MODIFIED", q, FALSE)]
      BY DEF PersistException, ExceptionOverride
  <2>2. \A p \in Linked(i) : p = r
      BY <1>2 DEF Targets, IInv, Ties
  <2>3. q = r
      BY <1>4, <2>1, <2>2 DEF Linked
  <2> QED
      BY <2>1, <2>3
<1>6. /\ override'[i].type = "MODIFIED" /\ override'[i].replacement = r
      /\ \A j \in Instances : j # i => override'[j] = override[j]
    BY <1>5 DEF IInv, Shapes, Override
<1>7. /\ fetch'.plain = fetch.plain /\ DOMAIN fetch'.instances \subseteq DOMAIN fetch.instances
      /\ \A j \in DOMAIN fetch'.instances : fetch'.instances[j] = fetch.instances[j]
    BY <1>1, StoredOne DEF IInv, Shapes, Stored
<1>8. \A j \in Instances, q \in Rows : Tied(j, q)' => Tied(j, q) \/ (j = i /\ q = r)
    BY <1>1, <1>4, <1>6, <1>7, LinksDiffer DEF Tied
<1>9. \A q \in Rows : Known(q)' => Known(q)
  <2>1. \A q \in Rows : \A p : row'[q].link = <<"own", p>> => row[q].link = <<"own", p>>
      BY <1>4, LinksDiffer
  <2> QED
      BY <1>1, <1>7, <2>1, KnownLess
<1>10. \A j \in Instances, q \in Rows : j # i /\ Tied(j, q)' => Tied(j, q) /\ row'[q] = row[q]
    BY <1>3, <1>4, <1>8
<1>11. ASSUME i \notin left' PROVE Alone(i)'
  <2>1. Alone(i)
      BY <1>1, <1>11 DEF LeftInv
  <2>2. ASSUME NEW q \in Rows, Tied(i, q), Live(q) PROVE r = q /\ ~Known(r)
    <3>1. /\ Stands(i, q) /\ row[q].syncStatus = "SYNCED" /\ ~Known(q)
          /\ override[i].type = "MODIFIED" /\ override[i].replacement = q
        BY <2>1, <2>2 DEF Alone
    <3>2. CASE Linked(i) # {}
      <4>1. Stands(i, r) /\ r \in Rows
          BY <1>2, <3>2 DEF Targets, Stands, Linked
      <4> QED
          BY <2>1, <3>1, <4>1 DEF Alone
    <3>3. CASE Linked(i) = {}
        BY <1>2, <2>2, <3>1, <3>3 DEF Targets
    <3> QED
        BY <3>1, <3>2, <3>3
  <2>3. ASSUME NEW q \in Rows, Tied(i, q)', Live(q)', q # r PROVE FALSE
    <3>1. Tied(i, q) /\ Live(q)
        BY <1>4, <1>8, <2>3 DEF Live
    <3> QED
        BY <2>2, <2>3, <3>1
  <2>4. ~Known(r)
    <3>1. CASE r \in Linked(i)
        BY <2>2, <3>1, StandsTied DEF Stands
    <3>2. CASE Live(r) /\ Tied(i, r)
        BY <1>3, <2>2, <3>2
    <3>3. CASE r \in NewRow
        BY <3>3, NewRowUnknown
    <3> QED
        BY <1>1, <1>2, <3>1, <3>2, <3>3 DEF Targets, Tied
  <2> QED
      BY <1>3, <1>4, <1>6, <1>9, <2>3, <2>4, AloneMade
<1> QED
    BY <1>1, <1>6, <1>9, <1>10, <1>11, OthersStay

LEMMA PersistPlainShown ==
    ASSUME IInv, DataInv, LeftInv, NEW p \in Rows, PersistPlain(p)
    PROVE  LeftInv'
<1> DEFINE rows == {r \in Rows : row[r].link = <<"own", p>>}
<1>1. /\ p \in DOMAIN fetch.plain /\ UNCHANGED <<shown, override, remote, plain, pass, left>>
      /\ RowShaped(row)
    BY DEF PersistPlain, IInv, Shapes
<1>2. /\ fetch'.instances = fetch.instances
      /\ fetch'.plain = [q \in DOMAIN fetch.plain \ {p} |-> fetch.plain[q]]
    BY DEF PersistPlain, IInv, Shapes
<1>3. Known(p)
    BY <1>1 DEF Known
<1>4. ASSUME row' # row
      PROVE  \E r \in Rows : /\ row'[r].link = <<"own", p>> /\ \A q \in Rows : q # r => row'[q] = row[q]
                             /\ row[r].link = <<"own", p>> \/ r = p \/ r \in NewRow
  <2>1. PICK r \in IF rows # {} THEN rows ELSE IF Live(p) THEN {p} ELSE NewRow :
           row' = [row EXCEPT ![r] = Synced(<<"own", p>>, fetch.plain[p])]
      BY <1>4 DEF PersistPlain
  <2>2. r \in Rows /\ (row[r].link = <<"own", p>> \/ r = p \/ r \in NewRow)
      BY <2>1 DEF NewRow
  <2>3. row'[r].link = <<"own", p>> /\ \A q \in Rows : q # r => row'[q] = row[q]
      BY <1>1, <2>1, <2>2, SyncedRow DEF RowShaped
  <2> QED
      BY <2>2, <2>3
<1> HIDE DEF rows
<1>5. \A q \in Rows : row'[q] = row[q] \/ row'[q].link = <<"own", p>>
    BY <1>4
<1>6. \A j \in Instances, q \in Rows : Tied(j, q)' => Tied(j, q)
  <2>1. \A j \in Instances, q \in Rows :
           /\ row'[q].link = <<"instance", j>> => row[q].link = <<"instance", j>>
           /\ row'[q].link = <<"replacement", j>> => row[q].link = <<"replacement", j>>
      BY <1>5, LinksDiffer
  <2> QED
      BY <1>1, <1>2, <2>1 DEF Tied
<1>7. \A q \in Rows : Known(q)' => Known(q)
  <2>1. \A q, o \in Rows : row'[q].link = <<"own", o>> => row[q].link = <<"own", o>> \/ o = p
      BY <1>5, LinksDiffer
  <2> QED
      BY <1>1, <1>2, <1>3, <2>1 DEF Known
<1>8. \A j \in Instances \ left, q \in Rows : Tied(j, q) /\ Live(q)' => Live(q) /\ row'[q] = row[q]
  <2> SUFFICES ASSUME NEW j \in Instances \ left, NEW q \in Rows, Tied(j, q), row'[q] # row[q]
               PROVE  FALSE
      BY DEF Live
  <2>1. row[q].link = <<"own", p>> \/ q = p \/ q \in NewRow
      BY <1>4
  <2>2. ~(q \in NewRow)
      BY NewRowIsFree DEF IInv
  <2>3. row[q].link # <<"own", p>>
    <3> SUFFICES ASSUME row[q].link = <<"own", p>> PROVE FALSE
        OBVIOUS
    <3>1. Live(q) /\ row[q].link \notin {<<"instance", j>>, <<"replacement", j>>}
        BY GoneRow, LinksDiffer DEF Live
    <3> QED
        BY <3>1, RowStands DEF LeftInv, Alone
  <2>4. q = p /\ row[p].link # <<"own", p>>
      BY <2>1, <2>2, <2>3
  <2>5. CASE Live(p)
      BY <1>3, <2>4, <2>5 DEF LeftInv, Alone
  <2>6. CASE ~Live(p)
    <3>1. ~Live(q) /\ q # NoRow
        BY <2>4, <2>6, OverridesAssumption
    <3>2. q \in IF rows # {} THEN rows ELSE IF Live(p) THEN {p} ELSE NewRow
      <4>1. PICK r \in IF rows # {} THEN rows ELSE IF Live(p) THEN {p} ELSE NewRow :
               row' = [row EXCEPT ![r] = Synced(<<"own", p>>, fetch.plain[p])]
          BY DEF PersistPlain, rows
      <4>2. q = r
          BY <4>1
      <4> QED
          BY <4>1, <4>2
    <3> QED
        BY <2>2, <2>3, <2>4, <2>6, <3>2 DEF rows
  <2> QED
      BY <2>5, <2>6
<1> QED
    BY <1>1, <1>6, <1>7, <1>8, OwnRowsShown

LEMMA RemoteWritesShown ==
    ASSUME IInv, LeftInv, NEW i \in Instances, RemoteWrites(i)
    PROVE  LeftInv'
<1>1. /\ UNCHANGED <<row, shown, override, plain, pass, fetch, left>>
      /\ \A j \in Instances : remote'[j].localId = remote[j].localId
    BY DEF RemoteWrites, IInv, Shapes
<1>2. \A j \in Instances, r \in Rows : Tied(j, r)' => Tied(j, r)
    BY <1>1 DEF Tied
<1>3. \A r \in Rows : Known(r)' => Known(r)
    BY <1>1 DEF Known
<1> QED
    BY <1>1, <1>2, <1>3, MovesKeep

LEMMA StutterShown ==
    ASSUME LeftInv, UNCHANGED vars
    PROVE  LeftInv'
<1>1. UNCHANGED <<row, shown, override, remote, plain, pass, fetch, left>>
    BY DEF vars
<1>2. \A j \in Instances, r \in Rows : Tied(j, r)' => Tied(j, r)
    BY <1>1 DEF Tied
<1>3. \A r \in Rows : Known(r)' => Known(r)
    BY <1>1 DEF Known
<1> QED
    BY <1>1, <1>2, <1>3, MovesKeep

LEMMA InitShown == Init => LeftInv
<1> SUFFICES ASSUME Init PROVE LeftInv
    OBVIOUS
<1>1. \A r \in Rows : ~Live(r)
    BY DEF Init, Live
<1>2. \A i \in Instances, r \in Rows : ~Stands(i, r)
    BY GoneRow, RowStands DEF Init
<1> QED
    BY <1>1, <1>2 DEF Init, LeftInv, Alone, NoOverride

LEMMA ShownStep == IInv /\ DataInv /\ ShownData /\ LeftInv /\ [Next]_vars => LeftInv'
<1> SUFFICES ASSUME IInv, DataInv, ShownData, LeftInv, [Next]_vars PROVE LeftInv'
    OBVIOUS
<1>1. CASE UserNext
    BY <1>1, ShowComputedShown, ChangeOccurrenceShown, CancelOccurrenceShown, ShowStoredShown, ChangeStoredShown,
       CancelStoredShown, SaveOwnShown, DeleteOwnShown, EditSeriesShown
    DEF UserNext
<1>2. CASE ReadPending \/ PassStep
  <2>1. CASE \E i \in Instances : NotSent(i)
      BY <2>1, EndsShown
  <2>2. CASE ServerRejects \/ LinkThrows \/ MarkRecurrenceOverrideSynced
    <3>1. Instances # {}
        BY <2>2 DEF ServerRejects, LinkThrows, MarkRecurrenceOverrideSynced, IInv, PassInv
    <3> QED
        BY <2>2, <3>1, EndsShown
  <2> QED
      BY <1>2, <2>1, <2>2, ReadPendingShown, ServerTakesBatchShown, WriteResultsShown, ReadOverridesShown,
         SendOverrideShown, AnswerShown, LinkReplacementShown
      DEF PassStep
<1>3. CASE FetchLists \/ FetchStep
    BY <1>3, FetchListsShown, PersistExceptionShown, PersistCancelledShown, SkipInstanceShown, PersistPlainShown
    DEF FetchStep
<1>4. CASE \E i \in Shared : RemoteWrites(i)
    BY <1>4, RemoteWritesShown, OverridesAssumption
<1>5. CASE UNCHANGED vars
    BY <1>5, StutterShown
<1> QED
    BY <1>1, <1>2, <1>3, <1>4, <1>5 DEF Next

(* Of an instance no save and no fetch left a row behind of, the table has one row at
   most, and its override names that row as the change that replaces what the series
   shows (ApplySingleInstanceEdit, PersistRemoteEvent, linkOverrideReplacementProviderId):
   neither the server, a fetch nor the pass takes such a row for an event of its own
   and makes it one, however their steps and those of the user follow each other.    *)
THEOREM ShownOnceHolds == Spec => []ShownOnce
<1>1. Spec => [](IInv /\ DataInv /\ ShownData /\ LeftInv)
  <2>1. Init => IInv /\ DataInv /\ ShownData /\ LeftInv
      BY InitIInv, InitData, InitShown DEF Init, ShownData, NoneShown
  <2>2. IInv /\ [Next]_vars => IInv'
      BY UserKeeps, PassKeeps, FetchKeeps, RemoteWritesKeeps, StutterKeeps, OverridesAssumption DEF Next
  <2>3. (IInv /\ DataInv /\ ShownData /\ LeftInv) /\ [Next]_vars => (IInv /\ DataInv /\ ShownData /\ LeftInv)'
      BY <2>2, DataStep, ShownDataStep, ShownStep
  <2> QED
      BY <2>1, <2>3, PTL DEF Spec
<1>2. LeftInv => ShownOnce
    BY DEF LeftInv, Alone, Stands, Linked, NotUploaded, ShownOnce
<1> QED
    BY <1>1, <1>2, PTL
=============================================================================
