------------------------ MODULE AccountSessionsProofs ------------------------
(***************************************************************************)
(* AccountSessions, for any users, ids and threads and without regard to its    *)
(* bounds: what the scheduler uploads for is an account of the table, an account *)
(* the user removed stays removed unless a thread was writing it, and what the   *)
(* table stores of a user works as long as the user's last sign-in would.        *)
(*                                                                          *)
(* The window and the threads keep ids of accounts, objects and tokens across   *)
(* steps of each other.  The invariant says what such a copy is worth: an id    *)
(* that was handed out never names another user's account, and an object's     *)
(* token may be replaced but never its user.  Grows is what every step leaves   *)
(* true of copies; each part of the invariant that a step does not write is     *)
(* then kept by one lemma.                                                   *)
(***************************************************************************)
EXTENDS AccountSessions, FiniteSetTheorems, TLAPS

Activating == {"refreshing", "rotated", "asking"}
AnyAccount == [user : Users, token : Nat]
AnyAuth == [at : {"idle", "signing", "storing", "posted"} \cup Activating,
            id : Nat, user : Users \cup {None}, token : Nat, object : Nat]
AnyWork == [at : {"idle", "syncing", "storing"}, id : Nat, object : Nat, old : Nat,
            user : Users \cup {None}, new : Nat]
AnyPost == [kind : {"auth", "silent"}, id : Nat, object : Nat]

(* A token of user u, an object that is one of user u's.                        *)
OfUser(t, u) == t \in 1..Len(owner) /\ owner[t] = u
ObjectOf(o, u) == o \in 1..Len(objects) /\ OfUser(objects[o], u)

(* An id that was handed out: as long as the account exists, it is user u's.    *)
IdOf(id, u) == id < nextId /\ (id \in Stored => table[id].user = u)

(* An object that is kept for an id.                                          *)
Fits(id, o) ==
    /\ id < nextId
    /\ o \in 1..Len(objects)
    /\ id \in Stored => OfUser(objects[o], table[id].user)

TableInv ==
    /\ table \in [Ids -> AnyAccount \cup {Gone}]
    /\ nextId \in Nat
    /\ \A id \in Stored : id < nextId /\ OfUser(table[id].token, table[id].user)
    /\ \A id1, id2 \in Stored : table[id1].user = table[id2].user => id1 = id2

TokensInv ==
    /\ owner \in Seq(Users)
    /\ objects \in Seq(Nat)
    /\ \A o \in 1..Len(objects) : objects[o] \in 1..Len(owner)

LoadedInv ==
    /\ loaded \in [Ids -> AnyAccount \cup {Gone}]
    /\ \A id \in Ids : loaded[id] # Gone =>
           /\ id \in Stored
           /\ table[id].user = loaded[id].user
           /\ OfUser(loaded[id].token, loaded[id].user)

SessionsInv ==
    /\ sessions \in [Ids -> Nat]
    /\ \A id \in Ids : sessions[id] # 0 => Fits(id, sessions[id])

UploadsInv ==
    /\ uploads \in [Ids -> Nat]
    /\ \A id \in Ids : uploads[id] # 0 => Fits(id, uploads[id]) /\ id \in Stored

PostsInv ==
    /\ posts \in Seq(AnyPost)
    /\ \A k \in 1..Len(posts) : posts[k].object # 0 => Fits(posts[k].id, posts[k].object)

(* What a thread that signs in or activates knows about its account.           *)
KnowsAccount(a) ==
    /\ a \in AnyAuth
    /\ a.at \in Activating => a.user \in Users /\ OfUser(a.token, a.user) /\ IdOf(a.id, a.user)
    /\ a.at \in {"rotated", "asking"} => ObjectOf(a.object, a.user)
    /\ a.at = "storing" => a.user \in Users /\ OfUser(a.token, a.user) /\ ObjectOf(a.object, a.user)

(* An account that waits to be restored.                                      *)
Waits(a) == a \in AnyAuth /\ a.user \in Users /\ OfUser(a.token, a.user) /\ IdOf(a.id, a.user)

(* What a thread that uses a session knows.                                   *)
KnowsSession(w) ==
    /\ w \in AnyWork
    /\ w.at = "syncing" => w.id \in Ids /\ Fits(w.id, w.object)
    /\ w.at = "storing" => w.user \in Users /\ OfUser(w.new, w.user)

AuthInv == KnowsAccount(auth)
SilentInv == KnowsAccount(silent) /\ silent.at \in {"idle"} \cup Activating
RestoreInv == \A a \in toRestore : Waits(a)
JobInv == KnowsSession(job)
CoverInv ==
    /\ cover = [c \in Coverers |-> cover[c]]
    /\ \A c \in Coverers : KnowsSession(cover[c])

(* No thread is about to write user u's account.                              *)
NobodyWrites(u) ==
    /\ RowsOf(u) = {}
    /\ auth.at \in Activating => auth.user # u
    /\ silent.at # "idle" => silent.user # u
    /\ \A a \in toRestore : a.user # u
    /\ job.at = "storing" => job.user # u
    /\ \A c \in Coverers : cover[c].at = "storing" => cover[c].user # u

RemovedInv == removed \subseteq Users /\ \A u \in removed \ exposed : NobodyWrites(u)

IInv ==
    /\ TableInv /\ TokensInv
    /\ LoadedInv /\ SessionsInv /\ UploadsInv /\ PostsInv
    /\ AuthInv /\ SilentInv /\ RestoreInv /\ JobInv /\ CoverInv
    /\ RemovedInv

-----------------------------------------------------------------------------
(* What every step leaves true of the copies of ids, objects and tokens.        *)
Grows ==
    /\ nextId' \in Nat /\ nextId <= nextId'
    /\ \A t \in 1..Len(owner) : t \in 1..Len(owner') /\ owner'[t] = owner[t]
    /\ \A o \in 1..Len(objects) :
           /\ o \in 1..Len(objects')
           /\ objects'[o] \in 1..Len(owner')
           /\ owner'[objects'[o]] = owner[objects[o]]
    /\ \A id \in Ids : id < nextId /\ id \in Stored' =>
           id \in Stored /\ table'[id].user = table[id].user

(* Accounts are removed by DeleteAccount only.                                *)
NoneRemoved == \A id \in Stored : id \in Stored'

(* A step that does not touch the provider or the table leaves copies alone.    *)
LEMMA SameGrows ==
    ASSUME TableInv, TokensInv, UNCHANGED <<table, nextId, objects, owner>>
    PROVE  Grows /\ NoneRemoved /\ TableInv' /\ TokensInv'
BY DEF TableInv, TokensInv, Grows, NoneRemoved, Stored, OfUser

(* A copy of an id with an object stays good.                                 *)
LEMMA FitsKept ==
    ASSUME TableInv, TokensInv, Grows, NEW id \in Nat, NEW o, Fits(id, o)
    PROVE  Fits(id, o)'
BY DEF TableInv, TokensInv, Grows, Fits, OfUser, Stored

(* So does what a thread knows of an account, or of a session.                  *)
LEMMA AccountKept ==
    ASSUME TableInv, TokensInv, Grows, NEW a, KnowsAccount(a)
    PROVE  KnowsAccount(a)'
<1>1. a \in AnyAuth /\ a.id \in Nat
    BY DEF KnowsAccount, AnyAuth
<1>2. ASSUME a.at \in Activating
      PROVE  a.user \in Users /\ OfUser(a.token, a.user)' /\ IdOf(a.id, a.user)'
    <2>1. a.user \in Users /\ OfUser(a.token, a.user) /\ IdOf(a.id, a.user)
        BY <1>2 DEF KnowsAccount
    <2>2. OfUser(a.token, a.user)'
        BY <2>1 DEF Grows, OfUser
    <2>3. IdOf(a.id, a.user)'
        BY <1>1, <2>1 DEF Grows, IdOf, Stored, TableInv
    <2> QED BY <2>1, <2>2, <2>3
<1>3. ASSUME a.at \in {"rotated", "asking", "storing"}
      PROVE  ObjectOf(a.object, a.user)'
    BY <1>3 DEF KnowsAccount, ObjectOf, OfUser, Grows
<1>4. ASSUME a.at = "storing"
      PROVE  a.user \in Users /\ OfUser(a.token, a.user)'
    BY <1>4 DEF KnowsAccount, OfUser, Grows
<1> QED BY <1>1, <1>2, <1>3, <1>4 DEF KnowsAccount

LEMMA WaitsKept ==
    ASSUME TableInv, TokensInv, Grows, NEW a, Waits(a)
    PROVE  Waits(a)'
<1>1. a \in AnyAuth /\ a.id \in Nat /\ a.user \in Users
    BY DEF Waits, AnyAuth
<1>2. OfUser(a.token, a.user)'
    BY DEF Waits, OfUser, Grows
<1>3. IdOf(a.id, a.user)'
    BY <1>1 DEF Waits, IdOf, Stored, Grows, TableInv
<1> QED BY <1>1, <1>2, <1>3 DEF Waits

LEMMA SessionKept ==
    ASSUME TableInv, TokensInv, Grows, NEW w, KnowsSession(w)
    PROVE  KnowsSession(w)'
<1>1. w \in AnyWork /\ w.id \in Nat
    BY DEF KnowsSession, AnyWork
<1>2. ASSUME w.at = "syncing" PROVE w.id \in Ids /\ Fits(w.id, w.object)'
    <2>1. w.id \in Ids /\ Fits(w.id, w.object)
        BY <1>2 DEF KnowsSession
    <2>2. PICK id, o : id = w.id /\ o = w.object
        OBVIOUS
    <2>3. Fits(id, o)'
        BY <1>1, <2>1, <2>2, FitsKept
    <2> QED BY <2>1, <2>2, <2>3
<1>3. ASSUME w.at = "storing" PROVE w.user \in Users /\ OfUser(w.new, w.user)'
    BY <1>3 DEF KnowsSession, OfUser, Grows
<1> QED BY <1>1, <1>2, <1>3 DEF KnowsSession

-----------------------------------------------------------------------------
(* The parts of the invariant that a step does not write.                       *)

LEMMA LoadedKept ==
    ASSUME TableInv, LoadedInv, Grows, NoneRemoved, UNCHANGED loaded
    PROVE  LoadedInv'
<1>1. loaded' \in [Ids -> AnyAccount \cup {Gone}]
    BY DEF LoadedInv
<1>2. ASSUME NEW id \in Ids, loaded'[id] # Gone
      PROVE  /\ id \in Stored'
             /\ table'[id].user = loaded'[id].user
             /\ OfUser(loaded[id].token, loaded[id].user)'
    <2>1. /\ id \in Stored
          /\ table[id].user = loaded[id].user
          /\ OfUser(loaded[id].token, loaded[id].user)
        BY <1>2 DEF LoadedInv
    <2>2. id \in Stored' /\ table'[id].user = loaded'[id].user
        BY <2>1 DEF TableInv, Grows, NoneRemoved
    <2>3. OfUser(loaded[id].token, loaded[id].user)'
        BY <2>1 DEF Grows, OfUser
    <2> QED BY <2>2, <2>3
<1> QED BY <1>1, <1>2 DEF LoadedInv

LEMMA SessionsKept ==
    ASSUME TableInv, TokensInv, SessionsInv, Grows, UNCHANGED sessions
    PROVE  SessionsInv'
<1>1. ASSUME NEW id \in Ids, sessions'[id] # 0
      PROVE  Fits(id, sessions[id])'
    <2>1. PICK o : o = sessions[id]
        OBVIOUS
    <2>2. Fits(id, o)'
        BY <1>1, <2>1, FitsKept, AccountsAssumption DEF SessionsInv
    <2> QED BY <2>1, <2>2 DEF Fits
<1> QED BY <1>1 DEF SessionsInv

LEMMA UploadsKept ==
    ASSUME TableInv, TokensInv, UploadsInv, Grows, NoneRemoved, UNCHANGED uploads
    PROVE  UploadsInv'
<1>1. ASSUME NEW id \in Ids, uploads'[id] # 0
      PROVE  Fits(id, uploads[id])' /\ id \in Stored'
    <2>1. PICK o : o = uploads[id]
        OBVIOUS
    <2>2. Fits(id, o)'
        BY <1>1, <2>1, FitsKept, AccountsAssumption DEF UploadsInv
    <2>3. id \in Stored'
        BY <1>1 DEF UploadsInv, NoneRemoved
    <2> QED BY <2>1, <2>2, <2>3 DEF Fits
<1> QED BY <1>1 DEF UploadsInv

LEMMA PostsKept ==
    ASSUME TableInv, TokensInv, PostsInv, Grows, UNCHANGED posts
    PROVE  PostsInv'
<1>1. ASSUME NEW k \in 1..Len(posts), posts[k].object # 0
      PROVE  Fits(posts[k].id, posts[k].object)'
    <2>1. PICK id, o : id = posts[k].id /\ o = posts[k].object
        OBVIOUS
    <2>2. posts[k] \in AnyPost
        BY DEF PostsInv
    <2>3. id \in Nat
        BY <2>1, <2>2 DEF AnyPost
    <2>4. Fits(id, o)'
        BY <1>1, <2>1, <2>3, FitsKept DEF PostsInv
    <2> QED BY <2>1, <2>4 DEF Fits
<1> QED BY <1>1 DEF PostsInv

LEMMA AuthKept ==
    ASSUME TableInv, TokensInv, AuthInv, Grows, UNCHANGED auth
    PROVE  AuthInv'
<1>1. PICK a : a = auth
    OBVIOUS
<1>2. KnowsAccount(a)'
    BY <1>1, AccountKept DEF AuthInv
<1> QED BY <1>1, <1>2 DEF AuthInv, KnowsAccount

LEMMA SilentKept ==
    ASSUME TableInv, TokensInv, SilentInv, Grows, UNCHANGED silent
    PROVE  SilentInv'
<1>1. PICK a : a = silent
    OBVIOUS
<1>2. KnowsAccount(a)'
    BY <1>1, AccountKept DEF SilentInv
<1> QED BY <1>1, <1>2 DEF SilentInv, KnowsAccount

LEMMA RestoreKept ==
    ASSUME TableInv, TokensInv, RestoreInv, Grows, toRestore' \subseteq toRestore
    PROVE  RestoreInv'
<1>1. ASSUME NEW a \in toRestore' PROVE Waits(a)'
    BY WaitsKept DEF RestoreInv
<1> QED BY <1>1 DEF RestoreInv

LEMMA JobKept ==
    ASSUME TableInv, TokensInv, JobInv, Grows, UNCHANGED job
    PROVE  JobInv'
<1>1. PICK w : w = job
    OBVIOUS
<1>2. KnowsSession(w)'
    BY <1>1, SessionKept DEF JobInv
<1> QED BY <1>1, <1>2 DEF JobInv, KnowsSession

LEMMA CoverKept ==
    ASSUME TableInv, TokensInv, CoverInv, Grows, UNCHANGED cover
    PROVE  CoverInv'
<1>1. ASSUME NEW c \in Coverers PROVE KnowsSession(cover[c])'
    <2>1. PICK w : w = cover[c]
        OBVIOUS
    <2>2. KnowsSession(w)'
        BY <2>1, SessionKept DEF CoverInv
    <2> QED BY <2>1, <2>2 DEF KnowsSession
<1> QED BY <1>1 DEF CoverInv

-----------------------------------------------------------------------------
(* AccountRepository::Upsert: the user's row is written, or a new one under an  *)
(* id that nothing has named; other users' rows stay.                          *)
LEMMA UpsertIdFacts ==
    ASSUME TableInv, NEW u
    PROVE  /\ UpsertId(u) \in Nat
           /\ RowsOf(u) # {} => UpsertId(u) \in Stored /\ table[UpsertId(u)].user = u
           /\ RowsOf(u) = {} => UpsertId(u) = nextId
<1>1. RowsOf(u) # {} => UpsertId(u) \in RowsOf(u)
    BY DEF UpsertId
<1> QED BY <1>1, AccountsAssumption DEF RowsOf, Stored, UpsertId, TableInv

LEMMA UpsertFacts ==
    ASSUME TableInv, TokensInv, NEW u \in Users, NEW t, OfUser(t, u), Upsert(u, t),
           UNCHANGED <<objects, owner>>
    PROVE  /\ Grows /\ NoneRemoved /\ TableInv' /\ TokensInv'
           /\ UpsertId(u) \in Nat
           /\ UpsertId(u) < nextId'
           /\ UpsertId(u) \in Stored' => table'[UpsertId(u)].user = u
           /\ \A v : v # u /\ RowsOf(v) = {} => RowsOf(v)' = {}
<1>1. PICK r : r = UpsertId(u)
    OBVIOUS
<1>2. /\ r \in Nat
      /\ RowsOf(u) # {} => r \in Stored /\ table[r].user = u
      /\ RowsOf(u) = {} => r = nextId
    BY <1>1, UpsertIdFacts
<1>3. t \in Nat /\ t \in 1..Len(owner) /\ owner[t] = u
    BY DEF OfUser, TokensInv
<1>4. [user |-> u, token |-> t] \in AnyAccount /\ [user |-> u, token |-> t] # Gone
    BY <1>3, AccountsAssumption DEF AnyAccount, Gone
<1>5. /\ table' \in [Ids -> AnyAccount \cup {Gone}]
      /\ \A id \in Ids : table'[id] = IF id = r THEN [user |-> u, token |-> t] ELSE table[id]
    BY <1>1, <1>4 DEF Upsert, TableInv
<1>6. /\ nextId' \in Nat /\ nextId <= nextId'
      /\ RowsOf(u) = {} => nextId' = nextId + 1
      /\ RowsOf(u) # {} => nextId' = nextId
    BY DEF Upsert, TableInv
<1>7. r < nextId'
    BY <1>2, <1>6 DEF TableInv
<1>8. \A id \in Ids : id \in Stored' <=> id = r \/ id \in Stored
    BY <1>4, <1>5 DEF Stored
<1>9. \A id \in Ids : /\ id = r => table'[id].user = u /\ table'[id].token = t
                      /\ id # r => table'[id] = table[id]
    BY <1>5
<1>10. \A id \in Stored : id < nextId /\ (id # r => table[id].user # u)
    BY <1>2 DEF TableInv, RowsOf, Stored
<1>11. ASSUME NEW id \in Ids, id < nextId, id \in Stored'
       PROVE  id \in Stored /\ table'[id].user = table[id].user
    BY <1>2, <1>8, <1>9, <1>11, AccountsAssumption DEF TableInv
<1>12. Grows
    BY <1>6, <1>11 DEF Grows, TokensInv
<1>13. NoneRemoved
    BY <1>8 DEF NoneRemoved, Stored
<1>14. ASSUME NEW id \in Stored'
       PROVE  id < nextId' /\ table'[id].token \in 1..Len(owner) /\ owner[table'[id].token] = table'[id].user
    <2>1. id \in Ids
        BY DEF Stored
    <2>2. CASE id = r
        BY <1>3, <1>7, <1>9, <2>1, <2>2
    <2>3. CASE id # r
        <3>1. id \in Stored
            BY <1>8, <2>1, <2>3
        <3>2. id < nextId /\ OfUser(table[id].token, table[id].user)
            BY <3>1 DEF TableInv
        <3> QED BY <1>6, <1>9, <2>1, <2>3, <3>2, AccountsAssumption DEF OfUser, TableInv
    <2> QED BY <2>2, <2>3
<1>15. ASSUME NEW id1 \in Stored', NEW id2 \in Stored', table'[id1].user = table'[id2].user
       PROVE  id1 = id2
    <2>1. id1 \in Ids /\ id2 \in Ids
        BY DEF Stored
    <2> QED BY <1>8, <1>9, <1>10, <1>15, <2>1 DEF TableInv
<1>16. TableInv'
    BY <1>5, <1>6, <1>14, <1>15 DEF TableInv, OfUser
<1>17. TokensInv'
    BY DEF TokensInv
<1>18. ASSUME NEW v, v # u, RowsOf(v) = {} PROVE RowsOf(v)' = {}
    BY <1>8, <1>9, <1>18 DEF RowsOf, Stored
<1> QED BY <1>1, <1>2, <1>7, <1>8, <1>9, <1>12, <1>13, <1>16, <1>17, <1>18 DEF Stored

(* The provider issues a token of user u, and object o is it from now on, or a  *)
(* new object is.                                                            *)
LEMMA IssueFacts ==
    ASSUME TableInv, TokensInv, NEW u \in Users, Issue(u), UNCHANGED <<table, nextId>>,
           \/ UNCHANGED objects
           \/ NewObject(Len(owner'))
           \/ \E o \in 1..Len(objects) :
                  owner[objects[o]] = u /\ objects' = [objects EXCEPT ![o] = Len(owner')]
    PROVE  /\ Grows /\ NoneRemoved /\ TableInv' /\ TokensInv'
           /\ Len(owner') \in 1..Len(owner') /\ owner'[Len(owner')] = u
<1>1. /\ owner' \in Seq(Users) /\ Len(owner') = Len(owner) + 1 /\ owner'[Len(owner')] = u
      /\ \A t \in 1..Len(owner) : t \in 1..Len(owner') /\ owner'[t] = owner[t]
    BY DEF Issue, TokensInv
<1>2. Len(owner') \in 1..Len(owner') /\ Len(owner') \in Nat
    BY <1>1 DEF TokensInv
<1>3. /\ objects' \in Seq(Nat)
      /\ \A o \in 1..Len(objects) : /\ o \in 1..Len(objects')
                                    /\ objects'[o] \in 1..Len(owner')
                                    /\ owner'[objects'[o]] = owner[objects[o]]
      /\ \A o \in 1..Len(objects') : objects'[o] \in 1..Len(owner')
    <2>1. \A o \in 1..Len(objects) :
              /\ objects[o] \in 1..Len(owner')
              /\ owner'[objects[o]] = owner[objects[o]]
        BY <1>1 DEF TokensInv
    <2>2. CASE UNCHANGED objects
        BY <2>1, <2>2 DEF TokensInv
    <2>3. CASE NewObject(Len(owner'))
        <3>1. /\ objects' \in Seq(Nat) /\ Len(objects') = Len(objects) + 1
              /\ objects'[Len(objects')] = Len(owner')
              /\ \A o \in 1..Len(objects) : o \in 1..Len(objects') /\ objects'[o] = objects[o]
            BY <1>2, <2>3 DEF NewObject, TokensInv
        <3>2. \A o \in 1..Len(objects') : o \in 1..Len(objects) \/ o = Len(objects')
            BY <3>1 DEF TokensInv
        <3> QED BY <1>2, <2>1, <3>1, <3>2
    <2>4. ASSUME NEW o \in 1..Len(objects), owner[objects[o]] = u,
                 objects' = [objects EXCEPT ![o] = Len(owner')]
          PROVE  <1>3!1 /\ <1>3!2 /\ <1>3!3
        <3>1. /\ objects' \in Seq(Nat) /\ Len(objects') = Len(objects)
              /\ objects'[o] = Len(owner')
              /\ \A q \in 1..Len(objects) : q # o => objects'[q] = objects[q]
            BY <1>2, <2>4 DEF TokensInv
        <3> QED BY <1>1, <1>2, <2>1, <2>4, <3>1
    <2> QED BY <2>2, <2>3, <2>4
<1>4. Grows
    BY <1>1, <1>3 DEF Grows, TableInv, Stored
<1>5. NoneRemoved /\ TokensInv'
    BY <1>1, <1>3 DEF NoneRemoved, Stored, TokensInv
<1>6. TableInv'
    BY <1>1 DEF TableInv, Stored, OfUser
<1> QED BY <1>1, <1>2, <1>4, <1>5, <1>6

(* A new object for a token that is there.                                    *)
LEMMA NewObjectFacts ==
    ASSUME TableInv, TokensInv, NEW t \in 1..Len(owner), NewObject(t),
           UNCHANGED <<table, nextId, owner>>
    PROVE  /\ Grows /\ NoneRemoved /\ TableInv' /\ TokensInv'
           /\ Len(objects') \in 1..Len(objects') /\ objects'[Len(objects')] = t
<1>1. t \in Nat
    BY DEF TokensInv
<1>2. /\ objects' \in Seq(Nat) /\ Len(objects') = Len(objects) + 1 /\ objects'[Len(objects')] = t
      /\ \A o \in 1..Len(objects) : o \in 1..Len(objects') /\ objects'[o] = objects[o]
    BY <1>1 DEF NewObject, TokensInv
<1>3. Len(objects') \in 1..Len(objects')
      /\ \A o \in 1..Len(objects') : o \in 1..Len(objects) \/ o = Len(objects')
    BY <1>2 DEF TokensInv
<1>4. Grows /\ NoneRemoved
    BY <1>2 DEF Grows, TableInv, Stored, TokensInv, NoneRemoved
<1>5. TokensInv' /\ TableInv'
    BY <1>2, <1>3 DEF TokensInv, TableInv, Stored, OfUser
<1> QED BY <1>2, <1>3, <1>4, <1>5

(* A result that is posted to the window.                                     *)
LEMMA PostKept ==
    ASSUME TableInv, TokensInv, PostsInv, Grows, NEW kind \in {"auth", "silent"}, NEW id \in Nat,
           NEW o \in Nat, Post(kind, id, o), o # 0 => Fits(id, o)'
    PROVE  PostsInv'
<1>1. PICK p : p = [kind |-> kind, id |-> id, object |-> o]
    OBVIOUS
<1>2. p \in AnyPost
    BY <1>1 DEF AnyPost
<1>3. posts' = Append(posts, p) /\ posts \in Seq(AnyPost)
    BY <1>1 DEF Post, PostsInv
<1>4. /\ posts' \in Seq(AnyPost) /\ Len(posts') = Len(posts) + 1 /\ posts'[Len(posts')] = p
      /\ \A k \in 1..Len(posts) : posts'[k] = posts[k]
    BY <1>2, <1>3
<1>5. ASSUME NEW k \in 1..Len(posts'), posts'[k].object # 0
      PROVE  Fits(posts[k].id, posts[k].object)'
    <2>1. CASE k = Len(posts')
        BY <1>1, <1>4, <1>5, <2>1 DEF Fits
    <2>2. CASE k # Len(posts')
        <3>1. k \in 1..Len(posts)
            BY <1>3, <1>4, <2>2
        <3>2. PICK i, q : i = posts[k].id /\ q = posts[k].object
            OBVIOUS
        <3>3. posts[k] \in AnyPost
            BY <1>3, <3>1
        <3>4. i \in Nat
            BY <3>2, <3>3 DEF AnyPost
        <3>5. Fits(i, q)
            BY <1>4, <1>5, <3>1, <3>2 DEF PostsInv
        <3>6. Fits(i, q)'
            BY <3>4, <3>5, FitsKept
        <3> QED BY <1>4, <3>1, <3>2, <3>6 DEF Fits
    <2> QED BY <2>1, <2>2
<1> QED BY <1>4, <1>5 DEF PostsInv

-----------------------------------------------------------------------------
(* Signing in.                                                              *)

(* A step of one thread that names no account it did not name before.           *)
LEMMA RemovedKept ==
    ASSUME RemovedInv, UNCHANGED <<table, removed, exposed>>, toRestore' \subseteq toRestore,
           auth'.at \in Activating => auth.at \in Activating /\ auth'.user = auth.user,
           silent'.at # "idle" => \/ silent.at # "idle" /\ silent'.user = silent.user
                                  \/ \E a \in toRestore : a.user = silent'.user,
           job'.at = "storing" => job.at = "storing" /\ job'.user = job.user,
           \A c \in Coverers :
               cover'[c].at = "storing" => cover[c].at = "storing" /\ cover'[c].user = cover[c].user
    PROVE  RemovedInv'
BY DEF RemovedInv, NobodyWrites, RowsOf, Stored

LEMMA AddAccountKeeps == ASSUME IInv, AddAccount PROVE IInv'
<1> USE DEF IInv
<1>1. UNCHANGED <<table, nextId, objects, owner, loaded, sessions, uploads, posts, silent,
                  toRestore, job, cover, removed, exposed>>
    BY DEF AddAccount, serverVars, windowVars, historyVars
<1>2. Grows /\ NoneRemoved /\ TableInv' /\ TokensInv'
    BY <1>1, SameGrows
<1>3. auth' = [NoAuth EXCEPT !.at = "signing"]
    BY DEF AddAccount
<1>4. auth' \in AnyAuth /\ auth'.at = "signing"
    BY <1>3 DEF NoAuth, AnyAuth
<1>5. AuthInv'
    BY <1>4 DEF AuthInv, KnowsAccount, Activating
<1>6. RemovedInv'
    BY <1>1, <1>4, RemovedKept DEF Activating
<1> QED BY <1>1, <1>2, <1>5, <1>6, LoadedKept, SessionsKept, UploadsKept, PostsKept, SilentKept,
           RestoreKept, JobKept, CoverKept

LEMMA SignsInKeeps == ASSUME IInv, NEW u \in Users, SignsIn(u) PROVE IInv'
<1> USE DEF IInv
<1>1. UNCHANGED <<table, nextId, loaded, sessions, uploads, posts, silent,
                  toRestore, job, cover, removed, exposed>>
    BY DEF SignsIn, windowVars, historyVars
<1>2. Issue(u) /\ NewObject(Len(owner'))
    BY DEF SignsIn
<1>3. /\ Grows /\ NoneRemoved /\ TableInv' /\ TokensInv'
      /\ Len(owner') \in 1..Len(owner') /\ owner'[Len(owner')] = u
    BY <1>1, <1>2, IssueFacts
<1>4. PICK t, o : t = Len(owner') /\ o = Len(objects')
    OBVIOUS
<1>5. /\ o \in 1..Len(objects') /\ objects'[o] = t /\ o \in Nat
      /\ t \in 1..Len(owner') /\ owner'[t] = u /\ t \in Nat
    <2>1. t \in 1..Len(owner') /\ owner'[t] = u /\ t \in Nat
        BY <1>3, <1>4 DEF TokensInv
    <2>2. objects' = Append(objects, t) /\ objects \in Seq(Nat)
        BY <1>2, <1>4 DEF NewObject, TokensInv
    <2>3. o \in 1..Len(objects') /\ objects'[o] = t /\ o \in Nat
        BY <1>4, <2>1, <2>2
    <2> QED BY <2>1, <2>3
<1>6. /\ auth' = [auth EXCEPT !.at = "storing", !.user = u, !.token = t, !.object = o]
      /\ auth.at = "signing"
    BY <1>4 DEF SignsIn
<1>7. /\ auth' \in AnyAuth /\ auth'.at = "storing"
      /\ auth'.user = u /\ auth'.token = t /\ auth'.object = o
    BY <1>5, <1>6 DEF AuthInv, KnowsAccount, AnyAuth
<1>8. AuthInv'
    BY <1>5, <1>7 DEF AuthInv, KnowsAccount, Activating, OfUser, ObjectOf
<1>9. RemovedInv'
    BY <1>1, <1>7, RemovedKept DEF Activating
<1> QED BY <1>1, <1>3, <1>8, <1>9, LoadedKept, SessionsKept, UploadsKept, PostsKept, SilentKept,
           RestoreKept, JobKept, CoverKept

LEMMA SignInFailsKeeps == ASSUME IInv, SignInFails PROVE IInv'
<1> USE DEF IInv
<1>1. /\ UNCHANGED <<table, nextId, objects, owner, loaded, sessions, uploads, silent,
                     toRestore, job, cover, removed, exposed>>
      /\ auth' = [auth EXCEPT !.at = "posted"]
      /\ Post("auth", 0, 0)
    BY DEF SignInFails, serverVars, windowVars, historyVars
<1>2. Grows /\ NoneRemoved /\ TableInv' /\ TokensInv'
    BY <1>1, SameGrows
<1>3. auth' \in AnyAuth /\ auth'.at = "posted"
    BY <1>1 DEF AuthInv, KnowsAccount, AnyAuth
<1>4. AuthInv'
    BY <1>3 DEF AuthInv, KnowsAccount, Activating
<1>5. PostsInv'
    BY <1>1, <1>2, PostKept
<1>6. RemovedInv'
    BY <1>1, <1>3, RemovedKept DEF Activating
<1> QED BY <1>1, <1>2, <1>4, <1>5, <1>6, LoadedKept, SessionsKept, UploadsKept, SilentKept,
           RestoreKept, JobKept, CoverKept

(* The sign-in of a user writes that user's row and no other, and the user is   *)
(* not a removed one any more.                                               *)
LEMMA AddStoresKeeps == ASSUME IInv, AddStores PROVE IInv'
<1> USE DEF IInv
<1>1. /\ UNCHANGED <<objects, owner, loaded, sessions, uploads, silent, toRestore, job, cover>>
      /\ auth.at = "storing"
      /\ auth' = [auth EXCEPT !.at = "posted"]
      /\ removed' = removed \ {auth.user}
      /\ exposed' = exposed \ {auth.user}
    BY DEF AddStores, serverVars, windowVars
<1>2. PICK u, t, o : u = auth.user /\ t = auth.token /\ o = auth.object
    OBVIOUS
<1>3. u \in Users /\ OfUser(t, u) /\ ObjectOf(o, u) /\ auth \in AnyAuth /\ o \in Nat
    BY <1>1, <1>2 DEF AuthInv, KnowsAccount, Activating, AnyAuth
<1>4. Upsert(u, t) /\ Post("auth", UpsertId(u), o)
    BY <1>2 DEF AddStores
<1>5. /\ Grows /\ NoneRemoved /\ TableInv' /\ TokensInv'
      /\ UpsertId(u) \in Nat
      /\ UpsertId(u) < nextId'
      /\ UpsertId(u) \in Stored' => table'[UpsertId(u)].user = u
      /\ \A v : v # u /\ RowsOf(v) = {} => RowsOf(v)' = {}
    BY <1>1, <1>3, <1>4, UpsertFacts
<1>6. PICK r : r = UpsertId(u)
    OBVIOUS
<1>7. Fits(r, o)'
    BY <1>1, <1>3, <1>5, <1>6 DEF Fits, ObjectOf, OfUser
<1>8. PostsInv'
    BY <1>3, <1>4, <1>5, <1>6, <1>7, PostKept
<1>9. auth' \in AnyAuth /\ auth'.at = "posted"
    BY <1>1, <1>3 DEF AnyAuth
<1>10. AuthInv'
    BY <1>9 DEF AuthInv, KnowsAccount, Activating
<1>11. RemovedInv'
    <2>1. ASSUME NEW v \in removed' \ exposed' PROVE NobodyWrites(v)'
        <3>1. v # u /\ NobodyWrites(v)
            BY <1>1, <1>2 DEF RemovedInv
        <3>2. RowsOf(v)' = {}
            BY <1>5, <3>1 DEF NobodyWrites
        <3> QED BY <1>1, <1>9, <3>1, <3>2 DEF NobodyWrites, Activating
    <2> QED BY <1>1, <2>1 DEF RemovedInv
<1> QED BY <1>1, <1>5, <1>8, <1>10, <1>11, LoadedKept, SessionsKept, UploadsKept, SilentKept,
           RestoreKept, JobKept, CoverKept

LEMMA LogInKeeps == ASSUME IInv, NEW id \in Ids, LogIn(id) PROVE IInv'
<1> USE DEF IInv
<1>1. /\ UNCHANGED <<table, nextId, objects, owner, loaded, sessions, uploads, posts, silent,
                     toRestore, job, cover, removed, exposed>>
      /\ loaded[id] # Gone
      /\ auth' = [NoAuth EXCEPT !.at = "refreshing", !.id = id, !.user = loaded[id].user,
                                !.token = loaded[id].token]
    BY DEF LogIn, serverVars, historyVars
<1>2. Grows /\ NoneRemoved /\ TableInv' /\ TokensInv'
    BY <1>1, SameGrows
<1>3. PICK u, t : u = loaded[id].user /\ t = loaded[id].token
    OBVIOUS
<1>4. /\ u \in Users /\ t \in Nat /\ OfUser(t, u) /\ id \in Stored /\ table[id].user = u
      /\ id \in Nat /\ id < nextId
    BY <1>1, <1>3, AccountsAssumption DEF LoadedInv, AnyAccount, TableInv
<1>5. auth' = [NoAuth EXCEPT !.at = "refreshing", !.id = id, !.user = u, !.token = t]
    BY <1>1, <1>3
<1>6. /\ auth' \in AnyAuth /\ auth'.at = "refreshing" /\ auth'.id = id
      /\ auth'.user = u /\ auth'.token = t
    BY <1>4, <1>5 DEF NoAuth, AnyAuth, Activating
<1>7. OfUser(t, u)' /\ IdOf(id, u)'
    BY <1>1, <1>4 DEF OfUser, IdOf, Stored
<1>8. AuthInv'
    BY <1>4, <1>6, <1>7 DEF AuthInv, KnowsAccount, Activating, OfUser, IdOf, Stored
<1>9. RemovedInv'
    <2>1. ASSUME NEW v \in removed \ exposed PROVE NobodyWrites(v)'
        <3>1. NobodyWrites(v)
            BY <2>1 DEF RemovedInv
        <3>2. v # u
            BY <1>4, <3>1 DEF NobodyWrites, RowsOf
        <3>3. RowsOf(v)' = {}
            BY <1>1, <3>1 DEF NobodyWrites, RowsOf, Stored
        <3> QED BY <1>1, <1>6, <3>1, <3>2, <3>3 DEF NobodyWrites
    <2> QED BY <1>1, <2>1 DEF RemovedInv
<1> QED BY <1>1, <1>2, <1>8, <1>9, LoadedKept, SessionsKept, UploadsKept, PostsKept, SilentKept,
           RestoreKept, JobKept, CoverKept

LEMMA RestoreNextKeeps == ASSUME IInv, NEW a \in toRestore, RestoreNext(a) PROVE IInv'
<1> USE DEF IInv
<1>1. /\ UNCHANGED <<table, nextId, objects, owner, loaded, sessions, uploads, posts, auth,
                     job, cover, removed, exposed>>
      /\ silent' = [a EXCEPT !.at = "refreshing"]
      /\ toRestore' = toRestore \ {a}
    BY DEF RestoreNext, serverVars, historyVars, windowVars
<1>2. Grows /\ NoneRemoved /\ TableInv' /\ TokensInv'
    BY <1>1, SameGrows
<1>3. a \in AnyAuth /\ Waits(a)'
    BY <1>2, WaitsKept DEF RestoreInv, Waits
<1>4. /\ silent' \in AnyAuth /\ silent'.at = "refreshing" /\ silent'.id = a.id
      /\ silent'.user = a.user /\ silent'.token = a.token
    BY <1>1, <1>3 DEF AnyAuth, Activating
<1>5. SilentInv'
    BY <1>3, <1>4 DEF SilentInv, KnowsAccount, Waits, Activating, OfUser, IdOf
<1>6. RemovedInv'
    BY <1>1, <1>4, RemovedKept DEF Activating
<1> QED BY <1>1, <1>2, <1>5, <1>6, LoadedKept, SessionsKept, UploadsKept, PostsKept, AuthKept,
           RestoreKept, JobKept, CoverKept

-----------------------------------------------------------------------------
(* Activations, by the thread of a log-in or by the one that restores.          *)

Does(th, a) == \/ th = "auth" /\ a = auth
               \/ th = "silent" /\ a = silent

(* What the thread goes on with is as good as before, and is the same user's.    *)
LEMMA ActivationKeeps ==
    ASSUME IInv, Grows, NoneRemoved, TableInv', TokensInv', PostsInv',
           NEW th, NEW a, NEW n, Does(th, a), a.at \in Activating, Becomes(th, n),
           KnowsAccount(n)', (n.at \in Activating /\ n.user = a.user) \/ n = Ended(th),
           UNCHANGED <<loaded, sessions, uploads, toRestore, job, cover, removed, exposed>>,
           \A v : v # a.user /\ RowsOf(v) = {} => RowsOf(v)' = {}
    PROVE  IInv'
<1> USE DEF IInv
<1>1. AuthInv' /\ SilentInv'
    <2>1. CASE th = "auth"
        <3>1. auth' = n /\ UNCHANGED silent
            BY <2>1 DEF Becomes
        <3> QED BY <3>1, SilentKept DEF AuthInv, KnowsAccount
    <2>2. CASE th # "auth"
        <3>1. silent' = n /\ UNCHANGED auth
            BY <2>2 DEF Becomes
        <3>2. n.at \in {"idle"} \cup Activating
            BY <2>2 DEF Ended, NoAuth
        <3> QED BY <3>1, <3>2, AuthKept DEF SilentInv, KnowsAccount
    <2> QED BY <2>1, <2>2
<1>2. ASSUME NEW v \in removed \ exposed PROVE NobodyWrites(v)'
    <2>1. NobodyWrites(v)
        BY DEF RemovedInv
    <2>2. v # a.user
        BY <2>1 DEF NobodyWrites, Does, Activating
    <2>3. RowsOf(v)' = {}
        BY <2>1, <2>2 DEF NobodyWrites
    <2>4. auth'.at \in Activating => auth'.user # v
        <3>1. CASE th = "auth"
            <4>1. auth' = n /\ a = auth /\ auth \in AnyAuth
                BY <3>1 DEF Becomes, Does, AuthInv, KnowsAccount
            <4>2. CASE n = Ended(th)
                <5>1. auth' = [auth EXCEPT !.at = "posted"]
                    BY <3>1, <4>1, <4>2 DEF Ended
                <5> QED BY <4>1, <5>1 DEF AnyAuth, Activating
            <4> QED BY <2>2, <4>1, <4>2
        <3>2. CASE th # "auth"
            BY <2>1, <3>2 DEF Becomes, NobodyWrites
        <3> QED BY <3>1, <3>2
    <2>5. silent'.at # "idle" => silent'.user # v
        <3>1. CASE th = "auth"
            BY <2>1, <3>1 DEF Becomes, NobodyWrites
        <3>2. CASE th # "auth"
            BY <2>2, <3>2 DEF Becomes, Ended, NoAuth
        <3> QED BY <3>1, <3>2
    <2> QED BY <2>1, <2>3, <2>4, <2>5 DEF NobodyWrites
<1>3. RemovedInv'
    BY <1>2 DEF RemovedInv
<1> QED BY <1>1, <1>3, LoadedKept, SessionsKept, UploadsKept, RestoreKept, JobKept, CoverKept

(* The record of a thread that is done.                                       *)
LEMMA EndedKnows ==
    ASSUME IInv, NEW th, NEW a, Does(th, a), NEW n, n = Ended(th)
    PROVE  KnowsAccount(n)'
<1>1. auth \in AnyAuth
    BY DEF IInv, AuthInv, KnowsAccount
<1>2. n \in AnyAuth /\ n.at \in {"posted", "idle"}
    BY <1>1 DEF Ended, NoAuth, AnyAuth
<1> QED BY <1>2 DEF KnowsAccount, Activating

LEMMA DoesKnow ==
    ASSUME IInv, NEW th, NEW a, Does(th, a)
    PROVE  KnowsAccount(a) /\ a \in AnyAuth /\ a.id \in Nat /\ th \in {"auth", "silent"}
BY DEF IInv, Does, AuthInv, SilentInv, KnowsAccount, AnyAuth

LEMMA RefreshFailsKeeps ==
    ASSUME IInv, NEW th, NEW a, Does(th, a), RefreshFails(th, a)
    PROVE  IInv'
<1>1. /\ UNCHANGED <<table, nextId, objects, owner, loaded, sessions, uploads, toRestore, job,
                     cover, removed, exposed>>
      /\ a.at = "refreshing"
      /\ Post(th, a.id, 0)
      /\ Becomes(th, Ended(th))
    BY DEF RefreshFails, serverVars, windowVars, historyVars
<1>2. Grows /\ NoneRemoved /\ TableInv' /\ TokensInv'
    BY <1>1, SameGrows DEF IInv
<1>3. PICK i : i = a.id
    OBVIOUS
<1>4. PostsInv'
    BY <1>1, <1>2, <1>3, DoesKnow, PostKept DEF IInv
<1>5. PICK n : n = Ended(th)
    OBVIOUS
<1>6. KnowsAccount(n)' /\ Becomes(th, n)
    BY <1>1, <1>5, EndedKnows
<1>7. \A v : RowsOf(v) = {} => RowsOf(v)' = {}
    BY <1>1 DEF RowsOf, Stored
<1> QED BY <1>1, <1>2, <1>4, <1>5, <1>6, <1>7, ActivationKeeps DEF Activating

LEMMA RefreshesKeeps ==
    ASSUME IInv, NEW th, NEW a, Does(th, a), Refreshes(th, a)
    PROVE  IInv'
<1>1. /\ UNCHANGED <<table, nextId, loaded, sessions, uploads, posts, toRestore, job,
                     cover, removed, exposed>>
      /\ a.at = "refreshing"
    BY DEF Refreshes, windowVars, historyVars
<1>2. /\ KnowsAccount(a) /\ a \in AnyAuth
      /\ a.user \in Users /\ OfUser(a.token, a.user) /\ IdOf(a.id, a.user)
    BY <1>1, DoesKnow DEF KnowsAccount, Activating
<1>3. PICK u, t, i : u = a.user /\ t = a.token /\ i = a.id
    OBVIOUS
<1>4. t \in 1..Len(owner) /\ owner[t] = u /\ u \in Users /\ i \in Nat
    BY <1>2, <1>3 DEF OfUser, AnyAuth
<1>5. \A v : RowsOf(v) = {} => RowsOf(v)' = {}
    BY <1>1 DEF RowsOf, Stored
<1>6. CASE NewObject(t) /\ UNCHANGED owner /\ Becomes(th, [a EXCEPT !.at = "asking", !.object = Len(objects')])
    <2>1. /\ Grows /\ NoneRemoved /\ TableInv' /\ TokensInv'
          /\ Len(objects') \in 1..Len(objects') /\ objects'[Len(objects')] = t
        BY <1>1, <1>4, <1>6, NewObjectFacts DEF IInv
    <2>2. PICK o, n : o = Len(objects') /\ n = [a EXCEPT !.at = "asking", !.object = o]
        OBVIOUS
    <2>o. o \in Nat
        BY <2>1, <2>2 DEF TokensInv
    <2>3. n \in AnyAuth /\ n.at = "asking" /\ n.user = u /\ n.token = t /\ n.id = i
          /\ n.object = o
        BY <1>2, <1>3, <2>2, <2>o DEF AnyAuth, Activating
    <2>4. OfUser(t, u)' /\ ObjectOf(o, u)' /\ IdOf(i, u)'
        BY <1>1, <1>2, <1>3, <1>4, <1>6, <2>1, <2>2 DEF OfUser, ObjectOf, IdOf, Stored
    <2>5. KnowsAccount(n)'
        BY <1>4, <2>3, <2>4 DEF KnowsAccount
    <2>6. Becomes(th, n) /\ PostsInv'
        BY <1>1, <1>6, <2>1, <2>2, PostsKept DEF IInv
    <2> QED BY <1>1, <1>3, <1>5, <2>1, <2>3, <2>5, <2>6, ActivationKeeps DEF Activating
<1>7. CASE /\ Issue(u) /\ NewObject(Len(owner'))
           /\ Becomes(th, [a EXCEPT !.at = "rotated", !.token = Len(owner'), !.object = Len(objects')])
    <2>1. /\ Grows /\ NoneRemoved /\ TableInv' /\ TokensInv'
          /\ Len(owner') \in 1..Len(owner') /\ owner'[Len(owner')] = u
        BY <1>1, <1>4, <1>7, IssueFacts DEF IInv
    <2>2. PICK s, o, n : /\ s = Len(owner') /\ o = Len(objects')
                         /\ n = [a EXCEPT !.at = "rotated", !.token = s, !.object = o]
        OBVIOUS
    <2>3. s \in Nat /\ objects' = Append(objects, s) /\ objects \in Seq(Nat)
        BY <1>7, <2>1, <2>2 DEF NewObject, TokensInv, IInv
    <2>4. o \in Nat /\ o \in 1..Len(objects') /\ objects'[o] = s
        BY <2>2, <2>3
    <2>5. n \in AnyAuth /\ n.at = "rotated" /\ n.user = u /\ n.token = s /\ n.id = i
          /\ n.object = o
        BY <1>2, <1>3, <2>2, <2>3, <2>4 DEF AnyAuth, Activating
    <2>6. OfUser(s, u)' /\ ObjectOf(o, u)' /\ IdOf(i, u)'
        BY <1>1, <1>2, <1>3, <2>1, <2>2, <2>4 DEF OfUser, ObjectOf, IdOf, Stored
    <2>7. KnowsAccount(n)'
        BY <1>4, <2>5, <2>6 DEF KnowsAccount
    <2>8. Becomes(th, n) /\ PostsInv'
        BY <1>1, <1>7, <2>1, <2>2, PostsKept DEF IInv
    <2> QED BY <1>1, <1>3, <1>5, <2>1, <2>5, <2>7, <2>8, ActivationKeeps DEF Activating
<1> QED BY <1>3, <1>4, <1>6, <1>7 DEF Refreshes

LEMMA StoreRotatedKeeps ==
    ASSUME IInv, NEW th, NEW a, Does(th, a), StoreRotated(th, a)
    PROVE  IInv'
<1>1. /\ UNCHANGED <<objects, owner, loaded, sessions, uploads, posts, toRestore, job,
                     cover, removed, exposed>>
      /\ a.at = "rotated"
      /\ Upsert(a.user, a.token)
      /\ Becomes(th, [a EXCEPT !.at = "asking"])
    BY DEF StoreRotated, serverVars, windowVars, historyVars
<1>2. KnowsAccount(a) /\ a \in AnyAuth /\ a.user \in Users /\ OfUser(a.token, a.user)
    BY <1>1, DoesKnow DEF KnowsAccount, Activating
<1>3. PICK u, t, n : u = a.user /\ t = a.token /\ n = [a EXCEPT !.at = "asking"]
    OBVIOUS
<1>4. /\ Grows /\ NoneRemoved /\ TableInv' /\ TokensInv'
      /\ \A v : v # u /\ RowsOf(v) = {} => RowsOf(v)' = {}
    BY <1>1, <1>2, <1>3, UpsertFacts DEF IInv
<1>5. KnowsAccount(a)'
    BY <1>2, <1>4, AccountKept DEF IInv
<1>6. /\ n \in AnyAuth /\ n.at = "asking" /\ n.user = a.user /\ n.token = a.token /\ n.id = a.id
      /\ n.object = a.object
    BY <1>2, <1>3 DEF AnyAuth, Activating
<1>7. KnowsAccount(n)'
    BY <1>1, <1>5, <1>6 DEF KnowsAccount, Activating, OfUser, ObjectOf, IdOf, Stored
<1>8. Becomes(th, n) /\ PostsInv'
    BY <1>1, <1>3, <1>4, PostsKept DEF IInv
<1> QED BY <1>1, <1>3, <1>4, <1>6, <1>7, <1>8, ActivationKeeps DEF Activating

LEMMA StoreUserInfoKeeps ==
    ASSUME IInv, NEW th, NEW a, Does(th, a), StoreUserInfo(th, a)
    PROVE  IInv'
<1>1. /\ UNCHANGED <<objects, owner, loaded, sessions, uploads, toRestore, job,
                     cover, removed, exposed>>
      /\ a.at = "asking"
      /\ Upsert(a.user, a.token) \/ UNCHANGED <<table, nextId>>
      /\ Becomes(th, Ended(th))
      /\ Post(th, a.id, a.object)
    BY DEF StoreUserInfo, serverVars, windowVars, historyVars
<1>2. /\ KnowsAccount(a) /\ a \in AnyAuth /\ a.user \in Users
      /\ OfUser(a.token, a.user) /\ IdOf(a.id, a.user) /\ ObjectOf(a.object, a.user)
    BY <1>1, DoesKnow DEF KnowsAccount, Activating
<1>3. PICK u, t, i, o, n : /\ u = a.user /\ t = a.token /\ i = a.id /\ o = a.object
                           /\ n = Ended(th)
    OBVIOUS
<1>4. i \in Nat /\ o \in Nat /\ th \in {"auth", "silent"}
    BY <1>2, <1>3, DoesKnow DEF AnyAuth
<1>5. /\ Grows /\ NoneRemoved /\ TableInv' /\ TokensInv'
      /\ \A v : v # u /\ RowsOf(v) = {} => RowsOf(v)' = {}
    <2>1. CASE Upsert(a.user, a.token)
        BY <1>1, <1>2, <1>3, <2>1, UpsertFacts DEF IInv
    <2>2. CASE UNCHANGED <<table, nextId>>
        BY <1>1, <2>2, SameGrows DEF IInv, RowsOf, Stored
    <2> QED BY <1>1, <2>1, <2>2
<1>6. Fits(i, o)
    BY <1>2, <1>3 DEF Fits, IdOf, ObjectOf
<1>7. Fits(i, o)'
    BY <1>4, <1>5, <1>6, FitsKept DEF IInv
<1>8. PostsInv'
    BY <1>1, <1>3, <1>4, <1>5, <1>7, PostKept DEF IInv
<1>9. KnowsAccount(n)' /\ Becomes(th, n)
    BY <1>1, <1>3, EndedKnows
<1> QED BY <1>1, <1>3, <1>5, <1>8, <1>9, ActivationKeeps DEF Activating

LEMMA ActivateKeeps ==
    ASSUME IInv, NEW th, NEW a, Does(th, a), Activate(th, a)
    PROVE  IInv'
BY RefreshFailsKeeps, RefreshesKeeps, StoreRotatedKeeps, StoreUserInfoKeeps DEF Activate

-----------------------------------------------------------------------------
(* The window takes a result: the account of the result may have been removed,   *)
(* and then it is not registered for uploads.                                 *)
LEMMA HandleResultKeeps == ASSUME IInv, HandleResult PROVE IInv'
<1> USE DEF IInv
<1>1. /\ UNCHANGED <<table, nextId, objects, owner, silent, toRestore, job, cover, removed,
                     exposed>>
      /\ posts # <<>>
      /\ posts' = Tail(posts)
    BY DEF HandleResult, serverVars, historyVars
<1>2. Grows /\ NoneRemoved /\ TableInv' /\ TokensInv'
    BY <1>1, SameGrows
<1>3. /\ Len(posts) \in Nat /\ Len(posts) > 0 /\ posts' \in Seq(AnyPost)
      /\ Len(posts') = Len(posts) - 1
      /\ \A k \in 1..Len(posts') : k + 1 \in 1..Len(posts) /\ posts'[k] = posts[k + 1]
    BY <1>1 DEF PostsInv
<1>4. PostsInv'
    <2>1. ASSUME NEW k \in 1..Len(posts'), posts'[k].object # 0
          PROVE  Fits(posts[k].id, posts[k].object)'
        <3>1. PICK j, p : j = k + 1 /\ p = posts[j]
            OBVIOUS
        <3>2. j \in 1..Len(posts) /\ posts'[k] = p /\ p \in AnyPost
            BY <1>3, <3>1 DEF PostsInv
        <3>3. Fits(p.id, p.object)
            BY <2>1, <3>1, <3>2 DEF PostsInv
        <3> QED BY <1>1, <3>2, <3>3 DEF Fits, OfUser, Stored
    <2> QED BY <1>3, <2>1 DEF PostsInv
<1>5. PICK r : r = Head(posts)
    OBVIOUS
<1>6. /\ r \in AnyPost /\ r.id \in Nat /\ r.object \in Nat
      /\ r.object # 0 => Fits(r.id, r.object)
    <2>1. 1 \in 1..Len(posts) /\ r = posts[1]
        BY <1>3, <1>5 DEF PostsInv
    <2>2. r \in AnyPost /\ (r.object # 0 => Fits(r.id, r.object))
        BY <2>1 DEF PostsInv
    <2> QED BY <2>2 DEF AnyPost
<1>7. /\ auth' = IF r.kind = "auth" THEN NoAuth ELSE auth
      /\ IF r.object = 0 THEN HandleFailure(r.id) ELSE HandleSuccess(r.id, r.object)
    BY <1>5 DEF HandleResult
<1>8. AuthInv'
    <2>1. CASE auth' = NoAuth
        BY <2>1 DEF AuthInv, KnowsAccount, NoAuth, AnyAuth, Activating
    <2>2. CASE auth' = auth
        BY <1>2, <2>2, AuthKept
    <2> QED BY <1>7, <2>1, <2>2
<1>9. LoadedInv' /\ SessionsInv' /\ UploadsInv'
    <2>1. CASE r.object = 0
        <3>1. UNCHANGED <<loaded, sessions, uploads>>
            BY <1>7, <2>1 DEF HandleFailure
        <3> QED BY <1>2, <3>1, LoadedKept, SessionsKept, UploadsKept
    <2>2. CASE r.object # 0
        <3>1. /\ sessions' = [sessions EXCEPT ![r.id] = r.object]
              /\ loaded' = table
              /\ uploads' = Registered(r.id, r.object)
            BY <1>7, <2>2 DEF HandleSuccess
        <3>2. LoadedInv'
            BY <1>1, <3>1 DEF LoadedInv, TableInv, Stored, OfUser
        <3>3. SessionsInv'
            <4>1. sessions' \in [Ids -> Nat]
                BY <1>6, <3>1 DEF SessionsInv
            <4>2. ASSUME NEW id \in Ids, sessions'[id] # 0 PROVE Fits(id, sessions'[id])
                BY <1>6, <2>2, <3>1, <4>2 DEF SessionsInv
            <4> QED BY <1>1, <4>1, <4>2 DEF SessionsInv, Fits, OfUser, Stored
        <3>4. UploadsInv'
            <4>1. uploads' \in [Ids -> Nat]
                BY <1>6, <3>1 DEF UploadsInv, Registered
            <4>2. ASSUME NEW id \in Ids, uploads'[id] # 0
                  PROVE  Fits(id, uploads'[id]) /\ id \in Stored
                <5>1. CASE uploads'[id] = uploads[id]
                    BY <4>2, <5>1 DEF UploadsInv
                <5>2. CASE uploads'[id] # uploads[id]
                    <6>1. /\ loaded[r.id] # Gone \/ table[r.id] # Gone
                          /\ uploads' = [uploads EXCEPT ![r.id] = r.object]
                        BY <3>1, <5>2 DEF Registered
                    <6>2. id = r.id /\ uploads'[id] = r.object
                        BY <5>2, <6>1 DEF UploadsInv
                    <6> QED BY <1>6, <2>2, <6>1, <6>2 DEF LoadedInv, Stored
                <5> QED BY <5>1, <5>2
            <4> QED BY <1>1, <4>1, <4>2 DEF UploadsInv, Fits, OfUser, Stored
        <3> QED BY <3>2, <3>3, <3>4
    <2> QED BY <2>1, <2>2
<1>10. RemovedInv'
    <2>1. auth'.at \in Activating => auth.at \in Activating /\ auth'.user = auth.user
        BY <1>7 DEF NoAuth, Activating
    <2> QED BY <1>1, <2>1, RemovedKept
<1> QED BY <1>1, <1>2, <1>4, <1>8, <1>9, <1>10, SilentKept, RestoreKept, JobKept, CoverKept

(* The user's row goes, and with it the id's session and uploads; copies that   *)
(* threads keep of the id are of no account any more.                          *)
LEMMA DeleteAccountKeeps == ASSUME IInv, NEW id \in Ids, DeleteAccount(id) PROVE IInv'
<1> USE DEF IInv
<1>1. /\ UNCHANGED <<nextId, objects, owner, auth, silent, toRestore, job, cover, posts>>
      /\ auth = NoAuth
      /\ loaded[id] # Gone
      /\ table' = [table EXCEPT ![id] = Gone]
      /\ uploads' = [uploads EXCEPT ![id] = 0]
      /\ sessions' = [sessions EXCEPT ![id] = 0]
      /\ loaded' = table'
      /\ removed' = removed \cup {table[id].user}
      /\ exposed' = (exposed \ {table[id].user}) \cup {v \in {table[id].user} : Writing(v)}
    BY DEF DeleteAccount, serverVars, threadVars
<1>2. PICK u : u = table[id].user
    OBVIOUS
<1>3. u \in Users /\ id \in Stored
    BY <1>1, <1>2 DEF LoadedInv, TableInv, AnyAccount
<1>4. /\ table' \in [Ids -> AnyAccount \cup {Gone}] /\ table'[id] = Gone
      /\ \A j \in Ids : j # id => table'[j] = table[j]
    BY <1>1 DEF TableInv
<1>5. \A j : j \in Stored' <=> j \in Stored /\ j # id
    BY <1>4 DEF Stored
<1>6. TableInv' /\ TokensInv'
    BY <1>1, <1>4, <1>5 DEF TableInv, TokensInv, Stored, OfUser
<1>7. Grows
    BY <1>1, <1>4, <1>5 DEF Grows, TableInv, TokensInv, Stored
<1>8. LoadedInv'
    BY <1>1, <1>6 DEF LoadedInv, TableInv, Stored, OfUser
<1>9. SessionsInv'
    <2>1. sessions' \in [Ids -> Nat]
        BY <1>1 DEF SessionsInv
    <2>2. ASSUME NEW j \in Ids, sessions'[j] # 0 PROVE Fits(j, sessions[j])'
        <3>1. sessions'[j] = sessions[j] /\ Fits(j, sessions[j])
            BY <1>1, <2>2 DEF SessionsInv
        <3>2. PICK o : o = sessions[j]
            OBVIOUS
        <3>3. Fits(j, o)'
            BY <1>7, <3>1, <3>2, FitsKept, AccountsAssumption
        <3> QED BY <3>1, <3>2, <3>3 DEF Fits
    <2> QED BY <2>1, <2>2 DEF SessionsInv
<1>10. UploadsInv'
    <2>1. uploads' \in [Ids -> Nat]
        BY <1>1 DEF UploadsInv
    <2>2. ASSUME NEW j \in Ids, uploads'[j] # 0 PROVE Fits(j, uploads[j])' /\ j \in Stored'
        <3>1. uploads'[j] = uploads[j] /\ j # id /\ Fits(j, uploads[j]) /\ j \in Stored
            BY <1>1, <2>2 DEF UploadsInv
        <3>2. PICK o : o = uploads[j]
            OBVIOUS
        <3>3. Fits(j, o)'
            BY <1>7, <3>1, <3>2, FitsKept, AccountsAssumption
        <3> QED BY <1>5, <3>1, <3>2, <3>3 DEF Fits
    <2> QED BY <2>1, <2>2 DEF UploadsInv
<1>11. RemovedInv'
    <2>1. removed' \subseteq Users
        BY <1>1, <1>2, <1>3 DEF RemovedInv
    <2>2. ASSUME NEW v \in removed' \ exposed' PROVE NobodyWrites(v)'
        <3>1. CASE v = u
            <4>1. ~Writing(v)
                BY <1>1, <1>2, <2>2, <3>1
            <4>2. RowsOf(v)' = {}
                <5>1. ASSUME NEW j \in Stored', table'[j].user = u PROVE FALSE
                    <6>1. j \in Stored /\ j # id /\ j \in Ids
                        BY <1>5 DEF Stored
                    <6> QED BY <1>2, <1>3, <1>4, <5>1, <6>1 DEF TableInv
                <5> QED BY <3>1, <5>1 DEF RowsOf
            <4>3. auth'.at \notin Activating
                BY <1>1 DEF NoAuth, Activating
            <4>4. \A w \in {job} \cup {cover[c] : c \in Coverers} : w.at = "storing" => w.user # v
                BY <4>1 DEF Writing
            <4> QED BY <1>1, <4>1, <4>2, <4>3, <4>4 DEF NobodyWrites, Writing
        <3>2. CASE v # u
            <4>1. NobodyWrites(v)
                BY <1>1, <1>2, <2>2, <3>2 DEF RemovedInv
            <4>2. RowsOf(v)' = {}
                BY <1>4, <1>5, <4>1 DEF NobodyWrites, RowsOf, Stored
            <4> QED BY <1>1, <4>1, <4>2 DEF NobodyWrites
        <3> QED BY <3>1, <3>2
    <2> QED BY <2>1, <2>2 DEF RemovedInv
<1> QED BY <1>1, <1>6, <1>7, <1>8, <1>9, <1>10, <1>11, PostsKept, AuthKept, SilentKept,
           RestoreKept, JobKept, CoverKept

LEMMA UpdateSessionsKeeps == ASSUME IInv, UpdateSessions PROVE IInv'
<1> USE DEF IInv
<1>1. /\ UNCHANGED <<table, nextId, objects, owner, loaded, sessions, posts, auth, silent,
                     toRestore, job, cover, removed, exposed>>
      /\ uploads' = [id \in Ids |-> IF sessions[id] = 0 THEN uploads[id]
                                    ELSE Registered(id, sessions[id])[id]]
    BY DEF UpdateSessions, serverVars, historyVars, threadVars
<1>2. Grows /\ NoneRemoved /\ TableInv' /\ TokensInv'
    BY <1>1, SameGrows
<1>3. ASSUME NEW id \in Ids
      PROVE  \/ uploads'[id] = uploads[id]
             \/ /\ uploads'[id] = sessions[id] /\ sessions[id] # 0
                /\ loaded[id] # Gone \/ table[id] # Gone
    BY <1>1 DEF Registered, UploadsInv
<1>4. uploads' \in [Ids -> Nat]
    BY <1>1, <1>3 DEF UploadsInv, SessionsInv
<1>5. ASSUME NEW id \in Ids, uploads'[id] # 0 PROVE Fits(id, uploads'[id]) /\ id \in Stored
    BY <1>3, <1>5 DEF UploadsInv, SessionsInv, LoadedInv, Stored
<1>6. UploadsInv'
    BY <1>1, <1>4, <1>5 DEF UploadsInv, Fits, OfUser, Stored
<1>7. RemovedInv'
    BY <1>1, RemovedKept
<1> QED BY <1>1, <1>2, <1>6, <1>7, LoadedKept, SessionsKept, PostsKept, AuthKept, SilentKept,
           RestoreKept, JobKept, CoverKept

-----------------------------------------------------------------------------
(* Threads that use a session.                                                *)

LEMMA GetTokenKeeps == ASSUME IInv, NEW o \in 1..Len(objects), GetToken(o) PROVE IInv'
<1> USE DEF IInv
<1>1. /\ UNCHANGED <<table, nextId, loaded, sessions, uploads, posts, auth, silent,
                     toRestore, job, cover, removed, exposed>>
      /\ Issue(owner[objects[o]])
      /\ objects' = [objects EXCEPT ![o] = Len(owner')]
    BY DEF GetToken, windowVars, historyVars, threadVars
<1>2. PICK u : u = owner[objects[o]]
    OBVIOUS
<1>3. u \in Users
    BY <1>2 DEF TokensInv
<1>4. Grows /\ NoneRemoved /\ TableInv' /\ TokensInv'
    BY <1>1, <1>2, <1>3, IssueFacts
<1>5. RemovedInv'
    BY <1>1, RemovedKept
<1> QED BY <1>1, <1>4, <1>5, LoadedKept, SessionsKept, UploadsKept, PostsKept, AuthKept, SilentKept,
           RestoreKept, JobKept, CoverKept

LEMMA JobStartsKeeps == ASSUME IInv, NEW id \in Ids, JobStarts(id) PROVE IInv'
<1> USE DEF IInv
<1>1. /\ UNCHANGED <<table, nextId, objects, owner, loaded, sessions, uploads, posts, auth, silent,
                     toRestore, cover, removed, exposed>>
      /\ uploads[id] # 0
      /\ job' = [NoWork EXCEPT !.at = "syncing", !.id = id, !.object = uploads[id],
                               !.old = objects[uploads[id]]]
    BY DEF JobStarts, StartsWith, serverVars, windowVars
<1>2. Grows /\ NoneRemoved /\ TableInv' /\ TokensInv'
    BY <1>1, SameGrows
<1>3. PICK o, old : o = uploads[id] /\ old = objects[uploads[id]]
    OBVIOUS
<1>4. o \in Nat /\ id \in Nat /\ Fits(id, o)
    BY <1>1, <1>3, AccountsAssumption DEF UploadsInv
<1>5. old \in Nat
    BY <1>3, <1>4 DEF Fits, TokensInv
<1>6. job' = [NoWork EXCEPT !.at = "syncing", !.id = id, !.object = o, !.old = old]
    BY <1>1, <1>3
<1>7. job' \in AnyWork /\ job'.at = "syncing" /\ job'.id = id /\ job'.object = o
    BY <1>4, <1>5, <1>6 DEF NoWork, AnyWork
<1>8. Fits(id, o)'
    BY <1>2, <1>4, FitsKept
<1>9. JobInv'
    BY <1>7, <1>8 DEF JobInv, KnowsSession, Fits, OfUser, Stored
<1>10. RemovedInv'
    BY <1>1, <1>7, RemovedKept
<1> QED BY <1>1, <1>2, <1>9, <1>10, LoadedKept, SessionsKept, UploadsKept, PostsKept, AuthKept,
           SilentKept, RestoreKept, CoverKept

(* A thread reads the account it will write, with its session's token: the row   *)
(* is there, and is the token's user's.                                       *)
LEMMA ReadKnows ==
    ASSUME IInv, NEW w, KnowsSession(w), w.at = "syncing", table[w.id] # Gone, NEW n, n = Read(w)
    PROVE  KnowsSession(n) /\ n.at = "storing" /\ RowsOf(n.user) # {}
<1>1. w \in AnyWork /\ w.id \in Ids /\ Fits(w.id, w.object)
    BY DEF KnowsSession
<1>2. PICK u, t : u = table[w.id].user /\ t = objects[w.object]
    OBVIOUS
<1>3. w.id \in Stored /\ u \in Users /\ OfUser(t, u) /\ t \in Nat
    BY <1>1, <1>2 DEF Stored, Fits, OfUser, IInv, TableInv, AnyAccount, TokensInv
<1>4. n = [w EXCEPT !.at = "storing", !.user = u, !.new = t]
    BY <1>2 DEF Read
<1>5. n \in AnyWork /\ n.at = "storing" /\ n.user = u /\ n.new = t
    BY <1>1, <1>3, <1>4 DEF AnyWork
<1> QED BY <1>2, <1>3, <1>5 DEF KnowsSession, RowsOf

LEMMA NoWorkKnows == KnowsSession(NoWork) /\ NoWork.at = "idle"
BY DEF KnowsSession, NoWork, AnyWork

LEMMA JobReadsKeeps == ASSUME IInv, JobReads PROVE IInv'
<1> USE DEF IInv
<1>1. /\ UNCHANGED <<table, nextId, objects, owner, loaded, sessions, uploads, posts, auth, silent,
                     toRestore, cover, removed, exposed>>
      /\ job.at = "syncing"
      /\ \/ table[job.id] # Gone /\ job' = Read(job)
         \/ job' = NoWork
    BY DEF JobReads, serverVars, windowVars, historyVars
<1>2. Grows /\ NoneRemoved /\ TableInv' /\ TokensInv'
    BY <1>1, SameGrows
<1>3. PICK w, n : w = job /\ n = job'
    OBVIOUS
<1>4. /\ KnowsSession(n)
      /\ n.at = "storing" => RowsOf(n.user) # {}
    <2>1. CASE table[job.id] # Gone /\ job' = Read(job)
        <3>1. n = Read(w)
            BY <1>3, <2>1 DEF Read
        <3> QED BY <1>1, <1>3, <2>1, <3>1, ReadKnows DEF JobInv
    <2>2. CASE job' = NoWork
        BY <1>3, <2>2, NoWorkKnows
    <2> QED BY <1>1, <2>1, <2>2
<1>5. KnowsSession(n)'
    BY <1>2, <1>4, SessionKept
<1>6. JobInv'
    BY <1>3, <1>5 DEF JobInv, KnowsSession
<1>7. RemovedInv'
    <2>1. ASSUME NEW v \in removed \ exposed PROVE NobodyWrites(v)'
        <3>1. NobodyWrites(v)
            BY DEF RemovedInv
        <3>2. job'.at = "storing" => job'.user # v
            BY <1>3, <1>4, <3>1 DEF NobodyWrites
        <3> QED BY <1>1, <3>1, <3>2 DEF NobodyWrites, RowsOf, Stored
    <2> QED BY <1>1, <2>1 DEF RemovedInv
<1> QED BY <1>1, <1>2, <1>6, <1>7, LoadedKept, SessionsKept, UploadsKept, PostsKept, AuthKept,
           SilentKept, RestoreKept, CoverKept

LEMMA JobStoresKeeps == ASSUME IInv, JobStores PROVE IInv'
<1> USE DEF IInv
<1>1. /\ UNCHANGED <<objects, owner, loaded, sessions, uploads, posts, auth, silent,
                     toRestore, cover, removed, exposed>>
      /\ job.at = "storing"
      /\ Upsert(job.user, job.new)
      /\ job' = NoWork
    BY DEF JobStores, serverVars, windowVars, historyVars
<1>2. PICK u, t : u = job.user /\ t = job.new
    OBVIOUS
<1>3. u \in Users /\ OfUser(t, u)
    BY <1>1, <1>2 DEF JobInv, KnowsSession
<1>4. /\ Grows /\ NoneRemoved /\ TableInv' /\ TokensInv'
      /\ \A v : v # u /\ RowsOf(v) = {} => RowsOf(v)' = {}
    BY <1>1, <1>2, <1>3, UpsertFacts
<1>5. JobInv'
    BY <1>1 DEF JobInv, KnowsSession, NoWork, AnyWork
<1>6. RemovedInv'
    <2>1. ASSUME NEW v \in removed \ exposed PROVE NobodyWrites(v)'
        <3>1. NobodyWrites(v)
            BY DEF RemovedInv
        <3>2. RowsOf(v)' = {}
            BY <1>1, <1>2, <1>4, <3>1 DEF NobodyWrites
        <3> QED BY <1>1, <3>1, <3>2, NoWorkKnows DEF NobodyWrites
    <2> QED BY <1>1, <2>1 DEF RemovedInv
<1> QED BY <1>1, <1>4, <1>5, <1>6, LoadedKept, SessionsKept, UploadsKept, PostsKept, AuthKept,
           SilentKept, RestoreKept, CoverKept

LEMMA CoverStartsKeeps ==
    ASSUME IInv, NEW c \in Coverers, NEW id \in Ids, CoverStarts(c, id) PROVE IInv'
<1> USE DEF IInv
<1>1. /\ UNCHANGED <<table, nextId, objects, owner, loaded, sessions, uploads, posts, auth, silent,
                     toRestore, job, removed, exposed>>
      /\ sessions[id] # 0
      /\ cover' = [cover EXCEPT ![c] = [NoWork EXCEPT !.at = "syncing", !.id = id,
                                                      !.object = sessions[id]]]
    BY DEF CoverStarts, StartsWith, serverVars, windowVars
<1>2. Grows /\ NoneRemoved /\ TableInv' /\ TokensInv'
    BY <1>1, SameGrows
<1>3. PICK o, n : /\ o = sessions[id]
                  /\ n = [NoWork EXCEPT !.at = "syncing", !.id = id, !.object = o]
    OBVIOUS
<1>4. o \in Nat /\ id \in Nat /\ Fits(id, o)
    BY <1>1, <1>3, AccountsAssumption DEF SessionsInv
<1>5. n \in AnyWork /\ n.at = "syncing" /\ n.id = id /\ n.object = o
    BY <1>3, <1>4 DEF NoWork, AnyWork
<1>6. KnowsSession(n)
    BY <1>4, <1>5 DEF KnowsSession
<1>7. KnowsSession(n)'
    BY <1>2, <1>6, SessionKept
<1>8. /\ cover' = [d \in Coverers |-> cover'[d]]
      /\ \A d \in Coverers : cover'[d] = IF d = c THEN n ELSE cover[d]
    BY <1>1, <1>3 DEF CoverInv
<1>9. ASSUME NEW d \in Coverers PROVE KnowsSession(cover[d])'
    <2>1. PICK w : w = cover'[d]
        OBVIOUS
    <2>2. KnowsSession(w)'
        BY <1>2, <1>7, <1>8, <2>1, SessionKept DEF CoverInv
    <2> QED BY <2>1, <2>2 DEF KnowsSession
<1>10. CoverInv'
    BY <1>8, <1>9 DEF CoverInv
<1>11. RemovedInv'
    BY <1>1, <1>5, <1>8, RemovedKept
<1> QED BY <1>1, <1>2, <1>10, <1>11, LoadedKept, SessionsKept, UploadsKept, PostsKept, AuthKept,
           SilentKept, RestoreKept, JobKept

LEMMA CoverReadsKeeps == ASSUME IInv, NEW c \in Coverers, CoverReads(c) PROVE IInv'
<1> USE DEF IInv
<1>1. /\ UNCHANGED <<table, nextId, objects, owner, loaded, sessions, uploads, posts, auth, silent,
                     toRestore, job, removed, exposed>>
      /\ cover[c].at = "syncing"
    BY DEF CoverReads, serverVars, windowVars, historyVars
<1>2. Grows /\ NoneRemoved /\ TableInv' /\ TokensInv'
    BY <1>1, SameGrows
<1>3. PICK w, n : w = cover[c] /\ n = cover'[c]
    OBVIOUS
<1>4. /\ cover' = [d \in Coverers |-> cover'[d]]
      /\ \A d \in Coverers : d # c => cover'[d] = cover[d]
      /\ \/ table[w.id] # Gone /\ n = Read(w)
         \/ n = NoWork
    <2>1. cover' = [cover EXCEPT ![c] =
             IF table[w.id] # Gone /\ table[w.id].token # objects[w.object] THEN Read(w) ELSE NoWork]
        BY <1>3 DEF CoverReads
    <2> QED BY <1>3, <2>1 DEF CoverInv
<1>5. /\ KnowsSession(n)
      /\ n.at = "storing" => RowsOf(n.user) # {}
    <2>1. KnowsSession(w) /\ w.at = "syncing"
        BY <1>1, <1>3 DEF CoverInv
    <2> QED BY <1>4, <2>1, ReadKnows, NoWorkKnows
<1>6. KnowsSession(n)'
    BY <1>2, <1>5, SessionKept
<1>7. ASSUME NEW d \in Coverers PROVE KnowsSession(cover[d])'
    <2>1. PICK v : v = cover'[d]
        OBVIOUS
    <2>2. KnowsSession(v)'
        BY <1>2, <1>3, <1>4, <1>6, <2>1, SessionKept DEF CoverInv
    <2> QED BY <2>1, <2>2 DEF KnowsSession
<1>8. CoverInv'
    BY <1>4, <1>7 DEF CoverInv
<1>9. RemovedInv'
    <2>1. ASSUME NEW v \in removed \ exposed PROVE NobodyWrites(v)'
        <3>1. NobodyWrites(v)
            BY DEF RemovedInv
        <3>2. \A d \in Coverers : cover'[d].at = "storing" => cover'[d].user # v
            BY <1>3, <1>4, <1>5, <3>1 DEF NobodyWrites
        <3> QED BY <1>1, <3>1, <3>2 DEF NobodyWrites, RowsOf, Stored
    <2> QED BY <1>1, <2>1 DEF RemovedInv
<1> QED BY <1>1, <1>2, <1>8, <1>9, LoadedKept, SessionsKept, UploadsKept, PostsKept, AuthKept,
           SilentKept, RestoreKept, JobKept

LEMMA CoverStoresKeeps == ASSUME IInv, NEW c \in Coverers, CoverStores(c) PROVE IInv'
<1> USE DEF IInv
<1>1. /\ UNCHANGED <<objects, owner, loaded, sessions, uploads, posts, auth, silent,
                     toRestore, job, removed, exposed>>
      /\ cover[c].at = "storing"
      /\ Upsert(cover[c].user, cover[c].new)
      /\ cover' = [cover EXCEPT ![c] = NoWork]
    BY DEF CoverStores, serverVars, windowVars, historyVars
<1>2. PICK u, t : u = cover[c].user /\ t = cover[c].new
    OBVIOUS
<1>3. u \in Users /\ OfUser(t, u)
    BY <1>1, <1>2 DEF CoverInv, KnowsSession
<1>4. /\ Grows /\ NoneRemoved /\ TableInv' /\ TokensInv'
      /\ \A v : v # u /\ RowsOf(v) = {} => RowsOf(v)' = {}
    BY <1>1, <1>2, <1>3, UpsertFacts
<1>5. /\ cover' = [d \in Coverers |-> cover'[d]] /\ cover'[c] = NoWork
      /\ \A d \in Coverers : d # c => cover'[d] = cover[d]
    BY <1>1 DEF CoverInv
<1>6. ASSUME NEW d \in Coverers PROVE KnowsSession(cover[d])'
    <2>1. PICK w : w = cover'[d]
        OBVIOUS
    <2>2. KnowsSession(w)
        BY <1>5, <2>1, NoWorkKnows DEF CoverInv
    <2>3. KnowsSession(w)'
        BY <1>4, <2>2, SessionKept
    <2> QED BY <2>1, <2>3 DEF KnowsSession
<1>7. CoverInv'
    BY <1>5, <1>6 DEF CoverInv
<1>8. RemovedInv'
    <2>1. ASSUME NEW v \in removed \ exposed PROVE NobodyWrites(v)'
        <3>1. NobodyWrites(v)
            BY DEF RemovedInv
        <3>2. RowsOf(v)' = {}
            BY <1>1, <1>2, <1>4, <3>1 DEF NobodyWrites
        <3> QED BY <1>1, <1>5, <3>1, <3>2, NoWorkKnows DEF NobodyWrites
    <2> QED BY <1>1, <2>1 DEF RemovedInv
<1> QED BY <1>1, <1>4, <1>7, <1>8, LoadedKept, SessionsKept, UploadsKept, PostsKept, AuthKept,
           SilentKept, RestoreKept, JobKept

-----------------------------------------------------------------------------
LEMMA RevokeKeeps == ASSUME IInv, NEW u \in Users, Revoke(u) PROVE IInv'
<1> USE DEF IInv
<1>1. UNCHANGED <<table, nextId, objects, owner, loaded, sessions, uploads, posts, auth, silent,
                  toRestore, job, cover, removed, exposed>>
    BY DEF Revoke, windowVars, threadVars, historyVars
<1>2. Grows /\ NoneRemoved /\ TableInv' /\ TokensInv'
    BY <1>1, SameGrows
<1>3. RemovedInv'
    BY <1>1, RemovedKept
<1> QED BY <1>1, <1>2, <1>3, LoadedKept, SessionsKept, UploadsKept, PostsKept, AuthKept,
           SilentKept, RestoreKept, JobKept, CoverKept

(* The window begins without sessions, and only stored accounts are restored.    *)
LEMMA RestartKeeps == ASSUME IInv, Restart PROVE IInv'
<1> USE DEF IInv
<1>1. /\ UNCHANGED <<table, nextId, objects, owner, removed, exposed>>
      /\ loaded' = table
      /\ sessions' = [id \in Ids |-> 0] /\ uploads' = [id \in Ids |-> 0]
      /\ auth' = NoAuth /\ silent' = NoAuth /\ posts' = <<>> /\ job' = NoWork
      /\ toRestore' = {[NoAuth EXCEPT !.id = id, !.user = table[id].user,
                                      !.token = table[id].token] : id \in Stored}
      /\ cover' = [c \in Coverers |-> NoWork]
    BY DEF Restart, serverVars, historyVars
<1>2. Grows /\ NoneRemoved /\ TableInv' /\ TokensInv'
    BY <1>1, SameGrows
<1>3. LoadedInv' /\ SessionsInv' /\ UploadsInv' /\ PostsInv'
    <2>1. LoadedInv'
        BY <1>1 DEF LoadedInv, TableInv, Stored, OfUser
    <2>2. SessionsInv' /\ UploadsInv'
        BY <1>1 DEF SessionsInv, UploadsInv
    <2>3. PostsInv'
        <3>1. posts' = <<>>
            BY <1>1
        <3>2. posts' \in Seq(AnyPost) /\ Len(posts') = 0
            BY <3>1
        <3> QED BY <3>2 DEF PostsInv
    <2> QED BY <2>1, <2>2, <2>3
<1>4. AuthInv' /\ SilentInv' /\ JobInv'
    BY <1>1 DEF AuthInv, SilentInv, JobInv, KnowsAccount, KnowsSession, NoAuth, NoWork, AnyAuth,
                AnyWork, Activating
<1>5. CoverInv'
    <2>1. ASSUME NEW c \in Coverers PROVE KnowsSession(cover[c])'
        BY <1>1 DEF KnowsSession, NoWork, AnyWork
    <2> QED BY <1>1, <2>1 DEF CoverInv
<1>6. ASSUME NEW a \in toRestore'
      PROVE  Waits(a)' /\ RowsOf(a.user) # {}
    <2>1. PICK id \in Stored : a = [NoAuth EXCEPT !.id = id, !.user = table[id].user,
                                                  !.token = table[id].token]
        BY <1>1
    <2>2. PICK u, t : u = table[id].user /\ t = table[id].token
        OBVIOUS
    <2>3. u \in Users /\ t \in Nat /\ OfUser(t, u) /\ id \in Nat /\ id < nextId
        BY <2>2, AccountsAssumption DEF TableInv, AnyAccount, Stored
    <2>4. a = [NoAuth EXCEPT !.id = id, !.user = u, !.token = t]
        BY <2>1, <2>2
    <2>5. a \in AnyAuth /\ a.id = id /\ a.user = u /\ a.token = t
        BY <2>3, <2>4 DEF NoAuth, AnyAuth
    <2>6. Waits(a)
        BY <2>2, <2>3, <2>5 DEF Waits, IdOf
    <2> QED BY <1>2, <2>2, <2>5, <2>6, WaitsKept DEF RowsOf
<1>7. RestoreInv'
    BY <1>6 DEF RestoreInv
<1>8. RemovedInv'
    <2>1. ASSUME NEW v \in removed \ exposed PROVE NobodyWrites(v)'
        <3>1. RowsOf(v) = {} /\ RowsOf(v)' = {}
            BY <1>1 DEF RemovedInv, NobodyWrites, RowsOf, Stored
        <3> QED BY <1>1, <1>6, <3>1, NoWorkKnows DEF NobodyWrites, NoAuth, Activating
    <2> QED BY <1>1, <2>1 DEF RemovedInv
<1> QED BY <1>2, <1>3, <1>4, <1>5, <1>7, <1>8

-----------------------------------------------------------------------------
LEMMA InitIInv == Init => IInv
<1> SUFFICES ASSUME Init PROVE IInv
    OBVIOUS
<1>1. TableInv /\ TokensInv
    BY DEF Init, TableInv, TokensInv, Stored
<1>2. LoadedInv /\ SessionsInv /\ UploadsInv /\ PostsInv
    BY DEF Init, LoadedInv, SessionsInv, UploadsInv, PostsInv, Stored
<1>3. AuthInv /\ SilentInv /\ JobInv
    BY DEF Init, AuthInv, SilentInv, JobInv, KnowsAccount, KnowsSession, NoAuth, NoWork, AnyAuth,
           AnyWork, Activating
<1>4. RestoreInv
    BY DEF Init, RestoreInv
<1>5. CoverInv
    <2>1. ASSUME NEW c \in Coverers PROVE KnowsSession(cover[c])
        BY NoWorkKnows DEF Init
    <2> QED BY <2>1 DEF CoverInv, Init
<1>6. RemovedInv
    BY DEF Init, RemovedInv
<1> QED BY <1>1, <1>2, <1>3, <1>4, <1>5, <1>6 DEF IInv

LEMMA StutterKeeps == ASSUME IInv, UNCHANGED vars PROVE IInv'
<1> USE DEF IInv
<1>1. UNCHANGED <<table, nextId, objects, owner, loaded, sessions, uploads, posts, auth, silent,
                  toRestore, job, cover, removed, exposed>>
    BY DEF vars, serverVars, windowVars, threadVars, historyVars
<1>2. Grows /\ NoneRemoved /\ TableInv' /\ TokensInv'
    BY <1>1, SameGrows
<1>3. RemovedInv'
    BY <1>1, RemovedKept
<1> QED BY <1>1, <1>2, <1>3, LoadedKept, SessionsKept, UploadsKept, PostsKept, AuthKept,
           SilentKept, RestoreKept, JobKept, CoverKept

LEMMA NextIInv == IInv /\ [Next]_vars => IInv'
<1> SUFFICES ASSUME IInv, [Next]_vars PROVE IInv'
    OBVIOUS
<1>1. CASE AddAccount
    BY <1>1, AddAccountKeeps
<1>2. CASE \E id \in Ids : LogIn(id) \/ DeleteAccount(id)
    BY <1>2, LogInKeeps, DeleteAccountKeeps
<1>3. CASE UpdateSessions
    BY <1>3, UpdateSessionsKeeps
<1>4. CASE HandleResult
    BY <1>4, HandleResultKeeps
<1>5. CASE AuthNext
    <2>1. CASE Activate("auth", auth)
        <3>1. PICK a : a = auth
            OBVIOUS
        <3> QED BY <2>1, <3>1, ActivateKeeps DEF Does
    <2> QED BY <1>5, <2>1, SignsInKeeps, SignInFailsKeeps, AddStoresKeeps DEF AuthNext
<1>6. CASE SilentNext
    <2>1. CASE Activate("silent", silent)
        <3>1. PICK a : a = silent
            OBVIOUS
        <3> QED BY <2>1, <3>1, ActivateKeeps DEF Does
    <2> QED BY <1>6, <2>1, RestoreNextKeeps DEF SilentNext
<1>7. CASE \E o \in 1..Len(objects) : GetToken(o)
    BY <1>7, GetTokenKeeps
<1>8. CASE (\E id \in Ids : JobStarts(id)) \/ JobReads \/ JobStores
    BY <1>8, JobStartsKeeps, JobReadsKeeps, JobStoresKeeps
<1>9. CASE \E c \in Coverers : (\E id \in Ids : CoverStarts(c, id)) \/ CoverReads(c) \/ CoverStores(c)
    BY <1>9, CoverStartsKeeps, CoverReadsKeeps, CoverStoresKeeps
<1>10. CASE \E u \in Users : Revoke(u)
    BY <1>10, RevokeKeeps
<1>11. CASE Restart
    BY <1>11, RestartKeeps
<1>12. CASE UNCHANGED vars
    BY <1>12, StutterKeeps
<1> QED BY <1>1, <1>2, <1>3, <1>4, <1>5, <1>6, <1>7, <1>8, <1>9, <1>10, <1>11, <1>12 DEF Next

(* The invariant holds of every behaviour: no copy of an id, a token or a session *)
(* that the window or a thread keeps (account_auth_operations.cpp,            *)
(* event_upload_scheduler.cpp) is ever another user's.                        *)
THEOREM Inductive == Spec => []IInv
BY InitIInv, NextIInv, PTL DEF Spec

(* What the scheduler uploads for is an account of the table, with a token of    *)
(* that account's user (RegisterEventUploadSessionForAccount).                  *)
THEOREM SessionsAreAccountsHolds == Spec => []SessionsAreAccounts
<1>1. IInv => SessionsAreAccounts
    BY DEF IInv, UploadsInv, Fits, OfUser, SessionsAreAccounts, Stored
<1> QED BY <1>1, Inductive, PTL

(* An account the user removed is not in the table again until the user signs in *)
(* to it, unless a thread was about to write it when it was removed             *)
(* (DeleteAccountWithConfirmation against Upsert in the threads).              *)
THEOREM RemovedStaysRemovedHolds == Spec => []RemovedStaysRemoved
<1>1. IInv => RemovedStaysRemoved
    BY DEF IInv, RemovedInv, NobodyWrites, RemovedStaysRemoved
<1> QED BY <1>1, Inductive, PTL

-----------------------------------------------------------------------------
(***************************************************************************)
(* StoredTokenWorks.  Revoking takes away every token a user has been given,  *)
(* so a token works if an older one of the same user does; what is shown is    *)
(* that no token is stored that is older than the one of the last sign-in.     *)
(***************************************************************************)

(* Token t is none that the last sign-in of user u has replaced. *)
Fresh(u, t) == u \in overlapped \/ latest[u] <= t

(* Behind the first k results there is one, of a sign-in that has succeeded, that
   will give account id a new session and the window a new copy of the table.  *)
Answered(id, k) ==
    \E j \in 1..Len(posts) :
        j > k /\ posts[j].kind = "auth" /\ posts[j].object # 0 /\ posts[j].id = id

LatestInv ==
    /\ latest \in [Users -> Nat]
    /\ \A u \in Users : latest[u] # 0 => OfUser(latest[u], u)
    /\ revoked \subseteq 1..Len(owner)
    /\ \A t1, t2 \in 1..Len(owner) :
           owner[t1] = owner[t2] /\ t1 <= t2 /\ t2 \in revoked => t1 \in revoked

TableFresh == \A id \in Stored : Fresh(table[id].user, table[id].token)

LoadedFresh ==
    \A id \in Ids : loaded[id] # Gone =>
        Fresh(loaded[id].user, loaded[id].token) \/ Answered(id, 0)

SessionsFresh ==
    \A id \in Stored : sessions[id] # 0 =>
        Fresh(table[id].user, objects[sessions[id]]) \/ Answered(id, 0)

UploadsFresh ==
    \A id \in Stored : uploads[id] # 0 =>
        Fresh(table[id].user, objects[uploads[id]]) \/ Answered(id, 0)

(* Results are handled in their order. *)
PostsFresh ==
    \A k \in 1..Len(posts) : posts[k].object # 0 /\ posts[k].id \in Stored =>
        \/ Fresh(table[posts[k].id].user, objects[posts[k].object])
        \/ Answered(posts[k].id, k)

(* The user waits for one sign-in at a time. *)
PostedOnce ==
    /\ \A k \in 1..Len(posts) : posts[k].kind = "auth" => auth.at = "posted"
    /\ \A j, k \in 1..Len(posts) : posts[j].kind = "auth" /\ posts[k].kind = "auth" => j = k

ActivatesFresh(a) ==
    /\ a.at \in Activating => Fresh(a.user, a.token)
    /\ a.at \in {"rotated", "asking"} => Fresh(a.user, objects[a.object])
    /\ a.at = "storing" => a.token <= objects[a.object]

UsesFresh(w) ==
    /\ w.at = "syncing" => Fresh(owner[objects[w.object]], objects[w.object])
    /\ w.at = "storing" => ObjectOf(w.object, w.user) /\ Fresh(w.user, w.new)

ThreadsFresh ==
    /\ ActivatesFresh(auth)
    /\ ActivatesFresh(silent)
    /\ \A a \in toRestore : Fresh(a.user, a.token)
    /\ UsesFresh(job)
    /\ \A c \in Coverers : UsesFresh(cover[c])

FreshInv ==
    /\ LatestInv /\ PostedOnce
    /\ TableFresh /\ LoadedFresh /\ SessionsFresh /\ UploadsFresh /\ PostsFresh
    /\ ThreadsFresh

(* What every step but a sign-in leaves true: no token becomes stale by it. *)
Calm ==
    /\ latest' = latest /\ overlapped \subseteq overlapped'
    /\ \A o \in 1..Len(objects) : o \in 1..Len(objects') /\ objects[o] <= objects'[o]

(* Results that wait stay where they are. *)
PostsStay ==
    /\ Len(posts) <= Len(posts')
    /\ \A k \in 1..Len(posts) : posts'[k] = posts[k]

LEMMA SameCalm ==
    ASSUME TokensInv, UNCHANGED <<objects, latest>>, overlapped \subseteq overlapped'
    PROVE  Calm
BY DEF Calm, TokensInv

LEMMA NewObjectCalm ==
    ASSUME TokensInv, NEW t \in Nat, NewObject(t), UNCHANGED <<latest, overlapped>>
    PROVE  Calm
<1>1. /\ objects \in Seq(Nat) /\ objects' = Append(objects, t)
    BY DEF NewObject, TokensInv
<1>2. /\ Len(objects') = Len(objects) + 1
      /\ \A o \in 1..Len(objects) :
             o \in 1..Len(objects') /\ objects'[o] = objects[o] /\ objects[o] \in Nat
    BY <1>1
<1> QED BY <1>2 DEF Calm

LEMMA FreshStays ==
    ASSUME LatestInv, Calm, NEW u \in Users, NEW t \in Nat, Fresh(u, t),
           NEW s \in Nat, t <= s
    PROVE  Fresh(u, s)'
BY DEF LatestInv, Calm, Fresh

LEMMA ObjectFreshStays ==
    ASSUME TokensInv, TokensInv', LatestInv, Calm, NEW u \in Users, NEW o \in 1..Len(objects),
           Fresh(u, objects[o])
    PROVE  Fresh(u, objects[o])'
<1>1. /\ objects[o] \in Nat /\ objects'[o] \in Nat /\ objects[o] <= objects'[o]
    BY DEF TokensInv, Calm
<1>2. PICK t, s : t = objects[o] /\ s = objects'[o]
    OBVIOUS
<1>3. Fresh(u, s)'
    BY <1>1, <1>2, FreshStays
<1> QED BY <1>2, <1>3 DEF Fresh

LEMMA AnsweredStays ==
    ASSUME PostsInv, PostsInv', PostsStay, NEW id, NEW k, Answered(id, k)
    PROVE  Answered(id, k)'
<1>1. PICK j \in 1..Len(posts) :
          j > k /\ posts[j].kind = "auth" /\ posts[j].object # 0 /\ posts[j].id = id
    BY DEF Answered
<1>2. j \in 1..Len(posts') /\ posts'[j] = posts[j]
    BY DEF PostsStay, PostsInv
<1> QED BY <1>1, <1>2 DEF Answered

LEMMA LatestKept ==
    ASSUME TokensInv, LatestInv, UNCHANGED <<latest, revoked>>,
           UNCHANGED owner \/ \E u \in Users : Issue(u)
    PROVE  LatestInv'
<1>1. CASE UNCHANGED owner
    BY <1>1 DEF LatestInv, OfUser
<1>2. ASSUME NEW u \in Users, Issue(u) PROVE LatestInv'
    <2>1. /\ Len(owner) \in Nat /\ Len(owner') = Len(owner) + 1
          /\ \A t \in 1..Len(owner) : owner'[t] = owner[t]
        BY <1>2 DEF Issue, TokensInv
    <2>2. \A v \in Users : latest[v] \in Nat /\ (latest[v] # 0 => OfUser(latest[v], v)')
        BY <2>1 DEF LatestInv, OfUser
    <2>3. revoked' \subseteq 1..Len(owner')
        BY <2>1 DEF LatestInv
    <2>4. ASSUME NEW t1 \in 1..Len(owner'), NEW t2 \in 1..Len(owner'),
                 owner'[t1] = owner'[t2], t1 <= t2, t2 \in revoked
          PROVE  t1 \in revoked
        <3>1. t1 \in 1..Len(owner) /\ t2 \in 1..Len(owner)
            BY <2>1, <2>4 DEF LatestInv
        <3> QED BY <2>1, <2>4, <3>1 DEF LatestInv
    <2> QED BY <2>2, <2>3, <2>4 DEF LatestInv
<1> QED BY <1>1, <1>2

LEMMA TableFreshKept ==
    ASSUME TableInv, LatestInv, TableFresh, Calm, UNCHANGED table
    PROVE  TableFresh'
<1>1. ASSUME NEW id \in Stored PROVE Fresh(table[id].user, table[id].token)'
    <2>1. PICK u, t : u = table[id].user /\ t = table[id].token
        OBVIOUS
    <2>2. u \in Users /\ t \in Nat
        BY <2>1 DEF TableInv, Stored, AnyAccount
    <2>3. Fresh(u, t)'
        BY <2>1, <2>2, FreshStays DEF TableFresh
    <2> QED BY <2>1, <2>3 DEF Fresh
<1> QED BY <1>1 DEF TableFresh, Stored

LEMMA TableFreshUpsert ==
    ASSUME TableInv, LatestInv, TableFresh, Calm, NEW u \in Users, NEW t \in Nat,
           Fresh(u, t), Upsert(u, t)
    PROVE  TableFresh'
<1>1. PICK r : r = UpsertId(u)
    OBVIOUS
<1>2. \A id \in Ids : table'[id] = IF id = r THEN [user |-> u, token |-> t] ELSE table[id]
    BY <1>1 DEF Upsert, TableInv
<1>3. ASSUME NEW id \in Stored' PROVE Fresh(table[id].user, table[id].token)'
    <2>1. CASE id = r
        <3>1. table'[id].user = u /\ table'[id].token = t
            BY <1>2, <2>1 DEF Stored
        <3>2. Fresh(u, t)'
            BY FreshStays
        <3> QED BY <3>1, <3>2 DEF Fresh
    <2>2. CASE id # r
        <3>1. id \in Stored /\ table'[id] = table[id]
            BY <1>2, <2>2 DEF Stored
        <3>2. PICK v, s : v = table[id].user /\ s = table[id].token
            OBVIOUS
        <3>3. v \in Users /\ s \in Nat
            BY <3>1, <3>2 DEF TableInv, Stored, AnyAccount
        <3>4. Fresh(v, s)'
            BY <3>1, <3>2, <3>3, FreshStays DEF TableFresh
        <3> QED BY <3>1, <3>2, <3>4 DEF Fresh
    <2> QED BY <2>1, <2>2
<1> QED BY <1>3 DEF TableFresh

LEMMA LoadedFreshKept ==
    ASSUME LoadedInv, LatestInv, PostsInv, PostsInv', LoadedFresh, Calm, PostsStay, UNCHANGED loaded
    PROVE  LoadedFresh'
<1>1. ASSUME NEW id \in Ids, loaded[id] # Gone
      PROVE  Fresh(loaded[id].user, loaded[id].token)' \/ Answered(id, 0)'
    <2>1. PICK u, t : u = loaded[id].user /\ t = loaded[id].token
        OBVIOUS
    <2>2. u \in Users /\ t \in Nat
        BY <1>1, <2>1 DEF LoadedInv, AnyAccount
    <2>3. Fresh(u, t) => Fresh(u, t)'
        BY <2>2, FreshStays
    <2>4. Answered(id, 0) => Answered(id, 0)'
        BY AnsweredStays
    <2>5. Fresh(u, t)' => Fresh(loaded[id].user, loaded[id].token)'
        BY <2>1 DEF Fresh
    <2> QED BY <1>1, <2>1, <2>3, <2>4, <2>5 DEF LoadedFresh
<1> QED BY <1>1 DEF LoadedFresh

(* What is kept for an id is judged by the user of its account, which has been   *)
(* this account's since the id was handed out.                                *)
LEMMA KeptFreshStays ==
    ASSUME TableInv, TokensInv, TokensInv', LatestInv, PostsInv, PostsInv', Grows, Calm, PostsStay,
           NEW id \in Stored', NEW o, Fits(id, o), NEW k,
           id \in Stored => Fresh(table[id].user, objects[o]) \/ Answered(id, k)
    PROVE  Fresh(table[id].user, objects[o])' \/ Answered(id, k)'
<1>1. o \in 1..Len(objects) /\ id \in Stored /\ table'[id].user = table[id].user
    BY DEF Fits, Grows, Stored
<1>2. PICK u : u = table[id].user
    OBVIOUS
<1>3. u \in Users
    BY <1>1, <1>2 DEF TableInv, Stored, AnyAccount
<1>4. Fresh(u, objects[o]) => Fresh(u, objects[o])'
    BY <1>1, <1>3, ObjectFreshStays
<1>5. Answered(id, k) => Answered(id, k)'
    BY AnsweredStays
<1>6. Fresh(u, objects[o])' => Fresh(table[id].user, objects[o])'
    BY <1>1, <1>2 DEF Fresh
<1> QED BY <1>1, <1>2, <1>4, <1>5, <1>6

LEMMA SessionsFreshKept ==
    ASSUME TableInv, TokensInv, TokensInv', LatestInv, PostsInv, PostsInv', SessionsInv, SessionsFresh,
           Grows, Calm, PostsStay, UNCHANGED sessions
    PROVE  SessionsFresh'
<1>1. ASSUME NEW id \in Stored', sessions[id] # 0
      PROVE  Fresh(table[id].user, objects[sessions[id]])' \/ Answered(id, 0)'
    <2>1. PICK o : o = sessions[id]
        OBVIOUS
    <2>2. id \in Ids
        BY DEF Stored
    <2>3. Fits(id, o)
        BY <1>1, <2>1, <2>2 DEF SessionsInv
    <2>4. id \in Stored => Fresh(table[id].user, objects[o]) \/ Answered(id, 0)
        BY <1>1, <2>1 DEF SessionsFresh
    <2>5. Fresh(table[id].user, objects[o])' \/ Answered(id, 0)'
        BY <2>3, <2>4, KeptFreshStays
    <2> QED BY <2>1, <2>5 DEF Fresh
<1> QED BY <1>1 DEF SessionsFresh

LEMMA UploadsFreshKept ==
    ASSUME TableInv, TokensInv, TokensInv', LatestInv, PostsInv, PostsInv', UploadsInv, UploadsFresh,
           Grows, Calm, PostsStay, UNCHANGED uploads
    PROVE  UploadsFresh'
<1>1. ASSUME NEW id \in Stored', uploads[id] # 0
      PROVE  Fresh(table[id].user, objects[uploads[id]])' \/ Answered(id, 0)'
    <2>1. PICK o : o = uploads[id]
        OBVIOUS
    <2>2. id \in Ids
        BY DEF Stored
    <2>3. Fits(id, o)
        BY <1>1, <2>1, <2>2 DEF UploadsInv
    <2>4. id \in Stored => Fresh(table[id].user, objects[o]) \/ Answered(id, 0)
        BY <1>1, <2>1 DEF UploadsFresh
    <2>5. Fresh(table[id].user, objects[o])' \/ Answered(id, 0)'
        BY <2>3, <2>4, KeptFreshStays
    <2> QED BY <2>1, <2>5 DEF Fresh
<1> QED BY <1>1 DEF UploadsFresh

(* The results that wait already; what a step appends is judged on its own. *)
LEMMA WaitingFresh ==
    ASSUME TableInv, TokensInv, TokensInv', LatestInv, PostsInv, PostsInv', PostsFresh,
           Grows, Calm, PostsStay, NEW k \in 1..Len(posts),
           posts[k].object # 0, posts[k].id \in Stored'
    PROVE  \/ Fresh(table[posts[k].id].user, objects[posts[k].object])'
           \/ Answered(posts[k].id, k)'
<1>1. PICK id, o : id = posts[k].id /\ o = posts[k].object
    OBVIOUS
<1>2. Fits(id, o) /\ id \in Stored'
    BY <1>1 DEF PostsInv
<1>3. id \in Stored => Fresh(table[id].user, objects[o]) \/ Answered(id, k)
    BY <1>1 DEF PostsFresh
<1>4. Fresh(table[id].user, objects[o])' \/ Answered(id, k)'
    BY <1>2, <1>3, KeptFreshStays
<1>5. posts'[k] = posts[k]
    BY DEF PostsStay
<1> QED BY <1>1, <1>4, <1>5 DEF Fresh, Answered

LEMMA PostsFreshKept ==
    ASSUME TableInv, TokensInv, TokensInv', LatestInv, PostsInv, PostsInv', PostsFresh,
           Grows, Calm, UNCHANGED posts
    PROVE  PostsFresh'
<1>1. PostsStay
    BY DEF PostsStay, PostsInv
<1> QED BY <1>1, WaitingFresh DEF PostsFresh

LEMMA SamePostsStay ==
    ASSUME PostsInv, UNCHANGED posts
    PROVE  PostsStay
BY DEF PostsStay, PostsInv

LEMMA PostStays ==
    ASSUME PostsInv, NEW kind \in {"auth", "silent"}, NEW id \in Nat, NEW o \in Nat, Post(kind, id, o)
    PROVE  /\ PostsStay
           /\ Len(posts) \in Nat /\ Len(posts') = Len(posts) + 1
           /\ posts'[Len(posts')].kind = kind
           /\ posts'[Len(posts')].id = id /\ posts'[Len(posts')].object = o
<1>1. PICK p : p = [kind |-> kind, id |-> id, object |-> o]
    OBVIOUS
<1>2. p \in AnyPost /\ posts' = Append(posts, p) /\ posts \in Seq(AnyPost)
    BY <1>1 DEF AnyPost, Post, PostsInv
<1>3. /\ Len(posts) \in Nat /\ Len(posts') = Len(posts) + 1 /\ posts'[Len(posts')] = p
      /\ \A k \in 1..Len(posts) : posts'[k] = posts[k]
    BY <1>2
<1> QED BY <1>1, <1>3 DEF PostsStay

LEMMA PostsFreshPosted ==
    ASSUME TableInv, TokensInv, TokensInv', LatestInv, PostsInv, PostsInv', PostsFresh,
           Grows, Calm, NEW kind \in {"auth", "silent"}, NEW id \in Nat, NEW o \in Nat,
           Post(kind, id, o),
           o # 0 /\ id \in Stored' => Fresh(table[id].user, objects[o])'
    PROVE  PostsFresh'
<1>1. /\ PostsStay /\ Len(posts) \in Nat /\ Len(posts') = Len(posts) + 1
      /\ posts'[Len(posts')].id = id /\ posts'[Len(posts')].object = o
    BY PostStays
<1>2. ASSUME NEW k \in 1..Len(posts'), posts'[k].object # 0, posts'[k].id \in Stored'
      PROVE  \/ Fresh(table[posts[k].id].user, objects[posts[k].object])'
             \/ Answered(posts[k].id, k)'
    <2>1. CASE k = Len(posts')
        BY <1>1, <1>2, <2>1 DEF Fresh
    <2>2. CASE k # Len(posts')
        <3>1. k \in 1..Len(posts) /\ posts'[k] = posts[k]
            BY <1>1, <2>2 DEF PostsStay
        <3> QED BY <1>1, <1>2, <3>1, WaitingFresh
    <2> QED BY <2>1, <2>2
<1> QED BY <1>2 DEF PostsFresh

LEMMA ActivatesKept ==
    ASSUME TokensInv, TokensInv', LatestInv, Calm, NEW a, KnowsAccount(a), ActivatesFresh(a)
    PROVE  ActivatesFresh(a)'
<1>1. a.token \in Nat
    BY DEF KnowsAccount, AnyAuth
<1>2. a.at \in Activating => a.user \in Users
    BY DEF KnowsAccount
<1>3. a.at \in Activating => Fresh(a.user, a.token)'
    BY <1>1, <1>2, FreshStays DEF ActivatesFresh
<1>4. ASSUME a.at \in {"rotated", "asking"} PROVE Fresh(a.user, objects[a.object])'
    <2>1. PICK u, o : u = a.user /\ o = a.object
        OBVIOUS
    <2>2. u \in Users /\ o \in 1..Len(objects) /\ Fresh(u, objects[o])
        BY <1>2, <1>4, <2>1 DEF ActivatesFresh, KnowsAccount, ObjectOf, Activating
    <2>3. Fresh(u, objects[o])'
        BY <2>2, ObjectFreshStays
    <2> QED BY <2>1, <2>3
<1>5. ASSUME a.at = "storing" PROVE a.token <= objects'[a.object]
    <2>1. PICK o : o = a.object
        OBVIOUS
    <2>2. o \in 1..Len(objects) /\ a.token <= objects[o]
        BY <1>5, <2>1 DEF ActivatesFresh, KnowsAccount, ObjectOf
    <2>3. objects[o] \in Nat /\ objects'[o] \in Nat /\ objects[o] <= objects'[o]
        BY <2>2 DEF TokensInv, Calm
    <2> QED BY <1>1, <2>1, <2>2, <2>3
<1> QED BY <1>3, <1>4, <1>5 DEF ActivatesFresh

LEMMA UsesKept ==
    ASSUME TableInv, TokensInv, TokensInv', LatestInv, Calm, Grows, NEW w, KnowsSession(w), UsesFresh(w)
    PROVE  UsesFresh(w)'
<1>1. PICK o, u, t : o = w.object /\ u = w.user /\ t = w.new
    OBVIOUS
<1>2. ASSUME w.at = "syncing" PROVE Fresh(owner[objects[o]], objects[o])'
    <2>1. o \in 1..Len(objects)
        BY <1>1, <1>2 DEF KnowsSession, Fits
    <2>2. PICK v : v = owner[objects[o]]
        OBVIOUS
    <2>3. v \in Users /\ owner'[objects'[o]] = v
        BY <2>1, <2>2 DEF TokensInv, Grows
    <2>4. Fresh(v, objects[o])'
        BY <1>1, <1>2, <2>1, <2>2, <2>3, ObjectFreshStays DEF UsesFresh
    <2> QED BY <2>3, <2>4 DEF Fresh
<1>3. ASSUME w.at = "storing" PROVE ObjectOf(o, u)' /\ Fresh(u, t)'
    <2>1. u \in Users /\ t \in Nat /\ ObjectOf(o, u) /\ Fresh(u, t)
        BY <1>1, <1>3 DEF KnowsSession, AnyWork, UsesFresh
    <2>2. ObjectOf(o, u)'
        BY <2>1 DEF ObjectOf, OfUser, Grows
    <2> QED BY <2>1, <2>2, FreshStays
<1> QED BY <1>1, <1>2, <1>3 DEF UsesFresh, ObjectOf, OfUser

LEMMA AuthFreshKept ==
    ASSUME IInv, TokensInv', LatestInv, ThreadsFresh, Calm, UNCHANGED auth
    PROVE  ActivatesFresh(auth)'
<1>1. PICK a : a = auth
    OBVIOUS
<1>2. ActivatesFresh(a)'
    BY <1>1, ActivatesKept DEF IInv, AuthInv, ThreadsFresh
<1> QED BY <1>1, <1>2 DEF ActivatesFresh, Fresh

LEMMA SilentFreshKept ==
    ASSUME IInv, TokensInv', LatestInv, ThreadsFresh, Calm, UNCHANGED silent
    PROVE  ActivatesFresh(silent)'
<1>1. PICK a : a = silent
    OBVIOUS
<1>2. ActivatesFresh(a)'
    BY <1>1, ActivatesKept DEF IInv, SilentInv, ThreadsFresh
<1> QED BY <1>1, <1>2 DEF ActivatesFresh, Fresh

LEMMA RestoreFreshKept ==
    ASSUME IInv, LatestInv, ThreadsFresh, Calm, toRestore' \subseteq toRestore
    PROVE  \A a \in toRestore' : Fresh(a.user, a.token)'
<1>1. ASSUME NEW a \in toRestore' PROVE Fresh(a.user, a.token)'
    <2>1. a.user \in Users /\ a.token \in Nat /\ Fresh(a.user, a.token)
        BY DEF IInv, RestoreInv, Waits, AnyAuth, ThreadsFresh
    <2> QED BY <2>1, FreshStays
<1> QED BY <1>1

LEMMA JobFreshKept ==
    ASSUME IInv, TokensInv', LatestInv, ThreadsFresh, Calm, Grows, UNCHANGED job
    PROVE  UsesFresh(job)'
<1>1. PICK w : w = job
    OBVIOUS
<1>2. UsesFresh(w)'
    BY <1>1, UsesKept DEF IInv, JobInv, ThreadsFresh
<1> QED BY <1>1, <1>2 DEF UsesFresh, Fresh, ObjectOf, OfUser

LEMMA CoverFreshKept ==
    ASSUME IInv, TokensInv', LatestInv, ThreadsFresh, Calm, Grows, NEW c \in Coverers,
           cover'[c] = cover[c]
    PROVE  UsesFresh(cover[c])'
<1>1. PICK w : w = cover[c]
    OBVIOUS
<1>2. UsesFresh(w)'
    BY <1>1, UsesKept DEF IInv, CoverInv, ThreadsFresh
<1> QED BY <1>1, <1>2 DEF UsesFresh, Fresh, ObjectOf, OfUser

(* A step that posts nothing, and after which the window has what it had. *)
LEMMA QuietStep ==
    ASSUME IInv, IInv', FreshInv, Grows, Calm, LatestInv', TableFresh', ThreadsFresh',
           UNCHANGED <<loaded, sessions, uploads, posts>>,
           auth.at = "posted" => auth'.at = "posted"
    PROVE  FreshInv'
<1> USE DEF IInv, FreshInv
<1>1. PostsStay
    BY SamePostsStay
<1>2. PostedOnce'
    BY DEF PostedOnce
<1> QED BY <1>1, <1>2, LoadedFreshKept, SessionsFreshKept, UploadsFreshKept, PostsFreshKept

(* A step that posts result o of thread kind for account id. *)
LEMMA PostingStep ==
    ASSUME IInv, IInv', FreshInv, Grows, Calm, LatestInv', TableFresh', ThreadsFresh',
           UNCHANGED <<loaded, sessions, uploads>>,
           NEW kind \in {"auth", "silent"}, NEW id \in Nat, NEW o \in Nat, Post(kind, id, o),
           o # 0 /\ id \in Stored' => Fresh(table[id].user, objects[o])',
           kind = "auth" => auth.at # "posted" /\ auth'.at = "posted",
           kind = "silent" => UNCHANGED auth
    PROVE  FreshInv'
<1> USE DEF IInv, FreshInv
<1>1. /\ PostsStay
      /\ Len(posts) \in Nat /\ Len(posts') = Len(posts) + 1
      /\ posts'[Len(posts')].kind = kind
    BY PostStays
<1>2. PostsFresh'
    BY PostsFreshPosted
<1>3. \A k \in 1..Len(posts') : k = Len(posts') \/ (k \in 1..Len(posts) /\ posts'[k] = posts[k])
    BY <1>1 DEF PostsStay
<1>4. PostedOnce'
    <2>1. CASE kind = "auth"
        BY <1>1, <1>3, <2>1 DEF PostedOnce
    <2>2. CASE kind = "silent"
        BY <1>1, <1>3, <2>2 DEF PostedOnce
    <2> QED BY <2>1, <2>2
<1> QED BY <1>1, <1>2, <1>4, LoadedFreshKept, SessionsFreshKept, UploadsFreshKept

-----------------------------------------------------------------------------
LEMMA AddAccountFresh == ASSUME IInv, IInv', FreshInv, AddAccount PROVE FreshInv'
<1>1. /\ UNCHANGED <<table, nextId, objects, owner, revoked, loaded, sessions, uploads, posts, silent,
                     toRestore, job, cover, latest, overlapped>>
      /\ auth = NoAuth /\ auth' = [NoAuth EXCEPT !.at = "signing"]
    BY DEF AddAccount, serverVars, windowVars, historyVars
<1>2. auth.at = "idle" /\ auth'.at = "signing"
    BY <1>1 DEF NoAuth
<1>3. Grows /\ Calm
    BY <1>1, SameGrows, SameCalm DEF IInv
<1>4. LatestInv' /\ TableFresh'
    BY <1>1, <1>3, LatestKept, TableFreshKept DEF IInv, FreshInv
<1>5. ActivatesFresh(auth)'
    BY <1>2 DEF ActivatesFresh, Activating
<1>6. ThreadsFresh'
    BY <1>1, <1>3, <1>5, SilentFreshKept, RestoreFreshKept, JobFreshKept, CoverFreshKept
       DEF IInv, FreshInv, ThreadsFresh
<1> QED BY <1>1, <1>2, <1>3, <1>4, <1>6, QuietStep

LEMMA SignsInFresh == ASSUME IInv, IInv', FreshInv, NEW u \in Users, SignsIn(u) PROVE FreshInv'
<1>1. /\ UNCHANGED <<table, nextId, revoked, loaded, sessions, uploads, posts, silent,
                     toRestore, job, cover, latest, overlapped>>
      /\ auth.at = "signing" /\ Issue(u) /\ NewObject(Len(owner'))
    BY DEF SignsIn, windowVars, historyVars
<1>2. PICK t, o : t = Len(owner') /\ o = Len(objects')
    OBVIOUS
<1>3. Grows /\ t \in Nat
    BY <1>1, <1>2, IssueFacts DEF IInv, TokensInv
<1>4. Calm
    BY <1>1, <1>2, <1>3, NewObjectCalm DEF IInv
<1>5. auth' = [auth EXCEPT !.at = "storing", !.user = u, !.token = t, !.object = o]
    BY <1>2 DEF SignsIn
<1>6. auth'.at = "storing" /\ auth'.token = t /\ auth'.object = o
    BY <1>5 DEF IInv, AuthInv, KnowsAccount, AnyAuth
<1>7. objects'[o] = t
    <2>1. objects' = Append(objects, t) /\ objects \in Seq(Nat)
        BY <1>1, <1>2 DEF NewObject, IInv, TokensInv
    <2> QED BY <1>2, <1>3, <2>1
<1>8. ActivatesFresh(auth)'
    BY <1>3, <1>6, <1>7 DEF ActivatesFresh, Activating
<1>9. LatestInv' /\ TableFresh'
    BY <1>1, <1>4, LatestKept, TableFreshKept DEF IInv, FreshInv
<1>10. ThreadsFresh'
    BY <1>1, <1>3, <1>4, <1>8, SilentFreshKept, RestoreFreshKept, JobFreshKept, CoverFreshKept
       DEF IInv, FreshInv, ThreadsFresh
<1> QED BY <1>1, <1>3, <1>4, <1>9, <1>10, QuietStep

LEMMA SignInFailsFresh == ASSUME IInv, IInv', FreshInv, SignInFails PROVE FreshInv'
<1>1. /\ UNCHANGED <<table, nextId, objects, owner, revoked, loaded, sessions, uploads, silent,
                     toRestore, job, cover, latest, overlapped>>
      /\ auth.at = "signing" /\ auth' = [auth EXCEPT !.at = "posted"]
      /\ Post("auth", 0, 0)
    BY DEF SignInFails, serverVars, windowVars, historyVars
<1>2. auth'.at = "posted"
    BY <1>1 DEF IInv, AuthInv, KnowsAccount, AnyAuth
<1>3. Grows /\ Calm
    BY <1>1, SameGrows, SameCalm DEF IInv
<1>4. LatestInv' /\ TableFresh'
    BY <1>1, <1>3, LatestKept, TableFreshKept DEF IInv, FreshInv
<1>5. ActivatesFresh(auth)'
    BY <1>2 DEF ActivatesFresh, Activating
<1>6. ThreadsFresh'
    BY <1>1, <1>3, <1>5, SilentFreshKept, RestoreFreshKept, JobFreshKept, CoverFreshKept
       DEF IInv, FreshInv, ThreadsFresh
<1> QED BY <1>1, <1>2, <1>3, <1>4, <1>6, PostingStep

(* The user cannot log in to an account while a sign-in waits to be taken, so the
   window's copy is one of after the last sign-in.                           *)
LEMMA LogInFresh == ASSUME IInv, IInv', FreshInv, NEW id \in Ids, LogIn(id) PROVE FreshInv'
<1>1. /\ UNCHANGED <<table, nextId, objects, owner, revoked, loaded, sessions, uploads, posts, silent,
                     toRestore, job, cover, latest, overlapped>>
      /\ auth = NoAuth /\ loaded[id] # Gone
      /\ auth' = [NoAuth EXCEPT !.at = "refreshing", !.id = id, !.user = loaded[id].user,
                                !.token = loaded[id].token]
    BY DEF LogIn, serverVars, historyVars
<1>2. PICK u, t : u = loaded[id].user /\ t = loaded[id].token
    OBVIOUS
<1>3. auth' = [NoAuth EXCEPT !.at = "refreshing", !.id = id, !.user = u, !.token = t]
    BY <1>1, <1>2
<1>4. /\ auth.at = "idle" /\ auth'.at = "refreshing"
      /\ auth'.user = u /\ auth'.token = t
    BY <1>1, <1>3 DEF NoAuth
<1>5. Fresh(u, t)
    <2>1. ~Answered(id, 0)
        BY <1>4 DEF FreshInv, PostedOnce, Answered
    <2> QED BY <1>1, <1>2, <2>1 DEF FreshInv, LoadedFresh
<1>6. Grows /\ Calm
    BY <1>1, SameGrows, SameCalm DEF IInv
<1>7. LatestInv' /\ TableFresh'
    BY <1>1, <1>6, LatestKept, TableFreshKept DEF IInv, FreshInv
<1>8. ActivatesFresh(auth)'
    BY <1>1, <1>4, <1>5 DEF ActivatesFresh, Activating, Fresh
<1>9. ThreadsFresh'
    BY <1>1, <1>6, <1>8, SilentFreshKept, RestoreFreshKept, JobFreshKept, CoverFreshKept
       DEF IInv, FreshInv, ThreadsFresh
<1> QED BY <1>1, <1>4, <1>6, <1>7, <1>9, QuietStep

LEMMA RestoreNextFresh == ASSUME IInv, IInv', FreshInv, NEW a \in toRestore, RestoreNext(a) PROVE FreshInv'
<1>1. /\ UNCHANGED <<table, nextId, objects, owner, revoked, loaded, sessions, uploads, posts, auth,
                     job, cover, latest, overlapped>>
      /\ silent' = [a EXCEPT !.at = "refreshing"]
      /\ toRestore' = toRestore \ {a}
    BY DEF RestoreNext, serverVars, historyVars, windowVars
<1>2. silent'.at = "refreshing" /\ silent'.user = a.user /\ silent'.token = a.token
    BY <1>1 DEF IInv, RestoreInv, Waits, AnyAuth
<1>3. Grows /\ Calm
    BY <1>1, SameGrows, SameCalm DEF IInv
<1>4. LatestInv' /\ TableFresh'
    BY <1>1, <1>3, LatestKept, TableFreshKept DEF IInv, FreshInv
<1>5. ActivatesFresh(silent)'
    BY <1>1, <1>2 DEF ActivatesFresh, Activating, Fresh, FreshInv, ThreadsFresh
<1>6. ThreadsFresh'
    BY <1>1, <1>3, <1>5, AuthFreshKept, RestoreFreshKept, JobFreshKept, CoverFreshKept
       DEF IInv, FreshInv, ThreadsFresh
<1> QED BY <1>1, <1>3, <1>4, <1>6, QuietStep

-----------------------------------------------------------------------------
(* Activations. *)

LEMMA BecomesFresh ==
    ASSUME IInv, TokensInv', LatestInv, ThreadsFresh, Calm, Grows, NEW th, NEW n, Becomes(th, n),
           ActivatesFresh(n)', UNCHANGED <<toRestore, job, cover>>
    PROVE  ThreadsFresh'
<1>1. ActivatesFresh(auth)' /\ ActivatesFresh(silent)'
    <2>1. CASE th = "auth"
        <3>1. auth' = n /\ UNCHANGED silent
            BY <2>1 DEF Becomes
        <3>2. ActivatesFresh(silent)'
            BY <3>1, SilentFreshKept
        <3>3. ActivatesFresh(auth)'
            BY <3>1 DEF ActivatesFresh, Fresh
        <3> QED BY <3>2, <3>3
    <2>2. CASE th # "auth"
        <3>1. silent' = n /\ UNCHANGED auth
            BY <2>2 DEF Becomes
        <3>2. ActivatesFresh(auth)'
            BY <3>1, AuthFreshKept
        <3>3. ActivatesFresh(silent)'
            BY <3>1 DEF ActivatesFresh, Fresh
        <3> QED BY <3>2, <3>3
    <2> QED BY <2>1, <2>2
<1> QED BY <1>1, RestoreFreshKept, JobFreshKept, CoverFreshKept DEF ThreadsFresh

(* A thread that ends has nothing stale, and the user's sign-in waits to be taken. *)
LEMMA EndedFresh ==
    ASSUME IInv, NEW th, NEW a, Does(th, a), a.at \in Activating, NEW n, n = Ended(th), Becomes(th, n)
    PROVE  /\ ActivatesFresh(n)'
           /\ th = "auth" => auth.at # "posted" /\ auth'.at = "posted"
           /\ th = "silent" => UNCHANGED auth
<1>1. auth \in AnyAuth
    BY DEF IInv, AuthInv, KnowsAccount
<1>2. th = "auth" => n.at = "posted"
    BY <1>1 DEF Ended, AnyAuth
<1>3. th # "auth" => n.at = "idle"
    BY DEF Ended, NoAuth
<1>4. ActivatesFresh(n)'
    BY <1>2, <1>3 DEF ActivatesFresh, Activating
<1> QED BY <1>2, <1>4 DEF Becomes, Does, Activating

LEMMA DoesFresh ==
    ASSUME IInv, FreshInv, NEW th, NEW a, Does(th, a), a.at \in Activating
    PROVE  /\ KnowsAccount(a) /\ a \in AnyAuth
           /\ a.user \in Users /\ OfUser(a.token, a.user) /\ IdOf(a.id, a.user)
           /\ a.id \in Nat /\ a.token \in Nat /\ a.object \in Nat
           /\ th \in {"auth", "silent"}
           /\ ActivatesFresh(a) /\ Fresh(a.user, a.token)
<1>1. KnowsAccount(a) /\ a \in AnyAuth /\ th \in {"auth", "silent"}
    BY DoesKnow
<1>2. ActivatesFresh(a)
    BY DEF Does, FreshInv, ThreadsFresh
<1> QED BY <1>1, <1>2 DEF KnowsAccount, ActivatesFresh, AnyAuth

LEMMA RefreshFailsFresh ==
    ASSUME IInv, IInv', FreshInv, NEW th, NEW a, Does(th, a), RefreshFails(th, a)
    PROVE  FreshInv'
<1>1. /\ UNCHANGED <<table, nextId, objects, owner, revoked, loaded, sessions, uploads, toRestore,
                     job, cover, latest, overlapped>>
      /\ a.at = "refreshing" /\ a.at \in Activating
      /\ Post(th, a.id, 0)
      /\ Becomes(th, Ended(th))
    BY DEF RefreshFails, serverVars, windowVars, historyVars, Activating
<1>2. PICK i, n : i = a.id /\ n = Ended(th)
    OBVIOUS
<1>3. i \in Nat /\ th \in {"auth", "silent"} /\ Post(th, i, 0) /\ Becomes(th, n)
    BY <1>1, <1>2, DoesFresh
<1>4. Grows /\ Calm
    BY <1>1, SameGrows, SameCalm DEF IInv
<1>5. LatestInv' /\ TableFresh'
    BY <1>1, <1>4, LatestKept, TableFreshKept DEF IInv, FreshInv
<1>6. /\ ActivatesFresh(n)'
      /\ th = "auth" => auth.at # "posted" /\ auth'.at = "posted"
      /\ th = "silent" => UNCHANGED auth
    BY <1>1, <1>2, <1>3, EndedFresh
<1>7. ThreadsFresh'
    BY <1>1, <1>3, <1>4, <1>6, BecomesFresh DEF IInv, FreshInv
<1> QED BY <1>1, <1>3, <1>4, <1>5, <1>6, <1>7, PostingStep

LEMMA RefreshesFresh ==
    ASSUME IInv, IInv', FreshInv, NEW th, NEW a, Does(th, a), Refreshes(th, a)
    PROVE  FreshInv'
<1>1. /\ UNCHANGED <<table, nextId, revoked, loaded, sessions, uploads, posts, toRestore, job,
                     cover, latest, overlapped>>
      /\ a.at = "refreshing" /\ a.at \in Activating
    BY DEF Refreshes, windowVars, historyVars, Activating
<1>2. PICK u, t, s, o : u = a.user /\ t = a.token /\ s = Len(owner') /\ o = Len(objects')
    OBVIOUS
<1>3. /\ a \in AnyAuth /\ u \in Users /\ t \in Nat /\ Fresh(u, t)
      /\ t \in 1..Len(owner) /\ owner[t] = u
    BY <1>1, <1>2, DoesFresh DEF OfUser
<1>4. auth.at = "posted" => UNCHANGED auth
    BY <1>1 DEF Does, Refreshes, Becomes
<1>5. ASSUME NEW n, Becomes(th, n), ActivatesFresh(n)', Grows, Calm, LatestInv'
      PROVE  FreshInv'
    <2>1. TableFresh' /\ ThreadsFresh'
        BY <1>1, <1>5, TableFreshKept, BecomesFresh DEF IInv, FreshInv
    <2> QED BY <1>1, <1>4, <1>5, <2>1, QuietStep
<1>6. CASE NewObject(t) /\ UNCHANGED owner /\ Becomes(th, [a EXCEPT !.at = "asking", !.object = o])
    <2>1. Grows /\ o \in 1..Len(objects') /\ objects'[o] = t
        BY <1>1, <1>2, <1>3, <1>6, NewObjectFacts DEF IInv
    <2>2. Calm
        BY <1>1, <1>3, <1>6, NewObjectCalm DEF IInv
    <2>3. LatestInv'
        BY <1>1, <1>6, LatestKept DEF IInv, FreshInv
    <2>4. PICK n : n = [a EXCEPT !.at = "asking", !.object = o]
        OBVIOUS
    <2>5. n.at = "asking" /\ n.user = u /\ n.token = t /\ n.object = o
        BY <1>2, <1>3, <2>4 DEF AnyAuth
    <2>6. Fresh(u, t)'
        BY <1>3, <2>2, FreshStays DEF FreshInv
    <2>7. ActivatesFresh(n)'
        BY <2>1, <2>5, <2>6 DEF ActivatesFresh, Fresh
    <2> QED BY <1>5, <1>6, <2>1, <2>2, <2>3, <2>4, <2>7
<1>7. CASE /\ Issue(u) /\ NewObject(s)
           /\ Becomes(th, [a EXCEPT !.at = "rotated", !.token = s, !.object = o])
    <2>1. Grows /\ s \in 1..Len(owner')
        BY <1>1, <1>2, <1>3, <1>7, IssueFacts DEF IInv
    <2>2. s = Len(owner) + 1 /\ Len(owner) \in Nat
        BY <1>2, <1>7 DEF Issue, IInv, TokensInv
    <2>3. s \in Nat /\ t <= s
        BY <1>3, <2>2
    <2>4. Calm
        BY <1>1, <1>7, <2>3, NewObjectCalm DEF IInv
    <2>5. LatestInv'
        BY <1>1, <1>3, <1>7, LatestKept DEF IInv, FreshInv
    <2>6. objects'[o] = s
        BY <1>2, <1>7, <2>3 DEF NewObject, IInv, TokensInv
    <2>7. PICK n : n = [a EXCEPT !.at = "rotated", !.token = s, !.object = o]
        OBVIOUS
    <2>8. n.at = "rotated" /\ n.user = u /\ n.token = s /\ n.object = o
        BY <1>2, <1>3, <2>7 DEF AnyAuth
    <2>9. Fresh(u, s)'
        BY <1>3, <2>3, <2>4, FreshStays DEF FreshInv
    <2>10. ActivatesFresh(n)'
        BY <2>6, <2>8, <2>9 DEF ActivatesFresh, Fresh
    <2> QED BY <1>5, <1>7, <2>1, <2>4, <2>5, <2>7, <2>10
<1> QED BY <1>2, <1>3, <1>6, <1>7 DEF Refreshes

LEMMA StoreRotatedFresh ==
    ASSUME IInv, IInv', FreshInv, NEW th, NEW a, Does(th, a), StoreRotated(th, a)
    PROVE  FreshInv'
<1>1. /\ UNCHANGED <<objects, owner, revoked, loaded, sessions, uploads, posts, toRestore, job,
                     cover, latest, overlapped>>
      /\ a.at = "rotated" /\ a.at \in Activating
      /\ Upsert(a.user, a.token)
      /\ Becomes(th, [a EXCEPT !.at = "asking"])
    BY DEF StoreRotated, serverVars, windowVars, historyVars, Activating
<1>2. PICK u, t, o, n : /\ u = a.user /\ t = a.token /\ o = a.object
                        /\ n = [a EXCEPT !.at = "asking"]
    OBVIOUS
<1>3. /\ a \in AnyAuth /\ u \in Users /\ t \in Nat /\ OfUser(t, u) /\ Fresh(u, t)
      /\ KnowsAccount(a) /\ ActivatesFresh(a)
    BY <1>1, <1>2, DoesFresh
<1>4. Grows
    BY <1>1, <1>2, <1>3, UpsertFacts DEF IInv
<1>5. Calm
    BY <1>1, SameCalm DEF IInv
<1>6. LatestInv' /\ TableFresh'
    BY <1>1, <1>2, <1>3, <1>5, LatestKept, TableFreshUpsert DEF IInv, FreshInv
<1>7. n.at = "asking" /\ n.user = u /\ n.token = t /\ n.object = o
    BY <1>2, <1>3 DEF AnyAuth
<1>8. ActivatesFresh(a)'
    BY <1>3, <1>5, ActivatesKept DEF IInv, FreshInv
<1>9. ActivatesFresh(n)'
    BY <1>1, <1>2, <1>7, <1>8 DEF ActivatesFresh, Activating, Fresh
<1>10. ThreadsFresh'
    BY <1>1, <1>2, <1>4, <1>5, <1>9, BecomesFresh DEF IInv, FreshInv
<1>11. auth.at = "posted" => UNCHANGED auth
    BY <1>1 DEF Does, Becomes
<1> QED BY <1>1, <1>4, <1>5, <1>6, <1>10, <1>11, QuietStep

LEMMA StoreUserInfoFresh ==
    ASSUME IInv, IInv', FreshInv, NEW th, NEW a, Does(th, a), StoreUserInfo(th, a)
    PROVE  FreshInv'
<1>1. /\ UNCHANGED <<objects, owner, revoked, loaded, sessions, uploads, toRestore, job,
                     cover, latest, overlapped>>
      /\ a.at = "asking" /\ a.at \in Activating
      /\ Upsert(a.user, a.token) \/ UNCHANGED <<table, nextId>>
      /\ Becomes(th, Ended(th))
      /\ Post(th, a.id, a.object)
    BY DEF StoreUserInfo, serverVars, windowVars, historyVars, Activating
<1>2. PICK u, t, i, o, n : /\ u = a.user /\ t = a.token /\ i = a.id /\ o = a.object
                           /\ n = Ended(th)
    OBVIOUS
<1>3. /\ u \in Users /\ t \in Nat /\ OfUser(t, u) /\ Fresh(u, t) /\ IdOf(i, u)
      /\ i \in Nat /\ o \in Nat /\ th \in {"auth", "silent"}
      /\ ObjectOf(o, u) /\ Fresh(u, objects[o])
    BY <1>1, <1>2, DoesFresh DEF KnowsAccount, ActivatesFresh
<1>4. Calm
    BY <1>1, SameCalm DEF IInv
<1>5. Grows
    BY <1>1, <1>2, <1>3, UpsertFacts, SameGrows DEF IInv
<1>6. LatestInv'
    BY <1>1, LatestKept DEF IInv, FreshInv
<1>7. TableFresh'
    BY <1>1, <1>2, <1>3, <1>4, TableFreshKept, TableFreshUpsert DEF IInv, FreshInv
<1>8. Fresh(u, objects[o])'
    BY <1>3, <1>4, ObjectFreshStays DEF IInv, FreshInv, ObjectOf
<1>9. ASSUME i \in Stored' PROVE Fresh(table[i].user, objects[o])'
    <2>1. table'[i].user = u
        BY <1>3, <1>5, <1>9 DEF IdOf, Grows, Stored
    <2> QED BY <1>8, <2>1 DEF Fresh
<1>10. /\ ActivatesFresh(n)'
       /\ th = "auth" => auth.at # "posted" /\ auth'.at = "posted"
       /\ th = "silent" => UNCHANGED auth
    BY <1>1, <1>2, EndedFresh
<1>11. ThreadsFresh'
    BY <1>1, <1>2, <1>4, <1>5, <1>10, BecomesFresh DEF IInv, FreshInv
<1> QED BY <1>1, <1>2, <1>3, <1>4, <1>5, <1>6, <1>7, <1>9, <1>10, <1>11, PostingStep

LEMMA ActivateFresh ==
    ASSUME IInv, IInv', FreshInv, NEW th, NEW a, Does(th, a), Activate(th, a)
    PROVE  FreshInv'
BY RefreshFailsFresh, RefreshesFresh, StoreRotatedFresh, StoreUserInfoFresh DEF Activate

-----------------------------------------------------------------------------
(* Threads that use a session. *)

LEMMA ThreadsFreshKept ==
    ASSUME IInv, TokensInv', LatestInv, ThreadsFresh, Calm, Grows,
           UNCHANGED <<auth, silent, toRestore, job, cover>>
    PROVE  ThreadsFresh'
BY AuthFreshKept, SilentFreshKept, RestoreFreshKept, JobFreshKept, CoverFreshKept DEF ThreadsFresh

LEMMA GetTokenFresh ==
    ASSUME IInv, IInv', FreshInv, NEW o \in 1..Len(objects), GetToken(o) PROVE FreshInv'
<1>1. /\ UNCHANGED <<table, nextId, loaded, sessions, uploads, posts, auth, silent,
                     toRestore, job, cover, revoked, latest, overlapped>>
      /\ Issue(owner[objects[o]])
      /\ objects' = [objects EXCEPT ![o] = Len(owner')]
    BY DEF GetToken, windowVars, historyVars, threadVars
<1>2. PICK u, t : u = owner[objects[o]] /\ t = Len(owner')
    OBVIOUS
<1>3. u \in Users /\ Issue(u)
    BY <1>1, <1>2 DEF IInv, TokensInv
<1>4. Grows
    BY <1>1, <1>2, <1>3, IssueFacts DEF IInv
<1>5. t = Len(owner) + 1 /\ Len(owner) \in Nat /\ objects' = [objects EXCEPT ![o] = t]
    BY <1>1, <1>2 DEF Issue, IInv, TokensInv
<1>6. Calm
    <2>1. /\ objects \in Seq(Nat)
          /\ \A p \in 1..Len(objects) : objects[p] \in 1..Len(owner)
        BY DEF IInv, TokensInv
    <2>2. ASSUME NEW p \in 1..Len(objects) PROVE p \in 1..Len(objects') /\ objects[p] <= objects'[p]
        BY <1>5, <2>1
    <2> QED BY <1>1, <2>2 DEF Calm
<1>7. LatestInv' /\ TableFresh'
    BY <1>1, <1>3, <1>6, LatestKept, TableFreshKept DEF IInv, FreshInv
<1>8. ThreadsFresh'
    BY <1>1, <1>4, <1>6, ThreadsFreshKept DEF IInv, FreshInv
<1> QED BY <1>1, <1>4, <1>6, <1>7, <1>8, QuietStep

(* A session that a sign-in has replaced is used only while the window has not   *)
(* taken the result of the sign-in, and then the user counts as overlapped.     *)
LEMMA StartsFresh ==
    ASSUME IInv, FreshInv, NEW id \in Stored, NEW o, Fits(id, o),
           Fresh(table[id].user, objects[o]) \/ Answered(id, 0),
           StartsWith(o), UNCHANGED <<objects, owner>>
    PROVE  Calm /\ Fresh(owner[objects[o]], objects[o])'
<1>1. PICK u, t : u = owner[objects[o]] /\ t = objects[o]
    OBVIOUS
<1>2. /\ u = table[id].user /\ u \in Users /\ t \in Nat /\ latest[u] \in Nat
      /\ UNCHANGED latest
      /\ overlapped' = IF auth.at = "posted" /\ t < latest[u] THEN overlapped \cup {u} ELSE overlapped
    BY <1>1 DEF Fits, OfUser, IInv, TokensInv, StartsWith, FreshInv, LatestInv
<1>3. Calm
    BY <1>2, SameCalm DEF IInv
<1>4. Answered(id, 0) => auth.at = "posted"
    BY DEF Answered, FreshInv, PostedOnce
<1>5. u \in overlapped' \/ latest[u] <= t
    BY <1>1, <1>2, <1>4 DEF Fresh
<1> QED BY <1>1, <1>2, <1>3, <1>5 DEF Fresh

LEMMA StartedFresh ==
    ASSUME NEW o, Fresh(owner[objects[o]], objects[o])', NEW w, w.at = "syncing", w.object = o
    PROVE  UsesFresh(w)'
BY DEF UsesFresh, Fresh

LEMMA JobStartsFresh == ASSUME IInv, IInv', FreshInv, NEW id \in Ids, JobStarts(id) PROVE FreshInv'
<1>1. /\ UNCHANGED <<table, nextId, objects, owner, revoked, loaded, sessions, uploads, posts, auth,
                     silent, toRestore, cover>>
      /\ uploads[id] # 0
      /\ job' = [NoWork EXCEPT !.at = "syncing", !.id = id, !.object = uploads[id],
                               !.old = objects[uploads[id]]]
      /\ StartsWith(uploads[id])
    BY DEF JobStarts, serverVars, windowVars
<1>2. PICK o, old : o = uploads[id] /\ old = objects[uploads[id]]
    OBVIOUS
<1>3. /\ id \in Stored /\ Fits(id, o) /\ StartsWith(o)
      /\ Fresh(table[id].user, objects[o]) \/ Answered(id, 0)
    BY <1>1, <1>2 DEF IInv, UploadsInv, FreshInv, UploadsFresh
<1>4. Calm /\ Fresh(owner[objects[o]], objects[o])'
    BY <1>1, <1>3, StartsFresh
<1>5. job' = [NoWork EXCEPT !.at = "syncing", !.id = id, !.object = o, !.old = old]
    BY <1>1, <1>2
<1>6. job'.at = "syncing" /\ job'.object = o
    BY <1>5 DEF NoWork
<1>7. UsesFresh(job)'
    <2>1. PICK w : w = job'
        OBVIOUS
    <2>2. UsesFresh(w)'
        BY <1>4, <1>6, <2>1, StartedFresh
    <2> QED BY <2>1, <2>2 DEF UsesFresh, Fresh, ObjectOf, OfUser
<1>8. Grows
    BY <1>1, SameGrows DEF IInv
<1>9. UNCHANGED latest
    BY <1>1 DEF StartsWith
<1>10. LatestInv' /\ TableFresh'
    BY <1>1, <1>4, <1>9, LatestKept, TableFreshKept DEF IInv, FreshInv
<1>11. ThreadsFresh'
    BY <1>1, <1>4, <1>7, <1>8, AuthFreshKept, SilentFreshKept, RestoreFreshKept, CoverFreshKept
       DEF IInv, FreshInv, ThreadsFresh
<1> QED BY <1>1, <1>4, <1>8, <1>10, <1>11, QuietStep

(* The cover thread c goes on as n. *)
LEMMA CoverBecomesFresh ==
    ASSUME IInv, TokensInv', LatestInv, ThreadsFresh, Calm, Grows, NEW c \in Coverers, NEW n,
           cover' = [cover EXCEPT ![c] = n], UsesFresh(n)',
           UNCHANGED <<auth, silent, toRestore, job>>
    PROVE  ThreadsFresh'
<1>1. /\ cover'[c] = n
      /\ \A d \in Coverers : d # c => cover'[d] = cover[d]
    BY DEF IInv, CoverInv
<1>2. ASSUME NEW d \in Coverers PROVE UsesFresh(cover[d])'
    <2>1. CASE d = c
        BY <1>1, <2>1 DEF UsesFresh, Fresh, ObjectOf, OfUser
    <2>2. CASE d # c
        BY <1>1, <2>2, CoverFreshKept
    <2> QED BY <2>1, <2>2
<1> QED BY <1>2, AuthFreshKept, SilentFreshKept, RestoreFreshKept, JobFreshKept DEF ThreadsFresh

LEMMA CoverStartsFresh ==
    ASSUME IInv, IInv', FreshInv, NEW c \in Coverers, NEW id \in Ids, CoverStarts(c, id) PROVE FreshInv'
<1>1. /\ UNCHANGED <<table, nextId, objects, owner, revoked, loaded, sessions, uploads, posts, auth,
                     silent, toRestore, job>>
      /\ loaded[id] # Gone /\ sessions[id] # 0
      /\ cover' = [cover EXCEPT ![c] = [NoWork EXCEPT !.at = "syncing", !.id = id,
                                                      !.object = sessions[id]]]
      /\ StartsWith(sessions[id])
    BY DEF CoverStarts, serverVars, windowVars
<1>2. PICK o, n : /\ o = sessions[id]
                  /\ n = [NoWork EXCEPT !.at = "syncing", !.id = id, !.object = o]
    OBVIOUS
<1>3. /\ id \in Stored /\ Fits(id, o) /\ StartsWith(o)
      /\ Fresh(table[id].user, objects[o]) \/ Answered(id, 0)
    BY <1>1, <1>2 DEF IInv, SessionsInv, LoadedInv, FreshInv, SessionsFresh
<1>4. Calm /\ Fresh(owner[objects[o]], objects[o])'
    BY <1>1, <1>3, StartsFresh
<1>5. n.at = "syncing" /\ n.object = o
    BY <1>2 DEF NoWork
<1>6. UsesFresh(n)'
    BY <1>4, <1>5, StartedFresh
<1>7. Grows /\ UNCHANGED latest
    BY <1>1, SameGrows DEF IInv, StartsWith
<1>8. LatestInv' /\ TableFresh'
    BY <1>1, <1>4, <1>7, LatestKept, TableFreshKept DEF IInv, FreshInv
<1>9. ThreadsFresh'
    BY <1>1, <1>2, <1>4, <1>6, <1>7, CoverBecomesFresh DEF IInv, FreshInv
<1> QED BY <1>1, <1>4, <1>7, <1>8, <1>9, QuietStep

(* What a thread reads of the table is its session's user, and the token it will *)
(* write is its session's.                                                   *)
LEMMA ReadFresh ==
    ASSUME IInv, NEW w, KnowsSession(w), UsesFresh(w), w.at = "syncing", table[w.id] # Gone,
           NEW n, n = Read(w)
    PROVE  UsesFresh(n)
<1>1. w \in AnyWork /\ w.id \in Ids /\ Fits(w.id, w.object)
    BY DEF KnowsSession
<1>2. PICK o, u, t : o = w.object /\ u = table[w.id].user /\ t = objects[w.object]
    OBVIOUS
<1>3. ObjectOf(o, u) /\ owner[t] = u
    BY <1>1, <1>2 DEF Stored, Fits, OfUser, ObjectOf
<1>4. n = [w EXCEPT !.at = "storing", !.user = u, !.new = t]
    BY <1>2 DEF Read
<1>5. n.at = "storing" /\ n.user = u /\ n.new = t /\ n.object = o
    BY <1>1, <1>2, <1>4 DEF AnyWork
<1> QED BY <1>2, <1>3, <1>5 DEF UsesFresh

LEMMA IdleFresh == ASSUME NEW w, w = NoWork PROVE UsesFresh(w) /\ UsesFresh(w)'
BY DEF UsesFresh, NoWork

LEMMA JobReadsFresh == ASSUME IInv, IInv', FreshInv, JobReads PROVE FreshInv'
<1>1. /\ UNCHANGED <<table, nextId, objects, owner, revoked, loaded, sessions, uploads, posts, auth,
                     silent, toRestore, cover, latest, overlapped>>
      /\ job.at = "syncing"
      /\ \/ table[job.id] # Gone /\ job' = Read(job)
         \/ job' = NoWork
    BY DEF JobReads, serverVars, windowVars, historyVars
<1>2. Grows /\ Calm
    BY <1>1, SameGrows, SameCalm DEF IInv
<1>3. PICK w, n : w = job /\ n = job'
    OBVIOUS
<1>4. KnowsSession(n) /\ UsesFresh(n)
    <2>1. KnowsSession(w) /\ UsesFresh(w) /\ w.at = "syncing"
        BY <1>1, <1>3 DEF IInv, JobInv, FreshInv, ThreadsFresh
    <2>2. CASE table[job.id] # Gone /\ job' = Read(job)
        <3>1. n = Read(w) /\ table[w.id] # Gone
            BY <1>3, <2>2 DEF Read
        <3> QED BY <2>1, <3>1, ReadKnows, ReadFresh
    <2>3. CASE job' = NoWork
        BY <1>3, <2>3, NoWorkKnows, IdleFresh
    <2> QED BY <1>1, <2>2, <2>3
<1>5. UsesFresh(n)'
    BY <1>2, <1>4, UsesKept DEF IInv, FreshInv
<1>6. UsesFresh(job)'
    BY <1>3, <1>5 DEF UsesFresh, Fresh, ObjectOf, OfUser
<1>7. LatestInv' /\ TableFresh'
    BY <1>1, <1>2, LatestKept, TableFreshKept DEF IInv, FreshInv
<1>8. ThreadsFresh'
    BY <1>1, <1>2, <1>6, AuthFreshKept, SilentFreshKept, RestoreFreshKept, CoverFreshKept
       DEF IInv, FreshInv, ThreadsFresh
<1> QED BY <1>1, <1>2, <1>7, <1>8, QuietStep

LEMMA JobStoresFresh == ASSUME IInv, IInv', FreshInv, JobStores PROVE FreshInv'
<1>1. /\ UNCHANGED <<objects, owner, revoked, loaded, sessions, uploads, posts, auth, silent,
                     toRestore, cover, latest, overlapped>>
      /\ job.at = "storing"
      /\ Upsert(job.user, job.new)
      /\ job' = NoWork
    BY DEF JobStores, serverVars, windowVars, historyVars
<1>2. PICK u, t : u = job.user /\ t = job.new
    OBVIOUS
<1>3. u \in Users /\ OfUser(t, u) /\ t \in Nat /\ Fresh(u, t)
    BY <1>1, <1>2 DEF IInv, JobInv, KnowsSession, AnyWork, FreshInv, ThreadsFresh, UsesFresh
<1>4. Grows
    BY <1>1, <1>2, <1>3, UpsertFacts DEF IInv
<1>5. Calm
    BY <1>1, SameCalm DEF IInv
<1>6. LatestInv' /\ TableFresh'
    BY <1>1, <1>2, <1>3, <1>5, LatestKept, TableFreshUpsert DEF IInv, FreshInv
<1>7. UsesFresh(job)'
    BY <1>1 DEF UsesFresh, NoWork
<1>8. ThreadsFresh'
    BY <1>1, <1>4, <1>5, <1>7, AuthFreshKept, SilentFreshKept, RestoreFreshKept, CoverFreshKept
       DEF IInv, FreshInv, ThreadsFresh
<1> QED BY <1>1, <1>4, <1>5, <1>6, <1>8, QuietStep

LEMMA CoverReadsFresh == ASSUME IInv, IInv', FreshInv, NEW c \in Coverers, CoverReads(c) PROVE FreshInv'
<1>1. /\ UNCHANGED <<table, nextId, objects, owner, revoked, loaded, sessions, uploads, posts, auth,
                     silent, toRestore, job, latest, overlapped>>
      /\ cover[c].at = "syncing"
    BY DEF CoverReads, serverVars, windowVars, historyVars
<1>2. Grows /\ Calm
    BY <1>1, SameGrows, SameCalm DEF IInv
<1>3. PICK w : w = cover[c]
    OBVIOUS
<1>4. PICK n : n = IF table[w.id] # Gone /\ table[w.id].token # objects[w.object] THEN Read(w) ELSE NoWork
    OBVIOUS
<1>5. cover' = [cover EXCEPT ![c] = n]
    BY <1>3, <1>4 DEF CoverReads
<1>6. KnowsSession(n) /\ UsesFresh(n)
    <2>1. KnowsSession(w) /\ UsesFresh(w) /\ w.at = "syncing"
        BY <1>1, <1>3 DEF IInv, CoverInv, FreshInv, ThreadsFresh
    <2> QED BY <1>4, <2>1, ReadKnows, ReadFresh, NoWorkKnows, IdleFresh
<1>7. UsesFresh(n)'
    BY <1>2, <1>6, UsesKept DEF IInv, FreshInv
<1>8. LatestInv' /\ TableFresh'
    BY <1>1, <1>2, LatestKept, TableFreshKept DEF IInv, FreshInv
<1>9. ThreadsFresh'
    BY <1>1, <1>2, <1>5, <1>7, CoverBecomesFresh DEF IInv, FreshInv
<1> QED BY <1>1, <1>2, <1>8, <1>9, QuietStep

LEMMA CoverStoresFresh == ASSUME IInv, IInv', FreshInv, NEW c \in Coverers, CoverStores(c) PROVE FreshInv'
<1>1. /\ UNCHANGED <<objects, owner, revoked, loaded, sessions, uploads, posts, auth, silent,
                     toRestore, job, latest, overlapped>>
      /\ cover[c].at = "storing"
      /\ Upsert(cover[c].user, cover[c].new)
      /\ cover' = [cover EXCEPT ![c] = NoWork]
    BY DEF CoverStores, serverVars, windowVars, historyVars
<1>2. PICK u, t, n : u = cover[c].user /\ t = cover[c].new /\ n = NoWork
    OBVIOUS
<1>3. u \in Users /\ OfUser(t, u) /\ t \in Nat /\ Fresh(u, t)
    BY <1>1, <1>2 DEF IInv, CoverInv, KnowsSession, AnyWork, FreshInv, ThreadsFresh, UsesFresh
<1>4. Grows
    BY <1>1, <1>2, <1>3, UpsertFacts DEF IInv
<1>5. Calm
    BY <1>1, SameCalm DEF IInv
<1>6. LatestInv' /\ TableFresh'
    BY <1>1, <1>2, <1>3, <1>5, LatestKept, TableFreshUpsert DEF IInv, FreshInv
<1>7. ThreadsFresh'
    BY <1>1, <1>2, <1>4, <1>5, IdleFresh, CoverBecomesFresh DEF IInv, FreshInv
<1> QED BY <1>1, <1>4, <1>5, <1>6, <1>7, QuietStep

-----------------------------------------------------------------------------
(* Tokens of a user are revoked all at once. *)
LEMMA RevokeFresh == ASSUME IInv, IInv', FreshInv, NEW u \in Users, Revoke(u) PROVE FreshInv'
<1>1. /\ UNCHANGED <<table, nextId, objects, owner, loaded, sessions, uploads, posts, auth, silent,
                     toRestore, job, cover, latest, overlapped>>
      /\ revoked' = revoked \cup {t \in 1..Len(owner) : owner[t] = u}
    BY DEF Revoke, windowVars, threadVars, historyVars, Issued
<1>2. Grows /\ Calm
    BY <1>1, SameGrows, SameCalm DEF IInv
<1>3. LatestInv'
    BY <1>1 DEF FreshInv, LatestInv, OfUser
<1>4. TableFresh' /\ ThreadsFresh'
    BY <1>1, <1>2, TableFreshKept, ThreadsFreshKept DEF IInv, FreshInv
<1> QED BY <1>1, <1>2, <1>3, <1>4, QuietStep

LEMMA UpdateSessionsFresh == ASSUME IInv, IInv', FreshInv, UpdateSessions PROVE FreshInv'
<1>1. /\ UNCHANGED <<table, nextId, objects, owner, revoked, loaded, sessions, posts, auth, silent,
                     toRestore, job, cover, latest, overlapped>>
      /\ uploads' = [id \in Ids |-> IF sessions[id] = 0 THEN uploads[id]
                                    ELSE Registered(id, sessions[id])[id]]
    BY DEF UpdateSessions, serverVars, historyVars, threadVars
<1>2. ASSUME NEW id \in Ids
      PROVE  uploads'[id] = uploads[id] \/ (uploads'[id] = sessions[id] /\ sessions[id] # 0)
    BY <1>1 DEF Registered, IInv, UploadsInv
<1>3. UploadsFresh'
    BY <1>1, <1>2 DEF FreshInv, UploadsFresh, SessionsFresh, Stored, Fresh, Answered
<1>4. Grows /\ Calm
    BY <1>1, SameGrows, SameCalm DEF IInv
<1>5. LatestInv' /\ TableFresh' /\ ThreadsFresh'
    BY <1>1, <1>4, LatestKept, TableFreshKept, ThreadsFreshKept DEF IInv, FreshInv
<1>6. PostsStay /\ PostedOnce'
    BY <1>1, SamePostsStay DEF IInv, FreshInv, PostedOnce
<1> QED BY <1>1, <1>3, <1>4, <1>5, <1>6, LoadedFreshKept, SessionsFreshKept, PostsFreshKept
       DEF IInv, FreshInv

-----------------------------------------------------------------------------
(* A sign-in stores its token: what is older of that user is in the window, which *)
(* has the result before it to take, or in a thread, and then the user counts as *)
(* overlapped.                                                               *)
LEMMA AddStoresFresh == ASSUME IInv, IInv', FreshInv, AddStores PROVE FreshInv'
<1>1. /\ UNCHANGED <<objects, owner, revoked, loaded, sessions, uploads, silent, toRestore, job,
                     cover>>
      /\ auth.at = "storing"
      /\ auth' = [auth EXCEPT !.at = "posted"]
      /\ latest' = [latest EXCEPT ![auth.user] = auth.token]
      /\ overlapped' = (overlapped \ {auth.user}) \cup {u \in {auth.user} : Holds(u)}
    BY DEF AddStores, serverVars, windowVars
<1>2. PICK u, t, o, r : u = auth.user /\ t = auth.token /\ o = auth.object /\ r = UpsertId(u)
    OBVIOUS
<1>3. /\ u \in Users /\ OfUser(t, u) /\ ObjectOf(o, u) /\ auth \in AnyAuth /\ o \in Nat
      /\ t \in Nat /\ t <= objects[o]
    BY <1>1, <1>2 DEF IInv, AuthInv, KnowsAccount, Activating, AnyAuth, FreshInv, ThreadsFresh,
                      ActivatesFresh
<1>4. Upsert(u, t) /\ Post("auth", r, o)
    BY <1>2 DEF AddStores
<1>5. /\ NoneRemoved /\ r \in Nat
      /\ RowsOf(u) # {} => r \in Stored /\ table[r].user = u
      /\ RowsOf(u) = {} => r = nextId
    BY <1>1, <1>2, <1>3, <1>4, UpsertFacts, UpsertIdFacts DEF IInv
<1>6. /\ latest'[u] = t
      /\ \A v \in Users \ {u} : latest'[v] = latest[v] /\ (v \in overlapped' <=> v \in overlapped)
      /\ Holds(u) => u \in overlapped'
    BY <1>1, <1>2, <1>3 DEF FreshInv, LatestInv
<1>7. \A v \in Users \ {u} : \A s : Fresh(v, s) => Fresh(v, s)'
    BY <1>6 DEF Fresh
<1>8. \A s \in Nat : t <= s => Fresh(u, s)'
    BY <1>6 DEF Fresh
<1>9. ASSUME NEW id \in Stored'
      PROVE  /\ id = r => table'[id].user = u /\ table'[id].token = t
             /\ id # r => id \in Stored /\ table'[id] = table[id] /\ table[id].user \in Users \ {u}
    <2>1. table' = [table EXCEPT ![r] = [user |-> u, token |-> t]] /\ id \in Ids
        BY <1>2, <1>4 DEF Upsert, Stored
    <2>2. CASE id = r
        BY <2>1, <2>2 DEF IInv, TableInv
    <2>3. CASE id # r
        <3>1. id \in Stored /\ table'[id] = table[id]
            BY <2>1, <2>3 DEF IInv, TableInv, Stored
        <3>2. table[id].user \in Users
            BY <3>1 DEF IInv, TableInv, Stored, AnyAccount
        <3>3. table[id].user # u
            BY <1>5, <2>3, <3>1 DEF IInv, TableInv, RowsOf
        <3> QED BY <2>3, <3>1, <3>2, <3>3
    <2> QED BY <2>2, <2>3
<1>10. /\ PostsStay /\ Len(posts) \in Nat /\ Len(posts') = Len(posts) + 1
       /\ posts'[Len(posts')].kind = "auth"
       /\ posts'[Len(posts')].id = r /\ posts'[Len(posts')].object = o
    BY <1>3, <1>4, <1>5, PostStays DEF IInv
<1>11. o # 0 /\ o \in 1..Len(objects)
    BY <1>3 DEF ObjectOf, IInv, TokensInv
<1>12. ASSUME NEW k \in Nat, k < Len(posts') PROVE Answered(r, k)'
    BY <1>10, <1>11, <1>12 DEF Answered
<1>13. \A id, k : Answered(id, k) => Answered(id, k)'
    BY <1>10, AnsweredStays DEF IInv
<1>14. LatestInv'
    <2>1. latest' \in [Users -> Nat]
        BY <1>1, <1>2, <1>3 DEF FreshInv, LatestInv
    <2>2. ASSUME NEW v \in Users, latest'[v] # 0 PROVE OfUser(latest[v], v)'
        BY <1>1, <1>3, <1>6, <2>2 DEF FreshInv, LatestInv, OfUser
    <2> QED BY <1>1, <2>1, <2>2 DEF FreshInv, LatestInv
<1>15. TableFresh'
    <2>1. ASSUME NEW id \in Stored' PROVE Fresh(table[id].user, table[id].token)'
        <3>1. CASE id = r
            BY <1>3, <1>8, <1>9, <3>1 DEF Fresh
        <3>2. CASE id # r
            <4>1. PICK v, s : v = table[id].user /\ s = table[id].token
                OBVIOUS
            <4>2. v \in Users \ {u} /\ Fresh(v, s) /\ table'[id].user = v /\ table'[id].token = s
                BY <1>9, <3>2, <4>1 DEF FreshInv, TableFresh
            <4> QED BY <1>7, <4>2 DEF Fresh
        <3> QED BY <3>1, <3>2
    <2> QED BY <2>1 DEF TableFresh
<1>16. LoadedFresh'
    <2>1. ASSUME NEW id \in Ids, loaded[id] # Gone
          PROVE  Fresh(loaded[id].user, loaded[id].token)' \/ Answered(id, 0)'
        <3>1. PICK v, s : v = loaded[id].user /\ s = loaded[id].token
            OBVIOUS
        <3>2. CASE id = r
            BY <1>10, <1>12, <3>2
        <3>3. CASE id # r
            <4>1. id \in Stored /\ id \in Stored' /\ table[id].user = v
                BY <1>5, <2>1, <3>1 DEF IInv, LoadedInv, NoneRemoved
            <4>2. v \in Users \ {u}
                BY <1>9, <3>3, <4>1
            <4>3. Fresh(v, s) \/ Answered(id, 0)
                BY <2>1, <3>1 DEF FreshInv, LoadedFresh
            <4>4. Fresh(v, s)' \/ Answered(id, 0)'
                BY <1>7, <1>13, <4>2, <4>3
            <4> QED BY <1>1, <3>1, <4>4 DEF Fresh
        <3> QED BY <3>2, <3>3
    <2> QED BY <1>1, <2>1 DEF LoadedFresh
<1>17. ASSUME NEW id \in Stored', NEW p, NEW k \in Nat, k < Len(posts'),
              id \in Stored => Fresh(table[id].user, objects[p]) \/ Answered(id, k)
       PROVE  Fresh(table[id].user, objects[p])' \/ Answered(id, k)'
    <2>1. CASE id = r
        BY <1>12, <1>17, <2>1
    <2>2. CASE id # r
        <3>1. PICK v, s : v = table[id].user /\ s = objects[p]
            OBVIOUS
        <3>2. v \in Users \ {u} /\ table'[id].user = v /\ (Fresh(v, s) \/ Answered(id, k))
            BY <1>9, <1>17, <2>2, <3>1
        <3>3. Fresh(v, s)' \/ Answered(id, k)'
            BY <1>7, <1>13, <3>2
        <3> QED BY <1>1, <3>1, <3>2, <3>3 DEF Fresh
    <2> QED BY <2>1, <2>2
<1>18. SessionsFresh'
    <2>1. ASSUME NEW id \in Stored', sessions[id] # 0
          PROVE  Fresh(table[id].user, objects[sessions[id]])' \/ Answered(id, 0)'
        <3>1. PICK p : p = sessions[id]
            OBVIOUS
        <3>2. id \in Stored => Fresh(table[id].user, objects[p]) \/ Answered(id, 0)
            BY <2>1, <3>1 DEF FreshInv, SessionsFresh
        <3>3. Fresh(table[id].user, objects[p])' \/ Answered(id, 0)'
            BY <1>10, <1>17, <3>2
        <3> QED BY <1>1, <3>1, <3>3 DEF Fresh
    <2> QED BY <1>1, <2>1 DEF SessionsFresh
<1>19. UploadsFresh'
    <2>1. ASSUME NEW id \in Stored', uploads[id] # 0
          PROVE  Fresh(table[id].user, objects[uploads[id]])' \/ Answered(id, 0)'
        <3>1. PICK p : p = uploads[id]
            OBVIOUS
        <3>2. id \in Stored => Fresh(table[id].user, objects[p]) \/ Answered(id, 0)
            BY <2>1, <3>1 DEF FreshInv, UploadsFresh
        <3>3. Fresh(table[id].user, objects[p])' \/ Answered(id, 0)'
            BY <1>10, <1>17, <3>2
        <3> QED BY <1>1, <3>1, <3>3 DEF Fresh
    <2> QED BY <1>1, <2>1 DEF UploadsFresh
<1>20. PostsFresh'
    <2>1. ASSUME NEW k \in 1..Len(posts'), posts'[k].object # 0, posts'[k].id \in Stored'
          PROVE  \/ Fresh(table[posts[k].id].user, objects[posts[k].object])'
                 \/ Answered(posts[k].id, k)'
        <3>1. CASE k = Len(posts')
            <4>1. table'[r].user = u /\ Fresh(u, objects[o])'
                BY <1>1, <1>3, <1>6, <1>9, <1>10, <2>1, <3>1 DEF Fresh
            <4> QED BY <1>10, <3>1, <4>1 DEF Fresh
        <3>2. CASE k # Len(posts')
            <4>1. k \in 1..Len(posts) /\ posts'[k] = posts[k] /\ k \in Nat /\ k < Len(posts')
                BY <1>10, <3>2 DEF PostsStay
            <4>2. PICK id, p : id = posts[k].id /\ p = posts[k].object
                OBVIOUS
            <4>3. id \in Stored => Fresh(table[id].user, objects[p]) \/ Answered(id, k)
                BY <2>1, <4>1, <4>2 DEF FreshInv, PostsFresh
            <4>4. Fresh(table[id].user, objects[p])' \/ Answered(id, k)'
                BY <1>17, <2>1, <4>1, <4>2, <4>3
            <4> QED BY <4>1, <4>2, <4>4 DEF Fresh, Answered
        <3> QED BY <3>1, <3>2
    <2> QED BY <2>1 DEF PostsFresh
<1>21. auth'.at = "posted"
    BY <1>1, <1>3 DEF AnyAuth
<1>22. PostedOnce'
    <2>1. \A k \in 1..Len(posts) : posts[k].kind # "auth"
        BY <1>1 DEF FreshInv, PostedOnce
    <2>2. \A k \in 1..Len(posts') : k = Len(posts') \/ (k \in 1..Len(posts) /\ posts'[k] = posts[k])
        BY <1>10 DEF PostsStay
    <2> QED BY <1>21, <2>1, <2>2 DEF PostedOnce
<1>23. ThreadsFresh'
    <2>1. ActivatesFresh(auth)'
        BY <1>21 DEF ActivatesFresh, Activating
    <2>2. ActivatesFresh(silent)'
        <3>1. PICK a : a = silent
            OBVIOUS
        <3>2. KnowsAccount(a) /\ ActivatesFresh(a) /\ a.at \in {"idle"} \cup Activating
            BY <3>1 DEF IInv, SilentInv, FreshInv, ThreadsFresh
        <3>3. CASE a.user = u /\ a.at # "idle"
            BY <1>1, <1>6, <3>1, <3>2, <3>3 DEF Holds, ActivatesFresh, Fresh, Activating
        <3>4. CASE a.at = "idle"
            BY <1>1, <3>1, <3>4 DEF ActivatesFresh, Activating
        <3>5. CASE a.user # u /\ a.at # "idle"
            <4>1. a.user \in Users \ {u} /\ a.at \in Activating
                BY <3>2, <3>5 DEF KnowsAccount
            <4>2. ActivatesFresh(a)'
                BY <1>1, <1>6, <3>2, <4>1 DEF ActivatesFresh, Fresh
            <4> QED BY <1>1, <3>1, <4>2 DEF ActivatesFresh, Fresh
        <3> QED BY <3>3, <3>4, <3>5
    <2>3. ASSUME NEW a \in toRestore' PROVE Fresh(a.user, a.token)'
        <3>1. a \in toRestore /\ a.user \in Users /\ Fresh(a.user, a.token)
            BY <1>1 DEF IInv, RestoreInv, Waits, FreshInv, ThreadsFresh
        <3>2. a.user = u => u \in overlapped'
            BY <1>6, <3>1 DEF Holds
        <3> QED BY <1>7, <3>1, <3>2 DEF Fresh
    <2>4. ASSUME NEW w \in {job} \cup {cover[c] : c \in Coverers}, KnowsSession(w), UsesFresh(w)
          PROVE  UsesFresh(w)'
        <3>1. PICK p, v, s : p = w.object /\ v = owner[objects[p]] /\ s = objects[p]
            OBVIOUS
        <3>2. w.at # "idle" /\ v = u => u \in overlapped'
            BY <1>6, <3>1 DEF Holds
        <3>3. ASSUME w.at = "syncing" PROVE v \in Users /\ Fresh(v, s)'
            <4>1. p \in 1..Len(objects) /\ Fresh(v, s)
                BY <2>4, <3>1, <3>3 DEF KnowsSession, Fits, UsesFresh
            <4>2. v \in Users
                BY <3>1, <4>1 DEF IInv, TokensInv
            <4> QED BY <1>7, <3>2, <3>3, <4>1, <4>2 DEF Fresh
        <3>4. ASSUME w.at = "storing" PROVE ObjectOf(p, w.user)' /\ Fresh(w.user, w.new)'
            <4>1. w.user \in Users /\ ObjectOf(p, w.user) /\ Fresh(w.user, w.new)
                BY <2>4, <3>1, <3>4 DEF KnowsSession, UsesFresh
            <4>2. w.user = v /\ ObjectOf(p, w.user)'
                BY <1>1, <3>1, <4>1 DEF ObjectOf, OfUser
            <4> QED BY <1>7, <3>2, <3>4, <4>1, <4>2 DEF Fresh
        <3> QED BY <1>1, <3>1, <3>3, <3>4 DEF UsesFresh, Fresh, ObjectOf, OfUser
    <2>5. UsesFresh(job)'
        <3>1. PICK w : w = job
            OBVIOUS
        <3>2. UsesFresh(w)'
            BY <2>4, <3>1 DEF IInv, JobInv, FreshInv, ThreadsFresh
        <3> QED BY <1>1, <3>1, <3>2 DEF UsesFresh, Fresh, ObjectOf, OfUser
    <2>6. ASSUME NEW c \in Coverers PROVE UsesFresh(cover[c])'
        <3>1. PICK w : w = cover[c]
            OBVIOUS
        <3>2. UsesFresh(w)'
            BY <2>4, <3>1 DEF IInv, CoverInv, FreshInv, ThreadsFresh
        <3> QED BY <1>1, <3>1, <3>2 DEF UsesFresh, Fresh, ObjectOf, OfUser
    <2> QED BY <2>1, <2>2, <2>3, <2>5, <2>6 DEF ThreadsFresh
<1> QED BY <1>14, <1>15, <1>16, <1>18, <1>19, <1>20, <1>22, <1>23 DEF FreshInv

(* The window takes the first result: the others move up by one. *)
LEMMA HandleResultFresh == ASSUME IInv, IInv', FreshInv, HandleResult PROVE FreshInv'
<1>1. /\ UNCHANGED <<table, nextId, objects, owner, revoked, silent, toRestore, job, cover, latest,
                     overlapped>>
      /\ posts # <<>>
      /\ posts' = Tail(posts)
    BY DEF HandleResult, serverVars, historyVars
<1>2. Grows /\ Calm
    BY <1>1, SameGrows, SameCalm DEF IInv
<1>3. /\ Len(posts) \in Nat /\ Len(posts) > 0 /\ Len(posts') = Len(posts) - 1
      /\ \A k \in 1..Len(posts') : k + 1 \in 1..Len(posts) /\ posts'[k] = posts[k + 1]
      /\ \A k \in 1..Len(posts) : k > 1 => k - 1 \in 1..Len(posts') /\ posts'[k - 1] = posts[k]
    BY <1>1 DEF IInv, PostsInv
<1>4. PICK r, i, o : r = Head(posts) /\ i = r.id /\ o = r.object
    OBVIOUS
<1>5. 1 \in 1..Len(posts) /\ r = posts[1]
    BY <1>3, <1>4 DEF IInv, PostsInv
<1>6. /\ auth' = IF r.kind = "auth" THEN NoAuth ELSE auth
      /\ IF o = 0 THEN HandleFailure(i) ELSE HandleSuccess(i, o)
    BY <1>4 DEF HandleResult
<1>7. ASSUME NEW id, NEW k \in Nat, Answered(id, k + 1) PROVE Answered(id, k)'
    <2>1. PICK j \in 1..Len(posts) :
              j > k + 1 /\ posts[j].kind = "auth" /\ posts[j].object # 0 /\ posts[j].id = id
        BY <1>7 DEF Answered
    <2>2. j - 1 \in 1..Len(posts') /\ posts'[j - 1] = posts[j] /\ j - 1 > k
        BY <1>3, <2>1
    <2> QED BY <2>1, <2>2 DEF Answered
<1>8. ASSUME NEW id, Answered(id, 0) PROVE Answered(id, 0)' \/ (o # 0 /\ i = id)
    <2>1. PICK j \in 1..Len(posts) :
              j > 0 /\ posts[j].kind = "auth" /\ posts[j].object # 0 /\ posts[j].id = id
        BY <1>8 DEF Answered
    <2>2. CASE j = 1
        BY <1>4, <1>5, <2>1, <2>2
    <2>3. CASE j # 1
        <3>1. j - 1 \in 1..Len(posts') /\ posts'[j - 1] = posts[j] /\ j - 1 > 0
            BY <1>3, <2>1, <2>3
        <3> QED BY <2>1, <3>1 DEF Answered
    <2> QED BY <2>2, <2>3
<1>9. LatestInv' /\ TableFresh'
    BY <1>1, <1>2, LatestKept, TableFreshKept DEF IInv, FreshInv
<1>10. PostsFresh'
    <2>1. ASSUME NEW k \in 1..Len(posts'), posts'[k].object # 0, posts'[k].id \in Stored'
          PROVE  \/ Fresh(table[posts[k].id].user, objects[posts[k].object])'
                 \/ Answered(posts[k].id, k)'
        <3>1. PICK j, id, p : j = k + 1 /\ id = posts[j].id /\ p = posts[j].object
            OBVIOUS
        <3>2. j \in 1..Len(posts) /\ posts'[k] = posts[j]
            BY <1>3, <3>1
        <3>3. Fresh(table[id].user, objects[p]) \/ Answered(id, k + 1)
            BY <1>1, <2>1, <3>1, <3>2 DEF FreshInv, PostsFresh, Stored
        <3>4. Fresh(table[id].user, objects[p])' \/ Answered(id, k)'
            BY <1>1, <1>7, <3>3 DEF Fresh
        <3> QED BY <3>1, <3>2, <3>4 DEF Fresh, Answered
    <2> QED BY <2>1 DEF PostsFresh
<1>11. PostedOnce'
    <2>1. \A k \in 1..Len(posts') : posts'[k].kind = "auth" => r.kind # "auth" /\ posts[k + 1].kind = "auth"
        <3>1. ASSUME NEW k \in 1..Len(posts'), posts'[k].kind = "auth"
              PROVE  r.kind # "auth" /\ posts[k + 1].kind = "auth"
            BY <1>3, <1>5, <3>1 DEF FreshInv, PostedOnce
        <3> QED BY <3>1
    <2>2. ASSUME NEW k \in 1..Len(posts'), posts'[k].kind = "auth" PROVE auth'.at = "posted"
        BY <1>3, <1>6, <2>1, <2>2 DEF FreshInv, PostedOnce
    <2>3. ASSUME NEW j \in 1..Len(posts'), NEW k \in 1..Len(posts'),
                 posts'[j].kind = "auth", posts'[k].kind = "auth"
          PROVE  j = k
        <3>1. j + 1 = k + 1
            BY <1>3, <2>1, <2>3 DEF FreshInv, PostedOnce
        <3> QED BY <3>1
    <2> QED BY <2>2, <2>3 DEF PostedOnce
<1>12. ThreadsFresh'
    <2>1. ActivatesFresh(auth)'
        <3>1. CASE auth' = NoAuth
            BY <3>1 DEF ActivatesFresh, NoAuth, Activating
        <3>2. CASE UNCHANGED auth
            BY <1>2, <3>2, AuthFreshKept DEF IInv, FreshInv
        <3> QED BY <1>6, <3>1, <3>2
    <2> QED BY <1>1, <1>2, <2>1, SilentFreshKept, RestoreFreshKept, JobFreshKept, CoverFreshKept
           DEF IInv, FreshInv, ThreadsFresh
<1>13. LoadedFresh'
    <2>1. CASE o = 0
        <3>1. UNCHANGED loaded
            BY <1>6, <2>1 DEF HandleFailure
        <3> QED BY <1>1, <1>8, <2>1, <3>1 DEF FreshInv, LoadedFresh, Fresh
    <2>2. CASE o # 0
        <3>1. loaded' = table
            BY <1>6, <2>2 DEF HandleSuccess
        <3> QED BY <1>1, <3>1 DEF FreshInv, TableFresh, LoadedFresh, Fresh, Stored
    <2> QED BY <2>1, <2>2
<1>14. ASSUME NEW id \in Stored, id = i, o # 0
       PROVE  Fresh(table[id].user, objects[o])' \/ Answered(id, 0)'
    <2>1. Fresh(table[id].user, objects[o]) \/ Answered(id, 0 + 1)
        BY <1>4, <1>5, <1>14 DEF FreshInv, PostsFresh
    <2> QED BY <1>1, <1>7, <2>1 DEF Fresh
<1>15. ASSUME NEW id \in Stored, id # i \/ o = 0, NEW p, Fresh(table[id].user, objects[p]) \/ Answered(id, 0)
       PROVE  Fresh(table[id].user, objects[p])' \/ Answered(id, 0)'
    BY <1>1, <1>8, <1>15 DEF Fresh
<1>16. SessionsFresh'
    <2>1. ASSUME NEW id \in Stored', sessions'[id] # 0
          PROVE  Fresh(table[id].user, objects[sessions[id]])' \/ Answered(id, 0)'
        <3>1. id \in Stored /\ id \in Ids
            BY <1>1 DEF Stored
        <3>2. PICK p : p = sessions'[id]
            OBVIOUS
        <3>3. CASE id = i /\ o # 0
            <4>1. p = o
                BY <1>6, <3>1, <3>2, <3>3 DEF HandleSuccess, IInv, SessionsInv
            <4> QED BY <1>14, <3>1, <3>2, <3>3, <4>1 DEF Fresh
        <3>4. CASE id # i \/ o = 0
            <4>1. p = sessions[id]
                BY <1>6, <3>1, <3>2, <3>4 DEF HandleSuccess, HandleFailure, IInv, SessionsInv
            <4>2. Fresh(table[id].user, objects[p]) \/ Answered(id, 0)
                BY <2>1, <3>1, <3>2, <4>1 DEF FreshInv, SessionsFresh
            <4>3. Fresh(table[id].user, objects[p])' \/ Answered(id, 0)'
                BY <1>15, <3>1, <3>4, <4>2
            <4> QED BY <3>2, <4>3 DEF Fresh
        <3> QED BY <3>3, <3>4
    <2> QED BY <2>1 DEF SessionsFresh
<1>17. UploadsFresh'
    <2>1. ASSUME NEW id \in Stored', uploads'[id] # 0
          PROVE  Fresh(table[id].user, objects[uploads[id]])' \/ Answered(id, 0)'
        <3>1. id \in Stored /\ id \in Ids /\ table[id] # Gone
            BY <1>1 DEF Stored
        <3>2. PICK p : p = uploads'[id]
            OBVIOUS
        <3>3. CASE id = i /\ o # 0
            <4>1. uploads' = Registered(i, o)
                BY <1>6, <3>3 DEF HandleSuccess
            <4>2. p = o
                BY <3>1, <3>2, <3>3, <4>1 DEF Registered, IInv, UploadsInv
            <4> QED BY <1>14, <3>1, <3>2, <3>3, <4>2 DEF Fresh
        <3>4. CASE id # i \/ o = 0
            <4>1. p = uploads[id]
                BY <1>6, <3>1, <3>2, <3>4 DEF HandleSuccess, HandleFailure, Registered, IInv, UploadsInv
            <4>2. Fresh(table[id].user, objects[p]) \/ Answered(id, 0)
                BY <2>1, <3>1, <3>2, <4>1 DEF FreshInv, UploadsFresh
            <4>3. Fresh(table[id].user, objects[p])' \/ Answered(id, 0)'
                BY <1>15, <3>1, <3>4, <4>2
            <4> QED BY <3>2, <4>3 DEF Fresh
        <3> QED BY <3>3, <3>4
    <2> QED BY <2>1 DEF UploadsFresh
<1> QED BY <1>9, <1>10, <1>11, <1>12, <1>13, <1>16, <1>17 DEF FreshInv

(* No sign-in waits while the user removes an account. *)
LEMMA DeleteAccountFresh == ASSUME IInv, IInv', FreshInv, NEW id \in Ids, DeleteAccount(id) PROVE FreshInv'
<1>1. /\ UNCHANGED <<nextId, objects, owner, revoked, auth, silent, toRestore, job, cover, posts,
                     latest, overlapped>>
      /\ auth = NoAuth
      /\ table' = [table EXCEPT ![id] = Gone]
      /\ uploads' = [uploads EXCEPT ![id] = 0]
      /\ sessions' = [sessions EXCEPT ![id] = 0]
      /\ loaded' = table'
    BY DEF DeleteAccount, serverVars, threadVars
<1>2. \A j \in Stored' : j \in Stored /\ j \in Ids /\ j # id /\ table'[j] = table[j]
    BY <1>1 DEF IInv, TableInv, Stored
<1>3. Grows
    BY <1>1, <1>2 DEF Grows, IInv, TableInv, TokensInv, Stored
<1>4. Calm
    BY <1>1, SameCalm DEF IInv
<1>5. LatestInv'
    BY <1>1, LatestKept DEF IInv, FreshInv
<1>6. TableFresh'
    BY <1>1, <1>2 DEF FreshInv, TableFresh, Fresh
<1>7. LoadedFresh'
    BY <1>1, <1>6 DEF TableFresh, LoadedFresh, Stored
<1>8. SessionsFresh'
    <2>1. \A j \in Stored' : sessions'[j] # 0 => sessions'[j] = sessions[j]
        BY <1>1, <1>2 DEF IInv, SessionsInv
    <2> QED BY <1>1, <1>2, <2>1 DEF FreshInv, SessionsFresh, Fresh, Answered
<1>9. UploadsFresh'
    <2>1. \A j \in Stored' : uploads'[j] # 0 => uploads'[j] = uploads[j]
        BY <1>1, <1>2 DEF IInv, UploadsInv
    <2> QED BY <1>1, <1>2, <2>1 DEF FreshInv, UploadsFresh, Fresh, Answered
<1>10. PostsFresh'
    BY <1>1, <1>3, <1>4, PostsFreshKept DEF IInv, FreshInv
<1>11. PostedOnce'
    BY <1>1 DEF FreshInv, PostedOnce
<1>12. ThreadsFresh'
    BY <1>1, <1>3, <1>4, ThreadsFreshKept DEF IInv, FreshInv
<1> QED BY <1>5, <1>6, <1>7, <1>8, <1>9, <1>10, <1>11, <1>12 DEF FreshInv

LEMMA RestartFresh == ASSUME IInv, IInv', FreshInv, Restart PROVE FreshInv'
<1>1. /\ UNCHANGED <<table, nextId, objects, owner, revoked, latest, overlapped>>
      /\ loaded' = table
      /\ sessions' = [id \in Ids |-> 0] /\ uploads' = [id \in Ids |-> 0]
      /\ auth' = NoAuth /\ silent' = NoAuth /\ posts' = <<>> /\ job' = NoWork
      /\ toRestore' = {[NoAuth EXCEPT !.id = id, !.user = table[id].user,
                                      !.token = table[id].token] : id \in Stored}
      /\ cover' = [c \in Coverers |-> NoWork]
    BY DEF Restart, serverVars, historyVars
<1>2. Calm
    BY <1>1, SameCalm DEF IInv
<1>3. LatestInv' /\ TableFresh'
    BY <1>1, <1>2, LatestKept, TableFreshKept DEF IInv, FreshInv
<1>4. LoadedFresh'
    BY <1>1, <1>3 DEF TableFresh, LoadedFresh, Stored
<1>5. SessionsFresh' /\ UploadsFresh'
    BY <1>1 DEF SessionsFresh, UploadsFresh, Stored
<1>6. Len(posts') = 0
    BY <1>1
<1>7. PostsFresh' /\ PostedOnce'
    BY <1>6 DEF PostsFresh, PostedOnce
<1>8. ActivatesFresh(auth)' /\ ActivatesFresh(silent)' /\ UsesFresh(job)'
    BY <1>1 DEF ActivatesFresh, UsesFresh, NoAuth, NoWork, Activating
<1>9. \A c \in Coverers : UsesFresh(cover[c])'
    BY <1>1 DEF UsesFresh, NoWork
<1>10. ASSUME NEW a \in toRestore' PROVE Fresh(a.user, a.token)'
    <2>1. PICK id \in Stored : a = [NoAuth EXCEPT !.id = id, !.user = table[id].user,
                                                  !.token = table[id].token]
        BY <1>1
    <2>2. PICK u, t : u = table[id].user /\ t = table[id].token
        OBVIOUS
    <2>3. a = [NoAuth EXCEPT !.id = id, !.user = u, !.token = t]
        BY <2>1, <2>2
    <2>4. a.user = u /\ a.token = t
        BY <2>3 DEF NoAuth
    <2> QED BY <1>1, <2>2, <2>4 DEF FreshInv, TableFresh, Fresh
<1> QED BY <1>3, <1>4, <1>5, <1>7, <1>8, <1>9, <1>10 DEF FreshInv, ThreadsFresh

-----------------------------------------------------------------------------
LEMMA InitFresh == Init => FreshInv
<1> SUFFICES ASSUME Init PROVE FreshInv
    OBVIOUS
<1>1. LatestInv
    BY DEF Init, LatestInv
<1>2. TableFresh /\ LoadedFresh /\ SessionsFresh /\ UploadsFresh
    BY DEF Init, TableFresh, LoadedFresh, SessionsFresh, UploadsFresh, Stored
<1>3. PostsFresh /\ PostedOnce
    BY DEF Init, PostsFresh, PostedOnce
<1>4. ThreadsFresh
    BY DEF Init, ThreadsFresh, ActivatesFresh, UsesFresh, NoAuth, NoWork, Activating
<1> QED BY <1>1, <1>2, <1>3, <1>4 DEF FreshInv

LEMMA StutterFresh == ASSUME IInv, IInv', FreshInv, UNCHANGED vars PROVE FreshInv'
<1>1. UNCHANGED <<table, nextId, objects, owner, revoked, loaded, sessions, uploads, posts, auth,
                  silent, toRestore, job, cover, latest, overlapped>>
    BY DEF vars, serverVars, windowVars, threadVars, historyVars
<1>2. Grows /\ Calm
    BY <1>1, SameGrows, SameCalm DEF IInv
<1>3. LatestInv' /\ TableFresh' /\ ThreadsFresh'
    BY <1>1, <1>2, LatestKept, TableFreshKept, ThreadsFreshKept DEF IInv, FreshInv
<1> QED BY <1>1, <1>2, <1>3, QuietStep

LEMMA NextFresh == IInv /\ FreshInv /\ [Next]_vars => FreshInv'
<1> SUFFICES ASSUME IInv, FreshInv, [Next]_vars PROVE FreshInv'
    OBVIOUS
<1>0. IInv'
    BY NextIInv
<1>1. CASE AddAccount
    BY <1>0, <1>1, AddAccountFresh
<1>2. CASE \E id \in Ids : LogIn(id) \/ DeleteAccount(id)
    BY <1>0, <1>2, LogInFresh, DeleteAccountFresh
<1>3. CASE UpdateSessions
    BY <1>0, <1>3, UpdateSessionsFresh
<1>4. CASE HandleResult
    BY <1>0, <1>4, HandleResultFresh
<1>5. CASE AuthNext
    <2>1. CASE Activate("auth", auth)
        <3>1. PICK a : a = auth
            OBVIOUS
        <3> QED BY <1>0, <2>1, <3>1, ActivateFresh DEF Does
    <2> QED BY <1>0, <1>5, <2>1, SignsInFresh, SignInFailsFresh, AddStoresFresh DEF AuthNext
<1>6. CASE SilentNext
    <2>1. CASE Activate("silent", silent)
        <3>1. PICK a : a = silent
            OBVIOUS
        <3> QED BY <1>0, <2>1, <3>1, ActivateFresh DEF Does
    <2> QED BY <1>0, <1>6, <2>1, RestoreNextFresh DEF SilentNext
<1>7. CASE \E o \in 1..Len(objects) : GetToken(o)
    BY <1>0, <1>7, GetTokenFresh
<1>8. CASE (\E id \in Ids : JobStarts(id)) \/ JobReads \/ JobStores
    BY <1>0, <1>8, JobStartsFresh, JobReadsFresh, JobStoresFresh
<1>9. CASE \E c \in Coverers : (\E id \in Ids : CoverStarts(c, id)) \/ CoverReads(c) \/ CoverStores(c)
    BY <1>0, <1>9, CoverStartsFresh, CoverReadsFresh, CoverStoresFresh
<1>10. CASE \E u \in Users : Revoke(u)
    BY <1>0, <1>10, RevokeFresh
<1>11. CASE Restart
    BY <1>0, <1>11, RestartFresh
<1>12. CASE UNCHANGED vars
    BY <1>0, <1>12, StutterFresh
<1> QED BY <1>1, <1>2, <1>3, <1>4, <1>5, <1>6, <1>7, <1>8, <1>9, <1>10, <1>11, <1>12 DEF Next

(* No copy of a token, an object or an account that the window or a thread keeps  *)
(* is older than the user's last sign-in, unless a result that replaces it waits *)
(* to be taken or the user counts as overlapped (HandleAuthOperationResult     *)
(* against the threads of the scheduler and of the coverage).                 *)
THEOREM FreshInductive == Spec => []FreshInv
<1>1. Init => FreshInv
    BY InitFresh
<1>2. IInv /\ FreshInv /\ [Next]_vars => FreshInv'
    BY NextFresh
<1> QED BY <1>1, <1>2, Inductive, PTL DEF Spec

(* While what a user's last sign-in stored would still do, what is stored does,  *)
(* unless a thread had a token of that user during the sign-in (Upsert in       *)
(* account_auth_operations.cpp, access_token.cpp and RunJob).                  *)
THEOREM StoredTokenWorksHolds == Spec => []StoredTokenWorks
<1>1. ASSUME IInv, FreshInv PROVE StoredTokenWorks
    <2>1. ASSUME NEW id \in Stored, NEW u, u = table[id].user, Works(latest[u]), u \notin overlapped
          PROVE  Works(table[id].token)
        <3>1. PICK s, t : s = latest[u] /\ t = table[id].token
            OBVIOUS
        <3>2. u \in Users /\ t \in Nat /\ OfUser(t, u)
            BY <1>1, <2>1, <3>1 DEF IInv, TableInv, Stored, AnyAccount
        <3>3. s \in Nat /\ s # 0 /\ OfUser(s, u) /\ s \notin revoked
            BY <1>1, <2>1, <3>1, <3>2 DEF FreshInv, LatestInv, Works
        <3>4. s <= t
            BY <1>1, <2>1, <3>1 DEF FreshInv, TableFresh, Fresh
        <3>5. t \notin revoked
            BY <1>1, <3>2, <3>3, <3>4 DEF FreshInv, LatestInv, OfUser
        <3>6. t # 0
            BY <3>2, <3>3, <3>4
        <3> QED BY <3>1, <3>5, <3>6 DEF Works
    <2> QED BY <2>1 DEF StoredTokenWorks
<1> QED BY <1>1, Inductive, FreshInductive, PTL

-----------------------------------------------------------------------------
(* Types.  The ids are bounded, so this is also a statement about how many are    *)
(* handed out.                                                                *)

(* No id is handed out that the table does not have: each user without an account
   can still be given one.                                                     *)
CountInv ==
    /\ nextId >= 1
    /\ nextId + Cardinality(Users) - Cardinality(Stored) <= Cardinality(Ids) + 1
    /\ Len(owner) <= MaxTokens /\ Len(objects) <= MaxObjects

(* The ids that threads and results carry are ids of the table. *)
IdsInv ==
    /\ auth.at \in Activating => auth.id \in Ids
    /\ silent.at \in Activating => silent.id \in Ids
    /\ \A a \in toRestore : a.id \in Ids
    /\ \A k \in 1..Len(posts) : posts[k].object # 0 => posts[k].id \in Ids
    /\ signedIn \subseteq Ids /\ signingIn \subseteq Ids

LEMMA Numbers ==
    ASSUME IInv
    PROVE  /\ Cardinality(Users) \in Nat /\ Cardinality(Ids) \in Nat
           /\ IsFiniteSet(Stored) /\ Cardinality(Stored) \in Nat
           /\ nextId \in Nat /\ Len(owner) \in Nat /\ Len(objects) \in Nat
           /\ MaxTokens \in Nat /\ MaxObjects \in Nat
<1>1. Stored \subseteq Ids
    BY DEF Stored
<1>2. IsFiniteSet(Stored)
    BY <1>1, FS_Subset, BoundsAssumption
<1> QED
    BY <1>2, FS_CardinalityType, BoundsAssumption DEF IInv, TableInv, TokensInv

(* A user without an account leaves fewer accounts than users. *)
LEMMA FewerAccounts ==
    ASSUME IInv, NEW u \in Users
    PROVE  /\ Cardinality(Stored) <= Cardinality(Users)
           /\ RowsOf(u) = {} => Cardinality(Stored) + 1 <= Cardinality(Users)
<1> DEFINE f == [id \in Stored |-> table[id].user]
<1>1. \A id \in Stored : table[id].user \in Users
    BY DEF IInv, TableInv, OfUser, TokensInv, Stored, AnyAccount
<1>2. f \in Injection(Stored, Users)
  <2>1. f \in [Stored -> Users]
      BY <1>1
  <2>2. \A a, b \in Stored : f[a] = f[b] => a = b
      BY DEF IInv, TableInv
  <2> QED
      BY <2>1, <2>2 DEF Injection, IsInjective
<1>3. Cardinality(Stored) <= Cardinality(Users)
    BY <1>2, FS_Injection, BoundsAssumption
<1>4. ASSUME RowsOf(u) = {}
      PROVE  Cardinality(Stored) + 1 <= Cardinality(Users)
  <2>1. f \in Injection(Stored, Users \ {u})
      BY <1>2, <1>4 DEF Injection, IsInjective, RowsOf
  <2>2. IsFiniteSet(Users \ {u}) /\ Cardinality(Users \ {u}) = Cardinality(Users) - 1
      BY FS_RemoveElement, BoundsAssumption
  <2>3. Cardinality(Stored) <= Cardinality(Users \ {u})
      BY <2>1, <2>2, FS_Injection
  <2> QED
      BY <2>2, <2>3, Numbers
<1> QED
    BY <1>3, <1>4

(* Storing an account uses an id only for a user who has none.                  *)
LEMMA UpsertCounts ==
    ASSUME IInv, CountInv, NEW u \in Users, NEW t, Upsert(u, t),
           Len(owner') <= MaxTokens, Len(objects') <= MaxObjects
    PROVE  UpsertId(u) \in Ids /\ CountInv'
<1>1. PICK r : r = UpsertId(u)
    OBVIOUS
<1>2. /\ r \in Nat
      /\ RowsOf(u) # {} => r \in Stored /\ table[r].user = u
      /\ RowsOf(u) = {} => r = nextId
    BY <1>1, UpsertIdFacts DEF IInv
<1>3. [user |-> u, token |-> t] # Gone
    BY AccountsAssumption DEF Gone
<1>4. \A id \in Ids : table'[id] = IF id = r THEN [user |-> u, token |-> t] ELSE table[id]
    BY <1>1 DEF Upsert, IInv, TableInv
<1>5. \A id \in Ids : id \in Stored' <=> id = r \/ id \in Stored
    BY <1>3, <1>4 DEF Stored
<1>6. CASE RowsOf(u) # {}
  <2>1. r \in Ids /\ Stored' = Stored /\ nextId' = nextId
      BY <1>1, <1>2, <1>5, <1>6 DEF Upsert, Stored
  <2> QED
      BY <1>1, <2>1 DEF CountInv
<1>7. CASE RowsOf(u) = {}
  <2>1. Cardinality(Stored) + 1 <= Cardinality(Users)
      BY <1>7, FewerAccounts
  <2>2. nextId \in 1..Cardinality(Ids)
      BY <2>1, Numbers DEF CountInv
  <2>3. r \in Ids /\ r \notin Stored
    <3>1. r \in Ids
        BY <1>2, <1>7, <2>2, BoundsAssumption
    <3>2. r \in Nat /\ ~(r < r)
        BY <1>2
    <3> QED
        BY <1>2, <1>7, <3>1, <3>2 DEF IInv, TableInv
  <2>4. Stored' = Stored \cup {r}
      BY <1>5, <2>3 DEF Stored
  <2>5. Cardinality(Stored') = Cardinality(Stored) + 1
      BY <2>3, <2>4, FS_AddElement, Numbers
  <2>6. nextId' = nextId + 1
      BY <1>7 DEF Upsert
  <2> QED
      BY <1>1, <2>3, <2>5, <2>6, Numbers DEF CountInv
<1> QED
    BY <1>6, <1>7

LEMMA SameCounts ==
    ASSUME CountInv, UNCHANGED <<table, nextId>>,
           Len(owner') <= MaxTokens, Len(objects') <= MaxObjects
    PROVE  CountInv'
<1>1. Stored' = Stored
    BY DEF Stored
<1> QED
    BY <1>1 DEF CountInv

LEMMA DeleteCounts ==
    ASSUME IInv, CountInv, NEW id \in Ids, DeleteAccount(id)
    PROVE  CountInv'
<1>1. /\ table' = [table EXCEPT ![id] = Gone] /\ UNCHANGED <<nextId, owner, objects>>
      /\ IdsLeft
    BY DEF DeleteAccount, serverVars
<1>2. Stored' = Stored \ {id}
    BY <1>1 DEF Stored, IInv, TableInv
<1>3. Cardinality(Stored') >= Cardinality(Stored) - 1 /\ Cardinality(Stored') \in Nat
  <2>1. PICK S : S = Stored
      OBVIOUS
  <2>2. IsFiniteSet(S) /\ Cardinality(S) \in Nat
      BY <2>1, Numbers
  <2>3. /\ IsFiniteSet(S \ {id})
        /\ Cardinality(S \ {id}) = IF id \in S THEN Cardinality(S) - 1 ELSE Cardinality(S)
      BY <2>2, FS_RemoveElement
  <2>4. Cardinality(S \ {id}) \in Nat
      BY <2>3, FS_CardinalityType
  <2> QED
      BY <1>2, <2>1, <2>2, <2>3, <2>4
<1> QED
    BY <1>1, <1>3, Numbers DEF CountInv, IdsLeft

(* Tokens and objects are counted when they are made.                         *)
LEMMA IssueCounts ==
    ASSUME IInv, NEW u, Issue(u)
    PROVE  Len(owner') <= MaxTokens
BY Numbers DEF Issue, IInv, TokensInv

LEMMA NewObjectCounts ==
    ASSUME IInv, NEW t, NewObject(t)
    PROVE  Len(objects') <= MaxObjects
BY Numbers DEF NewObject, IInv, TokensInv

LEMMA GetTokenCounts ==
    ASSUME IInv, CountInv, NEW o \in 1..Len(objects), GetToken(o)
    PROVE  CountInv'
<1>1. Len(owner') <= MaxTokens
    BY IssueCounts DEF GetToken
<1>2. Len(objects') = Len(objects)
    BY DEF GetToken, IInv, TokensInv
<1> QED
    BY <1>1, <1>2, SameCounts DEF CountInv, GetToken

(* The steps of an activation. *)
LEMMA ActivateCounts ==
    ASSUME IInv, CountInv, NEW th, NEW a, Does(th, a), Activate(th, a)
    PROVE  CountInv'
<1>1. CASE RefreshFails(th, a)
    BY <1>1, SameCounts DEF RefreshFails, CountInv, serverVars
<1>2. CASE Refreshes(th, a)
  <2>1. Len(objects') <= MaxObjects
      BY <1>2, NewObjectCounts DEF Refreshes
  <2>2. Len(owner') <= MaxTokens
      BY <1>2, IssueCounts DEF Refreshes, CountInv
  <2> QED
      BY <1>2, <2>1, <2>2, SameCounts DEF Refreshes
<1>3. ASSUME a.at \in Activating, Upsert(a.user, a.token), UNCHANGED <<owner, objects>>
      PROVE  CountInv'
  <2>1. a.user \in Users
      BY <1>3, DoesKnow DEF KnowsAccount
  <2>2. PICK u, t : u = a.user /\ t = a.token
      OBVIOUS
  <2> QED
      BY <1>3, <2>1, <2>2, UpsertCounts DEF CountInv
<1>4. CASE StoreRotated(th, a)
    BY <1>3, <1>4 DEF StoreRotated, serverVars, Activating
<1>5. CASE StoreUserInfo(th, a)
  <2>1. CASE Upsert(a.user, a.token)
      BY <1>3, <1>5, <2>1 DEF StoreUserInfo, serverVars, Activating
  <2>2. CASE UNCHANGED <<table, nextId>>
      BY <1>5, <2>2, SameCounts DEF StoreUserInfo, serverVars, CountInv
  <2> QED
      BY <1>5, <2>1, <2>2 DEF StoreUserInfo
<1> QED
    BY <1>1, <1>2, <1>4, <1>5 DEF Activate

LEMMA NextCounts ==
    ASSUME IInv, CountInv, [Next]_vars
    PROVE  CountInv'
<1>1. ASSUME UNCHANGED <<table, nextId, owner, objects>> PROVE CountInv'
    BY <1>1, SameCounts DEF CountInv
<1>2. ASSUME NEW u \in Users, NEW t, Upsert(u, t), UNCHANGED <<owner, objects>> PROVE CountInv'
    BY <1>2, UpsertCounts DEF CountInv
<1>3. ASSUME AddAccount \/ SignInFails \/ HandleResult \/ UpdateSessions \/ JobReads \/ Restart
      PROVE  CountInv'
    BY <1>1, <1>3 DEF AddAccount, SignInFails, HandleResult, UpdateSessions, JobReads, Restart,
                      serverVars
<1>4. ASSUME NEW id \in Ids, LogIn(id) \/ JobStarts(id) PROVE CountInv'
    BY <1>1, <1>4 DEF LogIn, JobStarts, serverVars
<1>5. ASSUME NEW id \in Ids, DeleteAccount(id) PROVE CountInv'
    BY <1>5, DeleteCounts
<1>6. ASSUME NEW u \in Users, SignsIn(u) PROVE CountInv'
    BY <1>6, IssueCounts, NewObjectCounts, SameCounts DEF SignsIn
<1>7. ASSUME AddStores PROVE CountInv'
  <2>1. auth.user \in Users
      BY <1>7 DEF AddStores, IInv, AuthInv, KnowsAccount
  <2>2. PICK u, t : u = auth.user /\ t = auth.token
      OBVIOUS
  <2> QED
      BY <1>2, <1>7, <2>1, <2>2 DEF AddStores, serverVars
<1>8. ASSUME Activate("auth", auth) PROVE CountInv'
    BY <1>8, ActivateCounts DEF Does
<1>9. ASSUME NEW a \in toRestore, RestoreNext(a) PROVE CountInv'
    BY <1>1, <1>9 DEF RestoreNext, serverVars
<1>10. ASSUME Activate("silent", silent) PROVE CountInv'
    BY <1>10, ActivateCounts DEF Does
<1>11. ASSUME NEW o \in 1..Len(objects), GetToken(o) PROVE CountInv'
    BY <1>11, GetTokenCounts
<1>12. ASSUME JobStores PROVE CountInv'
  <2>1. job.user \in Users
      BY <1>12 DEF JobStores, IInv, JobInv, KnowsSession
  <2>2. PICK u, t : u = job.user /\ t = job.new
      OBVIOUS
  <2> QED
      BY <1>2, <1>12, <2>1, <2>2 DEF JobStores, serverVars
<1>13. ASSUME NEW c \in Coverers, (\E id \in Ids : CoverStarts(c, id)) \/ CoverReads(c)
       PROVE  CountInv'
    BY <1>1, <1>13 DEF CoverStarts, CoverReads, serverVars
<1>14. ASSUME NEW c \in Coverers, CoverStores(c) PROVE CountInv'
  <2>1. cover[c].user \in Users
      BY <1>14 DEF CoverStores, IInv, CoverInv, KnowsSession
  <2>2. PICK u, t : u = cover[c].user /\ t = cover[c].new
      OBVIOUS
  <2> QED
      BY <1>2, <1>14, <2>1, <2>2 DEF CoverStores, serverVars
<1>15. ASSUME NEW u \in Users, Revoke(u) PROVE CountInv'
    BY <1>1, <1>15 DEF Revoke
<1>16. ASSUME UNCHANGED vars PROVE CountInv'
    BY <1>1, <1>16 DEF vars, serverVars
<1> QED
    BY <1>3, <1>4, <1>5, <1>6, <1>7, <1>8, <1>9, <1>10, <1>11, <1>12, <1>13, <1>14, <1>15, <1>16
    DEF Next, AuthNext, SilentNext

LEMMA SameIds ==
    ASSUME IdsInv, UNCHANGED posts,
           auth'.at \in Activating => auth.at \in Activating /\ auth'.id = auth.id,
           silent'.at \in Activating => silent.at \in Activating /\ silent'.id = silent.id,
           toRestore' \subseteq toRestore, signedIn' \subseteq Ids, signingIn' \subseteq Ids
    PROVE  IdsInv'
BY DEF IdsInv

(* A result names an account of the table, or is of a sign-in that failed.       *)
LEMMA PostIds ==
    ASSUME IInv, IdsInv, NEW kind \in {"auth", "silent"}, NEW id \in Nat, NEW o \in Nat,
           Post(kind, id, o), o # 0 => id \in Ids
    PROVE  \A k \in 1..Len(posts') : posts'[k].object # 0 => posts'[k].id \in Ids
<1>1. PICK p : p = [kind |-> kind, id |-> id, object |-> o]
    OBVIOUS
<1>2. p \in AnyPost /\ posts \in Seq(AnyPost) /\ posts' = Append(posts, p)
    BY <1>1 DEF AnyPost, Post, IInv, PostsInv
<1>3. \A k \in 1..Len(posts') : posts'[k] = p \/ (k \in 1..Len(posts) /\ posts'[k] = posts[k])
    BY <1>2
<1> QED
    BY <1>1, <1>3 DEF IdsInv

LEMMA ActivateIds ==
    ASSUME IInv, IdsInv, NEW th, NEW a, Does(th, a), Activate(th, a)
    PROVE  IdsInv'
<1>1. /\ th \in {"auth", "silent"} /\ a \in AnyAuth
      /\ UNCHANGED <<toRestore, signedIn, signingIn>>
      /\ a.at \in Activating
    BY DoesKnow DEF Activate, RefreshFails, Refreshes, StoreRotated, StoreUserInfo, windowVars,
                    Activating
<1>2. PICK i, o : i = a.id /\ o = a.object
    OBVIOUS
<1>3. i \in Ids /\ i \in Nat /\ o \in Nat
    BY <1>1, <1>2 DEF IdsInv, Does, AnyAuth
<1>4. ASSUME NEW n, Becomes(th, n), n.at \in Activating => n.id = i,
             \A k \in 1..Len(posts') : posts'[k].object # 0 => posts'[k].id \in Ids
      PROVE  IdsInv'
  <2>1. /\ auth'.at \in Activating => auth'.id \in Ids
        /\ silent'.at \in Activating => silent'.id \in Ids
      BY <1>3, <1>4 DEF Becomes, IdsInv
  <2> QED
      BY <1>1, <1>4, <2>1 DEF IdsInv
<1>5. UNCHANGED posts => \A k \in 1..Len(posts') : posts'[k].object # 0 => posts'[k].id \in Ids
    BY DEF IdsInv
<1>6. Ended(th).at \notin Activating
    BY DEF Ended, NoAuth, Activating, IInv, AuthInv, KnowsAccount, AnyAuth
<1>7. CASE RefreshFails(th, a)
  <2>1. Becomes(th, Ended(th)) /\ Post(th, i, 0)
      BY <1>2, <1>7 DEF RefreshFails
  <2> QED
      BY <1>1, <1>3, <1>4, <1>6, <2>1, PostIds
<1>8. CASE StoreUserInfo(th, a)
  <2>1. Becomes(th, Ended(th)) /\ Post(th, i, o)
      BY <1>2, <1>8 DEF StoreUserInfo
  <2> QED
      BY <1>1, <1>3, <1>4, <1>6, <2>1, PostIds
<1>9. CASE StoreRotated(th, a)
  <2>1. PICK n : n = [a EXCEPT !.at = "asking"]
      OBVIOUS
  <2>2. n.id = i /\ Becomes(th, n) /\ UNCHANGED posts
      BY <1>1, <1>2, <1>9, <2>1 DEF StoreRotated, AnyAuth
  <2> QED
      BY <1>4, <1>5, <2>2
<1>10. CASE Refreshes(th, a)
  <2>1. PICK n : Becomes(th, n) /\ n.id = i
    <3>1. PICK t, q : t = Len(owner') /\ q = Len(objects')
        OBVIOUS
    <3>2. PICK m1, m2 : /\ m1 = [a EXCEPT !.at = "asking", !.object = q]
                        /\ m2 = [a EXCEPT !.at = "rotated", !.token = t, !.object = q]
        OBVIOUS
    <3>3. Becomes(th, m1) \/ Becomes(th, m2)
        BY <1>10, <3>1, <3>2 DEF Refreshes
    <3>4. m1.id = i /\ m2.id = i
        BY <1>1, <1>2, <3>2 DEF AnyAuth
    <3> QED
        BY <3>3, <3>4
  <2>2. UNCHANGED posts
      BY <1>10 DEF Refreshes
  <2> QED
      BY <1>4, <1>5, <2>1, <2>2
<1> QED
    BY <1>7, <1>8, <1>9, <1>10 DEF Activate

LEMMA HandleResultIds == ASSUME IInv, IdsInv, HandleResult PROVE IdsInv'
<1>1. posts \in Seq(AnyPost) /\ posts # <<>> /\ posts' = Tail(posts)
    BY DEF HandleResult, IInv, PostsInv
<1>2. \A k \in 1..Len(posts') : k + 1 \in 1..Len(posts) /\ posts'[k] = posts[k + 1]
    BY <1>1
<1>3. PICK r : r = Head(posts)
    OBVIOUS
<1>4. 1 \in 1..Len(posts) /\ r = posts[1]
    BY <1>1, <1>3
<1>5. r.object # 0 => r.id \in Ids
    BY <1>4 DEF IdsInv
<1>6. /\ auth' = NoAuth \/ auth' = auth
      /\ UNCHANGED <<silent, toRestore>>
      /\ signingIn' = signingIn \ {r.id}
      /\ IF r.object = 0 THEN HandleFailure(r.id) ELSE HandleSuccess(r.id, r.object)
    BY <1>3 DEF HandleResult
<1>7. signedIn' \subseteq Ids
    BY <1>5, <1>6 DEF HandleFailure, HandleSuccess, IdsInv
<1>8. \A k \in 1..Len(posts') : posts'[k].object # 0 => posts'[k].id \in Ids
    BY <1>2 DEF IdsInv
<1>9. auth'.at \in Activating => auth'.id \in Ids
    BY <1>6 DEF IdsInv, NoAuth, Activating
<1> QED
    BY <1>6, <1>7, <1>8, <1>9 DEF IdsInv

LEMMA NextIds ==
    ASSUME IInv, CountInv, IdsInv, [Next]_vars
    PROVE  IdsInv'
<1>s. signedIn \subseteq Ids /\ signingIn \subseteq Ids
    BY DEF IdsInv
<1>a. auth \in AnyAuth /\ silent \in AnyAuth
    BY DEF IInv, AuthInv, SilentInv, KnowsAccount
<1>n. NoAuth.at = "idle" /\ "idle" \notin Activating
    BY DEF NoAuth, Activating
<1>1. ASSUME UNCHANGED <<posts, auth, silent, toRestore, signedIn, signingIn>> PROVE IdsInv'
    BY <1>1, <1>s, SameIds
<1>2. ASSUME UpdateSessions \/ JobReads \/ JobStores PROVE IdsInv'
    BY <1>1, <1>2 DEF UpdateSessions, JobReads, JobStores, windowVars, threadVars
<1>3. ASSUME AddAccount PROVE IdsInv'
  <2>1. auth'.at = "signing"
      BY <1>3 DEF AddAccount, NoAuth
  <2> QED
      BY <1>3, <1>s, <2>1, SameIds DEF AddAccount, windowVars, Activating
<1>4. ASSUME NEW id \in Ids, LogIn(id) PROVE IdsInv'
  <2>1. auth'.id = id
      BY <1>4 DEF LogIn, NoAuth
  <2> QED
      BY <1>4, <1>s, <2>1 DEF LogIn, IdsInv
<1>5. ASSUME NEW id \in Ids, DeleteAccount(id) PROVE IdsInv'
    BY <1>5, <1>s, SameIds DEF DeleteAccount, threadVars
<1>6. ASSUME HandleResult PROVE IdsInv'
    BY <1>6, HandleResultIds
<1>7. ASSUME NEW u \in Users, SignsIn(u) PROVE IdsInv'
  <2>1. PICK t, o : t = Len(owner') /\ o = Len(objects')
      OBVIOUS
  <2>2. auth' = [auth EXCEPT !.at = "storing", !.user = u, !.token = t, !.object = o]
      BY <1>7, <2>1 DEF SignsIn
  <2>3. auth'.at = "storing"
      BY <1>a, <2>2 DEF AnyAuth
  <2> QED
      BY <1>7, <1>s, <2>3, SameIds DEF SignsIn, windowVars, Activating
<1>8. ASSUME SignInFails PROVE IdsInv'
  <2>1. auth'.at = "posted"
      BY <1>a, <1>8 DEF SignInFails, AnyAuth
  <2>2. \A k \in 1..Len(posts') : posts'[k].object # 0 => posts'[k].id \in Ids
      BY <1>8, PostIds DEF SignInFails
  <2> QED
      BY <1>8, <2>1, <2>2 DEF SignInFails, windowVars, Activating, IdsInv
<1>9. ASSUME AddStores PROVE IdsInv'
  <2>1. auth'.at = "posted"
      BY <1>a, <1>9 DEF AddStores, AnyAuth
  <2>2. PICK u, t, o : u = auth.user /\ t = auth.token /\ o = auth.object
      OBVIOUS
  <2>3. u \in Users /\ o \in Nat
      BY <1>9, <1>a, <2>2 DEF AddStores, IInv, AuthInv, KnowsAccount, AnyAuth
  <2>4. UpsertId(u) \in Ids
      BY <1>9, <2>2, <2>3, UpsertCounts DEF AddStores, serverVars, CountInv
  <2>5. PICK i \in Ids : i = UpsertId(u)
      BY <2>4
  <2>6. i \in Nat /\ Post("auth", i, o)
      BY <1>9, <2>2, <2>5, AccountsAssumption DEF AddStores
  <2>7. \A k \in 1..Len(posts') : posts'[k].object # 0 => posts'[k].id \in Ids
      BY <2>3, <2>6, PostIds
  <2> QED
      BY <1>9, <2>1, <2>7 DEF AddStores, windowVars, Activating, IdsInv
<1>10. ASSUME Activate("auth", auth) \/ Activate("silent", silent) PROVE IdsInv'
    BY <1>10, ActivateIds DEF Does
<1>11. ASSUME NEW a \in toRestore, RestoreNext(a) PROVE IdsInv'
  <2>1. a \in AnyAuth /\ a.id \in Ids
      BY DEF IInv, RestoreInv, Waits, IdsInv
  <2>2. silent'.id = a.id
      BY <1>11, <2>1 DEF RestoreNext, AnyAuth
  <2> QED
      BY <1>11, <2>1, <2>2 DEF RestoreNext, IdsInv, windowVars
<1>12. ASSUME NEW o \in 1..Len(objects), GetToken(o) PROVE IdsInv'
    BY <1>1, <1>12 DEF GetToken, windowVars, threadVars
<1>13. ASSUME NEW id \in Ids, JobStarts(id) PROVE IdsInv'
    BY <1>1, <1>13 DEF JobStarts, windowVars
<1>14. ASSUME NEW c \in Coverers,
              (\E id \in Ids : CoverStarts(c, id)) \/ CoverReads(c) \/ CoverStores(c)
       PROVE  IdsInv'
    BY <1>1, <1>14 DEF CoverStarts, CoverReads, CoverStores, windowVars
<1>15. ASSUME NEW u \in Users, Revoke(u) PROVE IdsInv'
    BY <1>1, <1>15 DEF Revoke, windowVars, threadVars
<1>16. ASSUME Restart PROVE IdsInv'
  <2>1. \A a \in toRestore' : a.id \in Ids
      BY <1>16 DEF Restart, NoAuth, Stored
  <2>2. signingIn' \subseteq Ids /\ signedIn' \subseteq Ids
      BY <1>16 DEF Restart, Stored
  <2>3. Len(posts') = 0
      BY <1>16 DEF Restart
  <2>4. auth'.at = "idle" /\ silent'.at = "idle"
      BY <1>16, <1>n DEF Restart
  <2> QED
      BY <1>n, <2>1, <2>2, <2>3, <2>4 DEF IdsInv
<1>17. ASSUME UNCHANGED vars PROVE IdsInv'
    BY <1>1, <1>17 DEF vars, windowVars, threadVars
<1> QED
    BY <1>2, <1>3, <1>4, <1>5, <1>6, <1>7, <1>8, <1>9, <1>10, <1>11, <1>12, <1>13, <1>14, <1>15,
       <1>16, <1>17
    DEF Next, AuthNext, SilentNext

LEMMA InitWithin == Init => CountInv /\ IdsInv
<1> SUFFICES ASSUME Init PROVE CountInv /\ IdsInv
    OBVIOUS
<1>1. Stored = {}
    BY DEF Init, Stored
<1>2. Cardinality(Stored) = 0
    BY <1>1, FS_EmptySet
<1>3. Len(owner) = 0 /\ Len(objects) = 0 /\ Len(posts) = 0 /\ nextId = 1
    BY DEF Init
<1>4. Cardinality(Users) \in Nat /\ Cardinality(Ids) \in Nat
    BY FS_CardinalityType, BoundsAssumption
<1>5. CountInv
    BY <1>2, <1>3, <1>4, BoundsAssumption DEF CountInv
<1>6. IdsInv
    BY <1>3 DEF Init, IdsInv, NoAuth, Activating
<1> QED
    BY <1>5, <1>6

(* Every account of the table and of the window has its type, the ids, tokens and
   objects in use are among those there are, and no user has two accounts.      *)
THEOREM TypeCorrect == Spec => []TypeOK
<1>1. ASSUME IInv, CountInv, IdsInv PROVE TypeOK
  <2>1. Len(owner) \in Nat /\ Len(owner) <= MaxTokens /\ MaxTokens \in Nat
        /\ Len(objects) \in Nat /\ Len(objects) <= MaxObjects /\ MaxObjects \in Nat
      BY <1>1, Numbers DEF CountInv
  <2>2. /\ \A t \in 1..Len(owner) : t \in Tokens
        /\ \A o \in 1..Len(objects) : o \in Objects
      BY <2>1 DEF Tokens, Objects
  <2>3. table \in [Ids -> Account \cup {Gone}]
    <3>1. ASSUME NEW id \in Ids PROVE table[id] \in Account \cup {Gone}
      <4>1. CASE id \in Stored
        <5>1. table[id] \in AnyAccount /\ table[id].token \in Tokens
            BY <1>1, <2>2, <4>1 DEF IInv, TableInv, OfUser, Stored
        <5> QED
            BY <5>1 DEF AnyAccount, Account
      <4> QED
          BY <4>1 DEF Stored
    <3> QED
        BY <1>1, <3>1 DEF IInv, TableInv
  <2>4. loaded \in [Ids -> Account \cup {Gone}]
    <3>1. ASSUME NEW id \in Ids PROVE loaded[id] \in Account \cup {Gone}
      <4>1. CASE loaded[id] # Gone
        <5>1. loaded[id] \in AnyAccount /\ loaded[id].token \in Tokens
            BY <1>1, <2>2, <4>1 DEF IInv, LoadedInv, OfUser
        <5> QED
            BY <5>1 DEF AnyAccount, Account
      <4> QED
          BY <4>1
    <3> QED
        BY <1>1, <3>1 DEF IInv, LoadedInv
  <2>5. sessions \in [Ids -> Objects \cup {0}] /\ uploads \in [Ids -> Objects \cup {0}]
    <3>1. \A id \in Ids : sessions[id] \in Objects \cup {0} /\ uploads[id] \in Objects \cup {0}
        BY <1>1, <2>2 DEF IInv, SessionsInv, UploadsInv, Fits
    <3> QED
        BY <1>1, <3>1 DEF IInv, SessionsInv, UploadsInv
  <2>6. nextId \in Ids \cup {Cardinality(Ids) + 1}
    <3>1. Cardinality(Stored) <= Cardinality(Users)
      <4>1. CASE Users = {}
        <5>1. Stored = {}
            BY <1>1, <4>1 DEF IInv, TableInv, AnyAccount, Stored, OfUser, TokensInv
        <5> QED
            BY <1>1, <5>1, FS_EmptySet, Numbers
      <4> QED
          BY <1>1, <4>1, FewerAccounts
    <3>2. nextId \in 1..(Cardinality(Ids) + 1)
        BY <1>1, <3>1, Numbers DEF CountInv
    <3>3. nextId \in 1..Cardinality(Ids) \/ nextId = Cardinality(Ids) + 1
        BY <1>1, <3>2, Numbers
    <3> QED
        BY <3>3, BoundsAssumption
  <2>7. objects \in Seq(Tokens)
    <3>1. \A o \in 1..Len(objects) : objects[o] \in Tokens
        BY <1>1, <2>2 DEF IInv, TokensInv
    <3> QED
        BY <1>1, <3>1 DEF IInv, TokensInv
  <2>8. owner \in Seq(Users) /\ signedIn \subseteq Ids /\ signingIn \subseteq Ids
      BY <1>1 DEF IInv, TokensInv, IdsInv
  <2>9. /\ \A id \in Stored : id < nextId
        /\ \A id1, id2 \in Stored : table[id1].user = table[id2].user => id1 = id2
        /\ {id \in Ids : loaded[id] # Gone} \subseteq Stored
      BY <1>1 DEF IInv, TableInv, LoadedInv
  <2> QED
      BY <2>3, <2>4, <2>5, <2>6, <2>7, <2>8, <2>9 DEF TypeOK
<1>2. IInv /\ CountInv /\ IdsInv /\ [Next]_vars => CountInv' /\ IdsInv'
    BY NextCounts, NextIds
<1> QED
    BY <1>1, <1>2, InitWithin, Inductive, PTL DEF Spec
=============================================================================
