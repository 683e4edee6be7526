---------------------------- MODULE AccountSessions ----------------------------
(***************************************************************************)
(* Remote accounts: signing in, restoring stored sessions when the program    *)
(* starts, logging in again, removing an account, and the threads that write   *)
(* refresh tokens back (src/sync/account_auth_operations.cpp,                 *)
(* src/utils/access_token.cpp, src/repositories/account_repository.cpp, RunJob  *)
(* of the scheduler, the coverage threads and handlers of the main window).    *)
(*                                                                          *)
(* A refresh token is a number, in the order they were issued.  The provider   *)
(* may issue another when one is used; the old one goes on working until the   *)
(* user revokes the access of the program.  Access tokens are left out: an    *)
(* AccessToken object is the refresh token it has now, its users and the      *)
(* sessions share it by its number.                                          *)
(***************************************************************************)
EXTENDS Naturals, FiniteSets, Sequences

CONSTANTS
    Users,       \* identities at the provider
    Ids,         \* 1..n: AUTOINCREMENT ids of the accounts table
    Coverers,    \* coverage threads
    MaxTokens,   \* bounds: refresh tokens issued,
    MaxObjects,  \* AccessToken objects made,
    MaxRevocations,
    MaxRestarts, \* restarts of the program
    None

ASSUME AccountsAssumption == Ids \subseteq Nat \ {0} /\ None \notin Users

(* The bounds are wide enough: the ids are the first ones of AUTOINCREMENT, and there
   is one for each user.                                                      *)
ASSUME BoundsAssumption ==
    /\ IsFiniteSet(Users) /\ Cardinality(Users) <= Cardinality(Ids)
    /\ IsFiniteSet(Ids) /\ Ids = 1..Cardinality(Ids)
    /\ MaxTokens \in Nat /\ MaxObjects \in Nat

VARIABLES
    table,     \* the accounts table
    nextId,    \* the next id it hands out
    loaded,    \* availableAccounts_: the window's copy of the table
    sessions,  \* sessionTokens_: the object each account is signed in with
    signedIn,  \* signedInAccountIds_
    signingIn, \* accountLoginInProgressIds_
    uploads,   \* the scheduler's sessions_
    auth,      \* the sign-in the user waits for; authInProgress_ unless idle
    silent,    \* the thread that restores stored sessions
    toRestore, \* the accounts it has not come to
    posts,     \* results on their way to the window
    job,       \* RunJob
    cover,     \* the coverage threads
    objects,   \* the refresh token of each AccessToken object
    owner,     \* whom each issued token belongs to
    revoked,   \* tokens that do not work any more
    revocations, restarts,
    removed,   \* history: users removed since they last signed in
    exposed,   \* history: those a thread was about to write to the table then
    latest,    \* history: the token each user's last sign-in stored
    overlapped \* history: users for whom a thread had an older one at that time

windowVars == <<loaded, sessions, signedIn, signingIn, uploads>>
threadVars == <<auth, silent, toRestore, job, cover>>
serverVars == <<objects, owner, revoked>>
historyVars == <<removed, exposed, latest, overlapped>>
vars == <<table, nextId, windowVars, threadVars, posts, serverVars, revocations, restarts,
          historyVars>>

Tokens == 1..MaxTokens
Objects == 1..MaxObjects
Gone == [user |-> None, token |-> 0]
Account == [user : Users, token : Tokens]

(* A sign-in or an activation; a job or a coverage fetch.                      *)
NoAuth == [at |-> "idle", id |-> 0, user |-> None, token |-> 0, object |-> 0]
NoWork == [at |-> "idle", id |-> 0, object |-> 0, old |-> 0, user |-> None, new |-> 0]

Stored == {id \in Ids : table[id] # Gone}
Issued == 1..Len(owner)
Works(t) == t # 0 /\ t \notin revoked

Init ==
    /\ table = [id \in Ids |-> Gone]
    /\ nextId = 1
    /\ loaded = table
    /\ sessions = [id \in Ids |-> 0]
    /\ signedIn = {}
    /\ signingIn = {}
    /\ uploads = [id \in Ids |-> 0]
    /\ auth = NoAuth
    /\ silent = NoAuth
    /\ toRestore = {}
    /\ posts = <<>>
    /\ job = NoWork
    /\ cover = [c \in Coverers |-> NoWork]
    /\ objects = <<>>
    /\ owner = <<>>
    /\ revoked = {}
    /\ revocations = 0
    /\ restarts = 0
    /\ removed = {}
    /\ exposed = {}
    /\ latest = [u \in Users |-> 0]
    /\ overlapped = {}

-----------------------------------------------------------------------------
(* The accounts table.  (provider, provider_user_id) is unique.               *)

RowsOf(u) == {id \in Stored : table[id].user = u}

(* AccountRepository::Upsert, and the id it returns. *)
UpsertId(u) == IF RowsOf(u) = {} THEN nextId ELSE CHOOSE id \in RowsOf(u) : TRUE

(* Mutant: an account that is there is not looked for. *)
UpsertAnother(u, t) ==
    /\ table' = [table EXCEPT ![nextId] = [user |-> u, token |-> t]]
    /\ nextId' = nextId + 1

Upsert(u, t) ==
    /\ table' = [table EXCEPT ![UpsertId(u)] = [user |-> u, token |-> t]]
    /\ nextId' = IF RowsOf(u) = {} THEN nextId + 1 ELSE nextId

(* Bound: every user without a row can still be given one. *)
IdsLeft == nextId + Cardinality(Users) - Cardinality(Stored) <= Cardinality(Ids)

(* The provider. *)

Issue(u) ==
    /\ Len(owner) < MaxTokens
    /\ owner' = Append(owner, u)

NewObject(t) ==
    /\ Len(objects) < MaxObjects
    /\ objects' = Append(objects, t)

Revoke(u) ==
    /\ revocations < MaxRevocations
    /\ revocations' = revocations + 1
    /\ \E t \in Issued : owner[t] = u /\ Works(t)
    /\ revoked' = revoked \cup {t \in Issued : owner[t] = u}
    /\ UNCHANGED <<table, nextId, windowVars, threadVars, posts, objects, owner, restarts,
                   historyVars>>

-----------------------------------------------------------------------------
(* RunAddAccountAuthOperation. *)

AddAccount ==
    /\ auth = NoAuth
    /\ auth' = [NoAuth EXCEPT !.at = "signing"]
    /\ UNCHANGED <<table, nextId, windowVars, silent, toRestore, posts, job, cover, serverVars,
                   revocations, restarts, historyVars>>

(* The user signs in in the browser, and GetAccountUserInfo names the user.    *)
SignsIn(u) ==
    /\ auth.at = "signing"
    /\ Issue(u)
    /\ NewObject(Len(owner'))
    /\ auth' = [auth EXCEPT !.at = "storing", !.user = u, !.token = Len(owner'),
                            !.object = Len(objects')]
    /\ UNCHANGED <<table, nextId, windowVars, silent, toRestore, posts, job, cover, revoked,
                   revocations, restarts, historyVars>>

Post(kind, id, object) == posts' = Append(posts, [kind |-> kind, id |-> id, object |-> object])

(* Cancelled, not completed in time, or without user info. *)
SignInFails ==
    /\ auth.at = "signing"
    /\ auth' = [auth EXCEPT !.at = "posted"]
    /\ Post("auth", 0, 0)
    /\ UNCHANGED <<table, nextId, windowVars, silent, toRestore, job, cover, serverVars, revocations,
                   restarts, historyVars>>

(* Threads that have a token of user u, and may write it to the table. *)
Holds(u) ==
    \/ silent.at # "idle" /\ silent.user = u
    \/ \E a \in toRestore : a.user = u
    \/ \E w \in {job} \cup {cover[c] : c \in Coverers} :
           w.at # "idle" /\ owner[objects[w.object]] = u

AddStores ==
    /\ auth.at = "storing"
    /\ Upsert(auth.user, auth.token)
    /\ auth' = [auth EXCEPT !.at = "posted"]
    /\ Post("auth", UpsertId(auth.user), auth.object)
    /\ removed' = removed \ {auth.user}
    /\ exposed' = exposed \ {auth.user}
    /\ latest' = [latest EXCEPT ![auth.user] = auth.token]
    /\ overlapped' = (overlapped \ {auth.user}) \cup {u \in {auth.user} : Holds(u)}
    /\ UNCHANGED <<windowVars, silent, toRestore, job, cover, serverVars, revocations, restarts>>

-----------------------------------------------------------------------------
(* RunActivateAccountAuthOperation, on a thread of its own for an account the    *)
(* user logs in to, and on one thread for all the stored accounts at startup.  *)

LogIn(id) ==
    /\ auth = NoAuth
    /\ loaded[id] # Gone
    /\ id \notin signedIn \cup signingIn
    /\ auth' = [NoAuth EXCEPT !.at = "refreshing", !.id = id, !.user = loaded[id].user,
                              !.token = loaded[id].token]
    /\ signingIn' = signingIn \cup {id}
    /\ UNCHANGED <<table, nextId, loaded, sessions, signedIn, uploads, silent, toRestore, posts,
                   job, cover, serverVars, revocations, restarts, historyVars>>

RestoreNext(a) ==
    /\ silent = NoAuth
    /\ a \in toRestore
    /\ silent' = [a EXCEPT !.at = "refreshing"]
    /\ toRestore' = toRestore \ {a}
    /\ UNCHANGED <<table, nextId, windowVars, auth, posts, job, cover, serverVars, revocations,
                   restarts, historyVars>>

(* The steps of an activation by thread th, whose state is act.                *)
Becomes(th, new) ==
    IF th = "auth" THEN auth' = new /\ UNCHANGED silent ELSE silent' = new /\ UNCHANGED auth

Ended(th) == IF th = "auth" THEN [auth EXCEPT !.at = "posted"] ELSE NoAuth

RefreshFails(th, act) ==
    /\ act.at = "refreshing"
    /\ Becomes(th, Ended(th))
    /\ Post(th, act.id, 0)
    /\ UNCHANGED <<table, nextId, windowVars, toRestore, job, cover, serverVars, revocations,
                   restarts, historyVars>>

(* The stored token is used; the provider may issue another with the answer.    *)
Refreshes(th, act) ==
    /\ act.at = "refreshing"
    /\ Works(act.token)
    /\ \/ /\ NewObject(act.token)
          /\ Becomes(th, [act EXCEPT !.at = "asking", !.object = Len(objects')])
          /\ UNCHANGED owner
       \/ /\ Issue(owner[act.token])
          /\ NewObject(Len(owner'))
          /\ Becomes(th, [act EXCEPT !.at = "rotated", !.token = Len(owner'),
                                     !.object = Len(objects')])
    /\ UNCHANGED <<table, nextId, windowVars, toRestore, posts, job, cover, revoked, revocations,
                   restarts, historyVars>>

StoreRotated(th, act) ==
    /\ act.at = "rotated"
    /\ Upsert(act.user, act.token)
    /\ Becomes(th, [act EXCEPT !.at = "asking"])
    /\ UNCHANGED <<windowVars, toRestore, posts, job, cover, serverVars, revocations, restarts,
                   historyVars>>

(* GetAccountUserInfo names the token's user, who is the account's, or fails.    *)
(* The result carries the id that the account had.                           *)
StoreUserInfo(th, act) ==
    /\ act.at = "asking"
    /\ Upsert(act.user, act.token) \/ UNCHANGED <<table, nextId>>
    /\ Becomes(th, Ended(th))
    /\ Post(th, act.id, act.object)
    /\ UNCHANGED <<windowVars, toRestore, job, cover, serverVars, revocations, restarts,
                   historyVars>>

Activate(th, act) ==
    \/ RefreshFails(th, act)
    \/ Refreshes(th, act)
    \/ StoreRotated(th, act)
    \/ StoreUserInfo(th, act)

-----------------------------------------------------------------------------
(* The window takes a result: HandleAuthOperationResult and                   *)
(* HandleSilentAuthOperationResult.                                          *)

(* Mutant: the account is not looked for. *)
RegisteredAnyway(id, object) == [uploads EXCEPT ![id] = object]

(* RegisterEventUploadSessionForAccount *)
Registered(id, object) ==
    IF loaded[id] # Gone \/ table[id] # Gone THEN [uploads EXCEPT ![id] = object] ELSE uploads

HandleFailure(id) ==
    /\ signedIn' = signedIn \ {id}
    /\ UNCHANGED <<loaded, sessions, uploads>>

(* Mutant: a session that is there is kept. *)
HandleSuccessOnce(id, object) ==
    /\ sessions' = [sessions EXCEPT ![id] = IF @ = 0 THEN object ELSE @]
    /\ signedIn' = signedIn \cup {id}
    /\ loaded' = table
    /\ uploads' = Registered(id, sessions'[id])

HandleSuccess(id, object) ==
    /\ sessions' = [sessions EXCEPT ![id] = object]
    /\ signedIn' = signedIn \cup {id}
    /\ loaded' = table
    /\ uploads' = Registered(id, object)

(* Mutant: a failed activation leaves its mark. *)
HandleResultWithMark ==
    /\ posts # <<>>
    /\ LET r == Head(posts)
       IN  /\ signingIn' = IF r.object = 0 THEN signingIn ELSE signingIn \ {r.id}
           /\ auth' = IF r.kind = "auth" THEN NoAuth ELSE auth
           /\ IF r.object = 0 THEN HandleFailure(r.id) ELSE HandleSuccess(r.id, r.object)
    /\ posts' = Tail(posts)
    /\ UNCHANGED <<table, nextId, silent, toRestore, job, cover, serverVars, revocations, restarts,
                   historyVars>>

HandleResult ==
    /\ posts # <<>>
    /\ LET r == Head(posts)
       IN  /\ signingIn' = signingIn \ {r.id}
           /\ auth' = IF r.kind = "auth" THEN NoAuth ELSE auth
           /\ IF r.object = 0 THEN HandleFailure(r.id) ELSE HandleSuccess(r.id, r.object)
    /\ posts' = Tail(posts)
    /\ UNCHANGED <<table, nextId, silent, toRestore, job, cover, serverVars, revocations, restarts,
                   historyVars>>

(* Threads that write an account of user u to the table whatever is in it.     *)
Writing(u) ==
    \/ silent.at # "idle" /\ silent.user = u
    \/ \E a \in toRestore : a.user = u
    \/ \E w \in {job} \cup {cover[c] : c \in Coverers} : w.at = "storing" /\ w.user = u

(* DeleteAccountWithConfirmation.  The account manager cannot be opened while    *)
(* the user waits for a sign-in.                                             *)
DeleteAccount(id) ==
    /\ auth = NoAuth
    /\ IdsLeft
    /\ loaded[id] # Gone
    /\ table' = [table EXCEPT ![id] = Gone]
    /\ uploads' = [uploads EXCEPT ![id] = 0]
    /\ sessions' = [sessions EXCEPT ![id] = 0]
    /\ signedIn' = signedIn \ {id}
    /\ signingIn' = signingIn \ {id}
    /\ loaded' = table'
    /\ LET u == table[id].user
       IN  /\ removed' = removed \cup {u}
           /\ exposed' = (exposed \ {u}) \cup {v \in {u} : Writing(v)}
    /\ UNCHANGED <<nextId, threadVars, posts, serverVars, revocations, restarts, latest, overlapped>>

(* UpdateEventUploadSessionsForVisibleRange: a manual sync or a change of view   *)
(* registers every session again.                                            *)
UpdateSessions ==
    /\ uploads' = [id \in Ids |-> IF sessions[id] = 0 THEN uploads[id]
                                  ELSE Registered(id, sessions[id])[id]]
    /\ UNCHANGED <<table, nextId, loaded, sessions, signedIn, signingIn, threadVars, posts,
                   serverVars, revocations, restarts, historyVars>>

-----------------------------------------------------------------------------
(* Threads that use a session for a while.  GetToken refreshes the access      *)
(* token whenever it has expired, and the refresh token may change with it.    *)

Using(o) ==
    \/ job.at = "syncing" /\ job.object = o
    \/ \E c \in Coverers : cover[c].at = "syncing" /\ cover[c].object = o

GetToken(o) ==
    /\ Using(o)
    /\ Works(objects[o])
    /\ Issue(owner[objects[o]])
    /\ objects' = [objects EXCEPT ![o] = Len(owner')]
    /\ UNCHANGED <<table, nextId, windowVars, threadVars, posts, revoked, revocations, restarts,
                   historyVars>>

(* A thread starts with an object that a sign-in has replaced, while the window   *)
(* has not taken the result of the sign-in.                                  *)
StartsWith(o) ==
    /\ overlapped' = IF auth.at = "posted" /\ objects[o] < latest[owner[objects[o]]]
                     THEN overlapped \cup {owner[objects[o]]} ELSE overlapped
    /\ UNCHANGED <<removed, exposed, latest>>

(* RunJob *)
JobStarts(id) ==
    /\ job = NoWork
    /\ uploads[id] # 0
    /\ job' = [NoWork EXCEPT !.at = "syncing", !.id = id, !.object = uploads[id],
                             !.old = objects[uploads[id]]]
    /\ StartsWith(uploads[id])
    /\ UNCHANGED <<table, nextId, windowVars, auth, silent, toRestore, posts, cover, serverVars,
                   revocations, restarts>>

(* GetById *)
Read(w) ==
    [w EXCEPT !.at = "storing", !.user = table[w.id].user, !.new = objects[w.object]]

(* Without an access token, and after an exception, a changed token is not stored. *)
JobReads ==
    /\ job.at = "syncing"
    /\ \/ job' = NoWork
       \/ objects[job.object] # job.old /\ table[job.id] # Gone /\ job' = Read(job)
    /\ UNCHANGED <<table, nextId, windowVars, auth, silent, toRestore, posts, cover, serverVars,
                   revocations, restarts, historyVars>>

JobStores ==
    /\ job.at = "storing"
    /\ Upsert(job.user, job.new)
    /\ job' = NoWork
    /\ UNCHANGED <<windowVars, auth, silent, toRestore, posts, cover, serverVars, revocations,
                   restarts, historyVars>>

(* EnsureVisibleRangeCoverageAsync *)
CoverStarts(c, id) ==
    /\ cover[c] = NoWork
    /\ loaded[id] # Gone
    /\ sessions[id] # 0
    /\ cover' = [cover EXCEPT ![c] = [NoWork EXCEPT !.at = "syncing", !.id = id,
                                                    !.object = sessions[id]]]
    /\ StartsWith(sessions[id])
    /\ UNCHANGED <<table, nextId, windowVars, auth, silent, toRestore, posts, job, serverVars,
                   revocations, restarts>>

(* Mutant: the account is written as it was when the thread started. *)
CoverReadsNothing(c) ==
    /\ cover[c].at = "syncing"
    /\ cover' = [cover EXCEPT ![c].at = "storing",
                              ![c].user = owner[objects[cover[c].object]],
                              ![c].new = objects[cover[c].object]]
    /\ UNCHANGED <<table, nextId, windowVars, auth, silent, toRestore, posts, job, serverVars,
                   revocations, restarts, historyVars>>

CoverReads(c) ==
    /\ cover[c].at = "syncing"
    /\ cover' = [cover EXCEPT ![c] =
           IF table[@.id] # Gone /\ table[@.id].token # objects[@.object] THEN Read(@) ELSE NoWork]
    /\ UNCHANGED <<table, nextId, windowVars, auth, silent, toRestore, posts, job, serverVars,
                   revocations, restarts, historyVars>>

CoverStores(c) ==
    /\ cover[c].at = "storing"
    /\ Upsert(cover[c].user, cover[c].new)
    /\ cover' = [cover EXCEPT ![c] = NoWork]
    /\ UNCHANGED <<windowVars, auth, silent, toRestore, posts, job, serverVars, revocations,
                   restarts, historyVars>>

(* The program ends, at any moment, and is started again:                      *)
(* StartSilentAccountActivationForStoredAccounts.                             *)
Restart ==
    /\ restarts < MaxRestarts
    /\ restarts' = restarts + 1
    /\ loaded' = table
    /\ sessions' = [id \in Ids |-> 0]
    /\ signedIn' = {}
    /\ signingIn' = Stored
    /\ uploads' = [id \in Ids |-> 0]
    /\ auth' = NoAuth
    /\ silent' = NoAuth
    /\ toRestore' = {[NoAuth EXCEPT !.id = id, !.user = table[id].user, !.token = table[id].token] :
                        id \in Stored}
    /\ posts' = <<>>
    /\ job' = NoWork
    /\ cover' = [c \in Coverers |-> NoWork]
    /\ UNCHANGED <<table, nextId, serverVars, revocations, historyVars>>

-----------------------------------------------------------------------------
AuthNext == (\E u \in Users : SignsIn(u)) \/ SignInFails \/ AddStores \/ Activate("auth", auth)
SilentNext == (\E a \in toRestore : RestoreNext(a)) \/ Activate("silent", silent)

Next ==
    \/ AddAccount
    \/ \E id \in Ids : LogIn(id) \/ DeleteAccount(id)
    \/ UpdateSessions
    \/ HandleResult
    \/ AuthNext
    \/ SilentNext
    \/ \E o \in 1..Len(objects) : GetToken(o)
    \/ \E id \in Ids : JobStarts(id)
    \/ JobReads \/ JobStores
    \/ \E c \in Coverers : (\E id \in Ids : CoverStarts(c, id)) \/ CoverReads(c) \/ CoverStores(c)
    \/ \E u \in Users : Revoke(u)
    \/ Restart

Spec == Init /\ [][Next]_vars

(* Requests are answered or fail, the browser waits three minutes at most, and   *)
(* the window's event loop runs.                                             *)
FairSpec ==
    /\ Spec
    /\ WF_vars(HandleResult)
    /\ WF_vars(AuthNext)
    /\ WF_vars(SilentNext)

-----------------------------------------------------------------------------
TypeOK ==
    /\ table \in [Ids -> Account \cup {Gone}]
    /\ nextId \in Ids \cup {Cardinality(Ids) + 1}
    /\ \A id \in Stored : id < nextId
    /\ \A id1, id2 \in Stored : table[id1].user = table[id2].user => id1 = id2
    /\ loaded \in [Ids -> Account \cup {Gone}]
    /\ {id \in Ids : loaded[id] # Gone} \subseteq Stored
    /\ sessions \in [Ids -> Objects \cup {0}]
    /\ uploads \in [Ids -> Objects \cup {0}]
    /\ signedIn \subseteq Ids
    /\ signingIn \subseteq Ids
    /\ objects \in Seq(Tokens)
    /\ owner \in Seq(Users)

(* What the scheduler uploads for is an account of the table, with a token of   *)
(* that account's user.                                                      *)
SessionsAreAccounts ==
    \A id \in Ids : uploads[id] # 0 =>
        /\ table[id] # Gone
        /\ owner[objects[uploads[id]]] = table[id].user

(* An account the user removed is not in the table again until the user signs    *)
(* in to it, unless a thread was about to write it when it was removed.        *)
RemovedStaysRemoved == \A u \in removed : RowsOf(u) # {} => u \in exposed

(* While what a user's last sign-in stored would still do, what is stored does,  *)
(* unless a thread had a token of that user during the sign-in.               *)
StoredTokenWorks ==
    \A id \in Stored :
        LET u == table[id].user
        IN  Works(latest[u]) => u \in overlapped \/ Works(table[id].token)

(* Nobody is shown as signing in for ever. *)
SignInEnds == \A id \in Ids : id \in signingIn ~> id \notin signingIn
=============================================================================
