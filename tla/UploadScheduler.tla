--------------------------- MODULE UploadScheduler ---------------------------
(***************************************************************************)
(* EventUploadScheduler (src/sync/event_upload_scheduler.cpp) with the      *)
(* parts of LocalCalendarFrame that drive it: the UI thread registers and   *)
(* removes sessions and asks for a synchronisation of every account, one    *)
(* worker thread drains the job queue, and closing the window stops the     *)
(* worker and runs every account once more on a thread of its own.          *)
(*                                                                          *)
(* Every action is one critical section of mutex_, or the code between two  *)
(* of them.  What a job transfers is not modelled here.                     *)
(***************************************************************************)
EXTENDS Naturals, Sequences, FiniteSets

CONSTANTS
    Accounts,       \* ids the accounts table may hand out (AUTOINCREMENT: never twice)
    QueueCallers,   \* accounts for which something calls QueueAccount; the window never does
    NoAccount

ASSUME AccountsAssumption ==
    /\ IsFiniteSet(Accounts)
    /\ QueueCallers \subseteq Accounts
    /\ NoAccount \notin Accounts

VARIABLES
    account,               \* rows of the accounts table: absent, present or deleted
    uiRemoving,            \* the UI thread is between DELETE FROM accounts and RemoveSession
    sessions,              \* keys of sessions_
    jobs,                  \* jobs_
    queuedAccountIds,      \* queuedAccountIds_
    running,               \* running_
    stopping,              \* stopping_
    periodicDue,           \* now >= nextPeriodicSync
    worker,                \* where the worker thread is in WorkerLoop
    closer,                \* where closing the window is
    finalCloseSyncStarted, \* the window's flag: the close runs a final pass
    finalTodo,             \* accounts RunAllSignedInAccountsNow has still to run
    phase,                 \* where each runner is in RunJob
    current,               \* the account each runner's job is for
    owed                   \* history: signed in when the close began, not yet run after it

threadVars == <<worker, closer, finalCloseSyncStarted, finalTodo, owed>>
runVars == <<phase, current>>
queueVars == <<jobs, queuedAccountIds>>
flagVars == <<running, stopping, periodicDue>>
uiVars == <<account, uiRemoving>>
vars == <<uiVars, sessions, queueVars, flagVars, threadVars, runVars>>

Runners == {"worker", "closer"}

AccountsIn(js) == {js[i] : i \in DOMAIN js}

(* An iteration over an unordered_map visits its keys in any order. *)
Orderings(S) ==
    {s \in [1..Cardinality(S) -> S] :
        /\ \A a \in S : \E i \in DOMAIN s : s[i] = a
        /\ \A i, j \in DOMAIN s : s[i] = s[j] => i = j}

Init ==
    /\ account \in [Accounts -> {"absent", "present"}]
    /\ uiRemoving = NoAccount
    /\ sessions = {}
    /\ jobs = <<>>
    /\ queuedAccountIds = {}
    /\ running = FALSE
    /\ stopping = FALSE
    /\ periodicDue = FALSE
    /\ worker = "none"
    /\ closer = "open"
    /\ finalCloseSyncStarted = FALSE
    /\ finalTodo = {}
    /\ phase = [r \in Runners |-> "idle"]
    /\ current = [r \in Runners |-> NoAccount]
    /\ owed = {}

-----------------------------------------------------------------------------
(* The window.  The user can act while it is open and no handler is in the   *)
(* middle of something; a hidden window still handles results posted to it.  *)

UserCanAct == closer = "open" /\ running /\ uiRemoving = NoAccount

WindowHandlesEvents ==
    /\ running \/ finalCloseSyncStarted
    /\ uiRemoving = NoAccount
    /\ closer = "open" \/ (finalCloseSyncStarted /\ closer # "gone")

Start ==
    /\ ~running
    /\ closer = "open"
    /\ running' = TRUE
    /\ stopping' = FALSE
    /\ worker' = "starting"
    /\ UNCHANGED <<uiVars, sessions, queueVars, periodicDue, closer,
                   finalCloseSyncStarted, finalTodo, owed, runVars>>

(* The sign-in thread inserts the account's row. *)
InsertAccount(a) ==
    /\ account[a] = "absent"
    /\ closer # "gone"
    /\ account' = [account EXCEPT ![a] = "present"]
    /\ UNCHANGED <<uiRemoving, sessions, queueVars, flagVars, threadVars, runVars>>

(* An authentication result, or a changed visible range, registers the       *)
(* session of an account the database still has.                             *)
UpsertSession(a) ==
    /\ WindowHandlesEvents
    /\ account[a] = "present"
    /\ sessions' = sessions \cup {a}
    /\ UNCHANGED <<uiVars, queueVars, flagVars, threadVars, runVars>>

DeleteAccount(a) ==
    /\ UserCanAct
    /\ account[a] = "present"
    /\ account' = [account EXCEPT ![a] = "deleted"]
    /\ uiRemoving' = a
    /\ UNCHANGED <<sessions, queueVars, flagVars, threadVars, runVars>>

RemoveSession ==
    /\ uiRemoving # NoAccount
    /\ sessions' = sessions \ {uiRemoving}
    /\ queuedAccountIds' = queuedAccountIds \ {uiRemoving}
    /\ uiRemoving' = NoAccount
    /\ UNCHANGED <<account, jobs, flagVars, threadVars, runVars>>

(* Mutant: no look at queuedAccountIds_ before the push. *)
EnqueueAgain(S) ==
    \E s \in Orderings(S \cap sessions) :
        /\ jobs' = jobs \o s
        /\ queuedAccountIds' = queuedAccountIds \cup AccountsIn(s)

(* QueueAccountLocked for each account of S, in some order. *)
Enqueue(S) ==
    \E s \in Orderings((S \cap sessions) \ queuedAccountIds) :
        /\ jobs' = jobs \o s
        /\ queuedAccountIds' = queuedAccountIds \cup AccountsIn(s)

QueueAccount(a) ==
    /\ a \in QueueCallers
    /\ closer # "gone"
    /\ Enqueue({a})
    /\ UNCHANGED <<uiVars, sessions, flagVars, threadVars, runVars>>

QueueAllSignedInAccounts ==
    /\ UserCanAct
    /\ sessions # {}
    /\ Enqueue(sessions)
    /\ UNCHANGED <<uiVars, sessions, flagVars, threadVars, runVars>>

-----------------------------------------------------------------------------
(* The worker thread. *)

WorkerStarts ==
    /\ worker = "starting"
    /\ periodicDue' = FALSE
    /\ worker' = IF stopping THEN "exited" ELSE "waiting"
    /\ UNCHANGED <<uiVars, sessions, queueVars, running, stopping, closer,
                   finalCloseSyncStarted, finalTodo, owed, runVars>>

(* kUploadInterval has passed since nextPeriodicSync was set. *)
IntervalElapses ==
    /\ worker \in {"waiting", "working"}
    /\ ~periodicDue
    /\ periodicDue' = TRUE
    /\ UNCHANGED <<uiVars, sessions, queueVars, running, stopping, threadVars, runVars>>

(* Mutants: the flag stays set, the job stays queued, the queue is swapped out  *)
(* and all but its front forgotten.                                          *)
TakeLeavesFlag(js, queued) ==
    /\ js # <<>>
    /\ jobs' = Tail(js)
    /\ queuedAccountIds' = queued
    /\ phase' = [phase EXCEPT !["worker"] = "lookup"]
    /\ current' = [current EXCEPT !["worker"] = Head(js)]

TakeLeavesJob(js, queued) ==
    /\ js # <<>>
    /\ jobs' = js
    /\ queuedAccountIds' = queued
    /\ phase' = [phase EXCEPT !["worker"] = "lookup"]
    /\ current' = [current EXCEPT !["worker"] = Head(js)]

TakeDropsRest(js, queued) ==
    /\ js # <<>>
    /\ jobs' = <<>>
    /\ queuedAccountIds' = queued \ {Head(js)}
    /\ phase' = [phase EXCEPT !["worker"] = "lookup"]
    /\ current' = [current EXCEPT !["worker"] = Head(js)]

(* Pop the front of js and unlock: the worker is about to call RunJob. *)
Take(js, queued) ==
    /\ js # <<>>
    /\ jobs' = Tail(js)
    /\ queuedAccountIds' = queued \ {Head(js)}
    /\ phase' = [phase EXCEPT !["worker"] = "lookup"]
    /\ current' = [current EXCEPT !["worker"] = Head(js)]

(* Mutant: a timeout queues nobody. *)
WorkerWakesForJobs ==
    /\ worker = "waiting"
    /\ ~stopping
    /\ Take(jobs, queuedAccountIds)
    /\ worker' = "working"
    /\ UNCHANGED <<uiVars, sessions, flagVars, closer, finalCloseSyncStarted,
                   finalTodo, owed>>

(* wait_until returns with something to do.  A timeout with nobody signed in *)
(* leaves jobs_ empty and `continue`s: it changes nothing, so it is the       *)
(* stuttering step of this action.                                           *)
WorkerWakes ==
    /\ worker = "waiting"
    /\ ~stopping
    /\ jobs # <<>> \/ periodicDue
    /\ \E s \in Orderings(IF periodicDue THEN sessions \ queuedAccountIds ELSE {}) :
           Take(jobs \o s, queuedAccountIds \cup AccountsIn(s))
    /\ worker' = "working"
    /\ UNCHANGED <<uiVars, sessions, flagVars, closer, finalCloseSyncStarted,
                   finalTodo, owed>>

WorkerSeesStop ==
    /\ worker = "waiting"
    /\ stopping
    /\ worker' = "exited"
    /\ UNCHANGED <<uiVars, sessions, queueVars, flagVars, closer,
                   finalCloseSyncStarted, finalTodo, owed, runVars>>

(* RunJob finds the session, or returns: not signed in, or the database      *)
(* could not be opened.                                                      *)
JobLookup(r) ==
    /\ phase[r] = "lookup"
    /\ \/ /\ current[r] \in sessions
          /\ phase' = [phase EXCEPT ![r] = "syncing"]
       \/ phase' = [phase EXCEPT ![r] = "done"]
    /\ UNCHANGED <<uiVars, sessions, queueVars, flagVars, threadVars, current>>

(* The uploads and downloads of RunJob, to their end or to an exception. *)
JobSync(r) ==
    /\ phase[r] = "syncing"
    /\ phase' = [phase EXCEPT ![r] = "done"]
    /\ UNCHANGED <<uiVars, sessions, queueVars, flagVars, threadVars, current>>

(* Mutant: the burst goes on after Stop. *)
WorkerTakesNextAnyway ==
    /\ worker = "working"
    /\ phase["worker"] = "done"
    /\ Take(jobs, queuedAccountIds)
    /\ UNCHANGED <<uiVars, sessions, flagVars, threadVars>>

(* The result is handed to onResult_ and the mutex taken again: the next job  *)
(* of the burst, if there is one and nobody asked the worker to stop.         *)
WorkerTakesNext ==
    /\ worker = "working"
    /\ phase["worker"] = "done"
    /\ ~stopping
    /\ Take(jobs, queuedAccountIds)
    /\ UNCHANGED <<uiVars, sessions, flagVars, threadVars>>

WorkerEndsBurst ==
    /\ worker = "working"
    /\ phase["worker"] = "done"
    /\ stopping \/ jobs = <<>>
    /\ periodicDue' = FALSE
    /\ worker' = IF stopping THEN "exited" ELSE "waiting"
    /\ phase' = [phase EXCEPT !["worker"] = "idle"]
    /\ current' = [current EXCEPT !["worker"] = NoAccount]
    /\ UNCHANGED <<uiVars, sessions, queueVars, running, stopping, closer,
                   finalCloseSyncStarted, finalTodo, owed>>

-----------------------------------------------------------------------------
(* Closing the window. *)

(* OnClose with a signed-in account: hide, and close on a detached thread. *)
OnCloseWithFinalSync ==
    /\ UserCanAct
    /\ sessions # {}
    /\ finalCloseSyncStarted' = TRUE
    /\ owed' = sessions
    /\ closer' = "stop"
    /\ UNCHANGED <<uiVars, sessions, queueVars, flagVars, worker, finalTodo, runVars>>

(* OnClose that cannot be vetoed, or nobody signed in: the destructor stops   *)
(* the scheduler on the UI thread.                                           *)
OnCloseAtOnce ==
    /\ UserCanAct
    /\ closer' = "stop"
    /\ UNCHANGED <<uiVars, sessions, queueVars, flagVars, worker,
                   finalCloseSyncStarted, finalTodo, owed, runVars>>

(* Mutant: Stop does not set stopping_. *)
StopForgetsFlag ==
    /\ closer = "stop"
    /\ running
    /\ jobs' = <<>>
    /\ queuedAccountIds' = {}
    /\ closer' = "join"
    /\ UNCHANGED <<uiVars, sessions, running, stopping, periodicDue, worker,
                   finalCloseSyncStarted, finalTodo, owed, runVars>>

StopClears ==
    /\ closer = "stop"
    /\ running
    /\ stopping' = TRUE
    /\ jobs' = <<>>
    /\ queuedAccountIds' = {}
    /\ closer' = "join"
    /\ UNCHANGED <<uiVars, sessions, running, periodicDue, worker,
                   finalCloseSyncStarted, finalTodo, owed, runVars>>

(* Mutant: the worker is detached instead of joined. *)
StopDetaches ==
    /\ closer = "join"
    /\ running' = FALSE
    /\ closer' = IF finalCloseSyncStarted THEN "collect" ELSE "gone"
    /\ UNCHANGED <<uiVars, sessions, queueVars, stopping, periodicDue, worker,
                   finalCloseSyncStarted, finalTodo, owed, runVars>>

StopJoins ==
    /\ closer = "join"
    /\ worker = "exited"
    /\ running' = FALSE
    /\ closer' = IF finalCloseSyncStarted THEN "collect" ELSE "gone"
    /\ UNCHANGED <<uiVars, sessions, queueVars, stopping, periodicDue, worker,
                   finalCloseSyncStarted, finalTodo, owed, runVars>>

(* Mutant: the final pass runs what was queued instead of who is signed in. *)
RunAllCollectsQueued ==
    /\ closer = "collect"
    /\ jobs' = <<>>
    /\ queuedAccountIds' = {}
    /\ finalTodo' = queuedAccountIds
    /\ closer' = "final"
    /\ UNCHANGED <<uiVars, sessions, flagVars, worker, finalCloseSyncStarted,
                   owed, runVars>>

RunAllCollects ==
    /\ closer = "collect"
    /\ jobs' = <<>>
    /\ queuedAccountIds' = {}
    /\ finalTodo' = sessions
    /\ closer' = "final"
    /\ UNCHANGED <<uiVars, sessions, flagVars, worker, finalCloseSyncStarted,
                   owed, runVars>>

RunAllTakes(a) ==
    /\ closer = "final"
    /\ phase["closer"] = "idle"
    /\ a \in finalTodo
    /\ finalTodo' = finalTodo \ {a}
    /\ owed' = owed \ {a}
    /\ phase' = [phase EXCEPT !["closer"] = "lookup"]
    /\ current' = [current EXCEPT !["closer"] = a]
    /\ UNCHANGED <<uiVars, sessions, queueVars, flagVars, worker, closer,
                   finalCloseSyncStarted>>

RunAllKeepsResult ==
    /\ closer = "final"
    /\ phase["closer"] = "done"
    /\ phase' = [phase EXCEPT !["closer"] = "idle"]
    /\ current' = [current EXCEPT !["closer"] = NoAccount]
    /\ UNCHANGED <<uiVars, sessions, queueVars, flagVars, threadVars>>

RunAllReturns ==
    /\ closer = "final"
    /\ phase["closer"] = "idle"
    /\ finalTodo = {}
    /\ closer' = "destroy"
    /\ UNCHANGED <<uiVars, sessions, queueVars, flagVars, worker,
                   finalCloseSyncStarted, finalTodo, owed, runVars>>

(* Destroy() posted to the UI thread; Stop() in the destructor finds          *)
(* running_ false and returns.                                               *)
Destroy ==
    /\ closer = "destroy"
    /\ ~running
    /\ uiRemoving = NoAccount
    /\ closer' = "gone"
    /\ UNCHANGED <<uiVars, sessions, queueVars, flagVars, worker,
                   finalCloseSyncStarted, finalTodo, owed, runVars>>

(* The window is gone and the process ends. *)
Terminated == closer = "gone" /\ UNCHANGED vars

-----------------------------------------------------------------------------
WindowNext ==
    \/ Start
    \/ \E a \in Accounts : \/ InsertAccount(a)
                           \/ UpsertSession(a)
                           \/ DeleteAccount(a)
                           \/ QueueAccount(a)
    \/ RemoveSession
    \/ QueueAllSignedInAccounts
    \/ OnCloseWithFinalSync
    \/ OnCloseAtOnce

WorkerNext ==
    \/ WorkerStarts
    \/ WorkerWakes
    \/ WorkerSeesStop
    \/ JobLookup("worker")
    \/ JobSync("worker")
    \/ WorkerTakesNext
    \/ WorkerEndsBurst

CloserNext ==
    \/ StopClears
    \/ StopJoins
    \/ RunAllCollects
    \/ \E a \in Accounts : RunAllTakes(a)
    \/ JobLookup("closer")
    \/ JobSync("closer")
    \/ RunAllKeepsResult
    \/ RunAllReturns
    \/ Destroy

Next == WindowNext \/ WorkerNext \/ IntervalElapses \/ CloserNext \/ Terminated

Spec == Init /\ [][Next]_vars

(* Threads keep running, the clock keeps moving, and a handler of the UI       *)
(* thread that has begun ends.  A user owes the program nothing.             *)
Fairness ==
    /\ WF_vars(WorkerNext)
    /\ WF_vars(CloserNext)
    /\ WF_vars(IntervalElapses)
    /\ WF_vars(RemoveSession)

FairSpec == Spec /\ Fairness

-----------------------------------------------------------------------------
TypeOK ==
    /\ account \in [Accounts -> {"absent", "present", "deleted"}]
    /\ uiRemoving \in Accounts \cup {NoAccount}
    /\ sessions \subseteq Accounts
    /\ jobs \in Seq(Accounts)
    /\ queuedAccountIds \subseteq Accounts
    /\ running \in BOOLEAN
    /\ stopping \in BOOLEAN
    /\ periodicDue \in BOOLEAN
    /\ worker \in {"none", "starting", "waiting", "working", "exited"}
    /\ closer \in {"open", "stop", "join", "collect", "final", "destroy", "gone"}
    /\ finalCloseSyncStarted \in BOOLEAN
    /\ finalTodo \subseteq Accounts
    /\ phase \in [Runners -> {"idle", "lookup", "syncing", "done"}]
    /\ current \in [Runners -> Accounts \cup {NoAccount}]
    /\ owed \subseteq Accounts

(* jobs_ holds no account twice. *)
JobsDistinct == \A i, j \in DOMAIN jobs : jobs[i] = jobs[j] => i = j

(* queuedAccountIds_ is exactly the set of signed-in accounts with a job in   *)
(* jobs_, and no account has two jobs, although RemoveSession forgets the      *)
(* flag and leaves the job (event_upload_scheduler.cpp:98-102).              *)
QueueDiscipline ==
    /\ JobsDistinct
    /\ queuedAccountIds = AccountsIn(jobs) \cap sessions

(* The worker and the final pass never run a job at the same time: two        *)
(* RunJob calls would upload the same pending rows twice.                    *)
OneRunner == phase["worker"] = "idle" \/ phase["closer"] = "idle"

(* When the window asks to be destroyed, every account that was signed in     *)
(* when the user closed it has been run once more.                           *)
FinalPassComplete == closer = "destroy" => owed = {}

(* After Stop has set stopping_ the worker finishes at most the job it is in;  *)
(* it takes no other, whatever is queued meanwhile.                          *)
StoppedTakesNoJob ==
    [][stopping /\ phase["worker"] # "lookup" => phase'["worker"] # "lookup"]_vars

(* Stop returns and the window is destroyed: joining the worker cannot hang    *)
(* as long as every RunJob ends.                                             *)
CloseCompletes == (closer = "stop") ~> (closer = "gone")

Running(a) == \E r \in Runners : phase[r] # "idle" /\ current[r] = a

(* A queued account is run, unless it is removed or the window closes. *)
QueuedIsServed ==
    \A a \in Accounts :
        (a \in queuedAccountIds) ~> (Running(a) \/ stopping \/ a \notin sessions)

(* A signed-in account is synchronised again and again, whether or not         *)
(* somebody presses refresh: a burst that resets the timer has run everybody.  *)
SignedInIsServed ==
    \A a \in Accounts :
        (a \in sessions) ~> (Running(a) \/ stopping \/ a \notin sessions)

-----------------------------------------------------------------------------
(* Why the three invariants above hold: what the steps preserve. *)

(* A job without a session belongs to an account that is gone for good, so no  *)
(* session can come back and have the account queued a second time.          *)
QueueInv ==
    /\ QueueDiscipline
    /\ \A a \in AccountsIn(jobs) \ sessions : account[a] = "deleted"
    /\ uiRemoving # NoAccount => account[uiRemoving] = "deleted"

(* Who may be inside RunJob. *)
RunnerInv ==
    /\ closer = "open" /\ ~running => worker = "none"
    /\ phase["worker"] # "idle" => worker = "working"
    /\ phase["closer"] # "idle" => closer = "final"
    /\ closer \in {"collect", "final", "destroy", "gone"} => worker = "exited"

(* Where an account that was signed in at the close still has to be found. *)
CloseInv ==
    /\ closer # "open" => uiRemoving = NoAccount
    /\ closer = "open" => owed = {}
    /\ closer \in {"stop", "join", "collect"} => owed \subseteq sessions
    /\ closer = "final" => owed \subseteq finalTodo
    /\ closer = "destroy" => owed = {}

IInv == TypeOK /\ QueueInv /\ RunnerInv /\ CloseInv

-----------------------------------------------------------------------------
(* What the scheduler implements. *)

Requests == INSTANCE SyncRequests WITH
    requested <- AccountsIn(jobs),
    active <- {current[r] : r \in {q \in Runners : phase[q] \in {"lookup", "syncing"}}},
    closed <- closer \in {"collect", "final", "destroy", "gone"}

(* The scheduler implements the abstract service: a request is kept until it   *)
(* is taken up or dropped by a stop, one account at a time, and the final      *)
(* pass only after the worker is gone.                                       *)
ImplementsRequests == Requests!ReqSpec
=============================================================================
