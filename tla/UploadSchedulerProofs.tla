----------------------- MODULE UploadSchedulerProofs -----------------------
(* Theorems about EventUploadScheduler for any finite set of accounts.      *)
EXTENDS UploadScheduler, FiniteSetTheorems, SequenceTheorems, TLAPS

-----------------------------------------------------------------------------
(* Sequences of accounts. *)

(* An ordering of S is a sequence over S that holds every element once. *)
LEMMA OrderingIsSeq ==
    ASSUME NEW S, S \subseteq Accounts, NEW s \in Orderings(S)
    PROVE  /\ s \in Seq(Accounts)
           /\ AccountsIn(s) = S
           /\ \A i, j \in DOMAIN s : s[i] = s[j] => i = j
<1>1. IsFiniteSet(S)
  BY AccountsAssumption, FS_Subset
<1>2. Cardinality(S) \in Nat
  BY <1>1, FS_CardinalityType
<1>3. /\ s \in [1..Cardinality(S) -> S]
      /\ \A a \in S : \E i \in DOMAIN s : s[i] = a
      /\ \A i, j \in DOMAIN s : s[i] = s[j] => i = j
  BY DEF Orderings
<1>4. s \in Seq(Accounts)
  <2>1. s \in [1..Cardinality(S) -> Accounts]
    BY <1>3
  <2>2. QED
    BY <2>1, <1>2, SeqDef
<1>5. AccountsIn(s) = S
  BY <1>3 DEF AccountsIn
<1>6. QED
  BY <1>3, <1>4, <1>5

(* Appending to a queue without duplicates accounts it does not hold keeps it  *)
(* without duplicates and adds exactly those accounts.                       *)
LEMMA AppendDistinct ==
    ASSUME NEW js \in Seq(Accounts), NEW s \in Seq(Accounts),
           \A i, j \in DOMAIN js : js[i] = js[j] => i = j,
           \A i, j \in DOMAIN s : s[i] = s[j] => i = j
    PROVE  /\ js \o s \in Seq(Accounts)
           /\ AccountsIn(js \o s) = AccountsIn(js) \cup AccountsIn(s)
           /\ AccountsIn(js) \cap AccountsIn(s) = {} =>
                  \A i, j \in DOMAIN (js \o s) :
                      (js \o s)[i] = (js \o s)[j] => i = j
<1>1. /\ js \o s \in Seq(Accounts)
      /\ Len(js \o s) = Len(js) + Len(s)
      /\ \A i \in 1 .. Len(js) + Len(s) :
             (js \o s)[i] = IF i <= Len(js) THEN js[i] ELSE s[i - Len(js)]
  BY ConcatProperties
<1>2. /\ Len(js) \in Nat /\ DOMAIN js = 1..Len(js)
      /\ Len(s) \in Nat /\ DOMAIN s = 1..Len(s)
      /\ DOMAIN (js \o s) = 1..(Len(js) + Len(s))
  BY <1>1, LenProperties
<1>3. AccountsIn(js \o s) \subseteq AccountsIn(js) \cup AccountsIn(s)
  <2> SUFFICES ASSUME NEW i \in 1..(Len(js) + Len(s))
               PROVE  (js \o s)[i] \in AccountsIn(js) \cup AccountsIn(s)
    BY <1>2 DEF AccountsIn
  <2>1. CASE i <= Len(js)
    BY <2>1, <1>1, <1>2 DEF AccountsIn
  <2>2. CASE ~(i <= Len(js))
    <3>1. i - Len(js) \in DOMAIN s
      BY <2>2, <1>2
    <3>2. QED
      BY <3>1, <2>2, <1>1 DEF AccountsIn
  <2>3. QED
    BY <2>1, <2>2
<1>4. AccountsIn(js) \subseteq AccountsIn(js \o s)
  <2> SUFFICES ASSUME NEW i \in 1..Len(js)
               PROVE  js[i] \in AccountsIn(js \o s)
    BY <1>2 DEF AccountsIn
  <2>1. i \in 1..(Len(js) + Len(s)) /\ i <= Len(js)
    BY <1>2
  <2>2. QED
    BY <2>1, <1>1, <1>2 DEF AccountsIn
<1>5. AccountsIn(s) \subseteq AccountsIn(js \o s)
  <2> SUFFICES ASSUME NEW i \in 1..Len(s)
               PROVE  s[i] \in AccountsIn(js \o s)
    BY <1>2 DEF AccountsIn
  <2>1. /\ Len(js) + i \in 1..(Len(js) + Len(s))
        /\ ~(Len(js) + i <= Len(js))
        /\ Len(js) + i - Len(js) = i
    BY <1>2
  <2>2. (js \o s)[Len(js) + i] = s[i]
    BY <2>1, <1>1
  <2>3. QED
    BY <2>1, <2>2, <1>2 DEF AccountsIn
<1>6. ASSUME AccountsIn(js) \cap AccountsIn(s) = {},
             NEW i \in DOMAIN (js \o s), NEW j \in DOMAIN (js \o s),
             (js \o s)[i] = (js \o s)[j]
      PROVE  i = j
  <2>1. CASE i <= Len(js) /\ j <= Len(js)
    BY <2>1, <1>6, <1>1, <1>2
  <2>2. CASE ~(i <= Len(js)) /\ ~(j <= Len(js))
    <3>1. /\ i - Len(js) \in DOMAIN s
          /\ j - Len(js) \in DOMAIN s
          /\ s[i - Len(js)] = s[j - Len(js)]
      BY <2>2, <1>6, <1>1, <1>2
    <3>2. QED
      BY <3>1, <1>2
  <2>3. CASE i <= Len(js) /\ ~(j <= Len(js))
    <3>1. i \in DOMAIN js /\ j - Len(js) \in DOMAIN s /\ js[i] = s[j - Len(js)]
      BY <2>3, <1>6, <1>1, <1>2
    <3>2. QED
      BY <3>1, <1>6 DEF AccountsIn
  <2>4. CASE ~(i <= Len(js)) /\ j <= Len(js)
    <3>1. j \in DOMAIN js /\ i - Len(js) \in DOMAIN s /\ js[j] = s[i - Len(js)]
      BY <2>4, <1>6, <1>1, <1>2
    <3>2. QED
      BY <3>1, <1>6 DEF AccountsIn
  <2>5. QED
    BY <2>1, <2>2, <2>3, <2>4
<1>7. QED
  BY <1>1, <1>3, <1>4, <1>5, <1>6

(* Popping the front of a queue without duplicates takes that account away.   *)
LEMMA PopDistinct ==
    ASSUME NEW js \in Seq(Accounts), js # <<>>,
           \A i, j \in DOMAIN js : js[i] = js[j] => i = j
    PROVE  /\ Tail(js) \in Seq(Accounts)
           /\ Head(js) \in AccountsIn(js)
           /\ AccountsIn(Tail(js)) = AccountsIn(js) \ {Head(js)}
           /\ \A i, j \in DOMAIN Tail(js) : Tail(js)[i] = Tail(js)[j] => i = j
<1>1. /\ Head(js) = js[1]
      /\ Tail(js) \in Seq(Accounts)
      /\ Len(Tail(js)) = Len(js) - 1
      /\ \A i \in 1..Len(Tail(js)) : Tail(js)[i] = js[i + 1]
  BY HeadTailProperties
<1>2. /\ Len(js) \in Nat \ {0} /\ DOMAIN js = 1..Len(js)
      /\ DOMAIN Tail(js) = 1..(Len(js) - 1)
  BY <1>1, LenProperties, EmptySeq
<1>3. \A i \in 1..(Len(js) - 1) : Tail(js)[i] = js[i + 1] /\ i + 1 \in DOMAIN js /\ i + 1 # 1
  BY <1>1, <1>2
<1>4. 1 \in DOMAIN js
  BY <1>2
<1>5. AccountsIn(Tail(js)) \subseteq AccountsIn(js) \ {Head(js)}
  BY <1>1, <1>2, <1>3, <1>4 DEF AccountsIn
<1>6. AccountsIn(js) \ {Head(js)} \subseteq AccountsIn(Tail(js))
  <2> SUFFICES ASSUME NEW i \in DOMAIN js, js[i] # Head(js)
               PROVE  js[i] \in AccountsIn(Tail(js))
    BY DEF AccountsIn
  <2>1. i - 1 \in 1..(Len(js) - 1) /\ (i - 1) + 1 = i
    BY <1>1, <1>2
  <2>2. Tail(js)[i - 1] = js[i]
    BY <2>1, <1>3
  <2>3. QED
    BY <2>1, <2>2, <1>2 DEF AccountsIn
<1>7. \A i, j \in DOMAIN Tail(js) : Tail(js)[i] = Tail(js)[j] => i = j
  <2> SUFFICES ASSUME NEW i \in DOMAIN Tail(js), NEW j \in DOMAIN Tail(js),
                      Tail(js)[i] = Tail(js)[j]
               PROVE  i = j
    OBVIOUS
  <2>1. js[i + 1] = js[j + 1]
    BY <1>2, <1>3
  <2>2. i + 1 = j + 1
    BY <2>1, <1>2, <1>3
  <2>3. QED
    BY <2>2, <1>2
<1>8. QED
  BY <1>1, <1>4, <1>5, <1>6, <1>7 DEF AccountsIn

-----------------------------------------------------------------------------
(* What QueueAccountLocked and the pop do to jobs_ and queuedAccountIds_. *)

(* Queueing accounts keeps jobs_ and queuedAccountIds_ in step, and only adds  *)
(* accounts that have a session.                                             *)
LEMMA EnqueueKeepsDiscipline ==
    ASSUME TypeOK, QueueDiscipline,
           NEW S, S \subseteq Accounts,
           NEW s \in Orderings((S \cap sessions) \ queuedAccountIds)
    PROVE  LET js == jobs \o s
               queued == queuedAccountIds \cup AccountsIn(s)
           IN  /\ js \in Seq(Accounts)
               /\ queued \subseteq Accounts
               /\ \A i, j \in DOMAIN js : js[i] = js[j] => i = j
               /\ AccountsIn(js) = AccountsIn(jobs) \cup AccountsIn(s)
               /\ AccountsIn(s) \subseteq S \cap sessions
               /\ queued = AccountsIn(js) \cap sessions
<1>1. (S \cap sessions) \ queuedAccountIds \subseteq Accounts
  OBVIOUS
<1>2. /\ s \in Seq(Accounts)
      /\ AccountsIn(s) = (S \cap sessions) \ queuedAccountIds
      /\ \A i, j \in DOMAIN s : s[i] = s[j] => i = j
  BY <1>1, OrderingIsSeq
<1>3. /\ jobs \in Seq(Accounts)
      /\ \A i, j \in DOMAIN jobs : jobs[i] = jobs[j] => i = j
      /\ queuedAccountIds = AccountsIn(jobs) \cap sessions
      /\ queuedAccountIds \subseteq Accounts
  BY DEF TypeOK, QueueDiscipline, JobsDistinct
<1>4. AccountsIn(jobs) \cap AccountsIn(s) = {}
  BY <1>2, <1>3
<1>5. QED
  BY <1>2, <1>3, <1>4, AppendDistinct

(* Popping keeps them in step. *)
LEMMA TakeKeepsDiscipline ==
    ASSUME NEW js \in Seq(Accounts), NEW queued, TypeOK,
           \A i, j \in DOMAIN js : js[i] = js[j] => i = j,
           queued = AccountsIn(js) \cap sessions,
           Take(js, queued), sessions' = sessions
    PROVE  /\ jobs' \in Seq(Accounts)
           /\ queuedAccountIds' \subseteq Accounts
           /\ QueueDiscipline'
           /\ AccountsIn(jobs)' = AccountsIn(js) \ {Head(js)}
           /\ Head(js) \in AccountsIn(js)
           /\ Head(js) \in Accounts
           /\ phase' \in [Runners -> {"idle", "lookup", "syncing", "done"}]
           /\ current' \in [Runners -> Accounts \cup {NoAccount}]
<1>1. /\ Tail(js) \in Seq(Accounts)
      /\ Head(js) \in AccountsIn(js)
      /\ AccountsIn(Tail(js)) = AccountsIn(js) \ {Head(js)}
      /\ \A i, j \in DOMAIN Tail(js) : Tail(js)[i] = Tail(js)[j] => i = j
  BY PopDistinct DEF Take
<1>2. AccountsIn(js) \subseteq Accounts
  BY LenProperties DEF AccountsIn
<1>3. queuedAccountIds' = AccountsIn(jobs') \cap sessions'
  BY <1>1 DEF Take
<1>4. QueueDiscipline'
  BY <1>1, <1>3 DEF Take, QueueDiscipline, JobsDistinct, AccountsIn
<1>5. AccountsIn(jobs)' = AccountsIn(js) \ {Head(js)}
  BY <1>1 DEF Take, AccountsIn
<1>6. queuedAccountIds' \subseteq Accounts
  BY <1>2, <1>1, <1>3, <1>5 DEF AccountsIn
<1>7. /\ phase' \in [Runners -> {"idle", "lookup", "syncing", "done"}]
      /\ current' \in [Runners -> Accounts \cup {NoAccount}]
  BY <1>1, <1>2 DEF Take, TypeOK, Runners
<1>8. QED
  BY <1>1, <1>2, <1>4, <1>5, <1>6, <1>7 DEF Take

-----------------------------------------------------------------------------
(* The inductive invariant. *)

(* The scheduler starts with an empty queue and no thread: the invariant holds. *)
LEMMA InitIInv == Init => IInv
<1> SUFFICES ASSUME Init PROVE IInv
  OBVIOUS
<1>1. TypeOK
  BY EmptySeq DEF Init, TypeOK, Runners
<1>2. AccountsIn(jobs) = {}
  BY DEF Init, AccountsIn
<1>3. QueueInv
  BY <1>2, EmptySeq DEF Init, QueueInv, QueueDiscipline, JobsDistinct
<1>4. RunnerInv /\ CloseInv
  BY DEF Init, RunnerInv, CloseInv, Runners
<1>5. QED
  BY <1>1, <1>3, <1>4 DEF IInv

(* Steps that leave jobs_, queuedAccountIds_ and the sessions alone keep what  *)
(* the queue promises as long as no account comes back.                      *)
LEMMA QueueInvFrame ==
    ASSUME QueueInv, UNCHANGED <<sessions, queueVars, uiRemoving>>,
           \A a \in Accounts \cup {uiRemoving} \cup AccountsIn(jobs) :
               account[a] = "deleted" => account'[a] = "deleted"
    PROVE  QueueInv'
<1>1. /\ jobs' = jobs /\ queuedAccountIds' = queuedAccountIds
      /\ sessions' = sessions /\ uiRemoving' = uiRemoving
  BY DEF queueVars
<1>2. QueueDiscipline'
  BY <1>1 DEF QueueInv, QueueDiscipline, JobsDistinct, AccountsIn
<1>3. \A a \in AccountsIn(jobs') \ sessions' : account'[a] = "deleted"
  BY <1>1 DEF QueueInv
<1>4. uiRemoving' # NoAccount => account'[uiRemoving'] = "deleted"
  BY <1>1 DEF QueueInv
<1>5. QED
  BY <1>2, <1>3, <1>4 DEF QueueInv, AccountsIn

(* Every step of the window keeps the invariant. *)
LEMMA WindowStep == IInv /\ WindowNext => IInv'
<1> SUFFICES ASSUME IInv, WindowNext PROVE IInv'
  OBVIOUS
<1> USE DEF IInv
<1>1. CASE Start
  <2>1. QueueInv'
    BY <1>1, QueueInvFrame DEF Start, uiVars
  <2>2. TypeOK' /\ RunnerInv' /\ CloseInv'
    BY <1>1 DEF Start, TypeOK, RunnerInv, CloseInv, uiVars, queueVars, runVars, Runners
  <2>3. QED
    BY <2>1, <2>2
<1>2. ASSUME NEW a \in Accounts, InsertAccount(a) PROVE IInv'
  <2>1. QueueInv'
    <3>1. \A b : account[b] = "deleted" => account'[b] = "deleted"
      BY <1>2 DEF InsertAccount, TypeOK
    <3>2. QED
      BY <1>2, <3>1, QueueInvFrame DEF InsertAccount
  <2>2. TypeOK' /\ RunnerInv' /\ CloseInv'
    BY <1>2 DEF InsertAccount, TypeOK, RunnerInv, CloseInv, queueVars, flagVars,
                threadVars, runVars
  <2>3. QED
    BY <2>1, <2>2
<1>3. ASSUME NEW a \in Accounts, UpsertSession(a) PROVE IInv'
  <2>1. a \notin AccountsIn(jobs) \ sessions
    BY <1>3 DEF UpsertSession, QueueInv
  <2>2. QueueInv'
    BY <1>3, <2>1 DEF UpsertSession, QueueInv, QueueDiscipline, JobsDistinct,
                      queueVars, uiVars, AccountsIn
  <2>3. TypeOK' /\ RunnerInv' /\ CloseInv'
    BY <1>3 DEF UpsertSession, TypeOK, RunnerInv, CloseInv, queueVars, uiVars,
                flagVars, threadVars, runVars
  <2>4. QED
    BY <2>2, <2>3
<1>4. ASSUME NEW a \in Accounts, DeleteAccount(a) PROVE IInv'
  <2>1. /\ \A b \in Accounts : account[b] = "deleted" => account'[b] = "deleted"
        /\ account'[a] = "deleted"
    BY <1>4 DEF DeleteAccount, TypeOK
  <2>. AccountsIn(jobs) \subseteq Accounts
    BY LenProperties DEF TypeOK, AccountsIn
  <2>2. QueueInv'
    BY <1>4, <2>1 DEF DeleteAccount, QueueInv, QueueDiscipline, JobsDistinct,
                      queueVars, AccountsIn
  <2>3. TypeOK' /\ RunnerInv' /\ CloseInv'
    BY <1>4 DEF DeleteAccount, UserCanAct, TypeOK, RunnerInv, CloseInv, queueVars,
                flagVars, threadVars, runVars
  <2>4. QED
    BY <2>2, <2>3
<1>5. CASE RemoveSession
  <2>1. QueueInv'
    BY <1>5 DEF RemoveSession, QueueInv, QueueDiscipline, JobsDistinct, AccountsIn
  <2>2. TypeOK' /\ RunnerInv' /\ CloseInv'
    BY <1>5 DEF RemoveSession, TypeOK, RunnerInv, CloseInv, flagVars, threadVars, runVars
  <2>3. QED
    BY <2>1, <2>2
<1>6. ASSUME NEW S, S \subseteq Accounts, Enqueue(S),
             UNCHANGED <<uiVars, sessions, flagVars, threadVars, runVars>>
      PROVE  IInv'
  <2>1. PICK s \in Orderings((S \cap sessions) \ queuedAccountIds) :
            /\ jobs' = jobs \o s
            /\ queuedAccountIds' = queuedAccountIds \cup AccountsIn(s)
    BY <1>6 DEF Enqueue
  <2>2. /\ jobs' \in Seq(Accounts)
        /\ queuedAccountIds' \subseteq Accounts
        /\ \A i, j \in DOMAIN jobs' : jobs'[i] = jobs'[j] => i = j
        /\ AccountsIn(jobs') = AccountsIn(jobs) \cup AccountsIn(s)
        /\ AccountsIn(s) \subseteq S \cap sessions
        /\ queuedAccountIds' = AccountsIn(jobs') \cap sessions
    BY <1>6, <2>1, EnqueueKeepsDiscipline DEF QueueInv
  <2>3. QueueDiscipline'
    BY <1>6, <2>2 DEF QueueDiscipline, JobsDistinct, AccountsIn
  <2>4. \A a \in AccountsIn(jobs') \ sessions' : account'[a] = "deleted"
    BY <1>6, <2>2 DEF QueueInv, uiVars
  <2>5. QueueInv'
    BY <1>6, <2>3, <2>4 DEF QueueInv, uiVars, AccountsIn
  <2>6. TypeOK' /\ RunnerInv' /\ CloseInv'
    BY <1>6, <2>2 DEF TypeOK, RunnerInv, CloseInv, uiVars, flagVars, threadVars, runVars
  <2>7. QED
    BY <2>5, <2>6
<1>7. ASSUME NEW a \in Accounts, QueueAccount(a) PROVE IInv'
  BY <1>6, <1>7 DEF QueueAccount
<1>8. CASE QueueAllSignedInAccounts
  <2>1. sessions \subseteq Accounts
    BY DEF TypeOK
  <2>2. QED
    BY <1>6, <1>8, <2>1 DEF QueueAllSignedInAccounts
<1>9. CASE OnCloseWithFinalSync
  <2>1. QueueInv'
    BY <1>9, QueueInvFrame DEF OnCloseWithFinalSync, uiVars
  <2>2. TypeOK' /\ RunnerInv' /\ CloseInv'
    BY <1>9 DEF OnCloseWithFinalSync, UserCanAct, TypeOK, RunnerInv, CloseInv, uiVars,
                queueVars, flagVars, runVars
  <2>3. QED
    BY <2>1, <2>2
<1>10. CASE OnCloseAtOnce
  <2>1. QueueInv'
    BY <1>10, QueueInvFrame DEF OnCloseAtOnce, uiVars
  <2>2. TypeOK' /\ RunnerInv' /\ CloseInv'
    BY <1>10 DEF OnCloseAtOnce, UserCanAct, TypeOK, RunnerInv, CloseInv, uiVars,
                 queueVars, flagVars, runVars
  <2>3. QED
    BY <2>1, <2>2
<1>11. QED
  BY <1>1, <1>2, <1>3, <1>4, <1>5, <1>7, <1>8, <1>9, <1>10 DEF WindowNext

(* Every step of the worker thread, the timer and RunJob keeps the invariant. *)
LEMMA WorkerStep == IInv /\ (WorkerNext \/ IntervalElapses) => IInv'
<1> SUFFICES ASSUME IInv, WorkerNext \/ IntervalElapses PROVE IInv'
  OBVIOUS
<1> USE DEF IInv
<1>1. CASE WorkerStarts
  <2>1. QueueInv'
    BY <1>1, QueueInvFrame DEF WorkerStarts, uiVars
  <2>2. TypeOK' /\ RunnerInv' /\ CloseInv'
    BY <1>1 DEF WorkerStarts, TypeOK, RunnerInv, CloseInv, uiVars, queueVars, runVars
  <2>3. QED
    BY <2>1, <2>2
<1>2. CASE IntervalElapses
  <2>1. QueueInv'
    BY <1>2, QueueInvFrame DEF IntervalElapses, uiVars
  <2>2. TypeOK' /\ RunnerInv' /\ CloseInv'
    BY <1>2 DEF IntervalElapses, TypeOK, RunnerInv, CloseInv, uiVars, queueVars,
                threadVars, runVars
  <2>3. QED
    BY <2>1, <2>2
<1>3. ASSUME NEW js \in Seq(Accounts), NEW queued, Take(js, queued),
             \A i, j \in DOMAIN js : js[i] = js[j] => i = j,
             queued = AccountsIn(js) \cap sessions,
             \A a \in AccountsIn(js) \ sessions : account[a] = "deleted",
             worker \in {"waiting", "working"}, worker' = "working",
             UNCHANGED <<uiVars, sessions, flagVars, closer, finalCloseSyncStarted,
                         finalTodo, owed>>
      PROVE  IInv'
  <2>1. /\ jobs' \in Seq(Accounts)
        /\ queuedAccountIds' \subseteq Accounts
        /\ QueueDiscipline'
        /\ AccountsIn(jobs)' = AccountsIn(js) \ {Head(js)}
        /\ phase' \in [Runners -> {"idle", "lookup", "syncing", "done"}]
        /\ current' \in [Runners -> Accounts \cup {NoAccount}]
    BY <1>3, TakeKeepsDiscipline
  <2>2. QueueInv'
    BY <1>3, <2>1 DEF QueueInv, uiVars
  <2>3. phase'["closer"] = phase["closer"]
    BY <1>3 DEF Take, TypeOK, Runners
  <2>4. TypeOK' /\ RunnerInv' /\ CloseInv'
    BY <1>3, <2>1, <2>3 DEF TypeOK, RunnerInv, CloseInv, uiVars, flagVars
  <2>5. QED
    BY <2>2, <2>4
<1>4. CASE WorkerWakes
  <2>1. PICK s \in Orderings(IF periodicDue THEN sessions \ queuedAccountIds ELSE {}) :
            Take(jobs \o s, queuedAccountIds \cup AccountsIn(s))
    BY <1>4 DEF WorkerWakes
  <2>2. PICK S \in SUBSET Accounts : s \in Orderings((S \cap sessions) \ queuedAccountIds)
    <3>1. CASE periodicDue
      <4>1. sessions \in SUBSET Accounts /\ sessions \cap sessions = sessions
        BY DEF TypeOK
      <4>2. QED
        BY <2>1, <3>1, <4>1
    <3>2. CASE ~periodicDue
      <4>1. {} \in SUBSET Accounts /\ ({} \cap sessions) \ queuedAccountIds = {}
        OBVIOUS
      <4>2. QED
        BY <2>1, <3>2, <4>1
    <3>3. QED
      BY <3>1, <3>2
  <2>3. LET js == jobs \o s
            queued == queuedAccountIds \cup AccountsIn(s)
        IN  /\ js \in Seq(Accounts)
            /\ \A i, j \in DOMAIN js : js[i] = js[j] => i = j
            /\ AccountsIn(js) = AccountsIn(jobs) \cup AccountsIn(s)
            /\ AccountsIn(s) \subseteq S \cap sessions
            /\ queued = AccountsIn(js) \cap sessions
    BY <2>2, EnqueueKeepsDiscipline DEF QueueInv
  <2>4. \A a \in AccountsIn(jobs \o s) \ sessions : account[a] = "deleted"
    BY <2>3 DEF QueueInv
  <2>5. QED
    BY <1>3, <1>4, <2>1, <2>3, <2>4 DEF WorkerWakes
<1>5. CASE WorkerTakesNext
  <2>1. /\ jobs \in Seq(Accounts)
        /\ \A i, j \in DOMAIN jobs : jobs[i] = jobs[j] => i = j
        /\ queuedAccountIds = AccountsIn(jobs) \cap sessions
        /\ \A a \in AccountsIn(jobs) \ sessions : account[a] = "deleted"
    BY DEF TypeOK, QueueInv, QueueDiscipline, JobsDistinct
  <2>2. QED
    BY <1>3, <1>5, <2>1 DEF WorkerTakesNext, threadVars
<1>6. CASE WorkerSeesStop
  <2>1. QueueInv'
    BY <1>6, QueueInvFrame DEF WorkerSeesStop, uiVars
  <2>2. TypeOK' /\ RunnerInv' /\ CloseInv'
    BY <1>6 DEF WorkerSeesStop, TypeOK, RunnerInv, CloseInv, uiVars, queueVars,
                flagVars, runVars
  <2>3. QED
    BY <2>1, <2>2
<1>7. CASE WorkerEndsBurst
  <2>1. QueueInv'
    BY <1>7, QueueInvFrame DEF WorkerEndsBurst, uiVars
  <2>2. /\ phase' \in [Runners -> {"idle", "lookup", "syncing", "done"}]
        /\ phase'["worker"] = "idle"
        /\ phase'["closer"] = phase["closer"]
        /\ current' \in [Runners -> Accounts \cup {NoAccount}]
    BY <1>7 DEF WorkerEndsBurst, TypeOK, Runners
  <2>3. TypeOK' /\ RunnerInv' /\ CloseInv'
    BY <1>7, <2>2 DEF WorkerEndsBurst, TypeOK, RunnerInv, CloseInv, uiVars, queueVars
  <2>4. QED
    BY <2>1, <2>3
<1>8. ASSUME NEW r \in Runners, JobLookup(r) \/ JobSync(r) PROVE IInv'
  <2>1. QueueInv'
    BY <1>8, QueueInvFrame DEF JobLookup, JobSync, uiVars
  <2>2. /\ phase' \in [Runners -> {"idle", "lookup", "syncing", "done"}]
        /\ \A q \in Runners : phase[q] = "idle" => phase'[q] = "idle"
    BY <1>8 DEF JobLookup, JobSync, TypeOK, Runners
  <2>3. TypeOK' /\ RunnerInv' /\ CloseInv'
    BY <1>8, <2>2 DEF JobLookup, JobSync, TypeOK, RunnerInv, CloseInv, Runners,
                      uiVars, queueVars, flagVars, threadVars
  <2>4. QED
    BY <2>1, <2>3
<1>9. QED
  BY <1>1, <1>2, <1>4, <1>5, <1>6, <1>7, <1>8 DEF WorkerNext, Runners

(* Every step of closing the window keeps the invariant. *)
LEMMA CloserStep == IInv /\ CloserNext => IInv'
<1> SUFFICES ASSUME IInv, CloserNext PROVE IInv'
  OBVIOUS
<1> USE DEF IInv
<1>1. ASSUME jobs' = <<>>, queuedAccountIds' = {}, UNCHANGED <<uiVars, sessions>>
      PROVE  QueueInv' /\ jobs' \in Seq(Accounts)
  <2>1. DOMAIN jobs' = {} /\ AccountsIn(jobs') = {}
    BY <1>1, EmptySeq DEF AccountsIn
  <2>2. QED
    BY <1>1, <2>1, EmptySeq DEF QueueInv, QueueDiscipline, JobsDistinct, uiVars, AccountsIn
<1>2. CASE StopClears
  <2>1. QueueInv' /\ jobs' \in Seq(Accounts)
    BY <1>1, <1>2 DEF StopClears
  <2>2. TypeOK' /\ RunnerInv' /\ CloseInv'
    BY <1>2, <2>1 DEF StopClears, TypeOK, RunnerInv, CloseInv, uiVars, runVars
  <2>3. QED
    BY <2>1, <2>2
<1>3. CASE StopJoins
  <2>1. QueueInv'
    BY <1>3, QueueInvFrame DEF StopJoins, uiVars
  <2>2. TypeOK' /\ RunnerInv' /\ CloseInv'
    BY <1>3 DEF StopJoins, TypeOK, RunnerInv, CloseInv, uiVars, queueVars, runVars
  <2>3. QED
    BY <2>1, <2>2
<1>4. CASE RunAllCollects
  <2>1. QueueInv' /\ jobs' \in Seq(Accounts)
    BY <1>1, <1>4 DEF RunAllCollects
  <2>2. TypeOK' /\ RunnerInv' /\ CloseInv'
    BY <1>4, <2>1 DEF RunAllCollects, TypeOK, RunnerInv, CloseInv, uiVars, flagVars, runVars
  <2>3. QED
    BY <2>1, <2>2
<1>5. ASSUME NEW a \in Accounts, RunAllTakes(a) PROVE IInv'
  <2>1. QueueInv'
    BY <1>5, QueueInvFrame DEF RunAllTakes, uiVars
  <2>2. /\ phase' \in [Runners -> {"idle", "lookup", "syncing", "done"}]
        /\ phase'["worker"] = phase["worker"]
        /\ current' \in [Runners -> Accounts \cup {NoAccount}]
    BY <1>5 DEF RunAllTakes, TypeOK, Runners
  <2>3. TypeOK' /\ RunnerInv' /\ CloseInv'
    BY <1>5, <2>2 DEF RunAllTakes, TypeOK, RunnerInv, CloseInv, uiVars, queueVars, flagVars
  <2>4. QED
    BY <2>1, <2>3
<1>6. CASE RunAllKeepsResult
  <2>1. QueueInv'
    BY <1>6, QueueInvFrame DEF RunAllKeepsResult, uiVars
  <2>2. /\ phase' \in [Runners -> {"idle", "lookup", "syncing", "done"}]
        /\ phase'["worker"] = phase["worker"]
        /\ phase'["closer"] = "idle"
        /\ current' \in [Runners -> Accounts \cup {NoAccount}]
    BY <1>6 DEF RunAllKeepsResult, TypeOK, Runners
  <2>3. TypeOK' /\ RunnerInv' /\ CloseInv'
    BY <1>6, <2>2 DEF RunAllKeepsResult, TypeOK, RunnerInv, CloseInv, uiVars,
                      queueVars, flagVars, threadVars
  <2>4. QED
    BY <2>1, <2>3
<1>7. CASE RunAllReturns
  <2>1. QueueInv'
    BY <1>7, QueueInvFrame DEF RunAllReturns, uiVars
  <2>2. TypeOK' /\ RunnerInv' /\ CloseInv'
    BY <1>7 DEF RunAllReturns, TypeOK, RunnerInv, CloseInv, uiVars, queueVars,
                flagVars, runVars
  <2>3. QED
    BY <2>1, <2>2
<1>8. CASE Destroy
  <2>1. QueueInv'
    BY <1>8, QueueInvFrame DEF Destroy, uiVars
  <2>2. TypeOK' /\ RunnerInv' /\ CloseInv'
    BY <1>8 DEF Destroy, TypeOK, RunnerInv, CloseInv, uiVars, queueVars, flagVars, runVars
  <2>3. QED
    BY <2>1, <2>2
<1>9. ASSUME JobLookup("closer") \/ JobSync("closer") PROVE IInv'
  <2>1. QueueInv'
    BY <1>9, QueueInvFrame DEF JobLookup, JobSync, uiVars
  <2>2. /\ phase' \in [Runners -> {"idle", "lookup", "syncing", "done"}]
        /\ \A q \in Runners : phase[q] = "idle" => phase'[q] = "idle"
    BY <1>9 DEF JobLookup, JobSync, TypeOK, Runners
  <2>3. TypeOK' /\ RunnerInv' /\ CloseInv'
    BY <1>9, <2>2 DEF JobLookup, JobSync, TypeOK, RunnerInv, CloseInv, Runners,
                      uiVars, queueVars, flagVars, threadVars
  <2>4. QED
    BY <2>1, <2>3
<1>10. QED
  BY <1>2, <1>3, <1>4, <1>5, <1>6, <1>7, <1>8, <1>9 DEF CloserNext

(* Whoever steps, window, worker, timer or closer, the invariant is kept.     *)
LEMMA StepIInv == IInv /\ [Next]_vars => IInv'
<1> SUFFICES ASSUME IInv, [Next]_vars PROVE IInv'
  OBVIOUS
<1>1. CASE UNCHANGED vars
  <2>1. QueueInv'
    BY <1>1, QueueInvFrame DEF IInv, vars, uiVars
  <2>2. TypeOK' /\ RunnerInv' /\ CloseInv'
    BY <1>1 DEF IInv, TypeOK, RunnerInv, CloseInv, vars, uiVars, queueVars, flagVars,
                threadVars, runVars
  <2>3. QED
    BY <2>1, <2>2 DEF IInv
<1>2. CASE Next
  BY <1>1, <1>2, WindowStep, WorkerStep, CloserStep DEF Next, Terminated
<1>3. QED
  BY <1>1, <1>2

(* In every reachable state of the scheduler the inductive invariant holds. *)
THEOREM Inductive == Spec => []IInv
  BY InitIInv, StepIInv, PTL DEF Spec

(* The variables keep their types. *)
THEOREM TypeCorrect == Spec => []TypeOK
  BY Inductive, PTL DEF IInv

(* queuedAccountIds_ mirrors jobs_, and no account is queued twice             *)
(* (event_upload_scheduler.cpp:98-102, 291-344), for any number of accounts. *)
THEOREM QueueDisciplineHolds == Spec => []QueueDiscipline
  BY Inductive, PTL DEF IInv, QueueInv

(* The worker and the final pass never run jobs side by side                  *)
(* (event_upload_scheduler.cpp:60-79, 122-140).                              *)
THEOREM OneRunnerHolds == Spec => []OneRunner
<1>1. RunnerInv => OneRunner
  BY DEF RunnerInv, OneRunner
<1>2. QED
  BY <1>1, Inductive, PTL DEF IInv

(* The window is not destroyed before everybody signed in at the close has     *)
(* been run once more (local_calendar_app.cpp:3115-3147).                    *)
THEOREM FinalPassCompleteHolds == Spec => []FinalPassComplete
<1>1. CloseInv => FinalPassComplete
  BY DEF CloseInv, FinalPassComplete
<1>2. QED
  BY <1>1, Inductive, PTL DEF IInv

(* Once stopping_ is set the worker takes no further job.                     *)
THEOREM StoppedTakesNoJobHolds == Spec => StoppedTakesNoJob
<1>1. ASSUME TypeOK, [Next]_vars, stopping, phase["worker"] # "lookup"
      PROVE  phase'["worker"] # "lookup"
  <2>1. CASE \E r \in Runners : JobLookup(r) \/ JobSync(r)
    BY <1>1, <2>1 DEF JobLookup, JobSync, TypeOK, Runners
  <2>2. CASE \E a \in Accounts : RunAllTakes(a)
    BY <1>1, <2>2 DEF RunAllTakes, TypeOK, Runners
  <2>3. CASE RunAllKeepsResult \/ WorkerEndsBurst
    BY <1>1, <2>3 DEF RunAllKeepsResult, WorkerEndsBurst, TypeOK, Runners
  <2>4. CASE UNCHANGED vars
    BY <1>1, <2>4 DEF vars, runVars
  <2>5. CASE WindowNext
    BY <1>1, <2>5 DEF WindowNext, Start, InsertAccount, UpsertSession, DeleteAccount,
       RemoveSession, QueueAccount, QueueAllSignedInAccounts, OnCloseWithFinalSync,
       OnCloseAtOnce, runVars
  <2>6. CASE \/ WorkerStarts \/ WorkerSeesStop \/ IntervalElapses \/ StopClears
             \/ StopJoins \/ RunAllCollects \/ RunAllReturns \/ Destroy
    BY <1>1, <2>6 DEF WorkerStarts, WorkerSeesStop, IntervalElapses, StopClears,
       StopJoins, RunAllCollects, RunAllReturns, Destroy, runVars
  <2>7. CASE WorkerWakes \/ WorkerTakesNext
    BY <1>1, <2>7 DEF WorkerWakes, WorkerTakesNext
  <2>8. QED
    BY <1>1, <2>1, <2>2, <2>3, <2>4, <2>5, <2>6, <2>7
       DEF Next, WorkerNext, CloserNext, Terminated, Runners
<1>2. QED
  BY <1>1, TypeCorrect, PTL DEF Spec, StoppedTakesNoJob

-----------------------------------------------------------------------------
(* The scheduler implements SyncRequests. *)

Requested == AccountsIn(jobs)
Active == {current[r] : r \in {q \in Runners : phase[q] \in {"lookup", "syncing"}}}
Closed == closer \in {"collect", "final", "destroy", "gone"}

(* Steps that keep the queue, the runners and the closed flag are stutters.    *)
LEMMA StutterMaps ==
    ASSUME UNCHANGED <<jobs, runVars>>, Closed' = Closed
    PROVE  UNCHANGED Requests!reqVars
  BY DEF Requests!reqVars, Closed, AccountsIn, runVars

(* While the worker is not working and the final pass is between two jobs,     *)
(* nobody is being synchronised.                                             *)
LEMMA NobodyActive ==
    ASSUME phase["worker"] \notin {"lookup", "syncing"},
           phase["closer"] \notin {"lookup", "syncing"}
    PROVE  Active = {}
  BY DEF Active, Runners

(* What the window does is a request for some accounts, or invisible.         *)
LEMMA WindowMaps == IInv /\ WindowNext => [Requests!ReqNext]_(Requests!reqVars)
<1> SUFFICES ASSUME IInv, WindowNext PROVE [Requests!ReqNext]_(Requests!reqVars)
  OBVIOUS
<1>1. ASSUME NEW S \in SUBSET Accounts, Enqueue(S), UNCHANGED <<threadVars, runVars>>
      PROVE  Requests!ReqNext
  <2>1. PICK s \in Orderings((S \cap sessions) \ queuedAccountIds) : jobs' = jobs \o s
    BY <1>1 DEF Enqueue
  <2>2. /\ AccountsIn(jobs') = AccountsIn(jobs) \cup AccountsIn(s)
        /\ AccountsIn(s) \in SUBSET Accounts
    BY <2>1, EnqueueKeepsDiscipline DEF IInv, QueueInv
  <2>3. Requests!Request(AccountsIn(s))
    BY <1>1, <2>2 DEF Requests!Request, threadVars, runVars, AccountsIn
  <2>4. QED
    BY <2>2, <2>3 DEF Requests!ReqNext
<1>2. ASSUME NEW a \in Accounts, QueueAccount(a) PROVE Requests!ReqNext
  BY <1>1, <1>2 DEF QueueAccount
<1>3. CASE QueueAllSignedInAccounts
  BY <1>1, <1>3 DEF QueueAllSignedInAccounts, IInv, TypeOK
<1>4. CASE \/ Start \/ RemoveSession
           \/ \E a \in Accounts : InsertAccount(a) \/ UpsertSession(a) \/ DeleteAccount(a)
  BY <1>4, StutterMaps DEF Start, RemoveSession, InsertAccount, UpsertSession,
     DeleteAccount, queueVars, threadVars, Closed
<1>5. CASE OnCloseWithFinalSync \/ OnCloseAtOnce
  BY <1>5, StutterMaps DEF OnCloseWithFinalSync, OnCloseAtOnce, UserCanAct, queueVars, Closed
<1>6. QED
  BY <1>2, <1>3, <1>4, <1>5 DEF WindowNext

(* Popping a job is taking up a request. *)
LEMMA TakeMaps ==
    ASSUME IInv, NEW s, NEW S \in SUBSET Accounts,
           s \in Orderings((S \cap sessions) \ queuedAccountIds),
           Take(jobs \o s, queuedAccountIds \cup AccountsIn(s)),
           phase["worker"] \notin {"lookup", "syncing"},
           worker # "exited",
           UNCHANGED closer
    PROVE  Requests!ReqNext
<1> DEFINE js == jobs \o s
<1>1. /\ js \in Seq(Accounts)
      /\ \A i, j \in DOMAIN js : js[i] = js[j] => i = j
      /\ AccountsIn(js) = AccountsIn(jobs) \cup AccountsIn(s)
      /\ AccountsIn(s) \in SUBSET Accounts
  BY EnqueueKeepsDiscipline DEF IInv, QueueInv
<1>2. js # <<>> /\ jobs' = Tail(js)
  BY DEF Take
<1>3. /\ AccountsIn(jobs') = AccountsIn(js) \ {Head(js)}
      /\ Head(js) \in AccountsIn(js)
  <2> HIDE DEF js
  <2>1. QED
    BY <1>1, <1>2, PopDistinct
<1>4. phase["closer"] = "idle" /\ ~Closed /\ ~Closed'
  BY DEF IInv, RunnerInv, TypeOK, Closed
<1>5. Active = {}
  BY <1>4, NobodyActive
<1>6. Active' = {Head(js)}
  <2>1. /\ phase' = [phase EXCEPT !["worker"] = "lookup"]
        /\ current' = [current EXCEPT !["worker"] = Head(js)]
        /\ phase \in [Runners -> {"idle", "lookup", "syncing", "done"}]
        /\ current \in [Runners -> Accounts \cup {NoAccount}]
    BY DEF Take, IInv, TypeOK
  <2> HIDE DEF js
  <2>2. /\ phase'["worker"] = "lookup" /\ phase'["closer"] = "idle"
        /\ current'["worker"] = Head(js)
    BY <2>1, <1>4 DEF Runners
  <2>3. {q \in Runners : phase'[q] \in {"lookup", "syncing"}} = {"worker"}
    BY <2>2 DEF Runners
  <2>4. QED
    BY <2>2, <2>3 DEF Active
<1>7. Head(js) \in Accounts
  BY <1>1, <1>3, LenProperties DEF AccountsIn
<1>8. Requests!Begin(Head(js), AccountsIn(s))
  <2> HIDE DEF js
  <2>1. QED
    BY <1>1, <1>3, <1>4, <1>5, <1>6 DEF Requests!Begin, Active, Closed, AccountsIn
<1>9. QED
  BY <1>1, <1>7, <1>8 DEF Requests!ReqNext

(* Inside RunJob the only visible change is the end of a synchronisation.     *)
LEMMA JobMaps ==
    ASSUME IInv, NEW r \in Runners, JobLookup(r) \/ JobSync(r)
    PROVE  [Requests!ReqNext]_(Requests!reqVars)
<1>1. /\ phase \in [Runners -> {"idle", "lookup", "syncing", "done"}]
      /\ current' = current
      /\ UNCHANGED <<jobs, closer>>
      /\ Closed' = Closed
  BY DEF IInv, TypeOK, JobLookup, JobSync, queueVars, threadVars, Closed
<1>2. \A q \in Runners \ {r} : phase[q] = "idle"
  BY DEF IInv, RunnerInv, TypeOK, JobLookup, JobSync, Runners
<1>3. {q \in Runners : phase[q] \in {"lookup", "syncing"}} = {r}
  BY <1>2 DEF JobLookup, JobSync
<1>4. Active = {current[r]}
  BY <1>3 DEF Active
<1>5. CASE phase' = [phase EXCEPT ![r] = "syncing"]
  <2>1. {q \in Runners : phase'[q] \in {"lookup", "syncing"}} = {r}
    BY <1>1, <1>2, <1>5
  <2>2. Active' = Active
    BY <1>1, <1>4, <2>1 DEF Active
  <2>3. QED
    BY <1>1, <2>2 DEF Requests!reqVars, Active, Closed, AccountsIn
<1>6. CASE phase' = [phase EXCEPT ![r] = "done"]
  <2>1. {q \in Runners : phase'[q] \in {"lookup", "syncing"}} = {}
    BY <1>1, <1>2, <1>6
  <2>2. Active' = {}
    BY <2>1 DEF Active
  <2>3. Requests!Finish
    BY <1>1, <1>4, <2>2 DEF Requests!Finish, Active, Closed, AccountsIn
  <2>4. QED
    BY <2>3 DEF Requests!ReqNext
<1>7. QED
  BY <1>5, <1>6 DEF JobLookup, JobSync

(* What the worker does is taking up a request, finishing it, or invisible.   *)
LEMMA WorkerMaps ==
    IInv /\ (WorkerNext \/ IntervalElapses) => [Requests!ReqNext]_(Requests!reqVars)
<1> SUFFICES ASSUME IInv, WorkerNext \/ IntervalElapses
             PROVE  [Requests!ReqNext]_(Requests!reqVars)
  OBVIOUS
<1>1. CASE WorkerStarts \/ WorkerSeesStop \/ IntervalElapses
  BY <1>1, StutterMaps DEF WorkerStarts, WorkerSeesStop, IntervalElapses, queueVars,
     threadVars, Closed
<1>2. CASE WorkerWakes
  <2>1. PICK s \in Orderings(IF periodicDue THEN sessions \ queuedAccountIds ELSE {}) :
            Take(jobs \o s, queuedAccountIds \cup AccountsIn(s))
    BY <1>2 DEF WorkerWakes
  <2>2. PICK S \in SUBSET Accounts : s \in Orderings((S \cap sessions) \ queuedAccountIds)
    <3>1. CASE periodicDue
      <4>1. sessions \in SUBSET Accounts /\ sessions \cap sessions = sessions
        BY DEF IInv, TypeOK
      <4>2. QED
        BY <2>1, <3>1, <4>1
    <3>2. CASE ~periodicDue
      <4>1. {} \in SUBSET Accounts /\ ({} \cap sessions) \ queuedAccountIds = {}
        OBVIOUS
      <4>2. QED
        BY <2>1, <3>2, <4>1
    <3>3. QED
      BY <3>1, <3>2
  <2>3. phase["worker"] = "idle" /\ worker # "exited" /\ UNCHANGED closer
    BY <1>2 DEF IInv, RunnerInv, WorkerWakes
  <2>4. QED
    BY <2>1, <2>2, <2>3, TakeMaps
<1>3. CASE WorkerTakesNext
  <2>1. <<>> \in Orderings(({} \cap sessions) \ queuedAccountIds)
    <3>1. ({} \cap sessions) \ queuedAccountIds = {} /\ Cardinality({}) = 0
      BY FS_EmptySet
    <3>2. <<>> \in [1..0 -> {}]
      OBVIOUS
    <3>3. QED
      BY <3>1, <3>2 DEF Orderings
  <2>2. jobs \o <<>> = jobs /\ AccountsIn(<<>>) = {}
    BY ConcatEmptySeq DEF IInv, TypeOK, AccountsIn
  <2>3. Take(jobs \o <<>>, queuedAccountIds \cup AccountsIn(<<>>))
    <3>1. queuedAccountIds \cup {} = queuedAccountIds
      OBVIOUS
    <3>2. QED
      BY <1>3, <2>2, <3>1 DEF WorkerTakesNext
  <2>4. phase["worker"] = "done" /\ worker # "exited" /\ UNCHANGED closer
    BY <1>3 DEF WorkerTakesNext, threadVars
  <2>5. QED
    BY <2>1, <2>3, <2>4, TakeMaps
<1>4. CASE WorkerEndsBurst
  <2>1. phase["closer"] = "idle"
    BY <1>4 DEF WorkerEndsBurst, IInv, RunnerInv, TypeOK
  <2>2. phase'["worker"] = "idle" /\ phase'["closer"] = "idle"
    BY <1>4, <2>1 DEF WorkerEndsBurst, IInv, TypeOK, Runners
  <2>3. Active = {} /\ Active' = {}
    BY <1>4, <2>1, <2>2, NobodyActive DEF WorkerEndsBurst, Active, Runners
  <2>4. QED
    BY <1>4, <2>3 DEF WorkerEndsBurst, Requests!reqVars, Active, AccountsIn, queueVars
<1>5. QED
  BY <1>1, <1>2, <1>3, <1>4, JobMaps DEF WorkerNext, Runners

(* Stop drops the requests and closes the service, the final pass serves       *)
(* accounts one at a time, and the rest of closing is invisible.             *)
LEMMA CloserMaps == IInv /\ CloserNext => [Requests!ReqNext]_(Requests!reqVars)
<1> SUFFICES ASSUME IInv, CloserNext PROVE [Requests!ReqNext]_(Requests!reqVars)
  OBVIOUS
<1>1. ASSUME jobs' = <<>>, UNCHANGED runVars, Closed' = Closed
      PROVE  Requests!ReqNext
  <2>1. AccountsIn(jobs') = {}
    BY <1>1, EmptySeq DEF AccountsIn
  <2>2. Requests!DropAll
    BY <1>1, <2>1 DEF Requests!DropAll, Closed, runVars, AccountsIn
  <2>3. QED
    BY <2>2 DEF Requests!ReqNext
<1>2. CASE StopClears
  BY <1>1, <1>2 DEF StopClears, Closed
<1>3. CASE RunAllCollects
  BY <1>1, <1>3 DEF RunAllCollects, Closed
<1>4. CASE StopJoins
  <2>1. phase["worker"] = "idle" /\ phase["closer"] = "idle"
    BY <1>4 DEF StopJoins, IInv, RunnerInv
  <2>2. Active = {}
    BY <2>1, NobodyActive
  <2>3. Closed'
    BY <1>4 DEF StopJoins, Closed
  <2>4. Requests!Close
    BY <1>4, <2>2, <2>3 DEF StopJoins, Requests!Close, Active, Closed, AccountsIn,
                            queueVars, runVars
  <2>5. QED
    BY <2>4 DEF Requests!ReqNext
<1>5. ASSUME NEW a \in Accounts, RunAllTakes(a) PROVE Requests!ReqNext
  <2>1. /\ phase["worker"] = "idle" /\ phase["closer"] = "idle" /\ Closed
        /\ Closed' = Closed /\ jobs' = jobs
    BY <1>5 DEF RunAllTakes, IInv, RunnerInv, Closed, queueVars
  <2>2. Active = {}
    BY <2>1, NobodyActive
  <2>3. /\ phase'["worker"] = "idle" /\ phase'["closer"] = "lookup"
        /\ current'["closer"] = a
    BY <1>5, <2>1 DEF RunAllTakes, IInv, TypeOK, Runners
  <2>4. {q \in Runners : phase'[q] \in {"lookup", "syncing"}} = {"closer"}
    BY <2>3 DEF Runners
  <2>5. Active' = {a}
    BY <2>3, <2>4 DEF Active
  <2>6. Requests!BeginFinal(a)
    BY <2>1, <2>2, <2>5 DEF Requests!BeginFinal, Active, Closed, AccountsIn
  <2>7. QED
    BY <2>6 DEF Requests!ReqNext
<1>6. CASE RunAllKeepsResult
  <2>1. phase["worker"] = "idle" /\ phase["closer"] = "done"
    BY <1>6 DEF RunAllKeepsResult, IInv, RunnerInv
  <2>2. phase'["worker"] = "idle" /\ phase'["closer"] = "idle"
    BY <1>6, <2>1 DEF RunAllKeepsResult, IInv, TypeOK, Runners
  <2>3. Active = {} /\ Active' = {}
    BY <2>1, <2>2, NobodyActive DEF Active, Runners
  <2>4. QED
    BY <1>6, <2>3 DEF RunAllKeepsResult, Requests!reqVars, Active, AccountsIn,
                      queueVars, threadVars
<1>7. CASE RunAllReturns \/ Destroy
  BY <1>7, StutterMaps DEF RunAllReturns, Destroy, queueVars, Closed
<1>8. QED
  BY <1>2, <1>3, <1>4, <1>5, <1>6, <1>7, JobMaps DEF CloserNext, Runners

(* The scheduler implements the abstract request service: requests are taken   *)
(* up one at a time, kept until then, and dropped only by a stop.            *)
THEOREM Refinement == Spec => ImplementsRequests
<1>1. Init => Requests!ReqInit
  <2>1. Init => AccountsIn(jobs) = {}
    BY DEF Init, AccountsIn
  <2>2. Init => Active = {}
    BY NobodyActive DEF Init, Runners
  <2>3. Init => ~Closed
    BY DEF Init, Closed
  <2>4. QED
    BY <2>1, <2>2, <2>3 DEF Requests!ReqInit, Active, Closed
<1>2. IInv /\ [Next]_vars => [Requests!ReqNext]_(Requests!reqVars)
  <2>1. UNCHANGED vars => UNCHANGED Requests!reqVars
    BY StutterMaps DEF vars, queueVars, threadVars, Closed
  <2>2. QED
    BY <2>1, WindowMaps, WorkerMaps, CloserMaps DEF Next, Terminated
<1>3. QED
  BY <1>1, <1>2, Inductive, PTL DEF Spec, Requests!ReqSpec, ImplementsRequests
=============================================================================
