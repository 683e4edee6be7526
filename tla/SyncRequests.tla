---------------------------- MODULE SyncRequests ----------------------------
(***************************************************************************)
(* What the upload scheduler promises the rest of the program: a set of    *)
(* accounts asked to be synchronised, at most one account being            *)
(* synchronised at any moment, and a final pass that runs only when the    *)
(* worker is gone.  How the requests are kept (a deque, a set that          *)
(* suppresses duplicates, a timer, a thread) is not visible here.           *)
(***************************************************************************)
EXTENDS FiniteSets

CONSTANT Accounts

VARIABLES
    requested,   \* accounts whose synchronisation has been asked for
    active,      \* the account being synchronised: a set of at most one
    closed       \* TRUE when the worker has been stopped for good

reqVars == <<requested, active, closed>>

ReqInit ==
    /\ requested = {}
    /\ active = {}
    /\ closed = FALSE

(* Somebody asks for some accounts; asking twice is asking once. *)
Request(S) ==
    /\ requested' = requested \cup S
    /\ UNCHANGED <<active, closed>>

(* A request is taken up, possibly together with new ones. *)
Begin(a, S) ==
    /\ active = {}
    /\ ~closed
    /\ a \in requested \cup S
    /\ active' = {a}
    /\ requested' = (requested \cup S) \ {a}
    /\ UNCHANGED closed

Finish ==
    /\ active # {}
    /\ active' = {}
    /\ UNCHANGED <<requested, closed>>

(* Stopping forgets every request that has not been taken up. *)
DropAll ==
    /\ requested' = {}
    /\ UNCHANGED <<active, closed>>

Close ==
    /\ active = {}
    /\ closed' = TRUE
    /\ UNCHANGED <<requested, active>>

(* The final pass serves accounts without a request. *)
BeginFinal(a) ==
    /\ closed
    /\ active = {}
    /\ active' = {a}
    /\ UNCHANGED <<requested, closed>>

ReqNext ==
    \/ \E S \in SUBSET Accounts : Request(S)
    \/ \E a \in Accounts, S \in SUBSET Accounts : Begin(a, S)
    \/ Finish
    \/ DropAll
    \/ Close
    \/ \E a \in Accounts : BeginFinal(a)

ReqSpec == ReqInit /\ [][ReqNext]_reqVars
=============================================================================
