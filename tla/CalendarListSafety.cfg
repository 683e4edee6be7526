\* The scheduler's thread and a sign-in at the same time.
SPECIFICATION Spec
CONSTANTS
    worker = worker
    signin = signin
    Worker = worker
    NoPid = NoPid
    NoRow = NoRow
    Rows = {1, 2, 3}
    Pids = {1, 2}
    Threads = {worker, signin}
    MaxStamp = 2
    MaxFaults = 0
INVARIANTS
    TypeOK
    DeletionKept
PROPERTIES
    CalendarsKept
CHECK_DEADLOCK FALSE
