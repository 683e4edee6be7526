\* Users stop in the end; one fault.
SPECIFICATION FairSpec
CONSTANTS
    worker = worker
    signin = signin
    Worker = worker
    NoPid = NoPid
    NoRow = NoRow
    Rows = {1, 2, 3, 4, 5}
    Pids = {1, 2}
    Threads = {worker}
    MaxStamp = 3
    MaxFaults = 1
PROPERTIES
    Converges
CHECK_DEADLOCK FALSE
