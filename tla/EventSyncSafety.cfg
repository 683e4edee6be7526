\* Three writes, one fetch at a time, one fault.
SPECIFICATION Spec
CONSTANTS
    f1 = f1
    f2 = f2
    NoPid = NoPid
    NoRow = NoRow
    Rows = {1, 2}
    Pids = {1, 2}
    Fetchers = {f1}
    ForeignRows = {1}
    MaxStamp = 3
    MaxFaults = 1
INVARIANTS
    IInv
    SyncedWasServed
    EditKept
    KeptInv
    WritesNeverConflict
CHECK_DEADLOCK FALSE
