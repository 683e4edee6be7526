\* A saved change is overwritten before the server has it.
SPECIFICATION Spec
CONSTANTS
    f1 = f1
    f2 = f2
    NoPid = NoPid
    NoRow = NoRow
    Rows = {1, 2}
    Pids = {1, 2}
    Fetchers = {f1}
    ForeignRows = {}
    MaxStamp = 2
    MaxFaults = 0
INVARIANTS
    NoEditLost
CHECK_DEADLOCK FALSE
