\* What users save is delivered in the end.
SPECIFICATION FairSpec
CONSTANTS
    f1 = f1
    f2 = f2
    NoPid = NoPid
    NoRow = NoRow
    Rows = {1, 2, 3}
    Pids = {1, 2}
    Fetchers = {f1}
    ForeignRows = {}
    MaxStamp = 2
    MaxFaults = 0
PROPERTIES
    EditDelivered
CHECK_DEADLOCK FALSE
