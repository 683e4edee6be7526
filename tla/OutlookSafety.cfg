\* A coverage thread fetches one quarter while the worker fetches it or uploads; events leave it.
SPECIFICATION Spec
CONSTANTS
    w = w
    c = c
    NoPid = NoPid
    NoRow = NoRow
    NoBucket = NoBucket
    Rows = {1, 2}
    Pids = {1}
    Fetchers = {w,c}
    Worker = w
    Buckets = {1}
    BucketOf <- Alternating
    ForeignRows = {2}
    UsersHere = TRUE
    MaxStamp = 2
    MaxFaults = 1
INVARIANTS
    Mirrored
    EditKept
    UniqueProviderIds
CHECK_DEADLOCK FALSE
