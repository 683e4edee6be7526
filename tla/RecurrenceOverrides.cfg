\* Two instances, two rows, two writes and two failing requests.
SPECIFICATION FairSpec
CONSTANTS
    Instances = {1, 2}
    Shared = {1, 2}
    Rows = {1, 2}
    NoRow = 0
    MaxStamp = 2
    MaxFaults = 2
INVARIANTS
    TypeOK
    InstanceChangeKept
    ShownOnce
PROPERTIES
    OverridesUploaded
CHECK_DEADLOCK FALSE
