\* Two users, one coverage thread; access is revoked once and the program restarted once.
SPECIFICATION FairSpec
CONSTANTS
    u1 = u1
    u2 = u2
    c = c
    None = None
    Users = {u1, u2}
    Ids = {1, 2, 3}
    Coverers = {c}
    MaxTokens = 3
    MaxObjects = 3
    MaxRevocations = 1
    MaxRestarts = 1
INVARIANTS
    TypeOK
    SessionsAreAccounts
    RemovedStaysRemoved
    StoredTokenWorks
PROPERTIES
    SignInEnds
CHECK_DEADLOCK FALSE
