\* The calls the window makes, under the scheduling the threads and the clock get.
SPECIFICATION FairSpec
CONSTANTS
    a1 = a1
    a2 = a2
    a3 = a3
    NoAccount = NoAccount
    Accounts <- TwoAccounts
    QueueCallers <- NoCallers
PROPERTIES
    ImplementsRequests
    CloseCompletes
    QueuedIsServed
    SignedInIsServed
