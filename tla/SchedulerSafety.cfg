\* Three accounts that may be removed at any time, QueueAccount called for each.
SPECIFICATION Spec
CONSTANTS
    a1 = a1
    a2 = a2
    a3 = a3
    NoAccount = NoAccount
    Accounts <- ThreeAccounts
    QueueCallers <- ThreeAccounts
SYMMETRY Symmetry
INVARIANTS
    IInv
    QueueDiscipline
    OneRunner
    FinalPassComplete
PROPERTIES
    StoppedTakesNoJob
