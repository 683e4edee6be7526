\* Three edits; at time 0 events start on the day before in UTC.
SPECIFICATION Spec
CONSTANTS
    Days = {4, 5, 6, 7, 8}
    FirstDays = {4}
    DayTicks = 3
    Zone = 1
    Times = {0, 1}
    Rules <- SomeRules
    Choices <- SomeChoices
    Shifts <- SomeShifts
    Ids = {1, 2, 3}
    MaxEdits = 3
INVARIANTS
    OncePerDay
    CancelledStaysHidden
    ShownAsRuled
PROPERTIES
    ScopeRespected
CHECK_DEADLOCK FALSE
