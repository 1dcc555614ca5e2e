SPECIFICATION Spec
CONSTANTS
    Owners = {p1}
    MaxTasks = 3
    Periods = {1, 2}
    Limit = 1
    MaxUint = 4
INVARIANTS
    TypeOK
    RegistrationsAgree
    ClosedOwnersHaveNoTask
    BoundedLateness
PROPERTY FixedDelay
