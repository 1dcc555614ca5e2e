SPECIFICATION Spec
CONSTANTS
    Owners = {p1}
    MaxTasks = 1
    Periods = {1}
    Limit = 1
    MaxUint = 3
INVARIANT CancelPreventsInvocation
