SPECIFICATION Spec
CONSTANTS
    Capacity = 1
    Sessions = {s1, s2}
    Names = {}
    Unnamed = Unnamed
    NoSession = NoSession
    MaxEventsPerTick = 1
    MaxChats = 1
    MayStop = FALSE
    BarrierMayTimeOut = FALSE
INVARIANT GameplayOnlyWhilePresent
PROPERTIES
    ClosedPlayersLeave
    EntryResolves
