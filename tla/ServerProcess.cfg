SPECIFICATION ProcessSpec
CONSTANTS
    Capacity = 1
    Sessions = {s1}
    Names = {alex}
    Unnamed = Unnamed
    NoSession = NoSession
    MaxEventsPerTick = 2
    MaxChats = 0
    MayStop = TRUE
    BarrierMayTimeOut = FALSE
INVARIANT ExitAfterShutdown
PROPERTY ProcessEnds
