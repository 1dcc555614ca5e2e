SPECIFICATION Spec
CONSTANTS
    Capacity = 1
    Sessions = {s1, s2}
    Names = {alex}
    Unnamed = Unnamed
    NoSession = NoSession
    MaxEventsPerTick = 2
    MaxChats = 0
    MayStop = TRUE
    BarrierMayTimeOut = TRUE
INVARIANTS
    TypeOK
    NoLostCleanup
    RegisteredIsPublished
    OnlineCountMatches
    HandlersOnTickWhileRunning
    StopDrainsWhatItClosed
PROPERTIES
    ClosedIsFinal
    ImplementsRoster
SYMMETRY Symmetry
