SPECIFICATION Spec
CONSTANTS
    CoordinateLimit = 1
    TickLimit = 4
    DayLength = 3
    Platform = {0}
    Air = Air
    Bricks = Bricks
    PlatformBlock = PlatformBlock
    Sessions = {s1, s2}
    NoSession = NoSession
    Places = {spawn, far, void}
    Spawn = spawn
    Void = void
    Modes = {survival, creative}
    DefaultMode = creative
    OutboundCapacity = 3
    JoinPackets = 0
    HelpLines = 1
    Rate = 3
    Times = {2}
    MaxEvents = 2
INVARIANTS
    TypeOK
    BlocksAgree
    EntitiesAgree
    ClockIsFresh
    SnapshotIsCurrent
SYMMETRY Symmetry
