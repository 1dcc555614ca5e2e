SPECIFICATION Spec
CONSTANTS
    CoordinateLimit = 512
    TickLimit = 524288
    DayLength = 24000
    Platform <- SpawnPlatform
    Air = Air
    Bricks = Bricks
    PlatformBlock = PlatformBlock
    Sessions = {s1}
    NoSession = NoSession
    Places = {spawn, void}
    Spawn = spawn
    Void = void
    Modes = {creative}
    DefaultMode = creative
    OutboundCapacity = 128
    JoinPackets = 14
    HelpLines = 10
    Rate = 20
    Times = {1000}
    MaxEvents = 1
INVARIANT EventFitsQueue
