SPECIFICATION Spec
CONSTANTS
    Capacity = 2
    Producers = {p1, p2}
    MaxPosts = 3
INVARIANTS
    LanesFIFO
    OvertakenOnce
PROPERTY EverythingDelivered
