\* Two connections, three ticks, fair scheduling.
CONSTANTS
    Client = {c1, c2}
    NoClient = NoClient
    MaxTick = 3
SPECIFICATION FairSpec
INVARIANTS
    EventsInOrder
PROPERTIES
    DisconnectIsCleanedUp
    RoundsEnd
\* After MaxTick ticks, or a crash, nothing more happens.
CHECK_DEADLOCK FALSE
