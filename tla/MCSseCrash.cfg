\* A connection that ends while the broadcast has its channel in hand.
CONSTANTS
    Client = {c1, c2}
    NoClient = NoClient
    MaxTick = 1
SPECIFICATION Spec
INVARIANTS
    DisconnectIsHarmless
CHECK_DEADLOCK FALSE
