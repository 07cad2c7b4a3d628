\* Two connections, two-slot send buffers, two messages each: evictions, late
\* joins, frames of one and of several messages.
CONSTANTS
    Client = {c1, c2}
    BufSize = 2
    MaxSent = 2
SPECIFICATION Spec
SYMMETRY ClientSymmetry
INVARIANTS
    TypeOK
    NoPanic
    ClosedIffRemoved
    DrainTakesQueued
    NoGapNoReorder
\* Connections end one by one; once all are gone nothing is left to do.
CHECK_DEADLOCK FALSE
