\* Two connections, one-slot send buffers, one message each, fair scheduling;
\* the abstract conversation.
CONSTANTS
    Client = {c1, c2}
    BufSize = 1
    MaxSent = 1
SPECIFICATION FairSpec
PROPERTIES
    ImplementsRoom
    ConnectionIsCleanedUp
    HubServesEveryone
    QueuedIsDelivered
CHECK_DEADLOCK FALSE
