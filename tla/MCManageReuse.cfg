\* The id in a stale pid file belongs to some other process by now.
CONSTANTS
    MaxPid = 2
    PidReuse = TRUE
    StalePid = {1}
    NoPid = NoPid
SPECIFICATION Spec
INVARIANTS
    KillsOnlyItsService
