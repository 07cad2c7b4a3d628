\* Ids are not given out twice; one stale id in the pid files.
CONSTANTS
    MaxPid = 6
    PidReuse = FALSE
    StalePid = {1}
    NoPid = NoPid
SPECIFICATION Spec
INVARIANTS
    NoOrphans
    StoppedIsTrue
    KillsOnlyItsService
