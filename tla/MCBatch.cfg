\* Three items or goroutines on two workers or resources; a wheel with fewer
\* slots than steps, so that timers go round.
SPECIFICATION Spec
CONSTANTS
  MrPrograms <- MCPrograms
  MrWorkers = 2
  Every = 2
  Dictionaries <- MCDictionaries
  Splits <- MCSplits
  Numbers = {0, 1, 2, 3, 4}
  Pipe = 1
  Routines = {r1, r2, r3}
  Limit = 2
  Uses = 2
  Tasks = 5
  Bulk = 2
  Slots = 2
  Steps = 3
  MaxClock = 5
  MaxSignals = 4
INVARIANTS
    CompleteResult
    LoadsEveryLineOnce
PROPERTIES
    CallReturns
    PoolDrains
    TasksRun
    TermEndsProcess
\* The programs end.
CHECK_DEADLOCK FALSE
