\* Two requests or threads, which race for one slot or token.
SPECIFICATION Spec
CONSTANTS
  MaxRequests = 3
  Requests = {q1, q2}
  Spinners = 1
  MaxRows = 2
  Threads = {t1, t2}
  Quota = 2
  Burst = 1
  Rate = 1
  LatchSize = 1
  MaxTakes = 4
  MaxTicks = 2
INVARIANTS
    CountedOnce
    CountsAddUp
    LimiterBounds
    LatchHolds
\* The programs end.
CHECK_DEADLOCK FALSE
