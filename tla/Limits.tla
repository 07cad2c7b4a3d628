------------------------------- MODULE Limits -------------------------------
(***************************************************************************)
(* limit/period and limit/token: threads ask a go-zero limiter as fast as  *)
(* they can until a timer closes quit, and count the answers.              *)
(* http/breaker/server.go: the handler of /heavy runs only while fewer     *)
(* than ten do (a latch), under the server's timeout.                      *)
(* The limiters' Redis scripts and the latch are go-zero's (external).     *)
(***************************************************************************)
EXTENDS Integers, FiniteSets

CONSTANTS
  Threads,    \* the goroutines, or the requests to /heavy
  Quota,      \* NewPeriodLimit(5 s, 5)
  Burst,      \* capacity of the token bucket, 100 in the code
  Rate,       \* tokens per tick, 100 per second in the code
  LatchSize,  \* syncx.NewLimit(10)
  MaxTakes,   \* bound: no thread begins a call when there were so many
  MaxTicks    \* bound: expirations of a window, refills of the bucket

ASSUME LimitsAssumption ==
  /\ IsFiniteSet(Threads)
  /\ Quota \in Nat \ {0} /\ Burst \in Nat \ {0} /\ Rate \in Nat
  /\ LatchSize \in Nat \ {0} /\ MaxTakes \in Nat /\ MaxTicks \in Nat

VARIABLES
  which,     \* the limiter: "none", "period" or "token"
  thread,    \* per thread: "loop", "take" (past the select), "done"
  takes,     \* calls so far
  allowed,   \* the counters of main
  denied,
  passed,    \* history, per thread: calls that were allowed
  quitting,  \* quit is closed
  ending,    \* main: "no", "printed" or "fatal"
  window,    \* period: per key, the counter in Redis (0: no such key)
  windows,   \* period: history, per key, windows begun
  tokens,    \* token: tokens in Redis and in the rescue limiter
  granted,   \* token: history, tokens granted by each
  redisUp,   \* token: the limiter believes Redis to be alive
  ticks,     \* token: history, refills so far
  heavy,     \* per request to /heavy: "new", "busy", "over"
  latch,     \* slots of the latch in use
  answer     \* per request: "none", "ok", "full" (500) or "timeout" (503)

loopVars == <<which, thread, takes, allowed, denied, passed, quitting, ending>>
storeVars == <<window, windows, tokens, granted, redisUp, ticks>>
heavyVars == <<heavy, latch, answer>>
limitVars == <<loopVars, storeVars, heavyVars>>
Stores == {"redis", "rescue"}

LimitsInit ==
  /\ which = "none" /\ thread = [t \in Threads |-> "loop"]
  /\ takes = 0 /\ allowed = 0 /\ denied = 0 /\ passed = [t \in Threads |-> 0]
  /\ quitting = FALSE /\ ending = "no"
  /\ window = [t \in Threads |-> 0] /\ windows = [t \in Threads |-> 0]
  /\ tokens = [s \in Stores |-> Burst] /\ granted = [s \in Stores |-> 0]
  /\ redisUp = TRUE /\ ticks = 0
  /\ heavy = [t \in Threads |-> "new"] /\ latch = 0
  /\ answer = [t \in Threads |-> "none"]

StartLimiter ==
  /\ which = "none" /\ which' \in {"period", "token"}
  /\ UNCHANGED <<thread, takes, allowed, denied, passed, quitting, ending, storeVars, heavyVars>>

\* The goroutine that waits for the timer.
CloseTheQuit ==
  /\ which # "none" /\ ~quitting /\ quitting' = TRUE
  /\ UNCHANGED <<which, thread, takes, allowed, denied, passed, ending, storeVars, heavyVars>>

\* The select of the loop: quit, or another call.
ThreadSelect(t) ==
  /\ which # "none" /\ ending = "no" /\ thread[t] = "loop"
  /\ \/ quitting /\ thread' = [thread EXCEPT ![t] = "done"]
     \/ ~quitting /\ takes < MaxTakes /\ thread' = [thread EXCEPT ![t] = "take"]
  /\ UNCHANGED <<which, takes, allowed, denied, passed, quitting, ending, storeVars, heavyVars>>

Counted(t, ok) ==
  /\ allowed' = IF ok THEN allowed + 1 ELSE allowed
  /\ denied' = IF ok THEN denied ELSE denied + 1
  /\ passed' = [passed EXCEPT ![t] = IF ok THEN @ + 1 ELSE @]
  /\ takes' = takes + 1
  /\ thread' = [thread EXCEPT ![t] = "loop"]

\* PeriodLimit.Take on the thread's own key: below the quota Allowed, at the
\* quota HitQuota, above OverQuota; main counts only Allowed.
PeriodTake(t) ==
  /\ which = "period" /\ ending = "no" /\ thread[t] = "take"
  /\ window' = [window EXCEPT ![t] = @ + 1]
  /\ windows' = [windows EXCEPT ![t] = IF window[t] = 0 THEN @ + 1 ELSE @]
  /\ Counted(t, window[t] + 1 < Quota)
  /\ UNCHANGED <<which, quitting, ending, tokens, granted, redisUp, ticks, heavyVars>>

\* Redis fails: log.Fatal.
PeriodFatal(t) ==
  /\ which = "period" /\ ending = "no" /\ thread[t] = "take" /\ ending' = "fatal"
  /\ UNCHANGED <<which, thread, takes, allowed, denied, passed, quitting, storeVars, heavyVars>>

\* Redis drops a key when its period is over.
WindowExpires(t) ==
  /\ which = "period" /\ window[t] > 0 /\ windows[t] < MaxTicks
  /\ window' = [window EXCEPT ![t] = 0]
  /\ UNCHANGED <<loopVars, windows, tokens, granted, redisUp, ticks, heavyVars>>

\* TokenLimiter.Allow: the bucket in Redis, or while Redis is thought dead
\* the limiter in this process.
TokenTake(t) ==
  LET s == IF redisUp THEN "redis" ELSE "rescue" IN
  /\ which = "token" /\ ending = "no" /\ thread[t] = "take"
  /\ Counted(t, tokens[s] > 0)
  /\ tokens' = [tokens EXCEPT ![s] = IF @ > 0 THEN @ - 1 ELSE @]
  /\ granted' = [granted EXCEPT ![s] = IF tokens[s] > 0 THEN @ + 1 ELSE @]
  /\ UNCHANGED <<which, quitting, ending, window, windows, redisUp, ticks, heavyVars>>

\* Defect: a refill may exceed the burst.
RefillOver ==
  /\ which = "token" /\ ticks < MaxTicks /\ ticks' = ticks + 1
  /\ tokens' = [s \in Stores |-> tokens[s] + Burst + Rate]
  /\ UNCHANGED <<loopVars, window, windows, granted, redisUp, heavyVars>>

Refill ==
  /\ which = "token" /\ ticks < MaxTicks /\ ticks' = ticks + 1
  /\ tokens' = [s \in Stores |-> IF tokens[s] + Rate > Burst THEN Burst ELSE tokens[s] + Rate]
  /\ UNCHANGED <<loopVars, window, windows, granted, redisUp, heavyVars>>

RedisFlips ==
  /\ which = "token" /\ redisUp' = ~redisUp
  /\ UNCHANGED <<loopVars, window, windows, tokens, granted, ticks, heavyVars>>

\* wait.Wait returns and main prints.
LimiterEnd ==
  /\ which # "none" /\ ending = "no" /\ \A t \in Threads : thread[t] = "done"
  /\ ending' = "printed"
  /\ UNCHANGED <<which, thread, takes, allowed, denied, passed, quitting, storeVars, heavyVars>>

ThreadNext(t) == ThreadSelect(t) \/ PeriodTake(t) \/ PeriodFatal(t) \/ TokenTake(t)
LimiterNext ==
  \/ StartLimiter \/ CloseTheQuit \/ Refill \/ RedisFlips \/ LimiterEnd
  \/ \E t \in Threads : ThreadNext(t) \/ WindowExpires(t)

-----------------------------------------------------------------------------
(* http/breaker/server.go *)
\* TryBorrow: a slot, or status 500 at once.
Heavy(t) ==
  /\ heavy[t] = "new"
  /\ IF latch < LatchSize
     THEN heavy' = [heavy EXCEPT ![t] = "busy"] /\ latch' = latch + 1 /\ UNCHANGED answer
     ELSE /\ heavy' = [heavy EXCEPT ![t] = "over"] /\ UNCHANGED latch
          /\ answer' = [answer EXCEPT ![t] = "full"]
  /\ UNCHANGED <<loopVars, storeVars>>

\* Defect: the slot is given back when the server answers 503.
HeavyTimeoutReturns(t) ==
  /\ heavy[t] = "busy" /\ answer[t] = "none"
  /\ answer' = [answer EXCEPT ![t] = "timeout"] /\ latch' = latch - 1
  /\ UNCHANGED <<heavy, loopVars, storeVars>>

\* The server answers 503 after its timeout; the handler goes on.
HeavyTimeout(t) ==
  /\ heavy[t] = "busy" /\ answer[t] = "none"
  /\ answer' = [answer EXCEPT ![t] = "timeout"]
  /\ UNCHANGED <<heavy, latch, loopVars, storeVars>>

\* The 50 ms are over: the deferred Return frees the slot, and the answer is
\* 200 unless one was given.
HeavyEnd(t) ==
  /\ heavy[t] = "busy" /\ heavy' = [heavy EXCEPT ![t] = "over"]
  /\ latch' = latch - 1
  /\ answer' = [answer EXCEPT ![t] = IF @ = "none" THEN "ok" ELSE @]
  /\ UNCHANGED <<loopVars, storeVars>>

\* /good answers 200; it and the latch do not touch each other.
HeavyNext == \E t \in Threads : Heavy(t) \/ HeavyTimeout(t) \/ HeavyEnd(t)

-----------------------------------------------------------------------------
\* Each call is counted once, as allowed or denied.  The period limiter allows
\* a key fewer than Quota calls in a window (the one that hits the quota counts
\* as denied); the token limiter allows the threads together at most the burst
\* and what has been refilled, once for Redis and once more for the rescue
\* limiter that stands in while Redis is away.
LimiterBounds ==
  /\ allowed + denied = takes
  /\ which = "period" => \A t \in Threads : passed[t] <= windows[t] * (Quota - 1)
  /\ which = "token" =>
       /\ allowed = granted["redis"] + granted["rescue"]
       /\ \A s \in Stores : granted[s] <= Burst + Rate * ticks

\* As many handlers of /heavy are busy as slots are in use and no more than
\* the latch has, also when the server has already answered for them.
LatchHolds ==
  /\ latch = Cardinality({t \in Threads : heavy[t] = "busy"})
  /\ latch <= LatchSize
=============================================================================
