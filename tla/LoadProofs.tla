----------------------------- MODULE LoadProofs -----------------------------
(***************************************************************************)
(* Proofs about the load generators, simulators and limiters, for any      *)
(* number of requests, threads, rows, slots and tokens.  Each program has  *)
(* an invariant of its own; MCLoad's Spec keeps them all.                  *)
(***************************************************************************)
EXTENDS MCLoad, FiniteSetTheorems, TLAPS

-----------------------------------------------------------------------------
(* Counting the members of a finite set that are in some state *)

\* One more.
LEMMA CountUp ==
    ASSUME NEW S, IsFiniteSet(S), NEW T \in SUBSET S, NEW x \in S, x \notin T
    PROVE  Cardinality(T \cup {x}) = Cardinality(T) + 1
BY FS_Subset, FS_AddElement

\* One less.
LEMMA CountDown ==
    ASSUME NEW S, IsFiniteSet(S), NEW T \in SUBSET S, NEW x \in T
    PROVE  Cardinality(T \ {x}) = Cardinality(T) - 1
BY FS_Subset, FS_RemoveElement

\* A count is a natural number, and 0 for none.
LEMMA CountType ==
    ASSUME NEW S, IsFiniteSet(S), NEW T \in SUBSET S
    PROVE  Cardinality(T) \in Nat /\ (Cardinality(T) = 0 <=> T = {})
BY FS_Subset, FS_CardinalityType, FS_EmptySet

-----------------------------------------------------------------------------
(* http/breaker/client *)

\* The reporter holds nothing when it is not writing a row.
ClientInv ==
    /\ metric \in [Counter -> Nat] /\ taken \in [Counter -> Nat]
    /\ written \in [Counter -> Nat] /\ ended \in [Counter -> Nat]
    /\ taking \in BOOLEAN /\ (~taking => taken = Zero)
    /\ CountedOnce

\* What one more request, an empty row and a written one add up to.
LEMMA Totals ==
    /\ Zero \in [Counter -> Nat] /\ Total(Zero) = 0
    /\ \A m \in [Counter -> Nat] : Total(m) \in Nat
    /\ \A m \in [Counter -> Nat], k \in Counter :
          /\ [m EXCEPT ![k] = @ + 1] \in [Counter -> Nat]
          /\ Total([m EXCEPT ![k] = @ + 1]) = Total(m) + 1
    /\ \A m, n \in [Counter -> Nat] :
          /\ Plus(m, n) \in [Counter -> Nat]
          /\ Total(Plus(m, n)) = Total(m) + Total(n)
<1>1. Zero \in [Counter -> Nat] /\ Total(Zero) = 0
  BY DEF Zero, Counter, Total
<1>2. \A m \in [Counter -> Nat] : Total(m) \in Nat
  BY DEF Counter, Total
<1>3. ASSUME NEW m \in [Counter -> Nat], NEW k \in Counter
      PROVE  /\ [m EXCEPT ![k] = @ + 1] \in [Counter -> Nat]
             /\ Total([m EXCEPT ![k] = @ + 1]) = Total(m) + 1
  <2>1. m["ok"] \in Nat /\ m["fail"] \in Nat /\ m["reject"] \in Nat
        /\ m["errs"] \in Nat /\ m["unknown"] \in Nat
    BY DEF Counter
  <2> QED  BY <2>1 DEF Counter, Total
<1>4. ASSUME NEW m \in [Counter -> Nat], NEW n \in [Counter -> Nat]
      PROVE  /\ Plus(m, n) \in [Counter -> Nat]
             /\ Total(Plus(m, n)) = Total(m) + Total(n)
  <2>1. /\ m["ok"] \in Nat /\ m["fail"] \in Nat /\ m["reject"] \in Nat
        /\ m["errs"] \in Nat /\ m["unknown"] \in Nat
        /\ n["ok"] \in Nat /\ n["fail"] \in Nat /\ n["reject"] \in Nat
        /\ n["errs"] \in Nat /\ n["unknown"] \in Nat
    BY DEF Counter
  <2> QED  BY <2>1 DEF Counter, Total, Plus
<1> QED  BY <1>1, <1>2, <1>3, <1>4

\* Ending requests, reset and the write keep every request in one place.
LEMMA ClientStep ==
    ASSUME ClientInv, [ClientNext]_clientVars
    PROVE  ClientInv'
<1> USE DEF ClientInv, requestVars, reportVars
<1>0. /\ Total(metric) \in Nat /\ Total(taken) \in Nat
      /\ Total(written) \in Nat /\ Total(ended) \in Nat
      /\ Total(metric) + Total(taken) + Total(written) = Total(ended)
  BY Totals DEF CountedOnce
<1>1. ASSUME NEW outcome \in Outcome, Finish(outcome)
      PROVE  ClientInv'
  <2>1. Incremented(outcome) \in Counter /\ outcome \in Counter
    BY DEF Incremented, Outcome, Counter
  <2>2. /\ metric' \in [Counter -> Nat] /\ Total(metric)' = Total(metric) + 1
        /\ ended' \in [Counter -> Nat] /\ Total(ended)' = Total(ended) + 1
        /\ UNCHANGED <<taken, written, taking>>
    <3>1. /\ metric' = [metric EXCEPT ![Incremented(outcome)] = @ + 1]
          /\ ended' = [ended EXCEPT ![outcome] = @ + 1]
          /\ UNCHANGED <<taken, written, taking>>
      BY <1>1 DEF Finish
    <3>2. Total(metric)' = Total(metric') /\ Total(ended)' = Total(ended')
      BY DEF Total
    <3> QED  BY <2>1, <3>1, <3>2, Totals
  <2>3. Total(taken)' = Total(taken) /\ Total(written)' = Total(written)
    BY <2>2 DEF Total
  <2>4. CountedOnce'
    BY <1>0, <2>2, <2>3 DEF CountedOnce
  <2> QED  BY <2>2, <2>4
<1>2. CASE Reset
  <2>1. /\ taken' = metric /\ metric' = Zero /\ taken = Zero /\ taking' = TRUE
        /\ UNCHANGED <<written, ended>>
    BY <1>2 DEF Reset
  <2>2. /\ Total(taken)' = Total(metric) /\ Total(metric)' = Total(Zero)
        /\ Total(written)' = Total(written) /\ Total(ended)' = Total(ended)
    BY <2>1 DEF Total
  <2>3. CountedOnce'
    BY <1>0, <2>1, <2>2, Totals DEF CountedOnce
  <2> QED  BY <2>1, <2>3, Totals
<1>3. CASE WriteRow
  <2>1. /\ written' = Plus(written, taken) /\ taken' = Zero /\ taking' = FALSE
        /\ UNCHANGED <<metric, ended>>
    BY <1>3 DEF WriteRow
  <2>2. /\ Total(written)' = Total(Plus(written, taken)) /\ Total(taken)' = Total(Zero)
        /\ Total(metric)' = Total(metric) /\ Total(ended)' = Total(ended)
    BY <2>1 DEF Total
  <2>3. CountedOnce'
    BY <1>0, <2>2, Totals DEF CountedOnce
  <2> QED  BY <2>1, <2>3, Totals
<1>4. CASE Request \/ CloseDone \/ RunReturns \/ ClientExit \/ UNCHANGED clientVars
  <2>1. UNCHANGED <<metric, taken, taking, written, ended>>
    BY <1>4 DEF Request, CloseDone, RunReturns, ClientExit, clientVars
  <2> QED  BY <2>1 DEF CountedOnce, Total
<1> QED  BY <1>1, <1>2, <1>3, <1>4 DEF ClientNext

-----------------------------------------------------------------------------
(* http/breaker/server.go *)

HeavyInv == heavy \in [Threads -> {"new", "busy", "over"}] /\ LatchHolds

\* A slot is taken by a handler that begins and given back by one that ends.
LEMMA HeavyStep ==
    ASSUME HeavyInv, [LimiterNext \/ HeavyNext]_limitVars
    PROVE  HeavyInv'
<1> USE LimitsAssumption DEF HeavyInv, loopVars, storeVars, heavyVars
<1> DEFINE Busy == {t \in Threads : heavy[t] = "busy"}
<1>0. /\ Busy \in SUBSET Threads /\ latch = Cardinality(Busy) /\ latch <= LatchSize
      /\ latch \in Nat
  BY CountType DEF LatchHolds
<1>1. ASSUME NEW t \in Threads, Heavy(t)
      PROVE  HeavyInv'
  <2>1. CASE latch < LatchSize
    <3>1. /\ heavy[t] = "new" /\ heavy' = [heavy EXCEPT ![t] = "busy"]
          /\ latch' = latch + 1
      BY <1>1, <2>1 DEF Heavy
    <3>2. Busy' = Busy \cup {t} /\ t \notin Busy
      BY <3>1
    <3>3. Cardinality(Busy') = Cardinality(Busy) + 1
      BY <1>0, <3>2, CountUp
    <3> QED  BY <1>0, <2>1, <3>1, <3>3 DEF LatchHolds
  <2>2. CASE ~(latch < LatchSize)
    <3>1. heavy[t] = "new" /\ heavy' = [heavy EXCEPT ![t] = "over"] /\ latch' = latch
      BY <1>1, <2>2 DEF Heavy
    <3>2. Busy' = Busy
      BY <3>1
    <3> QED  BY <1>0, <3>1, <3>2 DEF LatchHolds
  <2> QED  BY <2>1, <2>2
<1>2. ASSUME NEW t \in Threads, HeavyEnd(t)
      PROVE  HeavyInv'
  <2>1. /\ heavy[t] = "busy" /\ heavy' = [heavy EXCEPT ![t] = "over"]
        /\ latch' = latch - 1
    BY <1>2 DEF HeavyEnd
  <2>2. Busy' = Busy \ {t} /\ t \in Busy
    BY <2>1
  <2>3. Cardinality(Busy') = Cardinality(Busy) - 1
    BY <1>0, <2>2, CountDown
  <2> QED  BY <1>0, <2>1, <2>3 DEF LatchHolds
<1>3. ASSUME \/ \E t \in Threads : HeavyTimeout(t)
             \/ LimiterNext
             \/ UNCHANGED limitVars
      PROVE  HeavyInv'
  <2>1. UNCHANGED <<heavy, latch>>
    BY <1>3 DEF HeavyTimeout, limitVars, LimiterNext, StartLimiter, CloseTheQuit, Refill,
       RedisFlips, LimiterEnd, ThreadNext, ThreadSelect, PeriodTake, PeriodFatal,
       TokenTake, WindowExpires
  <2> QED  BY <2>1 DEF LatchHolds
<1> QED  BY <1>1, <1>2, <1>3 DEF HeavyNext

-----------------------------------------------------------------------------
(* limit/period and limit/token *)

\* A key's window lets through as many calls as it has counted, but fewer than
\* the quota; the windows before it let through fewer than the quota each.
PeriodInv ==
    /\ passed \in [Threads -> Nat] /\ window \in [Threads -> Nat]
    /\ windows \in [Threads -> Nat]
    /\ \A t \in Threads :
          /\ window[t] > 0 => windows[t] > 0
          /\ which # "token" =>
                IF window[t] = 0 THEN passed[t] <= windows[t] * (Quota - 1)
                ELSE /\ passed[t] <= (windows[t] - 1) * (Quota - 1) + window[t]
                     /\ passed[t] <= windows[t] * (Quota - 1)

\* What was granted and what is left came from the burst and the refills.
TokenInv ==
    /\ tokens \in [Stores -> 0..Burst] /\ granted \in [Stores -> Nat] /\ ticks \in Nat
    /\ \A s \in Stores : granted[s] + tokens[s] <= Burst + Rate * ticks
    /\ which # "period" => allowed = granted["redis"] + granted["rescue"]

LimiterInv ==
    /\ which \in {"none", "period", "token"}
    /\ takes \in Nat /\ allowed \in Nat /\ denied \in Nat /\ redisUp \in BOOLEAN
    /\ allowed + denied = takes
    /\ which = "none" => allowed = 0
    /\ PeriodInv /\ TokenInv

\* One factor more, in the two products above.
LEMMA OneMore ==
    ASSUME NEW m \in Nat, NEW n \in Int
    PROVE  /\ (m + 1) * n = m * n + n /\ n * (m + 1) = n * m + n
           /\ m * n \in Int /\ n * m \in Int /\ (m + 1) - 1 = m
OBVIOUS

\* A call of the period limiter: the first of a window, or one more.
LEMMA PeriodStep ==
    ASSUME LimiterInv, NEW t \in Threads, PeriodTake(t)
    PROVE  LimiterInv'
<1> USE LimitsAssumption DEF LimiterInv, heavyVars
<1> DEFINE q == Quota - 1
           ok == window[t] + 1 < Quota
<1>0. /\ which = "period" /\ UNCHANGED <<which, tokens, granted, redisUp, ticks>>
      /\ window' = [window EXCEPT ![t] = @ + 1]
      /\ windows' = [windows EXCEPT ![t] = IF window[t] = 0 THEN @ + 1 ELSE @]
      /\ passed' = [passed EXCEPT ![t] = IF ok THEN @ + 1 ELSE @]
      /\ allowed' = (IF ok THEN allowed + 1 ELSE allowed)
      /\ denied' = (IF ok THEN denied ELSE denied + 1)
      /\ takes' = takes + 1
  BY DEF PeriodTake, Counted
<1>1. /\ window[t] \in Nat /\ windows[t] \in Nat /\ passed[t] \in Nat /\ q \in Nat
      /\ ok <=> window[t] + 1 <= q
  BY DEF PeriodInv
<1>2. PICK w \in Nat : w = windows'[t] - 1 /\ windows'[t] = w + 1
  BY <1>0, <1>1 DEF PeriodInv
<1>3. w * q \in Int /\ (w + 1) * q = w * q + q
  BY <1>1, OneMore
<1>4. /\ passed'[t] <= w * q + window'[t]
      /\ passed'[t] <= (w + 1) * q
  <2>1. CASE window[t] = 0
    <3>1. w = windows[t] /\ passed[t] <= w * q /\ window'[t] = 1
      BY <1>0, <1>1, <1>2, <2>1 DEF PeriodInv
    <3>2. passed'[t] <= passed[t] + 1 /\ (passed'[t] = passed[t] \/ 1 <= q)
      BY <1>0, <1>1, <2>1 DEF PeriodInv
    <3>3. passed'[t] \in Nat
      BY <1>0, <1>1 DEF PeriodInv
    <3> HIDE DEF q
    <3> QED  BY <1>1, <1>3, <3>1, <3>2, <3>3
  <2>2. CASE window[t] # 0
    <3>1. /\ windows[t] = w + 1 /\ window'[t] = window[t] + 1
          /\ passed[t] <= w * q + window[t] /\ passed[t] <= (w + 1) * q
      BY <1>0, <1>1, <1>2, <2>2 DEF PeriodInv
    <3>2. passed'[t] <= passed[t] + 1 /\ (passed'[t] = passed[t] \/ window[t] + 1 <= q)
      BY <1>0, <1>1 DEF PeriodInv
    <3>3. passed'[t] \in Nat
      BY <1>0, <1>1 DEF PeriodInv
    <3> HIDE DEF q
    <3> QED  BY <1>1, <1>3, <3>1, <3>2, <3>3
  <2> QED  BY <2>1, <2>2
<1>5. /\ passed' \in [Threads -> Nat] /\ window' \in [Threads -> Nat]
      /\ windows' \in [Threads -> Nat] /\ window'[t] # 0
  <2>1. /\ passed \in [Threads -> Nat] /\ window \in [Threads -> Nat]
        /\ windows \in [Threads -> Nat]
    BY DEF PeriodInv
  <2>2. passed' \in [Threads -> Nat]
    BY <1>0, <2>1
  <2>3. windows' \in [Threads -> Nat]
    BY <1>0, <2>1
  <2> HIDE DEF LimiterInv
  <2>4. window' \in [Threads -> Nat] /\ window'[t] # 0
    BY <1>0, <2>1
  <2> QED  BY <2>2, <2>3, <2>4
<1>6. PeriodInv'
  <2> SUFFICES ASSUME NEW u \in Threads
               PROVE  /\ window'[u] > 0 => windows'[u] > 0
                      /\ IF window'[u] = 0 THEN passed'[u] <= windows'[u] * q
                         ELSE /\ passed'[u] <= (windows'[u] - 1) * q + window'[u]
                              /\ passed'[u] <= windows'[u] * q
    BY <1>0, <1>5 DEF PeriodInv
  <2>1. CASE u = t
    <3>1. windows'[t] > 0
      BY <1>2
    <3> HIDE DEF q
    <3> QED  BY <1>2, <1>4, <1>5, <2>1, <3>1
  <2>2. CASE u # t
    BY <1>0, <2>2 DEF PeriodInv
  <2> QED  BY <2>1, <2>2
<1>7. TokenInv'
  BY <1>0 DEF TokenInv
<1> QED  BY <1>0, <1>6, <1>7

\* A call of the token limiter takes a token, if there is one.
LEMMA TokenStep ==
    ASSUME LimiterInv, NEW t \in Threads, TokenTake(t)
    PROVE  LimiterInv'
<1> USE LimitsAssumption DEF LimiterInv, heavyVars
<1>1. PICK s \in Stores :
         /\ which = "token" /\ UNCHANGED <<which, window, windows, redisUp, ticks>>
         /\ passed' = [passed EXCEPT ![t] = IF tokens[s] > 0 THEN @ + 1 ELSE @]
         /\ allowed' = (IF tokens[s] > 0 THEN allowed + 1 ELSE allowed)
         /\ denied' = (IF tokens[s] > 0 THEN denied ELSE denied + 1)
         /\ takes' = takes + 1
         /\ tokens' = [tokens EXCEPT ![s] = IF @ > 0 THEN @ - 1 ELSE @]
         /\ granted' = [granted EXCEPT ![s] = IF tokens[s] > 0 THEN @ + 1 ELSE @]
  BY DEF TokenTake, Counted, Stores
<1>2. PeriodInv'
  BY <1>1 DEF PeriodInv
<1>3. Rate * ticks \in Int
  BY OneMore DEF TokenInv
<1>4. /\ tokens' \in [Stores -> 0..Burst] /\ granted' \in [Stores -> Nat]
      /\ \A x \in Stores : granted'[x] + tokens'[x] = granted[x] + tokens[x]
  <2>1. /\ tokens \in [Stores -> 0..Burst] /\ granted \in [Stores -> Nat]
        /\ Burst \in Nat
    BY DEF TokenInv
  <2>2. tokens[s] \in 0..Burst /\ granted[s] \in Nat
    BY <2>1
  <2>3. tokens' \in [Stores -> 0..Burst]
    BY <1>1, <2>1, <2>2
  <2>4. granted' \in [Stores -> Nat]
    BY <1>1, <2>1, <2>2
  <2>5. \A x \in Stores : granted'[x] + tokens'[x] = granted[x] + tokens[x]
    BY <1>1, <2>1, <2>2
  <2> QED  BY <2>3, <2>4, <2>5
<1>5. allowed' = granted'["redis"] + granted'["rescue"]
  BY <1>1 DEF TokenInv, Stores
<1>6. TokenInv'
  BY <1>1, <1>3, <1>4, <1>5 DEF TokenInv
<1> QED  BY <1>1, <1>2, <1>6

\* Time: a refill up to the burst, and a window that is over.
LEMMA TimeStep ==
    ASSUME LimiterInv, Refill \/ \E t \in Threads : WindowExpires(t)
    PROVE  LimiterInv'
<1> USE LimitsAssumption DEF LimiterInv, loopVars, heavyVars
<1>1. CASE Refill
  <2>1. /\ which = "token" /\ ticks' = ticks + 1
        /\ tokens' = [s \in Stores |->
                         IF tokens[s] + Rate > Burst THEN Burst ELSE tokens[s] + Rate]
        /\ UNCHANGED <<which, takes, allowed, denied, passed, window, windows, granted,
                       redisUp>>
    BY <1>1 DEF Refill
  <2>2. /\ Rate * ticks \in Int /\ Rate * (ticks + 1) = Rate * ticks + Rate
        /\ ticks \in Nat
    BY OneMore DEF TokenInv
  <2>3. \A s \in Stores : tokens'[s] \in 0..Burst /\ tokens'[s] <= tokens[s] + Rate
    BY <2>1 DEF TokenInv
  <2>4. \A s \in Stores : granted[s] + tokens'[s] <= Burst + Rate * ticks + Rate
    BY <2>2, <2>3 DEF TokenInv
  <2>5. TokenInv'
    BY <2>1, <2>2, <2>3, <2>4 DEF TokenInv
  <2>6. PeriodInv'
    BY <2>1 DEF PeriodInv
  <2> QED  BY <2>1, <2>5, <2>6
<1>2. ASSUME NEW t \in Threads, WindowExpires(t)
      PROVE  LimiterInv'
  <2>1. /\ window[t] > 0 /\ window' = [window EXCEPT ![t] = 0]
        /\ UNCHANGED <<which, takes, allowed, denied, passed, windows, tokens, granted,
                       redisUp, ticks>>
    BY <1>2 DEF WindowExpires
  <2>2. PeriodInv'
    BY <2>1 DEF PeriodInv
  <2>3. TokenInv'
    BY <2>1 DEF TokenInv
  <2> QED  BY <2>1, <2>2, <2>3
<1> QED  BY <1>1, <1>2

\* Every step of the limiters keeps the invariant.
LEMMA LimiterStep ==
    ASSUME LimiterInv, [LimiterNext \/ HeavyNext]_limitVars
    PROVE  LimiterInv'
<1> USE DEF loopVars, storeVars, heavyVars
<1>1. CASE StartLimiter \/ RedisFlips
  BY <1>1 DEF LimiterInv, PeriodInv, TokenInv, StartLimiter, RedisFlips
<1>2. ASSUME \/ CloseTheQuit \/ LimiterEnd \/ HeavyNext \/ UNCHANGED limitVars
             \/ \E t \in Threads : ThreadSelect(t) \/ PeriodFatal(t)
      PROVE  LimiterInv'
  <2>1. UNCHANGED <<which, takes, allowed, denied, passed, storeVars>>
    BY <1>2 DEF CloseTheQuit, LimiterEnd, HeavyNext, Heavy, HeavyTimeout, HeavyEnd,
                limitVars, ThreadSelect, PeriodFatal
  <2> QED  BY <2>1 DEF LimiterInv, PeriodInv, TokenInv
<1> QED
  BY <1>1, <1>2, PeriodStep, TokenStep, TimeStep DEF LimiterNext, ThreadNext

\* The invariant bounds what the limiters let through.
LEMMA LimiterInvImplies == LimiterInv => LimiterBounds
<1> SUFFICES ASSUME LimiterInv PROVE LimiterBounds
  OBVIOUS
<1> USE LimitsAssumption DEF LimiterInv
<1>1. which = "period" => \A t \in Threads : passed[t] <= windows[t] * (Quota - 1)
  BY DEF PeriodInv
<1>2. Rate * ticks \in Int
  BY OneMore DEF TokenInv
<1>3. \A s \in Stores : granted[s] <= Burst + Rate * ticks
  BY <1>2 DEF TokenInv
<1>4. which = "token" => allowed = granted["redis"] + granted["rescue"]
  BY DEF TokenInv
<1> QED  BY <1>1, <1>3, <1>4 DEF LimiterBounds

-----------------------------------------------------------------------------
(* load/main.go *)

FlightInv ==
    /\ load \in [Requests -> {"new", "started", "sampled", "flying", "landed", "done"}]
    /\ flying = Cardinality({r \in Requests : load[r] \in {"sampled", "flying"}})
    /\ closed \in BOOLEAN /\ (closed => \A r \in Requests : load[r] = "done")
    /\ ~rows.late

\* A request is in flight between its two AddUint64, and done before main goes on.
LEMMA FlightStep ==
    ASSUME FlightInv, [LoadNext]_loadVars
    PROVE  FlightInv'
<1> USE LoadAssumption DEF FlightInv, windowVars
<1> DEFINE Flying == {r \in Requests : load[r] \in {"sampled", "flying"}}
<1>0. Flying \in SUBSET Requests /\ flying = Cardinality(Flying)
  OBVIOUS
<1>1. ASSUME NEW r \in Requests, Takeoff(r)
      PROVE  FlightInv'
  <2>1. /\ load[r] = "started" /\ flying' = flying + 1
        /\ load' = [load EXCEPT ![r] = "sampled"] /\ UNCHANGED <<closed, rows>>
    BY <1>1 DEF Takeoff
  <2>2. Flying' = Flying \cup {r} /\ r \notin Flying
    BY <2>1
  <2>3. Cardinality(Flying') = Cardinality(Flying) + 1
    BY <1>0, <2>2, CountUp
  <2> QED  BY <2>1, <2>3
<1>2. ASSUME NEW r \in Requests, Land(r)
      PROVE  FlightInv'
  <2>1. /\ load[r] = "flying" /\ flying' = flying - 1
        /\ load' = [load EXCEPT ![r] = "landed"] /\ UNCHANGED <<closed, rows>>
    BY <1>2 DEF Land
  <2>2. Flying' = Flying \ {r} /\ r \in Flying
    BY <2>1
  <2>3. Cardinality(Flying') = Cardinality(Flying) - 1
    BY <1>0, <2>2, CountDown
  <2> QED  BY <2>1, <2>3
<1>3. ASSUME NEW r \in Requests, Batch(r) \/ SampleStart(r) \/ SampleEnd(r)
      PROVE  FlightInv'
  <2>1. /\ flying' = flying /\ closed' = closed
        /\ \/ load[r] = "new" /\ load' = [load EXCEPT ![r] = "started"] /\ rows' = rows
           \/ load[r] = "sampled" /\ load' = [load EXCEPT ![r] = "flying"] /\ rows' = rows
           \/ load[r] = "landed" /\ load' = [load EXCEPT ![r] = "done"]
              /\ (rows' = rows \/ rows' = [flight |-> <<MaxFlight>>, late |-> rows.late \/ closed])
    BY <1>3 DEF Batch, SampleStart, SampleEnd
  <2>2. Flying' = Flying
    BY <2>1
  <2>3. ~closed
    BY <2>1
  <2>4. ~rows'.late
    BY <2>1, <2>3
  <2>5. load' \in [Requests -> {"new", "started", "sampled", "flying", "landed", "done"}]
    BY <2>1
  <2> QED  BY <2>1, <2>2, <2>3, <2>4, <2>5
<1>4. CASE LoadEnd
  <2>1. /\ \A r \in Requests : load[r] = "done"
        /\ closed' = TRUE /\ UNCHANGED <<load, flying, rows>>
    BY <1>4 DEF LoadEnd
  <2> QED  BY <2>1
<1>5. CASE Slide \/ UNCHANGED loadVars
  <2>1. UNCHANGED <<load, flying, closed, rows>>
    BY <1>5 DEF Slide, loadVars
  <2> QED  BY <2>1
<1> QED  BY <1>1, <1>2, <1>3, <1>4, <1>5 DEF LoadNext, LoadRequest

-----------------------------------------------------------------------------
(* load/simulate *)

Column == {"total", "pass", "fail", "drop"}

\* What the counters, the row and the file say together.
Reported(c) == simRows[c] + swapped.row[c] + counter[c]

\* A column that was not swapped yet is empty in the row.
SimInv ==
    /\ sim \in [Requests -> {"new", "sent", "done"}]
    /\ counter \in [Column -> Nat] /\ simRows \in [Column -> Nat]
    /\ swapped \in [n : 0..4, row : [Column -> Nat], rows : Nat]
    /\ \A i \in 1..4 : i > swapped.n => swapped.row[Columns[i]] = 0
    /\ Reported("total") = Cardinality({r \in Requests : sim[r] # "new"})
    /\ Reported("pass") + Reported("fail") + Reported("drop") =
         Cardinality({r \in Requests : sim[r] = "done"})

\* The columns by their numbers.
LEMMA ColumnNames ==
    /\ Columns[1] = "total" /\ Columns[2] = "pass"
    /\ Columns[3] = "fail" /\ Columns[4] = "drop"
    /\ ZeroRow = [c \in Column |-> 0] /\ ZeroRow \in [Column -> Nat]
<1>1. /\ Columns[1] = "total" /\ Columns[2] = "pass"
      /\ Columns[3] = "fail" /\ Columns[4] = "drop"
  BY DEF Columns
<1>2. {Columns[i] : i \in 1..4} = Column
  <2>1. \A i \in 1..4 : i = 1 \/ i = 2 \/ i = 3 \/ i = 4
    OBVIOUS
  <2>2. 1 \in 1..4 /\ 2 \in 1..4 /\ 3 \in 1..4 /\ 4 \in 1..4
    OBVIOUS
  <2> QED  BY <1>1, <2>1, <2>2 DEF Column
<1> QED  BY <1>1, <1>2 DEF ZeroRow

\* A swap moves a counter into the row, and a row goes to the file as a whole.
LEMMA ReporterStep ==
    ASSUME SimInv, Swap \/ WriteSimRow
    PROVE  SimInv'
<1> USE DEF SimInv
<1>0. /\ swapped.n \in 0..4 /\ swapped.row \in [Column -> Nat] /\ swapped.rows \in Nat
      /\ \A c \in Column : simRows[c] \in Nat /\ swapped.row[c] \in Nat /\ counter[c] \in Nat
  OBVIOUS
<1>1. sim' = sim
  BY DEF Swap, WriteSimRow
<1>2. CASE Swap
  <2> DEFINE k == swapped.n + 1
             c == Columns[k]
  <2>1. k \in 1..4 /\ c \in Column /\ \A i \in 1..4 : Columns[i] = c => i = k
    <3>1. swapped.n \in 0..3
      BY <1>0, <1>2 DEF Swap
    <3>2. k = 1 \/ k = 2 \/ k = 3 \/ k = 4
      BY <3>1
    <3>3. \A i \in 1..4 : i = 1 \/ i = 2 \/ i = 3 \/ i = 4
      OBVIOUS
    <3> QED  BY <3>2, <3>3, ColumnNames DEF Column
  <2> HIDE DEF c
  <2>2. /\ counter' = [counter EXCEPT ![c] = 0] /\ simRows' = simRows
        /\ swapped'.n = swapped.n + 1 /\ swapped'.rows = swapped.rows
        /\ swapped'.row = [swapped.row EXCEPT ![c] = counter[c]]
        /\ swapped' = [swapped EXCEPT !.n = @ + 1, !.row = [swapped.row EXCEPT ![c] = counter[c]]]
    BY <1>0, <1>2 DEF Swap, c
  <2>3. swapped.row[c] = 0
    BY <2>1 DEF c
  <2>4. \A x \in Column : Reported(x)' = Reported(x)
    BY <1>0, <2>1, <2>2, <2>3 DEF Reported
  <2>5. counter' \in [Column -> Nat] /\ simRows' \in [Column -> Nat]
    BY <1>0, <2>2
  <2>6. swapped' \in [n : 0..4, row : [Column -> Nat], rows : Nat]
    <3>1. swapped'.n \in 0..4
      BY <1>0, <2>1, <2>2
    <3>2. swapped'.row \in [Column -> Nat]
      BY <1>0, <2>1, <2>2
    <3> QED  BY <1>0, <2>2, <3>1, <3>2
  <2>7. \A i \in 1..4 : i > swapped'.n => swapped'.row[Columns[i]] = 0
    <3> SUFFICES ASSUME NEW i \in 1..4, i > swapped'.n
                 PROVE  swapped'.row[Columns[i]] = 0
      OBVIOUS
    <3>1. i > swapped.n /\ i # k
      BY <1>0, <2>2
    <3>2. Columns[i] # c /\ Columns[i] \in Column
      <4>1. i = 1 \/ i = 2 \/ i = 3 \/ i = 4
        OBVIOUS
      <4> QED  BY <2>1, <3>1, <4>1, ColumnNames DEF Column
    <3> QED  BY <1>0, <2>2, <3>1, <3>2
  <2>8. "total" \in Column /\ "pass" \in Column /\ "fail" \in Column /\ "drop" \in Column
    BY DEF Column
  <2> QED  BY <1>1, <2>4, <2>5, <2>6, <2>7, <2>8
<1>3. CASE WriteSimRow
  <2>1. /\ simRows' = [c \in Column |-> simRows[c] + swapped.row[c]] /\ counter' = counter
        /\ swapped' = [n |-> 0, row |-> ZeroRow, rows |-> swapped.rows + 1]
    BY <1>3 DEF WriteSimRow
  <2>2. swapped'.row = [c \in Column |-> 0] /\ swapped'.n = 0
        /\ swapped' \in [n : 0..4, row : [Column -> Nat], rows : Nat]
    BY <1>0, <2>1, ColumnNames
  <2>3. \A x \in Column : Reported(x)' = Reported(x)
    BY <1>0, <2>1, <2>2 DEF Reported
  <2>4. simRows' \in [Column -> Nat] /\ counter' \in [Column -> Nat]
    BY <1>0, <2>1
  <2>5. \A i \in 1..4 : Columns[i] \in Column
    <3>1. \A i \in 1..4 : i = 1 \/ i = 2 \/ i = 3 \/ i = 4
      OBVIOUS
    <3> QED  BY <3>1, ColumnNames DEF Column
  <2>6. "total" \in Column /\ "pass" \in Column /\ "fail" \in Column /\ "drop" \in Column
    BY DEF Column
  <2>7. \A i \in 1..4 : swapped'.row[Columns[i]] = 0
    BY <2>2, <2>5
  <2> QED  BY <1>1, <2>2, <2>3, <2>4, <2>6, <2>7
<1> QED  BY <1>2, <1>3

\* A request is counted in total when it is sent and once more when it ends.
LEMMA SimStep ==
    ASSUME SimInv, [SimNext]_simVars
    PROVE  SimInv'
<1> USE LoadAssumption DEF SimInv
<1> DEFINE Sent == {r \in Requests : sim[r] # "new"}
           Done == {r \in Requests : sim[r] = "done"}
<1>0. /\ Sent \in SUBSET Requests /\ Done \in SUBSET Requests
      /\ swapped.row \in [Column -> Nat]
      /\ \A c \in Column : simRows[c] \in Nat /\ swapped.row[c] \in Nat /\ counter[c] \in Nat
      /\ "total" \in Column /\ "pass" \in Column /\ "fail" \in Column /\ "drop" \in Column
  BY DEF Column
<1>1. ASSUME NEW r \in Requests, IssueRequest(r)
      PROVE  SimInv'
  <2>1. /\ sim[r] = "new" /\ sim' = [sim EXCEPT ![r] = "sent"]
        /\ counter' = [counter EXCEPT !["total"] = @ + 1]
        /\ UNCHANGED <<swapped, simRows>>
    BY <1>1 DEF IssueRequest
  <2>2. Sent' = Sent \cup {r} /\ r \notin Sent /\ Done' = Done
    BY <2>1
  <2>3. Cardinality(Sent') = Cardinality(Sent) + 1
    BY <1>0, <2>2, CountUp
  <2>4. /\ Reported("total")' = Reported("total") + 1
        /\ Reported("pass")' = Reported("pass") /\ Reported("fail")' = Reported("fail")
        /\ Reported("drop")' = Reported("drop")
    BY <1>0, <2>1 DEF Reported
  <2>5. counter' \in [Column -> Nat]
    BY <1>0, <2>1
  <2> QED  BY <2>1, <2>2, <2>3, <2>4, <2>5
<1>2. ASSUME NEW r \in Requests, CountOutcome(r)
      PROVE  SimInv'
  <2>1. PICK c \in {"pass", "fail", "drop"} :
           /\ sim[r] = "sent" /\ sim' = [sim EXCEPT ![r] = "done"]
           /\ counter' = [counter EXCEPT ![c] = @ + 1]
           /\ UNCHANGED <<swapped, simRows>>
    BY <1>2 DEF CountOutcome
  <2>2. Done' = Done \cup {r} /\ r \notin Done /\ Sent' = Sent
    BY <2>1
  <2>3. Cardinality(Done') = Cardinality(Done) + 1
    BY <1>0, <2>2, CountUp
  <2>4. /\ Reported("total")' = Reported("total")
        /\ Reported("pass")' + Reported("fail")' + Reported("drop")' =
             Reported("pass") + Reported("fail") + Reported("drop") + 1
    BY <1>0, <2>1 DEF Reported
  <2>5. counter' \in [Column -> Nat]
    BY <1>0, <2>1 DEF Column
  <2> QED  BY <2>1, <2>2, <2>3, <2>4, <2>5
<1>3. ASSUME (\E r \in Requests : ServerStep(r)) \/ UNCHANGED simVars
      PROVE  SimInv'
  <2>1. UNCHANGED <<sim, counter, swapped, simRows>>
    BY <1>3 DEF ServerStep, HandlerDone, HandlerTimeout, JobEnd, SpinnerStops, simVars
  <2> QED  BY <2>1 DEF Reported
<1> QED  BY <1>1, <1>2, <1>3, ReporterStep DEF SimNext

-----------------------------------------------------------------------------
(* breaker/main.go *)

\* What the reporter has taken is in its hands until the row is written.
BrInv ==
    /\ calls \in [google : Nat, netflix : Nat] /\ held \in [google : Nat, netflix : Nat]
    /\ csv \in [google : Nat, netflix : Nat] /\ served \in Nat
    /\ report \in {"idle", "google", "netflix"}
    /\ report = "idle" => held.google = 0
    /\ csv.google + held.google + calls.google = served

\* Calls that arrive between the two resets are in the next row.
LEMMA BrStep ==
    ASSUME BrInv, [BrNext]_brVars
    PROVE  BrInv'
<1> USE DEF BrInv
<1>1. CASE BreakerCall
  BY <1>1 DEF BreakerCall
<1>2. CASE ResetGoogle
  BY <1>2 DEF ResetGoogle
<1>3. CASE ResetNetflix
  BY <1>3 DEF ResetNetflix
<1>4. CASE WriteCalls
  BY <1>4 DEF WriteCalls, ZeroCalls
<1>5. CASE Flip \/ BreakerDone \/ UNCHANGED brVars
  BY <1>5 DEF Flip, BreakerDone, brVars
<1> QED  BY <1>1, <1>2, <1>3, <1>4, <1>5 DEF BrNext

-----------------------------------------------------------------------------
(* The programs together *)

LoadInv == ClientInv /\ FlightInv /\ SimInv /\ BrInv /\ LimiterInv /\ HeavyInv

\* Every program starts with empty counters.
LEMMA InitLoadInv == Init => LoadInv
<1> SUFFICES ASSUME Init PROVE LoadInv
  OBVIOUS
<1> USE LoadAssumption, LimitsAssumption DEF Init
<1>1. ClientInv
  <2>1. /\ metric = Zero /\ taken = Zero /\ written = Zero /\ ended = Zero
        /\ taking = FALSE
    BY DEF ClientInit
  <2>2. Zero \in [Counter -> Nat] /\ Total(Zero) = 0
    BY Totals
  <2>3. CountedOnce
    BY <2>1, <2>2 DEF CountedOnce
  <2> QED  BY <2>1, <2>2, <2>3 DEF ClientInv
<1>2. FlightInv
  <2>1. {r \in Requests : load[r] \in {"sampled", "flying"}} = {}
    BY DEF LoadInit
  <2> QED  BY <2>1, FS_EmptySet DEF LoadInit, FlightInv
<1>3. SimInv
  <2>1. /\ {r \in Requests : sim[r] # "new"} = {} /\ {r \in Requests : sim[r] = "done"} = {}
        /\ sim \in [Requests -> {"new", "sent", "done"}]
    BY DEF SimInit
  <2>2. /\ counter = [c \in Column |-> 0] /\ simRows = [c \in Column |-> 0]
        /\ swapped = [n |-> 0, row |-> [c \in Column |-> 0], rows |-> 0]
    BY ColumnNames DEF SimInit
  <2>3. \A i \in 1..4 : Columns[i] \in Column
    <3>1. \A i \in 1..4 : i = 1 \/ i = 2 \/ i = 3 \/ i = 4
      OBVIOUS
    <3> QED  BY <3>1, ColumnNames DEF Column
  <2>4. \A i \in 1..4 : i > swapped.n => swapped.row[Columns[i]] = 0
    BY <2>2, <2>3
  <2>5. /\ Reported("total") = 0 /\ Reported("pass") = 0
        /\ Reported("fail") = 0 /\ Reported("drop") = 0
    BY <2>2 DEF Reported, Column
  <2>6. /\ counter \in [Column -> Nat] /\ simRows \in [Column -> Nat]
        /\ swapped \in [n : 0..4, row : [Column -> Nat], rows : Nat]
    BY <2>2
  <2>7. /\ Cardinality({r \in Requests : sim[r] # "new"}) = 0
        /\ Cardinality({r \in Requests : sim[r] = "done"}) = 0
    BY <2>1, FS_EmptySet
  <2> QED  BY <2>1, <2>4, <2>5, <2>6, <2>7 DEF SimInv
<1>4. BrInv
  BY DEF BrInit, BrInv, ZeroCalls
<1>5. LimiterInv
  <2>1. PeriodInv
    BY DEF LimitsInit, PeriodInv
  <2>2. TokenInv
    BY DEF LimitsInit, TokenInv, Stores
  <2> QED  BY <2>1, <2>2 DEF LimitsInit, LimiterInv
<1>6. HeavyInv
  <2>1. {t \in Threads : heavy[t] = "busy"} = {}
    BY DEF LimitsInit
  <2> QED  BY <2>1, FS_EmptySet DEF LimitsInit, HeavyInv, LatchHolds
<1> QED  BY <1>1, <1>2, <1>3, <1>4, <1>5, <1>6 DEF LoadInv

\* The invariants of the programs are invariants of Spec.
THEOREM Inductive == Spec => []LoadInv
<1>1. Init => LoadInv
  BY InitLoadInv
<1>2. LoadInv /\ [Next]_vars => LoadInv'
  <2> SUFFICES ASSUME LoadInv, [Next]_vars PROVE LoadInv'
    OBVIOUS
  <2>1. /\ [ClientNext]_clientVars /\ [LoadNext]_loadVars /\ [SimNext]_simVars
        /\ [BrNext]_brVars /\ [LimiterNext \/ HeavyNext]_limitVars
    BY DEF Next, vars
  <2> QED
    BY <2>1, ClientStep, FlightStep, SimStep, BrStep, LimiterStep, HeavyStep DEF LoadInv
<1> QED  BY <1>1, <1>2, PTL DEF Spec

\* The load generator of http/breaker loses no request and counts none twice.
THEOREM RequestsCountedOnce == Spec => []CountedOnce
<1>1. LoadInv => CountedOnce
  BY DEF LoadInv, ClientInv
<1> QED  BY <1>1, Inductive, PTL

\* The counters, the row at hand and the file of load, load/simulate and breaker
\* add up at every moment between two swaps.
THEOREM NothingUncounted == Spec => []CountsAddUp
<1>1. LoadInv => CountsAddUp
  <2> SUFFICES ASSUME LoadInv PROVE CountsAddUp
    OBVIOUS
  <2> USE DEF LoadInv
  <2>1. /\ DOMAIN simRows = Column
        /\ "total" \in Column /\ "pass" \in Column /\ "fail" \in Column /\ "drop" \in Column
    BY DEF SimInv, Column
  <2>2. /\ Reported("total") = Cardinality({r \in Requests : sim[r] # "new"})
        /\ Reported("pass") + Reported("fail") + Reported("drop") =
             Cardinality({r \in Requests : sim[r] = "done"})
    BY DEF SimInv
  <2>3. csv.google + held.google + calls.google = served
    BY DEF BrInv
  <2>4. /\ flying = Cardinality({r \in Requests : load[r] \in {"sampled", "flying"}})
        /\ ~rows.late
    BY DEF FlightInv
  <2>5. closed => flying = 0
    <3>1. closed => {r \in Requests : load[r] \in {"sampled", "flying"}} = {}
      BY DEF FlightInv
    <3> QED  BY <2>4, <3>1, FS_EmptySet
  <2> QED  BY <2>1, <2>2, <2>3, <2>4, <2>5 DEF CountsAddUp, Reported
<1> QED  BY <1>1, Inductive, PTL

\* No limiter lets through more than its quota, or its burst and its refills.
THEOREM NothingOverLimit == Spec => []LimiterBounds
<1>1. LoadInv => LimiterBounds
  BY LimiterInvImplies DEF LoadInv
<1> QED  BY <1>1, Inductive, PTL

\* No more handlers of /heavy run than the latch has slots, timeouts or not.
THEOREM NoSlotTwice == Spec => []LatchHolds
<1>1. LoadInv => LatchHolds
  BY DEF LoadInv, HeavyInv
<1> QED  BY <1>1, Inductive, PTL
=============================================================================
