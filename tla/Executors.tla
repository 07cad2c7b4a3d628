------------------------------ MODULE Executors ------------------------------
(***************************************************************************)
(* periodicalexecutor/pe.go adds tasks to go-zero's BulkExecutor, which    *)
(* runs them in batches of ten or at the next tick; timingwheel/main.go    *)
(* and timingwheel/leak/leak.go set timers on go-zero's TimingWheel, or    *)
(* (traditional mode) start a goroutine with a timer each.  The executor's *)
(* background goroutine and the wheel are external, modelled from what the *)
(* programs rely on: no task lost or run twice, no timer early.            *)
(***************************************************************************)
EXTENDS Naturals, Sequences, FiniteSets

CONSTANTS
  Tasks,     \* bound: number of tasks added, timers set
  Bulk,      \* WithBulkTasks(10); 2 here
  Slots,     \* slots of the wheel: 600 and 100 in the code
  Steps,     \* a timer's delay in ticks of the wheel: 60 and 5 in the code
  MaxClock   \* bound: ticks

ASSUME ExecutorsAssumption ==
  /\ Tasks \in Nat /\ Bulk \in Nat \ {0} /\ Slots \in Nat \ {0}
  /\ Steps \in Nat \ {0} /\ MaxClock \in Nat

VARIABLES
  added,      \* tasks passed to Add so far
  container,  \* tasks in the container
  batch,      \* the batch in the commander channel, Add waits for its confirm
  guarded,    \* the background goroutine runs
  commanded,  \* it took a batch since the last tick
  executed,   \* the tasks the callback has seen, in order
  clock,      \* ticks of the wheel
  wheel,       \* "none", "wheel", "traditional" or "leak"
  timers,     \* per timer [at, slot, circle] once set
  fired       \* per timer, the times at which its job ran

bulkVars == <<added, container, batch, guarded, commanded, executed>>
wheelVars == <<clock, wheel, timers, fired>>
execVars == <<bulkVars, wheelVars>>

ExecutorsInit ==
  /\ added = 0 /\ container = <<>> /\ batch = <<>> /\ guarded = FALSE
  /\ commanded = FALSE /\ executed = <<>>
  /\ clock = 0 /\ wheel = "none" /\ timers = <<>> /\ fired = <<>>

\* pe.go's loop: Add appends and, when the container is full, hands the
\* batch over and waits until it has been taken.
AddTask ==
  /\ added < Tasks /\ batch = <<>>
  /\ added' = added + 1 /\ guarded' = TRUE
  /\ LET full == Append(container, added + 1) IN
     IF Len(full) >= Bulk THEN batch' = full /\ container' = <<>>
     ELSE container' = full /\ UNCHANGED batch
  /\ UNCHANGED <<commanded, executed, wheelVars>>

TakeBatch ==
  /\ guarded /\ batch # <<>>
  /\ executed' = executed \o batch /\ batch' = <<>> /\ commanded' = TRUE
  /\ UNCHANGED <<added, container, guarded, wheelVars>>

\* Defect: a tick ends the goroutine although tasks are in the container.
FlushTickEnds ==
  /\ guarded
  /\ IF commanded THEN commanded' = FALSE /\ UNCHANGED guarded
     ELSE guarded' = (batch # <<>>) /\ UNCHANGED commanded
  /\ UNCHANGED <<added, container, batch, executed, wheelVars>>

\* A tick after a batch does nothing, any other flushes the container, and
\* after many idle ones the goroutine ends, unless a batch is on its way.
FlushTick ==
  /\ guarded
  /\ IF commanded
     THEN commanded' = FALSE /\ UNCHANGED <<container, executed, guarded>>
     ELSE /\ executed' = executed \o container /\ container' = <<>>
          /\ guarded' = (container # <<>> \/ batch # <<>>)
          /\ UNCHANGED commanded
  /\ UNCHANGED <<added, batch, wheelVars>>

BulkNext == AddTask \/ TakeBatch \/ FlushTick

-----------------------------------------------------------------------------
(* The wheel.                                                               *)
WheelMain ==
  /\ wheel = "none" /\ wheel' \in {"wheel", "traditional", "leak"}
  /\ UNCHANGED <<clock, timers, fired, bulkVars>>

\* SetTimer, from the endless loop of timingWheelMode, from do() for each
\* key, or a goroutine with a timer of its own in traditional mode.
SetTimer ==
  /\ wheel # "none" /\ Len(timers) < Tasks
  /\ timers' = Append(timers, [at |-> clock, slot |-> (clock + Steps) % Slots,
                               circle |-> (Steps - 1) \div Slots])
  /\ fired' = Append(fired, <<>>)
  /\ UNCHANGED <<clock, wheel, bulkVars>>

Pending(t) == fired[t] = <<>>

\* The timers whose job this tick runs; job adds one to the counter.
Due(t) ==
  /\ Pending(t)
  /\ IF wheel = "traditional" THEN clock + 1 >= timers[t].at + Steps
     ELSE timers[t].slot = (clock + 1) % Slots /\ timers[t].circle = 0

WheelTick ==
  /\ wheel # "none" /\ clock < MaxClock
  /\ clock' = clock + 1
  /\ fired' = [t \in DOMAIN fired |->
                 IF Due(t) THEN Append(fired[t], clock + 1) ELSE fired[t]]
  /\ timers' = [t \in DOMAIN timers |->
                  IF timers[t].slot = (clock + 1) % Slots /\ timers[t].circle > 0
                  THEN [timers[t] EXCEPT !.circle = @ - 1] ELSE timers[t]]
  /\ UNCHANGED <<wheel, bulkVars>>

WheelNext == WheelMain \/ SetTimer \/ WheelTick

-----------------------------------------------------------------------------
\* Every task added runs, once and in its turn, although Add and the ticks race
\* for the container, batches overtake nothing, and the goroutine that flushes
\* ends when idle and skips the tick after a batch.
TasksRun ==
  \A n \in 1..Tasks :
    (added >= n) ~> [](n <= Len(executed) /\ executed[n] = n /\ Len(executed) <= added)
=============================================================================
