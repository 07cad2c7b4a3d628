-------------------------------- MODULE Pool --------------------------------
(***************************************************************************)
(* pool/pool.go: goroutines take a resource from go-zero's syncx.Pool and  *)
(* put it back, until the operator presses enter and quit is closed.  The  *)
(* pool (external) is a mutex, a condition variable and a stack of free    *)
(* nodes; nodes unused for longer than maxAge are destroyed by Get.        *)
(* syncx/sharedcalls: goroutines share one call through SingleFlight.      *)
(***************************************************************************)
EXTENDS Naturals, FiniteSets

CONSTANTS
  Routines,   \* the goroutines (100 and 5 in the code)
  Limit,      \* the pool's limit (80 in the code)
  Uses        \* bound: how often a goroutine goes round its loop

ASSUME PoolAssumption == Limit \in Nat \ {0} /\ Uses \in Nat

VARIABLES
  routine,   \* per goroutine: "loop", "get", "wait" on the condition, "hold", "quit"
  uses,      \* per goroutine: rounds so far
  free,      \* number of free nodes, the most recently used one on top
  created,   \* the pool's own counter
  counted,   \* pool.go's count, changed by create and destroy
  consumed,  \* pool.go's consumed
  quit,      \* quit is closed
  poolEnd,   \* main has returned from waitGroup.Wait
  call,      \* sharedcalls: per goroutine "start", "run", "join", "done"
  value      \* sharedcalls: the value each goroutine printed

poolVars == <<routine, uses, free, created, counted, consumed, quit, poolEnd, call, value>>
flightVars == <<call, value>>

PoolInit ==
  /\ routine = [r \in Routines |-> "loop"] /\ uses = [r \in Routines |-> 0]
  /\ free = 0 /\ created = 0 /\ counted = 0 /\ consumed = 0
  /\ quit = FALSE /\ poolEnd = FALSE
  /\ call = [r \in Routines |-> "start"] /\ value = [r \in Routines |-> {}]

\* The select at the top of the loop.
LoopSelect(r) ==
  /\ routine[r] = "loop"
  /\ \/ quit /\ routine' = [routine EXCEPT ![r] = "quit"]
     \/ ~quit /\ uses[r] < Uses /\ routine' = [routine EXCEPT ![r] = "get"]
  /\ UNCHANGED <<uses, free, created, counted, consumed, quit, poolEnd, flightVars>>

\* Pool.Get under the lock: the top node, unless it and so all others have
\* aged; a new resource below the limit; otherwise wait for a Put.
Get(r) ==
  /\ routine[r] = "get"
  /\ \/ /\ free > 0
        /\ free' = free - 1 /\ UNCHANGED <<created, counted>>
        /\ routine' = [routine EXCEPT ![r] = "hold"]
     \/ /\ created - free < Limit      \* no node, or every node has aged
        /\ free' = 0
        /\ created' = created - free + 1 /\ counted' = counted - free + 1
        /\ routine' = [routine EXCEPT ![r] = "hold"]
     \/ /\ free = 0 /\ created = Limit
        /\ routine' = [routine EXCEPT ![r] = "wait"]
        /\ UNCHANGED <<free, created, counted>>
  /\ UNCHANGED <<uses, consumed, quit, poolEnd, flightVars>>

\* Defect: the resource is used but not put back.
PutForgotten(r) ==
  /\ routine[r] = "hold"
  /\ consumed' = consumed + 1 /\ uses' = [uses EXCEPT ![r] = @ + 1]
  /\ routine' = [routine EXCEPT ![r] = "loop"]
  /\ UNCHANGED <<free, created, counted, quit, poolEnd, flightVars>>

\* The resource is consumed; Pool.Put pushes it and wakes one waiter.
ConsumeAndPut(r) ==
  /\ routine[r] = "hold"
  /\ consumed' = consumed + 1 /\ uses' = [uses EXCEPT ![r] = @ + 1]
  /\ free' = free + 1
  /\ LET waiting == {w \in Routines : routine[w] = "wait"} IN
     \/ waiting = {} /\ routine' = [routine EXCEPT ![r] = "loop"]
     \/ \E w \in waiting :
          routine' = [routine EXCEPT ![r] = "loop", ![w] = "get"]
  /\ UNCHANGED <<created, counted, quit, poolEnd, flightVars>>

\* Enter is pressed.
CloseQuit ==
  /\ ~quit /\ quit' = TRUE
  /\ UNCHANGED <<routine, uses, free, created, counted, consumed, poolEnd, flightVars>>

\* waitGroup.Wait returns.
PoolExit ==
  /\ quit /\ ~poolEnd /\ \A r \in Routines : routine[r] = "quit"
  /\ poolEnd' = TRUE
  /\ UNCHANGED <<routine, uses, free, created, counted, consumed, quit, flightVars>>

\* sharedcalls: SingleFlight.Do joins the call under way or starts one.
DoCall(r) ==
  /\ call[r] = "start"
  /\ call' = [call EXCEPT ![r] =
                IF \E l \in Routines : call[l] = "run" THEN "join" ELSE "run"]
  /\ UNCHANGED <<value, routine, uses, free, created, counted, consumed, quit, poolEnd>>

\* The function returns a fresh random id, named here by the goroutine that
\* ran it; it and those that joined print it and are done with wg.
CallLands(r) ==
  LET party == {r} \cup {j \in Routines : call[j] = "join"} IN
  /\ call[r] = "run"
  /\ call' = [j \in Routines |-> IF j \in party THEN "done" ELSE call[j]]
  /\ value' = [j \in Routines |-> IF j \in party THEN {r} ELSE value[j]]
  /\ UNCHANGED <<routine, uses, free, created, counted, consumed, quit, poolEnd>>

PoolRoutine(r) == LoopSelect(r) \/ Get(r) \/ ConsumeAndPut(r)
CallRoutine(r) == DoCall(r) \/ CallLands(r)
PoolNext == CloseQuit \/ PoolExit \/ \E r \in Routines : PoolRoutine(r)
CallNext == \E r \in Routines : CallRoutine(r)

-----------------------------------------------------------------------------
\* Goroutines waiting in Get are not forgotten: once quit is closed every one
\* gets its turn, leaves the loop, and main returns from Wait; every resource
\* is back by then, no more than Limit exist, and the counter that the create
\* and destroy callbacks keep tells their number.
PoolDrains ==
  quit ~> (poolEnd /\ free = created /\ created <= Limit /\ counted = created)
=============================================================================
