------------------------------ MODULE Lifecycle ------------------------------
(***************************************************************************)
(* signal/main.go: a goroutine takes SIGUSR1 and SIGTERM from a channel    *)
(* with one slot; the runtime drops a signal that finds the slot taken.    *)
(* servicegroup/main.go: two HTTP services on one mux in a service group.  *)
(***************************************************************************)
EXTENDS Naturals, Sequences, FiniteSets

CONSTANT MaxSignals   \* bound: signals sent to the process

VARIABLES
  slot,      \* the signals channel
  handler,   \* the goroutine: "idle", "dump", "term", "grace" (5 s sleep)
  alive,     \* the process runs
  sentSigs,  \* signals sent so far
  termed,    \* history: a SIGTERM has entered the channel
  dumps,     \* history: dump files written
  mux,       \* servicegroup: paths registered on DefaultServeMux
  service,   \* per service "new", "listen", "serving", "returned"
  stopped,   \* per service, calls of Stop
  group      \* "new", "running", "returned"

sigVars == <<slot, handler, alive, sentSigs, termed, dumps>>
groupVars == <<mux, service, stopped, group>>
lifeVars == <<sigVars, groupVars>>

Services == {"morning", "evening"}

LifecycleInit ==
  /\ slot = <<>> /\ handler = "idle" /\ alive = TRUE /\ sentSigs = 0
  /\ termed = FALSE /\ dumps = 0
  /\ mux = {} /\ service = [s \in Services |-> "new"]
  /\ stopped = [s \in Services |-> 0] /\ group = "new"

\* A signal arrives.  It enters the channel if there is room and is lost if
\* not; after signal.Stop the default action of either signal ends the process.
Signal(v) ==
  /\ alive /\ sentSigs < MaxSignals /\ sentSigs' = sentSigs + 1
  /\ IF handler = "grace" THEN alive' = FALSE /\ UNCHANGED <<slot, termed>>
     ELSE /\ slot' = IF slot = <<>> THEN <<v>> ELSE slot
          /\ termed' = (termed \/ (v = "TERM" /\ slot = <<>>))
          /\ UNCHANGED alive
  /\ UNCHANGED <<handler, dumps, groupVars>>

TakeSignal ==
  /\ alive /\ handler = "idle" /\ slot # <<>>
  /\ handler' = IF Head(slot) = "USR1" THEN "dump" ELSE "term"
  /\ slot' = <<>>
  /\ UNCHANGED <<alive, sentSigs, termed, dumps, groupVars>>

\* dumpGoroutines, whether or not the file can be created.
DumpGoroutines ==
  /\ alive /\ handler = "dump" /\ handler' = "idle"
  /\ dumps' \in {dumps, dumps + 1}
  /\ UNCHANGED <<slot, alive, sentSigs, termed, groupVars>>

\* Defect: the handler does not give the signal back before it kills the
\* process: its own SIGTERM goes to its channel.
SignalStopForgotten ==
  /\ alive /\ handler = "term" /\ handler' = "idle" /\ slot' = <<"TERM">>
  /\ UNCHANGED <<alive, sentSigs, termed, dumps, groupVars>>

\* gracefulStop gives the signals back; one that came first stays unread.
SignalStop ==
  /\ alive /\ handler = "term" /\ handler' = "grace"
  /\ UNCHANGED <<slot, alive, sentSigs, termed, dumps, groupVars>>

\* After five seconds, SIGTERM to itself, which now has its default action.
GracefulStop ==
  /\ alive /\ handler = "grace" /\ alive' = FALSE
  /\ UNCHANGED <<slot, handler, sentSigs, termed, dumps, groupVars>>

\* Enter ends main.
EnterPressed ==
  /\ alive /\ alive' = FALSE
  /\ UNCHANGED <<slot, handler, sentSigs, termed, dumps, groupVars>>

HandlerNext == TakeSignal \/ DumpGoroutines \/ SignalStop \/ GracefulStop
SigNext == HandlerNext \/ EnterPressed \/ \E v \in {"USR1", "TERM"} : Signal(v)

-----------------------------------------------------------------------------
GroupStart ==
  /\ group = "new" /\ group' = "running"
  /\ service' = [s \in Services |-> "listen"]
  /\ UNCHANGED <<mux, stopped, sigVars>>

\* Morning.Start and Evening.Start: register the handler, then listen; the
\* error of ListenAndServe is dropped and Start returns.
ServiceListen(s) ==
  /\ service[s] = "listen"
  /\ mux' = mux \cup {s}
  /\ service' = [service EXCEPT ![s] = "serving"]
  /\ UNCHANGED <<stopped, group, sigVars>>

ListenFails(s) ==
  /\ service[s] = "serving"
  /\ service' = [service EXCEPT ![s] = "returned"]
  /\ UNCHANGED <<mux, stopped, group, sigVars>>

\* group.Start returns when every Start has, then main's deferred Stop runs.
GroupEnd ==
  /\ group = "running" /\ \A s \in Services : service[s] = "returned"
  /\ group' = "returned"
  /\ stopped' = [s \in Services |-> stopped[s] + 1]
  /\ UNCHANGED <<mux, service, sigVars>>

GroupNext ==
  GroupStart \/ GroupEnd \/ \E s \in Services : ServiceListen(s) \/ ListenFails(s)

-----------------------------------------------------------------------------
\* A SIGTERM that the channel accepted ends the process: dumping for SIGUSR1
\* only delays it, and the process's own SIGTERM is not caught again.
TermEndsProcess == termed ~> ~alive
=============================================================================
