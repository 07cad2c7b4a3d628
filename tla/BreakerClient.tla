--------------------------- MODULE BreakerClient ---------------------------
(***************************************************************************)
(* The load generator http/breaker/client: goroutines started by a ticker  *)
(* request one URL and count the outcomes in a metric; once a second       *)
(* another goroutine takes the counters, resets them and writes a row of   *)
(* result.csv.  (main keeps two such metrics, which share nothing.)  The   *)
(* metric's methods hold its lock: each is one step.                       *)
(***************************************************************************)
EXTENDS Integers

CONSTANT MaxRequests   \* bound: requests of a behaviour

ASSUME MaxRequestsAssumption == MaxRequests \in Nat

\* The counters of a metric, which are the columns of the file.
Counter == {"ok", "fail", "reject", "errs", "unknown"}

\* What comes of a request, named for the column it belongs in: status 200,
\* 500 and 503, no response, any other status.
Outcome == Counter

VARIABLES
    started,   \* requests started
    inFlight,  \* requests under way
    metric,    \* the counters
    taken,     \* what reset returned, until it is written
    taking,    \* the reporter is between reset and the write
    written,   \* the rows of the file, added up
    ended,     \* history: requests that have ended, by outcome
    phase      \* of main: "run", "closed" (done is), "wait" (runRequests has
               \* returned), "exit"

requestVars == <<started, inFlight, ended>>
reportVars  == <<taken, taking, written>>
clientVars == <<requestVars, metric, reportVars, phase>>

Zero       == [k \in Counter |-> 0]
Plus(a, b) == [k \in Counter |-> a[k] + b[k]]

ClientInit ==
    /\ started = 0 /\ inFlight = 0
    /\ metric = Zero /\ taken = Zero /\ written = Zero /\ ended = Zero
    /\ taking = FALSE
    /\ phase = "run"

-----------------------------------------------------------------------------
(* runRequests *)

\* The ticker's case of the select, which may still win when done is closed.
Request ==
    /\ phase \in {"run", "closed"}
    /\ started < MaxRequests
    /\ started' = started + 1
    /\ inFlight' = inFlight + 1
    /\ UNCHANGED <<metric, ended, reportVars, phase>>

\* The counter that addOk, addFail, addReject, addErrs or addUnknown increments.
Incremented(outcome) ==
    IF outcome \in {"ok", "fail", "reject"} THEN "ok" ELSE outcome

\* The response, or an error, arrives; done being closed does not matter.
Finish(outcome) ==
    /\ inFlight > 0 /\ phase # "exit"
    /\ inFlight' = inFlight - 1
    /\ metric' = [metric EXCEPT ![Incremented(outcome)] = @ + 1]
    /\ ended' = [ended EXCEPT ![outcome] = @ + 1]
    /\ UNCHANGED <<started, reportVars, phase>>

-----------------------------------------------------------------------------
(* main: the reporter and the end of the run *)

\* Mutant of Reset: one of the counters is not set back.
ResetForgetsErrs ==
    /\ ~taking /\ phase # "exit"
    /\ taken' = metric
    /\ metric' = [Zero EXCEPT !["errs"] = metric["errs"]]
    /\ taking' = TRUE
    /\ UNCHANGED <<requestVars, written, phase>>

Reset ==
    /\ ~taking /\ phase # "exit"
    /\ taken' = metric
    /\ metric' = Zero
    /\ taking' = TRUE
    /\ UNCHANGED <<requestVars, written, phase>>

WriteRow ==
    /\ taking /\ phase # "exit"
    /\ written' = Plus(written, taken)
    /\ taken' = Zero
    /\ taking' = FALSE
    /\ UNCHANGED <<requestVars, metric, phase>>

\* The duration is over: done is closed.  Requests under way are not awaited.
CloseDone ==
    /\ phase = "run"
    /\ phase' = "closed"
    /\ UNCHANGED <<requestVars, metric, reportVars>>

\* runRequests sees that done is closed and returns; group.Wait is over.
RunReturns ==
    /\ phase = "closed"
    /\ phase' = "wait"
    /\ UNCHANGED <<requestVars, metric, reportVars>>

\* main returns, wherever the other goroutines are.
ClientExit ==
    /\ phase = "wait"
    /\ phase' = "exit"
    /\ UNCHANGED <<requestVars, metric, reportVars>>

ClientNext ==
    \/ Request \/ (\E outcome \in Outcome : Finish(outcome))
    \/ Reset \/ WriteRow \/ CloseDone \/ RunReturns \/ ClientExit

ClientSpec == ClientInit /\ [][ClientNext]_clientVars
-----------------------------------------------------------------------------
\* What a metric's counters, or a row's columns, add up to.
Total(m) == m["ok"] + m["fail"] + m["reject"] + m["errs"] + m["unknown"]

\* Every request that has ended is counted once: it is in exactly one row, or
\* in the counters taken for the next one, or in the metric, though requests
\* end while the reporter takes and resets the counters.
CountedOnce ==
    Total(metric) + Total(taken) + Total(written) = Total(ended)

\* The header of result.csv: each outcome is counted in the column that is
\* named for it.
ColumnsAreTrue ==
    \A k \in Counter : metric[k] + taken[k] + written[k] = ended[k]
=============================================================================
