------------------------------ MODULE LoadTools ------------------------------
(***************************************************************************)
(* Three programs that put a service under load and count.                 *)
(*   load/main.go: requests that only sleep, the number in flight and      *)
(*     three averages of it, a row of result.csv now and then.             *)
(*   load/simulate: a client that counts outcomes, once a second swaps the *)
(*     counters one after the other into a row, and a server whose handler *)
(*     gives up on its job after 100 ms.                                   *)
(*   breaker/main.go: a simulated server behind go-zero's breaker          *)
(*     (external: it lets a call through or rejects it).                   *)
(* Averages and rates are data; the model keeps how many samples went into *)
(* each average and which requests a row speaks of.                        *)
(***************************************************************************)
EXTENDS Integers, Sequences, FiniteSets

CONSTANTS
  Requests,   \* the requests of a behaviour
  Spinners,   \* runtime.NumCPU(), goroutines that a job keeps busy
  MaxRows     \* bound: rows a reporter writes

ASSUME LoadAssumption ==
  IsFiniteSet(Requests) /\ Spinners \in Nat /\ MaxRows \in Nat

-----------------------------------------------------------------------------
(* load/main.go *)
VARIABLES
  load,     \* per request: "new", "started", "sampled", "landed", "done"
  flying,   \* the atomic counter
  sample,   \* per average: number of samples folded into it
  seenAt,   \* per request: the value v of flying it saw
  closed,   \* main has returned and fp is closed
  rows,     \* the last row's maxFlight; a row was written after fp was closed
  pass,     \* passCounter: the buckets, the current one first
  rt,       \* rtCounter: sum and count per bucket
  slides    \* bound: how often a window has moved on

windowVars == <<pass, rt, slides>>
loadVars == <<load, flying, sample, seenAt, closed, rows, windowVars>>
EmptyBucket == [sum |-> 0, count |-> 0]
Averages == {"aggressive", "lazy", "both"}

LoadInit ==
  /\ load = [r \in Requests |-> "new"] /\ flying = 0
  /\ sample = [a \in Averages |-> 0] /\ seenAt = [r \in Requests |-> 0]
  /\ closed = FALSE /\ rows = [flight |-> <<>>, late |-> FALSE]
  /\ pass = <<EmptyBucket, EmptyBucket>> /\ rt = <<EmptyBucket, EmptyBucket>> /\ slides = 0

(* maxFlight, over the buckets of the two rolling windows.                  *)
\* The largest number of passes in a bucket, at least 1.
MaxPass(buckets) ==
  LET sums == {1} \cup {buckets[i].sum : i \in DOMAIN buckets} IN CHOOSE m \in sums : \A s \in sums : s <= m
\* The smallest rounded average response time (ms) of a bucket that has one.
MinRt(buckets) ==
  LET avgs == {1000} \cup {(2 * buckets[i].sum + buckets[i].count) \div (2 * buckets[i].count) :
                             i \in {j \in DOMAIN buckets : buckets[j].count > 0}}
  IN  CHOOSE m \in avgs : \A a \in avgs : m <= a
MaxFlight ==
  LET estimate == (MaxPass(pass) * 10 * MinRt(rt)) \div 1000
  IN  IF estimate < 1 THEN 1 ELSE estimate

\* batchRequests: waitGroup.Add(1), then go.
Batch(r) ==
  /\ load[r] = "new" /\ ~closed
  /\ load' = [load EXCEPT ![r] = "started"]
  /\ UNCHANGED <<flying, sample, seenAt, closed, rows, windowVars>>

\* issueRequest up to job: flying, then the aggressive and the both average,
\* each under its lock.
Takeoff(r) ==
  /\ load[r] = "started"
  /\ flying' = flying + 1 /\ seenAt' = [seenAt EXCEPT ![r] = flying + 1]
  /\ load' = [load EXCEPT ![r] = "sampled"]
  /\ UNCHANGED <<sample, closed, rows, windowVars>>

SampleStart(r) ==
  /\ load[r] = "sampled"
  /\ sample' = [sample EXCEPT !["aggressive"] = @ + 1, !["both"] = @ + 1]
  /\ load' = [load EXCEPT ![r] = "flying"]
  /\ UNCHANGED <<flying, seenAt, closed, rows, windowVars>>

\* The job has slept for d ms: both windows get it; AddUint64(^0) takes one
\* from flying.
Land(r) ==
  \E d \in {1, 10} :
    /\ load[r] = "flying" /\ flying' = flying - 1
    /\ pass' = [pass EXCEPT ![1].sum = @ + 1, ![1].count = @ + 1]
    /\ rt' = [rt EXCEPT ![1].sum = @ + d, ![1].count = @ + 1]
    /\ load' = [load EXCEPT ![r] = "landed"]
    /\ UNCHANGED <<sample, seenAt, closed, rows, slides>>

\* Time passes: one of the rolling windows starts a new bucket.
Slide ==
  /\ slides < MaxRows /\ slides' = slides + 1
  /\ \/ pass' = <<EmptyBucket, pass[1]>> /\ UNCHANGED rt
     \/ rt' = <<EmptyBucket, rt[1]>> /\ UNCHANGED pass
  /\ UNCHANGED <<load, flying, sample, seenAt, closed, rows>>

\* The lazy and the both average, then DoOrDiscard writes a row or not.
SampleEnd(r) ==
  /\ load[r] = "landed"
  /\ sample' = [sample EXCEPT !["lazy"] = @ + 1, !["both"] = @ + 1]
  /\ \/ rows' = [flight |-> <<MaxFlight>>, late |-> rows.late \/ closed]
     \/ UNCHANGED rows
  /\ load' = [load EXCEPT ![r] = "done"]
  /\ UNCHANGED <<flying, seenAt, closed, windowVars>>

\* waitGroup.Wait, then the deferred fp.Close; every batch was started.
LoadEnd ==
  /\ ~closed /\ \A r \in Requests : load[r] = "done"
  /\ closed' = TRUE
  /\ UNCHANGED <<load, flying, sample, seenAt, rows, windowVars>>

LoadRequest(r) == Batch(r) \/ Takeoff(r) \/ SampleStart(r) \/ Land(r) \/ SampleEnd(r)
LoadNext == LoadEnd \/ Slide \/ \E r \in Requests : LoadRequest(r)

-----------------------------------------------------------------------------
(* load/simulate *)
VARIABLES
  sim,      \* per request of the client: "new", "sent", "done"
  serving,  \* per request at the server: "none", "job", "left", "over"
  reply,    \* per request: "none", "ok" or "unavailable", what the server wrote
  spinning, \* per request: goroutines its job keeps busy
  counter,  \* total, pass, fail, drop
  swapped,  \* the counters a row has so far, and how many were swapped
  simRows   \* the rows added up

simVars == <<sim, serving, reply, spinning, counter, swapped, simRows>>
Columns == <<"total", "pass", "fail", "drop">>
ZeroRow == [c \in {Columns[i] : i \in 1..4} |-> 0]

SimInit ==
  /\ sim = [r \in Requests |-> "new"] /\ serving = [r \in Requests |-> "none"]
  /\ reply = [r \in Requests |-> "none"] /\ spinning = [r \in Requests |-> 0]
  /\ counter = ZeroRow /\ swapped = [n |-> 0, row |-> ZeroRow, rows |-> 0]
  /\ simRows = ZeroRow

\* issueRequest counts the total and calls DoWithTimeout; the server's
\* handler starts a job with its busy goroutines.
IssueRequest(r) ==
  /\ sim[r] = "new"
  /\ sim' = [sim EXCEPT ![r] = "sent"]
  /\ counter' = [counter EXCEPT !["total"] = @ + 1]
  /\ \/ /\ serving' = [serving EXCEPT ![r] = "job"]
        /\ spinning' = [spinning EXCEPT ![r] = Spinners]
        /\ UNCHANGED reply
     \/ /\ reply' \in {reply, [reply EXCEPT ![r] = "unavailable"]}
        /\ UNCHANGED <<serving, spinning>>       \* not connected, or shed
  /\ UNCHANGED <<swapped, simRows>>

\* The handler: the job ends in time, or after 100 ms the handler answers
\* 503 and leaves the job behind.
HandlerDone(r) ==
  /\ serving[r] = "job"
  /\ serving' = [serving EXCEPT ![r] = "over"] /\ reply' = [reply EXCEPT ![r] = "ok"]
  /\ UNCHANGED <<sim, spinning, counter, swapped, simRows>>

HandlerTimeout(r) ==
  /\ serving[r] = "job"
  /\ serving' = [serving EXCEPT ![r] = "left"]
  /\ reply' = [reply EXCEPT ![r] = "unavailable"]
  /\ UNCHANGED <<sim, spinning, counter, swapped, simRows>>

\* A job that was left behind still sleeps to its end and closes done.
JobEnd(r) ==
  /\ serving[r] = "left"
  /\ serving' = [serving EXCEPT ![r] = "over"]
  /\ UNCHANGED <<sim, reply, spinning, counter, swapped, simRows>>

\* A busy goroutine sees that done is closed.
SpinnerStops(r) ==
  /\ serving[r] = "over" /\ spinning[r] > 0
  /\ spinning' = [spinning EXCEPT ![r] = @ - 1]
  /\ UNCHANGED <<sim, serving, reply, counter, swapped, simRows>>

\* The client counts nil as pass, 503 as drop, and its own timeout of one
\* second or an error of the connection as fail.
CountOutcome(r) ==
  /\ sim[r] = "sent" /\ sim' = [sim EXCEPT ![r] = "done"]
  /\ \/ reply[r] = "ok" /\ counter' = [counter EXCEPT !["pass"] = @ + 1]
     \/ reply[r] = "unavailable" /\ counter' = [counter EXCEPT !["drop"] = @ + 1]
     \/ counter' = [counter EXCEPT !["fail"] = @ + 1]
  /\ UNCHANGED <<serving, reply, spinning, swapped, simRows>>

\* Defect: a counter is set to zero only when the row has been written.
SwapLoadOnly ==
  LET c == Columns[swapped.n + 1] IN
  /\ swapped.n < 4 /\ swapped.rows < MaxRows
  /\ swapped' = [swapped EXCEPT !.n = @ + 1, !.row[c] = counter[c]]
  /\ UNCHANGED <<sim, serving, reply, spinning, counter, simRows>>

\* reset: SwapInt64 of total, pass, fail and drop, in this order.
Swap ==
  LET c == Columns[swapped.n + 1] IN
  /\ swapped.n < 4 /\ swapped.rows < MaxRows
  /\ swapped' = [swapped EXCEPT !.n = @ + 1, !.row[c] = counter[c]]
  /\ counter' = [counter EXCEPT ![c] = 0]
  /\ UNCHANGED <<sim, serving, reply, spinning, simRows>>

WriteSimRow ==
  /\ swapped.n = 4
  /\ simRows' = [c \in DOMAIN simRows |-> simRows[c] + swapped.row[c]]
  /\ swapped' = [n |-> 0, row |-> ZeroRow, rows |-> swapped.rows + 1]
  /\ UNCHANGED <<sim, serving, reply, spinning, counter>>

ServerStep(r) ==
  HandlerDone(r) \/ HandlerTimeout(r) \/ JobEnd(r) \/ SpinnerStops(r)
SimNext ==
  \/ Swap \/ WriteSimRow
  \/ \E r \in Requests : IssueRequest(r) \/ CountOutcome(r) \/ ServerStep(r)

-----------------------------------------------------------------------------
(* breaker/main.go *)
VARIABLES
  up,       \* the simulated server's state
  calls,    \* the metrics: google and netflix calls
  served,   \* history: calls the server has seen
  report,   \* the reporter: "idle", "google" (nm.reset next), "netflix"
  held,     \* what reset has returned for the row
  csv,      \* rows added up
  brEnd     \* "run", "over" (done is closed), "exit"

brVars == <<up, calls, served, report, held, csv, brEnd>>
ZeroCalls == [google |-> 0, netflix |-> 0]

BrInit ==
  /\ up = FALSE /\ calls = ZeroCalls /\ served = 0 /\ report = "idle"
  /\ held = ZeroCalls /\ csv = ZeroCalls /\ brEnd = "run"

\* server.start: the state flips after a random time.
Flip == brEnd # "exit" /\ up' = ~up
        /\ UNCHANGED <<calls, served, report, held, csv, brEnd>>

\* runBreaker: a tick asks the breaker, which rejects the call or lets it
\* through to serve; serve counts it whatever the state of the server.
BreakerCall ==
  /\ brEnd # "exit" /\ served < Cardinality(Requests)
  /\ served' = served + 1 /\ calls' = [calls EXCEPT !.google = @ + 1]
  /\ UNCHANGED <<up, report, held, csv, brEnd>>

BreakerDone ==
  /\ brEnd \in {"run", "over"}
  /\ brEnd' = IF brEnd = "run" THEN "over" ELSE "exit"
  /\ UNCHANGED <<up, calls, served, report, held, csv>>

\* The reporter swaps the two metrics, then writes the row.
ResetGoogle ==
  /\ report = "idle" /\ brEnd # "exit" /\ report' = "google"
  /\ held' = [held EXCEPT !.google = calls.google] /\ calls' = [calls EXCEPT !.google = 0]
  /\ UNCHANGED <<up, served, csv, brEnd>>

ResetNetflix ==
  /\ report = "google" /\ brEnd # "exit" /\ report' = "netflix"
  /\ held' = [held EXCEPT !.netflix = calls.netflix] /\ calls' = [calls EXCEPT !.netflix = 0]
  /\ UNCHANGED <<up, served, csv, brEnd>>

WriteCalls ==
  /\ report = "netflix" /\ brEnd # "exit" /\ report' = "idle"
  /\ csv' = [c \in DOMAIN csv |-> csv[c] + held[c]] /\ held' = ZeroCalls
  /\ UNCHANGED <<up, calls, served, brEnd>>

BrNext == Flip \/ BreakerCall \/ BreakerDone \/ ResetGoogle \/ ResetNetflix \/ WriteCalls

-----------------------------------------------------------------------------
\* Nothing is lost between the counters, the row that a reporter is putting
\* together and the file, although requests end between two swaps: in the
\* simulated client all requests are in total and all that ended in pass, fail
\* or drop, in the breaker simulation every call served is in one row, and the
\* load generator's number in flight is that of the requests between their two
\* AddUint64, zero when main closes its file, to which no row is added then.
CountsAddUp ==
  LET all == [c \in DOMAIN simRows |-> simRows[c] + swapped.row[c] + counter[c]]
  IN  /\ all["total"] = Cardinality({r \in Requests : sim[r] # "new"})
      /\ all["pass"] + all["fail"] + all["drop"] =
           Cardinality({r \in Requests : sim[r] = "done"})
      /\ csv.google + held.google + calls.google = served
      /\ flying = Cardinality({r \in Requests : load[r] \in {"sampled", "flying"}})
      /\ closed => flying = 0
      /\ ~rows.late
=============================================================================
