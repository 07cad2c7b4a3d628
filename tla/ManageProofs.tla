---------------------------- MODULE ManageProofs ----------------------------
(***************************************************************************)
(* Proofs about bookstore/manage.sh, for any number of process ids and any *)
(* stale pid files.  That no service escapes once it is recorded and that  *)
(* `all stopped' is true of those do not depend on how the kernel gives    *)
(* out ids; that signals go to the right process does.                     *)
(***************************************************************************)
EXTENDS Manage, SequenceTheorems, TLAPS

USE ManageAssumption DEF Pid, Service

\* The script is at a step of the function it is running.
InFunction ==
    /\ pc = "idle" <=> todo = <<>>
    /\ pc \in {"spawn", "record", "verify"} => Head(todo).call = "start"
    /\ pc \in {"kill", "force"} => Head(todo).call = "stop"

\* The file and the id of the service at hand, between two steps.
InHand ==
    /\ pc \in {"spawn", "record"} => pidFile[Arg] = NoPid
    /\ pc = "record" => pid \in Pid
    /\ pc \in {"kill", "force"} => pid \in Pid /\ pidFile[Arg] = pid

\* A live service is in its pid file, about to be recorded there, or lost.
Owned ==
    \A p \in Pid : proc[p] \in Service =>
        \/ p \in lost
        \/ pidFile[proc[p]] = p
        \/ pc = "record" /\ pid = p /\ Arg = proc[p]

\* No process of the service is left but lost ones.
Gone(s) == \A p \in Pid : proc[p] = s => p \in lost

\* While `all stopped' is still to be printed, the script only stops services,
\* and those it need not stop any more are gone.
Stopping ==
    \A n \in 1..Len(todo) : todo[n] = Say("stopped") =>
        /\ \A i \in 1..(n - 1) : todo[i].call = "stop"
        /\ \A s \in Service : \/ \E i \in 1..(n - 1) : todo[i] = Stop(s)
                              \/ Gone(s)

\* If ids are given out once, an id in a pid file, or about to be recorded,
\* belongs to that service's process, dead or alive.
FilesAreTrue ==
    ~PidReuse =>
        /\ \A s \in Service : pidFile[s] \in Pid => proc[pidFile[s]] \in {s, "dead"}
        /\ pc = "record" => proc[pid] \in {Arg, "dead"}

IndInv ==
    TypeOK /\ InFunction /\ InHand /\ Owned /\ Stopping /\ StoppedIsTrue /\ FilesAreTrue

-----------------------------------------------------------------------------
(* The functions still to call *)

USE DEF Start, Stop, Status, Say

\* What a call may be.
LEMMA CallTypes ==
    ASSUME NEW x \in Calls
    PROVE  /\ x.call \in {"start", "stop", "status"} => x.arg \in Service
           /\ x.call = "stop" => x = Stop(x.arg)
           /\ x.call = "say" => x.arg \in {"started", "stopped"}
BY DEF Calls

\* The function at hand.
LEMMA HeadCall ==
    ASSUME TypeOK, todo # <<>>
    PROVE  /\ Head(todo) \in Calls /\ Head(todo) = todo[1] /\ 1 \in 1..Len(todo)
           /\ Tail(todo) \in Seq(Calls) /\ Len(Tail(todo)) = Len(todo) - 1
           /\ \A i \in 1..Len(Tail(todo)) : Tail(todo)[i] = todo[i + 1]
BY DEF TypeOK

\* What only the first of two sequences holds is found there, and so is all
\* that comes before it.
LEMMA ConcatBefore ==
    ASSUME NEW S, NEW q \in Seq(S), NEW r \in Seq(S), NEW x,
           \A n \in 1..Len(r) : r[n] # x
    PROVE  \A n \in 1..Len(q \o r) : (q \o r)[n] = x =>
              /\ n \in 1..Len(q) /\ q[n] = x
              /\ \A i \in 1..(n - 1) : (q \o r)[i] = q[i]
OBVIOUS

\* Every command is a sequence of calls that has all three stops before its
\* `all stopped', and nothing else.
LEMMA CommandCalls ==
    ASSUME NEW cmd \in Commands
    PROVE  /\ cmd \in Seq(Calls) /\ cmd # <<>>
           /\ \A n \in 1..Len(cmd) : cmd[n] = Say("stopped") =>
                 /\ \A i \in 1..(n - 1) : cmd[i].call = "stop"
                 /\ \A s \in Service : \E i \in 1..(n - 1) : cmd[i] = Stop(s)
<1>1. \A s \in Service : Start(s) \in Calls /\ Stop(s) \in Calls /\ Status(s) \in Calls
  BY DEF Calls
<1>2. Say("started") \in Calls /\ Say("stopped") \in Calls
  BY DEF Calls
<1>3. /\ StopAll \in Seq(Calls) /\ Len(StopAll) = 4
      /\ StopAll[1] = Stop("api") /\ StopAll[2] = Stop("check")
      /\ StopAll[3] = Stop("add") /\ StopAll[4] = Say("stopped")
  BY <1>1, <1>2 DEF StopAll
<1>4. /\ StartAll \in Seq(Calls) /\ Len(StartAll) = 4
      /\ \A n \in 1..4 : StartAll[n] # Say("stopped")
  BY <1>1, <1>2 DEF StartAll
<1>5. ASSUME NEW n \in 1..Len(StopAll), StopAll[n] = Say("stopped")
      PROVE  /\ \A i \in 1..(n - 1) : StopAll[i].call = "stop"
             /\ \A s \in Service : \E i \in 1..(n - 1) : StopAll[i] = Stop(s)
  <2>1. n = 4
    BY <1>3, <1>5
  <2>2. 1 \in 1..(n - 1) /\ 2 \in 1..(n - 1) /\ 3 \in 1..(n - 1)
    BY <2>1
  <2>3. \A i \in 1..(n - 1) : i = 1 \/ i = 2 \/ i = 3
    BY <2>1
  <2>4. \A i \in 1..(n - 1) : StopAll[i].call = "stop"
    BY <1>3, <2>3
  <2>5. \A s \in Service : \E i \in 1..(n - 1) : StopAll[i] = Stop(s)
    BY <1>3, <2>2
  <2> QED  BY <2>4, <2>5
<1>6. CASE cmd = StopAll
  <2>1. cmd \in Seq(Calls)
    BY <1>3, <1>6
  <2>2. cmd # <<>>
    BY <1>6 DEF StopAll
  <2> QED  BY <1>5, <1>6, <2>1, <2>2
<1>7. CASE cmd = StopAll \o StartAll
  <2>1. \A n \in 1..Len(StartAll) : StartAll[n] # Say("stopped")
    BY <1>4
  <2>2. StopAll \in Seq(Calls) /\ StartAll \in Seq(Calls)
    BY <1>3, <1>4
  <2>3. \A n \in 1..Len(cmd) : cmd[n] = Say("stopped") =>
           /\ n \in 1..Len(StopAll) /\ StopAll[n] = Say("stopped")
           /\ \A i \in 1..(n - 1) : cmd[i] = StopAll[i]
    <3> HIDE DEF Say
    <3> QED  BY <1>7, <2>1, <2>2, ConcatBefore
  <2>4. StopAll # <<>>
    BY DEF StopAll
  <2>5. cmd \in Seq(Calls) /\ cmd # <<>>
    BY <1>7, <2>2, <2>4
  <2> QED  BY <1>5, <2>3, <2>5
<1>8. CASE cmd = StartAll
  BY <1>1, <1>2, <1>8 DEF StartAll
<1>9. CASE cmd = StatusAll
  BY <1>1, <1>2, <1>9 DEF StatusAll
<1> QED  BY <1>6, <1>7, <1>8, <1>9 DEF Commands

\* A function returns: the rest of the plan stands, if a service whose stop has
\* ended is gone and no process was started.
LEMMA ReturnKeepsPlan ==
    ASSUME TypeOK, Stopping, todo # <<>>, Return,
           \A p \in Pid : proc'[p] \in Service => proc'[p] = proc[p], UNCHANGED lost,
           Head(todo).call = "stop" => \A p \in Pid : proc'[p] = Arg => p \in lost
    PROVE  Stopping' /\ todo' \in Seq(Calls) /\ (pc' = "idle" <=> todo' = <<>>)
           /\ pc' \in {"idle", "call"}
<1>0. /\ todo' = Tail(todo) /\ Len(todo') = Len(todo) - 1
      /\ Len(todo) \in Nat \ {0} /\ todo' \in Seq(Calls)
      /\ \A i \in 1..Len(todo') : todo'[i] = todo[i + 1]
      /\ Head(todo) = todo[1]
  BY HeadCall DEF Return, TypeOK
<1>1. ASSUME NEW n \in 1..Len(todo'), todo'[n] = Say("stopped")
      PROVE  /\ \A i \in 1..(n - 1) : todo'[i].call = "stop"
             /\ \A s \in Service : \/ \E i \in 1..(n - 1) : todo'[i] = Stop(s)
                                   \/ Gone(s)'
  <2>1. n + 1 \in 1..Len(todo) /\ todo[n + 1] = Say("stopped")
    BY <1>0, <1>1
  <2>2. /\ \A i \in 1..n : todo[i].call = "stop"
        /\ \A s \in Service : \/ \E i \in 1..n : todo[i] = Stop(s)
                              \/ Gone(s)
    BY <2>1 DEF Stopping
  <2>3. \A i \in 1..(n - 1) : todo'[i] = todo[i + 1] /\ i + 1 \in 1..n
    BY <1>0
  <2>4. ASSUME NEW s \in Service, NEW i \in 1..n, todo[i] = Stop(s)
        PROVE  \/ \E j \in 1..(n - 1) : todo'[j] = Stop(s)
               \/ Gone(s)'
    <3>1. CASE i = 1
      BY <1>0, <2>2, <2>4, <3>1 DEF Arg, Gone
    <3>2. CASE i # 1
      <4>1. i - 1 \in 1..(n - 1) /\ todo'[i - 1] = todo[i]
        BY <1>0, <3>2
      <4> QED  BY <4>1, <2>4
    <3> QED  BY <3>1, <3>2
  <2>5. \A i \in 1..(n - 1) : todo'[i].call = "stop"
    BY <2>2, <2>3
  <2>6. ASSUME NEW s \in Service
        PROVE  \/ \E i \in 1..(n - 1) : todo'[i] = Stop(s)
               \/ Gone(s)'
    <3>1. CASE \E i \in 1..n : todo[i] = Stop(s)
      BY <2>4, <3>1
    <3>2. CASE Gone(s)
      BY <3>2 DEF Gone
    <3> QED  BY <2>2, <3>1, <3>2
  <2> QED  BY <2>5, <2>6
<1>2. pc' = "idle" <=> todo' = <<>>
  BY <1>0 DEF Return
<1>3. Stopping'
  BY <1>1 DEF Stopping
<1>4. pc' \in {"idle", "call"}
  BY DEF Return
<1> QED  BY <1>0, <1>2, <1>3, <1>4

-----------------------------------------------------------------------------
(* IndInv is inductive. *)

\* Pid files of an earlier boot name processes that are gone.
LEMMA InitIndInv == Init => IndInv
<1> SUFFICES ASSUME Init PROVE IndInv
  OBVIOUS
<1>1. TypeOK
  <2>1. proc \in [Pid -> Service \cup {"unused", "dead", "other"}] /\ todo \in Seq(Calls)
    BY DEF Init
  <2> QED  BY <2>1 DEF Init, TypeOK
<1>2. InFunction /\ InHand /\ Owned /\ StoppedIsTrue
  BY DEF Init, InFunction, InHand, Owned, StoppedIsTrue
<1>3. Stopping
  BY DEF Init, Stopping
<1>4. FilesAreTrue
  BY DEF Init, FilesAreTrue
<1> QED  BY <1>1, <1>2, <1>3, <1>4 DEF IndInv

\* Other processes start and any process ends: no service appears.
LEMMA MachineIndInv ==
    ASSUME IndInv, OtherStarts \/ Exit
    PROVE  IndInv'
<1> USE DEF IndInv
<1>1. UNCHANGED <<pidFile, pc, todo, pid, said, lost, Arg>>
  BY DEF OtherStarts, Exit, Arg
<1>2. PICK p \in Pid : \/ Fresh(p) /\ proc' = [proc EXCEPT ![p] = "other"]
                       \/ Alive(p) /\ proc' = [proc EXCEPT ![p] = "dead"]
  BY DEF OtherStarts, Exit
<1>3. \A q \in Pid : proc'[q] \in Service => proc'[q] = proc[q]
  BY <1>2 DEF TypeOK
<1>4. TypeOK'
  BY <1>1, <1>2 DEF TypeOK
<1>5. InFunction' /\ InHand'
  BY <1>1 DEF InFunction, InHand
<1>6. Owned' /\ StoppedIsTrue'
  BY <1>1, <1>3 DEF Owned, StoppedIsTrue
<1>7. Stopping'
  BY <1>1, <1>3 DEF Stopping, Gone
<1>8. FilesAreTrue'
  <2> SUFFICES ASSUME ~PidReuse PROVE FilesAreTrue'
    BY DEF FilesAreTrue
  <2>1. \A q \in Pid : proc[q] # "unused" => proc'[q] \in {proc[q], "dead"}
    BY <1>2 DEF TypeOK, Fresh
  <2>2. \A s \in Service : pidFile[s] \in Pid => proc[pidFile[s]] \in {s, "dead"}
    BY DEF FilesAreTrue
  <2>3. \A s \in Service : pidFile[s] \in Pid => proc'[pidFile[s]] \in {s, "dead"}
    BY <2>1, <2>2
  <2>4. pc = "record" => pid \in Pid /\ Arg \in Service /\ proc[pid] \in {Arg, "dead"}
    BY HeadCall, CallTypes DEF FilesAreTrue, InHand, InFunction, Arg
  <2>5. pc = "record" => proc'[pid] \in {Arg, "dead"}
    BY <2>1, <2>4
  <2> QED  BY <1>1, <2>3, <2>5 DEF FilesAreTrue
<1> QED  BY <1>4, <1>5, <1>6, <1>7, <1>8

\* The operator gives a command, or interrupts one.
LEMMA OperatorIndInv ==
    ASSUME IndInv, Command \/ Interrupt
    PROVE  IndInv'
<1> USE DEF IndInv
<1>1. CASE Command
  <2>1. todo' \in Commands /\ pc' = "call" /\ said' = "nothing"
        /\ UNCHANGED <<proc, pidFile, pid, lost>> /\ pc = "idle"
    BY <1>1 DEF Command
  <2>2. todo' \in Seq(Calls) /\ todo' # <<>> /\ Stopping'
    BY <2>1, CommandCalls DEF Stopping
  <2>3. TypeOK' /\ InFunction' /\ InHand' /\ StoppedIsTrue'
    BY <2>1, <2>2 DEF TypeOK, InFunction, InHand, StoppedIsTrue
  <2>4. Owned' /\ FilesAreTrue'
    BY <2>1 DEF Owned, FilesAreTrue
  <2> QED  BY <2>2, <2>3, <2>4
<1>2. CASE Interrupt
  <2>1. /\ todo' = <<>> /\ pc' = "idle" /\ UNCHANGED <<proc, pidFile, pid, said>>
        /\ lost \subseteq lost' /\ lost' \subseteq Pid
        /\ pc = "record" => pid \in lost'
    BY <1>2 DEF Interrupt, TypeOK, InHand
  <2>2. TypeOK' /\ InFunction' /\ InHand' /\ StoppedIsTrue'
    BY <2>1 DEF TypeOK, InFunction, InHand, StoppedIsTrue
  <2>3. Owned' /\ FilesAreTrue'
    BY <2>1 DEF Owned, FilesAreTrue
  <2>4. Stopping'
    BY <2>1 DEF Stopping
  <2> QED  BY <2>2, <2>3, <2>4
<1> QED  BY <1>1, <1>2

\* is_running only removes the file of a service that is not there.
LEMMA IsRunningKeeps ==
    ASSUME IndInv, NEW s \in Service, pc # "record", pidFile' = AfterIsRunning(s)
    PROVE  /\ pidFile' \in [Service -> Pid \cup {NoPid}]
           /\ \A p \in Pid : proc[p] \in Service => p \in lost \/ pidFile'[proc[p]] = p
           /\ IsRunning(s) => pidFile' = pidFile /\ pidFile[s] \in Pid
           /\ ~IsRunning(s) => pidFile'[s] = NoPid /\ Gone(s)
           /\ \A x \in Service : pidFile'[x] \in {pidFile[x], NoPid}
<1> USE DEF IndInv, TypeOK, Owned, AfterIsRunning, IsRunning, Alive, Gone
<1>1. pidFile' \in [Service -> Pid \cup {NoPid}]
  OBVIOUS
<1>2. ~IsRunning(s) => Gone(s)
  OBVIOUS
<1>3. \A p \in Pid : proc[p] \in Service => p \in lost \/ pidFile'[proc[p]] = p
  OBVIOUS
<1> QED  BY <1>1, <1>2, <1>3

\* A step of the script that begins with is_running and then returns.
LEMMA CheckReturnIndInv ==
    ASSUME IndInv, todo # <<>>, pc # "record",
           Head(todo).call \in {"start", "stop", "status"},
           pidFile' = AfterIsRunning(Arg), Return, UNCHANGED <<proc, pid, said, lost>>,
           Head(todo).call = "stop" => ~IsRunning(Arg)
    PROVE  IndInv'
<1>0. Arg \in Service /\ TypeOK /\ Stopping
  BY HeadCall, CallTypes DEF IndInv, Arg
<1>1. /\ pidFile' \in [Service -> Pid \cup {NoPid}]
      /\ \A p \in Pid : proc[p] \in Service => p \in lost \/ pidFile'[proc[p]] = p
      /\ ~IsRunning(Arg) => Gone(Arg)
      /\ \A x \in Service : pidFile'[x] \in {pidFile[x], NoPid}
  BY <1>0, IsRunningKeeps
<1>2. Stopping' /\ todo' \in Seq(Calls) /\ (pc' = "idle" <=> todo' = <<>>)
      /\ pc' \in {"idle", "call"}
  BY <1>0, <1>1, ReturnKeepsPlan DEF Gone
<1>3. TypeOK' /\ InFunction' /\ InHand' /\ StoppedIsTrue'
  BY <1>1, <1>2 DEF IndInv, TypeOK, InFunction, InHand, StoppedIsTrue
<1>4. Owned' /\ FilesAreTrue'
  BY <1>1, <1>2 DEF IndInv, Owned, FilesAreTrue
<1> QED  BY <1>2, <1>3, <1>4 DEF IndInv

\* start_*: the check, the new process, its pid file and the second look.
LEMMA StartIndInv ==
    ASSUME IndInv, StartCheck \/ StartSpawn \/ StartRecord \/ RecordFails \/ StartVerify
    PROVE  IndInv'
<1>0. /\ todo # <<>> /\ Head(todo).call = "start" /\ Arg \in Service /\ TypeOK
      /\ todo[1] = Head(todo) /\ Len(todo) \in Nat \ {0}
  BY HeadCall, CallTypes
     DEF IndInv, TypeOK, StartCheck, StartSpawn, StartRecord, RecordFails, StartVerify,
         At, Arg
<1>1. CASE StartVerify
  BY <1>0, <1>1, CheckReturnIndInv DEF StartVerify, At
<1>2. CASE StartCheck
  <2>1. CASE IsRunning(Arg)
    BY <1>0, <1>2, <2>1, CheckReturnIndInv DEF StartCheck, At
  <2>2. CASE ~IsRunning(Arg)
    <3>1. /\ pidFile' = AfterIsRunning(Arg) /\ pc' = "spawn" /\ Arg' = Arg
          /\ UNCHANGED <<todo, proc, pid, said, lost>> /\ pc = "call"
      BY <1>2, <2>2 DEF StartCheck, At, Arg
    <3>2. /\ pidFile' \in [Service -> Pid \cup {NoPid}] /\ pidFile'[Arg] = NoPid
          /\ \A p \in Pid : proc[p] \in Service => p \in lost \/ pidFile'[proc[p]] = p
          /\ \A x \in Service : pidFile'[x] \in {pidFile[x], NoPid}
      BY <1>0, <2>2, <3>1, IsRunningKeeps
    <3>3. TypeOK' /\ InFunction' /\ InHand' /\ StoppedIsTrue'
      BY <1>0, <3>1, <3>2 DEF IndInv, TypeOK, InFunction, InHand, StoppedIsTrue
    <3>4. Owned' /\ FilesAreTrue'
      BY <3>1, <3>2 DEF IndInv, Owned, FilesAreTrue
    <3>5. Stopping'
      BY <3>1 DEF IndInv, Stopping, Gone
    <3> QED  BY <3>3, <3>4, <3>5 DEF IndInv
  <2> QED  BY <2>1, <2>2
<1>3. CASE StartSpawn
  <2>1. pc = "spawn" /\ UNCHANGED pidFile
    BY <1>3 DEF StartSpawn, At
  <2>2. CASE Return /\ UNCHANGED <<proc, pid, said, lost>>
    <3>1. Stopping' /\ todo' \in Seq(Calls) /\ (pc' = "idle" <=> todo' = <<>>)
          /\ pc' \in {"idle", "call"}
      BY <1>0, <2>2, ReturnKeepsPlan DEF IndInv
    <3>2. TypeOK' /\ InFunction' /\ InHand' /\ StoppedIsTrue'
      BY <2>1, <2>2, <3>1 DEF IndInv, TypeOK, InFunction, InHand, StoppedIsTrue
    <3>3. Owned' /\ FilesAreTrue'
      BY <2>1, <2>2, <3>1 DEF IndInv, Owned, FilesAreTrue
    <3> QED  BY <3>1, <3>2, <3>3 DEF IndInv
  <2>3. CASE /\ \E p \in Pid : /\ Fresh(p) /\ proc' = [proc EXCEPT ![p] = Arg]
                               /\ pid' = p /\ lost' = lost \ {p}
             /\ pc' = "record" /\ said' = "nothing" /\ UNCHANGED todo
    <3>1. PICK p \in Pid : /\ Fresh(p) /\ proc' = [proc EXCEPT ![p] = Arg]
                           /\ pid' = p /\ lost' = lost \ {p}
      BY <2>3
    <3>2. Arg' = Arg
      BY <2>3 DEF Arg
    <3>3. ~Alive(p) /\ (~PidReuse => proc[p] = "unused")
      BY <3>1 DEF Fresh, Alive
    <3>4. TypeOK' /\ InFunction' /\ InHand' /\ StoppedIsTrue'
      BY <1>0, <2>1, <2>3, <3>1, <3>2
         DEF IndInv, TypeOK, InFunction, InHand, StoppedIsTrue
    <3>5. Owned'
      BY <1>0, <2>1, <2>3, <3>1, <3>2 DEF IndInv, TypeOK, Owned
    <3>6. FilesAreTrue'
      BY <1>0, <2>1, <2>3, <3>1, <3>2, <3>3 DEF IndInv, TypeOK, FilesAreTrue
    <3>7. \A n \in 1..Len(todo) : todo[n] # Say("stopped")
      BY <1>0 DEF IndInv, Stopping
    <3>8. Stopping'
      BY <2>3, <3>7 DEF Stopping
    <3> QED  BY <3>4, <3>5, <3>6, <3>8 DEF IndInv
  <2> QED  BY <1>3, <2>2, <2>3 DEF StartSpawn
<1>4. CASE StartRecord
  <2>1. /\ pc = "record" /\ pc' = "verify" /\ Arg' = Arg
        /\ pidFile' = [pidFile EXCEPT ![Arg] = pid]
        /\ UNCHANGED <<proc, todo, pid, said, lost>>
    BY <1>4 DEF StartRecord, At, Arg
  <2>2. TypeOK' /\ InFunction' /\ InHand' /\ StoppedIsTrue'
    BY <1>0, <2>1 DEF IndInv, TypeOK, InFunction, InHand, StoppedIsTrue
  <2>3. Owned'
    BY <1>0, <2>1 DEF IndInv, TypeOK, InHand, Owned
  <2>4. FilesAreTrue'
    BY <1>0, <2>1 DEF IndInv, TypeOK, FilesAreTrue
  <2>5. Stopping'
    BY <2>1 DEF IndInv, Stopping, Gone
  <2> QED  BY <2>2, <2>3, <2>4, <2>5 DEF IndInv
<1>5. CASE RecordFails
  <2>1. /\ pc = "record" /\ pc' = "verify" /\ Arg' = Arg /\ pid \in Pid
        /\ lost' = lost \cup {pid} /\ UNCHANGED <<proc, pidFile, todo, pid, said>>
    BY <1>5 DEF IndInv, InHand, RecordFails, At, Arg
  <2>2. TypeOK' /\ InFunction' /\ InHand' /\ StoppedIsTrue'
    BY <1>0, <2>1 DEF IndInv, TypeOK, InFunction, InHand, StoppedIsTrue
  <2>3. Owned' /\ FilesAreTrue'
    BY <2>1 DEF IndInv, Owned, FilesAreTrue
  <2>4. Stopping'
    BY <2>1 DEF IndInv, Stopping, Gone
  <2> QED  BY <2>2, <2>3, <2>4 DEF IndInv
<1> QED  BY <1>1, <1>2, <1>3, <1>4, <1>5

\* stop_service: nothing to stop, or TERM, KILL and the removal of the file.
LEMMA StopIndInv ==
    ASSUME IndInv, StopCheck \/ StopKill \/ StopForce
    PROVE  IndInv'
<1>0. /\ todo # <<>> /\ Head(todo).call = "stop" /\ Arg \in Service /\ TypeOK
      /\ Stopping
  BY HeadCall, CallTypes DEF IndInv, StopCheck, StopKill, StopForce, At, Arg
<1>1. CASE StopCheck
  <2>1. CASE ~IsRunning(Arg)
    BY <1>0, <1>1, <2>1, CheckReturnIndInv DEF StopCheck, At
  <2>2. CASE IsRunning(Arg)
    <3>1. /\ pidFile' = AfterIsRunning(Arg) /\ pc' = "kill" /\ pid' = pidFile[Arg]
          /\ UNCHANGED <<todo, proc, said, lost>> /\ Arg' = Arg /\ pc = "call"
      BY <1>1, <2>2 DEF StopCheck, At, Arg
    <3>2. pidFile' = pidFile /\ pidFile[Arg] \in Pid
      BY <1>0, <2>2, <3>1, IsRunningKeeps
    <3>3. TypeOK' /\ InFunction' /\ InHand' /\ StoppedIsTrue'
      BY <1>0, <3>1, <3>2 DEF IndInv, TypeOK, InFunction, InHand, StoppedIsTrue
    <3>4. Owned' /\ FilesAreTrue'
      BY <3>1, <3>2 DEF IndInv, Owned, FilesAreTrue
    <3>5. Stopping'
      BY <3>1 DEF IndInv, Stopping, Gone
    <3> QED  BY <3>3, <3>4, <3>5 DEF IndInv
  <2> QED  BY <2>1, <2>2
<1>2. CASE StopKill
  <2>1. /\ pc = "kill" /\ pc' = "force" /\ Arg' = Arg
        /\ UNCHANGED <<proc, pidFile, todo, pid, said, lost>>
    BY <1>2 DEF StopKill, At, Arg
  <2>2. TypeOK' /\ InFunction' /\ InHand' /\ StoppedIsTrue'
    BY <1>0, <2>1 DEF IndInv, TypeOK, InFunction, InHand, StoppedIsTrue
  <2>3. Owned' /\ FilesAreTrue'
    BY <2>1 DEF IndInv, Owned, FilesAreTrue
  <2>4. Stopping'
    BY <2>1 DEF IndInv, Stopping, Gone
  <2> QED  BY <2>2, <2>3, <2>4 DEF IndInv
<1>3. CASE StopForce
  <2>1. /\ pc = "force" /\ Return /\ UNCHANGED <<pid, said, lost>>
        /\ proc' = IF Alive(pid) THEN [proc EXCEPT ![pid] = "dead"] ELSE proc
        /\ pidFile' = [pidFile EXCEPT ![Arg] = NoPid]
        /\ pid \in Pid /\ pidFile[Arg] = pid
    BY <1>3 DEF IndInv, InHand, StopForce, At
  <2>2. /\ \A p \in Pid : proc'[p] \in {proc[p], "dead"}
        /\ proc'[pid] \notin Service
    BY <1>0, <2>1 DEF TypeOK, Alive
  <2>3. \A p \in Pid : proc'[p] = Arg => p \in lost
    BY <1>0, <2>1, <2>2 DEF IndInv, Owned
  <2>4. Stopping' /\ todo' \in Seq(Calls) /\ (pc' = "idle" <=> todo' = <<>>)
        /\ pc' \in {"idle", "call"}
    BY <1>0, <2>1, <2>2, <2>3, ReturnKeepsPlan
  <2>5. TypeOK'
    BY <1>0, <2>1, <2>4 DEF TypeOK
  <2>6. InFunction' /\ InHand' /\ StoppedIsTrue'
    BY <2>1, <2>2, <2>4 DEF IndInv, InFunction, InHand, StoppedIsTrue
  <2>7. Owned'
    BY <1>0, <2>1, <2>2, <2>3 DEF IndInv, TypeOK, Owned
  <2>8. FilesAreTrue'
    BY <1>0, <2>1, <2>2, <2>4 DEF IndInv, TypeOK, FilesAreTrue
  <2> QED  BY <2>4, <2>5, <2>6, <2>7, <2>8 DEF IndInv
<1> QED  BY <1>1, <1>2, <1>3

\* status, and the announcements of start and stop.
LEMMA ReportIndInv ==
    ASSUME IndInv, StatusCheck \/ Announce
    PROVE  IndInv'
<1>1. CASE StatusCheck
  BY <1>1, CheckReturnIndInv DEF StatusCheck, At
<1>2. CASE Announce
  <2>1. /\ pc = "call" /\ todo # <<>> /\ Head(todo).call = "say" /\ said' = Arg
        /\ Return /\ UNCHANGED <<proc, pidFile, pid, lost>> /\ TypeOK /\ Stopping
    BY <1>2 DEF IndInv, Announce, At
  <2>2. /\ Arg \in {"started", "stopped"} /\ 1 \in 1..Len(todo)
        /\ todo[1] = Head(todo) /\ Head(todo) \in Calls
    BY <2>1, HeadCall, CallTypes DEF Arg
  <2>3. Arg = "stopped" => todo[1] = Say("stopped")
    BY <2>1, <2>2 DEF Arg, Calls
  <2>4. Arg = "stopped" => \A p \in Pid : proc[p] \in Service => p \in lost
    BY <2>1, <2>2, <2>3 DEF Stopping, Gone
  <2>5. Stopping' /\ todo' \in Seq(Calls) /\ (pc' = "idle" <=> todo' = <<>>)
        /\ pc' \in {"idle", "call"}
    BY <2>1, ReturnKeepsPlan
  <2>6. TypeOK' /\ InFunction' /\ InHand' /\ StoppedIsTrue'
    BY <2>1, <2>2, <2>4, <2>5 DEF TypeOK, InFunction, InHand, StoppedIsTrue
  <2>7. Owned' /\ FilesAreTrue'
    BY <2>1, <2>5 DEF IndInv, Owned, FilesAreTrue
  <2> QED  BY <2>5, <2>6, <2>7 DEF IndInv
<1> QED  BY <1>1, <1>2

\* IndInv is an invariant of the script and the machine.
THEOREM Inductive == Spec => []IndInv
<1>1. Init => IndInv
  BY InitIndInv
<1>2. IndInv /\ [Next]_vars => IndInv'
  <2> SUFFICES ASSUME IndInv, [Next]_vars PROVE IndInv'
    OBVIOUS
  <2>1. CASE UNCHANGED vars
    BY <2>1 DEF vars, IndInv, TypeOK, InFunction, InHand, Owned, Stopping,
                StoppedIsTrue, FilesAreTrue, Gone, Arg
  <2> QED
    BY <2>1, MachineIndInv, OperatorIndInv, StartIndInv, StopIndInv, ReportIndInv
       DEF Next
<1> QED  BY <1>1, <1>2, PTL DEF Spec

\* Whenever the script is not running, the pid files name every live service
\* but those that were started and never recorded, wherever the script was
\* interrupted and whatever died before.
THEOREM NothingEscapes == Spec => []NoOrphans
<1>1. IndInv => NoOrphans
  BY DEF IndInv, Owned, NoOrphans
<1> QED  BY <1>1, Inductive, PTL

\* After `all stopped' no recorded service is alive until the next is started.
THEOREM AllStopped == Spec => []StoppedIsTrue
<1>1. IndInv => StoppedIsTrue
  BY DEF IndInv
<1> QED  BY <1>1, Inductive, PTL

\* As long as no process id is given out twice, the script never signals a
\* process that is not the service it stops.
THEOREM SignalsItsService ==
    ASSUME ~PidReuse PROVE Spec => []KillsOnlyItsService
<1>1. IndInv => KillsOnlyItsService
  <2> SUFFICES ASSUME IndInv, pc \in {"kill", "force"}, Alive(pid)
               PROVE  proc[pid] = Arg
    BY DEF KillsOnlyItsService
  <2>1. todo # <<>> /\ Head(todo).call = "stop" /\ pidFile[Arg] = pid /\ pid \in Pid
    BY DEF IndInv, InFunction, InHand
  <2>2. Arg \in Service
    BY <2>1, HeadCall, CallTypes DEF IndInv, Arg
  <2> QED  BY <2>1, <2>2 DEF IndInv, FilesAreTrue, Alive
<1> QED  BY <1>1, Inductive, PTL
=============================================================================
