------------------------------- MODULE Manage -------------------------------
(***************************************************************************)
(* bookstore/manage.sh: one operator starts, stops, restarts and inspects  *)
(* the three services, which the script knows by the pid files it keeps in *)
(* .pids.  Services may die at any time, ignore SIGTERM, or fail to start; *)
(* other processes come and go and take process ids.                       *)
(***************************************************************************)
EXTENDS Integers, Sequences

CONSTANTS MaxPid,    \* bound: process ids are 1..MaxPid
          PidReuse,  \* whether the ids of dead processes are given out again
          StalePid,  \* ids that pid files of an earlier boot or clone may hold
          NoPid      \* no pid file

ASSUME ManageAssumption ==
    /\ MaxPid \in Nat /\ PidReuse \in BOOLEAN
    /\ StalePid \subseteq 1..MaxPid /\ NoPid \notin 1..MaxPid

Pid     == 1..MaxPid
Service == {"add", "check", "api"}

VARIABLES
    proc,     \* the process table: per id "unused", "dead", "other" or a service
    pidFile,  \* per service: contents of its pid file
    pc,       \* the script: "idle" or its next step for the service at hand
    todo,     \* the script: functions still to call; the first one is running
    pid,      \* the script's local variable pid
    said,     \* the last of `all started', `all stopped' that was printed
    lost      \* ids of services started and never recorded (a history variable)

vars == <<proc, pidFile, pc, todo, pid, said, lost>>

Start(s)  == [call |-> "start", arg |-> s]
Stop(s)   == [call |-> "stop", arg |-> s]
Status(s) == [call |-> "status", arg |-> s]
Say(text) == [call |-> "say", arg |-> text]

\* The functions start, stop, restart and status.
StartAll  == <<Start("add"), Start("check"), Start("api"), Say("started")>>
StopAll   == <<Stop("api"), Stop("check"), Stop("add"), Say("stopped")>>
StatusAll == <<Status("add"), Status("check"), Status("api")>>
Commands  == {StartAll, StopAll, StopAll \o StartAll, StatusAll}

Calls == {Start(s) : s \in Service} \cup {Stop(s) : s \in Service}
            \cup {Status(s) : s \in Service} \cup {Say("started"), Say("stopped")}

TypeOK ==
    /\ proc \in [Pid -> Service \cup {"unused", "dead", "other"}]
    /\ pidFile \in [Service -> Pid \cup {NoPid}]
    /\ pc \in {"idle", "call", "spawn", "record", "verify", "kill", "force"}
    /\ todo \in Seq(Calls)
    /\ pid \in Pid \cup {NoPid}
    /\ said \in {"nothing", "started", "stopped"}
    /\ lost \subseteq Pid

Init ==
    /\ proc = [p \in Pid |-> IF p \in StalePid THEN "dead" ELSE "unused"]
    /\ pidFile \in [Service -> StalePid \cup {NoPid}]
    /\ pc = "idle" /\ todo = <<>> /\ pid = NoPid
    /\ said = "nothing" /\ lost = {}

-----------------------------------------------------------------------------
(* The machine *)

Alive(p) == p \in Pid /\ proc[p] \notin {"unused", "dead"}

\* Ids are given out in ascending order; with reuse, any free one may be next.
Fresh(p) ==
    \/ PidReuse /\ ~Alive(p)
    \/ proc[p] = "unused" /\ \A q \in 1..(p - 1) : proc[q] # "unused"

OtherStarts ==
    /\ \E p \in Pid : Fresh(p) /\ proc' = [proc EXCEPT ![p] = "other"]
    /\ UNCHANGED <<pidFile, pc, todo, pid, said, lost>>

\* A service crashes, cannot bind its port or obeys a SIGTERM; another
\* process ends.
Exit ==
    /\ \E p \in Pid : Alive(p) /\ proc' = [proc EXCEPT ![p] = "dead"]
    /\ UNCHANGED <<pidFile, pc, todo, pid, said, lost>>

-----------------------------------------------------------------------------
(* The script *)

\* is_running: `ps -p' on the id in the pid file ...
IsRunning(s) == Alive(pidFile[s])

\* ... which is removed if there is no such process.
AfterIsRunning(s) ==
    IF IsRunning(s) THEN pidFile ELSE [pidFile EXCEPT ![s] = NoPid]

\* The function at hand returns; its result is not looked at.
Return ==
    /\ todo' = Tail(todo)
    /\ pc' = IF Len(todo) = 1 THEN "idle" ELSE "call"

At(step, call) == pc = step /\ todo # <<>> /\ Head(todo).call = call

Arg == Head(todo).arg

Command ==
    /\ pc = "idle"
    /\ todo' \in Commands
    /\ pc' = "call"
    /\ said' = "nothing"
    /\ UNCHANGED <<proc, pidFile, pid, lost>>

\* start_add_rpc, start_check_rpc and start_api: already running?
StartCheck ==
    /\ At("call", "start")
    /\ pidFile' = AfterIsRunning(Arg)
    /\ \/ IsRunning(Arg) /\ Return
       \/ ~IsRunning(Arg) /\ pc' = "spawn" /\ UNCHANGED todo
    /\ UNCHANGED <<proc, pid, said, lost>>

\* cd fails, or the binary is started in the background.
StartSpawn ==
    /\ At("spawn", "start")
    /\ \/ /\ Return
          /\ UNCHANGED <<proc, pid, said, lost>>
       \/ /\ \E p \in Pid : /\ Fresh(p)
                            /\ proc' = [proc EXCEPT ![p] = Arg]
                            /\ pid' = p
                            /\ lost' = lost \ {p}
          /\ pc' = "record"
          /\ said' = "nothing"
          /\ UNCHANGED todo
    /\ UNCHANGED pidFile

\* Mutant of StartRecord: start_check_rpc writes the file of the add service.
StartRecordCopied ==
    /\ At("record", "start")
    /\ pidFile' = [pidFile EXCEPT ![IF Arg = "check" THEN "add" ELSE Arg] = pid]
    /\ pc' = "verify"
    /\ UNCHANGED <<proc, todo, pid, said, lost>>

\* echo $pid > the pid file
StartRecord ==
    /\ At("record", "start")
    /\ pidFile' = [pidFile EXCEPT ![Arg] = pid]
    /\ pc' = "verify"
    /\ UNCHANGED <<proc, todo, pid, said, lost>>

\* The file cannot be written; the script does not look and goes on.
RecordFails ==
    /\ At("record", "start")
    /\ pc' = "verify"
    /\ lost' = lost \cup {pid}
    /\ UNCHANGED <<proc, pidFile, todo, pid, said>>

\* Two seconds later: is it still there?
StartVerify ==
    /\ At("verify", "start")
    /\ pidFile' = AfterIsRunning(Arg)
    /\ Return
    /\ UNCHANGED <<proc, pid, said, lost>>

\* stop_service: not running, or the id is read from the file.
StopCheck ==
    /\ At("call", "stop")
    /\ pidFile' = AfterIsRunning(Arg)
    /\ \/ IsRunning(Arg) /\ pid' = pidFile[Arg] /\ pc' = "kill" /\ UNCHANGED todo
       \/ ~IsRunning(Arg) /\ Return /\ UNCHANGED pid
    /\ UNCHANGED <<proc, said, lost>>

\* kill: the process exits in its own time, if ever.
StopKill ==
    /\ At("kill", "stop")
    /\ pc' = "force"
    /\ UNCHANGED <<proc, pidFile, todo, pid, said, lost>>

\* Mutant of StopForce: no kill -9 after the grace period.
StopForget ==
    /\ At("force", "stop")
    /\ pidFile' = [pidFile EXCEPT ![Arg] = NoPid]
    /\ Return
    /\ UNCHANGED <<proc, pid, said, lost>>

\* Two seconds later: kill -9 if it is still there, and rm -f the pid file.
StopForce ==
    /\ At("force", "stop")
    /\ proc' = IF Alive(pid) THEN [proc EXCEPT ![pid] = "dead"] ELSE proc
    /\ pidFile' = [pidFile EXCEPT ![Arg] = NoPid]
    /\ Return
    /\ UNCHANGED <<pid, said, lost>>

StatusCheck ==
    /\ At("call", "status")
    /\ pidFile' = AfterIsRunning(Arg)
    /\ Return
    /\ UNCHANGED <<proc, pid, said, lost>>

Announce ==
    /\ At("call", "say")
    /\ said' = Arg
    /\ Return
    /\ UNCHANGED <<proc, pidFile, pid, lost>>

\* The operator interrupts the script, between any two of its commands.  A
\* service just started is in the background, ignores SIGINT, and lives on.
Interrupt ==
    /\ pc # "idle"
    /\ pc' = "idle" /\ todo' = <<>>
    /\ lost' = IF pc = "record" THEN lost \cup {pid} ELSE lost
    /\ UNCHANGED <<proc, pidFile, pid, said>>

Next ==
    \/ OtherStarts \/ Exit
    \/ Command \/ StartCheck \/ StartSpawn \/ StartRecord \/ RecordFails
    \/ StartVerify \/ StopCheck \/ StopKill \/ StopForce \/ StatusCheck \/ Announce
    \/ Interrupt

Spec == Init /\ [][Next]_vars
-----------------------------------------------------------------------------
\* A service escapes the script in one way only: its id was never recorded,
\* because the script was interrupted between starting it and writing its pid
\* file, or could not write the file.  Whenever the script is not running,
\* every other live service is the one its pid file names, so that stop and
\* restart will find it and start will not start a second one, whatever died,
\* ignored SIGTERM or was interrupted before.
NoOrphans ==
    pc = "idle" =>
        \A p \in Pid : proc[p] \in Service => p \in lost \/ pidFile[proc[p]] = p

\* When stop prints that all services are stopped, they are, those that ignore
\* SIGTERM included, but for those whose ids were never recorded.
StoppedIsTrue ==
    said = "stopped" => \A p \in Pid : proc[p] \in Service => p \in lost

\* The signal goes to the service it is meant for, if to any process.
KillsOnlyItsService ==
    pc \in {"kill", "force"} /\ Alive(pid) => proc[pid] = Arg
=============================================================================
