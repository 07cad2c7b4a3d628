------------------------------- MODULE MCBatch -------------------------------
(***************************************************************************)
(* The command-line programs.  Each is a process of its own: demo says     *)
(* which one this behaviour is of, the variables of the others stay as     *)
(* they are.                                                               *)
(***************************************************************************)
EXTENDS MapReduce, FxStream, Pool, Executors, Lifecycle

VARIABLE demo
vars == <<demo, mrVars, fxVars, poolVars, execVars, lifeVars>>

(* Programs of up to three items on two workers. *)
Uids == <<[uid |-> 1], [uid |-> 2], [uid |-> 3]>>
UpTo(S, n) == UNION {[1..k -> S] : k \in 1..n}

File(lines, eol) == [reading |-> "EOF", stop |-> FALSE, lines |-> lines, eol |-> eol]
Two == File(<<"func", "#", "code", "func">>, TRUE)
Cut == File(<<"func", "code", "func">>, FALSE)
Stop == [Two EXCEPT !.stop = TRUE]
Lost == [Two EXCEPT !.reading = "unopened"]
Broken == [Two EXCEPT !.reading = "error"]
Countfunc ==
  {CountfuncMain(fs, m, max, TRUE) :
     fs \in {<<Two>>, <<Two, Cut>>, <<Two, Cut, Stop>>, <<Stop, Stop, Two>>,
             <<Two, Lost, Cut>>, <<Broken, Two, Stop>>, <<Two, Cut, Two>>},
     m \in {"", "return", "panic"}, max \in {0, 1}}
  \cup {CountfuncMain(<<>>, "", 0, FALSE)}
MCPrograms ==
  Countfunc
  \cup {CheckLegal(us) : us \in UpTo([err : BOOLEAN, ok : BOOLEAN], 2)}
  \cup {LeakMain(<<[hit |-> FALSE], [hit |-> TRUE], [hit |-> FALSE]>>)}
  \cup {ProductDetail(cs) : cs \in [1..3 -> [err : BOOLEAN]]}
  \cup {DeadlockMain(Uids), IrregularMain(Uids), FinishVoidMain(Uids),
        FlatmapMain(<<[friends |-> <<1, 2>>], [friends |-> <<>>], [friends |-> <<3>>]>>)}

Line(word, kind) == [word |-> word, kind |-> kind]
MCDictionaries ==
  {[header |-> h, lines |-> <<>>] : h \in {"missing", "one field"}}
  \cup {[header |-> "ok", lines |-> <<Line("head", "good"), Line("a", k), Line("b", "good"),
                                      Line("a", l), Line("c", "good")>>] :
          k \in {"good", "bad"}, l \in {"good", "long"}}
MCSplits == SUBSET {2, 3, 4}

-----------------------------------------------------------------------------
Demos == {"mapreduce", "load", "square", "pool", "flight", "bulk", "wheel", "signal", "group"}

Init ==
  /\ demo \in Demos
  /\ MrInit /\ FxInit /\ PoolInit /\ ExecutorsInit /\ LifecycleInit

Next ==
  /\ UNCHANGED demo
  /\ \/ demo = "mapreduce" /\ MrNext /\ UNCHANGED <<fxVars, poolVars, execVars, lifeVars>>
     \/ demo = "load" /\ LoadNext /\ UNCHANGED <<mrVars, poolVars, execVars, lifeVars>>
     \/ demo = "square" /\ SquareNext /\ UNCHANGED <<mrVars, poolVars, execVars, lifeVars>>
     \/ demo = "pool" /\ PoolNext /\ UNCHANGED <<mrVars, fxVars, execVars, lifeVars>>
     \/ demo = "flight" /\ CallNext /\ UNCHANGED <<mrVars, fxVars, execVars, lifeVars>>
     \/ demo = "bulk" /\ BulkNext /\ UNCHANGED <<mrVars, fxVars, poolVars, lifeVars>>
     \/ demo = "wheel" /\ WheelNext /\ UNCHANGED <<mrVars, fxVars, poolVars, lifeVars>>
     \/ demo = "signal" /\ SigNext /\ UNCHANGED <<mrVars, fxVars, poolVars, execVars>>
     \/ demo = "group" /\ GroupNext /\ UNCHANGED <<mrVars, fxVars, poolVars, execVars>>

\* Goroutines are scheduled, a ticker ticks, the operator may do nothing.
Fairness ==
  /\ MrFairness
  /\ \A r \in Routines : WF_poolVars(demo = "pool" /\ PoolRoutine(r))
  /\ WF_poolVars(demo = "pool" /\ PoolExit)
  /\ WF_execVars(demo = "bulk" /\ TakeBatch) /\ WF_execVars(demo = "bulk" /\ FlushTick)
  /\ WF_lifeVars(demo = "signal" /\ HandlerNext)

Spec == Init /\ [][Next]_vars /\ Fairness
=============================================================================
