------------------------------- MODULE MCLoad -------------------------------
(***************************************************************************)
(* The load generators, simulators and limiters.  Each is a process of its *)
(* own: demo says which one this behaviour is of.                          *)
(***************************************************************************)
EXTENDS BreakerClient, LoadTools, Limits

VARIABLE demo
vars == <<demo, clientVars, loadVars, simVars, brVars, limitVars>>

Init ==
  /\ demo \in {"client", "load", "simulate", "breaker", "limiter", "heavy"}
  /\ ClientInit /\ LoadInit /\ SimInit /\ BrInit /\ LimitsInit

Next ==
  /\ UNCHANGED demo
  /\ \/ demo = "client" /\ ClientNext /\ UNCHANGED <<loadVars, simVars, brVars, limitVars>>
     \/ demo = "load" /\ LoadNext /\ UNCHANGED <<clientVars, simVars, brVars, limitVars>>
     \/ demo = "simulate" /\ SimNext /\ UNCHANGED <<clientVars, loadVars, brVars, limitVars>>
     \/ demo = "breaker" /\ BrNext /\ UNCHANGED <<clientVars, loadVars, simVars, limitVars>>
     \/ demo = "limiter" /\ LimiterNext /\ UNCHANGED <<clientVars, loadVars, simVars, brVars>>
     \/ demo = "heavy" /\ HeavyNext /\ UNCHANGED <<clientVars, loadVars, simVars, brVars>>

Spec == Init /\ [][Next]_vars
=============================================================================
