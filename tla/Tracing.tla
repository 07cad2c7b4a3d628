------------------------------- MODULE Tracing -------------------------------
(***************************************************************************)
(* tracing: an HTTP edge that calls portal, which calls user; and the      *)
(* etcd publisher and subscriber of etcd/pub and etcd/sub.  The rpc        *)
(* transport, etcd's leases and its watch are external.                    *)
(***************************************************************************)
EXTENDS Naturals, FiniteSets

CONSTANTS Pubs,          \* publishers, each with a value of its own
          MaxRestarts    \* bound on the publishers' crashes

ASSUME TracingAssumption == MaxRestarts \in Nat

VARIABLES alive,         \* the processes "portal" and "user" that run
          hop,           \* where the request is
          answer,        \* what comes back: its status and text
          broke          \* who failed it, for the properties
traceVars == <<alive, hop, answer, broke>>

None == [status |-> 0, text |-> "none"]

TracingInit == alive = {"portal", "user"} /\ hop = "edge" /\ answer = None /\ broke = "nobody"

\* Any process may be down, or go down with the request in its hands.
ProcessDies(p) ==
  /\ p \in alive /\ alive' = alive \ {p}
  /\ IF hop = p THEN hop' = (IF p = "user" THEN "portal back" ELSE "edge back") /\ broke' = p
                ELSE UNCHANGED <<hop, broke>>
  /\ UNCHANGED answer

EdgeCalls ==
  /\ hop = "edge"
  /\ IF "portal" \in alive THEN hop' = "portal" /\ UNCHANGED broke
                           ELSE hop' = "edge back" /\ broke' = "portal"
  /\ UNCHANGED <<alive, answer>>
PortalCalls ==
  /\ hop = "portal"
  /\ IF "user" \in alive THEN hop' = "user" /\ UNCHANGED broke
                         ELSE hop' = "portal back" /\ broke' = "user"
  /\ UNCHANGED <<alive, answer>>
GetGrade ==
  /\ hop = "user"
  /\ \E hostname \in BOOLEAN :
       /\ broke' = IF hostname THEN broke ELSE "user"
       /\ answer' = IF hostname THEN [None EXCEPT !.text = "hello"] ELSE answer
  /\ hop' = "portal back"
  /\ UNCHANGED alive

\* Portal turns user's error into a text and returns no error of its own.
Portal ==
  /\ hop = "portal back"
  /\ hop' = "edge back"
  /\ IF "portal" \in alive
     THEN /\ answer' = [status |-> 200, text |-> IF broke = "user" THEN "error" ELSE answer.text]
          /\ UNCHANGED broke
     ELSE broke' = "portal" /\ UNCHANGED answer
  /\ UNCHANGED alive
EdgeHandle ==
  /\ hop = "edge back"
  /\ hop' = "done"
  /\ answer' = IF answer.status = 200 THEN answer ELSE [status |-> 500, text |-> "error"]
  /\ UNCHANGED <<alive, broke>>

TracingNext ==
  \/ EdgeCalls \/ PortalCalls \/ GetGrade \/ Portal \/ EdgeHandle
  \/ \E p \in {"portal", "user"} : ProcessDies(p)

-----------------------------------------------------------------------------
VARIABLES pub,           \* Pubs -> "down", "running" or "fatal"
          leases,        \* etcd: leases of <<publisher, start>> not yet run out
          values,        \* the subscriber's map from leases to values
          starts         \* Pubs -> how often it was started
pubVars == <<pub, leases, values, starts>>

PubInit ==
  /\ pub = [p \in Pubs |-> "down"] /\ starts = [p \in Pubs |-> 0]
  /\ leases = {} /\ values = {}

\* KeepAlive registers the value under a new lease and keeps it, or fails and
\* ends the process.
PubMain(p) ==
  /\ pub[p] = "down"
  /\ starts' = [starts EXCEPT ![p] = @ + 1]
  /\ \/ pub' = [pub EXCEPT ![p] = "running"] /\ leases' = leases \cup {<<p, starts[p]>>}
     \/ pub' = [pub EXCEPT ![p] = "fatal"] /\ UNCHANGED leases
  /\ UNCHANGED values
PubCrash(p) ==
  /\ pub[p] = "running" /\ starts[p] <= MaxRestarts
  /\ pub' = [pub EXCEPT ![p] = "down"]
  /\ UNCHANGED <<leases, values, starts>>

\* Defect: the lease is taken and never renewed.
KeepAliveOnce(p) == {}
KeepAlive(p) == IF pub[p] = "running" THEN {<<p, starts[p] - 1>>} ELSE {}
LeaseEnds ==
  \E l \in leases :
    /\ l \notin UNION {KeepAlive(p) : p \in Pubs}
    /\ leases' = leases \ {l}
    /\ UNCHANGED <<pub, values, starts>>
\* The watch tells the subscriber of one lease; Exclusive lets a new lease of a
\* value push out the older ones.
Watch ==
  \/ \E l \in leases \ values :
       /\ \A k \in values : k[1] = l[1] => k[2] < l[2]
       /\ values' = {k \in values : k[1] # l[1]} \cup {l}
       /\ UNCHANGED <<pub, leases, starts>>
  \/ \E l \in values \ leases :
       values' = values \ {l} /\ UNCHANGED <<pub, leases, starts>>
SubValues == {l[1] : l \in values}

PubSubNext == LeaseEnds \/ Watch \/ \E p \in Pubs : PubMain(p) \/ PubCrash(p)

\* The subscriber's values settle on the publishers that run: one that stays up
\* is listed for good, also when its last life's lease runs out after its new
\* one was announced, and one that is gone for good, whether it crashed or could
\* not register again, disappears, however often it was restarted before.
ValuesFollow ==
  \A p \in Pubs :
    /\ <>[](pub[p] = "running") => <>[](p \in SubValues)
    /\ <>[](pub[p] # "running") => <>[](p \notin SubValues)
=============================================================================
