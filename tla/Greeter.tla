------------------------------- MODULE Greeter -------------------------------
(***************************************************************************)
(* The rpc examples: a client that calls again and again, the nodes that   *)
(* answer, and how the client finds them (discovery/*, rpc/client/*,       *)
(* rpc/server/unary, rpc/proxy, graceful/*, gateway).  Nodes are started,  *)
(* stopped and crash; the client learns of it late.  zrpc (registration,   *)
(* balancing, graceful stop), the registries and gateway.MustNewServer are *)
(* external.  A deployment is                                              *)
(*   server   how a node registers ("static": it need not, "etcd", "told": *)
(*            the error is thrown away, "k8s") and what its method returns,*)
(*   caller   whether a call has a deadline, what becomes of an error,     *)
(*   front    the HTTP program in front, if any.                           *)
(***************************************************************************)
EXTENDS Naturals, FiniteSets, TLC

CONSTANTS Nodes, MaxFaults, MaxStops      \* bounds on crashes and failures, and on planned stops

ASSUME GreeterAssumption == MaxFaults \in Nat /\ MaxStops \in Nat

VARIABLES deployment,
          node,           \* Nodes -> "down", "registered", "up" or "draining"
          registry, view, \* what the registry lists, and the nodes the client has for connected
          call,           \* the client's call: its phase and node
          printed,        \* the client's last outcome
          client,         \* "running" or "exited"
          faults, stops
greetVars == <<deployment, node, registry, view, call, printed, client, faults, stops>>

-----------------------------------------------------------------------------
Node(registers, answers) == [registers |-> registers, answers |-> answers]
ConsulServer == Node("told", {"greeted", "error"})
NacosServer == Node("told", {"greeted", "error"})
PolarisServer == Node("told", {"greeted", "error"})
K8sServer == Node("k8s", {"greeted", "error"})
UnaryServer == Node("etcd", {"greeted", "error"})
GracefulDnsServer == Node("static", {"greeted", "error"})
GracefulEtcdServer == Node("etcd", {"greeted", "error"})
HelloServer == Node("etcd", {"greeted"})        \* Ping cannot fail

Calls(deadline, onError) == [deadline |-> deadline, onError |-> onError]
ConsulClient == Calls(TRUE, "X")
NacosClient == Calls(TRUE, "X")
PolarisClient == Calls(TRUE, "X")
K8sClient == Calls(TRUE, "X")
DirectClient == Calls(TRUE, "X")
UnaryClient == Calls(FALSE, "X")
LbClient == Calls(FALSE, "X")
ProxyGreet == Calls(TRUE, "X")                  \* under the caller's context; its error too
GracefulDnsHandler == Calls(FALSE, "502")
GracefulEtcdHandler == Calls(FALSE, "502")
GatewayClient == Calls(FALSE, "status")         \* not an error of httpc.Do

At(addresses, server) == [server EXCEPT !.registers = addresses]
LbTypes == [direct |-> At("static", UnaryServer), discov |-> UnaryServer]   \* else log.Fatal
Deployed(server, caller, front) == [server |-> server, caller |-> caller, front |-> front]
Deployments ==
  {Deployed(ConsulServer, ConsulClient, "none"), Deployed(NacosServer, NacosClient, "none"),
   Deployed(PolarisServer, PolarisClient, "none"), Deployed(K8sServer, K8sClient, "none"),
   Deployed(At("static", UnaryServer), DirectClient, "none"), Deployed(UnaryServer, UnaryClient, "none"),
   Deployed(At("static", UnaryServer), ProxyGreet, "none"),
   Deployed(GracefulDnsServer, GracefulDnsHandler, "graceful"),
   Deployed(GracefulEtcdServer, GracefulEtcdHandler, "graceful"),
   Deployed(HelloServer, GatewayClient, "gateway")}
  \cup {Deployed(LbTypes[t], LbClient, "none") : t \in DOMAIN LbTypes}
NoCall == [phase |-> "none", node |-> "none"]
Listed == IF deployment.server.registers = "static" THEN Nodes ELSE registry
Fault == faults < MaxFaults /\ faults' = faults + 1

GreeterInit ==
  /\ deployment \in Deployments
  /\ node = [n \in Nodes |-> "down"]
  /\ registry = {} /\ view = {} /\ call = NoCall
  /\ printed = "none" /\ client = "running" /\ faults = 0 /\ stops = 0

-----------------------------------------------------------------------------
(* The nodes. *)
\* The discovery servers register before they listen and drop the error; a
\* server with etcd registers or does not start; k8s needs no registration.
Told(n) ==
  /\ deployment.server.registers = "told"
  /\ \/ registry' = registry \cup {n} /\ UNCHANGED faults
     \/ Fault /\ UNCHANGED registry
ServerMain(n) ==
  /\ node[n] = "down"
  /\ \/ Told(n)
     \/ deployment.server.registers = "etcd" /\ registry' = registry \cup {n} /\ UNCHANGED faults
     \/ deployment.server.registers \in {"static", "k8s"} /\ UNCHANGED <<registry, faults>>
  /\ node' = [node EXCEPT ![n] = "registered"]
  /\ UNCHANGED <<deployment, view, call, printed, client, stops>>
Listen(n) ==
  /\ node[n] = "registered"
  /\ node' = [node EXCEPT ![n] = "up"]
  /\ registry' = IF deployment.server.registers = "k8s" THEN registry \cup {n} ELSE registry
  /\ UNCHANGED <<deployment, view, call, printed, client, faults, stops>>

\* A signal: the node leaves the registry and takes no more connections.
Stop(n) ==
  /\ node[n] = "up" /\ stops < MaxStops
  /\ node' = [node EXCEPT ![n] = "draining"]
  /\ registry' = registry \ {n} /\ stops' = stops + 1
  /\ UNCHANGED <<deployment, view, call, printed, client, faults>>
\* Whoever has a call with n loses it.
Broken(n) == IF call.node = n /\ call.phase = "sent" THEN [call EXCEPT !.phase = "error"] ELSE call
\* It waits for its calls, but only for so long: it may end with one in hand.
Drained(n) ==
  /\ node[n] = "draining"
  /\ node' = [node EXCEPT ![n] = "down"] /\ call' = Broken(n)
  /\ UNCHANGED <<deployment, registry, view, printed, client, faults, stops>>
Crash(n) ==
  /\ node[n] \in {"up", "draining"} /\ Fault
  /\ node' = [node EXCEPT ![n] = "down"] /\ call' = Broken(n)
  /\ UNCHANGED <<deployment, registry, view, printed, client, stops>>
\* A crashed node's lease or health check runs out.
Expire(n) ==
  /\ n \in registry /\ node[n] = "down"
  /\ registry' = registry \ {n}
  /\ UNCHANGED <<deployment, node, view, call, printed, client, faults, stops>>
\* The client connects to the nodes that are listed (static addresses always
\* are) and listen, and hears that one is gone, unlisted or stopping, in its time.
Connect(n) == n \in Listed \ view /\ node[n] = "up" /\ view' = view \cup {n}
Disconnect(n) == n \in view /\ (n \notin Listed \/ node[n] # "up") /\ view' = view \ {n}
Notify ==
  /\ \E n \in Nodes : Connect(n) \/ Disconnect(n)
  /\ UNCHANGED <<deployment, node, registry, call, printed, client, faults, stops>>

\* Greet, Grace and Ping: the host's name, unless the system has none.
Greet(n) ==
  /\ call = [phase |-> "sent", node |-> n] /\ node[n] \in {"up", "draining"}
  /\ \E answer \in deployment.server.answers :
       /\ call' = [call EXCEPT !.phase = answer]
       /\ IF answer = "error" THEN Fault ELSE UNCHANGED faults
  /\ UNCHANGED <<deployment, node, registry, view, printed, client, stops>>

-----------------------------------------------------------------------------
(* The client's loop and the programs in front of the nodes. *)
\* The balancer takes a node it believes to be connected to, and fails without
\* one.  A call to a node that is gone fails and takes it off the view.
Send ==
  /\ call = NoCall /\ client = "running"
  /\ \/ \E n \in view :
          IF node[n] \in {"up", "draining"}
          THEN call' = [phase |-> "sent", node |-> n] /\ UNCHANGED view
          ELSE call' = [phase |-> "error", node |-> n] /\ view' = view \ {n}
     \/ view = {} /\ call' = [phase |-> "error", node |-> "none"] /\ UNCHANGED view
  /\ UNCHANGED <<deployment, node, registry, printed, client, faults, stops>>
\* A tick of a graceful api: os.Hostname comes before the call.
OwnHostnameFails ==
  /\ call = NoCall /\ client = "running" /\ deployment.front = "graceful" /\ Fault
  /\ printed' = "501"
  /\ UNCHANGED <<deployment, node, registry, view, call, client, stops>>
Deadline ==
  /\ call.phase = "sent" /\ deployment.caller.deadline /\ Fault
  /\ call' = [call EXCEPT !.phase = "error"]
  /\ UNCHANGED <<deployment, node, registry, view, printed, client, stops>>

\* Defect: an error ends the loop.
ReturnExits ==
  /\ call.phase \in {"greeted", "error"}
  /\ printed' = IF call.phase = "error" THEN deployment.caller.onError ELSE "=>"
  /\ client' = IF call.phase = "error" THEN "exited" ELSE client
  /\ call' = NoCall
  /\ UNCHANGED <<deployment, node, registry, view, faults, stops>>
\* The outcome is printed, or answered, and the loop goes on.
Return ==
  /\ call.phase \in {"greeted", "error"}
  /\ printed' = IF call.phase = "error" THEN deployment.caller.onError ELSE "=>"
  /\ call' = NoCall
  /\ UNCHANGED <<deployment, node, registry, view, client, faults, stops>>
\* The gateway itself is gone: the client's loop returns on httpc.Do's error.
GatewayGone ==
  /\ deployment.front = "gateway" /\ call = NoCall /\ client = "running" /\ Fault
  /\ client' = "exited"
  /\ UNCHANGED <<deployment, node, registry, view, call, printed, stops>>

NodeStep == \E n \in Nodes : Listen(n) \/ Drained(n) \/ Expire(n) \/ Greet(n)
GreeterNext ==
  \/ NodeStep \/ Notify \/ Send \/ OwnHostnameFails \/ Deadline \/ Return \/ GatewayGone
  \/ \E n \in Nodes : ServerMain(n) \/ Stop(n) \/ Crash(n)

\* The client gets over failures: if a listed node stays up, calls are answered
\* again and again, whatever failed before and whichever of its connections were
\* to nodes that had crashed or been stopped.  (The gateway's client is the
\* exception: it leaves its loop when the gateway cannot be reached.)
ClientRecovers ==
  <>[](\E n \in Nodes : node[n] = "up" /\ n \in Listed)
    => []<>(call.phase = "greeted" \/ (deployment.front = "gateway" /\ client = "exited"))
=============================================================================
