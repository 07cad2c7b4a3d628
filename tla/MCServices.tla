----------------------------- MODULE MCServices -----------------------------
(***************************************************************************)
(* The HTTP and rpc services, the file services, the log writers and the   *)
(* text of chat messages.  Each is a process, or a group of them, of its   *)
(* own: demo says which one this behaviour is of.                          *)
(***************************************************************************)
EXTENDS Rest, Access, Files, Greeter, Stream, Tracing, Logging, ChatFraming

VARIABLE demo
vars == <<demo, restVars, accessVars, fileVars, greetVars, streamVars, traceVars, pubVars, logVars,
          framingVars>>

\* Two uploads of different lengths.
MCSize == [u \in Uploads |-> IF u = CHOOSE x \in Uploads : TRUE THEN 2 ELSE 3]

Demos == {"rest", "jwt", "signature", "files", "greeter", "stream", "tracing", "pubsub", "logging",
          "framing"}
\* The program a behaviour is of starts in any of its initial states; the
\* others stay in one of theirs.
Init ==
  /\ demo \in Demos
  /\ AccessInit /\ StreamInit /\ TracingInit /\ PubInit /\ FramingInit
  /\ RestInit /\ (demo # "rest" => server = "static" /\ native)
  /\ FilesInit /\ (demo # "files" => service = "download" /\ path = "." /\ \A d \in DOMAIN disk : disk[d] = NoFile)
  /\ GreeterInit /\ (demo # "greeter" => deployment = Deployed(K8sServer, K8sClient, "none"))
  /\ LoggingInit /\ (demo # "logging" => program = FilterMain)

Next ==
  /\ UNCHANGED demo
  /\ demo = "rest" \/ UNCHANGED restVars
  /\ demo \in {"jwt", "signature"} \/ UNCHANGED accessVars
  /\ demo = "files" \/ UNCHANGED fileVars
  /\ demo = "greeter" \/ UNCHANGED greetVars
  /\ demo = "stream" \/ UNCHANGED streamVars
  /\ demo = "tracing" \/ UNCHANGED traceVars
  /\ demo = "pubsub" \/ UNCHANGED pubVars
  /\ demo = "logging" \/ UNCHANGED logVars
  /\ demo = "framing" \/ UNCHANGED framingVars
  /\ \/ demo = "rest" /\ RestNext
     \/ demo = "jwt" /\ JwtNext
     \/ demo = "signature" /\ SignNext
     \/ demo = "files" /\ FilesNext
     \/ demo = "greeter" /\ GreeterNext
     \/ demo = "stream" /\ StreamNext
     \/ demo = "tracing" /\ TracingNext
     \/ demo = "pubsub" /\ PubSubNext
     \/ demo = "logging" /\ LoggingNext
     \/ demo = "framing" /\ FramingNext

\* A goroutine that can go on does, a call that was sent is answered or fails,
\* a lease nobody keeps runs out and the registry's news arrives.  Nobody has
\* to crash, stop, start or call.
Fairness ==
  /\ WF_greetVars(demo = "greeter" /\ Send)
  /\ WF_greetVars(demo = "greeter" /\ Return)
  /\ WF_greetVars(demo = "greeter" /\ Notify)
  /\ WF_greetVars(demo = "greeter" /\ NodeStep)
  /\ WF_streamVars(demo = "stream" /\ StreamClient)
  /\ WF_streamVars(demo = "stream" /\ StreamRecv)
  /\ WF_streamVars(demo = "stream" /\ StreamServer)
  /\ WF_pubVars(demo = "pubsub" /\ Watch)
  /\ WF_pubVars(demo = "pubsub" /\ LeaseEnds)

Spec == Init /\ [][Next]_vars /\ Fairness
=============================================================================
