-------------------------------- MODULE Rest --------------------------------
(***************************************************************************)
(* The HTTP servers under src/http: what each main registers, what each    *)
(* handler does, and how the rest server runs them.  A route is            *)
(*   accepts  the inputs httpx.Parse takes,                                *)
(*   reject   the answer to the others,                                    *)
(*   work     how long the handler sleeps or computes,                     *)
(*   says     the answer's text,                                           *)
(*   timeout  WithTimeout or the server's Timeout (0 is none).             *)
(* and goes by its method and path.  Times are quarter seconds, rounded    *)
(* up.  go-zero (router, timeout handler, shedder, connection and body     *)
(* limits) is external.                                                    *)
(***************************************************************************)
EXTENDS Naturals, Sequences, FiniteSets

CONSTANTS Conns,      \* the requests of a behaviour
          MaxConns,   \* stands for the 500 connections a route takes
          Late        \* how late a timer or a sleeper may be woken

ASSUME RestAssumption == MaxConns \in Nat \ {0} /\ Late \in Nat

VARIABLES server,     \* which of the servers runs
          native,     \* whether go-zero's own middlewares are in its chain
          conn
restVars == <<server, native, conn>>

-----------------------------------------------------------------------------
Inputs == {"none", "a", "z", "big"}   \* no user, user a, another, over 50 bytes
Default == 12                         \* RestConf.Timeout, 3 s
Handler(accepts, reject, work, says) ==
  [accepts |-> accepts, reject |-> reject, work |-> work, says |-> says]
Hello(says) == Handler({"a", "z", "big"}, "bad", 0, says)
Within(handler, t) ==
  [accepts |-> handler.accepts, reject |-> handler.reject, work |-> handler.work,
   says |-> handler.says, timeout |-> t]
\* A server whose RestConf is loaded from a file, with go-zero's defaults, and
\* one whose main fills in a RestConf: what it leaves out is 0, and whether the
\* native middlewares are on then depends on the go-zero it is built with.
Server(use, routes) == [use |-> use, routes |-> routes, any |-> {}, preflight |-> FALSE,
                        loaded |-> TRUE, sheds |-> TRUE,
                        maxConns |-> Cardinality(Conns), maxBytes |-> FALSE]
Literal(use, routes) == [Server(use, routes) EXCEPT !.loaded = FALSE, !.sheds = FALSE]

WithTimeoutHome == Handler({"a", "z", "big"}, "bad", 6, "welcome-home")
WithTimeoutHello == Handler({"a", "z", "big"}, "bad", 6, "hello")
WithTimeoutHi == Hello("hi")
WithTimeoutUse == <<"first", "second">>
WithTimeoutMain == Server(WithTimeoutUse,
  [get_hello |-> Within(WithTimeoutHome, 4),
   get_api_hello |-> Within(WithTimeoutHello, 20),
   get_api_hi |-> Within(WithTimeoutHi, 20)])

FastLogic == 16
FastHandler == Handler({"a", "z", "big"}, "missing", FastLogic, "")
SlowLogic == 16
SlowHandler == Handler({"a", "z", "big"}, "missing", SlowLogic, "")
\* Defect: the routes are added without their WithTimeout.
TimeoutRoutesDefault == [get_slow |-> Within(SlowHandler, Default),
                         get_fast |-> Within(FastHandler, Default)]
TimeoutRoutes == [get_slow |-> Within(SlowHandler, 20),
                  get_fast |-> Within(FastHandler, Default)]
TimeoutMain == Server(<<>>, TimeoutRoutes)

MiddlewareUse == <<"static-middleware", "token">>
MiddlewareHandle == Hello("hello")
MiddlewareMain == Literal(MiddlewareUse, [get_greet |-> Within(MiddlewareHandle, 0)])

CorsUse == <<"first", "second">>
CorsHello == Hello("welcome")
CorsMain == [Server(CorsUse, [get_hello |-> Within(CorsHello, Default)]) EXCEPT !.preflight = TRUE]

GroupUse == <<"first", "second">>
GroupHomeHello == Hello("welcome-home")
GroupApiHello == Hello("hello")
GroupMain == Literal(GroupUse,
  [get_hello |-> Within(GroupHomeHello, 0), get_api_hello |-> Within(GroupApiHello, 0)])

DemoUse == <<"first", "second">>
DemoHandle == Handler({"a"}, "bad", 0, "hello")   \* options=a|b
DemoMain == [Literal(DemoUse, [get_demo |-> Within(DemoHandle, 0)]) EXCEPT !.maxConns = MaxConns]

PostGet == Handler(Inputs, "bad", 0, "")
PostHandle == Handler({"a", "z", "big"}, "bad", 0, "lengths")
PostMain == [Literal(<<>>, [get_root |-> Within(PostGet, 0), post_root |-> Within(PostHandle, 0)])
               EXCEPT !.maxConns = MaxConns, !.maxBytes = TRUE, !.sheds = TRUE]

WildcardHandle == Handler({"a"}, "bad", 0, "hello")
WildcardMain == [Literal(<<>>, [get_api_users |-> Within(WildcardHandle, 0)])
                   EXCEPT !.maxConns = MaxConns, !.any = {"get_api_any_x"}]

StaticMain == Server(<<>>, [get_static |-> Within(Handler({"a"}, "missing", 0, "file"), Default)])

SheddingHandle == Handler(Inputs, "bad", 1, "sum")
SheddingMain == [Literal(<<>>, [get_root |-> Within(SheddingHandle, 4)]) EXCEPT !.sheds = TRUE]

HttpcHandle == Handler({"a"}, "bad", 0, "echo")
HttpcMain == Literal(<<>>, [post_nodes |-> Within(HttpcHandle, 0)])
HttpcClient == [endpoint |-> "post_nodes", input |-> "a"]   \* all four fields set

Mains == [withtimeout |-> WithTimeoutMain, timeout |-> TimeoutMain,
          middleware |-> MiddlewareMain, cors |-> CorsMain, group |-> GroupMain,
          demo |-> DemoMain, post |-> PostMain, wildcard |-> WildcardMain,
          static |-> StaticMain, shedding |-> SheddingMain, httpc |-> HttpcMain]
Main == Mains[server]

\* What clients ask of a server: its routes, a path it has no route for, a
\* preflight; the httpc client always sends the same request.
Asks ==
  IF server = "httpc" THEN {HttpcClient}
  ELSE [endpoint : DOMAIN Main.routes \cup {"get_api_any_x", "options_hello"}, input : Inputs]

-----------------------------------------------------------------------------
Idle == [phase |-> "idle", endpoint |-> "", input |-> "none", elapsed |-> 0,
         code |-> "none", says |-> "", marks |-> <<>>]
Route(r) == Main.routes[conn[r].endpoint]
Parses(r) == conn[r].input \in Route(r).accepts
Work(r) == IF Parses(r) THEN Route(r).work ELSE 0
Times(r) == native /\ Route(r).timeout > 0
Answered(c, code, says, marks) == [c EXCEPT !.code = code, !.says = says, !.marks = marks]

RestInit ==
  /\ server \in DOMAIN Mains
  /\ native \in BOOLEAN /\ (Main.loaded => native)
  /\ conn = [r \in Conns |-> Idle]

\* A request no handler serves: the not-found handler's prefix, a CORS
\* preflight, too large a body, too many connections, or load shed.
Refusal(r, ask) ==
  LET others == {q \in Conns \ {r} : conn[q].phase = "running"}
      here == {q \in others : conn[q].endpoint = ask.endpoint}
  IN  IF ask.endpoint \notin DOMAIN Main.routes THEN
        {IF ask.endpoint \in Main.any THEN "wildcard"
         ELSE IF Main.preflight /\ ask.endpoint = "options_hello" THEN "preflight"
         ELSE "missing"}
      ELSE IF native /\ Cardinality(here) >= Main.maxConns THEN {"busy"}
      ELSE IF native /\ Main.maxBytes /\ ask.input = "big" THEN {"oversized"}
      ELSE {"served"} \cup (IF native /\ Main.sheds /\ others # {} THEN {"shed"} ELSE {})

Arrive(r) ==
  \E ask \in Asks : \E refusal \in Refusal(r, ask) :
    /\ conn[r].phase = "idle"
    /\ LET c == [conn[r] EXCEPT !.endpoint = ask.endpoint, !.input = ask.input]
       IN  conn' = [conn EXCEPT ![r] =
             IF refusal = "served" THEN [c EXCEPT !.phase = "running"]
             ELSE [Answered(c, refusal, "", <<>>) EXCEPT !.phase = "done"]]
    /\ UNCHANGED <<server, native>>

\* The middlewares mark the answer and the handler writes it; after a timeout
\* both go to a writer that has been closed.
HandlerWrites(r) ==
  /\ conn[r].phase \in {"running", "late"} /\ conn[r].elapsed >= Work(r)
  /\ conn' = [conn EXCEPT ![r] =
       [IF conn[r].phase = "late" THEN @
        ELSE Answered(@, IF Parses(r) THEN "ok" ELSE Route(r).reject,
                         IF Parses(r) THEN Route(r).says ELSE "", Main.use) EXCEPT !.phase = "done"]]
  /\ UNCHANGED <<server, native>>

\* The timeout handler answers 503 and leaves the handler's goroutine running.
TimesOut(r) ==
  /\ conn[r].phase = "running" /\ Times(r) /\ conn[r].elapsed >= Route(r).timeout
  /\ conn' = [conn EXCEPT ![r] = [Answered(@, "timeout", "", <<>>) EXCEPT !.phase = "late"]]
  /\ UNCHANGED <<server, native>>

\* A quarter second passes, unless somebody is due and has been for Late.
Pass ==
  LET open == {r \in Conns : conn[r].phase \in {"running", "late"}}
  IN  /\ open # {}
      /\ \A r \in open :
           /\ conn[r].elapsed < Work(r) + Late
           /\ (conn[r].phase = "running" /\ Times(r)) => conn[r].elapsed < Route(r).timeout + Late
      /\ conn' = [r \in Conns |-> IF r \in open THEN [conn[r] EXCEPT !.elapsed = @ + 1] ELSE conn[r]]
      /\ UNCHANGED <<server, native>>

RestNext == Pass \/ \E r \in Conns : Arrive(r) \/ HandlerWrites(r) \/ TimesOut(r)

-----------------------------------------------------------------------------
\* The routes the code means to time out: FastLogic.Fast says "should timeout",
\* and withtimeout's /hello sleeps 1.5 s under a timeout of 1 s.
ShouldTimeOut == {<<"timeout", "get_fast">>, <<"withtimeout", "get_hello">>}

\* A request that parses is answered by the timeout on exactly those routes,
\* with every waking up to Late late: no other handler is cut off, and none of
\* these ever gets its answer out.
TimeoutsDecide ==
  \A r \in Conns :
    /\ conn[r].code = "timeout" => <<server, conn[r].endpoint>> \in ShouldTimeOut
    /\ conn[r].code = "ok" => <<server, conn[r].endpoint>> \notin ShouldTimeOut
=============================================================================
