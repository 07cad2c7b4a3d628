------------------------------- MODULE Stream -------------------------------
(***************************************************************************)
(* rpc/client/stream and rpc/server/stream: three requests on one stream,  *)
(* a goroutine that takes the answers, and a WaitGroup between it and      *)
(* main.  The stream itself is external: two queues and a context that     *)
(* ends with the client.                                                   *)
(***************************************************************************)
EXTENDS Integers, Sequences

CONSTANT Sends        \* 3 in the client's loop

ASSUME StreamAssumption == Sends \in Nat \ {0}

VARIABLES main,       \* "add", "send", "wait" or how the client process ended
          i,          \* the client's loop counter
          wg,         \* the WaitGroup's counter
          got,        \* answers the receiver printed
          reqs, resps,\* what is on its way, as request numbers
          greeter,    \* the server's handler: "loop", "recv", an outcome, or "dead"
          replied     \* the request the handler answers next
streamVars == <<main, i, wg, got, reqs, resps, greeter, replied>>

Alive == main \in {"add", "send", "wait"}

StreamInit ==
  /\ main = "add" /\ i = 0 /\ wg = 0 /\ got = <<>>
  /\ reqs = <<>> /\ resps = <<>> /\ greeter = "loop" /\ replied = 0

-----------------------------------------------------------------------------
(* The client. *)
\* The counter goes up before the request is sent: its answer may be taken
\* before StreamSend has returned.
WgAdd ==
  /\ main = "add" /\ i < Sends
  /\ wg' = wg + 1
  /\ main' = "send"
  /\ UNCHANGED <<i, got, reqs, resps, greeter, replied>>
StreamSend ==
  /\ main = "send"
  /\ IF greeter \in {"loop", "recv"}
     THEN reqs' = Append(reqs, i + 1) /\ i' = i + 1 /\ main' = "add"
     ELSE main' = "fatal" /\ UNCHANGED <<i, reqs>>
  /\ UNCHANGED <<wg, got, resps, greeter, replied>>
WgWait ==
  /\ main = "add" /\ i = Sends
  /\ main' = "wait"
  /\ UNCHANGED <<i, wg, got, reqs, resps, greeter, replied>>
StreamExit ==
  /\ main = "wait" /\ wg = 0
  /\ main' = "exit"
  /\ UNCHANGED <<i, wg, got, reqs, resps, greeter, replied>>

\* The receiver prints and calls Done; an error ends the process.  A negative
\* counter is a panic.
StreamRecv ==
  /\ Alive
  /\ \/ /\ resps # <<>>
        /\ resps' = Tail(resps) /\ got' = Append(got, Head(resps))
        /\ wg' = wg - 1
        /\ main' = IF wg - 1 < 0 THEN "panic" ELSE main
     \/ /\ resps = <<>> /\ greeter \notin {"loop", "recv"}
        /\ main' = "fatal" /\ UNCHANGED <<resps, got, wg>>
  /\ UNCHANGED <<i, reqs, greeter, replied>>

-----------------------------------------------------------------------------
(* The server. *)
\* The handler looks at its context only between messages; StreamRecv returns a
\* request, or the error the client's end gives it.
GreetSelect ==
  /\ greeter = "loop"
  /\ greeter' = IF Alive THEN "recv" ELSE "cancelled"
  /\ UNCHANGED <<main, i, wg, got, reqs, resps, replied>>
\* Defect: the handler goes on although StreamRecv failed.
GreetIgnores ==
  /\ greeter = "recv"
  /\ \/ /\ reqs # <<>>
        /\ reqs' = Tail(reqs) /\ replied' = Head(reqs)
        /\ resps' = Append(resps, Head(reqs))
        /\ greeter' = "loop"
     \/ /\ reqs = <<>> /\ ~Alive
        /\ UNCHANGED <<greeter, reqs, resps, replied>>
  /\ UNCHANGED <<main, i, wg, got>>
StreamGreet ==
  /\ greeter = "recv"
  /\ \/ /\ reqs # <<>>
        /\ reqs' = Tail(reqs) /\ replied' = Head(reqs)
        /\ resps' = IF Alive THEN Append(resps, Head(reqs)) ELSE resps   \* StreamSend's error is dropped
        /\ greeter' = "loop"
     \/ /\ reqs = <<>> /\ ~Alive
        /\ greeter' = "error"
        /\ UNCHANGED <<reqs, resps, replied>>
  /\ UNCHANGED <<main, i, wg, got>>
ServerDies ==
  /\ greeter \in {"loop", "recv"}
  /\ greeter' = "dead"
  /\ UNCHANGED <<main, i, wg, got, reqs, resps, replied>>

StreamClient == WgAdd \/ StreamSend \/ WgWait \/ StreamExit
StreamServer == GreetSelect \/ StreamGreet
StreamNext == StreamClient \/ StreamRecv \/ StreamServer \/ ServerDies

-----------------------------------------------------------------------------
\* Client and handler come to an end.  The client ends well only with every
\* answer in hand, in the order it asked (Done never runs ahead of WgAdd), or
\* fails; a handler whose client is gone does not stay in StreamRecv.
StreamEnds ==
  (main = "send") ~>
    /\ ~Alive /\ greeter \notin {"loop", "recv"}
    /\ main # "panic"
    /\ main = "exit" => got = [k \in 1 .. Sends |-> k]
=============================================================================
