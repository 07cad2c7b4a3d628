-------------------------------- MODULE Sse --------------------------------
(***************************************************************************)
(* The server-sent events example, http/sse: one goroutine per connection  *)
(* (Serve) and one that broadcasts the time every second (SimulateEvents). *)
(* They share the map SseHandler.clients, without a lock, and for every    *)
(* connection an unbuffered channel, which Serve closes.                   *)
(*                                                                         *)
(* A map write is not atomic: it begins and ends.  An operation that meets *)
(* a write under way is a data race; the runtime may detect it and end the *)
(* process (`concurrent map writes', `concurrent map iteration and map     *)
(* write') or not, in which case the model lets the operation through.     *)
(***************************************************************************)
EXTENDS Integers, Sequences

CONSTANTS Client,   \* connections, each with its clientChan
          NoClient, \* SimulateEvents has no channel in hand
          MaxTick   \* bound: ticks of a behaviour

ASSUME SseAssumption == NoClient \notin Client /\ MaxTick \in Nat

VARIABLES
    clients,   \* SseHandler.clients
    writing,   \* goroutines in the middle of a write to the map
    closed,    \* clientChans that were closed
    serve,     \* program counter of Serve
    connected, \* the request's context is not done
    msg,       \* the message Serve is writing
    tick,      \* number of the current message
    looping,   \* SimulateEvents is in its range loop
    atStart,   \* what the map held when the loop began
    seen,      \* channels the loop has produced
    visit,     \* the channel in hand
    got,       \* history: messages written to each connection
    crashed    \* why the process has ended: "no", "race" or "send"

serveVars == <<serve, msg, got>>
simVars   == <<tick, looping, atStart, seen, visit>>
vars == <<clients, writing, closed, connected, serveVars, simVars, crashed>>

TypeOK ==
    /\ clients \subseteq Client /\ writing \subseteq Client
    /\ closed \subseteq Client /\ connected \subseteq Client
    /\ atStart \subseteq Client /\ seen \subseteq Client
    /\ serve \in [Client -> {"idle", "insert", "inserting", "select", "write",
                             "delete", "deleting", "close", "done"}]
    /\ msg \in [Client -> 0..MaxTick]
    /\ tick \in 0..MaxTick
    /\ looping \in BOOLEAN
    /\ crashed \in {"no", "race", "send"}
    /\ visit \in Client \cup {NoClient}
    /\ got \in [Client -> Seq(1..MaxTick)]

Init ==
    /\ clients = {} /\ writing = {} /\ closed = {} /\ connected = {}
    /\ serve = [c \in Client |-> "idle"]
    /\ msg = [c \in Client |-> 0]
    /\ got = [c \in Client |-> <<>>]
    /\ tick = 0 /\ looping = FALSE
    /\ atStart = {} /\ seen = {} /\ visit = NoClient
    /\ crashed = "no"

Goto(c, pc) == serve' = [serve EXCEPT ![c] = pc]

\* A map operation is let through; in a race it may also end the process.
MapAccess == UNCHANGED crashed \/ (writing # {} /\ crashed' = "race")

-----------------------------------------------------------------------------
(* Serve *)

Connect(c) ==
    /\ serve[c] = "idle"
    /\ connected' = connected \cup {c}
    /\ Goto(c, "insert")
    /\ UNCHANGED <<clients, writing, closed, msg, got, simVars, crashed>>

Disconnect(c) ==
    /\ c \in connected
    /\ connected' = connected \ {c}
    /\ UNCHANGED <<clients, writing, closed, serveVars, simVars, crashed>>

\* h.clients[clientChan] = struct{}{} and delete(h.clients, clientChan)
WriteBegin(c) ==
    /\ serve[c] \in {"insert", "delete"}
    /\ MapAccess
    /\ writing' = writing \cup {c}
    /\ Goto(c, IF serve[c] = "insert" THEN "inserting" ELSE "deleting")
    /\ UNCHANGED <<clients, closed, connected, msg, got, simVars>>

WriteEnd(c) ==
    /\ serve[c] \in {"inserting", "deleting"}
    /\ writing' = writing \ {c}
    /\ \/ /\ serve[c] = "inserting"
          /\ clients' = clients \cup {c}
          /\ Goto(c, "select")
       \/ /\ serve[c] = "deleting"
          /\ clients' = clients \ {c}
          /\ Goto(c, "close")
    /\ UNCHANGED <<closed, connected, msg, got, simVars, crashed>>

\* The message received in BroadcastSend is written and flushed.
WriteEvent(c) ==
    /\ serve[c] = "write"
    /\ got' = [got EXCEPT ![c] = Append(@, msg[c])]
    /\ Goto(c, "select")
    /\ UNCHANGED <<clients, writing, closed, connected, msg, simVars, crashed>>

\* <-r.Context().Done(): the deferred function runs.
ContextDone(c) ==
    /\ serve[c] = "select"
    /\ c \notin connected
    /\ Goto(c, "delete")
    /\ UNCHANGED <<clients, writing, closed, connected, msg, got, simVars, crashed>>

\* Mutant of CloseChan: the deferred function only deletes the map entry.
CloseChanSkipped(c) ==
    /\ serve[c] = "close"
    /\ Goto(c, "done")
    /\ UNCHANGED <<clients, writing, closed, connected, msg, got, simVars, crashed>>

CloseChan(c) ==
    /\ serve[c] = "close"
    /\ closed' = closed \cup {c}
    /\ Goto(c, "done")
    /\ UNCHANGED <<clients, writing, connected, msg, got, simVars, crashed>>

-----------------------------------------------------------------------------
(* SimulateEvents *)

Tick ==
    /\ ~looping
    /\ tick < MaxTick
    /\ MapAccess
    /\ tick' = tick + 1
    /\ looping' = TRUE
    /\ atStart' = clients
    /\ seen' = {}
    /\ UNCHANGED <<clients, writing, closed, connected, serveVars, visit>>

\* Mutant of RangeNext: the loop forgets which channels it has produced.
RangeNextAgain(c) ==
    /\ looping /\ visit = NoClient
    /\ c \in clients
    /\ MapAccess
    /\ visit' = c
    /\ UNCHANGED <<clients, writing, closed, connected, serveVars, tick,
                   looping, atStart, seen>>

\* The iterator produces a channel that is in the map and was not produced.
RangeNext(c) ==
    /\ looping /\ visit = NoClient
    /\ c \in clients \ seen
    /\ MapAccess
    /\ visit' = c
    /\ seen' = seen \cup {c}
    /\ UNCHANGED <<clients, writing, closed, connected, serveVars, tick,
                   looping, atStart>>

\* It may miss an entry only if it was added after the loop began.
RangeEnd ==
    /\ looping /\ visit = NoClient
    /\ atStart \cap clients \subseteq seen
    /\ MapAccess
    /\ looping' = FALSE
    /\ UNCHANGED <<clients, writing, closed, connected, serveVars, tick,
                   atStart, seen, visit>>

\* Mutant of BroadcastSend: a plain send, without the default case.
BroadcastBlocks ==
    /\ visit # NoClient
    /\ serve[visit] = "select"
    /\ msg' = [msg EXCEPT ![visit] = tick]
    /\ Goto(visit, "write")
    /\ visit' = NoClient
    /\ UNCHANGED <<clients, writing, closed, connected, got, tick, looping,
                   atStart, seen, crashed>>

\* The select with default: a closed channel panics (and nobody recovers in
\* this goroutine), a receiver that waits gets the message, others are skipped.
BroadcastSend ==
    /\ visit # NoClient
    /\ visit' = NoClient
    /\ \/ /\ visit \in closed
          /\ crashed' = "send"
          /\ UNCHANGED <<serve, msg>>
       \/ /\ serve[visit] = "select"
          /\ msg' = [msg EXCEPT ![visit] = tick]
          /\ Goto(visit, "write")
          /\ UNCHANGED crashed
       \/ /\ visit \notin closed /\ serve[visit] # "select"
          /\ UNCHANGED <<serve, msg, crashed>>
    /\ UNCHANGED <<clients, writing, closed, connected, got, tick, looping,
                   atStart, seen>>

-----------------------------------------------------------------------------
ServeNext(c) ==
    WriteBegin(c) \/ WriteEnd(c) \/ WriteEvent(c) \/ ContextDone(c) \/ CloseChan(c)

LoopNext == (\E c \in Client : RangeNext(c)) \/ RangeEnd \/ BroadcastSend

Running == crashed = "no"

Next ==
    /\ Running
    /\ \/ \E c \in Client : Connect(c) \/ Disconnect(c) \/ ServeNext(c)
       \/ Tick \/ LoopNext

Spec == Init /\ [][Next]_vars

\* Every goroutine that can go on does.  In Serve's select both cases can be
\* ready again and again; it picks at random, so each is taken (strong
\* fairness of ContextDone).
Fairness ==
    /\ WF_vars(Running /\ LoopNext)
    /\ \A c \in Client :
          /\ WF_vars(Running /\ ServeNext(c))
          /\ SF_vars(Running /\ ContextDone(c))

FairSpec == Spec /\ Fairness
-----------------------------------------------------------------------------
\* Each connection is sent the events in order and none of them twice, though
\* it is skipped when busy and the map changes under the loop.
EventsInOrder ==
    \A c \in Client : \A i, j \in DOMAIN got[c] : i < j => got[c][i] < got[c][j]

\* A connection that ends, at any moment, is removed from the map and has its
\* channel closed (unless the process has died).
DisconnectIsCleanedUp ==
    \A c \in Client :
        serve[c] # "idle" /\ c \notin connected
            ~> (serve[c] = "done" /\ c \notin clients /\ c \in closed) \/ ~Running

\* No connection, however slow, keeps the broadcast from finishing its round.
RoundsEnd == looping ~> ~looping \/ ~Running

\* `Clean up when client disconnects': closing the channel of a connection that
\* has ended does not bring down the broadcast, and the process with it.
DisconnectIsHarmless == crashed # "send"
=============================================================================
