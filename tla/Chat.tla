-------------------------------- MODULE Chat --------------------------------
(***************************************************************************)
(* The chat example, chat/internal: one hub goroutine (Hub.Run), and for   *)
(* every websocket connection the handler goroutine of ServeWs, a readPump *)
(* and a writePump.  They meet on three unbuffered channels (register,     *)
(* unregister, broadcast: a send is one rendezvous step with the hub's     *)
(* select) and on the connection's buffered channel `send'.                *)
(*                                                                         *)
(* Every Go channel operation, every read or write of the socket and every *)
(* connection close is a step of its own; a message is its author and a    *)
(* sequence number (its text is the subject of module ChatFraming).        *)
(***************************************************************************)
EXTENDS Integers, Sequences

CONSTANTS Client,    \* the websocket connections a run may see
          BufSize,   \* capacity of Client.send (bufSize)
          MaxSent    \* bound: messages a peer sends during a behaviour

ASSUME BufSizeAssumption == BufSize \in Nat \ {0}
ASSUME MaxSentAssumption == MaxSent \in Nat

VARIABLES
    clients,    \* Hub.clients
    hubTodo,    \* clients the running broadcast loop has still to visit
    send,       \* Client.send: the buffered messages
    sendClosed, \* Client.send was closed
    panicked,   \* a goroutine sent on, or closed, a closed channel
    serve,      \* program counter of ServeWs
    reader,     \* program counter of readPump
    writer,     \* program counter of writePump
    conn,       \* the websocket: none, open, broken (peer gone), closed
    sent,       \* how many messages the peer has sent
    todo,       \* writePump's local n, counted down by its loop
    frame,      \* messages in the websocket message writePump is building
    log,        \* history: messages the hub received, in order
    joined,     \* history: length of log when the client was registered
    delivered   \* history: messages flushed to the socket

hubVars    == <<clients, hubTodo, log, joined>>
chanVars   == <<send, sendClosed, panicked>>
readerVars == <<reader, sent>>
writerVars == <<writer, todo, frame, delivered>>
vars == <<hubVars, chanVars, readerVars, writerVars, serve, conn>>

\* A message is known by its author and its number among the author's ones.
Message == Client \X (1..MaxSent)

NoMessage == <<>>    \* what a receive from a drained, closed channel yields

TypeOK ==
    /\ clients \subseteq Client
    /\ hubTodo \subseteq Client
    /\ send \in [Client -> Seq(Message)]
    /\ sendClosed \in [Client -> BOOLEAN]
    /\ panicked \in BOOLEAN
    /\ serve \in [Client -> {"idle", "refused", "register", "start", "done"}]
    /\ reader \in [Client -> {"idle", "read", "publish", "unregister",
                              "close", "done"}]
    /\ writer \in [Client -> {"idle", "select", "next", "drain", "close",
                              "done"}]
    /\ conn \in [Client -> {"none", "open", "broken", "closed"}]
    /\ sent \in [Client -> 0..MaxSent]
    /\ todo \in [Client -> 0..BufSize]
    /\ frame \in [Client -> Seq(Message)]
    /\ log \in Seq(Message)
    /\ joined \in [Client -> Nat]
    /\ delivered \in [Client -> Seq(Message)]

Init ==
    /\ clients = {}
    /\ hubTodo = {}
    /\ send = [c \in Client |-> <<>>]
    /\ sendClosed = [c \in Client |-> FALSE]
    /\ panicked = FALSE
    /\ serve = [c \in Client |-> "idle"]
    /\ reader = [c \in Client |-> "idle"]
    /\ writer = [c \in Client |-> "idle"]
    /\ conn = [c \in Client |-> "none"]
    /\ sent = [c \in Client |-> 0]
    /\ todo = [c \in Client |-> 0]
    /\ frame = [c \in Client |-> <<>>]
    /\ log = <<>>
    /\ joined = [c \in Client |-> 0]
    /\ delivered = [c \in Client |-> <<>>]

-----------------------------------------------------------------------------
(* Channels.  Closing a closed channel, or sending on one, panics. *)

CloseSend(c) ==
    /\ panicked' = (panicked \/ sendClosed[c])
    /\ sendClosed' = [sendClosed EXCEPT ![c] = TRUE]
    /\ UNCHANGED send

\* What `<-c.send' yields to writePump when it can proceed at all.
Received(c) == IF send[c] = <<>> THEN NoMessage ELSE Head(send[c])

AfterReceive(c) ==
    [send EXCEPT ![c] = IF @ = <<>> THEN @ ELSE Tail(@)]

-----------------------------------------------------------------------------
(* The peer and the network. *)

\* The peer goes away, stalls, breaks the protocol or is cut off.  Reads and
\* writes may still succeed for a while (buffered bytes).
ConnBreak(c) ==
    /\ conn[c] = "open"
    /\ conn' = [conn EXCEPT ![c] = "broken"]
    /\ UNCHANGED <<hubVars, chanVars, readerVars, writerVars, serve>>

-----------------------------------------------------------------------------
(* ServeWs *)

\* upgrader.Upgrade succeeds; the handler goes on to register the client.
ServeWs(c) ==
    /\ serve[c] = "idle"
    /\ serve' = [serve EXCEPT ![c] = "register"]
    /\ conn' = [conn EXCEPT ![c] = "open"]
    /\ UNCHANGED <<hubVars, chanVars, readerVars, writerVars>>

\* upgrader.Upgrade fails: log and return.
ServeWsRefuse(c) ==
    /\ serve[c] = "idle"
    /\ serve' = [serve EXCEPT ![c] = "refused"]
    /\ UNCHANGED <<hubVars, chanVars, readerVars, writerVars, conn>>

\* The two go statements, after the hub has taken the registration.
StartPumps(c) ==
    /\ serve[c] = "start"
    /\ serve' = [serve EXCEPT ![c] = "done"]
    /\ writer' = [writer EXCEPT ![c] = "select"]
    /\ reader' = [reader EXCEPT ![c] = "read"]
    /\ UNCHANGED <<hubVars, chanVars, sent, todo, frame, delivered, conn>>

-----------------------------------------------------------------------------
(* Hub.Run.  The hub is at its select exactly when hubTodo is empty. *)

HubRegister(c) ==
    /\ hubTodo = {}
    /\ serve[c] = "register"
    /\ clients' = clients \cup {c}
    /\ joined' = [joined EXCEPT ![c] = Len(log)]
    /\ serve' = [serve EXCEPT ![c] = "start"]
    /\ UNCHANGED <<hubTodo, log, chanVars, readerVars, writerVars, conn>>

\* Mutant of HubUnregister: the client is deleted and its channel left open.
HubUnregisterNoClose(c) ==
    /\ hubTodo = {}
    /\ reader[c] = "unregister"
    /\ reader' = [reader EXCEPT ![c] = "close"]
    /\ clients' = clients \ {c}
    /\ UNCHANGED <<hubTodo, log, joined, chanVars, sent, writerVars, serve, conn>>

\* readPump's deferred unregister meets the hub; an unknown client is ignored.
HubUnregister(c) ==
    /\ hubTodo = {}
    /\ reader[c] = "unregister"
    /\ reader' = [reader EXCEPT ![c] = "close"]
    /\ \/ /\ c \in clients
          /\ clients' = clients \ {c}
          /\ CloseSend(c)
       \/ /\ c \notin clients
          /\ UNCHANGED <<clients, chanVars>>
    /\ UNCHANGED <<hubTodo, log, joined, sent, writerVars, serve, conn>>

\* Mutant of HubBroadcast: a second goroutine serves broadcasts, so that a new
\* loop starts while the last one is still running.
HubBroadcastOverlaps(c) ==
    /\ reader[c] = "publish"
    /\ log' = Append(log, <<c, sent[c]>>)
    /\ hubTodo' = clients
    /\ reader' = [reader EXCEPT ![c] = "read"]
    /\ UNCHANGED <<clients, joined, chanVars, sent, writerVars, serve, conn>>

\* readPump's send on broadcast meets the hub, which starts its range loop.
HubBroadcast(c) ==
    /\ hubTodo = {}
    /\ reader[c] = "publish"
    /\ log' = Append(log, <<c, sent[c]>>)
    /\ hubTodo' = clients
    /\ reader' = [reader EXCEPT ![c] = "read"]
    /\ UNCHANGED <<clients, joined, chanVars, sent, writerVars, serve, conn>>

\* Mutant of HubSend: the evicted client's channel is closed but the client is
\* not deleted.
HubSendKeepsEvicted(c) ==
    /\ c \in hubTodo
    /\ hubTodo' = hubTodo \ {c}
    /\ \/ /\ Len(send[c]) < BufSize \/ sendClosed[c]
          /\ send' = [send EXCEPT ![c] = Append(@, log[Len(log)])]
          /\ panicked' = (panicked \/ sendClosed[c])
          /\ UNCHANGED sendClosed
       \/ Len(send[c]) >= BufSize /\ ~sendClosed[c] /\ CloseSend(c)
    /\ UNCHANGED <<clients, log, joined, readerVars, writerVars, serve, conn>>

\* Mutant of HubSend: a full channel loses the message (an empty default case).
HubSendDrops(c) ==
    /\ c \in hubTodo
    /\ hubTodo' = hubTodo \ {c}
    /\ send' = [send EXCEPT ![c] =
                   IF Len(@) < BufSize THEN Append(@, log[Len(log)]) ELSE @]
    /\ UNCHANGED <<clients, sendClosed, panicked, log, joined, readerVars,
                   writerVars, serve, conn>>

\* Mutant of HubSend: a plain send, without the default case, blocks the hub.
HubSendBlocks(c) ==
    /\ c \in hubTodo
    /\ Len(send[c]) < BufSize
    /\ hubTodo' = hubTodo \ {c}
    /\ send' = [send EXCEPT ![c] = Append(@, log[Len(log)])]
    /\ UNCHANGED <<clients, sendClosed, panicked, log, joined, readerVars,
                   writerVars, serve, conn>>

\* One iteration of the range loop: a send that does not block, or eviction.
HubSend(c) ==
    /\ c \in hubTodo
    /\ hubTodo' = hubTodo \ {c}
    /\ \/ /\ Len(send[c]) < BufSize \/ sendClosed[c]
          /\ send' = [send EXCEPT ![c] = Append(@, log[Len(log)])]
          /\ panicked' = (panicked \/ sendClosed[c])
          /\ UNCHANGED <<clients, sendClosed>>
       \/ /\ Len(send[c]) >= BufSize /\ ~sendClosed[c]
          /\ CloseSend(c)
          /\ clients' = clients \ {c}
    /\ UNCHANGED <<log, joined, readerVars, writerVars, serve, conn>>

-----------------------------------------------------------------------------
(* readPump *)

ReadMessage(c) ==
    /\ reader[c] = "read"
    /\ conn[c] \in {"open", "broken"}
    /\ sent[c] < MaxSent
    /\ sent' = [sent EXCEPT ![c] = @ + 1]
    /\ reader' = [reader EXCEPT ![c] = "publish"]
    /\ UNCHANGED <<hubVars, chanVars, writerVars, serve, conn>>

\* A broken connection fails its read at the latest when the read deadline
\* (pongWait) passes without a pong; a closed one fails at once.
ReadError(c) ==
    /\ reader[c] = "read"
    /\ conn[c] \in {"broken", "closed"}
    /\ reader' = [reader EXCEPT ![c] = "unregister"]
    /\ UNCHANGED <<hubVars, chanVars, sent, writerVars, serve, conn>>

ReaderClose(c) ==
    /\ reader[c] = "close"
    /\ conn' = [conn EXCEPT ![c] = "closed"]
    /\ reader' = [reader EXCEPT ![c] = "done"]
    /\ UNCHANGED <<hubVars, chanVars, sent, writerVars, serve>>

-----------------------------------------------------------------------------
(* writePump *)

\* message, ok := <-c.send with ok = true
WriterReceive(c) ==
    /\ writer[c] = "select"
    /\ send[c] # <<>>
    /\ frame' = [frame EXCEPT ![c] = <<Received(c)>>]
    /\ send' = AfterReceive(c)
    /\ writer' = [writer EXCEPT ![c] = "next"]
    /\ UNCHANGED <<hubVars, sendClosed, panicked, readerVars, todo, delivered,
                   serve, conn>>

\* !ok: the hub closed the channel.  The close message is best effort.
WriterChannelClosed(c) ==
    /\ writer[c] = "select"
    /\ send[c] = <<>>
    /\ sendClosed[c]
    /\ writer' = [writer EXCEPT ![c] = "close"]
    /\ UNCHANGED <<hubVars, chanVars, readerVars, todo, frame, delivered, serve,
                   conn>>

\* Mutant of WriterCount: the loop runs once too often (i <= n).
WriterCountOffByOne(c) ==
    /\ writer[c] = "next"
    /\ todo' = [todo EXCEPT ![c] = Len(send[c]) + 1]
    /\ writer' = [writer EXCEPT ![c] = "drain"]
    /\ UNCHANGED <<hubVars, chanVars, readerVars, frame, delivered, serve, conn>>

\* NextWriter succeeds, the message is written, and n := len(c.send).
WriterCount(c) ==
    /\ writer[c] = "next"
    /\ todo' = [todo EXCEPT ![c] = Len(send[c])]
    /\ writer' = [writer EXCEPT ![c] = "drain"]
    /\ UNCHANGED <<hubVars, chanVars, readerVars, frame, delivered, serve, conn>>

\* One turn of the loop that appends the queued messages to the frame.
WriterDrain(c) ==
    /\ writer[c] = "drain"
    /\ todo[c] > 0
    /\ send[c] # <<>> \/ sendClosed[c]
    /\ frame' = [frame EXCEPT ![c] = Append(@, Received(c))]
    /\ send' = AfterReceive(c)
    /\ todo' = [todo EXCEPT ![c] = @ - 1]
    /\ UNCHANGED <<hubVars, sendClosed, panicked, readerVars, writer, delivered,
                   serve, conn>>

\* w.Close flushes the frame to the socket.
WriterFlush(c) ==
    /\ writer[c] = "drain"
    /\ todo[c] = 0
    /\ conn[c] # "closed"
    /\ delivered' = [delivered EXCEPT ![c] = @ \o frame[c]]
    /\ frame' = [frame EXCEPT ![c] = <<>>]
    /\ writer' = [writer EXCEPT ![c] = "select"]
    /\ UNCHANGED <<hubVars, chanVars, readerVars, todo, serve, conn>>

\* NextWriter, w.Close or the periodic ping fails.  (A ping that succeeds
\* changes nothing.)
WriterError(c) ==
    /\ \/ writer[c] \in {"next", "select"}
       \/ writer[c] = "drain" /\ todo[c] = 0
    /\ conn[c] # "open"
    /\ writer' = [writer EXCEPT ![c] = "close"]
    /\ UNCHANGED <<hubVars, chanVars, readerVars, todo, frame, delivered, serve,
                   conn>>

\* Mutant of WriterClose: the deferred function only stops the ticker.
WriterCloseKeepsConn(c) ==
    /\ writer[c] = "close"
    /\ writer' = [writer EXCEPT ![c] = "done"]
    /\ UNCHANGED <<hubVars, chanVars, readerVars, todo, frame, delivered, serve,
                   conn>>

\* The deferred function closes the socket, which also ends readPump's read.
WriterClose(c) ==
    /\ writer[c] = "close"
    /\ conn' = [conn EXCEPT ![c] = "closed"]
    /\ writer' = [writer EXCEPT ![c] = "done"]
    /\ UNCHANGED <<hubVars, chanVars, readerVars, todo, frame, delivered, serve>>

-----------------------------------------------------------------------------
HubSelect(c) == HubRegister(c) \/ HubUnregister(c) \/ HubBroadcast(c)

HubNext(c) == HubSelect(c) \/ HubSend(c)

ReaderNext(c) == ReadMessage(c) \/ ReadError(c) \/ ReaderClose(c)

WriterNext(c) ==
    \/ WriterReceive(c) \/ WriterChannelClosed(c) \/ WriterCount(c)
    \/ WriterDrain(c) \/ WriterFlush(c) \/ WriterError(c) \/ WriterClose(c)

\* A panic in any goroutine ends the process.
Next ==
    /\ ~panicked
    /\ \E c \in Client :
          \/ ConnBreak(c) \/ ServeWs(c) \/ ServeWsRefuse(c) \/ StartPumps(c)
          \/ HubNext(c) \/ ReaderNext(c) \/ WriterNext(c)

Spec == Init /\ [][Next]_vars

(***************************************************************************)
(* Fairness.  The Go scheduler runs every runnable goroutine; a goroutine  *)
(* waiting on an unbuffered channel of the hub is queued first come first  *)
(* served and select picks fairly among ready cases, so a rendezvous that  *)
(* is possible again and again happens (strong fairness: the hub is busy   *)
(* between two selects).  Peers owe nothing: no fairness on ConnBreak,     *)
(* ServeWs or ReadMessage.                                                 *)
(***************************************************************************)
Fairness ==
    /\ WF_vars(\E c \in Client : HubSend(c))
    /\ \A c \in Client :
        /\ SF_vars(HubSelect(c))
        /\ WF_vars(StartPumps(c) \/ ReadError(c) \/ ReaderClose(c))
        /\ WF_vars(WriterNext(c))

FairSpec == Spec /\ Fairness
-----------------------------------------------------------------------------
(* Safety *)

\* The hub never sends on a closed channel and never closes one twice: neither
\* the unregister case nor the eviction in the broadcast loop of Hub.Run can
\* meet a client the other one has already removed.
NoPanic == ~panicked

\* The hub has taken the client's registration.
Registered(c) == serve[c] \in {"start", "done"}

\* From its registration on, a client is in Hub.clients exactly as long as its
\* send channel is open, whichever of the two places in Hub.Run removes it.
ClosedIffRemoved ==
    \A c \in Client : sendClosed[c] <=> (Registered(c) /\ c \notin clients)

\* The messages writePump counted with len(c.send) are still there when its
\* loop receives them, though the hub may append to the channel or close it in
\* between: the loop never blocks and never writes a nil message.
DrainTakesQueued ==
    \A c \in Client : writer[c] = "drain" => todo[c] <= Len(send[c])

\* How many messages the hub has queued for c so far.
Handed(c) == Len(delivered[c]) + Len(frame[c]) + Len(send[c])

\* What was queued for c, in the order of the queue: on the socket, in the
\* frame being built, in the channel.
Stream(c) == delivered[c] \o frame[c] \o send[c]

\* Every client is given the broadcasts that follow its registration, all of
\* them and in the hub's order, up to the point where it is removed; a member
\* lacks at most the message of the broadcast loop that has yet to visit it.
NoGapNoReorder ==
    \A c \in Client :
        /\ \A i \in 1..Handed(c) : Stream(c)[i] = log[joined[c] + i]
        /\ c \in clients =>
              joined[c] + Handed(c) = IF c \in hubTodo THEN Len(log) - 1
                                                      ELSE Len(log)

-----------------------------------------------------------------------------
(* The inductive invariant behind the safety properties (module ChatProofs). *)

\* Which goroutines exist, and what they can have touched so far.
Lifecycle ==
    \A c \in Client :
        /\ ~Registered(c) =>
              c \notin clients /\ send[c] = <<>> /\ joined[c] = 0
        /\ serve[c] # "done" =>
              reader[c] = "idle" /\ writer[c] = "idle" /\ delivered[c] = <<>>
        /\ writer[c] \in {"idle", "select"} => frame[c] = <<>>
        /\ reader[c] = "publish" => sent[c] > 0

\* The broadcast loop visits members only, and a channel never overflows.
HubInv ==
    /\ hubTodo \subseteq clients
    /\ \A c \in Client : Len(send[c]) <= BufSize

\* q repeats the part of l that follows position k.
Segment(q, l, k) ==
    /\ k + Len(q) <= Len(l)
    /\ \A i \in 1..Len(q) : q[i] = l[k + i]

\* Where the frame, and where the channel, continue the log.
FrameBase(c) == joined[c] + Len(delivered[c])
SendBase(c)  == FrameBase(c) + Len(frame[c])

\* NoGapNoReorder, one part of the stream at a time.
InOrder ==
    \A c \in Client :
        /\ Segment(delivered[c], log, joined[c])
        /\ Segment(frame[c], log, FrameBase(c))
        /\ Segment(send[c], log, SendBase(c))

\* Members are up to date, but for the broadcast under way.
Extent ==
    \A c \in clients :
        SendBase(c) + Len(send[c]) + (IF c \in hubTodo THEN 1 ELSE 0) = Len(log)

IndInv ==
    /\ TypeOK /\ NoPanic /\ ClosedIffRemoved /\ DrainTakesQueued
    /\ Lifecycle /\ HubInv /\ InOrder /\ Extent

-----------------------------------------------------------------------------
(* Refinement *)

Status(c) == IF ~Registered(c) THEN "new"
             ELSE IF c \in clients THEN "in" ELSE "out"

Room == INSTANCE ChatRoom WITH
            status <- [c \in Client |-> Status(c)],
            handed <- [c \in Client |-> Handed(c)],
            shown  <- delivered

\* Hub, pumps and channels together implement the conversation of ChatRoom.
ImplementsRoom == Room!RoomSpec

-----------------------------------------------------------------------------
(* Liveness *)

Gone(c) ==
    /\ c \notin clients /\ sendClosed[c]
    /\ reader[c] = "done" /\ writer[c] = "done"
    /\ conn[c] = "closed"

\* Once a connection is broken or closed, from whichever end and at whatever
\* moment, or its client is evicted for being slow, the client is removed, its
\* channel and its socket are closed and both pumps return.
ConnectionIsCleanedUp ==
    \A c \in Client :
        conn[c] \in {"broken", "closed"} \/ sendClosed[c] ~> Gone(c)

\* Blocked in a send on one of the hub's unbuffered channels.
WaitsForHub(c) ==
    serve[c] = "register" \/ reader[c] \in {"publish", "unregister"}

\* Nobody waits for the hub for ever: registrations, broadcasts and
\* unregistrations are all taken, though the hub also sends to the clients.
HubServesEveryone ==
    \A c \in Client : WaitsForHub(c) ~> ~WaitsForHub(c)

\* What the hub queues for a client reaches its socket unless the connection
\* is lost first.
QueuedIsDelivered ==
    \A c \in Client : (send[c] # <<>> \/ frame[c] # <<>>) ~>
        \/ send[c] = <<>> /\ frame[c] = <<>>
        \/ conn[c] # "open"
=============================================================================
