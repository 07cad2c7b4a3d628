----------------------------- MODULE ChatProofs -----------------------------
(***************************************************************************)
(* Proofs about module Chat, for any set of connections, any buffer size   *)
(* and any number of messages.  IndInv is inductive; the safety properties *)
(* that TLC checks on two connections follow from it, and so does the      *)
(* refinement of ChatRoom.                                                 *)
(***************************************************************************)
EXTENDS Chat, SequenceTheorems, TLAPS

USE BufSizeAssumption, MaxSentAssumption

-----------------------------------------------------------------------------
(* Segments of a sequence. *)

\* A segment stays one when the sequence grows at its end.
LEMMA SegmentGrows ==
    ASSUME NEW M, NEW q \in Seq(M), NEW l \in Seq(M), NEW m \in M,
           NEW k \in Nat, Segment(q, l, k)
    PROVE  Segment(q, Append(l, m), k)
BY DEF Segment

\* A segment that ends one short of the sequence may take its last element.
LEMMA SegmentExtends ==
    ASSUME NEW M, NEW q \in Seq(M), NEW l \in Seq(M), NEW k \in Nat,
           Segment(q, l, k), k + Len(q) + 1 = Len(l)
    PROVE  Segment(Append(q, l[Len(l)]), l, k)
<1>1. l[Len(l)] \in M
  OBVIOUS
<1>2. \A m \in M : m = l[Len(l)] => Segment(Append(q, m), l, k)
  BY DEF Segment
<1> QED  BY <1>1, <1>2

\* The head and the tail of a segment are segments.
LEMMA SegmentSplit ==
    ASSUME NEW M, NEW q \in Seq(M), NEW l \in Seq(M), NEW k \in Nat,
           Segment(q, l, k), q # <<>>
    PROVE  Segment(<<Head(q)>>, l, k) /\ Segment(Tail(q), l, k + 1)
BY DEF Segment

\* The head of a segment may move to the end of the segment before it.
LEMMA SegmentMove ==
    ASSUME NEW M, NEW p \in Seq(M), NEW q \in Seq(M), NEW l \in Seq(M),
           NEW k \in Nat, Segment(p, l, k), Segment(q, l, k + Len(p)), q # <<>>
    PROVE  Segment(Append(p, Head(q)), l, k)
BY DEF Segment

\* Adjacent segments make one.
LEMMA SegmentConcat ==
    ASSUME NEW M, NEW p \in Seq(M), NEW q \in Seq(M), NEW l \in Seq(M),
           NEW k \in Nat, Segment(p, l, k), Segment(q, l, k + Len(p))
    PROVE  Segment(p \o q, l, k)
BY DEF Segment

\* The empty sequence is a segment anywhere.
LEMMA SegmentEmpty ==
    ASSUME NEW M, NEW l \in Seq(M), NEW k \in Nat, k <= Len(l)
    PROVE  Segment(<<>>, l, k)
BY DEF Segment

-----------------------------------------------------------------------------
(* IndInv is inductive. *)

\* The parts of one client's stream, and where they start, are well typed.
LEMMA StreamTypes ==
    ASSUME TypeOK, NEW x \in Client
    PROVE  /\ delivered[x] \in Seq(Message) /\ joined[x] \in Nat
           /\ frame[x] \in Seq(Message) /\ FrameBase(x) \in Nat
           /\ send[x] \in Seq(Message) /\ SendBase(x) \in Nat
           /\ log \in Seq(Message) /\ Len(log) \in Nat
<1>1. /\ delivered \in [Client -> Seq(Message)] /\ joined \in [Client -> Nat]
      /\ frame \in [Client -> Seq(Message)] /\ send \in [Client -> Seq(Message)]
      /\ log \in Seq(Message)
  BY DEF TypeOK
<1>2. /\ delivered[x] \in Seq(Message) /\ frame[x] \in Seq(Message)
      /\ send[x] \in Seq(Message) /\ joined[x] \in Nat /\ Len(log) \in Nat
  BY <1>1
<1>3. FrameBase(x) \in Nat /\ SendBase(x) \in Nat
  BY <1>1 DEF FrameBase, SendBase
<1> QED  BY <1>1, <1>2, <1>3

\* Nothing happened yet: NewHub's empty map and no connection at all.
LEMMA InitIndInv == Init => IndInv
<1> SUFFICES ASSUME Init PROVE IndInv
  OBVIOUS
<1>1. TypeOK
  <2> USE DEF Init
  <2>1. /\ send \in [Client -> Seq(Message)]
        /\ frame \in [Client -> Seq(Message)]
        /\ delivered \in [Client -> Seq(Message)]
        /\ log \in Seq(Message)
    OBVIOUS
  <2>2. joined \in [Client -> Nat] /\ sent \in [Client -> 0..MaxSent]
    OBVIOUS
  <2>3. todo \in [Client -> 0..BufSize]
    OBVIOUS
  <2> QED  BY <2>1, <2>2, <2>3 DEF TypeOK
<1>2. NoPanic /\ ClosedIffRemoved /\ DrainTakesQueued /\ HubInv /\ Extent
  BY DEF Init, NoPanic, ClosedIffRemoved, Registered, DrainTakesQueued, HubInv,
         Extent
<1>3. ASSUME NEW c \in Client
      PROVE  Lifecycle!(c) /\ InOrder!(c)
  <2>1. /\ joined[c] = 0 /\ serve[c] = "idle" /\ c \notin clients /\ log = <<>>
        /\ send[c] = <<>> /\ delivered[c] = <<>> /\ frame[c] = <<>>
        /\ reader[c] = "idle" /\ writer[c] = "idle"
    BY DEF Init
  <2> QED  BY <2>1 DEF Segment, FrameBase, SendBase
<1> QED
  BY <1>1, <1>2, <1>3 DEF IndInv, Lifecycle, InOrder

\* Steps that move program counters and the socket only: the network, ServeWs
\* around the registration, and readPump between two rendezvous with the hub.
LEMMA ConnStepsIndInv ==
    ASSUME IndInv, NEW c \in Client,
           \/ ConnBreak(c) \/ ServeWs(c) \/ ServeWsRefuse(c) \/ StartPumps(c)
           \/ ReadMessage(c) \/ ReadError(c) \/ ReaderClose(c)
    PROVE  IndInv'
<1> USE DEF hubVars, chanVars, readerVars, writerVars
<1>0. TypeOK /\ Lifecycle
  BY DEF IndInv
<1>1. UNCHANGED <<clients, hubTodo, log, joined, chanVars, todo, frame, delivered>>
  BY DEF ConnBreak, ServeWs, ServeWsRefuse, StartPumps, ReadMessage, ReadError,
         ReaderClose
<1>2. NoPanic' /\ HubInv' /\ InOrder' /\ Extent'
  BY <1>1 DEF IndInv, NoPanic, HubInv, InOrder, Extent, FrameBase, SendBase
<1>3. \A x \in Client : Registered(x)' = Registered(x)
  BY <1>0 DEF Registered, TypeOK, ConnBreak, ServeWs, ServeWsRefuse, StartPumps,
              ReadMessage, ReadError, ReaderClose
<1>4. ClosedIffRemoved'
  BY <1>1, <1>3 DEF IndInv, ClosedIffRemoved
<1> USE DEF IndInv, TypeOK, Lifecycle, DrainTakesQueued
<1>5. CASE ConnBreak(c)
  BY <1>0, <1>2, <1>3, <1>4, <1>5 DEF ConnBreak
<1>6. CASE ServeWs(c)
  BY <1>0, <1>2, <1>3, <1>4, <1>6 DEF ServeWs
<1>7. CASE ServeWsRefuse(c)
  BY <1>0, <1>2, <1>3, <1>4, <1>7 DEF ServeWsRefuse
<1>8. CASE StartPumps(c)
  BY <1>0, <1>2, <1>3, <1>4, <1>8 DEF StartPumps
<1>9. CASE ReadMessage(c)
  BY <1>0, <1>2, <1>3, <1>4, <1>9 DEF ReadMessage
<1>10. CASE ReadError(c)
  BY <1>0, <1>2, <1>3, <1>4, <1>10 DEF ReadError
<1>11. CASE ReaderClose(c)
  BY <1>0, <1>2, <1>3, <1>4, <1>11 DEF ReaderClose
<1> QED  BY <1>5, <1>6, <1>7, <1>8, <1>9, <1>10, <1>11

\* A registration: the stream of the new member starts, empty, at the end of
\* the log.
LEMMA HubRegisterIndInv ==
    ASSUME IndInv, NEW c \in Client, HubRegister(c)
    PROVE  IndInv'
<1> USE DEF HubRegister, hubVars, chanVars, readerVars, writerVars
<1>0. TypeOK /\ Lifecycle
  BY DEF IndInv
<1>1. TypeOK'
  BY <1>0 DEF TypeOK
<1>2. NoPanic' /\ DrainTakesQueued' /\ HubInv'
  BY DEF IndInv, NoPanic, DrainTakesQueued, HubInv
<1>3. /\ ~Registered(c) /\ Registered(c)'
      /\ \A x \in Client \ {c} : Registered(x)' = Registered(x)
  BY <1>0 DEF TypeOK, Registered
<1>4. ClosedIffRemoved'
  BY <1>0, <1>3 DEF IndInv, ClosedIffRemoved
<1>5. Lifecycle'
  BY <1>0, <1>3 DEF TypeOK, Lifecycle
<1>6. /\ send[c] = <<>> /\ frame[c] = <<>> /\ delivered[c] = <<>>
      /\ joined'[c] = Len(log)
  BY <1>0, <1>3 DEF Lifecycle, TypeOK
<1>7. ASSUME NEW x \in Client
      PROVE  InOrder!(x)' /\ (x \in clients' => Extent!(x)')
  <2>1. CASE x = c
    <3>1. SendBase(c)' = Len(log) /\ FrameBase(c)' = Len(log)
      BY <1>0, <1>6 DEF SendBase, FrameBase, TypeOK
    <3>2. Segment(<<>>, log, Len(log))
      BY <1>0, SegmentEmpty DEF TypeOK
    <3> QED  BY <1>0, <1>6, <2>1, <3>1, <3>2 DEF TypeOK
  <2>2. CASE x # c
    <3>1. joined'[x] = joined[x]
      BY <1>0, <2>2 DEF TypeOK
    <3> QED
      BY <2>2, <3>1 DEF IndInv, InOrder, Extent, SendBase, FrameBase
  <2> QED  BY <2>1, <2>2
<1> QED
  BY <1>1, <1>2, <1>4, <1>5, <1>7 DEF IndInv, InOrder, Extent, TypeOK

\* An unregistration: only a member's channel is closed, and with it the
\* member is removed.
LEMMA HubUnregisterIndInv ==
    ASSUME IndInv, NEW c \in Client, HubUnregister(c)
    PROVE  IndInv'
<1> USE DEF HubUnregister, CloseSend, hubVars, chanVars, readerVars, writerVars
<1>0. TypeOK /\ Lifecycle
  BY DEF IndInv
<1>1. TypeOK'
  BY <1>0 DEF TypeOK
<1>2. \A x \in Client : Registered(x)' = Registered(x)
  BY DEF Registered
<1>3. Registered(c)
  BY <1>0 DEF TypeOK, Lifecycle, Registered
<1>4. Lifecycle'
  BY <1>0, <1>2 DEF TypeOK, Lifecycle
<1>5. HubInv' /\ NoPanic'
  BY <1>0 DEF IndInv, TypeOK, HubInv, NoPanic, ClosedIffRemoved
<1>6. ClosedIffRemoved'
  BY <1>0, <1>2, <1>3 DEF IndInv, TypeOK, ClosedIffRemoved
<1>7. clients' \subseteq clients
      /\ UNCHANGED <<hubTodo, log, joined, send, writerVars>>
  OBVIOUS
<1>8. DrainTakesQueued' /\ InOrder' /\ Extent'
  BY <1>7 DEF IndInv, DrainTakesQueued, InOrder, Extent, SendBase, FrameBase
<1> QED  BY <1>1, <1>4, <1>5, <1>6, <1>8 DEF IndInv

\* A broadcast starts: the log grows by one message, and every member is now
\* one behind.
LEMMA HubBroadcastIndInv ==
    ASSUME IndInv, NEW c \in Client, HubBroadcast(c)
    PROVE  IndInv'
<1> USE DEF HubBroadcast, hubVars, chanVars, readerVars, writerVars
<1>0. TypeOK /\ Lifecycle
  BY DEF IndInv
<1>1. <<c, sent[c]>> \in Message
  <2>1. sent[c] \in 1..MaxSent
    BY <1>0 DEF TypeOK, Lifecycle
  <2> QED  BY <2>1 DEF Message
<1>2. TypeOK'
  BY <1>0, <1>1 DEF TypeOK
<1>3. \A x \in Client : Registered(x)' = Registered(x)
  BY DEF Registered
<1>4. NoPanic' /\ ClosedIffRemoved' /\ DrainTakesQueued' /\ HubInv'
  BY <1>3 DEF IndInv, NoPanic, ClosedIffRemoved, DrainTakesQueued, HubInv
<1>5. Lifecycle'
  BY <1>0, <1>3 DEF TypeOK, Lifecycle
<1>6. InOrder'
  <2> SUFFICES ASSUME NEW x \in Client PROVE InOrder!(x)'
    BY DEF InOrder
  <2>1. /\ delivered[x] \in Seq(Message) /\ joined[x] \in Nat
        /\ frame[x] \in Seq(Message) /\ FrameBase(x) \in Nat
        /\ send[x] \in Seq(Message) /\ SendBase(x) \in Nat
        /\ log \in Seq(Message)
    BY <1>0, StreamTypes
  <2>2. InOrder!(x)
    BY DEF IndInv, InOrder
  <2>3. /\ Segment(delivered[x], log', joined[x])
        /\ Segment(frame[x], log', FrameBase(x))
        /\ Segment(send[x], log', SendBase(x))
    BY <1>1, <2>1, <2>2, SegmentGrows
  <2>4. FrameBase(x)' = FrameBase(x) /\ SendBase(x)' = SendBase(x)
    BY DEF FrameBase, SendBase
  <2> QED  BY <2>3, <2>4
<1>7. Extent'
  <2> SUFFICES ASSUME NEW x \in clients PROVE Extent!(x)'
    BY DEF Extent
  <2>1. SendBase(x) + Len(send[x]) = Len(log)
    <3>1. x \in Client /\ send \in [Client -> Seq(Message)]
      BY <1>0 DEF TypeOK
    <3>2. SendBase(x) \in Nat
      BY <1>0, <3>1, StreamTypes
    <3>3. Extent!(x) /\ x \notin hubTodo
      BY DEF IndInv, Extent
    <3> QED  BY <3>1, <3>2, <3>3
  <2>2. SendBase(x)' = SendBase(x) /\ send' = send /\ x \in hubTodo'
    BY DEF FrameBase, SendBase
  <2>3. Len(log') = Len(log) + 1
    BY <1>0, <1>1 DEF TypeOK
  <2> QED  BY <2>1, <2>2, <2>3
<1> QED  BY <1>2, <1>4, <1>5, <1>6, <1>7 DEF IndInv

\* One turn of the broadcast loop.  The visited client is a member, so its
\* channel is open; it gets the message that is next for it, or is evicted.
LEMMA HubSendIndInv ==
    ASSUME IndInv, NEW c \in Client, HubSend(c)
    PROVE  IndInv'
<1> USE DEF hubVars, chanVars, readerVars, writerVars
<1>0. TypeOK /\ Lifecycle
  BY DEF IndInv
<1>1. c \in hubTodo /\ c \in clients /\ ~sendClosed[c] /\ Registered(c)
  BY DEF HubSend, IndInv, HubInv, ClosedIffRemoved, Lifecycle
<1>2. /\ \A x \in Client : Registered(x)' = Registered(x)
      /\ UNCHANGED <<log, joined, readerVars, writerVars, serve, conn>>
      /\ hubTodo' = hubTodo \ {c}
  BY DEF HubSend, Registered
<1>3. SendBase(c) + Len(send[c]) + 1 = Len(log)
  BY <1>0, <1>1 DEF IndInv, Extent
<1>4. \A x \in Client : FrameBase(x)' = FrameBase(x) /\ SendBase(x)' = SendBase(x)
  BY <1>2 DEF FrameBase, SendBase
<1>5. CASE /\ Len(send[c]) < BufSize
           /\ send' = [send EXCEPT ![c] = Append(@, log[Len(log)])]
           /\ panicked' = (panicked \/ sendClosed[c])
           /\ UNCHANGED <<clients, sendClosed>>
  <2>1. log[Len(log)] \in Message
    <3>1. SendBase(c) \in Nat /\ Len(send[c]) \in Nat /\ log \in Seq(Message)
      BY <1>0, StreamTypes
    <3> QED  BY <1>3, <3>1
  <2>2. TypeOK'
    BY <1>0, <1>2, <1>5, <2>1 DEF TypeOK
  <2>3. /\ send'[c] = Append(send[c], log[Len(log)])
        /\ \A x \in Client \ {c} : send'[x] = send[x]
    BY <1>0, <1>5 DEF TypeOK
  <2>4. Len(send'[c]) = Len(send[c]) + 1
    <3>1. send[c] \in Seq(Message)
      BY <1>0, StreamTypes
    <3>2. \A q \in Seq(Message), m \in Message : Len(Append(q, m)) = Len(q) + 1
      OBVIOUS
    <3> QED  BY <2>1, <2>3, <3>1, <3>2
  <2>5. NoPanic' /\ ClosedIffRemoved' /\ Lifecycle'
    BY <1>0, <1>1, <1>2, <1>5, <2>3
    DEF IndInv, NoPanic, ClosedIffRemoved, Lifecycle
  <2>6. DrainTakesQueued'
    <3>1. \A x \in Client : writer[x] = "drain" => todo[x] <= Len(send[x])
      BY DEF IndInv, DrainTakesQueued
    <3>2. todo[c] \in Nat /\ Len(send[c]) \in Nat
      BY <1>0, StreamTypes DEF TypeOK
    <3>3. \A t, n \in Nat : t <= n => t <= n + 1
      OBVIOUS
    <3>4. writer[c] = "drain" => todo[c] <= Len(send'[c])
      BY <2>4, <3>1, <3>2, <3>3
    <3> QED  BY <1>2, <2>3, <3>1, <3>4 DEF DrainTakesQueued
  <2>7. HubInv'
    BY <1>0, <1>2, <1>5, <2>3, <2>4 DEF IndInv, HubInv, TypeOK
  <2>8. ASSUME NEW x \in Client
        PROVE  InOrder!(x)' /\ (x \in clients' => Extent!(x)')
    <3>1. InOrder!(x)
      BY DEF IndInv, InOrder
    <3>2. CASE x = c
      <4>1. Segment(send'[c], log, SendBase(c))
        BY <1>0, <1>3, <2>3, <3>1, <3>2, StreamTypes, SegmentExtends
      <4>2. SendBase(c) + Len(send'[c]) + 0 = Len(log)
        BY <1>0, <1>3, <2>4, StreamTypes
      <4> QED  BY <1>2, <1>4, <3>1, <3>2, <4>1, <4>2
    <3>3. CASE x # c
      BY <1>2, <1>4, <1>5, <2>3, <3>1, <3>3 DEF IndInv, Extent
    <3> QED  BY <3>2, <3>3
  <2> QED
    BY <1>0, <1>5, <2>2, <2>5, <2>6, <2>7, <2>8
    DEF IndInv, InOrder, Extent, TypeOK
<1>6. CASE CloseSend(c) /\ clients' = clients \ {c}
  <2>1. TypeOK'
    BY <1>0, <1>2, <1>6 DEF TypeOK, CloseSend
  <2>2. NoPanic' /\ Lifecycle'
    BY <1>0, <1>1, <1>2, <1>6 DEF IndInv, NoPanic, Lifecycle, CloseSend
  <2>3. ClosedIffRemoved'
    BY <1>0, <1>1, <1>2, <1>6 DEF IndInv, ClosedIffRemoved, CloseSend, TypeOK
  <2>4. DrainTakesQueued' /\ HubInv' /\ InOrder'
    BY <1>2, <1>4, <1>6 DEF IndInv, DrainTakesQueued, HubInv, InOrder, CloseSend
  <2>5. Extent'
    BY <1>0, <1>2, <1>4, <1>6 DEF IndInv, Extent, CloseSend, TypeOK
  <2> QED  BY <2>1, <2>2, <2>3, <2>4, <2>5 DEF IndInv
<1> QED  BY <1>1, <1>5, <1>6 DEF HubSend

\* writePump takes the first message: what it starts to build continues what
\* was delivered.
LEMMA WriterReceiveIndInv ==
    ASSUME IndInv, NEW c \in Client, WriterReceive(c)
    PROVE  IndInv'
<1> USE DEF hubVars, chanVars, readerVars, writerVars
<1>0. TypeOK /\ Lifecycle
  BY DEF IndInv
<1>1. /\ writer[c] = "select" /\ send[c] # <<>> /\ frame[c] = <<>>
      /\ frame' = [frame EXCEPT ![c] = <<Head(send[c])>>]
      /\ send' = [send EXCEPT ![c] = Tail(send[c])]
      /\ writer' = [writer EXCEPT ![c] = "next"]
      /\ UNCHANGED <<clients, hubTodo, log, joined, sendClosed, panicked, reader,
                     sent, todo, delivered, serve, conn>>
  BY <1>0 DEF WriterReceive, Received, AfterReceive, Lifecycle, TypeOK
<1>2. /\ send[c] \in Seq(Message) /\ Head(send[c]) \in Message
      /\ Tail(send[c]) \in Seq(Message) /\ Len(Tail(send[c])) = Len(send[c]) - 1
      /\ Len(send[c]) \in Nat
  BY <1>0, <1>1 DEF TypeOK
<1>3. TypeOK'
  BY <1>0, <1>1, <1>2 DEF TypeOK
<1>4. /\ send'[c] = Tail(send[c]) /\ frame'[c] = <<Head(send[c])>>
      /\ \A x \in Client \ {c} : send'[x] = send[x] /\ frame'[x] = frame[x]
      /\ writer'[c] = "next"
      /\ \A x \in Client \ {c} : writer'[x] = writer[x]
  BY <1>0, <1>1 DEF TypeOK
<1>5. \A x \in Client : Registered(x)' = Registered(x)
  BY <1>1 DEF Registered
<1>6. NoPanic' /\ ClosedIffRemoved'
  BY <1>1, <1>5 DEF IndInv, NoPanic, ClosedIffRemoved
<1>7. DrainTakesQueued' /\ HubInv'
  BY <1>0, <1>1, <1>2, <1>4 DEF IndInv, DrainTakesQueued, HubInv
<1>8. Lifecycle'
  BY <1>0, <1>1, <1>4, <1>5 DEF Lifecycle
<1>9. ASSUME NEW x \in Client
      PROVE  InOrder!(x)' /\ (x \in clients' => Extent!(x)')
  <2>1. InOrder!(x) /\ (x \in clients => Extent!(x))
    BY DEF IndInv, InOrder, Extent
  <2>2. CASE x = c
    <3>1. /\ FrameBase(c)' = FrameBase(c) /\ SendBase(c) = FrameBase(c)
          /\ SendBase(c)' = SendBase(c) + 1
      <4>1. FrameBase(c)' = FrameBase(c) /\ FrameBase(c) \in Nat
        BY <1>0, <1>1, StreamTypes DEF FrameBase
      <4>2. Len(frame'[c]) = 1 /\ Len(frame[c]) = 0
        BY <1>1, <1>4
      <4> QED  BY <4>1, <4>2 DEF SendBase
    <3>2. Segment(frame'[c], log, SendBase(c)) /\ Segment(send'[c], log, SendBase(c) + 1)
      BY <1>0, <1>1, <1>4, <2>1, <2>2, StreamTypes, SegmentSplit
    <3>3. SendBase(c)' + Len(send'[c]) = SendBase(c) + Len(send[c])
      BY <1>0, <1>2, <1>4, <3>1, StreamTypes
    <3> QED  BY <1>1, <2>1, <2>2, <3>1, <3>2, <3>3
  <2>3. CASE x # c
    BY <1>1, <1>4, <2>1, <2>3 DEF FrameBase, SendBase
  <2> QED  BY <2>2, <2>3
<1> QED
  BY <1>0, <1>1, <1>3, <1>6, <1>7, <1>8, <1>9
  DEF IndInv, InOrder, Extent, TypeOK

\* A turn of writePump's loop: what it counted is still queued, so the next
\* message in order moves from the channel to the frame.
LEMMA WriterDrainIndInv ==
    ASSUME IndInv, NEW c \in Client, WriterDrain(c)
    PROVE  IndInv'
<1> USE DEF hubVars, chanVars, readerVars, writerVars
<1>0. TypeOK /\ Lifecycle
  BY DEF IndInv
<1>1. /\ todo[c] \in Nat /\ todo[c] > 0 /\ todo[c] <= Len(send[c])
      /\ todo[c] <= BufSize /\ writer[c] = "drain"
  BY <1>0 DEF WriterDrain, IndInv, DrainTakesQueued, TypeOK
<1>2. send[c] # <<>>
  BY <1>1
<1>3. /\ frame' = [frame EXCEPT ![c] = Append(frame[c], Head(send[c]))]
      /\ send' = [send EXCEPT ![c] = Tail(send[c])]
      /\ todo' = [todo EXCEPT ![c] = todo[c] - 1]
      /\ UNCHANGED <<clients, hubTodo, log, joined, sendClosed, panicked, reader,
                     sent, writer, delivered, serve, conn>>
  BY <1>0, <1>2 DEF WriterDrain, Received, AfterReceive, TypeOK
<1>4. /\ send[c] \in Seq(Message) /\ Head(send[c]) \in Message
      /\ Tail(send[c]) \in Seq(Message) /\ Len(Tail(send[c])) = Len(send[c]) - 1
      /\ Len(send[c]) \in Nat
  BY <1>0, <1>2 DEF TypeOK
<1>5. /\ frame[c] \in Seq(Message)
      /\ Append(frame[c], Head(send[c])) \in Seq(Message)
      /\ Len(Append(frame[c], Head(send[c]))) = Len(frame[c]) + 1
      /\ Len(frame[c]) \in Nat
  <2>1. \A q \in Seq(Message), m \in Message :
           Append(q, m) \in Seq(Message) /\ Len(Append(q, m)) = Len(q) + 1
    OBVIOUS
  <2> QED  BY <1>0, <1>4, <2>1, StreamTypes
<1>6. TypeOK'
  <2>1. send' \in [Client -> Seq(Message)]
    BY <1>0, <1>3, <1>4 DEF TypeOK
  <2>2. frame' \in [Client -> Seq(Message)]
    BY <1>0, <1>3, <1>5 DEF TypeOK
  <2>3. todo[c] - 1 \in 0..BufSize
    BY <1>1, BufSizeAssumption
  <2>4. todo' \in [Client -> 0..BufSize]
    BY <1>0, <1>3, <2>3 DEF TypeOK
  <2> QED  BY <1>0, <1>3, <2>1, <2>2, <2>4 DEF TypeOK
<1>7. /\ send'[c] = Tail(send[c]) /\ frame'[c] = Append(frame[c], Head(send[c]))
      /\ todo'[c] = todo[c] - 1
      /\ \A x \in Client \ {c} :
            send'[x] = send[x] /\ frame'[x] = frame[x] /\ todo'[x] = todo[x]
  BY <1>0, <1>3 DEF TypeOK
<1>8. \A x \in Client : Registered(x)' = Registered(x)
  BY <1>3 DEF Registered
<1>9. NoPanic' /\ ClosedIffRemoved'
  BY <1>3, <1>8 DEF IndInv, NoPanic, ClosedIffRemoved
<1>10. DrainTakesQueued' /\ HubInv'
  BY <1>1, <1>3, <1>4, <1>7 DEF IndInv, DrainTakesQueued, HubInv
<1>11. Lifecycle'
  BY <1>0, <1>1, <1>2, <1>3, <1>7, <1>8 DEF Lifecycle
<1>12. ASSUME NEW x \in Client
       PROVE  InOrder!(x)' /\ (x \in clients' => Extent!(x)')
  <2>1. InOrder!(x) /\ (x \in clients => Extent!(x))
    BY DEF IndInv, InOrder, Extent
  <2>2. CASE x = c
    <3>1. FrameBase(c)' = FrameBase(c) /\ FrameBase(c) \in Nat
      BY <1>0, <1>3, StreamTypes DEF FrameBase
    <3>2. SendBase(c)' = SendBase(c) + 1 /\ SendBase(c) = FrameBase(c) + Len(frame[c])
      BY <1>5, <1>7, <3>1 DEF SendBase
    <3>3. Segment(frame'[c], log, FrameBase(c))
      BY <1>0, <1>2, <1>4, <1>5, <1>7, <2>1, <2>2, <3>1, <3>2, StreamTypes,
         SegmentMove
    <3>4. Segment(send'[c], log, SendBase(c) + 1)
      BY <1>0, <1>2, <1>4, <1>7, <2>1, <2>2, StreamTypes, SegmentSplit
    <3>5. SendBase(c)' + Len(send'[c]) = SendBase(c) + Len(send[c])
      <4>1. \A a, n \in Nat : (a + 1) + (n - 1) = a + n
        OBVIOUS
      <4>2. SendBase(c) \in Nat
        BY <1>0, StreamTypes
      <4>3. Len(send'[c]) = Len(send[c]) - 1 /\ Len(send[c]) \in Nat
        BY <1>4, <1>7
      <4> QED  BY <3>2, <4>1, <4>2, <4>3
    <3> QED  BY <1>3, <2>1, <2>2, <3>1, <3>2, <3>3, <3>4, <3>5
  <2>3. CASE x # c
    BY <1>3, <1>7, <2>1, <2>3 DEF FrameBase, SendBase
  <2> QED  BY <2>2, <2>3
<1> QED
  BY <1>0, <1>3, <1>6, <1>9, <1>10, <1>11, <1>12
  DEF IndInv, InOrder, Extent, TypeOK

\* The frame reaches the socket as a whole.
LEMMA WriterFlushIndInv ==
    ASSUME IndInv, NEW c \in Client, WriterFlush(c)
    PROVE  IndInv'
<1> USE DEF hubVars, chanVars, readerVars, writerVars
<1>0. TypeOK /\ Lifecycle
  BY DEF IndInv
<1>1. /\ writer[c] = "drain"
      /\ delivered' = [delivered EXCEPT ![c] = delivered[c] \o frame[c]]
      /\ frame' = [frame EXCEPT ![c] = <<>>]
      /\ writer' = [writer EXCEPT ![c] = "select"]
      /\ UNCHANGED <<clients, hubTodo, log, joined, chanVars, readerVars, todo,
                     serve, conn>>
  BY <1>0 DEF WriterFlush, TypeOK
<1>2. /\ delivered[c] \o frame[c] \in Seq(Message)
      /\ Len(delivered[c] \o frame[c]) = Len(delivered[c]) + Len(frame[c])
      /\ Len(delivered[c]) \in Nat /\ Len(frame[c]) \in Nat
      /\ delivered[c] \in Seq(Message) /\ frame[c] \in Seq(Message)
  <2>1. \A p, q \in Seq(Message) :
           p \o q \in Seq(Message) /\ Len(p \o q) = Len(p) + Len(q)
    OBVIOUS
  <2> QED  BY <1>0, <2>1, StreamTypes
<1>3. TypeOK'
  BY <1>0, <1>1, <1>2 DEF TypeOK
<1>4. /\ delivered'[c] = delivered[c] \o frame[c] /\ frame'[c] = <<>>
      /\ writer'[c] = "select"
      /\ \A x \in Client \ {c} :
            /\ delivered'[x] = delivered[x] /\ frame'[x] = frame[x]
            /\ writer'[x] = writer[x]
  BY <1>0, <1>1 DEF TypeOK
<1>5. \A x \in Client : Registered(x)' = Registered(x)
  BY <1>1 DEF Registered
<1>6. NoPanic' /\ ClosedIffRemoved' /\ HubInv'
  BY <1>1, <1>5 DEF IndInv, NoPanic, ClosedIffRemoved, HubInv
<1>7. DrainTakesQueued'
  BY <1>1, <1>4 DEF IndInv, DrainTakesQueued
<1>8. Lifecycle'
  BY <1>0, <1>1, <1>4, <1>5 DEF Lifecycle
<1>9. ASSUME NEW x \in Client
      PROVE  InOrder!(x)' /\ (x \in clients' => Extent!(x)')
  <2>1. InOrder!(x) /\ (x \in clients => Extent!(x))
    BY DEF IndInv, InOrder, Extent
  <2>2. CASE x = c
    <3>1. joined[c] \in Nat /\ joined'[c] = joined[c]
      BY <1>0, <1>1, StreamTypes
    <3>2. FrameBase(c)' = SendBase(c) /\ SendBase(c)' = SendBase(c)
      <4>1. FrameBase(c)' = joined[c] + (Len(delivered[c]) + Len(frame[c]))
        BY <1>2, <1>4, <3>1 DEF FrameBase
      <4>2. SendBase(c) = joined[c] + Len(delivered[c]) + Len(frame[c])
        BY DEF FrameBase, SendBase
      <4>3. Len(frame'[c]) = 0
        BY <1>4
      <4>4. \A j, d, f \in Nat : j + (d + f) = j + d + f /\ j + d + f + 0 = j + d + f
        OBVIOUS
      <4>5. FrameBase(c)' = SendBase(c)
        BY <1>2, <3>1, <4>1, <4>2, <4>4
      <4>6. SendBase(c)' = FrameBase(c)' + Len(frame'[c])
        BY DEF SendBase
      <4> QED  BY <1>2, <3>1, <4>2, <4>3, <4>4, <4>5, <4>6
    <3>3. Segment(delivered'[c], log, joined[c])
      BY <1>0, <1>2, <1>4, <2>1, <2>2, <3>1, StreamTypes, SegmentConcat
      DEF FrameBase
    <3>4. SendBase(c) <= Len(log)
      BY <1>0, <2>1, <2>2, StreamTypes DEF Segment
    <3>5. Segment(frame'[c], log, SendBase(c))
      BY <1>0, <1>4, <3>4, StreamTypes, SegmentEmpty
    <3> QED  BY <1>1, <2>1, <2>2, <3>1, <3>2, <3>3, <3>5
  <2>3. CASE x # c
    BY <1>1, <1>4, <2>1, <2>3 DEF FrameBase, SendBase
  <2> QED  BY <2>2, <2>3
<1> QED
  BY <1>0, <1>1, <1>3, <1>6, <1>7, <1>8, <1>9
  DEF IndInv, InOrder, Extent, TypeOK

\* The steps of writePump that touch no message: counting what is queued, and
\* leaving on a closed channel or on an error.
LEMMA WriterPcIndInv ==
    ASSUME IndInv, NEW c \in Client,
           \/ WriterCount(c) \/ WriterChannelClosed(c) \/ WriterError(c)
           \/ WriterClose(c)
    PROVE  IndInv'
<1> USE DEF hubVars, chanVars, readerVars, writerVars
<1>0. TypeOK /\ Lifecycle
  BY DEF IndInv
<1>1. UNCHANGED <<clients, hubTodo, log, joined, send, sendClosed, panicked,
                  reader, sent, frame, delivered, serve>>
  BY DEF WriterCount, WriterChannelClosed, WriterError, WriterClose
<1>2. NoPanic' /\ HubInv' /\ ClosedIffRemoved'
  BY <1>1 DEF IndInv, NoPanic, HubInv, ClosedIffRemoved, Registered
<1>3. InOrder' /\ Extent'
  BY <1>1 DEF IndInv, InOrder, Extent, FrameBase, SendBase
<1>4. CASE WriterCount(c)
  <2>1. Len(send[c]) \in 0..BufSize
    BY <1>0, StreamTypes DEF IndInv, HubInv
  <2>2. TypeOK'
    BY <1>0, <1>1, <1>4, <2>1 DEF TypeOK, WriterCount
  <2>3. DrainTakesQueued' /\ Lifecycle'
    BY <1>0, <1>1, <1>4, <2>1
    DEF IndInv, TypeOK, DrainTakesQueued, Lifecycle, Registered, WriterCount
  <2> QED  BY <1>2, <1>3, <2>2, <2>3 DEF IndInv
<1>5. CASE WriterChannelClosed(c) \/ WriterError(c) \/ WriterClose(c)
  <2>1. TypeOK'
    BY <1>0, <1>1, <1>5
    DEF TypeOK, WriterChannelClosed, WriterError, WriterClose
  <2>2. /\ todo' = todo /\ writer[c] # "idle" /\ writer'[c] \in {"close", "done"}
        /\ \A x \in Client \ {c} : writer'[x] = writer[x]
    BY <1>0, <1>5 DEF TypeOK, WriterChannelClosed, WriterError, WriterClose
  <2>3. DrainTakesQueued'
    BY <1>1, <2>2 DEF IndInv, DrainTakesQueued
  <2>4. Lifecycle'
    BY <1>0, <1>1, <2>2 DEF Lifecycle, Registered
  <2> QED  BY <1>2, <1>3, <2>1, <2>3, <2>4 DEF IndInv
<1> QED  BY <1>4, <1>5

\* Every step of every goroutine, of the peers and of the network.
LEMMA NextIndInv == IndInv /\ [Next]_vars => IndInv'
<1> SUFFICES ASSUME IndInv, [Next]_vars PROVE IndInv'
  OBVIOUS
<1>1. CASE Next
  <2>1. PICK c \in Client :
           \/ ConnBreak(c) \/ ServeWs(c) \/ ServeWsRefuse(c) \/ StartPumps(c)
           \/ HubNext(c) \/ ReaderNext(c) \/ WriterNext(c)
    BY <1>1 DEF Next
  <2>2. CASE HubNext(c)
    BY <2>2, HubRegisterIndInv, HubUnregisterIndInv, HubBroadcastIndInv,
       HubSendIndInv DEF HubNext, HubSelect
  <2>3. CASE WriterNext(c)
    BY <2>3, WriterReceiveIndInv, WriterDrainIndInv, WriterFlushIndInv,
       WriterPcIndInv DEF WriterNext
  <2>4. CASE \/ ConnBreak(c) \/ ServeWs(c) \/ ServeWsRefuse(c) \/ StartPumps(c)
             \/ ReaderNext(c)
    BY <2>4, ConnStepsIndInv DEF ReaderNext
  <2> QED  BY <2>1, <2>2, <2>3, <2>4
<1>2. CASE UNCHANGED vars
  BY <1>2 DEF IndInv, vars, hubVars, chanVars, readerVars, writerVars, TypeOK,
              NoPanic, ClosedIffRemoved, DrainTakesQueued, Lifecycle, Registered,
              HubInv, InOrder, Extent, FrameBase, SendBase
<1> QED  BY <1>1, <1>2

\* IndInv holds in every reachable state, whatever the number of connections,
\* the size of the send buffers and the number of messages.
THEOREM Inductive == Spec => []IndInv
<1>1. Init => IndInv
  BY InitIndInv
<1>2. IndInv /\ [Next]_vars => IndInv'
  BY NextIndInv
<1> QED  BY <1>1, <1>2, PTL DEF Spec

-----------------------------------------------------------------------------
(* What follows from it. *)

\* Every variable keeps its type; in particular no nil message ever enters a
\* frame, because frames are sequences of Message.
THEOREM TypeCorrect == Spec => []TypeOK
<1>1. IndInv => TypeOK
  BY DEF IndInv
<1> QED  BY <1>1, Inductive, PTL

\* Hub.Run never sends on a closed channel and never closes one twice.
THEOREM HubNeverPanics == Spec => []NoPanic
<1>1. IndInv => NoPanic
  BY DEF IndInv
<1> QED  BY <1>1, Inductive, PTL

\* A registered client's channel is open exactly while the hub knows it.
THEOREM ClosedExactlyWhenRemoved == Spec => []ClosedIffRemoved
<1>1. IndInv => ClosedIffRemoved
  BY DEF IndInv
<1> QED  BY <1>1, Inductive, PTL

\* writePump's loop finds every message it counted.
THEOREM DrainNeverBlocks == Spec => []DrainTakesQueued
<1>1. IndInv => DrainTakesQueued
  BY DEF IndInv
<1> QED  BY <1>1, Inductive, PTL

\* A member was handed everything, but for the broadcast under way.
LEMMA MembersExtent ==
    ASSUME IndInv, NEW c \in Client
    PROVE  /\ Handed(c) \in Nat
           /\ c \in clients =>
                joined[c] + Handed(c) = IF c \in hubTodo THEN Len(log) - 1
                                                        ELSE Len(log)
<1>1. /\ Len(delivered[c]) \in Nat /\ Len(frame[c]) \in Nat
      /\ Len(send[c]) \in Nat /\ joined[c] \in Nat
  BY StreamTypes DEF IndInv
<1>2. SendBase(c) \in Nat /\ Len(log) \in Nat
  BY StreamTypes DEF IndInv
<1>3. joined[c] + Handed(c) = SendBase(c) + Len(send[c]) /\ Handed(c) \in Nat
  <2>0. \A d, f \in Nat : d + f \in Nat
    OBVIOUS
  <2>1. \A j, d, s \in Nat : j + (d + s) = j + d + s
    OBVIOUS
  <2>2. Len(delivered[c]) + Len(frame[c]) \in Nat
    BY <1>1, <2>0
  <2>3. /\ joined[c] + (Len(delivered[c]) + Len(frame[c]) + Len(send[c]))
             = joined[c] + (Len(delivered[c]) + Len(frame[c])) + Len(send[c])
        /\ Len(delivered[c]) + Len(frame[c]) + Len(send[c]) \in Nat
    <3> DEFINE h == Len(delivered[c]) + Len(frame[c])
    <3>1. h \in Nat
      BY <2>2
    <3> HIDE DEF h
    <3>2. /\ joined[c] + (h + Len(send[c])) = joined[c] + h + Len(send[c])
          /\ h + Len(send[c]) \in Nat
      BY <1>1, <2>0, <2>1, <3>1
    <3> QED  BY <3>2 DEF h
  <2>4. joined[c] + (Len(delivered[c]) + Len(frame[c]))
          = joined[c] + Len(delivered[c]) + Len(frame[c])
    BY <1>1, <2>1
  <2> QED  BY <2>3, <2>4 DEF Handed, SendBase, FrameBase
<1>4. \A b, s, l \in Nat :
         (b + s + 1 = l => b + s = l - 1) /\ (b + s + 0 = l => b + s = l)
  OBVIOUS
<1>5. ASSUME c \in clients, c \in hubTodo
      PROVE  joined[c] + Handed(c) = Len(log) - 1
  <2>1. SendBase(c) + Len(send[c]) + 1 = Len(log)
    BY <1>5 DEF IndInv, Extent
  <2> QED  BY <1>1, <1>2, <1>3, <1>4, <2>1
<1>6. ASSUME c \in clients, c \notin hubTodo
      PROVE  joined[c] + Handed(c) = Len(log)
  <2>1. SendBase(c) + Len(send[c]) + 0 = Len(log)
    BY <1>6 DEF IndInv, Extent
  <2> QED  BY <1>1, <1>2, <1>3, <1>4, <2>1
<1> QED  BY <1>3, <1>5, <1>6

\* Every client is given the broadcasts that follow its registration without
\* gap, repetition or reordering, until it is removed.
THEOREM StreamsFollowTheLog == Spec => []NoGapNoReorder
<1>1. IndInv => NoGapNoReorder
  <2> SUFFICES ASSUME IndInv, NEW c \in Client PROVE NoGapNoReorder!(c)
    BY DEF NoGapNoReorder
  <2>1. /\ delivered[c] \in Seq(Message) /\ frame[c] \in Seq(Message)
        /\ send[c] \in Seq(Message) /\ log \in Seq(Message) /\ joined[c] \in Nat
        /\ SendBase(c) \in Nat
    BY StreamTypes DEF IndInv
  <2>2. /\ Segment(delivered[c], log, joined[c])
        /\ Segment(frame[c], log, joined[c] + Len(delivered[c]))
        /\ Segment(send[c], log, joined[c] + Len(delivered[c]) + Len(frame[c]))
    BY DEF IndInv, InOrder, FrameBase, SendBase
  <2>3. /\ delivered[c] \o frame[c] \in Seq(Message)
        /\ Len(delivered[c] \o frame[c]) = Len(delivered[c]) + Len(frame[c])
        /\ Len(Stream(c)) = Handed(c)
        /\ Stream(c) \in Seq(Message)
    <3>1. \A p, q \in Seq(Message) :
             p \o q \in Seq(Message) /\ Len(p \o q) = Len(p) + Len(q)
      OBVIOUS
    <3> QED  BY <2>1, <3>1 DEF Stream, Handed
  <2>4. Segment(delivered[c] \o frame[c], log, joined[c])
    BY <2>1, <2>2, SegmentConcat
  <2>5. joined[c] + Len(delivered[c]) + Len(frame[c])
          = joined[c] + Len(delivered[c] \o frame[c])
    <3>1. \A j, d, f \in Nat : j + d + f = j + (d + f)
      OBVIOUS
    <3>2. Len(delivered[c]) \in Nat /\ Len(frame[c]) \in Nat /\ joined[c] \in Nat
      BY <2>1
    <3>3. Len(delivered[c] \o frame[c]) = Len(delivered[c]) + Len(frame[c])
      BY <2>3
    <3>4. joined[c] + Len(delivered[c]) + Len(frame[c])
            = joined[c] + (Len(delivered[c]) + Len(frame[c]))
      BY <3>1, <3>2
    <3> QED  BY <3>3, <3>4
  <2>6. Segment(Stream(c), log, joined[c])
    BY <2>1, <2>2, <2>3, <2>4, <2>5, SegmentConcat DEF Stream
  <2>7. \A i \in 1..Handed(c) : Stream(c)[i] = log[joined[c] + i]
    BY <2>3, <2>6 DEF Segment
  <2>8. c \in clients =>
           joined[c] + Handed(c) = IF c \in hubTodo THEN Len(log) - 1 ELSE Len(log)
    BY MembersExtent
  <2> QED  BY <2>7, <2>8
<1> QED  BY <1>1, Inductive, PTL

-----------------------------------------------------------------------------
(* Chat implements ChatRoom. *)

\* Steps the abstract conversation does not see.
LEMMA InvisibleSteps ==
    ASSUME IndInv, NEW c \in Client,
           \/ ConnBreak(c) \/ ServeWs(c) \/ ServeWsRefuse(c) \/ StartPumps(c)
           \/ ReaderNext(c) \/ WriterReceive(c) \/ WriterChannelClosed(c)
           \/ WriterCount(c) \/ WriterDrain(c) \/ WriterError(c) \/ WriterClose(c)
    PROVE  UNCHANGED Room!roomVars
<1> USE DEF hubVars, chanVars, readerVars, writerVars
<1>0. TypeOK /\ Lifecycle
  BY DEF IndInv
<1>1. UNCHANGED <<log, joined, delivered, clients>>
  BY DEF ConnBreak, ServeWs, ServeWsRefuse, StartPumps, ReaderNext, ReadMessage,
         ReadError, ReaderClose, WriterReceive, WriterChannelClosed, WriterCount,
         WriterDrain, WriterError, WriterClose
<1>2. \A x \in Client : Registered(x)' = Registered(x)
  BY <1>0 DEF TypeOK, Registered, ConnBreak, ServeWs, ServeWsRefuse, StartPumps,
         ReaderNext, ReadMessage, ReadError, ReaderClose, WriterReceive,
         WriterChannelClosed, WriterCount, WriterDrain, WriterError, WriterClose
<1>3. \A x \in Client : Status(x)' = Status(x)
  BY <1>1, <1>2 DEF Status
<1>4. \A x \in Client : Handed(x)' = Handed(x)
  <2>1. CASE WriterReceive(c) \/ WriterDrain(c)
    <3>1. /\ send[c] # <<>>
          /\ send' = [send EXCEPT ![c] = Tail(send[c])]
          /\ \A x \in Client \ {c} : send'[x] = send[x] /\ frame'[x] = frame[x]
      <4>1. send[c] # <<>>
        <5>1. CASE WriterReceive(c)
          BY <5>1 DEF WriterReceive
        <5>2. CASE WriterDrain(c)
          <6>1. todo[c] \in Nat /\ todo[c] > 0 /\ todo[c] <= Len(send[c])
            BY <1>0, <5>2 DEF WriterDrain, IndInv, DrainTakesQueued, TypeOK
          <6> QED  BY <6>1
        <5> QED  BY <2>1, <5>1, <5>2
      <4>2. send' = AfterReceive(c)
        BY <2>1 DEF WriterReceive, WriterDrain
      <4>3. send' = [send EXCEPT ![c] = Tail(send[c])]
        BY <1>0, <4>1, <4>2 DEF AfterReceive, TypeOK
      <4>4. \A x \in Client \ {c} : frame'[x] = frame[x]
        BY <1>0, <2>1 DEF WriterReceive, WriterDrain, TypeOK
      <4> QED  BY <1>0, <4>1, <4>3, <4>4 DEF TypeOK
    <3>2. Len(send'[c]) = Len(send[c]) - 1 /\ Len(send[c]) \in Nat
      BY <1>0, <3>1 DEF TypeOK
    <3>3. Len(frame'[c]) = Len(frame[c]) + 1 /\ Len(frame[c]) \in Nat
      <4>1. CASE WriterReceive(c)
        BY <1>0, <4>1 DEF WriterReceive, TypeOK, Lifecycle
      <4>2. CASE WriterDrain(c)
        <5>1. frame'[c] = Append(frame[c], Head(send[c]))
          BY <1>0, <3>1, <4>2 DEF WriterDrain, Received, TypeOK
        <5>2. frame[c] \in Seq(Message) /\ Head(send[c]) \in Message
          BY <1>0, <3>1 DEF TypeOK
        <5>3. \A q \in Seq(Message), m \in Message : Len(Append(q, m)) = Len(q) + 1
          OBVIOUS
        <5> QED  BY <5>1, <5>2, <5>3
      <4> QED  BY <2>1, <4>1, <4>2
    <3>4. Handed(c)' = Handed(c)
      <4>1. \A d, f, s \in Nat : d + (f + 1) + (s - 1) = d + f + s
        OBVIOUS
      <4>2. Len(delivered[c]) \in Nat
        BY <1>0, StreamTypes
      <4>3. Handed(c)' = Len(delivered[c]) + (Len(frame[c]) + 1) + (Len(send[c]) - 1)
        BY <1>1, <3>2, <3>3 DEF Handed
      <4>4. Len(frame[c]) \in Nat /\ Len(send[c]) \in Nat
        BY <3>2, <3>3
      <4>5. Len(delivered[c]) + (Len(frame[c]) + 1) + (Len(send[c]) - 1)
              = Len(delivered[c]) + Len(frame[c]) + Len(send[c])
        BY <4>1, <4>2, <4>4
      <4> QED  BY <4>3, <4>5 DEF Handed
    <3> QED  BY <1>1, <3>1, <3>4 DEF Handed
  <2>2. CASE ~(WriterReceive(c) \/ WriterDrain(c))
    <3>1. UNCHANGED <<send, frame>>
      BY <2>2 DEF ConnBreak, ServeWs, ServeWsRefuse, StartPumps, ReaderNext,
             ReadMessage, ReadError, ReaderClose, WriterChannelClosed,
             WriterCount, WriterError, WriterClose
    <3> QED  BY <1>1, <3>1 DEF Handed
  <2> QED  BY <2>1, <2>2
<1> QED  BY <1>1, <1>3, <1>4 DEF Room!roomVars

\* A step of the hub's select is a Join, a Say, a Leave or nothing.
LEMMA HubSelectIsRoomStep ==
    ASSUME IndInv, NEW c \in Client, HubSelect(c)
    PROVE  Room!RoomNext \/ UNCHANGED Room!roomVars
<1> USE DEF hubVars, chanVars, readerVars, writerVars
<1>0. TypeOK /\ Lifecycle
  BY DEF IndInv
<1>1. UNCHANGED <<delivered, frame, send>>
  BY DEF HubSelect, HubRegister, HubUnregister, HubBroadcast, CloseSend
<1>2. \A x \in Client : Handed(x)' = Handed(x)
  BY <1>1 DEF Handed
<1>3. CASE HubRegister(c)
  <2>1. Status(c) = "new" /\ Status(c)' = "in"
    BY <1>0, <1>3 DEF HubRegister, Status, Registered, TypeOK
  <2>2. \A x \in Client \ {c} : Status(x)' = Status(x)
    BY <1>0, <1>3 DEF HubRegister, Status, Registered, TypeOK
  <2>3. Room!Join(c)
    BY <1>1, <1>2, <1>3, <2>1, <2>2 DEF HubRegister, Room!Join
  <2> QED  BY <2>3 DEF Room!RoomNext
<1>4. CASE HubUnregister(c)
  <2>1. Registered(c) /\ \A x \in Client : Registered(x)' = Registered(x)
    BY <1>0, <1>4 DEF HubUnregister, Registered, Lifecycle
  <2>2. UNCHANGED <<log, joined>>
    BY <1>4 DEF HubUnregister
  <2>3. CASE c \in clients
    <3>1. clients' = clients \ {c}
      BY <1>4, <2>3 DEF HubUnregister
    <3>2. Status(c) = "in" /\ Status(c)' = "out"
      BY <2>1, <2>3, <3>1 DEF Status
    <3>3. \A x \in Client \ {c} : Status(x)' = Status(x)
      BY <2>1, <3>1 DEF Status
    <3>4. Room!Leave(c)
      BY <1>1, <1>2, <2>2, <3>2, <3>3 DEF Room!Leave
    <3> QED  BY <3>4 DEF Room!RoomNext
  <2>4. CASE c \notin clients
    <3>1. clients' = clients
      BY <1>4, <2>4 DEF HubUnregister
    <3>2. \A x \in Client : Status(x)' = Status(x)
      BY <2>1, <3>1 DEF Status
    <3> QED  BY <1>1, <1>2, <2>2, <3>2 DEF Room!roomVars
  <2> QED  BY <2>3, <2>4
<1>5. CASE HubBroadcast(c)
  <2>1. <<c, sent[c]>> \in Message
    <3>1. sent[c] \in 1..MaxSent
      BY <1>0, <1>5 DEF TypeOK, Lifecycle, HubBroadcast
    <3> QED  BY <3>1 DEF Message
  <2>2. \A x \in Client : Status(x)' = Status(x)
    BY <1>5 DEF HubBroadcast, Status, Registered
  <2>3. ASSUME NEW x \in Client, Status(x) = "in"
        PROVE  joined[x] + Handed(x) = Len(log)
    <3>1. x \in clients /\ x \notin hubTodo
      BY <1>5, <2>3 DEF Status, HubBroadcast
    <3> QED  BY <3>1, MembersExtent
  <2>4. Room!Say(<<c, sent[c]>>)
    BY <1>1, <1>2, <1>5, <2>2, <2>3 DEF HubBroadcast, Room!Say
  <2> QED  BY <2>1, <2>4 DEF Room!RoomNext
<1> QED  BY <1>3, <1>4, <1>5 DEF HubSelect

\* A turn of the broadcast loop hands the visited member its message or
\* throws it out.
LEMMA HubSendIsRoomStep ==
    ASSUME IndInv, NEW c \in Client, HubSend(c)
    PROVE  Room!RoomNext
<1> USE DEF hubVars, chanVars, readerVars, writerVars
<1>0. TypeOK /\ Lifecycle
  BY DEF IndInv
<1>1. c \in hubTodo /\ c \in clients /\ ~sendClosed[c] /\ Registered(c)
  BY DEF HubSend, IndInv, HubInv, ClosedIffRemoved, Lifecycle
<1>2. /\ \A x \in Client : Registered(x)' = Registered(x)
      /\ UNCHANGED <<log, joined, delivered, frame>>
  BY DEF HubSend, Registered
<1>3. Status(c) = "in"
  BY <1>1 DEF Status
<1>4. joined[c] + Handed(c) = Len(log) - 1 /\ Handed(c) \in Nat
  BY <1>1, MembersExtent
<1>5. CASE /\ send' = [send EXCEPT ![c] = Append(@, log[Len(log)])]
           /\ UNCHANGED clients
  <2>1. Handed(c)' = Handed(c) + 1
    <3>1. \A q \in Seq(Message), m \in Message : Len(Append(q, m)) = Len(q) + 1
      OBVIOUS
    <3>2. log[Len(log)] \in Message /\ send[c] \in Seq(Message)
      <4>1. joined[c] \in Nat /\ log \in Seq(Message) /\ send[c] \in Seq(Message)
        BY <1>0, StreamTypes
      <4> QED  BY <1>4, <4>1
    <3>3. send'[c] = Append(send[c], log[Len(log)])
      BY <1>0, <1>5 DEF TypeOK
    <3>4. Len(send'[c]) = Len(send[c]) + 1
      BY <3>1, <3>2, <3>3
    <3>5. Handed(c)' = Len(delivered[c]) + Len(frame[c]) + (Len(send[c]) + 1)
      BY <1>2, <3>4 DEF Handed
    <3>6. \A d, f, s \in Nat : d + f + (s + 1) = d + f + s + 1
      OBVIOUS
    <3>7. Len(delivered[c]) \in Nat /\ Len(frame[c]) \in Nat /\ Len(send[c]) \in Nat
      BY <1>0, StreamTypes
    <3>8. Len(delivered[c]) + Len(frame[c]) + (Len(send[c]) + 1)
            = Len(delivered[c]) + Len(frame[c]) + Len(send[c]) + 1
      BY <3>6, <3>7
    <3> QED  BY <3>5, <3>8 DEF Handed
  <2>2. \A x \in Client \ {c} : Handed(x)' = Handed(x)
    BY <1>0, <1>2, <1>5 DEF Handed, TypeOK
  <2>3. \A x \in Client : Status(x)' = Status(x)
    BY <1>2, <1>5 DEF Status
  <2>4. joined[c] + Handed(c) < Len(log)
    <3>1. joined[c] \in Nat /\ Len(log) \in Nat
      BY <1>0, StreamTypes
    <3> QED  BY <1>4, <3>1
  <2>5. Room!Hand(c)
    BY <1>2, <1>3, <2>1, <2>2, <2>3, <2>4 DEF Room!Hand
  <2> QED  BY <2>5 DEF Room!RoomNext
<1>6. CASE CloseSend(c) /\ clients' = clients \ {c}
  <2>1. \A x \in Client : Handed(x)' = Handed(x)
    BY <1>2, <1>6 DEF Handed, CloseSend
  <2>2. Status(c)' = "out" /\ \A x \in Client \ {c} : Status(x)' = Status(x)
    BY <1>1, <1>2, <1>6 DEF Status
  <2>3. Room!Leave(c)
    BY <1>2, <1>3, <2>1, <2>2 DEF Room!Leave
  <2> QED  BY <2>3 DEF Room!RoomNext
<1> QED  BY <1>1, <1>5, <1>6 DEF HubSend

\* A flush shows the client the next part of the conversation.
LEMMA WriterFlushIsRoomStep ==
    ASSUME IndInv, NEW c \in Client, WriterFlush(c)
    PROVE  Room!RoomNext \/ UNCHANGED Room!roomVars
<1> USE DEF hubVars, chanVars, readerVars, writerVars
<1>0. TypeOK /\ Lifecycle
  BY DEF IndInv
<1>1. /\ delivered' = [delivered EXCEPT ![c] = delivered[c] \o frame[c]]
      /\ frame' = [frame EXCEPT ![c] = <<>>]
      /\ UNCHANGED <<clients, log, joined, send, serve>>
  BY <1>0 DEF WriterFlush, TypeOK
<1>2. /\ delivered[c] \in Seq(Message) /\ frame[c] \in Seq(Message)
      /\ send[c] \in Seq(Message) /\ log \in Seq(Message) /\ joined[c] \in Nat
  BY <1>0, StreamTypes
<1>3. \A x \in Client : Status(x)' = Status(x)
  BY <1>1 DEF Status, Registered
<1>4. \A x \in Client : Handed(x)' = Handed(x)
  <2>1. Handed(c)' = Handed(c)
    <3>1. \A p, q \in Seq(Message) : Len(p \o q) = Len(p) + Len(q)
      OBVIOUS
    <3>2. Len(delivered'[c]) = Len(delivered[c]) + Len(frame[c])
      BY <1>0, <1>1, <1>2, <3>1 DEF TypeOK
    <3>3. Len(frame'[c]) = 0
      BY <1>0, <1>1 DEF TypeOK
    <3>4. Handed(c)' = Len(delivered[c]) + Len(frame[c]) + 0 + Len(send[c])
      BY <1>1, <3>2, <3>3 DEF Handed
    <3>5. \A d, f, s \in Nat : d + f + 0 + s = d + f + s
      OBVIOUS
    <3>6. Len(delivered[c]) \in Nat /\ Len(frame[c]) \in Nat /\ Len(send[c]) \in Nat
      BY <1>2
    <3>7. Len(delivered[c]) + Len(frame[c]) + 0 + Len(send[c])
            = Len(delivered[c]) + Len(frame[c]) + Len(send[c])
      BY <3>5, <3>6
    <3> QED  BY <3>4, <3>7 DEF Handed
  <2>2. \A x \in Client \ {c} : Handed(x)' = Handed(x)
    BY <1>0, <1>1 DEF Handed, TypeOK
  <2> QED  BY <2>1, <2>2
<1>5. CASE frame[c] = <<>>
  <2>1. \A p \in Seq(Message) : p \o <<>> = p
    OBVIOUS
  <2>2. delivered' = delivered
    BY <1>0, <1>1, <1>2, <1>5, <2>1 DEF TypeOK
  <2> QED  BY <1>1, <1>3, <1>4, <2>2 DEF Room!roomVars
<1>6. CASE frame[c] # <<>>
  <2>1. Segment(delivered[c] \o frame[c], log, joined[c])
    <3>1. Segment(delivered[c], log, joined[c])
          /\ Segment(frame[c], log, joined[c] + Len(delivered[c]))
      BY DEF IndInv, InOrder, FrameBase
    <3> QED  BY <1>2, <3>1, SegmentConcat
  <2>2. \A p \in Seq(Message) : p = [i \in 1..Len(p) |-> p[i]]
    BY LenProperties
  <2>3. delivered[c] \o frame[c]
          = [i \in 1..(Len(delivered[c]) + Len(frame[c])) |-> log[joined[c] + i]]
    <3>1. /\ delivered[c] \o frame[c] \in Seq(Message)
          /\ Len(delivered[c] \o frame[c]) = Len(delivered[c]) + Len(frame[c])
      BY <1>2, ConcatProperties
    <3>2. \A i \in 1..(Len(delivered[c]) + Len(frame[c])) :
             (delivered[c] \o frame[c])[i] = log[joined[c] + i]
      BY <2>1, <3>1 DEF Segment
    <3>3. delivered[c] \o frame[c]
            = [i \in 1..(Len(delivered[c]) + Len(frame[c])) |->
                  (delivered[c] \o frame[c])[i]]
      BY <2>2, <3>1
    <3> QED  BY <3>2, <3>3
  <2>4. Len(frame[c]) \in 1..(Handed(c) - Len(delivered[c]))
    <3>1. \A d, f, s, h \in Nat : f # 0 /\ h = d + f + s => f \in 1..(h - d)
      OBVIOUS
    <3>2. /\ Len(delivered[c]) \in Nat /\ Len(frame[c]) \in Nat
          /\ Len(send[c]) \in Nat /\ Len(frame[c]) # 0
      BY <1>2, <1>6
    <3>3. Handed(c) = Len(delivered[c]) + Len(frame[c]) + Len(send[c])
      BY DEF Handed
    <3>4. Handed(c) \in Nat
      BY MembersExtent
    <3> QED  BY <3>1, <3>2, <3>3, <3>4
  <2>5. Room!Show(c)
    BY <1>1, <1>3, <1>4, <2>3, <2>4 DEF Room!Show
  <2> QED  BY <2>5 DEF Room!RoomNext
<1> QED  BY <1>5, <1>6

\* The chat example implements the conversation: one total order of messages,
\* shown to every participant without gaps from the moment it joined.
THEOREM ChatImplementsRoom == Spec => ImplementsRoom
<1>1. Init => Room!RoomInit
  BY DEF Init, Room!RoomInit, Status, Registered, Handed
<1>2. IndInv /\ [Next]_vars => [Room!RoomNext]_(Room!roomVars)
  <2> SUFFICES ASSUME IndInv, [Next]_vars
               PROVE  Room!RoomNext \/ UNCHANGED Room!roomVars
    OBVIOUS
  <2>1. CASE Next
    <3>1. PICK c \in Client :
             \/ ConnBreak(c) \/ ServeWs(c) \/ ServeWsRefuse(c) \/ StartPumps(c)
             \/ HubNext(c) \/ ReaderNext(c) \/ WriterNext(c)
      BY <2>1 DEF Next
    <3>2. CASE HubNext(c)
      BY <3>2, HubSelectIsRoomStep, HubSendIsRoomStep DEF HubNext
    <3>3. CASE WriterFlush(c)
      BY <3>3, WriterFlushIsRoomStep
    <3>4. CASE ~HubNext(c) /\ ~WriterFlush(c)
      BY <3>1, <3>4, InvisibleSteps DEF WriterNext
    <3> QED  BY <3>2, <3>3, <3>4
  <2>2. CASE UNCHANGED vars
    BY <2>2 DEF vars, hubVars, chanVars, readerVars, writerVars, Room!roomVars,
                Status, Registered, Handed
  <2> QED  BY <2>1, <2>2
<1> QED  BY <1>1, <1>2, Inductive, PTL DEF Spec, ImplementsRoom, Room!RoomSpec
=============================================================================
