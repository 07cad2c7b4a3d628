----------------------------- MODULE SseProofs -----------------------------
(***************************************************************************)
(* Proofs about http/sse, for any number of connections and of ticks: the  *)
(* events of each connection arrive in order and once, although the map is *)
(* read and written without a lock.                                        *)
(***************************************************************************)
EXTENDS Sse, SequenceTheorems, TLAPS

USE SseAssumption DEF serveVars, simVars, Goto

\* Everything that was sent to c was sent before event n.
SentBefore(c, n) ==
    /\ \A i \in DOMAIN got[c] : got[c][i] < n
    /\ serve[c] = "write" => msg[c] < n

\* The broadcast's own variables: it only has a channel in hand in a round, and
\* then one that the round has produced.
LoopInv ==
    /\ looping => tick >= 1
    /\ visit # NoClient => looping /\ visit \in seen

\* What Serve has taken from its channel but not written is newer than all it
\* has written.
PendingIsNewest ==
    \A c \in Client : serve[c] = "write" =>
        /\ msg[c] >= 1
        /\ \A i \in DOMAIN got[c] : got[c][i] < msg[c]

\* The current event is sent to a connection only when the round has it in
\* hand, and to nobody before the round has begun.
OnePerRound ==
    \A c \in Client :
        /\ SentBefore(c, tick + 1)
        /\ looping /\ (c \notin seen \/ visit = c) => SentBefore(c, tick)

IndInv == TypeOK /\ LoopInv /\ PendingIsNewest /\ OnePerRound /\ EventsInOrder

-----------------------------------------------------------------------------
\* No connection and no tick yet.
LEMMA InitIndInv == Init => IndInv
<1> SUFFICES ASSUME Init PROVE IndInv
  OBVIOUS
<1>1. TypeOK
  <2>1. got \in [Client -> Seq(1..MaxTick)]
    BY DEF Init
  <2>2. msg \in [Client -> 0..MaxTick] /\ tick \in 0..MaxTick
    BY DEF Init
  <2> QED  BY <2>1, <2>2 DEF Init, TypeOK
<1>2. LoopInv /\ PendingIsNewest
  BY DEF Init, LoopInv, PendingIsNewest
<1>3. OnePerRound /\ EventsInOrder
  BY DEF Init, OnePerRound, SentBefore, EventsInOrder
<1> QED  BY <1>1, <1>2, <1>3 DEF IndInv

\* Steps that move Serve's program counter, but not into or out of a write.
LEMMA ServeStepsIndInv ==
    ASSUME IndInv, NEW c \in Client,
           \/ Connect(c) \/ Disconnect(c) \/ WriteBegin(c) \/ WriteEnd(c)
           \/ ContextDone(c) \/ CloseChan(c)
    PROVE  IndInv'
<1> USE DEF IndInv
<1>1. UNCHANGED <<msg, got, tick, looping, atStart, seen, visit>>
  BY DEF Connect, Disconnect, WriteBegin, WriteEnd, ContextDone, CloseChan
<1>2. \A x \in Client : serve'[x] = "write" => serve[x] = "write"
  BY DEF TypeOK, Connect, Disconnect, WriteBegin, WriteEnd, ContextDone, CloseChan
<1>3. TypeOK'
  BY DEF TypeOK, Connect, Disconnect, WriteBegin, WriteEnd, ContextDone, CloseChan,
         MapAccess
<1>4. LoopInv' /\ PendingIsNewest' /\ EventsInOrder'
  BY <1>1, <1>2 DEF LoopInv, PendingIsNewest, EventsInOrder
<1>5. OnePerRound'
  BY <1>1, <1>2 DEF OnePerRound, SentBefore
<1> QED  BY <1>3, <1>4, <1>5

\* An event is written after older ones only.
LEMMA WriteEventIndInv ==
    ASSUME IndInv, NEW c \in Client, WriteEvent(c)
    PROVE  IndInv'
<1> USE DEF IndInv
<1>0. /\ serve[c] = "write" /\ serve' = [serve EXCEPT ![c] = "select"]
      /\ got' = [got EXCEPT ![c] = Append(@, msg[c])]
      /\ UNCHANGED <<msg, tick, looping, atStart, seen, visit>>
      /\ UNCHANGED <<clients, writing, closed, connected, crashed>>
  BY DEF WriteEvent
<1>1. msg[c] \in 1..MaxTick /\ got[c] \in Seq(1..MaxTick) /\ tick \in Nat
  BY <1>0 DEF TypeOK, PendingIsNewest
<1>2. /\ got'[c] = Append(got[c], msg[c]) /\ got'[c] \in Seq(1..MaxTick)
      /\ DOMAIN got[c] = 1..Len(got[c]) /\ Len(got[c]) \in Nat
      /\ DOMAIN got'[c] = 1..(Len(got[c]) + 1)
      /\ got'[c][Len(got[c]) + 1] = msg[c]
      /\ \A i \in 1..Len(got[c]) : got'[c][i] = got[c][i]
      /\ \A x \in Client : x # c => got'[x] = got[x] /\ serve'[x] = serve[x]
      /\ serve'[c] = "select"
  BY <1>0, <1>1 DEF TypeOK
<1>3. TypeOK'
  BY <1>0, <1>2 DEF TypeOK
<1>4. LoopInv'
  BY <1>0 DEF LoopInv
<1>5. PendingIsNewest'
  BY <1>0, <1>2 DEF PendingIsNewest
<1>6. ASSUME NEW n \in Nat, SentBefore(c, n)
      PROVE  SentBefore(c, n)'
  <2>1. msg[c] < n /\ \A i \in 1..Len(got[c]) : got[c][i] < n
    BY <1>0, <1>2, <1>6 DEF SentBefore
  <2>2. \A i \in 1..(Len(got[c]) + 1) : i \in 1..Len(got[c]) \/ i = Len(got[c]) + 1
    BY <1>2
  <2>3. \A i \in DOMAIN got'[c] : got'[c][i] < n
    BY <1>2, <2>1, <2>2
  <2> QED  BY <1>2, <2>3 DEF SentBefore
<1>7. OnePerRound'
  <2> SUFFICES ASSUME NEW x \in Client
               PROVE  /\ SentBefore(x, tick + 1)'
                      /\ (looping /\ (x \notin seen \/ visit = x) => SentBefore(x, tick))'
    BY DEF OnePerRound
  <2>1. CASE x = c
    <3>1. tick + 1 \in Nat
      BY <1>1
    <3>2. SentBefore(c, tick + 1)'
      BY <1>0, <1>6, <3>1 DEF OnePerRound, SentBefore
    <3>3. (looping /\ (c \notin seen \/ visit = c) => SentBefore(c, tick))'
      BY <1>0, <1>1, <1>6 DEF OnePerRound, SentBefore
    <3> QED  BY <2>1, <3>2, <3>3
  <2>2. CASE x # c
    BY <1>0, <1>2, <2>2 DEF OnePerRound, SentBefore
  <2> QED  BY <2>1, <2>2
<1>8. EventsInOrder'
  <2> SUFFICES ASSUME NEW x \in Client, NEW i \in DOMAIN got'[x],
                      NEW j \in DOMAIN got'[x], i < j
               PROVE  got'[x][i] < got'[x][j]
    BY DEF EventsInOrder
  <2>1. CASE x # c
    BY <1>2, <2>1 DEF EventsInOrder
  <2>2. CASE x = c /\ j \in 1..Len(got[c])
    <3>1. i \in 1..Len(got[c])
      BY <1>2, <2>2
    <3> QED  BY <1>2, <2>2, <3>1 DEF EventsInOrder
  <2>3. CASE x = c /\ j = Len(got[c]) + 1
    <3>1. i \in 1..Len(got[c])
      BY <1>2, <2>3
    <3>2. got[c][i] < msg[c]
      BY <1>0, <1>2, <3>1 DEF PendingIsNewest
    <3> QED  BY <1>2, <2>3, <3>1, <3>2
  <2> QED  BY <1>2, <2>1, <2>2, <2>3
<1> QED  BY <1>3, <1>4, <1>5, <1>7, <1>8

\* A new event is newer than all that were sent.
LEMMA TickIndInv ==
    ASSUME IndInv, Tick
    PROVE  IndInv'
<1> USE DEF IndInv
<1>0. /\ ~looping /\ tick < MaxTick /\ tick' = tick + 1 /\ looping' = TRUE
      /\ seen' = {} /\ UNCHANGED <<serve, msg, got, visit>>
      /\ tick \in Nat /\ visit = NoClient
  BY DEF Tick, TypeOK, LoopInv
<1>1. TypeOK'
  <2>1. tick' \in 0..MaxTick
    BY <1>0
  <2> QED  BY <1>0, <2>1 DEF Tick, TypeOK, MapAccess
<1>2. LoopInv'
  BY <1>0 DEF LoopInv
<1>3. PendingIsNewest' /\ EventsInOrder'
  BY <1>0 DEF PendingIsNewest, EventsInOrder
<1>4. ASSUME NEW x \in Client
      PROVE  SentBefore(x, tick + 2) /\ SentBefore(x, tick + 1)
  <2>1. SentBefore(x, tick + 1)
    BY DEF OnePerRound
  <2>2. msg[x] \in Nat /\ got[x] \in Seq(1..MaxTick)
    BY DEF TypeOK
  <2>3. \A i \in DOMAIN got[x] : got[x][i] \in Nat
    BY <2>2
  <2> QED  BY <1>0, <2>1, <2>2, <2>3 DEF SentBefore
<1>5. OnePerRound'
  <2>1. tick' + 1 = tick + 2
    BY <1>0
  <2> QED  BY <1>0, <1>4, <2>1 DEF OnePerRound, SentBefore
<1> QED  BY <1>1, <1>2, <1>3, <1>5

\* The loop takes a channel in hand, or ends.
LEMMA RangeIndInv ==
    ASSUME IndInv, RangeEnd \/ \E c \in Client : RangeNext(c)
    PROVE  IndInv'
<1> USE DEF IndInv
<1>1. UNCHANGED <<serve, msg, got, tick>>
  BY DEF RangeEnd, RangeNext
<1>2. TypeOK'
  BY DEF RangeEnd, RangeNext, TypeOK, MapAccess
<1>3. LoopInv'
  BY DEF RangeEnd, RangeNext, LoopInv, TypeOK
<1>4. PendingIsNewest' /\ EventsInOrder'
  BY <1>1 DEF PendingIsNewest, EventsInOrder
<1>5. \A c \in Client :
         looping' /\ (c \notin seen' \/ visit' = c)
             => looping /\ (c \notin seen \/ visit = c)
  BY DEF RangeEnd, RangeNext
<1>6. OnePerRound'
  BY <1>1, <1>5 DEF OnePerRound, SentBefore
<1> QED  BY <1>2, <1>3, <1>4, <1>6

\* The channel in hand gets the event, is skipped, or brings the process down.
LEMMA BroadcastSendIndInv ==
    ASSUME IndInv, BroadcastSend
    PROVE  IndInv'
<1> USE DEF IndInv
<1>0. /\ visit \in Client /\ looping /\ visit \in seen /\ visit' = NoClient
      /\ UNCHANGED <<got, tick, looping, seen>> /\ tick \in Nat /\ tick >= 1
  BY DEF BroadcastSend, TypeOK, LoopInv
<1>1. TypeOK'
  BY <1>0 DEF BroadcastSend, TypeOK
<1>2. LoopInv'
  BY <1>0 DEF LoopInv
<1>3. EventsInOrder'
  BY <1>0 DEF EventsInOrder
<1>4. \/ UNCHANGED <<serve, msg>>
      \/ /\ msg' = [msg EXCEPT ![visit] = tick]
         /\ serve' = [serve EXCEPT ![visit] = "write"]
  BY DEF BroadcastSend
<1>5. SentBefore(visit, tick)
  BY <1>0 DEF OnePerRound
<1>6. PendingIsNewest'
  BY <1>0, <1>4, <1>5 DEF PendingIsNewest, SentBefore, TypeOK
<1>7. ASSUME NEW x \in Client, NEW n \in Nat, SentBefore(x, n), x = visit => n > tick
      PROVE  SentBefore(x, n)'
  BY <1>0, <1>4, <1>7 DEF SentBefore, TypeOK
<1>8. OnePerRound'
  <2> SUFFICES ASSUME NEW x \in Client
               PROVE  /\ SentBefore(x, tick + 1)'
                      /\ (looping /\ (x \notin seen \/ visit = x) => SentBefore(x, tick))'
    BY DEF OnePerRound
  <2>1. tick + 1 \in Nat /\ tick + 1 > tick
    BY <1>0
  <2>2. SentBefore(x, tick + 1)'
    BY <1>0, <1>7, <2>1 DEF OnePerRound, SentBefore
  <2>3. (looping /\ (x \notin seen \/ visit = x))' => x # visit /\ x \notin seen
    BY <1>0
  <2>4. (looping /\ (x \notin seen \/ visit = x) => SentBefore(x, tick))'
    BY <1>0, <1>7, <2>3 DEF OnePerRound, SentBefore
  <2> QED  BY <2>2, <2>4
<1> QED  BY <1>1, <1>2, <1>3, <1>6, <1>8

\* IndInv is an invariant, and with it the type invariant and the order.
THEOREM Inductive == Spec => []IndInv
<1>1. Init => IndInv
  BY InitIndInv
<1>2. IndInv /\ [Next]_vars => IndInv'
  <2> SUFFICES ASSUME IndInv, [Next]_vars PROVE IndInv'
    OBVIOUS
  <2>1. CASE UNCHANGED vars
    BY <2>1 DEF vars, IndInv, TypeOK, LoopInv, PendingIsNewest, OnePerRound,
                SentBefore, EventsInOrder
  <2> QED
    BY <2>1, ServeStepsIndInv, WriteEventIndInv, TickIndInv, RangeIndInv,
       BroadcastSendIndInv DEF Next, ServeNext, LoopNext
<1> QED  BY <1>1, <1>2, PTL DEF Spec

\* Each connection is sent the events in order and none of them twice, whatever
\* the iteration of a map that changes meanwhile produces.
THEOREM InOrderAndOnce == Spec => []EventsInOrder
<1>1. IndInv => EventsInOrder
  BY DEF IndInv
<1> QED  BY <1>1, Inductive, PTL
=============================================================================
