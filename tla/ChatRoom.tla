------------------------------ MODULE ChatRoom ------------------------------
(***************************************************************************)
(* What the chat example promises its users, with no hub, no channels and  *)
(* no goroutines: there is one conversation (a log that only grows), every *)
(* member is handed the conversation from the moment it joined on, without *)
(* gaps and in the order of the log, and sees a prefix of what it was      *)
(* handed.  A member that leaves, or is thrown out, is never handed        *)
(* anything more.                                                          *)
(***************************************************************************)
EXTENDS Integers, Sequences

CONSTANTS Client,   \* one element per websocket connection
          Message   \* what a peer can say

VARIABLES log,      \* everything that was broadcast, in the order of the hub
          status,   \* new, in (the conversation) or out, for every connection
          joined,   \* length of the log when the connection joined
          handed,   \* how many messages were queued for the connection
          shown     \* the messages written to the connection's socket

roomVars == <<log, status, joined, handed, shown>>

RoomInit ==
    /\ log = <<>>
    /\ status = [c \in Client |-> "new"]
    /\ joined = [c \in Client |-> 0]
    /\ handed = [c \in Client |-> 0]
    /\ shown = [c \in Client |-> <<>>]

\* A connection joins once.
Join(c) ==
    /\ status[c] = "new"
    /\ status' = [status EXCEPT ![c] = "in"]
    /\ joined' = [joined EXCEPT ![c] = Len(log)]
    /\ UNCHANGED <<log, handed, shown>>

\* The next message is accepted only when every member was handed all the
\* earlier ones: the conversation is totally ordered.
Say(m) ==
    /\ \A c \in Client : status[c] = "in" => joined[c] + handed[c] = Len(log)
    /\ log' = Append(log, m)
    /\ UNCHANGED <<status, joined, handed, shown>>

Hand(c) ==
    /\ status[c] = "in"
    /\ joined[c] + handed[c] < Len(log)
    /\ handed' = [handed EXCEPT ![c] = @ + 1]
    /\ UNCHANGED <<log, status, joined, shown>>

\* For good: whoever is out is never handed anything again.
Leave(c) ==
    /\ status[c] = "in"
    /\ status' = [status EXCEPT ![c] = "out"]
    /\ UNCHANGED <<log, joined, handed, shown>>

\* The next few messages reach the socket together, as one websocket message.
Show(c) ==
    \E k \in 1..(handed[c] - Len(shown[c])) :
        /\ shown' = [shown EXCEPT ![c] =
                [i \in 1..(Len(@) + k) |-> log[joined[c] + i]]]
        /\ UNCHANGED <<log, status, joined, handed>>

RoomNext ==
    \/ \E m \in Message : Say(m)
    \/ \E c \in Client : Join(c) \/ Hand(c) \/ Leave(c) \/ Show(c)

RoomSpec == RoomInit /\ [][RoomNext]_roomVars
=============================================================================
