---------------------------- MODULE ChatFraming ----------------------------
(***************************************************************************)
(* What becomes of the text of chat messages between the page that sends   *)
(* them and the pages that show them.  readPump normalises a message so    *)
(* that it is one line; writePump joins the messages it finds queued with  *)
(* newlines into one websocket message; the page splits that message at    *)
(* newlines and shows every line as a chat message.                        *)
(*                                                                         *)
(* A text is a sequence of characters; all that matters of a character is  *)
(* whether it is a newline, other white space, or neither.  Module Chat    *)
(* has the channels; here one connection's `send' is enough.               *)
(***************************************************************************)
EXTENDS Integers, Sequences, SequencesExt

CONSTANTS MaxLen,     \* bound: characters in a text
          MaxMessages \* bound: messages read

ASSUME FramingAssumption == MaxLen \in Nat /\ MaxMessages \in Nat

Newline == "newline"
Space   == "space"
Letter  == "letter"
Char    == {Newline, Space, Letter}

Text == UNION {[1..n -> Char] : n \in 0..MaxLen}

VARIABLES queue,  \* Client.send
          wire,   \* websocket messages on their way to the page
          screen, \* lines the page shows
          said    \* history: the messages read, normalised

framingVars == <<queue, wire, screen, said>>

FramingInit == queue = <<>> /\ wire = <<>> /\ screen = <<>> /\ said = <<>>

\* bytes.Replace(message, newline, space, -1)
ReplaceNewlines(t) == [i \in DOMAIN t |-> IF t[i] = Newline THEN Space ELSE t[i]]

\* bytes.TrimSpace
TrimSpace(t) ==
    LET kept == {i \in DOMAIN t : t[i] = Letter} IN
    IF kept = {} THEN <<>> ELSE SubSeq(t, Min(kept), Max(kept))

\* Mutant of Normalise: newlines inside a message are kept.
TrimOnly(t) == TrimSpace(t)

Normalise(t) == TrimSpace(ReplaceNewlines(t))

\* The messages of one frame: the first, then for each of the n queued behind it
\* a newline and the message.
AddMessage(text, m) == text \o <<Newline>> \o m
Joined(messages) ==
    LET upTo[n \in 0..(Len(messages) - 1)] ==
          IF n = 0 THEN messages[1] ELSE AddMessage(upTo[n - 1], messages[n + 1])
    IN  upTo[Len(messages) - 1]

\* evt.data.split('\n'): a newline begins a new line, any other character goes
\* to the end of the last one.
AddChar(lines, c) ==
    IF c = Newline THEN Append(lines, <<>>)
                   ELSE [lines EXCEPT ![Len(lines)] = Append(@, c)]
Split(t) ==
    LET upTo[n \in 0..Len(t)] ==
          IF n = 0 THEN << <<>> >> ELSE AddChar(upTo[n - 1], t[n])
    IN  upTo[Len(t)]

-----------------------------------------------------------------------------
\* A websocket message arrives and is broadcast.  The page sends no empty
\* text, but other clients may, and white space alone becomes empty here.
ReadPump(t) ==
    /\ Len(said) < MaxMessages
    /\ queue' = Append(queue, Normalise(t))
    /\ said' = Append(said, Normalise(t))
    /\ UNCHANGED <<wire, screen>>

\* writePump takes a message and the n it finds queued behind it.
WritePump ==
    /\ queue # <<>>
    /\ \E n \in 0..(Len(queue) - 1) :
          /\ wire' = Append(wire, Joined(SubSeq(queue, 1, n + 1)))
          /\ queue' = SubSeq(queue, n + 2, Len(queue))
    /\ UNCHANGED <<screen, said>>

\* conn.onmessage
OnMessage ==
    /\ wire # <<>>
    /\ screen' = screen \o Split(Head(wire))
    /\ wire' = Tail(wire)
    /\ UNCHANGED <<queue, said>>

FramingNext == (\E t \in Text : ReadPump(t)) \/ WritePump \/ OnMessage

-----------------------------------------------------------------------------
\* A line: no newlines, and no white space at either end.
Line ==
    {t \in Text : Newline \notin Range(t) /\ (t # <<>> =>
        t[1] = Letter /\ t[Len(t)] = Letter)}

\* However writePump batches them, the page shows one line per message that
\* was sent, the right one and in order: no message is split into two, merged
\* with its neighbour or lost because it is empty, and none shows white space
\* around it.
LinePerMessage ==
    /\ IsPrefix(screen, said) /\ screen \in Seq(Line)
    /\ queue = <<>> /\ wire = <<>> => screen = said
=============================================================================
