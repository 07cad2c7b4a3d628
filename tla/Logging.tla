------------------------------- MODULE Logging -------------------------------
(***************************************************************************)
(* The log writers under src/logx: one that writes to console and file,    *)
(* one that hides passwords, one that pushes to Kafka, and three that      *)
(* adapt another library.  main logs a fixed list of records; logx's own   *)
(* goroutine adds Stat records between them.  A record is its level, where *)
(* it comes from and what it holds.  logx itself, the Kafka pusher and the *)
(* adapted libraries are external.                                         *)
(***************************************************************************)
EXTENDS Naturals, Sequences

CONSTANTS Rounds,      \* bound on the turns of an endless main
          Stats,       \* bound on the Stat records
          BufSize      \* records that fit bufio's buffer

ASSUME LoggingAssumption == Rounds \in Nat \ {0} /\ Stats \in Nat /\ BufSize \in Nat

VARIABLES program,     \* which main runs
          logged,      \* [main, stat] -> records begun
          inHand,      \* [main, stat] -> records between two outputs
          buffer,      \* the console's bufio.Writer
          console,
          file         \* the records given to the file's writer, in this order
logVars == <<program, logged, inHand, buffer, console, file>>

-----------------------------------------------------------------------------
LogMain(writer, loops, records) == [writer |-> writer, loops |-> loops, records |-> records]
AllLevels == <<"Info", "Error", "Slow", "Error", "Info", "Info", "Error", "Error">>
FileConsoleMain == LogMain("multi", TRUE, AllLevels)
TokafkaMain == LogMain("kafka", TRUE, AllLevels)
LogrusMain == LogMain("adapter", FALSE, AllLevels)
ZapMain == LogMain("adapter", FALSE, AllLevels)
ZerologMain == LogMain("adapter", FALSE, AllLevels)
\* Infow, Infov of a Message with a password, Infow, two Errorw.
FilterMain == LogMain("sensitive", FALSE, <<"Info", "Message", "Info", "Error", "Error">>)
Programs == {FileConsoleMain, TokafkaMain, LogrusMain, ZapMain, ZerologMain, FilterMain}

Loggers == {"main", "stat"}
Records == Len(program.records) * (IF program.loops THEN Rounds ELSE 1)
Record(level, by, n) ==
  [level |-> level, by |-> by, n |-> n, password |-> level = "Message"]

LoggingInit ==
  /\ program \in Programs
  /\ logged = [g \in Loggers |-> 0] /\ inHand = [g \in Loggers |-> <<>>]
  /\ buffer = <<>> /\ console = <<>> /\ file = <<>>

\* The next record of main's list, or a Stat of logx.
NextRecord(g) ==
  IF g = "main" THEN Record(program.records[(logged[g] % Len(program.records)) + 1], g, logged[g])
                ELSE Record("Stat", g, logged[g])
MayLog(g) == inHand[g] = <<>> /\ logged[g] < IF g = "main" THEN Records ELSE Stats

-----------------------------------------------------------------------------
\* MultiWriter gives every level to the console, through a buffer that is
\* written out only when it is full, and then to the file.
ToConsole(g) ==
  /\ program.writer = "multi" /\ MayLog(g)
  /\ inHand' = [inHand EXCEPT ![g] = <<NextRecord(g)>>]
  /\ IF Len(buffer) < BufSize
     THEN buffer' = Append(buffer, NextRecord(g)) /\ UNCHANGED console
     ELSE buffer' = <<NextRecord(g)>> /\ console' = console \o buffer
  /\ logged' = [logged EXCEPT ![g] = @ + 1]
  /\ UNCHANGED <<program, file>>
\* Defect: the writer to the file has no Stat.
ToFileNoStat(g) ==
  /\ inHand[g] # <<>>
  /\ file' = IF inHand[g][1].level = "Stat" THEN file ELSE file \o inHand[g]
  /\ inHand' = [inHand EXCEPT ![g] = <<>>]
  /\ UNCHANGED <<program, logged, buffer, console>>
\* The writer that logx set up has a file for each level and tells nobody of a
\* write that fails: what is modelled is that it gets the record.
ToFile(g) ==
  /\ inHand[g] # <<>>
  /\ file' = file \o inHand[g]
  /\ inHand' = [inHand EXCEPT ![g] = <<>>]
  /\ UNCHANGED <<program, logged, buffer, console>>

\* SensitiveLogger's Info puts stars for the password of a Message and passes
\* everything else on; the other levels are the embedded Writer's.
Mask(r) == IF r.level = "Message" THEN [r EXCEPT !.password = FALSE] ELSE r
\* KafkaWriter.Write pushes the trimmed line; an error comes back to logx, which
\* has nowhere to put the line.
Output(g) ==
  /\ program.writer # "multi" /\ MayLog(g)
  /\ \/ file' = Append(file, IF program.writer = "sensitive" THEN Mask(NextRecord(g)) ELSE NextRecord(g))
     \/ program.writer = "kafka" /\ UNCHANGED file
  /\ logged' = [logged EXCEPT ![g] = @ + 1]
  /\ UNCHANGED <<program, inHand, buffer, console>>

LoggingNext == \E g \in Loggers : ToConsole(g) \/ ToFile(g) \/ Output(g)

-----------------------------------------------------------------------------
\* The records that g logged, in their order.
By(g, records) ==
  LET upTo[n \in 0..Len(records)] ==
        IF n = 0 THEN <<>>
        ELSE IF records[n].by = g THEN Append(upTo[n - 1], records[n]) ELSE upTo[n - 1]
  IN  upTo[Len(records)]

\* The writers of file and console are told the same story: what one goroutine
\* logged is given to both, in the order it was logged, except for the record it
\* has in hand; only records of different goroutines may change places, and only
\* the console's last buffer is not out yet.  (Each file of the file writer has
\* the records of its level, hence in this order too, if it can be written.)
SameStory ==
  /\ program.writer = "multi" =>
       \A g \in Loggers : By(g, file) \o inHand[g] = By(g, console \o buffer)
  /\ Len(buffer) <= BufSize + 1
=============================================================================
