------------------------------ MODULE FxStream ------------------------------
(***************************************************************************)
(* Two programs on go-zero's fx streams.  filex/pread.go loads a           *)
(* dictionary in parallel: one goroutine per chunk of the file parses      *)
(* lines and sends pairs to a single goroutine that fills the map.         *)
(* fx/square.go squares, filters, removes duplicates and adds.             *)
(*                                                                         *)
(* A line is a record: its word, and whether it parses ("good", with as    *)
(* many numbers as the header says), holds a bad number ("bad") or more    *)
(* numbers than the header says ("long": the vector is indexed out of      *)
(* range, and fx recovers the panic).  SplitLineChunks, external, cuts the *)
(* file at line ends.                                                      *)
(***************************************************************************)
EXTENDS Naturals, Sequences, FiniteSets, FiniteSetsExt

CONSTANTS
  Dictionaries,   \* the files: [header |-> "ok" or an error, lines |-> Seq]
  Splits,         \* the chunk boundaries tried: sets of line numbers
  Numbers,        \* square.go's source, 0..9
  Pipe            \* capacity of a stage's channel

ASSUME FxAssumption ==
  /\ Pipe \in Nat \ {0} /\ Numbers \in SUBSET Nat
  /\ Splits \subseteq SUBSET (Nat \ {0})
  /\ \A f \in Dictionaries : f.lines \in Seq([word : STRING, kind : {"good", "bad", "long"}])

VARIABLES
  dic,      \* the file being loaded, or NoFile
  at,       \* per chunk, the next line to read and where the chunk ends
  pairs,    \* pairs in the channel
  dict,     \* wordVecDic.Dict
  loaded,   \* what FastLoad returned: "none", "nil" or "error"; "panic"
  stage,    \* square.go: the stage each number has reached
  keys,     \* the keys Distinct has seen
  total     \* Reduce's result so far

fxVars == <<dic, at, pairs, dict, loaded, stage, keys, total>>
preadVars == <<dic, at, pairs, dict, loaded>>
squareVars == <<stage, keys, total>>

NoFile == [header |-> "none", lines |-> <<>>]

FxInit ==
  /\ dic = NoFile /\ at = <<>> /\ pairs = <<>> /\ dict = <<>> /\ loaded = "none"
  /\ stage = [n \in Numbers |-> "source"] /\ keys = {} /\ total = 0

(* FastLoad: name, open, header, counts and chunks are checked in turn, and *)
(* each failure returns before anything is read; a header of one field is   *)
(* indexed out of range and ends the process.                               *)
LoadFails ==
  /\ dic = NoFile
  /\ \E f \in Dictionaries :
       /\ f.header # "ok" /\ dic' = f
       /\ loaded' = IF f.header = "one field" THEN "panic" ELSE "error"
  /\ UNCHANGED <<at, pairs, dict, squareVars>>

\* The first line of every chunk; the header is skipped where Start is 0.
Chunks(f, cuts) ==
  LET starts == {1} \cup {c \in cuts : c <= Len(f.lines)}
  IN  [s \in starts |->
        [pos |-> s,
         stop |-> IF \E t \in starts : t > s
                  THEN Min({t \in starts : t > s}) - 1 ELSE Len(f.lines),
         skip |-> s = 1]]

LoadStarts ==
  /\ dic = NoFile
  /\ \E f \in Dictionaries, cuts \in Splits :
       /\ f.header = "ok" /\ dic' = f /\ at' = Chunks(f, cuts)
  /\ UNCHANGED <<pairs, dict, loaded, squareVars>>

Ended(c) == at[c].pos > at[c].stop

\* The header line of the first chunk.
SkipHeader(c) ==
  /\ at[c].skip
  /\ at' = [at EXCEPT ![c].skip = FALSE, ![c].pos = @ + 1]
  /\ UNCHANGED <<dic, pairs, dict, loaded, squareVars>>

\* Defect: a number that does not parse ends the load of its chunk only after
\* the pair has been sent.
ScanLineSendsBad(c) ==
  /\ ~at[c].skip /\ ~Ended(c) /\ Len(pairs) < Pipe
  /\ pairs' = Append(pairs, dic.lines[at[c].pos].word)
  /\ at' = [at EXCEPT ![c].pos = @ + 1]
  /\ UNCHANGED <<dic, dict, loaded, squareVars>>

\* Walk: a good line is sent on, any other ends the goroutine of its chunk.
ScanLine(c) ==
  /\ ~at[c].skip /\ ~Ended(c)
  /\ IF dic.lines[at[c].pos].kind = "good"
     THEN /\ Len(pairs) < Pipe
          /\ pairs' = Append(pairs, dic.lines[at[c].pos].word)
          /\ at' = [at EXCEPT ![c].pos = @ + 1]
     ELSE at' = [at EXCEPT ![c].pos = at[c].stop + 1] /\ UNCHANGED pairs
  /\ UNCHANGED <<dic, dict, loaded, squareVars>>

\* ForEach: the one goroutine that writes the map.
StorePair ==
  /\ pairs # <<>>
  /\ dict' = Append(dict, Head(pairs)) /\ pairs' = Tail(pairs)
  /\ UNCHANGED <<dic, at, loaded, squareVars>>

LoadReturns ==
  /\ dic.header = "ok" /\ loaded = "none"
  /\ \A c \in DOMAIN at : Ended(c)
  /\ pairs = <<>>
  /\ loaded' = "nil"
  /\ UNCHANGED <<dic, at, pairs, dict, squareVars>>

(* fx/square.go: every stage runs on its own goroutines; Map and Filter     *)
(* handle numbers in any order, Distinct and Reduce one at a time.          *)
Square(n) == n * n

MapSquare(n) ==
  /\ stage[n] = "source" /\ stage' = [stage EXCEPT ![n] = "mapped"]
  /\ UNCHANGED <<keys, total, preadVars>>

FilterEven(n) ==
  /\ stage[n] = "mapped"
  /\ stage' = [stage EXCEPT ![n] = IF Square(n) % 2 = 0 THEN "even" ELSE "gone"]
  /\ UNCHANGED <<keys, total, preadVars>>

Distinct(n) ==
  /\ stage[n] = "even"
  /\ stage' = [stage EXCEPT ![n] = IF Square(n) \in keys THEN "gone" ELSE "unique"]
  /\ keys' = keys \cup {Square(n)}
  /\ UNCHANGED <<total, preadVars>>

ReduceSum(n) ==
  /\ stage[n] = "unique" /\ stage' = [stage EXCEPT ![n] = "gone"]
  /\ total' = total + Square(n)
  /\ UNCHANGED <<keys, preadVars>>

LoadNext ==
  \/ LoadFails \/ LoadStarts \/ StorePair \/ LoadReturns
  \/ \E c \in DOMAIN at : SkipHeader(c) \/ ScanLine(c)
SquareNext ==
  \E n \in Numbers : MapSquare(n) \/ FilterEven(n) \/ Distinct(n) \/ ReduceSum(n)

-----------------------------------------------------------------------------
\* The lines of the file that lie in chunk c and are complete words.
Readable(c) ==
  {l \in 2..Len(dic.lines) :
     /\ c = Max({d \in DOMAIN at : d <= l})
     /\ \A k \in 2..l : k >= c => dic.lines[k].kind = "good"}

\* FastLoad loads, however the file is cut and the goroutines interleave,
\* every line but the header exactly once up to the first line of its chunk
\* that does not parse, and nothing else.
LoadsEveryLineOnce ==
  loaded = "nil" =>
    \A w \in {dic.lines[l].word : l \in 2..Len(dic.lines)} :
      Cardinality({i \in DOMAIN dict : dict[i] = w}) =
      Cardinality({l \in UNION {Readable(c) : c \in DOMAIN at} : dic.lines[l].word = w})
=============================================================================
