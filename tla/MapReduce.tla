------------------------------ MODULE MapReduce ------------------------------
(***************************************************************************)
(* The programs under mapreduce/ on the goroutines and channels of         *)
(* go-zero's mr: a generator feeds an unbuffered source channel, an        *)
(* executor starts one mapper goroutine per item on a bounded pool, the    *)
(* mappers write to a collector channel, one reducer goroutine reads it,   *)
(* and the caller waits for an output, an error or a panic.                *)
(*                                                                         *)
(* A program is a record: its name, the function of mr it calls, what its  *)
(* reducer does, the items its generator sends, and for countfunc the      *)
(* flags -mode and -m and whether the directory exists.                    *)
(* Sleeps are left out: every order of the goroutines is explored.         *)
(***************************************************************************)
EXTENDS Naturals, Sequences, FiniteSets

CONSTANTS
  MrPrograms,   \* the programs main may run, records as above
  MrWorkers,    \* mr's number of workers, also the collector's buffer
  Every         \* countfunc's -mode hits every 10th file; bound: 2 here

ASSUME MrAssumption == MrWorkers \in Nat \ {0} /\ Every \in Nat \ {0}

VARIABLES
  prog,      \* the program under way, Idle before main has started it
  sent,      \* number of items that have left the generator
  gen,       \* generator: "run", or "panic" while its panic is not taken
  exec,      \* executeMappers: "dispatch", "wait" for the pool, "closed"
  mapper,    \* state of each item's mapper goroutine
  coll,      \* the collector channel
  red,       \* the reducer goroutine
  acc,       \* the values the reducer holds
  done,      \* done and output are closed (finish)
  retErr,    \* cancel has stored an error
  count,     \* countfunc's atomic counter
  panicked,  \* "no", "pending" in panicChan or "taken" by the caller
  ret        \* what the caller got

mrVars == <<prog, sent, gen, exec, mapper, coll, red, acc, done, retErr,
            count, panicked, ret>>

Program(name, call, reducer, items) ==
  [name |-> name, call |-> call, reducer |-> reducer, items |-> items,
   mode |-> "", max |-> 0, dir |-> TRUE]
Idle == Program("idle", "", "", <<>>)
Items == 1..Len(prog.items)

MrInit ==
  /\ prog = Idle /\ sent = 0 /\ gen = "run" /\ exec = "dispatch"
  /\ mapper = <<>> /\ coll = <<>> /\ red = "range" /\ acc = <<>>
  /\ done = FALSE /\ retErr = FALSE /\ count = 0 /\ panicked = "no"
  /\ ret = [kind |-> "none", val |-> <<>>]

\* The sum of a sequence of numbers, the last of the sums of its beginnings.
Sums(s) == LET upTo[n \in 0..Len(s)] == IF n = 0 THEN 0 ELSE upTo[n - 1] + s[n] IN upTo
SumOf(s) == Sums(s)[Len(s)]

-----------------------------------------------------------------------------
(* countfunc: what a file contributes.  A file is a sequence of line kinds  *)
(* ("func", "#", "code"), a flag saying whether the last line ends in a     *)
(* newline, and how reading it ends: with "EOF", with another "error" (a    *)
(* directory called x.go behind a link, a bad disk), or "unopened".         *)

\* Whether enumerateLines closes its channel.  Its goroutine returns without
\* doing so when the file cannot be opened, and on an error other than io.EOF
\* it neither breaks nor returns: it goes round for ever and sends the empty
\* line each time.
LinesEnd(file) == file.reading = "EOF"

\* The numbers of the lines that enumerateLines sends: it drops those that
\* start with "#" and, because ReadString returns io.EOF with it, a last line
\* without newline.
EnumerateLines(file) ==
  {l \in 1..Len(file.lines) : file.lines[l] # "#" /\ (file.eol \/ l < Len(file.lines))}

\* The number of lines that begin with func.
CountFuncs(file) == Cardinality({l \in EnumerateLines(file) : file.lines[l] = "func"})

(* What an item's mapper does: "write" val, "skip" the write, "cancel",    *)
(* "cancelwrite", "panic" or "hang".  n is the counter after AddUint32.    *)

\* Defect: the mapper announces the stop file and goes on to wait for a
\* channel that nobody closes.
CountMapperWaits(file, n) == IF file.stop \/ ~LinesEnd(file) THEN "hang" ELSE "write"
\* countfunc: the stop file cancels; the range over lines that do not end is
\* never left; -mode makes every 10th file return or panic before the write.
CountMapper(file, n) ==
  IF file.stop THEN "cancel"
  ELSE IF ~LinesEnd(file) THEN "hang"
  ELSE IF prog.mode # "" /\ n % Every = 0
       THEN IF prog.mode = "return" THEN "skip" ELSE "panic"
  ELSE "write"

\* checkLegal: an error cancels, and the mapper goes on to the test of ok.
\* check itself is a placeholder; any result its signature allows is tried.
LegalMapper(item) ==
  CASE item.err /\ item.ok -> "cancelwrite"
    [] item.err /\ ~item.ok -> "cancel"
    [] ~item.err /\ item.ok -> "write"
    [] OTHER -> "skip"

\* goroutineleak: one item (40 in the code) cancels, the others write.
LeakMapper(item) == IF item.hit THEN "cancel" ELSE "write"

\* productDetail through mr.Finish: a call that fails cancels the others.
FinishMapper(item) == IF item.err THEN "cancel" ELSE "skip"

\* deadlock and irregular write every item.
UserMapper(item) == "write"
IrregularMapper(item) == "write"

\* finishvoid: five functions, the last a nested Finish that returns nil.
VoidMapper(item) == "skip"

\* flatmap appends the person's friends to allFriends under a lock.
FriendMapper(item) == "append"

Outcome(i, n) ==
  LET item == prog.items[i] IN
  CASE prog.name = "countfunc"  -> CountMapper(item, n)
    [] prog.name = "checklegal" -> LegalMapper(item)
    [] prog.name = "leak"       -> LeakMapper(item)
    [] prog.name = "finish"     -> FinishMapper(item)
    [] prog.name = "deadlock"   -> UserMapper(item)
    [] prog.name = "irregular"  -> IrregularMapper(item)
    [] prog.name = "finishvoid" -> VoidMapper(item)
    [] prog.name = "flatmap"    -> FriendMapper(item)

\* The value a mapper writes.
ValueOf(i) ==
  IF prog.name = "countfunc" THEN CountFuncs(prog.items[i])
  ELSE i

-----------------------------------------------------------------------------
(* The programs.                                                            *)

\* The files below -d; without the directory Walk's callback gets a nil f.
CountfuncMain(files, mode, max, dir) ==
  [Program("countfunc", "MapReduce", "sum", files) EXCEPT
     !.mode = mode, !.max = max, !.dir = dir]
CheckLegal(uids) == Program("checklegal", "MapReduce", "collect", uids)
LeakMain(numbers) == Program("leak", "MapReduce", "collect", numbers)
ProductDetail(calls) == Program("finish", "Finish", "none", calls)
\* The missing writer.Write is the point of this example.
DeadlockMain(uids) == Program("deadlock", "MapReduce", "none", uids)
IrregularMain(numbers) == Program("irregular", "MapReduceVoid", "print", numbers)
FinishVoidMain(fns) == Program("finishvoid", "FinishVoid", "none", fns)
FlatmapMain(persons) == Program("flatmap", "ForEach", "none", persons)

\* Which records are programs.  Without a directory there are no files.
IsProgram(p) ==
  \/ /\ p = CountfuncMain(p.items, p.mode, p.max, p.dir)
     /\ p.items \in Seq([reading : {"EOF", "error", "unopened"}, stop : BOOLEAN,
                        eol : BOOLEAN, lines : Seq({"func", "#", "code"})])
     /\ p.mode \in {"", "return", "panic"} /\ p.max \in Nat
     /\ p.dir \in BOOLEAN /\ (~p.dir => p.items = <<>>)
  \/ p = CheckLegal(p.items) /\ p.items \in Seq([err : BOOLEAN, ok : BOOLEAN])
  \/ p = LeakMain(p.items) /\ p.items \in Seq([hit : BOOLEAN])
  \/ p = ProductDetail(p.items) /\ p.items \in Seq([err : BOOLEAN])
  \/ /\ p \in {DeadlockMain(p.items), IrregularMain(p.items), FinishVoidMain(p.items)}
     /\ p.items \in Seq([uid : Nat])
  \/ p = FlatmapMain(p.items) /\ p.items \in Seq([friends : Seq(Nat)])
ASSUME ProgramsAssumption == \A p \in MrPrograms : IsProgram(p)

\* ForEach and FinishVoid have no reducer and a caller that waits for the
\* collector to be closed.
ForEach == prog.call \in {"ForEach", "FinishVoid"}
\* MapReduceVoid and Finish: a reducer that writes no result is not an error.
Void == prog.call \in {"MapReduceVoid", "Finish"}

\* main starts; a reducer that reads nothing returns at once.
MrMain ==
  /\ prog = Idle
  /\ \E p \in MrPrograms :
       /\ prog' = p
       /\ mapper' = [i \in 1..Len(p.items) |-> "none"]
       /\ gen' = IF p.dir THEN "run" ELSE "panic"
       /\ red' = CASE p.reducer # "none" -> "range"
                   [] p.call \in {"ForEach", "FinishVoid"} -> "done"
                   [] OTHER -> "drain"
       /\ panicked' = IF p.dir THEN "no" ELSE "pending"
  /\ UNCHANGED <<sent, exec, coll, acc, done, retErr, count, ret>>

Started == prog # Idle
SourceClosed == Started /\ gen = "run" /\ sent = Len(prog.items)
Busy == {i \in Items : mapper[i] \notin {"none", "done"}}

(* mr.executeMappers: a pool slot, then an item.  The loop looks at done    *)
(* and failed only between items, so one more may still be dispatched.      *)
Dispatch ==
  /\ Started /\ exec = "dispatch" /\ gen = "run" /\ sent < Len(prog.items)
  /\ Cardinality(Busy) < MrWorkers
  /\ sent' = sent + 1
  /\ mapper' = [mapper EXCEPT ![sent + 1] = "map"]
  /\ UNCHANGED <<prog, gen, exec, coll, red, acc, done, retErr, count,
                 panicked, ret>>

ExecStop ==
  /\ Started /\ exec = "dispatch"
  /\ done \/ SourceClosed \/ (panicked # "no" /\ gen = "run")
  /\ exec' = "wait"
  /\ UNCHANGED <<prog, sent, gen, mapper, coll, red, acc, done, retErr,
                 count, panicked, ret>>

ExecClose ==
  /\ exec = "wait" /\ Busy = {}
  /\ exec' = "closed"
  /\ UNCHANGED <<prog, sent, gen, mapper, coll, red, acc, done, retErr,
                 count, panicked, ret>>

\* drain(source), at the end of executeMappers.
ExecDrain ==
  /\ exec = "closed" /\ gen = "run" /\ sent < Len(prog.items)
  /\ sent' = sent + 1
  /\ UNCHANGED <<prog, gen, exec, mapper, coll, red, acc, done, retErr,
                 count, panicked, ret>>

(* A mapper's body, up to its call of writer or cancel.                     *)
MapItem(i) ==
  /\ mapper[i] = "map"
  /\ LET counts == /\ prog.name = "countfunc" /\ prog.mode # ""
                   /\ ~prog.items[i].stop /\ LinesEnd(prog.items[i])
         out == Outcome(i, count + 1)
     IN  /\ count' = IF counts THEN count + 1 ELSE count
         /\ mapper' = [mapper EXCEPT ![i] =
              CASE out = "write" -> IF done THEN "done" ELSE "write"
                [] out \in {"skip", "append"} -> "done"
                [] out = "panic" -> IF panicked = "no" THEN "panic" ELSE "done"
                [] OTHER -> out]
         /\ panicked' = IF out = "panic" /\ panicked = "no" THEN "pending"
                        ELSE panicked
         /\ retErr' = (retErr \/ out \in {"cancel", "cancelwrite"})
         /\ acc' = IF out = "append" THEN acc \o prog.items[i].friends ELSE acc
  /\ UNCHANGED <<prog, sent, gen, exec, coll, red, done, ret>>

\* guardedWriter: done was not closed, the send waits for room.
WriteItem(i) ==
  /\ mapper[i] = "write" /\ Len(coll) < MrWorkers
  /\ coll' = Append(coll, ValueOf(i))
  /\ mapper' = [mapper EXCEPT ![i] = "done"]
  /\ UNCHANGED <<prog, sent, gen, exec, red, acc, done, retErr, count,
                 panicked, ret>>

\* cancel: drain(source), then finish; checkLegal's mapper writes after it.
CancelDrain(i) ==
  /\ mapper[i] \in {"cancel", "cancelwrite"} /\ gen = "run"
  /\ sent < Len(prog.items)
  /\ sent' = sent + 1
  /\ UNCHANGED <<prog, gen, exec, mapper, coll, red, acc, done, retErr,
                 count, panicked, ret>>

CancelFinish(i) ==
  /\ mapper[i] \in {"cancel", "cancelwrite"} /\ SourceClosed
  /\ done' = TRUE
  /\ mapper' = [mapper EXCEPT ![i] = "done"]    \* a write now sees done
  /\ UNCHANGED <<prog, sent, gen, exec, coll, red, acc, retErr, count,
                 panicked, ret>>

(* The reducers.  countfunc adds the counts and stops at -m, the others     *)
(* collect what they read; both write at the end of the collector.          *)
ReduceItem ==
  /\ Started /\ red = "range" /\ coll # <<>>
  /\ coll' = Tail(coll)
  /\ IF prog.max > 0 /\ SumOf(acc) >= prog.max
     THEN red' = "cancel" /\ retErr' = TRUE /\ UNCHANGED acc
     ELSE acc' = Append(acc, Head(coll)) /\ UNCHANGED <<red, retErr>>
  /\ UNCHANGED <<prog, sent, gen, exec, mapper, done, count, panicked, ret>>

\* Defect: the reducer stops when the collector is empty for a moment.
ReduceEndEarly ==
  /\ Started /\ red = "range" /\ coll = <<>>
  /\ red' = IF prog.reducer = "print" \/ done THEN "drain" ELSE "send"
  /\ UNCHANGED <<prog, sent, gen, exec, mapper, coll, acc, done, retErr,
                 count, panicked, ret>>

ReduceEnd ==
  /\ Started /\ red = "range" /\ coll = <<>> /\ exec = "closed"
  /\ red' = IF prog.reducer = "print" \/ done THEN "drain" ELSE "send"
  /\ UNCHANGED <<prog, sent, gen, exec, mapper, coll, acc, done, retErr,
                 count, panicked, ret>>

\* mr: the caller takes the reducer's output.
ReduceWrite ==
  /\ red = "send" /\ ~done /\ ret.kind = "none" /\ panicked # "taken"
  /\ red' = "drain"
  /\ ret' = IF retErr THEN [kind |-> "error", val |-> <<>>]
            ELSE [kind |-> "value", val |-> acc]
  /\ UNCHANGED <<prog, sent, gen, exec, mapper, coll, acc, done, retErr,
                 count, panicked>>

\* The caller is about to panic and drains the output.
ReduceWriteDrained ==
  /\ red = "send" /\ ~done /\ panicked = "taken"
  /\ red' = "drain"
  /\ UNCHANGED <<prog, sent, gen, exec, mapper, coll, acc, done, retErr,
                 count, panicked, ret>>

ReducerCancel ==
  /\ red = "cancel" /\ gen = "run"
  /\ IF sent < Len(prog.items)
     THEN sent' = sent + 1 /\ UNCHANGED <<done, red>>
     ELSE done' = TRUE /\ red' = "drain" /\ UNCHANGED sent
  /\ UNCHANGED <<prog, gen, exec, mapper, coll, acc, retErr, count,
                 panicked, ret>>

\* mr: after the reducer, drain(collector) and finish.
ReducerDrain ==
  /\ red = "drain"
  /\ \/ coll # <<>> /\ coll' = Tail(coll) /\ UNCHANGED <<red, done>>
     \/ /\ coll = <<>> /\ exec = "closed"
        /\ red' = "done" /\ done' = TRUE /\ UNCHANGED coll
  /\ UNCHANGED <<prog, sent, gen, exec, mapper, acc, retErr, count,
                 panicked, ret>>

(* The caller.                                                              *)
\* Output closed without a value, or the collector closed for ForEach.
CallerReturns ==
  /\ Started /\ ret.kind = "none" /\ panicked # "taken"
  /\ IF ForEach THEN exec = "closed" ELSE done
  /\ ret' = [kind |-> IF retErr THEN "error"
                      ELSE IF ForEach \/ Void THEN "nil" ELSE "nooutput",
             val |-> IF ForEach THEN acc ELSE <<>>]
  /\ UNCHANGED <<prog, sent, gen, exec, mapper, coll, red, acc, done,
                 retErr, count, panicked>>

\* The panic is received from panicChan, which frees the one that sent it.
CallerTakesPanic ==
  /\ panicked = "pending" /\ ret.kind = "none"
  /\ panicked' = "taken"
  /\ gen' = "run"
  /\ mapper' = [i \in Items |-> IF mapper[i] = "panic" THEN "done" ELSE mapper[i]]
  /\ UNCHANGED <<prog, sent, exec, coll, red, acc, done, retErr, count, ret>>

\* drain(output), then panic again in the caller.
CallerPanics ==
  /\ panicked = "taken" /\ ret.kind = "none" /\ done
  /\ ret' = [kind |-> "panic", val |-> <<>>]
  /\ UNCHANGED <<prog, sent, gen, exec, mapper, coll, red, acc, done,
                 retErr, count, panicked>>

MapperNext(i) ==
  MapItem(i) \/ WriteItem(i) \/ CancelDrain(i) \/ CancelFinish(i)
ExecNext == Dispatch \/ ExecStop \/ ExecClose \/ ExecDrain
ReducerNext ==
  ReduceItem \/ ReduceEnd \/ ReduceWrite \/ ReduceWriteDrained
    \/ ReducerCancel \/ ReducerDrain
CallerNext == CallerReturns \/ CallerTakesPanic \/ CallerPanics

MrNext ==
  \/ MrMain
  \/ ExecNext
  \/ ReducerNext
  \/ CallerNext
  \/ \E i \in Items : MapperNext(i)

\* Every goroutine keeps being scheduled; the operator need not start main.
MrFairness ==
  /\ WF_mrVars(ExecNext) /\ WF_mrVars(ReducerNext) /\ WF_mrVars(CallerNext)
  /\ \A i \in UNION {1..Len(p.items) : p \in MrPrograms} :
       WF_mrVars(i \in Items /\ MapperNext(i))

-----------------------------------------------------------------------------
\* The elements of a sequence with their multiplicities.
Occurrences(s) == [x \in {s[i] : i \in DOMAIN s} |->
                     Cardinality({i \in DOMAIN s : s[i] = x})]
\* The items that are to contribute: in -mode return every Every-th does not.
Writers == {i \in Items : Outcome(i, 1) \in {"write", "cancelwrite"}}

\* The items that make the call fail, by the data alone.
Fails(item) ==
  CASE prog.name = "countfunc" -> item.stop
    [] prog.name \in {"checklegal", "finish"} -> item.err
    [] prog.name = "leak" -> item.hit
    [] OTHER -> FALSE

\* A result is complete.  A call returns a value or nil only if no item had to
\* fail it (the stop file, a user or RPC with an error), nothing panicked and
\* every mapper has ended, even when several fail at the same time.  Then
\* nothing that a mapper wrote is missing from it and nothing is in it twice,
\* although values wait in the collector while mappers finish, the executor
\* stops and the channel is closed: countfunc returns the number of functions
\* in all the files (with -mode return, of all but every 10th), checkLegal and
\* goroutineleak the accepted items, flatmap all friends.
CompleteResult ==
  /\ ret.kind \in {"value", "nil", "nooutput"} =>
       /\ panicked = "no" /\ prog.dir
       /\ \A i \in Items : ~Fails(prog.items[i]) /\ mapper[i] = "done"
  /\ ret.kind = "value" /\ prog.name # "countfunc" =>
       Occurrences(ret.val) = [i \in Writers |-> 1]
  /\ ret.kind = "value" /\ prog.name = "countfunc" /\ prog.mode # "return" =>
       SumOf(ret.val) = SumOf([i \in Items |-> CountFuncs(prog.items[i])])
  /\ ret.kind = "value" /\ prog.mode = "return" =>
       Len(ret.val) = Len(prog.items) - (Len(prog.items) \div Every)
  /\ ret.kind = "nil" /\ prog.name = "flatmap" =>
       Len(ret.val) = SumOf([i \in Items |-> Len(prog.items[i].friends)])

\* The call comes back, with a value, an error or a panic: the mappers that
\* cancel, the full collector and the reducers that read nothing (deadlock) or
\* stop reading (countfunc -m) block nobody.  It leaves no goroutine behind,
\* which is what goroutineleak watches, unless a mapper panics (one that does so
\* after the call has failed waits for ever to hand its panic over).  The one
\* exception to all this is a mapper of countfunc that has begun to read a file
\* that cannot be opened or read to its end: enumerateLines then does not close
\* its channel, and the mapper stays in its loop for ever.
CallReturns ==
  Started ~> \/ /\ ret.kind # "none"
                /\ prog.mode # "panic" => exec = "closed" /\ red = "done" /\ Busy = {}
             \/ \E i \in Items : mapper[i] = "hang" /\ ~LinesEnd(prog.items[i])
=============================================================================
