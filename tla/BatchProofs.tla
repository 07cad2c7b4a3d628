---------------------------- MODULE BatchProofs ----------------------------
(***************************************************************************)
(* Proofs about the command-line programs of MCBatch: the mapreduce        *)
(* programs, the load of the dictionary, the pool, the shared calls, the   *)
(* periodical executor and the timing wheel.  Every program has an         *)
(* inductive invariant of its own; BatchInv puts them together, because a  *)
(* behaviour is one of any of the programs.                                *)
(***************************************************************************)
EXTENDS MCBatch, FiniteSetTheorems, SequenceTheorems, Recursion, TLAPS

-----------------------------------------------------------------------------
(* Sequences *)

\* A function on 1..n is a sequence of length n.
LEMMA IsSequence ==
    ASSUME NEW S, NEW n \in Nat, NEW f \in [1..n -> S]
    PROVE  f \in Seq(S) /\ Len(f) = n
<1>1. f \in Seq(S)
  OBVIOUS
<1> QED  BY <1>1

\* A value goes from the head of one sequence to the end of another.
LEMMA HeadMovesOn ==
    ASSUME NEW S, NEW a \in Seq(S), NEW c \in Seq(S), c # <<>>
    PROVE  /\ Append(a, Head(c)) \o Tail(c) = a \o c
           /\ Append(a, Head(c)) \in Seq(S) /\ Tail(c) \in Seq(S)
<1> DEFINE s == Append(a, Head(c)) \o Tail(c)  t == a \o c
<1>1. Head(c) \in S /\ Tail(c) \in Seq(S) /\ Append(a, Head(c)) \in Seq(S)
  OBVIOUS
<1>2. s \in Seq(S) /\ t \in Seq(S) /\ Len(s) = Len(t)
  BY <1>1
<1>3. \A n \in 1..Len(s) : s[n] = t[n]
  BY <1>1
<1> HIDE DEF s, t
<1>4. s = t
  BY <1>2, <1>3, SeqEqual
<1> QED  BY <1>1, <1>4 DEF s, t

\* One value more at the end of the second of two sequences.
LEMMA AppendAfter ==
    ASSUME NEW S, NEW a \in Seq(S), NEW c \in Seq(S), NEW v \in S
    PROVE  a \o Append(c, v) = Append(a \o c, v)
<1> DEFINE s == a \o Append(c, v)  t == Append(a \o c, v)
<1>1. s \in Seq(S) /\ t \in Seq(S) /\ Len(s) = Len(t)
  OBVIOUS
<1>2. \A n \in 1..Len(s) : s[n] = t[n]
  OBVIOUS
<1> HIDE DEF s, t
<1>3. s = t
  BY <1>1, <1>2, SeqEqual
<1> QED  BY <1>3 DEF s, t

\* The same for numbers.
LEMMA HeadMoves ==
    ASSUME NEW a \in Seq(Nat), NEW c \in Seq(Nat), c # <<>>
    PROVE  /\ Append(a, Head(c)) \o Tail(c) = a \o c
           /\ Append(a, Head(c)) \in Seq(Nat) /\ Tail(c) \in Seq(Nat)
BY HeadMovesOn

\* One number more at the end.
LEMMA AppendMoves ==
    ASSUME NEW a \in Seq(Nat), NEW c \in Seq(Nat), NEW v \in Nat
    PROVE  a \o Append(c, v) = Append(a \o c, v)
BY AppendAfter

-----------------------------------------------------------------------------
(* Sums *)

\* f[n] is the sum of the first n numbers of s.
IsSums(f, s) ==
    /\ f \in [0..Len(s) -> Nat] /\ f[0] = 0
    /\ \A n \in 1..Len(s) : f[n] = f[n - 1] + s[n]

\* Sums(s) has a value for every beginning of s.
LEMMA SumsDef ==
    ASSUME NEW s \in Seq(Nat)
    PROVE  IsSums(Sums(s), s)
<1> DEFINE N == Len(s)
           Body(f, n) == IF n = 0 THEN 0 ELSE f[n - 1] + s[n]
           Fits(f) == f = [n \in 0..N |-> Body(f, n)]
           step == [n \in 1..N |-> [v \in Nat |-> v + s[n]]]
<1>0. N \in Nat /\ 0 \in Nat /\ \A n \in 1..N : s[n] \in Nat
  OBVIOUS
<1>1. IsStep(step, N, Nat)
  BY DEF IsStep
<1>2. PICK f : Takes(f, step, N, Nat, 0)
  <2> HIDE DEF step, N
  <2> QED  BY <1>0, <1>1, RecursionUpTo
<1>3. \A n \in 0..N : f[n] = Body(f, n)
  <2>1. ASSUME NEW n \in 1..N PROVE f[n] = Body(f, n)
    <3>1. n - 1 \in 0..N /\ n # 0
      BY <1>0
    <3>2. f[n - 1] \in Nat /\ f[n] = step[n][f[n - 1]]
      <4> HIDE DEF step, N
      <4> QED  BY <1>2, <3>1 DEF Takes
    <3>3. step[n] = [v \in Nat |-> v + s[n]]
      OBVIOUS
    <3>4. step[n][f[n - 1]] = f[n - 1] + s[n]
      <4> HIDE DEF step
      <4> QED  BY <3>2, <3>3
    <3> HIDE DEF step
    <3> QED  BY <3>1, <3>2, <3>4
  <2>2. f[0] = Body(f, 0)
    BY <1>2 DEF Takes
  <2>3. \A n \in 0..N : n = 0 \/ n \in 1..N
    BY <1>0
  <2> HIDE DEF Body, N
  <2> QED  BY <2>1, <2>2, <2>3
<1>4. Fits(f)
  <2>1. f = [n \in 0..N |-> f[n]]
    BY <1>2 DEF Takes
  <2> HIDE DEF Body, N
  <2> QED  BY <1>3, <2>1
<1> DEFINE h == CHOOSE x : Fits(x)
<1>5. Sums(s) = h
  BY DEF Sums
<1>6. Fits(h)
  <2> HIDE DEF Fits
  <2> QED  BY <1>4
<1> HIDE DEF h
<1>7. h = [n \in 0..N |-> h[n]] /\ \A n \in 0..N : h[n] = Body(h, n)
  <2> HIDE DEF Body, N
  <2> QED  BY <1>6
<1>8. h[0] = 0 /\ \A n \in 1..N : h[n] = h[n - 1] + s[n]
  <2>1. h[0] = Body(h, 0) /\ \A n \in 1..N : n # 0 /\ h[n] = Body(h, n)
    <3> HIDE DEF Body
    <3> QED  BY <1>0, <1>7
  <2> QED  BY <2>1
<1>9. \A n \in 0..N : h[n] \in Nat
  <2> DEFINE P == {n \in 0..N : h[n] \in Nat}
  <2>1. 0 \in P
    BY <1>0, <1>8
  <2>2. \A n \in 1..N : n - 1 \in P => n \in P
    <3> HIDE DEF N
    <3> QED  BY <1>0, <1>8
  <2> HIDE DEF P, N
  <2>3. \A n \in 0..N : n \in P
    BY <1>0, <2>1, <2>2, InductionUpTo
  <2> QED  BY <2>3 DEF P
<1>10. h \in [0..N -> Nat]
  <2> HIDE DEF N, Body
  <2> QED  BY <1>7, <1>9
<1> QED  BY <1>5, <1>8, <1>10 DEF IsSums

\* A sum is a number.
LEMMA SumIsNat ==
    ASSUME NEW s \in Seq(Nat)
    PROVE  SumOf(s) \in Nat
BY SumsDef DEF SumOf, IsSums

\* Nothing to add.
LEMMA SumOfNothing == SumOf(<<>>) = 0
<1>1. <<>> \in Seq(Nat) /\ Len(<<>>) = 0
  OBVIOUS
<1> QED  BY <1>1, SumsDef DEF SumOf, IsSums

\* One number that differs makes the difference of the sums.
LEMMA SumExcept ==
    ASSUME NEW s \in Seq(Nat), NEW t \in Seq(Nat), Len(s) = Len(t), NEW m \in 1..Len(s),
           \A n \in 1..Len(s) : n # m => s[n] = t[n]
    PROVE  SumOf(t) + s[m] = SumOf(s) + t[m]
<1> DEFINE N == Len(s)  f == Sums(s)  h == Sums(t)
           P == {n \in 0..N : IF n < m THEN f[n] = h[n] ELSE h[n] + s[m] = f[n] + t[m]}
<1>0. N \in Nat /\ m \in 1..N /\ \A n \in 1..N : s[n] \in Nat /\ t[n] \in Nat
  OBVIOUS
<1>1. IsSums(f, s) /\ IsSums(h, t) /\ SumOf(s) = f[N] /\ SumOf(t) = h[N]
  BY SumsDef DEF SumOf
<1>2. /\ f[0] = 0 /\ h[0] = 0 /\ \A n \in 0..N : f[n] \in Nat /\ h[n] \in Nat
      /\ \A n \in 1..N : f[n] = f[n - 1] + s[n] /\ h[n] = h[n - 1] + t[n]
  BY <1>1 DEF IsSums
<1> HIDE DEF f, h, N
<1>3. 0 \in P
  BY <1>0, <1>2
<1>4. ASSUME NEW n \in 1..N, n - 1 \in P PROVE n \in P
  <2>1. n - 1 \in 0..N /\ n \in 0..N /\ n \in Nat /\ m \in Nat
    BY <1>0
  <2>2. f[n] = f[n - 1] + s[n] /\ h[n] = h[n - 1] + t[n]
    BY <1>2
  <2>3. f[n - 1] \in Nat /\ h[n - 1] \in Nat /\ s[n] \in Nat /\ t[n] \in Nat
    BY <1>0, <1>2, <2>1
  <2>4. CASE n < m
    <3>1. f[n - 1] = h[n - 1] /\ s[n] = t[n]
      BY <1>4, <2>1, <2>4 DEF N
    <3> QED  BY <2>1, <2>2, <2>4, <3>1
  <2>5. CASE n = m
    <3>1. f[n - 1] = h[n - 1]
      BY <1>4, <2>1, <2>5
    <3>2. h[n] + s[m] = f[n] + t[m]
      BY <2>2, <2>3, <2>5, <3>1
    <3> QED  BY <2>1, <2>5, <3>2
  <2>6. CASE n > m
    <3>1. h[n - 1] + s[m] = f[n - 1] + t[m] /\ s[n] = t[n]
      BY <1>4, <2>1, <2>6 DEF N
    <3>2. h[n] + s[m] = f[n] + t[m]
      <4>1. s[m] \in Nat /\ t[m] \in Nat /\ t[n] = s[n]
        BY <1>0, <3>1, ElementOfSeq
      <4>2. f[n] = f[n - 1] + s[n] /\ h[n] = h[n - 1] + s[n]
        BY <2>2, <4>1
      <4> DEFINE a == h[n - 1]  b == s[m]  c == f[n - 1]  d == t[m]  e == s[n]
      <4>3. a \in Nat /\ b \in Nat /\ c \in Nat /\ d \in Nat /\ e \in Nat /\ a + b = c + d
        BY <2>3, <3>1, <4>1
      <4>4. h[n] = a + e /\ f[n] = c + e
        BY <4>2
      <4> HIDE DEF a, b, c, d, e
      <4>5. (a + e) + b = (c + e) + d
        BY <4>3
      <4> QED  BY <4>4, <4>5 DEF b, d
    <3> QED  BY <2>1, <2>6, <3>2
  <2> QED  BY <2>1, <2>4, <2>5, <2>6
<1> HIDE DEF P
<1>5. \A n \in 0..N : n \in P
  BY <1>0, <1>3, <1>4, InductionUpTo
<1>6. N \in P /\ ~(N < m)
  BY <1>0, <1>5
<1> QED  BY <1>1, <1>6 DEF P

\* One number more.
LEMMA SumAppend ==
    ASSUME NEW s \in Seq(Nat), NEW v \in Nat
    PROVE  SumOf(Append(s, v)) = SumOf(s) + v
<1> DEFINE t == Append(s, v)  N == Len(s)  f == Sums(s)  h == Sums(t)
           P == {n \in 0..N : f[n] = h[n]}
<1>0. /\ N \in Nat /\ t \in Seq(Nat) /\ Len(t) = N + 1 /\ t[N + 1] = v
      /\ \A n \in 1..N : t[n] = s[n]
  OBVIOUS
<1> HIDE DEF t
<1>1. IsSums(f, s) /\ IsSums(h, t) /\ SumOf(s) = f[N] /\ SumOf(t) = h[N + 1]
  BY <1>0, SumsDef DEF SumOf
<1>2. /\ f[0] = 0 /\ h[0] = 0
      /\ \A n \in 1..N : f[n] = f[n - 1] + s[n]
      /\ \A n \in 1..(N + 1) : h[n] = h[n - 1] + t[n]
  BY <1>0, <1>1 DEF IsSums
<1> HIDE DEF f, h, N
<1>3. 0 \in P /\ \A n \in 1..N : n - 1 \in P => n \in P
  BY <1>0, <1>2
<1> HIDE DEF P
<1>4. \A n \in 0..N : n \in P
  BY <1>0, <1>3, InductionUpTo
<1>5. f[N] = h[N]
  BY <1>0, <1>4 DEF P
<1>6. h[N + 1] = h[N] + v
  <2>1. N + 1 \in 1..(N + 1) /\ (N + 1) - 1 = N
    BY <1>0
  <2>2. h[N + 1] = h[(N + 1) - 1] + t[N + 1]
    BY <1>2, <2>1
  <2> QED  BY <1>0, <2>1, <2>2
<1> QED  BY <1>1, <1>5, <1>6 DEF t

\* The same number over and over, zero or one.
LEMMA SumConstant ==
    ASSUME NEW s \in Seq(Nat), NEW c \in {0, 1}, \A n \in 1..Len(s) : s[n] = c
    PROVE  SumOf(s) = IF c = 0 THEN 0 ELSE Len(s)
<1> DEFINE N == Len(s)  f == Sums(s)
           P == {n \in 0..N : f[n] = IF c = 0 THEN 0 ELSE n}
<1>0. N \in Nat
  OBVIOUS
<1>1. /\ f[0] = 0 /\ SumOf(s) = f[N]
      /\ \A n \in 1..N : f[n] = f[n - 1] + c
  BY SumsDef DEF SumOf, IsSums
<1> HIDE DEF f, N
<1>2. 0 \in P /\ \A n \in 1..N : n - 1 \in P => n \in P
  BY <1>0, <1>1
<1> HIDE DEF P
<1>3. \A n \in 0..N : n \in P
  BY <1>0, <1>2, InductionUpTo
<1>4. f[N] = IF c = 0 THEN 0 ELSE N
  BY <1>0, <1>3 DEF P
<1> QED  BY <1>1, <1>4 DEF N

-----------------------------------------------------------------------------
(* mapreduce: the programs *)

SourceFile == [reading : {"EOF", "error", "unopened"}, stop : BOOLEAN, eol : BOOLEAN,
               lines : Seq({"func", "#", "code"})]
Plain(p, name, function, reducer) ==
    /\ p.name = name /\ p.call = function /\ p.reducer = reducer
    /\ p.mode = "" /\ p.max = 0 /\ p.dir = TRUE
Names == {"countfunc", "checklegal", "leak", "finish", "deadlock", "irregular", "finishvoid", "flatmap"}

\* The programs by name.
Kind(p) ==
    /\ p.name \in Names
    /\ p.name = "countfunc" =>
         /\ p.call = "MapReduce" /\ p.reducer = "sum" /\ p.items \in Seq(SourceFile)
         /\ p.mode \in {"", "return", "panic"} /\ p.max \in Nat /\ p.dir \in BOOLEAN
    /\ p.name # "countfunc" => p.mode = "" /\ p.max = 0 /\ p.dir = TRUE
    /\ p.name = "checklegal" =>
         p.call = "MapReduce" /\ p.reducer = "collect" /\ p.items \in Seq([err : BOOLEAN, ok : BOOLEAN])
    /\ p.name = "leak" =>
         p.call = "MapReduce" /\ p.reducer = "collect" /\ p.items \in Seq([hit : BOOLEAN])
    /\ p.name = "finish" => p.call = "Finish" /\ p.reducer = "none" /\ p.items \in Seq([err : BOOLEAN])
    /\ p.name = "deadlock" => p.call = "MapReduce" /\ p.reducer = "none" /\ p.items \in Seq([uid : Nat])
    /\ p.name = "irregular" =>
         p.call = "MapReduceVoid" /\ p.reducer = "print" /\ p.items \in Seq([uid : Nat])
    /\ p.name = "finishvoid" =>
         p.call = "FinishVoid" /\ p.reducer = "none" /\ p.items \in Seq([uid : Nat])
    /\ p.name = "flatmap" =>
         p.call = "ForEach" /\ p.reducer = "none" /\ p.items \in Seq([friends : Seq(Nat)])

\* The fields of a program without flags.
LEMMA PlainFields ==
    ASSUME NEW name, NEW function, NEW reducer, NEW items, NEW p,
           p = Program(name, function, reducer, items)
    PROVE  Plain(p, name, function, reducer)
BY DEF Program, Plain

\* Every program is one of these.
LEMMA Kinds ==
    ASSUME NEW p, IsProgram(p)
    PROVE  Kind(p)
<1>1. CASE p = CheckLegal(p.items) /\ p.items \in Seq([err : BOOLEAN, ok : BOOLEAN])
  <2>1. Plain(p, "checklegal", "MapReduce", "collect")
    BY <1>1, PlainFields DEF CheckLegal
  <2> QED  BY <1>1, <2>1 DEF Plain, Kind, Names
<1>2. CASE p = LeakMain(p.items) /\ p.items \in Seq([hit : BOOLEAN])
  <2>1. Plain(p, "leak", "MapReduce", "collect")
    BY <1>2, PlainFields DEF LeakMain
  <2> QED  BY <1>2, <2>1 DEF Plain, Kind, Names
<1>3. CASE p = ProductDetail(p.items) /\ p.items \in Seq([err : BOOLEAN])
  <2>1. Plain(p, "finish", "Finish", "none")
    BY <1>3, PlainFields DEF ProductDetail
  <2> QED  BY <1>3, <2>1 DEF Plain, Kind, Names
<1>4. CASE p = DeadlockMain(p.items) /\ p.items \in Seq([uid : Nat])
  <2>1. Plain(p, "deadlock", "MapReduce", "none")
    BY <1>4, PlainFields DEF DeadlockMain
  <2> QED  BY <1>4, <2>1 DEF Plain, Kind, Names
<1>5. CASE p = IrregularMain(p.items) /\ p.items \in Seq([uid : Nat])
  <2>1. Plain(p, "irregular", "MapReduceVoid", "print")
    BY <1>5, PlainFields DEF IrregularMain
  <2> QED  BY <1>5, <2>1 DEF Plain, Kind, Names
<1>6. CASE p = FinishVoidMain(p.items) /\ p.items \in Seq([uid : Nat])
  <2>1. Plain(p, "finishvoid", "FinishVoid", "none")
    BY <1>6, PlainFields DEF FinishVoidMain
  <2> QED  BY <1>6, <2>1 DEF Plain, Kind, Names
<1>7. CASE p = FlatmapMain(p.items) /\ p.items \in Seq([friends : Seq(Nat)])
  <2>1. Plain(p, "flatmap", "ForEach", "none")
    BY <1>7, PlainFields DEF FlatmapMain
  <2> QED  BY <1>7, <2>1 DEF Plain, Kind, Names
<1>8. CASE /\ p = CountfuncMain(p.items, p.mode, p.max, p.dir) /\ p.items \in Seq(SourceFile)
           /\ p.mode \in {"", "return", "panic"} /\ p.max \in Nat /\ p.dir \in BOOLEAN
  <2>1. p.name = "countfunc" /\ p.call = "MapReduce" /\ p.reducer = "sum"
    BY <1>8 DEF CountfuncMain, Program
  <2> QED  BY <1>8, <2>1 DEF Kind, Names
<1> QED  BY <1>1, <1>2, <1>3, <1>4, <1>5, <1>6, <1>7, <1>8 DEF IsProgram, SourceFile

\* The items are a sequence.
LEMMA ItemsAreCounted ==
    ASSUME NEW p, p = Idle \/ IsProgram(p)
    PROVE  /\ Len(p.items) \in Nat
           /\ p = Idle => p.items = <<>> /\ p.name = "idle" /\ p.mode = ""
           /\ IsProgram(p) => Kind(p) /\ p # Idle
<1>1. Idle.items = <<>> /\ Idle.name = "idle" /\ Idle.mode = "" /\ Len(<<>>) = 0
  BY DEF Idle, Program
<1>2. ASSUME IsProgram(p) PROVE Kind(p) /\ p # Idle /\ Len(p.items) \in Nat
  <2>1. Kind(p)
    BY <1>2, Kinds
  <2>2. p # Idle
    BY <1>1, <2>1 DEF Kind, Names
  <2>3. \E S : p.items \in Seq(S)
    BY <2>1 DEF Kind, Names
  <2> QED  BY <2>1, <2>2, <2>3
<1>3. Len(p.items) \in Nat
  <2>1. CASE p = Idle
    BY <1>1, <2>1
  <2>2. CASE IsProgram(p)
    BY <1>2, <2>2
  <2> QED  BY <2>1, <2>2
<1> QED  BY <1>1, <1>2, <1>3

\* What the mappers do.
LEMMA Outcomes ==
    ASSUME IsProgram(prog), NEW j \in Items, NEW n \in Nat
    PROVE  /\ Outcome(j, n) \in {"write", "skip", "cancel", "cancelwrite", "panic", "hang", "append"}
           /\ Fails(prog.items[j]) => Outcome(j, n) \in {"cancel", "cancelwrite"}
           /\ Outcome(j, n) = "append" <=> prog.name = "flatmap"
           /\ prog.name # "countfunc" =>
                Outcome(j, n) = Outcome(j, 1) /\ Outcome(j, n) \notin {"hang", "panic"}
           /\ prog.name = "countfunc" =>
                /\ Outcome(j, n) \in {"cancel", "hang", "write", "skip", "panic"}
                /\ Outcome(j, n) = "skip" => prog.mode = "return"
           /\ prog.mode = "return" =>
                /\ prog.name = "countfunc"
                /\ prog.items[j].stop \/ ~LinesEnd(prog.items[j]) =>
                     Outcome(j, n) \in {"cancel", "hang"}
                /\ ~prog.items[j].stop /\ LinesEnd(prog.items[j]) =>
                     Outcome(j, n) = IF n % Every = 0 THEN "skip" ELSE "write"
<1> USE DEF Outcome, Fails
<1>0. j \in 1..Len(prog.items) /\ Kind(prog)
  BY Kinds DEF Items
<1>1. CASE prog.name = "countfunc"
  <2>1. prog.items[j] \in SourceFile /\ prog.mode \in {"", "return", "panic"}
    <3>1. prog.items \in Seq(SourceFile)
      BY <1>0, <1>1 DEF Kind
    <3>2. prog.items[j] \in SourceFile
      BY <1>0, <3>1, ElementOfSeq
    <3> QED  BY <1>0, <1>1, <3>2 DEF Kind
  <2>2. Outcome(j, n) = CountMapper(prog.items[j], n) /\ Fails(prog.items[j]) = prog.items[j].stop
    BY <1>1
  <2> HIDE DEF Outcome, Fails
  <2>3. prog.items[j].stop \in BOOLEAN /\ LinesEnd(prog.items[j]) \in BOOLEAN
    BY <2>1 DEF SourceFile, LinesEnd
  <2> QED  BY <1>1, <2>1, <2>2, <2>3 DEF CountMapper
<1>2. CASE prog.name = "checklegal"
  <2>1. prog.items[j] \in [err : BOOLEAN, ok : BOOLEAN] /\ prog.mode = ""
    <3>1. prog.items \in Seq([err : BOOLEAN, ok : BOOLEAN])
      BY <1>0, <1>2 DEF Kind
    <3>2. prog.items[j] \in [err : BOOLEAN, ok : BOOLEAN]
      BY <1>0, <3>1, ElementOfSeq
    <3> QED  BY <1>0, <1>2, <3>2 DEF Kind
  <2>2. Outcome(j, n) = LegalMapper(prog.items[j]) /\ Outcome(j, 1) = LegalMapper(prog.items[j])
    BY <1>2
  <2>3. Fails(prog.items[j]) = prog.items[j].err
    BY <1>2
  <2> HIDE DEF Outcome, Fails
  <2>4. LegalMapper(prog.items[j]) \in {"write", "skip", "cancel", "cancelwrite"}
    BY <2>1 DEF LegalMapper
  <2>5. prog.items[j].err => LegalMapper(prog.items[j]) \in {"cancel", "cancelwrite"}
    BY <2>1 DEF LegalMapper
  <2> QED  BY <1>2, <2>1, <2>2, <2>3, <2>4, <2>5
<1>3. CASE prog.name = "leak"
  <2>1. prog.items[j] \in [hit : BOOLEAN] /\ prog.mode = ""
    <3>1. prog.items \in Seq([hit : BOOLEAN])
      BY <1>0, <1>3 DEF Kind
    <3>2. prog.items[j] \in [hit : BOOLEAN]
      BY <1>0, <3>1, ElementOfSeq
    <3> QED  BY <1>0, <1>3, <3>2 DEF Kind
  <2> QED  BY <1>3, <2>1 DEF LeakMapper
<1>4. CASE prog.name = "finish"
  <2>1. prog.items[j] \in [err : BOOLEAN] /\ prog.mode = ""
    <3>1. prog.items \in Seq([err : BOOLEAN])
      BY <1>0, <1>4 DEF Kind
    <3>2. prog.items[j] \in [err : BOOLEAN]
      BY <1>0, <3>1, ElementOfSeq
    <3> QED  BY <1>0, <1>4, <3>2 DEF Kind
  <2> QED  BY <1>4, <2>1 DEF FinishMapper
<1>5. CASE prog.name \in {"deadlock", "irregular", "finishvoid", "flatmap"}
  <2>1. prog.mode = ""
    BY <1>5, Kinds DEF Kind
  <2> QED  BY <1>5, <2>1 DEF UserMapper, IrregularMapper, VoidMapper, FriendMapper
<1> QED  BY <1>1, <1>2, <1>3, <1>4, <1>5, Kinds DEF Kind, Names

-----------------------------------------------------------------------------
(* mapreduce: the invariant *)

MapperState == {"none", "map", "write", "cancel", "cancelwrite", "panic", "hang", "done"}
MrType ==
    /\ prog = Idle \/ IsProgram(prog)
    /\ sent \in 0..Len(prog.items) /\ mapper \in [Items -> MapperState]
    /\ gen \in {"run", "panic"} /\ exec \in {"dispatch", "wait", "closed"}
    /\ red \in {"range", "cancel", "send", "drain", "done"}
    /\ coll \in Seq(Nat) /\ acc \in Seq(Nat)
    /\ done \in BOOLEAN /\ retErr \in BOOLEAN /\ count \in Nat
    /\ panicked \in {"no", "pending", "taken"}
    /\ ret \in [kind : {"none", "value", "nil", "nooutput", "error", "panic"}, val : Seq(Nat)]

\* Nothing has failed and nothing has panicked.
Clean == ~retErr /\ panicked = "no"

\* What the goroutines know of each other.  The items beyond sent have no
\* mapper; the others have one as long as nothing drains the source.
Reached ==
    /\ \A j \in Items : j > sent => mapper[j] = "none"
    /\ Clean => \A j \in Items : j <= sent => mapper[j] # "none"
    /\ Clean /\ exec # "dispatch" => sent = Len(prog.items)
\* The collector is closed after the last mapper, and only then the reducer ends.
Closed ==
    /\ exec = "closed" => \A j \in Items : mapper[j] \in {"none", "done"}
    /\ ~retErr /\ done => red = "done" /\ exec = "closed"
    /\ red = "send" => coll = <<>> /\ exec = "closed"
    /\ prog.name = "flatmap" => red = "done"
\* A panic waits with the goroutine that sends it.
Panics ==
    /\ gen = "panic" => exec = "dispatch" /\ ~done
    /\ panicked = "pending" => gen = "panic" \/ \E j \in Items : mapper[j] = "panic"
    /\ prog # Idle /\ ~prog.dir => panicked # "no"
\* An item that fails the call has left its error.
Failures ==
    /\ \A j \in Items : mapper[j] \notin {"none", "map"} /\ Fails(prog.items[j]) => retErr
    /\ \A j \in Items : mapper[j] \in {"cancel", "cancelwrite"} => retErr
    /\ red = "cancel" => retErr
    /\ \A j \in Items : prog.name # "countfunc" /\ mapper[j] = "write" => j \in Writers
Control == (prog = Idle => MrInit) /\ Reached /\ Closed /\ Panics /\ Failures

\* The values that the reducer has and those that wait in the collector.
Values == acc \o coll
\* Nothing has failed and the reducer has not ended: then Values is all that the
\* mappers have written.
Good == Clean /\ red \in {"range", "send"}
\* checkLegal and goroutineleak write the number of every accepted item, once.
EachOnce ==
    /\ \A j, k \in DOMAIN Values : Values[j] = Values[k] => j = k
    /\ {Values[j] : j \in DOMAIN Values} = {j \in Writers : mapper[j] = "done"}
\* countfunc writes the counts of the files; those of the mappers that have not
\* ended are still to come.
Counts == [j \in Items |-> CountFuncs(prog.items[j])]
ToCome == [j \in Items |-> IF mapper[j] = "done" THEN 0 ELSE CountFuncs(prog.items[j])]
\* A one for every mapper in one of these states: with -mode return there are as
\* many values as the counter says, less every Every-th, and less those that
\* mappers are about to write.
In(states) == [j \in Items |-> IF mapper[j] \in states THEN 1 ELSE 0]
\* flatmap collects the friends of the persons whose mappers have run.
Friends == [j \in Items |-> Len(prog.items[j].friends)]
FriendsToCome == [j \in Items |-> IF mapper[j] \in {"none", "map"} THEN Len(prog.items[j].friends) ELSE 0]
Data ==
    /\ Good /\ prog.name # "countfunc" => EachOnce
    /\ Good /\ prog.name = "countfunc" /\ prog.mode # "return" =>
         SumOf(Values) + SumOf(ToCome) = SumOf(Counts)
    /\ Good /\ prog.mode = "return" =>
         /\ Len(Values) + SumOf(In({"write"})) = count - (count \div Every)
         /\ count = SumOf(In({"write", "done"}))
    /\ prog.name = "flatmap" => Len(acc) + SumOf(FriendsToCome) = SumOf(Friends)

MrInv == MrType /\ Control /\ Data /\ CompleteResult

-----------------------------------------------------------------------------
\* What depends on the program alone stays as it is.
LEMMA SameProgram ==
    ASSUME prog' = prog
    PROVE  /\ Items' = Items /\ Writers' = Writers /\ Counts' = Counts /\ Friends' = Friends
           /\ \A x : Fails(x)' <=> Fails(x)
<1>1. Items' = Items
  BY DEF Items
<1>2. \A j, n : Outcome(j, n)' = Outcome(j, n)
  BY DEF Outcome, CountMapper
<1>3. Writers' = Writers
  BY <1>1, <1>2 DEF Writers
<1>4. \A x : Fails(x)' <=> Fails(x)
  BY DEF Fails
<1> QED  BY <1>1, <1>3, <1>4 DEF Counts, Friends

\* The steps that leave the mappers and the values alone.
LEMMA DataSame ==
    ASSUME Data, prog' = prog, mapper' = mapper, count' = count, Values' = Values, Good' => Good,
           prog.name = "flatmap" => acc' = acc
    PROVE  Data'
<1>1. ToCome' = ToCome /\ FriendsToCome' = FriendsToCome /\ \A s : In(s)' = In(s)
  BY SameProgram DEF ToCome, FriendsToCome, In
<1>2. EachOnce' <=> EachOnce
  BY SameProgram DEF EachOnce
<1> QED  BY <1>1, <1>2, SameProgram DEF Data

\* ... and the result.
LEMMA CompleteSame ==
    ASSUME CompleteResult, prog' = prog, ret' = ret,
           ret.kind \in {"value", "nil", "nooutput"} =>
             panicked' = panicked /\ \A j \in Items : mapper'[j] = mapper[j]
    PROVE  CompleteResult'
<1>1. [j \in Items |-> CountFuncs(prog.items[j])]' = [j \in Items |-> CountFuncs(prog.items[j])]
  BY SameProgram
<1>2. [j \in Items |-> Len(prog.items[j].friends)]' = [j \in Items |-> Len(prog.items[j].friends)]
  BY SameProgram
<1> QED  BY <1>1, <1>2, SameProgram DEF CompleteResult

\* The executor stops dispatching: the source is closed or the call is done.
LEMMA ExecStopInv ==
    ASSUME MrInv, ExecStop
    PROVE  MrInv'
<1> USE DEF MrInv, ExecStop
<1>1. MrType'
  BY SameProgram DEF MrType
<1>2. Reached' /\ Closed' /\ Panics' /\ Failures'
  BY SameProgram DEF Control, Reached, Closed, Panics, Failures, Clean, SourceClosed, MrType
<1>3. Control'
  BY <1>2 DEF Control, Started
<1>4. Data'
  BY DataSame DEF Values, Good, Clean
<1>5. CompleteResult'
  BY CompleteSame
<1> QED  BY <1>1, <1>3, <1>4, <1>5

\* Once something has failed or the reducer has ended nothing is said of the values.
LEMMA DataBad ==
    ASSUME Data, prog' = prog, ~Good',
           prog.name = "flatmap" =>
             /\ acc' = acc
             /\ \A j \in Items : mapper'[j] \in {"none", "map"} <=> mapper[j] \in {"none", "map"}
    PROVE  Data'
<1>1. prog.name = "flatmap" => FriendsToCome' = FriendsToCome
  BY SameProgram DEF FriendsToCome
<1> QED  BY <1>1, SameProgram DEF Data

\* After the last mapper the executor closes the collector.
LEMMA ExecCloseInv ==
    ASSUME MrInv, ExecClose
    PROVE  MrInv'
<1> USE DEF MrInv, ExecClose
<1>1. MrType'
  BY SameProgram DEF MrType
<1>2. Reached' /\ Closed' /\ Panics' /\ Failures'
  BY SameProgram DEF Control, Reached, Closed, Panics, Failures, Clean, Busy, MrType
<1>3. Control'
  BY <1>2 DEF Control, MrInit
<1>4. Data'
  BY DataSame DEF Values, Good, Clean
<1>5. CompleteResult'
  BY CompleteSame
<1> QED  BY <1>1, <1>3, <1>4, <1>5

\* After it the executor drains the source: its items get no mapper.
LEMMA ExecDrainInv ==
    ASSUME MrInv, ExecDrain
    PROVE  MrInv'
<1> USE DEF MrInv, ExecDrain
<1>0. Len(prog.items) \in Nat /\ Items = 1..Len(prog.items)
  BY ItemsAreCounted DEF MrType, Items
<1>1. MrType'
  BY <1>0, SameProgram DEF MrType
<1>2. Reached' /\ Closed' /\ Panics' /\ Failures'
  BY <1>0, SameProgram DEF Control, Reached, Closed, Panics, Failures, Clean, MrType
<1>3. Control'
  BY <1>2 DEF Control, MrInit
<1>4. Data'
  BY DataSame DEF Values, Good, Clean
<1>5. CompleteResult'
  BY CompleteSame
<1> QED  BY <1>1, <1>3, <1>4, <1>5

\* Only a program that has started has items.
LEMMA ItemsOfSome ==
    ASSUME MrType, NEW j \in Items
    PROVE  /\ Len(prog.items) \in Nat /\ Items = 1..Len(prog.items)
           /\ IsProgram(prog) /\ prog # Idle /\ Kind(prog)
<1>1. Len(prog.items) \in Nat /\ Items = 1..Len(prog.items)
  BY ItemsAreCounted DEF MrType, Items
<1>2. prog # Idle
  <2> SUFFICES ASSUME prog = Idle PROVE FALSE
    OBVIOUS
  <2>1. prog.items = <<>>
    BY ItemsAreCounted
  <2> QED  BY <1>1, <2>1
<1>3. IsProgram(prog)
  BY <1>2 DEF MrType
<1> QED  BY <1>1, <1>2, <1>3, Kinds

\* A cancel drains the source: its items get no mapper.
LEMMA CancelDrainInv ==
    ASSUME MrInv, NEW j \in Items, CancelDrain(j)
    PROVE  MrInv'
<1> USE DEF MrInv
<1>0. Len(prog.items) \in Nat /\ Items = 1..Len(prog.items) /\ prog # Idle
  BY ItemsOfSome
<1>1. /\ retErr /\ gen = "run" /\ sent < Len(prog.items) /\ sent' = sent + 1
      /\ UNCHANGED <<prog, gen, exec, mapper, coll, red, acc, done, retErr, count, panicked, ret>>
  BY DEF CancelDrain, Control, Failures
<1>2. MrType'
  BY <1>0, <1>1, SameProgram DEF MrType
<1>3. Reached'
  BY <1>0, <1>1, SameProgram DEF Control, Reached, Clean, MrType
<1>4. Closed' /\ Panics' /\ Failures'
  BY <1>1, SameProgram DEF Control, Closed, Panics, Failures
<1>5. Control'
  BY <1>0, <1>1, <1>3, <1>4 DEF Control
<1>6. Data'
  BY <1>1, DataSame DEF Values, Good, Clean
<1>7. CompleteResult'
  BY <1>1, CompleteSame
<1> QED  BY <1>2, <1>5, <1>6, <1>7

\* The reducer takes the next value from the collector.
LEMMA ReduceItemInv ==
    ASSUME MrInv, ReduceItem
    PROVE  MrInv'
<1> USE DEF MrInv, ReduceItem
<1>1. MrType'
  BY HeadMoves, SameProgram DEF MrType
<1>2. Reached' /\ Closed' /\ Panics' /\ Failures'
  BY SameProgram DEF Control, Reached, Closed, Panics, Failures, Clean, MrType
<1>3. Control'
  BY <1>2 DEF Control, Started
<1>4. prog.name # "flatmap"
  BY DEF Control, Closed
<1>5. Data'
  <2>1. CASE retErr'
    BY <1>4, <2>1, DataBad DEF Good, Clean
  <2>2. CASE ~retErr'
    <3>1. acc' = Append(acc, Head(coll)) /\ coll' = Tail(coll) /\ red' = red /\ retErr' = retErr
      BY <2>2
    <3>2. Values' = Values
      BY <3>1, HeadMoves DEF Values, MrType
    <3> QED  BY <1>4, <3>1, <3>2, DataSame DEF Good, Clean
  <2> QED  BY <2>1, <2>2
<1>6. CompleteResult'
  BY CompleteSame
<1> QED  BY <1>1, <1>3, <1>5, <1>6

\* The reducer has read the closed collector to its end.
LEMMA ReduceEndInv ==
    ASSUME MrInv, ReduceEnd
    PROVE  MrInv'
<1> USE DEF MrInv, ReduceEnd
<1>1. MrType'
  BY SameProgram DEF MrType
<1>2. Reached' /\ Closed' /\ Panics' /\ Failures'
  BY SameProgram DEF Control, Reached, Closed, Panics, Failures, Clean, MrType
<1>3. Control'
  BY <1>2 DEF Control, Started
<1>4. Data'
  BY DataSame DEF Values, Good, Clean
<1>5. CompleteResult'
  BY CompleteSame
<1> QED  BY <1>1, <1>3, <1>4, <1>5

\* The caller is about to panic and drains the reducer's result.
LEMMA ReduceWriteDrainedInv ==
    ASSUME MrInv, ReduceWriteDrained
    PROVE  MrInv'
<1> USE DEF MrInv, ReduceWriteDrained
<1>1. MrType'
  BY SameProgram DEF MrType
<1>2. Reached' /\ Closed' /\ Panics' /\ Failures'
  BY SameProgram DEF Control, Reached, Closed, Panics, Failures, Clean, MrType
<1>3. Control'
  BY <1>2 DEF Control, MrInit
<1>4. Data'
  BY DataBad DEF Good
<1>5. CompleteResult'
  BY CompleteSame
<1> QED  BY <1>1, <1>3, <1>4, <1>5

\* The reducer cancels the call.
LEMMA ReducerCancelInv ==
    ASSUME MrInv, ReducerCancel
    PROVE  MrInv'
<1> USE DEF MrInv
<1>0. Len(prog.items) \in Nat /\ Items = 1..Len(prog.items)
  BY ItemsAreCounted DEF MrType, Items
<1>1. /\ retErr /\ prog # Idle /\ red = "cancel" /\ gen = "run"
      /\ UNCHANGED <<prog, gen, exec, mapper, coll, acc, retErr, count, panicked, ret>>
      /\ \/ sent < Len(prog.items) /\ sent' = sent + 1 /\ UNCHANGED <<done, red>>
         \/ done' = TRUE /\ red' = "drain" /\ UNCHANGED sent
  BY DEF ReducerCancel, Control, Failures, MrInit
<1>2. sent' \in 0..Len(prog.items) /\ sent' >= sent
  BY <1>0, <1>1 DEF MrType
<1>3. MrType'
  <2>1. done' \in BOOLEAN /\ red' \in {"cancel", "drain"}
    BY <1>1 DEF MrType
  <2> QED  BY <1>1, <1>2, <2>1, SameProgram DEF MrType
<1>4. Reached'
  BY <1>0, <1>1, <1>2, SameProgram DEF Control, Reached, Clean, MrType
<1>5. Closed' /\ Panics' /\ Failures'
  BY <1>1, SameProgram DEF Control, Closed, Panics, Failures
<1>6. Control'
  BY <1>1, <1>4, <1>5 DEF Control
<1>7. Data'
  BY <1>1, DataBad DEF Good, Clean
<1>8. CompleteResult'
  BY <1>1, CompleteSame
<1> QED  BY <1>3, <1>6, <1>7, <1>8

\* A reducer that has ended drains the collector.
LEMMA ReducerDrainInv ==
    ASSUME MrInv, ReducerDrain
    PROVE  MrInv'
<1> USE DEF MrInv
<1>1. /\ red = "drain" /\ prog # Idle
      /\ UNCHANGED <<prog, sent, gen, exec, mapper, acc, retErr, count, panicked, ret>>
      /\ \/ coll # <<>> /\ coll' = Tail(coll) /\ UNCHANGED <<red, done>>
         \/ exec = "closed" /\ red' = "done" /\ done' = TRUE /\ UNCHANGED coll
  BY DEF ReducerDrain, Control, MrInit
<1>2. MrType'
  <2>1. coll \in Seq(Nat) /\ done \in BOOLEAN
    BY DEF MrType
  <2>2. coll' \in Seq(Nat)
    BY <1>1, <2>1
  <2>3. done' \in BOOLEAN /\ red' \in {"drain", "done"}
    BY <1>1, <2>1
  <2> QED  BY <1>1, <2>2, <2>3, SameProgram DEF MrType
<1>3. Reached' /\ Closed' /\ Panics' /\ Failures'
  BY <1>1, SameProgram DEF Control, Reached, Closed, Panics, Failures, Clean, MrType
<1>4. Control'
  BY <1>1, <1>3 DEF Control
<1>5. Data'
  BY <1>1, DataBad DEF Good
<1>6. CompleteResult'
  BY <1>1, CompleteSame
<1> QED  BY <1>2, <1>4, <1>5, <1>6

\* A mapper that has run to its end, and the source empty: nothing is left out.
LEMMA Finished ==
    ASSUME MrInv, prog # Idle, exec = "closed", ~retErr, panicked # "taken"
    PROVE  /\ panicked = "no" /\ prog.dir
           /\ \A j \in Items : ~Fails(prog.items[j]) /\ mapper[j] = "done"
<1> USE DEF MrInv
<1>1. IsProgram(prog) /\ Len(prog.items) \in Nat /\ Items = 1..Len(prog.items)
  BY ItemsAreCounted DEF MrType, Items
<1>2. panicked = "no"
  BY DEF Control, Closed, Panics, MrType
<1>3. prog.dir
  BY <1>2 DEF Control, Panics
<1>4. \A j \in Items : mapper[j] = "done"
  BY <1>1, <1>2 DEF Control, Reached, Closed, Clean, MrType
<1>5. \A j \in Items : ~Fails(prog.items[j])
  BY <1>4 DEF Control, Failures
<1> QED  BY <1>2, <1>3, <1>4, <1>5

\* A sequence without repetitions.
LEMMA OccursOnce ==
    ASSUME NEW s \in Seq(Nat), NEW W, {s[j] : j \in DOMAIN s} = W,
           \A j, k \in DOMAIN s : s[j] = s[k] => j = k
    PROVE  Occurrences(s) = [w \in W |-> 1]
<1>1. ASSUME NEW w \in W PROVE Cardinality({j \in DOMAIN s : s[j] = w}) = 1
  <2>1. PICK k \in DOMAIN s : s[k] = w
    OBVIOUS
  <2>2. {j \in DOMAIN s : s[j] = w} = {k}
    BY <2>1
  <2> QED  BY <2>2, FS_Singleton
<1> QED  BY <1>1 DEF Occurrences

\* The lines that count are finitely many.
LEMMA CountIsNat ==
    ASSUME NEW x \in SourceFile
    PROVE  CountFuncs(x) \in Nat
<1>1. x.lines \in Seq({"func", "#", "code"})
  BY DEF SourceFile
<1>2. Len(x.lines) \in Nat
  BY <1>1
<1>3. IsFiniteSet(1..Len(x.lines))
  BY <1>2, FS_Interval
<1>4. {l \in EnumerateLines(x) : x.lines[l] = "func"} \subseteq 1..Len(x.lines)
  BY DEF EnumerateLines
<1>5. IsFiniteSet({l \in EnumerateLines(x) : x.lines[l] = "func"})
  BY <1>3, <1>4, FS_Subset
<1> QED  BY <1>5, FS_CardinalityType DEF CountFuncs

\* The sequences that are added up.
LEMMA Addends ==
    ASSUME MrType
    PROVE  /\ \A states : In(states) \in Seq(Nat) /\ Len(In(states)) = Len(prog.items)
           /\ prog.name = "countfunc" =>
                /\ Counts \in Seq(Nat) /\ Len(Counts) = Len(prog.items)
                /\ ToCome \in Seq(Nat) /\ Len(ToCome) = Len(prog.items)
                /\ \A j \in Items : CountFuncs(prog.items[j]) \in Nat
           /\ prog.name = "flatmap" =>
                /\ Friends \in Seq(Nat) /\ Len(Friends) = Len(prog.items)
                /\ FriendsToCome \in Seq(Nat) /\ Len(FriendsToCome) = Len(prog.items)
                /\ \A j \in Items : prog.items[j].friends \in Seq(Nat)
<1>1. Len(prog.items) \in Nat /\ Items = 1..Len(prog.items)
  BY ItemsAreCounted DEF MrType, Items
<1>2. ASSUME NEW states PROVE In(states) \in Seq(Nat) /\ Len(In(states)) = Len(prog.items)
  <2>1. In(states) \in [1..Len(prog.items) -> Nat]
    BY <1>1 DEF In
  <2> QED  BY <1>1, <2>1, IsSequence
<1>3. ASSUME prog.name = "countfunc"
      PROVE  /\ Counts \in Seq(Nat) /\ Len(Counts) = Len(prog.items)
             /\ ToCome \in Seq(Nat) /\ Len(ToCome) = Len(prog.items)
             /\ \A j \in Items : CountFuncs(prog.items[j]) \in Nat
  <2>1. prog.items \in Seq(SourceFile)
    BY <1>3, ItemsAreCounted DEF MrType, Kind
  <2>2. \A j \in Items : prog.items[j] \in SourceFile
    BY <1>1, <2>1, ElementOfSeq
  <2>3. \A j \in Items : CountFuncs(prog.items[j]) \in Nat
    BY <2>2, CountIsNat
  <2>4. Counts \in [1..Len(prog.items) -> Nat] /\ ToCome \in [1..Len(prog.items) -> Nat]
    BY <1>1, <2>3 DEF Counts, ToCome
  <2> QED  BY <1>1, <2>3, <2>4, IsSequence
<1>4. ASSUME prog.name = "flatmap"
      PROVE  /\ Friends \in Seq(Nat) /\ Len(Friends) = Len(prog.items)
             /\ FriendsToCome \in Seq(Nat) /\ Len(FriendsToCome) = Len(prog.items)
             /\ \A j \in Items : prog.items[j].friends \in Seq(Nat)
  <2>1. prog.items \in Seq([friends : Seq(Nat)])
    BY <1>4, ItemsAreCounted DEF MrType, Kind
  <2>2. \A j \in Items : prog.items[j] \in [friends : Seq(Nat)]
    BY <1>1, <2>1, ElementOfSeq
  <2>3. \A j \in Items : prog.items[j].friends \in Seq(Nat)
    BY <2>2
  <2>4. \A j \in Items : Len(prog.items[j].friends) \in Nat
    BY <2>3
  <2>5. Friends \in [1..Len(prog.items) -> Nat] /\ FriendsToCome \in [1..Len(prog.items) -> Nat]
    BY <1>1, <2>4 DEF Friends, FriendsToCome
  <2> QED  BY <1>1, <2>3, <2>5, IsSequence
<1> QED  BY <1>2, <1>3, <1>4

\* The reducer's values when all mappers have ended.
LEMMA AllWritten ==
    ASSUME MrInv, Good, coll = <<>>, \A j \in Items : mapper[j] = "done"
    PROVE  /\ prog.name # "countfunc" => Occurrences(acc) = [j \in Writers |-> 1]
           /\ prog.name = "countfunc" /\ prog.mode # "return" => SumOf(acc) = SumOf(Counts)
           /\ prog.mode = "return" =>
                Len(acc) = Len(prog.items) - (Len(prog.items) \div Every)
<1> USE DEF MrInv
<1>0. Len(prog.items) \in Nat /\ Items = 1..Len(prog.items)
  BY ItemsAreCounted DEF MrType, Items
<1>1. Values = acc /\ acc \in Seq(Nat)
  BY DEF Values, MrType
<1>2. prog.name # "countfunc" => Occurrences(acc) = [j \in Writers |-> 1]
  <2> SUFFICES ASSUME prog.name # "countfunc" PROVE Occurrences(acc) = [j \in Writers |-> 1]
    OBVIOUS
  <2>1. EachOnce
    BY DEF Data
  <2>2. {j \in Writers : mapper[j] = "done"} = Writers
    BY DEF Writers
  <2>3. {acc[j] : j \in DOMAIN acc} = Writers
    <3>1. {Values[j] : j \in DOMAIN Values} = Writers
      BY <2>1, <2>2 DEF EachOnce
    <3> QED  BY <1>1, <3>1
  <2>4. \A j, k \in DOMAIN acc : acc[j] = acc[k] => j = k
    <3>1. \A j, k \in DOMAIN Values : Values[j] = Values[k] => j = k
      BY <2>1 DEF EachOnce
    <3> QED  BY <1>1, <3>1
  <2>5. acc \in Seq(Nat)
    BY <1>1
  <2> QED  BY <2>3, <2>4, <2>5, OccursOnce
<1>3. ASSUME prog.name = "countfunc", prog.mode # "return" PROVE SumOf(acc) = SumOf(Counts)
  <2>1. ToCome \in Seq(Nat) /\ \A j \in 1..Len(ToCome) : ToCome[j] = 0
    BY <1>0, <1>3, Addends DEF ToCome
  <2>2. SumOf(ToCome) = 0
    BY <2>1, SumConstant
  <2>3. SumOf(Values) + SumOf(ToCome) = SumOf(Counts)
    BY <1>3 DEF Data
  <2> QED  BY <1>1, <2>2, <2>3, SumIsNat
<1>4. ASSUME prog.mode = "return"
      PROVE  Len(acc) = Len(prog.items) - (Len(prog.items) \div Every)
  <2>1. SumOf(In({"write"})) = 0
    <3>1. In({"write"}) \in Seq(Nat) /\ \A j \in 1..Len(In({"write"})) : In({"write"})[j] = 0
      BY <1>0, Addends DEF In
    <3> QED  BY <3>1, SumConstant
  <2>2. SumOf(In({"write", "done"})) = Len(prog.items)
    <3>1. /\ In({"write", "done"}) \in Seq(Nat) /\ Len(In({"write", "done"})) = Len(prog.items)
          /\ \A j \in 1..Len(In({"write", "done"})) : In({"write", "done"})[j] = 1
      BY <1>0, Addends DEF In
    <3> QED  BY <3>1, SumConstant
  <2>3. /\ Len(Values) + SumOf(In({"write"})) = count - (count \div Every)
        /\ count = SumOf(In({"write", "done"}))
    BY <1>4 DEF Data
  <2>4. Len(acc) \in Nat
    BY <1>1
  <2> QED  BY <1>1, <2>1, <2>2, <2>3, <2>4
<1> QED  BY <1>2, <1>3, <1>4

\* The reducer writes its result, which is complete.
LEMMA ReduceWriteInv ==
    ASSUME MrInv, ReduceWrite
    PROVE  MrInv'
<1> USE DEF MrInv, ReduceWrite
<1>0. prog # Idle /\ exec = "closed" /\ coll = <<>>
  BY DEF Control, Closed, MrInit
<1>1. MrType'
  <2>1. <<>> \in Seq(Nat) /\ acc \in Seq(Nat)
    BY DEF MrType
  <2> QED  BY <2>1, SameProgram DEF MrType
<1>2. Reached' /\ Closed' /\ Panics' /\ Failures'
  BY SameProgram DEF Control, Reached, Closed, Panics, Failures, Clean, MrType
<1>3. Control'
  BY <1>0, <1>2 DEF Control
<1>4. Data'
  BY DataBad DEF Good
<1>5. CompleteResult'
  <2>1. CASE retErr
    <3>1. ret'.kind = "error"
      BY <2>1
    <3> QED  BY <3>1 DEF CompleteResult
  <2>2. CASE ~retErr
    <3>1. ret'.kind = "value" /\ ret'.val = acc
      BY <2>2
    <3>2. /\ panicked = "no" /\ prog.dir
          /\ \A j \in Items : ~Fails(prog.items[j]) /\ mapper[j] = "done"
      BY <1>0, <2>2, Finished
    <3>3. /\ prog.name # "countfunc" => Occurrences(acc) = [j \in Writers |-> 1]
          /\ prog.name = "countfunc" /\ prog.mode # "return" => SumOf(acc) = SumOf(Counts)
          /\ prog.mode = "return" =>
                Len(acc) = Len(prog.items) - (Len(prog.items) \div Every)
      BY <1>0, <2>2, <3>2, AllWritten DEF Good, Clean
    <3> QED  BY <3>1, <3>2, <3>3, SameProgram DEF CompleteResult, Counts
  <2> QED  BY <2>1, <2>2
<1> QED  BY <1>1, <1>3, <1>4, <1>5

\* The caller returns what the call has come to.
LEMMA CallerReturnsInv ==
    ASSUME MrInv, CallerReturns
    PROVE  MrInv'
<1> USE DEF MrInv, CallerReturns
<1>0. prog # Idle
  BY DEF Started
<1>1. MrType'
  <2>1. <<>> \in Seq(Nat) /\ acc \in Seq(Nat)
    BY DEF MrType
  <2> QED  BY <2>1, SameProgram DEF MrType
<1>2. Reached' /\ Closed' /\ Panics' /\ Failures'
  BY SameProgram DEF Control, Reached, Closed, Panics, Failures, Clean, MrType
<1>3. Control'
  BY <1>0, <1>2 DEF Control
<1>4. Data'
  BY DataSame DEF Values, Good, Clean
<1>5. CompleteResult'
  <2>1. CASE retErr
    <3>1. ret'.kind = "error"
      BY <2>1
    <3> QED  BY <3>1 DEF CompleteResult
  <2>2. CASE ~retErr
    <3>1. ret'.kind \in {"nil", "nooutput"} /\ (ForEach => ret'.val = acc)
      BY <2>2
    <3>2. exec = "closed"
      BY <2>2 DEF Control, Closed
    <3>3. /\ panicked = "no" /\ prog.dir
          /\ \A j \in Items : ~Fails(prog.items[j]) /\ mapper[j] = "done"
      BY <1>0, <2>2, <3>2, Finished
    <3>4. ASSUME prog.name = "flatmap" PROVE ret'.val = acc /\ Len(acc) = SumOf(Friends)
      <4>1. ForEach
        BY <1>0, <3>4, Kinds DEF ForEach, Kind, MrType
      <4>2. FriendsToCome \in Seq(Nat) /\ \A j \in 1..Len(FriendsToCome) : FriendsToCome[j] = 0
        <5>1. FriendsToCome \in Seq(Nat) /\ Len(FriendsToCome) = Len(prog.items)
          BY <3>4, Addends
        <5> QED  BY <3>3, <5>1 DEF FriendsToCome, Items
      <4>3. SumOf(FriendsToCome) = 0
        BY <4>2, SumConstant
      <4>4. Len(acc) \in Nat
        BY DEF MrType
      <4> QED  BY <3>1, <3>4, <4>1, <4>3, <4>4 DEF Data
    <3> QED  BY <3>1, <3>3, <3>4, SameProgram DEF CompleteResult, Friends
  <2> QED  BY <2>1, <2>2
<1> QED  BY <1>1, <1>3, <1>4, <1>5

\* The caller takes over the panic of a goroutine.
LEMMA CallerPanicsInv ==
    ASSUME MrInv, CallerPanics
    PROVE  MrInv'
<1> USE DEF MrInv, CallerPanics
<1>0. prog # Idle
  BY DEF Control, MrInit
<1>1. MrType'
  <2>1. <<>> \in Seq(Nat)
    OBVIOUS
  <2> QED  BY <2>1, SameProgram DEF MrType
<1>2. Reached' /\ Closed' /\ Panics' /\ Failures'
  BY SameProgram DEF Control, Reached, Closed, Panics, Failures, Clean, MrType
<1>3. Control'
  BY <1>0, <1>2 DEF Control
<1>4. Data'
  BY DataSame DEF Values, Good, Clean
<1>5. CompleteResult'
  <2>1. ret'.kind = "panic"
    OBVIOUS
  <2> QED  BY <2>1 DEF CompleteResult
<1> QED  BY <1>1, <1>3, <1>4, <1>5

-----------------------------------------------------------------------------
(* mapreduce: the steps of the mappers *)

\* One mapper goes to another state.
LEMMA StateChanges ==
    ASSUME MrType, NEW j \in Items, NEW st, prog' = prog, mapper' = [mapper EXCEPT ![j] = st]
    PROVE  /\ mapper'[j] = st /\ \A k \in Items : k # j => mapper'[k] = mapper[k]
           /\ st \in MapperState => mapper' \in [Items -> MapperState]
<1>1. mapper \in [Items -> MapperState]
  BY DEF MrType
<1> QED  BY <1>1

\* What it does to the number of mappers in some states,
LEMMA InChanges ==
    ASSUME MrType, NEW j \in Items, NEW st, prog' = prog, mapper' = [mapper EXCEPT ![j] = st],
           NEW states
    PROVE  /\ SumOf(In(states)') + (IF mapper[j] \in states THEN 1 ELSE 0)
                = SumOf(In(states)) + (IF st \in states THEN 1 ELSE 0)
           /\ SumOf(In(states)') \in Nat /\ SumOf(In(states)) \in Nat
<1> DEFINE s == In(states)  t == In(states)'
<1>1. Len(prog.items) \in Nat /\ Items = 1..Len(prog.items)
  BY ItemsAreCounted DEF MrType, Items
<1>2. mapper'[j] = st /\ \A k \in Items : k # j => mapper'[k] = mapper[k]
  BY StateChanges
<1>3. /\ s = [k \in Items |-> IF mapper[k] \in states THEN 1 ELSE 0]
      /\ t = [k \in Items |-> IF mapper'[k] \in states THEN 1 ELSE 0]
  BY SameProgram DEF In
<1>4. s \in [1..Len(prog.items) -> Nat] /\ t \in [1..Len(prog.items) -> Nat]
  BY <1>1, <1>3
<1>5. /\ \A k \in Items : k # j => s[k] = t[k]
      /\ s[j] = (IF mapper[j] \in states THEN 1 ELSE 0) /\ t[j] = (IF st \in states THEN 1 ELSE 0)
  BY <1>2, <1>3
<1> HIDE DEF s, t
<1>6. s \in Seq(Nat) /\ t \in Seq(Nat) /\ Len(s) = Len(t) /\ j \in 1..Len(s) /\ Len(s) = Len(prog.items)
  BY <1>1, <1>4, IsSequence
<1>7. SumOf(t) + s[j] = SumOf(s) + t[j]
  BY <1>1, <1>5, <1>6, SumExcept
<1> QED  BY <1>5, <1>6, <1>7, SumIsNat DEF s, t

\* to the counts that are still to come,
LEMMA ToComeChanges ==
    ASSUME MrType, NEW j \in Items, NEW st, prog' = prog, mapper' = [mapper EXCEPT ![j] = st],
           prog.name = "countfunc"
    PROVE  /\ CountFuncs(prog.items[j]) \in Nat
           /\ SumOf(ToCome') + (IF mapper[j] = "done" THEN 0 ELSE CountFuncs(prog.items[j]))
                = SumOf(ToCome) + (IF st = "done" THEN 0 ELSE CountFuncs(prog.items[j]))
           /\ SumOf(ToCome') \in Nat /\ SumOf(ToCome) \in Nat
<1> DEFINE s == ToCome  t == ToCome'
<1>1. Len(prog.items) \in Nat /\ Items = 1..Len(prog.items)
  BY ItemsAreCounted DEF MrType, Items
<1>2. mapper'[j] = st /\ \A k \in Items : k # j => mapper'[k] = mapper[k]
  BY StateChanges
<1>3. /\ s = [k \in Items |-> IF mapper[k] = "done" THEN 0 ELSE CountFuncs(prog.items[k])]
      /\ t = [k \in Items |-> IF mapper'[k] = "done" THEN 0 ELSE CountFuncs(prog.items[k])]
  BY SameProgram DEF ToCome
<1>0. \A k \in Items : CountFuncs(prog.items[k]) \in Nat
  BY Addends
<1>4. s \in [1..Len(prog.items) -> Nat] /\ t \in [1..Len(prog.items) -> Nat]
  BY <1>0, <1>1, <1>3
<1>5. /\ \A k \in Items : k # j => s[k] = t[k]
      /\ s[j] = (IF mapper[j] = "done" THEN 0 ELSE CountFuncs(prog.items[j]))
      /\ t[j] = (IF st = "done" THEN 0 ELSE CountFuncs(prog.items[j]))
  BY <1>2, <1>3
<1> HIDE DEF s, t
<1>6. s \in Seq(Nat) /\ t \in Seq(Nat) /\ Len(s) = Len(t) /\ j \in 1..Len(s) /\ Len(s) = Len(prog.items)
  BY <1>1, <1>4, IsSequence
<1>7. SumOf(t) + s[j] = SumOf(s) + t[j]
  BY <1>1, <1>5, <1>6, SumExcept
<1> QED  BY <1>0, <1>5, <1>6, <1>7, SumIsNat DEF s, t

\* and to the friends that are still to come.
LEMMA FriendsChange ==
    ASSUME MrType, NEW j \in Items, NEW st, prog' = prog, mapper' = [mapper EXCEPT ![j] = st],
           prog.name = "flatmap"
    PROVE  /\ prog.items[j].friends \in Seq(Nat)
           /\ SumOf(FriendsToCome')
                + (IF mapper[j] \in {"none", "map"} THEN Len(prog.items[j].friends) ELSE 0)
                = SumOf(FriendsToCome)
                  + (IF st \in {"none", "map"} THEN Len(prog.items[j].friends) ELSE 0)
           /\ SumOf(FriendsToCome') \in Nat /\ SumOf(FriendsToCome) \in Nat
<1> DEFINE s == FriendsToCome  t == FriendsToCome'
<1>1. Len(prog.items) \in Nat /\ Items = 1..Len(prog.items)
  BY ItemsAreCounted DEF MrType, Items
<1>2. mapper'[j] = st /\ \A k \in Items : k # j => mapper'[k] = mapper[k]
  BY StateChanges
<1>3. /\ s = [k \in Items |-> IF mapper[k] \in {"none", "map"} THEN Len(prog.items[k].friends) ELSE 0]
      /\ t = [k \in Items |-> IF mapper'[k] \in {"none", "map"} THEN Len(prog.items[k].friends) ELSE 0]
  BY SameProgram DEF FriendsToCome
<1>0. \A k \in Items : prog.items[k].friends \in Seq(Nat) /\ Len(prog.items[k].friends) \in Nat
  <2>1. \A k \in Items : prog.items[k].friends \in Seq(Nat)
    BY Addends
  <2> QED  BY <2>1
<1>4. s \in [1..Len(prog.items) -> Nat] /\ t \in [1..Len(prog.items) -> Nat]
  BY <1>0, <1>1, <1>3
<1>5. /\ \A k \in Items : k # j => s[k] = t[k]
      /\ s[j] = (IF mapper[j] \in {"none", "map"} THEN Len(prog.items[j].friends) ELSE 0)
      /\ t[j] = (IF st \in {"none", "map"} THEN Len(prog.items[j].friends) ELSE 0)
  BY <1>2, <1>3
<1> HIDE DEF s, t
<1>6. s \in Seq(Nat) /\ t \in Seq(Nat) /\ Len(s) = Len(t) /\ j \in 1..Len(s) /\ Len(s) = Len(prog.items)
  BY <1>1, <1>4, IsSequence
<1>7. SumOf(t) + s[j] = SumOf(s) + t[j]
  BY <1>1, <1>5, <1>6, SumExcept
<1> QED  BY <1>0, <1>5, <1>6, <1>7, SumIsNat DEF s, t

\* The same number on both sides.
LEMMA Cancels ==
    ASSUME NEW a \in Nat, NEW b \in Nat, NEW c \in Nat, a + c = b + c
    PROVE  a = b
OBVIOUS

\* The executor starts a mapper.
LEMMA DispatchInv ==
    ASSUME MrInv, Dispatch
    PROVE  MrInv'
<1> USE DEF MrInv
<1> DEFINE j == sent + 1
<1>0. Len(prog.items) \in Nat /\ Items = 1..Len(prog.items) /\ prog # Idle /\ sent \in Nat
  <2>1. Len(prog.items) \in Nat /\ sent \in 0..Len(prog.items)
    BY ItemsAreCounted DEF MrType
  <2> QED  BY <2>1 DEF Items, Dispatch, Started
<1>1. /\ exec = "dispatch" /\ gen = "run" /\ sent < Len(prog.items) /\ sent' = sent + 1
      /\ mapper' = [mapper EXCEPT ![j] = "map"]
      /\ UNCHANGED <<prog, gen, exec, coll, red, acc, done, retErr, count, panicked, ret>>
  BY DEF Dispatch
<1>2. j \in Items /\ j > sent /\ \A k \in Items : k > j => k > sent
  BY <1>0, <1>1
<1>3. mapper[j] = "none"
  BY <1>2 DEF Control, Reached
<1> HIDE DEF j
<1>4. /\ mapper'[j] = "map" /\ \A k \in Items : k # j => mapper'[k] = mapper[k]
      /\ mapper' \in [Items -> MapperState]
  BY <1>1, <1>2, StateChanges DEF MapperState
<1>5. MrType'
  <2>1. sent' \in 0..Len(prog.items)
    BY <1>0, <1>1
  <2> QED  BY <1>1, <1>4, <2>1, SameProgram DEF MrType
<1>6. Reached'
  <2>1. \A k \in Items : k > sent' => mapper'[k] = "none"
    BY <1>0, <1>1, <1>2, <1>4 DEF Control, Reached, j
  <2>2. Clean => \A k \in Items : k <= sent' => mapper'[k] # "none"
    <3> SUFFICES ASSUME Clean, NEW k \in Items, k <= sent' PROVE mapper'[k] # "none"
      OBVIOUS
    <3>1. CASE k = j
      BY <1>4, <3>1
    <3>2. CASE k # j
      <4>1. k <= sent
        BY <1>0, <1>1, <3>2 DEF j
      <4> QED  BY <1>4, <3>2, <4>1 DEF Control, Reached
    <3> QED  BY <3>1, <3>2
  <2> QED  BY <1>1, <2>1, <2>2, SameProgram DEF Reached, Clean
<1>7. Closed' /\ Panics' /\ Failures'
  BY <1>1, <1>2, <1>3, <1>4, SameProgram DEF Control, Closed, Panics, Failures
<1>8. Control'
  BY <1>0, <1>1, <1>6, <1>7 DEF Control
<1>9. Data'
  <2>1. Values' = Values /\ (Good' <=> Good) /\ count' = count /\ acc' = acc
    BY <1>1 DEF Values, Good, Clean
  <2>2. EachOnce => EachOnce'
    <3>1. {k \in Writers : mapper'[k] = "done"} = {k \in Writers : mapper[k] = "done"}
      BY <1>2, <1>3, <1>4 DEF Writers
    <3> QED  BY <1>1, <2>1, <3>1, SameProgram DEF EachOnce
  <2>3. prog.name = "countfunc" => SumOf(ToCome') = SumOf(ToCome)
    <3> SUFFICES ASSUME prog.name = "countfunc" PROVE SumOf(ToCome') = SumOf(ToCome)
      OBVIOUS
    <3>1. /\ CountFuncs(prog.items[j]) \in Nat /\ SumOf(ToCome') \in Nat /\ SumOf(ToCome) \in Nat
          /\ SumOf(ToCome') + CountFuncs(prog.items[j]) = SumOf(ToCome) + CountFuncs(prog.items[j])
      <4>1. /\ CountFuncs(prog.items[j]) \in Nat /\ SumOf(ToCome') \in Nat /\ SumOf(ToCome) \in Nat
            /\ SumOf(ToCome') + (IF mapper[j] = "done" THEN 0 ELSE CountFuncs(prog.items[j]))
                 = SumOf(ToCome) + (IF "map" = "done" THEN 0 ELSE CountFuncs(prog.items[j]))
        BY <1>1, <1>2, ToComeChanges
      <4>2. mapper[j] # "done"
        BY <1>3
      <4> QED  BY <4>1, <4>2
    <3> QED  BY <3>1, Cancels
  <2>4. prog.name = "flatmap" => SumOf(FriendsToCome') = SumOf(FriendsToCome)
    <3> SUFFICES ASSUME prog.name = "flatmap" PROVE SumOf(FriendsToCome') = SumOf(FriendsToCome)
      OBVIOUS
    <3>1. /\ prog.items[j].friends \in Seq(Nat)
          /\ SumOf(FriendsToCome') + Len(prog.items[j].friends)
               = SumOf(FriendsToCome) + Len(prog.items[j].friends)
          /\ SumOf(FriendsToCome') \in Nat /\ SumOf(FriendsToCome) \in Nat
      BY <1>1, <1>2, <1>3, FriendsChange
    <3>2. Len(prog.items[j].friends) \in Nat
      BY <3>1
    <3> QED  BY <3>1, <3>2, Cancels
  <2>5. \A states : mapper[j] \notin states /\ "map" \notin states =>
           SumOf(In(states)') = SumOf(In(states))
    <3> SUFFICES ASSUME NEW states, mapper[j] \notin states, "map" \notin states
                 PROVE  SumOf(In(states)') = SumOf(In(states))
      OBVIOUS
    <3>1. /\ SumOf(In(states)') + 0 = SumOf(In(states)) + 0
          /\ SumOf(In(states)') \in Nat /\ SumOf(In(states)) \in Nat
      BY <1>1, <1>2, InChanges
    <3> QED  BY <3>1, Cancels
  <2>6. SumOf(In({"write"})') = SumOf(In({"write"})) /\ SumOf(In({"write", "done"})') = SumOf(In({"write", "done"}))
    BY <1>3, <2>5
  <2> QED  BY <1>1, <2>1, <2>2, <2>3, <2>4, <2>5, <2>6, SameProgram, Kinds DEF Data
<1>10. CompleteResult'
  <2>1. ret.kind \notin {"value", "nil", "nooutput"}
    BY <1>2, <1>3 DEF CompleteResult
  <2> QED  BY <1>1, <2>1, CompleteSame
<1> QED  BY <1>5, <1>8, <1>9, <1>10

\* Of n numbers, every e-th is left out.
LEMMA EveryNth ==
    ASSUME NEW n \in Nat, NEW e \in Nat \ {0}
    PROVE  (n + 1) \div e = IF (n + 1) % e = 0 THEN (n \div e) + 1 ELSE n \div e
OBVIOUS

\* A mapper's body, up to its call of writer or cancel: what it does to itself.
MapsTo(j, st, out) ==
    /\ out = "write" => st = IF done THEN "done" ELSE "write"
    /\ out \in {"skip", "append"} => st = "done"
    /\ out = "panic" => st = IF panicked = "no" THEN "panic" ELSE "done"
    /\ out \notin {"write", "skip", "append", "panic"} => st = out
    /\ mapper' = [mapper EXCEPT ![j] = st]
    /\ panicked' = IF out = "panic" /\ panicked = "no" THEN "pending" ELSE panicked
    /\ retErr' = (retErr \/ out \in {"cancel", "cancelwrite"})
    /\ acc' = IF out = "append" THEN acc \o prog.items[j].friends ELSE acc
    /\ count' = IF /\ prog.name = "countfunc" /\ prog.mode # ""
                   /\ ~prog.items[j].stop /\ LinesEnd(prog.items[j])
                THEN count + 1 ELSE count

\* The state it leaves the mapper in has a name.
LEMMA MapItemMapsTo ==
    ASSUME MrType, NEW j \in Items, MapItem(j)
    PROVE  \E st \in MapperState : MapsTo(j, st, Outcome(j, count + 1))
<1> DEFINE out == Outcome(j, count + 1)
           st == CASE out = "write" -> IF done THEN "done" ELSE "write"
                   [] out \in {"skip", "append"} -> "done"
                   [] out = "panic" -> IF panicked = "no" THEN "panic" ELSE "done"
                   [] OTHER -> out
<1>1. count \in Nat /\ done \in BOOLEAN
  BY DEF MrType
<1>2. out \in {"write", "skip", "cancel", "cancelwrite", "panic", "hang", "append"}
  BY <1>1, ItemsOfSome, Outcomes
<1>3. MapItem(j)
  OBVIOUS
<1>4. /\ mapper' = [mapper EXCEPT ![j] = st]
      /\ panicked' = IF out = "panic" /\ panicked = "no" THEN "pending" ELSE panicked
      /\ retErr' = (retErr \/ out \in {"cancel", "cancelwrite"})
      /\ acc' = IF out = "append" THEN acc \o prog.items[j].friends ELSE acc
      /\ count' = IF /\ prog.name = "countfunc" /\ prog.mode # ""
                     /\ ~prog.items[j].stop /\ LinesEnd(prog.items[j])
                  THEN count + 1 ELSE count
  BY <1>3 DEF MapItem
<1> HIDE DEF out
<1>5. st \in MapperState
  BY <1>1, <1>2 DEF MapperState
<1>6. MapsTo(j, st, out)
  <2>1. /\ out = "write" => st = IF done THEN "done" ELSE "write"
        /\ out \in {"skip", "append"} => st = "done"
        /\ out = "panic" => st = IF panicked = "no" THEN "panic" ELSE "done"
        /\ out \notin {"write", "skip", "append", "panic"} => st = out
    BY <1>2
  <2> HIDE DEF st
  <2> QED  BY <1>4, <2>1 DEF MapsTo
<1> HIDE DEF st
<1> QED  BY <1>5, <1>6 DEF out

\* The mapper runs: the values that are not yet written.
LEMMA MapItemData ==
    ASSUME MrInv, NEW j \in Items, mapper[j] = "map", NEW st \in MapperState,
           MapsTo(j, st, Outcome(j, count + 1)),
           UNCHANGED <<prog, sent, gen, exec, coll, red, done, ret>>
    PROVE  Data'
<1> USE DEF MrInv
<1> DEFINE out == Outcome(j, count + 1)
<1>0. IsProgram(prog) /\ Kind(prog) /\ count \in Nat
  BY ItemsOfSome DEF MrType
<1>1. /\ out \in {"write", "skip", "cancel", "cancelwrite", "panic", "hang", "append"}
      /\ out = "append" <=> prog.name = "flatmap"
      /\ prog.name # "countfunc" => out = Outcome(j, 1) /\ out \notin {"hang", "panic"}
      /\ prog.name = "countfunc" =>
           /\ out \in {"cancel", "hang", "write", "skip", "panic"}
           /\ out = "skip" => prog.mode = "return"
      /\ prog.mode = "return" =>
           /\ prog.name = "countfunc"
           /\ prog.items[j].stop \/ ~LinesEnd(prog.items[j]) => out \in {"cancel", "hang"}
           /\ ~prog.items[j].stop /\ LinesEnd(prog.items[j]) =>
                out = IF (count + 1) % Every = 0 THEN "skip" ELSE "write"
  BY <1>0, Outcomes
<1>2. MapsTo(j, st, out) /\ mapper' = [mapper EXCEPT ![j] = st]
  BY DEF MapsTo
<1> HIDE DEF out
<1>3. mapper'[j] = st /\ \A k \in Items : k # j => mapper'[k] = mapper[k]
  BY <1>2, StateChanges
<1>4. Good' => Good /\ ~done /\ out \in {"write", "skip", "hang", "append"}
  BY <1>1, <1>2 DEF Good, Clean, MapsTo, Control, Closed
<1>5. out # "append" => acc' = acc /\ Values' = Values
  BY <1>2 DEF MapsTo, Values
<1>6. ASSUME Good', prog.name # "countfunc" PROVE EachOnce'
  <2>1. prog.name # "flatmap" /\ EachOnce
    BY <1>4, <1>6 DEF Good, Control, Closed, Data
  <2>2. {k \in Writers : mapper'[k] = "done"} = {k \in Writers : mapper[k] = "done"}
    <3>1. out \in {"write", "skip"} /\ out = Outcome(j, 1)
      BY <1>1, <1>4, <1>6, <2>1
    <3>2. CASE out = "write"
      <4>1. mapper'[j] = "write"
        BY <1>2, <1>3, <1>4, <1>6, <3>2 DEF MapsTo
      <4> QED  BY <1>3, <4>1 DEF Writers
    <3>3. CASE out = "skip"
      <4>1. j \notin Writers
        BY <3>1, <3>3 DEF Writers
      <4> QED  BY <1>3, <4>1 DEF Writers
    <3> QED  BY <3>1, <3>2, <3>3
  <2>3. Values' = Values
    BY <1>1, <1>5, <2>1
  <2> QED  BY <2>1, <2>2, <2>3, SameProgram DEF EachOnce
<1>7. ASSUME Good', prog.name = "countfunc", prog.mode # "return"
      PROVE  SumOf(Values') + SumOf(ToCome') = SumOf(Counts')
  <2>1. out \in {"write", "hang"} /\ st # "done"
    BY <1>1, <1>2, <1>4, <1>7 DEF MapsTo
  <2>2. /\ CountFuncs(prog.items[j]) \in Nat /\ SumOf(ToCome') \in Nat /\ SumOf(ToCome) \in Nat
        /\ SumOf(ToCome') + (IF mapper[j] = "done" THEN 0 ELSE CountFuncs(prog.items[j]))
             = SumOf(ToCome) + (IF st = "done" THEN 0 ELSE CountFuncs(prog.items[j]))
    BY <1>2, <1>7, ToComeChanges
  <2>3. SumOf(ToCome') = SumOf(ToCome)
    <3>1. SumOf(ToCome') + CountFuncs(prog.items[j]) = SumOf(ToCome) + CountFuncs(prog.items[j])
      BY <2>1, <2>2
    <3> QED  BY <2>2, <3>1, Cancels
  <2>4. SumOf(Values) + SumOf(ToCome) = SumOf(Counts)
    BY <1>4, <1>7 DEF Data
  <2>5. Values' = Values /\ Counts' = Counts
    BY <1>5, <2>1, SameProgram
  <2> QED  BY <2>3, <2>4, <2>5
<1>8. ASSUME Good', prog.mode = "return"
      PROVE  /\ Len(Values') + SumOf(In({"write"})') = count' - (count' \div Every)
             /\ count' = SumOf(In({"write", "done"})')
  <2> DEFINE w == SumOf(In({"write"}))  v == SumOf(In({"write"})')
             d == SumOf(In({"write", "done"}))  e == SumOf(In({"write", "done"})')
             n == Len(Values)
  <2>1. Values' = Values /\ prog.name = "countfunc"
    BY <1>1, <1>5, <1>8
  <2>2. n + w = count - (count \div Every) /\ count = d
    BY <1>4, <1>8 DEF Data
  <2>3. n \in Nat
    <3>1. Values \in Seq(Nat)
      BY DEF Values, MrType
    <3> QED  BY <3>1
  <2>4. /\ v + (IF mapper[j] \in {"write"} THEN 1 ELSE 0) = w + (IF st \in {"write"} THEN 1 ELSE 0)
        /\ v \in Nat /\ w \in Nat
    BY <1>2, InChanges
  <2>5. /\ e + (IF mapper[j] \in {"write", "done"} THEN 1 ELSE 0)
             = d + (IF st \in {"write", "done"} THEN 1 ELSE 0)
        /\ e \in Nat /\ d \in Nat
    BY <1>2, InChanges
  <2>6. n = Len(Values')
    BY <2>1
  <2> HIDE DEF n, v, w, d, e
  <2>7. CASE prog.items[j].stop \/ ~LinesEnd(prog.items[j])
    <3>1. out = "hang" /\ st = "hang" /\ count' = count
      BY <1>1, <1>2, <1>4, <1>8, <2>7 DEF MapsTo
    <3>2. v = w /\ e = d
      BY <2>4, <2>5, <3>1
    <3>3. n + v = count' - (count' \div Every) /\ count' = e
      BY <2>2, <3>1, <3>2
    <3> QED  BY <2>6, <3>3 DEF v, e
  <2>8. CASE ~prog.items[j].stop /\ LinesEnd(prog.items[j])
    <3>1. count' = count + 1 /\ out = IF (count + 1) % Every = 0 THEN "skip" ELSE "write"
      BY <1>1, <1>2, <1>8, <2>1, <2>8 DEF MapsTo
    <3>2. (count + 1) \div Every = IF (count + 1) % Every = 0 THEN (count \div Every) + 1 ELSE count \div Every
      BY <1>0, MrAssumption, EveryNth
    <3> DEFINE f == count \div Every  g == (count + 1) \div Every
    <3>3. CASE (count + 1) % Every = 0
      <4>1. st = "done"
        BY <1>2, <3>1, <3>3 DEF MapsTo
      <4>2. v = w /\ e = d + 1
        BY <2>4, <2>5, <4>1
      <4>3. g = f + 1 /\ n + w = count - f /\ f \in Int
        BY <1>0, <2>2, <3>2, <3>3, MrAssumption
      <4> HIDE DEF f, g
      <4>4. n + v = (count + 1) - g /\ count + 1 = e
        BY <1>0, <2>2, <2>3, <2>4, <4>2, <4>3
      <4> QED  BY <2>6, <3>1, <4>4 DEF v, e, g
    <3>4. CASE (count + 1) % Every # 0
      <4>1. st = "write"
        BY <1>2, <1>4, <1>8, <3>1, <3>4 DEF MapsTo
      <4>2. v = w + 1 /\ e = d + 1
        BY <2>4, <2>5, <4>1
      <4>3. g = f /\ n + w = count - f /\ f \in Int
        BY <1>0, <2>2, <3>2, <3>4, MrAssumption
      <4> HIDE DEF f, g
      <4>4. n + v = (count + 1) - g /\ count + 1 = e
        BY <1>0, <2>2, <2>3, <2>4, <4>2, <4>3
      <4> QED  BY <2>6, <3>1, <4>4 DEF v, e, g
    <3> QED  BY <3>3, <3>4
  <2> QED  BY <2>7, <2>8
<1>9. ASSUME prog.name = "flatmap" PROVE Len(acc') + SumOf(FriendsToCome') = SumOf(Friends')
  <2> DEFINE a == acc  b == prog.items[j].friends
  <2>1. out = "append" /\ st = "done" /\ acc' = a \o b
    BY <1>1, <1>2, <1>9 DEF MapsTo
  <2>2. /\ b \in Seq(Nat)
        /\ SumOf(FriendsToCome') + (IF mapper[j] \in {"none", "map"} THEN Len(b) ELSE 0)
             = SumOf(FriendsToCome) + (IF st \in {"none", "map"} THEN Len(b) ELSE 0)
        /\ SumOf(FriendsToCome') \in Nat /\ SumOf(FriendsToCome) \in Nat
    BY <1>2, <1>9, FriendsChange
  <2>3. a \in Seq(Nat)
    BY DEF MrType
  <2> HIDE DEF b
  <2>4. Len(acc') = Len(a) + Len(b) /\ Len(a) \in Nat /\ Len(b) \in Nat
    BY <2>1, <2>2, <2>3
  <2>5. SumOf(FriendsToCome') + Len(b) = SumOf(FriendsToCome) + 0
    BY <2>1, <2>2
  <2>6. Len(a) + SumOf(FriendsToCome) = SumOf(Friends) /\ Friends' = Friends
    BY <1>9, SameProgram DEF Data
  <2> QED  BY <2>2, <2>4, <2>5, <2>6
<1> QED  BY <1>6, <1>7, <1>8, <1>9 DEF Data

\* The mapper runs.
LEMMA MapItemInv ==
    ASSUME MrInv, NEW j \in Items, MapItem(j)
    PROVE  MrInv'
<1> USE DEF MrInv
<1> DEFINE out == Outcome(j, count + 1)
<1>0. IsProgram(prog) /\ Kind(prog) /\ prog # Idle /\ count \in Nat /\ Items = 1..Len(prog.items)
  BY ItemsOfSome DEF MrType
<1>1. /\ mapper[j] = "map" /\ UNCHANGED <<prog, sent, gen, exec, coll, red, done, ret>>
  BY DEF MapItem
<1>2. PICK st \in MapperState : MapsTo(j, st, out)
  BY MapItemMapsTo
<1>3. /\ out \in {"write", "skip", "cancel", "cancelwrite", "panic", "hang", "append"}
      /\ Fails(prog.items[j]) => out \in {"cancel", "cancelwrite"}
      /\ out = "append" <=> prog.name = "flatmap"
      /\ prog.name # "countfunc" => out = Outcome(j, 1) /\ out \notin {"hang", "panic"}
  BY <1>0, Outcomes
<1>4. Data'
  BY <1>1, <1>2, MapItemData
<1> HIDE DEF out
<1>5. /\ mapper' = [mapper EXCEPT ![j] = st]
      /\ mapper'[j] = st /\ \A k \in Items : k # j => mapper'[k] = mapper[k]
      /\ mapper' \in [Items -> MapperState]
  BY <1>1, <1>2, StateChanges DEF MapsTo
<1>6. MrType'
  <2>1. acc \in Seq(Nat) /\ panicked \in {"no", "pending", "taken"} /\ retErr \in BOOLEAN
    BY DEF MrType
  <2>2. acc' \in Seq(Nat)
    <3>1. CASE out = "append"
      <4>1. prog.items[j].friends \in Seq(Nat)
        BY <1>3, <3>1, Addends
      <4>2. acc' = acc \o prog.items[j].friends
        BY <1>2, <3>1 DEF MapsTo
      <4> QED  BY <2>1, <4>1, <4>2
    <3>2. CASE out # "append"
      BY <1>2, <2>1, <3>2 DEF MapsTo
    <3> QED  BY <3>1, <3>2
  <2>3. panicked' \in {"no", "pending", "taken"}
    BY <1>2, <2>1 DEF MapsTo
  <2>4. count' \in Nat
    <3>1. count' = count + 1 \/ count' = count
      BY <1>2, Zenon DEF MapsTo
    <3> QED  BY <1>0, <3>1
  <2>5. retErr' \in BOOLEAN
    BY <1>2, Zenon DEF MapsTo
  <2> QED  BY <1>1, <1>5, <2>2, <2>3, <2>4, <2>5, SameProgram DEF MrType
<1>7. st # "none" /\ (retErr => retErr') /\ (Clean' => Clean)
  BY <1>2, <1>3 DEF MapsTo, Clean
<1>8. exec # "closed" /\ ~(j > sent)
  BY <1>1 DEF Control, Closed, Reached
<1>9. Reached'
  BY <1>1, <1>5, <1>7, <1>8, SameProgram DEF Control, Reached
<1>10. Closed'
  BY <1>1, <1>7, <1>8, SameProgram DEF Control, Closed
<1>11. Panics'
  <2>1. panicked' = "pending" => gen = "panic" \/ \E k \in Items : mapper'[k] = "panic"
    <3>1. CASE out = "panic" /\ panicked = "no"
      BY <1>2, <1>5, <3>1 DEF MapsTo
    <3>2. CASE ~(out = "panic" /\ panicked = "no")
      <4>1. panicked' = panicked
        BY <1>2, <3>2 DEF MapsTo
      <4> QED  BY <1>1, <1>5, <4>1 DEF Control, Panics
    <3> QED  BY <3>1, <3>2
  <2>2. panicked # "no" => panicked' # "no"
    BY <1>2 DEF MapsTo
  <2> QED  BY <1>1, <2>1, <2>2, SameProgram DEF Control, Panics
<1>12. Failures'
  <2>1. st \in {"cancel", "cancelwrite"} => retErr'
    BY <1>2, <1>3 DEF MapsTo
  <2>2. Fails(prog.items[j]) => retErr'
    BY <1>2, <1>3 DEF MapsTo
  <2>3. st = "write" /\ prog.name # "countfunc" => j \in Writers
    BY <1>2, <1>3 DEF MapsTo, Writers
  <2> QED  BY <1>1, <1>5, <1>7, <2>1, <2>2, <2>3, SameProgram DEF Control, Failures
<1>13. Control'
  BY <1>0, <1>1, <1>9, <1>10, <1>11, <1>12 DEF Control
<1>14. CompleteResult'
  <2>1. ret.kind \notin {"value", "nil", "nooutput"}
    BY <1>1 DEF CompleteResult
  <2> QED  BY <1>1, <2>1, CompleteSame
<1> QED  BY <1>4, <1>6, <1>13, <1>14

\* A value that was not there.
LEMMA OnceMore ==
    ASSUME NEW s \in Seq(Nat), NEW v \in Nat, v \notin {s[j] : j \in DOMAIN s},
           \A j, k \in DOMAIN s : s[j] = s[k] => j = k
    PROVE  /\ \A j, k \in DOMAIN Append(s, v) : Append(s, v)[j] = Append(s, v)[k] => j = k
           /\ {Append(s, v)[j] : j \in DOMAIN Append(s, v)} = {s[j] : j \in DOMAIN s} \cup {v}
<1> DEFINE t == Append(s, v)  N == Len(s)
<1>1. /\ N \in Nat /\ DOMAIN s = 1..N /\ DOMAIN t = 1..(N + 1) /\ t[N + 1] = v
      /\ \A j \in 1..N : t[j] = s[j]
  OBVIOUS
<1> HIDE DEF t, N
<1>2. \A j \in 1..(N + 1) : j \in 1..N \/ j = N + 1
  BY <1>1
<1>3. \A j \in 1..N : j \in 1..(N + 1)
  BY <1>1
<1>4. N + 1 \in 1..(N + 1)
  BY <1>1
<1>5. \A j, k \in DOMAIN t : t[j] = t[k] => j = k
  BY <1>1, <1>2
<1>6. {t[j] : j \in DOMAIN t} = {s[j] : j \in DOMAIN s} \cup {v}
  BY <1>1, <1>2, <1>3, <1>4
<1> QED  BY <1>5, <1>6 DEF t

\* A mapper's value goes to the collector.
LEMMA WriteItemInv ==
    ASSUME MrInv, NEW j \in Items, WriteItem(j)
    PROVE  MrInv'
<1> USE DEF MrInv
<1>0. IsProgram(prog) /\ Kind(prog) /\ prog # Idle /\ Len(prog.items) \in Nat /\ Items = 1..Len(prog.items)
  BY ItemsOfSome
<1>1. /\ mapper[j] = "write" /\ coll' = Append(coll, ValueOf(j))
      /\ mapper' = [mapper EXCEPT ![j] = "done"]
      /\ UNCHANGED <<prog, sent, gen, exec, red, acc, done, retErr, count, panicked, ret>>
  BY DEF WriteItem
<1>2. /\ mapper'[j] = "done" /\ \A k \in Items : k # j => mapper'[k] = mapper[k]
      /\ mapper' \in [Items -> MapperState]
  BY <1>1, StateChanges DEF MapperState
<1>3. ValueOf(j) \in Nat
  <2>1. CASE prog.name = "countfunc"
    BY <2>1, Addends DEF ValueOf
  <2>2. CASE prog.name # "countfunc"
    BY <1>0, <2>2 DEF ValueOf
  <2> QED  BY <2>1, <2>2
<1>4. MrType'
  <2>1. coll' \in Seq(Nat)
    <3>1. coll \in Seq(Nat)
      BY DEF MrType
    <3> QED  BY <1>1, <1>3, <3>1
  <2> QED  BY <1>1, <1>2, <2>1, SameProgram DEF MrType
<1>5. exec # "closed" /\ ~(j > sent)
  BY <1>1 DEF Control, Closed, Reached
<1>6. Reached' /\ Closed' /\ Panics' /\ Failures'
  <2>1. Reached'
    BY <1>1, <1>2, <1>5, SameProgram DEF Control, Reached, Clean
  <2>2. Closed' /\ Panics' /\ Failures'
    BY <1>1, <1>2, <1>5, SameProgram DEF Control, Closed, Panics, Failures
  <2> QED  BY <2>1, <2>2
<1>7. Control'
  BY <1>0, <1>1, <1>6 DEF Control
<1>8. Data'
  <2>1. Good' <=> Good
    BY <1>1 DEF Good, Clean
  <2>2. Values \in Seq(Nat) /\ Values' = Append(Values, ValueOf(j))
    <3>1. acc \in Seq(Nat) /\ coll \in Seq(Nat)
      BY DEF MrType
    <3> QED  BY <1>1, <1>3, <3>1, AppendMoves DEF Values
  <2>3. ASSUME Good, prog.name # "countfunc" PROVE EachOnce'
    <3>1. EachOnce /\ ValueOf(j) = j /\ j \in Writers
      BY <1>1, <2>3 DEF Data, ValueOf, Control, Failures
    <3>2. j \notin {k \in Writers : mapper[k] = "done"}
      BY <1>1
    <3> DEFINE s == Values  t == Append(s, j)
    <3>3. /\ s \in Seq(Nat) /\ j \in Nat /\ j \notin {s[k] : k \in DOMAIN s}
          /\ \A k, l \in DOMAIN s : s[k] = s[l] => k = l
      BY <1>3, <2>2, <3>1, <3>2 DEF EachOnce
    <3> HIDE DEF s
    <3>4. /\ \A k, l \in DOMAIN t : t[k] = t[l] => k = l
          /\ {t[k] : k \in DOMAIN t} = {s[k] : k \in DOMAIN s} \cup {j}
      BY <3>3, OnceMore
    <3>5. {s[k] : k \in DOMAIN s} = {k \in Writers : mapper[k] = "done"}
      BY <3>1 DEF s, EachOnce
    <3>6. {k \in Writers : mapper'[k] = "done"} = {k \in Writers : mapper[k] = "done"} \cup {j}
      BY <1>2, <3>1 DEF Writers
    <3>7. Values' = t
      BY <2>2, <3>1 DEF s
    <3> HIDE DEF t
    <3>8. {t[k] : k \in DOMAIN t} = {k \in Writers : mapper'[k] = "done"}
      BY <3>4, <3>5, <3>6
    <3> QED  BY <1>1, <3>4, <3>7, <3>8, SameProgram DEF EachOnce
  <2>4. ASSUME Good, prog.name = "countfunc", prog.mode # "return"
        PROVE  SumOf(Values') + SumOf(ToCome') = SumOf(Counts')
    <3> DEFINE x == CountFuncs(prog.items[j])
    <3>1. SumOf(Values') = SumOf(Values) + x /\ x \in Nat
      BY <1>3, <2>2, <2>4, SumAppend DEF ValueOf
    <3>2. /\ SumOf(ToCome') \in Nat /\ SumOf(ToCome) \in Nat
          /\ SumOf(ToCome') + (IF mapper[j] = "done" THEN 0 ELSE x)
               = SumOf(ToCome) + (IF "done" = "done" THEN 0 ELSE x)
      BY <1>1, <2>4, ToComeChanges
    <3>3. SumOf(ToCome') + x = SumOf(ToCome)
      BY <1>1, <3>1, <3>2
    <3>4. SumOf(Values) + SumOf(ToCome) = SumOf(Counts) /\ Counts' = Counts
      BY <1>1, <2>4, SameProgram DEF Data
    <3>5. SumOf(Values) \in Nat
      BY <2>2, SumIsNat
    <3> HIDE DEF x
    <3> QED  BY <3>1, <3>2, <3>3, <3>4, <3>5
  <2>5. ASSUME Good, prog.mode = "return"
        PROVE  /\ Len(Values') + SumOf(In({"write"})') = count' - (count' \div Every)
               /\ count' = SumOf(In({"write", "done"})')
    <3> DEFINE w == SumOf(In({"write"}))  v == SumOf(In({"write"})')
               d == SumOf(In({"write", "done"}))  e == SumOf(In({"write", "done"})')
               n == Len(Values)
    <3>1. /\ v + (IF mapper[j] \in {"write"} THEN 1 ELSE 0) = w + (IF "done" \in {"write"} THEN 1 ELSE 0)
          /\ v \in Nat /\ w \in Nat
      BY <1>1, InChanges
    <3>2. /\ e + (IF mapper[j] \in {"write", "done"} THEN 1 ELSE 0)
               = d + (IF "done" \in {"write", "done"} THEN 1 ELSE 0)
          /\ e \in Nat /\ d \in Nat
      BY <1>1, InChanges
    <3>3. n + w = count - (count \div Every) /\ count = d
      BY <2>5 DEF Data
    <3>4. Len(Values') = n + 1 /\ n \in Nat
      BY <1>3, <2>2
    <3> DEFINE x == count - (count \div Every)
    <3>5. count' - (count' \div Every) = x /\ n + w = x
      BY <1>1, <3>3
    <3> HIDE DEF n, w, v, d, e, x
    <3>6. v + 1 = w /\ e = d
      BY <1>1, <3>1, <3>2
    <3>7. (n + 1) + v = x
      BY <3>1, <3>4, <3>5, <3>6
    <3> QED  BY <1>1, <3>3, <3>4, <3>5, <3>6, <3>7 DEF v, e
  <2>6. ASSUME prog.name = "flatmap" PROVE Len(acc') + SumOf(FriendsToCome') = SumOf(Friends')
    <3>1. /\ SumOf(FriendsToCome') + 0 = SumOf(FriendsToCome) + 0
          /\ SumOf(FriendsToCome') \in Nat /\ SumOf(FriendsToCome) \in Nat
      <4>1. /\ SumOf(FriendsToCome')
                 + (IF mapper[j] \in {"none", "map"} THEN Len(prog.items[j].friends) ELSE 0)
                 = SumOf(FriendsToCome)
                   + (IF "done" \in {"none", "map"} THEN Len(prog.items[j].friends) ELSE 0)
            /\ SumOf(FriendsToCome') \in Nat /\ SumOf(FriendsToCome) \in Nat
        BY <1>1, <2>6, FriendsChange
      <4>2. mapper[j] \notin {"none", "map"} /\ "done" \notin {"none", "map"}
        BY <1>1
      <4> QED  BY <4>1, <4>2
    <3>2. SumOf(FriendsToCome') = SumOf(FriendsToCome)
      BY <3>1, Cancels
    <3> QED  BY <1>1, <2>6, <3>2, SameProgram DEF Data
  <2> QED  BY <1>1, <2>1, <2>3, <2>4, <2>5, <2>6 DEF Data
<1>9. CompleteResult'
  <2>1. ret.kind \notin {"value", "nil", "nooutput"}
    BY <1>1 DEF CompleteResult
  <2> QED  BY <1>1, <2>1, CompleteSame
<1> QED  BY <1>4, <1>7, <1>8, <1>9

\* A mapper that has cancelled ends.
LEMMA CancelFinishInv ==
    ASSUME MrInv, NEW j \in Items, CancelFinish(j)
    PROVE  MrInv'
<1> USE DEF MrInv
<1>0. prog # Idle
  BY ItemsOfSome
<1>1. /\ mapper[j] \in {"cancel", "cancelwrite"} /\ retErr /\ gen = "run" /\ done' = TRUE
      /\ mapper' = [mapper EXCEPT ![j] = "done"]
      /\ UNCHANGED <<prog, sent, gen, exec, coll, red, acc, retErr, count, panicked, ret>>
  BY DEF CancelFinish, SourceClosed, Control, Failures
<1>2. /\ mapper'[j] = "done" /\ \A k \in Items : k # j => mapper'[k] = mapper[k]
      /\ mapper' \in [Items -> MapperState]
  BY <1>1, StateChanges DEF MapperState
<1>3. MrType'
  BY <1>1, <1>2, SameProgram DEF MrType
<1>4. ~(j > sent)
  BY <1>1 DEF Control, Reached
<1>5. Reached'
  BY <1>1, <1>2, <1>4, SameProgram DEF Control, Reached, Clean
<1>6. Closed' /\ Panics' /\ Failures'
  BY <1>1, <1>2, SameProgram DEF Control, Closed, Panics, Failures
<1>7. Control'
  BY <1>0, <1>1, <1>5, <1>6 DEF Control
<1>8. Data'
  <2>1. \A k \in Items : mapper'[k] \in {"none", "map"} <=> mapper[k] \in {"none", "map"}
    BY <1>1, <1>2
  <2> QED  BY <1>1, <2>1, DataBad DEF Good, Clean
<1>9. CompleteResult'
  <2>1. ret.kind \notin {"value", "nil", "nooutput"}
    BY <1>1 DEF CompleteResult
  <2> QED  BY <1>1, <2>1, CompleteSame
<1> QED  BY <1>3, <1>7, <1>8, <1>9

\* The caller takes a panic, which ends the goroutine that sent it.
LEMMA CallerTakesPanicInv ==
    ASSUME MrInv, CallerTakesPanic
    PROVE  MrInv'
<1> USE DEF MrInv
<1>1. /\ panicked' = "taken" /\ ret.kind = "none" /\ gen' = "run"
      /\ mapper' = [k \in Items |-> IF mapper[k] = "panic" THEN "done" ELSE mapper[k]]
      /\ UNCHANGED <<prog, sent, exec, coll, red, acc, done, retErr, count, ret>>
  BY DEF CallerTakesPanic
<1>2. prog # Idle
  BY DEF Control, MrInit, CallerTakesPanic
<1>3. \A k \in Items : mapper'[k] = IF mapper[k] = "panic" THEN "done" ELSE mapper[k]
  BY <1>1
<1>4. mapper' \in [Items -> MapperState]
  BY <1>1 DEF MrType, MapperState
<1>5. MrType'
  BY <1>1, <1>4, SameProgram DEF MrType
<1>6. Reached' /\ Closed' /\ Panics' /\ Failures'
  <2>1. Reached'
    BY <1>1, <1>3, SameProgram DEF Control, Reached, Clean
  <2>2. Closed' /\ Panics' /\ Failures'
    BY <1>1, <1>3, SameProgram DEF Control, Closed, Panics, Failures
  <2> QED  BY <2>1, <2>2
<1>7. Control'
  BY <1>1, <1>2, <1>6 DEF Control
<1>8. Data'
  <2>1. \A k \in Items : mapper'[k] \in {"none", "map"} <=> mapper[k] \in {"none", "map"}
    BY <1>3
  <2> QED  BY <1>1, <2>1, DataBad DEF Good, Clean
<1>9. CompleteResult'
  BY <1>1, CompleteSame
<1> QED  BY <1>5, <1>7, <1>8, <1>9

\* main starts the program.
LEMMA MrMainInv ==
    ASSUME MrInv, MrMain
    PROVE  MrInv'
<1> USE DEF MrInv
<1>1. /\ prog = Idle /\ sent = 0 /\ exec = "dispatch" /\ coll = <<>> /\ acc = <<>> /\ done = FALSE
      /\ retErr = FALSE /\ count = 0 /\ ret = [kind |-> "none", val |-> <<>>]
      /\ UNCHANGED <<sent, exec, coll, acc, done, retErr, count, ret>>
  BY DEF MrMain, Control, MrInit
<1>2. PICK p \in MrPrograms :
       /\ prog' = p
       /\ mapper' = [k \in 1..Len(p.items) |-> "none"]
       /\ gen' = IF p.dir THEN "run" ELSE "panic"
       /\ red' = CASE p.reducer # "none" -> "range"
                   [] p.call \in {"ForEach", "FinishVoid"} -> "done"
                   [] OTHER -> "drain"
       /\ panicked' = IF p.dir THEN "no" ELSE "pending"
  BY DEF MrMain
<1>3. IsProgram(p) /\ Kind(p) /\ Len(p.items) \in Nat /\ p # Idle
  BY ProgramsAssumption, ItemsAreCounted
<1>4. Items' = 1..Len(p.items) /\ \A k \in Items' : mapper'[k] = "none"
  BY <1>2 DEF Items
<1>5. red' \in {"range", "done", "drain"} /\ (p.name = "flatmap" => red' = "done")
  <2>1. CASE p.reducer # "none"
    <3>1. p.name # "flatmap"
      BY <1>3, <2>1 DEF Kind
    <3>2. \/ red' = "range"
          \/ red' = "done" \/ red' = "drain"
      <4>1. CASE p.call \notin {"ForEach", "FinishVoid"}
        BY <1>2, <2>1, <4>1
      <4>2. CASE p.call \in {"ForEach", "FinishVoid"}
        BY <1>3, <2>1, <4>2 DEF Kind, Names
      <4> QED  BY <4>1, <4>2
    <3> QED  BY <3>1, <3>2
  <2>2. CASE p.reducer = "none" /\ p.call \in {"ForEach", "FinishVoid"}
    BY <1>2, <2>2
  <2>3. CASE p.reducer = "none" /\ p.call \notin {"ForEach", "FinishVoid"}
    <3>1. red' = "drain"
      BY <1>2, <2>3
    <3>2. p.name # "flatmap"
      BY <1>3, <2>3 DEF Kind
    <3> QED  BY <3>1, <3>2
  <2> QED  BY <2>1, <2>2, <2>3
<1>6. MrType'
  <2>1. <<>> \in Seq(Nat) /\ 0 \in 0..Len(p.items)
    BY <1>3
  <2>2. mapper' \in [Items' -> MapperState]
    BY <1>2, <1>4 DEF MapperState
  <2>3. gen' \in {"run", "panic"} /\ panicked' \in {"no", "pending", "taken"}
    BY <1>2
  <2>4. MapperState' = MapperState /\ IsProgram(prog')
    BY <1>2, <1>3 DEF MapperState
  <2> QED  BY <1>1, <1>2, <1>5, <2>1, <2>2, <2>3, <2>4 DEF MrType
<1>7. Reached' /\ Closed' /\ Panics' /\ Failures'
  <2>1. Reached'
    <3>1. \A k \in Items' : ~(k <= 0)
      BY <1>3, <1>4
    <3> QED  BY <1>1, <1>4, <3>1 DEF Reached
  <2>2. Closed'
    BY <1>1, <1>2, <1>5 DEF Closed
  <2>3. Panics'
    BY <1>1, <1>2 DEF Panics
  <2>4. Failures'
    BY <1>4, <1>5 DEF Failures
  <2> QED  BY <2>1, <2>2, <2>3, <2>4
<1>8. Control'
  BY <1>2, <1>3, <1>7 DEF Control
<1>9. Data'
  <2>1. Values' = <<>>
    BY <1>1 DEF Values
  <2>2. EachOnce'
    <3>1. {k \in Writers' : mapper'[k] = "done"} = {}
      <4>1. Writers' \subseteq Items'
        BY DEF Writers
      <4> QED  BY <1>4, <4>1
    <3>2. DOMAIN Values' = {}
      BY <2>1
    <3> QED  BY <3>1, <3>2 DEF EachOnce
  <2>3. ToCome' = Counts'
    BY <1>4 DEF ToCome, Counts
  <2>4. p.name = "countfunc" => SumOf(Values') + SumOf(ToCome') = SumOf(Counts')
    <3> SUFFICES ASSUME p.name = "countfunc" PROVE SumOf(Values') + SumOf(ToCome') = SumOf(Counts')
      OBVIOUS
    <3>1. \A k \in 1..Len(p.items) : CountFuncs(p.items[k]) \in Nat
      <4>1. p.items \in Seq(SourceFile)
        BY <1>3 DEF Kind
      <4>2. \A k \in 1..Len(p.items) : p.items[k] \in SourceFile
        BY <4>1, ElementOfSeq
      <4> QED  BY <4>2, CountIsNat
    <3>2. Counts' = [k \in 1..Len(p.items) |-> CountFuncs(p.items[k])]
      BY <1>2, <1>4 DEF Counts
    <3>3. Counts' \in [1..Len(p.items) -> Nat]
      BY <3>1, <3>2
    <3>4. SumOf(Counts') \in Nat
      BY <1>3, <3>3, IsSequence, SumIsNat
    <3> QED  BY <2>1, <2>3, <3>4, SumOfNothing
  <2>5. \A states : states \in SUBSET {"write", "done"} => SumOf(In(states)') = 0
    <3> SUFFICES ASSUME NEW states \in SUBSET {"write", "done"} PROVE SumOf(In(states)') = 0
      OBVIOUS
    <3>1. In(states)' = [k \in 1..Len(p.items) |-> 0]
      BY <1>4 DEF In
    <3> DEFINE s == In(states)'
    <3>2. s \in [1..Len(p.items) -> Nat]
      BY <3>1
    <3>3. \A k \in 1..Len(p.items) : s[k] = 0
      BY <3>1
    <3> HIDE DEF s
    <3>4. s \in Seq(Nat) /\ Len(s) = Len(p.items)
      BY <1>3, <3>2, IsSequence
    <3>5. SumOf(s) = 0
      BY <3>3, <3>4, SumConstant
    <3> QED  BY <3>5 DEF s
  <2>6. SumOf(In({"write"})') = 0 /\ SumOf(In({"write", "done"})') = 0
    BY <2>5
  <2>7. Len(Values') + SumOf(In({"write"})') = count' - (count' \div Every) /\ count' = SumOf(In({"write", "done"})')
    BY <1>1, <2>1, <2>6, MrAssumption
  <2>8. FriendsToCome' = Friends'
    BY <1>4 DEF FriendsToCome, Friends
  <2>9. p.name = "flatmap" => Len(acc') + SumOf(FriendsToCome') = SumOf(Friends')
    <3> SUFFICES ASSUME p.name = "flatmap" PROVE Len(acc') + SumOf(FriendsToCome') = SumOf(Friends')
      OBVIOUS
    <3>1. \A k \in 1..Len(p.items) : Len(p.items[k].friends) \in Nat
      <4>1. p.items \in Seq([friends : Seq(Nat)])
        BY <1>3 DEF Kind
      <4>2. \A k \in 1..Len(p.items) : p.items[k] \in [friends : Seq(Nat)]
        BY <4>1, ElementOfSeq
      <4> QED  BY <4>2
    <3>2. Friends' = [k \in 1..Len(p.items) |-> Len(p.items[k].friends)]
      BY <1>2, <1>4 DEF Friends
    <3>3. Friends' \in [1..Len(p.items) -> Nat]
      BY <3>1, <3>2
    <3>4. SumOf(Friends') \in Nat
      BY <1>3, <3>3, IsSequence, SumIsNat
    <3>5. Len(acc') = 0
      BY <1>1
    <3> QED  BY <2>8, <3>4, <3>5
  <2> QED  BY <1>2, <2>2, <2>4, <2>7, <2>9 DEF Data
<1>10. CompleteResult'
  <2>1. ret'.kind = "none"
    BY <1>1
  <2> QED  BY <2>1 DEF CompleteResult
<1> QED  BY <1>6, <1>8, <1>9, <1>10

\* Before main there are no items and no values.
LEMMA MrInitInv ==
    ASSUME MrInit
    PROVE  MrInv
<1> USE DEF MrInit
<1>1. Idle.items = <<>> /\ Idle.name = "idle" /\ Idle.mode = "" /\ Idle.dir = TRUE
  BY DEF Idle, Program
<1>2. prog = Idle /\ Items = {} /\ Len(prog.items) = 0
  <2>1. prog.items = <<>>
    BY <1>1
  <2>2. Len(prog.items) = 0
    BY <2>1
  <2> QED  BY <2>2 DEF Items
<1>3. MrType
  <2>1. mapper \in [Items -> MapperState]
    BY <1>2
  <2>2. <<>> \in Seq(Nat) /\ sent \in 0..Len(prog.items)
    BY <1>2
  <2> QED  BY <2>1, <2>2 DEF MrType
<1>4. Control
  BY <1>1, <1>2 DEF Control, Reached, Closed, Panics, Failures
<1>5. Data
  <2>1. Values = <<>>
    BY DEF Values
  <2>2. EachOnce
    <3>1. Writers = {}
      BY <1>2 DEF Writers
    <3>2. DOMAIN Values = {}
      BY <2>1
    <3> QED  BY <3>1, <3>2 DEF EachOnce
  <2> QED  BY <1>1, <2>2 DEF Data
<1>6. CompleteResult
  BY DEF CompleteResult
<1> QED  BY <1>3, <1>4, <1>5, <1>6 DEF MrInv

\* Nothing that the invariant mentions changes.
LEMMA MrSame ==
    ASSUME MrInv, UNCHANGED mrVars
    PROVE  MrInv'
<1> USE DEF MrInv, mrVars
<1>1. MrType'
  BY SameProgram DEF MrType
<1>2. Control'
  BY SameProgram DEF Control, MrInit, Reached, Closed, Panics, Failures, Clean
<1>3. Data'
  BY DataSame DEF Values, Good, Clean
<1>4. CompleteResult'
  BY CompleteSame
<1> QED  BY <1>1, <1>2, <1>3, <1>4

\* Every step of the goroutines and of main.
LEMMA MrStep ==
    ASSUME MrInv, MrNext
    PROVE  MrInv'
<1>1. CASE MrMain
  BY <1>1, MrMainInv
<1>2. CASE ExecNext
  BY <1>2, DispatchInv, ExecStopInv, ExecCloseInv, ExecDrainInv DEF ExecNext
<1>3. CASE ReducerNext
  BY <1>3, ReduceItemInv, ReduceEndInv, ReduceWriteInv, ReduceWriteDrainedInv, ReducerCancelInv,
     ReducerDrainInv DEF ReducerNext
<1>4. CASE CallerNext
  BY <1>4, CallerReturnsInv, CallerTakesPanicInv, CallerPanicsInv DEF CallerNext
<1>5. CASE \E j \in Items : MapperNext(j)
  BY <1>5, MapItemInv, WriteItemInv, CancelDrainInv, CancelFinishInv DEF MapperNext
<1> QED  BY <1>1, <1>2, <1>3, <1>4, <1>5 DEF MrNext

-----------------------------------------------------------------------------
(* filex: the load of the dictionary *)

DicLine == [word : STRING, kind : {"good", "bad", "long"}]
Lines == Len(dic.lines)
\* The chunks cover the file without overlapping, and each has been read up to
\* the line before pos.
IsCut ==
    /\ DOMAIN at \subseteq Nat \ {0}
    /\ \A c \in DOMAIN at :
         /\ at[c] \in [pos : Nat, stop : Nat, skip : BOOLEAN]
         /\ at[c].stop <= Lines /\ c <= at[c].pos
         /\ at[c].skip => at[c].pos = 1
         /\ ~at[c].skip => at[c].pos >= 2
    /\ \A c, d \in DOMAIN at : c < d => at[c].stop < d
    /\ \A l \in 1..Lines : \E c \in DOMAIN at : c <= l /\ l <= at[c].stop
\* A goroutine that goes on has met no line that does not parse.
SoFarGood ==
    \A c \in DOMAIN at : ~Ended(c) =>
      \A k \in 2..Lines : c <= k /\ k < at[c].pos => dic.lines[k].kind = "good"
\* The lines that a chunk's goroutine has sent.
SentBy(c) ==
    {l \in 2..Lines : /\ c <= l /\ l <= at[c].stop /\ l < at[c].pos
                      /\ \A k \in 2..l : k >= c => dic.lines[k].kind = "good"}
Sent == UNION {SentBy(c) : c \in DOMAIN at}
\* They are all in the channel or in the map, and nothing else is.
Words == dict \o pairs
Places(s, w) == {n \in DOMAIN s : s[n] = w}
SentLines(w) == {l \in Sent : dic.lines[l].word = w}
LoadInv ==
    /\ dic.lines \in Seq(DicLine) /\ pairs \in Seq(STRING) /\ dict \in Seq(STRING)
    /\ dic.header # "ok" => at = <<>> /\ pairs = <<>> /\ dict = <<>> /\ loaded # "nil"
    /\ dic.header = "ok" => IsCut /\ SoFarGood
    /\ \A w : Cardinality(Places(Words, w)) = Cardinality(SentLines(w))
    /\ loaded = "nil" => pairs = <<>> /\ \A c \in DOMAIN at : Ended(c)

\* The places of a word after one more.
LEMMA PlacesAppend ==
    ASSUME NEW S, NEW s \in Seq(S), NEW v \in S, NEW w
    PROVE  /\ IsFiniteSet(Places(s, w))
           /\ Cardinality(Places(Append(s, v), w)) = Cardinality(Places(s, w)) + (IF v = w THEN 1 ELSE 0)
<1> DEFINE t == Append(s, v)  N == Len(s)
<1>1. /\ N \in Nat /\ DOMAIN s = 1..N /\ DOMAIN t = 1..(N + 1) /\ t[N + 1] = v
      /\ \A j \in 1..N : t[j] = s[j]
  OBVIOUS
<1> HIDE DEF t, N
<1>2. IsFiniteSet(Places(s, w))
  <2>1. N \in Int /\ 1 \in Int
    BY <1>1
  <2>2. IsFiniteSet(1..N)
    BY <2>1, FS_Interval
  <2> QED  BY <1>1, <2>2, FS_Subset DEF Places
<1>3. Cardinality(Places(s, w)) \in Nat
  BY <1>2, FS_CardinalityType
<1>4. \A j : j \in 1..(N + 1) <=> j \in 1..N \/ j = N + 1
  BY <1>1
<1>5. N + 1 \notin Places(s, w)
  BY <1>1 DEF Places
<1>6. CASE v = w
  <2>1. Places(t, w) = Places(s, w) \cup {N + 1}
    BY <1>1, <1>4, <1>6 DEF Places
  <2>2. Cardinality(Places(t, w)) = Cardinality(Places(s, w)) + 1
    BY <1>2, <1>5, <2>1, FS_AddElement
  <2> QED  BY <1>2, <1>6, <2>2 DEF t
<1>7. CASE v # w
  <2>1. Places(t, w) = Places(s, w)
    BY <1>1, <1>4, <1>7 DEF Places
  <2> QED  BY <1>2, <1>3, <1>7, <2>1 DEF t
<1> QED  BY <1>6, <1>7

\* The lines sent are finitely many.
LEMMA SentFinite ==
    ASSUME Lines \in Nat, NEW w
    PROVE  IsFiniteSet(SentLines(w)) /\ Cardinality(SentLines(w)) \in Nat
<1>1. IsFiniteSet(2..Lines)
  BY FS_Interval
<1>2. SentLines(w) \subseteq 2..Lines
  BY DEF SentLines, Sent, SentBy
<1> QED  BY <1>1, <1>2, FS_Subset, FS_CardinalityType

\* How the file is cut.
LEMMA ChunksCut ==
    ASSUME NEW f \in Dictionaries, NEW cuts \in Splits, dic' = f, at' = Chunks(f, cuts)
    PROVE  /\ IsCut' /\ f.lines \in Seq(DicLine)
           /\ \A c \in DOMAIN at' : at'[c].pos = c /\ (c = 1 => at'[c].skip)
<1> DEFINE starts == {1} \cup {c \in cuts : c <= Len(f.lines)}
           N == Len(f.lines)
           After(s) == {t \in starts : t > s}
<1>1. f.lines \in Seq(DicLine) /\ cuts \subseteq Nat \ {0}
  BY FxAssumption DEF DicLine
<1>2. N \in Nat
  BY <1>1
<1>3. at' = [s \in starts |->
              [pos |-> s, stop |-> IF \E t \in starts : t > s THEN Min(After(s)) - 1 ELSE N, skip |-> s = 1]]
  BY DEF Chunks
<1>4. Lines' = N
  BY DEF Lines
<1>5. starts \subseteq Nat \ {0} /\ 1 \in starts /\ \A s \in starts : s = 1 \/ s <= N
  <2>1. \A c \in cuts : c \in Nat \ {0}
    BY <1>1
  <2> HIDE DEF N
  <2>2. starts = {1} \cup {c \in cuts : c <= N}
    BY DEF N
  <2> HIDE DEF starts
  <2> QED  BY <2>1, <2>2
<1> HIDE DEF N, starts
<1>6. ASSUME NEW s \in starts, \E t \in starts : t > s
      PROVE  /\ Min(After(s)) \in starts /\ Min(After(s)) > s
             /\ \A t \in starts : t > s => Min(After(s)) <= t
  <2>1. After(s) \in SUBSET Nat /\ After(s) # {}
    BY <1>5, <1>6
  <2> HIDE DEF After
  <2>2. \E n \in After(s) : \A m \in After(s) : n <= m
    BY <2>1, LeastElement
  <2>3. Min(After(s)) \in After(s) /\ \A m \in After(s) : Min(After(s)) <= m
    BY <2>2 DEF Min
  <2> QED  BY <2>3 DEF After
<1> HIDE DEF After
<1>7. DOMAIN at' = starts
  BY <1>3
<1>8. ASSUME NEW s \in starts
      PROVE  /\ at'[s].pos = s /\ at'[s].skip = (s = 1)
             /\ at'[s] = [pos |-> s, stop |-> at'[s].stop, skip |-> s = 1]
             /\ (\E t \in starts : t > s) => at'[s].stop = Min(After(s)) - 1
             /\ (~\E t \in starts : t > s) => at'[s].stop = N
  BY <1>3
<1>9. ASSUME NEW s \in starts PROVE at'[s].stop \in Nat /\ at'[s].stop <= N
  <2>1. CASE \E t \in starts : t > s
    <3>1. at'[s].stop = Min(After(s)) - 1 /\ Min(After(s)) \in starts /\ Min(After(s)) > s
      BY <1>6, <1>8, <2>1
    <3>2. Min(After(s)) \in Nat \ {0} /\ s \in Nat \ {0} /\ (Min(After(s)) = 1 \/ Min(After(s)) <= N)
      BY <1>5, <3>1
    <3> QED  BY <1>2, <3>1, <3>2
  <2>2. CASE ~\E t \in starts : t > s
    <3>1. at'[s].stop = N
      BY <1>8, <2>2
    <3> QED  BY <1>2, <3>1
  <2> QED  BY <2>1, <2>2
<1>10. ASSUME NEW c \in starts, NEW d \in starts, c < d PROVE at'[c].stop < d
  <2>1. \E t \in starts : t > c
    BY <1>5, <1>10
  <2>2. at'[c].stop = Min(After(c)) - 1 /\ Min(After(c)) \in Nat /\ Min(After(c)) <= d
    BY <1>5, <1>6, <1>8, <1>10, <2>1
  <2> QED  BY <1>5, <2>2
<1>11. ASSUME NEW l \in 1..N PROVE \E c \in starts : c <= l /\ l <= at'[c].stop
  <2> DEFINE T == {c \in starts : c <= l}
  <2>1. T \in SUBSET Nat /\ T # {} /\ l \in Nat /\ \A m \in T : m <= l
    <3>1. l \in Nat /\ 1 <= l
      BY <1>2
    <3> QED  BY <1>5, <3>1
  <2> HIDE DEF T
  <2>2. PICK c \in T : \A m \in T : m <= c
    BY <2>1, GreatestElement
  <2>3. c \in starts /\ c <= l
    BY <2>2 DEF T
  <2>4. CASE \E t \in starts : t > c
    <3>1. at'[c].stop = Min(After(c)) - 1 /\ Min(After(c)) \in starts /\ Min(After(c)) > c
      BY <1>6, <1>8, <2>3, <2>4
    <3>2. Min(After(c)) \in Nat /\ c \in Nat
      BY <1>5, <2>3, <3>1
    <3>3. ~(Min(After(c)) <= l)
      BY <2>2, <3>1, <3>2 DEF T
    <3> QED  BY <1>2, <2>3, <3>1, <3>2, <3>3
  <2>5. CASE ~\E t \in starts : t > c
    <3>1. at'[c].stop = N
      BY <1>8, <2>3, <2>5
    <3>2. l <= N
      BY <1>2
    <3> QED  BY <2>3, <3>1, <3>2
  <2> QED  BY <2>4, <2>5
<1>12. IsCut'
  <2>1. \A c \in starts : /\ at'[c] \in [pos : Nat, stop : Nat, skip : BOOLEAN]
                          /\ at'[c].stop <= N /\ c <= at'[c].pos
                          /\ at'[c].skip => at'[c].pos = 1
                          /\ ~at'[c].skip => at'[c].pos >= 2
    <3> SUFFICES ASSUME NEW c \in starts
                 PROVE    /\ at'[c] \in [pos : Nat, stop : Nat, skip : BOOLEAN]
                          /\ at'[c].stop <= N /\ c <= at'[c].pos
                          /\ at'[c].skip => at'[c].pos = 1
                          /\ ~at'[c].skip => at'[c].pos >= 2
      OBVIOUS
    <3>1. c \in Nat \ {0} /\ at'[c].stop \in Nat /\ at'[c].stop <= N
      BY <1>5, <1>9
    <3>2. at'[c] = [pos |-> c, stop |-> at'[c].stop, skip |-> c = 1] /\ at'[c].pos = c /\ at'[c].skip = (c = 1)
      BY <1>8
    <3>3. at'[c] \in [pos : Nat, stop : Nat, skip : BOOLEAN]
      BY <3>1, <3>2
    <3> QED  BY <3>1, <3>2, <3>3
  <2> QED  BY <1>4, <1>5, <1>7, <1>10, <1>11, <2>1 DEF IsCut
<1>13. \A c \in DOMAIN at' : at'[c].pos = c /\ (c = 1 => at'[c].skip)
  BY <1>7, <1>8
<1> QED  BY <1>1, <1>12, <1>13

\* A chunk's goroutine has come to line q.
MovesTo(c, q) ==
    /\ DOMAIN at' = DOMAIN at /\ \A d \in DOMAIN at : d # c => at'[d] = at[d]
    /\ at'[c] = [pos |-> q, stop |-> at[c].stop, skip |-> FALSE]

\* Nothing else of the chunks changes.
LEMMA CutMoves ==
    ASSUME IsCut, NEW c \in DOMAIN at, NEW q \in Nat, at[c].pos <= q, 2 <= q, MovesTo(c, q), dic' = dic
    PROVE  IsCut'
<1>1. DOMAIN at' = DOMAIN at /\ Lines' = Lines /\ \A d \in DOMAIN at : at'[d].stop = at[d].stop
  BY DEF MovesTo, Lines
<1>2. DOMAIN at \subseteq Nat \ {0} /\ at[c] \in [pos : Nat, stop : Nat, skip : BOOLEAN] /\ c <= at[c].pos
  BY DEF IsCut
<1>3. at'[c].pos = q /\ ~at'[c].skip /\ at'[c] \in [pos : Nat, stop : Nat, skip : BOOLEAN] /\ c <= q
  <2>1. c \in Nat /\ at[c].pos \in Nat /\ at[c].stop \in Nat
    BY <1>2
  <2>2. c <= q
    BY <1>2, <2>1
  <2> QED  BY <2>1, <2>2 DEF MovesTo
<1>4. ASSUME NEW d \in DOMAIN at
      PROVE  /\ at'[d] \in [pos : Nat, stop : Nat, skip : BOOLEAN]
             /\ at'[d].stop <= Lines /\ d <= at'[d].pos
             /\ at'[d].skip => at'[d].pos = 1
             /\ ~at'[d].skip => at'[d].pos >= 2
  <2>1. CASE d = c
    <3>1. at'[d].stop <= Lines
      BY <1>1 DEF IsCut
    <3> QED  BY <1>3, <2>1, <3>1
  <2>2. CASE d # c
    <3>1. at'[d] = at[d]
      BY <2>2 DEF MovesTo
    <3> QED  BY <3>1 DEF IsCut
  <2> QED  BY <2>1, <2>2
<1>5. \A d, e \in DOMAIN at : d < e => at'[d].stop < e
  BY <1>1 DEF IsCut
<1>6. \A l \in 1..Lines : \E d \in DOMAIN at : d <= l /\ l <= at'[d].stop
  BY <1>1 DEF IsCut
<1> QED  BY <1>1, <1>2, <1>4, <1>5, <1>6 DEF IsCut

\* The chunks of two lines: a line belongs to one.
LEMMA OneChunk ==
    ASSUME IsCut, NEW c \in DOMAIN at, NEW d \in DOMAIN at, NEW l \in Nat,
           c <= l, l <= at[c].stop, d <= l, l <= at[d].stop
    PROVE  c = d
<1>1. c \in Nat /\ d \in Nat /\ at[c].stop \in Nat /\ at[d].stop \in Nat
  BY DEF IsCut
<1>2. ~(c < d) /\ ~(d < c)
  BY <1>1 DEF IsCut
<1> QED  BY <1>1, <1>2

\* A good line is sent: it is the one line that is new.
LEMMA OneMoreSent ==
    ASSUME IsCut, SoFarGood, Lines \in Nat, NEW c \in DOMAIN at, ~at[c].skip, ~Ended(c), dic' = dic,
           dic.lines[at[c].pos].kind = "good", MovesTo(c, at[c].pos + 1)
    PROVE  Sent' = Sent \cup {at[c].pos} /\ at[c].pos \notin Sent
<1> DEFINE p == at[c].pos
<1>1. c \in Nat \ {0} /\ p \in Nat /\ at[c].stop \in Nat /\ c <= p /\ p >= 2 /\ at[c].stop <= Lines
  BY DEF IsCut
<1>2. p <= at[c].stop /\ p \in 2..Lines
  BY <1>1 DEF Ended
<1>3. dic.lines[p].kind = "good" /\ MovesTo(c, p + 1)
  OBVIOUS
<1>4. \A k \in 2..Lines : c <= k /\ k < p => dic.lines[k].kind = "good"
  BY DEF SoFarGood
<1>5. \A d \in DOMAIN at : d # c => SentBy(d)' = SentBy(d)
  BY DEF MovesTo, SentBy, Lines
<1> HIDE DEF p
<1>6. SentBy(c) = {l \in 2..Lines : /\ c <= l /\ l <= at[c].stop /\ l < p
                      /\ \A k \in 2..l : k >= c => dic.lines[k].kind = "good"}
  BY DEF p, SentBy
<1>7. SentBy(c)' = {l \in 2..Lines : /\ c <= l /\ l <= at[c].stop /\ l < p + 1
                      /\ \A k \in 2..l : k >= c => dic.lines[k].kind = "good"}
  <2>1. at'[c].stop = at[c].stop /\ at'[c].pos = p + 1 /\ Lines' = Lines
    BY <1>3 DEF MovesTo, Lines
  <2> QED  BY <2>1 DEF SentBy
<1>8. \A k \in 2..p : k >= c => dic.lines[k].kind = "good"
  <2> SUFFICES ASSUME NEW k \in 2..p, k >= c PROVE dic.lines[k].kind = "good"
    OBVIOUS
  <2>1. k \in 2..Lines /\ c <= k /\ (k < p \/ k = p)
    BY <1>1, <1>2
  <2> QED  BY <1>3, <1>4, <2>1
<1>9. SentBy(c)' = SentBy(c) \cup {p}
  <2>1. \A l \in 2..Lines : l < p + 1 <=> l < p \/ l = p
    BY <1>1
  <2> QED  BY <1>1, <1>2, <1>6, <1>7, <1>8, <2>1
<1>10. Sent' = Sent \cup {p}
  <2>1. DOMAIN at' = DOMAIN at
    BY <1>3 DEF MovesTo
  <2>2. Sent' = UNION {SentBy(d)' : d \in DOMAIN at}
    BY <2>1 DEF Sent
  <2> QED  BY <1>5, <1>9, <2>2 DEF Sent
<1>11. p \notin Sent
  <2> SUFFICES ASSUME NEW d \in DOMAIN at, p \in SentBy(d) PROVE FALSE
    BY DEF Sent
  <2>1. d <= p /\ p <= at[d].stop /\ p < at[d].pos
    BY DEF SentBy
  <2>2. d = c
    BY <1>1, <1>2, <2>1, OneChunk
  <2> QED  BY <1>1, <2>1, <2>2 DEF p
<1> QED  BY <1>10, <1>11 DEF p

\* The header and a line that does not parse send nothing.
LEMMA NoneSent ==
    ASSUME IsCut, Lines \in Nat, NEW c \in DOMAIN at, NEW q \in Nat, MovesTo(c, q), dic' = dic,
           at[c].pos <= q,
           \A l \in 2..Lines : at[c].pos <= l /\ l < q /\ l <= at[c].stop =>
             \E k \in 2..l : k >= c /\ dic.lines[k].kind # "good"
    PROVE  Sent' = Sent
<1>0. at[c].pos \in Nat
  BY DEF IsCut
<1>1. \A d \in DOMAIN at : d # c => SentBy(d)' = SentBy(d)
  BY DEF MovesTo, SentBy, Lines
<1>2. SentBy(c)' = {l \in 2..Lines : /\ c <= l /\ l <= at[c].stop /\ l < q
                      /\ \A k \in 2..l : k >= c => dic.lines[k].kind = "good"}
  <2>1. at'[c].stop = at[c].stop /\ at'[c].pos = q /\ Lines' = Lines
    BY DEF MovesTo, Lines
  <2> QED  BY <2>1 DEF SentBy
<1>3. SentBy(c)' = SentBy(c)
  <2>1. ASSUME NEW l \in 2..Lines, \A k \in 2..l : k >= c => dic.lines[k].kind = "good", l <= at[c].stop
        PROVE  l < q <=> l < at[c].pos
    <3>1. ~(at[c].pos <= l /\ l < q)
      BY <2>1
    <3>2. l \in Nat
      OBVIOUS
    <3> QED  BY <1>0, <3>1, <3>2
  <2> QED  BY <1>2, <2>1 DEF SentBy
<1>4. Sent' = UNION {SentBy(d)' : d \in DOMAIN at}
  BY DEF Sent, MovesTo
<1> QED  BY <1>1, <1>3, <1>4 DEF Sent

\* The step of one goroutine does not disturb what the others have read.
LEMMA SoFarGoodMoves ==
    ASSUME SoFarGood, NEW c \in DOMAIN at, NEW q \in Nat, MovesTo(c, q), dic' = dic,
           q > at[c].stop \/ \A k \in 2..Lines : c <= k /\ k < q => dic.lines[k].kind = "good"
    PROVE  SoFarGood'
<1>1. Lines' = Lines /\ DOMAIN at' = DOMAIN at
  BY DEF Lines, MovesTo
<1>2. ASSUME NEW d \in DOMAIN at, ~(at'[d].pos > at'[d].stop), NEW k \in 2..Lines, d <= k, k < at'[d].pos
      PROVE  dic.lines[k].kind = "good"
  <2>1. CASE d = c
    <3>1. at'[c].pos = q /\ at'[c].stop = at[c].stop
      BY DEF MovesTo
    <3> QED  BY <1>2, <2>1, <3>1
  <2>2. CASE d # c
    <3>1. at'[d] = at[d]
      BY <2>2 DEF MovesTo
    <3> QED  BY <1>2, <3>1 DEF SoFarGood, Ended
  <2> QED  BY <2>1, <2>2
<1> QED  BY <1>1, <1>2 DEF SoFarGood, Ended

\* Nothing is sent before the file has been cut.
LEMMA NothingYet ==
    ASSUME NEW w
    PROVE  /\ at = <<>> /\ dict = <<>> /\ pairs = <<>> =>
                Cardinality(Places(Words, w)) = Cardinality(SentLines(w))
           /\ at = <<>> => DOMAIN at = {}
<1>1. ASSUME at = <<>>, dict = <<>>, pairs = <<>> PROVE Places(Words, w) = SentLines(w)
  <2>1. Places(Words, w) = {}
    BY <1>1 DEF Places, Words
  <2>2. SentLines(w) = {}
    BY <1>1 DEF SentLines, Sent
  <2> QED  BY <2>1, <2>2
<1> QED  BY <1>1

\* The steps that leave the words and the lines alone.
LEMMA WordsSame ==
    ASSUME \A w : Cardinality(Places(Words, w)) = Cardinality(SentLines(w)),
           Words' = Words, Sent' = Sent, dic' = dic
    PROVE  \A w : Cardinality(Places(Words, w))' = Cardinality(SentLines(w))'
<1> SUFFICES ASSUME NEW w PROVE Cardinality(Places(Words, w))' = Cardinality(SentLines(w))'
  OBVIOUS
<1>1. Places(Words, w)' = Places(Words, w)
  BY DEF Places
<1>2. SentLines(w)' = SentLines(w)
  BY DEF SentLines
<1> QED  BY <1>1, <1>2

\* At first there is no file.
LEMMA LoadInitInv ==
    ASSUME FxInit
    PROVE  LoadInv
<1> USE DEF FxInit
<1>1. dic.lines = <<>> /\ dic.header = "none"
  BY DEF NoFile
<1>2. <<>> \in Seq(DicLine) /\ <<>> \in Seq(STRING)
  OBVIOUS
<1> QED  BY <1>1, <1>2, NothingYet DEF LoadInv

\* A file whose name, header or counts are wrong is not read.
LEMMA LoadFailsInv ==
    ASSUME LoadInv, LoadFails
    PROVE  LoadInv'
<1> USE DEF LoadInv
<1>1. PICK f \in Dictionaries : f.header # "ok" /\ dic' = f
  BY DEF LoadFails
<1>2. dic.header # "ok" /\ loaded' # "nil" /\ UNCHANGED <<at, pairs, dict>>
  BY DEF LoadFails, NoFile
<1>3. f.lines \in Seq(DicLine)
  BY FxAssumption DEF DicLine
<1>4. at' = <<>> /\ pairs' = <<>> /\ dict' = <<>>
  BY <1>2
<1>5. \A w : Cardinality(Places(Words, w))' = Cardinality(SentLines(w))'
  <2> SUFFICES ASSUME NEW w PROVE Cardinality(Places(Words, w))' = Cardinality(SentLines(w))'
    OBVIOUS
  <2>1. Places(Words, w)' = {}
    BY <1>4 DEF Places, Words
  <2>2. SentLines(w)' = {}
    BY <1>4 DEF SentLines, Sent
  <2> QED  BY <2>1, <2>2
<1> QED  BY <1>1, <1>2, <1>3, <1>4, <1>5

\* The file is cut: every chunk is still to be read.
LEMMA LoadStartsInv ==
    ASSUME LoadInv, LoadStarts
    PROVE  LoadInv'
<1> USE DEF LoadInv
<1>1. PICK f \in Dictionaries, cuts \in Splits : f.header = "ok" /\ dic' = f /\ at' = Chunks(f, cuts)
  BY DEF LoadStarts
<1>2. dic.header # "ok" /\ UNCHANGED <<pairs, dict, loaded>>
  BY DEF LoadStarts, NoFile
<1>3. /\ IsCut' /\ f.lines \in Seq(DicLine)
      /\ \A c \in DOMAIN at' : at'[c].pos = c /\ (c = 1 => at'[c].skip)
  BY <1>1, ChunksCut
<1>4. pairs' = <<>> /\ dict' = <<>> /\ loaded' # "nil"
  BY <1>2
<1>5. \A c \in DOMAIN at' : c \in Nat
  BY <1>3 DEF IsCut
<1>6. Lines' \in Nat /\ \A l \in 2..Lines' : l \in Nat
  BY <1>1, <1>3 DEF Lines
<1>7. \A c \in DOMAIN at' : \A l \in 2..Lines' : ~(c <= l /\ l < at'[c].pos)
  BY <1>3, <1>5, <1>6
<1>8. SoFarGood'
  BY <1>7 DEF SoFarGood
<1>9. Sent' = {}
  BY <1>7 DEF Sent, SentBy
<1>10. \A w : Cardinality(Places(Words, w))' = Cardinality(SentLines(w))'
  <2> SUFFICES ASSUME NEW w PROVE Cardinality(Places(Words, w))' = Cardinality(SentLines(w))'
    OBVIOUS
  <2>1. Places(Words, w)' = {}
    BY <1>4 DEF Places, Words
  <2>2. SentLines(w)' = {}
    BY <1>9 DEF SentLines
  <2> QED  BY <2>1, <2>2
<1> QED  BY <1>1, <1>3, <1>4, <1>8, <1>10

\* The first line of the first chunk is the header.
LEMMA SkipHeaderInv ==
    ASSUME LoadInv, NEW c \in DOMAIN at, SkipHeader(c)
    PROVE  LoadInv'
<1> USE DEF LoadInv
<1>1. dic.header = "ok" /\ IsCut /\ SoFarGood
  BY NothingYet
<1>2. at[c].skip /\ UNCHANGED <<dic, pairs, dict, loaded>>
      /\ at' = [at EXCEPT ![c].skip = FALSE, ![c].pos = @ + 1]
  BY DEF SkipHeader
<1>3. /\ at[c] \in [pos : Nat, stop : Nat, skip : BOOLEAN] /\ at[c].pos = 1
      /\ at[c].stop \in Nat
  BY <1>1, <1>2 DEF IsCut
<1>4. MovesTo(c, 2)
  <2>1. at'[c] = [pos |-> 2, stop |-> at[c].stop, skip |-> FALSE]
    <3> DEFINE b == [at EXCEPT ![c].skip = FALSE]
    <3>1. b[c] = [pos |-> 1, stop |-> at[c].stop, skip |-> FALSE] /\ DOMAIN b = DOMAIN at
      BY <1>3
    <3>2. at' = [b EXCEPT ![c].pos = @ + 1]
      BY <1>2
    <3> HIDE DEF b
    <3>3. at'[c] = [b[c] EXCEPT !.pos = b[c].pos + 1]
      BY <3>1, <3>2
    <3>4. b[c].pos + 1 = 2
      BY <3>1
    <3>5. at'[c] = [b[c] EXCEPT !.pos = 2]
      BY <3>3, <3>4
    <3>6. \A r, t, u : r = [pos |-> 1, stop |-> t, skip |-> u] =>
             [r EXCEPT !.pos = 2] = [pos |-> 2, stop |-> t, skip |-> u]
      OBVIOUS
    <3> DEFINE r == b[c]  t == at[c].stop
    <3>7. r = [pos |-> 1, stop |-> t, skip |-> FALSE] /\ at'[c] = [r EXCEPT !.pos = 2]
      BY <3>1, <3>5
    <3> HIDE DEF r, t
    <3>8. at'[c] = [pos |-> 2, stop |-> t, skip |-> FALSE]
      BY <3>6, <3>7, Zenon
    <3> QED  BY <3>8 DEF t
  <2> QED  BY <1>2, <2>1 DEF MovesTo
<1>5. IsCut'
  BY <1>1, <1>2, <1>3, <1>4, CutMoves
<1>6. Lines \in Nat
  BY DEF Lines
<1>7. \A k \in 2..Lines : ~(k < 2)
  BY <1>6
<1>8. SoFarGood'
  BY <1>1, <1>2, <1>4, <1>7, SoFarGoodMoves
<1>9. Sent' = Sent
  BY <1>1, <1>2, <1>3, <1>4, <1>6, <1>7, NoneSent
<1>10. \A w : Cardinality(Places(Words, w))' = Cardinality(SentLines(w))'
  BY <1>2, <1>9, WordsSame DEF Words
<1>11. ASSUME loaded = "nil" PROVE \A d \in DOMAIN at' : Ended(d)'
  <2>1. \A d \in DOMAIN at : at[d].pos > at[d].stop
    BY <1>11 DEF Ended
  <2>2. at'[c].pos > at'[c].stop
    <3>1. 1 > at[c].stop
      BY <1>3, <2>1
    <3> QED  BY <1>3, <1>4, <3>1 DEF MovesTo
  <2> QED  BY <1>4, <2>1, <2>2 DEF MovesTo, Ended
<1> QED  BY <1>1, <1>2, <1>5, <1>8, <1>10, <1>11

\* A line is read: a good one is sent on, any other ends its chunk.
LEMMA ScanLineInv ==
    ASSUME LoadInv, NEW c \in DOMAIN at, ScanLine(c)
    PROVE  LoadInv'
<1> USE DEF LoadInv
<1> DEFINE p == at[c].pos
<1>1. dic.header = "ok" /\ IsCut /\ SoFarGood
  BY NothingYet
<1>2. ~at[c].skip /\ ~Ended(c) /\ UNCHANGED <<dic, dict, loaded>>
  BY DEF ScanLine
<1>3. /\ at[c] \in [pos : Nat, stop : Nat, skip : BOOLEAN] /\ p \in Nat /\ p >= 2 /\ c <= p /\ c \in Nat
      /\ at[c].stop \in Nat /\ at[c].stop <= Lines
  BY <1>1, <1>2 DEF IsCut
<1>4. Lines \in Nat
  BY DEF Lines
<1>5. p <= at[c].stop /\ p \in 2..Lines /\ p \in 1..Len(dic.lines)
  BY <1>2, <1>3, <1>4 DEF Ended, Lines
<1>6. dic.lines[p] \in DicLine /\ dic.lines[p].word \in STRING
  <2>1. dic.lines[p] \in DicLine
    BY <1>5, ElementOfSeq
  <2> QED  BY <2>1 DEF DicLine
<1>7. loaded # "nil"
  BY <1>2
<1>8. CASE dic.lines[p].kind = "good"
  <2>1. pairs' = Append(pairs, dic.lines[p].word) /\ at' = [at EXCEPT ![c].pos = @ + 1]
    BY <1>8 DEF ScanLine
  <2>2. MovesTo(c, p + 1)
    <3>1. at'[c] = [pos |-> p + 1, stop |-> at[c].stop, skip |-> FALSE]
      BY <1>2, <1>3, <2>1
    <3> QED  BY <2>1, <3>1 DEF MovesTo
  <2>3. IsCut'
    BY <1>1, <1>2, <1>3, <2>2, CutMoves
  <2>4. SoFarGood'
    <3>1. \A k \in 2..Lines : c <= k /\ k < p => dic.lines[k].kind = "good"
      BY <1>1, <1>2 DEF SoFarGood
    <3> HIDE DEF p
    <3>2. \A k \in 2..Lines : k < p + 1 => k < p \/ k = p
      BY <1>3, <1>4
    <3>3. \A k \in 2..Lines : c <= k /\ k < p + 1 => dic.lines[k].kind = "good"
      BY <1>8, <3>1, <3>2
    <3>4. p + 1 \in Nat
      BY <1>3
    <3> QED  BY <1>1, <1>2, <2>2, <3>3, <3>4, SoFarGoodMoves
  <2>5. Sent' = Sent \cup {p} /\ p \notin Sent
    BY <1>1, <1>2, <1>4, <1>8, <2>2, OneMoreSent
  <2> DEFINE v == dic.lines[p].word
  <2>6. Words' = Append(Words, v) /\ Words \in Seq(STRING) /\ pairs' \in Seq(STRING)
    <3> HIDE DEF v
    <3>1. v \in STRING /\ pairs' = Append(pairs, v) /\ dict' = dict
      BY <1>2, <1>6, <2>1 DEF v
    <3>2. dict \o Append(pairs, v) = Append(dict \o pairs, v)
      BY <3>1, AppendAfter
    <3> QED  BY <3>1, <3>2 DEF Words
  <2>7. \A w : Cardinality(Places(Words, w))' = Cardinality(SentLines(w))'
    <3> SUFFICES ASSUME NEW w PROVE Cardinality(Places(Words', w)) = Cardinality(SentLines(w)')
      BY DEF Places
    <3> HIDE DEF p
    <3>1. v \in STRING /\ v = dic.lines[p].word
      BY <1>6
    <3> HIDE DEF v
    <3>2. Cardinality(Places(Words', w)) = Cardinality(Places(Words, w)) + (IF v = w THEN 1 ELSE 0)
      BY <2>6, <3>1, PlacesAppend
    <3>3. IsFiniteSet(SentLines(w)) /\ Cardinality(SentLines(w)) \in Nat
      BY <1>4, SentFinite
    <3>4. Cardinality(Places(Words, w)) = Cardinality(SentLines(w))
      OBVIOUS
    <3>5. SentLines(w)' = {l \in Sent \cup {p} : dic.lines[l].word = w}
      BY <1>2, <2>5 DEF SentLines
    <3>6. CASE v = w
      <4>1. SentLines(w)' = SentLines(w) \cup {p} /\ p \notin SentLines(w)
        BY <2>5, <3>1, <3>5, <3>6 DEF SentLines
      <4>2. Cardinality(SentLines(w)') = Cardinality(SentLines(w)) + 1
        BY <3>3, <4>1, FS_AddElement
      <4> QED  BY <3>2, <3>4, <3>6, <4>2
    <3>7. CASE v # w
      <4>1. SentLines(w)' = SentLines(w)
        BY <3>1, <3>5, <3>7 DEF SentLines
      <4> QED  BY <3>2, <3>3, <3>4, <3>7, <4>1
    <3> QED  BY <3>6, <3>7
  <2> QED  BY <1>1, <1>2, <1>7, <2>3, <2>4, <2>6, <2>7
<1>9. CASE dic.lines[p].kind # "good"
  <2>1. pairs' = pairs /\ at' = [at EXCEPT ![c].pos = at[c].stop + 1]
    BY <1>9 DEF ScanLine
  <2> DEFINE q == at[c].stop + 1
  <2>2. MovesTo(c, q) /\ q \in Nat /\ p <= q /\ 2 <= q /\ q > at[c].stop
    <3>1. at'[c] = [pos |-> q, stop |-> at[c].stop, skip |-> FALSE]
      BY <1>2, <1>3, <2>1
    <3>2. MovesTo(c, q)
      BY <2>1, <3>1 DEF MovesTo
    <3> QED  BY <1>3, <1>5, <3>2
  <2> HIDE DEF q
  <2>3. IsCut'
    BY <1>1, <1>2, <2>2, CutMoves
  <2>4. SoFarGood'
    BY <1>1, <1>2, <2>2, SoFarGoodMoves
  <2>5. Sent' = Sent
    <3>1. ASSUME NEW l \in 2..Lines, p <= l
          PROVE  \E k \in 2..l : k >= c /\ dic.lines[k].kind # "good"
      <4>1. p \in 2..l /\ p >= c
        BY <1>3, <1>4, <3>1
      <4> QED  BY <1>9, <4>1
    <3> QED  BY <1>1, <1>2, <1>4, <2>2, <3>1, NoneSent
  <2>6. \A w : Cardinality(Places(Words, w))' = Cardinality(SentLines(w))'
    BY <1>2, <2>1, <2>5, WordsSame DEF Words
  <2> QED  BY <1>1, <1>2, <1>7, <2>1, <2>3, <2>4, <2>6
<1> QED  BY <1>8, <1>9

\* A pair goes from the channel to the map.
LEMMA StorePairInv ==
    ASSUME LoadInv, StorePair
    PROVE  LoadInv'
<1> USE DEF LoadInv
<1>1. /\ pairs # <<>> /\ dict' = Append(dict, Head(pairs)) /\ pairs' = Tail(pairs)
      /\ UNCHANGED <<dic, at, loaded>>
  BY DEF StorePair
<1>2. /\ Append(dict, Head(pairs)) \o Tail(pairs) = dict \o pairs
      /\ Append(dict, Head(pairs)) \in Seq(STRING) /\ Tail(pairs) \in Seq(STRING)
  BY <1>1, HeadMovesOn
<1>3. Words' = Words
  BY <1>1, <1>2 DEF Words
<1>4. Lines' = Lines /\ Sent' = Sent
  BY <1>1 DEF Lines, Sent, SentBy
<1>5. IsCut /\ SoFarGood => IsCut' /\ SoFarGood'
  BY <1>1, <1>4 DEF IsCut, SoFarGood, Ended
<1>6. \A w : Cardinality(Places(Words, w))' = Cardinality(SentLines(w))'
  BY <1>1, <1>3, <1>4, WordsSame
<1> QED  BY <1>1, <1>2, <1>5, <1>6

\* FastLoad returns, or nothing happens.
LEMMA LoadReturnsInv ==
    ASSUME LoadInv, LoadReturns \/ UNCHANGED <<dic, at, pairs, dict, loaded>>
    PROVE  LoadInv'
<1> USE DEF LoadInv
<1>1. UNCHANGED <<dic, at, pairs, dict>>
  BY DEF LoadReturns
<1>2. loaded' = "nil" => dic.header = "ok" /\ pairs = <<>> /\ \A c \in DOMAIN at : Ended(c)
  BY DEF LoadReturns
<1>3. Lines' = Lines /\ Sent' = Sent /\ Words' = Words
  BY <1>1 DEF Lines, Sent, SentBy, Words
<1>4. IsCut /\ SoFarGood => IsCut' /\ SoFarGood'
  BY <1>1, <1>3 DEF IsCut, SoFarGood, Ended
<1>5. \A w : Cardinality(Places(Words, w))' = Cardinality(SentLines(w))'
  BY <1>1, <1>3, WordsSame
<1>6. \A c \in DOMAIN at : Ended(c)' <=> Ended(c)
  BY <1>1 DEF Ended
<1> QED  BY <1>1, <1>2, <1>4, <1>5, <1>6

\* Every step of the load.
LEMMA LoadStep ==
    ASSUME LoadInv, LoadNext \/ UNCHANGED <<dic, at, pairs, dict, loaded>>
    PROVE  LoadInv'
BY LoadFailsInv, LoadStartsInv, SkipHeaderInv, ScanLineInv, StorePairInv, LoadReturnsInv DEF LoadNext

\* When all chunks have ended, what they have sent is what can be read.
LEMMA LoadComplete ==
    ASSUME LoadInv
    PROVE  LoadsEveryLineOnce
<1> USE DEF LoadInv
<1> SUFFICES ASSUME loaded = "nil",
                    NEW w \in {dic.lines[l].word : l \in 2..Len(dic.lines)}
             PROVE  Cardinality({n \in DOMAIN dict : dict[n] = w}) =
                    Cardinality({l \in UNION {Readable(c) : c \in DOMAIN at} : dic.lines[l].word = w})
  BY DEF LoadsEveryLineOnce
<1>1. IsCut /\ pairs = <<>> /\ \A c \in DOMAIN at : Ended(c)
  OBVIOUS
<1>2. Lines \in Nat /\ Lines = Len(dic.lines)
  BY DEF Lines
<1>3. Words = dict
  BY <1>1 DEF Words
<1>4. ASSUME NEW c \in DOMAIN at PROVE Readable(c) = SentBy(c)
  <2>1. ASSUME NEW l \in 2..Lines
        PROVE  c = Max({d \in DOMAIN at : d <= l}) <=> c <= l /\ l <= at[c].stop
    <3> DEFINE T == {d \in DOMAIN at : d <= l}
    <3>1. PICK e \in DOMAIN at : e <= l /\ l <= at[e].stop
      <4>1. l \in 1..Lines
        BY <1>2
      <4> QED  BY <1>1, <4>1 DEF IsCut
    <3>2. DOMAIN at \subseteq Nat /\ l \in Nat
      BY <1>1, <1>2 DEF IsCut
    <3>3. at[e].stop \in Nat /\ \A d \in DOMAIN at : e < d => at[e].stop < d
      BY <1>1 DEF IsCut
    <3>4. \A d \in T : d <= e
      BY <3>1, <3>2, <3>3
    <3>5. e \in T /\ \A d \in T : d \in Nat
      BY <3>1, <3>2
    <3> HIDE DEF T
    <3>6. Max(T) \in T /\ \A d \in T : Max(T) >= d
      BY <3>4, <3>5 DEF Max
    <3>7. Max(T) = e
      BY <3>4, <3>5, <3>6
    <3>8. c <= l /\ l <= at[c].stop <=> c = e
      BY <1>1, <3>1, <3>2, OneChunk
    <3> QED  BY <3>7, <3>8 DEF T
  <2>2. \A l \in 2..Lines : l <= at[c].stop => l < at[c].pos
    <3>1. at[c].pos > at[c].stop /\ at[c].pos \in Nat /\ at[c].stop \in Nat
      BY <1>1 DEF Ended, IsCut
    <3> QED  BY <1>2, <3>1
  <2> QED  BY <1>2, <2>1, <2>2 DEF Readable, SentBy
<1>5. UNION {Readable(c) : c \in DOMAIN at} = Sent
  BY <1>4 DEF Sent
<1>6. Cardinality(Places(Words, w)) = Cardinality(SentLines(w))
  OBVIOUS
<1> QED  BY <1>3, <1>5, <1>6 DEF Places, SentLines

-----------------------------------------------------------------------------
(* pool: the books of the pool *)

Holders == {r \in Routines : routine[r] = "hold"}
\* Every resource is free or held, no more than Limit exist, and create and
\* destroy have counted them; a goroutine waits only while another one holds a
\* resource, or has been woken to take one, so that a Put is still to come.
Books ==
    /\ created = free + Cardinality(Holders) /\ created <= Limit /\ counted = created
    /\ (\E r \in Routines : routine[r] = "wait") => \E r \in Routines : routine[r] \in {"get", "hold"}
PoolInv ==
    /\ routine \in [Routines -> {"loop", "get", "wait", "hold", "quit"}] /\ free \in Nat
    /\ IsFiniteSet(Holders) /\ Books

\* One goroutine takes or gives back a resource.
LEMMA HoldersChange ==
    ASSUME PoolInv, NEW r \in Routines
    PROVE  /\ Cardinality(Holders) \in Nat
           /\ r \notin Holders => IsFiniteSet(Holders \cup {r}) /\ Cardinality(Holders \cup {r}) = Cardinality(Holders) + 1
           /\ r \in Holders => IsFiniteSet(Holders \ {r}) /\ Cardinality(Holders \ {r}) = Cardinality(Holders) - 1
<1>1. IsFiniteSet(Holders)
  BY DEF PoolInv
<1> QED  BY <1>1, FS_CardinalityType, FS_AddElement, FS_RemoveElement

\* The goroutines' steps keep the books.
LEMMA PoolRoutineInv ==
    ASSUME PoolInv, NEW r \in Routines, PoolRoutine(r)
    PROVE  PoolInv'
<1> USE DEF PoolInv, Books
<1>0. routine \in [Routines -> {"loop", "get", "wait", "hold", "quit"}] /\ Limit \in Nat \ {0}
  BY PoolAssumption
<1>1. CASE LoopSelect(r)
  <2>1. PICK st \in {"quit", "get"} : routine' = [routine EXCEPT ![r] = st]
    BY <1>1 DEF LoopSelect
  <2>2. routine[r] = "loop" /\ UNCHANGED <<free, created, counted>>
    BY <1>1 DEF LoopSelect
  <2>3. Holders' = Holders
    BY <1>0, <2>1, <2>2 DEF Holders
  <2>4. routine' \in [Routines -> {"loop", "get", "wait", "hold", "quit"}]
    BY <1>0, <2>1
  <2>5. \A s \in Routines : /\ routine'[s] = "wait" => routine[s] = "wait"
                            /\ routine[s] \in {"get", "hold"} => routine'[s] \in {"get", "hold"}
    BY <1>0, <2>1, <2>2
  <2> QED  BY <2>2, <2>3, <2>4, <2>5
<1>2. CASE Get(r)
  <2>0. routine[r] = "get" /\ r \notin Holders
    BY <1>2 DEF Get, Holders
  <2>1. ASSUME routine' = [routine EXCEPT ![r] = "hold"]
        PROVE  /\ routine' \in [Routines -> {"loop", "get", "wait", "hold", "quit"}]
               /\ Holders' = Holders \cup {r} /\ routine'[r] = "hold"
    BY <1>0, <2>1 DEF Holders
  <2>2. /\ Cardinality(Holders) \in Nat /\ IsFiniteSet(Holders \cup {r})
        /\ Cardinality(Holders \cup {r}) = Cardinality(Holders) + 1
    BY <2>0, HoldersChange
  <2>3. CASE /\ free > 0 /\ free' = free - 1 /\ UNCHANGED <<created, counted>>
             /\ routine' = [routine EXCEPT ![r] = "hold"]
    <3>1. free' \in Nat /\ created = free' + (Cardinality(Holders) + 1)
      BY <2>2, <2>3
    <3> QED  BY <2>1, <2>2, <2>3, <3>1
  <2>4. CASE /\ created - free < Limit /\ free' = 0
             /\ created' = created - free + 1 /\ counted' = counted - free + 1
             /\ routine' = [routine EXCEPT ![r] = "hold"]
    <3>1. created' = 0 + (Cardinality(Holders) + 1) /\ created' <= Limit /\ counted' = created'
      BY <1>0, <2>2, <2>4
    <3> QED  BY <2>1, <2>2, <2>4, <3>1
  <2>5. CASE /\ free = 0 /\ created = Limit /\ routine' = [routine EXCEPT ![r] = "wait"]
             /\ UNCHANGED <<free, created, counted>>
    <3>1. routine' \in [Routines -> {"loop", "get", "wait", "hold", "quit"}] /\ Holders' = Holders
      BY <1>0, <2>0, <2>5 DEF Holders
    <3>2. Cardinality(Holders) # 0
      BY <1>0, <2>2, <2>5
    <3>3. Holders # {}
      BY <3>2, FS_EmptySet
    <3>4. \E s \in Routines : routine'[s] \in {"get", "hold"}
      BY <3>1, <3>3 DEF Holders
    <3> QED  BY <2>5, <3>1, <3>4
  <2> QED  BY <1>2, <2>3, <2>4, <2>5 DEF Get
<1>3. CASE ConsumeAndPut(r)
  <2>0. /\ routine[r] = "hold" /\ r \in Holders /\ free' = free + 1
        /\ UNCHANGED <<created, counted>>
    BY <1>3 DEF ConsumeAndPut, Holders
  <2>1. /\ Cardinality(Holders) \in Nat /\ IsFiniteSet(Holders \ {r})
        /\ Cardinality(Holders \ {r}) = Cardinality(Holders) - 1
    BY <2>0, HoldersChange
  <2>2. free' \in Nat /\ created = free' + (Cardinality(Holders) - 1)
    BY <2>0, <2>1
  <2>3. CASE {w \in Routines : routine[w] = "wait"} = {} /\ routine' = [routine EXCEPT ![r] = "loop"]
    <3>1. /\ routine' \in [Routines -> {"loop", "get", "wait", "hold", "quit"}] /\ Holders' = Holders \ {r}
          /\ ~\E w \in Routines : routine'[w] = "wait"
      BY <1>0, <2>3 DEF Holders
    <3> QED  BY <2>0, <2>1, <2>2, <3>1
  <2>4. ASSUME NEW w \in Routines, routine[w] = "wait",
               routine' = [routine EXCEPT ![r] = "loop", ![w] = "get"]
        PROVE  PoolInv'
    <3>1. w # r
      BY <2>0, <2>4
    <3>2. /\ routine' \in [Routines -> {"loop", "get", "wait", "hold", "quit"}]
          /\ Holders' = Holders \ {r} /\ routine'[w] = "get"
      BY <1>0, <2>4, <3>1 DEF Holders
    <3> QED  BY <2>0, <2>1, <2>2, <3>2
  <2> QED  BY <1>3, <2>3, <2>4 DEF ConsumeAndPut
<1> QED  BY <1>1, <1>2, <1>3 DEF PoolRoutine

\* Every step of the pool program.
LEMMA PoolStep ==
    ASSUME PoolInv, PoolNext \/ UNCHANGED <<routine, free, created, counted>>
    PROVE  PoolInv'
<1>1. CASE UNCHANGED <<routine, free, created, counted>>
  BY <1>1 DEF PoolInv, Books, Holders
<1>2. CASE CloseQuit \/ PoolExit
  BY <1>2 DEF CloseQuit, PoolExit, PoolInv, Books, Holders
<1> QED  BY <1>1, <1>2, PoolRoutineInv DEF PoolNext

\* A new pool is empty and nobody waits for it.
LEMMA PoolInitInv ==
    ASSUME PoolInit
    PROVE  PoolInv
<1> USE DEF PoolInit
<1>1. Holders = {}
  BY DEF Holders
<1>2. IsFiniteSet(Holders) /\ Cardinality(Holders) = 0
  BY <1>1, FS_EmptySet
<1> QED  BY <1>2, PoolAssumption DEF PoolInv, Books

-----------------------------------------------------------------------------
(* periodicalexecutor: the tasks *)

\* The tasks that have run, those of the batch and those in the container.
Queue == executed \o (batch \o container)
InTurn(s, k) == s \in Seq(Nat) /\ Len(s) = k /\ \A n \in 1..k : s[n] = n
BulkInv ==
    /\ executed \in Seq(Nat) /\ batch \in Seq(Nat) /\ container \in Seq(Nat)
    /\ added \in Nat /\ InTurn(Queue, added)
    /\ batch # <<>> => container = <<>>
    /\ batch # <<>> \/ container # <<>> => guarded

\* Every task added is in its turn.
LEMMA BulkStep ==
    ASSUME BulkInv, BulkNext \/ UNCHANGED <<executed, batch, container, added, guarded>>
    PROVE  BulkInv'
<1> USE DEF BulkInv
<1> DEFINE ran == executed  taken == batch  kept == container
<1>0. ran \in Seq(Nat) /\ taken \in Seq(Nat) /\ kept \in Seq(Nat) /\ <<>> \in Seq(Nat) /\ added \in Nat /\ InTurn(Queue, added)
  OBVIOUS
<1>1. CASE UNCHANGED <<executed, batch, container, added, guarded>>
  BY <1>1 DEF InTurn, Queue
<1>2. CASE AddTask
  <2> DEFINE full == Append(kept, added + 1)
  <2>1. taken = <<>> /\ added' = added + 1 /\ guarded' = TRUE /\ executed' = ran
    BY <1>2 DEF AddTask
  <2>2. full \in Seq(Nat) /\ full # <<>> /\ added + 1 \in Nat
    <3>1. added + 1 \in Nat
      BY <1>0
    <3>2. full \in Seq(Nat) /\ Len(full) = Len(kept) + 1 /\ Len(kept) \in Nat
      BY <1>0, <3>1
    <3> HIDE DEF full
    <3>3. full # <<>>
      BY <3>2
    <3> QED  BY <3>1, <3>2, <3>3
  <2>3. \/ batch' = full /\ container' = <<>>
        \/ container' = full /\ batch' = <<>>
    BY <1>2, <2>1 DEF AddTask
  <2> HIDE DEF full, ran, taken, kept
  <2>4. batch' \o container' = full /\ taken \o kept = kept
    <3>1. full \o <<>> = full /\ <<>> \o full = full /\ <<>> \o kept = kept
      BY <1>0, <2>2
    <3> QED  BY <2>1, <2>3, <3>1
  <2>5. ran \o full = Append(ran \o kept, added + 1)
    <3>1. executed \in Seq(Nat) /\ container \in Seq(Nat) /\ added + 1 \in Nat
      BY <2>2
    <3>2. executed \o Append(container, added + 1) = Append(executed \o container, added + 1)
      BY <3>1, AppendMoves
    <3> QED  BY <3>2 DEF full, ran, kept
  <2>6. Queue' = Append(Queue, added + 1)
    BY <2>1, <2>4, <2>5 DEF Queue, ran, taken, kept
  <2>7. InTurn(Queue, added)'
    <3> DEFINE s == Queue  t == Append(s, added + 1)
    <3>1. s \in Seq(Nat) /\ Len(s) = added /\ \A n \in 1..added : s[n] = n
      BY <1>0 DEF InTurn
    <3> HIDE DEF s
    <3>2. t \in Seq(Nat) /\ Len(t) = added + 1 /\ \A n \in 1..added : t[n] = n
      BY <1>0, <3>1
    <3>3. t[added + 1] = added + 1
      BY <1>0, <3>1
    <3> HIDE DEF t
    <3>4. \A n \in 1..(added + 1) : n \in 1..added \/ n = added + 1
      BY <1>0
    <3>5. InTurn(t, added + 1)
      BY <3>2, <3>3, <3>4 DEF InTurn
    <3> QED  BY <2>1, <2>6, <3>5 DEF s, t, InTurn
  <2> QED  BY <1>0, <2>1, <2>2, <2>3, <2>7 DEF ran
<1>3. CASE TakeBatch
  <2>1. /\ executed' = ran \o taken /\ batch' = <<>> /\ taken # <<>>
        /\ UNCHANGED <<added, container, guarded>>
    BY <1>3 DEF TakeBatch
  <2>2. container = <<>>
    BY <2>1
  <2>3. Queue' = Queue /\ executed' \in Seq(Nat)
    <3> HIDE DEF ran, taken
    <3>1. ran \o taken \in Seq(Nat) /\ (ran \o taken) \o <<>> = ran \o taken /\ taken \o <<>> = taken /\ <<>> \o <<>> = <<>>
      BY <1>0
    <3> QED  BY <2>1, <2>2, <3>1 DEF Queue, ran, taken
  <2> QED  BY <1>0, <2>1, <2>2, <2>3 DEF InTurn
<1>4. CASE FlushTick
  <2>1. CASE commanded
    BY <1>4, <2>1 DEF FlushTick, InTurn, Queue
  <2>2. CASE ~commanded
    <3>1. /\ executed' = ran \o kept /\ container' = <<>> /\ UNCHANGED <<added, batch>>
          /\ guarded' = (kept # <<>> \/ taken # <<>>)
      BY <1>4, <2>2 DEF FlushTick
    <3>2. Queue' = Queue /\ executed' \in Seq(Nat)
      <4>1. CASE taken = <<>>
        <5> HIDE DEF ran, taken, kept
        <5>1. ran \o kept \in Seq(Nat) /\ (ran \o kept) \o <<>> = ran \o kept /\ <<>> \o kept = kept /\ <<>> \o <<>> = <<>>
          BY <1>0
        <5> QED  BY <3>1, <4>1, <5>1 DEF Queue, ran, taken, kept
      <4>2. CASE kept = <<>>
        <5> HIDE DEF ran, taken, kept
        <5>1. ran \o <<>> = ran /\ taken \o <<>> = taken
          BY <1>0
        <5> QED  BY <1>0, <3>1, <4>2, <5>1 DEF Queue, ran, taken, kept
      <4> QED  BY <4>1, <4>2
    <3> QED  BY <1>0, <3>1, <3>2 DEF InTurn
  <2> QED  BY <2>1, <2>2
<1> QED  BY <1>1, <1>2, <1>3, <1>4 DEF BulkNext

\* The tasks that have run are the first ones, each in its turn.
TasksInTurn ==
    /\ Len(executed) <= added /\ \A n \in 1..Len(executed) : executed[n] = n
    /\ batch # <<>> \/ container # <<>> => guarded

\* What the inductive invariant says of the tasks that have run.
LEMMA BulkInTurn ==
    ASSUME BulkInv
    PROVE  TasksInTurn
<1> USE DEF BulkInv
<1> DEFINE e == executed  s == batch \o container
<1>1. e \in Seq(Nat) /\ s \in Seq(Nat)
  OBVIOUS
<1>2. e \o s \in Seq(Nat) /\ Len(e \o s) = added /\ \A n \in 1..added : (e \o s)[n] = n
  BY DEF InTurn, Queue
<1> HIDE DEF e, s
<1>3. Len(e) <= added /\ \A n \in 1..Len(e) : n \in 1..added /\ (e \o s)[n] = e[n]
  BY <1>1, <1>2
<1> QED  BY <1>2, <1>3 DEF e, TasksInTurn

-----------------------------------------------------------------------------
(* timingwheel: the wheel turns *)

\* The remainder of a division.
LEMMA Remainder ==
    ASSUME NEW a \in Int, NEW m \in Nat, m > 0
    PROVE  a = m * (a \div m) + (a % m)
OBVIOUS

\* Division with a remainder.
LEMMA Division ==
    ASSUME NEW a \in Nat, NEW m \in Nat \ {0}
    PROVE  \E q \in Nat : a = m * q + (a % m) /\ a % m \in Nat /\ a % m < m
<1>1. a \div m \in Nat
  OBVIOUS
<1>2. a = m * (a \div m) + (a % m)
  <2>1. a \in Int /\ m \in Nat /\ m > 0
    OBVIOUS
  <2> QED  BY <2>1, Remainder
<1>3. a % m \in Nat /\ a % m < m
  OBVIOUS
<1> QED  BY <1>1, <1>2, <1>3

\* The remainder of a division is unique.
LEMMA Unique ==
    ASSUME NEW m \in Nat \ {0}, NEW q \in Int, NEW p \in Int, NEW r \in Nat, NEW s \in Nat,
           r < m, s < m, m * q + r = m * p + s
    PROVE  r = s
<1>1. CASE q = p
  <2>1. m * q \in Int
    OBVIOUS
  <2> QED  BY <1>1, <2>1
<1>2. CASE q >= p + 1
  <2>1. PICK d \in Nat : q = p + 1 + d
    <3>1. q - (p + 1) \in Nat /\ q = p + 1 + (q - (p + 1))
      BY <1>2
    <3> QED  BY <3>1
  <2>2. m * q = m * p + m + m * d /\ m * d \in Nat /\ m * p \in Int /\ m * q \in Int
    BY <2>1
  <2> QED  BY <2>2
<1>3. CASE p >= q + 1
  <2>1. PICK d \in Nat : p = q + 1 + d
    <3>1. p - (q + 1) \in Nat /\ p = q + 1 + (p - (q + 1))
      BY <1>3
    <3> QED  BY <3>1
  <2>2. m * p = m * q + m + m * d /\ m * d \in Nat /\ m * p \in Int /\ m * q \in Int
    BY <2>1
  <2> QED  BY <2>2
<1> QED  BY <1>1, <1>2, <1>3

\* Two ticks have the same slot exactly if they are whole turns apart.
LEMMA SameSlot ==
    ASSUME NEW a \in Nat, NEW b \in Nat, a >= b, NEW m \in Nat \ {0}
    PROVE  a % m = b % m <=> (a - b) % m = 0
<1>0. a - b \in Nat
  OBVIOUS
<1> DEFINE r == a % m  s == b % m  t == (a - b) % m
<1>1. PICK q \in Nat : a = m * q + r /\ r \in Nat /\ r < m
  BY Division
<1>2. PICK p \in Nat : b = m * p + s /\ s \in Nat /\ s < m
  BY Division
<1>3. PICK u \in Nat : a - b = m * u + t /\ t \in Nat /\ t < m
  BY <1>0, Division
<1> HIDE DEF r, s, t
<1>4. m * q \in Int /\ m * p \in Int /\ m * u \in Int /\ 0 \in Nat /\ 0 < m
  OBVIOUS
<1>5. ASSUME r = s PROVE t = 0
  <2>1. m * (q - p) = m * q - m * p /\ q - p \in Int
    OBVIOUS
  <2>2. m * (q - p) + 0 = m * u + t
    BY <1>1, <1>2, <1>3, <1>4, <1>5, <2>1
  <2> QED  BY <1>3, <1>4, <2>1, <2>2, Unique
<1>6. ASSUME t = 0 PROVE r = s
  <2>1. m * (p + u) = m * p + m * u /\ p + u \in Int
    OBVIOUS
  <2>2. m * q + r = m * (p + u) + s
    BY <1>1, <1>2, <1>3, <1>4, <1>6, <2>1
  <2> QED  BY <1>1, <1>2, <2>1, <2>2, Unique
<1> QED  BY <1>5, <1>6 DEF r, s, t

\* d is the number of ticks after this one: a timer whose slot has come has
\* whole rounds to go, or none; otherwise its number of rounds is the same a tick later.
LEMMA Turn ==
    ASSUME NEW d \in Nat, NEW m \in Nat \ {0}
    PROVE  /\ d \div m \in Nat
           /\ d % m = 0 /\ d \div m = 0 => d = 0
           /\ d % m = 0 /\ d \div m > 0 => d # 0 /\ (d - 1) \div m = (d \div m) - 1
           /\ d % m # 0 => d # 0 /\ (d - 1) \div m = d \div m
<1>1. d \div m \in Nat
  OBVIOUS
<1>2. d % m = 0 /\ d \div m = 0 => d = 0
  OBVIOUS
<1>3. d % m = 0 /\ d # 0 => (d - 1) \div m = (d \div m) - 1
  OBVIOUS
<1>4. d % m # 0 => d # 0 /\ (d - 1) \div m = d \div m
  OBVIOUS
<1>5. d = 0 => d \div m = 0
  OBVIOUS
<1> QED  BY <1>1, <1>2, <1>3, <1>4, <1>5

-----------------------------------------------------------------------------
(* timingwheel: the timers *)

\* The tick at which a timer's job is to run.
DueAt(t) == timers[t].at + Steps
\* A job runs at its tick, neither before nor after nor twice.
OnTime ==
    \A t \in 1..Len(timers) : fired[t] = IF clock < DueAt(t) THEN <<>> ELSE <<DueAt(t)>>
WheelInv ==
    /\ clock \in Nat /\ timers \in Seq([at : Nat, slot : Nat, circle : Nat])
    /\ fired \in Seq(Seq(Nat)) /\ Len(fired) = Len(timers)
    /\ \A t \in 1..Len(timers) :
         /\ timers[t].slot = DueAt(t) % Slots
         /\ clock < DueAt(t) => timers[t].circle = (DueAt(t) - (clock + 1)) \div Slots
    /\ OnTime

\* No timer has been set.
LEMMA WheelInitInv ==
    ASSUME ExecutorsInit
    PROVE  WheelInv
<1>1. clock = 0 /\ timers = <<>> /\ fired = <<>>
  BY DEF ExecutorsInit
<1>2. /\ <<>> \in Seq([at : Nat, slot : Nat, circle : Nat]) /\ <<>> \in Seq(Seq(Nat))
      /\ Len(<<>>) = 0 /\ \A t \in 1..Len(<<>>) : FALSE
  OBVIOUS
<1> QED  BY <1>1, <1>2 DEF WheelInv, OnTime

\* A timer is set in the slot that the wheel reaches at its tick.
LEMMA SetTimerInv ==
    ASSUME WheelInv, SetTimer
    PROVE  WheelInv'
<1> USE DEF WheelInv
<1>0. PICK N \in Nat : N = Len(timers)
  OBVIOUS
<1> DEFINE new == [at |-> clock, slot |-> (clock + Steps) % Slots, circle |-> (Steps - 1) \div Slots]
<1>1. timers' = Append(timers, new) /\ fired' = Append(fired, <<>>) /\ clock' = clock
  BY DEF SetTimer
<1>2. Steps \in Nat \ {0} /\ Slots \in Nat \ {0} /\ clock \in Nat
  BY ExecutorsAssumption
<1>3. new \in [at : Nat, slot : Nat, circle : Nat]
  <2>1. clock + Steps \in Nat /\ Steps - 1 \in Nat
    BY <1>2
  <2>2. (clock + Steps) % Slots \in Nat /\ (Steps - 1) \div Slots \in Nat
    BY <1>2, <2>1, Turn, Division
  <2> QED  BY <1>2, <2>2
<1>4. new.at = clock /\ new.slot = (clock + Steps) % Slots /\ new.circle = (Steps - 1) \div Slots
  OBVIOUS
<1> HIDE DEF new
<1>5. /\ timers' \in Seq([at : Nat, slot : Nat, circle : Nat]) /\ Len(timers') = N + 1
      /\ timers'[N + 1] = new /\ \A t \in 1..N : timers'[t] = timers[t]
  BY <1>0, <1>1, <1>3
<1>6. /\ fired' \in Seq(Seq(Nat)) /\ Len(fired') = N + 1
      /\ fired'[N + 1] = <<>> /\ \A t \in 1..N : fired'[t] = fired[t]
  <2>1. fired \in Seq(Seq(Nat)) /\ Len(fired) = N /\ <<>> \in Seq(Nat)
    BY <1>0
  <2> QED  BY <1>1, <2>1
<1>7. \A t \in 1..(N + 1) : t \in 1..N \/ t = N + 1
  OBVIOUS
<1>8. DueAt(N + 1)' = clock + Steps /\ \A t \in 1..N : DueAt(t)' = DueAt(t)
  BY <1>4, <1>5 DEF DueAt
<1>9. ASSUME NEW t \in 1..(N + 1)
      PROVE  /\ timers'[t].slot = DueAt(t)' % Slots
             /\ clock < DueAt(t)' => timers'[t].circle = (DueAt(t)' - (clock + 1)) \div Slots
             /\ fired'[t] = IF clock < DueAt(t)' THEN <<>> ELSE <<DueAt(t)'>>
  <2>1. CASE t \in 1..N
    BY <1>0, <1>5, <1>6, <1>8, <2>1 DEF OnTime
  <2>2. CASE t = N + 1
    <3>1. clock < clock + Steps /\ (clock + Steps) - (clock + 1) = Steps - 1
      BY <1>2
    <3>2. DueAt(t)' = clock + Steps /\ timers'[t] = new /\ fired'[t] = <<>>
      BY <1>5, <1>6, <1>8, <2>2
    <3> QED  BY <1>4, <3>1, <3>2
  <2> QED  BY <1>7, <2>1, <2>2
<1> QED  BY <1>1, <1>2, <1>5, <1>6, <1>9 DEF OnTime

\* A tick runs the jobs whose time has come, and no other.
LEMMA WheelTickInv ==
    ASSUME WheelInv, WheelTick
    PROVE  WheelInv'
<1> DEFINE R == [at : Nat, slot : Nat, circle : Nat]
<1>0. PICK N \in Nat : N = Len(timers)
  BY DEF WheelInv
<1>1. /\ clock' = clock + 1
      /\ fired' = [t \in DOMAIN fired |-> IF Due(t) THEN Append(fired[t], clock + 1) ELSE fired[t]]
      /\ timers' = [t \in DOMAIN timers |->
                      IF timers[t].slot = (clock + 1) % Slots /\ timers[t].circle > 0
                      THEN [timers[t] EXCEPT !.circle = @ - 1] ELSE timers[t]]
  BY DEF WheelTick
<1>2. Steps \in Nat \ {0} /\ Slots \in Nat \ {0} /\ clock \in Nat /\ clock' \in Nat
  BY <1>1, ExecutorsAssumption DEF WheelInv
<1>3. /\ N \in Nat /\ DOMAIN timers = 1..N /\ DOMAIN fired = 1..N
      /\ \A t \in 1..N : timers[t] \in R /\ fired[t] \in Seq(Nat)
  <2>1. fired \in Seq(Seq(Nat)) /\ Len(fired) = N /\ timers \in Seq(R) /\ N = Len(timers)
    BY <1>0 DEF WheelInv
  <2>2. DOMAIN timers = 1..N /\ DOMAIN fired = 1..N
    BY <2>1
  <2> HIDE DEF R
  <2>3. \A t \in 1..N : timers[t] \in R
    BY <2>1, ElementOfSeq
  <2>4. \A t \in 1..N : fired[t] \in Seq(Nat)
    BY <2>1, ElementOfSeq
  <2> QED  BY <2>1, <2>2, <2>3, <2>4
<1>4. ASSUME NEW t \in 1..N
      PROVE  /\ timers'[t] \in R /\ timers'[t].at = timers[t].at /\ timers'[t].slot = timers[t].slot
             /\ timers'[t].circle = IF timers[t].slot = (clock + 1) % Slots /\ timers[t].circle > 0
                                    THEN timers[t].circle - 1 ELSE timers[t].circle
             /\ fired'[t] \in Seq(Nat)
             /\ fired'[t] = IF Due(t) THEN Append(fired[t], clock + 1) ELSE fired[t]
  <2>1. timers[t] \in R /\ fired[t] \in Seq(Nat)
    BY <1>3
  <2>2. fired'[t] = IF Due(t) THEN Append(fired[t], clock + 1) ELSE fired[t]
    BY <1>1, <1>3
  <2>3. fired'[t] \in Seq(Nat)
    <3>1. clock + 1 \in Nat
      BY <1>2
    <3>2. Append(fired[t], clock + 1) \in Seq(Nat)
      BY <2>1, <3>1
    <3> QED  BY <2>1, <2>2, <3>2
  <2>4. CASE timers[t].slot = (clock + 1) % Slots /\ timers[t].circle > 0
    <3>1. timers'[t] = [timers[t] EXCEPT !.circle = timers[t].circle - 1]
      BY <1>1, <1>3, <2>4
    <3>2. timers[t].circle - 1 \in Nat
      <4>1. timers[t].circle \in Nat
        BY <2>1
      <4> QED  BY <2>4, <4>1
    <3>3. /\ timers'[t].at = timers[t].at /\ timers'[t].slot = timers[t].slot
          /\ timers'[t].circle = timers[t].circle - 1 /\ timers'[t] \in R
      BY <2>1, <3>1, <3>2
    <3> QED  BY <2>2, <2>3, <2>4, <3>3
  <2>5. CASE ~(timers[t].slot = (clock + 1) % Slots /\ timers[t].circle > 0)
    <3>1. timers'[t] = timers[t]
      BY <1>1, <1>3, <2>5
    <3> QED  BY <2>1, <2>2, <2>3, <2>5, <3>1
  <2> QED  BY <2>4, <2>5
<1>5. /\ timers' \in Seq(R) /\ Len(timers') = N /\ fired' \in Seq(Seq(Nat)) /\ Len(fired') = N
  <2>1. DOMAIN timers' = 1..N /\ DOMAIN fired' = 1..N
    BY <1>1, <1>3
  <2>2. timers' \in [1..N -> R]
    <3> HIDE DEF R
    <3>1. timers' = [t \in 1..N |-> timers'[t]]
      BY <1>1, <1>3
    <3> QED  BY <1>4, <3>1
  <2>3. fired' \in [1..N -> Seq(Nat)]
    <3>1. fired' = [t \in 1..N |-> fired'[t]]
      BY <1>1, <1>3
    <3> QED  BY <1>4, <3>1
  <2> HIDE DEF R
  <2>4. timers' \in Seq(R) /\ Len(timers') = N
    BY <1>3, <2>2, IsSequence
  <2>5. fired' \in Seq(Seq(Nat)) /\ Len(fired') = N
    BY <1>3, <2>3, IsSequence
  <2> QED  BY <2>4, <2>5
<1>6. ASSUME NEW t \in 1..N
      PROVE  /\ timers'[t].slot = DueAt(t)' % Slots
             /\ clock' < DueAt(t)' => timers'[t].circle = (DueAt(t)' - (clock' + 1)) \div Slots
             /\ fired'[t] = IF clock' < DueAt(t)' THEN <<>> ELSE <<DueAt(t)'>>
  <2> DEFINE D == DueAt(t)  now == clock + 1  left == D - now
  <2>1. D \in Nat /\ DueAt(t)' = D /\ now \in Nat
    <3>1. timers[t].at \in Nat /\ timers'[t].at = timers[t].at
      BY <1>3, <1>4
    <3>2. DueAt(t)' = DueAt(t)
      BY <3>1 DEF DueAt
    <3>3. DueAt(t) \in Nat
      BY <1>2, <3>1 DEF DueAt
    <3> QED  BY <1>2, <3>2, <3>3
  <2>2. /\ timers[t].slot = D % Slots
        /\ clock < D => timers[t].circle = left \div Slots
        /\ fired[t] = IF clock < D THEN <<>> ELSE <<D>>
    BY <1>0 DEF WheelInv, OnTime
  <2>3. timers'[t].slot = DueAt(t)' % Slots
    BY <1>4, <2>1, <2>2
  <2> HIDE DEF D
  <2>4. CASE clock < D
    <3>1. left \in Nat /\ D >= now
      BY <1>2, <2>1, <2>4
    <3>2. timers[t].slot = now % Slots <=> left % Slots = 0
      <4> HIDE DEF now
      <4>1. D % Slots = now % Slots <=> (D - now) % Slots = 0
        BY <1>2, <2>1, <3>1, SameSlot
      <4> QED  BY <2>2, <4>1
    <3>3. /\ left \div Slots \in Nat
          /\ left % Slots = 0 /\ left \div Slots = 0 => left = 0
          /\ left % Slots = 0 /\ left \div Slots > 0 => left # 0 /\ (left - 1) \div Slots = (left \div Slots) - 1
          /\ left % Slots # 0 => left # 0 /\ (left - 1) \div Slots = left \div Slots
      BY <1>2, <3>1, Turn
    <3>4. left = 0 => left % Slots = 0 /\ left \div Slots = 0
      BY <1>2
    <3>5. clock' < D <=> left # 0
      BY <1>1, <1>2, <2>1, <3>1
    <3>6. D - (clock' + 1) = left - 1 /\ (now >= D <=> left = 0) /\ (left = 0 => now = D)
      BY <1>1, <1>2, <2>1, <3>1
    <3>7. timers[t].circle = left \div Slots /\ fired[t] = <<>>
      BY <2>2, <2>4
    <3> HIDE DEF left
    <3>8. Due(t) <=> left = 0
      <4>1. now >= timers[t].at + Steps <=> left = 0
        BY <3>6 DEF D, DueAt
      <4>2. timers[t].slot = now % Slots /\ timers[t].circle = 0 <=> left = 0
        BY <3>2, <3>3, <3>4, <3>7
      <4> QED  BY <3>7, <4>1, <4>2 DEF Due, Pending
    <3>9. left # 0 => timers'[t].circle = (left - 1) \div Slots
      <4> SUFFICES ASSUME left # 0 PROVE timers'[t].circle = (left - 1) \div Slots
        OBVIOUS
      <4>1. CASE left % Slots = 0
        <5>1. left \div Slots > 0
          BY <3>3, <4>1
        <5> QED  BY <1>4, <3>2, <3>3, <3>7, <4>1, <5>1
      <4>2. CASE left % Slots # 0
        BY <1>4, <3>2, <3>3, <3>7, <4>2
      <4> QED  BY <4>1, <4>2
    <3>10. fired'[t] = IF left = 0 THEN <<D>> ELSE <<>>
      <4>1. CASE left = 0
        <5>1. fired'[t] = Append(<<>>, now) /\ now = D
          BY <1>4, <3>6, <3>7, <3>8, <4>1
        <5> QED  BY <4>1, <5>1
      <4>2. CASE left # 0
        BY <1>4, <3>7, <3>8, <4>2
      <4> QED  BY <4>1, <4>2
    <3> QED  BY <2>1, <2>3, <3>5, <3>6, <3>9, <3>10
  <2>5. CASE ~(clock < D)
    <3>1. fired[t] = <<D>> /\ ~(clock' < D)
      BY <1>1, <1>2, <2>1, <2>2, <2>5
    <3>2. ~Due(t)
      BY <3>1 DEF Due, Pending
    <3> QED  BY <1>4, <2>1, <2>3, <3>1, <3>2
  <2> QED  BY <2>4, <2>5
<1> QED  BY <1>2, <1>5, <1>6 DEF WheelInv, OnTime

\* Every step of the wheel.
LEMMA WheelStep ==
    ASSUME WheelInv, WheelNext \/ UNCHANGED <<clock, timers, fired>>
    PROVE  WheelInv'
<1>1. CASE WheelMain \/ UNCHANGED <<clock, timers, fired>>
  <2>1. UNCHANGED <<clock, timers, fired>>
    BY <1>1 DEF WheelMain
  <2>2. \A t : DueAt(t)' = DueAt(t)
    BY <2>1 DEF DueAt
  <2> QED  BY <2>1, <2>2 DEF WheelInv, OnTime
<1> QED  BY <1>1, SetTimerInv, WheelTickInv DEF WheelNext

-----------------------------------------------------------------------------
(* The programs together *)

BatchInv == MrInv /\ LoadInv /\ PoolInv /\ BulkInv /\ WheelInv

\* Each program's own steps keep its part of the invariant, the others' leave it alone.
THEOREM BatchInductive == Spec => []BatchInv
<1>1. ASSUME Init PROVE BatchInv
  <2>1. MrInv
    BY <1>1, MrInitInv DEF Init
  <2>2. LoadInv
    BY <1>1, LoadInitInv DEF Init
  <2>3. PoolInv
    BY <1>1, PoolInitInv DEF Init
  <2>4. BulkInv
    <3>1. executed = <<>> /\ batch = <<>> /\ container = <<>> /\ added = 0
      BY <1>1 DEF Init, ExecutorsInit
    <3>2. <<>> \o (<<>> \o <<>>) = <<>> /\ <<>> \in Seq(Nat) /\ Len(<<>>) = 0
      OBVIOUS
    <3> QED  BY <3>1, <3>2 DEF BulkInv, InTurn, Queue
  <2>5. WheelInv
    BY <1>1, WheelInitInv DEF Init
  <2> QED  BY <2>1, <2>2, <2>3, <2>4, <2>5 DEF BatchInv
<1>2. ASSUME BatchInv, [Next]_vars PROVE BatchInv'
  <2>1. MrInv'
    <3>1. MrNext \/ UNCHANGED mrVars
      BY <1>2 DEF Next, vars
    <3> QED  BY <1>2, <3>1, MrStep, MrSame DEF BatchInv
  <2>2. LoadInv'
    <3>1. LoadNext \/ UNCHANGED <<dic, at, pairs, dict, loaded>>
      BY <1>2 DEF Next, vars, fxVars, SquareNext, MapSquare, FilterEven, Distinct, ReduceSum, preadVars
    <3> QED  BY <1>2, <3>1, LoadStep DEF BatchInv
  <2>3. PoolInv'
    <3>1. PoolNext \/ UNCHANGED <<routine, free, created, counted>>
      BY <1>2 DEF Next, vars, poolVars, CallNext, CallRoutine, DoCall, CallLands
    <3> QED  BY <1>2, <3>1, PoolStep DEF BatchInv
  <2>4. BulkInv'
    <3>1. BulkNext \/ UNCHANGED <<executed, batch, container, added, guarded>>
      BY <1>2 DEF Next, vars, execVars, bulkVars, WheelNext, WheelMain, SetTimer, WheelTick
    <3> QED  BY <1>2, <3>1, BulkStep DEF BatchInv
  <2>5. WheelInv'
    <3>1. WheelNext \/ UNCHANGED <<clock, timers, fired>>
      BY <1>2 DEF Next, vars, execVars, wheelVars, BulkNext, AddTask, TakeBatch, FlushTick
    <3> QED  BY <1>2, <3>1, WheelStep DEF BatchInv
  <2> QED  BY <2>1, <2>2, <2>3, <2>4, <2>5 DEF BatchInv
<1> QED  BY <1>1, <1>2, PTL DEF Spec

\* A call of mr that returns a value or nil returns all of it: no item had to
\* fail the call, every mapper has ended, and nothing that a mapper wrote is
\* missing or there twice, for every program, number of items and of workers.
THEOREM ResultsAreComplete == Spec => []CompleteResult
<1>1. BatchInv => CompleteResult
  BY DEF BatchInv, MrInv
<1> QED  BY <1>1, BatchInductive, PTL

\* FastLoad loads every line but the header once, up to the first line of its
\* chunk that does not parse, for every file and every way of cutting it.
THEOREM EveryLineIsLoaded == Spec => []LoadsEveryLineOnce
<1>1. BatchInv => LoadsEveryLineOnce
  BY LoadComplete DEF BatchInv
<1> QED  BY <1>1, BatchInductive, PTL

\* The pool's resources are free or held, at most Limit, and as many as create
\* and destroy have counted; nobody waits for a resource that nobody has.
THEOREM PoolKeepsItsBooks == Spec => []Books
<1>1. BatchInv => Books
  BY DEF BatchInv, PoolInv
<1> QED  BY <1>1, BatchInductive, PTL

\* Tasks run once and in the order they were added, and none is left where no
\* goroutine flushes it.
THEOREM TasksRunInTurn == Spec => []TasksInTurn
<1>1. BatchInv => TasksInTurn
  BY BulkInTurn DEF BatchInv
<1> QED  BY <1>1, BatchInductive, PTL

\* The wheel runs every timer's job Steps ticks after it was set, whatever the
\* number of slots: never early, never late, never twice.
THEOREM TimersRunOnTime == Spec => []OnTime
<1>1. BatchInv => OnTime
  BY DEF BatchInv, WheelInv
<1> QED  BY <1>1, BatchInductive, PTL
=============================================================================
