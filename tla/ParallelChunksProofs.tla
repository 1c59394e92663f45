------------------------ MODULE ParallelChunksProofs ------------------------
(***************************************************************************)
(* Proofs about ParallelChunks, for any threads, inputs, thresholds and    *)
(* chunk counts, with callbacks that throw and callbacks that call.        *)
(***************************************************************************)
EXTENDS ParallelChunks, FiniteSetTheorems, SequenceTheorems, WellFoundedInduction, TLAPS

-----------------------------------------------------------------------------
(* The operators the model is built from. *)

LEMMA EffectiveIs ==
    ASSUME NEW chunks \in Nat
    PROVE  Effective(chunks) \in Nat \ {0}
<1>1. Cardinality(Workers) \in Nat /\ Cardinality(Workers) # 0
  BY ParallelChunksAssumption, FS_CardinalityType, FS_EmptySet
<1> QED  BY <1>1 DEF Effective

LEMMA TimesMonotone ==
    ASSUME NEW i \in Nat, NEW j \in Nat, NEW q \in Nat, i =< j
    PROVE  i * q =< j * q
<1>1. (j - i) \in Nat /\ (j - i) * q \in Nat
  OBVIOUS
<1>2. (j - i) * q = j * q - i * q
  OBVIOUS
<1> QED  BY <1>1, <1>2

LEMMA Remainder ==
    ASSUME NEW x \in Int, NEW n \in Int, n > 0
    PROVE  x = n * (x \div n) + (x % n)
  BY Z3

LEMMA Division ==
    ASSUME NEW x \in Nat, NEW n \in Nat \ {0}
    PROVE  /\ x \div n \in Nat /\ x % n \in Nat /\ x % n < n
           /\ x = n * (x \div n) + (x % n)
           /\ n =< x => x \div n >= 1
<1>1. x \div n \in Nat /\ x % n \in Nat /\ x % n < n
  OBVIOUS
<1>2. x = n * (x \div n) + (x % n)
  <2>1. x \in Int /\ n \in Int /\ n > 0
    OBVIOUS
  <2> QED  BY <2>1, Remainder, Zenon
<1> DEFINE q == x \div n
           r == x % n
<1>3. q \in Nat /\ r \in Nat /\ r < n /\ x = n * q + r
  BY <1>1, <1>2
<1> HIDE DEF q, r
<1>4. n =< x => q >= 1
  <2>1. q = 0 => n * q = 0
    OBVIOUS
  <2> QED  BY <1>3, <2>1
<1> QED  BY <1>3, <1>4 DEF q, r

\* A set of naturals has a least element.
LEMMA LeastNatural ==
    ASSUME NEW S \in SUBSET Nat, S # {}
    PROVE  \E x \in S : \A y \in S : x =< y
<1>1. \E R : R = {ss \in Nat \X Nat : ss[1] < ss[2]} /\ IsWellFoundedOn(R, Nat)
  BY NatLessThanWellFounded, Zenon DEF OpToRel
<1>2. PICK R : R = {ss \in Nat \X Nat : ss[1] < ss[2]} /\ IsWellFoundedOn(R, Nat)
  BY <1>1
<1>3. PICK x \in S : \A y \in S : ~(<<y, x>> \in R)
  BY <1>2, WFMin
<1>4. ASSUME NEW y \in S PROVE x =< y
  <2>1. <<y, x>> \notin R
    BY <1>3
  <2>2. <<y, x>> \in Nat \X Nat /\ <<y, x>>[1] = y /\ <<y, x>>[2] = x
    OBVIOUS
  <2>3. ~(y < x)
    BY <1>2, <2>1, <2>2
  <2> QED  BY <2>3
<1> QED  BY <1>4

-----------------------------------------------------------------------------
(* The invariant. *)

\* The blocks cut 0 .. count - 1 into adjacent spans, none empty.
Tiling(blocks, count) ==
    /\ Len(blocks) =< count
    /\ \A i \in DOMAIN blocks : blocks[i].start < blocks[i].end /\ blocks[i].end =< count
    /\ \A i, j \in DOMAIN blocks : i < j => blocks[i].end =< blocks[j].start
    /\ \A e \in 0 .. (count - 1) :
          \E i \in DOMAIN blocks : e \in blocks[i].start .. (blocks[i].end - 1)
    /\ \A i \in DOMAIN blocks :
          /\ i = 1 => blocks[i].start = 0
          /\ i = Len(blocks) => blocks[i].end = count
          /\ i < Len(blocks) => blocks[i + 1].start = blocks[i].end

ShapeInv(t) ==
    /\ Len(outcome[t]) = Len(spans[t])
    /\ pushed[t] =< Len(spans[t])
    /\ \A i \in DOMAIN outcome[t] : i > pushed[t] => outcome[t][i] = "pending"
    /\ pc[t] = "idle" =>
          /\ call[t] = NoCall /\ spans[t] = <<>> /\ pushed[t] = 0 /\ folded[t] = 0
          /\ \A e \in Element : visits[t][e] = 0
    /\ pc[t] # "idle" => call[t].count \in Counts /\ Tiling(spans[t], call[t].count)
    /\ pc[t] = "serial" => Len(spans[t]) = 1 /\ pushed[t] = 0
    /\ pc[t] = "push" => pushed[t] < Len(spans[t])
    /\ pc[t] \in {"wait", "get", "fold"} => pushed[t] = Len(spans[t]) /\ 0 < Len(spans[t])
    /\ pc[t] = "wait" => call[t].kind # "reduce"
    /\ pc[t] \in {"get", "fold"} => call[t].kind = "reduce"

\* An element was visited when its block has a value, and once.
VisitInv(t) ==
    pc[t] \notin {"idle", "returned"} =>
        \A e \in Element :
            visits[t][e] = IF \E i \in DOMAIN outcome[t] :
                                 outcome[t][i] = "value"
                                 /\ e \in Touched(call[t].kind, spans[t][i])
                           THEN 1 ELSE 0

ReturnInv(t) ==
    /\ pc[t] = "returned"
    /\ call[t].kind = "reduce" \/ \A i \in DOMAIN outcome[t] : outcome[t][i] # "thrown"
    => \A e \in Element : visits[t][e] = (IF e \in Input(t) THEN 1 ELSE 0)

\* What is combined so far is what the first blocks stand for.
Reached(t) == IF folded[t] = 0 THEN 0 ELSE spans[t][folded[t]].end

Prefix(n) == Combine(InitialValue, Partial([start |-> 0, end |-> n]))

FoldInv(t) ==
    /\ pc[t] \in {"serial", "push", "wait", "get"} =>
          folded[t] = 0 /\ result[t] = InitialValue
    /\ pc[t] = "fold" =>
          /\ Answered(t) /\ folded[t] < Len(spans[t])
          /\ result[t] = Prefix(Reached(t))
    /\ pc[t] = "returned" /\ call[t].kind = "reduce" => result[t] = Prefix(call[t].count)

PlanInv(t) ==
    pc[t] \in {"push", "serial"} /\ call[t].kind # "parallel_for" =>
        /\ call[t].min \in MinChunkSizes /\ call[t].chunks \in ChunkCounts
        /\ pc[t] = "push" <=> Parallelize(call[t].count, call[t].min, call[t].chunks)

ThrowInv(t) ==
    ~MayThrow => pc[t] # "raised" /\ \A i \in DOMAIN outcome[t] : outcome[t][i] # "thrown"

ThreadInv(t) ==
    ShapeInv(t) /\ VisitInv(t) /\ ReturnInv(t) /\ FoldInv(t) /\ PlanInv(t) /\ ThrowInv(t)

\* A live task is of a call that is not over, for a block with no outcome.
Open == {"push", "wait", "get", "raised"}

TaskInv(task) ==
    task.live => /\ pc[task.by] \in Open
                 /\ task.block \in 1 .. pushed[task.by]
                 /\ outcome[task.by][task.block] = "pending"

TaskOf(t, block) == [by |-> t, block |-> block, live |-> TRUE]

\* A block has one task, until it has its outcome.
TasksInv ==
    /\ \A i \in DOMAIN queue : TaskInv(queue[i])
    /\ \A w \in Workers : running[w] # Nobody => TaskInv(running[w])
    /\ \A i, j \in DOMAIN queue : queue[i].live /\ queue[i] = queue[j] => i = j
    /\ \A i \in DOMAIN queue, w \in Workers : queue[i].live => queue[i] # running[w]
    /\ \A v, w \in Workers :
          running[v] # Nobody /\ running[v].live /\ running[v] = running[w] => v = w
    /\ \A t \in Threads : pc[t] \in {"push", "wait", "get"} =>
          \A b \in 1 .. pushed[t] : outcome[t][b] = "pending" =>
              \/ \E i \in DOMAIN queue : queue[i] = TaskOf(t, b)
              \/ \E w \in Workers : running[w] = TaskOf(t, b)
    /\ ~MayThrow => SpansAreReal

IInv == TypeOK /\ (\A t \in Threads : ThreadInv(t)) /\ TasksInv

-----------------------------------------------------------------------------
(* The blocks of a call tile its input. *)

Spans == [start : Nat, end : Nat]

\* Cutting 0 .. count - 1 at increasing ends.
Cut(cut, n) == [i \in 1 .. n |-> [start |-> cut[i - 1], end |-> cut[i]]]

LEMMA CutsTile ==
    ASSUME NEW n \in Nat, NEW count \in Nat, n =< count, count # 0 => n # 0,
           NEW cut \in [0 .. n -> Nat], cut[0] = 0, cut[n] = count,
           \A i, j \in 0 .. n : i < j => cut[i] < cut[j]
    PROVE  /\ Cut(cut, n) \in Seq(Spans) /\ Len(Cut(cut, n)) = n
           /\ Tiling(Cut(cut, n), count)
<1> DEFINE blocks == Cut(cut, n)
<1>1. \A i \in 1 .. n : i - 1 \in 0 .. n /\ i \in 0 .. n /\ cut[i - 1] \in Nat /\ cut[i] \in Nat
  OBVIOUS
<1>2. /\ DOMAIN blocks = 1 .. n
      /\ \A i \in 1 .. n : blocks[i].start = cut[i - 1] /\ blocks[i].end = cut[i]
  BY DEF Cut
<1>3. blocks \in Seq(Spans) /\ Len(blocks) = n
  <2>1. blocks \in [1 .. n -> Spans]
    BY <1>1 DEF Spans, Cut
  <2> QED  BY <2>1
<1> HIDE DEF blocks
<1>4. \A i, j \in 0 .. n : i =< j => cut[i] =< cut[j]
  <2>1. \A i, j \in 0 .. n : cut[i] \in Nat /\ (i =< j => i = j \/ i < j)
    OBVIOUS
  <2> QED  BY <2>1
<1>5. ASSUME NEW i \in 1 .. n PROVE blocks[i].start < blocks[i].end /\ blocks[i].end =< count
  BY <1>1, <1>2, <1>4
<1>6. ASSUME NEW i \in 1 .. n, NEW j \in 1 .. n, i < j PROVE blocks[i].end =< blocks[j].start
  BY <1>1, <1>2, <1>4, <1>6
<1>7. ASSUME NEW e \in 0 .. (count - 1)
      PROVE  \E i \in 1 .. n : e \in blocks[i].start .. (blocks[i].end - 1)
  <2> DEFINE S == {i \in 0 .. n : e < cut[i]}
  <2>1. S \in SUBSET Nat /\ n \in S
    OBVIOUS
  <2>2. PICK i \in S : \A j \in S : i =< j
    BY <2>1, LeastNatural
  <2>3. i # 0
    OBVIOUS
  <2>4. i - 1 \in 0 .. n /\ i - 1 \notin S
    BY <2>2, <2>3
  <2>5. i \in 1 .. n /\ cut[i - 1] =< e /\ e < cut[i]
    BY <2>3, <2>4
  <2>6. e \in blocks[i].start .. (blocks[i].end - 1)
    BY <1>1, <1>2, <2>5
  <2> QED  BY <2>5, <2>6
<1>8. ASSUME NEW i \in 1 .. n
      PROVE  /\ i = 1 => blocks[i].start = 0
             /\ i = n => blocks[i].end = count
             /\ i < n => blocks[i + 1].start = blocks[i].end
  <2>1. blocks[i].start = cut[i - 1] /\ blocks[i].end = cut[i]
    BY <1>2
  <2>2. ASSUME i = 1 PROVE blocks[i].start = 0
    <3>1. i - 1 = 0
      BY <2>2
    <3> QED  BY <2>1, <3>1
  <2>3. ASSUME i < n PROVE blocks[i + 1].start = blocks[i].end
    <3>1. i + 1 \in 1 .. n /\ (i + 1) - 1 = i
      BY <2>3
    <3> QED  BY <1>2, <2>1, <3>1
  <2> QED  BY <2>1, <2>2, <2>3
<1>9. Tiling(blocks, count)
  BY <1>2, <1>3, <1>5, <1>6, <1>7, <1>8 DEF Tiling
<1> QED  BY <1>3, <1>9 DEF blocks

LEMMA BlocksTile ==
    ASSUME NEW count \in Nat \ {0}, NEW wanted \in Nat \ {0}
    PROVE  /\ Blocks(count, wanted) \in Seq(Spans)
           /\ Blocks(count, wanted) # <<>>
           /\ Tiling(Blocks(count, wanted), count)
<1> DEFINE n == IF wanted < count THEN wanted ELSE count
           q == count \div n
           r == count % n
           end(i) == i * q + (IF i < r THEN i ELSE r)
           cut == [i \in 0 .. n |-> end(i)]
           blocks == [i \in 1 .. n |-> [start |-> end(i - 1), end |-> end(i)]]
<1>1. n \in Nat \ {0} /\ n =< count
  OBVIOUS
<1> HIDE DEF n
<1>2. q \in Nat /\ r \in Nat /\ r < n /\ count = n * q + r /\ q >= 1
  BY <1>1, Division
<1> HIDE DEF q, r
<1>3. \A i \in Nat : i * q \in Nat
  BY <1>2
<1>4. \A i \in Nat : end(i) \in Nat
  BY <1>2, <1>3
<1>5. end(0) = 0 /\ end(n) = count
  BY <1>1, <1>2
<1>6. ASSUME NEW i \in Nat, NEW j \in Nat, i < j PROVE end(i) < end(j)
  <2>1. (i + 1) * q =< j * q
    BY <1>2, <1>6, TimesMonotone
  <2>2. (i + 1) * q = i * q + q
    BY <1>2
  <2>3. i * q < j * q
    BY <1>2, <1>3, <2>1, <2>2
  <2>4. (IF i < r THEN i ELSE r) =< (IF j < r THEN j ELSE r)
    BY <1>2, <1>6
  <2> QED  BY <1>2, <1>3, <2>3, <2>4
<1> HIDE DEF end
<1>7. cut \in [0 .. n -> Nat] /\ cut[0] = 0 /\ cut[n] = count
      /\ \A i, j \in 0 .. n : i < j => cut[i] < cut[j]
  BY <1>1, <1>4, <1>5, <1>6
<1>8. blocks = Cut(cut, n)
  BY <1>1 DEF Cut
<1> HIDE DEF cut, blocks
<1>9. blocks \in Seq(Spans) /\ Len(blocks) = n /\ Tiling(blocks, count)
  BY <1>1, <1>7, <1>8, CutsTile
<1>10. Blocks(count, wanted) = blocks
  BY DEF Blocks, blocks, end, q, r, n
<1>11. blocks # <<>>
  BY <1>1, <1>9
<1> QED  BY <1>9, <1>10, <1>11

LEMMA IndexesTile ==
    ASSUME NEW count \in Nat
    PROVE  /\ Indexes(count) \in Seq(Spans) /\ Len(Indexes(count)) = count
           /\ Tiling(Indexes(count), count)
<1> DEFINE cut == [i \in 0 .. count |-> i]
<1>1. cut \in [0 .. count -> Nat] /\ cut[0] = 0 /\ cut[count] = count
      /\ \A i, j \in 0 .. count : i < j => cut[i] < cut[j]
  OBVIOUS
<1>2. Indexes(count) = Cut(cut, count)
  BY DEF Indexes, Cut
<1> HIDE DEF cut
<1> QED  BY <1>1, <1>2, CutsTile

LEMMA WholeTiles ==
    ASSUME NEW count \in Nat \ {0}
    PROVE  Whole(count) \in Seq(Spans) /\ Len(Whole(count)) = 1 /\ Tiling(Whole(count), count)
<1> DEFINE cut == [i \in 0 .. 1 |-> IF i = 0 THEN 0 ELSE count]
<1>1. cut \in [0 .. 1 -> Nat] /\ cut[0] = 0 /\ cut[1] = count
      /\ \A i, j \in 0 .. 1 : i < j => cut[i] < cut[j]
  OBVIOUS
<1> DEFINE n == 1
<1>2. Whole(count) = Cut(cut, n)
  BY DEF Whole, Cut
<1>3. n \in Nat /\ n =< count /\ n # 0 /\ cut \in [0 .. n -> Nat] /\ cut[n] = count
      /\ \A i, j \in 0 .. n : i < j => cut[i] < cut[j]
  BY <1>1
<1> HIDE DEF cut, n
<1>4. Cut(cut, n) \in Seq(Spans) /\ Len(Cut(cut, n)) = n /\ Tiling(Cut(cut, n), count)
  BY <1>1, <1>3, CutsTile
<1> QED  BY <1>2, <1>4 DEF n

LEMMA NothingTiles == <<>> \in Seq(Spans) /\ Tiling(<<>>, 0)
<1> DEFINE none == <<>>
<1>1. none \in Seq(Spans) /\ Len(none) = 0 /\ DOMAIN none = {}
  OBVIOUS
<1> HIDE DEF none
<1>2. Tiling(none, 0)
  BY <1>1 DEF Tiling
<1> QED  BY <1>1, <1>2 DEF none

\* No element is in two blocks.
LEMMA TilesApart ==
    ASSUME NEW blocks \in Seq(Spans), NEW count \in Nat, Tiling(blocks, count),
           NEW i \in DOMAIN blocks, NEW j \in DOMAIN blocks, NEW kind, NEW e \in Int,
           e \in Touched(kind, blocks[i]), e \in Touched(kind, blocks[j])
    PROVE  i = j
<1>1. i \in Nat /\ j \in Nat /\ blocks[i] \in Spans /\ blocks[j] \in Spans
  OBVIOUS
<1>2. /\ blocks[i].start \in Nat /\ blocks[i].end \in Nat
      /\ blocks[j].start \in Nat /\ blocks[j].end \in Nat
  BY <1>1 DEF Spans
<1>3. /\ i < j => blocks[i].end =< blocks[j].start
      /\ j < i => blocks[j].end =< blocks[i].start
  BY DEF Tiling
<1> QED  BY <1>1, <1>2, <1>3 DEF Touched

LEMMA ElementIs == Element \subseteq Nat /\ \A n \in Counts : n \in Nat /\ 0 .. (n - 1) \subseteq Element
<1>1. SizeMax \in Nat /\ Counts \subseteq 0 .. SizeMax
  BY ParallelChunksAssumption
<1> QED  BY <1>1 DEF Element

\* The blocks of an input are spans of elements, and have a number each.
LEMMA TilesAreSpans ==
    ASSUME NEW count \in Counts, NEW blocks \in Seq(Spans), Tiling(blocks, count)
    PROVE  /\ blocks \in Seq(Span)
           /\ \A i \in DOMAIN blocks : i \in {e + 1 : e \in Element}
           /\ \A i \in DOMAIN blocks : Touched("", blocks[i]) \subseteq 0 .. (count - 1)
<1>1. count \in Nat /\ 0 .. (count - 1) \subseteq Element
  BY ElementIs
<1>2. DOMAIN blocks = 1 .. Len(blocks) /\ Len(blocks) \in Nat /\ Len(blocks) =< count
  BY DEF Tiling
<1>3. ASSUME NEW i \in DOMAIN blocks
      PROVE  /\ blocks[i] \in Span /\ i \in {e + 1 : e \in Element}
             /\ Touched("", blocks[i]) \subseteq 0 .. (count - 1)
  <2>1. blocks[i] \in Spans
    OBVIOUS
  <2>2. /\ blocks[i] = [start |-> blocks[i].start, end |-> blocks[i].end]
        /\ blocks[i].start \in Nat /\ blocks[i].end \in Nat
    BY <2>1 DEF Spans
  <2>3. blocks[i].start < blocks[i].end /\ blocks[i].end =< count
    BY DEF Tiling
  <2>4. blocks[i].start \in Element /\ blocks[i].end - 1 \in Element /\ i - 1 \in Element
    BY <1>1, <1>2, <2>2, <2>3
  <2>5. blocks[i].end = (blocks[i].end - 1) + 1 /\ i = (i - 1) + 1
    BY <1>2, <2>2
  <2>6. blocks[i].end \in {e + 1 : e \in Element} /\ i \in {e + 1 : e \in Element}
    BY <2>4, <2>5
  <2>7. blocks[i] \in Span
    <3> DEFINE s == blocks[i].start
               e == blocks[i].end
    <3>1. [start |-> s, end |-> e] \in Span
      BY <2>4, <2>6 DEF Span
    <3> QED  BY <2>2, <3>1
  <2>8. Touched("", blocks[i]) \subseteq 0 .. (count - 1)
    BY <1>1, <2>2, <2>3 DEF Touched
  <2> QED  BY <2>6, <2>7, <2>8
<1>4. blocks \in [1 .. Len(blocks) -> Span]
  <2>1. blocks \in [1 .. Len(blocks) -> Spans]
    OBVIOUS
  <2>2. \A i \in 1 .. Len(blocks) : blocks[i] \in Span
    BY <1>2, <1>3, Zenon
  <2> QED  BY <2>1, <2>2
<1>5. blocks \in Seq(Span)
  <2> DEFINE n == Len(blocks)
  <2>1. n \in Nat /\ blocks \in [1 .. n -> Span]
    BY <1>2, <1>4
  <2> HIDE DEF n
  <2> QED  BY <2>1
<1> QED  BY <1>3, <1>5, Zenon

LEMMA SpanIsSpans == Span \subseteq Spans
<1>1. Element \subseteq Nat
  BY ElementIs
<1>2. {e + 1 : e \in Element} \subseteq Nat
  BY <1>1
<1> DEFINE ends == {e + 1 : e \in Element}
<1> HIDE DEF ends
<1>3. [start : Element, end : ends] \subseteq [start : Nat, end : Nat]
  BY <1>1, <1>2 DEF ends
<1> QED  BY <1>3 DEF Span, Spans, ends

\* What TypeOK says of one thread.
LEMMA ThreadTypes ==
    ASSUME TypeOK, NEW t \in Threads
    PROVE  /\ pc[t] \in Labels /\ call[t] \in Call
           /\ spans[t] \in Seq(Span) /\ spans[t] \in Seq(Spans)
           /\ Len(spans[t]) \in Nat /\ DOMAIN spans[t] = 1 .. Len(spans[t])
           /\ pushed[t] \in Nat /\ folded[t] \in Nat
           /\ outcome[t] \in Seq({"pending", "value", "thrown"})
           /\ Len(outcome[t]) \in Nat /\ DOMAIN outcome[t] = 1 .. Len(outcome[t])
           /\ visits[t] \in [Element -> Nat] /\ result[t] \in Seq(Int)
           /\ call[t].count \in Nat
<1>1. spans[t] \in Seq(Span) /\ outcome[t] \in Seq({"pending", "value", "thrown"})
  BY DEF TypeOK
<1>2. spans[t] \in Seq(Spans)
  BY <1>1, SpanIsSpans
<1>3. call[t] \in Call /\ SizeMax \in Nat
  BY ParallelChunksAssumption DEF TypeOK
<1>4. call[t].count \in Nat
  BY <1>3 DEF Call
<1> QED  BY <1>1, <1>2, <1>3, <1>4 DEF TypeOK

-----------------------------------------------------------------------------
(* What a step leaves alone. *)

LEMMA ThreadKept ==
    ASSUME NEW t, ThreadInv(t), pc'[t] = pc[t], call'[t] = call[t], spans'[t] = spans[t],
           pushed'[t] = pushed[t], outcome'[t] = outcome[t], visits'[t] = visits[t],
           folded'[t] = folded[t], result'[t] = result[t]
    PROVE  ThreadInv(t)'
<1>1. ShapeInv(t)'
  BY DEF ThreadInv, ShapeInv
<1>2. VisitInv(t)'
  BY DEF ThreadInv, VisitInv
<1>3. ReturnInv(t)'
  BY DEF ThreadInv, ReturnInv, Input
<1>4. FoldInv(t)'
  BY DEF ThreadInv, FoldInv, Reached, Answered
<1>5. PlanInv(t)'
  BY DEF ThreadInv, PlanInv
<1>6. ThrowInv(t)'
  BY DEF ThreadInv, ThrowInv
<1> QED  BY <1>1, <1>2, <1>3, <1>4, <1>5, <1>6 DEF ThreadInv

\* No task of the call is queued or running.
NoTask(t) ==
    /\ \A i \in DOMAIN queue : queue[i].live => queue[i].by # t
    /\ \A w \in Workers : running[w] # Nobody /\ running[w].live => running[w].by # t

LEMMA ClosedHasNoTask ==
    ASSUME TasksInv, NEW t, pc[t] \notin Open \/ Answered(t),
           Len(outcome[t]) \in Nat, pushed[t] =< Len(outcome[t]), pushed[t] \in Nat,
           DOMAIN outcome[t] = 1 .. Len(outcome[t])
    PROVE  NoTask(t)
<1>1. ASSUME NEW task, TaskInv(task), task.live PROVE task.by # t
  <2> SUFFICES ASSUME task.by = t PROVE FALSE
    OBVIOUS
  <2>1. pc[t] \in Open /\ task.block \in 1 .. pushed[t] /\ outcome[t][task.block] = "pending"
    BY <1>1 DEF TaskInv
  <2>2. task.block \in DOMAIN outcome[t]
    BY <2>1
  <2> QED  BY <2>1, <2>2 DEF Answered
<1> QED  BY <1>1 DEF TasksInv, NoTask

LEMMA TasksKept ==
    ASSUME TypeOK, TasksInv, NEW t \in Threads, queue' = queue, running' = running,
           \A u \in Threads \ {t} :
              pc'[u] = pc[u] /\ pushed'[u] = pushed[u] /\ outcome'[u] = outcome[u],
           \/ NoTask(t)
           \/ pc'[t] \in Open /\ pushed'[t] = pushed[t] /\ outcome'[t] = outcome[t],
           pc'[t] \in {"push", "wait", "get"} =>
              \/ pushed'[t] = 0
              \/ /\ pc[t] \in {"push", "wait", "get"}
                 /\ pushed'[t] = pushed[t] /\ outcome'[t] = outcome[t]
    PROVE  TasksInv'
<1>1. queue \in Seq(Task) /\ running \in [Workers -> Task \cup {Nobody}]
  BY DEF TypeOK
<1>2. ASSUME NEW task \in Task, TaskInv(task), task.live /\ NoTask(t) => task.by # t
      PROVE  TaskInv(task)'
  <2>1. task.by \in Threads
    BY DEF Task
  <2> QED  BY <1>2, <2>1 DEF TaskInv
<1>3. \A i \in DOMAIN queue : TaskInv(queue[i])'
  <2> SUFFICES ASSUME NEW i \in DOMAIN queue PROVE TaskInv(queue[i])'
    OBVIOUS
  <2> PICK task : task = queue[i]
    OBVIOUS
  <2>1. TaskInv(task)'
    BY <1>1, <1>2 DEF TasksInv, NoTask
  <2> QED  BY <2>1 DEF TaskInv
<1>4. \A w \in Workers : running[w] # Nobody => TaskInv(running[w])'
  <2> SUFFICES ASSUME NEW w \in Workers, running[w] # Nobody PROVE TaskInv(running[w])'
    OBVIOUS
  <2> PICK task : task = running[w]
    OBVIOUS
  <2>1. TaskInv(task)'
    BY <1>1, <1>2 DEF TasksInv, NoTask
  <2> QED  BY <2>1 DEF TaskInv
<1>5. ASSUME NEW u \in Threads, pc'[u] \in {"push", "wait", "get"},
             NEW b \in 1 .. pushed'[u], outcome'[u][b] = "pending"
      PROVE  \/ \E i \in DOMAIN queue' : queue'[i] = TaskOf(u, b)
             \/ \E w \in Workers : running'[w] = TaskOf(u, b)
  <2>1. u = t => pushed'[t] # 0
    OBVIOUS
  <2> QED  BY <1>5, <2>1 DEF TasksInv
<1>6. ~MayThrow => SpansAreReal'
  BY DEF TasksInv, SpansAreReal
<1> QED  BY <1>3, <1>4, <1>5, <1>6 DEF TasksInv

\* A thread's own step: what is left to show of it.
OthersKept(t) ==
    \A u \in Threads \ {t} :
        /\ pc'[u] = pc[u] /\ call'[u] = call[u] /\ spans'[u] = spans[u]
        /\ pushed'[u] = pushed[u] /\ outcome'[u] = outcome[u] /\ visits'[u] = visits[u]
        /\ folded'[u] = folded[u] /\ result'[u] = result[u]

LEMMA ThreadStep ==
    ASSUME IInv, NEW t \in Threads, queue' = queue, running' = running,
           OthersKept(t), TypeOK', ThreadInv(t)',
           \/ NoTask(t)
           \/ pc'[t] \in Open /\ pushed'[t] = pushed[t] /\ outcome'[t] = outcome[t],
           pc'[t] \in {"push", "wait", "get"} =>
              \/ pushed'[t] = 0
              \/ /\ pc[t] \in {"push", "wait", "get"}
                 /\ pushed'[t] = pushed[t] /\ outcome'[t] = outcome[t]
    PROVE  IInv'
<1>1. \A u \in Threads : ThreadInv(u)'
  <2> SUFFICES ASSUME NEW u \in Threads \ {t} PROVE ThreadInv(u)'
    OBVIOUS
  <2>1. ThreadInv(u)
    BY DEF IInv
  <2> QED  BY <2>1, ThreadKept DEF OthersKept
<1>2. TasksInv'
  BY TasksKept DEF IInv, OthersKept
<1> QED  BY <1>1, <1>2 DEF IInv

LEMMA NoTaskOf ==
    ASSUME IInv, NEW t \in Threads, pc[t] \notin Open \/ Answered(t)
    PROVE  NoTask(t)
<1>1. ThreadInv(t) /\ TypeOK /\ TasksInv
  BY DEF IInv
<1>2. pushed[t] \in Nat /\ Len(outcome[t]) \in Nat /\ DOMAIN outcome[t] = 1 .. Len(outcome[t])
  BY <1>1, ThreadTypes
<1>3. pushed[t] =< Len(outcome[t])
  BY <1>1 DEF ThreadInv, ShapeInv
<1> QED  BY <1>1, <1>2, <1>3, ClosedHasNoTask

-----------------------------------------------------------------------------
(* Calls begin. *)

LEMMA PrefixNone == Prefix(0) = InitialValue
<1> DEFINE none == Partial([start |-> 0, end |-> 0])
<1>1. none = <<>>
  BY DEF Partial
<1>2. Prefix(0) = InitialValue \o none
  BY DEF Prefix, Combine
<1> HIDE DEF none
<1>3. InitialValue \in Seq(Int)
  BY DEF InitialValue
<1> QED  BY <1>1, <1>2, <1>3

LEMMA EnteredKeeps ==
    ASSUME IInv, NEW t \in Threads, pc[t] = "idle",
           NEW arguments \in Call, arguments.count \in Counts,
           NEW label \in {"returned", "serial", "push"},
           NEW blocks \in Seq(Spans), Tiling(blocks, arguments.count),
           label = "returned" => arguments.count = 0,
           label = "serial" => Len(blocks) = 1,
           label = "push" => 0 < Len(blocks),
           arguments.kind # "parallel_for" =>
              /\ arguments.min \in MinChunkSizes /\ arguments.chunks \in ChunkCounts
              /\ label = "push" => Parallelize(arguments.count, arguments.min, arguments.chunks)
              /\ label = "serial" => ~Parallelize(arguments.count, arguments.min, arguments.chunks),
           Entered(t, arguments, label, blocks)
    PROVE  IInv'
<1>1. TypeOK /\ ThreadInv(t)
  BY DEF IInv
<1>2. blocks \in Seq(Span) /\ arguments.count \in Nat
  BY TilesAreSpans, ElementIs
<1> DEFINE fresh == [i \in DOMAIN blocks |-> "pending"]
<1>3. fresh \in Seq({"pending", "value", "thrown"}) /\ Len(fresh) = Len(blocks)
      /\ DOMAIN fresh = DOMAIN blocks /\ \A i \in DOMAIN fresh : fresh[i] = "pending"
  BY <1>2
<1>4. pc' = [pc EXCEPT ![t] = label] /\ call' = [call EXCEPT ![t] = arguments]
      /\ spans' = [spans EXCEPT ![t] = blocks] /\ outcome' = [outcome EXCEPT ![t] = fresh]
      /\ result' = [result EXCEPT ![t] = InitialValue]
      /\ queue' = queue /\ running' = running /\ pushed' = pushed /\ visits' = visits
      /\ folded' = folded
  BY DEF Entered, Goto
<1> HIDE DEF fresh
<1>5. TypeOK'
  <2>1. InitialValue \in Seq(Int) /\ label \in Labels
    BY DEF InitialValue, Labels
  <2> QED  BY <1>1, <1>2, <1>3, <1>4, <2>1 DEF TypeOK
<1>6. pc'[t] = label /\ call'[t] = arguments /\ spans'[t] = blocks /\ outcome'[t] = fresh
      /\ result'[t] = InitialValue
  BY <1>1, <1>4 DEF TypeOK
<1>7. pushed'[t] = 0 /\ folded'[t] = 0 /\ \A e \in Element : visits'[t][e] = 0
  BY <1>1, <1>4 DEF ThreadInv, ShapeInv
<1>8. OthersKept(t)
  BY <1>1, <1>4 DEF OthersKept, TypeOK
<1>9. ThreadInv(t)'
  <2>1. ShapeInv(t)'
    BY <1>2, <1>3, <1>6, <1>7 DEF ShapeInv
  <2>2. VisitInv(t)'
    BY <1>3, <1>6, <1>7 DEF VisitInv
  <2>3. ReturnInv(t)'
    BY <1>6, <1>7 DEF ReturnInv, Input
  <2>4. FoldInv(t)'
    BY <1>6, <1>7, PrefixNone DEF FoldInv
  <2>5. PlanInv(t)'
    BY <1>6 DEF PlanInv
  <2>6. ThrowInv(t)'
    BY <1>3, <1>6 DEF ThrowInv
  <2> QED  BY <2>1, <2>2, <2>3, <2>4, <2>5, <2>6 DEF ThreadInv
<1>10. NoTask(t)
  BY NoTaskOf DEF Open
<1> QED  BY <1>4, <1>5, <1>7, <1>8, <1>9, <1>10, ThreadStep

LEMMA ParallelChunksKeeps ==
    ASSUME IInv, NEW t \in Threads, ParallelChunks(t)
    PROVE  IInv'
<1>1. PICK kind \in Kinds \ {"parallel_for"}, count \in Counts, min \in MinChunkSizes,
           chunks \in ChunkCounts :
         LET arguments == [kind |-> kind, count |-> count, min |-> min, chunks |-> chunks]
         IN  \/ count = 0 /\ Entered(t, arguments, "returned", <<>>)
             \/ /\ count # 0 /\ ~Parallelize(count, min, chunks)
                /\ Entered(t, arguments, "serial", Whole(count))
             \/ /\ count # 0 /\ Parallelize(count, min, chunks)
                /\ Entered(t, arguments, "push", Blocks(count, Effective(chunks)))
  BY DEF ParallelChunks
<1> DEFINE arguments == [kind |-> kind, count |-> count, min |-> min, chunks |-> chunks]
<1>2. pc[t] = "idle"
  BY DEF ParallelChunks, MayCall
<1>3. count \in 0 .. SizeMax /\ min \in 0 .. SizeMax /\ chunks \in 0 .. SizeMax
      /\ SizeMax \in Nat /\ kind \in AllKinds
  BY ParallelChunksAssumption
<1>4. arguments \in Call /\ arguments.count = count /\ arguments.min = min
      /\ arguments.chunks = chunks
  BY <1>3 DEF Call
<1>5. \/ count = 0 /\ Entered(t, arguments, "returned", <<>>)
      \/ /\ count # 0 /\ ~Parallelize(count, min, chunks)
         /\ Entered(t, arguments, "serial", Whole(count))
      \/ /\ count # 0 /\ Parallelize(count, min, chunks)
         /\ Entered(t, arguments, "push", Blocks(count, Effective(chunks)))
  BY <1>1
<1> HIDE DEF arguments
<1>6. CASE count = 0 /\ Entered(t, arguments, "returned", <<>>)
  <2> DEFINE label == "returned"
             blocks == <<>>
  <2>1. blocks \in Seq(Spans) /\ Tiling(blocks, count)
    BY <1>6, NothingTiles
  <2>2. Entered(t, arguments, label, blocks) /\ label = "returned"
    BY <1>6
  <2> HIDE DEF label, blocks
  <2> QED  BY <1>2, <1>4, <1>6, <2>1, <2>2, EnteredKeeps
<1>7. CASE /\ count # 0 /\ ~Parallelize(count, min, chunks)
           /\ Entered(t, arguments, "serial", Whole(count))
  <2> DEFINE label == "serial"
             blocks == Whole(count)
  <2>1. blocks \in Seq(Spans) /\ Tiling(blocks, count) /\ Len(blocks) = 1
    BY <1>3, <1>7, WholeTiles
  <2>2. Entered(t, arguments, label, blocks) /\ label = "serial"
    BY <1>7
  <2> HIDE DEF label, blocks
  <2> QED  BY <1>2, <1>4, <1>7, <2>1, <2>2, EnteredKeeps
<1>8. CASE /\ count # 0 /\ Parallelize(count, min, chunks)
           /\ Entered(t, arguments, "push", Blocks(count, Effective(chunks)))
  <2> DEFINE label == "push"
             blocks == Blocks(count, Effective(chunks))
  <2>1. Effective(chunks) \in Nat \ {0} /\ count \in Nat \ {0}
    BY <1>3, <1>8, EffectiveIs
  <2>2. blocks \in Seq(Spans) /\ Tiling(blocks, count) /\ blocks # <<>>
    BY <2>1, BlocksTile
  <2>3. Entered(t, arguments, label, blocks) /\ label = "push"
    BY <1>8
  <2> HIDE DEF label, blocks
  <2>4. 0 < Len(blocks)
    BY <2>2
  <2> QED  BY <1>2, <1>4, <1>8, <2>2, <2>3, <2>4, EnteredKeeps
<1> QED  BY <1>5, <1>6, <1>7, <1>8

LEMMA ParallelForKeeps ==
    ASSUME IInv, NEW t \in Threads, ParallelFor(t)
    PROVE  IInv'
<1>1. PICK count \in Counts :
         Entered(t, [kind |-> "parallel_for", count |-> count, min |-> 0, chunks |-> 0],
                 IF count = 0 THEN "returned"
                 ELSE IF count = 1 THEN "serial" ELSE "push", Indexes(count))
  BY DEF ParallelFor
<1> DEFINE arguments == [kind |-> "parallel_for", count |-> count, min |-> 0, chunks |-> 0]
           label == IF count = 0 THEN "returned" ELSE IF count = 1 THEN "serial" ELSE "push"
           blocks == Indexes(count)
<1>2. pc[t] = "idle"
  BY DEF ParallelFor, MayCall
<1>3. count \in 0 .. SizeMax /\ count \in Nat
  BY ParallelChunksAssumption
<1>4. arguments \in Call /\ arguments.count = count /\ arguments.kind = "parallel_for"
  BY <1>3, ParallelChunksAssumption DEF Call, AllKinds
<1>5. blocks \in Seq(Spans) /\ Len(blocks) = count /\ Tiling(blocks, count)
  BY <1>3, IndexesTile
<1>6. /\ label \in {"returned", "serial", "push"}
      /\ label = "returned" => count = 0
      /\ label = "serial" => count = 1
      /\ label = "push" => 0 < count
  BY <1>3
<1>7. Entered(t, arguments, label, blocks)
  BY <1>1
<1> HIDE DEF arguments, label, blocks
<1> QED  BY <1>2, <1>4, <1>5, <1>6, <1>7, EnteredKeeps

-----------------------------------------------------------------------------
(* Calls proceed and return. *)

LEMMA VisitedIs ==
    ASSUME TypeOK, NEW t \in Threads, NEW elements, Visited(t, elements)
    PROVE  /\ visits' \in [Threads -> [Element -> Nat]]
           /\ \A e \in Element :
                 visits'[t][e] = visits[t][e] + (IF e \in elements THEN 1 ELSE 0)
           /\ \A u \in Threads \ {t} : visits'[u] = visits[u]
<1>1. visits \in [Threads -> [Element -> Nat]]
  BY DEF TypeOK
<1> DEFINE more == [e \in Element |-> visits[t][e] + (IF e \in elements THEN 1 ELSE 0)]
<1>2. more \in [Element -> Nat]
  BY <1>1
<1>3. visits' = [visits EXCEPT ![t] = more]
  BY DEF Visited
<1>4. \A e \in Element : more[e] = visits[t][e] + (IF e \in elements THEN 1 ELSE 0)
  OBVIOUS
<1> HIDE DEF more
<1> QED  BY <1>1, <1>2, <1>3, <1>4

\* When every block has its value, the elements of the input were visited.
LEMMA AllVisited ==
    ASSUME IInv, NEW t \in Threads, pc[t] \notin {"idle", "returned"}, Answered(t)
    PROVE  \A e \in Element : visits[t][e] = (IF e \in Input(t) THEN 1 ELSE 0)
<1>1. TypeOK /\ ShapeInv(t) /\ VisitInv(t)
  BY DEF IInv, ThreadInv
<1>2. call[t].count \in Counts /\ Tiling(spans[t], call[t].count)
      /\ Len(outcome[t]) = Len(spans[t])
  BY <1>1 DEF ShapeInv
<1>3. spans[t] \in Seq(Spans) /\ DOMAIN spans[t] = DOMAIN outcome[t]
  BY <1>1, <1>2, ThreadTypes
<1> SUFFICES ASSUME NEW e \in Element
             PROVE  visits[t][e] = (IF e \in Input(t) THEN 1 ELSE 0)
  OBVIOUS
<1>4. e \in Input(t) => \E i \in DOMAIN outcome[t] : e \in Touched(call[t].kind, spans[t][i])
  BY <1>2, <1>3 DEF Input, Tiling, Touched
<1>5. \A i \in DOMAIN outcome[t] : e \in Touched(call[t].kind, spans[t][i]) => e \in Input(t)
  <2> SUFFICES ASSUME NEW i \in DOMAIN spans[t]
               PROVE  Touched(call[t].kind, spans[t][i]) \subseteq Input(t)
    BY <1>3
  <2>1. Touched("", spans[t][i]) \subseteq 0 .. (call[t].count - 1)
    BY <1>2, <1>3, TilesAreSpans
  <2> QED  BY <2>1 DEF Touched, Input
<1> QED  BY <1>1, <1>4, <1>5 DEF VisitInv, Answered

\* A prefix of the input, combined.
LEMMA PrefixIs ==
    ASSUME NEW n \in Nat
    PROVE  /\ Prefix(n) \in Seq(Int) /\ Len(Prefix(n)) = n + 1
           /\ \A i \in 1 .. (n + 1) : Prefix(n)[i] = i - 2
<1> DEFINE elements == [i \in 1 .. n |-> i - 1]
<1>1. Partial([start |-> 0, end |-> n]) = elements
  BY DEF Partial
<1>2. elements \in Seq(Int) /\ Len(elements) = n /\ \A i \in 1 .. n : elements[i] = i - 1
  OBVIOUS
<1> DEFINE one == InitialValue
<1>3. Prefix(n) = one \o elements
  BY <1>1 DEF Prefix, Combine
<1>4. one \in Seq(Int) /\ Len(one) = 1 /\ one[1] = -1
  BY DEF InitialValue
<1> HIDE DEF elements, one
<1> DEFINE all == one \o elements
<1>5. /\ all \in Seq(Int) /\ Len(all) = Len(one) + Len(elements)
      /\ \A i \in 1 .. Len(one) + Len(elements) :
            all[i] = IF i <= Len(one) THEN one[i] ELSE elements[i - Len(one)]
  BY <1>2, <1>4, ConcatProperties, Zenon
<1> HIDE DEF all
<1>6. ASSUME NEW i \in 1 .. (n + 1) PROVE all[i] = i - 2
  <2>1. i # 1 => i - 1 \in 1 .. n
    OBVIOUS
  <2>2. i # 1 => elements[i - 1] = (i - 1) - 1
    BY <1>2, <2>1
  <2>3. i \in 1 .. Len(one) + Len(elements)
    BY <1>2, <1>4
  <2>4. all[i] = IF i <= 1 THEN one[i] ELSE elements[i - 1]
    BY <1>4, <1>5, <2>3
  <2> QED  BY <1>4, <2>2, <2>4
<1>7. Len(all) = n + 1
  BY <1>2, <1>4, <1>5
<1> QED  BY <1>3, <1>5, <1>6, <1>7 DEF all

LEMMA PrefixStep ==
    ASSUME NEW a \in Nat, NEW b \in Nat, a =< b
    PROVE  Prefix(a) \o Partial([start |-> a, end |-> b]) = Prefix(b)
<1> DEFINE partial == Partial([start |-> a, end |-> b])
           long == Prefix(a) \o partial
<1>1. partial \in Seq(Int) /\ Len(partial) = b - a
      /\ \A i \in 1 .. (b - a) : partial[i] = a + i - 1
  BY DEF Partial
<1> HIDE DEF partial
<1> DEFINE first == Prefix(a)
<1>2. first \in Seq(Int) /\ Len(first) = a + 1 /\ \A i \in 1 .. (a + 1) : first[i] = i - 2
  BY PrefixIs
<1>3. long = first \o partial
  OBVIOUS
<1> HIDE DEF first, long
<1>4. /\ long \in Seq(Int) /\ Len(long) = Len(first) + Len(partial)
      /\ \A i \in 1 .. Len(first) + Len(partial) :
            long[i] = IF i <= Len(first) THEN first[i] ELSE partial[i - Len(first)]
  BY <1>1, <1>2, <1>3, ConcatProperties, Zenon
<1>5. ASSUME NEW i \in 1 .. (b + 1) PROVE long[i] = i - 2
  <2>1. i \in 1 .. Len(first) + Len(partial)
    BY <1>1, <1>2
  <2>2. ~(i =< a + 1) => i - (a + 1) \in 1 .. (b - a)
    OBVIOUS
  <2>3. ~(i =< a + 1) => partial[i - (a + 1)] = a + (i - (a + 1)) - 1
    BY <1>1, <2>2
  <2>4. long[i] = IF i <= a + 1 THEN first[i] ELSE partial[i - (a + 1)]
    BY <1>2, <1>4, <2>1
  <2> QED  BY <1>2, <2>3, <2>4
<1>6. Prefix(b) \in Seq(Int) /\ Len(Prefix(b)) = b + 1
      /\ \A i \in 1 .. (b + 1) : Prefix(b)[i] = i - 2
  BY PrefixIs
<1>7. long = Prefix(b)
  <2>1. Len(long) = b + 1
    BY <1>1, <1>2, <1>4
  <2> QED  BY <1>4, <1>5, <1>6, <2>1, SeqEqual
<1> QED  BY <1>7 DEF long, first, partial

LEMMA SerialKeeps ==
    ASSUME IInv, NEW t \in Threads, Serial(t)
    PROVE  IInv'
<1>1. TypeOK /\ ThreadInv(t) /\ pc[t] = "serial"
  BY DEF IInv, Serial
<1>2. pc' = [pc EXCEPT ![t] = "returned"]
      /\ queue' = queue /\ running' = running /\ call' = call /\ spans' = spans
      /\ pushed' = pushed /\ outcome' = outcome /\ folded' = folded
      /\ Visited(t, Touched(call[t].kind, spans[t][1]))
      /\ result' = [result EXCEPT ![t] = Combine(InitialValue, Partial(spans[t][1]))]
  BY DEF Serial, Goto
<1>3. /\ call[t].count \in Nat /\ spans[t] \in Seq(Spans) /\ Len(spans[t]) = 1
      /\ Tiling(spans[t], call[t].count) /\ call[t].count \in Counts
  BY <1>1, ThreadTypes DEF ThreadInv, ShapeInv
<1>4. spans[t][1] = [start |-> 0, end |-> call[t].count]
  <2>1. spans[t][1] \in Spans
    BY <1>3
  <2>2. spans[t][1].start = 0 /\ spans[t][1].end = call[t].count
    BY <1>3 DEF Tiling
  <2> QED  BY <2>1, <2>2 DEF Spans
<1>5. result' = [result EXCEPT ![t] = Prefix(call[t].count)] /\ Prefix(call[t].count) \in Seq(Int)
  BY <1>2, <1>3, <1>4, PrefixIs DEF Prefix
<1>6. Touched(call[t].kind, spans[t][1]) = Input(t)
  BY <1>4 DEF Touched, Input
<1>7. \A e \in Element : visits[t][e] = 0
  <2>1. \A i \in DOMAIN outcome[t] : outcome[t][i] = "pending"
    <3>1. pushed[t] = 0 /\ DOMAIN outcome[t] = 1 .. Len(outcome[t]) /\ Len(outcome[t]) \in Nat
      BY <1>1, ThreadTypes DEF ThreadInv, ShapeInv
    <3> QED  BY <1>1, <3>1 DEF ThreadInv, ShapeInv
  <2> QED  BY <1>1, <2>1 DEF ThreadInv, VisitInv
<1>8. /\ visits' \in [Threads -> [Element -> Nat]]
      /\ \A e \in Element : visits'[t][e] = IF e \in Input(t) THEN 1 ELSE 0
      /\ \A u \in Threads \ {t} : visits'[u] = visits[u]
  BY <1>1, <1>2, <1>6, <1>7, VisitedIs
<1>9. TypeOK'
  BY <1>1, <1>2, <1>5, <1>8 DEF TypeOK, Labels
<1>10. pc'[t] = "returned" /\ result'[t] = Prefix(call[t].count)
  BY <1>1, <1>2, <1>5 DEF TypeOK
<1>11. OthersKept(t)
  BY <1>1, <1>2, <1>5, <1>8 DEF OthersKept, TypeOK
<1>12. ThreadInv(t)'
  <2>1. ShapeInv(t)'
    BY <1>1, <1>2, <1>10 DEF ThreadInv, ShapeInv
  <2>2. VisitInv(t)'
    BY <1>10 DEF VisitInv
  <2>3. ReturnInv(t)'
    BY <1>2, <1>8 DEF ReturnInv, Input
  <2>4. FoldInv(t)'
    BY <1>2, <1>10 DEF FoldInv
  <2>5. PlanInv(t)'
    BY <1>10 DEF PlanInv
  <2>6. ThrowInv(t)'
    BY <1>1, <1>2, <1>10 DEF ThreadInv, ThrowInv
  <2> QED  BY <2>1, <2>2, <2>3, <2>4, <2>5, <2>6 DEF ThreadInv
<1>13. NoTask(t)
  BY <1>1, NoTaskOf DEF Open
<1> QED  BY <1>2, <1>9, <1>10, <1>11, <1>12, <1>13, ThreadStep

\* A step that only moves a thread on.
LEMMA MoveKeeps ==
    ASSUME IInv, NEW t \in Threads, NEW label \in Labels \ {"idle", "serial", "push"},
           Goto(t, label),
           UNCHANGED <<queue, running, call, spans, pushed, outcome, visits, folded, result>>,
           pc[t] \notin {"idle", "returned"},
           label \in {"wait", "get", "fold"} =>
              pushed[t] = Len(spans[t]) /\ 0 < Len(spans[t]),
           label = "wait" => call[t].kind # "reduce",
           label \in {"get", "fold"} => call[t].kind = "reduce",
           label = "returned" => ReturnInv(t)',
           FoldInv(t)',
           label = "raised" => MayThrow,
           label \in Open \/ NoTask(t),
           label \in {"wait", "get"} => pc[t] \in {"push", "wait", "get"}
    PROVE  IInv'
<1>1. TypeOK /\ ThreadInv(t) /\ pc' = [pc EXCEPT ![t] = label]
  BY DEF IInv, Goto
<1>2. TypeOK'
  BY <1>1 DEF TypeOK
<1>3. pc'[t] = label
  BY <1>1 DEF TypeOK
<1>4. OthersKept(t)
  BY <1>1 DEF OthersKept, TypeOK
<1>5. ThreadInv(t)'
  <2>1. ShapeInv(t)'
    BY <1>1, <1>3 DEF ThreadInv, ShapeInv
  <2>2. VisitInv(t)'
    BY <1>1, <1>3 DEF ThreadInv, VisitInv
  <2>3. ReturnInv(t)'
    BY <1>3 DEF ReturnInv
  <2>4. PlanInv(t)'
    BY <1>3 DEF PlanInv
  <2>5. ThrowInv(t)'
    BY <1>1, <1>3 DEF ThreadInv, ThrowInv
  <2> QED  BY <2>1, <2>2, <2>3, <2>4, <2>5 DEF ThreadInv
<1> QED  BY <1>2, <1>3, <1>4, <1>5, ThreadStep DEF Labels

LEMMA SerialThrowsKeeps ==
    ASSUME IInv, NEW t \in Threads, SerialThrows(t)
    PROVE  IInv'
<1> DEFINE label == "raised"
<1>1. label \in Labels \ {"idle", "serial", "push"} /\ label = "raised" /\ Goto(t, label)
      /\ UNCHANGED <<queue, running, call, spans, pushed, outcome, visits, folded, result>>
      /\ MayThrow /\ pc[t] = "serial" /\ label \in Open
  BY DEF SerialThrows, Labels, Open
<1> HIDE DEF label
<1>2. FoldInv(t)'
  BY <1>1 DEF FoldInv, Goto, IInv, TypeOK
<1> QED  BY <1>1, <1>2, MoveKeeps

LEMMA WaitReturnsKeeps ==
    ASSUME IInv, NEW t \in Threads, WaitReturns(t)
    PROVE  IInv'
<1>1. TypeOK /\ ThreadInv(t) /\ TasksInv /\ pc[t] = "wait" /\ queue = <<>>
      /\ \A w \in Workers : running[w] = Nobody
  BY DEF IInv, WaitReturns
<1> DEFINE label == "returned"
<1>2. label \in Labels \ {"idle", "serial", "push"} /\ label = "returned" /\ Goto(t, label)
      /\ UNCHANGED <<queue, running, call, spans, pushed, outcome, visits, folded, result>>
  BY DEF WaitReturns, Labels
<1> HIDE DEF label
<1>3. pushed[t] = Len(spans[t]) /\ Len(outcome[t]) = Len(spans[t])
      /\ DOMAIN outcome[t] = 1 .. Len(outcome[t]) /\ call[t].kind # "reduce"
  BY <1>1, ThreadTypes DEF ThreadInv, ShapeInv
<1>4. \A i \in DOMAIN outcome[t] : outcome[t][i] # "pending"
  <2> SUFFICES ASSUME NEW i \in DOMAIN outcome[t], outcome[t][i] = "pending" PROVE FALSE
    OBVIOUS
  <2>1. \/ \E j \in DOMAIN queue : queue[j] = TaskOf(t, i)
        \/ \E w \in Workers : running[w] = TaskOf(t, i)
    BY <1>1, <1>3 DEF TasksInv
  <2>2. DOMAIN queue = {}
    BY <1>1
  <2>3. PICK w \in Workers : running[w] = TaskOf(t, i)
    BY <2>1, <2>2
  <2>4. TaskOf(t, i) \in Task
    <3>1. i \in {e + 1 : e \in Element}
      BY <1>1, <1>3, ThreadTypes, TilesAreSpans DEF ThreadInv, ShapeInv
    <3> QED  BY <3>1 DEF TaskOf, Task
  <2> QED  BY <1>1, <2>3, <2>4, ParallelChunksAssumption
<1>5. ReturnInv(t)'
  <2> SUFFICES ASSUME \A i \in DOMAIN outcome[t] : outcome[t][i] # "thrown"
               PROVE  \A e \in Element : visits[t][e] = (IF e \in Input(t) THEN 1 ELSE 0)
    BY <1>2, <1>3 DEF ReturnInv, Input
  <2>1. Answered(t)
    <3>1. \A i \in DOMAIN outcome[t] : outcome[t][i] \in {"pending", "value", "thrown"}
      BY <1>1, ThreadTypes
    <3> QED  BY <1>4, <3>1 DEF Answered
  <2> QED  BY <1>1, <2>1, AllVisited
<1>6. NoTask(t)
  BY <1>1 DEF NoTask
<1>7. FoldInv(t)'
  BY <1>1, <1>2, <1>3 DEF FoldInv, Goto, TypeOK
<1> QED  BY <1>1, <1>2, <1>5, <1>6, <1>7, MoveKeeps

LEMMA GetReturnsKeeps ==
    ASSUME IInv, NEW t \in Threads, GetReturns(t)
    PROVE  IInv'
<1>1. TypeOK /\ ThreadInv(t) /\ pc[t] = "get" /\ Answered(t)
  BY DEF IInv, GetReturns
<1> DEFINE label == "fold"
<1>2. label \in Labels \ {"idle", "serial", "push"} /\ label = "fold" /\ Goto(t, label)
      /\ UNCHANGED <<queue, running, call, spans, pushed, outcome, visits, folded, result>>
  BY DEF GetReturns, Labels
<1> HIDE DEF label
<1>3. pushed[t] = Len(spans[t]) /\ 0 < Len(spans[t]) /\ call[t].kind = "reduce"
      /\ folded[t] = 0 /\ result[t] = InitialValue
  BY <1>1 DEF ThreadInv, ShapeInv, FoldInv
<1>4. FoldInv(t)'
  <2>1. pc'[t] = "fold"
    BY <1>1, <1>2 DEF Goto, TypeOK
  <2> QED  BY <1>1, <1>2, <1>3, <2>1, PrefixNone DEF FoldInv, Reached, Answered
<1>5. NoTask(t)
  BY <1>1, NoTaskOf
<1> QED  BY <1>1, <1>2, <1>3, <1>4, <1>5, MoveKeeps

LEMMA GetThrowsKeeps ==
    ASSUME IInv, NEW t \in Threads, GetThrows(t)
    PROVE  IInv'
<1>1. TypeOK /\ ThreadInv(t) /\ pc[t] = "get"
  BY DEF IInv, GetThrows
<1> DEFINE label == "raised"
<1>2. label \in Labels \ {"idle", "serial", "push"} /\ label = "raised" /\ Goto(t, label)
      /\ UNCHANGED <<queue, running, call, spans, pushed, outcome, visits, folded, result>>
      /\ label \in Open
  BY DEF GetThrows, Labels, Open
<1>3. MayThrow
  BY <1>1 DEF GetThrows, ThreadInv, ThrowInv
<1> HIDE DEF label
<1>4. FoldInv(t)'
  BY <1>1, <1>2 DEF FoldInv, Goto, TypeOK
<1> QED  BY <1>1, <1>2, <1>3, <1>4, MoveKeeps

LEMMA FoldThrowsKeeps ==
    ASSUME IInv, NEW t \in Threads, FoldThrows(t)
    PROVE  IInv'
<1> DEFINE label == "raised"
<1>1. label \in Labels \ {"idle", "serial", "push"} /\ label = "raised" /\ Goto(t, label)
      /\ UNCHANGED <<queue, running, call, spans, pushed, outcome, visits, folded, result>>
      /\ MayThrow /\ pc[t] = "fold" /\ label \in Open
  BY DEF FoldThrows, Labels, Open
<1> HIDE DEF label
<1>2. FoldInv(t)'
  BY <1>1 DEF FoldInv, Goto, IInv, TypeOK
<1> QED  BY <1>1, <1>2, MoveKeeps

LEMMA FoldPartialKeeps ==
    ASSUME IInv, NEW t \in Threads, FoldPartial(t)
    PROVE  IInv'
<1>1. TypeOK /\ ThreadInv(t) /\ pc[t] = "fold"
  BY DEF IInv, FoldPartial
<1> DEFINE label == IF folded[t] + 1 = Len(spans[t]) THEN "returned" ELSE "fold"
           k == folded[t]
           blocks == spans[t]
<1>2. /\ pc' = [pc EXCEPT ![t] = label]
      /\ folded' = [folded EXCEPT ![t] = @ + 1]
      /\ result' = [result EXCEPT ![t] = result[t] \o Partial(blocks[k + 1])]
      /\ queue' = queue /\ running' = running /\ call' = call /\ spans' = spans
      /\ pushed' = pushed /\ outcome' = outcome /\ visits' = visits
  BY DEF FoldPartial, Goto, NextPartial, Combine
<1>3. /\ k \in Nat /\ k < Len(blocks) /\ Answered(t) /\ result[t] = Prefix(Reached(t))
      /\ blocks \in Seq(Spans) /\ Len(blocks) \in Nat
      /\ call[t].count \in Nat /\ call[t].count \in Counts /\ Tiling(blocks, call[t].count)
      /\ pushed[t] = Len(blocks) /\ 0 < Len(blocks) /\ Len(outcome[t]) = Len(blocks)
      /\ call[t].kind = "reduce"
  BY <1>1, ThreadTypes DEF ThreadInv, ShapeInv, FoldInv
<1>4. /\ k + 1 \in DOMAIN blocks
      /\ k = 0 \/ k \in DOMAIN blocks
      /\ blocks[k + 1] \in Spans
  BY <1>3
<1>5. blocks[k + 1] \in Spans
  BY <1>4
<1>6. blocks[k + 1] = [start |-> blocks[k + 1].start, end |-> blocks[k + 1].end]
      /\ blocks[k + 1].start \in Nat /\ blocks[k + 1].end \in Nat
  BY <1>5 DEF Spans
<1>7. /\ blocks[k + 1].start = Reached(t)
      /\ blocks[k + 1].start < blocks[k + 1].end
      /\ k + 1 = Len(blocks) => blocks[k + 1].end = call[t].count
  BY <1>3, <1>4, SMTT(30) DEF Tiling, Reached
<1>8. result[t] \o Partial(blocks[k + 1]) = Prefix(blocks[k + 1].end)
  <2> DEFINE a == blocks[k + 1].start
             b == blocks[k + 1].end
  <2>1. a \in Nat /\ b \in Nat /\ a =< b /\ result[t] = Prefix(a)
        /\ blocks[k + 1] = [start |-> a, end |-> b]
    BY <1>3, <1>6, <1>7
  <2> HIDE DEF a, b
  <2>2. Prefix(a) \o Partial([start |-> a, end |-> b]) = Prefix(b)
    BY <2>1, PrefixStep
  <2>3. result[t] \o Partial(blocks[k + 1]) = Prefix(b)
    BY <2>1, <2>2
  <2> QED  BY <2>3 DEF b
<1>9. result' = [result EXCEPT ![t] = Prefix(blocks[k + 1].end)]
      /\ Prefix(blocks[k + 1].end) \in Seq(Int)
  BY <1>2, <1>6, <1>8, PrefixIs
<1>10. TypeOK'
  <2>1. label \in Labels /\ folded[t] + 1 \in Nat
    BY <1>3 DEF Labels
  <2> HIDE DEF label, k, blocks
  <2> QED  BY <1>1, <1>2, <1>9, <2>1 DEF TypeOK
<1>11. pc'[t] = label /\ folded'[t] = k + 1 /\ result'[t] = Prefix(blocks[k + 1].end)
  BY <1>1, <1>2, <1>9 DEF TypeOK
<1>12. OthersKept(t)
  BY <1>1, <1>2, <1>9 DEF OthersKept, TypeOK
<1>13. ThreadInv(t)'
  <2>1. ShapeInv(t)'
    BY <1>1, <1>2, <1>3, <1>11 DEF ThreadInv, ShapeInv
  <2>2. VisitInv(t)'
    BY <1>1, <1>2, <1>11 DEF ThreadInv, VisitInv
  <2>3. ReturnInv(t)'
    <3>1. \A e \in Element : visits[t][e] = (IF e \in Input(t) THEN 1 ELSE 0)
      BY <1>1, <1>3, AllVisited
    <3> QED  BY <1>2, <3>1 DEF ReturnInv, Input
  <2>4. FoldInv(t)'
    <3>1. CASE k + 1 = Len(blocks)
      BY <1>2, <1>7, <1>11, <3>1 DEF FoldInv
    <3>2. CASE k + 1 # Len(blocks)
      <4>1. Reached(t)' = blocks[k + 1].end
        BY <1>2, <1>3, <1>11 DEF Reached
      <4>2. pc'[t] = "fold" /\ Answered(t)' /\ folded'[t] < Len(spans'[t])
        BY <1>2, <1>3, <1>11, <3>2 DEF Answered
      <4> QED  BY <1>11, <4>1, <4>2 DEF FoldInv
    <3> QED  BY <3>1, <3>2
  <2>5. PlanInv(t)'
    BY <1>11 DEF PlanInv
  <2>6. ThrowInv(t)'
    BY <1>1, <1>2, <1>11 DEF ThreadInv, ThrowInv
  <2> QED  BY <2>1, <2>2, <2>3, <2>4, <2>5, <2>6 DEF ThreadInv
<1>14. NoTask(t)
  BY <1>1, NoTaskOf DEF Open
<1> QED  BY <1>2, <1>10, <1>11, <1>12, <1>13, <1>14, ThreadStep

LEMMA OrphanIs ==
    ASSUME NEW task \in Task \cup {Nobody}, NEW t
    PROVE  /\ task \in Task => Orphan(task, t) \in Task
           /\ Orphan(task, t) \in Task \cup {Nobody}
           /\ Orphan(task, t) # Nobody => task # Nobody
           /\ task \in Task => task # Nobody
           /\ Orphan(task, t) # Nobody /\ Orphan(task, t).live =>
                 Orphan(task, t) = task /\ task.live /\ task.by # t
           /\ task # Nobody /\ task.by # t => Orphan(task, t) = task
<1>1. Nobody \notin Task
  BY ParallelChunksAssumption
<1>2. CASE task # Nobody /\ task.by = t
  <2>1. Orphan(task, t) = [task EXCEPT !.live = FALSE] /\ task \in Task
    BY <1>2 DEF Orphan
  <2>2. Orphan(task, t) \in Task /\ ~Orphan(task, t).live
    BY <2>1 DEF Task
  <2> QED  BY <1>1, <1>2, <2>2
<1>3. CASE ~(task # Nobody /\ task.by = t)
  BY <1>1, <1>3 DEF Orphan
<1> QED  BY <1>2, <1>3

LEMMA ResumeKeeps ==
    ASSUME IInv, NEW t \in Threads, Resume(t)
    PROVE  IInv'
<1>1. TypeOK /\ ThreadInv(t) /\ TasksInv /\ pc[t] \in {"returned", "raised"}
  BY DEF IInv, Resume
<1>2. /\ pc' = [pc EXCEPT ![t] = "idle"]
      /\ queue' = [i \in DOMAIN queue |-> Orphan(queue[i], t)]
      /\ running' = [w \in Workers |-> Orphan(running[w], t)]
      /\ call' = [call EXCEPT ![t] = NoCall]
      /\ spans' = [spans EXCEPT ![t] = <<>>]
      /\ pushed' = [pushed EXCEPT ![t] = 0]
      /\ outcome' = [outcome EXCEPT ![t] = <<>>]
      /\ visits' = [visits EXCEPT ![t] = [e \in Element |-> 0]]
      /\ folded' = [folded EXCEPT ![t] = 0]
      /\ result' = [result EXCEPT ![t] = <<>>]
  BY DEF Resume, Goto
<1>3. queue \in Seq(Task) /\ running \in [Workers -> Task \cup {Nobody}]
      /\ \A i \in DOMAIN queue : queue[i] \in Task \cup {Nobody}
  BY <1>1 DEF TypeOK
<1>4. queue' \in Seq(Task) /\ DOMAIN queue' = DOMAIN queue
      /\ running' \in [Workers -> Task \cup {Nobody}]
  <2>1. \A i \in DOMAIN queue : Orphan(queue[i], t) \in Task
    BY <1>3, OrphanIs
  <2>2. \A w \in Workers : Orphan(running[w], t) \in Task \cup {Nobody}
    BY <1>3, OrphanIs
  <2>3. Len(queue) \in Nat /\ DOMAIN queue = 1 .. Len(queue)
    BY <1>3
  <2> QED  BY <1>2, <2>1, <2>2, <2>3
<1>5. TypeOK'
  <2>1. NoCall \in Call
    BY ParallelChunksAssumption DEF NoCall, Call, AllKinds
  <2>2. [e \in Element |-> 0] \in [Element -> Nat]
    OBVIOUS
  <2>3. <<>> \in Seq(Span) /\ <<>> \in Seq({"pending", "value", "thrown"}) /\ <<>> \in Seq(Int)
    OBVIOUS
  <2> QED  BY <1>1, <1>2, <1>4, <2>1, <2>2, <2>3 DEF TypeOK, Labels
<1>6. /\ pc'[t] = "idle" /\ call'[t] = NoCall /\ spans'[t] = <<>> /\ pushed'[t] = 0
      /\ outcome'[t] = <<>> /\ folded'[t] = 0 /\ \A e \in Element : visits'[t][e] = 0
  BY <1>1, <1>2 DEF TypeOK
<1>7. OthersKept(t)
  BY <1>1, <1>2 DEF OthersKept, TypeOK
<1>8. ThreadInv(t)'
  <2> DEFINE none == outcome'[t]
  <2>1. DOMAIN none = {} /\ Len(none) = 0 /\ Len(spans'[t]) = 0
    BY <1>6
  <2>2. ShapeInv(t)'
    BY <1>6, <2>1 DEF ShapeInv
  <2>3. VisitInv(t)' /\ ReturnInv(t)' /\ FoldInv(t)' /\ PlanInv(t)' /\ ThrowInv(t)'
    BY <1>6, <2>1 DEF VisitInv, ReturnInv, FoldInv, PlanInv, ThrowInv
  <2> QED  BY <2>2, <2>3 DEF ThreadInv
<1>9. \A u \in Threads : ThreadInv(u)'
  <2> SUFFICES ASSUME NEW u \in Threads \ {t} PROVE ThreadInv(u)'
    BY <1>8
  <2>1. ThreadInv(u)
    BY DEF IInv
  <2> QED  BY <1>7, <2>1, ThreadKept DEF OthersKept
<1>10. \A i \in DOMAIN queue : /\ queue'[i].live => /\ queue'[i] = queue[i] /\ queue[i].live
                                                   /\ queue[i].by # t
                               /\ queue[i].by # t => queue'[i] = queue[i]
  <2> SUFFICES ASSUME NEW i \in DOMAIN queue
               PROVE  /\ queue'[i].live => /\ queue'[i] = queue[i] /\ queue[i].live
                                           /\ queue[i].by # t
                      /\ queue[i].by # t => queue'[i] = queue[i]
    OBVIOUS
  <2>1. queue'[i] = Orphan(queue[i], t) /\ queue[i] \in Task /\ queue'[i] \in Task
    BY <1>2, <1>3, <1>4
  <2>2. queue[i] # Nobody /\ queue'[i] # Nobody
    BY <2>1, ParallelChunksAssumption
  <2> QED  BY <2>1, <2>2, OrphanIs
<1>11. \A w \in Workers :
         /\ running'[w] # Nobody => running[w] # Nobody
         /\ running'[w] # Nobody /\ running'[w].live =>
               running'[w] = running[w] /\ running[w].live /\ running[w].by # t
         /\ running[w] # Nobody /\ running[w].by # t => running'[w] = running[w]
  BY <1>2, <1>3, OrphanIs
<1>12. ASSUME NEW task \in Task, TaskInv(task), task.by # t PROVE TaskInv(task)'
  <2>1. task.by \in Threads
    BY DEF Task
  <2> QED  BY <1>7, <1>12, <2>1 DEF TaskInv, OthersKept
<1>13. TasksInv'
  <2>1. \A i \in DOMAIN queue' : TaskInv(queue[i])'
    <3> SUFFICES ASSUME NEW i \in DOMAIN queue, queue'[i].live PROVE TaskInv(queue[i])'
      BY <1>4 DEF TaskInv
    <3> PICK task : task = queue[i]
      OBVIOUS
    <3>1. task \in Task /\ TaskInv(task) /\ task.by # t /\ queue'[i] = task
      BY <1>1, <1>3, <1>10 DEF TasksInv
    <3>2. TaskInv(task)'
      BY <1>12, <3>1
    <3> QED  BY <3>1, <3>2 DEF TaskInv
  <2>2. \A w \in Workers : running'[w] # Nobody => TaskInv(running[w])'
    <3> SUFFICES ASSUME NEW w \in Workers, running'[w] # Nobody, running'[w].live
                 PROVE  TaskInv(running[w])'
      BY DEF TaskInv
    <3> PICK task : task = running[w]
      OBVIOUS
    <3>1. task \in Task /\ TaskInv(task) /\ task.by # t /\ running'[w] = task
      BY <1>1, <1>3, <1>11 DEF TasksInv
    <3>2. TaskInv(task)'
      BY <1>12, <3>1
    <3> QED  BY <3>1, <3>2 DEF TaskInv
  <2>3. \A i, j \in DOMAIN queue' : queue'[i].live /\ queue'[i] = queue'[j] => i = j
    BY <1>1, <1>4, <1>10 DEF TasksInv
  <2>4. \A i \in DOMAIN queue', w \in Workers : queue'[i].live => queue'[i] # running'[w]
    <3> SUFFICES ASSUME NEW i \in DOMAIN queue, NEW w \in Workers, queue'[i].live,
                        queue'[i] = running'[w]
                 PROVE  FALSE
      BY <1>4
    <3>1. queue'[i] \in Task
      BY <1>4
    <3>2. running'[w] # Nobody /\ running'[w].live
      BY <3>1, ParallelChunksAssumption
    <3> QED  BY <1>1, <1>10, <1>11, <3>2 DEF TasksInv
  <2>5. \A v, w \in Workers :
          running'[v] # Nobody /\ running'[v].live /\ running'[v] = running'[w] => v = w
    BY <1>1, <1>11 DEF TasksInv
  <2>6. ASSUME NEW u \in Threads, pc'[u] \in {"push", "wait", "get"},
               NEW b \in 1 .. pushed'[u], outcome'[u][b] = "pending"
        PROVE  \/ \E i \in DOMAIN queue' : queue'[i] = TaskOf(u, b)
               \/ \E w \in Workers : running'[w] = TaskOf(u, b)
    <3>1. u # t
      BY <1>6, <2>6
    <3>2. pc[u] \in {"push", "wait", "get"} /\ b \in 1 .. pushed[u] /\ outcome[u][b] = "pending"
      BY <1>7, <2>6, <3>1 DEF OthersKept
    <3>3. TaskOf(u, b).by = u
      BY DEF TaskOf
    <3>4. CASE \E i \in DOMAIN queue : queue[i] = TaskOf(u, b)
      BY <1>4, <1>10, <3>1, <3>3, <3>4
    <3>5. CASE \E w \in Workers : running[w] = TaskOf(u, b)
      <4>1. TaskOf(u, b) # Nobody
        <5>1. b \in DOMAIN spans[u] /\ ThreadInv(u)
          <6>1. ThreadInv(u) /\ Len(spans[u]) \in Nat /\ pushed[u] \in Nat
                /\ DOMAIN spans[u] = 1 .. Len(spans[u])
            BY <1>1, ThreadTypes DEF IInv
          <6> QED  BY <3>2, <6>1 DEF ThreadInv, ShapeInv
        <5>2. b \in {e + 1 : e \in Element}
          BY <1>1, <3>2, <5>1, ThreadTypes, TilesAreSpans DEF ThreadInv, ShapeInv
        <5>3. TaskOf(u, b) \in Task
          BY <5>2 DEF TaskOf, Task
        <5> QED  BY <5>3, ParallelChunksAssumption
      <4> QED  BY <1>11, <3>1, <3>3, <3>5, <4>1
    <3> QED  BY <1>1, <3>2, <3>4, <3>5 DEF TasksInv
  <2>7. ~MayThrow => SpansAreReal'
    <3> SUFFICES ASSUME ~MayThrow PROVE SpansAreReal'
      OBVIOUS
    <3>1. SpansAreReal /\ pc[t] = "returned"
      BY <1>1 DEF TasksInv, ThreadInv, ThrowInv
    <3>2. NoTask(t)
      BY <3>1, NoTaskOf DEF Open
    <3>3. \A i \in DOMAIN queue' : queue'[i].live
      BY <1>4, <1>10, <3>1, <3>2 DEF SpansAreReal, NoTask
    <3>4. \A w \in Workers : running'[w] # Nobody => running'[w].live
      BY <1>11, <3>1, <3>2 DEF SpansAreReal, NoTask
    <3> QED  BY <3>3, <3>4 DEF SpansAreReal
  <2> QED  BY <2>1, <2>2, <2>3, <2>4, <2>5, <2>6, <2>7 DEF TasksInv
<1> QED  BY <1>5, <1>9, <1>13 DEF IInv

-----------------------------------------------------------------------------
(* Tasks are queued and run. *)

\* A block that is queued has a number the pool can carry.
LEMMA TaskOfIs ==
    ASSUME IInv, NEW t \in Threads, NEW b \in DOMAIN spans[t]
    PROVE  TaskOf(t, b) \in Task /\ TaskOf(t, b) # Nobody
<1>1. TypeOK /\ ShapeInv(t) /\ spans[t] \in Seq(Spans)
  BY ThreadTypes DEF IInv, ThreadInv
<1>2. pc[t] # "idle"
  BY <1>1 DEF ShapeInv
<1>3. b \in {e + 1 : e \in Element}
  BY <1>1, <1>2, TilesAreSpans DEF ShapeInv
<1>4. TaskOf(t, b) \in Task
  BY <1>3 DEF TaskOf, Task
<1> QED  BY <1>4, ParallelChunksAssumption

LEMMA PushBlockKeeps ==
    ASSUME IInv, NEW t \in Threads, PushBlock(t)
    PROVE  IInv'
<1>1. TypeOK /\ ThreadInv(t) /\ TasksInv /\ pc[t] = "push"
  BY DEF IInv, PushBlock
<1> DEFINE k == pushed[t]
           label == IF k + 1 = Len(spans[t]) THEN BlocksIn(t) ELSE "push"
           task == TaskOf(t, k + 1)
<1>2. /\ pc' = [pc EXCEPT ![t] = label]
      /\ queue' = Append(queue, task)
      /\ pushed' = [pushed EXCEPT ![t] = k + 1]
      /\ running' = running /\ call' = call /\ spans' = spans /\ outcome' = outcome
      /\ visits' = visits /\ folded' = folded /\ result' = result
  BY DEF PushBlock, Goto, IsLast, TaskOf
<1>3. /\ k \in Nat /\ k < Len(spans[t]) /\ Len(spans[t]) \in Nat
      /\ DOMAIN spans[t] = 1 .. Len(spans[t])
      /\ Len(outcome[t]) = Len(spans[t]) /\ DOMAIN outcome[t] = 1 .. Len(outcome[t])
      /\ \A i \in DOMAIN outcome[t] : i > k => outcome[t][i] = "pending"
  BY <1>1, ThreadTypes DEF ThreadInv, ShapeInv
<1>4. k + 1 \in DOMAIN spans[t] /\ outcome[t][k + 1] = "pending"
  BY <1>3
<1>5. task \in Task /\ task # Nobody
  BY <1>4, TaskOfIs
<1>6. /\ label \in {"push", "wait", "get"} /\ label \in Labels /\ label \in Open
      /\ label = "push" => k + 1 < Len(spans[t])
      /\ label # "push" => k + 1 = Len(spans[t])
      /\ label = "wait" => call[t].kind # "reduce"
      /\ label = "get" => call[t].kind = "reduce"
  BY <1>3 DEF BlocksIn, Labels, Open
<1>7. task.by = t /\ task.block = k + 1 /\ task.live
  BY DEF TaskOf
<1>8. k + 1 \in Nat
  BY <1>3
<1>9. pc'[t] = label /\ pushed'[t] = k + 1
  BY <1>1, <1>2 DEF TypeOK
<1> HIDE DEF label, task
<1>10. queue \in Seq(Task) /\ running \in [Workers -> Task \cup {Nobody}]
  BY <1>1 DEF TypeOK
<1>11. /\ queue' \in Seq(Task) /\ DOMAIN queue' = 1 .. (Len(queue) + 1)
       /\ Len(queue) \in Nat /\ DOMAIN queue = 1 .. Len(queue)
       /\ \A i \in DOMAIN queue : i \in DOMAIN queue'
       /\ \A i \in DOMAIN queue : queue'[i] = queue[i]
       /\ queue'[Len(queue) + 1] = task
  <2>1. /\ queue' \in Seq(Task) /\ Len(queue') = Len(queue) + 1
        /\ \A i \in 1 .. Len(queue) : queue'[i] = queue[i]
        /\ queue'[Len(queue) + 1] = task
    BY <1>2, <1>5, <1>10, AppendProperties
  <2>2. Len(queue) \in Nat /\ DOMAIN queue = 1 .. Len(queue)
    BY <1>10
  <2> PICK longer : longer = queue'
    OBVIOUS
  <2>3. DOMAIN longer = 1 .. Len(longer)
    BY <2>1
  <2> QED  BY <2>1, <2>2, <2>3
<1>12. TypeOK'
  BY <1>1, <1>2, <1>6, <1>8, <1>11 DEF TypeOK
<1>13. OthersKept(t)
  BY <1>1, <1>2 DEF OthersKept, TypeOK
<1>14. ThreadInv(t)'
  <2>1. ShapeInv(t)'
    BY <1>1, <1>2, <1>3, <1>6, <1>9 DEF ThreadInv, ShapeInv
  <2>2. VisitInv(t)'
    BY <1>1, <1>2, <1>6, <1>9 DEF ThreadInv, VisitInv
  <2>3. ReturnInv(t)'
    BY <1>6, <1>9 DEF ReturnInv
  <2>4. FoldInv(t)'
    BY <1>1, <1>2, <1>6, <1>9 DEF ThreadInv, FoldInv
  <2>5. PlanInv(t)'
    BY <1>1, <1>2, <1>6, <1>9 DEF ThreadInv, PlanInv
  <2>6. ThrowInv(t)'
    BY <1>1, <1>2, <1>6, <1>9 DEF ThreadInv, ThrowInv
  <2> QED  BY <2>1, <2>2, <2>3, <2>4, <2>5, <2>6 DEF ThreadInv
<1>15. \A u \in Threads : ThreadInv(u)'
  <2> SUFFICES ASSUME NEW u \in Threads \ {t} PROVE ThreadInv(u)'
    BY <1>14
  <2>1. ThreadInv(u)
    BY DEF IInv
  <2> QED  BY <1>13, <2>1, ThreadKept DEF OthersKept
<1>16. ASSUME NEW other \in Task, TaskInv(other)
       PROVE  TaskInv(other)' /\ (other.live => other # task)
  <2>1. other.by \in Threads
    BY DEF Task
  <2>2. CASE other.by = t
    BY <1>2, <1>3, <1>6, <1>7, <1>9, <1>16, <2>2 DEF TaskInv
  <2>3. CASE other.by # t
    BY <1>7, <1>13, <1>16, <2>1, <2>3 DEF TaskInv, OthersKept
  <2> QED  BY <2>2, <2>3
<1>17. \A i \in DOMAIN queue : queue[i] \in Task /\ (queue[i].live => queue[i] # task)
  BY <1>1, <1>10, <1>16 DEF TasksInv
<1>18. \A w \in Workers : running[w] # task
  <2> SUFFICES ASSUME NEW w \in Workers, running[w] = task PROVE FALSE
    OBVIOUS
  <2>1. running[w] # Nobody /\ TaskInv(running[w])
    BY <1>1, <1>5 DEF TasksInv
  <2>2. TaskInv(task)
    BY <2>1
  <2> QED  BY <1>5, <1>7, <1>16, <2>2
<1>19. TasksInv'
  <2>1. ASSUME NEW i \in DOMAIN queue' PROVE TaskInv(queue[i])'
    <3>1. CASE i \in DOMAIN queue
      <4> PICK other : other = queue[i]
        OBVIOUS
      <4>1. TaskInv(other)' /\ queue'[i] = other
        BY <1>1, <1>10, <1>11, <1>16, <3>1 DEF TasksInv
      <4> QED  BY <4>1 DEF TaskInv
    <3>2. CASE i \notin DOMAIN queue
      <4>1. queue'[i] = task
        BY <1>11, <2>1, <3>2
      <4> PICK new : new = task
        OBVIOUS
      <4>2. TaskInv(new)' /\ queue'[i] = new
        BY <1>2, <1>4, <1>6, <1>7, <1>9, <1>8, <4>1 DEF TaskInv
      <4> QED  BY <4>2 DEF TaskInv
    <3> QED  BY <3>1, <3>2
  <2>2. ASSUME NEW w \in Workers, running'[w] # Nobody PROVE TaskInv(running[w])'
    <3> PICK other : other = running[w]
      OBVIOUS
    <3>1. TaskInv(other)' /\ running'[w] = other
      BY <1>1, <1>2, <1>10, <1>16, <2>2 DEF TasksInv
    <3> QED  BY <3>1 DEF TaskInv
  <2>3. \A i, j \in DOMAIN queue' : queue'[i].live /\ queue'[i] = queue'[j] => i = j
    <3>1. \A i \in DOMAIN queue' : i \notin DOMAIN queue => i = Len(queue) + 1
      BY <1>11
    <3> QED  BY <1>1, <1>7, <1>11, <1>17, <3>1 DEF TasksInv
  <2>4. \A i \in DOMAIN queue', w \in Workers : queue'[i].live => queue'[i] # running'[w]
    <3>1. \A i \in DOMAIN queue' : i \notin DOMAIN queue => i = Len(queue) + 1
      BY <1>11
    <3> QED  BY <1>1, <1>2, <1>11, <1>18, <3>1 DEF TasksInv
  <2>5. \A v, w \in Workers :
          running'[v] # Nobody /\ running'[v].live /\ running'[v] = running'[w] => v = w
    BY <1>1, <1>2 DEF TasksInv
  <2>6. ASSUME NEW u \in Threads, pc'[u] \in {"push", "wait", "get"},
               NEW b \in 1 .. pushed'[u], outcome'[u][b] = "pending"
        PROVE  \/ \E i \in DOMAIN queue' : queue'[i] = TaskOf(u, b)
               \/ \E w \in Workers : running'[w] = TaskOf(u, b)
    <3>1. CASE u = t /\ b = k + 1
      <4>1. Len(queue) + 1 \in DOMAIN queue' /\ queue'[Len(queue) + 1] = TaskOf(u, b)
        BY <1>11, <3>1 DEF task
      <4> QED  BY <4>1
    <3>2. CASE ~(u = t /\ b = k + 1)
      <4>1. pc[u] \in {"push", "wait", "get"} /\ b \in 1 .. pushed[u] /\ outcome[u][b] = "pending"
        <5>1. CASE u = t
          BY <1>1, <1>2, <1>3, <1>9, <2>6, <3>2, <5>1
        <5>2. CASE u # t
          BY <1>13, <2>6, <5>2 DEF OthersKept
        <5> QED  BY <5>1, <5>2
      <4>2. \/ \E i \in DOMAIN queue : queue[i] = TaskOf(u, b)
            \/ \E w \in Workers : running[w] = TaskOf(u, b)
        BY <1>1, <4>1 DEF TasksInv
      <4> QED  BY <1>2, <1>11, <4>2
    <3> QED  BY <3>1, <3>2
  <2>7. ~MayThrow => SpansAreReal'
    <3>1. \A i \in DOMAIN queue' : i \notin DOMAIN queue => i = Len(queue) + 1
      BY <1>11
    <3> QED  BY <1>1, <1>2, <1>7, <1>11, <3>1 DEF TasksInv, SpansAreReal
  <2> QED  BY <2>1, <2>2, <2>3, <2>4, <2>5, <2>6, <2>7 DEF TasksInv
<1> QED  BY <1>12, <1>15, <1>19 DEF IInv

LEMMA TakeKeeps ==
    ASSUME IInv, NEW w \in Workers, Take(w)
    PROVE  IInv'
<1>1. TypeOK /\ TasksInv /\ running[w] = Nobody /\ queue # <<>>
  BY DEF IInv, Take
<1>2. /\ running' = [running EXCEPT ![w] = Head(queue)] /\ queue' = Tail(queue)
      /\ pc' = pc /\ call' = call /\ spans' = spans /\ pushed' = pushed
      /\ outcome' = outcome /\ visits' = visits /\ folded' = folded /\ result' = result
  BY DEF Take
<1>3. queue \in Seq(Task) /\ running \in [Workers -> Task \cup {Nobody}]
  BY <1>1 DEF TypeOK
<1>4. /\ queue' \in Seq(Task) /\ Head(queue) = queue[1] /\ queue[1] \in Task
      /\ queue[1] # Nobody /\ 1 \in DOMAIN queue
      /\ \A i \in DOMAIN queue' : i \in Nat /\ i + 1 \in DOMAIN queue /\ queue'[i] = queue[i + 1]
      /\ \A i \in DOMAIN queue : i # 1 => i - 1 \in DOMAIN queue' /\ queue'[i - 1] = queue[i]
  <2>1. /\ Tail(queue) \in Seq(Task) /\ Len(Tail(queue)) = Len(queue) - 1
        /\ \A i \in 1 .. Len(Tail(queue)) : Tail(queue)[i] = queue[i + 1]
    BY <1>1, <1>3, HeadTailProperties
  <2>2. Len(queue) \in Nat /\ Len(queue) # 0 /\ DOMAIN queue = 1 .. Len(queue)
        /\ DOMAIN Tail(queue) = 1 .. Len(Tail(queue))
    BY <1>1, <1>3, <2>1
  <2>3. queue[1] \in Task /\ Head(queue) = queue[1] /\ queue[1] # Nobody
    BY <1>3, <2>2, ParallelChunksAssumption
  <2> QED  BY <1>2, <2>1, <2>2, <2>3
<1>5. running' \in [Workers -> Task \cup {Nobody}] /\ running'[w] = queue[1]
      /\ \A v \in Workers \ {w} : running'[v] = running[v]
  BY <1>2, <1>3, <1>4
<1>6. TypeOK'
  BY <1>1, <1>2, <1>4, <1>5 DEF TypeOK
<1>7. \A u \in Threads : ThreadInv(u)'
  BY <1>2, ThreadKept DEF IInv
<1>8. ASSUME NEW task, TaskInv(task) PROVE TaskInv(task)'
  BY <1>2, <1>8 DEF TaskInv
<1>9. TasksInv'
  <2>1. ASSUME NEW i \in DOMAIN queue' PROVE TaskInv(queue[i])'
    <3> PICK task : task = queue[i + 1]
      OBVIOUS
    <3>1. TaskInv(task)' /\ queue'[i] = task
      BY <1>1, <1>4, <1>8 DEF TasksInv
    <3> QED  BY <3>1 DEF TaskInv
  <2>2. ASSUME NEW v \in Workers, running'[v] # Nobody PROVE TaskInv(running[v])'
    <3> PICK task : task = IF v = w THEN queue[1] ELSE running[v]
      OBVIOUS
    <3>1. TaskInv(task) /\ running'[v] = task
      BY <1>1, <1>4, <1>5, <2>2 DEF TasksInv
    <3>2. TaskInv(task)'
      BY <1>8, <3>1
    <3> QED  BY <3>1, <3>2 DEF TaskInv
  <2>3. \A i, j \in DOMAIN queue' : queue'[i].live /\ queue'[i] = queue'[j] => i = j
    <3> SUFFICES ASSUME NEW i \in DOMAIN queue', NEW j \in DOMAIN queue',
                        queue'[i].live, queue'[i] = queue'[j]
                 PROVE  i = j
      OBVIOUS
    <3>1. i + 1 = j + 1
      BY <1>1, <1>4 DEF TasksInv
    <3> QED  BY <1>4, <3>1
  <2>4. \A i \in DOMAIN queue', v \in Workers : queue'[i].live => queue'[i] # running'[v]
    <3> SUFFICES ASSUME NEW i \in DOMAIN queue', NEW v \in Workers, queue'[i].live
                 PROVE  queue'[i] # running'[v]
      OBVIOUS
    <3>1. i + 1 \in DOMAIN queue /\ i + 1 # 1 /\ queue'[i] = queue[i + 1]
      BY <1>4
    <3> QED  BY <1>1, <1>4, <1>5, <3>1, SMTT(30) DEF TasksInv
  <2>5. \A v, x \in Workers :
          running'[v] # Nobody /\ running'[v].live /\ running'[v] = running'[x] => v = x
    BY <1>1, <1>4, <1>5 DEF TasksInv
  <2>6. ASSUME NEW u \in Threads, pc'[u] \in {"push", "wait", "get"},
               NEW b \in 1 .. pushed'[u], outcome'[u][b] = "pending"
        PROVE  \/ \E i \in DOMAIN queue' : queue'[i] = TaskOf(u, b)
               \/ \E v \in Workers : running'[v] = TaskOf(u, b)
    <3>1. \/ \E i \in DOMAIN queue : queue[i] = TaskOf(u, b)
          \/ \E v \in Workers : running[v] = TaskOf(u, b)
      BY <1>1, <1>2, <2>6 DEF TasksInv
    <3>2. CASE \E i \in DOMAIN queue : queue[i] = TaskOf(u, b)
      BY <1>4, <1>5, <3>2
    <3>3. CASE \E v \in Workers : running[v] = TaskOf(u, b)
      <4>1. TaskOf(u, b) # Nobody
        <5>1. b \in DOMAIN spans[u]
          <6>1. ThreadInv(u) /\ Len(spans[u]) \in Nat /\ pushed[u] \in Nat
                /\ DOMAIN spans[u] = 1 .. Len(spans[u]) /\ b \in 1 .. pushed[u]
            BY <1>1, <1>2, ThreadTypes DEF IInv
          <6> QED  BY <6>1 DEF ThreadInv, ShapeInv
        <5> QED  BY <5>1, TaskOfIs
      <4> QED  BY <1>1, <1>5, <3>3, <4>1
    <3> QED  BY <3>1, <3>2, <3>3
  <2>7. ~MayThrow => SpansAreReal'
    BY <1>1, <1>4, <1>5, SMTT(30) DEF TasksInv, SpansAreReal
  <2> QED  BY <2>1, <2>2, <2>3, <2>4, <2>5, <2>6, <2>7 DEF TasksInv
<1> QED  BY <1>6, <1>7, <1>9 DEF IInv

\* A task that ends: its block has its outcome, unless its call is over.
LEMMA TaskEnds ==
    ASSUME IInv, NEW w \in Workers, NEW task \in Task, running[w] = task,
           NEW answer \in {"value", "thrown"}, answer = "thrown" => MayThrow,
           running' = [running EXCEPT ![w] = Nobody],
           UNCHANGED <<queue, pc, call, spans, pushed, folded, result>>,
           task.live => outcome' = [outcome EXCEPT ![task.by][task.block] = answer],
           ~task.live => outcome' = outcome,
           visits' \in [Threads -> [Element -> Nat]],
           \A u \in Threads : ~(task.live /\ u = task.by) => visits'[u] = visits[u],
           task.live => VisitInv(task.by)'
    PROVE  IInv'
<1>1. TypeOK /\ TasksInv /\ \A u \in Threads : ThreadInv(u)
  BY DEF IInv
<1> DEFINE t == task.by
           b == task.block
<1>2. t \in Threads /\ task # Nobody /\ task.live \in BOOLEAN
  BY ParallelChunksAssumption DEF Task
<1>3. queue \in Seq(Task) /\ running \in [Workers -> Task \cup {Nobody}]
      /\ outcome \in [Threads -> Seq({"pending", "value", "thrown"})]
  BY <1>1 DEF TypeOK
<1>4. /\ DOMAIN outcome[t] = 1 .. Len(outcome[t]) /\ Len(outcome[t]) \in Nat
      /\ pushed[t] \in Nat /\ pushed[t] =< Len(outcome[t])
  BY <1>1, <1>2, ThreadTypes DEF ThreadInv, ShapeInv
<1>5. task.live => /\ pc[t] \in Open /\ b \in 1 .. pushed[t] /\ b \in DOMAIN outcome[t]
                   /\ outcome[t][b] = "pending" /\ task = TaskOf(t, b)
  <2> SUFFICES ASSUME task.live
               PROVE  /\ pc[t] \in Open /\ b \in 1 .. pushed[t] /\ b \in DOMAIN outcome[t]
                      /\ outcome[t][b] = "pending" /\ task = TaskOf(t, b)
    OBVIOUS
  <2>1. TaskInv(task)
    BY <1>1, <1>2 DEF TasksInv
  <2>2. task = TaskOf(t, b)
    BY DEF Task, TaskOf
  <2> QED  BY <1>4, <2>1, <2>2 DEF TaskInv
<1> HIDE DEF t, b
<1>6. /\ task.live => outcome' = [outcome EXCEPT ![t][b] = answer] /\ VisitInv(t)'
      /\ task.live => task.by = t /\ task.block = b
      /\ \A u \in Threads : ~(task.live /\ u = t) => visits'[u] = visits[u]
  BY DEF t, b
<1>7. /\ outcome' \in [Threads -> Seq({"pending", "value", "thrown"})]
      /\ \A u \in Threads : ~(task.live /\ u = t) => outcome'[u] = outcome[u]
      /\ task.live => /\ DOMAIN outcome'[t] = DOMAIN outcome[t]
                      /\ Len(outcome'[t]) = Len(outcome[t])
                      /\ outcome'[t][b] = answer
                      /\ \A i \in DOMAIN outcome[t] \ {b} : outcome'[t][i] = outcome[t][i]
  <2>1. CASE ~task.live
    BY <1>3, <2>1
  <2>2. CASE task.live
    <3> DEFINE row == [outcome[t] EXCEPT ![b] = answer]
    <3>1. outcome' = [outcome EXCEPT ![t] = row]
      BY <1>6, <2>2
    <3>2. /\ row \in Seq({"pending", "value", "thrown"}) /\ Len(row) = Len(outcome[t])
          /\ DOMAIN row = DOMAIN outcome[t] /\ row[b] = answer
          /\ \A i \in DOMAIN outcome[t] \ {b} : row[i] = outcome[t][i]
      <4>1. outcome[t] \in Seq({"pending", "value", "thrown"}) /\ b \in DOMAIN outcome[t]
        BY <1>2, <1>3, <1>5, <2>2 DEF t
      <4> QED  BY <4>1, <1>4
    <3> HIDE DEF row
    <3>3. t \in Threads
      BY <1>2 DEF t
    <3> QED  BY <1>3, <2>2, <3>1, <3>2, <3>3
  <2> QED  BY <2>1, <2>2
<1>8. running' \in [Workers -> Task \cup {Nobody}] /\ running'[w] = Nobody
      /\ \A v \in Workers \ {w} : running'[v] = running[v]
  BY <1>3
<1>9. TypeOK'
  BY <1>1, <1>7, <1>8 DEF TypeOK
<1>10. ASSUME NEW u \in Threads PROVE ThreadInv(u)'
  <2>1. CASE ~(task.live /\ u = t)
    <3>1. outcome'[u] = outcome[u] /\ visits'[u] = visits[u]
      BY <1>6, <1>7, <2>1
    <3> QED  BY <1>1, <3>1, ThreadKept
  <2>2. CASE task.live /\ u = t
    <3>1. ThreadInv(t) /\ pc[t] \in Open /\ b \in 1 .. pushed[t] /\ pc'[t] = pc[t]
      BY <1>1, <1>5, <2>2
    <3>2. ShapeInv(t)'
      BY <1>4, <1>7, <2>2, <3>1 DEF ThreadInv, ShapeInv, Open
    <3>3. ReturnInv(t)'
      BY <3>1 DEF ReturnInv, Open
    <3>4. FoldInv(t)'
      BY <3>1 DEF ThreadInv, FoldInv, Open
    <3>5. PlanInv(t)'
      BY <3>1 DEF ThreadInv, PlanInv
    <3>6. ThrowInv(t)'
      BY <1>7, <2>2, <3>1 DEF ThreadInv, ThrowInv
    <3> QED  BY <1>6, <2>2, <3>2, <3>3, <3>4, <3>5, <3>6 DEF ThreadInv
  <2> QED  BY <2>1, <2>2
<1>11. ASSUME NEW other \in Task, TaskInv(other), other.live => other # task
       PROVE  TaskInv(other)'
  <2> SUFFICES ASSUME other.live PROVE TaskInv(other)'
    BY DEF TaskInv
  <2>1. other.by \in Threads /\ other = TaskOf(other.by, other.block)
    BY DEF Task, TaskOf
  <2>2. pc[other.by] \in Open /\ other.block \in 1 .. pushed[other.by]
        /\ outcome[other.by][other.block] = "pending"
    BY <1>11 DEF TaskInv
  <2>3. CASE task.live /\ other.by = t
    <3>1. other.block # b
      BY <1>5, <1>11, <2>1, <2>3
    <3>2. other.block \in DOMAIN outcome[t]
      BY <1>4, <2>2, <2>3
    <3> QED  BY <1>7, <2>2, <2>3, <3>1, <3>2 DEF TaskInv
  <2>4. CASE ~(task.live /\ other.by = t)
    BY <1>7, <2>1, <2>2, <2>4 DEF TaskInv
  <2> QED  BY <2>3, <2>4
<1>12. TasksInv'
  <2>1. ASSUME NEW i \in DOMAIN queue PROVE TaskInv(queue[i])'
    <3> PICK other : other = queue[i]
      OBVIOUS
    <3>1. other \in Task /\ TaskInv(other) /\ (other.live => other # task)
      BY <1>1, <1>3 DEF TasksInv
    <3>2. TaskInv(other)'
      BY <1>11, <3>1
    <3> QED  BY <3>2 DEF TaskInv
  <2>2. ASSUME NEW v \in Workers, running'[v] # Nobody PROVE TaskInv(running[v])'
    <3> PICK other : other = running[v]
      OBVIOUS
    <3>1. v # w /\ running'[v] = other
      BY <1>8, <2>2
    <3>2. other \in Task /\ TaskInv(other) /\ (other.live => other # task)
      BY <1>1, <1>3, <2>2, <3>1 DEF TasksInv
    <3>3. TaskInv(other)'
      BY <1>11, <3>2
    <3> QED  BY <3>1, <3>3 DEF TaskInv
  <2>3. \A i, j \in DOMAIN queue' : queue'[i].live /\ queue'[i] = queue'[j] => i = j
    BY <1>1 DEF TasksInv
  <2>4. \A i \in DOMAIN queue', v \in Workers : queue'[i].live => queue'[i] # running'[v]
    <3>1. \A i \in DOMAIN queue : queue[i] # Nobody
      BY <1>3, ParallelChunksAssumption
    <3> QED  BY <1>1, <1>8, <3>1 DEF TasksInv
  <2>5. \A v, x \in Workers :
          running'[v] # Nobody /\ running'[v].live /\ running'[v] = running'[x] => v = x
    BY <1>1, <1>8 DEF TasksInv
  <2>6. ASSUME NEW u \in Threads, pc'[u] \in {"push", "wait", "get"},
               NEW c \in 1 .. pushed'[u], outcome'[u][c] = "pending"
        PROVE  \/ \E i \in DOMAIN queue' : queue'[i] = TaskOf(u, c)
               \/ \E v \in Workers : running'[v] = TaskOf(u, c)
    <3>1. ~(task.live /\ u = t /\ c = b)
      BY <1>7, <2>6
    <3>2. outcome[u][c] = "pending"
      <4>1. CASE task.live /\ u = t
        <5>1. c \in DOMAIN outcome[t] \ {b}
          BY <1>4, <3>1, <4>1
        <5> QED  BY <1>7, <2>6, <4>1, <5>1
      <4>2. CASE ~(task.live /\ u = t)
        BY <1>7, <2>6, <4>2
      <4> QED  BY <4>1, <4>2
    <3>3. \/ \E i \in DOMAIN queue : queue[i] = TaskOf(u, c)
          \/ \E v \in Workers : running[v] = TaskOf(u, c)
      BY <1>1, <2>6, <3>2 DEF TasksInv
    <3>4. TaskOf(u, c) # task
      <4>1. TaskOf(u, c).live /\ TaskOf(u, c).by = u /\ TaskOf(u, c).block = c
        BY DEF TaskOf
      <4> QED  BY <1>6, <3>1, <4>1
    <3> QED  BY <1>8, <3>3, <3>4
  <2>7. ~MayThrow => SpansAreReal'
    BY <1>1, <1>8 DEF TasksInv, SpansAreReal
  <2> QED  BY <2>1, <2>2, <2>3, <2>4, <2>5, <2>6, <2>7 DEF TasksInv
<1> QED  BY <1>9, <1>10, <1>12 DEF IInv

LEMMA FinishBlockKeeps ==
    ASSUME IInv, NEW w \in Workers, FinishBlock(w)
    PROVE  IInv'
<1>1. TypeOK /\ TasksInv /\ running[w] # Nobody
  BY DEF IInv, FinishBlock
<1> PICK task : task = running[w]
  OBVIOUS
<1>2. task \in Task /\ task # Nobody /\ TaskInv(task)
  BY <1>1 DEF TypeOK, TasksInv
<1> DEFINE answer == "value"
           t == task.by
           b == task.block
<1>3. answer \in {"value", "thrown"} /\ answer # "thrown" /\ answer = "value"
  OBVIOUS
<1>4. /\ running' = [running EXCEPT ![w] = Nobody]
      /\ UNCHANGED <<queue, pc, call, spans, pushed, folded, result>>
      /\ task.live => /\ Visited(t, Touched(call[t].kind, spans[t][b]))
                      /\ outcome' = [outcome EXCEPT ![t][b] = answer]
      /\ ~task.live => UNCHANGED <<visits, outcome>>
  BY DEF FinishBlock
<1> HIDE DEF answer
<1>5. t \in Threads
  BY <1>2 DEF Task
<1>6. CASE ~task.live
  BY <1>1, <1>2, <1>3, <1>4, <1>6, TaskEnds DEF TypeOK
<1>7. CASE task.live
  <2>1. /\ TypeOK /\ ShapeInv(t) /\ VisitInv(t) /\ pc[t] \in Open
        /\ b \in 1 .. pushed[t] /\ outcome[t][b] = "pending"
    BY <1>2, <1>5, <1>7 DEF IInv, ThreadInv, TaskInv
  <2>2. /\ spans[t] \in Seq(Spans) /\ call[t].count \in Nat
        /\ Tiling(spans[t], call[t].count)
        /\ DOMAIN outcome[t] = DOMAIN spans[t] /\ b \in DOMAIN outcome[t]
    <3>1. /\ spans[t] \in Seq(Spans) /\ call[t].count \in Nat
          /\ DOMAIN spans[t] = 1 .. Len(spans[t]) /\ Len(spans[t]) \in Nat
          /\ DOMAIN outcome[t] = 1 .. Len(outcome[t]) /\ pushed[t] \in Nat
      BY <1>5, <2>1, ThreadTypes
    <3>2. Len(outcome[t]) = Len(spans[t]) /\ pushed[t] =< Len(spans[t]) /\ pc[t] # "idle"
      BY <2>1 DEF ShapeInv, Open
    <3>3. Tiling(spans[t], call[t].count)
      BY <2>1, <3>2 DEF ShapeInv
    <3> QED  BY <2>1, <3>1, <3>2, <3>3
  <2>3. /\ visits' \in [Threads -> [Element -> Nat]]
        /\ \A e \in Element : visits'[t][e] =
              visits[t][e] + (IF e \in Touched(call[t].kind, spans[t][b]) THEN 1 ELSE 0)
        /\ \A u \in Threads \ {t} : visits'[u] = visits[u]
    BY <1>4, <1>5, <1>7, <2>1, VisitedIs
  <2>4. /\ DOMAIN outcome'[t] = DOMAIN outcome[t] /\ outcome'[t][b] = "value"
        /\ \A i \in DOMAIN outcome[t] \ {b} : outcome'[t][i] = outcome[t][i]
    <3>1. outcome \in [Threads -> Seq({"pending", "value", "thrown"})]
      BY <1>1 DEF TypeOK
    <3> HIDE DEF t, b
    <3> QED  BY <1>3, <1>4, <1>5, <1>7, <2>2, <3>1
  <2>5. VisitInv(t)'
    <3> SUFFICES ASSUME NEW e \in Element
                 PROVE  visits'[t][e] =
                          IF \E i \in DOMAIN outcome'[t] :
                                outcome'[t][i] = "value"
                                /\ e \in Touched(call[t].kind, spans[t][i])
                          THEN 1 ELSE 0
      BY <1>4 DEF VisitInv
    <3>1. visits[t][e] = IF \E i \in DOMAIN outcome[t] :
                                outcome[t][i] = "value"
                                /\ e \in Touched(call[t].kind, spans[t][i])
                         THEN 1 ELSE 0
      BY <2>1 DEF VisitInv, Open
    <3>2. CASE e \in Touched(call[t].kind, spans[t][b])
      <4>1. ASSUME NEW i \in DOMAIN outcome[t], outcome[t][i] = "value",
                   e \in Touched(call[t].kind, spans[t][i])
            PROVE  FALSE
        <5>1. e \in Int
          BY ElementIs
        <5> DEFINE kind == call[t].kind
                   blocks == spans[t]
                   count == call[t].count
        <5>2. /\ blocks \in Seq(Spans) /\ count \in Nat /\ Tiling(blocks, count)
              /\ i \in DOMAIN blocks /\ b \in DOMAIN blocks
              /\ e \in Touched(kind, blocks[i]) /\ e \in Touched(kind, blocks[b])
          BY <2>2, <3>2, <4>1
        <5> HIDE DEF kind, blocks, count, t, b
        <5>3. i = b
          BY <5>1, <5>2, TilesApart
        <5> QED  BY <2>1, <4>1, <5>3
      <4>2. visits[t][e] = 0
        BY <3>1, <4>1
      <4>3. visits'[t][e] = 1
        BY <2>3, <3>2, <4>2
      <4>4. \E i \in DOMAIN outcome'[t] :
               outcome'[t][i] = "value" /\ e \in Touched(call[t].kind, spans[t][i])
        BY <2>2, <2>4, <3>2
      <4> QED  BY <4>3, <4>4
    <3>3. CASE e \notin Touched(call[t].kind, spans[t][b])
      <4>1. visits'[t][e] = visits[t][e]
        <5>1. visits[t][e] \in Nat
          BY <3>1
        <5> QED  BY <2>3, <3>3, <5>1
      <4>2. (\E i \in DOMAIN outcome'[t] :
               outcome'[t][i] = "value" /\ e \in Touched(call[t].kind, spans[t][i]))
            <=> (\E i \in DOMAIN outcome[t] :
               outcome[t][i] = "value" /\ e \in Touched(call[t].kind, spans[t][i]))
        <5> HIDE DEF t, b
        <5>1. \A i \in DOMAIN outcome[t] : i # b => outcome'[t][i] = outcome[t][i]
          BY <2>4
        <5>2. outcome[t][b] # "value"
          BY <2>1
        <5> QED  BY <2>4, <3>3, <5>1, <5>2, Zenon
      <4> QED  BY <3>1, <4>1, <4>2
    <3> QED  BY <3>2, <3>3
  <2>6. \A u \in Threads : ~(task.live /\ u = task.by) => visits'[u] = visits[u]
    BY <1>7, <2>3
  <2>7. answer = "thrown" => MayThrow
    BY <1>3
  <2>8. task.live => outcome' = [outcome EXCEPT ![task.by][task.block] = answer]
    BY <1>4
  <2>9. task.live => VisitInv(task.by)'
    BY <2>5
  <2>10. ~task.live => outcome' = outcome
    BY <1>7
  <2>11. visits' \in [Threads -> [Element -> Nat]] /\ running[w] = task
         /\ running' = [running EXCEPT ![w] = Nobody]
         /\ UNCHANGED <<queue, pc, call, spans, pushed, folded, result>>
    BY <1>4, <2>3
  <2> QED  BY <1>2, <1>3, <2>6, <2>7, <2>8, <2>9, <2>10, <2>11, TaskEnds
<1> QED  BY <1>6, <1>7

LEMMA ThrowBlockKeeps ==
    ASSUME IInv, NEW w \in Workers, ThrowBlock(w)
    PROVE  IInv'
<1>1. TypeOK /\ TasksInv /\ running[w] # Nobody /\ MayThrow
  BY DEF IInv, ThrowBlock
<1> PICK task : task = running[w]
  OBVIOUS
<1>2. task \in Task /\ task # Nobody /\ TaskInv(task)
  BY <1>1 DEF TypeOK, TasksInv
<1> DEFINE answer == "thrown"
           t == task.by
           b == task.block
<1>3. answer \in {"value", "thrown"} /\ answer = "thrown"
  OBVIOUS
<1>4. /\ running' = [running EXCEPT ![w] = Nobody]
      /\ UNCHANGED <<queue, pc, call, spans, pushed, visits, folded, result>>
      /\ task.live => outcome' = [outcome EXCEPT ![t][b] = answer]
      /\ ~task.live => UNCHANGED outcome
  BY DEF ThrowBlock
<1> HIDE DEF answer
<1>5. t \in Threads /\ visits' \in [Threads -> [Element -> Nat]]
  BY <1>1, <1>2, <1>4 DEF Task, TypeOK
<1>6. ASSUME task.live PROVE VisitInv(t)'
  <2>1. /\ VisitInv(t) /\ pc[t] \in Open /\ outcome[t][b] = "pending"
        /\ b \in 1 .. pushed[t] /\ ShapeInv(t)
    BY <1>2, <1>5, <1>6 DEF IInv, ThreadInv, TaskInv
  <2>2. /\ DOMAIN outcome'[t] = DOMAIN outcome[t] /\ outcome'[t][b] = "thrown"
        /\ \A i \in DOMAIN outcome[t] \ {b} : outcome'[t][i] = outcome[t][i]
    <3>1. outcome \in [Threads -> Seq({"pending", "value", "thrown"})]
      BY <1>1 DEF TypeOK
    <3>2. b \in DOMAIN outcome[t]
      <4>1. DOMAIN outcome[t] = 1 .. Len(outcome[t]) /\ Len(outcome[t]) \in Nat /\ pushed[t] \in Nat
        BY <1>1, <1>5, ThreadTypes
      <4> QED  BY <2>1, <4>1 DEF ShapeInv
    <3> HIDE DEF t, b
    <3> QED  BY <1>3, <1>4, <1>5, <1>6, <3>1, <3>2
  <2>3. \A i \in DOMAIN outcome[t] : outcome'[t][i] = "value" <=> outcome[t][i] = "value"
    <3> HIDE DEF t, b
    <3> QED  BY <2>1, <2>2
  <2> QED  BY <1>4, <2>1, <2>2, <2>3 DEF VisitInv, Open
<1> QED  BY <1>1, <1>2, <1>3, <1>4, <1>5, <1>6, TaskEnds

-----------------------------------------------------------------------------
(* The invariant holds. *)

LEMMA InitIInv == Init => IInv
<1> SUFFICES ASSUME Init PROVE IInv
  OBVIOUS
<1> DEFINE none == <<>>
<1>1. none \in Seq(Task) /\ none \in Seq(Span) /\ none \in Seq({"pending", "value", "thrown"})
      /\ none \in Seq(Int) /\ DOMAIN none = {} /\ Len(none) = 0
  OBVIOUS
<1>2. /\ queue = none /\ running = [w \in Workers |-> Nobody]
      /\ pc = [t \in Threads |-> "idle"] /\ call = [t \in Threads |-> NoCall]
      /\ spans = [t \in Threads |-> none] /\ pushed = [t \in Threads |-> 0]
      /\ outcome = [t \in Threads |-> none]
      /\ visits = [t \in Threads |-> [e \in Element |-> 0]]
      /\ folded = [t \in Threads |-> 0] /\ result = [t \in Threads |-> none]
  BY DEF Init
<1>3. NoCall \in Call
  BY ParallelChunksAssumption DEF NoCall, Call, AllKinds
<1>4. \A t \in Threads : spans[t] = <<>>
  BY DEF Init
<1> HIDE DEF none
<1>5. TypeOK
  BY <1>1, <1>2, <1>3 DEF TypeOK, Labels
<1>6. ASSUME NEW t \in Threads PROVE ThreadInv(t)
  <2>1. /\ pc[t] = "idle" /\ call[t] = NoCall /\ spans[t] = <<>> /\ spans[t] = none
        /\ pushed[t] = 0 /\ folded[t] = 0 /\ outcome[t] = none
        /\ \A e \in Element : visits[t][e] = 0
    BY <1>2, <1>4
  <2>2. ShapeInv(t)
    BY <1>1, <2>1 DEF ShapeInv
  <2>3. VisitInv(t) /\ ReturnInv(t) /\ FoldInv(t) /\ PlanInv(t) /\ ThrowInv(t)
    BY <1>1, <2>1 DEF VisitInv, ReturnInv, FoldInv, PlanInv, ThrowInv
  <2> QED  BY <2>2, <2>3 DEF ThreadInv
<1>7. TasksInv
  <2>1. /\ DOMAIN queue = {} /\ \A w \in Workers : running[w] = Nobody
        /\ \A t \in Threads : pc[t] = "idle"
    BY <1>1, <1>2
  <2> QED  BY <2>1 DEF TasksInv, SpansAreReal
<1> QED  BY <1>5, <1>6, <1>7 DEF IInv

LEMMA NextIInv == IInv /\ [Next]_vars => IInv'
<1> SUFFICES ASSUME IInv, [Next]_vars PROVE IInv'
  OBVIOUS
<1>1. ASSUME NEW t \in Threads, Calling(t) PROVE IInv'
  BY <1>1, ParallelChunksKeeps, ParallelForKeeps DEF Calling
<1>2. ASSUME NEW t \in Threads, Inside(t) PROVE IInv'
  <2>1. CASE Serial(t)
    BY <2>1, SerialKeeps
  <2>2. CASE SerialThrows(t)
    BY <2>2, SerialThrowsKeeps
  <2>3. CASE PushBlock(t)
    BY <2>3, PushBlockKeeps
  <2>4. CASE WaitReturns(t)
    BY <2>4, WaitReturnsKeeps
  <2>5. CASE GetReturns(t)
    BY <2>5, GetReturnsKeeps
  <2>6. CASE GetThrows(t)
    BY <2>6, GetThrowsKeeps
  <2>7. CASE FoldPartial(t)
    BY <2>7, FoldPartialKeeps
  <2>8. CASE FoldThrows(t)
    BY <2>8, FoldThrowsKeeps
  <2>9. CASE Resume(t)
    BY <2>9, ResumeKeeps
  <2> QED  BY <1>2, <2>1, <2>2, <2>3, <2>4, <2>5, <2>6, <2>7, <2>8, <2>9 DEF Inside
<1>3. ASSUME NEW w \in Workers, Working(w) PROVE IInv'
  BY <1>3, TakeKeeps, FinishBlockKeeps, ThrowBlockKeeps DEF Working
<1>4. CASE UNCHANGED vars
  <2>1. TypeOK' /\ \A t \in Threads : ThreadInv(t)'
    BY <1>4, ThreadKept DEF vars, IInv, TypeOK
  <2>2. ASSUME NEW task, TaskInv(task) PROVE TaskInv(task)'
    BY <1>4, <2>2 DEF vars, TaskInv
  <2>3. \A i \in DOMAIN queue : TaskInv(queue[i])'
    <3> SUFFICES ASSUME NEW i \in DOMAIN queue PROVE TaskInv(queue[i])'
      OBVIOUS
    <3> PICK task : task = queue[i]
      OBVIOUS
    <3>1. TaskInv(task)' /\ queue'[i] = task
      BY <1>4, <2>2 DEF vars, IInv, TasksInv
    <3> QED  BY <3>1 DEF TaskInv
  <2>4. \A w \in Workers : running[w] # Nobody => TaskInv(running[w])'
    <3> SUFFICES ASSUME NEW w \in Workers, running[w] # Nobody PROVE TaskInv(running[w])'
      OBVIOUS
    <3> PICK task : task = running[w]
      OBVIOUS
    <3>1. TaskInv(task)' /\ running'[w] = task
      BY <1>4, <2>2 DEF vars, IInv, TasksInv
    <3> QED  BY <3>1 DEF TaskInv
  <2>5. TasksInv'
    BY <1>4, <2>3, <2>4 DEF vars, IInv, TasksInv, SpansAreReal
  <2> QED  BY <2>1, <2>5 DEF IInv
<1> QED  BY <1>1, <1>2, <1>3, <1>4 DEF Next

LEMMA SpecIInv == Spec => []IInv
<1> QED  BY InitIInv, NextIInv, PTL DEF Spec

\* However the workers interleave, reduce returns the partials of its blocks
\* combined from init in the order of the input; when a callback throws it
\* does not return.
THEOREM ReduceKeepsOrder == Spec => []ReduceInOrder
<1>1. IInv => ReduceInOrder
  BY DEF IInv, ThreadInv, FoldInv, ReduceInOrder, Prefix
<1> QED  BY <1>1, SpecIInv, PTL

\* Without callbacks that throw, no task outlives the call whose frame it
\* refers to: both ways of waiting wait for every task.
THEOREM TasksEndBeforeCalls ==
    ASSUME ~MayThrow
    PROVE  Spec => []SpansAreReal
<1>1. IInv => SpansAreReal
  BY DEF IInv, TasksInv
<1> QED  BY <1>1, SpecIInv, PTL

-----------------------------------------------------------------------------
(* The accounts of a call. *)

LEMMA AtMostOne ==
    ASSUME NEW S, NEW x, S \subseteq {x}
    PROVE  Cardinality(S) = IF x \in S THEN 1 ELSE 0
<1>1. CASE x \in S
  <2>1. S = {x}
    BY <1>1
  <2> QED  BY <1>1, <2>1, FS_Singleton
<1>2. CASE x \notin S
  <2>1. S = {}
    BY <1>2
  <2> QED  BY <1>2, <2>1, FS_EmptySet
<1> QED  BY <1>1, <1>2

LEMMA AccountsBalance == IInv => EachElementOnce
<1> SUFFICES ASSUME IInv, NEW t \in Threads, pc[t] \in {"push", "wait", "get", "fold"},
                    NEW e \in Input(t)
             PROVE  LET has(i) == e \in Touched(call[t].kind, spans[t][i])
                    IN  visits[t][e]
                          + Cardinality({i \in Queued(t) : has(queue[i].block)})
                          + Cardinality({w \in RunningOf(t) : has(running[w].block)})
                          + Cardinality({i \in (pushed[t] + 1) .. Len(spans[t]) : has(i)})
                          + Cardinality({i \in DOMAIN outcome[t] :
                                            outcome[t][i] = "thrown" /\ has(i)})
                        = 1
  BY DEF EachElementOnce
<1> DEFINE has(i) == e \in Touched(call[t].kind, spans[t][i])
           Q == {i \in Queued(t) : has(queue[i].block)}
           R == {w \in RunningOf(t) : has(running[w].block)}
           P == {i \in (pushed[t] + 1) .. Len(spans[t]) : has(i)}
           X == {i \in DOMAIN outcome[t] : outcome[t][i] = "thrown" /\ has(i)}
<1>1. TypeOK /\ ThreadInv(t) /\ TasksInv
  BY DEF IInv
<1>2. /\ spans[t] \in Seq(Spans) /\ DOMAIN spans[t] = 1 .. Len(spans[t])
      /\ Len(spans[t]) \in Nat /\ pushed[t] \in Nat /\ call[t].count \in Nat
      /\ DOMAIN outcome[t] = 1 .. Len(outcome[t])
      /\ \A i \in DOMAIN outcome[t] : outcome[t][i] \in {"pending", "value", "thrown"}
  BY <1>1, ThreadTypes
<1>3. /\ Len(outcome[t]) = Len(spans[t]) /\ pushed[t] =< Len(spans[t])
      /\ call[t].count \in Counts /\ Tiling(spans[t], call[t].count)
      /\ \A i \in DOMAIN outcome[t] : i > pushed[t] => outcome[t][i] = "pending"
  BY <1>1 DEF ThreadInv, ShapeInv
<1>4. DOMAIN outcome[t] = DOMAIN spans[t]
  BY <1>2, <1>3
<1>5. e \in Element /\ e \in Int
  BY <1>3, ElementIs DEF Input
<1>6. PICK b \in DOMAIN spans[t] : has(b)
  BY <1>3 DEF Tiling, Input, Touched
<1>7. \A i \in DOMAIN spans[t] : has(i) => i = b
  <2> SUFFICES ASSUME NEW i \in DOMAIN spans[t], has(i) PROVE i = b
    OBVIOUS
  <2> DEFINE kind == call[t].kind
             blocks == spans[t]
             count == call[t].count
  <2>1. /\ blocks \in Seq(Spans) /\ count \in Nat /\ Tiling(blocks, count)
        /\ i \in DOMAIN blocks /\ b \in DOMAIN blocks
        /\ e \in Touched(kind, blocks[i]) /\ e \in Touched(kind, blocks[b])
    BY <1>2, <1>3, <1>6
  <2> HIDE DEF kind, blocks, count
  <2> QED  BY <1>5, <2>1, TilesApart
<1>8. visits[t][e] = IF outcome[t][b] = "value" THEN 1 ELSE 0
  <2>1. visits[t][e] = IF \E i \in DOMAIN outcome[t] : outcome[t][i] = "value" /\ has(i)
                       THEN 1 ELSE 0
    BY <1>1, <1>5 DEF ThreadInv, VisitInv
  <2> HIDE DEF has
  <2> QED  BY <1>4, <1>6, <1>7, <2>1
<1> HIDE DEF has
<1>9. Cardinality(P) = IF b > pushed[t] THEN 1 ELSE 0
  <2>1. P \subseteq {b} /\ (b \in P <=> b > pushed[t])
    BY <1>2, <1>6, <1>7
  <2> HIDE DEF P
  <2> QED  BY <2>1, AtMostOne
<1>10. Cardinality(X) = IF outcome[t][b] = "thrown" THEN 1 ELSE 0
  <2>1. X \subseteq {b} /\ (b \in X <=> outcome[t][b] = "thrown")
    BY <1>4, <1>6, <1>7
  <2> HIDE DEF X
  <2> QED  BY <2>1, AtMostOne
<1> DEFINE task == TaskOf(t, b)
<1>11. ASSUME NEW other \in Task, TaskInv(other), other.live, other.by = t, has(other.block)
       PROVE  other = task /\ outcome[t][b] = "pending" /\ b =< pushed[t]
  <2>1. other.block \in 1 .. pushed[t] /\ outcome[t][other.block] = "pending"
    BY <1>11 DEF TaskInv
  <2>2. other.block = b
    BY <1>2, <1>3, <1>7, <1>11, <2>1
  <2> QED  BY <1>11, <2>1, <2>2, <1>2 DEF Task, TaskOf
<1>12. task.live /\ task.by = t /\ task.block = b /\ task # Nobody /\ task \in Task
  <2>1. task.live /\ task.by = t /\ task.block = b
    BY DEF TaskOf
  <2> QED  BY <1>6, <2>1, TaskOfIs
<1> HIDE DEF task
<1>13. queue \in Seq(Task) /\ running \in [Workers -> Task \cup {Nobody}]
  BY <1>1 DEF TypeOK
<1>14. \A i \in DOMAIN queue : i \in Q <=> queue[i] = task
  <2> SUFFICES ASSUME NEW i \in DOMAIN queue PROVE i \in Q <=> queue[i] = task
    OBVIOUS
  <2> PICK other : other = queue[i]
    OBVIOUS
  <2>1. other \in Task /\ TaskInv(other)
    BY <1>1, <1>13 DEF TasksInv
  <2>2. i \in Q <=> other.live /\ other.by = t /\ has(other.block)
    BY DEF Queued
  <2>3. other.live /\ other.by = t /\ has(other.block) => other = task
    BY <1>11, <2>1
  <2>4. other = task => other.live /\ other.by = t /\ has(other.block)
    BY <1>6, <1>12
  <2> QED  BY <2>2, <2>3, <2>4
<1>15. \A w \in Workers : w \in R <=> running[w] = task
  <2> SUFFICES ASSUME NEW w \in Workers PROVE w \in R <=> running[w] = task
    OBVIOUS
  <2> PICK other : other = running[w]
    OBVIOUS
  <2>1. other # Nobody => other \in Task /\ TaskInv(other)
    BY <1>1, <1>13 DEF TasksInv
  <2>2. w \in R <=> other # Nobody /\ other.live /\ other.by = t /\ has(other.block)
    BY DEF RunningOf
  <2>3. other # Nobody /\ other.live /\ other.by = t /\ has(other.block) => other = task
    BY <1>11, <2>1
  <2>4. other = task => other # Nobody /\ other.live /\ other.by = t /\ has(other.block)
    BY <1>6, <1>12
  <2> QED  BY <2>2, <2>3, <2>4
<1>16. Q \subseteq DOMAIN queue /\ R \subseteq Workers
  BY DEF Queued, RunningOf
<1> DEFINE open == outcome[t][b] = "pending" /\ b =< pushed[t]
<1>17. Q # {} \/ R # {} => open
  <2>1. Q # {} \/ R # {} => TaskInv(task)
    BY <1>1, <1>12, <1>14, <1>15, <1>16 DEF TasksInv
  <2>2. TaskInv(task) => open
    BY <1>12, <1>2 DEF TaskInv
  <2> QED  BY <2>1, <2>2
<1>18. open => Q # {} \/ R # {}
  <2> SUFFICES ASSUME open PROVE Q # {} \/ R # {}
    OBVIOUS
  <2>1. pc[t] # "fold"
    BY <1>1, <1>4, <1>6 DEF ThreadInv, FoldInv, Answered
  <2>2. b \in 1 .. pushed[t]
    BY <1>2, <1>6
  <2>3. \/ \E i \in DOMAIN queue : queue[i] = task
        \/ \E w \in Workers : running[w] = task
    BY <1>1, <2>1, <2>2 DEF TasksInv, task
  <2> QED  BY <1>14, <1>15, <2>3
<1>19. Cardinality(Q) + Cardinality(R) = IF open THEN 1 ELSE 0
  <2>1. CASE Q # {}
    <3> PICK i \in Q : TRUE
      BY <2>1
    <3>1. Q \subseteq {i}
      BY <1>1, <1>12, <1>14, <1>16 DEF TasksInv
    <3>2. R = {}
      BY <1>1, <1>12, <1>14, <1>15, <1>16 DEF TasksInv
    <3> HIDE DEF Q, R, open
    <3>3. Cardinality(Q) = 1 /\ Cardinality(R) = 0
      BY <3>1, <3>2, AtMostOne, FS_EmptySet
    <3> QED  BY <1>17, <2>1, <3>3
  <2>2. CASE Q = {} /\ R # {}
    <3> PICK w \in R : TRUE
      BY <2>2
    <3>1. R \subseteq {w}
      BY <1>1, <1>12, <1>15, <1>16 DEF TasksInv
    <3> HIDE DEF Q, R, open
    <3>2. Cardinality(Q) = 0 /\ Cardinality(R) = 1
      BY <2>2, <3>1, AtMostOne, FS_EmptySet
    <3> QED  BY <1>17, <2>2, <3>2
  <2>3. CASE Q = {} /\ R = {}
    <3> HIDE DEF Q, R, open
    <3>1. Cardinality(Q) = 0 /\ Cardinality(R) = 0
      BY <2>3, FS_EmptySet
    <3> QED  BY <1>18, <2>3, <3>1
  <2> QED  BY <2>1, <2>2, <2>3
<1> HIDE DEF Q, R, P, X
<1>20. Cardinality(Q) \in Nat /\ Cardinality(R) \in Nat
  <2>1. Q = {} \/ \E i \in Q : Q \subseteq {i}
    BY <1>1, <1>12, <1>14, <1>16 DEF TasksInv
  <2>2. R = {} \/ \E w \in R : R \subseteq {w}
    BY <1>1, <1>12, <1>15, <1>16 DEF TasksInv
  <2> QED  BY <2>1, <2>2, AtMostOne, FS_EmptySet
<1>21. b \in Nat /\ b \in DOMAIN outcome[t] /\ outcome[t][b] \in {"pending", "value", "thrown"}
       /\ (b > pushed[t] => outcome[t][b] = "pending")
  BY <1>2, <1>3, <1>4, <1>6
<1>22. visits[t][e] + Cardinality(Q) + Cardinality(R) + Cardinality(P) + Cardinality(X) = 1
  BY <1>2, <1>8, <1>9, <1>10, <1>19, <1>20, <1>21
<1> QED  BY <1>22 DEF Q, R, P, X, has

\* The product of the threshold fits a size_t.
ThresholdFits ==
    \A min \in MinChunkSizes, chunks \in ChunkCounts : min * Effective(chunks) =< SizeMax

LEMMA PlanIsThreshold ==
    ASSUME ThresholdFits, NEW count \in Nat, NEW min \in MinChunkSizes, NEW chunks \in ChunkCounts
    PROVE  Parallelize(count, min, chunks) <=> ~(count < min * Effective(chunks))
<1>1. min \in Nat /\ chunks \in Nat /\ SizeMax \in Nat
  BY ParallelChunksAssumption
<1>2. Effective(chunks) \in Nat \ {0}
  BY <1>1, EffectiveIs
<1> DEFINE product == min * Effective(chunks)
<1>3. product \in Nat /\ product =< SizeMax
  BY <1>1, <1>2 DEF ThresholdFits
<1>4. min = 0 => product = 0
  BY <1>2
<1> HIDE DEF product
<1>5. product % (SizeMax + 1) = product
  BY <1>1, <1>3
<1>6. Parallelize(count, min, chunks) <=> ~(min > 0 /\ count < product)
  BY <1>5 DEF Parallelize, product
<1> QED  BY <1>1, <1>3, <1>4, <1>6 DEF product

LEMMA ThresholdIsKept == ThresholdFits /\ IInv => ThresholdDecides
<1> SUFFICES ASSUME ThresholdFits, IInv, NEW t \in Threads, call[t].kind # "parallel_for"
             PROVE  LET below == call[t].count < call[t].min * Effective(call[t].chunks)
                    IN  (pc[t] = "push" => ~below) /\ (pc[t] = "serial" => below)
  BY DEF ThresholdDecides
<1>1. PlanInv(t) /\ call[t].count \in Nat
  BY ThreadTypes DEF IInv, ThreadInv
<1>2. CASE pc[t] \in {"push", "serial"}
  <2>1. /\ call[t].min \in MinChunkSizes /\ call[t].chunks \in ChunkCounts
        /\ pc[t] = "push" <=> Parallelize(call[t].count, call[t].min, call[t].chunks)
    BY <1>1, <1>2 DEF PlanInv
  <2>2. Parallelize(call[t].count, call[t].min, call[t].chunks)
        <=> ~(call[t].count < call[t].min * Effective(call[t].chunks))
    BY <1>1, <2>1, PlanIsThreshold
  <2> QED  BY <1>2, <2>1, <2>2
<1>3. CASE pc[t] \notin {"push", "serial"}
  BY <1>3
<1> QED  BY <1>2, <1>3

LEMMA ReturnsAreComplete == IInv => ReturnedVisitedAll
<1> QED  BY DEF IInv, ThreadInv, ReturnInv, ReturnedVisitedAll

\* Whatever throws, each element of a call is visited, in one task, or not
\* queued yet, in one of them; a call that returned visited each once.  This
\* holds for every threshold, one that wraps included.
THEOREM EveryElementOnce == Spec => [](TypeOK /\ EachElementOnce /\ ReturnedVisitedAll)
<1>1. IInv => TypeOK /\ EachElementOnce /\ ReturnedVisitedAll
  BY AccountsBalance, ReturnsAreComplete DEF IInv
<1> QED  BY <1>1, SpecIInv, PTL

\* As long as min_chunk_size times the chunk count fits a size_t, the pool is
\* also used for the inputs the documented threshold says, and for no other.
THEOREM CallsKeepAccounts ==
    ASSUME ThresholdFits
    PROVE  Spec => []CallInv
<1>1. IInv => CallInv
  BY AccountsBalance, ReturnsAreComplete, ThresholdIsKept DEF IInv, CallInv
<1> QED  BY <1>1, SpecIInv, PTL

-----------------------------------------------------------------------------
(* The calls implement FanOut. *)

\* The element a call has left, and steps that change nothing of it.
LEMMA LeftKept ==
    ASSUME NEW t \in Threads, call'[t] = call[t], visits'[t] = visits[t]
    PROVE  {e \in Input(t) : visits[t][e] = 0}' = {e \in Input(t) : visits[t][e] = 0}
  BY DEF Input

LEMMA LeftIsElements == IInv => \A t \in Threads : Input(t) \subseteq Element
<1> SUFFICES ASSUME IInv, NEW t \in Threads PROVE Input(t) \subseteq Element
  OBVIOUS
<1>1. ThreadInv(t)
  BY DEF IInv
<1>2. CASE pc[t] = "idle"
  BY <1>1, <1>2 DEF ThreadInv, ShapeInv, NoCall, Input
<1>3. CASE pc[t] # "idle"
  <2>1. call[t].count \in Counts
    BY <1>1, <1>3 DEF ThreadInv, ShapeInv
  <2> QED  BY <2>1, ElementIs DEF Input
<1> QED  BY <1>2, <1>3

LEMMA StutterImplements ==
    ASSUME IInv, call' = call, visits' = visits,
           \A t \in Threads : pc'[t] # "idle" <=> pc[t] # "idle"
    PROVE  UNCHANGED Promise!vars
<1>1. Busy' = Busy
  BY DEF Busy
<1>2. Left' = Left
  BY LeftKept DEF Left
<1> QED  BY <1>1, <1>2 DEF Promise!vars

LEMMA EnteredImplements ==
    ASSUME IInv, IInv', NEW t \in Threads, pc[t] = "idle",
           NEW arguments, NEW label, NEW blocks, label # "idle",
           Entered(t, arguments, label, blocks)
    PROVE  Promise!Next
<1>1. TypeOK /\ TypeOK' /\ ThreadInv(t)
  BY DEF IInv
<1>2. pc' = [pc EXCEPT ![t] = label] /\ call' = [call EXCEPT ![t] = arguments]
      /\ visits' = visits
  BY DEF Entered, Goto
<1>3. Busy' = [Busy EXCEPT ![t] = TRUE] /\ ~Busy[t]
  <2>1. \A u \in Threads : pc'[u] # "idle" <=> u = t \/ pc[u] # "idle"
    BY <1>1, <1>2 DEF TypeOK
  <2> QED  BY <2>1 DEF Busy
<1>4. \A u \in Threads \ {t} : call'[u] = call[u] /\ visits'[u] = visits[u]
  BY <1>1, <1>2 DEF TypeOK
<1> PICK input : input = {e \in Input(t) : visits[t][e] = 0}'
  OBVIOUS
<1>5. input \in SUBSET Element
  <2>1. pc'[t] # "idle" /\ ThreadInv(t)'
    BY <1>1, <1>2 DEF TypeOK, IInv
  <2>2. call'[t].count \in Counts
    BY <2>1 DEF ThreadInv, ShapeInv
  <2> QED  BY <2>2, ElementIs DEF Input
<1>6. Left' = [Left EXCEPT ![t] = input]
  <2>1. \A u \in Threads \ {t} :
           {e \in Input(u) : visits[u][e] = 0}' = {e \in Input(u) : visits[u][e] = 0}
    BY <1>4, LeftKept
  <2> QED  BY <2>1 DEF Left
<1>7. Promise!Start(t)
  BY <1>3, <1>5, <1>6 DEF Promise!Start
<1> QED  BY <1>7 DEF Promise!Next

\* A visit takes what it visits from what is left.
LEMMA VisitedImplements ==
    ASSUME IInv, NEW t \in Threads, pc[t] # "idle", NEW elements, Visited(t, elements),
           call' = call, \A u \in Threads : pc'[u] # "idle" <=> pc[u] # "idle"
    PROVE  Promise!Next
<1>1. TypeOK
  BY DEF IInv
<1>2. /\ visits' \in [Threads -> [Element -> Nat]]
      /\ \A e \in Element : visits'[t][e] = visits[t][e] + (IF e \in elements THEN 1 ELSE 0)
      /\ \A u \in Threads \ {t} : visits'[u] = visits[u]
  BY <1>1, VisitedIs
<1>3. Input(t) \subseteq Element /\ visits[t] \in [Element -> Nat]
  BY <1>1, LeftIsElements, ThreadTypes
<1> DEFINE left == {e \in Input(t) : visits[t][e] = 0}
           part == left \cap elements
<1>4. {e \in Input(t) : visits[t][e] = 0}' = left \ part
  <2>1. Input(t)' = Input(t)
    BY DEF Input
  <2>2. \A e \in Input(t) : visits'[t][e] = 0 <=> visits[t][e] = 0 /\ e \notin elements
    <3> SUFFICES ASSUME NEW e \in Input(t)
                 PROVE  visits'[t][e] = 0 <=> visits[t][e] = 0 /\ e \notin elements
      OBVIOUS
    <3>1. e \in Element /\ visits[t][e] \in Nat
      BY <1>3
    <3> QED  BY <1>2, <3>1
  <2> QED  BY <2>1, <2>2
<1>5. Left' = [Left EXCEPT ![t] = @ \ part]
  <2>1. \A u \in Threads \ {t} :
           {e \in Input(u) : visits[u][e] = 0}' = {e \in Input(u) : visits[u][e] = 0}
    BY <1>2, LeftKept
  <2> QED  BY <1>4, <2>1 DEF Left
<1>6. Busy' = Busy /\ Busy[t]
  BY DEF Busy
<1>7. part \in SUBSET Left[t]
  BY DEF Left
<1>8. Promise!Visit(t)
  BY <1>5, <1>6, <1>7 DEF Promise!Visit
<1> QED  BY <1>8 DEF Promise!Next

LEMMA StepImplements ==
    ASSUME ~MayThrow
    PROVE  IInv /\ IInv' /\ [Next]_vars => [Promise!Next]_(Promise!vars)
<1> SUFFICES ASSUME IInv, IInv', [Next]_vars
             PROVE  Promise!Next \/ UNCHANGED Promise!vars
  OBVIOUS
<1>1. TypeOK /\ pc \in [Threads -> Labels]
  BY DEF IInv, TypeOK
<1>2. ASSUME NEW t \in Threads, ParallelChunks(t) PROVE Promise!Next
  <2>1. pc[t] = "idle"
    BY <1>2 DEF ParallelChunks, MayCall
  <2>2. \E arguments, label, blocks : label # "idle" /\ Entered(t, arguments, label, blocks)
    <3>1. PICK kind \in Kinds \ {"parallel_for"}, count \in Counts, min \in MinChunkSizes,
               chunks \in ChunkCounts :
             LET arguments == [kind |-> kind, count |-> count, min |-> min, chunks |-> chunks]
             IN  \/ count = 0 /\ Entered(t, arguments, "returned", <<>>)
                 \/ /\ count # 0 /\ ~Parallelize(count, min, chunks)
                    /\ Entered(t, arguments, "serial", Whole(count))
                 \/ /\ count # 0 /\ Parallelize(count, min, chunks)
                    /\ Entered(t, arguments, "push", Blocks(count, Effective(chunks)))
      BY <1>2 DEF ParallelChunks
    <3>2. "returned" # "idle" /\ "serial" # "idle" /\ "push" # "idle"
      OBVIOUS
    <3> QED  BY <3>1, <3>2, Zenon
  <2> QED  BY <2>1, <2>2, EnteredImplements
<1>3. ASSUME NEW t \in Threads, ParallelFor(t) PROVE Promise!Next
  <2>1. pc[t] = "idle"
    BY <1>3 DEF ParallelFor, MayCall
  <2>2. PICK count \in Counts :
           Entered(t, [kind |-> "parallel_for", count |-> count, min |-> 0, chunks |-> 0],
                   IF count = 0 THEN "returned"
                   ELSE IF count = 1 THEN "serial" ELSE "push", Indexes(count))
    BY <1>3 DEF ParallelFor
  <2> DEFINE arguments == [kind |-> "parallel_for", count |-> count, min |-> 0, chunks |-> 0]
             label == IF count = 0 THEN "returned" ELSE IF count = 1 THEN "serial" ELSE "push"
             blocks == Indexes(count)
  <2>3. label # "idle" /\ Entered(t, arguments, label, blocks)
    BY <2>2
  <2> HIDE DEF arguments, label, blocks
  <2> QED  BY <2>1, <2>3, EnteredImplements
<1>4. ASSUME NEW t \in Threads, Serial(t) PROVE Promise!Next
  <2> PICK elements : elements = Touched(call[t].kind, spans[t][1])
    OBVIOUS
  <2>1. pc[t] # "idle" /\ call' = call /\ Visited(t, elements)
        /\ pc' = [pc EXCEPT ![t] = "returned"]
    BY <1>4 DEF Serial, Goto
  <2>2. \A u \in Threads : pc'[u] # "idle" <=> pc[u] # "idle"
    BY <1>1, <2>1
  <2> QED  BY <2>1, <2>2, VisitedImplements
<1>5. ASSUME NEW t \in Threads, NEW label, label # "idle", pc[t] # "idle", Goto(t, label),
             call' = call, visits' = visits
      PROVE  UNCHANGED Promise!vars
  <2>1. \A u \in Threads : pc'[u] # "idle" <=> pc[u] # "idle"
    BY <1>1, <1>5 DEF Goto
  <2> QED  BY <1>5, <2>1, StutterImplements
<1>6. ASSUME NEW t \in Threads, PushBlock(t) PROVE UNCHANGED Promise!vars
  <2> DEFINE label == IF IsLast(t) THEN BlocksIn(t) ELSE "push"
  <2>1. label # "idle" /\ pc[t] # "idle" /\ Goto(t, label) /\ call' = call /\ visits' = visits
    BY <1>6 DEF PushBlock, BlocksIn
  <2> HIDE DEF label
  <2> QED  BY <1>5, <2>1
<1>7. ASSUME NEW t \in Threads, WaitReturns(t) \/ GetReturns(t) PROVE UNCHANGED Promise!vars
  <2>1. pc[t] # "idle" /\ call' = call /\ visits' = visits
        /\ (Goto(t, "returned") \/ Goto(t, "fold"))
    BY <1>7 DEF WaitReturns, GetReturns
  <2> QED  BY <1>5, <2>1
<1>8. ASSUME NEW t \in Threads, FoldPartial(t) PROVE UNCHANGED Promise!vars
  <2> DEFINE label == IF folded[t] + 1 = Len(spans[t]) THEN "returned" ELSE "fold"
  <2>1. label # "idle" /\ pc[t] # "idle" /\ Goto(t, label) /\ call' = call /\ visits' = visits
    BY <1>8 DEF FoldPartial
  <2> HIDE DEF label
  <2> QED  BY <1>5, <2>1
<1>9. ASSUME NEW t \in Threads, SerialThrows(t) \/ FoldThrows(t) \/ GetThrows(t) PROVE FALSE
  BY <1>9 DEF SerialThrows, FoldThrows, GetThrows, IInv, ThreadInv, ThrowInv
<1>10. ASSUME NEW t \in Threads, Resume(t) PROVE Promise!Next
  <2>1. /\ ThreadInv(t) /\ pc[t] \in {"returned", "raised"} /\ pc' = [pc EXCEPT ![t] = "idle"]
        /\ call' = [call EXCEPT ![t] = NoCall]
        /\ visits' = [visits EXCEPT ![t] = [e \in Element |-> 0]]
    BY <1>10 DEF Resume, Goto, IInv
  <2>2. pc[t] = "returned" /\ \A i \in DOMAIN outcome[t] : outcome[t][i] # "thrown"
    BY <2>1 DEF ThreadInv, ThrowInv
  <2>3. \A e \in Element : visits[t][e] = (IF e \in Input(t) THEN 1 ELSE 0)
    BY <2>1, <2>2 DEF ThreadInv, ReturnInv
  <2>4. Left[t] = {}
    BY <2>3, LeftIsElements DEF Left
  <2>5. Busy[t] /\ Busy' = [Busy EXCEPT ![t] = FALSE]
    BY <1>1, <2>1 DEF Busy
  <2>6. Left' = Left
    <3>1. {e \in Input(t) : visits[t][e] = 0}' = {}
      <4>1. call'[t].count = 0
        BY <1>1, <2>1 DEF TypeOK, NoCall
      <4> QED  BY <4>1 DEF Input
    <3>2. \A u \in Threads \ {t} : call'[u] = call[u] /\ visits'[u] = visits[u]
      BY <1>1, <2>1 DEF TypeOK
    <3>3. \A u \in Threads \ {t} :
             {e \in Input(u) : visits[u][e] = 0}' = {e \in Input(u) : visits[u][e] = 0}
      BY <3>2, LeftKept
    <3> QED  BY <2>4, <3>1, <3>3 DEF Left
  <2>7. Promise!Return(t)
    BY <2>4, <2>5, <2>6 DEF Promise!Return
  <2> QED  BY <2>7 DEF Promise!Next
<1>11. ASSUME NEW w \in Workers, Take(w) PROVE UNCHANGED Promise!vars
  <2>1. call' = call /\ visits' = visits /\ pc' = pc
    BY <1>11 DEF Take
  <2> QED  BY <2>1, StutterImplements
<1>12. ASSUME NEW w \in Workers, FinishBlock(w) PROVE Promise!Next
  <2> PICK task : task = running[w]
    OBVIOUS
  <2>1. task \in Task /\ TaskInv(task) /\ task.live
    BY <1>12 DEF FinishBlock, IInv, TypeOK, TasksInv, SpansAreReal
  <2> PICK elements : elements = Touched(call[task.by].kind, spans[task.by][task.block])
    OBVIOUS
  <2>2. task.by \in Threads /\ pc[task.by] # "idle"
    BY <2>1 DEF Task, TaskInv, Open
  <2>3. Visited(task.by, elements) /\ call' = call /\ pc' = pc
    BY <1>12, <2>1 DEF FinishBlock
  <2> QED  BY <2>2, <2>3, VisitedImplements
<1>13. ASSUME NEW w \in Workers, ThrowBlock(w) PROVE FALSE
  BY <1>13 DEF ThrowBlock
<1>14. CASE UNCHANGED vars
  <2>1. call' = call /\ visits' = visits /\ pc' = pc
    BY <1>14 DEF vars
  <2> QED  BY <2>1, StutterImplements
<1> QED
  BY <1>2, <1>3, <1>4, <1>6, <1>7, <1>8, <1>9, <1>10, <1>11, <1>12, <1>13, <1>14
  DEF Next, Calling, Inside, Working

LEMMA InitImplements == Init => Promise!Init
<1> SUFFICES ASSUME Init PROVE Promise!Init
  OBVIOUS
<1>1. \A t \in Threads : pc[t] = "idle" /\ call[t].count = 0
  BY DEF Init, NoCall
<1>2. \A t \in Threads : Input(t) = {}
  BY <1>1 DEF Input
<1> QED  BY <1>1, <1>2 DEF Promise!Init, Busy, Left

\* Without callbacks that throw, a call is over when, and only when, every
\* element of its input was visited, and nothing of it runs after that.
THEOREM CallsFanOut ==
    ASSUME ~MayThrow
    PROVE  Spec => ImplementsFanOut
<1>1. IInv /\ IInv' /\ [Next]_vars => [Promise!Next]_(Promise!vars)
  BY StepImplements
<1> QED  BY <1>1, SpecIInv, InitImplements, PTL DEF Spec, ImplementsFanOut, Promise!Spec

=============================================================================
