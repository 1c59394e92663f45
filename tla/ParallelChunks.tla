--------------------------- MODULE ParallelChunks ---------------------------
(***************************************************************************)
(* parallel_for and parallel_chunks_for_each, _transform and _reduce:      *)
(* calls from several threads over the one pool of the process.            *)
(*                                                                         *)
(* A call cuts its input into spans, queues a task per span, and blocks:   *)
(* for_each, transform and parallel_for until the pool is idle, reduce     *)
(* until its futures are ready, of which it takes the results in order.    *)
(* The pool (BS::light_thread_pool) is external: a FIFO of tasks, workers  *)
(* that take one at a time, wait() that returns once no task is queued or  *)
(* running, and futures that carry a value or an exception.                *)
(*                                                                         *)
(* The tasks hold references to the caller's frame; a task whose call has  *)
(* ended is not live.  Definitions named X_Y are plausible errors in X,    *)
(* for the mutation runs.                                                  *)
(***************************************************************************)
EXTENDS Integers, Sequences, FiniteSets

CONSTANTS
    Callers,          \* threads outside the pool
    Workers,          \* the threads of the pool
    Nobody,           \* a worker without a task
    SizeMax,          \* the largest size_t
    Counts,           \* sizes of inputs
    MinChunkSizes,    \* values of min_chunk_size
    ChunkCounts,      \* values of chunk_count
    Kinds,            \* the functions called
    MayThrow,         \* may callbacks throw?
    MayNest           \* may callbacks call these functions?

AllKinds == {"for_each", "transform", "reduce", "parallel_for"}

Threads == Callers \cup Workers
Element == {e \in 0 .. SizeMax : \E n \in Counts : e < n}
Task == [by : Threads, block : {e + 1 : e \in Element}, live : BOOLEAN]

\* A pool has a thread at least.
ASSUME ParallelChunksAssumption ==
    /\ IsFiniteSet(Workers) /\ Workers # {}
    /\ Nobody \notin Task
    /\ SizeMax \in Nat
    /\ Counts \subseteq 0 .. SizeMax
    /\ MinChunkSizes \subseteq 0 .. SizeMax
    /\ ChunkCounts \subseteq 0 .. SizeMax
    /\ Kinds \subseteq AllKinds
    /\ MayThrow \in BOOLEAN /\ MayNest \in BOOLEAN

VARIABLES
    queue,      \* the tasks of the pool, oldest first
    running,    \* the task each worker runs
    pc,         \* where each thread is in its call
    call,       \* the arguments of the call
    spans,      \* its blocks, in order
    pushed,     \* how many of them are queued
    outcome,    \* of each block: pending, value or thrown
    visits,     \* how often each element was visited
    folded,     \* of reduce: how many partials it combined
    result      \* and acc: the elements they stand for, in order

vars == <<queue, running, pc, call, spans, pushed, outcome, visits, folded, result>>

Labels == {"idle", "serial", "push", "wait", "get", "fold", "returned", "raised"}

Span == [start : Element, end : {e + 1 : e \in Element}]
Call == [kind : AllKinds, count : 0 .. SizeMax, min : 0 .. SizeMax,
         chunks : 0 .. SizeMax]

TypeOK ==
    /\ queue \in Seq(Task)
    /\ running \in [Workers -> Task \cup {Nobody}]
    /\ pc \in [Threads -> Labels]
    /\ call \in [Threads -> Call]
    /\ spans \in [Threads -> Seq(Span)]
    /\ pushed \in [Threads -> Nat]
    /\ outcome \in [Threads -> Seq({"pending", "value", "thrown"})]
    /\ visits \in [Threads -> [Element -> Nat]]
    /\ folded \in [Threads -> Nat]
    /\ result \in [Threads -> Seq(Int)]

NoCall == [kind |-> "for_each", count |-> 0, min |-> 0, chunks |-> 0]

\* reduce's T is a sequence here and combine a concatenation, the least
\* forgiving choice: it tells order, repetition and loss apart.
InitialValue == <<-1>>

Init ==
    /\ queue = <<>>
    /\ running = [w \in Workers |-> Nobody]
    /\ pc = [t \in Threads |-> "idle"]
    /\ call = [t \in Threads |-> NoCall]
    /\ spans = [t \in Threads |-> <<>>]
    /\ pushed = [t \in Threads |-> 0]
    /\ outcome = [t \in Threads |-> <<>>]
    /\ visits = [t \in Threads |-> [e \in Element |-> 0]]
    /\ folded = [t \in Threads |-> 0]
    /\ result = [t \in Threads |-> <<>>]

-----------------------------------------------------------------------------
(* The pure parts. *)

Effective(chunks) == IF chunks = 0 THEN Cardinality(Workers) ELSE chunks

\* chunk_dispatch_plan: the product is a size_t.
Parallelize(count, min, chunks) ==
    ~(min > 0 /\ count < (min * Effective(chunks)) % (SizeMax + 1))

\* The pool's block splitting (external): at most count blocks, none empty,
\* the first ones longer by one when count is not a multiple.
Blocks(count, wanted) ==
    LET n        == IF wanted < count THEN wanted ELSE count
        end(i)   == i * (count \div n) + (IF i < count % n THEN i ELSE count % n)
    IN  [i \in 1 .. n |-> [start |-> end(i - 1), end |-> end(i)]]

\* parallel_for queues a task per index.
Indexes(count) == [i \in 1 .. count |-> [start |-> i - 1, end |-> i]]

Touched_NoOffset(kind, span) ==
    IF kind = "transform" THEN 0 .. (span.end - span.start - 1)
    ELSE span.start .. (span.end - 1)

\* The elements a block changes: of the input, or for transform of the
\* output, at output + start.
Touched(kind, span) == span.start .. (span.end - 1)

\* f on a span: its elements, in order.
Partial(span) == [i \in 1 .. (span.end - span.start) |-> span.start + i - 1]

Combine(acc, partial) == acc \o partial

-----------------------------------------------------------------------------
Goto(t, label) == pc' = [pc EXCEPT ![t] = label]

Whole(count) == <<[start |-> 0, end |-> count]>>

Entered(t, arguments, label, blocks) ==
    /\ Goto(t, label)
    /\ call' = [call EXCEPT ![t] = arguments]
    /\ spans' = [spans EXCEPT ![t] = blocks]
    /\ outcome' = [outcome EXCEPT ![t] = [i \in DOMAIN blocks |-> "pending"]]
    /\ result' = [result EXCEPT ![t] = InitialValue]
    /\ UNCHANGED <<queue, running, pushed, visits, folded>>

\* A thread outside the pool calls, or a callback that a worker runs.
MayCall(t) ==
    /\ pc[t] = "idle"
    /\ \/ t \in Callers
       \/ t \in Workers /\ MayNest /\ running[t] # Nobody
             /\ running[t].by \in Callers

(***************************************************************************)
(* parallel_chunks_for_each, _transform and _reduce, up to the first task. *)
(* An empty input ends the call: f and combine are not called.             *)
(***************************************************************************)
ParallelChunks(t) ==
    /\ MayCall(t)
    /\ \E kind \in Kinds \ {"parallel_for"}, count \in Counts,
          min \in MinChunkSizes, chunks \in ChunkCounts :
         LET arguments == [kind |-> kind, count |-> count, min |-> min,
                           chunks |-> chunks]
         IN  \/ count = 0 /\ Entered(t, arguments, "returned", <<>>)
             \/ /\ count # 0 /\ ~Parallelize(count, min, chunks)
                /\ Entered(t, arguments, "serial", Whole(count))
             \/ /\ count # 0 /\ Parallelize(count, min, chunks)
                /\ Entered(t, arguments, "push",
                           Blocks(count, Effective(chunks)))

\* parallel_for: an input of one is visited inline.
ParallelFor(t) ==
    /\ MayCall(t)
    /\ "parallel_for" \in Kinds
    /\ \E count \in Counts :
         Entered(t, [kind |-> "parallel_for", count |-> count, min |-> 0, chunks |-> 0],
                 IF count = 0 THEN "returned"
                 ELSE IF count = 1 THEN "serial" ELSE "push",
                 Indexes(count))

Visited(t, elements) ==
    visits' = [visits EXCEPT ![t] =
                  [e \in Element |-> @[e] + (IF e \in elements THEN 1 ELSE 0)]]

\* Below the threshold: one call of f, on the caller's thread, on it all.
Serial(t) ==
    /\ pc[t] = "serial"
    /\ Goto(t, "returned")
    /\ Visited(t, Touched(call[t].kind, spans[t][1]))
    /\ result' = [result EXCEPT ![t] =
                     Combine(InitialValue, Partial(spans[t][1]))]
    /\ UNCHANGED <<queue, running, call, spans, pushed, outcome, folded>>

SerialThrows(t) ==
    /\ MayThrow /\ pc[t] = "serial"
    /\ Goto(t, "raised")
    /\ UNCHANGED <<queue, running, call, spans, pushed, outcome, visits, folded, result>>

IsLast(t) == pushed[t] + 1 = Len(spans[t])

BlocksIn_Returned(t) == IF call[t].kind = "reduce" THEN "get" ELSE "returned"

\* How the call waits for its tasks: for its futures, or for the pool.
BlocksIn(t) == IF call[t].kind = "reduce" THEN "get" ELSE "wait"

\* detach_blocks, detach_sequence and submit_blocks queue task by task.
PushBlock(t) ==
    /\ pc[t] = "push"
    /\ queue' = Append(queue, [by |-> t, block |-> pushed[t] + 1, live |-> TRUE])
    /\ pushed' = [pushed EXCEPT ![t] = @ + 1]
    /\ Goto(t, IF IsLast(t) THEN BlocksIn(t) ELSE "push")
    /\ UNCHANGED <<running, call, spans, outcome, visits, folded, result>>

\* pool().wait(), for every task of the pool.
WaitReturns(t) ==
    /\ pc[t] = "wait"
    /\ queue = <<>>
    /\ \A w \in Workers : running[w] = Nobody
    /\ Goto(t, "returned")
    /\ UNCHANGED <<queue, running, call, spans, pushed, outcome, visits, folded, result>>

Answered_Thrown(t) == \A i \in DOMAIN outcome[t] : outcome[t][i] # "pending"
Answered(t) == \A i \in DOMAIN outcome[t] : outcome[t][i] = "value"

\* get() has the partials, in the order of the blocks.
GetReturns(t) ==
    /\ pc[t] = "get" /\ Answered(t)
    /\ Goto(t, "fold")
    /\ UNCHANGED <<queue, running, call, spans, pushed, outcome, visits, folded, result>>

GetThrows_Retries(t) ==
    /\ pc[t] = "get"
    /\ ~Answered(t) /\ \A i \in DOMAIN outcome[t] : outcome[t][i] # "pending"
    /\ Goto(t, "push")
    /\ pushed' = [pushed EXCEPT ![t] = 0]
    /\ outcome' = [outcome EXCEPT ![t] = [i \in DOMAIN @ |-> "pending"]]
    /\ UNCHANGED <<queue, running, call, spans, visits, folded, result>>

\* get() rethrows at the first future that holds an exception, whatever the
\* other tasks are doing.
GetThrows(t) ==
    /\ pc[t] = "get"
    /\ \E i \in DOMAIN outcome[t] :
         /\ outcome[t][i] = "thrown"
         /\ \A j \in 1 .. (i - 1) : outcome[t][j] = "value"
    /\ Goto(t, "raised")
    /\ UNCHANGED <<queue, running, call, spans, pushed, outcome, visits, folded, result>>

NextPartial_FromBack(t) == Partial(spans[t][Len(spans[t]) - folded[t]])
NextPartial(t) == Partial(spans[t][folded[t] + 1])

\* for (auto& partial : partials) acc = combine(acc, partial)
FoldPartial(t) ==
    /\ pc[t] = "fold"
    /\ result' = [result EXCEPT ![t] = Combine(@, NextPartial(t))]
    /\ folded' = [folded EXCEPT ![t] = @ + 1]
    /\ Goto(t, IF folded[t] + 1 = Len(spans[t]) THEN "returned" ELSE "fold")
    /\ UNCHANGED <<queue, running, call, spans, pushed, outcome, visits>>

FoldThrows(t) ==
    /\ MayThrow /\ pc[t] = "fold"
    /\ Goto(t, "raised")
    /\ UNCHANGED <<queue, running, call, spans, pushed, outcome, visits, folded, result>>

Orphan(task, t) ==
    IF task # Nobody /\ task.by = t THEN [task EXCEPT !.live = FALSE] ELSE task

\* The call is over: its frame is gone, and what tasks of it refer to.
Resume(t) ==
    /\ pc[t] \in {"returned", "raised"}
    /\ Goto(t, "idle")
    /\ queue' = [i \in DOMAIN queue |-> Orphan(queue[i], t)]
    /\ running' = [w \in Workers |-> Orphan(running[w], t)]
    /\ call' = [call EXCEPT ![t] = NoCall]
    /\ spans' = [spans EXCEPT ![t] = <<>>]
    /\ pushed' = [pushed EXCEPT ![t] = 0]
    /\ outcome' = [outcome EXCEPT ![t] = <<>>]
    /\ visits' = [visits EXCEPT ![t] = [e \in Element |-> 0]]
    /\ folded' = [folded EXCEPT ![t] = 0]
    /\ result' = [result EXCEPT ![t] = <<>>]

-----------------------------------------------------------------------------
(* The workers (external), running the callbacks. *)

Take(w) ==
    /\ running[w] = Nobody /\ queue # <<>>
    /\ running' = [running EXCEPT ![w] = Head(queue)]
    /\ queue' = Tail(queue)
    /\ UNCHANGED <<pc, call, spans, pushed, outcome, visits, folded, result>>

\* The callback returned; the calls it made are over.
FinishBlock(w) ==
    LET task == running[w]
    IN  /\ task # Nobody /\ pc[w] = "idle"
        /\ IF task.live
           THEN /\ Visited(task.by, Touched(call[task.by].kind,
                                            spans[task.by][task.block]))
                /\ outcome' = [outcome EXCEPT ![task.by][task.block] = "value"]
           ELSE UNCHANGED <<visits, outcome>>
        /\ running' = [running EXCEPT ![w] = Nobody]
        /\ UNCHANGED <<queue, pc, call, spans, pushed, folded, result>>

\* It threw: into the future of reduce; otherwise nobody will know.
ThrowBlock(w) ==
    LET task == running[w]
    IN  /\ MayThrow
        /\ task # Nobody /\ pc[w] = "idle"
        /\ IF task.live
           THEN outcome' = [outcome EXCEPT ![task.by][task.block] = "thrown"]
           ELSE UNCHANGED outcome
        /\ running' = [running EXCEPT ![w] = Nobody]
        /\ UNCHANGED <<queue, pc, call, spans, pushed, visits, folded, result>>

-----------------------------------------------------------------------------
Calling(t) == ParallelChunks(t) \/ ParallelFor(t)

Inside(t) ==
    \/ Serial(t) \/ SerialThrows(t) \/ PushBlock(t) \/ WaitReturns(t)
    \/ GetReturns(t) \/ GetThrows(t) \/ FoldPartial(t) \/ FoldThrows(t) \/ Resume(t)

Working(w) == Take(w) \/ FinishBlock(w) \/ ThrowBlock(w)

Next ==
    \/ \E t \in Threads : Calling(t) \/ Inside(t)
    \/ \E w \in Workers : Working(w)

Spec == Init /\ [][Next]_vars

\* Threads are scheduled, and callbacks end.
FairSpec ==
    /\ Spec
    /\ \A t \in Threads : WF_vars(Inside(t))
    /\ \A w \in Workers : WF_vars(Working(w))

-----------------------------------------------------------------------------
(* Safety *)

Input(t) == 0 .. (call[t].count - 1)

Queued(t) == {i \in DOMAIN queue : queue[i].live /\ queue[i].by = t}
RunningOf(t) ==
    {w \in Workers : running[w] # Nobody /\ running[w].live /\ running[w].by = t}

\* Between the first task and the last answer, each element is visited, or in
\* a task that is queued or running, or not queued yet: once, in one of them.
EachElementOnce ==
    \A t \in Threads : pc[t] \in {"push", "wait", "get", "fold"} =>
        \A e \in Input(t) :
            LET has(i) == e \in Touched(call[t].kind, spans[t][i])
            IN  visits[t][e]
                  + Cardinality({i \in Queued(t) : has(queue[i].block)})
                  + Cardinality({w \in RunningOf(t) : has(running[w].block)})
                  + Cardinality({i \in (pushed[t] + 1) .. Len(spans[t]) : has(i)})
                  + Cardinality({i \in DOMAIN outcome[t] :
                                    outcome[t][i] = "thrown" /\ has(i)})
                = 1

\* "calls f(index) exactly once for every index": once the call returned,
\* each element of the input was visited, once.  Of the functions that wait
\* for the pool this is said when no callback threw: they cannot know.
ReturnedVisitedAll ==
    \A t \in Threads :
        /\ pc[t] = "returned"
        /\ \/ call[t].kind = "reduce"
           \/ \A i \in DOMAIN outcome[t] : outcome[t][i] # "thrown"
        => \A e \in Element : visits[t][e] = (IF e \in Input(t) THEN 1 ELSE 0)

\* reduce folds the partials in the order of the input, from init, however
\* the workers interleave; empty input gives init.
ReduceInOrder ==
    \A t \in Threads : pc[t] = "returned" /\ call[t].kind = "reduce" =>
        result[t] = Combine(InitialValue, Partial([start |-> 0, end |-> call[t].count]))

\* "a span over that chunk's real elements": no callback is queued or running
\* for a call that has ended.
SpansAreReal ==
    /\ \A i \in DOMAIN queue : queue[i].live
    /\ \A w \in Workers : running[w] # Nobody => running[w].live

\* "if count < min_chunk_size * effective_chunk_count, the pool is skipped
\* entirely [...]; otherwise, the work is split across the pool".
ThresholdDecides ==
    \A t \in Threads : call[t].kind # "parallel_for" =>
        LET below == call[t].count < call[t].min * Effective(call[t].chunks)
        IN  /\ pc[t] = "push" => ~below
            /\ pc[t] = "serial" => below

\* Whatever throws, no element is lost or visited twice on the way from the
\* call to its return, and only inputs of the right size go to the pool.
CallInv == TypeOK /\ EachElementOnce /\ ReturnedVisitedAll /\ ThresholdDecides

-----------------------------------------------------------------------------
\* The calls implement FanOut, when callbacks do not throw.
Busy == [t \in Threads |-> pc[t] # "idle"]
Left == [t \in Threads |-> {e \in Input(t) : visits[t][e] = 0}]

Promise == INSTANCE FanOut WITH busy <- Busy, left <- Left

ImplementsFanOut == Promise!Spec

-----------------------------------------------------------------------------
(* Liveness *)

CallsStop == <>[][~\E t \in Threads : Calling(t)]_vars

\* "blocking until all of them complete": every call returns or throws, once
\* threads stop making new calls.
CallsReturn ==
    CallsStop => \A t \in Threads : pc[t] # "idle" ~> pc[t] = "idle"

=============================================================================
