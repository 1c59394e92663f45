------------------------------ MODULE OuterLock -----------------------------
(***************************************************************************)
(* The locks around remote_buffer::ensure when its callers hold an outer   *)
(* lock, as Python's threads hold the GIL: p_mutex and the outer lock,     *)
(* acquired and released one at a time.  RemoteBuffer has the pages; one   *)
(* page is enough here.                                                    *)
(*                                                                         *)
(* The outer lock is external: a thread that runs Python code holds it and *)
(* may give it away; a Python reader holds it while it reads, and may give *)
(* it away meanwhile; its blocking_wait(f) releases it, calls f, and takes *)
(* it back.                                                                *)
(*                                                                         *)
(* Definitions named X_Y are plausible errors in X, for the mutation runs. *)
(***************************************************************************)
EXTENDS Naturals

CONSTANTS
    Threads,
    None,       \* nobody holds the lock
    MaxCalls    \* bound: calls of ensure or check_present per thread

ASSUME OuterLockAssumption ==
    /\ None \notin Threads
    /\ MaxCalls \in Nat

VARIABLES
    page,       \* p_pages of the one page
    mutex,      \* the thread that holds p_mutex
    outer,      \* the thread that holds the outer lock
    calls,      \* calls each thread made
    pc

vars == <<page, mutex, outer, calls, pc>>

Labels == {"off", "python", "plan_lock", "plan", "read", "publish_lock",
           "failed_lock", "publish", "failed", "notify", "wait", "f_lock",
           "f_check", "blocked", "reacquire", "answer", "check_lock", "check"}

Caller == {"off", "python"}

TypeOK ==
    /\ page \in {"absent", "in_flight", "present"}
    /\ mutex \in Threads \cup {None}
    /\ outer \in Threads \cup {None}
    /\ calls \in [Threads -> 0 .. MaxCalls]
    /\ pc \in [Threads -> Labels]

Init ==
    /\ page = "absent"
    /\ mutex = None
    /\ outer = None
    /\ calls = [t \in Threads |-> 0]
    /\ pc = [t \in Threads |-> "off"]

Step(t, from, to) == pc[t] = from /\ pc' = [pc EXCEPT ![t] = to]

Lock(t)    == mutex = None /\ mutex' = t
Unlock(t)  == mutex' = None
TakeOuter(t) == outer = None /\ outer' = t
DropOuter(t) == outer = t /\ outer' = None

-----------------------------------------------------------------------------
(* The caller: Python code, external. *)

Resume(t) ==
    /\ calls[t] < MaxCalls
    /\ Step(t, "off", "python") /\ TakeOuter(t)
    /\ UNCHANGED <<page, mutex, calls>>

Yield(t) ==
    /\ Step(t, "python", "off") /\ DropOuter(t)
    /\ UNCHANGED <<page, mutex, calls>>

Call(t) ==
    /\ calls[t] < MaxCalls
    /\ \/ Step(t, "python", "plan_lock")
       \/ Step(t, "python", "check_lock")
    /\ calls' = [calls EXCEPT ![t] = @ + 1]
    /\ UNCHANGED <<page, mutex, outer>>

-----------------------------------------------------------------------------
(* ensure and check_present, one lock operation at a time. *)

LockMutex(t) ==
    /\ \/ Step(t, "plan_lock", "plan")
       \/ Step(t, "publish_lock", "publish")
       \/ Step(t, "failed_lock", "failed")
       \/ Step(t, "f_lock", "f_check")
       \/ Step(t, "check_lock", "check")
    /\ Lock(t)
    /\ UNCHANGED <<page, outer, calls>>

\* plan, and what ensure does with its result: fetch, wait or return.
Plan(t) ==
    /\ \/ page = "absent"    /\ Step(t, "plan", "read")   /\ page' = "in_flight"
       \/ page = "in_flight" /\ Step(t, "plan", "wait")   /\ page' = page
       \/ page = "present"   /\ Step(t, "plan", "python") /\ page' = page
    /\ Unlock(t)
    /\ UNCHANGED <<outer, calls>>

\* check_present, whether it throws or not.
Check(t) ==
    /\ Step(t, "check", "python") /\ Unlock(t)
    /\ UNCHANGED <<page, outer, calls>>

Publish(t) ==
    /\ \/ Step(t, "publish", "notify") /\ page' = "present"
       \/ Step(t, "failed", "notify")  /\ page' = "absent"
    /\ Unlock(t)
    /\ UNCHANGED <<outer, calls>>

\* notify_all; then ensure returns, or throws what the reader threw.
Notify(t) ==
    /\ pc[t] = "notify"
    /\ pc' = [u \in Threads |-> IF u = t THEN "python"
                                ELSE IF pc[u] = "blocked" THEN "f_lock"
                                ELSE pc[u]]
    /\ UNCHANGED <<page, mutex, outer, calls>>

-----------------------------------------------------------------------------
(* The reader, external: it needs the outer lock to make progress. *)

ReaderYields(t) ==
    /\ pc[t] = "read" /\ DropOuter(t)
    /\ UNCHANGED <<page, mutex, calls, pc>>

ReaderResumes(t) ==
    /\ pc[t] = "read" /\ TakeOuter(t)
    /\ UNCHANGED <<page, mutex, calls, pc>>

ReaderEnds(t) ==
    /\ outer = t
    /\ \/ Step(t, "read", "publish_lock")
       \/ Step(t, "read", "failed_lock")
    /\ UNCHANGED <<page, mutex, outer, calls>>

-----------------------------------------------------------------------------
(* wait_for, through the reader's blocking_wait. *)

BlockingWait_Plain(t) ==
    /\ Step(t, "wait", "f_lock")
    /\ UNCHANGED <<page, mutex, outer, calls>>

\* blocking_wait releases the outer lock, then calls f, which locks p_mutex.
BlockingWait(t) ==
    /\ Step(t, "wait", "f_lock") /\ DropOuter(t)
    /\ UNCHANGED <<page, mutex, calls>>

Predicate_IgnoresFetch(t) ==
    /\ \/ page # "present" /\ Step(t, "f_check", "blocked") /\ Unlock(t)
       \/ page = "present" /\ Step(t, "f_check", "reacquire") /\ mutex' = mutex
    /\ UNCHANGED <<page, outer, calls>>

\* The condition variable: block, releasing p_mutex, while the page is in
\* flight; otherwise f returns, and the unique_lock outlives it.
Predicate(t) ==
    /\ \/ page = "in_flight" /\ Step(t, "f_check", "blocked") /\ Unlock(t)
       \/ page # "in_flight" /\ Step(t, "f_check", "reacquire") /\ mutex' = mutex
    /\ UNCHANGED <<page, outer, calls>>

\* blocking_wait takes the outer lock back before it returns.
Reacquire(t) ==
    /\ Step(t, "reacquire", "answer") /\ TakeOuter(t)
    /\ UNCHANGED <<page, mutex, calls>>

\* all_of, then the unique_lock is destroyed; ensure returns or plans again.
Answer(t) ==
    /\ \/ page = "present" /\ Step(t, "answer", "python")
       \/ page # "present" /\ Step(t, "answer", "plan_lock")
    /\ Unlock(t)
    /\ UNCHANGED <<page, outer, calls>>

-----------------------------------------------------------------------------
Inside(t) ==
    \/ LockMutex(t) \/ Plan(t) \/ Check(t) \/ Publish(t) \/ Notify(t)
    \/ BlockingWait(t) \/ Predicate(t) \/ Reacquire(t) \/ Answer(t)
    \/ ReaderResumes(t)

Done ==
    /\ \A t \in Threads : calls[t] = MaxCalls /\ pc[t] = "off"
    /\ UNCHANGED vars

Next ==
    \/ \E t \in Threads :
          \/ Inside(t) \/ ReaderYields(t) \/ ReaderEnds(t)
          \/ Resume(t) \/ Yield(t) \/ Call(t)
    \/ Done

(***************************************************************************)
(* Calls are bounded, so p_mutex is contended finitely often and weak      *)
(* fairness grants it.  The outer lock may change hands for ever between   *)
(* Python threads; like the interpreter it is handed to each that waits.   *)
(* A reader may give it away many times, but ends; so does Python code.    *)
(***************************************************************************)
Fairness ==
    \A t \in Threads : /\ WF_vars(Inside(t))
                       /\ SF_vars(ReaderResumes(t) \/ Reacquire(t))
                       /\ SF_vars(ReaderEnds(t))
                       /\ WF_vars(Yield(t) \/ Call(t))

Spec == Init /\ [][Next]_vars /\ Fairness

-----------------------------------------------------------------------------
\* The places of the code that p_mutex protects.
Guarded == {"plan", "publish", "failed", "f_check", "check", "reacquire", "answer"}

\* p_mutex is held by the thread in such a place, hence by one at a time, and
\* never by one in the reader: "The reader is never called while the cache lock is
\* held."
MutexFollowsCode == \A t \in Threads : mutex = t <=> pc[t] \in Guarded

\* "release it while f blocks: the fetching thread may need it": inside f a
\* thread does not hold the outer lock, and everywhere else in a call it does
\* (in the reader it may have given it away).
InWait == {"f_lock", "f_check", "blocked", "reacquire"}

OuterFollowsCode ==
    \A t \in Threads :
        /\ outer = t => pc[t] \notin InWait \cup {"off"}
        /\ pc[t] \notin InWait \cup {"off", "read"} => outer = t

\* A thread blocked on the condition variable holds neither lock, and another
\* is on its way to the notify_all that wakes it: no interleaving of the lock
\* operations loses a wake-up.
Fetching == {"read", "publish_lock", "failed_lock", "publish", "failed"}

BlockedIsWoken ==
    \A t \in Threads : pc[t] = "blocked" =>
        /\ mutex # t /\ outer # t
        /\ \E u \in Threads : pc[u] \in Fetching \cup {"notify"}

\* The locks are held where the code says, and nobody sleeps with one, or for ever.
LockInv == TypeOK /\ MutexFollowsCode /\ OuterFollowsCode /\ BlockedIsWoken

\* The two locks are never waited for in a circle: no thread wants the outer
\* lock while it holds p_mutex and another holds the outer lock and wants
\* p_mutex.
WantsMutex(t) ==
    pc[t] \in {"plan_lock", "publish_lock", "failed_lock", "f_lock", "check_lock"}

NoLockCycle ==
    \A t, u \in Threads :
        ~(mutex = t /\ pc[t] = "reacquire" /\ outer = u /\ WantsMutex(u))

\* Every call returns or throws.
CallsReturn ==
    \A t \in Threads : pc[t] \notin Caller ~> pc[t] \in Caller

=============================================================================
