--------------------------- MODULE OuterLockProofs --------------------------
(***************************************************************************)
(* Proofs about OuterLock, for any threads and any number of calls.        *)
(***************************************************************************)
EXTENDS OuterLock, TLAPS

\* A page in flight has one fetching thread, and a fetching thread a page in
\* flight: what makes a thread that decides to block safe to leave alone.
OneFetch ==
    /\ \A t \in Threads : pc[t] \in Fetching => page = "in_flight"
    /\ page = "in_flight" => \E t \in Threads : pc[t] \in Fetching
    /\ \A t, u \in Threads : pc[t] \in Fetching /\ pc[u] \in Fetching => t = u

IInv == LockInv /\ OneFetch

LEMMA InitIInv == Init => IInv
  BY OuterLockAssumption
  DEF Init, IInv, LockInv, TypeOK, MutexFollowsCode, OuterFollowsCode,
      BlockedIsWoken, OneFetch, Labels, Guarded, InWait, Fetching

\* Every step keeps it.
LEMMA NextIInv == IInv /\ [Next]_vars => IInv'
<1> SUFFICES ASSUME IInv, [Next]_vars PROVE IInv'
  OBVIOUS
<1> USE OuterLockAssumption DEF IInv, LockInv, OneFetch, Guarded, InWait, Fetching
<1>1. ASSUME NEW t \in Threads, Resume(t) PROVE IInv'
  BY <1>1 DEF Resume, Step, Lock, Unlock, TakeOuter, DropOuter, TypeOK, Labels,
     MutexFollowsCode, OuterFollowsCode, BlockedIsWoken
<1>2. ASSUME NEW t \in Threads, Yield(t) PROVE IInv'
  BY <1>2 DEF Yield, Step, Lock, Unlock, TakeOuter, DropOuter, TypeOK, Labels,
     MutexFollowsCode, OuterFollowsCode, BlockedIsWoken
<1>3. ASSUME NEW t \in Threads, Call(t) PROVE IInv'
  BY <1>3 DEF Call, Step, Lock, Unlock, TakeOuter, DropOuter, TypeOK, Labels,
     MutexFollowsCode, OuterFollowsCode, BlockedIsWoken
<1>4. ASSUME NEW t \in Threads, LockMutex(t) PROVE IInv'
  BY <1>4 DEF LockMutex, Step, Lock, Unlock, TakeOuter, DropOuter, TypeOK, Labels,
     MutexFollowsCode, OuterFollowsCode, BlockedIsWoken
<1>5. ASSUME NEW t \in Threads, Plan(t) PROVE IInv'
  BY <1>5 DEF Plan, Step, Lock, Unlock, TakeOuter, DropOuter, TypeOK, Labels,
     MutexFollowsCode, OuterFollowsCode, BlockedIsWoken
<1>6. ASSUME NEW t \in Threads, Check(t) PROVE IInv'
  BY <1>6 DEF Check, Step, Lock, Unlock, TakeOuter, DropOuter, TypeOK, Labels,
     MutexFollowsCode, OuterFollowsCode, BlockedIsWoken
<1>7. ASSUME NEW t \in Threads, Publish(t) PROVE IInv'
  BY <1>7 DEF Publish, Step, Lock, Unlock, TakeOuter, DropOuter, TypeOK, Labels,
     MutexFollowsCode, OuterFollowsCode, BlockedIsWoken
<1>8. ASSUME NEW t \in Threads, Notify(t) PROVE IInv'
  BY <1>8 DEF Notify, Step, Lock, Unlock, TakeOuter, DropOuter, TypeOK, Labels,
     MutexFollowsCode, OuterFollowsCode, BlockedIsWoken
<1>9. ASSUME NEW t \in Threads, ReaderYields(t) PROVE IInv'
  BY <1>9 DEF ReaderYields, Step, Lock, Unlock, TakeOuter, DropOuter, TypeOK, Labels,
     MutexFollowsCode, OuterFollowsCode, BlockedIsWoken
<1>10. ASSUME NEW t \in Threads, ReaderResumes(t) PROVE IInv'
  BY <1>10 DEF ReaderResumes, Step, Lock, Unlock, TakeOuter, DropOuter, TypeOK, Labels,
     MutexFollowsCode, OuterFollowsCode, BlockedIsWoken
<1>11. ASSUME NEW t \in Threads, ReaderEnds(t) PROVE IInv'
  BY <1>11 DEF ReaderEnds, Step, Lock, Unlock, TakeOuter, DropOuter, TypeOK, Labels,
     MutexFollowsCode, OuterFollowsCode, BlockedIsWoken
<1>12. ASSUME NEW t \in Threads, BlockingWait(t) PROVE IInv'
  BY <1>12 DEF BlockingWait, Step, Lock, Unlock, TakeOuter, DropOuter, TypeOK, Labels,
     MutexFollowsCode, OuterFollowsCode, BlockedIsWoken
<1>13. ASSUME NEW t \in Threads, Predicate(t) PROVE IInv'
  BY <1>13 DEF Predicate, Step, Lock, Unlock, TakeOuter, DropOuter, TypeOK, Labels,
     MutexFollowsCode, OuterFollowsCode, BlockedIsWoken
<1>14. ASSUME NEW t \in Threads, Reacquire(t) PROVE IInv'
  BY <1>14 DEF Reacquire, Step, Lock, Unlock, TakeOuter, DropOuter, TypeOK, Labels,
     MutexFollowsCode, OuterFollowsCode, BlockedIsWoken
<1>15. ASSUME NEW t \in Threads, Answer(t) PROVE IInv'
  BY <1>15 DEF Answer, Step, Lock, Unlock, TakeOuter, DropOuter, TypeOK, Labels,
     MutexFollowsCode, OuterFollowsCode, BlockedIsWoken
<1>16. CASE UNCHANGED vars
  BY <1>16 DEF vars, TypeOK, MutexFollowsCode, OuterFollowsCode, BlockedIsWoken
<1> QED
  BY <1>1, <1>2, <1>3, <1>4, <1>5, <1>6, <1>7, <1>8, <1>9, <1>10, <1>11, <1>12, <1>13, <1>14, <1>15, <1>16 DEF Next, Inside, Done

\* Each lock is held exactly where the code says, p_mutex never in the reader,
\* and a thread that sleeps in wait_for holds neither and will be notified: for
\* any threads and however the locks change hands.
THEOREM LocksFollowCode == Spec => []LockInv
<1>1. IInv => LockInv  BY DEF IInv
<1> QED  BY <1>1, InitIInv, NextIInv, PTL DEF Spec

=============================================================================
