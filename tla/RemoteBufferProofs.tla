------------------------- MODULE RemoteBufferProofs -------------------------
(***************************************************************************)
(* Proofs about RemoteBuffer, for any threads, requests, sizes and page    *)
(* size.  The invariant is built in layers, each inductive relative to the *)
(* layers before it.                                                       *)
(***************************************************************************)
EXTENDS RemoteBuffer, PageMathProofs

-----------------------------------------------------------------------------
(* Types, and the bounds ensure checked before it kept a range. *)

WantedInBounds == \A t \in Threads : \A r \in wanted[t] : InBounds(r)

TypeInv == TypeOK /\ WantedInBounds

\* What a thread wants covers pages of the table.
LEMMA WantedPages ==
    ASSUME TypeInv, NEW t \in Threads
    PROVE  /\ ExactOf(wanted[t]) \subseteq Pages
           /\ WidenedOf(wanted[t]) \subseteq Pages
           /\ NoWrap => ExactOf(wanted[t]) \subseteq WidenedOf(wanted[t])
<1>1. wanted[t] \in SUBSET ByteRanges  BY DEF TypeInv, TypeOK
<1>2. \A r \in wanted[t] : InBounds(r)  BY DEF TypeInv, WantedInBounds
<1> QED  BY <1>1, <1>2, RequestInPages

LEMMA InitTypeInv == Init => TypeInv
  BY ZenonT(30) DEF Init, TypeInv, TypeOK, WantedInBounds, Labels, Outside

LEMMA SetStateType ==
    ASSUME TypeOK, NEW pages, NEW s \in {"absent", "in_flight", "present"},
           SetState(pages, s)
    PROVE  p_pages' \in [Pages -> {"absent", "in_flight", "present"}]
  BY DEF TypeOK, SetState

LEMMA ProtectType ==
    ASSUME TypeOK, NEW pages, NEW s \in {"none", "rw", "ro"},
           Protect(pages, s)
    PROVE  prot' \in [Pages -> {"none", "rw", "ro"}]
  BY DEF TypeOK, Protect

\* What plan claims are pages of the table, so todo and claimed stay typed.
LEMMA PlanClaim ==
    ASSUME TypeInv, NEW t \in Threads,
           NEW extra \in {ExtraPages, {}}
    PROVE  SelectAbsent(WidenedOf(wanted[t]) \cup extra) \in SUBSET Pages
  BY WantedPages, ExtraPagesInPages DEF SelectAbsent

LEMMA NextTypeInv == TypeInv /\ [Next]_vars => TypeInv'
<1> SUFFICES ASSUME TypeInv, [Next]_vars PROVE TypeInv'
  OBVIOUS
<1> USE DEF TypeInv
<1>1. ASSUME NEW t \in Threads, BeginEnsure(t) PROVE TypeInv'
  BY <1>1, RemoteBufferAssumption
  DEF BeginEnsure, TypeOK, WantedInBounds, Goto, Labels, Outside, shared
<1>2. ASSUME NEW t \in Threads, CheckPresent(t) PROVE TypeInv'
  BY <1>2, RemoteBufferAssumption
  DEF CheckPresent, TypeOK, WantedInBounds, Goto, Labels, Outside, shared
<1>3. ASSUME NEW t \in Threads, Finish(t) PROVE TypeInv'
  BY <1>3 DEF Finish, Leave, TypeOK, WantedInBounds, Goto, Labels, Outside, shared
<1>4. ASSUME NEW t \in Threads, Plan(t) PROVE TypeInv'
  <2> DEFINE claim  == SelectAbsent(WidenedOf(wanted[t])
                         \cup (IF ~p_first_fetch_planned THEN ExtraPages ELSE {}))
             others == {p \in ExactOf(wanted[t]) :
                          p_pages[p] = "in_flight" /\ p \notin claim}
  <2>1. claim \in SUBSET Pages  BY PlanClaim
  <2>2. others \in SUBSET Pages  BY WantedPages
  <2>3. SetState(claim, "in_flight")  BY <1>4 DEF Plan
  <2>4. p_pages' \in [Pages -> {"absent", "in_flight", "present"}]
    BY <2>3, SetStateType
  <2>5. /\ claimed' = [claimed EXCEPT ![t] = claim]
        /\ todo' = [todo EXCEPT ![t] = claim]
        /\ awaited' = [awaited EXCEPT ![t] = others]
        /\ \E b \in BOOLEAN : extras' = [extras EXCEPT ![t] = b]
        /\ \E l \in {"open", "wait", "ready"} : Goto(t, l)
        /\ p_first_fetch_planned' = TRUE
        /\ UNCHANGED <<prot, filled, alive, wanted>>
    BY <1>4 DEF Plan
  <2> HIDE DEF claim, others
  <2> QED  BY <2>1, <2>2, <2>4, <2>5
           DEF TypeOK, WantedInBounds, Goto, Labels, Outside, Fetching, Waiting
<1>5. ASSUME NEW t \in Threads, PlanThrows(t) PROVE TypeInv'
  BY <1>5 DEF PlanThrows, Leave, TypeOK, WantedInBounds, Goto, Labels, Outside, shared
<1>6. ASSUME NEW t \in Threads, OpenRun(t) PROVE TypeInv'
  BY <1>6, ProtectType
  DEF OpenRun, TypeOK, WantedInBounds, Goto, Labels, Fetching
<1>7. ASSUME NEW t \in Threads, OpenThrows(t) PROVE TypeInv'
  BY <1>7, ProtectType
  DEF OpenThrows, TypeOK, WantedInBounds, Goto, Labels, Fetching
<1>8. ASSUME NEW t \in Threads, ReadPage(t) PROVE TypeInv'
  BY <1>8 DEF ReadPage, TypeOK, WantedInBounds
<1>9. ASSUME NEW t \in Threads, ReadReturns(t) PROVE TypeInv'
  BY <1>9 DEF ReadReturns, TypeOK, WantedInBounds, Goto, Labels, Fetching, shared
<1>10. ASSUME NEW t \in Threads, ReadThrows(t) PROVE TypeInv'
  BY <1>10 DEF ReadThrows, TypeOK, WantedInBounds, Goto, Labels, Fetching, shared
<1>11. ASSUME NEW t \in Threads, SealRun(t) PROVE TypeInv'
  BY <1>11, ProtectType DEF SealRun, TypeOK, WantedInBounds, Goto, Labels, Fetching
<1>12. ASSUME NEW t \in Threads, SealThrows(t) PROVE TypeInv'
  BY <1>12, ProtectType DEF SealThrows, TypeOK, WantedInBounds, Goto, Labels, Fetching
<1>13. ASSUME NEW t \in Threads, CloseRun(t) PROVE TypeInv'
  BY <1>13, ProtectType DEF CloseRun, TypeOK, WantedInBounds, Goto, Labels, Fetching
<1>14. ASSUME NEW t \in Threads, CloseFails(t) PROVE TypeInv'
  BY <1>14 DEF CloseFails, TypeOK, WantedInBounds, local
<1>15. ASSUME NEW t \in Threads, Publish(t) PROVE TypeInv'
  <2>1. p_pages' \in [Pages -> {"absent", "in_flight", "present"}]
    BY <1>15, SetStateType DEF Publish
  <2> QED  BY <1>15, <2>1 DEF Publish, TypeOK, WantedInBounds, Goto, Labels
<1>16. ASSUME NEW t \in Threads, NotifyAfterSuccess(t) PROVE TypeInv'
  BY <1>16 DEF NotifyAfterSuccess, Woken, TypeOK, WantedInBounds, Labels, Outside, Waiting, shared
<1>17. ASSUME NEW t \in Threads, NotifyAfterFailure(t) PROVE TypeInv'
  BY <1>17 DEF NotifyAfterFailure, Woken, TypeOK, WantedInBounds, Labels, Outside, Waiting, shared
<1>18. ASSUME NEW t \in Threads, WaitBlocks(t) PROVE TypeInv'
  BY <1>18 DEF WaitBlocks, TypeOK, WantedInBounds, Goto, Labels, Waiting, shared
<1>19. ASSUME NEW t \in Threads, WaitEnds(t) PROVE TypeInv'
  BY <1>19 DEF WaitEnds, TypeOK, WantedInBounds, Goto, Labels, Outside, shared
<1>20. ASSUME NEW t \in Threads, SpuriousWake(t) PROVE TypeInv'
  BY <1>20 DEF SpuriousWake, TypeOK, WantedInBounds, Goto, Labels, Waiting, shared
<1>21. CASE UNCHANGED vars
  BY <1>21 DEF vars, shared, local, TypeOK, WantedInBounds
<1> QED
  BY <1>1, <1>2, <1>3, <1>4, <1>5, <1>6, <1>7, <1>8, <1>9, <1>10, <1>11,
     <1>12, <1>13, <1>14, <1>15, <1>16, <1>17, <1>18, <1>19, <1>20, <1>21
  DEF Next, Calls, Progress, Failures, Terminated

\* The page table, the region and every thread's plan keep their types: no
\* step indexes past the table, whatever was asked for.
THEOREM TypeCorrect == Spec => []TypeOK
<1>1. TypeInv => TypeOK  BY DEF TypeInv
<1> QED  BY <1>1, InitTypeInv, NextTypeInv, PTL DEF Spec

-----------------------------------------------------------------------------
(* Claims: a page is in flight exactly while one thread has it to fetch. *)

Looping == {"open", "read", "seal", "close"}

ClaimInv ==
    /\ \A t \in Threads : \A p \in claimed[t] : p_pages[p] = "in_flight"
    /\ \A p \in Pages : p_pages[p] = "in_flight" =>
                           \E t \in Threads : p \in claimed[t]
    /\ \A t, u \in Threads : t # u => claimed[t] \cap claimed[u] = {}
    /\ \A t \in Threads : pc[t] \notin Fetching => claimed[t] = {}
    /\ \A t \in Threads : pc[t] \in Looping => todo[t] \subseteq claimed[t]

LEMMA InitClaimInv == Init => ClaimInv
  BY DEF Init, ClaimInv, Looping

LEMMA NextClaimInv == TypeInv /\ ClaimInv /\ [Next]_vars => ClaimInv'
<1> SUFFICES ASSUME TypeInv, ClaimInv, [Next]_vars PROVE ClaimInv'
  OBVIOUS
<1> USE DEF TypeInv, TypeOK
<1>1. ASSUME NEW t \in Threads, BeginEnsure(t) PROVE ClaimInv'
  BY <1>1 DEF BeginEnsure, ClaimInv, Goto, shared, Fetching, Looping
<1>2. ASSUME NEW t \in Threads, CheckPresent(t) PROVE ClaimInv'
  BY <1>2 DEF CheckPresent, ClaimInv, Goto, shared, Fetching, Looping
<1>3. ASSUME NEW t \in Threads, Finish(t) PROVE ClaimInv'
  BY <1>3 DEF Finish, ClaimInv, Leave, Goto, shared, Fetching, Looping
<1>4. ASSUME NEW t \in Threads, Plan(t) PROVE ClaimInv'
  <2> DEFINE claim  == SelectAbsent(WidenedOf(wanted[t])
                         \cup (IF ~p_first_fetch_planned THEN ExtraPages ELSE {}))
  <2>1. claim \in SUBSET Pages  BY PlanClaim
  <2>2. \A p \in claim : p_pages[p] = "absent"  BY DEF SelectAbsent
  <2>3. /\ SetState(claim, "in_flight")
        /\ claimed' = [claimed EXCEPT ![t] = claim]
        /\ todo' = [todo EXCEPT ![t] = claim]
        /\ pc[t] = "plan"
        /\ \E l \in {"open", "wait", "ready"} :
              Goto(t, l) /\ (l # "open" => claim = {})
    BY <1>4 DEF Plan
  <2> HIDE DEF claim
  <2>4. \A p \in Pages : p_pages'[p] = IF p \in claim THEN "in_flight" ELSE p_pages[p]
    BY <2>3 DEF SetState
  <2>5. \A u \in Threads : claimed'[u] = IF u = t THEN claim ELSE claimed[u]
    BY <2>3
  <2>6. \A u \in Threads : claimed[u] \cap claim = {}
    BY <2>2 DEF ClaimInv
  <2> QED  BY <2>1, <2>3, <2>4, <2>5, <2>6
           DEF ClaimInv, Goto, Fetching, Looping
<1>5. ASSUME NEW t \in Threads, PlanThrows(t) PROVE ClaimInv'
  BY <1>5 DEF PlanThrows, ClaimInv, Leave, Goto, shared, Fetching, Looping
<1>6. ASSUME NEW t \in Threads, OpenRun(t) PROVE ClaimInv'
  BY <1>6, FirstRunIsPart DEF OpenRun, ClaimInv, Goto, Fetching, Looping
<1>7. ASSUME NEW t \in Threads, OpenThrows(t) PROVE ClaimInv'
  BY <1>7 DEF OpenThrows, ClaimInv, Goto, Fetching, Looping
<1>8. ASSUME NEW t \in Threads, ReadPage(t) PROVE ClaimInv'
  BY <1>8 DEF ReadPage, ClaimInv, Fetching, Looping
<1>9. ASSUME NEW t \in Threads, ReadReturns(t) PROVE ClaimInv'
  BY <1>9 DEF ReadReturns, ClaimInv, Goto, shared, Fetching, Looping
<1>10. ASSUME NEW t \in Threads, ReadThrows(t) PROVE ClaimInv'
  BY <1>10 DEF ReadThrows, ClaimInv, Goto, shared, Fetching, Looping
<1>11. ASSUME NEW t \in Threads, SealRun(t) PROVE ClaimInv'
  BY <1>11, FirstRunIsPart DEF SealRun, ClaimInv, Goto, Fetching, Looping
<1>12. ASSUME NEW t \in Threads, SealThrows(t) PROVE ClaimInv'
  BY <1>12 DEF SealThrows, ClaimInv, Goto, Fetching, Looping
<1>13. ASSUME NEW t \in Threads, CloseRun(t) PROVE ClaimInv'
  BY <1>13, FirstRunIsPart DEF CloseRun, ClaimInv, Goto, Fetching, Looping
<1>14. ASSUME NEW t \in Threads, CloseFails(t) PROVE ClaimInv'
  BY <1>14 DEF CloseFails, ClaimInv, local, Fetching, Looping
<1>15. ASSUME NEW t \in Threads, Publish(t) PROVE ClaimInv'
  <2>1. \A p \in Pages : p \notin claimed[t] => p_pages'[p] = p_pages[p]
    BY <1>15 DEF Publish, SetState
  <2>2. \A p \in claimed[t] : p_pages'[p] # "in_flight"
    BY <1>15 DEF Publish, SetState
  <2>3. \A u \in Threads : claimed'[u] = IF u = t THEN {} ELSE claimed[u]
    BY <1>15 DEF Publish
  <2>4. \A u \in Threads : u # t => pc'[u] = pc[u] /\ todo'[u] = todo[u]
    BY <1>15 DEF Publish, Goto
  <2>5. pc'[t] \in {"notify_present", "notify_absent"}
    BY <1>15 DEF Publish, Goto
  <2> QED  BY <2>1, <2>2, <2>3, <2>4, <2>5 DEF ClaimInv, Fetching, Looping
<1>16. ASSUME NEW t \in Threads, NotifyAfterSuccess(t) PROVE ClaimInv'
  BY <1>16 DEF NotifyAfterSuccess, ClaimInv, Woken, shared, Fetching, Looping
<1>17. ASSUME NEW t \in Threads, NotifyAfterFailure(t) PROVE ClaimInv'
  BY <1>17 DEF NotifyAfterFailure, ClaimInv, Woken, shared, Fetching, Looping
<1>18. ASSUME NEW t \in Threads, WaitBlocks(t) PROVE ClaimInv'
  BY <1>18 DEF WaitBlocks, ClaimInv, Goto, shared, Fetching, Looping
<1>19. ASSUME NEW t \in Threads, WaitEnds(t) PROVE ClaimInv'
  BY <1>19 DEF WaitEnds, ClaimInv, Goto, shared, Fetching, Looping
<1>20. ASSUME NEW t \in Threads, SpuriousWake(t) PROVE ClaimInv'
  BY <1>20 DEF SpuriousWake, ClaimInv, Goto, shared, Fetching, Looping
<1>21. CASE UNCHANGED vars
  BY <1>21 DEF vars, shared, local, ClaimInv, Looping, Fetching
<1> QED
  BY <1>1, <1>2, <1>3, <1>4, <1>5, <1>6, <1>7, <1>8, <1>9, <1>10, <1>11,
     <1>12, <1>13, <1>14, <1>15, <1>16, <1>17, <1>18, <1>19, <1>20, <1>21
  DEF Next, Calls, Progress, Failures, Terminated

\* Each page has at most one fetcher, for any number of threads.
THEOREM OneFetcher == Spec => []OneFetcherPerPage
<1>1. TypeInv /\ ClaimInv => OneFetcherPerPage
  BY DEF TypeInv, TypeOK, ClaimInv, OneFetcherPerPage, InState
<1> QED  BY <1>1, InitTypeInv, NextTypeInv, InitClaimInv, NextClaimInv, PTL DEF Spec

-----------------------------------------------------------------------------
(* Access: how far the fetch at each label has come with its pages. *)

Opened(t)  == pc[t] = "open" => \A p \in claimed[t] \ todo[t] : prot[p] = "rw"
Reading(t) == pc[t] = "read" =>
    \A p \in claimed[t] : prot[p] = "rw" /\ (p \notin todo[t] => p \in filled)
Sealing(t) == pc[t] = "seal" =>
    \A p \in claimed[t] : p \in filled /\ (p \notin todo[t] => prot[p] = "ro")
Sealed(t)  == pc[t] = "publish_present" =>
    \A p \in claimed[t] : p \in filled /\ prot[p] = "ro"

AccessInv ==
    /\ \A t \in Threads : Opened(t) /\ Reading(t) /\ Sealing(t) /\ Sealed(t)
    /\ PresentIsSealed

LEMMA InitAccessInv == Init => AccessInv
  BY DEF Init, AccessInv, Opened, Reading, Sealing, Sealed, PresentIsSealed, InState

\* A run is cut from the claim of the thread that opens, seals or closes it.
LEMMA RunIsClaimed ==
    ASSUME ClaimInv, NEW t \in Threads, pc[t] \in Looping
    PROVE  FirstRun(todo[t]) \subseteq claimed[t]
  BY FirstRunIsPart DEF ClaimInv

LEMMA NextAccessInv == TypeInv /\ ClaimInv /\ AccessInv /\ [Next]_vars => AccessInv'
<1> SUFFICES ASSUME TypeInv, ClaimInv, AccessInv, [Next]_vars PROVE AccessInv'
  OBVIOUS
<1> USE DEF TypeInv, TypeOK
<1>1. ASSUME NEW t \in Threads, BeginEnsure(t) PROVE AccessInv'
  BY <1>1
  DEF BeginEnsure, Goto, shared, AccessInv, Opened, Reading, Sealing, Sealed, PresentIsSealed, InState, ClaimInv, Looping, Fetching
<1>2. ASSUME NEW t \in Threads, CheckPresent(t) PROVE AccessInv'
  BY <1>2
  DEF CheckPresent, Goto, shared, AccessInv, Opened, Reading, Sealing, Sealed, PresentIsSealed, InState, ClaimInv, Looping, Fetching
<1>3. ASSUME NEW t \in Threads, Finish(t) PROVE AccessInv'
  BY <1>3
  DEF Finish, Leave, Goto, shared, AccessInv, Opened, Reading, Sealing, Sealed, PresentIsSealed, InState, ClaimInv, Looping, Fetching
<1>4. ASSUME NEW t \in Threads, Plan(t) PROVE AccessInv'
  <2> DEFINE claim  == SelectAbsent(WidenedOf(wanted[t])
                         \cup (IF ~p_first_fetch_planned THEN ExtraPages ELSE {}))
  <2>1. claim \in SUBSET Pages  BY PlanClaim
  <2>2. /\ SetState(claim, "in_flight")
        /\ claimed' = [claimed EXCEPT ![t] = claim]
        /\ todo' = [todo EXCEPT ![t] = claim]
        /\ \E l \in {"open", "wait", "ready"} : Goto(t, l)
        /\ UNCHANGED <<prot, filled>>
    BY <1>4 DEF Plan
  <2> HIDE DEF claim
  <2> QED  BY <2>1, <2>2
           DEF Goto, SetState, AccessInv, Opened, Reading, Sealing, Sealed,
               PresentIsSealed, InState
<1>5. ASSUME NEW t \in Threads, PlanThrows(t) PROVE AccessInv'
  BY <1>5
  DEF PlanThrows, Leave, Goto, shared, AccessInv, Opened, Reading, Sealing, Sealed, PresentIsSealed, InState, ClaimInv, Looping, Fetching
<1>6. ASSUME NEW t \in Threads, OpenRun(t) PROVE AccessInv'
  BY <1>6, FirstRunIsPart
  DEF OpenRun, Goto, Protect, AccessInv, Opened, Reading, Sealing, Sealed, PresentIsSealed, InState, ClaimInv, Looping, Fetching
<1>7. ASSUME NEW t \in Threads, OpenThrows(t) PROVE AccessInv'
  BY <1>7, FirstRunIsPart
  DEF OpenThrows, Goto, Protect, AccessInv, Opened, Reading, Sealing, Sealed, PresentIsSealed, InState, ClaimInv, Looping, Fetching
<1>8. ASSUME NEW t \in Threads, ReadPage(t) PROVE AccessInv'
  BY <1>8
  DEF ReadPage, AccessInv, Opened, Reading, Sealing, Sealed, PresentIsSealed, InState, ClaimInv, Looping, Fetching
<1>9. ASSUME NEW t \in Threads, ReadReturns(t) PROVE AccessInv'
  BY <1>9
  DEF ReadReturns, Goto, shared, AccessInv, Opened, Reading, Sealing, Sealed, PresentIsSealed, InState, ClaimInv, Looping, Fetching
<1>10. ASSUME NEW t \in Threads, ReadThrows(t) PROVE AccessInv'
  BY <1>10
  DEF ReadThrows, Goto, shared, AccessInv, Opened, Reading, Sealing, Sealed, PresentIsSealed, InState, ClaimInv, Looping, Fetching
<1>11. ASSUME NEW t \in Threads, SealRun(t) PROVE AccessInv'
  BY <1>11, FirstRunIsPart
  DEF SealRun, Goto, Protect, AccessInv, Opened, Reading, Sealing, Sealed, PresentIsSealed, InState, ClaimInv, Looping, Fetching
<1>12. ASSUME NEW t \in Threads, SealThrows(t) PROVE AccessInv'
  BY <1>12, FirstRunIsPart
  DEF SealThrows, Goto, Protect, AccessInv, Opened, Reading, Sealing, Sealed, PresentIsSealed, InState, ClaimInv, Looping, Fetching
<1>13. ASSUME NEW t \in Threads, CloseRun(t) PROVE AccessInv'
  BY <1>13, FirstRunIsPart
  DEF CloseRun, Goto, Protect, AccessInv, Opened, Reading, Sealing, Sealed, PresentIsSealed, InState, ClaimInv, Looping, Fetching
<1>14. ASSUME NEW t \in Threads, CloseFails(t) PROVE AccessInv'
  BY <1>14
  DEF CloseFails, local, AccessInv, Opened, Reading, Sealing, Sealed, PresentIsSealed, InState, ClaimInv, Looping, Fetching
<1>15. ASSUME NEW t \in Threads, Publish(t) PROVE AccessInv'
  BY <1>15
  DEF Publish, Goto, SetState, AccessInv, Opened, Reading, Sealing, Sealed, PresentIsSealed, InState, ClaimInv, Looping, Fetching
<1>16. ASSUME NEW t \in Threads, NotifyAfterSuccess(t) PROVE AccessInv'
  BY <1>16
  DEF NotifyAfterSuccess, Woken, shared, AccessInv, Opened, Reading, Sealing, Sealed, PresentIsSealed, InState, ClaimInv, Looping, Fetching
<1>17. ASSUME NEW t \in Threads, NotifyAfterFailure(t) PROVE AccessInv'
  BY <1>17
  DEF NotifyAfterFailure, Woken, shared, AccessInv, Opened, Reading, Sealing, Sealed, PresentIsSealed, InState, ClaimInv, Looping, Fetching
<1>18. ASSUME NEW t \in Threads, WaitBlocks(t) PROVE AccessInv'
  BY <1>18
  DEF WaitBlocks, Goto, shared, AccessInv, Opened, Reading, Sealing, Sealed, PresentIsSealed, InState, ClaimInv, Looping, Fetching
<1>19. ASSUME NEW t \in Threads, WaitEnds(t) PROVE AccessInv'
  BY <1>19
  DEF WaitEnds, Goto, shared, AccessInv, Opened, Reading, Sealing, Sealed, PresentIsSealed, InState, ClaimInv, Looping, Fetching
<1>20. ASSUME NEW t \in Threads, SpuriousWake(t) PROVE AccessInv'
  BY <1>20
  DEF SpuriousWake, Goto, shared, AccessInv, Opened, Reading, Sealing, Sealed, PresentIsSealed, InState, ClaimInv, Looping, Fetching
<1>21. CASE UNCHANGED vars
  BY <1>21 DEF vars, shared, local, AccessInv, Opened, Reading, Sealing, Sealed, PresentIsSealed, InState
<1> QED
  BY <1>1, <1>2, <1>3, <1>4, <1>5, <1>6, <1>7, <1>8, <1>9, <1>10, <1>11,
     <1>12, <1>13, <1>14, <1>15, <1>16, <1>17, <1>18, <1>19, <1>20, <1>21
  DEF Next, Calls, Progress, Failures, Terminated

\* Whatever check_present accepts was written whole and can only be read.
THEOREM PresentSealed == Spec => []PresentIsSealed
<1>1. AccessInv => PresentIsSealed  BY DEF AccessInv
<1> QED  BY <1>1, InitTypeInv, NextTypeInv, InitClaimInv, NextClaimInv,
            InitAccessInv, NextAccessInv, PTL DEF Spec

\* While the reader writes, its pages are writable and belong to its thread.
THEOREM ReaderWrites == Spec => []ReaderMayWrite
<1>1. ClaimInv /\ AccessInv => ReaderMayWrite
  BY DEF ClaimInv, AccessInv, Reading, ReaderMayWrite
<1> QED  BY <1>1, InitTypeInv, NextTypeInv, InitClaimInv, NextClaimInv,
            InitAccessInv, NextAccessInv, PTL DEF Spec

\* A step of the buffer never disturbs a present page: fetched once, for good.
LEMMA PresentStays ==
    ASSUME TypeInv, ClaimInv, AccessInv, [Next]_vars
    PROVE  \A p \in InState("present") : p_pages'[p] = "present" /\ prot'[p] = "ro"
<1>0. AccessInv'  BY NextAccessInv
<1> SUFFICES \A p \in InState("present") : p_pages'[p] = "present"
  BY <1>0 DEF AccessInv, PresentIsSealed, InState
<1> DEFINE Kept == \A p \in InState("present") : p_pages'[p] = "present"
<1> USE DEF TypeInv, TypeOK
<1>1. ASSUME NEW t \in Threads, Plan(t) PROVE Kept
  BY <1>1 DEF Plan, SetState, SelectAbsent, InState
<1>2. ASSUME NEW t \in Threads, Publish(t) PROVE Kept
  BY <1>2 DEF Publish, SetState, InState, ClaimInv
<1>3. CASE UNCHANGED p_pages
  BY <1>3 DEF InState
<1>4. \/ \E t \in Threads : Plan(t) \/ Publish(t)
      \/ UNCHANGED p_pages
  BY DEF Next, Calls, Progress, Failures, Terminated, vars, shared,
         BeginEnsure, CheckPresent, Finish, PlanThrows, OpenRun, OpenThrows,
         ReadPage, ReadReturns, ReadThrows, SealRun, SealThrows, CloseRun,
         CloseFails, NotifyAfterSuccess, NotifyAfterFailure, WaitBlocks,
         WaitEnds, SpuriousWake
<1> QED  BY <1>1, <1>2, <1>3, <1>4

THEOREM FetchedOnce == Spec => PresentIsFinal
<1>1. TypeInv /\ ClaimInv /\ AccessInv /\ [Next]_vars =>
        [\A p \in InState("present") :
            p_pages'[p] = "present" /\ prot'[p] = "ro"]_vars
  BY PresentStays
<1> QED  BY <1>1, InitTypeInv, NextTypeInv, InitClaimInv, NextClaimInv,
            InitAccessInv, NextAccessInv, PTL DEF Spec, PresentIsFinal

-----------------------------------------------------------------------------
(* Who touches a page: the thread that claims it, and it alone. *)

\* A page a step leaves alone.
Untouched(p) ==
    p_pages'[p] = p_pages[p] /\ prot'[p] = prot[p] /\ (p \in filled' <=> p \in filled)

\* A step of thread t, inside a fetch or at its two ends, touches its own claim.
Touching(t) ==
    \/ Plan(t) \/ OpenRun(t) \/ OpenThrows(t) \/ ReadPage(t)
    \/ SealRun(t) \/ SealThrows(t) \/ CloseRun(t) \/ Publish(t)

LEMMA OthersTouchNothing ==
    ASSUME [Next]_vars, \A t \in Threads : ~Touching(t)
    PROVE  UNCHANGED <<p_pages, prot, filled>>
  BY DEF Touching, Next, Calls, Progress, Failures, Terminated, vars, shared,
         BeginEnsure, CheckPresent, Finish, PlanThrows, ReadReturns, ReadThrows,
         CloseFails, NotifyAfterSuccess, NotifyAfterFailure, WaitBlocks,
         WaitEnds, SpuriousWake

LEMMA ClaimsAreApart ==
    ASSUME TypeInv, ClaimInv, NEW u \in Threads, Touching(u),
           NEW t \in Threads \ {u}
    PROVE  \A p \in claimed[t] : Untouched(p)
<1> USE DEF TypeInv, TypeOK
<1>1. ASSUME Plan(u) PROVE \A p \in claimed[t] : Untouched(p)
  BY <1>1 DEF Plan, SetState, SelectAbsent, ClaimInv, Untouched
<1>2. ASSUME Publish(u) PROVE \A p \in claimed[t] : Untouched(p)
  BY <1>2 DEF Publish, SetState, ClaimInv, Untouched
<1>3. ASSUME ReadPage(u) PROVE \A p \in claimed[t] : Untouched(p)
  BY <1>3 DEF ReadPage, ClaimInv, Looping, Untouched
<1>4. ASSUME OpenRun(u) \/ OpenThrows(u) \/ SealRun(u) \/ SealThrows(u) \/ CloseRun(u)
      PROVE  \A p \in claimed[t] : Untouched(p)
  <2>1. FirstRun(todo[u]) \subseteq claimed[u]
    BY <1>4, RunIsClaimed
    DEF OpenRun, OpenThrows, SealRun, SealThrows, CloseRun, Looping
  <2>2. claimed[t] \cap FirstRun(todo[u]) = {}
    BY <2>1 DEF ClaimInv
  <2> QED
    BY <1>4, <2>2 DEF OpenRun, OpenThrows, SealRun, SealThrows, CloseRun, Protect, Untouched
<1> QED  BY <1>1, <1>2, <1>3, <1>4 DEF Touching

\* A fetch that touches its claim goes on: a step that leaves its place, claim
\* and pages to do as they are is not its own, or acts on no page.
LEMMA OwnStepGoesOn ==
    ASSUME TypeInv, ClaimInv, NEW t \in Threads, Touching(t), pc[t] \in Fetching,
           pc'[t] = pc[t], claimed'[t] = claimed[t], todo'[t] = todo[t]
    PROVE  \A p \in claimed[t] : Untouched(p)
<1> USE DEF TypeInv, TypeOK
<1>1. ~Plan(t) /\ ~OpenThrows(t) /\ ~SealThrows(t) /\ ~Publish(t)
  BY DEF Plan, OpenThrows, SealThrows, Publish, Goto, Fetching
<1>2. ~ReadPage(t)
  BY DEF ReadPage
<1>3. ASSUME OpenRun(t) \/ SealRun(t) \/ CloseRun(t)
      PROVE  \A p \in claimed[t] : Untouched(p)
  <2>1. FirstRun(todo[t]) = {}
    BY <1>3, FirstRunIsPart DEF OpenRun, SealRun, CloseRun, Goto
  <2> QED  BY <1>3, <2>1 DEF OpenRun, SealRun, CloseRun, Protect, Untouched, ClaimInv
<1> QED  BY <1>1, <1>2, <1>3 DEF Touching

\* While a thread fetches, the pages of its claim change by its own steps only:
\* for any number of fetches side by side.
THEOREM FetchesAreApart == Spec => FetchesDoNotInterfere
<1> DEFINE Apart ==
      \A t \in Threads : pc'[t] = pc[t] /\ pc[t] \in Fetching
          /\ claimed'[t] = claimed[t] /\ todo'[t] = todo[t] =>
          \A p \in claimed[t] :
              p_pages'[p] = p_pages[p] /\ prot'[p] = prot[p]
                  /\ (p \in filled' <=> p \in filled)
<1>1. TypeInv /\ ClaimInv /\ [Next]_vars => [Apart]_vars
  <2> SUFFICES ASSUME TypeInv, ClaimInv, [Next]_vars, NEW t \in Threads,
                      pc'[t] = pc[t], pc[t] \in Fetching,
                      claimed'[t] = claimed[t], todo'[t] = todo[t]
               PROVE  \A p \in claimed[t] : Untouched(p)
    BY DEF Untouched
  <2>1. CASE \E u \in Threads : Touching(u)
    BY <2>1, ClaimsAreApart, OwnStepGoesOn
  <2>2. CASE \A u \in Threads : ~Touching(u)
    BY <2>2, OthersTouchNothing DEF Untouched
  <2> QED  BY <2>1, <2>2
<1> QED  BY <1>1, InitTypeInv, NextTypeInv, InitClaimInv, NextClaimInv, PTL
         DEF Spec, FetchesDoNotInterfere

-----------------------------------------------------------------------------
(***************************************************************************)
(* Closed pages, when an open that throws leaves nothing open: what fetch  *)
(* has not opened yet, or has closed again, cannot be read.                *)
(***************************************************************************)
ClosedInv ==
    /\ \A p \in InState("absent") : prot[p] = "none"
    /\ \A t \in Threads : pc[t] = "open" => \A p \in todo[t] : prot[p] = "none"
    /\ \A t \in Threads : pc[t] = "close" =>
          \A p \in claimed[t] \ todo[t] : prot[p] = "none"
    /\ \A t \in Threads : pc[t] = "publish_absent" =>
          \A p \in claimed[t] : prot[p] = "none"

LEMMA InitClosedInv == Init => ClosedInv
  BY DEF Init, ClosedInv, InState

LEMMA NextClosedInv ==
    TypeInv /\ ClaimInv /\ ClosedInv /\ ~OpenMayLeak /\ [Next]_vars => ClosedInv'
<1> SUFFICES ASSUME TypeInv, ClaimInv, ClosedInv, ~OpenMayLeak, [Next]_vars
             PROVE  ClosedInv'
  OBVIOUS
<1> USE DEF TypeInv, TypeOK
<1>1. ASSUME NEW t \in Threads, BeginEnsure(t) PROVE ClosedInv'
  BY <1>1
  DEF BeginEnsure, Goto, shared, ClosedInv, InState, ClaimInv, Looping, Fetching
<1>2. ASSUME NEW t \in Threads, CheckPresent(t) PROVE ClosedInv'
  BY <1>2
  DEF CheckPresent, Goto, shared, ClosedInv, InState, ClaimInv, Looping, Fetching
<1>3. ASSUME NEW t \in Threads, Finish(t) PROVE ClosedInv'
  BY <1>3
  DEF Finish, Leave, Goto, shared, ClosedInv, InState, ClaimInv, Looping, Fetching
<1>4. ASSUME NEW t \in Threads, Plan(t) PROVE ClosedInv'
  <2> DEFINE claim  == SelectAbsent(WidenedOf(wanted[t])
                         \cup (IF ~p_first_fetch_planned THEN ExtraPages ELSE {}))
  <2>1. claim \in SUBSET Pages  BY PlanClaim
  <2>2. \A p \in claim : p_pages[p] = "absent"  BY DEF SelectAbsent
  <2>3. /\ SetState(claim, "in_flight")
        /\ claimed' = [claimed EXCEPT ![t] = claim]
        /\ todo' = [todo EXCEPT ![t] = claim]
        /\ \E l \in {"open", "wait", "ready"} : Goto(t, l)
        /\ UNCHANGED prot
    BY <1>4 DEF Plan
  <2> HIDE DEF claim
  <2> QED  BY <2>1, <2>2, <2>3 DEF Goto, SetState, ClosedInv, InState
<1>5. ASSUME NEW t \in Threads, PlanThrows(t) PROVE ClosedInv'
  BY <1>5
  DEF PlanThrows, Leave, Goto, shared, ClosedInv, InState, ClaimInv, Looping, Fetching
<1>6. ASSUME NEW t \in Threads, OpenRun(t) PROVE ClosedInv'
  BY <1>6, RunIsClaimed, FirstRunIsPart
  DEF OpenRun, Goto, Protect, ClosedInv, InState, ClaimInv, Looping, Fetching
<1>7. ASSUME NEW t \in Threads, OpenThrows(t) PROVE ClosedInv'
  BY <1>7, RunIsClaimed, FirstRunIsPart
  DEF OpenThrows, Goto, Protect, ClosedInv, InState, ClaimInv, Looping, Fetching
<1>8. ASSUME NEW t \in Threads, ReadPage(t) PROVE ClosedInv'
  BY <1>8
  DEF ReadPage, ClosedInv, InState, ClaimInv, Looping, Fetching
<1>9. ASSUME NEW t \in Threads, ReadReturns(t) PROVE ClosedInv'
  BY <1>9
  DEF ReadReturns, Goto, shared, ClosedInv, InState, ClaimInv, Looping, Fetching
<1>10. ASSUME NEW t \in Threads, ReadThrows(t) PROVE ClosedInv'
  BY <1>10
  DEF ReadThrows, Goto, shared, ClosedInv, InState, ClaimInv, Looping, Fetching
<1>11. ASSUME NEW t \in Threads, SealRun(t) PROVE ClosedInv'
  BY <1>11, RunIsClaimed, FirstRunIsPart
  DEF SealRun, Goto, Protect, ClosedInv, InState, ClaimInv, Looping, Fetching
<1>12. ASSUME NEW t \in Threads, SealThrows(t) PROVE ClosedInv'
  BY <1>12, RunIsClaimed, FirstRunIsPart
  DEF SealThrows, Goto, Protect, ClosedInv, InState, ClaimInv, Looping, Fetching
<1>13. ASSUME NEW t \in Threads, CloseRun(t) PROVE ClosedInv'
  BY <1>13, RunIsClaimed, FirstRunIsPart
  DEF CloseRun, Goto, Protect, ClosedInv, InState, ClaimInv, Looping, Fetching
<1>14. ASSUME NEW t \in Threads, CloseFails(t) PROVE ClosedInv'
  BY <1>14
  DEF CloseFails, local, ClosedInv, InState, ClaimInv, Looping, Fetching
<1>15. ASSUME NEW t \in Threads, Publish(t) PROVE ClosedInv'
  BY <1>15
  DEF Publish, Goto, SetState, ClosedInv, InState, ClaimInv, Looping, Fetching
<1>16. ASSUME NEW t \in Threads, NotifyAfterSuccess(t) PROVE ClosedInv'
  BY <1>16
  DEF NotifyAfterSuccess, Woken, shared, ClosedInv, InState, ClaimInv, Looping, Fetching
<1>17. ASSUME NEW t \in Threads, NotifyAfterFailure(t) PROVE ClosedInv'
  BY <1>17
  DEF NotifyAfterFailure, Woken, shared, ClosedInv, InState, ClaimInv, Looping, Fetching
<1>18. ASSUME NEW t \in Threads, WaitBlocks(t) PROVE ClosedInv'
  BY <1>18
  DEF WaitBlocks, Goto, shared, ClosedInv, InState, ClaimInv, Looping, Fetching
<1>19. ASSUME NEW t \in Threads, WaitEnds(t) PROVE ClosedInv'
  BY <1>19
  DEF WaitEnds, Goto, shared, ClosedInv, InState, ClaimInv, Looping, Fetching
<1>20. ASSUME NEW t \in Threads, SpuriousWake(t) PROVE ClosedInv'
  BY <1>20
  DEF SpuriousWake, Goto, shared, ClosedInv, InState, ClaimInv, Looping, Fetching
<1>21. CASE UNCHANGED vars
  BY <1>21 DEF vars, shared, local, ClosedInv, InState
<1> QED
  BY <1>1, <1>2, <1>3, <1>4, <1>5, <1>6, <1>7, <1>8, <1>9, <1>10, <1>11,
     <1>12, <1>13, <1>14, <1>15, <1>16, <1>17, <1>18, <1>19, <1>20, <1>21
  DEF Next, Calls, Progress, Failures, Terminated

\* A failed fetch leaves no page readable, when make_writable and the
\* bookkeeping after it are one step: the assumption the leak run drops.
THEOREM FailedFetchIsClosed ==
    ASSUME ~OpenMayLeak
    PROVE  Spec => []AbsentIsUnreadable
<1>1. ClosedInv => AbsentIsUnreadable  BY DEF ClosedInv, AbsentIsUnreadable
<1>2. TypeInv /\ ClaimInv /\ ClosedInv /\ [Next]_vars => ClosedInv'
  BY NextClosedInv
<1> QED  BY <1>1, <1>2, InitTypeInv, NextTypeInv, InitClaimInv, NextClaimInv, InitClosedInv, PTL DEF Spec

-----------------------------------------------------------------------------
(***************************************************************************)
(* What a returning ensure knows: each page it needs is present, or in its *)
(* own claim, or among the pages it awaits, and the last two run out.      *)
(***************************************************************************)
Promised(t) ==
    LET need == ExactOf(wanted[t])
        here == InState("present")
    IN  /\ pc[t] = "ready" => need \subseteq here
        /\ pc[t] \in {"open", "read", "seal", "publish_present"} =>
              need \subseteq here \cup claimed[t] \cup awaited[t]
        /\ pc[t] \in {"notify_present"} \cup Waiting =>
              need \subseteq here \cup awaited[t]

PromiseInv == \A t \in Threads : Promised(t)

LEMMA InitPromiseInv == Init => PromiseInv
  BY DEF Init, PromiseInv, Promised, Waiting

LEMMA EmptyRequest == ExactOf({}) = {}
  BY DEF ExactOf

LEMMA OneRange == ASSUME NEW r PROVE ExactOf({r}) = ExactPages(r)
  BY DEF ExactOf

LEMMA NextPromiseInv ==
    NoWrap /\ TypeInv /\ ClaimInv /\ AccessInv /\ PromiseInv /\ [Next]_vars
        => PromiseInv'
<1> SUFFICES ASSUME NoWrap, TypeInv, ClaimInv, AccessInv, PromiseInv, [Next]_vars
             PROVE  PromiseInv'
  OBVIOUS
<1> USE DEF TypeInv, TypeOK
<1>0. InState("present") \subseteq InState("present")'
  BY PresentStays DEF InState
<1>1. ASSUME NEW t \in Threads, BeginEnsure(t) PROVE PromiseInv'
  BY <1>1, <1>0, EmptyRequest, OneRange, ZenonT(30)
  DEF BeginEnsure, Goto, shared, PromiseInv, Promised, Waiting
<1>2. ASSUME NEW t \in Threads, CheckPresent(t) PROVE PromiseInv'
  BY <1>2, <1>0, EmptyRequest, OneRange
  DEF CheckPresent, Goto, shared, InState, PromiseInv, Promised, Waiting
<1>3. ASSUME NEW t \in Threads, Finish(t) PROVE PromiseInv'
  BY <1>3, <1>0, EmptyRequest, OneRange
  DEF Finish, Leave, Goto, shared, PromiseInv, Promised, Waiting
<1>4. ASSUME NEW t \in Threads, Plan(t) PROVE PromiseInv'
  <2> DEFINE claim  == SelectAbsent(WidenedOf(wanted[t])
                         \cup (IF ~p_first_fetch_planned THEN ExtraPages ELSE {}))
             others == {p \in ExactOf(wanted[t]) :
                          p_pages[p] = "in_flight" /\ p \notin claim}
  <2>1. /\ claimed' = [claimed EXCEPT ![t] = claim]
        /\ awaited' = [awaited EXCEPT ![t] = others]
        /\ Goto(t, IF claim # {} THEN "open"
                   ELSE IF others # {} THEN "wait" ELSE "ready")
        /\ wanted' = wanted
    BY <1>4 DEF Plan
  <2>2. ExactOf(wanted[t]) \subseteq InState("present") \cup claim \cup others
    BY WantedPages DEF SelectAbsent, InState
  <2> HIDE DEF claim, others
  <2> QED  BY <1>0, <2>1, <2>2 DEF Goto, PromiseInv, Promised, Waiting
<1>5. ASSUME NEW t \in Threads, PlanThrows(t) PROVE PromiseInv'
  BY <1>5, <1>0, EmptyRequest, OneRange
  DEF PlanThrows, Leave, Goto, shared, PromiseInv, Promised, Waiting
<1>6. ASSUME NEW t \in Threads, OpenRun(t) PROVE PromiseInv'
  BY <1>6, <1>0, EmptyRequest, OneRange
  DEF OpenRun, Goto, PromiseInv, Promised, Waiting
<1>7. ASSUME NEW t \in Threads, OpenThrows(t) PROVE PromiseInv'
  BY <1>7, <1>0, EmptyRequest, OneRange
  DEF OpenThrows, Goto, PromiseInv, Promised, Waiting
<1>8. ASSUME NEW t \in Threads, ReadPage(t) PROVE PromiseInv'
  BY <1>8, <1>0, EmptyRequest, OneRange
  DEF ReadPage, PromiseInv, Promised, Waiting
<1>9. ASSUME NEW t \in Threads, ReadReturns(t) PROVE PromiseInv'
  BY <1>9, <1>0, EmptyRequest, OneRange
  DEF ReadReturns, Goto, shared, PromiseInv, Promised, Waiting
<1>10. ASSUME NEW t \in Threads, ReadThrows(t) PROVE PromiseInv'
  BY <1>10, <1>0, EmptyRequest, OneRange
  DEF ReadThrows, Goto, shared, PromiseInv, Promised, Waiting
<1>11. ASSUME NEW t \in Threads, SealRun(t) PROVE PromiseInv'
  BY <1>11, <1>0, EmptyRequest, OneRange
  DEF SealRun, Goto, PromiseInv, Promised, Waiting
<1>12. ASSUME NEW t \in Threads, SealThrows(t) PROVE PromiseInv'
  BY <1>12, <1>0, EmptyRequest, OneRange
  DEF SealThrows, Goto, PromiseInv, Promised, Waiting
<1>13. ASSUME NEW t \in Threads, CloseRun(t) PROVE PromiseInv'
  BY <1>13, <1>0, EmptyRequest, OneRange
  DEF CloseRun, Goto, PromiseInv, Promised, Waiting
<1>14. ASSUME NEW t \in Threads, CloseFails(t) PROVE PromiseInv'
  BY <1>14, <1>0, EmptyRequest, OneRange
  DEF CloseFails, local, PromiseInv, Promised, Waiting
<1>15. ASSUME NEW t \in Threads, Publish(t) PROVE PromiseInv'
  <2>1. pc[t] = "publish_present" => claimed[t] \subseteq InState("present")'
    BY <1>15 DEF Publish, SetState, InState
  <2> QED  BY <1>15, <1>0, <2>1 DEF Publish, Goto, PromiseInv, Promised, Waiting
<1>16. ASSUME NEW t \in Threads, NotifyAfterSuccess(t) PROVE PromiseInv'
  BY <1>16, <1>0, EmptyRequest, OneRange
  DEF NotifyAfterSuccess, Woken, shared, PromiseInv, Promised, Waiting
<1>17. ASSUME NEW t \in Threads, NotifyAfterFailure(t) PROVE PromiseInv'
  BY <1>17, <1>0, EmptyRequest, OneRange
  DEF NotifyAfterFailure, Woken, shared, PromiseInv, Promised, Waiting
<1>18. ASSUME NEW t \in Threads, WaitBlocks(t) PROVE PromiseInv'
  BY <1>18, <1>0, EmptyRequest, OneRange
  DEF WaitBlocks, Goto, shared, PromiseInv, Promised, Waiting
<1>19. ASSUME NEW t \in Threads, WaitEnds(t) PROVE PromiseInv'
  <2>1. UNCHANGED <<p_pages, wanted, claimed>>  BY <1>19 DEF WaitEnds, shared
  <2>2. \A u \in Threads : u # t => pc'[u] = pc[u] /\ awaited'[u] = awaited[u]
    BY <1>19 DEF WaitEnds, Goto
  <2>3. pc'[t] = "plan" \/ (pc'[t] = "ready" /\ awaited[t] \subseteq InState("present"))
    BY <1>19 DEF WaitEnds, Goto
  <2>4. pc[t] = "wait"  BY <1>19 DEF WaitEnds
  <2> QED  BY <2>1, <2>2, <2>3, <2>4 DEF PromiseInv, Promised, Waiting, InState
<1>20. ASSUME NEW t \in Threads, SpuriousWake(t) PROVE PromiseInv'
  BY <1>20, <1>0, EmptyRequest, OneRange
  DEF SpuriousWake, Goto, shared, PromiseInv, Promised, Waiting
<1>21. CASE UNCHANGED vars
  BY <1>21 DEF vars, shared, local, PromiseInv, Promised, Waiting, InState
<1> QED
  BY <1>1, <1>2, <1>3, <1>4, <1>5, <1>6, <1>7, <1>8, <1>9, <1>10, <1>11,
     <1>12, <1>13, <1>14, <1>15, <1>16, <1>17, <1>18, <1>19, <1>20, <1>21
  DEF Next, Calls, Progress, Failures, Terminated

\* ensure and check_present return only when all that was asked for is there,
\* if no position of the file wraps when it is rounded up to a window.
THEOREM EnsureKeepsPromise ==
    ASSUME NoWrap
    PROVE  Spec => []ReturnedIsPresent
<1>1. PromiseInv => ReturnedIsPresent
  BY DEF PromiseInv, Promised, ReturnedIsPresent
<1>2. TypeInv /\ ClaimInv /\ AccessInv /\ PromiseInv /\ [Next]_vars => PromiseInv'
  BY NextPromiseInv
<1> QED  BY <1>1, <1>2, InitTypeInv, NextTypeInv, InitClaimInv, NextClaimInv, InitAccessInv, NextAccessInv, InitPromiseInv, PTL
         DEF Spec

-----------------------------------------------------------------------------
(***************************************************************************)
(* The extras of the first fetch: while they are planned, each is present  *)
(* or claimed by a fetch that carries them; other fetches have none.       *)
(***************************************************************************)
ExtrasInv ==
    /\ p_first_fetch_planned => \A p \in ExtraPages :
          p_pages[p] = "present" \/ \E t \in Threads : extras[t] /\ p \in claimed[t]
    /\ \A t \in Threads : extras[t] => p_first_fetch_planned /\ pc[t] \in Fetching
    /\ \A t, u \in Threads : extras[t] /\ extras[u] => t = u
    /\ \A t \in Threads : ~extras[t] => claimed[t] \cap ExtraPages = {}

LEMMA InitExtrasInv == Init => ExtrasInv
  BY DEF Init, ExtrasInv

LEMMA NextExtrasInv == TypeInv /\ ClaimInv /\ ExtrasInv /\ [Next]_vars => ExtrasInv'
<1> SUFFICES ASSUME TypeInv, ClaimInv, ExtrasInv, [Next]_vars PROVE ExtrasInv'
  OBVIOUS
<1> USE DEF TypeInv, TypeOK
<1>0. ExtraPages \subseteq Pages  BY ExtraPagesInPages
<1>1. ASSUME NEW t \in Threads, BeginEnsure(t) PROVE ExtrasInv'
  BY <1>1
  DEF BeginEnsure, Goto, shared, ExtrasInv, Fetching
<1>2. ASSUME NEW t \in Threads, CheckPresent(t) PROVE ExtrasInv'
  BY <1>2
  DEF CheckPresent, Goto, shared, ExtrasInv, Fetching
<1>3. ASSUME NEW t \in Threads, Finish(t) PROVE ExtrasInv'
  BY <1>3
  DEF Finish, Leave, Goto, shared, ExtrasInv, Fetching
<1>4. ASSUME NEW t \in Threads, Plan(t) PROVE ExtrasInv'
  <2> DEFINE first == ~p_first_fetch_planned
             claim == SelectAbsent(WidenedOf(wanted[t])
                         \cup (IF first THEN ExtraPages ELSE {}))
  <2>1. /\ SetState(claim, "in_flight")
        /\ claimed' = [claimed EXCEPT ![t] = claim]
        /\ extras' = [extras EXCEPT ![t] = first /\ claim # {}]
        /\ p_first_fetch_planned' = TRUE
        /\ pc[t] = "plan"
        /\ \E l \in {"open", "wait", "ready"} :
              Goto(t, l) /\ (l # "open" => claim = {})
    BY <1>4 DEF Plan
  <2>2. /\ claim \in SUBSET Pages
        /\ \A p \in claim : p_pages[p] = "absent"
        /\ first => \A p \in ExtraPages : p_pages[p] = "absent" => p \in claim
    BY PlanClaim DEF SelectAbsent
  <2>3. claimed[t] = {} /\ ~extras[t]  BY <2>1 DEF ClaimInv, ExtrasInv, Fetching
  <2>4. CASE first
    <3>1. \A u \in Threads : ~extras[u]  BY <2>4 DEF ExtrasInv
    <3>2. \A p \in ExtraPages : p_pages[p] # "in_flight"
      BY <1>0, <3>1 DEF ExtrasInv, ClaimInv
    <3>3. \A p \in ExtraPages : p_pages[p] = "present" \/ p \in claim
      BY <1>0, <2>2, <2>4, <3>2
    <3>4. \A p \in Pages : p_pages[p] = "present" => p_pages'[p] = "present"
      BY <2>1, <2>2 DEF SetState
    <3>5. \A u \in Threads : extras'[u] <=> (u = t /\ claim # {})
      BY <2>1, <2>4, <3>1
    <3>6. \A u \in Threads : claimed'[u] = IF u = t THEN claim ELSE claimed[u]
      BY <2>1
    <3>7. claim # {} => pc'[t] = "open"  BY <2>1 DEF Goto
    <3> HIDE DEF claim, first
    <3> QED  BY <1>0, <2>1, <3>1, <3>3, <3>4, <3>5, <3>6, <3>7
             DEF ExtrasInv, Fetching
  <2>5. CASE ~first
    <3>1. \A p \in ExtraPages : p_pages[p] # "absent"
      BY <1>0, <2>5 DEF ExtrasInv, ClaimInv
    <3>2. claim \cap ExtraPages = {}  BY <2>2, <3>1
    <3>3. \A p \in Pages : p_pages[p] = "present" => p_pages'[p] = "present"
      BY <2>1, <2>2 DEF SetState
    <3>4. extras' = extras  BY <2>1, <2>3, <2>5
    <3>5. \A u \in Threads : claimed'[u] = IF u = t THEN claim ELSE claimed[u]
      BY <2>1
    <3>6. \A u \in Threads : u # t => pc'[u] = pc[u]  BY <2>1 DEF Goto
    <3> HIDE DEF claim
    <3> QED  BY <1>0, <2>1, <2>3, <2>5, <3>2, <3>3, <3>4, <3>5, <3>6 DEF ExtrasInv
  <2> QED  BY <2>4, <2>5
<1>5. ASSUME NEW t \in Threads, PlanThrows(t) PROVE ExtrasInv'
  BY <1>5
  DEF PlanThrows, Leave, Goto, shared, ExtrasInv, Fetching
<1>6. ASSUME NEW t \in Threads, OpenRun(t) PROVE ExtrasInv'
  BY <1>6
  DEF OpenRun, Goto, Protect, ExtrasInv, Fetching
<1>7. ASSUME NEW t \in Threads, OpenThrows(t) PROVE ExtrasInv'
  BY <1>7
  DEF OpenThrows, Goto, Protect, ExtrasInv, Fetching
<1>8. ASSUME NEW t \in Threads, ReadPage(t) PROVE ExtrasInv'
  BY <1>8
  DEF ReadPage, ExtrasInv, Fetching
<1>9. ASSUME NEW t \in Threads, ReadReturns(t) PROVE ExtrasInv'
  BY <1>9
  DEF ReadReturns, Goto, shared, ExtrasInv, Fetching
<1>10. ASSUME NEW t \in Threads, ReadThrows(t) PROVE ExtrasInv'
  BY <1>10
  DEF ReadThrows, Goto, shared, ExtrasInv, Fetching
<1>11. ASSUME NEW t \in Threads, SealRun(t) PROVE ExtrasInv'
  BY <1>11
  DEF SealRun, Goto, Protect, ExtrasInv, Fetching
<1>12. ASSUME NEW t \in Threads, SealThrows(t) PROVE ExtrasInv'
  BY <1>12
  DEF SealThrows, Goto, Protect, ExtrasInv, Fetching
<1>13. ASSUME NEW t \in Threads, CloseRun(t) PROVE ExtrasInv'
  BY <1>13
  DEF CloseRun, Goto, Protect, ExtrasInv, Fetching
<1>14. ASSUME NEW t \in Threads, CloseFails(t) PROVE ExtrasInv'
  BY <1>14
  DEF CloseFails, local, ExtrasInv, Fetching
<1>15. ASSUME NEW t \in Threads, Publish(t) PROVE ExtrasInv'
  <2>1. \A p \in Pages : p \notin claimed[t] => p_pages'[p] = p_pages[p]
    BY <1>15 DEF Publish, SetState
  <2>2. \A u \in Threads : /\ claimed'[u] = IF u = t THEN {} ELSE claimed[u]
                           /\ extras'[u] = IF u = t THEN FALSE ELSE extras[u]
                           /\ u # t => pc'[u] = pc[u]
    BY <1>15 DEF Publish, Goto
  <2>3. \A u \in Threads : u # t => claimed[u] \cap claimed[t] = {}
    BY DEF ClaimInv
  <2>4. CASE pc[t] = "publish_present"
    <3>1. \A p \in claimed[t] : p_pages'[p] = "present"
      BY <1>15, <2>4 DEF Publish, SetState
    <3>2. p_first_fetch_planned' = p_first_fetch_planned
      BY <1>15, <2>4 DEF Publish
    <3> QED  BY <1>0, <2>1, <2>2, <3>1, <3>2 DEF ExtrasInv
  <2>5. CASE pc[t] = "publish_absent" /\ ~extras[t]
    <3>1. p_first_fetch_planned' = p_first_fetch_planned
      BY <1>15, <2>5 DEF Publish
    <3> QED  BY <1>0, <2>1, <2>2, <2>5, <3>1 DEF ExtrasInv
  <2>6. CASE pc[t] = "publish_absent" /\ extras[t]
    <3>1. p_first_fetch_planned' = FALSE  BY <1>15, <2>6 DEF Publish
    <3> QED  BY <2>2, <2>6, <3>1 DEF ExtrasInv
  <2> QED  BY <1>15, <2>4, <2>5, <2>6 DEF Publish
<1>16. ASSUME NEW t \in Threads, NotifyAfterSuccess(t) PROVE ExtrasInv'
  BY <1>16
  DEF NotifyAfterSuccess, Woken, shared, ExtrasInv, Fetching
<1>17. ASSUME NEW t \in Threads, NotifyAfterFailure(t) PROVE ExtrasInv'
  BY <1>17
  DEF NotifyAfterFailure, Woken, shared, ExtrasInv, Fetching
<1>18. ASSUME NEW t \in Threads, WaitBlocks(t) PROVE ExtrasInv'
  BY <1>18
  DEF WaitBlocks, Goto, shared, ExtrasInv, Fetching
<1>19. ASSUME NEW t \in Threads, WaitEnds(t) PROVE ExtrasInv'
  BY <1>19
  DEF WaitEnds, Goto, shared, ExtrasInv, Fetching
<1>20. ASSUME NEW t \in Threads, SpuriousWake(t) PROVE ExtrasInv'
  BY <1>20
  DEF SpuriousWake, Goto, shared, ExtrasInv, Fetching
<1>21. CASE UNCHANGED vars
  BY <1>21 DEF vars, shared, local, ExtrasInv
<1> QED
  BY <1>1, <1>2, <1>3, <1>4, <1>5, <1>6, <1>7, <1>8, <1>9, <1>10, <1>11,
     <1>12, <1>13, <1>14, <1>15, <1>16, <1>17, <1>18, <1>19, <1>20, <1>21
  DEF Next, Calls, Progress, Failures, Terminated

\* The tail, or the whole small file, is asked for again after it failed.
THEOREM ExtrasKept == Spec => []ExtrasNotForgotten
<1>1. TypeInv /\ ClaimInv /\ ExtrasInv => ExtrasNotForgotten
  BY ExtraPagesInPages
  DEF TypeInv, TypeOK, ClaimInv, ExtrasInv, ExtrasNotForgotten, InState
<1> QED  BY <1>1, InitTypeInv, NextTypeInv, InitClaimInv, NextClaimInv,
            InitExtrasInv, NextExtrasInv, PTL DEF Spec

-----------------------------------------------------------------------------
(* Waking: publish leaves a thread about to notify, and notify wakes all. *)

LEMMA NextNoLostWakeup == TypeInv /\ NoLostWakeup /\ [Next]_vars => NoLostWakeup'
<1> SUFFICES ASSUME TypeInv, NoLostWakeup, [Next]_vars PROVE NoLostWakeup'
  OBVIOUS
<1> USE DEF TypeInv, TypeOK
<1>1. ASSUME NEW t \in Threads, BeginEnsure(t) PROVE NoLostWakeup'
  BY <1>1
  DEF BeginEnsure, Goto, shared, NoLostWakeup, StillInFlight
<1>2. ASSUME NEW t \in Threads, CheckPresent(t) PROVE NoLostWakeup'
  BY <1>2
  DEF CheckPresent, Goto, shared, NoLostWakeup, StillInFlight
<1>3. ASSUME NEW t \in Threads, Finish(t) PROVE NoLostWakeup'
  BY <1>3
  DEF Finish, Leave, Goto, shared, NoLostWakeup, StillInFlight
<1>4. ASSUME NEW t \in Threads, Plan(t) PROVE NoLostWakeup'
  <2> DEFINE claim  == SelectAbsent(WidenedOf(wanted[t])
                         \cup (IF ~p_first_fetch_planned THEN ExtraPages ELSE {}))
  <2>1. claim \in SUBSET Pages  BY PlanClaim
  <2>2. /\ SetState(claim, "in_flight") /\ alive' = alive
        /\ \A u \in Threads : u # t => awaited'[u] = awaited[u] /\ pc'[u] = pc[u]
        /\ pc[t] = "plan" /\ pc'[t] \in {"open", "wait", "ready"}
    BY <1>4 DEF Plan, Goto
  <2> HIDE DEF claim
  <2>3. \A p \in Pages : p_pages[p] = "in_flight" => p_pages'[p] = "in_flight"
    BY <2>1, <2>2 DEF SetState
  <2> QED  BY <2>2, <2>3 DEF NoLostWakeup, StillInFlight
<1>5. ASSUME NEW t \in Threads, PlanThrows(t) PROVE NoLostWakeup'
  BY <1>5
  DEF PlanThrows, Leave, Goto, shared, NoLostWakeup, StillInFlight
<1>6. ASSUME NEW t \in Threads, OpenRun(t) PROVE NoLostWakeup'
  BY <1>6
  DEF OpenRun, Goto, Protect, NoLostWakeup, StillInFlight
<1>7. ASSUME NEW t \in Threads, OpenThrows(t) PROVE NoLostWakeup'
  BY <1>7
  DEF OpenThrows, Goto, Protect, NoLostWakeup, StillInFlight
<1>8. ASSUME NEW t \in Threads, ReadPage(t) PROVE NoLostWakeup'
  BY <1>8
  DEF ReadPage, NoLostWakeup, StillInFlight
<1>9. ASSUME NEW t \in Threads, ReadReturns(t) PROVE NoLostWakeup'
  BY <1>9
  DEF ReadReturns, Goto, shared, NoLostWakeup, StillInFlight
<1>10. ASSUME NEW t \in Threads, ReadThrows(t) PROVE NoLostWakeup'
  BY <1>10
  DEF ReadThrows, Goto, shared, NoLostWakeup, StillInFlight
<1>11. ASSUME NEW t \in Threads, SealRun(t) PROVE NoLostWakeup'
  BY <1>11
  DEF SealRun, Goto, Protect, NoLostWakeup, StillInFlight
<1>12. ASSUME NEW t \in Threads, SealThrows(t) PROVE NoLostWakeup'
  BY <1>12
  DEF SealThrows, Goto, Protect, NoLostWakeup, StillInFlight
<1>13. ASSUME NEW t \in Threads, CloseRun(t) PROVE NoLostWakeup'
  BY <1>13
  DEF CloseRun, Goto, Protect, NoLostWakeup, StillInFlight
<1>14. ASSUME NEW t \in Threads, CloseFails(t) PROVE NoLostWakeup'
  BY <1>14
  DEF CloseFails, local, NoLostWakeup, StillInFlight
<1>15. ASSUME NEW t \in Threads, Publish(t) PROVE NoLostWakeup'
  BY <1>15
  DEF Publish, Goto, SetState, NoLostWakeup, StillInFlight
<1>16. ASSUME NEW t \in Threads, NotifyAfterSuccess(t) PROVE NoLostWakeup'
  BY <1>16
  DEF NotifyAfterSuccess, Woken, shared, NoLostWakeup, StillInFlight
<1>17. ASSUME NEW t \in Threads, NotifyAfterFailure(t) PROVE NoLostWakeup'
  BY <1>17
  DEF NotifyAfterFailure, Woken, shared, NoLostWakeup, StillInFlight
<1>18. ASSUME NEW t \in Threads, WaitBlocks(t) PROVE NoLostWakeup'
  BY <1>18
  DEF WaitBlocks, Goto, shared, NoLostWakeup, StillInFlight
<1>19. ASSUME NEW t \in Threads, WaitEnds(t) PROVE NoLostWakeup'
  BY <1>19
  DEF WaitEnds, Goto, shared, NoLostWakeup, StillInFlight
<1>20. ASSUME NEW t \in Threads, SpuriousWake(t) PROVE NoLostWakeup'
  BY <1>20
  DEF SpuriousWake, Goto, shared, NoLostWakeup, StillInFlight
<1>21. CASE UNCHANGED vars
  BY <1>21 DEF vars, shared, local, NoLostWakeup, StillInFlight
<1> QED
  BY <1>1, <1>2, <1>3, <1>4, <1>5, <1>6, <1>7, <1>8, <1>9, <1>10, <1>11,
     <1>12, <1>13, <1>14, <1>15, <1>16, <1>17, <1>18, <1>19, <1>20, <1>21
  DEF Next, Calls, Progress, Failures, Terminated

\* No thread sleeps past the end of the fetches it waits for.
THEOREM WakeupsNotLost == Spec => []NoLostWakeup
<1>1. Init => NoLostWakeup  BY DEF Init, NoLostWakeup
<1> QED  BY <1>1, InitTypeInv, NextTypeInv, NextNoLostWakeup, PTL DEF Spec

-----------------------------------------------------------------------------
(* What a thread fetches for: its windows and the extras, nothing else. *)

AllowedInv == \A t \in Threads :
    claimed[t] \subseteq WidenedOf(wanted[t]) \cup ExtraPages

LEMMA NextAllowedInv == TypeInv /\ ClaimInv /\ AllowedInv /\ [Next]_vars => AllowedInv'
<1> SUFFICES ASSUME TypeInv, ClaimInv, AllowedInv, [Next]_vars PROVE AllowedInv'
  OBVIOUS
<1> USE DEF TypeInv, TypeOK
<1>1. ASSUME NEW t \in Threads, BeginEnsure(t) PROVE AllowedInv'
  BY <1>1
  DEF BeginEnsure, Goto, shared, AllowedInv, ClaimInv, Fetching
<1>2. ASSUME NEW t \in Threads, CheckPresent(t) PROVE AllowedInv'
  BY <1>2
  DEF CheckPresent, Goto, shared, AllowedInv, ClaimInv, Fetching
<1>3. ASSUME NEW t \in Threads, Finish(t) PROVE AllowedInv'
  BY <1>3
  DEF Finish, Leave, Goto, shared, AllowedInv, ClaimInv, Fetching
<1>4. ASSUME NEW t \in Threads, Plan(t) PROVE AllowedInv'
  <2> DEFINE claim  == SelectAbsent(WidenedOf(wanted[t])
                         \cup (IF ~p_first_fetch_planned THEN ExtraPages ELSE {}))
  <2>1. claimed' = [claimed EXCEPT ![t] = claim] /\ wanted' = wanted
    BY <1>4 DEF Plan
  <2>2. claim \subseteq WidenedOf(wanted[t]) \cup ExtraPages
    BY DEF SelectAbsent
  <2> HIDE DEF claim
  <2> QED  BY <2>1, <2>2 DEF AllowedInv
<1>5. ASSUME NEW t \in Threads, PlanThrows(t) PROVE AllowedInv'
  BY <1>5
  DEF PlanThrows, Leave, Goto, shared, AllowedInv, ClaimInv, Fetching
<1>6. ASSUME NEW t \in Threads, OpenRun(t) PROVE AllowedInv'
  BY <1>6
  DEF OpenRun, Goto, AllowedInv, ClaimInv, Fetching
<1>7. ASSUME NEW t \in Threads, OpenThrows(t) PROVE AllowedInv'
  BY <1>7
  DEF OpenThrows, Goto, AllowedInv, ClaimInv, Fetching
<1>8. ASSUME NEW t \in Threads, ReadPage(t) PROVE AllowedInv'
  BY <1>8
  DEF ReadPage, AllowedInv, ClaimInv, Fetching
<1>9. ASSUME NEW t \in Threads, ReadReturns(t) PROVE AllowedInv'
  BY <1>9
  DEF ReadReturns, Goto, shared, AllowedInv, ClaimInv, Fetching
<1>10. ASSUME NEW t \in Threads, ReadThrows(t) PROVE AllowedInv'
  BY <1>10
  DEF ReadThrows, Goto, shared, AllowedInv, ClaimInv, Fetching
<1>11. ASSUME NEW t \in Threads, SealRun(t) PROVE AllowedInv'
  BY <1>11
  DEF SealRun, Goto, AllowedInv, ClaimInv, Fetching
<1>12. ASSUME NEW t \in Threads, SealThrows(t) PROVE AllowedInv'
  BY <1>12
  DEF SealThrows, Goto, AllowedInv, ClaimInv, Fetching
<1>13. ASSUME NEW t \in Threads, CloseRun(t) PROVE AllowedInv'
  BY <1>13
  DEF CloseRun, Goto, AllowedInv, ClaimInv, Fetching
<1>14. ASSUME NEW t \in Threads, CloseFails(t) PROVE AllowedInv'
  BY <1>14
  DEF CloseFails, local, AllowedInv, ClaimInv, Fetching
<1>15. ASSUME NEW t \in Threads, Publish(t) PROVE AllowedInv'
  BY <1>15
  DEF Publish, Goto, SetState, AllowedInv, ClaimInv, Fetching
<1>16. ASSUME NEW t \in Threads, NotifyAfterSuccess(t) PROVE AllowedInv'
  BY <1>16
  DEF NotifyAfterSuccess, Woken, shared, AllowedInv, ClaimInv, Fetching
<1>17. ASSUME NEW t \in Threads, NotifyAfterFailure(t) PROVE AllowedInv'
  BY <1>17
  DEF NotifyAfterFailure, Woken, shared, AllowedInv, ClaimInv, Fetching
<1>18. ASSUME NEW t \in Threads, WaitBlocks(t) PROVE AllowedInv'
  BY <1>18
  DEF WaitBlocks, Goto, shared, AllowedInv, ClaimInv, Fetching
<1>19. ASSUME NEW t \in Threads, WaitEnds(t) PROVE AllowedInv'
  BY <1>19
  DEF WaitEnds, Goto, shared, AllowedInv, ClaimInv, Fetching
<1>20. ASSUME NEW t \in Threads, SpuriousWake(t) PROVE AllowedInv'
  BY <1>20
  DEF SpuriousWake, Goto, shared, AllowedInv, ClaimInv, Fetching
<1>21. CASE UNCHANGED vars
  BY <1>21 DEF vars, shared, local, AllowedInv
<1> QED
  BY <1>1, <1>2, <1>3, <1>4, <1>5, <1>6, <1>7, <1>8, <1>9, <1>10, <1>11,
     <1>12, <1>13, <1>14, <1>15, <1>16, <1>17, <1>18, <1>19, <1>20, <1>21
  DEF Next, Calls, Progress, Failures, Terminated

-----------------------------------------------------------------------------
(* The buffer implements PageCache, step by step. *)

LEMMA InitRefines == Init => Cache!Init
<1>1. ExactOf({}) = {} /\ WidenedOf({}) = {}  BY DEF ExactOf, WidenedOf
<1> QED  BY <1>1 DEF Init, Cache!Init, Have, Status, Need, Allow, InState

\* Steps that callers cannot see.
LEMMA InvisibleStep ==
    ASSUME UNCHANGED <<p_pages, wanted>>,
           \A t \in Threads : /\ pc'[t] = "idle" <=> pc[t] = "idle"
                              /\ pc'[t] = "ready" <=> pc[t] = "ready"
    PROVE  UNCHANGED Cache!vars
  BY DEF Cache!vars, Have, Status, Need, Allow, InState

\* A thread leaves ensure, with its answer or an exception.
LEMMA LeaveStep ==
    ASSUME TypeInv, NEW t \in Threads, pc[t] # "idle", UNCHANGED p_pages,
           wanted' = [wanted EXCEPT ![t] = {}],
           pc'[t] = "idle",
           \A u \in Threads \ {t} : /\ pc'[u] = "idle" <=> pc[u] = "idle"
                                    /\ pc'[u] = "ready" <=> pc[u] = "ready"
    PROVE  Cache!Leave(t)
<1>1. ExactOf({}) = {} /\ WidenedOf({}) = {}  BY DEF ExactOf, WidenedOf
<1>2. wanted \in [Threads -> SUBSET ByteRanges]  BY DEF TypeInv, TypeOK
<1>3. Status[t] # "idle"  BY DEF Status
<1>4. Status' = [Status EXCEPT ![t] = "idle"]  BY DEF Status
<1>5. Need' = [Need EXCEPT ![t] = {}] /\ Allow' = [Allow EXCEPT ![t] = {}]
  BY <1>1, <1>2 DEF Need, Allow
<1>6. Have' = Have  BY DEF Have, InState
<1> QED  BY <1>3, <1>4, <1>5, <1>6 DEF Cache!Leave, Cache!Set

\* A thread comes to its answer.
LEMMA ServeStep ==
    ASSUME PromiseInv', NEW t \in Threads, UNCHANGED <<p_pages, wanted>>,
           pc[t] \notin Outside, pc'[t] = "ready",
           \A u \in Threads \ {t} : /\ pc'[u] = "idle" <=> pc[u] = "idle"
                                    /\ pc'[u] = "ready" <=> pc[u] = "ready"
    PROVE  Cache!Serve(t)
<1>1. Status[t] = "pending" /\ Status' = [Status EXCEPT ![t] = "served"]
  BY DEF Status, Outside
<1>2. ExactOf(wanted[t]) \subseteq InState("present")
  BY DEF PromiseInv, Promised, InState
<1>3. UNCHANGED <<Have, Need, Allow>>  BY DEF Have, Need, Allow, InState
<1> QED  BY <1>1, <1>2, <1>3 DEF Cache!Serve, Cache!Set, Need, Have

\* A thread asks, and may be answered at once.
LEMMA AskStep ==
    ASSUME NoWrap, TypeInv, TypeInv', PromiseInv', NEW t \in Threads,
           UNCHANGED p_pages, pc[t] = "idle",
           NEW ranges, wanted' = [wanted EXCEPT ![t] = ranges],
           NEW l \in {"plan", "ready"}, pc' = [pc EXCEPT ![t] = l]
    PROVE  Cache!Ask(t)
<1> DEFINE exact == ExactOf(ranges)  window == WidenedOf(ranges)
<1>1. wanted'[t] = ranges /\ pc'[t] = l  BY DEF TypeInv, TypeOK
<1>2. ranges \in SUBSET ByteRanges /\ \A r \in ranges : InBounds(r)
  BY <1>1 DEF TypeInv, TypeOK, WantedInBounds
<1>3. window \in SUBSET Pages /\ exact \in SUBSET window
  BY <1>2, RequestInPages
<1>4. Need' = [Need EXCEPT ![t] = exact] /\ Allow' = [Allow EXCEPT ![t] = window]
  BY DEF Need, Allow, TypeInv, TypeOK
<1>5. l = "ready" => exact \subseteq Have
  BY <1>1 DEF PromiseInv, Promised, Have, InState
<1>6. /\ Status[t] = "idle"
      /\ l = "plan" => Status' = [Status EXCEPT ![t] = "pending"]
      /\ l = "ready" => Status' = [Status EXCEPT ![t] = "served"]
  BY DEF Status, TypeInv, TypeOK
<1>7. Have' = Have  BY DEF Have, InState
<1> HIDE DEF exact, window
<1> QED  BY <1>3, <1>4, <1>5, <1>6, <1>7 DEF Cache!Ask, Cache!Set

LEMMA NextRefines ==
    ASSUME NoWrap, TypeInv, ClaimInv, AccessInv, AllowedInv, PromiseInv,
           TypeInv', PromiseInv', [Next]_vars
    PROVE  [Cache!Next]_(Cache!vars)
<1> DEFINE Maps == [Cache!Next]_(Cache!vars)
<1> USE DEF TypeInv, TypeOK
<1>1. ASSUME NEW t \in Threads, BeginEnsure(t) PROVE Maps
  <2>1. Cache!Ask(t)
    BY <1>1, AskStep DEF BeginEnsure, Goto, shared
  <2> QED  BY <2>1 DEF Cache!Next
<1>2. ASSUME NEW t \in Threads, CheckPresent(t) PROVE Maps
  <2>1. Cache!Ask(t)
    BY <1>2, AskStep DEF CheckPresent, Goto, shared
  <2> QED  BY <2>1 DEF Cache!Next
<1>3. ASSUME NEW t \in Threads, Finish(t) PROVE Maps
  <2>1. Cache!Leave(t)
    BY <1>3, LeaveStep DEF Finish, Leave, Goto, shared
  <2> QED  BY <2>1 DEF Cache!Next
<1>4. ASSUME NEW t \in Threads, Plan(t) PROVE Maps
  <2>1. InState("present")' = InState("present")
    BY <1>4 DEF Plan, SetState, SelectAbsent, InState
  <2>2. /\ wanted' = wanted /\ pc[t] = "plan"
        /\ \E l \in {"open", "wait", "ready"} : pc' = [pc EXCEPT ![t] = l]
    BY <1>4 DEF Plan, Goto
  <2>3. UNCHANGED <<Have, Need, Allow>>  BY <2>1, <2>2 DEF Have, Need, Allow
  <2>4. CASE pc'[t] = "ready"
    <3>1. Status[t] = "pending" /\ Status' = [Status EXCEPT ![t] = "served"]
      BY <2>2, <2>4, ZenonT(30) DEF Status
    <3>2. Need[t] \subseteq Have
      BY <2>1, <2>2, <2>4 DEF PromiseInv, Promised, Need, Have
    <3>3. Cache!Serve(t)  BY <2>3, <3>1, <3>2 DEF Cache!Serve, Cache!Set
    <3> QED  BY <3>3 DEF Cache!Next
  <2>5. CASE pc'[t] # "ready"
    <3>1. Status' = Status  BY <2>2, <2>5 DEF Status
    <3> QED  BY <2>3, <3>1 DEF Cache!vars
  <2> QED  BY <2>4, <2>5
<1>5. ASSUME NEW t \in Threads, PlanThrows(t) PROVE Maps
  <2>1. Cache!Leave(t)
    BY <1>5, LeaveStep DEF PlanThrows, Leave, Goto, shared
  <2> QED  BY <2>1 DEF Cache!Next
<1>6. ASSUME NEW t \in Threads, OpenRun(t) PROVE Maps
  BY <1>6, InvisibleStep DEF OpenRun, Goto
<1>7. ASSUME NEW t \in Threads, OpenThrows(t) PROVE Maps
  BY <1>7, InvisibleStep DEF OpenThrows, Goto
<1>8. ASSUME NEW t \in Threads, ReadPage(t) PROVE Maps
  BY <1>8, InvisibleStep DEF ReadPage
<1>9. ASSUME NEW t \in Threads, ReadReturns(t) PROVE Maps
  BY <1>9, InvisibleStep DEF ReadReturns, Goto, shared
<1>10. ASSUME NEW t \in Threads, ReadThrows(t) PROVE Maps
  BY <1>10, InvisibleStep DEF ReadThrows, Goto, shared
<1>11. ASSUME NEW t \in Threads, SealRun(t) PROVE Maps
  BY <1>11, InvisibleStep DEF SealRun, Goto
<1>12. ASSUME NEW t \in Threads, SealThrows(t) PROVE Maps
  BY <1>12, InvisibleStep DEF SealThrows, Goto
<1>13. ASSUME NEW t \in Threads, CloseRun(t) PROVE Maps
  BY <1>13, InvisibleStep DEF CloseRun, Goto
<1>14. ASSUME NEW t \in Threads, CloseFails(t) PROVE Maps
  BY <1>14, InvisibleStep DEF CloseFails, local
<1>15. ASSUME NEW t \in Threads, Publish(t) PROVE Maps
  <2>1. UNCHANGED <<Status, Need, Allow>>
    BY <1>15 DEF Publish, Goto, Status, Need, Allow
  <2>2. CASE pc[t] = "publish_present"
    <3>1. Have' = Have \cup claimed[t]
      BY <1>15, <2>2 DEF Publish, SetState, Have, InState
    <3>2. claimed[t] \in SUBSET (Allow[t] \cup ExtraPages)
      BY DEF AllowedInv, Allow
    <3>3. Status[t] = "pending"  BY <2>2 DEF Status
    <3>4. Cache!Arrive(t)  BY <2>1, <3>1, <3>2, <3>3 DEF Cache!Arrive
    <3> QED  BY <3>4 DEF Cache!Next
  <2>3. CASE pc[t] = "publish_absent"
    <3>1. Have' = Have
      BY <1>15, <2>3 DEF Publish, SetState, Have, InState, ClaimInv
    <3> QED  BY <2>1, <3>1 DEF Cache!vars
  <2> QED  BY <1>15, <2>2, <2>3 DEF Publish
<1>16. ASSUME NEW t \in Threads, NotifyAfterSuccess(t) PROVE Maps
  <2>1. CASE awaited[t] = {}
    <3>1. Cache!Serve(t)
      BY <1>16, <2>1, ServeStep DEF NotifyAfterSuccess, Woken, shared, Outside
    <3> QED  BY <3>1 DEF Cache!Next
  <2>2. CASE awaited[t] # {}
    BY <1>16, <2>2, InvisibleStep DEF NotifyAfterSuccess, Woken, shared
  <2> QED  BY <2>1, <2>2
<1>17. ASSUME NEW t \in Threads, NotifyAfterFailure(t) PROVE Maps
  <2>1. Cache!Leave(t)
    BY <1>17, LeaveStep DEF NotifyAfterFailure, Woken, shared
  <2> QED  BY <2>1 DEF Cache!Next
<1>18. ASSUME NEW t \in Threads, WaitBlocks(t) PROVE Maps
  BY <1>18, InvisibleStep DEF WaitBlocks, Goto, shared
<1>19. ASSUME NEW t \in Threads, WaitEnds(t) PROVE Maps
  <2>1. CASE awaited[t] \subseteq InState("present")
    <3>1. Cache!Serve(t)
      BY <1>19, <2>1, ServeStep DEF WaitEnds, Goto, shared, Outside
    <3> QED  BY <3>1 DEF Cache!Next
  <2>2. CASE ~(awaited[t] \subseteq InState("present"))
    BY <1>19, <2>2, InvisibleStep DEF WaitEnds, Goto, shared
  <2> QED  BY <2>1, <2>2
<1>20. ASSUME NEW t \in Threads, SpuriousWake(t) PROVE Maps
  BY <1>20, InvisibleStep DEF SpuriousWake, Goto, shared
<1>21. CASE UNCHANGED vars
  BY <1>21, InvisibleStep DEF vars, shared, local
<1> QED
  BY <1>1, <1>2, <1>3, <1>4, <1>5, <1>6, <1>7, <1>8, <1>9, <1>10, <1>11,
     <1>12, <1>13, <1>14, <1>15, <1>16, <1>17, <1>18, <1>19, <1>20, <1>21
  DEF Next, Calls, Progress, Failures, Terminated

\* What callers see of the buffer is the abstract cache, for any number of
\* threads and pages, whatever fails and whoever fetches.
THEOREM BufferImplementsCache ==
    ASSUME NoWrap
    PROVE  Spec => ImplementsPageCache
<1>1. Init => AllowedInv  BY DEF Init, AllowedInv
<1>2. TypeInv /\ ClaimInv /\ AccessInv /\ PromiseInv /\ [Next]_vars => PromiseInv'
  BY NextPromiseInv
<1>3. TypeInv /\ ClaimInv /\ AccessInv /\ AllowedInv /\ PromiseInv
        /\ TypeInv' /\ PromiseInv' /\ [Next]_vars => [Cache!Next]_(Cache!vars)
  BY NextRefines
<1> QED  BY <1>1, <1>2, <1>3, InitTypeInv, NextTypeInv, InitClaimInv,
            NextClaimInv, InitAccessInv, NextAccessInv, InitPromiseInv,
            NextAllowedInv, InitRefines, PTL
         DEF Spec, ImplementsPageCache, Cache!Spec

=============================================================================
