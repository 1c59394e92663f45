---------------------------- MODULE RemoteBuffer ----------------------------
(***************************************************************************)
(* remote_buffer: a lazily fetched, page granular copy of a remote file,   *)
(* shared by threads that call ensure, check_present and read.             *)
(*                                                                         *)
(* A thread in ensure plans under the mutex (it claims the absent pages of *)
(* its request and notes the pages other threads are fetching), fetches    *)
(* its claim without the mutex (opens the pages, lets the reader write     *)
(* them, seals them), publishes the outcome under the mutex, wakes the     *)
(* waiters, waits for the pages it noted, and plans again when one of      *)
(* those fetches failed.  A section under the mutex is one step.           *)
(* Definitions named X_Y are plausible errors in X, for the mutation runs. *)
(***************************************************************************)
EXTENDS PageMath

CONSTANTS
    Threads,          \* the threads that share the buffer
    Requests,         \* the spans of byte ranges ensure is called with, as sets
    OpenMayLeak       \* may a run be opened without fetch counting it?

ASSUME RemoteBufferAssumption ==
    /\ Requests \subseteq SUBSET ByteRanges
    /\ OpenMayLeak \in BOOLEAN

VARIABLES
    p_pages,                \* page_state of each page
    p_first_fetch_planned,
    prot,                   \* p_region: access to each page: none, rw or ro
    filled,                 \* the pages whose bytes the reader has written
    alive,                  \* FALSE once std::terminate was called
    pc,                     \* where each thread is in ensure
    wanted,                 \* ensure's wanted: its ranges that have bytes
    claimed,                \* the pages of fetch_plan.runs
    todo,                   \* those the loop at hand has still to visit
    awaited,                \* fetch_plan.awaited
    extras                  \* fetch_plan.includes_first_extras, for a fetch

shared == <<p_pages, p_first_fetch_planned, prot, filled, alive>>
local  == <<pc, wanted, claimed, todo, awaited, extras>>
vars   == <<shared, local>>

Fetching == {"open", "read", "seal", "publish_present",
             "close", "publish_absent"}
Waiting  == {"wait", "blocked"}
Outside  == {"idle", "ready"}
Labels   == Fetching \cup Waiting \cup Outside
                \cup {"plan", "notify_present", "notify_absent"}

TypeOK ==
    /\ p_pages \in [Pages -> {"absent", "in_flight", "present"}]
    /\ p_first_fetch_planned \in BOOLEAN
    /\ prot \in [Pages -> {"none", "rw", "ro"}]
    /\ filled \in SUBSET Pages
    /\ alive \in BOOLEAN
    /\ pc \in [Threads -> Labels]
    /\ wanted \in [Threads -> SUBSET ByteRanges]
    /\ claimed \in [Threads -> SUBSET Pages]
    /\ todo \in [Threads -> SUBSET Pages]
    /\ awaited \in [Threads -> SUBSET Pages]
    /\ extras \in [Threads -> BOOLEAN]

InState(s) == {p \in Pages : p_pages[p] = s}

Init ==
    /\ p_pages = [p \in Pages |-> "absent"]
    /\ p_first_fetch_planned = FALSE
    /\ prot = [p \in Pages |-> "none"]
    /\ filled = {}
    /\ alive = TRUE
    /\ pc = [t \in Threads |-> "idle"]
    /\ wanted = [t \in Threads |-> {}]
    /\ claimed = [t \in Threads |-> {}]
    /\ todo = [t \in Threads |-> {}]
    /\ awaited = [t \in Threads |-> {}]
    /\ extras = [t \in Threads |-> FALSE]

-----------------------------------------------------------------------------
\* set_state, and the accesses of a run.
SetState(pages, state) ==
    p_pages' = [p \in Pages |-> IF p \in pages THEN state ELSE p_pages[p]]

Protect(pages, access) ==
    prot' = [p \in Pages |-> IF p \in pages THEN access ELSE prot[p]]

Goto(t, label) == pc' = [pc EXCEPT ![t] = label]

\* The call is over: ensure returned, or let an exception out.
Leave(t) ==
    /\ Goto(t, "idle")
    /\ wanted' = [wanted EXCEPT ![t] = {}]
    /\ awaited' = [awaited EXCEPT ![t] = {}]

-----------------------------------------------------------------------------
(***************************************************************************)
(* ensure: checks every range before it does anything, and drops the empty *)
(* ones.  A range out of bounds throws and changes nothing.                *)
(***************************************************************************)
BeginEnsure(t) ==
    /\ alive /\ pc[t] = "idle"
    /\ \E request \in Requests :
         LET nonEmpty == {r \in request : r.size # 0}
         IN  /\ \A r \in request : InBounds(r)
             /\ wanted' = [wanted EXCEPT ![t] = nonEmpty]
             /\ Goto(t, IF nonEmpty = {} THEN "ready" ELSE "plan")
    /\ UNCHANGED <<shared, claimed, todo, awaited, extras>>

\* check_present: one range; it throws, changing nothing, unless all of its
\* pages are present.
CheckPresent(t) ==
    /\ alive /\ pc[t] = "idle"
    /\ \E request \in Requests : \E r \in request :
         /\ InBounds(r)
         /\ r.size # 0
         /\ ExactPages(r) \subseteq InState("present")
         /\ wanted' = [wanted EXCEPT ![t] = {r}]
    /\ Goto(t, "ready")
    /\ UNCHANGED <<shared, claimed, todo, awaited, extras>>

\* The caller is done with the bytes it was promised.
Finish(t) ==
    /\ alive /\ pc[t] = "ready"
    /\ Leave(t)
    /\ UNCHANGED <<shared, claimed, todo, extras>>

-----------------------------------------------------------------------------
(***************************************************************************)
(* plan, under the mutex: claim the absent pages of the widened ranges and *)
(* of the first-fetch extras, await those of the exact ranges in flight.   *)
(***************************************************************************)
SelectAbsent_NotPresent(pages) == {p \in pages : p_pages[p] # "present"}

SelectAbsent_OneMore(pages) ==
    {p \in pages \cup {q + 1 : q \in pages} :
        p \in Pages => p_pages[p] = "absent"}

\* select_absent indexes p_pages: every page it is given must exist.
SelectAbsent(pages) == {p \in pages : p_pages[p] = "absent"}

Plan(t) ==
    LET first  == ~p_first_fetch_planned
        claim  == SelectAbsent(WidenedOf(wanted[t])
                                 \cup (IF first THEN ExtraPages ELSE {}))
        others == {p \in ExactOf(wanted[t]) :
                      p_pages[p] = "in_flight" /\ p \notin claim}
    IN  /\ alive /\ pc[t] = "plan"
        /\ SetState(claim, "in_flight")
        /\ p_first_fetch_planned' = TRUE
        /\ claimed' = [claimed EXCEPT ![t] = claim]
        /\ todo' = [todo EXCEPT ![t] = claim]
        /\ awaited' = [awaited EXCEPT ![t] = others]
        /\ extras' = [extras EXCEPT ![t] = first /\ claim # {}]
        /\ Goto(t, IF claim # {} THEN "open"
                   ELSE IF others # {} THEN "wait" ELSE "ready")
        /\ UNCHANGED <<prot, filled, alive, wanted>>

\* An allocation of plan failed: it allocates before it changes a page.
PlanThrows(t) ==
    /\ alive /\ pc[t] = "plan"
    /\ Leave(t)
    /\ UNCHANGED <<shared, claimed, todo, extras>>

-----------------------------------------------------------------------------
(***************************************************************************)
(* fetch: make_writable each run, read_ranges, seal each run.  An          *)
(* exception anywhere leads to close_pages on the runs opened so far.      *)
(***************************************************************************)
OpenRun_First(t) ==
    /\ alive /\ pc[t] = "open"
    /\ Protect(FirstRun(todo[t]), "rw")
    /\ todo' = [todo EXCEPT ![t] = claimed[t]]
    /\ Goto(t, "read")
    /\ UNCHANGED <<p_pages, p_first_fetch_planned, filled, alive,
                   wanted, claimed, awaited, extras>>

OpenRun(t) ==
    LET run  == FirstRun(todo[t])
        left == todo[t] \ run
    IN  /\ alive /\ pc[t] = "open"
        /\ Protect(run, "rw")
        /\ todo' = [todo EXCEPT ![t] = IF left = {} THEN claimed[t] ELSE left]
        /\ Goto(t, IF left = {} THEN "read" ELSE "open")
        /\ UNCHANGED <<p_pages, p_first_fetch_planned, filled, alive,
                       wanted, claimed, awaited, extras>>

(***************************************************************************)
(* The open loop threw at a run, which opened does not count.  Its pages   *)
(* may be accessible all the same: the push_back of the address            *)
(* make_writable returned failed, or mprotect failed after it had changed  *)
(* some of the pages, as POSIX lets it.                                    *)
(***************************************************************************)
OpenThrows(t) ==
    /\ alive /\ pc[t] = "open"
    /\ \E part \in SUBSET FirstRun(todo[t]) :
         /\ part # {} => OpenMayLeak
         /\ Protect(part, "rw")
    /\ todo' = [todo EXCEPT ![t] = claimed[t] \ todo[t]]
    /\ Goto(t, IF claimed[t] \ todo[t] = {} THEN "publish_absent" ELSE "close")
    /\ UNCHANGED <<p_pages, p_first_fetch_planned, filled, alive,
                   wanted, claimed, awaited, extras>>

\* The reader writes the bytes of a page; pages arrive in any order.
ReadPage(t) ==
    /\ alive /\ pc[t] = "read"
    /\ \E p \in todo[t] :
         /\ filled' = filled \cup {p}
         /\ todo' = [todo EXCEPT ![t] = @ \ {p}]
    /\ UNCHANGED <<p_pages, p_first_fetch_planned, prot, alive,
                   pc, wanted, claimed, awaited, extras>>

ReadReturns(t) ==
    /\ alive /\ pc[t] = "read" /\ todo[t] = {}
    /\ Goto(t, "seal")
    /\ todo' = [todo EXCEPT ![t] = claimed[t]]
    /\ UNCHANGED <<shared, wanted, claimed, awaited, extras>>

ReadThrows_NoClose(t) ==
    /\ alive /\ pc[t] = "read"
    /\ Goto(t, "publish_absent")
    /\ todo' = [todo EXCEPT ![t] = {}]
    /\ UNCHANGED <<shared, wanted, claimed, awaited, extras>>

\* The reader threw: some of the pages may have been written.
ReadThrows(t) ==
    /\ alive /\ pc[t] = "read"
    /\ Goto(t, "close")
    /\ todo' = [todo EXCEPT ![t] = claimed[t]]
    /\ UNCHANGED <<shared, wanted, claimed, awaited, extras>>

SealRun_Last(t) ==
    /\ alive /\ pc[t] = "seal"
    /\ Protect(FirstRun(todo[t]), "ro")
    /\ todo' = [todo EXCEPT ![t] = {}]
    /\ Goto(t, "publish_present")
    /\ UNCHANGED <<p_pages, p_first_fetch_planned, filled, alive,
                   wanted, claimed, awaited, extras>>

SealRun(t) ==
    LET run == FirstRun(todo[t])
    IN  /\ alive /\ pc[t] = "seal"
        /\ Protect(run, "ro")
        /\ todo' = [todo EXCEPT ![t] = @ \ run]
        /\ Goto(t, IF todo[t] \ run = {} THEN "publish_present" ELSE "seal")
        /\ UNCHANGED <<p_pages, p_first_fetch_planned, filled, alive,
                       wanted, claimed, awaited, extras>>

\* mprotect may have changed some pages of the run; all are closed anyway.
SealThrows(t) ==
    /\ alive /\ pc[t] = "seal"
    /\ \E part \in SUBSET FirstRun(todo[t]) : Protect(part, "ro")
    /\ todo' = [todo EXCEPT ![t] = claimed[t]]
    /\ Goto(t, "close")
    /\ UNCHANGED <<p_pages, p_first_fetch_planned, filled, alive,
                   wanted, claimed, awaited, extras>>

\* close_pages is noexcept: a failure inside it ends the program.
CloseRun(t) ==
    LET run == FirstRun(todo[t])
    IN  /\ alive /\ pc[t] = "close"
        /\ Protect(run, "none")
        /\ todo' = [todo EXCEPT ![t] = @ \ run]
        /\ Goto(t, IF todo[t] \ run = {} THEN "publish_absent" ELSE "close")
        /\ UNCHANGED <<p_pages, p_first_fetch_planned, filled, alive,
                       wanted, claimed, awaited, extras>>

CloseFails(t) ==
    /\ alive /\ pc[t] = "close"
    /\ alive' = FALSE
    /\ UNCHANGED <<p_pages, p_first_fetch_planned, prot, filled, local>>

-----------------------------------------------------------------------------
(* publish: the new state of the claim, under the mutex, then notify_all. *)

Publish_KeepPlanned(t) ==
    /\ alive /\ pc[t] \in {"publish_present", "publish_absent"}
    /\ LET ok == pc[t] = "publish_present"
       IN  /\ SetState(claimed[t], IF ok THEN "present" ELSE "absent")
           /\ Goto(t, IF ok THEN "notify_present" ELSE "notify_absent")
    /\ claimed' = [claimed EXCEPT ![t] = {}]
    /\ extras' = [extras EXCEPT ![t] = FALSE]
    /\ UNCHANGED <<p_first_fetch_planned, prot, filled, alive,
                   wanted, todo, awaited>>

Publish(t) ==
    LET ok == pc[t] = "publish_present"
    IN  /\ alive /\ pc[t] \in {"publish_present", "publish_absent"}
        /\ SetState(claimed[t], IF ok THEN "present" ELSE "absent")
        /\ p_first_fetch_planned' =
               (p_first_fetch_planned /\ (ok \/ ~extras[t]))
        /\ claimed' = [claimed EXCEPT ![t] = {}]
        /\ extras' = [extras EXCEPT ![t] = FALSE]
        /\ Goto(t, IF ok THEN "notify_present" ELSE "notify_absent")
        /\ UNCHANGED <<prot, filled, alive, wanted, todo, awaited>>

Woken_One(labels) ==
    LET blocked == {t \in Threads : labels[t] = "blocked"}
    IN  [t \in Threads |->
            IF t \in blocked /\ t = CHOOSE u \in blocked : TRUE
            THEN "wait" ELSE labels[t]]

\* Every blocked thread competes for the mutex again.
Woken(labels) ==
    [t \in Threads |-> IF labels[t] = "blocked" THEN "wait" ELSE labels[t]]

NotifyAfterSuccess(t) ==
    /\ alive /\ pc[t] = "notify_present"
    /\ pc' = [Woken(pc) EXCEPT ![t] =
                 IF awaited[t] = {} THEN "ready" ELSE "wait"]
    /\ UNCHANGED <<shared, wanted, claimed, todo, awaited, extras>>

NotifyAfterFailure_Silent(t) ==
    /\ alive /\ pc[t] = "notify_absent"
    /\ Leave(t)
    /\ UNCHANGED <<shared, claimed, todo, extras>>

\* fetch rethrows once it has published.
NotifyAfterFailure(t) ==
    /\ alive /\ pc[t] = "notify_absent"
    /\ pc' = [Woken(pc) EXCEPT ![t] = "idle"]
    /\ wanted' = [wanted EXCEPT ![t] = {}]
    /\ awaited' = [awaited EXCEPT ![t] = {}]
    /\ UNCHANGED <<shared, claimed, todo, extras>>

-----------------------------------------------------------------------------
(***************************************************************************)
(* wait_for, holding the mutex: the predicate of the condition variable,   *)
(* then the answer, in one section.  Blocking releases the mutex.          *)
(***************************************************************************)
StillInFlight(t) == \E p \in awaited[t] : p_pages[p] = "in_flight"

WaitBlocks(t) ==
    /\ alive /\ pc[t] = "wait" /\ StillInFlight(t)
    /\ Goto(t, "blocked")
    /\ UNCHANGED <<shared, wanted, claimed, todo, awaited, extras>>

WaitEnds_Trusting(t) ==
    /\ alive /\ pc[t] = "wait" /\ ~StillInFlight(t)
    /\ Goto(t, "ready")
    /\ awaited' = [awaited EXCEPT ![t] = {}]
    /\ UNCHANGED <<shared, wanted, claimed, todo, extras>>

\* ensure returns when every awaited page arrived, else it plans again.
WaitEnds(t) ==
    /\ alive /\ pc[t] = "wait" /\ ~StillInFlight(t)
    /\ Goto(t, IF awaited[t] \subseteq InState("present") THEN "ready"
               ELSE "plan")
    /\ awaited' = [awaited EXCEPT ![t] = {}]
    /\ UNCHANGED <<shared, wanted, claimed, todo, extras>>

SpuriousWake(t) ==
    /\ alive /\ pc[t] = "blocked"
    /\ Goto(t, "wait")
    /\ UNCHANGED <<shared, wanted, claimed, todo, awaited, extras>>

-----------------------------------------------------------------------------
Failures(t) ==
    PlanThrows(t) \/ OpenThrows(t) \/ ReadThrows(t) \/ SealThrows(t) \/ CloseFails(t)

\* The steps a thread inside ensure takes by itself once it is scheduled.
Progress(t) ==
    \/ Plan(t)
    \/ OpenRun(t) \/ ReadPage(t) \/ ReadReturns(t) \/ SealRun(t) \/ CloseRun(t)
    \/ Publish(t) \/ NotifyAfterSuccess(t) \/ NotifyAfterFailure(t)
    \/ WaitBlocks(t) \/ WaitEnds(t)

Calls(t) == BeginEnsure(t) \/ CheckPresent(t) \/ Finish(t)

Terminated == ~alive /\ UNCHANGED vars

Next ==
    \/ \E t \in Threads : Calls(t) \/ Progress(t) \/ Failures(t) \/ SpuriousWake(t)
    \/ Terminated

Spec == Init /\ [][Next]_vars

\* Threads are scheduled, the mutex is eventually granted, and the reader
\* eventually returns or throws.
FairSpec == Spec /\ \A t \in Threads : WF_vars(Progress(t))

-----------------------------------------------------------------------------
(* Safety.  Read NoWrap as part of every promise about whole requests. *)

\* plan's claim is exclusive: a page is in flight exactly while one thread
\* has it in its runs, so no page is requested twice at a time, and none
\* stays in flight when its fetch is over.
OneFetcherPerPage ==
    /\ InState("in_flight") = UNION {claimed[t] : t \in Threads}
    /\ \A t, u \in Threads : t # u => claimed[t] \cap claimed[u] = {}

\* publish(present) comes after the reader wrote the page and fetch sealed
\* it: what check_present accepts is complete and can only be read.
PresentIsSealed ==
    \A p \in InState("present") : p \in filled /\ prot[p] = "ro"

\* close_pages before publish(absent): a failed fetch leaves no page a raw
\* read through data() could take partial bytes from.
AbsentIsUnreadable ==
    alive => \A p \in InState("absent") : prot[p] = "none"

\* The reader writes only where it may: from the last make_writable to its
\* return, no other thread seals, closes or publishes a page of the claim.
ReaderMayWrite ==
    \A t \in Threads : pc[t] = "read" =>
        \A p \in claimed[t] : prot[p] = "rw" /\ p_pages[p] = "in_flight"

\* When ensure or check_present returned, every byte asked for is there,
\* whoever fetched it and however many of the fetches failed on the way.
ReturnedIsPresent ==
    \A t \in Threads : pc[t] = "ready" =>
        ExactOf(wanted[t]) \subseteq InState("present")

\* p_first_fetch_planned stays set only while the first-fetch extras are
\* cached or on their way; after a failed first fetch the next one asks again.
ExtrasNotForgotten ==
    p_first_fetch_planned => ExtraPages \cap InState("absent") = {}

\* A blocked thread has a fetch to wait for, or a notify_all still to come.
NoLostWakeup ==
    alive => \A t \in Threads : pc[t] = "blocked" =>
        \/ StillInFlight(t)
        \/ \E u \in Threads : pc[u] \in {"notify_present", "notify_absent"}

-----------------------------------------------------------------------------
(* What a step may never do. *)

\* Each byte is fetched at most once: a present page is never claimed,
\* opened or closed again, so a pointer into data() stays good.
PresentIsFinal ==
    [][\A p \in InState("present") :
          p_pages'[p] = "present" /\ prot'[p] = "ro"]_vars

\* Each step of a thread leaves the pages another thread fetches alone.
FetchesDoNotInterfere ==
    [][\A t \in Threads : pc'[t] = pc[t] /\ pc[t] \in Fetching
          /\ claimed'[t] = claimed[t] /\ todo'[t] = todo[t] =>
          \A p \in claimed[t] :
              p_pages'[p] = p_pages[p] /\ prot'[p] = prot[p]
                  /\ (p \in filled' <=> p \in filled)]_vars

-----------------------------------------------------------------------------
(***************************************************************************)
(* The buffer implements PageCache: what a caller sees is a growing set of *)
(* pages.  Claims, accesses, waiting and replanning are stutters; publish  *)
(* after a success is Arrive; the steps that lead to ready are Serve.      *)
(***************************************************************************)
Have   == InState("present")
Status == [t \in Threads |-> IF pc[t] = "idle" THEN "idle"
                             ELSE IF pc[t] = "ready" THEN "served"
                             ELSE "pending"]
Need   == [t \in Threads |-> ExactOf(wanted[t])]
Allow  == [t \in Threads |-> WidenedOf(wanted[t])]

Cache == INSTANCE PageCache
            WITH Page <- Pages, Extra <- ExtraPages,
                 have <- Have, status <- Status, need <- Need, allow <- Allow

\* Every behaviour of the buffer is one of the abstract cache.
ImplementsPageCache == Cache!Spec

-----------------------------------------------------------------------------
(* Liveness: once failures stop, every ensure returns (or has thrown). *)

FailuresStop == <>[][~\E t \in Threads : Failures(t)]_vars

EnsureReturns ==
    FailuresStop =>
        \A t \in Threads : pc[t] \notin Outside ~> (pc[t] \in Outside \/ ~alive)

=============================================================================
