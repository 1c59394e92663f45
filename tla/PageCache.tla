------------------------------ MODULE PageCache -----------------------------
(***************************************************************************)
(* What remote_buffer promises its callers, with no locks, claims or       *)
(* waiting: a growing set of pages, and callers that are served once the   *)
(* pages they need are all in it.  Pages come only on behalf of a pending  *)
(* call, and only those the call allows: its read-ahead windows, or the    *)
(* extras of the first fetch.  A call that fails gives the cache nothing.  *)
(***************************************************************************)
CONSTANTS
    Threads,
    Page,
    Extra      \* the pages any fetch may add: the first-fetch extras

VARIABLES
    have,      \* the pages whose bytes callers may read
    status,    \* idle, pending or served
    need,      \* the pages of the call's ranges
    allow      \* the pages of their read-ahead windows

vars == <<have, status, need, allow>>

Init ==
    /\ have = {}
    /\ status = [t \in Threads |-> "idle"]
    /\ need = [t \in Threads |-> {}]
    /\ allow = [t \in Threads |-> {}]

Set(t, s) == status' = [status EXCEPT ![t] = s]

\* A call names the pages it needs, which lie in its windows.  It may be
\* answered at once when they are all there (check_present, empty ranges).
Ask(t) ==
    /\ status[t] = "idle"
    /\ \E window \in SUBSET Page : \E exact \in SUBSET window :
         /\ need' = [need EXCEPT ![t] = exact]
         /\ allow' = [allow EXCEPT ![t] = window]
         /\ \/ Set(t, "pending")
            \/ exact \subseteq have /\ Set(t, "served")
    /\ UNCHANGED have

\* A batch fetched for t arrives, whole.
Arrive(t) ==
    /\ status[t] = "pending"
    /\ \E batch \in SUBSET (allow[t] \cup Extra) : have' = have \cup batch
    /\ UNCHANGED <<status, need, allow>>

Serve(t) ==
    /\ status[t] = "pending"
    /\ need[t] \subseteq have
    /\ Set(t, "served")
    /\ UNCHANGED <<have, need, allow>>

\* The call throws, or the caller is done with the bytes.
Leave(t) ==
    /\ status[t] # "idle"
    /\ Set(t, "idle")
    /\ need' = [need EXCEPT ![t] = {}]
    /\ allow' = [allow EXCEPT ![t] = {}]
    /\ UNCHANGED have

Next == \E t \in Threads : Ask(t) \/ Arrive(t) \/ Serve(t) \/ Leave(t)

Spec == Init /\ [][Next]_vars

=============================================================================
