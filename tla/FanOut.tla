------------------------------- MODULE FanOut -------------------------------
(***************************************************************************)
(* What the parallel_* functions promise, with no pool: a call visits each *)
(* element of its input exactly once, by whoever and in any order, and is  *)
(* over when, and only when, all of them were visited.  Nothing of it runs *)
(* after that.                                                             *)
(***************************************************************************)
CONSTANTS Threads, Element

VARIABLES
    busy,      \* is the thread in a call?
    left       \* the elements of its input not visited yet

vars == <<busy, left>>

Init ==
    /\ busy = [t \in Threads |-> FALSE]
    /\ left = [t \in Threads |-> {}]

Start(t) ==
    /\ ~busy[t]
    /\ busy' = [busy EXCEPT ![t] = TRUE]
    /\ \E input \in SUBSET Element : left' = [left EXCEPT ![t] = input]

Visit(t) ==
    /\ busy[t]
    /\ \E part \in SUBSET left[t] :
          left' = [left EXCEPT ![t] = @ \ part]
    /\ UNCHANGED busy

Return(t) ==
    /\ busy[t] /\ left[t] = {}
    /\ busy' = [busy EXCEPT ![t] = FALSE]
    /\ UNCHANGED left

Next == \E t \in Threads : Start(t) \/ Visit(t) \/ Return(t)

Spec == Init /\ [][Next]_vars

=============================================================================
