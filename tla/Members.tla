------------------------------ MODULE Members -------------------------------
(***************************************************************************)
(* count_members: how many members an aggregate has, found by bisection    *)
(* over the numbers of initializers it accepts.                            *)
(* Definitions named X_Y are plausible errors in X, for the mutation runs. *)
(***************************************************************************)
EXTENDS Integers

Middle(lo, hi) == lo + (hi - lo + 1) \div 2

RECURSIVE BinarySearchMemberCount(_, _, _)
BinarySearchMemberCount(accepted, lo, hi) ==
    IF lo = hi THEN lo
    ELSE IF Middle(lo, hi) \in accepted
         THEN BinarySearchMemberCount(accepted, Middle(lo, hi), hi)
         ELSE BinarySearchMemberCount(accepted, lo, Middle(lo, hi) - 1)

Cap == 31                            \* what the structured bindings reach

MemberCounter(accepted) == BinarySearchMemberCount(accepted, 0, Cap)

=============================================================================
