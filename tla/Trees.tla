------------------------------- MODULE Trees --------------------------------
(***************************************************************************)
(* The three traversals of a tree.  A node is its path from the root: the  *)
(* sequence of the child indices that lead to it; a tree is a set of paths. *)
(* Definitions named X_Y are plausible errors in X, for the mutation runs. *)
(***************************************************************************)
EXTENDS Integers, Sequences, SequencesExt, FiniteSets

Root == <<>>

\* Each node but the root has a parent and, unless it is the first child, an
\* elder sibling.
IsTree(tree) ==
    /\ IsFiniteSet(tree)
    /\ Root \in tree
    /\ \A p \in tree \ {Root} :
          /\ Front(p) \in tree
          /\ Last(p) > 1 => Append(Front(p), Last(p) - 1) \in tree

ChildrenCount(tree, node) ==
    Cardinality({p \in tree : Len(p) = Len(node) + 1 /\ IsPrefix(node, p)})

Children(tree, node) == [i \in 1 .. ChildrenCount(tree, node) |-> Append(node, i)]

(* The subtree of a node: the node, before or behind the subtrees of its children. *)

PreOrder(tree, node) ==
    LET visits[n \in tree] ==
            <<n>> \o FlattenSeq([i \in 1 .. ChildrenCount(tree, n) |-> visits[Append(n, i)]])
    IN  visits[node]

PostOrder(tree, node) ==
    LET visits[n \in tree] ==
            FlattenSeq([i \in 1 .. ChildrenCount(tree, n) |-> visits[Append(n, i)]]) \o <<n>>
    IN  visits[node]

(* The front of the queue is visited, its children wait behind the others. *)

Queued_InFront(pending, children) == children \o Tail(pending)

Queued(pending, children) == Tail(pending) \o children

Turn(tree, s) ==
    IF s.pending = <<>> THEN s
    ELSE [visited |-> Append(s.visited, Head(s.pending)),
          pending |-> Queued(s.pending, Children(tree, Head(s.pending)))]

\* The loop after n turns, or where it has ended before.
Turns(tree, node, n) ==
    LET state[k \in 0 .. n] ==
            IF k = 0 THEN [visited |-> <<>>, pending |-> <<node>>] ELSE Turn(tree, state[k - 1])
    IN  state[n]

Visits(tree, order) ==
    CASE order = "pre_order" -> PreOrder(tree, Root)
      [] order = "post_order" -> PostOrder(tree, Root)
      [] order = "breadth_first" -> Turns(tree, Root, Cardinality(tree)).visited

-----------------------------------------------------------------------------
\* The first child that differs decides.
LeftOf(p, q) ==
    \E k \in DOMAIN p \cap DOMAIN q : p[k] < q[k] /\ \A j \in 1 .. (k - 1) : p[j] = q[j]

Before(order, p, q) ==
    CASE order = "pre_order" -> IsStrictPrefix(p, q) \/ LeftOf(p, q)
      [] order = "post_order" -> IsStrictPrefix(q, p) \/ LeftOf(p, q)
      [] order = "breadth_first" -> Len(p) < Len(q) \/ (Len(p) = Len(q) /\ LeftOf(p, q))

\* Every node is visited once: parents before, or after, their subtree and left
\* before right, or level by level.
VisitsInOrder(tree, order) ==
    LET visits == Visits(tree, order)
    IN  /\ Range(visits) = tree
        /\ \A i, j \in DOMAIN visits : i < j => Before(order, visits[i], visits[j])

\* The breadth-first loop ends: after a turn for each node nothing is pending.
QueueRunsEmpty(tree) == Turns(tree, Root, Cardinality(tree)).pending = <<>>

=============================================================================
