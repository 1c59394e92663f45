------------------------------- MODULE Nomap --------------------------------
(***************************************************************************)
(* nomap: a vector of owning pointers to nodes, each in an allocation of   *)
(* its own, searched from the front.  The heap is explicit, so that what a *)
(* caller holds (the address of an element) can be told from what it       *)
(* finds.  Copies are built node by node, and any allocation may fail.     *)
(*                                                                         *)
(* Every map is constructed empty: copy construction is copy assignment to *)
(* an empty map, destruction is clear().  The caller is one thread.        *)
(* Definitions named X_Y are plausible errors in X, for the mutation runs. *)
(***************************************************************************)
EXTENDS Integers, Sequences, SequencesExt

CONSTANTS
    Maps,         \* nomap objects
    Keys,
    Values,
    Default,      \* mapped_type {}
    Addresses,    \* naturals; bound: how many nodes fit in memory at once
    Nothing       \* an empty node, or no copy under way

Node == [key : Keys, value : Values]
Copy == [to : Maps, from : Maps, nodes : Seq(Addresses)]

ASSUME NomapAssumption ==
    /\ Default \in Values
    /\ Addresses \subseteq Nat
    /\ Nothing \notin Node \cup Copy

VARIABLES
    p_nodes,      \* the addresses a map holds, in order
    heap,         \* the allocated nodes
    extracted,    \* the node the last call returned, if it was extract
    copying       \* a copy assignment under way, or Nothing

vars == <<p_nodes, heap, extracted, copying>>

PartialHeaps == UNION {[A -> Node] : A \in SUBSET Addresses}

\* Every pointer is to an allocated node.
TypeOK ==
    /\ heap \in PartialHeaps
    /\ p_nodes \in [Maps -> Seq(DOMAIN heap)]
    /\ extracted \in Node \cup {Nothing}
    /\ \/ copying = Nothing
       \/ copying \in Copy /\ copying.nodes \in Seq(DOMAIN heap)

Init ==
    /\ p_nodes = [m \in Maps |-> <<>>]
    /\ heap = <<>>
    /\ extracted = Nothing
    /\ copying = Nothing

-----------------------------------------------------------------------------
(* Positions, which is what iterators are: 1 .. end. *)

End(m)      == Len(p_nodes[m]) + 1
Positions(m) == 1 .. End(m)
At(m, pos)  == heap[p_nodes[m][pos]]

\* The first node with the key, or the end.
Find(m, k) == Min({pos \in DOMAIN p_nodes[m] : At(m, pos).key = k} \cup {End(m)})
Count(m, k) == IF Find(m, k) = End(m) THEN 0 ELSE 1

Equal_NoSize(m, other) ==
    \A pos \in DOMAIN p_nodes[m] :
        /\ Count(other, At(m, pos).key) = 1
        /\ At(other, Find(other, At(m, pos).key)).value = At(m, pos).value

\* operator==: same size, and each node of the left is found in the right.
Equal(m, other) ==
    /\ End(m) = End(other)
    /\ \A pos \in DOMAIN p_nodes[m] :
          /\ Count(other, At(m, pos).key) = 1
          /\ At(other, Find(other, At(m, pos).key)).value = At(m, pos).value

\* The allocator gives the lowest free address, so freed ones are reused.
Free      == Addresses \ DOMAIN heap
Allocate(node) ==
    [a \in DOMAIN heap \cup {Min(Free)} |-> IF a \in DOMAIN heap THEN heap[a] ELSE node]
Deallocate(h, addresses) == Restrict(h, DOMAIN h \ addresses)

-----------------------------------------------------------------------------
(* Insertion.  When make_unique or the vector's growth throws, nothing has *)
(* changed yet: no step.                                                    *)

Idle == copying = Nothing

ForgetNode == extracted' = Nothing

\* _append
AppendNode(m, k, v) ==
    /\ Free # {}
    /\ heap' = Allocate([key |-> k, value |-> v])
    /\ p_nodes' = [p_nodes EXCEPT ![m] = Append(@, Min(Free))]

\* An element that exists is left alone.
Emplace(m, k, v) ==
    /\ Idle /\ Find(m, k) = End(m)
    /\ AppendNode(m, k, v)
    /\ ForgetNode /\ UNCHANGED copying

\* operator[] then an assignment through the reference it returns, or not.
Subscript(m, k) ==
    /\ Idle /\ Find(m, k) = End(m)
    /\ AppendNode(m, k, Default)
    /\ ForgetNode /\ UNCHANGED copying

\* at() throws when the key is absent; else the caller writes the element.
WriteAt(m, k, v) ==
    /\ Idle /\ Find(m, k) # End(m)
    /\ heap' = [heap EXCEPT ![p_nodes[m][Find(m, k)]].value = v]
    /\ ForgetNode /\ UNCHANGED <<p_nodes, copying>>

-----------------------------------------------------------------------------
(* Removal. *)

\* vector::erase of [first, last): the pointers after it move down.
Drop(m, first, last) ==
    /\ p_nodes' = [p_nodes EXCEPT ![m] =
          SubSeq(@, 1, first - 1) \o SubSeq(@, last, Len(@))]
    /\ heap' = Deallocate(heap, {p_nodes[m][i] : i \in first .. (last - 1)})

EraseAt(m, pos) ==
    /\ Idle /\ pos # End(m)
    /\ Drop(m, pos, pos + 1)
    /\ ForgetNode /\ UNCHANGED copying

EraseRange(m, first, last) ==
    /\ Idle /\ first =< last /\ last =< End(m)
    /\ Drop(m, first, last)
    /\ ForgetNode /\ UNCHANGED copying

Extract_AfterErase(m, pos) ==
    /\ Idle
    /\ IF pos = End(m) THEN extracted' = Nothing /\ UNCHANGED <<p_nodes, heap>>
       ELSE /\ extracted' = IF pos + 1 = End(m) THEN Nothing ELSE At(m, pos + 1)
            /\ Drop(m, pos, pos + 1)
    /\ UNCHANGED copying

\* The node is moved out before its place is erased.
Extract(m, pos) ==
    /\ Idle
    /\ IF pos = End(m) THEN extracted' = Nothing /\ UNCHANGED <<p_nodes, heap>>
       ELSE extracted' = At(m, pos) /\ Drop(m, pos, pos + 1)
    /\ UNCHANGED copying

ExtractKey(m, k) == Extract(m, Find(m, k))

Clear(m) ==
    /\ Idle /\ Drop(m, 1, End(m))
    /\ ForgetNode /\ UNCHANGED copying

-----------------------------------------------------------------------------
(* Assignment. *)

\* A copy onto itself does nothing.
BeginCopy(m, from) ==
    /\ Idle /\ m # from
    /\ copying' = [to |-> m, from |-> from, nodes |-> <<>>]
    /\ ForgetNode /\ UNCHANGED <<p_nodes, heap>>

Remaining == Len(copying.nodes) < Len(p_nodes[copying.from])

\* make_unique of a copy of the next node.
CopyNode ==
    /\ ~Idle /\ Remaining /\ Free # {}
    /\ heap' = Allocate(At(copying.from, Len(copying.nodes) + 1))
    /\ copying' = [copying EXCEPT !.nodes = Append(@, Min(Free))]
    /\ ForgetNode /\ UNCHANGED p_nodes

CopyThrows_Keeps ==
    /\ ~Idle
    /\ copying' = Nothing
    /\ ForgetNode /\ UNCHANGED <<p_nodes, heap>>

\* reserve, make_unique or the copy of a key or value throws: the vector
\* under construction is destroyed with its nodes.
CopyThrows ==
    /\ ~Idle /\ (Remaining \/ copying.nodes = <<>>)
    /\ heap' = Deallocate(heap, ToSet(copying.nodes))
    /\ copying' = Nothing
    /\ ForgetNode /\ UNCHANGED p_nodes

CopyDone ==
    /\ ~Idle /\ ~Remaining
    /\ heap' = Deallocate(heap, ToSet(p_nodes[copying.to]))
    /\ p_nodes' = [p_nodes EXCEPT ![copying.to] = copying.nodes]
    /\ copying' = Nothing
    /\ ForgetNode

Swap(m, with) ==
    /\ Idle
    /\ p_nodes' = [p_nodes EXCEPT ![m] = p_nodes[with], ![with] = p_nodes[m]]
    /\ ForgetNode /\ UNCHANGED <<heap, copying>>

\* Moving a map onto itself leaves it as the vector does: libstdc++ and
\* libc++ empty it.
MoveAssign(m, from) ==
    /\ Idle
    /\ heap' = Deallocate(heap, ToSet(p_nodes[m]))
    /\ p_nodes' = [p_nodes EXCEPT ![m] = IF m = from THEN <<>> ELSE p_nodes[from],
                                  ![from] = <<>>]
    /\ ForgetNode /\ UNCHANGED copying

Next ==
    \/ \E m \in Maps, k \in Keys :
          \/ Subscript(m, k) \/ ExtractKey(m, k)
          \/ \E v \in Values : Emplace(m, k, v) \/ WriteAt(m, k, v)
    \/ \E m \in Maps :
          \/ Clear(m)
          \/ \E first, last \in Positions(m) : EraseRange(m, first, last)
          \/ \E pos \in Positions(m) : EraseAt(m, pos) \/ Extract(m, pos)
    \/ \E m, from \in Maps : BeginCopy(m, from) \/ Swap(m, from) \/ MoveAssign(m, from)
    \/ CopyNode \/ CopyThrows \/ CopyDone

Spec == Init /\ [][Next]_vars

-----------------------------------------------------------------------------
(* Correctness *)

\* Lookups stop at the first match, so a second node with the same key would
\* be an element that can be iterated and counted but never found or erased.
UniqueKeys ==
    \A m \in Maps : \A i, j \in DOMAIN p_nodes[m] : At(m, i).key = At(m, j).key => i = j

\* Copies are deep: an allocated node is at exactly one place of one map, or
\* of the copy under way.  So no allocation failure leaks one, and none is
\* destroyed twice.
OneOwner ==
    LET built == IF Idle THEN <<>> ELSE copying.nodes
    IN  /\ DOMAIN heap = (UNION {ToSet(p_nodes[m]) : m \in Maps}) \cup ToSet(built)
        /\ \A m \in Maps : IsInjective(p_nodes[m]) /\ ToSet(p_nodes[m]) \cap ToSet(built) = {}
        /\ \A m, n \in Maps : m # n => ToSet(p_nodes[m]) \cap ToSet(p_nodes[n]) = {}
        /\ IsInjective(built)

\* The maps and the copy under way share the heap out among them, and each
\* map keeps its keys apart.
NomapInv == TypeOK /\ UniqueKeys /\ OneOwner

\* operator== looks at one map only, and is right because keys are unique:
\* it holds exactly for maps with the same elements, in any order.
EqualIsSameElements ==
    \A m, other \in Maps :
        Equal(m, other) <=> {At(m, i) : i \in DOMAIN p_nodes[m]}
                            = {At(other, i) : i \in DOMAIN p_nodes[other]}

\* The elements of each map, with the address of their node.
Content ==
    [m \in Maps |-> [i \in DOMAIN p_nodes[m] |->
        [key |-> At(m, i).key, value |-> At(m, i).value, id |-> p_nodes[m][i]]]]

Abstract ==
    INSTANCE OrderedMap
        WITH Ids <- Addresses, NoElement <- Nothing, out <- extracted, content <- Content

\* A map is a sequence of elements with unique keys and an identity, whatever
\* the operations; "references and pointers to an element stay valid while
\* other elements are inserted or erased", and a copy that fails leaves its
\* target as it was.
ImplementsOrderedMap == Abstract!Spec

=============================================================================
