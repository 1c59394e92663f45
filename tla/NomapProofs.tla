---------------------------- MODULE NomapProofs -----------------------------
(***************************************************************************)
(* Proofs about Nomap, for any maps, keys, values and memory.              *)
(***************************************************************************)
EXTENDS Nomap, FiniteSetTheorems, SequenceTheorems, WellFoundedInduction, TLAPS

-----------------------------------------------------------------------------
(* The operators the model is built from. *)

\* A set of naturals has a least element, and Min is it.
LEMMA MinIsLeast ==
    ASSUME NEW S \in SUBSET Nat, S # {}
    PROVE  Min(S) \in S /\ \A y \in S : Min(S) =< y
<1>1. \E R : R = {ss \in Nat \X Nat : ss[1] < ss[2]} /\ IsWellFoundedOn(R, Nat)
  BY NatLessThanWellFounded, Zenon DEF OpToRel
<1>2. PICK R : R = {ss \in Nat \X Nat : ss[1] < ss[2]} /\ IsWellFoundedOn(R, Nat)
  BY <1>1
<1>3. PICK x \in S : \A y \in S : ~(<<y, x>> \in R)
  BY <1>2, WFMin
<1>4. ASSUME NEW y \in S PROVE x =< y
  <2>1. <<y, x>> \notin R
    BY <1>3
  <2>2. <<y, x>> \in Nat \X Nat /\ <<y, x>>[1] = y /\ <<y, x>>[2] = x
    OBVIOUS
  <2>3. ~(y < x)
    BY <1>2, <2>1, <2>2
  <2> QED  BY <2>3
<1> QED  BY <1>4 DEF Min

\* The allocator gives an address that is not in use.
LEMMA FreshAddress ==
    ASSUME Free # {}
    PROVE  Min(Free) \in Addresses /\ Min(Free) \notin DOMAIN heap
<1>1. Free \in SUBSET Nat
  BY NomapAssumption DEF Free
<1> QED  BY <1>1, MinIsLeast DEF Free

\* A map's sequence of addresses, and the nodes at its positions.
LEMMA Places ==
    ASSUME TypeOK, NEW m \in Maps
    PROVE  /\ Len(p_nodes[m]) \in Nat
           /\ DOMAIN p_nodes[m] = 1 .. Len(p_nodes[m])
           /\ \A i \in DOMAIN p_nodes[m] : p_nodes[m][i] \in DOMAIN heap /\ At(m, i) \in Node
<1>1. p_nodes[m] \in Seq(DOMAIN heap)
  BY DEF TypeOK
<1>2. \A a \in DOMAIN heap : heap[a] \in Node
  BY DEF TypeOK, PartialHeaps
<1> QED  BY <1>1, <1>2 DEF At

\* find: the first position with the key, or the end.
LEMMA FindIsFirst ==
    ASSUME TypeOK, NEW m \in Maps, NEW k
    PROVE  /\ Find(m, k) \in Positions(m)
           /\ Find(m, k) # End(m) =>
                 Find(m, k) \in DOMAIN p_nodes[m] /\ At(m, Find(m, k)).key = k
           /\ \A i \in DOMAIN p_nodes[m] : At(m, i).key = k => Find(m, k) =< i
<1> DEFINE S == {pos \in DOMAIN p_nodes[m] : At(m, pos).key = k} \cup {End(m)}
<1>1. S \in SUBSET Nat /\ S # {} /\ End(m) \in Nat
  BY Places DEF End
<1>2. Find(m, k) \in S /\ \A y \in S : Find(m, k) =< y
  BY <1>1, MinIsLeast DEF Find
<1> QED  BY <1>2, Places DEF Positions, End

\* vector::erase on a sequence: what stays, and from where.
Shorter(p, first, last) == SubSeq(p, 1, first - 1) \o SubSeq(p, last, Len(p))

Was(first, last, i) == IF i < first THEN i ELSE i + (last - first)

LEMMA ShorterIs ==
    ASSUME NEW S, NEW p \in Seq(S), NEW first \in 1 .. Len(p) + 1,
           NEW last \in 1 .. Len(p) + 1, first =< last
    PROVE  /\ Shorter(p, first, last) \in Seq(S)
           /\ Len(Shorter(p, first, last)) = Len(p) - (last - first)
           /\ DOMAIN Shorter(p, first, last) = 1 .. Len(p) - (last - first)
           /\ \A i \in 1 .. Len(p) - (last - first) :
                 /\ Was(first, last, i) \in DOMAIN p
                 /\ Was(first, last, i) \notin first .. (last - 1)
                 /\ Shorter(p, first, last)[i] = p[Was(first, last, i)]
           /\ \A j \in DOMAIN p : j \in first .. (last - 1)
                 \/ \E i \in 1 .. Len(p) - (last - first) : j = Was(first, last, i)
<1> DEFINE a == SubSeq(p, 1, first - 1)
           b == SubSeq(p, last, Len(p))
<1>1. Len(p) \in Nat /\ first \in Nat /\ last \in Nat
  OBVIOUS
<1>2. a \in Seq(S) /\ Len(a) = first - 1 /\ \A i \in 1 .. first - 1 : a[i] = p[i]
  BY <1>1
<1>3. b \in Seq(S) /\ Len(b) = Len(p) - last + 1
      /\ \A i \in 1 .. Len(p) - last + 1 : b[i] = p[last + i - 1]
  BY <1>1
<1>5. Shorter(p, first, last) = a \o b
  BY DEF Shorter
<1> HIDE DEF a, b
<1>4. a \o b \in Seq(S) /\ Len(a \o b) = Len(a) + Len(b)
      /\ \A i \in 1 .. Len(a) + Len(b) :
            (a \o b)[i] = IF i =< Len(a) THEN a[i] ELSE b[i - Len(a)]
  BY <1>2, <1>3, ConcatProperties
<1>6. Len(a) + Len(b) = Len(p) - (last - first)
  BY <1>1, <1>2, <1>3
<1>7. ASSUME NEW i \in 1 .. Len(p) - (last - first)
      PROVE  /\ Was(first, last, i) \in DOMAIN p
             /\ Was(first, last, i) \notin first .. (last - 1)
             /\ (a \o b)[i] = p[Was(first, last, i)]
  <2>1. DOMAIN p = 1 .. Len(p)
    OBVIOUS
  <2>2. CASE i < first
    <3>1. Was(first, last, i) = i /\ i =< first - 1
      BY <1>1, <2>2 DEF Was
    <3>2. (a \o b)[i] = p[i]
      BY <1>1, <1>2, <1>4, <1>6, <3>1
    <3> QED  BY <1>1, <2>1, <3>1, <3>2
  <2>3. CASE ~(i < first)
    <3>1. Was(first, last, i) = i + (last - first)
      BY <2>3 DEF Was
    <3>2. i - (first - 1) \in 1 .. Len(p) - last + 1
      BY <1>1, <2>3
    <3>3. (a \o b)[i] = b[i - (first - 1)]
      BY <1>1, <1>2, <1>4, <1>6, <2>3, SMTT(30)
    <3>4. b[i - (first - 1)] = p[last + (i - (first - 1)) - 1]
      BY <1>3, <3>2
    <3>5. last + (i - (first - 1)) - 1 = i + (last - first)
      BY <1>1
    <3> QED  BY <1>1, <2>1, <2>3, <3>1, <3>3, <3>4, <3>5
  <2> QED  BY <2>2, <2>3
<1>8. ASSUME NEW j \in DOMAIN p, j \notin first .. (last - 1)
      PROVE  \E i \in 1 .. Len(p) - (last - first) : j = Was(first, last, i)
  <2>1. j \in 1 .. Len(p)
    OBVIOUS
  <2>2. CASE j < first
    BY <1>1, <2>1, <2>2 DEF Was
  <2>3. CASE j >= last
    <3>1. j - (last - first) \in 1 .. Len(p) - (last - first)
          /\ j = Was(first, last, j - (last - first))
      BY <1>1, <2>1, <2>3 DEF Was
    <3> QED  BY <3>1
  <2> QED  BY <1>1, <1>8, <2>1, <2>2, <2>3
<1>9. Shorter(p, first, last) \in Seq(S) /\ Len(Shorter(p, first, last)) = Len(p) - (last - first)
  BY <1>4, <1>5, <1>6
<1>10. DOMAIN Shorter(p, first, last) = 1 .. Len(p) - (last - first)
  BY <1>9
<1>11. \A i \in 1 .. Len(p) - (last - first) :
          /\ Was(first, last, i) \in DOMAIN p
          /\ Was(first, last, i) \notin first .. (last - 1)
          /\ Shorter(p, first, last)[i] = p[Was(first, last, i)]
  BY <1>5, <1>7, Zenon
<1>12. \A j \in DOMAIN p :
          \/ j \in first .. (last - 1)
          \/ \E i \in 1 .. Len(p) - (last - first) : j = Was(first, last, i)
  BY <1>8, Zenon
<1> QED  BY <1>9, <1>10, <1>11, <1>12, Zenon

LEMMA SeqOfElements ==
    ASSUME NEW S, NEW T, NEW p \in Seq(S), \A i \in DOMAIN p : p[i] \in T
    PROVE  p \in Seq(T)
<1>1. p \in [1 .. Len(p) -> T] /\ Len(p) \in Nat
  OBVIOUS
<1> QED  BY <1>1, IsASeq

LEMMA AllocateIs ==
    ASSUME TypeOK, Free # {}, NEW node \in Node, heap' = Allocate(node)
    PROVE  /\ Min(Free) \in Addresses /\ Min(Free) \notin DOMAIN heap
           /\ DOMAIN heap' = DOMAIN heap \cup {Min(Free)}
           /\ heap'[Min(Free)] = node
           /\ \A a \in DOMAIN heap : heap'[a] = heap[a]
           /\ heap' \in PartialHeaps
<1>1. Min(Free) \in Addresses /\ Min(Free) \notin DOMAIN heap
  BY FreshAddress
<1>2. DOMAIN heap \in SUBSET Addresses /\ heap \in [DOMAIN heap -> Node]
  BY DEF TypeOK, PartialHeaps
<1>3. DOMAIN heap \cup {Min(Free)} \in SUBSET Addresses
      /\ heap' \in [DOMAIN heap \cup {Min(Free)} -> Node]
  BY <1>1, <1>2 DEF Allocate
<1> QED  BY <1>1, <1>2, <1>3 DEF Allocate, PartialHeaps

LEMMA DeallocateIs ==
    ASSUME TypeOK, NEW A, heap' = Deallocate(heap, A)
    PROVE  /\ DOMAIN heap' = DOMAIN heap \ A
           /\ \A a \in DOMAIN heap \ A : heap'[a] = heap[a]
           /\ heap' \in PartialHeaps
<1>1. DOMAIN heap \in SUBSET Addresses /\ heap \in [DOMAIN heap -> Node]
  BY DEF TypeOK, PartialHeaps
<1>2. DOMAIN heap \ A \in SUBSET Addresses /\ heap' \in [DOMAIN heap \ A -> Node]
  BY <1>1 DEF Deallocate, Restrict
<1> QED  BY <1>1, <1>2 DEF Deallocate, Restrict, PartialHeaps

-----------------------------------------------------------------------------
(* The invariant: a copy under way has the first nodes of its source. *)

CopyInv ==
    ~Idle => /\ copying.to # copying.from
             /\ Len(copying.nodes) =< Len(p_nodes[copying.from])
             /\ \A i \in DOMAIN copying.nodes : heap[copying.nodes[i]] = At(copying.from, i)

IInv == TypeOK /\ UniqueKeys /\ OneOwner /\ CopyInv

LEMMA InitIInv == Init => IInv
<1> SUFFICES ASSUME Init PROVE IInv
  OBVIOUS
<1>1. Idle /\ DOMAIN heap = {} /\ p_nodes \in [Maps -> Seq(DOMAIN heap)]
      /\ \A m \in Maps : DOMAIN p_nodes[m] = {}
  BY DEF Init, Idle
<1>2. heap \in [{} -> Node]
  BY DEF Init
<1>3. TypeOK
  BY <1>1, <1>2 DEF Init, TypeOK, PartialHeaps
<1>4. OneOwner
  BY <1>1 DEF OneOwner, ToSet, IsInjective
<1> QED  BY <1>1, <1>3, <1>4 DEF IInv, UniqueKeys, CopyInv

-----------------------------------------------------------------------------
(* OneOwner, place by place. *)

Built == IF Idle THEN <<>> ELSE copying.nodes

AllOwned ==
    \A a : a \in DOMAIN heap <=>
        \/ \E m \in Maps : \E i \in DOMAIN p_nodes[m] : a = p_nodes[m][i]
        \/ \E i \in DOMAIN Built : a = Built[i]

OwnedOnce ==
    /\ \A m, n \in Maps : \A i \in DOMAIN p_nodes[m], j \in DOMAIN p_nodes[n] :
          p_nodes[m][i] = p_nodes[n][j] => m = n /\ i = j
    /\ \A m \in Maps : \A i \in DOMAIN p_nodes[m], j \in DOMAIN Built : p_nodes[m][i] # Built[j]
    /\ \A i, j \in DOMAIN Built : Built[i] = Built[j] => i = j

LEMMA OwnersAre == OneOwner <=> AllOwned /\ OwnedOnce
<1>1. OneOwner <=>
        /\ DOMAIN heap = (UNION {ToSet(p_nodes[m]) : m \in Maps}) \cup ToSet(Built)
        /\ \A m \in Maps : IsInjective(p_nodes[m]) /\ ToSet(p_nodes[m]) \cap ToSet(Built) = {}
        /\ \A m, n \in Maps : m # n => ToSet(p_nodes[m]) \cap ToSet(p_nodes[n]) = {}
        /\ IsInjective(Built)
  BY DEF OneOwner, Built
<1>2. DOMAIN heap = (UNION {ToSet(p_nodes[m]) : m \in Maps}) \cup ToSet(Built) <=> AllOwned
  <2>1. \A a : a \in (UNION {ToSet(p_nodes[m]) : m \in Maps}) \cup ToSet(Built) <=>
            \/ \E m \in Maps : \E i \in DOMAIN p_nodes[m] : a = p_nodes[m][i]
            \/ \E i \in DOMAIN Built : a = Built[i]
    BY DEF ToSet
  <2> QED  BY <2>1 DEF AllOwned
<1>3. IsInjective(Built) <=> \A i, j \in DOMAIN Built : Built[i] = Built[j] => i = j
  BY DEF IsInjective
<1>4. ASSUME NEW m \in Maps
      PROVE  ToSet(p_nodes[m]) \cap ToSet(Built) = {} <=>
                \A i \in DOMAIN p_nodes[m], j \in DOMAIN Built : p_nodes[m][i] # Built[j]
  BY DEF ToSet
<1>5. ASSUME NEW m \in Maps, NEW n \in Maps
      PROVE  ToSet(p_nodes[m]) \cap ToSet(p_nodes[n]) = {} <=>
                \A i \in DOMAIN p_nodes[m], j \in DOMAIN p_nodes[n] : p_nodes[m][i] # p_nodes[n][j]
  BY DEF ToSet
<1>6. ASSUME NEW m \in Maps
      PROVE  IsInjective(p_nodes[m]) <=>
                \A i, j \in DOMAIN p_nodes[m] : p_nodes[m][i] = p_nodes[m][j] => i = j
  BY DEF IsInjective
<1>7. ASSUME OneOwner PROVE OwnedOnce
  <2>1. ASSUME NEW m \in Maps, NEW n \in Maps,
               NEW i \in DOMAIN p_nodes[m], NEW j \in DOMAIN p_nodes[n],
               p_nodes[m][i] = p_nodes[n][j]
        PROVE  m = n /\ i = j
    <3>1. m = n
      BY <1>1, <1>5, <1>7, <2>1
    <3> QED  BY <1>1, <1>6, <1>7, <2>1, <3>1
  <2>2. \A m \in Maps : \A i \in DOMAIN p_nodes[m], j \in DOMAIN Built : p_nodes[m][i] # Built[j]
    BY <1>1, <1>4, <1>7
  <2>3. \A i, j \in DOMAIN Built : Built[i] = Built[j] => i = j
    BY <1>1, <1>3, <1>7
  <2> QED  BY <2>1, <2>2, <2>3 DEF OwnedOnce
<1>8. ASSUME AllOwned, OwnedOnce PROVE OneOwner
  <2>1. \A m \in Maps : IsInjective(p_nodes[m])
    BY <1>6, <1>8 DEF OwnedOnce
  <2>2. \A m \in Maps : ToSet(p_nodes[m]) \cap ToSet(Built) = {}
    BY <1>4, <1>8 DEF OwnedOnce
  <2>3. ASSUME NEW m \in Maps, NEW n \in Maps, m # n
        PROVE  ToSet(p_nodes[m]) \cap ToSet(p_nodes[n]) = {}
    BY <1>5, <1>8, <2>3 DEF OwnedOnce
  <2>4. IsInjective(Built)
    BY <1>3, <1>8 DEF OwnedOnce
  <2> QED  BY <1>1, <1>2, <1>8, <2>1, <2>2, <2>3, <2>4
<1> QED  BY <1>1, <1>2, <1>7, <1>8

LEMMA OwnersNext == OneOwner' <=> AllOwned' /\ OwnedOnce'
  BY OwnersAre, PTL

LEMMA BuiltType ==
    ASSUME TypeOK
    PROVE  /\ Built \in Seq(DOMAIN heap)
           /\ Len(Built) \in Nat /\ DOMAIN Built = 1 .. Len(Built)
           /\ \A i \in DOMAIN Built : Built[i] \in DOMAIN heap
<1>1. Built \in Seq(DOMAIN heap)
  <2>1. CASE Idle
    <3>1. Built = <<>>
      BY <2>1 DEF Built
    <3> QED  BY <3>1, EmptySeq
  <2>2. CASE ~Idle
    BY <2>2 DEF TypeOK, Built, Idle
  <2> QED  BY <2>1, <2>2
<1> QED  BY <1>1

\* Between calls only the maps own nodes.
Housed ==
    \A a : a \in DOMAIN heap <=> \E m \in Maps : \E i \in DOMAIN p_nodes[m] : a = p_nodes[m][i]

HousedOnce ==
    \A m, n \in Maps : \A i \in DOMAIN p_nodes[m], j \in DOMAIN p_nodes[n] :
        p_nodes[m][i] = p_nodes[n][j] => m = n /\ i = j

LEMMA IdleOwners == Idle => (OneOwner <=> Housed /\ HousedOnce)
<1> SUFFICES ASSUME Idle PROVE OneOwner <=> Housed /\ HousedOnce
  OBVIOUS
<1>1. DOMAIN Built = {}
  BY DEF Built
<1> QED  BY <1>1, OwnersAre DEF AllOwned, OwnedOnce, Housed, HousedOnce

LEMMA IdleOwnersNext == Idle' => (OneOwner' <=> Housed' /\ HousedOnce')
  BY IdleOwners, PTL

\* Between calls IInv is about the maps and the heap alone.
LEMMA IdleIInv ==
    ASSUME copying' = Nothing, extracted' \in Node \cup {Nothing},
           heap' \in PartialHeaps, p_nodes' \in [Maps -> Seq(DOMAIN heap')],
           UniqueKeys', Housed', HousedOnce'
    PROVE  IInv'
<1>1. Idle'
  BY DEF Idle
<1>2. OneOwner' /\ CopyInv'
  BY <1>1, IdleOwnersNext DEF CopyInv
<1>3. TypeOK'
  BY DEF TypeOK
<1> QED  BY <1>2, <1>3 DEF IInv

-----------------------------------------------------------------------------
(* Insertion. *)

LEMMA AppendIs ==
    ASSUME TypeOK, NEW m \in Maps, NEW k \in Keys, NEW v \in Values, AppendNode(m, k, v)
    PROVE  /\ Min(Free) \in Addresses /\ Min(Free) \notin DOMAIN heap
           /\ DOMAIN heap' = DOMAIN heap \cup {Min(Free)}
           /\ heap'[Min(Free)] = [key |-> k, value |-> v]
           /\ \A a \in DOMAIN heap : heap'[a] = heap[a]
           /\ heap' \in PartialHeaps
           /\ p_nodes' \in [Maps -> Seq(DOMAIN heap')]
           /\ DOMAIN p_nodes'[m] = DOMAIN p_nodes[m] \cup {End(m)}
           /\ p_nodes'[m][End(m)] = Min(Free)
           /\ \A i \in DOMAIN p_nodes[m] : p_nodes'[m][i] = p_nodes[m][i]
           /\ \A n \in Maps \ {m} : p_nodes'[n] = p_nodes[n]
           /\ p_nodes'[m] = Append(p_nodes[m], Min(Free))
<1>1. [key |-> k, value |-> v] \in Node
  BY DEF Node
<1>2. /\ Free # {} /\ heap' = Allocate([key |-> k, value |-> v])
      /\ p_nodes' = [p_nodes EXCEPT ![m] = Append(@, Min(Free))]
  BY DEF AppendNode
<1>3. /\ Min(Free) \in Addresses /\ Min(Free) \notin DOMAIN heap
      /\ DOMAIN heap' = DOMAIN heap \cup {Min(Free)}
      /\ heap'[Min(Free)] = [key |-> k, value |-> v]
      /\ \A a \in DOMAIN heap : heap'[a] = heap[a]
      /\ heap' \in PartialHeaps
  BY <1>1, <1>2, AllocateIs
<1>4. p_nodes \in [Maps -> Seq(DOMAIN heap')]
  BY <1>3 DEF TypeOK
<1> HIDE DEF Free
<1> DEFINE a == Min(Free)
<1>5. p_nodes' = [p_nodes EXCEPT ![m] = Append(p_nodes[m], a)] /\ a \in DOMAIN heap'
  BY <1>2, <1>3
<1> HIDE DEF a
<1>6. p_nodes' \in [Maps -> Seq(DOMAIN heap')] /\ p_nodes'[m] = Append(p_nodes[m], a)
      /\ \A n \in Maps \ {m} : p_nodes'[n] = p_nodes[n]
  BY <1>4, <1>5
<1>7. p_nodes[m] \in Seq(DOMAIN heap')
  BY <1>4
<1>8. DOMAIN p_nodes'[m] = DOMAIN p_nodes[m] \cup {End(m)} /\ p_nodes'[m][End(m)] = a
      /\ \A i \in DOMAIN p_nodes[m] : p_nodes'[m][i] = p_nodes[m][i]
  BY <1>5, <1>6, <1>7, AppendProperties DEF End
<1> QED  BY <1>3, <1>6, <1>8 DEF a

\* Between calls, a node is appended under a key that is new to the map.
LEMMA AppendKeeps ==
    ASSUME IInv, Idle, NEW m \in Maps, NEW k \in Keys, NEW v \in Values,
           Find(m, k) = End(m), AppendNode(m, k, v), ForgetNode, UNCHANGED copying
    PROVE  IInv'
<1>1. TypeOK /\ Housed /\ HousedOnce /\ UniqueKeys
  BY IdleOwners DEF IInv
<1> DEFINE a == Min(Free)
<1>2. /\ a \notin DOMAIN heap
      /\ DOMAIN heap' = DOMAIN heap \cup {a}
      /\ heap'[a] = [key |-> k, value |-> v]
      /\ \A b \in DOMAIN heap : heap'[b] = heap[b]
      /\ heap' \in PartialHeaps
      /\ p_nodes' \in [Maps -> Seq(DOMAIN heap')]
      /\ DOMAIN p_nodes'[m] = DOMAIN p_nodes[m] \cup {End(m)}
      /\ p_nodes'[m][End(m)] = a
      /\ \A i \in DOMAIN p_nodes[m] : p_nodes'[m][i] = p_nodes[m][i]
      /\ \A n \in Maps \ {m} : p_nodes'[n] = p_nodes[n]
  BY <1>1, AppendIs
<1> HIDE DEF a
<1>3. \A n \in Maps : \A i \in DOMAIN p_nodes[n] : p_nodes[n][i] \in DOMAIN heap
  BY <1>1, Places
<1>4. \A i \in DOMAIN p_nodes[m] : At(m, i).key # k
  <2>1. \A i \in DOMAIN p_nodes[m] : i \in 1 .. Len(p_nodes[m]) /\ Len(p_nodes[m]) \in Nat
    BY <1>1, Places
  <2>2. \A i \in DOMAIN p_nodes[m] : At(m, i).key = k => End(m) =< i
    BY <1>1, FindIsFirst
  <2> QED  BY <2>1, <2>2 DEF End
<1>5. End(m) \notin DOMAIN p_nodes[m]
  BY <1>1, Places DEF End
<1>6. \A n \in Maps : \A i \in DOMAIN p_nodes'[n] :
          \/ i \in DOMAIN p_nodes[n] /\ p_nodes'[n][i] = p_nodes[n][i] /\ At(n, i)' = At(n, i)
          \/ n = m /\ i = End(m) /\ p_nodes'[n][i] = a /\ At(n, i)'.key = k
  BY <1>2, <1>3 DEF At
<1>7. UniqueKeys'
  BY <1>1, <1>4, <1>6 DEF UniqueKeys
<1>8. HousedOnce'
  BY <1>1, <1>2, <1>3, <1>6 DEF HousedOnce
<1>9. Housed'
  <2>1. ASSUME NEW b \in DOMAIN heap'
        PROVE  \E n \in Maps : \E i \in DOMAIN p_nodes'[n] : b = p_nodes'[n][i]
    <3>1. CASE b = a
      BY <3>1, <1>2
    <3>2. CASE b \in DOMAIN heap
      <4>1. PICK n \in Maps : \E i \in DOMAIN p_nodes[n] : b = p_nodes[n][i]
        BY <3>2, <1>1 DEF Housed
      <4> QED  BY <4>1, <1>2
    <3> QED  BY <3>1, <3>2, <1>2
  <2>2. \A n \in Maps : \A i \in DOMAIN p_nodes'[n] : p_nodes'[n][i] \in DOMAIN heap'
    BY <1>2, <1>3, <1>6
  <2> QED  BY <2>1, <2>2 DEF Housed
<1> QED  BY <1>2, <1>7, <1>8, <1>9, IdleIInv DEF ForgetNode, Idle

\* Writing the value of an element changes the value of its node.
LEMMA WriteIs ==
    ASSUME TypeOK, NEW m \in Maps, NEW k \in Keys, NEW v \in Values, WriteAt(m, k, v)
    PROVE  /\ p_nodes[m][Find(m, k)] \in DOMAIN heap
           /\ DOMAIN heap' = DOMAIN heap
           /\ heap' \in PartialHeaps
           /\ \A a \in DOMAIN heap :
                 heap'[a] = IF a = p_nodes[m][Find(m, k)]
                            THEN [key |-> heap[a].key, value |-> v] ELSE heap[a]
<1> DEFINE a == p_nodes[m][Find(m, k)]
<1>1. Find(m, k) \in DOMAIN p_nodes[m]
  BY FindIsFirst DEF WriteAt
<1>2. a \in DOMAIN heap
  BY <1>1, Places
<1>3. heap' = [heap EXCEPT ![a].value = v]
  BY DEF WriteAt
<1>4. DOMAIN heap \in SUBSET Addresses /\ heap \in [DOMAIN heap -> Node]
  BY DEF TypeOK, PartialHeaps
<1> HIDE DEF a
<1>5. heap[a] \in Node
  BY <1>2, <1>4
<1>6. [heap[a] EXCEPT !.value = v] = [key |-> heap[a].key, value |-> v]
      /\ [key |-> heap[a].key, value |-> v] \in Node
  BY <1>5 DEF Node
<1>7. heap' = [heap EXCEPT ![a] = [key |-> heap[a].key, value |-> v]]
  BY <1>3, <1>6
<1>8. heap' \in [DOMAIN heap -> Node]
  BY <1>4, <1>6, <1>7
<1>9. heap' \in PartialHeaps /\ DOMAIN heap' = DOMAIN heap
  BY <1>4, <1>8 DEF PartialHeaps
<1>10. \A b \in DOMAIN heap :
          heap'[b] = IF b = a THEN [key |-> heap[b].key, value |-> v] ELSE heap[b]
  BY <1>4, <1>7
<1> QED  BY <1>2, <1>9, <1>10 DEF a

LEMMA WriteKeeps ==
    ASSUME IInv, NEW m \in Maps, NEW k \in Keys, NEW v \in Values, WriteAt(m, k, v)
    PROVE  IInv'
<1>1. /\ Idle /\ TypeOK /\ UniqueKeys /\ Housed /\ HousedOnce
      /\ p_nodes' = p_nodes /\ copying' = Nothing /\ extracted' = Nothing
  BY IdleOwners DEF IInv, WriteAt, ForgetNode, Idle
<1>2. DOMAIN heap' = DOMAIN heap /\ heap' \in PartialHeaps
      /\ \A a \in DOMAIN heap : heap'[a].key = heap[a].key
  <2>1. /\ DOMAIN heap' = DOMAIN heap
        /\ heap' \in PartialHeaps
        /\ \A a \in DOMAIN heap :
              heap'[a] = IF a = p_nodes[m][Find(m, k)]
                         THEN [key |-> heap[a].key, value |-> v] ELSE heap[a]
    BY <1>1, WriteIs
  <2> QED  BY <2>1
<1>3. \A n \in Maps : \A i \in DOMAIN p_nodes[n] : At(n, i)'.key = At(n, i).key
  BY <1>1, <1>2, Places DEF At
<1>4. UniqueKeys'
  BY <1>1, <1>3 DEF UniqueKeys
<1>5. Housed' /\ HousedOnce'
  BY <1>1, <1>2 DEF Housed, HousedOnce
<1>6. p_nodes' \in [Maps -> Seq(DOMAIN heap')]
  BY <1>1, <1>2 DEF TypeOK
<1> QED  BY <1>1, <1>2, <1>4, <1>5, <1>6, IdleIInv

-----------------------------------------------------------------------------
(* Removal. *)

LEMMA DropIs ==
    ASSUME TypeOK, Housed, HousedOnce, NEW m \in Maps, NEW first \in Positions(m),
           NEW last \in Positions(m), first =< last, Drop(m, first, last)
    PROVE  /\ heap' \in PartialHeaps
           /\ p_nodes' \in [Maps -> Seq(DOMAIN heap')]
           /\ \A n \in Maps \ {m} : p_nodes'[n] = p_nodes[n]
           /\ \A n \in Maps \ {m} : \A i \in DOMAIN p_nodes[n] : At(n, i)' = At(n, i)
           /\ p_nodes'[m] = Shorter(p_nodes[m], first, last)
           /\ DOMAIN p_nodes'[m] = 1 .. Len(p_nodes[m]) - (last - first)
           /\ \A i \in DOMAIN p_nodes'[m] :
                 /\ Was(first, last, i) \in DOMAIN p_nodes[m]
                 /\ Was(first, last, i) \notin first .. (last - 1)
                 /\ p_nodes'[m][i] = p_nodes[m][Was(first, last, i)]
                 /\ At(m, i)' = At(m, Was(first, last, i))
           /\ \A j \in DOMAIN p_nodes[m] : j \in first .. (last - 1)
                 \/ \E i \in DOMAIN p_nodes'[m] : j = Was(first, last, i)
           /\ \A a : a \in DOMAIN heap' <=>
                 a \in DOMAIN heap /\ \A i \in first .. (last - 1) : a # p_nodes[m][i]
<1> DEFINE gone == {p_nodes[m][i] : i \in first .. (last - 1)}
<1>1. /\ p_nodes' = [p_nodes EXCEPT ![m] = Shorter(p_nodes[m], first, last)]
      /\ heap' = Deallocate(heap, gone)
  BY DEF Drop, Shorter
<1>2. p_nodes \in [Maps -> Seq(DOMAIN heap)]
  BY DEF TypeOK
<1>3. p_nodes[m] \in Seq(DOMAIN heap) /\ Len(p_nodes[m]) \in Nat
      /\ DOMAIN p_nodes[m] = 1 .. Len(p_nodes[m])
  BY <1>2
<1>4. first \in 1 .. Len(p_nodes[m]) + 1 /\ last \in 1 .. Len(p_nodes[m]) + 1
  BY DEF Positions, End
<1> DEFINE q == Shorter(p_nodes[m], first, last)
<1>5. /\ q \in Seq(DOMAIN heap)
      /\ DOMAIN q = 1 .. Len(p_nodes[m]) - (last - first)
      /\ \A i \in DOMAIN q :
            /\ Was(first, last, i) \in DOMAIN p_nodes[m]
            /\ Was(first, last, i) \notin first .. (last - 1)
            /\ q[i] = p_nodes[m][Was(first, last, i)]
      /\ \A j \in DOMAIN p_nodes[m] : j \in first .. (last - 1)
            \/ \E i \in DOMAIN q : j = Was(first, last, i)
  <2> DEFINE p == p_nodes[m]
  <2>1. p \in Seq(DOMAIN heap) /\ first \in 1 .. Len(p) + 1 /\ last \in 1 .. Len(p) + 1
    BY <1>3, <1>4
  <2> HIDE DEF p
  <2>2. DOMAIN Shorter(p, first, last) = 1 .. Len(p) - (last - first)
    BY <2>1, ShorterIs
  <2>3. /\ Shorter(p, first, last) \in Seq(DOMAIN heap)
        /\ \A i \in 1 .. Len(p) - (last - first) :
              /\ Was(first, last, i) \in DOMAIN p
              /\ Was(first, last, i) \notin first .. (last - 1)
              /\ Shorter(p, first, last)[i] = p[Was(first, last, i)]
        /\ \A j \in DOMAIN p : j \in first .. (last - 1)
              \/ \E i \in 1 .. Len(p) - (last - first) : j = Was(first, last, i)
    BY <2>1, ShorterIs
  <2> QED  BY <2>2, <2>3 DEF p
<1>6. p_nodes'[m] = q /\ \A n \in Maps \ {m} : p_nodes'[n] = p_nodes[n]
  BY <1>1, <1>2
<1>7. heap' \in PartialHeaps /\ DOMAIN heap' = DOMAIN heap \ gone
      /\ \A a \in DOMAIN heap \ gone : heap'[a] = heap[a]
  <2> HIDE DEF gone
  <2> QED  BY <1>1, DeallocateIs
<1>8. first .. (last - 1) \subseteq DOMAIN p_nodes[m]
  BY <1>3, <1>4
<1>9. \A i \in DOMAIN q : q[i] \in DOMAIN heap'
  <2> SUFFICES ASSUME NEW i \in DOMAIN q, q[i] \in gone PROVE FALSE
    BY <1>3, <1>5, <1>7
  <2>1. PICK j \in first .. (last - 1) : q[i] = p_nodes[m][j]
    OBVIOUS
  <2>2. Was(first, last, i) = j
    BY <1>5, <1>8, <2>1 DEF HousedOnce
  <2> QED  BY <1>5, <2>2
<1>10. \A n \in Maps \ {m} : \A i \in DOMAIN p_nodes[n] : p_nodes[n][i] \in DOMAIN heap'
  <2> SUFFICES ASSUME NEW n \in Maps \ {m}, NEW i \in DOMAIN p_nodes[n], p_nodes[n][i] \in gone
               PROVE  FALSE
    BY <1>7, Places
  <2>1. PICK j \in first .. (last - 1) : p_nodes[n][i] = p_nodes[m][j]
    OBVIOUS
  <2> QED  BY <1>8, <2>1 DEF HousedOnce
<1> HIDE DEF q, gone
<1>11. p_nodes' \in [Maps -> Seq(DOMAIN heap')]
  <2>1. q \in Seq(DOMAIN heap')
    BY <1>5, <1>9, SeqOfElements
  <2>2. \A n \in Maps \ {m} : p_nodes[n] \in Seq(DOMAIN heap')
    BY <1>2, <1>10, SeqOfElements
  <2> QED  BY <1>1, <1>2, <2>1, <2>2 DEF q
<1>12. \A i \in DOMAIN p_nodes'[m] : At(m, i)' = At(m, Was(first, last, i))
  BY <1>5, <1>6, <1>7, <1>9 DEF At
<1>13. \A n \in Maps \ {m} : \A i \in DOMAIN p_nodes[n] : At(n, i)' = At(n, i)
  BY <1>6, <1>7, <1>10 DEF At
<1>14. p_nodes'[m] = Shorter(p_nodes[m], first, last)
       /\ \A a : a \in DOMAIN heap' <=>
              a \in DOMAIN heap /\ \A i \in first .. (last - 1) : a # p_nodes[m][i]
  BY <1>6, <1>7 DEF q, gone
<1> QED  BY <1>5, <1>6, <1>7, <1>11, <1>12, <1>13, <1>14

\* Nothing that stays has the address of what is dropped.
LEMMA DropKeeps ==
    ASSUME IInv, Idle, NEW m \in Maps, NEW first \in Positions(m),
           NEW last \in Positions(m), first =< last, Drop(m, first, last),
           extracted' \in Node \cup {Nothing}, UNCHANGED copying
    PROVE  IInv'
<1>1. TypeOK /\ Housed /\ HousedOnce /\ UniqueKeys /\ copying' = Nothing
  BY IdleOwners DEF IInv, Idle
<1>2. /\ heap' \in PartialHeaps
      /\ p_nodes' \in [Maps -> Seq(DOMAIN heap')]
      /\ \A n \in Maps \ {m} : p_nodes'[n] = p_nodes[n]
      /\ \A n \in Maps \ {m} : \A i \in DOMAIN p_nodes[n] : At(n, i)' = At(n, i)
      /\ \A i \in DOMAIN p_nodes'[m] :
            /\ Was(first, last, i) \in DOMAIN p_nodes[m]
            /\ p_nodes'[m][i] = p_nodes[m][Was(first, last, i)]
            /\ At(m, i)' = At(m, Was(first, last, i))
      /\ \A j \in DOMAIN p_nodes[m] : j \in first .. (last - 1)
            \/ \E i \in DOMAIN p_nodes'[m] : j = Was(first, last, i)
      /\ \A a : a \in DOMAIN heap' <=>
            a \in DOMAIN heap /\ \A i \in first .. (last - 1) : a # p_nodes[m][i]
      /\ DOMAIN p_nodes'[m] = 1 .. Len(p_nodes[m]) - (last - first)
  BY <1>1, DropIs
<1>3. \A i, j \in DOMAIN p_nodes'[m] : Was(first, last, i) = Was(first, last, j) => i = j
  <2>1. first \in Nat /\ last \in Nat /\ Len(p_nodes[m]) \in Nat
    BY <1>1, Places DEF Positions, End
  <2> QED  BY <1>2, <2>1 DEF Was
<1>4. UniqueKeys'
  <2> SUFFICES ASSUME NEW n \in Maps, NEW i \in DOMAIN p_nodes'[n], NEW j \in DOMAIN p_nodes'[n],
                      At(n, i)'.key = At(n, j)'.key
               PROVE  i = j
    BY DEF UniqueKeys
  <2>1. CASE n = m
    <3>1. Was(first, last, i) = Was(first, last, j)
      BY <1>1, <1>2, <2>1 DEF UniqueKeys
    <3> QED  BY <1>3, <2>1, <3>1
  <2>2. CASE n # m
    BY <1>1, <1>2, <2>2 DEF UniqueKeys
  <2> QED  BY <2>1, <2>2
<1>5. HousedOnce'
  <2> SUFFICES ASSUME NEW n \in Maps, NEW o \in Maps,
                      NEW i \in DOMAIN p_nodes'[n], NEW j \in DOMAIN p_nodes'[o],
                      p_nodes'[n][i] = p_nodes'[o][j]
               PROVE  n = o /\ i = j
    BY DEF HousedOnce
  <2>1. CASE n = m /\ o = m
    <3>1. Was(first, last, i) = Was(first, last, j)
      BY <1>1, <1>2, <2>1 DEF HousedOnce
    <3> QED  BY <1>3, <2>1, <3>1
  <2>2. CASE n # m /\ o # m
    BY <1>1, <1>2, <2>2 DEF HousedOnce
  <2>3. CASE n = m /\ o # m
    BY <1>1, <1>2, <2>3 DEF HousedOnce
  <2>4. CASE n # m /\ o = m
    BY <1>1, <1>2, <2>4 DEF HousedOnce
  <2> QED  BY <2>1, <2>2, <2>3, <2>4
<1>6. Housed'
  <2>1. ASSUME NEW a \in DOMAIN heap'
        PROVE  \E n \in Maps : \E i \in DOMAIN p_nodes'[n] : a = p_nodes'[n][i]
    <3>1. PICK n \in Maps : \E i \in DOMAIN p_nodes[n] : a = p_nodes[n][i]
      BY <1>1, <1>2 DEF Housed
    <3>2. PICK i \in DOMAIN p_nodes[n] : a = p_nodes[n][i]
      BY <3>1
    <3>3. CASE n # m
      BY <1>2, <3>2, <3>3
    <3>4. CASE n = m
      <4>1. i \notin first .. (last - 1)
        BY <1>2, <3>2, <3>4
      <4>2. PICK j \in DOMAIN p_nodes'[m] : i = Was(first, last, j)
        BY <1>2, <3>2, <3>4, <4>1
      <4> QED  BY <1>2, <3>2, <3>4, <4>2
    <3> QED  BY <3>3, <3>4
  <2>2. \A n \in Maps : \A i \in DOMAIN p_nodes'[n] : p_nodes'[n][i] \in DOMAIN heap'
    <3>1. \A n \in Maps : p_nodes'[n] \in Seq(DOMAIN heap')
      BY <1>2
    <3> QED  BY <3>1
  <2> QED  BY <2>1, <2>2 DEF Housed
<1> QED  BY <1>1, <1>2, <1>4, <1>5, <1>6, IdleIInv

-----------------------------------------------------------------------------
(* Assignment. *)

LEMMA SwapIs ==
    ASSUME TypeOK, NEW m \in Maps, NEW with \in Maps, Swap(m, with)
    PROVE  /\ p_nodes' \in [Maps -> Seq(DOMAIN heap)]
           /\ heap' = heap /\ Idle /\ copying' = Nothing /\ extracted' = Nothing
           /\ \A n \in Maps :
                 p_nodes'[n] = p_nodes[IF n = with THEN m ELSE IF n = m THEN with ELSE n]
<1>1. p_nodes \in [Maps -> Seq(DOMAIN heap)]
  BY DEF TypeOK
<1>2. p_nodes' = [p_nodes EXCEPT ![m] = p_nodes[with], ![with] = p_nodes[m]]
      /\ heap' = heap /\ Idle /\ copying' = Nothing /\ extracted' = Nothing
  BY DEF Swap, Idle, ForgetNode
<1> QED  BY <1>1, <1>2

LEMMA SwapKeeps ==
    ASSUME IInv, NEW m \in Maps, NEW with \in Maps, Swap(m, with)
    PROVE  IInv'
<1> DEFINE of(n) == IF n = with THEN m ELSE IF n = m THEN with ELSE n
<1>1. /\ p_nodes' \in [Maps -> Seq(DOMAIN heap)]
      /\ heap' = heap /\ Idle /\ copying' = Nothing /\ extracted' = Nothing
      /\ \A n \in Maps : p_nodes'[n] = p_nodes[of(n)]
  BY SwapIs DEF IInv
<1>2. TypeOK /\ Housed /\ HousedOnce /\ UniqueKeys
  BY <1>1, IdleOwners DEF IInv
<1>3. \A n \in Maps : of(n) \in Maps /\ \A o \in Maps : of(n) = of(o) => n = o
  OBVIOUS
<1>4. \A n \in Maps : of(of(n)) = n
  OBVIOUS
<1> HIDE DEF of
<1>5. UniqueKeys'
  <2> SUFFICES ASSUME NEW n \in Maps, NEW i \in DOMAIN p_nodes'[n], NEW j \in DOMAIN p_nodes'[n],
                      At(n, i)'.key = At(n, j)'.key
               PROVE  i = j
    BY DEF UniqueKeys
  <2>1. i \in DOMAIN p_nodes[of(n)] /\ j \in DOMAIN p_nodes[of(n)]
        /\ At(n, i)' = At(of(n), i) /\ At(n, j)' = At(of(n), j)
    BY <1>1 DEF At
  <2> QED  BY <1>2, <1>3, <2>1 DEF UniqueKeys
<1>6. HousedOnce'
  <2> SUFFICES ASSUME NEW n \in Maps, NEW o \in Maps,
                      NEW i \in DOMAIN p_nodes'[n], NEW j \in DOMAIN p_nodes'[o],
                      p_nodes'[n][i] = p_nodes'[o][j]
               PROVE  n = o /\ i = j
    BY DEF HousedOnce
  <2>1. of(n) \in Maps /\ of(o) \in Maps
    BY <1>3
  <2>2. i \in DOMAIN p_nodes[of(n)] /\ j \in DOMAIN p_nodes[of(o)]
        /\ p_nodes[of(n)][i] = p_nodes[of(o)][j]
    BY <1>1
  <2>3. of(n) = of(o) /\ i = j
    BY <1>2, <2>1, <2>2 DEF HousedOnce
  <2> QED  BY <1>3, <2>3
<1>7. Housed'
  <2>1. ASSUME NEW a \in DOMAIN heap'
        PROVE  \E n \in Maps : \E i \in DOMAIN p_nodes'[n] : a = p_nodes'[n][i]
    <3>1. PICK n \in Maps : \E i \in DOMAIN p_nodes[n] : a = p_nodes[n][i]
      BY <1>1, <1>2 DEF Housed
    <3>2. of(n) \in Maps /\ p_nodes'[of(n)] = p_nodes[n]
      BY <1>1, <1>3, <1>4
    <3> QED  BY <3>1, <3>2
  <2>2. \A n \in Maps : \A i \in DOMAIN p_nodes'[n] : p_nodes'[n][i] \in DOMAIN heap'
    BY <1>1, <1>2, <1>3, Places
  <2> QED  BY <2>1, <2>2 DEF Housed
<1> QED  BY <1>1, <1>2, <1>5, <1>6, <1>7, IdleIInv DEF TypeOK

\* The nodes of the target are freed, and those of the source change hands.
LEMMA MoveIs ==
    ASSUME TypeOK, Housed, HousedOnce, NEW m \in Maps, NEW from \in Maps, MoveAssign(m, from)
    PROVE  /\ heap' \in PartialHeaps
           /\ \A a : a \in DOMAIN heap' <=>
                 a \in DOMAIN heap /\ \A i \in DOMAIN p_nodes[m] : a # p_nodes[m][i]
           /\ \A a \in DOMAIN heap' : heap'[a] = heap[a]
           /\ p_nodes' \in [Maps -> Seq(DOMAIN heap')]
           /\ p_nodes'[from] = <<>>
           /\ m # from => p_nodes'[m] = p_nodes[from]
           /\ \A n \in Maps \ {m, from} : p_nodes'[n] = p_nodes[n]
<1>1. /\ heap' = Deallocate(heap, ToSet(p_nodes[m]))
      /\ p_nodes' = [p_nodes EXCEPT ![m] = IF m = from THEN <<>> ELSE p_nodes[from],
                                    ![from] = <<>>]
  BY DEF MoveAssign
<1>2. /\ heap' \in PartialHeaps
      /\ DOMAIN heap' = DOMAIN heap \ ToSet(p_nodes[m])
      /\ \A a \in DOMAIN heap' : heap'[a] = heap[a]
  BY <1>1, DeallocateIs
<1>3. \A a : a \in DOMAIN heap' <=>
          a \in DOMAIN heap /\ \A i \in DOMAIN p_nodes[m] : a # p_nodes[m][i]
  BY <1>2 DEF ToSet
<1>4. \A n \in Maps \ {m} : p_nodes[n] \in Seq(DOMAIN heap')
  <2> SUFFICES ASSUME NEW n \in Maps \ {m} PROVE p_nodes[n] \in Seq(DOMAIN heap')
    OBVIOUS
  <2>1. p_nodes[n] \in Seq(DOMAIN heap)
    BY DEF TypeOK
  <2>2. \A i \in DOMAIN p_nodes[n] : p_nodes[n][i] \in DOMAIN heap'
    BY <1>3, Places DEF HousedOnce
  <2> QED  BY <2>1, <2>2, SeqOfElements
<1>5. p_nodes \in [Maps -> Seq(DOMAIN heap)] /\ <<>> \in Seq(DOMAIN heap')
  BY EmptySeq DEF TypeOK
<1>6. p_nodes' \in [Maps -> Seq(DOMAIN heap')]
  <2>1. DOMAIN p_nodes = Maps
    BY <1>5
  <2> QED  BY <1>1, <1>4, <1>5, <2>1
<1>7. /\ p_nodes'[from] = <<>>
      /\ m # from => p_nodes'[m] = p_nodes[from]
      /\ \A n \in Maps \ {m, from} : p_nodes'[n] = p_nodes[n]
  BY <1>1, <1>5
<1> QED  BY <1>2, <1>3, <1>6, <1>7

LEMMA MoveKeeps ==
    ASSUME IInv, NEW m \in Maps, NEW from \in Maps, MoveAssign(m, from)
    PROVE  IInv'
<1>1. Idle /\ copying' = Nothing /\ extracted' = Nothing
  BY DEF MoveAssign, Idle, ForgetNode
<1>2. TypeOK /\ Housed /\ HousedOnce /\ UniqueKeys
  BY <1>1, IdleOwners DEF IInv
<1>3. /\ heap' \in PartialHeaps
      /\ \A a : a \in DOMAIN heap' <=>
            a \in DOMAIN heap /\ \A i \in DOMAIN p_nodes[m] : a # p_nodes[m][i]
      /\ \A a \in DOMAIN heap' : heap'[a] = heap[a]
      /\ p_nodes' \in [Maps -> Seq(DOMAIN heap')]
      /\ p_nodes'[from] = <<>>
      /\ m # from => p_nodes'[m] = p_nodes[from]
      /\ \A n \in Maps \ {m, from} : p_nodes'[n] = p_nodes[n]
  BY <1>2, MoveIs
<1> DEFINE of(n) == IF n = m THEN from ELSE n
<1>4. \A n \in Maps : \A i \in DOMAIN p_nodes'[n] :
          /\ n # from /\ of(n) \in Maps /\ of(n) # m
          /\ i \in DOMAIN p_nodes[of(n)] /\ p_nodes'[n][i] = p_nodes[of(n)][i]
          /\ p_nodes'[n][i] \in DOMAIN heap'
          /\ At(n, i)' = At(of(n), i)
  <2> SUFFICES ASSUME NEW n \in Maps, NEW i \in DOMAIN p_nodes'[n]
               PROVE  /\ n # from /\ of(n) \in Maps /\ of(n) # m
                      /\ i \in DOMAIN p_nodes[of(n)] /\ p_nodes'[n][i] = p_nodes[of(n)][i]
                      /\ p_nodes'[n][i] \in DOMAIN heap'
                      /\ At(n, i)' = At(of(n), i)
    OBVIOUS
  <2>1. n # from
    BY <1>3
  <2>2. of(n) \in Maps /\ of(n) # m /\ p_nodes'[n] = p_nodes[of(n)]
    BY <1>3, <2>1
  <2>3. p_nodes'[n] \in Seq(DOMAIN heap')
    BY <1>3
  <2>4. p_nodes'[n][i] \in DOMAIN heap'
    BY <2>3
  <2> QED  BY <1>3, <2>1, <2>2, <2>4 DEF At
<1>5. \A n, o \in Maps : n # from /\ o # from /\ of(n) = of(o) => n = o
  OBVIOUS
<1> HIDE DEF of
<1>6. UniqueKeys'
  <2> SUFFICES ASSUME NEW n \in Maps, NEW i \in DOMAIN p_nodes'[n], NEW j \in DOMAIN p_nodes'[n],
                      At(n, i)'.key = At(n, j)'.key
               PROVE  i = j
    BY DEF UniqueKeys
  <2> QED  BY <1>2, <1>4 DEF UniqueKeys
<1>7. HousedOnce'
  BY <1>2, <1>4, <1>5 DEF HousedOnce
<1>8. Housed'
  <2>1. ASSUME NEW a \in DOMAIN heap'
        PROVE  \E n \in Maps : \E i \in DOMAIN p_nodes'[n] : a = p_nodes'[n][i]
    <3>1. PICK n \in Maps : \E i \in DOMAIN p_nodes[n] : a = p_nodes[n][i]
      BY <1>2, <1>3 DEF Housed
    <3>2. n # m
      BY <1>3, <3>1
    <3>3. CASE n = from
      BY <1>3, <3>1, <3>2, <3>3
    <3>4. CASE n # from
      BY <1>3, <3>1, <3>2, <3>4
    <3> QED  BY <3>3, <3>4
  <2> QED  BY <1>4, <2>1 DEF Housed
<1> QED  BY <1>1, <1>3, <1>6, <1>7, <1>8, IdleIInv

LEMMA UnderWay ==
    ASSUME TypeOK, ~Idle
    PROVE  /\ copying \in Copy /\ copying.to \in Maps /\ copying.from \in Maps
           /\ copying.nodes \in Seq(Addresses) /\ Built = copying.nodes
           /\ copying = [to |-> copying.to, from |-> copying.from, nodes |-> copying.nodes]
<1>1. copying \in Copy
  BY DEF TypeOK, Idle
<1> QED  BY <1>1 DEF Copy, Built

\* While a copy is under way, IInv is about what it has built as well.
LEMMA CopyingIInv ==
    ASSUME NEW to \in Maps, NEW from \in Maps, NEW nodes \in Seq(DOMAIN heap'), to # from,
           copying' = [to |-> to, from |-> from, nodes |-> nodes], extracted' = Nothing,
           heap' \in PartialHeaps, p_nodes' \in [Maps -> Seq(DOMAIN heap')],
           Len(nodes) =< Len(p_nodes'[from]),
           \A i \in DOMAIN nodes : heap'[nodes[i]] = At(from, i)',
           UniqueKeys',
           ~Idle' => AllOwned' /\ OwnedOnce'
    PROVE  IInv'
<1>1. DOMAIN heap' \subseteq Addresses
  BY DEF PartialHeaps
<1>2. nodes \in Seq(Addresses)
  BY <1>1
<1>3. copying' \in Copy
  BY <1>2 DEF Copy
<1>4. ~Idle'
  BY <1>3, NomapAssumption DEF Idle
<1>5. OneOwner'
  BY <1>4, OwnersNext
<1>6. TypeOK'
  BY <1>3 DEF TypeOK
<1>7. CopyInv'
  BY DEF CopyInv
<1> QED  BY <1>5, <1>6, <1>7 DEF IInv

LEMMA BeginCopyKeeps ==
    ASSUME IInv, NEW m \in Maps, NEW from \in Maps, BeginCopy(m, from)
    PROVE  IInv'
<1>1. /\ Idle /\ m # from /\ extracted' = Nothing /\ p_nodes' = p_nodes /\ heap' = heap
      /\ copying' = [to |-> m, from |-> from, nodes |-> <<>>]
  BY DEF BeginCopy, ForgetNode
<1>2. TypeOK /\ Housed /\ HousedOnce /\ UniqueKeys
  BY <1>1, IdleOwners DEF IInv
<1>3. UniqueKeys'
  BY <1>1, <1>2 DEF UniqueKeys, At
<1>4. ASSUME ~Idle' PROVE AllOwned' /\ OwnedOnce'
  <2>1. DOMAIN Built' = {}
    BY <1>1, <1>4 DEF Built
  <2> QED  BY <1>1, <1>2, <2>1 DEF AllOwned, OwnedOnce, Housed, HousedOnce
<1> DEFINE nodes == <<>>
<1>5. nodes \in Seq(DOMAIN heap') /\ DOMAIN nodes = {} /\ Len(nodes) = 0
  BY EmptySeq
<1>6. copying' = [to |-> m, from |-> from, nodes |-> nodes]
  BY <1>1
<1>7. heap' \in PartialHeaps /\ p_nodes' \in [Maps -> Seq(DOMAIN heap')]
      /\ Len(p_nodes'[from]) \in Nat
  BY <1>1, <1>2 DEF TypeOK
<1> HIDE DEF nodes
<1>8. Len(nodes) =< Len(p_nodes'[from]) /\ \A i \in DOMAIN nodes : heap'[nodes[i]] = At(from, i)'
  BY <1>5, <1>7
<1> QED  BY <1>1, <1>3, <1>4, <1>5, <1>6, <1>7, <1>8, CopyingIInv

LEMMA CopyNodeIs ==
    ASSUME IInv, CopyNode
    PROVE  /\ ~Idle
           /\ Min(Free) \notin DOMAIN heap
           /\ DOMAIN heap' = DOMAIN heap \cup {Min(Free)}
           /\ Len(Built) + 1 \in DOMAIN p_nodes[copying.from]
           /\ heap'[Min(Free)] = At(copying.from, Len(Built) + 1)
           /\ \A a \in DOMAIN heap : heap'[a] = heap[a]
           /\ heap' \in PartialHeaps
           /\ p_nodes' = p_nodes /\ extracted' = Nothing
           /\ copying' = [to |-> copying.to, from |-> copying.from,
                          nodes |-> Append(Built, Min(Free))]
<1>1. TypeOK /\ ~Idle
  BY DEF IInv, CopyNode
<1>2. /\ copying.from \in Maps /\ copying.nodes = Built
      /\ copying = [to |-> copying.to, from |-> copying.from, nodes |-> copying.nodes]
  BY <1>1, UnderWay
<1>3. /\ Len(Built) < Len(p_nodes[copying.from]) /\ Free # {}
      /\ heap' = Allocate(At(copying.from, Len(Built) + 1))
      /\ p_nodes' = p_nodes /\ extracted' = Nothing
      /\ copying' = [copying EXCEPT !.nodes = Append(copying.nodes, Min(Free))]
  BY <1>2 DEF CopyNode, Remaining, ForgetNode
<1>4. Len(Built) + 1 \in DOMAIN p_nodes[copying.from]
  BY <1>1, <1>2, <1>3, Places, BuiltType
<1>5. At(copying.from, Len(Built) + 1) \in Node
  BY <1>1, <1>2, <1>4, Places
<1>6. /\ Min(Free) \notin DOMAIN heap
      /\ DOMAIN heap' = DOMAIN heap \cup {Min(Free)}
      /\ heap'[Min(Free)] = At(copying.from, Len(Built) + 1)
      /\ \A a \in DOMAIN heap : heap'[a] = heap[a]
      /\ heap' \in PartialHeaps
  BY <1>1, <1>3, <1>5, AllocateIs
<1>7. copying' = [to |-> copying.to, from |-> copying.from, nodes |-> Append(Built, Min(Free))]
  BY <1>2, <1>3
<1> QED  BY <1>1, <1>3, <1>4, <1>6, <1>7

LEMMA CopyNodeKeeps ==
    ASSUME IInv, CopyNode
    PROVE  IInv'
<1> DEFINE a == Min(Free)
           nodes == Append(Built, a)
           last == Len(Built) + 1
<1>1. TypeOK /\ UniqueKeys /\ AllOwned /\ OwnedOnce /\ CopyInv
  BY OwnersAre DEF IInv
<1>2. /\ ~Idle
      /\ a \notin DOMAIN heap
      /\ DOMAIN heap' = DOMAIN heap \cup {a}
      /\ last \in DOMAIN p_nodes[copying.from]
      /\ heap'[a] = At(copying.from, last)
      /\ \A b \in DOMAIN heap : heap'[b] = heap[b]
      /\ heap' \in PartialHeaps
      /\ p_nodes' = p_nodes /\ extracted' = Nothing
      /\ copying' = [to |-> copying.to, from |-> copying.from, nodes |-> nodes]
  BY CopyNodeIs
<1>3. copying.to \in Maps /\ copying.from \in Maps /\ Built = copying.nodes
      /\ copying.to # copying.from
  BY <1>1, <1>2, UnderWay DEF CopyInv
<1>4. Built \in Seq(DOMAIN heap') /\ Len(Built) \in Nat /\ DOMAIN Built = 1 .. Len(Built)
      /\ \A i \in DOMAIN Built : Built[i] \in DOMAIN heap
  BY <1>1, <1>2, BuiltType
<1>5. a \in DOMAIN heap'
  BY <1>2
<1> HIDE DEF a
<1>6. /\ nodes \in Seq(DOMAIN heap') /\ Len(nodes) = last
      /\ DOMAIN nodes = DOMAIN Built \cup {last} /\ nodes[last] = a
      /\ \A i \in DOMAIN Built : nodes[i] = Built[i]
  BY <1>4, <1>5, AppendProperties
<1>7. last \notin DOMAIN Built
  BY <1>4
<1> HIDE DEF nodes
<1>8. \A n \in Maps : \A i \in DOMAIN p_nodes[n] :
          p_nodes[n][i] \in DOMAIN heap /\ At(n, i)' = At(n, i)
  BY <1>1, <1>2, Places DEF At
<1>9. UniqueKeys'
  BY <1>1, <1>2, <1>8 DEF UniqueKeys
<1>10. p_nodes' \in [Maps -> Seq(DOMAIN heap')]
  BY <1>1, <1>2 DEF TypeOK
<1>11. Len(nodes) =< Len(p_nodes'[copying.from])
  BY <1>1, <1>2, <1>3, <1>4, <1>6, Places
<1>12. \A i \in DOMAIN nodes : heap'[nodes[i]] = At(copying.from, i)'
  <2> SUFFICES ASSUME NEW i \in DOMAIN nodes PROVE heap'[nodes[i]] = At(copying.from, i)'
    OBVIOUS
  <2>1. CASE i = last
    BY <1>2, <1>3, <1>6, <1>8, <2>1
  <2>2. CASE i \in DOMAIN Built
    <3>1. heap[Built[i]] = At(copying.from, i)
      BY <1>1, <1>2, <1>3, <2>2 DEF CopyInv
    <3>2. i \in DOMAIN p_nodes[copying.from]
      BY <1>1, <1>2, <1>3, <1>4, <2>2, Places
    <3> QED  BY <1>2, <1>3, <1>4, <1>6, <1>8, <2>2, <3>1, <3>2
  <2> QED  BY <1>6, <2>1, <2>2
<1>13. ASSUME ~Idle' PROVE AllOwned' /\ OwnedOnce'
  <2>1. Built' = nodes
    BY <1>2, <1>13 DEF Built
  <2>2. AllOwned'
    <3>1. ASSUME NEW b \in DOMAIN heap'
          PROVE  \/ \E m \in Maps : \E i \in DOMAIN p_nodes'[m] : b = p_nodes'[m][i]
                 \/ \E i \in DOMAIN Built' : b = Built'[i]
      <4>1. CASE b = a
        BY <1>6, <2>1, <4>1
      <4>2. CASE b \in DOMAIN heap
        <5>1. \/ \E m \in Maps : \E i \in DOMAIN p_nodes[m] : b = p_nodes[m][i]
              \/ \E i \in DOMAIN Built : b = Built[i]
          BY <1>1, <4>2 DEF AllOwned
        <5> QED  BY <1>2, <1>6, <2>1, <5>1
      <4> QED  BY <1>2, <4>1, <4>2
    <3>2. \A n \in Maps : \A i \in DOMAIN p_nodes'[n] : p_nodes'[n][i] \in DOMAIN heap'
      BY <1>2, <1>8
    <3>3. \A i \in DOMAIN Built' : Built'[i] \in DOMAIN heap'
      BY <1>2, <1>4, <1>6, <2>1
    <3> QED  BY <3>1, <3>2, <3>3 DEF AllOwned
  <2>3. OwnedOnce'
    <3>1. \A m \in Maps : \A i \in DOMAIN p_nodes[m], j \in DOMAIN nodes : p_nodes[m][i] # nodes[j]
      BY <1>1, <1>2, <1>6, <1>8 DEF OwnedOnce
    <3>2. \A i, j \in DOMAIN nodes : nodes[i] = nodes[j] => i = j
      BY <1>1, <1>2, <1>4, <1>6 DEF OwnedOnce
    <3> QED  BY <1>1, <1>2, <2>1, <3>1, <3>2 DEF OwnedOnce
  <2> QED  BY <2>2, <2>3
<1> QED  BY <1>2, <1>3, <1>6, <1>9, <1>10, <1>11, <1>12, <1>13, CopyingIInv

\* What was built is freed, and only that.
LEMMA CopyThrowsKeeps ==
    ASSUME IInv, CopyThrows
    PROVE  IInv'
<1>1. TypeOK /\ UniqueKeys /\ AllOwned /\ OwnedOnce
  BY OwnersAre DEF IInv
<1>2. /\ ~Idle /\ copying' = Nothing /\ extracted' = Nothing /\ p_nodes' = p_nodes
      /\ heap' = Deallocate(heap, ToSet(copying.nodes))
  BY DEF CopyThrows, ForgetNode
<1>3. copying.nodes = Built
  BY <1>1, <1>2, UnderWay
<1>4. /\ heap' \in PartialHeaps /\ DOMAIN heap' = DOMAIN heap \ ToSet(Built)
      /\ \A a \in DOMAIN heap \ ToSet(Built) : heap'[a] = heap[a]
  BY <1>1, <1>2, <1>3, DeallocateIs
<1>5. \A a : a \in ToSet(Built) <=> \E i \in DOMAIN Built : a = Built[i]
  BY DEF ToSet
<1>6. \A n \in Maps : \A i \in DOMAIN p_nodes[n] :
          p_nodes[n][i] \in DOMAIN heap' /\ At(n, i)' = At(n, i)
  <2> SUFFICES ASSUME NEW n \in Maps, NEW i \in DOMAIN p_nodes[n]
               PROVE  p_nodes[n][i] \in DOMAIN heap' /\ At(n, i)' = At(n, i)
    OBVIOUS
  <2>1. p_nodes[n][i] \in DOMAIN heap
    BY <1>1, Places
  <2>2. p_nodes[n][i] \notin ToSet(Built)
    BY <1>1, <1>5 DEF OwnedOnce
  <2> QED  BY <1>2, <1>4, <2>1, <2>2 DEF At
<1>7. UniqueKeys'
  BY <1>1, <1>2, <1>6 DEF UniqueKeys
<1>8. HousedOnce'
  BY <1>1, <1>2 DEF OwnedOnce, HousedOnce
<1>9. Housed'
  BY <1>1, <1>2, <1>4, <1>5, <1>6 DEF AllOwned, Housed
<1>10. p_nodes' \in [Maps -> Seq(DOMAIN heap')]
  <2>1. ASSUME NEW n \in Maps PROVE p_nodes[n] \in Seq(DOMAIN heap')
    <3>1. p_nodes[n] \in Seq(DOMAIN heap)
      BY <1>1 DEF TypeOK
    <3> QED  BY <1>6, <3>1, SeqOfElements
  <2> QED  BY <1>1, <1>2, <2>1 DEF TypeOK
<1> QED  BY <1>2, <1>4, <1>7, <1>8, <1>9, <1>10, IdleIInv

\* The target's nodes are freed, and what was built takes their place.
LEMMA CopyDoneIs ==
    ASSUME IInv, CopyDone
    PROVE  /\ ~Idle /\ copying' = Nothing /\ extracted' = Nothing
           /\ copying.to \in Maps /\ copying.from \in Maps /\ copying.to # copying.from
           /\ heap' \in PartialHeaps
           /\ \A a : a \in DOMAIN heap' <=>
                 /\ a \in DOMAIN heap
                 /\ \A i \in DOMAIN p_nodes[copying.to] : a # p_nodes[copying.to][i]
           /\ p_nodes' \in [Maps -> Seq(DOMAIN heap')]
           /\ p_nodes'[copying.to] = Built
           /\ \A n \in Maps \ {copying.to} : p_nodes'[n] = p_nodes[n]
           /\ \A n \in Maps \ {copying.to} : \A i \in DOMAIN p_nodes[n] : At(n, i)' = At(n, i)
           /\ DOMAIN Built = DOMAIN p_nodes[copying.from]
           /\ Len(Built) = Len(p_nodes[copying.from])
           /\ \A i \in DOMAIN Built :
                 /\ heap'[p_nodes'[copying.to][i]] = At(copying.from, i)
                 /\ heap[Built[i]] = At(copying.from, i)
<1> DEFINE m == copying.to
           from == copying.from
<1>1. TypeOK /\ UniqueKeys /\ AllOwned /\ OwnedOnce /\ CopyInv
  BY OwnersAre DEF IInv
<1>2. /\ ~Idle /\ ~Remaining /\ copying' = Nothing /\ extracted' = Nothing
      /\ heap' = Deallocate(heap, ToSet(p_nodes[m]))
      /\ p_nodes' = [p_nodes EXCEPT ![m] = copying.nodes]
  BY DEF CopyDone, ForgetNode
<1>3. m \in Maps /\ from \in Maps /\ copying.nodes = Built /\ m # from
  BY <1>1, <1>2, UnderWay DEF CopyInv
<1>4. /\ Len(Built) =< Len(p_nodes[from])
      /\ \A i \in DOMAIN Built : heap[Built[i]] = At(from, i)
  BY <1>1, <1>2, <1>3 DEF CopyInv
<1>5. Built \in Seq(DOMAIN heap) /\ Len(Built) \in Nat /\ DOMAIN Built = 1 .. Len(Built)
  BY <1>1, BuiltType
<1>6. DOMAIN Built = DOMAIN p_nodes[from] /\ Len(Built) = Len(p_nodes[from])
  BY <1>1, <1>2, <1>3, <1>4, <1>5, Places DEF Remaining
<1>7. /\ heap' \in PartialHeaps /\ DOMAIN heap' = DOMAIN heap \ ToSet(p_nodes[m])
      /\ \A a \in DOMAIN heap \ ToSet(p_nodes[m]) : heap'[a] = heap[a]
  BY <1>1, <1>2, DeallocateIs
<1>8. \A a : a \in ToSet(p_nodes[m]) <=> \E i \in DOMAIN p_nodes[m] : a = p_nodes[m][i]
  BY DEF ToSet
<1>9. p_nodes'[m] = Built /\ \A n \in Maps \ {m} : p_nodes'[n] = p_nodes[n]
  BY <1>1, <1>2, <1>3 DEF TypeOK
<1>10. \A n \in Maps \ {m} : \A i \in DOMAIN p_nodes[n] :
          p_nodes[n][i] \in DOMAIN heap' /\ heap'[p_nodes[n][i]] = heap[p_nodes[n][i]]
  <2> SUFFICES ASSUME NEW n \in Maps \ {m}, NEW i \in DOMAIN p_nodes[n]
               PROVE  p_nodes[n][i] \in DOMAIN heap \ ToSet(p_nodes[m])
    BY <1>7
  <2>1. p_nodes[n][i] \in DOMAIN heap
    BY <1>1, Places
  <2>2. p_nodes[n][i] \notin ToSet(p_nodes[m])
    BY <1>1, <1>3, <1>8 DEF OwnedOnce
  <2> QED  BY <2>1, <2>2
<1>11. \A i \in DOMAIN Built : Built[i] \in DOMAIN heap' /\ heap'[Built[i]] = heap[Built[i]]
  <2> SUFFICES ASSUME NEW i \in DOMAIN Built
               PROVE  Built[i] \in DOMAIN heap \ ToSet(p_nodes[m])
    BY <1>7
  <2>1. Built[i] \in DOMAIN heap
    BY <1>5
  <2>2. Built[i] \notin ToSet(p_nodes[m])
    BY <1>1, <1>3, <1>8 DEF OwnedOnce
  <2> QED  BY <2>1, <2>2
<1>12. \A n \in Maps \ {m} : \A i \in DOMAIN p_nodes[n] : At(n, i)' = At(n, i)
  BY <1>9, <1>10 DEF At
<1>13. \A i \in DOMAIN Built : heap'[p_nodes'[m][i]] = At(from, i)
  BY <1>4, <1>9, <1>11
<1>14. p_nodes' \in [Maps -> Seq(DOMAIN heap')]
  <2>1. Built \in Seq(DOMAIN heap')
    BY <1>5, <1>11, SeqOfElements
  <2>2. ASSUME NEW n \in Maps \ {m} PROVE p_nodes[n] \in Seq(DOMAIN heap')
    <3>1. p_nodes[n] \in Seq(DOMAIN heap)
      BY <1>1 DEF TypeOK
    <3> QED  BY <1>10, <3>1, SeqOfElements
  <2>3. p_nodes \in [Maps -> Seq(DOMAIN heap)]
    BY <1>1 DEF TypeOK
  <2> QED  BY <1>2, <1>3, <2>1, <2>2, <2>3
<1>15. \A a : a \in DOMAIN heap' <=> a \in DOMAIN heap /\ \A i \in DOMAIN p_nodes[m] : a # p_nodes[m][i]
  BY <1>7, <1>8
<1> QED  BY <1>2, <1>3, <1>4, <1>6, <1>7, <1>9, <1>12, <1>13, <1>14, <1>15

LEMMA CopyDoneKeeps ==
    ASSUME IInv, CopyDone
    PROVE  IInv'
<1> PICK m, from : m = copying.to /\ from = copying.from
  OBVIOUS
<1>1. TypeOK /\ UniqueKeys /\ AllOwned /\ OwnedOnce
  BY OwnersAre DEF IInv
<1>2. /\ copying' = Nothing /\ extracted' = Nothing
      /\ m \in Maps /\ from \in Maps /\ m # from
      /\ heap' \in PartialHeaps
      /\ \A a : a \in DOMAIN heap' <=>
            a \in DOMAIN heap /\ \A i \in DOMAIN p_nodes[m] : a # p_nodes[m][i]
      /\ p_nodes' \in [Maps -> Seq(DOMAIN heap')]
      /\ p_nodes'[m] = Built
      /\ \A n \in Maps \ {m} : p_nodes'[n] = p_nodes[n]
      /\ \A n \in Maps \ {m} : \A i \in DOMAIN p_nodes[n] : At(n, i)' = At(n, i)
      /\ DOMAIN Built = DOMAIN p_nodes[from]
      /\ \A i \in DOMAIN Built : At(m, i)' = At(from, i)
  BY CopyDoneIs DEF At
<1>3. UniqueKeys'
  <2> SUFFICES ASSUME NEW n \in Maps, NEW i \in DOMAIN p_nodes'[n], NEW j \in DOMAIN p_nodes'[n],
                      At(n, i)'.key = At(n, j)'.key
               PROVE  i = j
    BY DEF UniqueKeys
  <2>1. CASE n = m
    <3>1. i \in DOMAIN p_nodes[from] /\ j \in DOMAIN p_nodes[from]
          /\ At(from, i).key = At(from, j).key
      BY <1>2, <2>1
    <3> QED  BY <1>1, <1>2, <3>1 DEF UniqueKeys
  <2>2. CASE n # m
    BY <1>1, <1>2, <2>2 DEF UniqueKeys
  <2> QED  BY <2>1, <2>2
<1>4. HousedOnce'
  <2> SUFFICES ASSUME NEW n \in Maps, NEW o \in Maps,
                      NEW i \in DOMAIN p_nodes'[n], NEW j \in DOMAIN p_nodes'[o],
                      p_nodes'[n][i] = p_nodes'[o][j]
               PROVE  n = o /\ i = j
    BY DEF HousedOnce
  <2>1. CASE n = m /\ o = m
    BY <1>1, <1>2, <2>1 DEF OwnedOnce
  <2>2. CASE n # m /\ o # m
    <3>1. i \in DOMAIN p_nodes[n] /\ j \in DOMAIN p_nodes[o] /\ p_nodes[n][i] = p_nodes[o][j]
      BY <1>2, <2>2
    <3> QED  BY <1>1, <3>1 DEF OwnedOnce
  <2>3. CASE n = m /\ o # m
    BY <1>1, <1>2, <2>3 DEF OwnedOnce
  <2>4. CASE n # m /\ o = m
    BY <1>1, <1>2, <2>4 DEF OwnedOnce
  <2> QED  BY <2>1, <2>2, <2>3, <2>4
<1>5. Housed'
  <2>1. ASSUME NEW a \in DOMAIN heap'
        PROVE  \E n \in Maps : \E i \in DOMAIN p_nodes'[n] : a = p_nodes'[n][i]
    <3>1. \/ \E n \in Maps : \E i \in DOMAIN p_nodes[n] : a = p_nodes[n][i]
          \/ \E i \in DOMAIN Built : a = Built[i]
      BY <1>1, <1>2 DEF AllOwned
    <3>2. CASE \E i \in DOMAIN Built : a = Built[i]
      BY <1>2, <3>2
    <3>3. CASE \E n \in Maps : \E i \in DOMAIN p_nodes[n] : a = p_nodes[n][i]
      <4>1. PICK n \in Maps : \E i \in DOMAIN p_nodes[n] : a = p_nodes[n][i]
        BY <3>3
      <4>2. n # m
        BY <1>2, <4>1
      <4> QED  BY <1>2, <4>1, <4>2
    <3> QED  BY <3>1, <3>2, <3>3
  <2>2. \A n \in Maps : \A i \in DOMAIN p_nodes'[n] : p_nodes'[n][i] \in DOMAIN heap'
    <3>1. \A n \in Maps : p_nodes'[n] \in Seq(DOMAIN heap')
      BY <1>2
    <3> QED  BY <3>1
  <2> QED  BY <2>1, <2>2 DEF Housed
<1> QED  BY <1>2, <1>3, <1>4, <1>5, IdleIInv

-----------------------------------------------------------------------------
(* The invariant is inductive. *)

LEMMA NextIInv == IInv /\ [Next]_vars => IInv'
<1> SUFFICES ASSUME IInv, [Next]_vars PROVE IInv'
  OBVIOUS
<1>1. ASSUME NEW m \in Maps, NEW k \in Keys, Subscript(m, k) PROVE IInv'
  BY <1>1, AppendKeeps, NomapAssumption DEF Subscript
<1>2. ASSUME NEW m \in Maps, NEW k \in Keys, NEW v \in Values, Emplace(m, k, v) PROVE IInv'
  BY <1>2, AppendKeeps DEF Emplace
<1>3. ASSUME NEW m \in Maps, NEW k \in Keys, NEW v \in Values, WriteAt(m, k, v) PROVE IInv'
  BY <1>3, WriteKeeps
<1>4. ASSUME NEW m \in Maps
      PROVE  /\ End(m) \in Positions(m) /\ 1 \in Positions(m) /\ End(m) \in Nat /\ 1 =< End(m)
             /\ \A pos \in Positions(m) :
                  pos # End(m) => /\ pos + 1 \in Positions(m) /\ pos =< pos + 1
                                  /\ pos \in DOMAIN p_nodes[m]
  BY Places DEF IInv, Positions, End
<1>5. ASSUME NEW m \in Maps, NEW pos \in Positions(m), Extract(m, pos) PROVE IInv'
  <2>1. CASE pos = End(m)
    <3>1. /\ Idle /\ extracted' = Nothing /\ p_nodes' = p_nodes /\ heap' = heap
          /\ copying' = Nothing
      BY <1>5, <2>1 DEF Extract, Idle
    <3>2. TypeOK /\ Housed /\ HousedOnce /\ UniqueKeys
      BY <3>1, IdleOwners DEF IInv
    <3>3. UniqueKeys' /\ Housed' /\ HousedOnce'
      BY <3>1, <3>2 DEF UniqueKeys, At, Housed, HousedOnce
    <3> QED  BY <3>1, <3>2, <3>3, IdleIInv DEF TypeOK
  <2>2. CASE pos # End(m)
    <3>1. Idle /\ extracted' = At(m, pos) /\ Drop(m, pos, pos + 1) /\ UNCHANGED copying
      BY <1>5, <2>2 DEF Extract
    <3>2. At(m, pos) \in Node
      BY <1>4, <2>2, Places DEF IInv
    <3> QED  BY <1>4, <2>2, <3>1, <3>2, DropKeeps
  <2> QED  BY <2>1, <2>2
<1>6. ASSUME NEW m \in Maps, NEW k \in Keys, ExtractKey(m, k) PROVE IInv'
  BY <1>5, <1>6, FindIsFirst DEF ExtractKey, IInv
<1>7. ASSUME NEW m \in Maps, Clear(m) PROVE IInv'
  BY <1>4, <1>7, DropKeeps DEF Clear, ForgetNode
<1>8. ASSUME NEW m \in Maps, NEW first \in Positions(m), NEW last \in Positions(m),
             EraseRange(m, first, last)
      PROVE  IInv'
  BY <1>8, DropKeeps DEF EraseRange, ForgetNode
<1>9. ASSUME NEW m \in Maps, NEW pos \in Positions(m), EraseAt(m, pos) PROVE IInv'
  BY <1>4, <1>9, DropKeeps DEF EraseAt, ForgetNode
<1>10. ASSUME NEW m \in Maps, NEW from \in Maps,
              BeginCopy(m, from) \/ Swap(m, from) \/ MoveAssign(m, from)
       PROVE  IInv'
  BY <1>10, BeginCopyKeeps, SwapKeeps, MoveKeeps
<1>11. CASE CopyNode \/ CopyThrows \/ CopyDone
  BY <1>11, CopyNodeKeeps, CopyThrowsKeeps, CopyDoneKeeps
<1>12. CASE UNCHANGED vars
  BY <1>12 DEF vars, IInv, TypeOK, UniqueKeys, At, OneOwner, Idle, CopyInv
<1> QED  BY <1>1, <1>2, <1>3, <1>5, <1>6, <1>7, <1>8, <1>9, <1>10, <1>11, <1>12 DEF Next

LEMMA IInvHolds == Spec => []IInv
<1> QED  BY InitIInv, NextIInv, PTL DEF Spec

\* Every allocated node is at exactly one place of one map, or of the copy
\* under way, and no map holds a key twice, whatever allocations fail.
THEOREM NodesHaveOneOwner == Spec => []NomapInv
<1>1. IInv => NomapInv
  BY DEF IInv, NomapInv
<1> QED  BY <1>1, IInvHolds, PTL

-----------------------------------------------------------------------------
(* Equality. *)

\* An injection of 1 .. n into 1 .. p: there is no room for it unless
\* n =< p, and when n = p it reaches every place.
LEMMA PigeonHole ==
    ASSUME NEW n \in Nat, NEW p \in Nat, NEW f \in [1 .. n -> 1 .. p],
           \A i, j \in 1 .. n : f[i] = f[j] => i = j
    PROVE  /\ n =< p
           /\ n = p => \A j \in 1 .. p : \E i \in 1 .. n : f[i] = j
<1>1. /\ IsFiniteSet(1 .. n) /\ Cardinality(1 .. n) = n
      /\ IsFiniteSet(1 .. p) /\ Cardinality(1 .. p) = p
  BY FS_Interval
<1>2. f \in Injection(1 .. n, 1 .. p)
  BY DEF Injection, IsInjective
<1>3. Cardinality(1 .. n) =< Cardinality(1 .. p)
      /\ (Cardinality(1 .. n) = Cardinality(1 .. p) <=> f \in Surjection(1 .. n, 1 .. p))
  BY <1>1, <1>2, FS_Injection
<1> QED  BY <1>1, <1>3 DEF Surjection

LEMMA PigeonHoleOnto ==
    ASSUME NEW n \in Nat, NEW f \in [1 .. n -> 1 .. n],
           \A i, j \in 1 .. n : f[i] = f[j] => i = j
    PROVE  \A j \in 1 .. n : \E i \in 1 .. n : f[i] = j
  BY PigeonHole

\* Where the keys of a map are found in another: at different places.
Found(m, other) == [i \in 1 .. Len(p_nodes[m]) |-> Find(other, At(m, i).key)]

LEMMA FoundApart ==
    ASSUME IInv, NEW m \in Maps, NEW other \in Maps,
           \A i \in DOMAIN p_nodes[m] : Find(other, At(m, i).key) # End(other)
    PROVE  /\ Found(m, other) \in [1 .. Len(p_nodes[m]) -> 1 .. Len(p_nodes[other])]
           /\ \A i, j \in 1 .. Len(p_nodes[m]) :
                 Found(m, other)[i] = Found(m, other)[j] => i = j
<1>1. TypeOK /\ UniqueKeys
  BY DEF IInv
<1>2. DOMAIN p_nodes[m] = 1 .. Len(p_nodes[m]) /\ DOMAIN p_nodes[other] = 1 .. Len(p_nodes[other])
  BY <1>1, Places
<1>3. \A i \in DOMAIN p_nodes[m] :
          /\ Find(other, At(m, i).key) \in DOMAIN p_nodes[other]
          /\ At(other, Find(other, At(m, i).key)).key = At(m, i).key
  BY <1>1, FindIsFirst
<1>4. \A i, j \in DOMAIN p_nodes[m] :
          Find(other, At(m, i).key) = Find(other, At(m, j).key) => i = j
  BY <1>1, <1>3 DEF UniqueKeys
<1> QED  BY <1>2, <1>3, <1>4 DEF Found

\* An element that a map holds is the one found under its key.
LEMMA HeldIsFound ==
    ASSUME IInv, NEW m \in Maps, NEW i \in DOMAIN p_nodes[m]
    PROVE  Find(m, At(m, i).key) = i /\ i # End(m)
<1>1. TypeOK /\ UniqueKeys
  BY DEF IInv
<1>2. i \in 1 .. Len(p_nodes[m]) /\ Len(p_nodes[m]) \in Nat
  BY <1>1, Places
<1>3. Find(m, At(m, i).key) \in Positions(m) /\ Find(m, At(m, i).key) =< i
  BY <1>1, FindIsFirst
<1>4. Find(m, At(m, i).key) # End(m) /\ i # End(m)
  BY <1>2, <1>3 DEF Positions, End
<1> QED  BY <1>1, <1>4, FindIsFirst DEF UniqueKeys

Elements(m) == {At(m, i) : i \in DOMAIN p_nodes[m]}

LEMMA SubsetIsFound ==
    ASSUME IInv, NEW m \in Maps, NEW other \in Maps, Elements(m) \subseteq Elements(other)
    PROVE  /\ \A i \in DOMAIN p_nodes[m] :
                 /\ Find(other, At(m, i).key) # End(other)
                 /\ At(other, Find(other, At(m, i).key)) = At(m, i)
           /\ Len(p_nodes[m]) =< Len(p_nodes[other])
<1>1. ASSUME NEW i \in DOMAIN p_nodes[m]
      PROVE  /\ Find(other, At(m, i).key) # End(other)
             /\ At(other, Find(other, At(m, i).key)) = At(m, i)
  <2>1. PICK j \in DOMAIN p_nodes[other] : At(other, j) = At(m, i)
    BY DEF Elements
  <2> QED  BY <2>1, HeldIsFound
<1>2. Len(p_nodes[m]) \in Nat /\ Len(p_nodes[other]) \in Nat
  BY Places DEF IInv
<1>3. Found(m, other) \in [1 .. Len(p_nodes[m]) -> 1 .. Len(p_nodes[other])]
      /\ \A i, j \in 1 .. Len(p_nodes[m]) :
            Found(m, other)[i] = Found(m, other)[j] => i = j
  BY <1>1, FoundApart
<1>4. Len(p_nodes[m]) =< Len(p_nodes[other])
  <2> HIDE DEF Found
  <2> QED  BY <1>2, <1>3, PigeonHole
<1> QED  BY <1>1, <1>4

\* What operator== looks at in the left map is found in the right one.
LEMMA EqualIs ==
    ASSUME IInv, NEW m \in Maps, NEW other \in Maps
    PROVE  Equal(m, other) <=>
              /\ Len(p_nodes[m]) = Len(p_nodes[other])
              /\ \A i \in DOMAIN p_nodes[m] :
                    /\ Find(other, At(m, i).key) # End(other)
                    /\ At(other, Find(other, At(m, i).key)) = At(m, i)
<1>1. TypeOK
  BY DEF IInv
<1>2. Len(p_nodes[m]) \in Nat /\ Len(p_nodes[other]) \in Nat
  BY <1>1, Places
<1>3. End(m) = End(other) <=> Len(p_nodes[m]) = Len(p_nodes[other])
  BY <1>2 DEF End
<1>4. ASSUME NEW i \in DOMAIN p_nodes[m]
      PROVE  (/\ Count(other, At(m, i).key) = 1
              /\ At(other, Find(other, At(m, i).key)).value = At(m, i).value)
             <=> (/\ Find(other, At(m, i).key) # End(other)
                  /\ At(other, Find(other, At(m, i).key)) = At(m, i))
  <2> DEFINE j == Find(other, At(m, i).key)
  <2>1. Count(other, At(m, i).key) = 1 <=> j # End(other)
    BY DEF Count
  <2>2. ASSUME j # End(other), At(other, j).value = At(m, i).value
        PROVE  At(other, j) = At(m, i)
    <3>1. j \in DOMAIN p_nodes[other] /\ At(other, j).key = At(m, i).key
      BY <1>1, <2>2, FindIsFirst
    <3>2. At(other, j) \in Node /\ At(m, i) \in Node
      BY <1>1, <3>1, Places
    <3> HIDE DEF j
    <3> QED  BY <2>2, <3>1, <3>2 DEF Node
  <2> QED  BY <2>1, <2>2
<1> QED  BY <1>3, <1>4 DEF Equal

LEMMA IInvEqual == IInv => EqualIsSameElements
<1> SUFFICES ASSUME IInv, NEW m \in Maps, NEW other \in Maps
             PROVE  Equal(m, other) <=> Elements(m) = Elements(other)
  BY DEF EqualIsSameElements, Elements
<1>1. Len(p_nodes[m]) \in Nat /\ Len(p_nodes[other]) \in Nat
      /\ DOMAIN p_nodes[m] = 1 .. Len(p_nodes[m])
      /\ DOMAIN p_nodes[other] = 1 .. Len(p_nodes[other])
  BY Places DEF IInv
<1>2. ASSUME Elements(m) = Elements(other) PROVE Equal(m, other)
  <2>1. Len(p_nodes[m]) =< Len(p_nodes[other]) /\ Len(p_nodes[other]) =< Len(p_nodes[m])
    BY <1>2, SubsetIsFound
  <2>2. \A i \in DOMAIN p_nodes[m] :
            /\ Find(other, At(m, i).key) # End(other)
            /\ At(other, Find(other, At(m, i).key)) = At(m, i)
    BY <1>2, SubsetIsFound
  <2> QED  BY <1>1, <2>1, <2>2, EqualIs
<1>3. ASSUME Equal(m, other) PROVE Elements(m) = Elements(other)
  <2>1. /\ Len(p_nodes[m]) = Len(p_nodes[other])
        /\ \A i \in DOMAIN p_nodes[m] :
              /\ Find(other, At(m, i).key) # End(other)
              /\ At(other, Find(other, At(m, i).key)) = At(m, i)
    BY <1>3, EqualIs
  <2>2. Found(m, other) \in [1 .. Len(p_nodes[m]) -> 1 .. Len(p_nodes[other])]
        /\ \A i, j \in 1 .. Len(p_nodes[m]) :
              Found(m, other)[i] = Found(m, other)[j] => i = j
    BY <2>1, FoundApart
  <2>3. \A j \in 1 .. Len(p_nodes[other]) : \E i \in 1 .. Len(p_nodes[m]) : Found(m, other)[i] = j
    <3> DEFINE n == Len(p_nodes[m])
               f == Found(m, other)
    <3>1. n \in Nat /\ f \in [1 .. n -> 1 .. n] /\ \A i, j \in 1 .. n : f[i] = f[j] => i = j
      BY <1>1, <2>1, <2>2
    <3> HIDE DEF n, f
    <3>2. \A j \in 1 .. n : \E i \in 1 .. n : f[i] = j
      BY <3>1, PigeonHoleOnto
    <3> QED  BY <2>1, <3>2 DEF n, f
  <2>4. ASSUME NEW i \in DOMAIN p_nodes[m] PROVE At(m, i) \in Elements(other)
    <3>1. Found(m, other)[i] \in DOMAIN p_nodes[other] /\ Found(m, other)[i] = Find(other, At(m, i).key)
      BY <1>1, <2>2 DEF Found
    <3> QED  BY <2>1, <3>1 DEF Elements
  <2>5. ASSUME NEW j \in DOMAIN p_nodes[other] PROVE At(other, j) \in Elements(m)
    <3>1. PICK i \in DOMAIN p_nodes[m] : Found(m, other)[i] = j
      BY <1>1, <2>3
    <3>2. Find(other, At(m, i).key) = j
      BY <1>1, <3>1 DEF Found
    <3> QED  BY <2>1, <3>2 DEF Elements
  <2> QED  BY <2>4, <2>5 DEF Elements
<1> QED  BY <1>2, <1>3

\* operator==, which looks for the elements of one map in the other, holds
\* exactly for maps with the same elements.
THEOREM EqualComparesElements == Spec => []EqualIsSameElements
<1> QED  BY IInvHolds, IInvEqual, PTL

-----------------------------------------------------------------------------
(* Nomap implements OrderedMap, step by step. *)

ElementAt(m, i) ==
    [key |-> At(m, i).key, value |-> At(m, i).value, id |-> p_nodes[m][i]]

ContentIs ==
    /\ DOMAIN Content = Maps /\ Content = [m \in Maps |-> Content[m]]
    /\ \A m \in Maps :
          /\ Content[m] = [i \in DOMAIN p_nodes[m] |-> Content[m][i]]
          /\ DOMAIN Content[m] = DOMAIN p_nodes[m]
          /\ \A i \in DOMAIN p_nodes[m] : Content[m][i] = ElementAt(m, i)

LEMMA ContentFacts == ContentIs
  BY DEF ContentIs, Content, ElementAt

LEMMA ContentFactsNext == ContentIs'
  BY ContentFacts, PTL

LEMMA ContentType == TypeOK => Content \in [Maps -> Seq(Abstract!Element)]
<1> SUFFICES ASSUME TypeOK PROVE Content \in [Maps -> Seq(Abstract!Element)]
  OBVIOUS
<1>1. ASSUME NEW m \in Maps PROVE Content[m] \in Seq(Abstract!Element)
  <2>1. ASSUME NEW i \in DOMAIN p_nodes[m] PROVE Content[m][i] \in Abstract!Element
    <3>1. At(m, i) \in Node /\ p_nodes[m][i] \in DOMAIN heap
      BY Places
    <3>2. DOMAIN heap \subseteq Addresses
      BY DEF TypeOK, PartialHeaps
    <3>3. At(m, i).key \in Keys /\ At(m, i).value \in Values /\ p_nodes[m][i] \in Addresses
      BY <3>1, <3>2 DEF Node
    <3>4. Content[m][i] = ElementAt(m, i)
      BY ContentFacts DEF ContentIs
    <3> QED  BY <3>3, <3>4 DEF ElementAt, Abstract!Element
  <2>2. DOMAIN p_nodes[m] = 1 .. Len(p_nodes[m]) /\ Len(p_nodes[m]) \in Nat
    BY Places
  <2>3. Content[m] = [i \in 1 .. Len(p_nodes[m]) |-> Content[m][i]]
    BY <2>2, ContentFacts DEF ContentIs
  <2>4. Content[m] \in [1 .. Len(p_nodes[m]) -> Abstract!Element]
    BY <2>1, <2>2, <2>3
  <2> QED  BY <2>2, <2>4, IsASeq
<1> QED  BY <1>1, ContentFacts DEF ContentIs

ContentTypeOK == Content \in [Maps -> Seq(Abstract!Element)]

LEMMA ContentTypeNext == IInv' => Content' \in [Maps -> Seq(Abstract!Element)]
<1>1. IInv => ContentTypeOK
  BY ContentType DEF IInv, ContentTypeOK
<1>2. IInv' => ContentTypeOK'
  BY <1>1, PTL
<1> QED  BY <1>2 DEF ContentTypeOK, Abstract!Element

LEMMA PlaceIs ==
    ASSUME NEW m \in Maps
    PROVE  /\ DOMAIN Content[m] = DOMAIN p_nodes[m]
           /\ \A i \in DOMAIN p_nodes[m] :
                 Content[m][i].key = At(m, i).key /\ Content[m][i].id = p_nodes[m][i]
<1>1. DOMAIN Content[m] = DOMAIN p_nodes[m]
      /\ \A i \in DOMAIN p_nodes[m] : Content[m][i] = ElementAt(m, i)
  BY ContentFacts DEF ContentIs
<1>2. \A i : ElementAt(m, i).key = At(m, i).key /\ ElementAt(m, i).id = p_nodes[m][i]
  BY DEF ElementAt
<1> QED  BY <1>1, <1>2

LEMMA KeysAre ==
    ASSUME NEW m \in Maps, NEW k
    PROVE  k \in Abstract!KeysOf(m) <=> \E i \in DOMAIN p_nodes[m] : At(m, i).key = k
<1>1. k \in Abstract!KeysOf(m) <=> \E i \in DOMAIN Content[m] : Content[m][i].key = k
  BY DEF Abstract!KeysOf
<1> QED  BY <1>1, PlaceIs

LEMMA UsedAre ==
    ASSUME NEW a
    PROVE  a \in Abstract!Used <=>
              \E m \in Maps : \E i \in DOMAIN p_nodes[m] : p_nodes[m][i] = a
<1>1. a \in Abstract!Used <=> \E m \in Maps : \E i \in DOMAIN Content[m] : Content[m][i].id = a
  BY DEF Abstract!Used
<1> QED  BY <1>1, PlaceIs

\* A step that changes no map.
LEMMA SameContent ==
    ASSUME IInv, IInv', NEW m \in Maps, p_nodes' = p_nodes, extracted' = Nothing,
           \A n \in Maps : \A i \in DOMAIN p_nodes[n] : heap'[p_nodes[n][i]] = At(n, i)
    PROVE  Abstract!Next
<1>1. Content' \in [Maps -> Seq(Abstract!Element)]
  BY ContentTypeNext
<1>2. \A n \in Maps : \A i \in DOMAIN p_nodes[n] : ElementAt(n, i)' = ElementAt(n, i)
  BY DEF ElementAt, At
<1>3. \A n \in Maps : Content'[n] = Content[n]
  BY <1>2, ContentFacts, ContentFactsNext DEF ContentIs
<1> DEFINE f == [i \in DOMAIN Content[m] |-> i]
<1>4. \A i \in DOMAIN Content[m] : i \in DOMAIN f /\ f[i] = i
  OBVIOUS
<1>5. DOMAIN f = DOMAIN Content[m]
      /\ f \in [DOMAIN Content'[m] -> {i \in DOMAIN Content[m] : Content[m][i].key \notin {}}]
  BY <1>3
<1> HIDE DEF f
<1>6. Abstract!Remove(m, {})
  BY <1>3, <1>4, <1>5 DEF Abstract!Remove
<1>7. Abstract!Erase(m, {})
  BY <1>6 DEF Abstract!Erase, Abstract!Silent
<1>8. {} \in SUBSET Keys
  OBVIOUS
<1> QED  BY <1>1, <1>7, <1>8 DEF Abstract!Next

LEMMA AppendInserts ==
    ASSUME IInv, IInv', Idle, NEW m \in Maps, NEW k \in Keys, NEW v \in Values,
           Find(m, k) = End(m), AppendNode(m, k, v), ForgetNode
    PROVE  Abstract!Next
<1>1. TypeOK /\ Housed
  BY IdleOwners DEF IInv
<1> PICK last, a : last = End(m) /\ a = Min(Free)
  OBVIOUS
<1> DEFINE e == [key |-> k, value |-> v, id |-> a]
<1>2. /\ a \in Addresses /\ a \notin DOMAIN heap
      /\ heap'[a] = [key |-> k, value |-> v]
      /\ \A b \in DOMAIN heap : heap'[b] = heap[b]
      /\ DOMAIN p_nodes'[m] = DOMAIN p_nodes[m] \cup {last}
      /\ p_nodes'[m][last] = a
      /\ \A i \in DOMAIN p_nodes[m] : p_nodes'[m][i] = p_nodes[m][i]
      /\ \A n \in Maps \ {m} : p_nodes'[n] = p_nodes[n]
  BY <1>1, AppendIs
<1>3. \A n \in Maps : \A i \in DOMAIN p_nodes[n] :
          /\ p_nodes[n][i] \in DOMAIN heap
          /\ p_nodes'[n][i] = p_nodes[n][i] /\ heap'[p_nodes[n][i]] = heap[p_nodes[n][i]]
  BY <1>1, <1>2, Places
<1>4. \A n \in Maps : \A i \in DOMAIN p_nodes[n] : ElementAt(n, i)' = ElementAt(n, i)
  BY <1>3 DEF ElementAt, At
<1>5. \A n \in Maps \ {m} : Content'[n] = Content[n]
  BY <1>2, <1>4, ContentFacts, ContentFactsNext DEF ContentIs
<1>6. ElementAt(m, last)' = e
  BY <1>2 DEF ElementAt, At
<1>7. /\ DOMAIN Content'[m] = DOMAIN Content[m] \cup {last}
      /\ Content'[m][last] = e
      /\ \A i \in DOMAIN Content[m] : Content'[m][i] = Content[m][i]
  BY <1>2, <1>4, <1>6, ContentFacts, ContentFactsNext DEF ContentIs
<1>8. Content \in [Maps -> Seq(Abstract!Element)] /\ Content' \in [Maps -> Seq(Abstract!Element)]
  BY <1>1, ContentType, ContentTypeNext
<1>9. e \in Abstract!Element
  BY <1>2 DEF Abstract!Element
<1>10. last = Len(Content[m]) + 1
  <2>1. DOMAIN Content[m] = 1 .. Len(p_nodes[m]) /\ Len(p_nodes[m]) \in Nat
    BY <1>1, Places, ContentFacts DEF ContentIs
  <2>2. Len(Content[m]) = Len(p_nodes[m])
    BY <1>8, <2>1
  <2> QED  BY <2>2 DEF End
<1>11. e.key \notin Abstract!KeysOf(m)
  <2>1. \A i \in DOMAIN p_nodes[m] : At(m, i).key # k
    BY <1>1, HeldIsFound
  <2> QED  BY <2>1, KeysAre
<1>12. e.id \notin Abstract!Used
  BY <1>2, <1>3, UsedAre
<1> HIDE DEF e
<1>13. Content'[m] = Append(Content[m], e)
  <2>1. Content[m] \in Seq(Abstract!Element) /\ Content'[m] \in Seq(Abstract!Element)
    BY <1>8
  <2> DEFINE q == Append(Content[m], e)
  <2>2. /\ q \in Seq(Abstract!Element) /\ DOMAIN q = DOMAIN Content'[m]
        /\ \A i \in DOMAIN q : q[i] = Content'[m][i]
    BY <1>7, <1>9, <1>10, <2>1, AppendProperties
  <2> HIDE DEF q
  <2>3. q = Content'[m]
    BY <2>1, <2>2, SeqEqual
  <2> QED  BY <2>3 DEF q
<1>14. Content' = [Content EXCEPT ![m] = Append(Content[m], e)]
  BY <1>5, <1>8, <1>13
<1>15. Abstract!Insert(m, e)
  BY <1>11, <1>12, <1>14 DEF Abstract!Insert, Abstract!Silent, ForgetNode
<1> QED  BY <1>8, <1>9, <1>15 DEF Abstract!Next

LEMMA WriteWrites ==
    ASSUME IInv, IInv', NEW m \in Maps, NEW k \in Keys, NEW v \in Values, WriteAt(m, k, v)
    PROVE  Abstract!Next
<1>1. /\ Idle /\ TypeOK /\ UniqueKeys /\ HousedOnce
      /\ p_nodes' = p_nodes /\ extracted' = Nothing
  BY IdleOwners DEF IInv, WriteAt, ForgetNode
<1> PICK pos : pos = Find(m, k)
  OBVIOUS
<1>2. pos \in DOMAIN p_nodes[m] /\ At(m, pos).key = k
  BY <1>1, FindIsFirst DEF WriteAt
<1>3. \A a \in DOMAIN heap :
          heap'[a] = IF a = p_nodes[m][pos] THEN [key |-> heap[a].key, value |-> v] ELSE heap[a]
  BY <1>1, WriteIs
<1>4. ASSUME NEW n \in Maps, NEW i \in DOMAIN p_nodes[n], n # m \/ i # pos
      PROVE  ElementAt(n, i)' = ElementAt(n, i)
  <2>1. p_nodes[n][i] # p_nodes[m][pos]
    BY <1>1, <1>2, <1>4 DEF HousedOnce
  <2>2. p_nodes[n][i] \in DOMAIN heap
    BY <1>1, Places
  <2> QED  BY <1>1, <1>3, <2>1, <2>2 DEF ElementAt, At
<1>5. ElementAt(m, pos)' = [key |-> k, value |-> v, id |-> p_nodes[m][pos]]
  <2>1. p_nodes[m][pos] \in DOMAIN heap
    BY <1>1, <1>2, Places
  <2>2. heap'[p_nodes[m][pos]] = [key |-> k, value |-> v]
    BY <1>2, <1>3, <2>1 DEF At
  <2>3. At(m, pos)' = [key |-> k, value |-> v]
    BY <1>1, <2>2 DEF At
  <2> QED  BY <1>1, <2>3 DEF ElementAt
<1>6. \A n \in Maps \ {m} : Content'[n] = Content[n]
  BY <1>1, <1>4, ContentFacts, ContentFactsNext DEF ContentIs
<1>7. ASSUME NEW i \in DOMAIN Content[m]
      PROVE  Content'[m][i] = IF Content[m][i].key = k
                              THEN [Content[m][i] EXCEPT !.value = v] ELSE Content[m][i]
  <2>1. i \in DOMAIN p_nodes[m] /\ Content[m][i] = ElementAt(m, i)
        /\ Content'[m][i] = ElementAt(m, i)' /\ Content[m][i].key = At(m, i).key
    BY <1>1, PlaceIs, ContentFacts, ContentFactsNext DEF ContentIs
  <2>2. CASE i = pos
    <3>1. Content[m][i].key = k
      BY <1>2, <2>1, <2>2
    <3>2. [Content[m][i] EXCEPT !.value = v] = [key |-> k, value |-> v, id |-> p_nodes[m][i]]
      BY <1>2, <2>1, <2>2 DEF ElementAt
    <3> QED  BY <1>5, <2>1, <2>2, <3>1, <3>2
  <2>3. CASE i # pos
    <3>1. Content[m][i].key # k
      BY <1>1, <1>2, <2>1, <2>3 DEF UniqueKeys
    <3> QED  BY <1>4, <2>1, <2>3, <3>1
  <2> QED  BY <2>2, <2>3
<1>8. Content \in [Maps -> Seq(Abstract!Element)] /\ Content' \in [Maps -> Seq(Abstract!Element)]
  BY <1>1, ContentType, ContentTypeNext
<1> DEFINE q == [i \in DOMAIN Content[m] |-> IF Content[m][i].key = k
                     THEN [Content[m][i] EXCEPT !.value = v] ELSE Content[m][i]]
<1>9. Content'[m] = q
  <2>1. Content'[m] = [i \in DOMAIN Content[m] |-> Content'[m][i]]
    BY <1>1, ContentFacts, ContentFactsNext DEF ContentIs
  <2> QED  BY <1>7, <2>1
<1>10. Content' = [Content EXCEPT ![m] = q]
  <2> HIDE DEF q
  <2> QED  BY <1>6, <1>8, <1>9
<1>11. Abstract!Write(m, k, v)
  BY <1>1, <1>10 DEF Abstract!Write, Abstract!Silent
<1> QED  BY <1>8, <1>11 DEF Abstract!Next

\* Dropping a range removes the elements with the keys that were in it.
LEMMA DropRemoves ==
    ASSUME IInv, IInv', Idle, NEW m \in Maps, NEW first \in Positions(m),
           NEW last \in Positions(m), first =< last, Drop(m, first, last)
    PROVE  /\ Abstract!Remove(m, {At(m, i).key : i \in first .. (last - 1)})
           /\ {At(m, i).key : i \in first .. (last - 1)} \in SUBSET Keys
<1> DEFINE keys == {At(m, i).key : i \in first .. (last - 1)}
           kept == {i \in DOMAIN Content[m] : Content[m][i].key \notin keys}
           f == [i \in DOMAIN Content'[m] |-> Was(first, last, i)]
<1>1. TypeOK /\ Housed /\ HousedOnce /\ UniqueKeys
  BY IdleOwners DEF IInv
<1>2. /\ \A n \in Maps \ {m} : p_nodes'[n] = p_nodes[n]
      /\ \A n \in Maps \ {m} : \A i \in DOMAIN p_nodes[n] : At(n, i)' = At(n, i)
      /\ \A i \in DOMAIN p_nodes'[m] :
            /\ Was(first, last, i) \in DOMAIN p_nodes[m]
            /\ Was(first, last, i) \notin first .. (last - 1)
            /\ p_nodes'[m][i] = p_nodes[m][Was(first, last, i)]
            /\ At(m, i)' = At(m, Was(first, last, i))
      /\ \A j \in DOMAIN p_nodes[m] : j \in first .. (last - 1)
            \/ \E i \in DOMAIN p_nodes'[m] : j = Was(first, last, i)
      /\ DOMAIN p_nodes'[m] = 1 .. Len(p_nodes[m]) - (last - first)
  BY <1>1, DropIs
<1>3. first \in Nat /\ last \in Nat /\ Len(p_nodes[m]) \in Nat
      /\ first .. (last - 1) \subseteq DOMAIN p_nodes[m]
  BY <1>1, Places DEF Positions, End
<1>4. \A i \in DOMAIN p_nodes[m] : At(m, i).key \in keys <=> i \in first .. (last - 1)
  BY <1>1, <1>3 DEF UniqueKeys
<1>5. \A i \in DOMAIN Content[m] :
          i \in DOMAIN p_nodes[m] /\ Content[m][i].key = At(m, i).key
  BY PlaceIs
<1>6. \A i : i \in kept <=> i \in DOMAIN p_nodes[m] /\ i \notin first .. (last - 1)
  <2>1. DOMAIN Content[m] = DOMAIN p_nodes[m]
    BY ContentFacts DEF ContentIs
  <2> HIDE DEF keys
  <2> QED  BY <1>4, <1>5, <2>1
<1>7. keys \in SUBSET Keys
  BY <1>1, <1>3, Places DEF Node
<1> HIDE DEF keys, kept
<1>8. DOMAIN Content'[m] = DOMAIN p_nodes'[m] /\ DOMAIN Content[m] = DOMAIN p_nodes[m]
  BY ContentFacts, ContentFactsNext DEF ContentIs
<1>9. f \in [DOMAIN Content'[m] -> kept]
  BY <1>2, <1>6, <1>8
<1>10. \A i, j \in DOMAIN f : i < j => f[i] < f[j]
  BY <1>2, <1>3, <1>8 DEF Was
<1>11. \A p \in kept : \E i \in DOMAIN f : f[i] = p
  BY <1>2, <1>6, <1>8
<1>12. \A i \in DOMAIN f : Content'[m][i] = Content[m][f[i]]
  <2> SUFFICES ASSUME NEW i \in DOMAIN p_nodes'[m]
               PROVE  Content'[m][i] = Content[m][Was(first, last, i)]
    BY <1>8
  <2>1. Content'[m][i] = ElementAt(m, i)'
    BY ContentFactsNext DEF ContentIs
  <2> PICK j : j = Was(first, last, i)
    OBVIOUS
  <2>2. j \in DOMAIN p_nodes[m] /\ p_nodes'[m][i] = p_nodes[m][j] /\ At(m, i)' = At(m, j)
    BY <1>2
  <2>3. Content[m][j] = ElementAt(m, j)
    BY <2>2, ContentFacts DEF ContentIs
  <2> QED  BY <2>1, <2>2, <2>3 DEF ElementAt
<1>13. \A n \in Maps \ {m} : Content'[n] = Content[n]
  <2>1. \A n \in Maps \ {m} : \A i \in DOMAIN p_nodes[n] : ElementAt(n, i)' = ElementAt(n, i)
    BY <1>2 DEF ElementAt
  <2> QED  BY <1>2, <2>1, ContentFacts, ContentFactsNext DEF ContentIs
<1>14. DOMAIN f = DOMAIN Content'[m]
  OBVIOUS
<1> HIDE DEF f
<1>15. Abstract!Remove(m, keys)
  BY <1>9, <1>10, <1>11, <1>12, <1>13 DEF Abstract!Remove, kept
<1> QED  BY <1>7, <1>15 DEF keys

LEMMA DropErases ==
    ASSUME IInv, IInv', Idle, NEW m \in Maps, NEW first \in Positions(m),
           NEW last \in Positions(m), first =< last, Drop(m, first, last), ForgetNode
    PROVE  Abstract!Next
<1>1. PICK keys \in SUBSET Keys : Abstract!Remove(m, keys)
  BY DropRemoves
<1>2. Abstract!Erase(m, keys)
  BY <1>1 DEF Abstract!Erase, Abstract!Silent, ForgetNode
<1> QED  BY <1>2, ContentTypeNext DEF Abstract!Next

LEMMA ExtractExtracts ==
    ASSUME IInv, IInv', NEW m \in Maps, NEW pos \in Positions(m), Extract(m, pos)
    PROVE  Abstract!Next
<1>1. TypeOK /\ UniqueKeys /\ Idle
  BY DEF IInv, Extract
<1>2. CASE pos = End(m)
  <2>1. p_nodes' = p_nodes /\ heap' = heap /\ extracted' = Nothing
    BY <1>2 DEF Extract
  <2>2. \A n \in Maps : \A i \in DOMAIN p_nodes[n] : heap'[p_nodes[n][i]] = At(n, i)
    BY <2>1 DEF At
  <2> QED  BY <2>1, <2>2, SameContent
<1>3. CASE pos # End(m)
  <2>1. extracted' = At(m, pos) /\ Drop(m, pos, pos + 1)
    BY <1>3 DEF Extract
  <2>2. /\ pos \in DOMAIN p_nodes[m] /\ pos + 1 \in Positions(m) /\ pos =< pos + 1
        /\ pos .. ((pos + 1) - 1) = {pos}
    BY <1>1, <1>3, Places DEF Positions, End
  <2> DEFINE k == At(m, pos).key
  <2>3. At(m, pos) \in Node /\ k \in Keys
    BY <1>1, <2>2, Places DEF Node
  <2>4. {At(m, i).key : i \in pos .. ((pos + 1) - 1)} = {k}
    BY <2>2
  <2>5. Abstract!Remove(m, {At(m, i).key : i \in pos .. ((pos + 1) - 1)})
    BY <1>1, <2>1, <2>2, DropRemoves
  <2>6. Abstract!Remove(m, {k})
    BY <2>4, <2>5
  <2>7. k \in Abstract!KeysOf(m)
    BY <2>2, KeysAre
  <2> DEFINE E == {Content[m][i] : i \in DOMAIN Content[m]}
             e == CHOOSE x \in E : x.key = k
  <2>8. /\ DOMAIN Content[m] = DOMAIN p_nodes[m]
        /\ \A i \in DOMAIN p_nodes[m] :
              Content[m][i] = ElementAt(m, i) /\ Content[m][i].key = At(m, i).key
    BY PlaceIs, ContentFacts DEF ContentIs
  <2>9. \E x \in E : x.key = k
    BY <2>2, <2>8
  <2>10. e \in E /\ e.key = k
    BY <2>9
  <2>11. PICK i \in DOMAIN p_nodes[m] : e = Content[m][i]
    BY <2>8, <2>10
  <2>12. i = pos
    BY <1>1, <2>2, <2>8, <2>10, <2>11 DEF UniqueKeys
  <2> HIDE DEF e
  <2>13. e.value = At(m, pos).value
    <3>1. e = ElementAt(m, pos)
      BY <2>8, <2>11, <2>12
    <3> QED  BY <3>1 DEF ElementAt
  <2>14. extracted' = [key |-> e.key, value |-> e.value]
    BY <2>1, <2>3, <2>10, <2>13 DEF Node
  <2> HIDE DEF k
  <2>15. Abstract!Extract(m, k)
    BY <2>6, <2>7, <2>14 DEF Abstract!Extract, e
  <2> QED  BY <2>3, <2>15, ContentTypeNext DEF Abstract!Next
<1> QED  BY <1>2, <1>3

LEMMA CopyCopies ==
    ASSUME IInv, IInv', CopyDone
    PROVE  Abstract!Next
<1> PICK m, from : m = copying.to /\ from = copying.from
  OBVIOUS
<1>1. TypeOK /\ AllOwned /\ OwnedOnce
  BY OwnersAre DEF IInv
<1>2. /\ extracted' = Nothing /\ m \in Maps /\ from \in Maps /\ m # from
      /\ p_nodes'[m] = Built
      /\ \A n \in Maps \ {m} : p_nodes'[n] = p_nodes[n]
      /\ \A n \in Maps \ {m} : \A i \in DOMAIN p_nodes[n] : At(n, i)' = At(n, i)
      /\ DOMAIN Built = DOMAIN p_nodes[from]
      /\ \A i \in DOMAIN Built : heap'[p_nodes'[m][i]] = At(from, i)
  BY CopyDoneIs
<1>3. Content \in [Maps -> Seq(Abstract!Element)] /\ Content' \in [Maps -> Seq(Abstract!Element)]
  BY <1>1, ContentType, ContentTypeNext
<1>4. DOMAIN Content'[m] = DOMAIN Content[from] /\ DOMAIN Content[from] = DOMAIN Built
  BY <1>2, ContentFacts, ContentFactsNext DEF ContentIs
<1>5. Len(Content'[m]) = Len(Content[from])
  BY <1>2, <1>3, <1>4
<1>6. \A i \in DOMAIN Content[from] :
          Content'[m][i].id = Built[i]
          /\ Content'[m][i] = [Content[from][i] EXCEPT !.id = Content'[m][i].id]
  <2> SUFFICES ASSUME NEW i \in DOMAIN Built
               PROVE  Content'[m][i].id = Built[i]
                      /\ Content'[m][i] = [Content[from][i] EXCEPT !.id = Content'[m][i].id]
    BY <1>4
  <2>1. At(m, i)' = At(from, i)
    BY <1>2 DEF At
  <2>2. Content'[m][i] = ElementAt(m, i)' /\ Content[from][i] = ElementAt(from, i)
    BY <1>2, ContentFacts, ContentFactsNext DEF ContentIs
  <2>3. Content'[m][i]
          = [key |-> At(from, i).key, value |-> At(from, i).value, id |-> Built[i]]
    BY <1>2, <2>1, <2>2 DEF ElementAt
  <2>4. [Content[from][i] EXCEPT !.id = Built[i]]
          = [key |-> At(from, i).key, value |-> At(from, i).value, id |-> Built[i]]
    BY <2>2 DEF ElementAt
  <2> QED  BY <2>3, <2>4
<1>7. {Content'[m][i].id : i \in DOMAIN Content'[m]} \cap Abstract!Used = {}
  <2>1. ASSUME NEW i \in DOMAIN Content'[m], Content'[m][i].id \in Abstract!Used PROVE FALSE
    <3>1. i \in DOMAIN Built /\ Content'[m][i].id = Built[i]
      BY <1>4, <1>6
    <3>2. \E n \in Maps : \E j \in DOMAIN p_nodes[n] : p_nodes[n][j] = Built[i]
      BY <2>1, <3>1, UsedAre
    <3> QED  BY <1>1, <3>1, <3>2 DEF OwnedOnce
  <2> QED  BY <2>1
<1>8. \A n \in Maps \ {m} : Content'[n] = Content[n]
  <2>1. \A n \in Maps \ {m} : \A i \in DOMAIN p_nodes[n] : ElementAt(n, i)' = ElementAt(n, i)
    BY <1>2 DEF ElementAt
  <2> QED  BY <1>2, <2>1, ContentFacts, ContentFactsNext DEF ContentIs
<1>9. Abstract!Copy(m, from)
  BY <1>2, <1>5, <1>6, <1>7, <1>8 DEF Abstract!Copy, Abstract!Silent
<1> QED  BY <1>2, <1>3, <1>9 DEF Abstract!Next

LEMMA SwapSwaps ==
    ASSUME IInv, IInv', NEW m \in Maps, NEW with \in Maps, Swap(m, with)
    PROVE  Abstract!Next
<1>1. /\ heap' = heap /\ extracted' = Nothing
      /\ p_nodes \in [Maps -> Seq(DOMAIN heap)] /\ p_nodes' \in [Maps -> Seq(DOMAIN heap)]
      /\ \A n \in Maps :
            p_nodes'[n] = p_nodes[IF n = with THEN m ELSE IF n = m THEN with ELSE n]
  BY SwapIs DEF IInv, TypeOK
<1>2. CASE m = with
  <2>1. p_nodes' = p_nodes
    BY <1>1, <1>2
  <2>2. \A n \in Maps : \A i \in DOMAIN p_nodes[n] : heap'[p_nodes[n][i]] = At(n, i)
    BY <1>1 DEF At
  <2> QED  BY <1>1, <2>1, <2>2, SameContent
<1>3. CASE m # with
  <2>1. ASSUME NEW n \in Maps, NEW o \in Maps, p_nodes'[n] = p_nodes[o]
        PROVE  Content'[n] = Content[o]
    <3>1. \A i \in DOMAIN p_nodes[o] : ElementAt(n, i)' = ElementAt(o, i)
      BY <1>1, <2>1 DEF ElementAt, At
    <3> QED  BY <2>1, <3>1, ContentFacts, ContentFactsNext DEF ContentIs
  <2>2. /\ Content'[m] = Content[with] /\ Content'[with] = Content[m]
        /\ \A n \in Maps \ {m, with} : Content'[n] = Content[n]
    BY <1>1, <1>3, <2>1
  <2>3. Content \in [Maps -> Seq(Abstract!Element)] /\ Content' \in [Maps -> Seq(Abstract!Element)]
    BY ContentType, ContentTypeNext DEF IInv
  <2>4. Content' = [Content EXCEPT ![m] = Content[with], ![with] = Content[m]]
    BY <1>3, <2>2, <2>3
  <2>5. Abstract!Swap(m, with)
    BY <1>1, <2>4 DEF Abstract!Swap, Abstract!Silent
  <2> QED  BY <1>3, <2>3, <2>5 DEF Abstract!Next
<1> QED  BY <1>2, <1>3

LEMMA MoveMoves ==
    ASSUME IInv, IInv', NEW m \in Maps, NEW from \in Maps, MoveAssign(m, from)
    PROVE  Abstract!Next
<1>1. Idle /\ extracted' = Nothing
  BY DEF MoveAssign, ForgetNode
<1>2. TypeOK /\ Housed /\ HousedOnce
  BY <1>1, IdleOwners DEF IInv
<1>3. /\ \A a \in DOMAIN heap' : heap'[a] = heap[a]
      /\ p_nodes' \in [Maps -> Seq(DOMAIN heap')]
      /\ p_nodes'[from] = <<>>
      /\ m # from => p_nodes'[m] = p_nodes[from]
      /\ \A n \in Maps \ {m, from} : p_nodes'[n] = p_nodes[n]
  BY <1>2, MoveIs
<1>4. \A n \in Maps : \A i \in DOMAIN p_nodes'[n] : p_nodes'[n][i] \in DOMAIN heap'
  <2>1. \A n \in Maps : p_nodes'[n] \in Seq(DOMAIN heap')
    BY <1>3
  <2> QED  BY <2>1
<1>5. ASSUME NEW n \in Maps, NEW o \in Maps, p_nodes'[n] = p_nodes[o]
      PROVE  Content'[n] = Content[o]
  <2>1. \A i \in DOMAIN p_nodes[o] : ElementAt(n, i)' = ElementAt(o, i)
    BY <1>3, <1>4, <1>5 DEF ElementAt, At
  <2> QED  BY <1>5, <2>1, ContentFacts, ContentFactsNext DEF ContentIs
<1>6. Content \in [Maps -> Seq(Abstract!Element)] /\ Content' \in [Maps -> Seq(Abstract!Element)]
  BY <1>2, ContentType, ContentTypeNext
<1>7. \A n \in Maps \ {m, from} : Content'[n] = Content[n]
  BY <1>3, <1>5
<1>8. Content'[from] \in Seq(Abstract!Element) /\ DOMAIN Content'[from] = {}
  BY <1>3, <1>6, ContentFactsNext DEF ContentIs
<1>9. CASE m # from
  <2>1. Content'[m] = Content[from]
    BY <1>3, <1>5, <1>9
  <2>2. Content'[from] = <<>>
    BY <1>3, ContentFactsNext DEF ContentIs
  <2>3. Content' = [Content EXCEPT ![m] = Content[from], ![from] = <<>>]
    BY <1>6, <1>7, <1>9, <2>1, <2>2
  <2>4. Abstract!Move(m, from)
    BY <1>1, <2>3 DEF Abstract!Move, Abstract!Silent
  <2> QED  BY <1>6, <1>9, <2>4 DEF Abstract!Next
<1>10. CASE m = from
  <2> DEFINE kept == {i \in DOMAIN Content[m] : Content[m][i].key \notin Keys}
             f == [i \in DOMAIN Content'[m] |-> i]
  <2>1. \A i \in DOMAIN Content[m] : Content[m][i].key \in Keys
    BY <1>2, PlaceIs, Places DEF Node
  <2>2. kept = {}
    BY <2>1
  <2>3. DOMAIN f = {} /\ f \in [DOMAIN Content'[m] -> kept]
    BY <1>8, <1>10
  <2> HIDE DEF f, kept
  <2>4. Abstract!Remove(m, Keys)
    BY <1>7, <1>8, <1>10, <2>2, <2>3 DEF Abstract!Remove, kept
  <2>5. Abstract!Erase(m, Keys)
    BY <1>1, <2>4 DEF Abstract!Erase, Abstract!Silent
  <2> QED  BY <1>6, <2>5 DEF Abstract!Next
<1> QED  BY <1>9, <1>10

LEMMA AbstractInit == Init => Abstract!Init
<1> SUFFICES ASSUME Init PROVE Abstract!Init
  OBVIOUS
<1>1. \A m \in Maps : p_nodes[m] = <<>>
  BY DEF Init
<1>2. \A m \in Maps : Content[m] = <<>>
  BY <1>1, ContentFacts DEF ContentIs
<1>3. Content = [m \in Maps |-> <<>>]
  BY <1>2, ContentFacts DEF ContentIs
<1> QED  BY <1>3 DEF Init, Abstract!Init

LEMMA StepImplements == IInv /\ IInv' /\ [Next]_vars => [Abstract!Next]_(Abstract!vars)
<1> SUFFICES ASSUME IInv, IInv', [Next]_vars PROVE Abstract!Next \/ UNCHANGED Abstract!vars
  OBVIOUS
<1>1. ASSUME NEW m \in Maps, NEW k \in Keys, Subscript(m, k) PROVE Abstract!Next
  BY <1>1, AppendInserts, NomapAssumption DEF Subscript
<1>2. ASSUME NEW m \in Maps, NEW k \in Keys, NEW v \in Values, Emplace(m, k, v)
      PROVE  Abstract!Next
  BY <1>2, AppendInserts DEF Emplace
<1>3. ASSUME NEW m \in Maps, NEW k \in Keys, NEW v \in Values, WriteAt(m, k, v)
      PROVE  Abstract!Next
  BY <1>3, WriteWrites
<1>4. ASSUME NEW m \in Maps, NEW pos \in Positions(m), Extract(m, pos) PROVE Abstract!Next
  BY <1>4, ExtractExtracts
<1>5. ASSUME NEW m \in Maps, NEW k \in Keys, ExtractKey(m, k) PROVE Abstract!Next
  BY <1>4, <1>5, FindIsFirst DEF ExtractKey, IInv
<1>6. ASSUME NEW m \in Maps
      PROVE  End(m) \in Positions(m) /\ 1 \in Positions(m) /\ 1 =< End(m)
             /\ \A pos \in Positions(m) : pos # End(m) => pos + 1 \in Positions(m) /\ pos =< pos + 1
  BY Places DEF IInv, Positions, End
<1>7. ASSUME NEW m \in Maps, Clear(m) PROVE Abstract!Next
  BY <1>6, <1>7, DropErases DEF Clear
<1>8. ASSUME NEW m \in Maps, NEW first \in Positions(m), NEW last \in Positions(m),
             EraseRange(m, first, last)
      PROVE  Abstract!Next
  BY <1>8, DropErases DEF EraseRange
<1>9. ASSUME NEW m \in Maps, NEW pos \in Positions(m), EraseAt(m, pos) PROVE Abstract!Next
  BY <1>6, <1>9, DropErases DEF EraseAt
<1>10. ASSUME NEW m \in Maps, NEW from \in Maps, BeginCopy(m, from) PROVE Abstract!Next
  <2>1. p_nodes' = p_nodes /\ heap' = heap /\ extracted' = Nothing
    BY <1>10 DEF BeginCopy, ForgetNode
  <2>2. \A n \in Maps : \A i \in DOMAIN p_nodes[n] : heap'[p_nodes[n][i]] = At(n, i)
    BY <2>1 DEF At
  <2> QED  BY <2>1, <2>2, SameContent
<1>11. ASSUME NEW m \in Maps, NEW from \in Maps, Swap(m, from) \/ MoveAssign(m, from)
       PROVE  Abstract!Next
  BY <1>11, SwapSwaps, MoveMoves
<1>12. CASE CopyNode
  <2>1. /\ ~Idle /\ p_nodes' = p_nodes /\ extracted' = Nothing
        /\ \A a \in DOMAIN heap : heap'[a] = heap[a]
    BY <1>12, CopyNodeIs
  <2>2. \A n \in Maps : \A i \in DOMAIN p_nodes[n] : heap'[p_nodes[n][i]] = At(n, i)
    BY <2>1, Places DEF IInv, At
  <2>3. copying.to \in Maps
    BY <2>1, UnderWay DEF IInv
  <2> QED  BY <2>1, <2>2, <2>3, SameContent
<1>13. CASE CopyThrows
  <2>1. /\ ~Idle /\ p_nodes' = p_nodes /\ extracted' = Nothing
        /\ heap' = Deallocate(heap, ToSet(copying.nodes))
    BY <1>13 DEF CopyThrows, ForgetNode
  <2>2. copying.to \in Maps
    BY <2>1, UnderWay DEF IInv
  <2>3. \A a \in DOMAIN heap \ ToSet(copying.nodes) : heap'[a] = heap[a]
    BY <2>1, DeallocateIs DEF IInv
  <2>4. ASSUME NEW n \in Maps, NEW i \in DOMAIN p_nodes[n]
        PROVE  heap'[p_nodes[n][i]] = At(n, i)
    <3>1. p_nodes'[n] \in Seq(DOMAIN heap')
      BY DEF IInv, TypeOK
    <3>2. p_nodes[n][i] \in DOMAIN heap'
      BY <2>1, <3>1
    <3>3. DOMAIN heap' = DOMAIN heap \ ToSet(copying.nodes)
      BY <2>1, DeallocateIs DEF IInv
    <3> QED  BY <2>3, <3>2, <3>3 DEF At
  <2> QED  BY <2>1, <2>2, <2>4, SameContent
<1>14. CASE CopyDone
  BY <1>14, CopyCopies
<1>15. CASE UNCHANGED vars
  BY <1>15 DEF vars, Abstract!vars, Content, At
<1> QED
  BY <1>1, <1>2, <1>3, <1>4, <1>5, <1>7, <1>8, <1>9, <1>10, <1>11, <1>12, <1>13, <1>14, <1>15
  DEF Next

\* The vector of owned nodes is an ordered map: elements keep their order and
\* their address until they are erased, and a copy happens whole or not at all.
THEOREM NomapIsAnOrderedMap == Spec => ImplementsOrderedMap
<1>1. Spec => []IInv
  BY IInvHolds
<1>2. Init => Abstract!Init
  BY AbstractInit
<1> QED  BY <1>1, <1>2, StepImplements, PTL DEF Spec, ImplementsOrderedMap, Abstract!Spec

=============================================================================
