----------------------------- MODULE OrderedMap -----------------------------
(***************************************************************************)
(* What nomap promises its callers: maps that keep the order of insertion, *)
(* hold a key at most once, copy all or nothing, and whose elements keep   *)
(* their identity (the address a Python binding holds) until they are      *)
(* erased themselves.                                                      *)
(***************************************************************************)
EXTENDS Naturals, Sequences

CONSTANTS Maps, Keys, Values, Ids, NoElement

VARIABLES
    content,      \* the elements of each map, in order
    out           \* the element the last call extracted, or NoElement

vars == <<content, out>>

Element == [key : Keys, value : Values, id : Ids]

KeysOf(m) == {content[m][i].key : i \in DOMAIN content[m]}
Used      == UNION {{content[m][i].id : i \in DOMAIN content[m]} : m \in Maps}

Init ==
    /\ content = [m \in Maps |-> <<>>]
    /\ out = NoElement

Silent == out' = NoElement

Insert(m, e) ==
    /\ e.key \notin KeysOf(m) /\ e.id \notin Used
    /\ content' = [content EXCEPT ![m] = Append(@, e)]
    /\ Silent

\* A value changes through a reference; its element stays what it is.
Write(m, k, v) ==
    /\ content' = [content EXCEPT ![m] =
          [i \in DOMAIN @ |-> IF @[i].key = k THEN [@[i] EXCEPT !.value = v] ELSE @[i]]]
    /\ Silent

\* The others keep their order and their identity: f says where each was.
Remove(m, keys) ==
    LET kept == {i \in DOMAIN content[m] : content[m][i].key \notin keys}
    IN  /\ \E f \in [DOMAIN content'[m] -> kept] :
              /\ \A i, j \in DOMAIN f : i < j => f[i] < f[j]
              /\ \A p \in kept : \E i \in DOMAIN f : f[i] = p
              /\ \A i \in DOMAIN f : content'[m][i] = content[m][f[i]]
        /\ \A other \in Maps \ {m} : content'[other] = content[other]

Extract(m, k) ==
    /\ Remove(m, {k})
    /\ out' = IF k \notin KeysOf(m) THEN NoElement
              ELSE LET e == CHOOSE x \in {content[m][i] : i \in DOMAIN content[m]} : x.key = k
                   IN  [key |-> e.key, value |-> e.value]

Erase(m, keys) == Remove(m, keys) /\ Silent

\* A copy shares no element with the original, nor with what it replaces.
Copy(m, from) ==
    /\ Len(content'[m]) = Len(content[from])
    /\ \A i \in DOMAIN content[from] :
          content'[m][i] = [content[from][i] EXCEPT !.id = content'[m][i].id]
    /\ {content'[m][i].id : i \in DOMAIN content'[m]} \cap Used = {}
    /\ \A other \in Maps \ {m} : content'[other] = content[other]
    /\ Silent

Swap(m, with) ==
    /\ content' = [content EXCEPT ![m] = content[with], ![with] = content[m]]
    /\ Silent

Move(m, from) ==
    /\ content' = [content EXCEPT ![m] = content[from], ![from] = <<>>]
    /\ Silent

Next ==
    /\ content' \in [Maps -> Seq(Element)]
    /\ \E m \in Maps :
          \/ \E keys \in SUBSET Keys : Erase(m, keys)
          \/ \E from \in Maps \ {m} : Swap(m, from) \/ Move(m, from) \/ Copy(m, from)
          \/ \E k \in Keys : Extract(m, k) \/ \E v \in Values : Write(m, k, v)
          \/ \E e \in Element : Insert(m, e)

Spec == Init /\ [][Next]_vars

=============================================================================
