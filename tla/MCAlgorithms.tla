---------------------------- MODULE MCAlgorithms -----------------------------
(***************************************************************************)
(* Every small input of the pure algorithms.                               *)
(***************************************************************************)
EXTENDS Algorithms

CONSTANTS
    PageSizes,                \* of the files
    MaxLength,                \* of sequences
    MaxCandidate,             \* length of the candidates of a query
    Dimensions,               \* of the arrays
    Nodes                     \* of the trees, as paths

-----------------------------------------------------------------------------
Words(chars, n) == UNION {[1 .. k -> chars] : k \in 0 .. n}

\* Characters of both cases, a separator and one with no case.
MCLowerOf ==
    [c \in {"a", "A", "b", "B", "_"} |-> CASE c = "A" -> "a" [] c = "B" -> "b" [] OTHER -> c]

MCFileBytes == <<11, 12, 13>>

MCNodes == (Words({1, 2}, 2) \ {<<>>}) \cup {<<1, 1, 1>>, <<1, 1, 2>>, <<2, 1, 1>>}

Files(kind, readAheads, tails, wholes) ==
    UNION {[kind : {kind}, pageSize : {p}, size : 0 .. (MaxSizeT - p), readAhead : readAheads,
            tail : tails, whole : wholes] : p \in PageSizes}

Arrays ==
    UNION {{[kind |-> "array", shape |-> s, permutation |-> p,
             data |-> [i \in 1 .. FlatSize(s) |-> i]] :
                s \in [1 .. n -> Dimensions], p \in Permutations(1 .. n)} : n \in 0 .. 3}

\* Each node has its parent and its elder siblings.
TreesOf(nodes) ==
    {{<<>>} \cup t : t \in {s \in SUBSET nodes :
        \A p \in s : /\ Len(p) > 1 => Front(p) \in s
                     /\ Last(p) > 1 => Front(p) \o <<Last(p) - 1>> \in s}}

MCInputs ==
    UNION {
        Files("range", 0 .. (MaxSizeT \div 2), {0}, {0}),
        Files("extras", {0}, 0 .. MaxSizeT, 0 .. MaxSizeT),
        Files("claim", {0}, {0}, {0}),
        [kind : {"query"}, query : Words({"a", "b", "A"}, 3) \ {<<>>},
         candidate : Words({"a", "b", "A", "_"}, MaxCandidate)],
        [kind : {"sequence"}, items : Words(Characters, MaxLength), sep : {" "}],
        [kind : {"name"}, base : {<<"a">>, <<"b">>},
         blacklist : SUBSET [base : {<<"a">>, <<"b">>}, number : 0 .. 3]],
        Arrays,
        [kind : {"tree"}, nodes : TreesOf(Nodes)],
        {i \in [kind : {"bytes"}, order : Orders \cup {"unknown"}, width : 1 .. 3, unit : 1 .. 3,
                bytes : Words(Byte, MaxLength - 1), room : {[k \in 1 .. MaxLength |-> 1]}] :
            Len(i.bytes) % i.unit = 0},
        [kind : {"batch"}, before : {[i \in 1 .. n |-> <<>>] : n \in 0 .. 3},
         ranges : UNION {[1 .. n -> [offset : 0 .. 4, size : 0 .. 4]] : n \in 0 .. 2}]}

=============================================================================
