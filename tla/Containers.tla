----------------------------- MODULE Containers -----------------------------
(***************************************************************************)
(* The algorithms on containers: split and join, the flat offset of a point *)
(* of an N-dimensional array, and the permutation of an array's axes.      *)
(* Dimensions and offsets count from 0, elements of a sequence from 1.     *)
(* Definitions named X_Y are plausible errors in X, for the mutation runs. *)
(***************************************************************************)
EXTENDS Integers, Sequences, SequencesExt, FiniteSetsExt

(* split keeps a chunk until a separator ends it; empty chunks are dropped. *)

Flushed(output, chunk) == IF chunk = <<>> THEN output ELSE Append(output, chunk)

Cut_KeepsChunk(s, c, sep) ==
    IF c # sep THEN [s EXCEPT !.chunk = Append(@, c)]
    ELSE [s EXCEPT !.output = Flushed(@, s.chunk)]

Cut(s, c, sep) ==
    IF c # sep THEN [s EXCEPT !.chunk = Append(@, c)]
    ELSE [output |-> Flushed(s.output, s.chunk), chunk |-> <<>>]

NoCuts == [output |-> <<>>, chunk |-> <<>>]

\* Where the loop ends.
Cuts(input, sep) ==
    LET state[i \in 0 .. Len(input)] ==
            IF i = 0 THEN NoCuts ELSE Cut(state[i - 1], input[i], sep)
    IN  state[Len(input)]

Split(input, sep) == Flushed(Cuts(input, sep).output, Cuts(input, sep).chunk)

\* A separator after each item but the last.
Join(items, sep) ==
    IF items = <<>> THEN <<>>
    ELSE FlattenSeq([i \in 1 .. (Len(items) - 1) |-> Append(items[i], sep)]) \o Last(items)

Others(items, sep) ==
    LET others[i \in 0 .. Len(items)] ==
            IF i = 0 THEN <<>>
            ELSE IF items[i] = sep THEN others[i - 1] ELSE Append(others[i - 1], items[i])
    IN  others[Len(items)]

Separated(items, sep) == {i \in DOMAIN items : items[i] = sep}

\* split drops separators and nothing else, leaves no chunk empty, and cuts
\* wherever a separator stood.
SplitDropsSeparators(items, sep) ==
    LET chunks == Split(items, sep)
    IN  /\ FlattenSeq(chunks) = Others(items, sep)
        /\ \A i \in DOMAIN chunks : chunks[i] # <<>>
        /\ Len(chunks) = Cardinality({i \in DOMAIN items \ Separated(items, sep) :
                                         i = 1 \/ i - 1 \in Separated(items, sep)})

\* join is the inverse of split exactly where no separator stands first, last or
\* behind another; the other way round it always is.
JoinUndoesSplit(items, sep) ==
    LET joined == Join(Split(items, sep), sep)
    IN  /\ Split(joined, sep) = Split(items, sep)
        /\ joined = items <=> \A i \in Separated(items, sep) :
                                i # 1 /\ i # Len(items) /\ i - 1 \notin Separated(items, sep)

-----------------------------------------------------------------------------
(* N-dimensional arrays. *)

Product(shape) ==
    LET size[d \in 0 .. Len(shape)] == IF d = 0 THEN 1 ELSE size[d - 1] * shape[d]
    IN  size[Len(shape)]

\* Nothing has no element: an empty shape is not a point.
FlatSize(shape) == IF shape = <<>> THEN 0 ELSE Product(shape)

FlatIndex(indices, shape, order) ==
    LET n       == Len(shape)
        axis(k) == IF order = "row_major" THEN k ELSE n + 1 - k
        flat[k \in 0 .. n] ==
            IF k = 0 THEN 0 ELSE flat[k - 1] * shape[axis(k)] + indices[axis(k)]
    IN  flat[n]

Permuted(s, permutation) == [k \in DOMAIN permutation |-> s[permutation[k]]]

Advance_FirstAxis(index, shape) ==
    LET full == {d \in DOMAIN shape : \A e \in 1 .. d : index[e] + 1 >= shape[e]}
    IN  [d \in DOMAIN shape |->
            IF d \in full THEN 0 ELSE IF (d - 1) \in full \cup {0} THEN index[d] + 1 ELSE index[d]]

\* The odometer: the last axes that are at their end go back to 0, the one
\* before them moves on.
Advance(index, shape) ==
    LET n    == Len(shape)
        full == {d \in 1 .. n : \A e \in d .. n : index[e] + 1 >= shape[e]}
    IN  [d \in 1 .. n |->
            IF d \in full THEN 0
            ELSE IF (d + 1) \in full \cup {n + 1} THEN index[d] + 1 ELSE index[d]]

\* Each element of the row-major data, in order, to its place in the result.
PermuteAxes(data, shape, permutation) ==
    LET total == FlatSize(shape)
        index[i \in 0 .. total] ==
            IF i = 0 THEN [d \in DOMAIN shape |-> 0] ELSE Advance(index[i - 1], shape)
        result[i \in 0 .. total] ==
            IF i = 0 THEN [k \in 1 .. total |-> 0]
            ELSE [result[i - 1] EXCEPT ![FlatIndex(Permuted(index[i - 1], permutation),
                                                   Permuted(shape, permutation),
                                                   "row_major") + 1] = data[i]]
    IN  result[total]

-----------------------------------------------------------------------------
Points(shape) ==
    {p \in [DOMAIN shape -> 0 .. Max({0} \cup Range(shape))] :
        \A d \in DOMAIN shape : p[d] < shape[d]}

\* Every point of an array has a place of its own among its flat_size elements,
\* in either order.
FlatIndexNumbersPoints(shape) ==
    shape # <<>> =>
        \A order \in {"row_major", "column_major"} :
            /\ Cardinality(Points(shape)) = FlatSize(shape)
            /\ {FlatIndex(p, shape, order) : p \in Points(shape)} = 0 .. (FlatSize(shape) - 1)

\* permute_axes takes the element at each point to the permuted point, axes of
\* no length included: its odometer runs through the points in row-major order.
PermuteAxesMovesPoints(data, shape, permutation) ==
    LET out == PermuteAxes(data, shape, permutation)
    IN  /\ Len(out) = FlatSize(shape)
        /\ shape # <<>> =>
             \A p \in Points(shape) :
                out[FlatIndex(Permuted(p, permutation), Permuted(shape, permutation), "row_major") + 1]
                    = data[FlatIndex(p, shape, "row_major") + 1]

=============================================================================
