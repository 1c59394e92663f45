\* Two callers, two workers, every function; callbacks neither throw nor call.
CONSTANTS
    Callers = {c1, c2}
    Workers = {w1, w2}
    Nobody = Nobody
    SizeMax = 7
    Counts = {0, 1, 2, 3}
    MinChunkSizes = {0, 1}
    ChunkCounts = {0, 3}
    Kinds = {"for_each", "transform", "reduce", "parallel_for"}
    MayThrow = FALSE
    MayNest = FALSE
SPECIFICATION Spec
INVARIANTS
    ReduceInOrder
    SpansAreReal
PROPERTIES
    ImplementsFanOut
