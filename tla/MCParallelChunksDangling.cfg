\* reduce rethrows while its other tasks are still to run.
CONSTANTS
    Callers = {c1}
    Workers = {w1}
    Nobody = Nobody
    SizeMax = 7
    Counts = {2}
    MinChunkSizes = {0}
    ChunkCounts = {2}
    Kinds = {"reduce"}
    MayThrow = TRUE
    MayNest = FALSE
SPECIFICATION Spec
INVARIANTS
    SpansAreReal
