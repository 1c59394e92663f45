\* Callbacks throw: the accounts hold, and every call ends.
CONSTANTS
    Callers = {c1, c2}
    Workers = {w1, w2}
    Nobody = Nobody
    SizeMax = 7
    Counts = {1, 2}
    MinChunkSizes = {1}
    ChunkCounts = {0}
    Kinds = {"transform", "reduce"}
    MayThrow = TRUE
    MayNest = FALSE
SPECIFICATION FairSpec
INVARIANTS
    CallInv
PROPERTIES
    CallsReturn
