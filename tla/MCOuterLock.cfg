\* Two threads, one call each: blocking_wait lets the fetch go on.
CONSTANTS
    Threads = {t1, t2}
    None = None
    MaxCalls = 1
SPECIFICATION Spec
INVARIANT LockInv
PROPERTY CallsReturn
