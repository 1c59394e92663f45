\* Two threads, two calls each: a second call meets the waiter that wakes up.
CONSTANTS
    Threads = {t1, t2}
    None = None
    MaxCalls = 2
SPECIFICATION Spec
INVARIANTS
    NoLockCycle
