\* Three threads, two pages, the whole file in the first fetch.
CONSTANTS
    t1 = t1
    t2 = t2
    t3 = t3
    SizeMax = 31
    PageSize = 2
    Size = 4
    ReadAhead = 1
    TailPrefetch = 0
    DownloadWholeBelow = 0
    Threads <- ThreeThreads
    Requests <- ShortRequests
    OpenMayLeak = FALSE
SPECIFICATION FairSpec
INVARIANTS
    AbsentIsUnreadable
    NoLostWakeup
PROPERTY EnsureReturns
