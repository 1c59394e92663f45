\* Two threads, four pages, read-ahead and tail prefetch at work.
CONSTANTS
    t1 = t1
    t2 = t2
    t3 = t3
    SizeMax = 31
    PageSize = 2
    Size = 7
    ReadAhead = 3
    TailPrefetch = 1
    DownloadWholeBelow = 0
    Threads <- TwoThreads
    Requests <- FourPageRequests
    OpenMayLeak = TRUE
SPECIFICATION Spec
SYMMETRY Symmetry
INVARIANTS
    TypeOK
    OneFetcherPerPage
    PresentIsSealed
    ReaderMayWrite
    ReturnedIsPresent
    ExtrasNotForgotten
PROPERTIES
    ImplementsPageCache
    FetchesDoNotInterfere
