\* Three mapped files of the POSIX build, with one handle number more than
\* they need; two regions of both builds, of 0 to 2 pages and of a size
\* whose last page would wrap.
CONSTANTS
    Objects = {o1, o2, o3}
    Ids = {h1, h2, h3, h4}
    NoId = NoId
    Windows = FALSE
    Regions = {r1, r2}
    Addresses = {a1, a2, a3}
    Null = Null
    PageSize = 2
    SizeMax = 7
    Sizes = {0, 1, 4, 7}
    Builds = {"posix", "windows"}
SPECIFICATION MCSpec
INVARIANTS
    FilesInv
    RegionInv
    NothingLeftBehind
PROPERTIES
    ViewsSurviveMoves
    MembersTravelTogether
