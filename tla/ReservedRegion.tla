--------------------------- MODULE ReservedRegion ---------------------------
(***************************************************************************)
(* reserved_region: objects that own a range of address space, from the    *)
(* system calls that reserve it, one by one and each of which may fail, to *)
(* the release.  A file-backed region also goes through a temporary file,  *)
(* a section and a file handle on Windows.  The process may die at any     *)
(* point.  What a failure, a release or a crash leaves behind is kept, to  *)
(* tell when there is any.                                                 *)
(* Definitions named X_Y are plausible errors in X, for the mutation runs. *)
(***************************************************************************)
EXTENDS Integers, Sequences, Functions

CONSTANTS
    Regions,      \* places where a reserved_region may be constructed
    Addresses,    \* bound: how many mappings can exist at once
    Null,         \* nullptr, or no construction under way
    PageSize,
    SizeMax,      \* the largest std::size_t
    Sizes,        \* the sizes asked for
    Builds        \* a subset of {"posix", "windows"}

ASSUME ReservedRegionAssumption ==
    /\ Null \notin Addresses
    /\ PageSize \in Nat \ {0} /\ SizeMax \in Nat /\ PageSize =< SizeMax
    /\ Sizes \subseteq 0 .. SizeMax
    /\ Builds \subseteq {"posix", "windows"}

VARIABLES
    build,        \* the platform, which does not change
    region,       \* the members of each constructed object
    mapped,       \* the mappings the system holds: their length, handles and pages
    building,     \* the construction under way, or Null
    leaked,       \* what nobody will release any more
    mishaps       \* what kept a file's name from being removed, so far

regionVars == <<build, region, mapped, building, leaked, mishaps>>

Resource == {"view", "section", "file", "name"}
Access   == {"reserved", "none", "writable", "sealed"}
PageArgs == 0 .. SizeMax

\* Windows file-backed mappings keep a section and a file; data tells the rest.
RegionMembers == [data : Addresses \cup {Null}, section : BOOLEAN, size : PageArgs, length : PageArgs]
NoMembers == [data |-> Null, section |-> FALSE, size |-> 0, length |-> 0]

RegionTypeOK ==
    /\ build \in Builds
    /\ DOMAIN region \subseteq Regions
    /\ \A r \in DOMAIN region : region[r] \in RegionMembers
    /\ DOMAIN mapped \subseteq Addresses
    /\ \A a \in DOMAIN mapped :
          mapped[a] \in [length : PageArgs, handles : SUBSET Resource,
                        pages : [0 .. (mapped[a].length \div PageSize - 1) -> Access]]
    /\ \/ building = Null
       \/ building \in [region : Regions, size : Sizes, backing : {"memory", "file"},
                        next : 1 .. 7, held : SUBSET Resource]
    /\ leaked \subseteq Resource
    /\ mishaps \subseteq {"unlink", "crash"}

RegionInit ==
    /\ build \in Builds
    /\ region = <<>>
    /\ mapped = <<>>
    /\ building = Null
    /\ leaked = {}
    /\ mishaps = {}

With(f, x, y)  == [z \in DOMAIN f \cup {x} |-> IF z = x THEN y ELSE f[z]]
Without(f, x)  == Restrict(f, DOMAIN f \ {x})
RegionIdle     == building = Null

-----------------------------------------------------------------------------
(* Construction. *)

WholePages(size) == ((size + PageSize - 1) \div PageSize) * PageSize

\* A size whose last page would pass SizeMax is a length_error.
BeginRegion(r, size, backing) ==
    /\ RegionIdle /\ r \notin DOMAIN region
    /\ size =< SizeMax - PageSize
    /\ IF WholePages(size) = 0
       THEN region' = With(region, r, NoMembers) /\ UNCHANGED building
       ELSE /\ building' = [region |-> r, size |-> size, backing |-> backing,
                            next |-> 1, held |-> {}]
            /\ UNCHANGED region
    /\ UNCHANGED <<build, mapped, leaked, mishaps>>

Calls_UnlinkAfterTruncate ==
    IF building.backing = "memory" THEN <<"map">>
    ELSE IF build = "windows"
    THEN <<"name", "open", "extend", "section", "map", "protect">>
    ELSE <<"create", "extend", "unlink", "map", "close">>

(* The system calls of reserve_memory and reserve_file, in order. *)
Calls ==
    IF building.backing = "memory" THEN <<"map">>
    ELSE IF build = "windows"
    THEN <<"name", "open", "extend", "section", "map", "protect">>
    ELSE <<"create", "unlink", "extend", "map", "close">>

Call == Calls[building.next]

Gains(call) ==
    CASE call = "create" -> {"file", "name"}        \* mkstemp
      [] call = "name" -> {"name"}                  \* GetTempFileNameW
      [] call = "open" -> {"file"}
      [] call = "section" -> {"section"}
      [] call = "map" -> {"view"}
      [] OTHER -> {}

\* A Windows file is opened to be deleted with its last handle, and then
\* needs no removal.
Loses(call) ==
    CASE call \in {"unlink", "open"} -> {"name"}
      [] call = "close" -> {"file"}
      [] OTHER -> {}

CallSucceeds ==
    /\ ~RegionIdle /\ building.next =< Len(Calls)
    /\ building' = [building EXCEPT !.next = @ + 1,
                                    !.held = (@ \cup Gains(Call)) \ Loses(Call)]
    /\ UNCHANGED <<build, region, mapped, leaked, mishaps>>

\* What the handler of each failure releases.
CleanedUp(call) ==
    CASE call = "open" -> {"name"}
      [] call = "extend" -> {"file"}
      [] call \in {"section", "map", "protect"} -> Resource
      [] OTHER -> {}

\* POSIX looks at the result of mmap only after it closed the descriptor.
LateCheck == build = "posix" /\ building.backing = "file" /\ Call = "map"

CallFails ==
    /\ ~RegionIdle /\ building.next =< Len(Calls)
    /\ Call \notin {"unlink", "close"}
    /\ IF LateCheck
       THEN building' = [building EXCEPT !.next = @ + 1] /\ UNCHANGED leaked
       ELSE /\ leaked' = leaked \cup (building.held \ CleanedUp(Call))
            /\ building' = Null
    /\ UNCHANGED <<build, region, mapped, mishaps>>

\* Nobody looks at the result of unlink: the construction goes on with a file
\* that keeps its name.  Nor at that of DeleteFile, called when open has failed.
RemovalFails ==
    /\ ~RegionIdle /\ building.next =< Len(Calls)
    /\ \/ /\ Call = "unlink"
          /\ building' = [building EXCEPT !.next = @ + 1]
          /\ UNCHANGED leaked
       \/ /\ Call = "open"
          /\ building' = Null
          /\ leaked' = leaked \cup building.held
    /\ mishaps' = mishaps \cup {"unlink"}
    /\ UNCHANGED <<build, region, mapped>>

FreeAddress == Addresses \ DOMAIN mapped

\* Nothing can be read yet.  Windows memory is not committed either.
FirstAccess == IF build = "windows" /\ building.backing = "memory" THEN "reserved" ELSE "none"

EndRegion ==
    /\ ~RegionIdle /\ building.next > Len(Calls)
    /\ IF "view" \in building.held
       THEN \E a \in FreeAddress :
              LET length == WholePages(building.size)
              IN  /\ region' = With(region, building.region,
                        [data |-> a, section |-> "section" \in building.held,
                         size |-> building.size, length |-> length])
                  /\ mapped' = With(mapped, a,
                        [length |-> length, handles |-> building.held,
                         pages |-> [p \in 0 .. (length \div PageSize - 1) |-> FirstAccess]])
                  /\ UNCHANGED leaked
       ELSE /\ leaked' = leaked \cup building.held
            /\ UNCHANGED <<region, mapped>>
    /\ building' = Null
    /\ UNCHANGED <<build, mishaps>>

-----------------------------------------------------------------------------
(* Moves and destruction. *)

MoveConstructRegion(r, from) ==
    /\ RegionIdle /\ r \notin DOMAIN region /\ from \in DOMAIN region
    /\ region' = [With(region, r, region[from]) EXCEPT ![from] = NoMembers]
    /\ UNCHANGED <<build, mapped, building, leaked, mishaps>>

MoveAssignRegion_NoLength(r, from) ==
    /\ RegionIdle /\ r \in DOMAIN region /\ from \in DOMAIN region
    /\ region' = [region EXCEPT ![r] = [region[from] EXCEPT !.length = region[r].length],
                                ![from] = [region[r] EXCEPT !.length = region[from].length]]
    /\ UNCHANGED <<build, mapped, building, leaked, mishaps>>

\* The three members are swapped: the old mapping lives on in other.
MoveAssignRegion(r, from) ==
    /\ RegionIdle /\ r \in DOMAIN region /\ from \in DOMAIN region
    /\ region' = [region EXCEPT ![r] = region[from], ![from] = region[r]]
    /\ UNCHANGED <<build, mapped, building, leaked, mishaps>>

\* VirtualFree or munmap; with a section, the view and both handles.
ReleasedHandles(members) ==
    IF members.section THEN {"view", "section", "file"} ELSE {"view"}

DestroyRegion(r) ==
    /\ RegionIdle /\ r \in DOMAIN region
    /\ region' = Without(region, r)
    /\ LET m == region[r]
       IN  IF m.data = Null THEN UNCHANGED <<mapped, leaked>>
           ELSE /\ mapped' = Without(mapped, m.data)
                /\ leaked' = leaked \cup (mapped[m.data].handles \ ReleasedHandles(m))
    /\ UNCHANGED <<build, building, mishaps>>

-----------------------------------------------------------------------------
(* The end of the process. *)

\* The file has a name, and the next call is to see to it.
RemovalIsNext == ~RegionIdle /\ building.next =< Len(Calls) /\ Call \in {"unlink", "open"}

\* The system takes back everything but the names of files.
Crash ==
    /\ region' = <<>> /\ mapped' = <<>> /\ building' = Null
    /\ LET held == (UNION {mapped[a].handles : a \in DOMAIN mapped})
                       \cup (IF RegionIdle THEN {} ELSE building.held)
       IN  leaked' = leaked \cup (held \cap {"name"})
    /\ mishaps' = mishaps \cup {m \in {"crash"} : RemovalIsNext}
    /\ UNCHANGED build

-----------------------------------------------------------------------------
(* Protection. *)

Accepts_Sum(members, first, count) ==
    /\ count # 0
    /\ (first + count) % (SizeMax + 1) =< members.length \div PageSize

\* pages_length
Accepts(members, first, count) ==
    LET pages == members.length \div PageSize
    IN  count # 0 /\ first =< pages /\ count =< pages - first

\* VirtualProtect refuses pages that were never committed.
Refused(m, pages, access) ==
    access # "writable" /\ \E p \in pages : m.pages[p] = "reserved"

\* make_writable, seal and make_no_access.  A call that fails, and throws,
\* may have changed a part of the pages.
ProtectPages(r, first, count, access) ==
    /\ RegionIdle /\ r \in DOMAIN region
    /\ Accepts(region[r], first, count)
    /\ LET a     == region[r].data
           pages == first .. (first + count - 1)
       IN  /\ ~Refused(mapped[a], pages, access)
           /\ \E done \in 1 .. count :
                mapped' = [mapped EXCEPT ![a].pages =
                   [p \in DOMAIN @ |-> IF p \in first .. (first + done - 1) THEN access ELSE @[p]]]
    /\ UNCHANGED <<build, region, building, leaked, mishaps>>

RegionNext ==
    \/ \E r \in Regions :
          \/ DestroyRegion(r)
          \/ \E size \in Sizes, backing \in {"memory", "file"} : BeginRegion(r, size, backing)
          \/ \E from \in Regions : MoveConstructRegion(r, from) \/ MoveAssignRegion(r, from)
          \/ \E first, count \in PageArgs, access \in {"none", "writable", "sealed"} :
                ProtectPages(r, first, count, access)
    \/ CallSucceeds \/ CallFails \/ RemovalFails \/ EndRegion \/ Crash

RegionSpec == RegionInit /\ [][RegionNext]_regionVars

-----------------------------------------------------------------------------
(* Correctness *)

\* Whatever the moves, a mapping is named by exactly one region, together with
\* its own length and kind: it is released once, and whole.  A region of no
\* byte maps nothing.
RegionOneOwner ==
    /\ \A r \in DOMAIN region :
          LET m == region[r]
          IN  IF m.data = Null THEN m = NoMembers
              ELSE /\ m.data \in DOMAIN mapped
                   /\ m.length = mapped[m.data].length
                   /\ m.size > m.length - PageSize /\ m.size =< m.length
                   /\ m.section <=> "section" \in mapped[m.data].handles
    /\ \A a \in DOMAIN mapped : \E r \in DOMAIN region :
          \A s \in DOMAIN region : region[s].data = a <=> s = r

\* No page range, however large or wrapping its end, reaches outside of the
\* region: pages_length accepts exactly the ranges of bytes inside it.
PageRangesInside ==
    \A r \in DOMAIN region : \A first, count \in PageArgs :
        Accepts(region[r], first, count) <=>
            count > 0 /\ (first + count) * PageSize =< region[r].length

\* What the process has mapped is what its regions say, to the page.
RegionInv == RegionTypeOK /\ RegionOneOwner /\ PageRangesInside

\* Whichever call of a construction fails, and whatever is released later, no
\* descriptor, section or mapping stays open.  A file stays on the disk only when
\* a call that was to remove it has failed, which nobody checks, or when the
\* process died right before that call, with the file still empty; in
\* particular, "it disappears with the mapping, even after a crash" holds of every
\* mapped file whose unlink did not fail.
NothingLeftBehind ==
    /\ leaked \subseteq {"name"}
    /\ leaked # {} => mishaps # {}
    /\ ~RegionIdle /\ "name" \in building.held => RemovalIsNext \/ "unlink" \in mishaps
    /\ \A a \in DOMAIN mapped :
          /\ mapped[a].handles \ {"name"} = {"view"}
                \/ (build = "windows" /\ mapped[a].handles = {"view", "section", "file"})
          /\ "name" \in mapped[a].handles => "unlink" \in mishaps

\* A region's bytes stay where they are, with their size and length, until the
\* region that has them is destroyed or the process dies; what a region gives
\* away in a move is never left without an owner.
MembersTravelTogether ==
    [][\A r \in DOMAIN region : region[r].data # Null =>
          \/ \E to \in DOMAIN region' : region'[to] = region[r]
          \/ r \notin DOMAIN region' /\ region[r].data \notin DOMAIN mapped']_regionVars

=============================================================================
