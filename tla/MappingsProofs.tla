--------------------------- MODULE MappingsProofs ---------------------------
(***************************************************************************)
(* Proofs about the two owners of mappings: MappedFile, for any objects    *)
(* and handle numbers, and ReservedRegion, for any regions, sizes, page    *)
(* size and width of std::size_t, on both platforms.                       *)
(***************************************************************************)
EXTENDS MappedFile, ReservedRegion, TLAPS

-----------------------------------------------------------------------------
(* Files: types and members. *)

LEMMA KindIs ==
    /\ Kind = IF Windows THEN {"file", "section", "view"} ELSE {"file", "view"}
    /\ "file" \in Kind /\ "view" \in Kind
    /\ Len(Order) \in Nat
    /\ \A i \in 1 .. Len(Order) : Order[i] \in Kind
  BY DEF Kind, Order

LEMMA EmptyNamesNothing ==
    /\ Empty \in Members
    /\ Named(Empty) = {}
    /\ ~Mapped(Empty)
    /\ ~IsValid(Empty)
  BY KindIs, MappedFileAssumption DEF Empty, Members, Named, Mapped, IsValid

\* What the constructor leaves in the members, whether it succeeds or not.
LEMMA ConstructFileMembers ==
    ASSUME TypeOK, NEW o \in Objects, ConstructFile(o)
    PROVE  \E m \in Members :
              /\ object' = [object EXCEPT ![o] = m]
              /\ open' = open \cup Named(m)
              /\ Named(m) \cap open = {}
              /\ m.f_size = "positive"
              /\ Mapped(m) => IsValid(m)
              /\ ~Windows => Named(m) = {} \/ IsValid(m)
<1>1. PICK n \in 0 .. Len(Order), handle \in [Kind -> Ids] :
         LET whole == n = Len(Order)
             kept  == IF whole THEN Kind ELSE KeptOnFailure(n)
         IN  /\ \A k \in Opened(n) : handle[k] \in Fresh(k)
             /\ object' = [object EXCEPT ![o] =
                    [handle |-> [k \in Kind |-> IF k \in kept THEN handle[k] ELSE NoId],
                     f_size |-> "positive"]]
             /\ open' = open \cup {<<k, handle[k]>> : k \in kept}
  BY DEF ConstructFile
<1> DEFINE kept == IF n = Len(Order) THEN Kind ELSE KeptOnFailure(n)
           m == [handle |-> [k \in Kind |-> IF k \in kept THEN handle[k] ELSE NoId],
                 f_size |-> "positive"]
<1>2. kept \subseteq Kind /\ kept \subseteq Opened(n)
  BY KindIs DEF KeptOnFailure, Opened, Order, Kind
<1>3. m \in Members
  BY <1>2 DEF Members
<1>4. Named(m) = {<<k, handle[k]>> : k \in kept}
  BY <1>2, MappedFileAssumption DEF Named
<1>5. Named(m) \cap open = {}
  BY <1>1, <1>2, <1>4 DEF Fresh
<1>6. Mapped(m) => IsValid(m)
  BY <1>2, MappedFileAssumption DEF Mapped, IsValid, KeptOnFailure, Opened, Order, Kind
<1>7. ~Windows => Named(m) = {} \/ IsValid(m)
  BY <1>2, <1>4, MappedFileAssumption DEF IsValid, KeptOnFailure
<1> QED  BY <1>1, <1>3, <1>4, <1>5, <1>6, <1>7

-----------------------------------------------------------------------------
(* Ownership.  It needs that release() closes all or nothing, and so holds for *)
(* the POSIX build: a failed open leaves Windows handles behind.               *)

\* A made object that has no view has nothing to release.
LEMMA ReleaseClosesAll ==
    ASSUME FilesInv, NEW o \in made
    PROVE  Release(object[o]) = Named(object[o])
  BY KindIs DEF FilesInv, ValidIsWhole, IsValid, Mapped, Release

LEMMA InitFilesInv == Init => FilesInv
  BY EmptyNamesNothing DEF Init, FilesInv, TypeOK, OneOwner, ValidIsWhole

LEMMA NextFilesInv == ~Windows /\ FilesInv /\ [Next]_vars => FilesInv'
<1> SUFFICES ASSUME ~Windows, FilesInv, [Next]_vars PROVE FilesInv'
  OBVIOUS
<1> USE EmptyNamesNothing DEF FilesInv
<1>1. ASSUME NEW o \in Objects, ConstructNothing(o) PROVE FilesInv'
  BY <1>1 DEF ConstructNothing, TypeOK, OneOwner, ValidIsWhole
<1>2. ASSUME NEW o \in Objects, ConstructFile(o) PROVE FilesInv'
  <2>1. PICK m \in Members :
           /\ object' = [object EXCEPT ![o] = m]
           /\ open' = open \cup Named(m)
           /\ Named(m) \cap open = {}
           /\ m.f_size = "positive"
           /\ Named(m) = {} \/ IsValid(m)
    BY <1>2, ConstructFileMembers
  <2>2. made' = made \cup {o} /\ o \notin made
    BY <1>2 DEF ConstructFile
  <2>3. Named(m) \subseteq Handle
    BY DEF Named, Handle, Members
  <2>4. TypeOK'
    BY <2>1, <2>2, <2>3 DEF TypeOK
  <2>5. OneOwner'
    BY <2>1, <2>2 DEF TypeOK, OneOwner
  <2>6. ValidIsWhole'
    BY <2>1, <2>2 DEF TypeOK, ValidIsWhole
  <2> QED  BY <2>4, <2>5, <2>6
<1>3. ASSUME NEW o \in Objects, Destroy(o) PROVE FilesInv'
  <2>1. Release(object[o]) = Named(object[o])
    BY <1>3, ReleaseClosesAll DEF Destroy
  <2>2. TypeOK' /\ ValidIsWhole'
    BY <1>3 DEF Destroy, TypeOK, ValidIsWhole
  <2>3. OneOwner'
    BY <1>3, <2>1, SMTT(30) DEF Destroy, TypeOK, OneOwner
  <2> QED  BY <2>2, <2>3
<1>4. ASSUME NEW o \in Objects, NEW from \in Objects, MoveConstruct(o, from)
      PROVE FilesInv'
  <2>1. TypeOK' /\ ValidIsWhole'
    BY <1>4 DEF MoveConstruct, Adopt, TypeOK, ValidIsWhole
  <2>2. OneOwner'
    BY <1>4, SMTT(30) DEF MoveConstruct, Adopt, TypeOK, OneOwner
  <2> QED  BY <2>1, <2>2
<1>5. ASSUME NEW o \in Objects, NEW from \in Objects, MoveAssign(o, from)
      PROVE FilesInv'
  <2>1. CASE o = from
    BY <1>5, <2>1 DEF MoveAssign, TypeOK, OneOwner, ValidIsWhole
  <2>2. CASE o # from
    <3>1. Release(object[o]) = Named(object[o])
      BY <1>5, ReleaseClosesAll DEF MoveAssign
    <3>2. TypeOK' /\ ValidIsWhole'
      BY <1>5, <2>2 DEF MoveAssign, Adopt, TypeOK, ValidIsWhole
    <3>3. /\ open' = open \ Named(object[o])
          /\ made' = made /\ o \in made /\ from \in made
          /\ Named(object'[o]) = Named(object[from])
          /\ Named(object'[from]) = {}
          /\ \A p \in made \ {o, from} : Named(object'[p]) = Named(object[p])
      BY <1>5, <2>2, <3>1 DEF MoveAssign, Adopt, TypeOK
    <3>4. open' = UNION {Named(object'[p]) : p \in made'}
      BY <2>2, <3>3 DEF OneOwner
    <3>5. \A p, q \in made' : p # q => Named(object'[p]) \cap Named(object'[q]) = {}
      BY <2>2, <3>3 DEF OneOwner
    <3> QED  BY <3>2, <3>4, <3>5 DEF OneOwner
  <2> QED  BY <2>1, <2>2
<1>6. CASE UNCHANGED vars
  BY <1>6 DEF vars, TypeOK, OneOwner, ValidIsWhole
<1> QED
  BY <1>1, <1>2, <1>3, <1>4, <1>5, <1>6 DEF Next

\* Nothing leaks, is closed twice, or is closed for somebody else, whatever the
\* constructor's calls do and however the objects are moved.
THEOREM FilesHaveOneOwner ==
    ASSUME ~Windows
    PROVE  Spec => []FilesInv
  BY InitFilesInv, NextFilesInv, PTL DEF Spec

-----------------------------------------------------------------------------
(* Moves, on both builds. *)

LEMMA InitTypeOK == Init => TypeOK
  BY EmptyNamesNothing DEF Init, TypeOK

LEMMA NextTypeOK == TypeOK /\ [Next]_vars => TypeOK'
<1> SUFFICES ASSUME TypeOK, [Next]_vars PROVE TypeOK'
  OBVIOUS
<1> USE EmptyNamesNothing DEF TypeOK
<1>1. ASSUME NEW o \in Objects, ConstructFile(o) PROVE TypeOK'
  <2>1. PICK m \in Members :
           object' = [object EXCEPT ![o] = m] /\ open' = open \cup Named(m)
    BY <1>1, ConstructFileMembers
  <2>2. Named(m) \subseteq Handle
    BY DEF Named, Handle, Members
  <2> QED  BY <1>1, <2>1, <2>2 DEF ConstructFile
<1>2. ASSUME NEW o \in Objects, ConstructNothing(o) \/ Destroy(o) PROVE TypeOK'
  BY <1>2 DEF ConstructNothing, Destroy
<1>3. ASSUME NEW o \in Objects, NEW from \in Objects,
             MoveConstruct(o, from) \/ MoveAssign(o, from)
      PROVE TypeOK'
  BY <1>3 DEF MoveConstruct, MoveAssign, Adopt
<1> QED  BY <1>1, <1>2, <1>3 DEF Next, vars

\* What ViewsSurviveMoves says of one step.
ViewsStay ==
    \A o \in made : Mapped(object[o]) =>
        \/ \E p \in made' : object'[p].handle["view"] = object[o].handle["view"]
                              /\ object'[p].f_size = object[o].f_size
        \/ Destroy(o)
        \/ \E from \in made \ {o} : MoveAssign(o, from)

LEMMA NextViewsStay == TypeOK /\ [Next]_vars => [ViewsStay]_vars
<1> SUFFICES ASSUME TypeOK, Next, NEW o \in made, Mapped(object[o]),
                    ~Destroy(o), ~\E from \in made \ {o} : MoveAssign(o, from)
             PROVE  \E p \in made' : object'[p] = object[o]
  BY DEF ViewsStay
<1>1. ASSUME NEW p \in Objects, ConstructNothing(p) \/ Destroy(p)
      PROVE  o \in made' /\ object'[o] = object[o]
  BY <1>1 DEF ConstructNothing, Destroy, TypeOK
<1>2. ASSUME NEW p \in Objects, ConstructFile(p)
      PROVE  o \in made' /\ object'[o] = object[o]
  BY <1>2, ConstructFileMembers DEF ConstructFile, TypeOK
<1>3. ASSUME NEW p \in Objects, NEW from \in Objects, MoveConstruct(p, from)
      PROVE  \E q \in made' : object'[q] = object[o]
  BY <1>3 DEF MoveConstruct, Adopt, TypeOK
<1>4. ASSUME NEW p \in Objects, NEW from \in Objects, MoveAssign(p, from)
      PROVE  \E q \in made' : object'[q] = object[o]
  <2>1. CASE p = from
    BY <1>4, <2>1 DEF MoveAssign
  <2>2. CASE p # from
    <3>1. o # p
      BY <1>4, <2>2 DEF MoveAssign
    <3> QED  BY <1>4, <2>2, <3>1 DEF MoveAssign, Adopt, TypeOK
  <2> QED  BY <2>1, <2>2
<1> QED  BY <1>1, <1>2, <1>3, <1>4 DEF Next

\* A view callers have taken from data() is unmapped only by the destruction of
\* the object that has it then, or by another moved over that one.
THEOREM ViewsOutliveMoves == Spec => ViewsSurviveMoves
<1>1. TypeOK /\ [Next]_vars => [ViewsStay]_vars  BY NextViewsStay
<1> QED  BY <1>1, InitTypeOK, NextTypeOK, PTL DEF Spec, ViewsSurviveMoves, ViewsStay

-----------------------------------------------------------------------------
(* Regions: a length is a whole number of pages. *)

LEMMA DivBounds ==
    ASSUME NEW x \in Nat, NEW k \in Nat \ {0}
    PROVE  x \div k \in Nat /\ (x \div k) * k =< x /\ x < (x \div k) * k + k
  OBVIOUS

LEMMA DivExact ==
    ASSUME NEW x \in Nat, NEW k \in Nat \ {0}
    PROVE  (x * k) \div k = x
  OBVIOUS

\* A length the constructor gives a region.
IsWhole(length) ==
    length \in PageArgs /\ length = (length \div PageSize) * PageSize

LEMMA WholePagesIsWhole ==
    ASSUME NEW size \in PageArgs, size =< SizeMax - PageSize
    PROVE  /\ IsWhole(WholePages(size))
           /\ size > WholePages(size) - PageSize /\ size =< WholePages(size)
<1> DEFINE n == (size + PageSize - 1) \div PageSize
<1>1. PageSize \in Nat \ {0} /\ SizeMax \in Nat /\ size \in Nat
  BY ReservedRegionAssumption DEF PageArgs
<1>2. size + PageSize - 1 \in Nat  BY <1>1
<1>3. n \in Nat /\ n * PageSize =< size + PageSize - 1
      /\ size + PageSize - 1 < n * PageSize + PageSize
  BY <1>1, <1>2, DivBounds
<1>4. n * PageSize \in Nat /\ (n * PageSize) \div PageSize = n
  BY <1>1, <1>3, DivExact
<1>5. WholePages(size) = n * PageSize  BY DEF WholePages
<1> HIDE DEF n
<1> QED  BY <1>1, <1>3, <1>4, <1>5 DEF IsWhole, PageArgs

\* pages_length: a page range is accepted exactly when its bytes are inside.
LEMMA AcceptsIsInside ==
    ASSUME NEW members, IsWhole(members.length), NEW first \in PageArgs,
           NEW count \in PageArgs
    PROVE  Accepts(members, first, count) <=>
               count > 0 /\ (first + count) * PageSize =< members.length
<1> DEFINE n == members.length \div PageSize
           k == first + count
<1>1. PageSize \in Nat \ {0} /\ first \in Nat /\ count \in Nat /\ members.length \in Nat
  BY ReservedRegionAssumption DEF PageArgs, IsWhole
<1>2. n \in Nat /\ k \in Nat /\ members.length = n * PageSize
  BY <1>1, DivBounds DEF IsWhole
<1>3. Accepts(members, first, count) <=> count > 0 /\ k =< n
  BY <1>1, <1>2 DEF Accepts
<1> HIDE DEF n, k
<1>4. k =< n <=> k * PageSize =< n * PageSize
  BY <1>1, <1>2
<1> QED  BY <1>2, <1>3, <1>4 DEF k

-----------------------------------------------------------------------------
(* The invariant. *)

\* Where the unlink has failed, the file still has its name.
OrNamed(held, handles) ==
    held = handles \/ (held = handles \cup {"name"} /\ "unlink" \in mishaps)

\* What a construction holds before each of its calls.  On POSIX a failed
\* mmap is seen after the descriptor is closed: nothing is mapped meanwhile.
HeldBefore(next, held) ==
    IF building.backing = "memory"
    THEN \/ next = 1 /\ held = {}
         \/ next = 2 /\ held = {"view"}
    ELSE IF build = "windows"
    THEN \/ next = 1 /\ held = {}
         \/ next = 2 /\ held = {"name"}
         \/ next \in {3, 4} /\ held = {"file"}
         \/ next = 5 /\ held = {"file", "section"}
         \/ next \in {6, 7} /\ held = {"file", "section", "view"}
    ELSE \/ next = 1 /\ held = {}
         \/ next = 2 /\ held = {"name", "file"}
         \/ next \in {3, 4} /\ OrNamed(held, {"file"})
         \/ next = 5 /\ (OrNamed(held, {"file"}) \/ OrNamed(held, {"file", "view"}))
         \/ next = 6 /\ (OrNamed(held, {}) \/ OrNamed(held, {"view"}))

BuildingInv ==
    ~RegionIdle => /\ building.region \notin DOMAIN region
                   /\ building.size =< SizeMax - PageSize
                   /\ HeldBefore(building.next, building.held)

\* A mapping is whole pages, and has the handles its destructor will close.
MappedInv ==
    \A a \in DOMAIN mapped :
        /\ IsWhole(mapped[a].length)
        /\ \/ OrNamed(mapped[a].handles, {"view"})
           \/ build = "windows" /\ mapped[a].handles = {"view", "section", "file"}

\* Only names are lost, and only by a mishap.
LeakInv == leaked \subseteq {"name"} /\ (leaked # {} => mishaps # {})

IInv == RegionTypeOK /\ RegionOneOwner /\ BuildingInv /\ MappedInv /\ LeakInv

LEMMA InitIInv == RegionInit => IInv
  BY DEF RegionInit, IInv, RegionTypeOK, RegionOneOwner, BuildingInv, MappedInv,
         LeakInv, RegionIdle

LEMMA NoMembersType == NoMembers \in RegionMembers /\ NoMembers.data = Null
  BY ReservedRegionAssumption DEF NoMembers, RegionMembers, PageArgs

LEMMA CallsAre ==
    /\ building.backing = "memory" => Len(Calls) = 1 /\ Calls[1] = "map"
    /\ building.backing # "memory" /\ build = "windows" =>
          /\ Len(Calls) = 6
          /\ Calls[1] = "name" /\ Calls[2] = "open" /\ Calls[3] = "extend"
          /\ Calls[4] = "section" /\ Calls[5] = "map" /\ Calls[6] = "protect"
    /\ building.backing # "memory" /\ build # "windows" =>
          /\ Len(Calls) = 5
          /\ Calls[1] = "create" /\ Calls[2] = "unlink" /\ Calls[3] = "extend"
          /\ Calls[4] = "map" /\ Calls[5] = "close"
  BY DEF Calls

-----------------------------------------------------------------------------
(* Construction keeps it. *)

LEMMA BeginKeeps ==
    ASSUME IInv, NEW r \in Regions, NEW size \in Sizes, NEW backing \in {"memory", "file"},
           BeginRegion(r, size, backing)
    PROVE  IInv'
<1> USE DEF IInv
<1>1. size \in PageArgs /\ size =< SizeMax - PageSize
  BY ReservedRegionAssumption DEF BeginRegion, PageArgs
<1>2. CASE WholePages(size) = 0
  <2>1. region' = With(region, r, NoMembers) /\ r \notin DOMAIN region
        /\ UNCHANGED <<build, mapped, building, leaked, mishaps>> /\ RegionIdle
    BY <1>2 DEF BeginRegion
  <2>2. DOMAIN region' = DOMAIN region \cup {r} /\ region'[r] = NoMembers
        /\ \A s \in DOMAIN region : region'[s] = region[s]
    BY <2>1 DEF With
  <2>3. RegionTypeOK'
    BY <2>1, <2>2, NoMembersType DEF RegionTypeOK
  <2>4. RegionOneOwner'
    BY <2>1, <2>2, NoMembersType, ReservedRegionAssumption DEF RegionOneOwner, RegionTypeOK
  <2>5. BuildingInv' /\ MappedInv' /\ LeakInv'
    BY <2>1 DEF BuildingInv, MappedInv, OrNamed, LeakInv, RegionIdle
  <2> QED  BY <2>1, <2>3, <2>4, <2>5
<1>3. CASE WholePages(size) # 0
  <2>1. building' = [region |-> r, size |-> size, backing |-> backing, next |-> 1, held |-> {}]
        /\ r \notin DOMAIN region
        /\ UNCHANGED <<build, region, mapped, leaked, mishaps>>
    BY <1>3 DEF BeginRegion
  <2>2. RegionTypeOK'
    BY <2>1 DEF RegionTypeOK
  <2>3. RegionOneOwner' /\ MappedInv' /\ LeakInv'
    BY <2>1 DEF RegionOneOwner, MappedInv, OrNamed, LeakInv
  <2>4. BuildingInv'
    BY <1>1, <2>1 DEF BuildingInv, HeldBefore
  <2> QED  BY <2>1, <2>2, <2>3, <2>4
<1> QED  BY <1>2, <1>3

\* The calls, one by one: what is about to be made, and what is held.
Before(n, call, held) == building.next = n /\ Call = call /\ building.held = held
BeforeOrNamed(n, call, held) ==
    building.next = n /\ Call = call /\ OrNamed(building.held, held)

LEMMA EachCall ==
    ASSUME IInv, ~RegionIdle, building.next =< Len(Calls)
    PROVE  /\ building.backing = "memory" => Before(1, "map", {})
           /\ building.backing # "memory" /\ build = "windows" =>
                 \/ Before(1, "name", {})
                 \/ Before(2, "open", {"name"})
                 \/ Before(3, "extend", {"file"})
                 \/ Before(4, "section", {"file"})
                 \/ Before(5, "map", {"file", "section"})
                 \/ Before(6, "protect", {"file", "section", "view"})
           /\ building.backing # "memory" /\ build # "windows" =>
                 \/ Before(1, "create", {})
                 \/ Before(2, "unlink", {"name", "file"})
                 \/ BeforeOrNamed(3, "extend", {"file"})
                 \/ BeforeOrNamed(4, "map", {"file"})
                 \/ BeforeOrNamed(5, "close", {"file"})
                 \/ BeforeOrNamed(5, "close", {"file", "view"})
<1> HIDE DEF IInv
<1>1. HeldBefore(building.next, building.held)
  BY DEF IInv, BuildingInv
<1>2. CASE building.backing = "memory"
  <2>1. building.next =< 1 /\ Calls[1] = "map"
    BY <1>2, CallsAre
  <2> QED  BY <1>1, <1>2, <2>1 DEF HeldBefore, Before, Call
<1>3. CASE building.backing # "memory" /\ build = "windows"
  <2>1. building.next =< 6
    BY <1>3, CallsAre
  <2> QED  BY <1>1, <1>3, <2>1, CallsAre DEF HeldBefore, Before, Call
<1>4. CASE building.backing # "memory" /\ build # "windows"
  <2>1. building.next =< 5
    BY <1>4, CallsAre
  <2> QED  BY <1>1, <1>4, <2>1, CallsAre DEF HeldBefore, Before, BeforeOrNamed, Call
<1> QED  BY <1>2, <1>3, <1>4

\* What is held after a call that succeeds.
LEMMA CallAdvances ==
    ASSUME IInv, CallSucceeds
    PROVE  /\ building.next + 1 \in 1 .. 7
           /\ HeldBefore(building.next + 1, (building.held \cup Gains(Call)) \ Loses(Call))
<1> DEFINE held == (building.held \cup Gains(Call)) \ Loses(Call)
<1>0. ~RegionIdle /\ building.next =< Len(Calls)
  BY DEF CallSucceeds
<1>1. CASE building.backing = "memory"
  <2>1. building.next + 1 = 2 /\ held = {"view"}
    BY <1>0, <1>1, EachCall DEF Before, Gains, Loses
  <2> QED  BY <1>1, <2>1 DEF HeldBefore
<1>2. CASE building.backing # "memory" /\ build = "windows"
  <2>1. \/ building.next + 1 = 2 /\ held = {"name"}
        \/ building.next + 1 \in {3, 4} /\ held = {"file"}
        \/ building.next + 1 = 5 /\ held = {"file", "section"}
        \/ building.next + 1 \in {6, 7} /\ held = {"file", "section", "view"}
    BY <1>0, <1>2, EachCall DEF Before, Gains, Loses
  <2> QED  BY <1>2, <2>1 DEF HeldBefore
<1>3. CASE building.backing # "memory" /\ build # "windows"
  <2>1. \/ building.next + 1 = 2 /\ held = {"name", "file"}
        \/ building.next + 1 \in {3, 4} /\ OrNamed(held, {"file"})
        \/ building.next + 1 = 5 /\ OrNamed(held, {"file", "view"})
        \/ building.next + 1 = 6 /\ (OrNamed(held, {}) \/ OrNamed(held, {"view"}))
    BY <1>0, <1>3, EachCall DEF Before, BeforeOrNamed, OrNamed, Gains, Loses
  <2> QED  BY <1>3, <2>1 DEF HeldBefore
<1> QED  BY <1>1, <1>2, <1>3

LEMMA SucceedsKeeps == ASSUME IInv, CallSucceeds PROVE IInv'
<1> USE DEF IInv
<1> DEFINE held == (building.held \cup Gains(Call)) \ Loses(Call)
<1>1. /\ building' = [building EXCEPT !.next = building.next + 1, !.held = held]
      /\ UNCHANGED <<build, region, mapped, leaked, mishaps>> /\ ~RegionIdle
  BY DEF CallSucceeds
<1>2. building.next + 1 \in 1 .. 7 /\ HeldBefore(building.next + 1, held)
  BY CallAdvances
<1>3. held \in SUBSET Resource
  BY <1>1 DEF RegionTypeOK, RegionIdle, Gains, Resource
<1> HIDE DEF held
<1>4. building \in [region : Regions, size : Sizes, backing : {"memory", "file"},
                   next : 1 .. 7, held : SUBSET Resource]
  BY <1>1 DEF RegionTypeOK, RegionIdle
<1>5. /\ building' \in [region : Regions, size : Sizes, backing : {"memory", "file"},
                       next : 1 .. 7, held : SUBSET Resource]
      /\ building'.region = building.region /\ building'.size = building.size
      /\ building'.backing = building.backing
      /\ building'.next = building.next + 1 /\ building'.held = held
  BY <1>1, <1>2, <1>3, <1>4
<1>6. RegionTypeOK'
  BY <1>1, <1>5 DEF RegionTypeOK
<1>7. RegionOneOwner' /\ MappedInv' /\ LeakInv'
  BY <1>1 DEF RegionOneOwner, MappedInv, OrNamed, LeakInv
<1>8. BuildingInv'
  BY <1>1, <1>2, <1>5 DEF BuildingInv, HeldBefore, OrNamed
<1> QED  BY <1>1, <1>6, <1>7, <1>8

\* The handler of a failed call releases everything held, but for the name of
\* a file that unlink has left.
LEMMA FailureCleansUp ==
    ASSUME IInv, CallFails, ~LateCheck
    PROVE  \/ building.held \subseteq CleanedUp(Call)
           \/ building.held \subseteq CleanedUp(Call) \cup {"name"} /\ "unlink" \in mishaps
<1>0. ~RegionIdle /\ building.next =< Len(Calls) /\ Call \notin {"unlink", "close"}
      /\ build \in {"posix", "windows"} /\ building.backing \in {"memory", "file"}
  BY ReservedRegionAssumption DEF IInv, RegionTypeOK, CallFails, RegionIdle
<1>1. /\ "name" \in CleanedUp("open")
      /\ "file" \in CleanedUp("extend")
      /\ \A c \in {"section", "map", "protect"} : CleanedUp(c) = Resource
  BY DEF CleanedUp
<1>2. CASE building.backing = "memory"
  BY <1>0, <1>2, EachCall DEF Before
<1>3. CASE building.backing # "memory" /\ build = "windows"
  BY <1>0, <1>1, <1>3, EachCall DEF Before, Resource
<1>4. CASE building.backing # "memory" /\ build # "windows"
  <2>1. build = "posix" /\ building.backing = "file" /\ Call # "map"
    BY <1>0, <1>4 DEF LateCheck
  <2>2. \/ building.held = {}
        \/ Call = "extend" /\ OrNamed(building.held, {"file"})
    BY <1>0, <1>4, <2>1, EachCall DEF Before, BeforeOrNamed
  <2> QED  BY <1>1, <2>2 DEF OrNamed
<1> QED  BY <1>2, <1>3, <1>4

\* A construction goes on with what it held, the next call being the n-th.
LEMMA GoesOn ==
    ASSUME IInv, ~RegionIdle, NEW n \in 1 .. 7, building' = [building EXCEPT !.next = n],
           UNCHANGED <<build, region, mapped, leaked>>, mishaps \subseteq mishaps',
           mishaps' \subseteq {"unlink", "crash"}, HeldBefore(n, building.held)'
    PROVE  IInv'
<1> USE DEF IInv
<1>1. building \in [region : Regions, size : Sizes, backing : {"memory", "file"},
                   next : 1 .. 7, held : SUBSET Resource]
  BY DEF RegionTypeOK, RegionIdle
<1>2. /\ building' \in [region : Regions, size : Sizes, backing : {"memory", "file"},
                       next : 1 .. 7, held : SUBSET Resource]
      /\ building'.region = building.region /\ building'.size = building.size
      /\ building'.next = n /\ building'.held = building.held
  BY <1>1
<1>3. RegionTypeOK'
  BY <1>2 DEF RegionTypeOK
<1>4. RegionOneOwner' /\ MappedInv' /\ LeakInv'
  BY DEF RegionOneOwner, MappedInv, OrNamed, LeakInv
<1>5. BuildingInv'
  BY <1>2 DEF BuildingInv
<1> QED  BY <1>3, <1>4, <1>5

\* A construction ends without a region: what it held but for a name is released.
LEMMA GivesUp ==
    ASSUME IInv, building' = Null, UNCHANGED <<build, region, mapped>>,
           leaked' \subseteq leaked \cup {"name"}, leaked' # leaked => mishaps' # {},
           mishaps \subseteq mishaps', mishaps' \subseteq {"unlink", "crash"}
    PROVE  IInv'
<1> USE DEF IInv
<1>1. LeakInv'
  BY DEF LeakInv
<1>2. RegionTypeOK' /\ BuildingInv'
  BY <1>1 DEF RegionTypeOK, BuildingInv, RegionIdle, LeakInv, Resource
<1>3. RegionOneOwner' /\ MappedInv'
  BY DEF RegionOneOwner, MappedInv, OrNamed
<1> QED  BY <1>1, <1>2, <1>3

LEMMA FailsKeeps == ASSUME IInv, CallFails PROVE IInv'
<1>1. /\ UNCHANGED <<build, region, mapped, mishaps>> /\ ~RegionIdle
      /\ building.next =< Len(Calls) /\ mishaps' \subseteq {"unlink", "crash"}
  BY DEF CallFails, IInv, RegionTypeOK
<1>2. CASE LateCheck
  <2>1. building' = [building EXCEPT !.next = building.next + 1] /\ leaked' = leaked
    BY <1>2 DEF CallFails
  <2>2. building.next = 4 /\ OrNamed(building.held, {"file"})
        /\ building.backing # "memory" /\ build # "windows"
    <3>1. building.backing # "memory" /\ build # "windows" /\ Call = "map"
      BY <1>2 DEF LateCheck
    <3> QED  BY <1>1, <3>1, EachCall DEF Before, BeforeOrNamed
  <2>3. building' = [building EXCEPT !.next = 5]
    BY <2>1, <2>2
  <2>4. building'.backing = building.backing /\ building'.held = building.held
    BY <1>1, <2>3 DEF IInv, RegionTypeOK, RegionIdle
  <2>5. HeldBefore(5, building.held)'
    BY <1>1, <2>2, <2>4 DEF HeldBefore, OrNamed
  <2>6. UNCHANGED <<build, region, mapped, leaked>> /\ mishaps \subseteq mishaps' /\ 5 \in 1 .. 7
    BY <1>1, <2>1
  <2> QED  BY <1>1, <2>3, <2>5, <2>6, GoesOn
<1>3. CASE ~LateCheck
  <2>1. building' = Null /\ leaked' = leaked \cup (building.held \ CleanedUp(Call))
    BY <1>3 DEF CallFails
  <2>2. leaked' \subseteq leaked \cup {"name"} /\ (leaked' # leaked => mishaps' # {})
    BY <1>1, <1>3, <2>1, FailureCleansUp
  <2> QED  BY <1>1, <2>1, <2>2, GivesUp
<1> QED  BY <1>2, <1>3

LEMMA RemovalFailsKeeps == ASSUME IInv, RemovalFails PROVE IInv'
<1>1. /\ UNCHANGED <<build, region, mapped>> /\ ~RegionIdle /\ building.next =< Len(Calls)
      /\ mishaps' = mishaps \cup {"unlink"} /\ mishaps' \subseteq {"unlink", "crash"}
      /\ Call = "unlink" \/ Call = "open"
  BY DEF RemovalFails, IInv, RegionTypeOK
<1>2. CASE Call = "unlink"
  <2>1. building' = [building EXCEPT !.next = building.next + 1] /\ leaked' = leaked
    BY <1>2 DEF RemovalFails
  <2>2. building.next = 2 /\ building.held = {"name", "file"}
        /\ building.backing # "memory" /\ build # "windows"
    BY <1>1, <1>2, EachCall DEF Before, BeforeOrNamed
  <2>3. building' = [building EXCEPT !.next = 3]
    BY <2>1, <2>2
  <2>4. building'.backing = building.backing /\ building'.held = building.held
    BY <1>1, <2>3 DEF IInv, RegionTypeOK, RegionIdle
  <2>5. HeldBefore(3, building.held)'
    <3>1. {"name", "file"} = {"file"} \cup {"name"}
      OBVIOUS
    <3> QED  BY <1>1, <2>2, <2>4, <3>1 DEF HeldBefore, OrNamed
  <2> QED  BY <1>1, <2>1, <2>3, <2>5, GoesOn
<1>3. CASE Call = "open"
  <2>1. building' = Null /\ leaked' = leaked \cup building.held
    BY <1>3 DEF RemovalFails
  <2>2. building.held = {"name"}
    BY <1>1, <1>3, EachCall DEF Before, BeforeOrNamed
  <2> QED  BY <1>1, <2>1, <2>2, GivesUp
<1> QED  BY <1>1, <1>2, <1>3

LEMMA CrashKeeps == ASSUME IInv, Crash PROVE IInv'
<1> USE DEF IInv
<1> DEFINE held == (UNION {mapped[a].handles : a \in DOMAIN mapped})
                       \cup (IF RegionIdle THEN {} ELSE building.held)
<1>1. /\ region' = <<>> /\ mapped' = <<>> /\ building' = Null /\ build' = build
      /\ leaked' = leaked \cup (held \cap {"name"})
      /\ mishaps' = mishaps \cup {m \in {"crash"} : RemovalIsNext}
  BY DEF Crash
<1>2. ASSUME "name" \in held PROVE mishaps' # {}
  <2>1. CASE \E a \in DOMAIN mapped : "name" \in mapped[a].handles
    BY <1>1, <2>1 DEF MappedInv, OrNamed
  <2>2. CASE ~RegionIdle /\ "name" \in building.held
    <3>1. HeldBefore(building.next, building.held)
      BY <2>2 DEF BuildingInv
    <3>2. \/ "unlink" \in mishaps
          \/ building.backing # "memory" /\ building.next = 2
      BY <2>2, <3>1 DEF HeldBefore, OrNamed
    <3>3. CASE building.backing # "memory" /\ building.next = 2
      <4>1. building.next =< Len(Calls) /\ Call \in {"unlink", "open"}
        BY <3>3, CallsAre DEF Call
      <4> QED  BY <1>1, <2>2, <4>1 DEF RemovalIsNext
    <3> QED  BY <1>1, <3>2, <3>3
  <2> QED  BY <1>2, <2>1, <2>2
<1> HIDE DEF held
<1>3. LeakInv'
  <2>1. leaked' \subseteq {"name"} /\ mishaps \subseteq mishaps'
    BY <1>1 DEF LeakInv
  <2>2. CASE "name" \in held
    BY <1>2, <2>1, <2>2 DEF LeakInv
  <2>3. CASE "name" \notin held
    <3>1. leaked' = leaked
      BY <1>1, <2>3
    <3> QED  BY <2>1, <3>1 DEF LeakInv
  <2> QED  BY <2>2, <2>3
<1>4. RegionTypeOK'
  <2>1. mishaps' \subseteq {"unlink", "crash"} /\ leaked' \subseteq Resource
    BY <1>1, <1>3 DEF RegionTypeOK, LeakInv, Resource
  <2>2. DOMAIN region' = {} /\ DOMAIN mapped' = {}
    BY <1>1
  <2> QED  BY <1>1, <2>1, <2>2 DEF RegionTypeOK
<1>5. RegionOneOwner' /\ MappedInv' /\ BuildingInv'
  BY <1>1 DEF RegionOneOwner, MappedInv, BuildingInv, RegionIdle
<1> QED  BY <1>3, <1>4, <1>5

LEMMA EndKeeps == ASSUME IInv, EndRegion PROVE IInv'
<1> USE DEF IInv
<1> DEFINE length == WholePages(building.size)
<1>1. /\ ~RegionIdle /\ building.next > Len(Calls) /\ building' = Null
      /\ build' = build /\ mishaps' = mishaps
      /\ building \in [region : Regions, size : Sizes, backing : {"memory", "file"},
                      next : 1 .. 7, held : SUBSET Resource]
      /\ build \in {"posix", "windows"}
  BY ReservedRegionAssumption DEF EndRegion, RegionTypeOK, RegionIdle
<1>2. building.size \in PageArgs /\ IsWhole(length)
      /\ building.size > length - PageSize /\ building.size =< length
  BY <1>1, WholePagesIsWhole, ReservedRegionAssumption DEF BuildingInv, PageArgs
<1>3. \/ OrNamed(building.held, {})
      \/ OrNamed(building.held, {"view"})
      \/ build = "windows" /\ building.held = {"file", "section", "view"}
  <2>1. HeldBefore(building.next, building.held)
    BY <1>1 DEF BuildingInv
  <2>2. CASE building.backing = "memory"
    BY <1>1, <2>1, <2>2, CallsAre DEF HeldBefore, OrNamed
  <2>3. CASE building.backing # "memory" /\ build = "windows"
    <3>1. building.next > 6
      BY <1>1, <2>3, CallsAre
    <3> QED  BY <2>1, <2>3, <3>1 DEF HeldBefore
  <2>4. CASE building.backing # "memory" /\ build # "windows"
    <3>1. building.next > 5
      BY <1>1, <2>4, CallsAre
    <3> QED  BY <2>1, <2>4, <3>1 DEF HeldBefore
  <2> QED  BY <2>2, <2>3, <2>4
<1>4. BuildingInv'
  BY <1>1 DEF BuildingInv, RegionIdle
<1> HIDE DEF length
<1>5. CASE "view" \in building.held
  <2>1. PICK a \in FreeAddress :
          /\ region' = With(region, building.region,
                [data |-> a, section |-> "section" \in building.held,
                 size |-> building.size, length |-> length])
          /\ mapped' = With(mapped, a,
                [length |-> length, handles |-> building.held,
                 pages |-> [p \in 0 .. (length \div PageSize - 1) |-> FirstAccess]])
          /\ leaked' = leaked
    BY <1>5 DEF EndRegion, length
  <2> DEFINE m == [data |-> a, section |-> "section" \in building.held,
                   size |-> building.size, length |-> length]
             n == [length |-> length, handles |-> building.held,
                   pages |-> [p \in 0 .. (length \div PageSize - 1) |-> FirstAccess]]
  <2>2. a \in Addresses /\ a \notin DOMAIN mapped /\ a # Null
    BY ReservedRegionAssumption DEF FreeAddress
  <2>3. building.region \in Regions /\ building.region \notin DOMAIN region
    BY <1>1 DEF BuildingInv
  <2>4. m \in RegionMembers
    BY <1>2, <2>2 DEF RegionMembers, IsWhole
  <2>5. n \in [length : PageArgs, handles : SUBSET Resource,
              pages : [0 .. (n.length \div PageSize - 1) -> Access]]
    BY <1>1, <1>2 DEF IsWhole, FirstAccess, Access
  <2>6. /\ n.length = length
        /\ m.section <=> "section" \in n.handles
        /\ \/ OrNamed(n.handles, {"view"})
           \/ build = "windows" /\ n.handles = {"view", "section", "file"}
    <3>1. n.handles = building.held /\ n.length = length
          /\ m.section = ("section" \in building.held)
      OBVIOUS
    <3>2. \/ OrNamed(building.held, {"view"})
          \/ build = "windows" /\ building.held = {"view", "section", "file"}
      BY <1>3, <1>5 DEF OrNamed
    <3> HIDE DEF m, n
    <3> QED  BY <3>1, <3>2
  <2>7. m.data = a /\ m.length = n.length /\ m.size > m.length - PageSize /\ m.size =< m.length
    BY <1>2
  <2> HIDE DEF m, n
  <2>8. /\ DOMAIN region' = DOMAIN region \cup {building.region}
        /\ region'[building.region] = m
        /\ \A s \in DOMAIN region : region'[s] = region[s]
        /\ DOMAIN mapped' = DOMAIN mapped \cup {a}
        /\ mapped'[a] = n
        /\ \A b \in DOMAIN mapped : mapped'[b] = mapped[b]
    BY <2>1, <2>2, <2>3 DEF With, m, n
  <2>9. RegionTypeOK'
    BY <1>1, <2>1, <2>2, <2>3, <2>4, <2>5, <2>8 DEF RegionTypeOK
  <2>10. RegionOneOwner'
    BY <2>2, <2>3, <2>6, <2>7, <2>8 DEF RegionOneOwner
  <2>11. MappedInv'
    BY <1>1, <1>2, <2>6, <2>8 DEF MappedInv, OrNamed
  <2>12. LeakInv'
    BY <1>1, <2>1 DEF LeakInv
  <2> QED  BY <1>4, <2>9, <2>10, <2>11, <2>12
<1>6. CASE "view" \notin building.held
  <2>1. leaked' = leaked \cup building.held /\ UNCHANGED <<region, mapped>>
    BY <1>6 DEF EndRegion
  <2>2. LeakInv'
    BY <1>1, <1>3, <1>6, <2>1 DEF OrNamed, LeakInv
  <2>3. RegionTypeOK' /\ RegionOneOwner' /\ MappedInv'
    BY <1>1, <2>1, <2>2 DEF RegionTypeOK, RegionOneOwner, MappedInv, OrNamed, LeakInv, Resource
  <2> QED  BY <1>4, <2>2, <2>3
<1> QED  BY <1>5, <1>6

-----------------------------------------------------------------------------
(* So do moves, destruction and protection. *)

\* Both moves exchange what two regions have, one of which may be new and empty.
LEMMA ExchangeKeeps ==
    ASSUME IInv, RegionIdle, NEW r \in Regions, NEW from \in DOMAIN region,
           NEW there \in RegionMembers,
           IF r \in DOMAIN region THEN there = region[r] ELSE there = NoMembers,
           DOMAIN region' = DOMAIN region \cup {r},
           r # from => region'[r] = region[from] /\ region'[from] = there,
           r = from => region'[r] = region[r],
           \A s \in DOMAIN region \ {r, from} : region'[s] = region[s],
           UNCHANGED <<build, mapped, building, leaked, mishaps>>
    PROVE  IInv'
<1> USE DEF IInv
<1>1. RegionTypeOK'
  BY DEF RegionTypeOK
<1>2. MappedInv' /\ BuildingInv' /\ LeakInv'
  BY DEF MappedInv, OrNamed, BuildingInv, LeakInv, RegionIdle
<1>3. CASE r = from
  BY <1>1, <1>2, <1>3 DEF RegionOneOwner
<1>4. CASE r # from
  <2>1. \A s \in DOMAIN region' :
           region'[s] = NoMembers \/ \E q \in DOMAIN region : region'[s] = region[q]
    BY <1>4
  <2>2. \A s \in DOMAIN region' :
           LET m == region'[s]
           IN  IF m.data = Null THEN m = NoMembers
               ELSE /\ m.data \in DOMAIN mapped
                    /\ m.length = mapped[m.data].length
                    /\ m.size > m.length - PageSize /\ m.size =< m.length
                    /\ m.section <=> "section" \in mapped[m.data].handles
    BY <2>1, NoMembersType DEF RegionOneOwner
  <2>3. ASSUME NEW a \in DOMAIN mapped
        PROVE  \E q \in DOMAIN region' : \A s \in DOMAIN region' : region'[s].data = a <=> s = q
    <3>1. a # Null /\ NoMembers.data # a
      BY NoMembersType, ReservedRegionAssumption DEF RegionTypeOK
    <3>2. PICK q \in DOMAIN region : \A s \in DOMAIN region : region[s].data = a <=> s = q
      BY DEF RegionOneOwner
    <3>3. CASE q = from
      BY <1>4, <3>1, <3>2, <3>3
    <3>4. CASE q = r
      BY <1>4, <3>1, <3>2, <3>4
    <3>5. CASE q \notin {r, from}
      BY <1>4, <3>1, <3>2, <3>5
    <3> QED  BY <3>3, <3>4, <3>5
  <2>4. RegionOneOwner'
    BY <2>2, <2>3 DEF RegionOneOwner
  <2> QED  BY <1>1, <1>2, <2>4
<1> QED  BY <1>3, <1>4

LEMMA MoveConstructKeeps ==
    ASSUME IInv, NEW r \in Regions, NEW from \in Regions, MoveConstructRegion(r, from)
    PROVE  IInv'
  BY ExchangeKeeps, NoMembersType DEF MoveConstructRegion, With

LEMMA MoveAssignKeeps ==
    ASSUME IInv, NEW r \in Regions, NEW from \in Regions, MoveAssignRegion(r, from)
    PROVE  IInv'
<1>1. region[r] \in RegionMembers
  BY DEF IInv, RegionTypeOK, MoveAssignRegion
<1> QED  BY <1>1, ExchangeKeeps DEF MoveAssignRegion

LEMMA DestroyKeeps ==
    ASSUME IInv, NEW r \in Regions, DestroyRegion(r)
    PROVE  IInv'
<1> USE DEF IInv
<1>1. /\ RegionIdle /\ r \in DOMAIN region /\ UNCHANGED <<build, building, mishaps>>
      /\ DOMAIN region' = DOMAIN region \ {r}
      /\ \A s \in DOMAIN region \ {r} : region'[s] = region[s]
  BY DEF DestroyRegion, Without, Restrict
<1>2. BuildingInv'
  BY <1>1 DEF BuildingInv, RegionIdle
<1>3. CASE region[r].data = Null
  <2>1. UNCHANGED <<mapped, leaked>>
    BY <1>3 DEF DestroyRegion
  <2>2. RegionTypeOK' /\ MappedInv' /\ LeakInv'
    BY <1>1, <2>1 DEF RegionTypeOK, MappedInv, OrNamed, LeakInv
  <2>3. \A a \in DOMAIN mapped : a # Null
    BY ReservedRegionAssumption DEF RegionTypeOK
  <2>4. RegionOneOwner'
    BY <1>1, <1>3, <2>1, <2>3 DEF RegionOneOwner
  <2> QED  BY <1>2, <2>1, <2>2, <2>4
<1>4. CASE region[r].data # Null
  <2> DEFINE d == region[r].data
  <2>1. /\ mapped' = Without(mapped, d)
        /\ leaked' = leaked \cup (mapped[d].handles \ ReleasedHandles(region[r]))
    BY <1>4 DEF DestroyRegion
  <2>2. d \in DOMAIN mapped /\ (region[r].section <=> "section" \in mapped[d].handles)
    BY <1>1, <1>4 DEF RegionOneOwner
  <2>3. \/ mapped[d].handles \ ReleasedHandles(region[r]) = {}
        \/ mapped[d].handles \ ReleasedHandles(region[r]) = {"name"} /\ "unlink" \in mishaps
    BY <2>2 DEF MappedInv, OrNamed, ReleasedHandles
  <2>4. DOMAIN mapped' = DOMAIN mapped \ {d}
        /\ \A a \in DOMAIN mapped \ {d} : mapped'[a] = mapped[a]
    BY <2>1 DEF Without, Restrict
  <2> HIDE DEF d
  <2>5. LeakInv'
    BY <1>1, <2>1, <2>3 DEF LeakInv
  <2>6. RegionTypeOK'
    BY <1>1, <2>4, <2>5 DEF RegionTypeOK, LeakInv, Resource
  <2>7. MappedInv'
    BY <1>1, <2>4 DEF MappedInv, OrNamed
  <2>8. \A s \in DOMAIN region \ {r} : region[s].data # d
    BY <1>1, <2>2 DEF RegionOneOwner, d
  <2>9. RegionOneOwner'
    <3>1. ASSUME NEW a \in DOMAIN mapped'
          PROVE  \E q \in DOMAIN region' : \A s \in DOMAIN region' : region'[s].data = a <=> s = q
      <4>1. PICK q \in DOMAIN region : \A s \in DOMAIN region : region[s].data = a <=> s = q
        BY <2>4 DEF RegionOneOwner
      <4>2. q # r
        BY <2>4, <4>1 DEF d
      <4> QED  BY <1>1, <4>1, <4>2
    <3>2. \A s \in DOMAIN region' : region'[s].data # Null => region'[s].data \in DOMAIN mapped'
      BY <1>1, <2>4, <2>8 DEF RegionOneOwner
    <3> QED  BY <1>1, <2>4, <3>1, <3>2 DEF RegionOneOwner
  <2> QED  BY <1>2, <2>5, <2>6, <2>7, <2>9
<1> QED  BY <1>3, <1>4

LEMMA ProtectKeeps ==
    ASSUME IInv, NEW r \in Regions, NEW first \in PageArgs, NEW count \in PageArgs,
           NEW access \in {"none", "writable", "sealed"},
           ProtectPages(r, first, count, access)
    PROVE  IInv'
<1> USE DEF IInv
<1> DEFINE a == region[r].data
<1>1. PICK done \in 1 .. count :
        mapped' = [mapped EXCEPT ![a].pages =
            [p \in DOMAIN mapped[a].pages |->
                IF p \in first .. (first + done - 1) THEN access ELSE mapped[a].pages[p]]]
  BY DEF ProtectPages
<1>2. r \in DOMAIN region /\ RegionIdle
      /\ UNCHANGED <<build, region, building, leaked, mishaps>>
      /\ Accepts(region[r], first, count)
  BY DEF ProtectPages
<1>3. a # Null
  <2>1. ~Accepts(NoMembers, first, count)
    <3>1. first \in Nat /\ count \in Nat /\ 0 \div PageSize = 0
      BY ReservedRegionAssumption DEF PageArgs
    <3> QED  BY <3>1 DEF Accepts, NoMembers
  <2> QED  BY <1>2, <2>1 DEF RegionOneOwner
<1>4. a \in DOMAIN mapped
  BY <1>2, <1>3 DEF RegionOneOwner
<1>5. /\ mapped[a] \in [length : PageArgs, handles : SUBSET Resource,
                       pages : [0 .. (mapped[a].length \div PageSize - 1) -> Access]]
  BY <1>4 DEF RegionTypeOK
<1> DEFINE n == [mapped[a] EXCEPT !.pages =
                    [p \in DOMAIN mapped[a].pages |->
                        IF p \in first .. (first + done - 1) THEN access ELSE mapped[a].pages[p]]]
<1>6. DOMAIN mapped' = DOMAIN mapped /\ mapped'[a] = n
      /\ \A b \in DOMAIN mapped \ {a} : mapped'[b] = mapped[b]
  BY <1>1, <1>4
<1>7. n.length = mapped[a].length /\ n.handles = mapped[a].handles
  BY <1>5
<1>8. n \in [length : PageArgs, handles : SUBSET Resource,
            pages : [0 .. (n.length \div PageSize - 1) -> Access]]
  <2>1. access \in Access
    BY DEF Access
  <2> QED  BY <1>5, <1>7, <2>1
<1> HIDE DEF a, n
<1>9. RegionTypeOK'
  BY <1>2, <1>6, <1>8 DEF RegionTypeOK
<1>10. MappedInv' /\ BuildingInv' /\ LeakInv'
  BY <1>2, <1>6, <1>7 DEF MappedInv, OrNamed, BuildingInv, LeakInv, RegionIdle
<1>11. \A b \in DOMAIN mapped : mapped'[b].length = mapped[b].length
                                 /\ mapped'[b].handles = mapped[b].handles
  BY <1>6, <1>7
<1>12. RegionOneOwner'
  BY <1>2, <1>6, <1>11 DEF RegionOneOwner
<1> QED  BY <1>2, <1>9, <1>10, <1>12

LEMMA NextIInv == IInv /\ [RegionNext]_regionVars => IInv'
<1> SUFFICES ASSUME IInv, [RegionNext]_regionVars PROVE IInv'
  OBVIOUS
<1>1. CASE UNCHANGED regionVars
  BY <1>1 DEF regionVars, IInv, RegionTypeOK, RegionOneOwner, BuildingInv, MappedInv,
              LeakInv, RegionIdle, HeldBefore, OrNamed
<1> QED
  BY <1>1, BeginKeeps, SucceedsKeeps, FailsKeeps, RemovalFailsKeeps, EndKeeps, CrashKeeps,
     MoveConstructKeeps, MoveAssignKeeps, DestroyKeeps, ProtectKeeps DEF RegionNext

-----------------------------------------------------------------------------
(* The properties. *)

LEMMA IInvGivesRegionInv == IInv => RegionInv
<1> SUFFICES ASSUME IInv PROVE PageRangesInside
  BY DEF IInv, RegionInv
<1> SUFFICES ASSUME NEW r \in DOMAIN region, NEW first \in PageArgs, NEW count \in PageArgs
             PROVE  Accepts(region[r], first, count) <=>
                       count > 0 /\ (first + count) * PageSize =< region[r].length
  BY DEF PageRangesInside
<1>1. CASE region[r].data = Null
  <2>1. region[r].length = 0
    BY <1>1 DEF IInv, RegionOneOwner, NoMembers
  <2>2. 0 \in PageArgs /\ 0 = (0 \div PageSize) * PageSize
    BY ReservedRegionAssumption DEF PageArgs
  <2>3. IsWhole(region[r].length)
    BY <2>1, <2>2 DEF IsWhole
  <2> QED  BY <2>3, AcceptsIsInside
<1>2. CASE region[r].data # Null
  <2>1. IsWhole(region[r].length)
    BY <1>2 DEF IInv, RegionOneOwner, MappedInv
  <2> QED  BY <2>1, AcceptsIsInside
<1> QED  BY <1>1, <1>2

\* Whatever fails and however regions are moved, each mapping is named by one
\* region with its length and kind, and no page range reaches out of it.
THEOREM RegionsHaveOneOwner == RegionSpec => []RegionInv
  BY InitIInv, NextIInv, IInvGivesRegionInv, PTL DEF RegionSpec

\* Whatever call fails and wherever the process dies, nothing stays open, and a
\* file only where its removal failed or the process died right before it.
THEOREM NothingIsLeftBehind == RegionSpec => []NothingLeftBehind
<1>1. IInv => NothingLeftBehind
  <2> SUFFICES ASSUME IInv PROVE NothingLeftBehind
    OBVIOUS
  <2>1. ASSUME NEW a \in DOMAIN mapped
        PROVE  /\ mapped[a].handles \ {"name"} = {"view"}
                     \/ (build = "windows" /\ mapped[a].handles = {"view", "section", "file"})
               /\ "name" \in mapped[a].handles => "unlink" \in mishaps
    BY DEF IInv, MappedInv, OrNamed
  <2>2. ASSUME ~RegionIdle, "name" \in building.held, "unlink" \notin mishaps
        PROVE  RemovalIsNext
    <3>1. building.next = 2 /\ building.backing # "memory"
      BY <2>2 DEF IInv, BuildingInv, HeldBefore, OrNamed
    <3> QED  BY <2>2, <3>1, CallsAre DEF RemovalIsNext, Call
  <2> QED  BY <2>1, <2>2 DEF IInv, LeakInv, NothingLeftBehind
<1> QED  BY <1>1, InitIInv, NextIInv, PTL DEF RegionSpec

\* What MembersTravelTogether says of one step.
BytesStay ==
    \A r \in DOMAIN region : region[r].data # Null =>
        \/ \E to \in DOMAIN region' : region'[to] = region[r]
        \/ r \notin DOMAIN region' /\ region[r].data \notin DOMAIN mapped'

LEMMA NextBytesStay == IInv /\ [RegionNext]_regionVars => [BytesStay]_regionVars
<1> SUFFICES ASSUME IInv, RegionNext, NEW r \in DOMAIN region, region[r].data # Null
             PROVE  \/ \E to \in DOMAIN region' : region'[to] = region[r]
                    \/ r \notin DOMAIN region' /\ region[r].data \notin DOMAIN mapped'
  BY DEF BytesStay
<1>1. ASSUME NEW s \in Regions, DestroyRegion(s)
      PROVE  \/ r \in DOMAIN region' /\ region'[r] = region[r]
             \/ r \notin DOMAIN region' /\ region[r].data \notin DOMAIN mapped'
  BY <1>1 DEF DestroyRegion, Without, Restrict
<1>2. ASSUME NEW s \in Regions, NEW size, NEW backing, BeginRegion(s, size, backing)
      PROVE  r \in DOMAIN region' /\ region'[r] = region[r]
  BY <1>2 DEF BeginRegion, With
<1>3. ASSUME NEW s \in Regions, NEW from \in Regions, MoveConstructRegion(s, from)
      PROVE  \E to \in DOMAIN region' : region'[to] = region[r]
  BY <1>3 DEF MoveConstructRegion, With
<1>4. ASSUME NEW s \in Regions, NEW from \in Regions, MoveAssignRegion(s, from)
      PROVE  \E to \in DOMAIN region' : region'[to] = region[r]
  BY <1>4 DEF MoveAssignRegion
<1>5. ASSUME EndRegion PROVE r \in DOMAIN region' /\ region'[r] = region[r]
  BY <1>5 DEF EndRegion, With, IInv, BuildingInv
<1>6. ASSUME CallSucceeds \/ CallFails \/ RemovalFails PROVE region' = region
  BY <1>6 DEF CallSucceeds, CallFails, RemovalFails
<1>7. ASSUME NEW s, NEW first, NEW count, NEW access, ProtectPages(s, first, count, access)
      PROVE  region' = region
  BY <1>7 DEF ProtectPages
<1>8. ASSUME Crash PROVE r \notin DOMAIN region' /\ region[r].data \notin DOMAIN mapped'
  BY <1>8 DEF Crash
<1> QED  BY <1>1, <1>2, <1>3, <1>4, <1>5, <1>6, <1>7, <1>8 DEF RegionNext

\* The bytes of a region keep their address, size and owner until that owner is
\* destroyed or the process dies, and then they are unmapped.
THEOREM BytesKeepTheirOwner == RegionSpec => MembersTravelTogether
<1>1. IInv /\ [RegionNext]_regionVars => [BytesStay]_regionVars  BY NextBytesStay
<1> QED  BY <1>1, InitIInv, NextIInv, PTL DEF RegionSpec, MembersTravelTogether, BytesStay

=============================================================================
