----------------------------- MODULE MappedFile -----------------------------
(***************************************************************************)
(* memory_mapped_file: objects that own a mapping of a file and the        *)
(* handles behind it, over construction, moves and destruction, with every *)
(* failure of the system calls.                                            *)
(*                                                                         *)
(* The POSIX build keeps a descriptor and a view; the Windows build a file *)
(* handle, a section and a view.  The system hands out handle numbers and  *)
(* reuses them, so a handle closed twice may close somebody else's.        *)
(* Definitions named X_Y are plausible errors in X, for the mutation runs. *)
(***************************************************************************)
EXTENDS Naturals, Sequences

CONSTANTS
    Objects,      \* places where a memory_mapped_file may be constructed
    Ids,          \* handle numbers; bound: how many can be open at once
    NoId,         \* -1, NULL, INVALID_HANDLE_VALUE or nullptr
    Windows       \* which of the two builds

ASSUME MappedFileAssumption ==
    /\ NoId \notin Ids
    /\ Windows \in BOOLEAN

VARIABLES
    made,         \* the objects constructed and not destroyed
    object,       \* the members of each
    open          \* the handles the system holds for the process

vars == <<made, object, open>>

\* One member per kind of handle; f_size is zero or not.
Kind    == IF Windows THEN {"file", "section", "view"} ELSE {"file", "view"}
Handle  == Kind \X Ids
Members == [handle : [Kind -> Ids \cup {NoId}], f_size : {"zero", "positive"}]

TypeOK ==
    /\ made \in SUBSET Objects
    /\ object \in [Objects -> Members]
    /\ open \in SUBSET Handle

\* The members' initial values, and what reset() gives them.
Empty == [handle |-> [k \in Kind |-> NoId], f_size |-> "zero"]

Init ==
    /\ made = {}
    /\ object = [o \in Objects |-> Empty]
    /\ open = {}

-----------------------------------------------------------------------------
\* What an object's members name.
Named(members) == {<<k, members.handle[k]>> : k \in {j \in Kind : members.handle[j] # NoId}}

Mapped(members) == members.handle["view"] # NoId

IsValid(members) == \A k \in Kind : members.handle[k] # NoId

\* release() closes everything when there is a view, else nothing; closing a
\* handle that is not open is an error the code does not look at.
Release(members) == IF Mapped(members) THEN Named(members) ELSE {}

-----------------------------------------------------------------------------
(* The constructor. *)

\* The path does not exist, or the file is empty: nothing is opened.
ConstructNothing(o) ==
    /\ o \notin made
    /\ made' = made \cup {o}
    /\ object' = [object EXCEPT ![o] = Empty]
    /\ UNCHANGED open

Fresh(k) == {h \in Ids : <<k, h>> \notin open}

\* How far the calls get: the handles opened, in this order, and a failure at
\* the next.  f_size is set before any of them.
Order == IF Windows THEN <<"file", "section", "view">> ELSE <<"file", "view">>

Opened(n) == {Order[i] : i \in 1 .. n}

\* What a failure leaves open: POSIX closes the descriptor when mmap fails,
\* Windows closes nothing.
KeptOnFailure(n) == IF Windows THEN Opened(n) ELSE {}

ConstructFile(o) ==
    /\ o \notin made
    /\ made' = made \cup {o}
    /\ \E n \in 0 .. Len(Order), handle \in [Kind -> Ids] :
         LET whole == n = Len(Order)
             kept  == IF whole THEN Kind ELSE KeptOnFailure(n)
         IN  /\ \A k \in Opened(n) : handle[k] \in Fresh(k)
             /\ object' = [object EXCEPT ![o] =
                    [handle |-> [k \in Kind |-> IF k \in kept THEN handle[k] ELSE NoId],
                     f_size |-> "positive"]]
             /\ open' = open \cup {<<k, handle[k]>> : k \in kept}

-----------------------------------------------------------------------------
(* Moves and destruction. *)

Adopt_Copy(o, from) == [object EXCEPT ![o] = object[from]]

\* adopt: take other's members, and reset it.
Adopt(o, from) == [object EXCEPT ![o] = object[from], ![from] = Empty]

MoveConstruct(o, from) ==
    /\ o \notin made /\ from \in made
    /\ made' = made \cup {o}
    /\ object' = Adopt(o, from)
    /\ UNCHANGED open

MoveAssign_NoSelfTest(o, from) ==
    /\ o \in made /\ from \in made
    /\ open' = open \ Release(object[o])
    /\ object' = [Adopt(o, from) EXCEPT ![o] = IF o = from THEN Empty ELSE @]
    /\ UNCHANGED made

\* Self-assignment does nothing.
MoveAssign(o, from) ==
    /\ o \in made /\ from \in made
    /\ IF o = from THEN UNCHANGED <<object, open>>
       ELSE /\ open' = open \ Release(object[o])
            /\ object' = Adopt(o, from)
    /\ UNCHANGED made

\* The members of a destroyed object are set to Empty, by reset().
Destroy(o) ==
    /\ o \in made
    /\ made' = made \ {o}
    /\ open' = open \ Release(object[o])
    /\ object' = [object EXCEPT ![o] = Empty]

Next ==
    \E o \in Objects :
        \/ ConstructNothing(o) \/ ConstructFile(o) \/ Destroy(o)
        \/ \E from \in Objects : MoveConstruct(o, from) \/ MoveAssign(o, from)

Spec == Init /\ [][Next]_vars

-----------------------------------------------------------------------------
(* Correctness *)

\* "A copy would unmap twice": whatever the moves, an open handle is named by
\* exactly one object and an object names only open handles.  So none leaks,
\* none is closed twice, and no reused number is closed for somebody else.
OneOwner ==
    /\ open = UNION {Named(object[o]) : o \in made}
    /\ \A o, p \in made : o # p => Named(object[o]) \cap Named(object[p]) = {}

\* is_valid() is all or nothing: an object that names a handle is valid, and
\* a valid one has a size.
ValidIsWhole ==
    \A o \in made :
        /\ Named(object[o]) # {} => IsValid(object[o])
        /\ IsValid(object[o]) => object[o].f_size = "positive"

\* What the process holds is what its objects say it holds.
FilesInv == TypeOK /\ OneOwner /\ ValidIsWhole

\* data() of a valid object stays mapped until the object that has it then is
\* destroyed or another is moved over it; a move takes it along, and moving
\* an object onto itself changes nothing.
ViewsSurviveMoves ==
    [][\A o \in made : Mapped(object[o]) =>
          \/ \E p \in made' : object'[p].handle["view"] = object[o].handle["view"]
                                /\ object'[p].f_size = object[o].f_size
          \/ Destroy(o)
          \/ \E from \in made \ {o} : MoveAssign(o, from)]_vars

=============================================================================
