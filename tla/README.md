# Verification of cpp_utils

TLA+ models of cpp_utils, the TLC configurations that check them on small
instances, and proofs of their main properties that the TLA+ proof system
checks for every value of the constants.

cpp_utils is a header-only C++20 library. The part where an error is hardest to
see by reading or testing is `io/remote_buffer.hpp`, a cache of a remote file
shared by threads and built on page protection; then the calls over a shared
thread pool, and the objects that own system resources or memory of their own.
Most of the rest is pure: byte layouts, serialization, containers, searches.
Those are compared with reference definitions.

Run from this directory:

    tlc -workers 2 -config MCRemoteBuffer.cfg MCRemoteBuffer
    tlapm RemoteBufferProofs.tla

`PROJECT.json` lists every run, the source lines each definition models, the
hazards, and for each property an error in the model's code that breaks it.

## Inventory

| Component | State | Operations | Who it talks to | What is hard |
|---|---|---|---|---|
| `io/remote_buffer` | page table, `p_first_fetch_planned`, a mutex, a condition variable, the region | `ensure`, `check_present`, `read`, `data` | the reader (a callback), `reserved_region`, callers on any thread | interleaved plans, failures in the middle of a batch, replanning, waiting, an outer lock, wrapping arithmetic |
| `io/range_reader`, `io/local_range_reader` | the reader's own | `size`, `read_ranges`, optional `blocking_wait` | called by `remote_buffer` without its mutex | writes in any order, fails half way |
| `io/reserved_region` | the access of each page, ownership of the mapping | constructors, `make_writable`, `seal`, `make_no_access`, move | the operating system | partial failure of any call, rounding, moves |
| `io/memory_mapped_file` | descriptor, mapping, size | constructors, move, accessors | the operating system | ownership after a move or a failed open |
| `io/buffer_view`, `io/owned_buffer` | a span, a reference to its owner | `view`, accessors | any buffer above | bounds |
| `io/sequential_writer` | a vector, or a stream and an offset | `write`, `fill` | serde | sizes, failed writes |
| `threading` | a process-wide pool | `parallel_for`, `parallel_chunks_for_each`, `_transform`, `_reduce` | the pool (external), user callbacks | several callers, exceptions, calls from a pool thread, overflow of the threshold |
| `containers/nomap` | a vector of nodes | `operator[]`, `at`, `emplace`, `extract`, `erase`, `clear`, copy, move, `swap` | its nodes | order and uniqueness over long sequences of calls, addresses callers keep, copies that fail |
| `containers/algorithms`, `nd_shape` | none | `split`, `join`, `flat_size`, `flat_index`, permutations | none | empty inputs, boundaries |
| `containers/no_init_vector`, `traits` | none | an allocator, compile-time traits | none | nothing at run time |
| `serde` | a cursor | `serialize`, `deserialize`, sizes, dynamic and static arrays | `reflexion`, `endianness`, writers | sizes that come from other fields, round trips |
| `endianness` | none | `decode`, `encode` by width | serde | width |
| `reflexion` | none | counting and splitting members, constant sizes, names | serde | sizes that must agree with those at run time |
| `strings` | none | `make_unique_name`, trimming, `fuzzy_match` | none | an optimum over alignments |
| `trees` | nodes and their children | traversals, `to_string` | user trees | order, ownership |
| `lifetime`, `types` | a guard's callable | run on scope exit; compile-time helpers | none | little |
| `cpp_utils_qt`, `cpp_utils_python` | none | conversions | Qt, pybind11 | external types |

Interactions. Callers reach the region only through addresses `remote_buffer`
hands out (`data()`, `read`). `ensure` calls the reader without its mutex, so
readers run concurrently and on disjoint pages. Waiting goes through the
reader's `blocking_wait` when it has one: a callback into Python that
releases and takes the interpreter lock around the wait. Writers and readers
of serde are plain calls. The pool is the only other shared state.

What makes each part correct, in a line:

- `remote_buffer`: after `ensure` returns, the bytes asked for are there and
  cannot change; each is fetched at most once; a failure leaves nothing
  half-written that can be read; whoever waits is woken; nothing deadlocks.
- `reserved_region`, `memory_mapped_file`: a mapping has one owner and is
  released once; a page has the access its last successful change gave it.
- `threading`: every index is visited once, partials are combined in order,
  a call returns after its own work is done and not before, whatever throws.
- `nomap`: unique keys, insertion order, nodes that keep their address.
- `serde`: deserializing what was serialized gives it back; sizes agree.
- `containers`, `strings`, `trees`: agreement with a reference definition.

## Modules

    PageMath            pure: bytes, pages, windows, runs
      PageMathProofs
    PageCache           abstract: what ensure promises
    RemoteBuffer        EXTENDS PageMath; INSTANCE PageCache
      MCRemoteBuffer    files, requests and threads for TLC
      RemoteBufferProofs
    OuterLock           the same calls, seen as lock operations
      OuterLockProofs

    FanOut              abstract: what a parallel call promises
    ParallelChunks      INSTANCE FanOut; the calls over the shared pool
      ParallelChunksProofs

    MappedFile          objects that own a mapping and its handles
    ReservedRegion      objects that own address space, and its pages
      MCMappings        EXTENDS both models
      MappingsProofs    about both

    OrderedMap          abstract: what a map promises
    Nomap               INSTANCE OrderedMap; nodes on an explicit heap
      MCNomap
      NomapProofs

    Endianness          pure: bytes and values
    Members             pure: how many members a structure has
    SerdeFields         EXTENDS Endianness; pure: fields of a fixed size
    SerdeSink           EXTENDS Endianness; what serialize writes into
      SerdeSinkProofs   about both
    Serde               EXTENDS SerdeSink, SerdeFields, Members; layouts, both
                        directions
      MCSerde           structures, objects and inputs for TLC

    FuzzyMatch, Containers, Strings, LocalRangeReader, Trees
                        pure
    Algorithms          EXTENDS these and Endianness; INSTANCE PageMath;
                        their inputs, and what each promises
      MCAlgorithms      inputs for TLC
      AlgorithmsProofs  about Algorithms; INSTANCE PageMathProofs

A definition `X_Y` is a plausible error in `X`: `PROJECT.json` names the
property that fails when it takes the place of `X`.

### PageMath: the arithmetic of pages

`round_up`, `normalized`, `check_bounds`, `exact_pages`, `widened_pages`,
`first_fetch_extras`, `runs_of` and `bytes_of`, over a `size_t` of any width:
`SizeMax` is its largest value, and `RoundUp` wraps there, as the addition in
the code does. Pages are numbers, a byte range a record, a run a set.

Run `algorithms` checks them against definitions that speak only of bytes: a
page is exact when some byte asked for is in it, widened when its window holds
such a byte and its first byte is in the file. It enumerates a 4-bit `size_t`
with pages of 1, 2 and 3 bytes, hence every file size, every `read_ahead` the
constructor accepts, every option and range; the interesting boundaries (empty
tail, partial last page, last window cut by the file, offset + size that
wraps) all occur below 16.

### RemoteBuffer: threads in ensure, check_present and read

| Variable | Code |
|---|---|
| `p_pages` | `p_pages`, one `page_state` per page |
| `p_first_fetch_planned` | the same |
| `prot` | the access the operating system gives each page of `p_region` |
| `filled` | the pages the reader wrote since the start (ghost: the bytes) |
| `alive` | `std::terminate` has not been called |
| `pc` | where each thread is in `ensure` |
| `wanted` | `ensure`'s list of non-empty ranges |
| `claimed`, `awaited`, `extras` | `fetch_plan.runs`, `.awaited`, `.includes_first_extras` |
| `todo` | the pages the loop at hand has still to visit |

Each section under `p_mutex` is one action: `Plan`, `Publish`, `WaitBlocks` /
`WaitEnds`, `CheckPresent`. Everything `fetch` does without the mutex is one
action per call: `OpenRun`, `ReadPage` (the reader fills pages in any order),
`ReadReturns`, `SealRun`, `CloseRun`, then `Publish` and the `notify_all`
after it (`NotifyAfterSuccess`, `NotifyAfterFailure`). Every failure is an
action: an allocation in `plan`, an open, the reader, a seal, and a failure to
close, which ends the program because `close_pages` is `noexcept`.
`OpenMayLeak` says whether an open that throws may have changed pages all the
same (see the findings).

A thread that has what it asked for is `ready`; `Finish` is its `memcpy` or
its last look at `data()`. An exception puts the thread back to `idle`, as the
caller sees it.

### PageCache: what ensure promises

A growing set of pages, callers that are `idle`, `pending` or `served`. Pages
arrive only for a pending call, and only those its windows or the first-fetch
extras allow; a call is served when the pages it needs are all there; a call
that fails gives nothing and takes nothing back. `RemoteBuffer` implements it
under `Have`, `Status`, `Need`, `Allow` (checked by `remote_buffer`, proved as `BufferImplementsCache`). Claims, waiting, retries and protections
are stutters.

### OuterLock: p_mutex under Python's lock

The thread that calls `ensure` holds an outer lock, and a Python reader needs
it to make progress. Each acquisition and release is an action: `p_mutex` in
`plan`, `publish`, `check_present` and `wait_for`; the outer lock around
Python code, inside the reader, and in `blocking_wait`. One page is enough:
the locks do not depend on which page is waited for. The Python side is
external, modelled from the contract in the comment at
`remote_buffer.hpp:298`. `LockInv` says that each lock is held exactly in the
code that holds it, and that a page somebody is blocked on is being fetched,
or the `notify_all` is about to come.

### ParallelChunks and FanOut: calls over one pool

| Variable | Code |
|---|---|
| `queue`, `running` | the tasks of `BS::light_thread_pool` and what its workers do (external) |
| `pc`, `call` | where each thread is in its call, and the arguments |
| `spans`, `pushed` | the blocks the call cuts, and how many are queued |
| `outcome` | the state of each block: of its future, for `reduce` |
| `visits` | how often the callback saw each element (ghost) |
| `folded`, `result` | how many partials `parallel_chunks_reduce` combined, and its `acc` |

`ParallelChunks` and `ParallelFor` are the calls up to the first task: the
empty input, the threshold (`Parallelize`), the inline call for one index, the
cut into blocks. `PushBlock` queues a task, `WaitReturns` is `pool().wait()`,
`GetReturns` and `GetThrows` the futures' `get()`, `FoldPartial` one turn of
the loop that combines what it returned, `FoldThrows` a `combine` that throws,
`Resume` the return to the caller, after which the call's frame and the
references tasks hold into it are dead. `Serial` and `SerialThrows` run the
callback on the caller's thread, `FinishBlock` and `ThrowBlock` on a worker.
With `MayNest` a callback may itself call.

The pool is not under `src/`. Assumed of it: a worker at least, a first-in
first-out queue, one task per worker at a time, blocks that partition the input in order, `wait()`
that returns when no task is queued or running, `get()` that takes the futures
in order and rethrows at the first exception.

`reduce`'s `T` is a sequence and `combine` a concatenation: of all choices the
one that tells order, repetition and loss apart.

`FanOut` is what a caller is told: each call visits every element of its input
once, in any order and by anybody, and returns when none is left. Queueing,
threshold and waiting are stutters. It is implemented when callbacks do not
throw. The runs make no calls from callbacks: with `MayNest = TRUE` they block
the pool, `parallel_for` at once, since its `wait()` waits for the very task
that calls it, and `reduce` when every worker waits for a future.

### MappedFile: one owner per handle

`made` are the objects that exist, `object` their members, `open` the handles
the system holds. The system reuses the numbers of closed handles, so a handle
closed twice may be somebody else's. `ConstructFile` fails after any number of
its system calls, and keeps what the code leaves open then (`KeptOnFailure`);
`MoveConstruct`, `MoveAssign` (self-moves included) and `Destroy` follow
`adopt`, `release` and `reset`. `Windows` chooses the build; the run is about
the POSIX one. On Windows a `CreateFileMapping` or `MapViewOfFile` that fails
leaves its handles open, and `release()` does not close them without a view:
the model with `Windows = TRUE` violates `ValidIsWhole` there, and `OneOwner`
once the object is destroyed.

### ReservedRegion: from the first system call to the release

`building` is a construction under way: its system calls, one action each
(`CallSucceeds`, `CallFails`), in the order of the build and the backing, with
what each gains, loses and what the handler of its failure releases. Nobody
looks at the result of `unlink`, nor at that of the `DeleteFile` in the handler
of a failed `CreateFile`: `RemovalFails` goes on, or gives up, with a file that
keeps its name. `Crash` is the end of the process at any point, between two
system calls or later: the system takes back all but the names of files.
`mishaps` remembers which of the two kept a name, and `NothingLeftBehind` that
nothing else does: with `unlink` working, a file has a name only until the very
next call. Of calls that release (`close`, `munmap`, `CloseHandle`,
`VirtualFree`) none fails, and the directory made by `create_directories` stays
where it is. `region`
are the members of the constructed objects, `mapped` the mappings with their
handles and the access of each page, `leaked` what nobody will release any
more. `MoveConstructRegion` and `MoveAssignRegion` are swaps, as in the code, so a
mapping given away lives on in the other object. `ProtectPages` is
`make_writable`, `seal` and `make_no_access` behind `pages_length`; a call
that fails may have changed a part of the pages. `RemoteBuffer` has the access
of its own pages; this module has everything else.

### Nomap and OrderedMap: a vector of nodes

`p_nodes` is the vector of pointers of each map, `heap` the allocated nodes,
`extracted` the node the last call returned, `copying` a copy assignment under
way. The allocator reuses freed addresses, lowest first, so a node freed too
early shows. Every operation searches from the front, as the code does.
`Extract`, `EraseAt`, `EraseRange` and `Clear` go through `Drop`; a copy goes
node by node (`CopyNode`), and any of its allocations may fail
(`CopyThrows`). A map destroyed is a map cleared, a map constructed an empty
one assigned to.

`OrderedMap` is what a caller is told: sequences of elements, each with a key,
a value and an identity, which a Python binding holds as an address.
`ImplementsOrderedMap` therefore says that elements stay where they are while
others come and go, that the order is that of insertion, that keys are unique,
and that a copy happens whole or not at all.

### Endianness, Members, SerdeFields and Serde: structures and bytes

A value of width `w` is a number of `w` digits in base `Base`, and a place in
memory holds its digits in the order of the host: `Decode` and `Encode` swap
when the data's order is another. The vector forms work on memory, a sequence of
bytes, at addresses in it: `ImplDecode_v` loads, swaps and stores one value after
the other, each load from what the stores before it left, or copies once when
there is nothing to swap. `Decode_vInPlace` has its input for output and a
size in values; `Decode_v` has a size in elements of `unit` bytes, which it
converts, and an output that is apart from its input, as `memcpy` requires.
`Members` is the bisection of
`count_members`, `SplitFields` what it is for.

A schema is a byte order and a sequence of fields, an object one value for
each. Fields are of every kind of `special_fields.hpp`: scalars, padding,
static arrays, bounded strings, scaled numbers, unused fields, composites, and
arrays whose count or size in bytes comes from a sibling field, from the
context, or from the end of the input. `LoadField` has a case for each overload of
`load_field`, `Writes` for each of `save_field`, `RuntimeSize` and `ConstSize`
for the two sizes; each follows its own overloads, so that they can disagree,
and do (see the findings). Fields that hold no other field and whose size is fixed
are in `SerdeFields` (`LoadFixed`, `StoreFixed`, `FixedSize`), whose last operators
say what one such field promises, whatever stands around it. Bytes past the end of
the input are not an error in the code: a read of them is recorded (`over`).

`object` is filled in by a caller or deserialized (`Load`), then serialized. A
call of `serialize` is a sequence of writes, one for each field or array, which
`Writes` gives; `SerdeSink` makes them one at a time, into memory at an offset
(`StoreInMemory` grows it when it is too short), or through a `vector_writer` or
a `file_writer`.

| Variable of `SerdeSink` | Code |
|---|---|
| `sink` | the memory or the writer: its bytes, its offset, the state of its stream |
| `calling`, `pending` | whether `serialize` is under way, and the writes it still has to make |
| `pieces` | the writes made: by this call in memory, through a writer by all calls (ghost) |
| `start`, `before` | where the call's bytes start, and what the sink held before it (ghost) |
| `returned` | what `serialize` returned last |

`Begin` enters the call, `Put` makes a write, `Return` ends it. Any write may
throw when it has to allocate (`PutThrows`); those before it stay. A stream may
fail at any time (`StreamFails`): the end it had not flushed is lost, and so is
every later write, which the writer counts all the same.

### The algorithms

`FuzzyMatch` follows the level-by-level search of `best_alignment_raw_score`
and the variant with back pointers; its reference is the best of all
alignments, enumerated. `Containers`: `split`, `join`, `flat_size`,
`flat_index`, `permute_axes` with its odometer. `Strings`: `trim`,
`make_unique_name`. `Trees`: the three traversals, against the orders they are
named for. `LocalRangeReader`: a batch is checked, logged, copied, in that
order. Each module ends with operators that say of one input what its
functions promise.

`Algorithms` puts them together with `PageMath` and `Endianness`. Its behaviours
pick one of `Inputs` (`Pick`), then forget it (`Forget`); each invariant is about
the inputs of its kind, and `AlgorithmsAssumption` says which inputs of a kind
the code accepts (`FileInputs`, `QueryInputs`, ...).

## Runs

| Run | Question | Bounds |
|---|---|---|
| `remote_buffer` | safety of table and region with every failure, and does it implement `PageCache`? | 2 threads, 4 pages in 2 windows, tail prefetch, requests that overlap, span two windows, make two runs, are empty or out of bounds |
| `remote_buffer_live` | what waiters see of a fetch that fails; does every call end once failures stop? | 3 threads, 2 pages, opens that leave nothing open when they throw |
| `outer_lock` | can the locks stop everybody? | 2 threads, one call each |
| `parallel_chunks` | are results in order, does a call end with its tasks, does it implement `FanOut`? | 2 callers, 2 workers, every function, 0 to 3 elements, 0 (the pool's size) or 3 chunks, thresholds that are off, met and missed |
| `chunks_live` | is no element lost or visited twice, and does every call end, when callbacks throw? | 2 callers, 2 workers, 1 or 2 elements, `transform` and `reduce`, below the threshold and at it |
| `mappings` | has every handle and mapping one owner, over failures and moves, and what stays when the process dies? | 3 files, 4 handle numbers, POSIX; or 2 regions of 0 to 2 pages, 3 addresses, both builds |
| `nomap` | do maps keep their elements, and implement `OrderedMap`? | 2 maps, 3 keys, 2 values, memory for 4 nodes |
| `serde` | do the two directions and the sizes agree, do writes stay in their place and in order, whichever throws? | 8 structures, 2 filled objects of each, 121 inputs of up to 6 bytes in base 3, 2 structures into one of 3 memories at 3 offsets, a vector or a file |
| `algorithms` | do the pure algorithms do what they are for? | 4-bit `size_t`, pages of 1 to 3 bytes; queries of 3 in candidates of 4 characters; sequences of 5; 3 axes with 0 to 3 points; trees of 10 nodes; up to 4 bytes in base 3, as elements of 1 to 3 bytes and values of 1 to 3, on a big-endian host |
| `outer_lock_cycle`, `chunks_dangling`, `serde_const_size` | the findings | the smallest instances that show them |

Several properties are conjunctions of named parts, defined next to them:
`LockInv`, `CallInv`, `FilesInv`, `RegionInv`, `NomapInv`, `ObjectInv`,
`SizesAgree` and those of `Algorithms`.

Why the bounds are enough. Calls are not bounded in `RemoteBuffer`: threads
call for ever, so long histories are covered as far as states repeat. Two
threads make every conflict over a page; the third adds waiters that compete
after a failure. Four pages in two windows allow a claim with a hole (two
runs), a claim that is a part of another's window, and a partial last page.
What small instances may miss, the proofs cover: the safety properties of
`RemoteBuffer` are proved for any number of threads and pages, those of the
locks, the pool, the mappings, the maps and the writers for instances of any
size, and those of most algorithms for every input.

In `ParallelChunks` two callers suffice for tasks that interleave in the
queue, and two workers for blocks that finish out of order; with three
elements in two or three blocks they are uneven, and a middle one exists.
`SizeMax` is 7 and no threshold reaches it.

In `mappings` a behaviour follows the files or the regions, so that their
states are not multiplied. Three files make a move over an owner while a third
holds a reused number; a region of 7 bytes is one whose last page would wrap.
In `nomap` calls are unbounded too; three keys make a first, a middle and a
last element, and memory for four nodes lets a copy of two or three run out of it
half way.

In `serde` each kind of field is in a structure, each array in one where its
count is 0, 1 or 2, and every array of structures in one where their lengths
differ. The host is little-endian. Base 3 tells a byte that is zero from a count, and two orders of two
bytes apart. Inputs are every first three bytes followed by ones. An object is
read beside a fresh vector only, once, and is not written then: reading does not
touch the sink, and what was filled in is what is written. `MaxRecords` lets two
structures follow each other; memories that are empty, shorter and longer than
what is written, with offsets 0, 2 and 4, make every overlap of the two.
`RoundTrip` and `ObjectInv` are about the objects filled in and those read;
`Reuse = TRUE`, an object read twice, breaks the second (see below).

`algorithms` enumerates: below 16 every boundary of the page arithmetic occurs
(empty tail, partial last page, last window cut by the file, offset + size
that wraps); in four characters a query has alignments that start early and
score worse; five items hold separators at both ends and two in a row; axes
have 0 to 3 points.

Properties worth reading first: `ReturnedIsPresent` (whoever fetched, however
often it failed, a return means the pages are there), `AbsentIsUnreadable`,
`ExtrasNotForgotten`, `NoLostWakeup`, `FetchesDoNotInterfere`,
`ImplementsPageCache`; `EachElementOnce`, `SpansAreReal`, `ReduceInOrder`,
`ImplementsFanOut`; `NothingLeftBehind`, `MembersTravelTogether`;
`ImplementsOrderedMap`; `RoundTrip`, `LengthIsKept`; `MatchIsBest`.

Fairness. `EnsureReturns` assumes weak fairness of each thread inside
`ensure`, over all its own steps at once (`Progress`): the operating system
schedules threads, `p_mutex` is granted to a thread that keeps asking, and the
reader returns or throws. The code justifies nothing more: no fairness is
assumed of callers, of failures, or of spurious wake-ups. A fetch may fail for
ever and its waiters retry for ever, so the property is conditional on
failures stopping. `CallsReturn` in `OuterLock` adds that the outer lock is
handed to a thread that waits for it infinitely often (the interpreter's lock
switches on request), that a reader ends, and that Python code goes on;
`MaxCalls` bounds the calls of each thread. In `ParallelChunks` each thread in
a call and each worker is weakly fair: threads are scheduled and callbacks
end. `CallsReturn` there is conditional on new calls stopping, because
`wait()` waits for the tasks of all callers and may be held up by others for
ever.

## Findings

1. `outer_lock_cycle`: `wait_for` (remote_buffer.hpp:314) declares the
   `unique_lock` outside the closure handed to `blocking_wait`. When the wait
   ends `p_mutex` is locked, and stays so while `blocking_wait` takes the
   outer lock back. A thread that holds the outer lock and enters `plan`,
   `publish` or `check_present` then blocks on `p_mutex`: a deadlock. It takes
   a reader with `blocking_wait` and a caller that keeps the outer lock while
   it calls. The existing test of `blocking_wait` has no outer lock.
2. `chunks_dangling`: `parallel_chunks_reduce` leaves at the first exception
   while its other tasks are queued or running with references to `input`, `f`
   and the caller's frame. It takes a callback that throws and two chunks.
3. `serde_const_size`: `field_size` (reflection.hpp:450) has no case for
   `unused<T>` and falls back to `sizeof`. For `unused<bounded_string<2>>` that
   is the size of a structure with a `std::string`, where both directions and
   `runtime_size` take 2 bytes. A `dynamic_array_until_eof` of such structures
   divides what is left of the input by it and reads too few, or none.

More disagreements appear as hypotheses, or as hazards with notes:

- `OpenMayLeak`: `fetch` counts a run as opened after
  `destinations.push_back(make_writable(...))`. If `push_back` throws, or
  `mprotect` fails after it changed some pages (POSIX allows it), the handler
  does not close the run, and its pages are published absent but readable
  until the next fetch. `AbsentIsUnreadable` fails with `OpenMayLeak = TRUE`;
  `FailedFetchIsClosed` proves that nothing else leaves a page readable.
- `NoWrap`: `normalized` checks that the window can be rounded up to a page,
  not that positions of the file can be rounded up to the window. When file
  size + window passes `size_t` the widened range is empty: `ensure` returns
  and has fetched nothing. In practice it takes a 32-bit `size_t`.
- The threshold `min_chunk_size * chunks` is a `size_t` and may wrap; the pool
  is then used for inputs below the threshold.
- A page that is being fetched is readable by everybody and contains zeros,
  where the documentation (io.md:480) says that bytes never fetched cannot be
  read. Callers that use `ensure` or `check_present` first are not concerned.
- `MayNest`: a `parallel_for` called from a callback waits for ever. No comment
  excludes such calls.
- The comment at reserved_region.hpp:227 says of the temporary file that "it
  disappears with the mapping, even after a crash". The result of `unlink` (line
  234) is ignored: when it fails the file is extended and mapped under its name,
  which outlives region and process. So does the empty file of a process that
  dies between `mkstemp` and `unlink`, and on Windows the one of a `CreateFile`
  that failed, when the `DeleteFile` behind it (line 123) fails too.
- A file that exists but cannot be opened or mapped gives an invalid
  `memory_mapped_file` that still reports the file's size (io.md:145 says 0).
- `Reuse`: a dynamic array whose count is 0 is not resized, and records until the
  end of the input are appended. Deserializing into an object used before
  leaves elements in it that its input does not have; `LengthIsKept` fails with
  `Reuse = TRUE`.


## Proofs

Each component with state of its own has proofs, and every safety property the
runs check of it is a theorem there, for every value of the constants that
satisfies the module's assumption; so are the reference definitions of most
algorithms, for every input. Hypotheses beyond that are in the table.

| Theorem | Property | Assumes |
|---|---|---|
| `TypeCorrect` | `TypeOK` | |
| `OneFetcher` | `OneFetcherPerPage` | |
| `PresentSealed` | `PresentIsSealed` | |
| `ReaderWrites` | `ReaderMayWrite` | |
| `FetchedOnce` | `PresentIsFinal` | |
| `FetchesAreApart` | `FetchesDoNotInterfere` | |
| `FailedFetchIsClosed` | `AbsentIsUnreadable` | `~OpenMayLeak` |
| `EnsureKeepsPromise` | `ReturnedIsPresent` | `NoWrap` |
| `ExtrasKept` | `ExtrasNotForgotten` | |
| `WakeupsNotLost` | `NoLostWakeup` | |
| `BufferImplementsCache` | `ImplementsPageCache` | `NoWrap` |
| `LocksFollowCode` | `LockInv` | |
| `ReduceKeepsOrder` | `ReduceInOrder` | |
| `EveryElementOnce` | `EachElementOnce`, `ReturnedVisitedAll` | |
| `CallsKeepAccounts` | `CallInv` | `ThresholdFits` |
| `TasksEndBeforeCalls` | `SpansAreReal` | `~MayThrow` |
| `CallsFanOut` | `ImplementsFanOut` | `~MayThrow` |
| `FilesHaveOneOwner` | `FilesInv` | `~Windows` |
| `ViewsOutliveMoves` | `ViewsSurviveMoves` | |
| `RegionsHaveOneOwner` | `RegionInv` | |
| `NothingIsLeftBehind` | `NothingLeftBehind` | |
| `BytesKeepTheirOwner` | `MembersTravelTogether` | |
| `NodesHaveOneOwner` | `NomapInv` | |
| `EqualComparesElements` | `EqualIsSameElements` | |
| `NomapIsAnOrderedMap` | `ImplementsOrderedMap` | |
| `PlansNamePagesOfBytes` | `PagesAreThoseOfBytes` | `NoWrap`, for the widened pages |
| `BatchesAreOfTheFile` | `BatchesStayInFile` | |
| `WritersKeepOrder` | `WriterKeepsOrder` | |
| `MemoryKeepsOtherBytes` | `SerializeStaysInside` | |
| `FieldsReadBack` | part of `RoundTrip` | fields of a fixed size |
| `FieldsKeepBytes` | part of `RoundTrip` | fields of a fixed size |
| `BytesMeanTheirValue` | `BytesHaveTheirMeaning` | |
| `MatchesAreBest` | `MatchIsBest` | |
| `BatchesAreWhole` | `BatchIsAllOrNothing` | |
| `StringsAreTrimmedAndNamed` | `StringsAreClean` | |
| `ArraysArePoints` | `ArraysKeepTheirPoints` | |
| `ChunksAreCutAndJoined` | `SplitAndJoinAgree` | |
| `TraversalsVisitInOrder` | `TraversalsAreOrders` | |

Each hypothesis is a limit of the code, not of the proof: without it the
property is false, as a finding above says. `ThresholdFits` is that
`min_chunk_size` times the number of chunks fits a `size_t`.

### PageMathProofs

Exact and widened pages lie in the page table (`ExactInPages`,
`WidenedInPages`, whatever wraps in the latter), and the widened pages of a
range include its exact ones (`ExactInWidened`, which needs `NoWrap`), from
elementary facts about `\div` and `%`.

The second half says what the arithmetic means, for every page size, file size
and option. `ExactPagesAreOfBytes`, `WidenedPagesAreOfWindows` (with `NoWrap`)
and `ExtraPagesAreTailOrWhole` equate each set of pages with the pages of a set
of bytes; they rest on one lemma, `BlocksOfInterval`, about the blocks that an
interval of bytes touches. The first two are about ranges that are not empty:
`ensure` and `check_present` never ask for the pages of an empty one.
`BoundsAreOfTheFile` is about `check_bounds`, `FirstRunIsMaximalBatch` about one
run of a claim and the bytes asked for it. `PlansNamePagesOfBytes` and
`BatchesAreOfTheFile`, in `AlgorithmsProofs`, are these facts at the file picked.

### RemoteBufferProofs

The invariants come in layers, each inductive relative to those before it.
`TypeInv` adds to `TypeOK` that a pending call's ranges are in bounds, without
which `Plan` could index past the table. `ClaimInv` adds to
`OneFetcherPerPage` that only fetching threads have a claim and that `todo` is
a part of it; from there each step of a fetch concerns pages no other thread
fetches, which is `FetchesAreApart`. `AccessInv` ties the access of a claimed page to its owner's progress
(opened so far, written so far, sealed so far): it is what makes the page read-only
and complete at the moment it is published. `ClosedInv` says the same of the
failure path. `PromiseInv` follows a call from its plan to its return: every
exact page is present, claimed by this call, or awaited, and what it awaits is
in flight, present, or will make it plan again. `ExtrasInv` says who holds the
extras while the flag is set. `AllowedInv` bounds a claim by the call's windows
and the extras, which the refinement's `Arrive` step needs.

`PresentIsFinal`, which `FetchedOnce` proves, is in no run: `ImplementsPageCache`
says as much of the small instance.

### OuterLockProofs

`LockInv` is not inductive: that a blocked thread will be woken needs that a
page in flight has a thread that fetches it, and only one, or the first of two
to publish would leave the other's page to nobody. `OneFetch` adds that.

### ParallelChunksProofs

One invariant gives all five theorems, with callbacks that throw and callbacks
that call.

- The cut. `Tiling`: the blocks are adjacent, not empty, start at 0 and end at
  the size of the input; `BlocksTile`, `IndexesTile`, `WholeTiles` prove it of
  the three ways to cut, `CutsTile` being what they share. That each element
  is in some block takes a least cut above it (`LeastNatural`, from the
  well-foundedness of `<` on the naturals).
- `ThreadInv`, of one thread: how many blocks are queued and where its `pc` may
  then be (`ShapeInv`), an element was visited, once, when its block has a
  value (`VisitInv`), what is combined is the prefix up to the last block
  folded (`FoldInv`).
- `TasksInv`, across threads: a live task is of a call that waits for it, for a
  block without outcome; no two are for the same block; and each block queued
  without outcome has its task. The last part is what `pool().wait()` relies
  on, the second what `EachElementOnce` counts.

A call's own steps leave the tasks alone (`ThreadStep`) and a worker's leave the
threads alone but for one (`TaskEnds`).

### MappingsProofs

`FilesInv` is inductive for a system that gives numbers not in use. For regions
the strengthening is about the constructor half way: `BuildingInv` says which
handles it has before each of its system calls, hence that the handler of that
call's failure closes all of them, and `MappedInv` which handles a finished mapping
keeps. Both hold up to a name whose removal failed (`OrNamed`), which is not
before `mishaps` says so. The action properties follow from the type invariant and the one-owner
invariant, since a move permutes what objects have.

### NomapProofs

`CopyInv` says of a copy under way that its nodes are allocated, owned by
nobody else, and hold the first elements of the source. With unique keys, `Find`
gives the only node of its key. `EqualIsSameElements` is a pigeonhole: the
first map's keys are looked up in the second, which has as many and unique
ones. The refinement goes action by action, over the contents of the maps; what it
needs most is that a step writes no node it does not own.

### SerdeSinkProofs

`SinkSpec` is the sink with any sequence of writes and any offset. Every step of
`Serde` is a step of `SinkSpec`, or leaves the sink alone, hence the two
properties hold of what it writes. `WrittenInv` is inductive: `WriterInv` says
that a writer holds the pieces of all calls one behind the other, or the first of
them when its stream has failed, and `MemoryInv` that each byte written into
memory is at its place and each other byte what it was, after any number of the
call's writes. `FlattenSeqAppend`, from `AlgorithmsProofs`, is what a write does
to the pieces put together.

`FieldsReadBack` and `FieldsKeepBytes` are `RoundTrip` for one field of a fixed size,
of any width, in any base, byte order and host, between any other bytes: stored and
read, it is what it was (text up to its first NUL and cut to its size, a scaled number
to half a scale); read and stored, it is the same bytes; both ways it takes its size
and reads no byte past it. `StandsAt` says that some bytes stand at a place of the
input, and each kind of field is reduced to what is read from there.
`PiecesAreChunks` cuts a static array into its elements again, `TextLengthIs` is a
least counterexample once more, and `RoundedIs` bounds what a scaled number loses.

### AlgorithmsProofs

The theorems are `Spec => []X`, for any set `Inputs` of inputs the code accepts,
of any length: `InputInv` is that an input was picked there. What is left is a
lemma about one input of each kind.

The recursive definitions are recursive functions. `RecursionExists` says that
there is a function that obeys a recursion over `0 .. N`, and `SetInduction`,
which is a least counterexample, what holds of all its values. `FlatteningExists`
and `FlattenSeqAppend` do the same for `FlattenSeq` of the community modules.

- Endianness: the digits of a number are unique, so `LittleValue` and
  `LittleBytes` undo each other; a byte order only reverses the digits, on both
  hosts. `ImplDecodeIs` is the loop of `decode_v`, by induction over the values
  decoded (`DecodedUpTo`): in place or apart, the next value has not been
  written over yet (`NextIsDecoded`).
- FuzzyMatch: `LevelsBound` says that no alignment scores more than the level at
  its last position holds, by induction over the levels, and `TraceAligns` that
  the trace back is an alignment with that very score: a step back gives up
  exactly what the level gained (`StepBack`).
- LocalRangeReader: the copied pieces have the sizes asked for, and their sum is
  what the log counts.
- Strings: of `n` names one among the numbers `1 .. n + 1` is free, by the
  pigeonhole, so the recursion ends where the loop in the code does.
- split and join: `CutsKeepItems` and `CutsCountStarts` follow split's loop item by
  item. `TextIsCutAlike` is the converse of both: the chunks so far, put together,
  are cut as the items are, and are shorter than these by the separators that cut
  nothing.
- Trees: a node is its path. `ChildrenAre` numbers a node's children from 1 to
  their count; a finite tree has a height, so there is a function that takes each
  node's value from those of its children (`TreeRecursionExists`), and induction
  from the children to their parent (`NodeInduction`). Depth first, the visits of
  a node are its subtree, in order (`DepthFirst`). Breadth first, `InTurn` is the
  loop's invariant: visited and pending nodes together stand in order, and are
  the root and the children of those visited. A sequence in order names no node
  twice, so the queue is empty after as many turns as there are nodes.
- Arrays: a row-major offset is a number in mixed radix. `FlatInRange` bounds
  it, `FlatInjective` is the uniqueness of its digits, `AdvanceIs` says that the
  odometer adds one to it; so the points of an array are as many as its
  `flat_size`. Column-major order is row-major order of the reversed axes
  (`ColumnsAreRows`). A permutation is a bijection between the points of two
  shapes, hence no element that `permute_axes` places is overwritten.

### What is only model-checked

Liveness under fairness (`EnsureReturns`, both `CallsReturn`) is out of the
prover's reach. So is a definition that is declared `RECURSIVE`, as those of
`Members` and `Serde` are: their recursion is over structures inside structures.
`RoundTrip`, `ObjectInv` and `SizesAgree` therefore stay with TLC, on structures
with every kind of field; what they need of one field of a fixed size is proved.

## Not modelled

- `from_env`, the options' defaults and the choice of a cache directory. The
  process dies in `ReservedRegion` only: nothing else here outlives it.
- `RemoteBuffer`'s region on Windows, where a page that is not committed takes
  another call. `data()` is a constant. The destructor and moves of a buffer in
  use are the caller's errors.
- `buffer_view`, `owned_buffer`, `no_init_vector`, traits, `lifetime` and
  `types`: accessors, an allocator, an alias of `unique_ptr` and compile-time
  helpers, with no state of their own.
- `min`, `max`, `broadcast`, `contains` and `index_of`, which are a standard call
  each, `print_tree`, which is output, and the names of fields and enumerators,
  which are text of the compiler.
- In `Serde`: values are naturals (no sign, no floating point) and scales whole
  numbers.
- In `Nomap`: keys changed through an iterator.
- The adapters to Qt and pybind11, whose types belong to other libraries.

## Plan

Every component with state of its own is modelled, and its safety is proved;
the pure ones are compared with reference definitions, and most of them proved.
What is left:

1. With `p_mutex` dropped before `blocking_wait` takes the outer lock back, that
   `NoLockCycle` holds for any number of threads.
2. `Serde`'s recursion over fields as a recursive function on a finite set of
   layouts, so that `RoundTrip` and `SizesAgree` of a structure follow from
   `FieldsReadBack` and `FieldsKeepBytes` of its fields.
