----------------------------- MODULE Algorithms -----------------------------
(***************************************************************************)
(* The pure algorithms, each promised to agree with its reference          *)
(* definition.  A behaviour picks an input of some kind, then forgets it;  *)
(* an invariant is about the inputs of its kind.                           *)
(***************************************************************************)
EXTENDS Containers, Endianness, FuzzyMatch, LocalRangeReader, Strings, Trees

CONSTANTS
    MaxSizeT,                 \* std::numeric_limits<std::size_t>::max()
    Inputs

VARIABLE input

NoInput == [kind |-> "none"]

Math == INSTANCE PageMath
        WITH SizeMax <- MaxSizeT, PageSize <- input.pageSize, Size <- input.size,
             ReadAhead <- input.readAhead, TailPrefetch <- input.tail,
             DownloadWholeBelow <- input.whole

-----------------------------------------------------------------------------
(* The inputs of each kind that the code accepts. *)

\* A file, its pages, and the options of a buffer over it.
FileInputs ==
    {i \in [kind : {"range", "extras", "claim"}, pageSize : Nat \ {0}, size : Nat,
            readAhead : 0 .. (MaxSizeT \div 2), tail : 0 .. MaxSizeT, whole : 0 .. MaxSizeT] :
        2 * i.pageSize <= MaxSizeT /\ i.size <= MaxSizeT - i.pageSize}

QueryInputs ==
    [kind : {"query"}, query : Seq(DOMAIN LowerOf) \ {<<>>}, candidate : Seq(DOMAIN LowerOf)]

SequenceInputs == [kind : {"sequence"}, items : Seq(Characters), sep : Characters]

NameInputs ==
    {i \in [kind : {"name"}, base : Seq(Characters),
            blacklist : SUBSET [base : Seq(Characters), number : Nat]] :
        IsFiniteSet(i.blacklist)}

ArrayInputs ==
    {i \in [kind : {"array"}, shape : Seq(Nat), permutation : Seq(Nat), data : Seq(Int)] :
        /\ i.permutation \in Bijection(DOMAIN i.shape, DOMAIN i.shape)
        /\ Len(i.data) = FlatSize(i.shape)}

TreeInputs == {i \in [kind : {"tree"}, nodes : SUBSET Seq(Nat \ {0})] : IsTree(i.nodes)}

\* Bytes that are elements of `unit` bytes, and room for the values they make.
BytesInputs ==
    {i \in [kind : {"bytes"}, order : Orders \cup {"unknown"}, width : Nat \ {0},
            unit : Nat \ {0}, bytes : Seq(Byte), room : Seq(Byte)] :
        /\ Len(i.bytes) % i.unit = 0
        /\ Len(i.room) >= (Len(i.bytes) \div i.width) * i.width}

BatchInputs == [kind : {"batch"}, ranges : Seq(ByteRange), before : Seq(Seq(Nat))]

ASSUME AlgorithmsAssumption ==
    /\ MaxSizeT \in Nat
    /\ FileBytes \in Seq(Nat)
    /\ \A i \in Inputs :
          /\ i.kind \in {"range", "extras", "claim"} => i \in FileInputs
          /\ i.kind = "query" => i \in QueryInputs
          /\ i.kind = "sequence" => i \in SequenceInputs
          /\ i.kind = "name" => i \in NameInputs
          /\ i.kind = "array" => i \in ArrayInputs
          /\ i.kind = "tree" => i \in TreeInputs
          /\ i.kind = "bytes" => i \in BytesInputs
          /\ i.kind = "batch" => i \in BatchInputs

-----------------------------------------------------------------------------
Init == input = NoInput

Pick == input = NoInput /\ input' \in Inputs

Forget == input # NoInput /\ input' = NoInput

Next == Pick \/ Forget

Spec == Init /\ [][Next]_input

-----------------------------------------------------------------------------
\* The pages a plan of remote_buffer names are those of the bytes it is about.
PagesAreThoseOfBytes ==
    /\ input.kind = "range" => Math!RangesHaveTheirPages
    /\ input.kind = "extras" => Math!ExtrasAreTailOrWhole

\* What is asked of the reader: nothing outside of the file, nothing twice.
BatchesStayInFile == input.kind = "claim" => Math!BatchesStayInFile

\* fuzzy_match: score, positions and scaled score are those of the best of all
\* alignments.
MatchIsBest == input.kind = "query" => MatchHasBestScore(input.query, input.candidate)

\* split and join take a sequence apart and put it together.
SplitAndJoinAgree ==
    input.kind = "sequence" =>
        SplitDropsSeparators(input.items, input.sep) /\ JoinUndoesSplit(input.items, input.sep)

\* What the helpers on strings return is of the form their callers rely on: trim
\* leaves no space at an end, a generated name is the first that is free.
StringsAreClean ==
    /\ input.kind = "sequence" => TrimCutsTheEnds(input.items)
    /\ input.kind = "name" => UniqueNameIsFirstFree(input.base, input.blacklist)

\* An array is its points, however it is laid out: flat_index numbers them, and
\* permute_axes moves each to the permuted point.
ArraysKeepTheirPoints ==
    input.kind = "array" =>
        /\ FlatIndexNumbersPoints(input.shape)
        /\ PermuteAxesMovesPoints(input.data, input.shape, input.permutation)

\* A traversal visits every node once, in the order it is named for.
TraversalsAreOrders ==
    input.kind = "tree" =>
        /\ \A order \in {"pre_order", "post_order", "breadth_first"} :
              VisitsInOrder(input.nodes, order)
        /\ QueueRunsEmpty(input.nodes)

\* One value or many, of any width, bytes and values mean the same.
BytesHaveTheirMeaning ==
    input.kind = "bytes" =>
        /\ DecodeIsMeaning(input.order, input.bytes)
        /\ VectorsAreWholeValues(input.order, input.bytes, input.unit, input.width, input.room)

\* The local reader refuses a batch whole, before anything is copied or logged,
\* or serves it whole.
BatchIsAllOrNothing ==
    input.kind = "batch" => AllOrNothing(EmptyLog, input.ranges, input.before)

=============================================================================
