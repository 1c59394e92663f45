------------------------------ MODULE PageMath ------------------------------
(***************************************************************************)
(* The byte and page arithmetic of remote_buffer: which pages a byte range *)
(* covers, which pages its read-ahead window adds, which pages the first   *)
(* fetch adds, and how a set of pages is cut into contiguous runs.         *)
(*                                                                         *)
(* Offsets and sizes are std::size_t: SizeMax is the largest of them, and  *)
(* a sum that passes it wraps.  A page range is a set of page numbers.     *)
(***************************************************************************)
EXTENDS Integers

CONSTANTS
    SizeMax,              \* std::numeric_limits<std::size_t>::max()
    PageSize,             \* page_size()
    Size,                 \* p_size, the bytes of the remote file
    ReadAhead,            \* remote_buffer_options::read_ahead, as passed in
    TailPrefetch,         \* remote_buffer_options::tail_prefetch
    DownloadWholeBelow    \* remote_buffer_options::download_whole_below

(***************************************************************************)
(* What the constructor lets through: normalized() rejects a read_ahead    *)
(* over half the range, and the region rejects a size whose last page      *)
(* would pass it.  A page is at most half of the address space.            *)
(***************************************************************************)
ASSUME PageMathAssumption ==
    /\ SizeMax \in Nat
    /\ PageSize \in Nat \ {0} /\ 2 * PageSize =< SizeMax
    /\ Size \in Nat /\ Size =< SizeMax - PageSize
    /\ ReadAhead \in Nat /\ ReadAhead =< SizeMax \div 2
    /\ TailPrefetch \in 0 .. SizeMax
    /\ DownloadWholeBelow \in 0 .. SizeMax

Lesser(a, b)  == IF a < b THEN a ELSE b
Greater(a, b) == IF a > b THEN a ELSE b

-----------------------------------------------------------------------------
(***************************************************************************)
(* Definitions named X_Y are plausible errors in X, for the mutation runs. *)
(***************************************************************************)

\* The addition before the division is the one that can wrap.
RoundUp(value, step) ==
    (((value + step - 1) % (SizeMax + 1)) \div step) * step

\* The read-ahead window: at least a page, and whole pages.
Window == Greater(PageSize, RoundUp(ReadAhead, PageSize))

PageCount == RoundUp(Size, PageSize) \div PageSize
Pages     == 0 .. (PageCount - 1)

(***************************************************************************)
(* No position in the file, rounded up to a window, passes SizeMax.  The   *)
(* constructor does not check it (see the finding in README.md); it holds  *)
(* for every file that fits a 64-bit address space.                        *)
(***************************************************************************)
NoWrap == Size + Window - 1 =< SizeMax

ByteRanges == [offset : 0 .. SizeMax, size : 0 .. SizeMax]

InBounds_Sum(r) == (r.offset + r.size) % (SizeMax + 1) =< Size

InBounds(r) == r.offset =< Size /\ r.size =< Size - r.offset

ExactPages(r) ==
    (r.offset \div PageSize) ..
        (RoundUp(r.offset + r.size, PageSize) \div PageSize - 1)

WidenedPages_Floored(r) ==
    ((r.offset \div Window) * Window) \div PageSize ..
        Lesser(RoundUp(r.offset + r.size, Window), Size) \div PageSize - 1

WidenedPages(r) ==
    LET begin == (r.offset \div Window) * Window
        end   == Lesser(RoundUp(r.offset + r.size, Window), Size)
    IN  (begin \div PageSize) .. (RoundUp(end, PageSize) \div PageSize - 1)

FirstFetchExtras ==
    LET tail == Lesser(TailPrefetch, Size)
    IN  IF Size < DownloadWholeBelow THEN {[offset |-> 0, size |-> Size]}
        ELSE {r \in {[offset |-> Size - tail, size |-> tail]} : tail # 0}

-----------------------------------------------------------------------------
(* The pages of a whole request, a set of byte ranges. *)

ExactOf(request)   == UNION {ExactPages(r) : r \in request}
WidenedOf(request) == UNION {WidenedPages(r) : r \in request}
ExtraPages         == ExactOf(FirstFetchExtras)

(***************************************************************************)
(* runs_of cuts the claimed pages into maximal runs, lowest page first;    *)
(* FirstRun is the run that holds the lowest page of S.                    *)
(***************************************************************************)
FirstRun(S) ==
    {p \in S : \A q \in Pages : q < p => (q \in S \/ \A s \in S : q < s)}

First(run) == CHOOSE p \in run : \A q \in run : p =< q
Last(run)  == CHOOSE p \in run : \A q \in run : q =< p

\* bytes_of: the last page of the file may be a partial one.
BytesOf(run) ==
    LET offset == First(run) * PageSize
    IN  [offset |-> offset,
         size   |-> Lesser((Last(run) - First(run) + 1) * PageSize,
                           Size - offset)]

-----------------------------------------------------------------------------
(***************************************************************************)
(* What the arithmetic is for: the pages it names are the pages of bytes.  *)
(***************************************************************************)

OffsetsInFile  == 0 .. (Size - 1)
BytesIn(r)     == r.offset .. (r.offset + r.size - 1)
PagesOf(bytes) == {b \div PageSize : b \in bytes}

\* exact_pages names the pages that hold a byte of the range, and no other:
\* check_present would otherwise accept or refuse the wrong ranges.
ExactIsPagesOfBytes(r) == ExactPages(r) = PagesOf(BytesIn(r))

\* widened_pages names the pages of every file byte whose aligned window
\* holds a byte of the range: what is fetched contains what was asked, never
\* leaves the file, and never cuts a window short.
WidenedIsPagesOfWindows(r) ==
    NoWrap => WidenedPages(r) =
                PagesOf({b \in OffsetsInFile : \E a \in BytesIn(r) : a \div Window = b \div Window})

\* ensure and check_present never ask for the pages of an empty range.
RangesHaveTheirPages ==
    \A r \in ByteRanges :
        InBounds(r) /\ r.size # 0 => ExactIsPagesOfBytes(r) /\ WidenedIsPagesOfWindows(r)

\* The first fetch adds the last TailPrefetch bytes, or the whole of a file
\* smaller than DownloadWholeBelow, and no other page.
ExtrasAreTailOrWhole ==
    ExtraPages = PagesOf(IF Size < DownloadWholeBelow THEN OffsetsInFile
                         ELSE {b \in OffsetsInFile : Size - b =< TailPrefetch})

\* check_bounds accepts a range exactly when all of its bytes are in the
\* file; adding offset and size first would let a sum that wraps through.
BoundsAreTheFile ==
    \A r \in ByteRanges :
        InBounds(r) <=> (BytesIn(r) \subseteq OffsetsInFile /\ r.offset =< Size)

\* The first run of the claimed pages is contiguous, holds the lowest page,
\* cannot be extended, and its bytes are the bytes of its pages: a batch asks
\* the reader for each byte of the claim once and for none past the end.
RunIsMaximalBatch(claimed) ==
    LET run == FirstRun(claimed)
    IN  /\ First(claimed) \in run
        /\ run = First(run) .. Last(run)
        /\ \A p \in claimed \ run : p > Last(run) + 1
        /\ BytesIn(BytesOf(run)) = {b \in OffsetsInFile : b \div PageSize \in run}

\* What is asked of the reader: nothing outside of the file, nothing twice.
BatchesStayInFile ==
    /\ BoundsAreTheFile
    /\ \A claimed \in (SUBSET Pages) \ {{}} : RunIsMaximalBatch(claimed)

=============================================================================
