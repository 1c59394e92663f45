--------------------------- MODULE PageMathProofs ---------------------------
(***************************************************************************)
(* What the page arithmetic gives for every page size, file size and       *)
(* option: the facts the proofs about RemoteBuffer rest on.                *)
(***************************************************************************)
EXTENDS PageMath, WellFoundedInduction, TLAPS

-----------------------------------------------------------------------------
(* Division by a symbolic step. *)

LEMMA DivBounds ==
    ASSUME NEW x \in Nat, NEW k \in Nat \ {0}
    PROVE  /\ x \div k \in Nat
           /\ (x \div k) * k =< x
           /\ x < (x \div k) * k + k
  OBVIOUS

LEMMA DivMonotone ==
    ASSUME NEW x \in Nat, NEW y \in Nat, NEW k \in Nat \ {0}, x =< y
    PROVE  x \div k =< y \div k
  OBVIOUS

LEMMA DivExact ==
    ASSUME NEW x \in Nat, NEW k \in Nat \ {0}
    PROVE  (x * k) \div k = x
  OBVIOUS

LEMMA ModSmall ==
    ASSUME NEW x \in Nat, NEW k \in Nat \ {0}, x < k
    PROVE  x % k = x
  OBVIOUS

-----------------------------------------------------------------------------
\* round_up, when nothing wraps: the quotient rounded up, and monotone.
LEMMA RoundUpNoWrap ==
    ASSUME NEW v \in Nat, NEW s \in Nat \ {0}, v + s - 1 =< SizeMax
    PROVE  /\ RoundUp(v, s) = ((v + s - 1) \div s) * s
           /\ RoundUp(v, s) \in Nat
           /\ v =< RoundUp(v, s) /\ RoundUp(v, s) < v + s
           /\ RoundUp(v, s) \div s = (v + s - 1) \div s
           /\ RoundUp(v, s) \div s \in Nat
<1>1. SizeMax \in Nat  BY PageMathAssumption
<1>2. v + s - 1 \in Nat /\ SizeMax + 1 \in Nat \ {0} /\ v + s - 1 < SizeMax + 1
  BY <1>1
<1>3. (v + s - 1) % (SizeMax + 1) = v + s - 1  BY <1>2, ModSmall
<1>4. RoundUp(v, s) = ((v + s - 1) \div s) * s  BY <1>3 DEF RoundUp
<1> DEFINE q == (v + s - 1) \div s
<1>5. q \in Nat /\ q * s =< v + s - 1 /\ v + s - 1 < q * s + s
  BY <1>2, DivBounds
<1>6. q * s \in Nat  BY <1>5
<1>7. (q * s) \div s = q  BY <1>5, DivExact
<1> QED  BY <1>4, <1>5, <1>6, <1>7

LEMMA RoundUpIsNat ==
    ASSUME NEW v \in Nat, NEW s \in Nat \ {0}
    PROVE  RoundUp(v, s) \in Nat
<1>1. SizeMax + 1 \in Nat \ {0}  BY PageMathAssumption
<1>2. (v + s - 1) % (SizeMax + 1) \in Nat  BY <1>1
<1>3. ((v + s - 1) % (SizeMax + 1)) \div s \in Nat  BY <1>2, DivBounds
<1> QED  BY <1>3 DEF RoundUp

\* The constructor's checks: positions in the file round up to a page.
LEMMA PageRoundUp ==
    ASSUME NEW v \in Nat, v =< Size
    PROVE  /\ v + PageSize - 1 =< SizeMax
           /\ RoundUp(v, PageSize) \div PageSize \in Nat
           /\ RoundUp(v, PageSize) \div PageSize = (v + PageSize - 1) \div PageSize
           /\ RoundUp(v, PageSize) \div PageSize =< PageCount
<1>1. /\ PageSize \in Nat \ {0} /\ Size \in Nat /\ SizeMax \in Nat
      /\ Size =< SizeMax - PageSize
  BY PageMathAssumption
<1>2. v + PageSize - 1 =< SizeMax /\ Size + PageSize - 1 =< SizeMax  BY <1>1
<1>3. RoundUp(v, PageSize) \div PageSize = (v + PageSize - 1) \div PageSize
      /\ RoundUp(v, PageSize) \div PageSize \in Nat
  BY <1>1, <1>2, RoundUpNoWrap
<1>4. PageCount = (Size + PageSize - 1) \div PageSize
  BY <1>1, <1>2, RoundUpNoWrap DEF PageCount
<1>5. (v + PageSize - 1) \div PageSize =< (Size + PageSize - 1) \div PageSize
  BY <1>1, DivMonotone
<1> QED  BY <1>2, <1>3, <1>4, <1>5

LEMMA PageCountIsNat == PageCount \in Nat
  BY PageRoundUp, PageMathAssumption DEF PageCount

LEMMA WindowType == Window \in Nat /\ Window >= PageSize /\ Window # 0
<1>1. PageSize \in Nat \ {0} /\ ReadAhead \in Nat  BY PageMathAssumption
<1>2. RoundUp(ReadAhead, PageSize) \in Nat  BY <1>1, RoundUpIsNat
<1> QED  BY <1>1, <1>2 DEF Window, Greater

-----------------------------------------------------------------------------
LEMMA EndInFile ==
    ASSUME NEW r \in ByteRanges, InBounds(r)
    PROVE  /\ r.offset \in Nat /\ r.size \in Nat
           /\ r.offset + r.size \in Nat /\ r.offset + r.size =< Size
  BY PageMathAssumption DEF ByteRanges, InBounds

\* exact_pages stays in the page table: plan and check_present index p_pages
\* with what it returns.
THEOREM ExactInPages ==
    ASSUME NEW r \in ByteRanges, InBounds(r)
    PROVE  ExactPages(r) \subseteq Pages
<1>1. r.offset \in Nat /\ r.offset + r.size \in Nat /\ r.offset + r.size =< Size
  BY EndInFile
<1>2. RoundUp(r.offset + r.size, PageSize) \div PageSize \in Nat
      /\ RoundUp(r.offset + r.size, PageSize) \div PageSize =< PageCount
  BY <1>1, PageRoundUp
<1>3. r.offset \div PageSize \in Nat  BY <1>1, DivBounds, PageMathAssumption
<1> QED  BY <1>2, <1>3, PageCountIsNat DEF ExactPages, Pages

\* widened_pages stays in the page table too, wrapping or not: its end is
\* clamped to the file before it is turned into a page.
THEOREM WidenedInPages ==
    ASSUME NEW r \in ByteRanges, InBounds(r)
    PROVE  WidenedPages(r) \subseteq Pages
<1> DEFINE begin == (r.offset \div Window) * Window
           end   == Lesser(RoundUp(r.offset + r.size, Window), Size)
<1>1. r.offset \in Nat /\ r.offset + r.size \in Nat  BY EndInFile
<1>2. Window \in Nat \ {0}  BY WindowType
<1>3. RoundUp(r.offset + r.size, Window) \in Nat  BY <1>1, <1>2, RoundUpIsNat
<1>4. end \in Nat /\ end =< Size  BY <1>3, PageMathAssumption DEF Lesser
<1>5. RoundUp(end, PageSize) \div PageSize \in Nat
      /\ RoundUp(end, PageSize) \div PageSize =< PageCount
  BY <1>4, PageRoundUp
<1>6. begin \in Nat  BY <1>1, <1>2, DivBounds
<1>7. begin \div PageSize \in Nat  BY <1>6, DivBounds, PageMathAssumption
<1> HIDE DEF begin, end
<1>8. WidenedPages(r) = (begin \div PageSize) .. (RoundUp(end, PageSize) \div PageSize - 1)
  BY DEF WidenedPages, begin, end
<1> QED  BY <1>5, <1>7, <1>8, PageCountIsNat DEF Pages

\* Fetching the widened pages fetches what was asked for, when no position
\* of the file wraps as it is rounded up to a window.
THEOREM ExactInWidened ==
    ASSUME NoWrap, NEW r \in ByteRanges, InBounds(r)
    PROVE  ExactPages(r) \subseteq WidenedPages(r)
<1> DEFINE begin == (r.offset \div Window) * Window
           stop  == r.offset + r.size
           end   == Lesser(RoundUp(stop, Window), Size)
<1>1. r.offset \in Nat /\ stop \in Nat /\ stop =< Size  BY EndInFile
<1>2. /\ Window \in Nat \ {0} /\ PageSize \in Nat \ {0}
      /\ Size \in Nat /\ SizeMax \in Nat
  BY WindowType, PageMathAssumption
<1>3. stop + Window - 1 =< SizeMax  BY <1>1, <1>2 DEF NoWrap
<1>4. RoundUp(stop, Window) \in Nat /\ stop =< RoundUp(stop, Window)
  BY <1>1, <1>2, <1>3, RoundUpNoWrap
<1>5. end \in Nat /\ stop =< end /\ end =< Size
  BY <1>1, <1>2, <1>4 DEF Lesser
<1>6. begin \in Nat /\ begin =< r.offset  BY <1>1, <1>2, DivBounds
<1> HIDE DEF begin, stop, end
<1>7. begin \div PageSize =< r.offset \div PageSize
  BY <1>1, <1>2, <1>6, DivMonotone
<1>8. (stop + PageSize - 1) \div PageSize =< (end + PageSize - 1) \div PageSize
  BY <1>1, <1>2, <1>5, DivMonotone
<1>9. /\ RoundUp(stop, PageSize) \div PageSize = (stop + PageSize - 1) \div PageSize
      /\ RoundUp(stop, PageSize) \div PageSize \in Nat
      /\ RoundUp(end, PageSize) \div PageSize = (end + PageSize - 1) \div PageSize
      /\ RoundUp(end, PageSize) \div PageSize \in Nat
  BY <1>1, <1>5, PageRoundUp
<1>10. begin \div PageSize \in Nat /\ r.offset \div PageSize \in Nat
  BY <1>1, <1>2, <1>6, DivBounds
<1>11. WidenedPages(r) = (begin \div PageSize) .. (RoundUp(end, PageSize) \div PageSize - 1)
  BY DEF WidenedPages, begin, end, stop
<1>12. ExactPages(r) = (r.offset \div PageSize) .. (RoundUp(stop, PageSize) \div PageSize - 1)
  BY DEF ExactPages, stop
<1> QED  BY <1>7, <1>8, <1>9, <1>10, <1>11, <1>12

-----------------------------------------------------------------------------
(* Whole requests. *)

LEMMA ExtrasInBounds ==
    ASSUME NEW r \in FirstFetchExtras
    PROVE  r \in ByteRanges /\ InBounds(r)
  BY PageMathAssumption DEF FirstFetchExtras, ByteRanges, InBounds, Lesser

LEMMA ExtraPagesInPages == ExtraPages \subseteq Pages
  BY ExtrasInBounds, ExactInPages DEF ExtraPages, ExactOf

LEMMA RequestInPages ==
    ASSUME NEW request \in SUBSET ByteRanges, \A r \in request : InBounds(r)
    PROVE  /\ ExactOf(request) \subseteq Pages
           /\ WidenedOf(request) \subseteq Pages
           /\ NoWrap => ExactOf(request) \subseteq WidenedOf(request)
  BY ExactInPages, WidenedInPages, ExactInWidened DEF ExactOf, WidenedOf

LEMMA FirstRunIsPart == ASSUME NEW S PROVE FirstRun(S) \subseteq S
  BY DEF FirstRun

-----------------------------------------------------------------------------
(***************************************************************************)
(* What the arithmetic means: the pages it names are the pages of bytes.   *)
(***************************************************************************)

LEMMA DivUnique ==
    ASSUME NEW x \in Nat, NEW k \in Nat \ {0}, NEW q \in Nat, q * k =< x, x < q * k + k
    PROVE  x \div k = q
  OBVIOUS

LEMMA DivPlusOne ==
    ASSUME NEW x \in Nat, NEW k \in Nat \ {0}
    PROVE  (x + k) \div k = x \div k + 1
  OBVIOUS

LEMMA TimesMonotone ==
    ASSUME NEW p \in Nat, NEW q \in Nat, NEW k \in Nat \ {0}
    PROVE  /\ p * k \in Nat /\ q * k \in Nat
           /\ p =< q => p * k =< q * k
           /\ p < q => p * k + k =< q * k
  OBVIOUS

\* The blocks of k bytes that hold the bytes begin .. end - 1.
LEMMA BlocksOfInterval ==
    ASSUME NEW begin \in Nat, NEW end \in Nat, begin < end, NEW k \in Nat \ {0}
    PROVE  {b \div k : b \in begin .. (end - 1)} =
               (begin \div k) .. ((end + k - 1) \div k - 1)
<1> DEFINE low == begin \div k
           high == (end + k - 1) \div k
<1>1. low \in Nat /\ low * k =< begin /\ begin < low * k + k
  BY DivBounds
<1>2. end + k - 1 \in Nat
  OBVIOUS
<1>3. high \in Nat /\ high * k =< end + k - 1 /\ end + k - 1 < high * k + k
  BY <1>2, DivBounds
<1> HIDE DEF low, high
<1>4. ASSUME NEW b \in begin .. (end - 1)
      PROVE  b \div k \in low .. (high - 1)
  <2>1. b \in Nat /\ b + k \in Nat /\ begin =< b /\ b + k =< end + k - 1
    OBVIOUS
  <2>2. low =< b \div k /\ b \div k \in Nat
    BY <2>1, DivMonotone, DivBounds DEF low
  <2>3. b \div k + 1 =< high
    BY <2>1, <1>2, DivMonotone, DivPlusOne DEF high
  <2> QED  BY <1>1, <1>3, <2>2, <2>3
<1>5. ASSUME NEW q \in low .. (high - 1)
      PROVE  \E b \in begin .. (end - 1) : q = b \div k
  <2>1. q \in Nat /\ low =< q /\ q < high
    BY <1>1, <1>3
  <2>2. CASE q = low
    <3>1. begin \in begin .. (end - 1) /\ q = begin \div k
      BY <2>2 DEF low
    <3> QED  BY <3>1
  <2>3. CASE low < q
    <3>1. low * k + k =< q * k /\ q * k + k =< high * k
      BY <1>1, <1>3, <2>1, <2>3, TimesMonotone
    <3>2. q * k \in Nat /\ low * k \in Nat /\ high * k \in Nat
      BY <1>1, <1>3, <2>1, TimesMonotone
    <3>3. q * k \in begin .. (end - 1)
      BY <1>1, <1>3, <3>1, <3>2
    <3>4. q = (q * k) \div k
      BY <2>1, DivExact
    <3> QED  BY <3>3, <3>4
  <2> QED  BY <1>1, <2>1, <2>2, <2>3
<1> QED  BY <1>4, <1>5 DEF low, high

\* The same for the pages that a stretch of the file begins and ends in.
LEMMA PagesOfInterval ==
    ASSUME NEW begin \in Nat, NEW end \in Nat, begin < end, end =< Size
    PROVE  PagesOf(begin .. (end - 1)) =
               (begin \div PageSize) .. (RoundUp(end, PageSize) \div PageSize - 1)
<1>1. PageSize \in Nat \ {0}
  BY PageMathAssumption
<1>2. {b \div PageSize : b \in begin .. (end - 1)} =
          (begin \div PageSize) .. ((end + PageSize - 1) \div PageSize - 1)
  BY <1>1, BlocksOfInterval, ZenonT(30)
<1>3. RoundUp(end, PageSize) \div PageSize = (end + PageSize - 1) \div PageSize
  BY PageRoundUp
<1> QED  BY <1>2, <1>3 DEF PagesOf

\* check_bounds accepts a range exactly when all of its bytes are in the file,
\* also where offset + size would wrap.
THEOREM BoundsAreOfTheFile == BoundsAreTheFile
<1> SUFFICES ASSUME NEW r \in ByteRanges
             PROVE  InBounds(r) <=> (BytesIn(r) \subseteq OffsetsInFile /\ r.offset =< Size)
  BY DEF BoundsAreTheFile
<1>1. r.offset \in Nat /\ r.size \in Nat /\ Size \in Nat
  BY PageMathAssumption DEF ByteRanges
<1>2. InBounds(r) => BytesIn(r) \subseteq OffsetsInFile /\ r.offset =< Size
  BY <1>1 DEF InBounds, BytesIn, OffsetsInFile
<1>3. ASSUME BytesIn(r) \subseteq OffsetsInFile, r.offset =< Size, r.size # 0
      PROVE  InBounds(r)
  <2>1. r.offset + r.size - 1 \in BytesIn(r)
    BY <1>1, <1>3 DEF BytesIn
  <2>2. r.offset + r.size - 1 \in OffsetsInFile
    BY <1>3, <2>1
  <2> QED  BY <1>1, <1>3, <2>2 DEF OffsetsInFile, InBounds
<1>4. r.size = 0 /\ r.offset =< Size => InBounds(r)
  BY <1>1 DEF InBounds
<1> QED  BY <1>2, <1>3, <1>4

\* exact_pages names the pages that hold a byte of the range, and no other:
\* check_present looks at what the view shows and at nothing else.
THEOREM ExactPagesAreOfBytes ==
    ASSUME NEW r \in ByteRanges, InBounds(r), r.size # 0
    PROVE  ExactIsPagesOfBytes(r)
<1> DEFINE stop == r.offset + r.size
<1>1. r.offset \in Nat /\ stop \in Nat /\ stop =< Size /\ r.offset < stop
  BY EndInFile
<1>2. BytesIn(r) = r.offset .. (stop - 1)
  BY EndInFile DEF BytesIn
<1> HIDE DEF stop
<1>3. PagesOf(r.offset .. (stop - 1)) =
          (r.offset \div PageSize) .. (RoundUp(stop, PageSize) \div PageSize - 1)
  BY <1>1, PagesOfInterval
<1> QED  BY <1>2, <1>3 DEF ExactIsPagesOfBytes, ExactPages, stop

\* widened_pages names the pages of every byte of the file whose aligned
\* window holds a byte of the range: it never cuts a window short and never
\* takes a page of another one.
THEOREM WidenedPagesAreOfWindows ==
    ASSUME NEW r \in ByteRanges, InBounds(r), r.size # 0
    PROVE  WidenedIsPagesOfWindows(r)
<1> SUFFICES ASSUME NoWrap
             PROVE  WidenedPages(r) =
                        PagesOf({b \in OffsetsInFile :
                                     \E a \in BytesIn(r) : a \div Window = b \div Window})
  BY DEF WidenedIsPagesOfWindows
<1> DEFINE begin == (r.offset \div Window) * Window
           stop  == r.offset + r.size
           whole == RoundUp(stop, Window)
           end   == Lesser(whole, Size)
           bytes == {b \in OffsetsInFile : \E a \in BytesIn(r) : a \div Window = b \div Window}
<1>1. r.offset \in Nat /\ stop \in Nat /\ stop =< Size /\ r.offset < stop
  BY EndInFile
<1>2. Window \in Nat \ {0} /\ Size \in Nat /\ SizeMax \in Nat
  BY WindowType, PageMathAssumption
<1>3. stop + Window - 1 =< SizeMax
  BY <1>1, <1>2 DEF NoWrap
<1>4. whole \in Nat /\ stop =< whole /\ whole = ((stop + Window - 1) \div Window) * Window
      /\ (stop + Window - 1) \div Window \in Nat
  BY <1>1, <1>2, <1>3, RoundUpNoWrap, DivBounds
<1>5. begin \in Nat /\ begin =< r.offset /\ r.offset \div Window \in Nat
  BY <1>1, <1>2, DivBounds
<1>6. BytesIn(r) = r.offset .. (stop - 1)
  BY EndInFile DEF BytesIn
<1>7. WidenedPages(r) = (begin \div PageSize) .. (RoundUp(end, PageSize) \div PageSize - 1)
  BY DEF WidenedPages
<1> DEFINE low == r.offset \div Window
           high == (stop + Window - 1) \div Window
<1>8. begin = low * Window /\ whole = high * Window /\ low \in Nat /\ high \in Nat
  BY <1>4, <1>5
<1>9. {a \div Window : a \in r.offset .. (stop - 1)} = low .. (high - 1)
  BY <1>1, <1>2, BlocksOfInterval, ZenonT(30)
<1> HIDE DEF begin, stop, whole, end, low, high
<1>10. end \in Nat /\ begin < end /\ end =< Size /\ end =< whole
       /\ \A b \in Nat : b < end <=> b < whole /\ b < Size
  BY <1>1, <1>2, <1>4, <1>5 DEF end, Lesser
<1>11. ASSUME NEW b \in OffsetsInFile
       PROVE  b \in begin .. (end - 1) <=> b \div Window \in low .. (high - 1)
  <2>1. b \in Nat /\ b < Size
    BY <1>2, <1>11 DEF OffsetsInFile
  <2> DEFINE q == b \div Window
  <2>2. q \in Nat /\ q * Window =< b /\ b < q * Window + Window
    BY <1>2, <2>1, DivBounds
  <2> HIDE DEF q
  <2> DEFINE start == q * Window
  <2>3. /\ start \in Nat /\ start =< b /\ b < start + Window
        /\ low =< q => begin =< start
        /\ q < low => start + Window =< begin
        /\ high =< q => whole =< start
        /\ q < high => start + Window =< whole
    BY <1>2, <1>8, <2>2, TimesMonotone
  <2> HIDE DEF start
  <2>4. low =< q <=> begin =< b
    BY <1>2, <1>5, <1>8, <2>1, <2>2, <2>3
  <2>5. q < high <=> b < whole
    BY <1>2, <1>4, <1>8, <2>1, <2>2, <2>3
  <2>6. b \in begin .. (end - 1) <=> begin =< b /\ b < whole
    BY <1>5, <1>10, <2>1
  <2>7. q \in low .. (high - 1) <=> low =< q /\ q < high
    BY <1>8, <2>2
  <2> QED  BY <2>4, <2>5, <2>6, <2>7 DEF q
<1>12. begin .. (end - 1) \subseteq OffsetsInFile
  BY <1>2, <1>5, <1>10 DEF OffsetsInFile
<1>13. ASSUME NEW b \in OffsetsInFile
       PROVE  b \div Window \in low .. (high - 1)
              <=> \E a \in BytesIn(r) : a \div Window = b \div Window
  BY <1>6, <1>9
<1>14. bytes = begin .. (end - 1)
  BY <1>11, <1>12, <1>13
<1>15. PagesOf(begin .. (end - 1)) =
           (begin \div PageSize) .. (RoundUp(end, PageSize) \div PageSize - 1)
  BY <1>5, <1>10, PagesOfInterval
<1> QED  BY <1>7, <1>14, <1>15

\* The first fetch adds the last tail_prefetch bytes of the file, or all of a
\* file under download_whole_below, and no other page.
THEOREM ExtraPagesAreTailOrWhole == ExtrasAreTailOrWhole
<1>1. Size \in Nat /\ TailPrefetch \in Nat
  BY PageMathAssumption
<1> DEFINE tail  == Lesser(TailPrefetch, Size)
           whole == [offset |-> 0, size |-> Size]
           last  == [offset |-> Size - tail, size |-> tail]
<1>2. tail \in Nat /\ tail =< Size /\ tail =< TailPrefetch
      /\ \A b \in OffsetsInFile : Size - b =< TailPrefetch <=> Size - b =< tail
  BY <1>1 DEF Lesser, OffsetsInFile
<1> HIDE DEF tail
<1>3. CASE Size < DownloadWholeBelow
  <2>1. FirstFetchExtras = {whole}
    BY <1>3 DEF FirstFetchExtras
  <2>2. ExtraPages = ExactPages(whole)
    BY <2>1 DEF ExtraPages, ExactOf
  <2>3. whole \in ByteRanges /\ InBounds(whole)
    BY <2>1, ExtrasInBounds
  <2>4. CASE Size # 0
    <3>1. BytesIn(whole) = OffsetsInFile
      BY <1>1 DEF BytesIn, OffsetsInFile
    <3> QED  BY <1>3, <2>2, <2>3, <2>4, <3>1, ExactPagesAreOfBytes
               DEF ExactIsPagesOfBytes, ExtrasAreTailOrWhole
  <2>5. CASE Size = 0
    <3>1. RoundUp(0, PageSize) \div PageSize =< PageCount /\ Pages = 0 .. (PageCount - 1)
          /\ RoundUp(0, PageSize) \div PageSize \in Nat
      BY PageRoundUp, <1>1 DEF Pages
    <3>2. OffsetsInFile = {} /\ PagesOf(OffsetsInFile) = {}
      BY <2>5 DEF OffsetsInFile, PagesOf
    <3>3. PageSize \in Nat \ {0} /\ PageSize - 1 \in Nat /\ 0 + PageSize - 1 = PageSize - 1
      BY PageMathAssumption
    <3>4. (PageSize - 1) \div PageSize = 0
      BY <3>3, DivUnique
    <3>5. RoundUp(0, PageSize) \div PageSize = 0 /\ 0 \div PageSize = 0
      BY <1>1, <3>3, <3>4, PageRoundUp
    <3>6. ExactPages(whole) = {}
      BY <2>5, <3>5 DEF ExactPages
    <3> QED  BY <1>3, <2>2, <3>2, <3>6 DEF ExtrasAreTailOrWhole
  <2> QED  BY <2>4, <2>5
<1>4. CASE ~(Size < DownloadWholeBelow)
  <2>1. FirstFetchExtras = {x \in {last} : tail # 0}
    BY <1>4 DEF FirstFetchExtras, tail
  <2>2. CASE tail = 0
    <3>1. ExtraPages = {}
      BY <2>1, <2>2 DEF ExtraPages, ExactOf
    <3>2. {b \in OffsetsInFile : Size - b =< TailPrefetch} = {}
      BY <1>1, <1>2, <2>2 DEF OffsetsInFile
    <3> QED  BY <1>4, <3>1, <3>2 DEF PagesOf, ExtrasAreTailOrWhole
  <2>3. CASE tail # 0
    <3>1. FirstFetchExtras = {last}
      BY <2>1, <2>3
    <3>2. ExtraPages = ExactPages(last)
      BY <3>1 DEF ExtraPages, ExactOf
    <3>3. last \in ByteRanges /\ InBounds(last)
      BY <3>1, ExtrasInBounds
    <3>4. BytesIn(last) = {b \in OffsetsInFile : Size - b =< TailPrefetch}
      BY <1>1, <1>2 DEF BytesIn, OffsetsInFile
    <3>5. ExactPages(last) = PagesOf(BytesIn(last))
      BY <2>3, <3>3, ExactPagesAreOfBytes DEF ExactIsPagesOfBytes
    <3> QED  BY <1>4, <3>2, <3>4, <3>5 DEF ExtrasAreTailOrWhole
  <2> QED  BY <2>2, <2>3
<1> QED  BY <1>3, <1>4

\* The pages of a range that check_bounds let through, and of its windows.
THEOREM RangesHavePages == RangesHaveTheirPages
  BY ExactPagesAreOfBytes, WidenedPagesAreOfWindows DEF RangesHaveTheirPages

-----------------------------------------------------------------------------
(***************************************************************************)
(* A batch of the reader: one run of the claimed pages.                    *)
(***************************************************************************)

LEMMA LeastOfNaturals ==
    ASSUME NEW S \in SUBSET Nat, S # {}
    PROVE  \E x \in S : \A y \in S : x =< y
<1>1. \E R : R = {ss \in Nat \X Nat : ss[1] < ss[2]} /\ IsWellFoundedOn(R, Nat)
  BY NatLessThanWellFounded, Zenon DEF OpToRel
<1>2. PICK R : R = {ss \in Nat \X Nat : ss[1] < ss[2]} /\ IsWellFoundedOn(R, Nat)
  BY <1>1
<1>3. PICK x \in S : \A y \in S : ~(<<y, x>> \in R)
  BY <1>2, WFMin
<1>4. ASSUME NEW y \in S PROVE x =< y
  <2>1. <<y, x>> \notin R
    BY <1>3
  <2>2. <<y, x>> \in Nat \X Nat /\ <<y, x>>[1] = y /\ <<y, x>>[2] = x
    OBVIOUS
  <2>3. ~(y < x)
    BY <1>2, <2>1, <2>2
  <2> QED  BY <2>3
<1> QED  BY <1>4

\* The lowest and the highest of some pages.
LEMMA PagesHaveEnds ==
    ASSUME NEW S \in SUBSET Pages, S # {}
    PROVE  /\ First(S) \in S /\ \A p \in S : First(S) =< p
           /\ Last(S) \in S /\ \A p \in S : p =< Last(S)
<1>1. PageCount \in Nat /\ \A p \in S : p \in Nat /\ p < PageCount
  BY PageCountIsNat DEF Pages
<1>2. \E p \in S : \A q \in S : p =< q
  BY <1>1, LeastOfNaturals
<1> DEFINE below == {PageCount - 1 - p : p \in S}
<1>3. below \in SUBSET Nat /\ below # {}
  BY <1>1
<1>4. PICK x \in below : \A y \in below : x =< y
  BY <1>3, LeastOfNaturals
<1>5. PICK p \in S : x = PageCount - 1 - p
  BY <1>4
<1>6. ASSUME NEW q \in S PROVE q =< p
  <2>1. PageCount - 1 - q \in below
    OBVIOUS
  <2>2. PageCount - 1 - p =< PageCount - 1 - q
    BY <1>4, <1>5, <2>1
  <2> QED  BY <1>1, <2>2
<1> QED  BY <1>2, <1>6 DEF First, Last

\* What runs_of gives for the claimed pages and bytes_of for a run: the run
\* holds the lowest page and cannot be extended, and the bytes are the bytes of
\* the file in its pages.
THEOREM FirstRunIsMaximalBatch ==
    ASSUME NEW S \in SUBSET Pages, S # {}
    PROVE  RunIsMaximalBatch(S)
<1> DEFINE run == FirstRun(S)
           low == First(S)
           high == Last(run)
<1>1. /\ low \in S /\ \A p \in S : low =< p
      /\ PageCount \in Nat /\ \A p \in Pages : p \in Nat /\ p < PageCount
  BY PagesHaveEnds, PageCountIsNat DEF Pages
<1>2. low \in run
  BY <1>1 DEF FirstRun
<1>3. run \subseteq S
  BY DEF FirstRun
<1>4. high \in run /\ \A p \in run : p =< high
  BY <1>2, <1>3, PagesHaveEnds
<1>5. \A q \in Pages : q < high => q \in S \/ \A s \in S : q < s
  BY <1>4 DEF FirstRun
<1>6. low \in Nat /\ high \in Nat /\ low =< high /\ high < PageCount
  BY <1>1, <1>2, <1>3, <1>4
<1> HIDE DEF run, low, high
<1>7. ASSUME NEW q \in low .. high PROVE q \in run
  <2>1. q \in Pages /\ q \in Nat /\ low =< q /\ q =< high
    BY <1>1, <1>6 DEF Pages
  <2>2. q \in S
    <3>1. CASE q = high
      BY <1>3, <1>4, <3>1
    <3>2. CASE q < high
      <4>1. ~(q < low)
        BY <1>6, <2>1
      <4> QED  BY <1>1, <1>5, <2>1, <3>2, <4>1
    <3> QED  BY <1>6, <2>1, <3>1, <3>2
  <2>3. \A o \in Pages : o < q => o \in S \/ \A s \in S : o < s
    BY <1>1, <1>5, <1>6, <2>1
  <2> QED  BY <2>2, <2>3 DEF run, FirstRun
<1>8. run = low .. high
  <2>1. ASSUME NEW p \in run PROVE p \in low .. high
    <3>1. p \in Nat /\ low =< p /\ p =< high
      BY <1>1, <1>3, <1>4
    <3> QED  BY <1>6, <3>1
  <2> QED  BY <1>7, <2>1
<1>9. ASSUME NEW p \in S \ run PROVE p > high + 1
  <2>1. p \in Nat /\ low =< p /\ p \notin low .. high
    BY <1>1, <1>8
  <2>2. p > high
    BY <1>6, <2>1
  <2>3. CASE p = high + 1
    <3>1. ASSUME NEW o \in Pages, o < p PROVE o \in S \/ \A s \in S : o < s
      <4>1. o = high \/ o < high
        BY <1>1, <1>6, <2>3, <3>1
      <4> QED  BY <1>3, <1>4, <1>5, <4>1
    <3>2. p \in run
      BY <3>1 DEF run, FirstRun
    <3> QED  BY <3>2
  <2> QED  BY <1>6, <2>1, <2>2, <2>3
<1> DEFINE begin == low * PageSize
           whole == (high - low + 1) * PageSize
           stop  == (high + 1) * PageSize
<1>10. PageSize \in Nat \ {0} /\ Size \in Nat
  BY PageMathAssumption
<1>11. begin \in Nat /\ whole \in Nat /\ stop \in Nat /\ stop = begin + whole
       /\ stop = high * PageSize + PageSize
  BY <1>6, <1>10
<1>12. begin < Size
  <2>1. PageCount = (Size + PageSize - 1) \div PageSize
    BY <1>10, PageRoundUp DEF PageCount
  <2>2. PageCount * PageSize =< Size + PageSize - 1
    BY <1>10, <2>1, DivBounds
  <2>3. begin + PageSize =< PageCount * PageSize /\ PageCount * PageSize \in Nat
    BY <1>1, <1>6, <1>10, TimesMonotone
  <2> QED  BY <1>10, <1>11, <2>2, <2>3
<1>13. First(run) = low
  <2>1. First(run) \in run /\ \A p \in run : First(run) =< p
    BY <1>2, <1>3, PagesHaveEnds
  <2>2. low =< First(run) /\ First(run) =< low /\ First(run) \in Nat
    BY <1>1, <1>2, <1>3, <2>1
  <2> QED  BY <1>6, <2>2
<1>14. BytesOf(run) = [offset |-> begin, size |-> Lesser(whole, Size - begin)]
  BY <1>13 DEF BytesOf, high
<1>15. ASSUME NEW b \in OffsetsInFile
       PROVE  b \in BytesIn(BytesOf(run)) <=> b \div PageSize \in run
  <2>1. b \in Nat /\ b < Size
    BY <1>10 DEF OffsetsInFile
  <2> DEFINE q == b \div PageSize
             start == q * PageSize
  <2>2. q \in Nat /\ start =< b /\ b < start + PageSize
    BY <1>10, <2>1, DivBounds
  <2>3. /\ start \in Nat
        /\ low =< q => begin =< start
        /\ q < low => start + PageSize =< begin
        /\ high + 1 =< q => stop =< start
        /\ q < high + 1 => start + PageSize =< stop
    BY <1>6, <1>10, <2>2, TimesMonotone
  <2> HIDE DEF q, start, begin, stop, whole
  <2>4. low =< q <=> begin =< b
    BY <1>6, <1>10, <1>11, <2>1, <2>2, <2>3
  <2>5. q =< high <=> b < stop
    BY <1>6, <1>10, <1>11, <2>1, <2>2, <2>3
  <2>6. b \in BytesIn(BytesOf(run)) <=> begin =< b /\ b < stop
    BY <1>10, <1>11, <1>12, <1>14, <2>1 DEF BytesIn, Lesser
  <2> QED  BY <1>6, <1>8, <2>2, <2>4, <2>5, <2>6 DEF q
<1>16. BytesIn(BytesOf(run)) \subseteq OffsetsInFile
  <2> HIDE DEF begin, stop, whole
  <2> QED  BY <1>10, <1>11, <1>12, <1>14 DEF BytesIn, Lesser, OffsetsInFile
<1> HIDE DEF begin, stop, whole
<1>17. BytesIn(BytesOf(run)) = {b \in OffsetsInFile : b \div PageSize \in run}
  BY <1>15, <1>16
<1> QED  BY <1>2, <1>8, <1>9, <1>13, <1>17 DEF run, low, high, RunIsMaximalBatch

\* What check_bounds lets through and what a batch asks the reader for is the
\* file, once, for every page size and file size.
THEOREM BatchesAreInFile == BatchesStayInFile
  BY BoundsAreOfTheFile, FirstRunIsMaximalBatch DEF BatchesStayInFile

=============================================================================
