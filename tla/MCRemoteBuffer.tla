--------------------------- MODULE MCRemoteBuffer ---------------------------
(***************************************************************************)
(* Instances of RemoteBuffer for TLC: files of a few two-byte pages, whose *)
(* last page is a partial one, and requests chosen so that windows of two  *)
(* threads overlap, one request makes two runs, and a range is empty.      *)
(***************************************************************************)
EXTENDS RemoteBuffer, TLC

CONSTANTS t1, t2, t3

TwoThreads   == {t1, t2}
ThreeThreads == {t1, t2, t3}

Symmetry == Permutations(Threads)

Bytes(offset, size) == [offset |-> offset, size |-> size]

\* For 4 pages, 0..3, and windows {0, 1} and {2, 3}.
FourPageRequests ==
    { {Bytes(0, 1)},               \* the first window
      {Bytes(3, 2)},               \* crosses both windows
      {Bytes(0, 1), Bytes(6, 1)},  \* both ends of the file
      {Bytes(5, 0)},               \* nothing
      {Bytes(6, 2)} }              \* past the end: throws

\* Few requests, for the runs that cost more.
ShortRequests == { {Bytes(0, 1)}, {Bytes(0, 1), Bytes(2, 1)} }

=============================================================================
