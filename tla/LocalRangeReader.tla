-------------------------- MODULE LocalRangeReader --------------------------
(***************************************************************************)
(* local_range_reader: reads batches of ranges of a file into one          *)
(* destination each, and logs every batch it serves.  A destination is its *)
(* bytes; a read either returns them or throws.                            *)
(* Definitions named X_Y are plausible errors in X, for the mutation runs. *)
(***************************************************************************)
EXTENDS Integers, Sequences, SequencesExt

CONSTANTS FileBytes                  \* the bytes of the file, from 1

EmptyLog == [batches |-> <<>>, served |-> 0]

Outside(r) == r.offset > Len(FileBytes) \/ r.size > Len(FileBytes) - r.offset

TotalSize(ranges) ==
    LET total[k \in 0 .. Len(ranges)] == IF k = 0 THEN 0 ELSE total[k - 1] + ranges[k].size
    IN  total[Len(ranges)]

Logged(log, ranges) ==
    [batches |-> Append(log.batches, ranges), served |-> log.served + TotalSize(ranges)]

Copied(r) == SubSeq(FileBytes, r.offset + 1, r.offset + r.size)

ReadRanges_ChecksWhileCopying(log, ranges, destinations) ==
    IF Len(destinations) # Len(ranges) THEN [threw |-> TRUE, log |-> log, read |-> destinations]
    ELSE [threw |-> \E i \in DOMAIN ranges : Outside(ranges[i]),
          log |-> Logged(log, ranges),
          read |-> [i \in DOMAIN destinations |->
                       IF \E k \in 1 .. i : Outside(ranges[k]) THEN destinations[i]
                       ELSE Copied(ranges[i])]]

\* Every range is checked before the batch is logged and the first is copied.
ReadRanges(log, ranges, destinations) ==
    IF \/ Len(destinations) # Len(ranges)
       \/ \E i \in DOMAIN ranges : Outside(ranges[i])
    THEN [threw |-> TRUE, log |-> log, read |-> destinations]
    ELSE [threw |-> FALSE, log |-> Logged(log, ranges), read |-> [i \in DOMAIN ranges |-> Copied(ranges[i])]]

-----------------------------------------------------------------------------
\* A batch with a range that is not in the file, or without a destination for
\* each, is refused before any byte is copied or logged; else each destination
\* gets its range, and the batch and all of its bytes are logged.
AllOrNothing(log, ranges, before) ==
    LET inside == \A i \in DOMAIN ranges :
                     ranges[i].offset + ranges[i].size <= Len(FileBytes)
        out    == ReadRanges(log, ranges, before)
    IN  IF out.threw THEN /\ ~inside \/ Len(before) # Len(ranges)
                          /\ out.log = log /\ out.read = before
        ELSE /\ inside /\ Len(out.read) = Len(before)
             /\ out.log.batches = Append(log.batches, ranges)
             /\ out.log.served = log.served + Len(FlattenSeq(out.read))
             /\ \A i \in DOMAIN ranges :
                   /\ Len(out.read[i]) = ranges[i].size
                   /\ \A k \in 1 .. ranges[i].size :
                         out.read[i][k] = FileBytes[ranges[i].offset + k]

ByteRange == [offset : Nat, size : Nat]

=============================================================================
