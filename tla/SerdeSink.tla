----------------------------- MODULE SerdeSink ------------------------------
(***************************************************************************)
(* What serialize writes into: memory, at an offset the caller names, or a *)
(* sequential_writer, which appends to a vector or to a file.  A call is a *)
(* sequence of writes, one for each field or array; each stands right      *)
(* after the one before it, and any may be the last, as it throws.         *)
(* Definitions named X_Y are plausible errors in X, for the mutation runs. *)
(***************************************************************************)
EXTENDS Endianness

CONSTANTS
    Offsets,          \* where a caller serializes to in memory
    Memories,         \* what memory, or the writer's vector, holds before
    None

ASSUME SinkAssumption ==
    /\ Offsets \subseteq Nat
    /\ Memories \subseteq Seq(Byte)
    /\ None \notin Nat

VARIABLES
    sink,             \* [kind, bytes, cursor, good]
    calling,          \* is serialize under way?
    pending,          \* the writes it still has to make
    pieces,           \* the writes made: in memory by this call, else of all calls
    start,            \* where this call's bytes start
    before,           \* the bytes of the sink at the start of this call
    returned          \* what serialize returned last, or None

sinkVars == <<sink, calling, pending, pieces, start, before, returned>>

-----------------------------------------------------------------------------
\* A byte sink grows when it is too short, and is never cut.
StoreInMemory_Resizes(memory, at, bytes) ==
    [i \in 1 .. (at + Len(bytes)) |->
        IF i > at THEN bytes[i - at] ELSE IF i \in DOMAIN memory THEN memory[i] ELSE 0]

StoreInMemory(memory, at, bytes) ==
    LET end == at + Len(bytes)
    IN  [i \in 1 .. (IF end > Len(memory) THEN end ELSE Len(memory)) |->
            IF i \in (at + 1) .. end THEN bytes[i - at]
            ELSE IF i \in DOMAIN memory THEN memory[i] ELSE 0]

\* The writers: a vector is resized to the end of each write, what it held
\* before the first one included.
Appended(s, bytes) == SubSeq(s.bytes, 1, s.cursor) \o bytes

\* A stream that has failed drops a write, and the writer counts it all the same.
WriteTo(s, bytes) ==
    [s EXCEPT !.cursor = @ + Len(bytes),
              !.bytes = IF ~s.good THEN @
                        ELSE IF s.kind = "memory" THEN StoreInMemory(@, s.cursor, bytes)
                        ELSE Appended(s, bytes)]

\* What serialize returns: the offset reached in memory; a writer's own position,
\* not that of this call.
Position_OfCall(s, from) == IF s.kind = "memory" THEN s.cursor ELSE s.cursor - from

Position(s, from) == s.cursor

\* The file is truncated, or cannot be opened.
NewSinks ==
    [kind : {"memory", "vector"}, bytes : Memories, cursor : {0}, good : {TRUE}]
        \cup [kind : {"file"}, bytes : {<<>>}, cursor : {0}, good : BOOLEAN]

-----------------------------------------------------------------------------
SinkInit ==
    /\ sink \in NewSinks
    /\ calling = FALSE /\ pending = <<>> /\ pieces = <<>>
    /\ start = 0 /\ before = sink.bytes
    /\ returned = None

\* serialize(value, sink, offset); a writer does not look at the offset.
Begin(writes, offset) ==
    /\ ~calling
    /\ calling' = TRUE
    /\ pending' = writes
    /\ start' = IF sink.kind = "memory" THEN offset ELSE sink.cursor
    /\ sink' = [sink EXCEPT !.cursor = start']
    /\ before' = sink.bytes
    /\ pieces' = IF sink.kind = "memory" THEN <<>> ELSE pieces
    /\ returned' = None

Put ==
    /\ calling /\ pending # <<>>
    /\ sink' = WriteTo(sink, Head(pending))
    /\ pieces' = Append(pieces, Head(pending))
    /\ pending' = Tail(pending)
    /\ UNCHANGED <<calling, start, before, returned>>

\* No memory to grow by, or for the buffer of a write: the call ends here.
PutThrows ==
    /\ calling /\ pending # <<>>
    /\ sink.kind = "memory" => sink.cursor + Len(Head(pending)) > Len(sink.bytes)
    /\ calling' = FALSE
    /\ pending' = <<>>
    /\ UNCHANGED <<sink, pieces, start, before, returned>>

Return ==
    /\ calling /\ pending = <<>>
    /\ calling' = FALSE
    /\ returned' = Position(sink, start)
    /\ UNCHANGED <<sink, pending, pieces, start, before>>

\* The disk is full: of what the stream was given, an end that it still held is
\* lost, and all it is given from here on.
StreamFails ==
    /\ sink.kind = "file" /\ sink.good
    /\ \E n \in 0 .. Len(sink.bytes) :
         sink' = [sink EXCEPT !.good = FALSE, !.bytes = SubSeq(@, 1, n)]
    /\ UNCHANGED <<calling, pending, pieces, start, before, returned>>

SinkNext ==
    \/ \E writes \in Seq(Seq(Byte)), offset \in Offsets : Begin(writes, offset)
    \/ Put
    \/ PutThrows
    \/ Return
    \/ StreamFails

SinkSpec == SinkInit /\ [][SinkNext]_sinkVars

-----------------------------------------------------------------------------
\* The type invariant.
SinkTypeOK ==
    /\ sink \in [kind : {"memory", "vector", "file"}, bytes : Seq(Byte), cursor : Nat,
                 good : BOOLEAN]
    /\ calling \in BOOLEAN
    /\ pending \in Seq(Seq(Byte)) /\ pieces \in Seq(Seq(Byte))
    /\ start \in Nat /\ before \in Seq(Byte)
    /\ returned \in Nat \cup {None}

\* serialize into memory at an offset writes its bytes there and no others: what
\* the memory held before and after them stays, it grows no further than where
\* they end, and serialize returns that place; half way through a call, and after one that
\* threw, as well.
SerializeStaysInside ==
    sink.kind = "memory" =>
        LET mine == FlattenSeq(pieces)
        IN  /\ sink.cursor = start + Len(mine)
            /\ SubSeq(sink.bytes, start + 1, sink.cursor) = mine
            /\ \A i \in DOMAIN before \ ((start + 1) .. sink.cursor) :
                   i \in DOMAIN sink.bytes /\ sink.bytes[i] = before[i]
            /\ Len(sink.bytes) <= Len(before) \/ Len(sink.bytes) <= sink.cursor
            /\ returned \in {None, sink.cursor}

\* Structures chained through a writer stand one behind the other and nothing of
\* what the vector held before is among them; after a stream failed, what it holds
\* is still what came first.  serialize returns the position in all that was
\* written through the writer, not in this call (serialization.hpp), a failed
\* stream or not, an earlier call that threw or not.
WriterKeepsOrder ==
    sink.kind # "memory" =>
        LET all == FlattenSeq(pieces)
        IN  /\ IF sink.good THEN pieces # <<>> => sink.bytes = all
               ELSE IsPrefix(sink.bytes, all)
            /\ sink.cursor = Len(all)
            /\ returned \in {None, Len(all)}

=============================================================================
