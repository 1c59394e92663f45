----------------------------- MODULE Endianness -----------------------------
(***************************************************************************)
(* Values and the bytes that represent them, in the byte order of the host *)
(* and in that of the data.  A byte is a digit of base Base, a value of    *)
(* width w one of w digits, sizeof(T) is the width, and a place in memory  *)
(* holds a value's bytes in the order of the host.                         *)
(* Definitions named X_Y are plausible errors in X, for the mutation runs. *)
(***************************************************************************)
EXTENDS Integers, Sequences, SequencesExt

CONSTANTS
    Base,         \* 256, or fewer in a small instance
    Host          \* "little" or "big"

Orders == {"little", "big"}

ASSUME EndiannessAssumption == Base \in Nat \ {0, 1} /\ Host \in Orders

Byte   == 0 .. (Base - 1)

\* The value of bytes, least significant first: that of the last n of them.
LittleValue(bytes) ==
    LET value[n \in 0 .. Len(bytes)] ==
            IF n = 0 THEN 0 ELSE bytes[Len(bytes) - n + 1] + Base * value[n - 1]
    IN  value[Len(bytes)]

\* The bytes of a value: what is left of it after each, and its last digit.
LittleBytes(v, w) ==
    LET left[i \in 0 .. w] == IF i = 0 THEN v ELSE left[i - 1] \div Base
    IN  [i \in 1 .. w |-> left[i - 1] % Base]

\* memcpy from and to an object of the host.
FromMemory(bytes) == IF Host = "little" THEN LittleValue(bytes) ELSE LittleValue(Reverse(bytes))
ToMemory(v, w) == IF Host = "little" THEN LittleBytes(v, w) ELSE Reverse(LittleBytes(v, w))

\* bswap of the integer with the same representation.
ByteSwap(v, w) == FromMemory(Reverse(ToMemory(v, w)))

Decode_NoSwap(order, bytes) == FromMemory(bytes)

\* A swap only when the orders differ, and never for a single byte.
Decode(order, bytes) ==
    IF Len(bytes) > 1 /\ order # Host THEN ByteSwap(FromMemory(bytes), Len(bytes))
    ELSE FromMemory(bytes)

Encode(order, v, w) ==
    ToMemory(IF w > 1 /\ order # Host THEN ByteSwap(v, w) ELSE v, w)

\* An Endianness known at run time only; unknown is taken for little.
RuntimeOrder(order) == IF order = "big" THEN "big" ELSE "little"

DecodeAtRunTime(order, bytes) == Decode(RuntimeOrder(order), bytes)

EncodeAtRunTime(order, v, w) == Encode(RuntimeOrder(order), v, w)

\* The i-th of the values of w bytes in memory that are behind its first `at` bytes.
ValueAt(memory, at, w, i) == SubSeq(memory, at + (i - 1) * w + 1, at + i * w)

\* memcpy over what memory holds behind its first `at` bytes.
StoreAt(memory, at, bytes) ==
    [a \in DOMAIN memory |->
        IF a \in (at + 1) .. (at + Len(bytes)) THEN bytes[a - at] ELSE memory[a]]

\* `size` values, from `data` to `output`: swapped one by one, each loaded from what
\* the stores before it left, or copied at once, if they are to move at all.
ImplDecode_v(order, memory, data, size, output, w) ==
    LET swapped(m, i) == ToMemory(ByteSwap(FromMemory(ValueAt(m, data, w, i)), w), w)
        after[i \in 0 .. size] ==
            IF i = 0 THEN memory
            ELSE StoreAt(after[i - 1], output + (i - 1) * w, swapped(after[i - 1], i))
    IN  IF w > 1 /\ order # Host THEN after[size]
        ELSE IF size > 0 /\ data # output
        THEN StoreAt(memory, output, SubSeq(memory, data + 1, data + size * w))
        ELSE memory

\* In place, of values: size counts them.
Decode_vInPlace(order, memory, data, size, w) ==
    ImplDecode_v(order, memory, data, size, data, w)

Decode_v_DividesFirst(order, memory, data, size, unit, output, w) ==
    ImplDecode_v(order, memory, data, (size \div w) * unit, output, w)

\* From elements of `unit` bytes, size counts those: as many values as their bytes fill.
Decode_v(order, memory, data, size, unit, output, w) ==
    ImplDecode_v(order, memory, data, (size * unit) \div w, output, w)

Encode_v(order, values, w) ==
    FlattenSeq([i \in 1 .. Len(values) |-> Encode(order, values[i], w)])

-----------------------------------------------------------------------------
(* What bytes mean, whatever the host. *)

\* The sum of the bytes, each weighed by its place, the first the least.
WeighedSum(bytes) ==
    LET weight[i \in 0 .. Len(bytes)] == IF i = 0 THEN 1 ELSE Base * weight[i - 1]
        sum[i \in 0 .. Len(bytes)] ==
            IF i = 0 THEN 0 ELSE sum[i - 1] + bytes[i] * weight[i - 1]
    IN  sum[Len(bytes)]

\* Little endian where the order is unknown.
Meaning(order, bytes) == WeighedSum(IF order = "big" THEN Reverse(bytes) ELSE bytes)

\* decode gives the value the bytes mean in their own order, whatever the host's,
\* and encode the bytes back.
DecodeIsMeaning(order, bytes) ==
    /\ DecodeAtRunTime(order, bytes) = Meaning(order, bytes)
    /\ EncodeAtRunTime(order, Meaning(order, bytes), Len(bytes)) = bytes

\* The i-th chunk of w bytes.
Chunk(bytes, w, i) == SubSeq(bytes, (i - 1) * w + 1, i * w)

\* decode_v puts the values that the bytes mean where it is told to, as values of the
\* host, and leaves every other byte as it was: the room it does not need, the input
\* it does not decode in place, and a trailing part of a value.  encode_v of the
\* values gives their bytes back.
VectorsAreWholeValues(order, bytes, unit, w, room) ==
    LET known  == RuntimeOrder(order)
        memory == room \o bytes
        data   == Len(room)
        count  == Len(bytes) \div w
        values == [i \in 1 .. count |-> Meaning(order, Chunk(bytes, w, i))]
        Decoded(after, at) ==
            /\ Len(after) = Len(memory)
            /\ \A i \in 1 .. count : FromMemory(ValueAt(after, at, w, i)) = values[i]
            /\ \A a \in 1 .. Len(memory) :
                  a \notin (at + 1) .. (at + count * w) => after[a] = memory[a]
    IN  /\ Decoded(Decode_v(known, memory, data, Len(bytes) \div unit, unit, 0, w), 0)
        /\ Decoded(Decode_vInPlace(known, memory, data, count, w), data)
        /\ Encode_v(known, values, w) = SubSeq(bytes, 1, count * w)

=============================================================================
