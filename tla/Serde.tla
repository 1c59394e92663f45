------------------------------- MODULE Serde --------------------------------
(***************************************************************************)
(* serde: structures described by their fields, serialized to and          *)
(* deserialized from bytes field by field, with sizes found in sibling     *)
(* fields or in a context, into the sinks of SerdeSink.                    *)
(*                                                                         *)
(* A schema is a byte order and a sequence of fields, those of SerdeFields *)
(* among them; an object has one value per field.                          *)
(* Definitions named X_Y are plausible errors in X, for the mutation runs. *)
(***************************************************************************)
EXTENDS SerdeSink, SerdeFields, Members, FiniteSets

CONSTANTS
    Schemas,          \* the structures to try
    Samples(_),       \* objects of a schema that a caller fills in
    Inputs,           \* byte sequences to deserialize
    Context,          \* the size the context gives
    SizeOfString,     \* sizeof(std::string) and of the real type of scaled
    Reuse,            \* may a caller deserialize into an object used before?
    MaxRecords        \* bound: structures written into one sink

VARIABLES
    schema, object,
    consumed,         \* how many bytes the object was deserialized from, or None
    records           \* how many structures were written

serdeVars == <<schema, object, consumed, records, sinkVars>>

-----------------------------------------------------------------------------
(* The fields that hold other fields, or whose size is not fixed. *)

Unused(f)          == [kind |-> "unused", of |-> f]
Composite(s)       == [kind |-> "composite", schema |-> s]
Dynamic(f, from)   == [kind |-> "dynamic", of |-> f, from |-> from]
DynBytes(w, from)  == [kind |-> "bytes", width |-> w, from |-> from]
UntilEof(f)        == [kind |-> "tail", of |-> f]

Schema(order, fields) == [order |-> order, fields |-> fields]

RECURSIVE Blank(_)
Blank(f) ==
    CASE f.kind \in {"scalar", "scaled"} -> 0
      [] f.kind = "static" -> [i \in 1 .. f.count |-> 0]
      [] f.kind = "unused" -> Blank(f.of)
      [] f.kind = "composite" -> [i \in DOMAIN f.schema.fields |-> Blank(f.schema.fields[i])]
      [] OTHER -> <<>>

\* A value-initialized structure.
Fresh(s) == Blank(Composite(s))

\* A structure accepts an initializer for each of its first members, so all of
\* its members have a default.
Accepted(s) == 0 .. Len(s.fields)

\* SPLIT_FIELDS: the members of a structure, in the order of their declaration.
SplitFields(s) == 1 .. MemberCounter(Accepted(s))

-----------------------------------------------------------------------------
(* Sizes known at compile time. *)

RECURSIVE HasConstSize(_)
HasConstSize(f) ==
    CASE f.kind \in {"dynamic", "bytes", "tail"} -> FALSE
      [] f.kind = "unused" -> HasConstSize(f.of)
      [] f.kind = "composite" -> \A i \in SplitFields(f.schema) : HasConstSize(f.schema.fields[i])
      [] OTHER -> TRUE

RECURSIVE SizeOf(_)
SizeOf(f) ==
    CASE f.kind = "scalar" -> f.width
      [] f.kind = "static" -> f.width * f.count
      [] f.kind = "unused" -> SizeOf(f.of)
      [] f.kind = "padding" -> 1
      [] OTHER -> SizeOfString

Total(sizes) == FoldLeft(LAMBDA a, b : a + b, 0, sizes)

RECURSIVE ConstSize_SizeOf(_)
ConstSize_SizeOf(f) ==
    IF f.kind = "composite"
    THEN Total([i \in SplitFields(f.schema) |-> ConstSize_SizeOf(f.schema.fields[i])])
    ELSE SizeOf(f)

\* field_size: the wire_size a wrapper declares, the sum of a composite, else
\* sizeof.
RECURSIVE ConstSize(_)
ConstSize(f) ==
    CASE f.kind = "padding" -> f.size
      [] f.kind = "text" -> f.max
      [] f.kind = "scaled" -> f.width
      [] f.kind = "composite" ->
           Total([i \in SplitFields(f.schema) |-> ConstSize(f.schema.fields[i])])
      [] OTHER -> SizeOf(f)

-----------------------------------------------------------------------------
(* Sizes at run time, of the value in memory. *)

RECURSIVE RuntimeSize(_, _)
RuntimeSize(f, value) ==
    CASE f.kind \in FixedKinds -> FixedSize(f)
      [] f.kind = "bytes" -> f.width * Len(value)
      [] f.kind = "unused" -> RuntimeSize(f.of, value)
      [] f.kind = "composite" ->
           Total([i \in SplitFields(f.schema) |-> RuntimeSize(f.schema.fields[i], value[i])])
      [] OTHER -> Total([i \in DOMAIN value |-> RuntimeSize(f.of, value[i])])

-----------------------------------------------------------------------------
(* Deserialization. *)

\* field_size(field, context) if the structure has it, else field_size(field).
Resolve(f, parent) == IF f.from = 0 THEN Context ELSE parent[f.from]

\* resize keeps what was there.
Resized(value, n, blank) == [i \in 1 .. n |-> IF i \in DOMAIN value THEN value[i] ELSE blank]

RECURSIVE LoadField(_, _, _, _, _, _)

LoadComposite(s, old, input, at) ==
    FoldLeft(LAMBDA acc, i :
                LET r == LoadField(s.fields[i], s.order, acc.value, acc.value[i], input, acc.at)
                IN  Loaded([acc.value EXCEPT ![i] = r.value], r.at, acc.over \/ r.over),
             Loaded(old, at, FALSE), [i \in SplitFields(s) |-> i])

LoadElements(f, order, values, input, at) ==
    IF f.kind = "scalar" THEN ReadMany(input, at, f.width, Len(values), order)
    ELSE FoldLeft(LAMBDA acc, i :
                     LET r == LoadComposite(f.schema, values[i], input, acc.at)
                     IN  Loaded(Append(acc.value, r.value), r.at, acc.over \/ r.over),
                  Loaded(<<>>, at, FALSE), [i \in DOMAIN values |-> i])

RECURSIVE LoadRecords(_, _, _, _, _)
LoadRecords(f, values, input, at, over) ==
    IF at >= Len(input) THEN Loaded(values, at, over)
    ELSE LET r == LoadComposite(f.schema, Blank(f), input, at)
         IN  LoadRecords(f, Append(values, r.value), input, r.at, over \/ r.over)

\* An array whose count is 0 is not touched.
LoadArray(f, order, n, old, input, at) ==
    IF n = 0 THEN Loaded(old, at, FALSE)
    ELSE LoadElements(f.of, order, Resized(old, n, Blank(f.of)), input, at)

LoadTail(f, order, old, input, at) ==
    IF ~HasConstSize(f.of) THEN LoadRecords(f.of, old, input, at, FALSE)
    ELSE IF at > Len(input) THEN Loaded(old, at, TRUE)     \* size() - offset wraps
    ELSE LoadArray(f, order, (Len(input) - at) \div ConstSize(f.of), old, input, at)

LoadBytes(f, order, bytes, old, input, at) ==
    LET n == bytes \div f.width
    IN  [ReadMany(input, at, f.width, n, order) EXCEPT
            !.at = at + bytes, !.value = IF n = 0 THEN old ELSE @]

LoadField(f, order, parent, old, input, at) ==
    CASE f.kind \in FixedKinds -> LoadFixed(f, order, old, input, at)
      [] f.kind = "unused" ->
           [LoadField(f.of, order, parent, Blank(f.of), input, at) EXCEPT !.value = old]
      [] f.kind = "composite" -> LoadComposite(f.schema, old, input, at)
      [] f.kind = "dynamic" -> LoadArray(f, order, Resolve(f, parent), old, input, at)
      [] f.kind = "bytes" -> LoadBytes(f, order, Resolve(f, parent), old, input, at)
      [] f.kind = "tail" -> LoadTail(f, order, old, input, at)

-----------------------------------------------------------------------------
(* Serialization: the writes a value makes, in order, each right after the *)
(* one before it.                                                          *)

RECURSIVE Writes(_, _, _)
Writes(f, order, value) ==
    CASE f.kind \in FixedKinds -> <<StoreFixed(f, order, value)>>
      [] f.kind = "unused" -> Writes(f.of, order, value)
      [] f.kind = "composite" ->
           FlattenSeq([i \in SplitFields(f.schema) |->
                          Writes(f.schema.fields[i], f.schema.order, value[i])])
      [] f.kind \in {"dynamic", "tail"} /\ f.of.kind = "composite" ->
           FlattenSeq([i \in DOMAIN value |-> Writes(f.of, order, value[i])])
      [] OTHER ->                       \* an array of scalars, in one write
           IF value = <<>> THEN <<>>
           ELSE <<Encode_v(order, value, IF "of" \in DOMAIN f THEN f.of.width ELSE f.width)>>

Bytes(s, value) == FlattenSeq(Writes(Composite(s), s.order, value))

Deserialize(s, old, input) == LoadComposite(s, old, input, 0)

-----------------------------------------------------------------------------
(* One object of one schema, and one sink. *)

SerdeInit ==
    /\ SinkInit
    /\ schema \in Schemas
    /\ object = Fresh(schema)
    /\ consumed = None
    /\ records = 0

\* A caller fills the members of the structure in.
Fill ==
    /\ ~calling
    /\ object' \in Samples(schema)
    /\ consumed' = None
    /\ UNCHANGED <<schema, records, sinkVars>>

\* Into a new structure, or one used before; only inputs that hold all of it.
\* Bound: beside one sink, which it does not touch, and before that is in use.
Load(input) ==
    /\ records = 0 /\ sink.kind = "vector" /\ sink.bytes = <<>>
    /\ consumed = None \/ Reuse
    /\ \E old \in {Fresh(schema)} \cup (IF Reuse THEN {object} ELSE {}) :
         LET r == Deserialize(schema, old, input)
         IN  /\ ~r.over
             /\ r.at <= Len(input)
             /\ object' = r.value
             /\ consumed' = r.at
    /\ UNCHANGED <<schema, records, sinkVars>>

\* Bound: what was read is not written, nor is a structure nobody filled in.
Serialize(offset) ==
    /\ records < MaxRecords
    /\ consumed = None /\ object \in Samples(schema)
    /\ Begin(Writes(Composite(schema), schema.order, object), offset)
    /\ records' = records + 1
    /\ UNCHANGED <<schema, object, consumed>>

\* The call writes; the structure stays as it is.
SinkStep ==
    /\ Put \/ PutThrows \/ Return \/ StreamFails
    /\ UNCHANGED <<schema, object, consumed, records>>

SerdeNext ==
    \/ Fill
    \/ \E input \in Inputs : Load(input)
    \/ \E offset \in Offsets : Serialize(offset)
    \/ SinkStep

SerdeSpec == SerdeInit /\ [][SerdeNext]_serdeVars

-----------------------------------------------------------------------------

RECURSIVE Fits(_, _)
Fits(f, value) ==
    CASE f.kind = "scalar" -> value \in 0 .. (Base ^ f.width - 1)
      [] f.kind = "scaled" -> value \in 0 .. (f.scale * Base ^ f.width)
      [] f.kind = "static" -> /\ Len(value) = f.count
                              /\ \A i \in DOMAIN value : Fits(Scalar(f.width), value[i])
      [] f.kind = "unused" -> Fits(f.of, value)
      [] f.kind = "composite" ->
           \A i \in DOMAIN f.schema.fields : Fits(f.schema.fields[i], value[i])
      [] f.kind = "bytes" -> \A i \in DOMAIN value : Fits(Scalar(f.width), value[i])
      [] f.kind \in {"dynamic", "tail"} -> \A i \in DOMAIN value : Fits(f.of, value[i])
      [] OTHER -> \A i \in DOMAIN value : value[i] \in Byte

\* The type invariant: the object has the shape its schema describes, array
\* members of a fixed length included, whatever bytes it was read from.
SerdeTypeOK ==
    /\ schema \in Schemas
    /\ Fits(Composite(schema), object)
    /\ consumed \in Nat \cup {None}
    /\ records \in 0 .. MaxRecords
    /\ SinkTypeOK

\* serialize then deserialize: the bytes of an object hold all of it, no read
\* goes past them and none is left over, and the object read back has the same
\* bytes; it is the object itself when that was deserialized too.  Objects nobody
\* filled in are left out: a size the context gives need not be theirs.
RoundTrip ==
    consumed # None \/ object \in Samples(schema) =>
        LET bytes == Bytes(schema, object)
            back  == Deserialize(schema, Fresh(schema), bytes)
        IN  /\ ~back.over
            /\ back.at = Len(bytes)
            /\ Bytes(schema, back.value) = bytes
            /\ consumed # None => back.value = object

\* deserialize then serialize (serde.md): an object takes the number of bytes it
\* was read from, with what the arrays held before, counts of 0 included.
LengthIsKept == consumed # None => Len(Bytes(schema, object)) = consumed

\* An object that was read has the shape of its schema, its arrays their length,
\* and holds all of its bytes.
ObjectInv == SerdeTypeOK /\ LengthIsKept

\* runtime_size says how many bytes serialize writes.
RuntimeSizeIsWritten == RuntimeSize(Composite(schema), object) = Len(Bytes(schema, object))

\* A structure of constant size (whose size divides what is left of the input to
\* count the elements of an array until its end) takes that many bytes.
ConstSizeIsRuntimeSize ==
    HasConstSize(Composite(schema)) =>
        ConstSize(Composite(schema)) = RuntimeSize(Composite(schema), object)

\* The three definitions of a size agree.
SizesAgree == RuntimeSizeIsWritten /\ ConstSizeIsRuntimeSize

=============================================================================
