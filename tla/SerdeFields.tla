---------------------------- MODULE SerdeFields -----------------------------
(***************************************************************************)
(* serde: the fields of a fixed size, read from bytes and stored as bytes, *)
(* one at a time.  Offsets count from 0.  Nothing checks that the input is *)
(* long enough: a read past its end is recorded as over.                   *)
(* Definitions named X_Y are plausible errors in X, for the mutation runs. *)
(***************************************************************************)
EXTENDS Endianness

Scalar(w)     == [kind |-> "scalar", width |-> w]        \* an enum too
Padding(n, b) == [kind |-> "padding", size |-> n, byte |-> b]
Static(w, n)  == [kind |-> "static", width |-> w, count |-> n]
Text(n)       == [kind |-> "text", max |-> n]            \* bounded_string
Scaled(w, k)  == [kind |-> "scaled", width |-> w, scale |-> k]

FixedKinds == {"scalar", "padding", "static", "text", "scaled"}

FixedSize(f) ==
    CASE f.kind \in {"scalar", "scaled"} -> f.width
      [] f.kind = "padding" -> f.size
      [] f.kind = "static" -> f.count * f.width
      [] f.kind = "text" -> f.max

-----------------------------------------------------------------------------
(* Deserialization: the value, the offset after it, and whether it read    *)
(* past the end.                                                           *)

Loaded(value, at, over) == [value |-> value, at |-> at, over |-> over]

Byte0(input, at) == IF at < Len(input) THEN input[at + 1] ELSE 0

Read(input, at, w, order) ==
    Loaded(Decode(order, [i \in 1 .. w |-> Byte0(input, at + i - 1)]), at + w,
           at + w > Len(input))

ReadMany(input, at, w, n, order) ==
    Loaded([i \in 1 .. n |-> Read(input, at + (i - 1) * w, w, order).value],
           at + n * w, n > 0 /\ at + n * w > Len(input))

TextLength(input, at, max) ==
    CHOOSE n \in 0 .. max :
        /\ n = max \/ Byte0(input, at + n) = 0
        /\ \A i \in 0 .. (n - 1) : Byte0(input, at + i) # 0

LoadText_ToNul(f, input, at) ==
    LET n == TextLength(input, at, f.max)
    IN  Loaded([i \in 1 .. n |-> Byte0(input, at + i - 1)], at + n, at + n > Len(input))

LoadText(f, input, at) ==
    LET n == TextLength(input, at, f.max)
    IN  Loaded([i \in 1 .. n |-> Byte0(input, at + i - 1)], at + f.max,
               at + n > Len(input) \/ (at + n = Len(input) /\ n < f.max))

LoadFixed(f, order, old, input, at) ==
    CASE f.kind = "scalar" -> Read(input, at, f.width, order)
      [] f.kind = "padding" -> Loaded(old, at + f.size, FALSE)
      [] f.kind = "static" -> ReadMany(input, at, f.width, f.count, order)
      [] f.kind = "text" -> LoadText(f, input, at)
      [] f.kind = "scaled" ->
           [Read(input, at, f.width, order) EXCEPT !.value = @ * f.scale]

-----------------------------------------------------------------------------
(* Serialization: the bytes a value is stored as, in one write.            *)

\* llround of a quotient, halves away from zero (values are never negative).
Rounded(v, k) == (2 * v + k) \div (2 * k)

TextBytes(value, max) == [i \in 1 .. max |-> IF i \in DOMAIN value THEN value[i] ELSE 0]

\* What is too large for the width of scaled loses its higher bytes.
StoreFixed(f, order, value) ==
    CASE f.kind = "scalar" -> Encode(order, value, f.width)
      [] f.kind = "padding" -> [i \in 1 .. f.size |-> f.byte]
      [] f.kind = "static" -> Encode_v(order, value, f.width)
      [] f.kind = "text" -> TextBytes(value, f.max)
      [] f.kind = "scaled" -> Encode(order, Rounded(value, f.scale), f.width)

-----------------------------------------------------------------------------
(* What a field of a fixed size promises, between any other bytes.         *)

\* The values of w bytes.
Representable(w) == {LittleValue(b) : b \in [1 .. w -> Byte]}

\* The fields a structure may have, and what they may hold.
IsFixed(f) ==
    \/ \E w \in Nat \ {0} : f = Scalar(w)
    \/ \E n \in Nat, b \in Byte : f = Padding(n, b)
    \/ \E w \in Nat \ {0}, n \in Nat : f = Static(w, n)
    \/ \E n \in Nat : f = Text(n)
    \/ \E w, k \in Nat \ {0} : f = Scaled(w, k)

Holds(f, value) ==
    CASE f.kind = "scalar" -> value \in Representable(f.width)
      [] f.kind = "padding" -> TRUE
      [] f.kind = "static" -> value \in [1 .. f.count -> Representable(f.width)]
      [] f.kind = "text" -> value \in Seq(Byte)
      [] f.kind = "scaled" -> value \in Nat /\ Rounded(value, f.scale) \in Representable(f.width)

\* text is s up to its first NUL, cut to max bytes.
IsTextOf(text, s, max) ==
    /\ Len(text) <= Len(s) /\ Len(text) <= max
    /\ \A i \in 1 .. Len(text) : text[i] = s[i] /\ s[i] # 0
    /\ Len(text) < Len(s) /\ Len(text) < max => s[Len(text) + 1] = 0

\* What is read back is what the field held: text up to its first NUL and cut
\* to its size, a scaled number within half a scale.
IsReadBack(f, value, back) ==
    CASE f.kind \in {"scalar", "static"} -> back = value
      [] f.kind = "padding" -> TRUE
      [] f.kind = "text" -> IsTextOf(back, value, f.max)
      [] f.kind = "scaled" -> 2 * (back - value) <= f.scale /\ 2 * (value - back) <= f.scale

\* serialize then deserialize: a field takes its size, whatever stands before
\* and behind it, and no other byte is read.
FieldReadsBack(f, order, value, old, front, behind) ==
    LET bytes == StoreFixed(f, order, value)
        r     == LoadFixed(f, order, old, front \o bytes \o behind, Len(front))
    IN  /\ Len(bytes) = FixedSize(f)
        /\ r.at = Len(front) + FixedSize(f)
        /\ ~r.over
        /\ IsReadBack(f, value, r.value)

\* deserialize then serialize: a field is stored as the bytes it was read from;
\* text as far as its first NUL, padding as its own byte.
FieldKeepsBytes(f, order, old, input, at) ==
    LET held  == SubSeq(input, at + 1, at + FixedSize(f))
        r     == LoadFixed(f, order, old, input, at)
        bytes == StoreFixed(f, order, r.value)
    IN  /\ r.at = at + FixedSize(f)
        /\ ~r.over
        /\ CASE f.kind \in {"scalar", "static", "scaled"} -> bytes = held
             [] f.kind = "padding" -> bytes = [i \in 1 .. f.size |-> f.byte]
             [] f.kind = "text" ->
                  /\ IsTextOf(r.value, held, f.max)
                  /\ bytes = [i \in 1 .. f.max |-> IF i <= Len(r.value) THEN held[i] ELSE 0]

=============================================================================
