-------------------------- MODULE AlgorithmsProofs --------------------------
(***************************************************************************)
(* Proofs about the pure algorithms, for inputs of any length.  What a     *)
(* recursive function computes is shown by induction over a set, which is  *)
(* a least counterexample.                                                 *)
(***************************************************************************)
EXTENDS Algorithms, SequenceTheorems, FiniteSetTheorems, WellFoundedInduction, TLAPS

-----------------------------------------------------------------------------
(* Induction, recursive functions, and what FlattenSeq returns. *)

\* A set of naturals has a least element.
LEMMA LeastNatural ==
    ASSUME NEW S \in SUBSET Nat, S # {}
    PROVE  \E x \in S : \A y \in S : x =< y
<1>1. \E R : R = {ss \in Nat \X Nat : ss[1] < ss[2]} /\ IsWellFoundedOn(R, Nat)
  BY NatLessThanWellFounded, Zenon DEF OpToRel
<1>2. PICK R : R = {ss \in Nat \X Nat : ss[1] < ss[2]} /\ IsWellFoundedOn(R, Nat)
  BY <1>1
<1>3. PICK x \in S : \A y \in S : ~(<<y, x>> \in R)
  BY <1>2, WFMin
<1>4. ASSUME NEW y \in S PROVE x =< y
  <2>1. <<y, x>> \notin R
    BY <1>3
  <2>2. <<y, x>> \in Nat \X Nat /\ <<y, x>>[1] = y /\ <<y, x>>[2] = x
    OBVIOUS
  <2>3. ~(y < x)
    BY <1>2, <2>1, <2>2
  <2> QED  BY <2>3
<1> QED  BY <1>4

\* Induction, over a set instead of a predicate.
LEMMA SetInduction ==
    ASSUME NEW S, 0 \in S, \A n \in Nat : n \in S => n + 1 \in S
    PROVE  \A n \in Nat : n \in S
<1> SUFFICES ASSUME Nat \ S # {} PROVE FALSE
  OBVIOUS
<1>1. PICK x \in Nat \ S : \A y \in Nat \ S : x =< y
  BY LeastNatural
<1>2. x # 0 /\ x - 1 \in Nat /\ ~(x =< x - 1)
  BY <1>1
<1>3. x - 1 \in S
  BY <1>1, <1>2
<1>4. (x - 1) + 1 \in S /\ (x - 1) + 1 = x
  BY <1>1, <1>2, <1>3
<1> QED  BY <1>1, <1>4

\* Induction over sequences, from the first item to the last.
LEMMA SequenceInduction ==
    ASSUME NEW C, NEW G, <<>> \in G, \A t \in Seq(C), c \in C : t \in G => Append(t, c) \in G
    PROVE  \A t \in Seq(C) : t \in G
<1> DEFINE Long(n) == {t \in Seq(C) : Len(t) = n}
           Good    == {n \in Nat : Long(n) \subseteq G}
<1>1. 0 \in Good
  BY EmptySeq
<1>2. ASSUME NEW n \in Nat, n \in Good PROVE n + 1 \in Good
  <2> SUFFICES ASSUME NEW t \in Seq(C), Len(t) = n + 1 PROVE t \in G
    OBVIOUS
  <2>1. t # <<>>
    BY EmptySeq
  <2>2. PICK s \in Seq(C), c \in C : t = Append(s, c)
    BY <2>1, SequenceEmptyOrAppend
  <2>3. Len(s) = n
    <3>1. Len(t) = Len(s) + 1 /\ Len(s) \in Nat
      BY <2>2, AppendProperties, LenProperties
    <3> QED  BY <3>1
  <2> QED  BY <1>2, <2>2, <2>3
<1>3. \A n \in Nat : n \in Good
  <2> HIDE DEF Good
  <2> QED  BY <1>1, <1>2, SetInduction
<1> SUFFICES ASSUME NEW t \in Seq(C) PROVE t \in G
  OBVIOUS
<1>4. Len(t) \in Nat
  BY LenProperties
<1> QED  BY <1>3, <1>4

\* Induction over an interval.
LEMMA IntervalInduction ==
    ASSUME NEW N \in Nat, NEW D, 0 \in D, \A i \in 1 .. N : i - 1 \in D => i \in D
    PROVE  \A i \in 0 .. N : i \in D
<1> DEFINE Good == {n \in Nat : n =< N => n \in D}
<1>1. 0 \in Good
  OBVIOUS
<1>2. ASSUME NEW n \in Nat, n \in Good PROVE n + 1 \in Good
  <2>1. n + 1 =< N => n + 1 \in 1 .. N /\ (n + 1) - 1 = n /\ n =< N
    OBVIOUS
  <2> QED  BY <1>2, <2>1
<1>3. \A n \in Nat : n \in Good
  <2> HIDE DEF Good
  <2> QED  BY <1>1, <1>2, SetInduction
<1> QED  BY <1>3

\* f starts with x0, and each of its next N values is F of the one before.
Obeys(f, x0, F, N) == f[0] = x0 /\ \A i \in 1 .. N : f[i] = F[<<i, f[i - 1]>>]

\* A function defined by recursion over 0 .. N exists,
LEMMA RecursionExists ==
    ASSUME NEW S, NEW x0 \in S, NEW F \in [Nat \X S -> S], NEW N \in Nat
    PROVE  \E f \in [0 .. N -> S] : Obeys(f, x0, F, N)
<1> DEFINE First(n) == \E f \in [0 .. n -> S] :
                           f[0] = x0 /\ \A i \in 1 .. n : f[i] = F[<<i, f[i - 1]>>]
           Good     == {n \in Nat : First(n)}
<1>1. 0 \in Good
  <2> DEFINE f == [i \in 0 .. 0 |-> x0]
  <2>1. f \in [0 .. 0 -> S] /\ f[0] = x0 /\ 1 .. 0 = {}
    OBVIOUS
  <2> HIDE DEF f
  <2>2. First(0)
    BY <2>1
  <2> HIDE DEF First
  <2> QED  BY <2>2
<1>2. ASSUME NEW n \in Nat, n \in Good PROVE n + 1 \in Good
  <2>0. First(n)
    <3> HIDE DEF First
    <3> QED  BY <1>2
  <2>1. PICK f \in [0 .. n -> S] : f[0] = x0 /\ \A i \in 1 .. n : f[i] = F[<<i, f[i - 1]>>]
    BY <2>0
  <2> DEFINE last == F[<<n + 1, f[n]>>]
             h    == [i \in 0 .. (n + 1) |-> IF i =< n THEN f[i] ELSE last]
  <2>2. last \in S
    <3>1. f[n] \in S /\ <<n + 1, f[n]>> \in Nat \X S
      BY <2>1
    <3> QED  BY <3>1
  <2> HIDE DEF last
  <2>3. h \in [0 .. (n + 1) -> S] /\ h[0] = x0
    BY <2>1, <2>2
  <2>4. ASSUME NEW i \in 1 .. (n + 1) PROVE h[i] = F[<<i, h[i - 1]>>]
    <3>1. CASE i =< n
      <4>1. i \in 1 .. n /\ h[i] = f[i] /\ h[i - 1] = f[i - 1]
        BY <3>1
      <4> HIDE DEF h
      <4> QED  BY <2>1, <4>1
    <3>2. CASE i = n + 1
      <4>1. h[i] = last /\ h[i - 1] = f[n]
        BY <3>2
      <4> HIDE DEF h
      <4> QED  BY <3>2, <4>1 DEF last
    <3> QED  BY <3>1, <3>2
  <2> HIDE DEF h
  <2>5. First(n + 1)
    BY <2>3, <2>4
  <2> HIDE DEF First
  <2> QED  BY <2>5
<1>3. N \in Good
  <2> HIDE DEF Good
  <2> QED  BY <1>1, <1>2, SetInduction
<1> HIDE DEF First
<1>4. First(N)
  BY <1>3
<1> QED  BY <1>4 DEF First, Obeys

\* and every function that obeys it has its values in the same set.
LEMMA RecursionType ==
    ASSUME NEW S, NEW N \in Nat, NEW f, f[0] \in S,
           \A i \in 1 .. N : f[i - 1] \in S => f[i] \in S
    PROVE  \A i \in 0 .. N : f[i] \in S
<1> DEFINE Good == {n \in Nat : n =< N => f[n] \in S}
<1>1. 0 \in Good
  OBVIOUS
<1>2. ASSUME NEW n \in Nat, n \in Good PROVE n + 1 \in Good
  <2>1. n + 1 =< N => n + 1 \in 1 .. N /\ (n + 1) - 1 = n /\ n =< N
    OBVIOUS
  <2> QED  BY <1>2, <2>1
<1>3. \A n \in Nat : n \in Good
  <2> HIDE DEF Good
  <2> QED  BY <1>1, <1>2, SetInduction
<1> QED  BY <1>3

\* g[i] is the concatenation of the first i pieces.
IsFlattening(g, s) ==
    \A i \in 1 .. Len(s) : g[i] = IF i = 1 THEN s[i] ELSE g[i - 1] \o s[i]

LEMMA FlatteningExists ==
    ASSUME NEW B, NEW s \in Seq(Seq(B))
    PROVE  \E g \in [1 .. Len(s) -> Seq(B)] : IsFlattening(g, s)
<1> DEFINE First(n) == \E g \in [1 .. n -> Seq(B)] :
                           \A i \in 1 .. n : g[i] = IF i = 1 THEN s[i] ELSE g[i - 1] \o s[i]
           Good     == {n \in Nat : n =< Len(s) => First(n)}
<1>1. 0 \in Good
  <2> DEFINE g == [i \in 1 .. 0 |-> <<>>]
  <2>1. g \in [1 .. 0 -> Seq(B)] /\ 1 .. 0 = {}
    OBVIOUS
  <2> QED  BY <2>1
<1>2. ASSUME NEW n \in Nat, n \in Good PROVE n + 1 \in Good
  <2> SUFFICES ASSUME n + 1 =< Len(s) PROVE First(n + 1)
    <3> HIDE DEF First
    <3> QED  OBVIOUS
  <2>0. First(n)
    <3> HIDE DEF First
    <3> QED  BY <1>2
  <2>1. PICK g \in [1 .. n -> Seq(B)] :
            \A i \in 1 .. n : g[i] = IF i = 1 THEN s[i] ELSE g[i - 1] \o s[i]
    BY <2>0
  <2> DEFINE last == IF n = 0 THEN s[1] ELSE g[n] \o s[n + 1]
             h    == [i \in 1 .. (n + 1) |-> IF i =< n THEN g[i] ELSE last]
  <2>2. s[n + 1] \in Seq(B) /\ last \in Seq(B)
    <3>1. s[n + 1] \in Seq(B)
      OBVIOUS
    <3>2. n # 0 => g[n] \in Seq(B)
      BY <2>1
    <3> QED  BY <3>1, <3>2, ConcatProperties
  <2> HIDE DEF last
  <2>3. h \in [1 .. (n + 1) -> Seq(B)]
    BY <2>1, <2>2
  <2>4. ASSUME NEW i \in 1 .. (n + 1)
        PROVE  h[i] = IF i = 1 THEN s[i] ELSE h[i - 1] \o s[i]
    <3>1. CASE i =< n
      <4>1. i \in 1 .. n /\ h[i] = g[i] /\ (i # 1 => h[i - 1] = g[i - 1])
        BY <3>1
      <4> QED  BY <2>1, <4>1
    <3>2. CASE i = n + 1
      <4>1. h[i] = last /\ (n # 0 => i - 1 = n /\ h[i - 1] = g[n])
        BY <3>2
      <4> QED  BY <3>2, <4>1 DEF last
    <3> QED  BY <3>1, <3>2
  <2> HIDE DEF h
  <2> QED  BY <2>3, <2>4
<1>3. Len(s) \in Good /\ Len(s) \in Nat
  <2> HIDE DEF Good
  <2> QED  BY <1>1, <1>2, SetInduction, SMTT(30)
<1> QED  BY <1>3 DEF IsFlattening

LEMMA FlattenSeqIs ==
    ASSUME NEW B, NEW s \in Seq(Seq(B)), s # <<>>,
           NEW g \in [1 .. Len(s) -> Seq(B)], IsFlattening(g, s)
    PROVE  FlattenSeq(s) = g[Len(s)]
<1> DEFINE Rec(f) == [i \in 1 .. Len(s) |-> IF i = 1 THEN s[i] ELSE f[i - 1] \o s[i]]
           h      == CHOOSE f : f = Rec(f)
<1>1. Len(s) \in Nat \ {0}
  OBVIOUS
<1>2. FlattenSeq(s) = h[Len(s)]
  BY <1>1 DEF FlattenSeq
<1>3. g = Rec(g)
  BY DEF IsFlattening
<1> HIDE DEF Rec
<1>4. h = Rec(h)
  BY <1>3
<1> HIDE DEF h
<1>5. \A i \in 1 .. Len(s) : h[i] = IF i = 1 THEN s[i] ELSE h[i - 1] \o s[i]
  BY <1>4 DEF Rec
<1> DEFINE Agreed == {n \in Nat : n \in 1 .. Len(s) => h[n] = g[n]}
<1>6. 0 \in Agreed
  OBVIOUS
<1>7. ASSUME NEW n \in Nat, n \in Agreed PROVE n + 1 \in Agreed
  <2> SUFFICES ASSUME n + 1 \in 1 .. Len(s) PROVE h[n + 1] = g[n + 1]
    OBVIOUS
  <2>1. h[n + 1] = (IF n + 1 = 1 THEN s[n + 1] ELSE h[n] \o s[n + 1])
    BY <1>5
  <2>2. g[n + 1] = (IF n + 1 = 1 THEN s[n + 1] ELSE g[n] \o s[n + 1])
    <3>1. (n + 1) - 1 = n
      OBVIOUS
    <3> QED  BY <3>1 DEF IsFlattening
  <2>3. n + 1 # 1 => h[n] = g[n]
    BY <1>7
  <2> QED  BY <2>1, <2>2, <2>3
<1>8. Len(s) \in Agreed
  <2> HIDE DEF Agreed
  <2> QED  BY <1>1, <1>6, <1>7, SetInduction
<1> QED  BY <1>1, <1>2, <1>8

\* One more piece stands behind the concatenation of those before it.
LEMMA FlattenSeqAppend ==
    ASSUME NEW B, NEW s \in Seq(Seq(B)), NEW x \in Seq(B)
    PROVE  /\ FlattenSeq(s) \in Seq(B)
           /\ FlattenSeq(Append(s, x)) = FlattenSeq(s) \o x
<1> DEFINE t == Append(s, x)
<1>1. /\ t \in Seq(Seq(B)) /\ t # <<>> /\ Len(t) = Len(s) + 1 /\ Len(s) \in Nat
      /\ t[Len(s) + 1] = x /\ \A i \in 1 .. Len(s) : t[i] = s[i]
  BY AppendProperties
<1> HIDE DEF t
<1>2. PICK g \in [1 .. Len(s) -> Seq(B)] : IsFlattening(g, s)
  BY FlatteningExists
<1>3. CASE s = <<>>
  <2>1. FlattenSeq(s) = <<>>
    BY <1>3 DEF FlattenSeq
  <2> DEFINE h == [i \in 1 .. 1 |-> x]
  <2>2. h \in [1 .. Len(t) -> Seq(B)] /\ IsFlattening(h, t)
    BY <1>1, <1>3 DEF IsFlattening
  <2>3. FlattenSeq(t) = x
    BY <1>1, <1>3, <2>2, FlattenSeqIs
  <2> QED  BY <2>1, <2>3, ConcatEmptySeq DEF t
<1>4. CASE s # <<>>
  <2>0. Len(s) \in 1 .. Len(s)
    BY <1>4
  <2>1. FlattenSeq(s) = g[Len(s)] /\ g[Len(s)] \in Seq(B)
    BY <1>2, <1>4, <2>0, FlattenSeqIs
  <2> DEFINE last == g[Len(s)] \o x
             h    == [i \in 1 .. (Len(s) + 1) |-> IF i =< Len(s) THEN g[i] ELSE last]
  <2>2. last \in Seq(B)
    BY <2>1, ConcatProperties
  <2> HIDE DEF last
  <2>3. h \in [1 .. Len(t) -> Seq(B)]
    BY <1>1, <1>2, <2>2
  <2>4. ASSUME NEW i \in 1 .. Len(t)
        PROVE  h[i] = IF i = 1 THEN t[i] ELSE h[i - 1] \o t[i]
    <3>1. CASE i =< Len(s)
      <4>1. i \in 1 .. Len(s) /\ h[i] = g[i] /\ (i # 1 => h[i - 1] = g[i - 1]) /\ t[i] = s[i]
        BY <1>1, <3>1
      <4> HIDE DEF h
      <4> QED  BY <1>2, <4>1 DEF IsFlattening
    <3>2. CASE i = Len(s) + 1
      <4>1. i # 1 /\ h[i] = last /\ h[i - 1] = g[Len(s)] /\ t[i] = x
        BY <1>1, <2>0, <3>2
      <4> HIDE DEF h
      <4> QED  BY <4>1 DEF last
    <3> QED  BY <1>1, <3>1, <3>2
  <2>5. h[Len(t)] = last
    BY <1>1
  <2> HIDE DEF h
  <2>6. FlattenSeq(t) = h[Len(t)]
    BY <1>1, <2>3, <2>4, FlattenSeqIs DEF IsFlattening
  <2> QED  BY <2>1, <2>5, <2>6 DEF t, last
<1> QED  BY <1>3, <1>4

-----------------------------------------------------------------------------
(* Endianness: values and the bytes that represent them. *)

LEMMA BaseFacts ==
    /\ Base \in Nat /\ Base > 1 /\ Byte \subseteq Nat
    /\ \A b \in Byte : b \in Nat /\ b < Base
  BY EndiannessAssumption DEF Byte

\* A byte and the bytes above it, taken apart.
LEMMA DigitDivides ==
    ASSUME NEW b \in Byte, NEW q \in Nat
    PROVE  /\ b + Base * q \in Nat
           /\ (b + Base * q) \div Base = q
           /\ (b + Base * q) % Base = b
<1> DEFINE v == b + Base * q
<1>1. v \in Nat /\ Base \in Nat \ {0} /\ b \in Nat /\ b < Base
  BY BaseFacts
<1> DEFINE d == v \div Base
           r == v % Base
<1>2. d \in Nat /\ r \in Nat /\ r < Base /\ v = Base * d + r
  BY <1>1, Z3
<1>3. Base * d + r = Base * q + b
  BY <1>1, <1>2
<1> HIDE DEF v, d, r
<1>4. d = q
  <2>1. CASE d < q
    <3>1. PICK k \in Nat : q = d + 1 + k
      <4>1. q - d - 1 \in Nat /\ q = d + 1 + (q - d - 1)
        BY <1>2, <2>1
      <4> QED  BY <4>1
    <3>2. Base * q = Base * d + Base + Base * k /\ Base * k \in Nat /\ Base * d \in Nat
      BY <1>1, <1>2, <3>1
    <3> QED  BY <1>1, <1>2, <1>3, <3>2
  <2>2. CASE q < d
    <3>1. PICK k \in Nat : d = q + 1 + k
      <4>1. d - q - 1 \in Nat /\ d = q + 1 + (d - q - 1)
        BY <1>2, <2>2
      <4> QED  BY <4>1
    <3>2. Base * d = Base * q + Base + Base * k /\ Base * k \in Nat /\ Base * q \in Nat
      BY <1>1, <1>2, <3>1
    <3> QED  BY <1>1, <1>2, <1>3, <3>2
  <2> QED  BY <1>2, <2>1, <2>2
<1>5. r = b
  <2>1. Base * d = Base * q /\ Base * q \in Nat
    BY <1>1, <1>4
  <2> QED  BY <1>1, <1>2, <1>3, <2>1
<1> QED  BY <1>1, <1>4, <1>5 DEF v, d, r

\* LittleValue adds up the bytes from the last.
LEMMA LittleValueIs ==
    ASSUME NEW bytes \in Seq(Byte)
    PROVE  \E value \in [0 .. Len(bytes) -> Nat] :
              /\ LittleValue(bytes) = value[Len(bytes)]
              /\ value[0] = 0
              /\ \A n \in 1 .. Len(bytes) :
                    value[n] = bytes[Len(bytes) - n + 1] + Base * value[n - 1]
<1> DEFINE N      == Len(bytes)
           Rec(f) == [n \in 0 .. N |->
                        IF n = 0 THEN 0 ELSE bytes[N - n + 1] + Base * f[n - 1]]
           value  == CHOOSE f : f = Rec(f)
           F      == [x \in Nat \X Nat |->
                        (IF x[1] \in 1 .. N THEN bytes[N - x[1] + 1] ELSE 0) + Base * x[2]]
<1>1. N \in Nat /\ \A n \in 1 .. N : bytes[N - n + 1] \in Nat
  <2>1. N \in Nat /\ \A k \in 1 .. N : bytes[k] \in Nat
    <3>1. N \in Nat /\ \A k \in 1 .. N : bytes[k] \in Byte
      OBVIOUS
    <3> QED  BY <3>1, BaseFacts
  <2>2. \A n \in 1 .. N : N - n + 1 \in 1 .. N
    OBVIOUS
  <2> HIDE DEF N
  <2> QED  BY <2>1, <2>2
<1>2. F \in [Nat \X Nat -> Nat]
  <2> SUFFICES ASSUME NEW x \in Nat \X Nat
               PROVE  (IF x[1] \in 1 .. N THEN bytes[N - x[1] + 1] ELSE 0) + Base * x[2] \in Nat
    OBVIOUS
  <2>1. x[2] \in Nat /\ Base * x[2] \in Nat
    BY BaseFacts
  <2> QED  BY <1>1, <2>1
<1>3. ASSUME NEW n \in 1 .. N, NEW y \in Nat
      PROVE  F[<<n, y>>] = bytes[N - n + 1] + Base * y
  <2>1. <<n, y>> \in Nat \X Nat /\ <<n, y>>[1] = n /\ <<n, y>>[2] = y
    OBVIOUS
  <2> QED  BY <2>1
<1>4. LittleValue(bytes) = value[N]
  BY DEF LittleValue
<1> HIDE DEF F, N
<1>5. PICK g \in [0 .. N -> Nat] : Obeys(g, 0, F, N)
  BY <1>1, <1>2, RecursionExists
<1>6. g = Rec(g)
  <2>1. ASSUME NEW n \in 1 .. N PROVE g[n] = bytes[N - n + 1] + Base * g[n - 1]
    <3>1. n - 1 \in 0 .. N
      BY <1>1
    <3> QED  BY <1>3, <1>5, <3>1 DEF Obeys
  <2>2. g[0] = 0
    BY <1>5 DEF Obeys
  <2>3. \A n \in 0 .. N : g[n] = IF n = 0 THEN 0 ELSE bytes[N - n + 1] + Base * g[n - 1]
    <3>1. \A n \in 0 .. N : n = 0 \/ n \in 1 .. N
      OBVIOUS
    <3> QED  BY <2>1, <2>2, <3>1
  <2>4. g = [n \in 0 .. N |-> g[n]]
    BY <1>5
  <2> QED  BY <2>3, <2>4
<1>7. value = Rec(value)
  <2> HIDE DEF Rec
  <2> QED  BY <1>6
<1> HIDE DEF value
<1>8. /\ value[0] = 0
      /\ \A n \in 1 .. N : value[n] = bytes[N - n + 1] + Base * value[n - 1]
  BY <1>1, <1>7, SMTT(30)
<1>9. \A n \in 0 .. N : value[n] \in Nat
  <2>1. ASSUME NEW n \in 1 .. N, value[n - 1] \in Nat PROVE value[n] \in Nat
    <3>1. bytes[N - n + 1] \in Nat /\ Base * value[n - 1] \in Nat
      BY <1>1, <2>1, BaseFacts, SMTT(30)
    <3>2. value[n] = bytes[N - n + 1] + Base * value[n - 1]
      BY <1>8
    <3> QED  BY <3>1, <3>2
  <2>2. value[0] \in Nat
    BY <1>8
  <2> QED  BY <1>1, <2>1, <2>2, RecursionType, Zenon
<1>10. value \in [0 .. N -> Nat]
  BY <1>7, <1>9
<1> QED  BY <1>4, <1>8, <1>10 DEF N

\* LittleBytes takes the digits off from the first.
LEMMA LittleBytesIs ==
    ASSUME NEW v \in Nat, NEW w \in Nat
    PROVE  \E left \in [0 .. w -> Nat] :
              /\ LittleBytes(v, w) = [i \in 1 .. w |-> left[i - 1] % Base]
              /\ left[0] = v
              /\ \A i \in 1 .. w : left[i] = left[i - 1] \div Base
<1> DEFINE Rec(f) == [i \in 0 .. w |-> IF i = 0 THEN v ELSE f[i - 1] \div Base]
           left   == CHOOSE f : f = Rec(f)
           F      == [x \in Nat \X Nat |-> x[2] \div Base]
<1>0. \A y \in Nat : y \div Base \in Nat
  BY BaseFacts
<1>1. F \in [Nat \X Nat -> Nat] /\ \A i, y \in Nat : F[<<i, y>>] = y \div Base
  <2>1. \A x \in Nat \X Nat : x[2] \in Nat
    OBVIOUS
  <2>2. \A i, y \in Nat : <<i, y>> \in Nat \X Nat /\ <<i, y>>[2] = y
    OBVIOUS
  <2> QED  BY <1>0, <2>1, <2>2
<1>2. LittleBytes(v, w) = [i \in 1 .. w |-> left[i - 1] % Base]
  BY DEF LittleBytes
<1> HIDE DEF F
<1>3. PICK g \in [0 .. w -> Nat] : Obeys(g, v, F, w)
  BY <1>1, RecursionExists
<1>4. g = Rec(g)
  <2>1. ASSUME NEW i \in 1 .. w PROVE g[i] = g[i - 1] \div Base
    <3>1. i - 1 \in 0 .. w /\ i \in Nat
      OBVIOUS
    <3> QED  BY <1>1, <1>3, <3>1 DEF Obeys
  <2> QED  BY <1>3, <2>1 DEF Obeys
<1>5. left = Rec(left)
  <2> HIDE DEF Rec
  <2> QED  BY <1>4
<1> HIDE DEF left
<1>6. left[0] = v /\ \A i \in 1 .. w : left[i] = left[i - 1] \div Base
  BY <1>5
<1>7. \A i \in 0 .. w : left[i] \in Nat
  BY <1>0, <1>6, RecursionType
<1>8. left \in [0 .. w -> Nat]
  BY <1>5, <1>7
<1> QED  BY <1>2, <1>6, <1>8

LEMMA LittleBytesType ==
    ASSUME NEW v \in Nat, NEW w \in Nat
    PROVE  LittleBytes(v, w) \in Seq(Byte) /\ Len(LittleBytes(v, w)) = w
<1>1. PICK left \in [0 .. w -> Nat] : LittleBytes(v, w) = [i \in 1 .. w |-> left[i - 1] % Base]
  BY LittleBytesIs, ZenonT(30)
<1>2. ASSUME NEW i \in 1 .. w PROVE left[i - 1] % Base \in Byte
  <2>1. i - 1 \in 0 .. w /\ left[i - 1] \in Nat
    OBVIOUS
  <2> QED  BY <2>1, EndiannessAssumption DEF Byte
<1> QED  BY <1>1, <1>2

\* The bytes of the value of some bytes are those bytes.
LEMMA BytesOfValue ==
    ASSUME NEW bytes \in Seq(Byte)
    PROVE  /\ LittleValue(bytes) \in Nat
           /\ LittleBytes(LittleValue(bytes), Len(bytes)) = bytes
<1> DEFINE N == Len(bytes)
           v == LittleValue(bytes)
<1>1. PICK value \in [0 .. N -> Nat] :
          /\ v = value[N]
          /\ value[0] = 0
          /\ \A n \in 1 .. N : value[n] = bytes[N - n + 1] + Base * value[n - 1]
  BY LittleValueIs
<1>2. N \in Nat /\ v \in Nat
  BY <1>1
<1> HIDE DEF v
<1>3. PICK left \in [0 .. N -> Nat] :
          /\ LittleBytes(v, N) = [i \in 1 .. N |-> left[i - 1] % Base]
          /\ left[0] = v
          /\ \A i \in 1 .. N : left[i] = left[i - 1] \div Base
  BY <1>2, LittleBytesIs
<1>4. ASSUME NEW i \in 0 .. (N - 1)
      PROVE  /\ value[N - i] \div Base = value[N - (i + 1)]
             /\ value[N - i] % Base = bytes[i + 1]
  <2>1. /\ N - i \in 1 .. N /\ (N - i) - 1 = N - (i + 1) /\ N - (N - i) + 1 = i + 1
        /\ i + 1 \in 1 .. N /\ N - (i + 1) \in 0 .. N
    BY <1>2
  <2>2. value[N - i] = bytes[i + 1] + Base * value[N - (i + 1)]
    BY <1>1, <2>1
  <2>3. bytes[i + 1] \in Byte /\ value[N - (i + 1)] \in Nat
    BY <2>1, SMTT(30)
  <2> QED  BY <2>2, <2>3, DigitDivides
<1> DEFINE Good == {i \in Nat : i =< N => left[i] = value[N - i]}
<1>5. 0 \in Good
  BY <1>1, <1>2, <1>3
<1>6. ASSUME NEW i \in Nat, i \in Good PROVE i + 1 \in Good
  <2> SUFFICES ASSUME i + 1 =< N PROVE left[i + 1] = value[N - (i + 1)]
    OBVIOUS
  <2>1. i \in 0 .. (N - 1) /\ i + 1 \in 1 .. N /\ (i + 1) - 1 = i /\ i =< N
    BY <1>2
  <2>2. left[i] = value[N - i]
    BY <1>6, <2>1
  <2>3. left[i + 1] = left[i] \div Base
    BY <1>3, <2>1
  <2> QED  BY <1>4, <2>1, <2>2, <2>3
<1>7. \A i \in Nat : i \in Good
  <2> HIDE DEF Good
  <2> QED  BY <1>5, <1>6, SetInduction
<1>8. ASSUME NEW i \in 1 .. N PROVE left[i - 1] % Base = bytes[i]
  <2>1. i - 1 \in 0 .. (N - 1) /\ i - 1 \in Nat /\ i - 1 =< N /\ (i - 1) + 1 = i
    BY <1>2
  <2>2. left[i - 1] = value[N - (i - 1)]
    BY <1>7, <2>1
  <2> QED  BY <1>4, <2>1, <2>2
<1>9. LittleBytes(v, N) = bytes
  <2>1. LittleBytes(v, N) \in Seq(Byte) /\ Len(LittleBytes(v, N)) = N
    BY <1>2, LittleBytesType
  <2>2. \A i \in 1 .. N : LittleBytes(v, N)[i] = bytes[i]
    BY <1>3, <1>8
  <2> QED  BY <2>1, <2>2, SeqEqual
<1> QED  BY <1>2, <1>9 DEF v

\* WeighedSum adds up the bytes from the first.
LEMMA WeighedSumIs ==
    ASSUME NEW bytes \in Seq(Byte)
    PROVE  \E weight, sum :
              /\ WeighedSum(bytes) = sum[Len(bytes)]
              /\ weight[0] = 1 /\ sum[0] = 0
              /\ \A i \in 0 .. Len(bytes) : weight[i] \in Nat /\ sum[i] \in Nat
              /\ \A i \in 1 .. Len(bytes) :
                    /\ weight[i] = Base * weight[i - 1]
                    /\ sum[i] = sum[i - 1] + bytes[i] * weight[i - 1]
<1> DEFINE N       == Len(bytes)
           RecW(f) == [i \in 0 .. N |-> IF i = 0 THEN 1 ELSE Base * f[i - 1]]
           weight  == CHOOSE f : f = RecW(f)
           RecS(f) == [i \in 0 .. N |-> IF i = 0 THEN 0 ELSE f[i - 1] + bytes[i] * weight[i - 1]]
           sum     == CHOOSE f : f = RecS(f)
           W       == [x \in Nat \X Nat |-> Base * x[2]]
<1>0. Base \in Nat /\ N \in Nat /\ \A i \in 1 .. N : bytes[i] \in Nat
  <2>1. N \in Nat /\ \A i \in 1 .. N : bytes[i] \in Byte
    OBVIOUS
  <2> QED  BY <2>1, BaseFacts
<1>1. WeighedSum(bytes) = sum[N]
  BY DEF WeighedSum
<1> HIDE DEF N
<1>2. W \in [Nat \X Nat -> Nat] /\ \A i, y \in Nat : W[<<i, y>>] = Base * y
  <2>1. \A x \in Nat \X Nat : x[2] \in Nat /\ Base * x[2] \in Nat
    BY <1>0
  <2>2. \A i, y \in Nat : <<i, y>> \in Nat \X Nat /\ <<i, y>>[2] = y
    OBVIOUS
  <2> QED  BY <2>1, <2>2
<1> HIDE DEF W
<1>3. PICK g \in [0 .. N -> Nat] : Obeys(g, 1, W, N)
  BY <1>0, <1>2, RecursionExists
<1>4. g = RecW(g)
  <2>1. ASSUME NEW i \in 1 .. N PROVE g[i] = Base * g[i - 1]
    <3>1. i - 1 \in 0 .. N /\ i \in Nat
      BY <1>0
    <3> QED  BY <1>2, <1>3, <3>1 DEF Obeys
  <2> QED  BY <1>0, <1>3, <2>1 DEF Obeys
<1>5. weight = RecW(weight)
  <2> HIDE DEF RecW
  <2> QED  BY <1>4
<1> HIDE DEF weight
<1>6. weight[0] = 1 /\ \A i \in 1 .. N : weight[i] = Base * weight[i - 1]
  BY <1>0, <1>5
<1>7. \A i \in 0 .. N : weight[i] \in Nat
  <2>1. ASSUME NEW i \in 1 .. N, weight[i - 1] \in Nat PROVE weight[i] \in Nat
    BY <1>0, <1>6, <2>1
  <2>2. weight[0] \in Nat
    BY <1>6
  <2> QED  BY <1>0, <2>1, <2>2, RecursionType, Zenon
<1> DEFINE S == [x \in Nat \X Nat |->
                    x[2] + (IF x[1] \in 1 .. N THEN bytes[x[1]] * weight[x[1] - 1] ELSE 0)]
<1>8. \A i \in 1 .. N : bytes[i] * weight[i - 1] \in Nat
  <2> SUFFICES ASSUME NEW i \in 1 .. N PROVE bytes[i] * weight[i - 1] \in Nat
    OBVIOUS
  <2>1. i - 1 \in 0 .. N
    BY <1>0
  <2>2. bytes[i] \in Nat /\ weight[i - 1] \in Nat
    BY <1>0, <1>7, <2>1
  <2> QED  BY <2>2
<1>9. /\ S \in [Nat \X Nat -> Nat]
      /\ \A i \in 1 .. N, y \in Nat : S[<<i, y>>] = y + bytes[i] * weight[i - 1]
  <2>1. \A i \in 1 .. N, y \in Nat : <<i, y>> \in Nat \X Nat /\ <<i, y>>[1] = i /\ <<i, y>>[2] = y
    BY <1>0
  <2>2. \A x \in Nat \X Nat : x[1] \in Nat /\ x[2] \in Nat
    OBVIOUS
  <2> QED  BY <1>8, <2>1, <2>2, SMTT(30)
<1> HIDE DEF S
<1>10. PICK h \in [0 .. N -> Nat] : Obeys(h, 0, S, N)
  BY <1>0, <1>9, RecursionExists
<1>11. h = RecS(h)
  <2>1. ASSUME NEW i \in 1 .. N PROVE h[i] = h[i - 1] + bytes[i] * weight[i - 1]
    <3>1. i - 1 \in 0 .. N
      BY <1>0
    <3> QED  BY <1>9, <1>10, <3>1 DEF Obeys
  <2> QED  BY <1>0, <1>10, <2>1 DEF Obeys
<1>12. sum = RecS(sum)
  <2> HIDE DEF RecS
  <2> QED  BY <1>11
<1> HIDE DEF sum
<1>13. sum[0] = 0 /\ \A i \in 1 .. N : sum[i] = sum[i - 1] + bytes[i] * weight[i - 1]
  BY <1>0, <1>12, SMTT(30)
<1>14. \A i \in 0 .. N : sum[i] \in Nat
  <2>1. ASSUME NEW i \in 1 .. N, sum[i - 1] \in Nat PROVE sum[i] \in Nat
    BY <1>8, <1>13, <2>1
  <2>2. sum[0] \in Nat
    BY <1>13
  <2> QED  BY <1>0, <2>1, <2>2, RecursionType, Zenon
<1> QED  BY <1>1, <1>6, <1>7, <1>13, <1>14 DEF N

\* Added up from the last byte or from the first, the value is the same.
LEMMA LittleValueIsSum ==
    ASSUME NEW bytes \in Seq(Byte)
    PROVE  LittleValue(bytes) = WeighedSum(bytes)
<1> DEFINE N == Len(bytes)
<1>0. N \in Nat /\ Base \in Nat /\ \A i \in 1 .. N : bytes[i] \in Nat
  <2>1. N \in Nat /\ \A i \in 1 .. N : bytes[i] \in Byte
    OBVIOUS
  <2> QED  BY <2>1, BaseFacts
<1>1. PICK value \in [0 .. N -> Nat] :
          /\ LittleValue(bytes) = value[N]
          /\ value[0] = 0
          /\ \A n \in 1 .. N : value[n] = bytes[N - n + 1] + Base * value[n - 1]
  BY LittleValueIs
<1>2. PICK weight, sum :
          /\ WeighedSum(bytes) = sum[N]
          /\ weight[0] = 1 /\ sum[0] = 0
          /\ \A i \in 0 .. N : weight[i] \in Nat /\ sum[i] \in Nat
          /\ \A i \in 1 .. N : /\ weight[i] = Base * weight[i - 1]
                              /\ sum[i] = sum[i - 1] + bytes[i] * weight[i - 1]
  BY WeighedSumIs
<1> HIDE DEF N
<1> DEFINE Good == {i \in Nat : i =< N => value[N] = sum[i] + weight[i] * value[N - i]}
<1>3. 0 \in Good
  <2>1. value[N] \in Nat /\ N - 0 = N
    BY <1>0
  <2> QED  BY <1>0, <1>2, <2>1
<1>4. ASSUME NEW i \in Nat, i \in Good PROVE i + 1 \in Good
  <2> SUFFICES ASSUME i + 1 =< N
               PROVE  value[N] = sum[i + 1] + weight[i + 1] * value[N - (i + 1)]
    OBVIOUS
  <2>1. /\ i =< N /\ i \in 0 .. N /\ i + 1 \in 1 .. N /\ (i + 1) - 1 = i
        /\ N - i \in 1 .. N /\ (N - i) - 1 = N - (i + 1) /\ N - (N - i) + 1 = i + 1
        /\ N - (i + 1) \in 0 .. N
    BY <1>0
  <2> DEFINE a == weight[i]
             b == bytes[i + 1]
             c == value[N - (i + 1)]
             s == sum[i]
  <2>2. a \in Nat /\ b \in Nat /\ c \in Nat /\ s \in Nat
    BY <1>0, <1>2, <2>1
  <2>3. value[N - i] = b + Base * c
    BY <1>1, <2>1
  <2>4. weight[i + 1] = Base * a /\ sum[i + 1] = s + b * a
    BY <1>2, <2>1
  <2>5. value[N] = s + a * value[N - i]
    BY <1>4, <2>1
  <2> HIDE DEF a, b, c, s
  <2>6. a * (b + Base * c) = b * a + (Base * a) * c
    BY <1>0, <2>2
  <2>7. b * a \in Nat /\ (Base * a) * c \in Nat
    BY <1>0, <2>2
  <2> QED  BY <2>2, <2>3, <2>4, <2>5, <2>6, <2>7 DEF c
<1>5. \A i \in Nat : i \in Good
  <2> HIDE DEF Good
  <2> QED  BY <1>3, <1>4, SetInduction
<1>6. value[N] = sum[N] + weight[N] * value[N - N]
  BY <1>0, <1>5
<1>7. N - N = 0 /\ weight[N] * value[0] = 0 /\ sum[N] \in Nat
  <2>1. weight[N] \in Nat /\ sum[N] \in Nat
    BY <1>0, <1>2
  <2> QED  BY <1>0, <1>1, <2>1
<1> QED  BY <1>1, <1>2, <1>6, <1>7

LEMMA ReverseIs ==
    ASSUME NEW S, NEW s \in Seq(S)
    PROVE  /\ Reverse(s) \in Seq(S) /\ Len(Reverse(s)) = Len(s)
           /\ Reverse(Reverse(s)) = s
           /\ Len(s) =< 1 => Reverse(s) = s
<1> DEFINE n == Len(s)
           r == Reverse(s)
<1>1. n \in Nat /\ \A i \in 1 .. n : s[i] \in S /\ (n - i) + 1 \in 1 .. n
  OBVIOUS
<1>2. r = [i \in 1 .. n |-> s[(n - i) + 1]]
  BY DEF Reverse
<1> HIDE DEF n, r
<1>3. r \in Seq(S) /\ Len(r) = n /\ \A i \in 1 .. n : r[i] = s[(n - i) + 1]
  BY <1>1, <1>2
<1>4. Reverse(r) = [i \in 1 .. n |-> r[(n - i) + 1]]
  BY <1>3 DEF Reverse
<1>5. /\ Reverse(r) \in Seq(S) /\ Len(Reverse(r)) = n
      /\ \A i \in 1 .. n : Reverse(r)[i] = s[i]
  <2>1. ASSUME NEW i \in 1 .. n PROVE r[(n - i) + 1] = s[i] /\ s[i] \in S
    <3>1. (n - i) + 1 \in 1 .. n /\ (n - ((n - i) + 1)) + 1 = i
      BY <1>1
    <3> QED  BY <1>1, <1>3, <3>1
  <2> QED  BY <1>1, <1>4, <2>1
<1>6. Reverse(r) = s
  BY <1>5, SeqEqual DEF n
<1>7. ASSUME n =< 1 PROVE r = s
  <2>1. \A i \in 1 .. n : (n - i) + 1 = i
    BY <1>1, <1>7
  <2>2. \A i \in 1 .. n : r[i] = s[i]
    BY <1>3, <2>1
  <2> QED  BY <1>3, <2>2, SeqEqual DEF n
<1> QED  BY <1>3, <1>6, <1>7 DEF n, r

\* A place in memory holds the bytes of a value, and the value of its bytes.
LEMMA MemoryIs ==
    ASSUME NEW bytes \in Seq(Byte)
    PROVE  /\ FromMemory(bytes) \in Nat
           /\ ToMemory(FromMemory(bytes), Len(bytes)) = bytes
           /\ Host = "little" => FromMemory(bytes) = LittleValue(bytes)
           /\ Host # "little" => FromMemory(bytes) = LittleValue(Reverse(bytes))
<1>1. /\ Reverse(bytes) \in Seq(Byte) /\ Len(Reverse(bytes)) = Len(bytes)
      /\ Reverse(Reverse(bytes)) = bytes
  BY ReverseIs
<1>2. CASE Host = "little"
  BY <1>2, BytesOfValue DEF FromMemory, ToMemory
<1>3. CASE Host # "little"
  BY <1>1, <1>3, BytesOfValue DEF FromMemory, ToMemory
<1> QED  BY <1>2, <1>3

\* A swap reverses the bytes.
LEMMA ByteSwapIs ==
    ASSUME NEW bytes \in Seq(Byte)
    PROVE  ByteSwap(FromMemory(bytes), Len(bytes)) = FromMemory(Reverse(bytes))
  BY MemoryIs DEF ByteSwap

\* decode gives what the bytes mean, and encode gives them back.
LEMMA DecodeEncode ==
    ASSUME NEW order \in Orders, NEW bytes \in Seq(Byte), NEW w, w = Len(bytes)
    PROVE  /\ Decode(order, bytes) = Meaning(order, bytes)
           /\ Encode(order, Meaning(order, bytes), w) = bytes
<1> DEFINE back == Reverse(bytes)
<1>1. /\ back \in Seq(Byte) /\ Len(back) = w /\ Reverse(back) = bytes /\ w \in Nat
      /\ w =< 1 => back = bytes
  BY ReverseIs
<1>2. Meaning(order, bytes) = LittleValue(IF order = "big" THEN back ELSE bytes)
  BY <1>1, LittleValueIsSum DEF Meaning
<1>3. /\ FromMemory(bytes) = LittleValue(IF Host = "little" THEN bytes ELSE back)
      /\ FromMemory(back) = LittleValue(IF Host = "little" THEN back ELSE bytes)
  BY <1>1, MemoryIs
<1>4. Host \in {"little", "big"} /\ order \in {"little", "big"}
  BY EndiannessAssumption DEF Orders
<1> HIDE DEF back
<1>5. CASE w > 1 /\ order # Host
  <2>1. Meaning(order, bytes) = FromMemory(back)
    BY <1>2, <1>3, <1>4, <1>5
  <2>2. Decode(order, bytes) = FromMemory(back)
    BY <1>5, ByteSwapIs DEF Decode, back
  <2>3. ByteSwap(FromMemory(back), w) = FromMemory(bytes)
    BY <1>1, ByteSwapIs
  <2>4. Encode(order, FromMemory(back), w) = ToMemory(FromMemory(bytes), w)
    BY <1>5, <2>3 DEF Encode
  <2> QED  BY <2>1, <2>2, <2>4, MemoryIs
<1>6. CASE ~(w > 1 /\ order # Host)
  <2>1. Meaning(order, bytes) = FromMemory(bytes)
    BY <1>1, <1>2, <1>3, <1>4, <1>6
  <2>2. Decode(order, bytes) = FromMemory(bytes)
    BY <1>6 DEF Decode
  <2>3. Encode(order, FromMemory(bytes), w) = ToMemory(FromMemory(bytes), w)
    BY <1>6 DEF Encode
  <2> QED  BY <2>1, <2>2, <2>3, MemoryIs
<1> QED  BY <1>5, <1>6

LEMMA ChunkIs ==
    ASSUME NEW bytes \in Seq(Byte), NEW w \in Nat \ {0}, NEW n \in Nat,
           n * w =< Len(bytes), NEW i \in 1 .. n
    PROVE  /\ Chunk(bytes, w, i) \in Seq(Byte) /\ Len(Chunk(bytes, w, i)) = w
           /\ (i - 1) * w \in Nat /\ i * w = (i - 1) * w + w /\ i * w =< Len(bytes)
           /\ \A k \in 1 .. w : Chunk(bytes, w, i)[k] = bytes[(i - 1) * w + k]
<1> DEFINE a == (i - 1) * w
           z == i * w
<1>1. a \in Nat /\ z = a + w /\ z \in Nat
  <2>1. i - 1 \in Nat /\ i \in Nat
    OBVIOUS
  <2>2. a \in Nat /\ z \in Nat
    BY <2>1
  <2>3. (i - 1) * w = i * w - w
    BY <2>1
  <2> QED  BY <2>2, <2>3
<1>2. z =< Len(bytes)
  <2>1. n - i \in Nat /\ (n - i) * w \in Nat /\ (n - i) * w = n * w - i * w
    OBVIOUS
  <2> QED  BY <1>1, <2>1
<1>3. Chunk(bytes, w, i) = SubSeq(bytes, a + 1, z)
  BY DEF Chunk
<1> HIDE DEF a, z
<1>4. a + 1 \in Int /\ z \in Int /\ a + 1 <= z /\ z - (a + 1) + 1 = w
  BY <1>1
<1>5. \A j \in (a + 1) .. z : bytes[j] \in Byte
  BY <1>1, <1>2
<1> DEFINE c == SubSeq(bytes, a + 1, z)
<1>6. /\ c \in Seq(Byte)
      /\ Len(c) = IF a + 1 <= z THEN z - (a + 1) + 1 ELSE 0
      /\ \A k \in 1 .. z - (a + 1) + 1 : c[k] = bytes[(a + 1) + k - 1]
  BY <1>4, <1>5, SubSeqProperties
<1>7. \A k \in 1 .. w : (a + 1) + k - 1 = a + k
  BY <1>1
<1> HIDE DEF c
<1>8. c \in Seq(Byte) /\ Len(c) = w /\ \A k \in 1 .. w : c[k] = bytes[a + k]
  BY <1>4, <1>6, <1>7
<1> QED  BY <1>1, <1>2, <1>3, <1>8 DEF a, z, c

\* Chunks put together are what they were cut from.
LEMMA ChunksFlatten ==
    ASSUME NEW bytes \in Seq(Byte), NEW w \in Nat \ {0}, NEW N \in Nat, N * w =< Len(bytes)
    PROVE  FlattenSeq([i \in 1 .. N |-> Chunk(bytes, w, i)]) = SubSeq(bytes, 1, w * N)
<1> DEFINE Chunks(n) == [i \in 1 .. n |-> Chunk(bytes, w, i)]
           Whole(n)  == FlattenSeq(Chunks(n)) = SubSeq(bytes, 1, n * w)
           Good      == {n \in Nat : n =< N => Whole(n)}
<1>1. 0 \in Good
  <2>1. Chunks(0) = <<>> /\ 0 * w = 0
    OBVIOUS
  <2>2. FlattenSeq(<<>>) = <<>> /\ SubSeq(bytes, 1, 0) = <<>>
    BY SubSeqEmpty DEF FlattenSeq
  <2> QED  BY <2>1, <2>2
<1>2. ASSUME NEW n \in Nat, n \in Good PROVE n + 1 \in Good
  <2> SUFFICES ASSUME n + 1 =< N PROVE Whole(n + 1)
    <3> HIDE DEF Whole
    <3> QED  OBVIOUS
  <2>1. Whole(n)
    <3> HIDE DEF Whole
    <3> QED  BY <1>2
  <2> DEFINE c == Chunk(bytes, w, n + 1)
             a == n * w
  <2>2. /\ c \in Seq(Byte) /\ Len(c) = w /\ a \in Nat /\ (n + 1) * w = a + w
        /\ (n + 1) * w =< Len(bytes)
        /\ \A k \in 1 .. w : c[k] = bytes[a + k]
    <3> DEFINE i == n + 1
    <3>1. i \in 1 .. N /\ i - 1 = n
      OBVIOUS
    <3> HIDE DEF i
    <3>2. /\ Chunk(bytes, w, i) \in Seq(Byte) /\ Len(Chunk(bytes, w, i)) = w
          /\ (i - 1) * w \in Nat /\ i * w = (i - 1) * w + w /\ i * w =< Len(bytes)
          /\ \A k \in 1 .. w : Chunk(bytes, w, i)[k] = bytes[(i - 1) * w + k]
      <4>1. \A j \in 1 .. N :
               /\ Chunk(bytes, w, j) \in Seq(Byte) /\ Len(Chunk(bytes, w, j)) = w
               /\ (j - 1) * w \in Nat /\ j * w = (j - 1) * w + w /\ j * w =< Len(bytes)
               /\ \A k \in 1 .. w : Chunk(bytes, w, j)[k] = bytes[(j - 1) * w + k]
        BY ChunkIs
      <4> QED  BY <3>1, <4>1
    <3> QED  BY <3>1, <3>2 DEF i
  <2>3. Chunks(n) \in Seq(Seq(Byte)) /\ Len(Chunks(n)) = n
    <3>1. ASSUME NEW i \in 1 .. n PROVE Chunk(bytes, w, i) \in Seq(Byte)
      <4>1. i \in 1 .. N
        OBVIOUS
      <4> QED  BY <4>1, ChunkIs
    <3> QED  BY <3>1
  <2>4. Chunks(n + 1) = Append(Chunks(n), c)
    <3> DEFINE s == Append(Chunks(n), c)
               t == Chunks(n + 1)
    <3>1. /\ s \in Seq(Seq(Byte)) /\ Len(s) = n + 1
          /\ \A i \in 1 .. n : s[i] = Chunks(n)[i]
          /\ s[n + 1] = c
      <4> HIDE DEF Chunks, c
      <4> QED  BY <2>2, <2>3, AppendProperties
    <3>2. t \in Seq(Seq(Byte)) /\ Len(t) = n + 1
      <4>1. ASSUME NEW i \in 1 .. (n + 1) PROVE Chunk(bytes, w, i) \in Seq(Byte)
        <5>1. i \in 1 .. N
          OBVIOUS
        <5> QED  BY <5>1, ChunkIs
      <4> QED  BY <4>1
    <3>3. ASSUME NEW i \in 1 .. (n + 1) PROVE t[i] = s[i]
      <4>1. CASE i \in 1 .. n
        <5>1. t[i] = Chunk(bytes, w, i) /\ Chunks(n)[i] = Chunk(bytes, w, i)
          BY <4>1
        <5> HIDE DEF s, t, Chunks
        <5> QED  BY <3>1, <4>1, <5>1
      <4>2. CASE i = n + 1
        <5>1. t[i] = c
          BY <4>2
        <5> HIDE DEF s, t, Chunks
        <5> QED  BY <3>1, <4>2, <5>1
      <4> QED  BY <4>1, <4>2
    <3> HIDE DEF s, t
    <3>4. t = s
      BY <3>1, <3>2, <3>3, SeqEqual
    <3> QED  BY <3>4 DEF s, t
  <2> HIDE DEF Chunks, c, a
  <2>5. FlattenSeq(Chunks(n + 1)) = SubSeq(bytes, 1, a) \o c
    BY <2>1, <2>2, <2>3, <2>4, FlattenSeqAppend DEF a
  <2> DEFINE p == SubSeq(bytes, 1, a)
             q == SubSeq(bytes, 1, a + w)
  <2>6. p \in Seq(Byte) /\ Len(p) = a /\ \A k \in 1 .. a : p[k] = bytes[k]
    BY <2>2, SubSeqRestrict
  <2>7. q \in Seq(Byte) /\ Len(q) = a + w /\ \A k \in 1 .. (a + w) : q[k] = bytes[k]
    <3>1. a + w \in 0 .. Len(bytes)
      BY <2>2
    <3> QED  BY <3>1, SubSeqRestrict
  <2> HIDE DEF p, q
  <2>8. /\ p \o c \in Seq(Byte) /\ Len(p \o c) = a + w
        /\ \A k \in 1 .. (a + w) : (p \o c)[k] = IF k <= a THEN p[k] ELSE c[k - a]
    BY <2>2, <2>6, ConcatProperties, ZenonT(30)
  <2>9. ASSUME NEW k \in 1 .. (a + w) PROVE (p \o c)[k] = q[k]
    <3>1. CASE k <= a
      <4>1. k \in 1 .. a
        BY <2>2, <3>1
      <4> QED  BY <2>6, <2>7, <2>8, <3>1, <4>1
    <3>2. CASE ~(k <= a)
      <4>1. k - a \in 1 .. w /\ a + (k - a) = k
        BY <2>2, <3>2
      <4>2. c[k - a] = bytes[k]
        BY <2>2, <4>1
      <4> QED  BY <2>7, <2>8, <3>2, <4>2
    <3> QED  BY <3>1, <3>2
  <2>10. p \o c = q
    BY <2>7, <2>8, <2>9, SeqEqual
  <2> QED  BY <2>2, <2>5, <2>10 DEF p, q
<1>3. \A n \in Nat : n \in Good
  <2> HIDE DEF Good
  <2> QED  BY <1>1, <1>2, SetInduction
<1>4. Whole(N)
  BY <1>3
<1>5. N * w = w * N
  OBVIOUS
<1> QED  BY <1>4, <1>5

\* The i-th of n values at `at`, byte by byte.
IsValueAt(value, memory, at, w, i, n) ==
    /\ value \in Seq(Byte) /\ Len(value) = w
    /\ (i - 1) * w \in Nat /\ i * w = (i - 1) * w + w /\ i * w =< n * w
    /\ \A k \in 1 .. w : value[k] = memory[at + (i - 1) * w + k]

LEMMA ValueAtIs ==
    ASSUME NEW memory \in Seq(Byte), NEW at \in Nat, NEW w \in Nat \ {0}, NEW n \in Nat,
           at + n * w =< Len(memory), NEW i \in 1 .. n
    PROVE  IsValueAt(ValueAt(memory, at, w, i), memory, at, w, i, n)
<1> DEFINE a == (i - 1) * w
           z == i * w
<1>1. a \in Nat /\ z = a + w /\ z \in Nat
  <2>1. i - 1 \in Nat /\ i \in Nat
    OBVIOUS
  <2>2. a \in Nat /\ z \in Nat
    BY <2>1
  <2>3. (i - 1) * w = i * w - w
    BY <2>1
  <2> QED  BY <2>2, <2>3
<1>2. z =< n * w /\ n * w \in Nat
  <2>1. n - i \in Nat /\ (n - i) * w \in Nat /\ (n - i) * w = n * w - i * w
    OBVIOUS
  <2> QED  BY <1>1, <2>1
<1>3. ValueAt(memory, at, w, i) = SubSeq(memory, at + a + 1, at + z)
  BY DEF ValueAt
<1> HIDE DEF a, z
<1> DEFINE b == at + a + 1
           e == at + z
<1>4. b \in Int /\ e \in Int /\ b <= e /\ e - b + 1 = w /\ e =< Len(memory) /\ b >= 1
  BY <1>1, <1>2
<1>5. \A j \in b .. e : memory[j] \in Byte
  BY <1>4
<1> DEFINE c == SubSeq(memory, b, e)
<1>6. \A k \in 1 .. w : b + k - 1 = at + a + k
  BY <1>1
<1> HIDE DEF b, e
<1>7. /\ c \in Seq(Byte)
      /\ Len(c) = IF b <= e THEN e - b + 1 ELSE 0
      /\ \A k \in 1 .. e - b + 1 : c[k] = memory[b + k - 1]
  BY <1>4, <1>5, SubSeqProperties, SMTT(20)
<1> HIDE DEF c
<1>8. c \in Seq(Byte) /\ Len(c) = w /\ \A k \in 1 .. w : c[k] = memory[at + a + k]
  BY <1>4, <1>6, <1>7
<1> QED  BY <1>1, <1>2, <1>3, <1>8 DEF a, z, b, c, e, IsValueAt

\* memory with the bytes over what is behind its first `at`.
IsStoredAt(after, memory, at, bytes) ==
    /\ after \in Seq(Byte) /\ Len(after) = Len(memory)
    /\ \A k \in 1 .. Len(bytes) : after[at + k] = bytes[k]
    /\ \A a \in 1 .. Len(memory) : a \notin (at + 1) .. (at + Len(bytes)) => after[a] = memory[a]

LEMMA StoreAtIs ==
    ASSUME NEW memory \in Seq(Byte), NEW at \in Nat, NEW bytes \in Seq(Byte),
           at + Len(bytes) =< Len(memory)
    PROVE  IsStoredAt(StoreAt(memory, at, bytes), memory, at, bytes)
<1> DEFINE n == Len(memory)
           l == Len(bytes)
           s == StoreAt(memory, at, bytes)
<1>1. n \in Nat /\ l \in Nat /\ at + l =< n /\ DOMAIN memory = 1 .. n
  OBVIOUS
<1>2. s = [a \in 1 .. n |-> IF a \in (at + 1) .. (at + l) THEN bytes[a - at] ELSE memory[a]]
  BY <1>1 DEF StoreAt
<1>3. /\ \A a \in 1 .. n : memory[a] \in Byte
      /\ \A a \in (at + 1) .. (at + l) : a - at \in 1 .. l /\ bytes[a - at] \in Byte
  BY <1>1
<1> HIDE DEF s, n, l
<1>4. s \in Seq(Byte) /\ Len(s) = n
  <2>1. ASSUME NEW a \in 1 .. n
        PROVE  (IF a \in (at + 1) .. (at + l) THEN bytes[a - at] ELSE memory[a]) \in Byte
    BY <1>3
  <2>2. s \in [1 .. n -> Byte]
    BY <1>2, <2>1, Zenon
  <2> QED  BY <1>1, <2>2
<1>5. ASSUME NEW k \in 1 .. l PROVE s[at + k] = bytes[k]
  <2>1. at + k \in 1 .. n /\ at + k \in (at + 1) .. (at + l) /\ (at + k) - at = k
    BY <1>1
  <2> QED  BY <1>2, <2>1
<1>6. \A a \in 1 .. n : a \notin (at + 1) .. (at + l) => s[a] = memory[a]
  BY <1>2
<1> QED  BY <1>4, <1>5, <1>6 DEF s, n, l, IsStoredAt

\* A value that is decoded and stored as the host's is, bytes reversed or not, the
\* value its bytes mean.
LEMMA HostBytesIs ==
    ASSUME NEW order \in Orders, NEW bytes \in Seq(Byte)
    PROVE  \E stored \in Seq(Byte) :
              /\ Len(stored) = Len(bytes)
              /\ FromMemory(stored) = Meaning(order, bytes)
              /\ Len(bytes) > 1 /\ order # Host =>
                    ToMemory(ByteSwap(FromMemory(bytes), Len(bytes)), Len(bytes)) = stored
              /\ ~(Len(bytes) > 1 /\ order # Host) => stored = bytes
<1> DEFINE back == Reverse(bytes)
           w    == Len(bytes)
<1>1. back \in Seq(Byte) /\ Len(back) = w
  BY ReverseIs
<1>2. Decode(order, bytes) = Meaning(order, bytes)
  BY DecodeEncode
<1>3. CASE w > 1 /\ order # Host
  <2>1. ByteSwap(FromMemory(bytes), w) = FromMemory(back)
    BY ByteSwapIs
  <2>2. ToMemory(FromMemory(back), w) = back
    BY <1>1, MemoryIs
  <2>3. Decode(order, bytes) = FromMemory(back)
    BY <1>3, <2>1 DEF Decode
  <2> QED  BY <1>1, <1>2, <1>3, <2>1, <2>2, <2>3
<1>4. CASE ~(w > 1 /\ order # Host)
  BY <1>2, <1>4 DEF Decode
<1> QED  BY <1>3, <1>4

\* The values at data and the room at output are in memory, in place or apart.
DecodesWithin(memory, data, size, output, w) ==
    /\ data + size * w =< Len(memory) /\ output + size * w =< Len(memory)
    /\ data = output \/ data + size * w =< output \/ output + size * w =< data

\* m is memory with the first n values decoded.
DecodedUpTo(order, memory, data, output, w, m, n) ==
    /\ m \in Seq(Byte) /\ Len(m) = Len(memory)
    /\ \A i \in 1 .. n :
          FromMemory(ValueAt(m, output, w, i)) = Meaning(order, ValueAt(memory, data, w, i))
    /\ \A a \in 1 .. Len(memory) : a \notin (output + 1) .. (output + n * w) => m[a] = memory[a]

\* The next value has not been written over, and storing it leaves those before it.
NextDecodes(order, memory, data, output, w, m, n, stored) ==
    /\ ValueAt(m, data, w, n + 1) = ValueAt(memory, data, w, n + 1)
    /\ FromMemory(stored) = Meaning(order, ValueAt(memory, data, w, n + 1)) =>
          DecodedUpTo(order, memory, data, output, w, StoreAt(m, output + n * w, stored), n + 1)

LEMMA NextIsDecoded ==
    ASSUME NEW order, NEW memory \in Seq(Byte), NEW data \in Nat, NEW size \in Nat,
           NEW output \in Nat, NEW w \in Nat \ {0}, DecodesWithin(memory, data, size, output, w),
           NEW m, NEW n \in Nat, n + 1 =< size, DecodedUpTo(order, memory, data, output, w, m, n),
           NEW stored \in Seq(Byte), Len(stored) = w
    PROVE  NextDecodes(order, memory, data, output, w, m, n, stored)
<1> DEFINE at == n * w
           next == output + at
           L  == Len(memory)
           s  == StoreAt(m, next, stored)
           all == size * w
<1>1. /\ at \in Nat /\ all \in Nat /\ at + w =< all /\ (n + 1) * w = at + w
      /\ n + 1 \in 1 .. size /\ (n + 1) - 1 = n
  <2>1. size - (n + 1) \in Nat /\ (size - (n + 1)) * w \in Nat
    OBVIOUS
  <2>2. (size - (n + 1)) * w = size * w - n * w - w
    OBVIOUS
  <2>3. n * w \in Nat /\ size * w \in Nat /\ (n + 1) * w = n * w + w
    OBVIOUS
  <2> QED  BY <2>1, <2>2, <2>3
<1>2. /\ L \in Nat /\ data + all =< L /\ output + all =< L
      /\ data = output \/ data + all =< output \/ output + all =< data
  BY DEF DecodesWithin
<1>3. /\ m \in Seq(Byte) /\ Len(m) = L
      /\ \A i \in 1 .. n :
            FromMemory(ValueAt(m, output, w, i)) = Meaning(order, ValueAt(memory, data, w, i))
      /\ \A a \in 1 .. L : a \notin (output + 1) .. (output + at) => m[a] = memory[a]
  BY DEF DecodedUpTo
<1>4. ASSUME NEW mem \in Seq(Byte), Len(mem) = L, NEW place \in {data, output}, NEW i \in 1 .. size
      PROVE  IsValueAt(ValueAt(mem, place, w, i), mem, place, w, i, size)
  <2>1. place \in Nat /\ place + size * w =< Len(mem)
    BY <1>2, <1>4
  <2> QED  BY <2>1, ValueAtIs
<1>5. ValueAt(m, data, w, n + 1) = ValueAt(memory, data, w, n + 1)
  <2> DEFINE v == ValueAt(m, data, w, n + 1)
             u == ValueAt(memory, data, w, n + 1)
  <2>1. /\ v \in Seq(Byte) /\ Len(v) = w /\ \A k \in 1 .. w : v[k] = m[data + at + k]
        /\ u \in Seq(Byte) /\ Len(u) = w /\ \A k \in 1 .. w : u[k] = memory[data + at + k]
    <3>1. ASSUME NEW mem \in Seq(Byte), Len(mem) = L
          PROVE  /\ ValueAt(mem, data, w, n + 1) \in Seq(Byte)
                 /\ Len(ValueAt(mem, data, w, n + 1)) = w
                 /\ \A k \in 1 .. w : ValueAt(mem, data, w, n + 1)[k] = mem[data + ((n + 1) - 1) * w + k]
      BY <1>1, <1>4, <3>1, Zenon DEF IsValueAt
    <3>2. ((n + 1) - 1) * w = at
      BY <1>1
    <3>3. m \in Seq(Byte) /\ Len(m) = L /\ memory \in Seq(Byte) /\ Len(memory) = L
      BY <1>3
    <3> HIDE DEF at, L
    <3>4. ASSUME NEW mem \in Seq(Byte), Len(mem) = L
          PROVE  /\ ValueAt(mem, data, w, n + 1) \in Seq(Byte)
                 /\ Len(ValueAt(mem, data, w, n + 1)) = w
                 /\ \A k \in 1 .. w : ValueAt(mem, data, w, n + 1)[k] = mem[data + at + k]
      BY <3>1, <3>2, <3>4, Zenon
    <3>5. v \in Seq(Byte) /\ Len(v) = w /\ \A k \in 1 .. w : v[k] = m[data + at + k]
      BY <3>3, <3>4
    <3>6. u \in Seq(Byte) /\ Len(u) = w /\ \A k \in 1 .. w : u[k] = memory[data + at + k]
      BY <3>3, <3>4
    <3> QED  BY <3>5, <3>6
  <2>2. ASSUME NEW k \in 1 .. w PROVE m[data + at + k] = memory[data + at + k]
    <3>1. data + at + k \in 1 .. L /\ data + at + k \notin (output + 1) .. (output + at)
      <4> HIDE DEF at, all, L
      <4> QED  BY <1>1, <1>2
    <3> HIDE DEF at, L
    <3> QED  BY <1>3, <3>1
  <2> HIDE DEF v, u, at
  <2>3. \A k \in 1 .. w : v[k] = u[k]
    BY <2>1, <2>2
  <2>4. v = u
    BY <2>1, <2>3, SeqEqual
  <2> QED  BY <2>4 DEF v, u
<1>6. next \in Nat /\ next + Len(stored) =< Len(m)
  <2> HIDE DEF at, all, L
  <2> QED  BY <1>1, <1>2, <1>3
<1> HIDE DEF next
<1>7. /\ s \in Seq(Byte) /\ Len(s) = L
      /\ \A k \in 1 .. w : s[next + k] = stored[k]
      /\ \A a \in 1 .. L : a \notin (next + 1) .. (next + w) => s[a] = m[a]
  <2> HIDE DEF L, all, at
  <2>1. IsStoredAt(s, m, next, stored)
    BY <1>3, <1>6, StoreAtIs
  <2> HIDE DEF s
  <2> QED  BY <1>3, <2>1 DEF IsStoredAt
<1> HIDE DEF s, L, all, at
<1>8. ValueAt(s, output, w, n + 1) = stored
  <2>1. /\ ValueAt(s, output, w, n + 1) \in Seq(Byte) /\ Len(ValueAt(s, output, w, n + 1)) = w
        /\ \A k \in 1 .. w : ValueAt(s, output, w, n + 1)[k] = s[output + at + k]
    <3>1. IsValueAt(ValueAt(s, output, w, n + 1), s, output, w, n + 1, size)
      BY <1>1, <1>4, <1>7
    <3>2. ((n + 1) - 1) * w = at
      BY <1>1 DEF at
    <3> QED  BY <3>1, <3>2, Zenon DEF IsValueAt
  <2>2. \A k \in 1 .. w : s[output + at + k] = stored[k]
    BY <1>7 DEF next
  <2> QED  BY <2>1, <2>2, SeqEqual
<1>9. ASSUME NEW i \in 1 .. n PROVE ValueAt(s, output, w, i) = ValueAt(m, output, w, i)
  <2> DEFINE b == (i - 1) * w
  <2>1. i \in 1 .. size
    BY <1>1
  <2>2. \A mem \in {s, m} :
           /\ ValueAt(mem, output, w, i) \in Seq(Byte) /\ Len(ValueAt(mem, output, w, i)) = w
           /\ \A k \in 1 .. w : ValueAt(mem, output, w, i)[k] = mem[output + b + k]
    <3>1. ASSUME NEW mem \in Seq(Byte), Len(mem) = L
          PROVE  /\ ValueAt(mem, output, w, i) \in Seq(Byte)
                 /\ Len(ValueAt(mem, output, w, i)) = w
                 /\ \A k \in 1 .. w : ValueAt(mem, output, w, i)[k] = mem[output + b + k]
      BY <1>4, <2>1, <3>1, Zenon DEF IsValueAt
    <3> HIDE DEF b
    <3> QED  BY <1>3, <1>7, <3>1, SMTT(20)
  <2>3. b \in Nat /\ b + w =< at
    <3>1. i * w = b + w /\ b \in Nat
      <4>1. IsValueAt(ValueAt(s, output, w, i), s, output, w, i, size)
        BY <1>4, <1>7, <2>1
      <4> QED  BY <4>1, Zenon DEF IsValueAt
    <3>2. n - i \in Nat /\ (n - i) * w \in Nat /\ (n - i) * w = n * w - i * w
      OBVIOUS
    <3> QED  BY <1>1, <3>1, <3>2 DEF at
  <2> HIDE DEF b
  <2>4. ASSUME NEW k \in 1 .. w PROVE s[output + b + k] = m[output + b + k]
    <3>1. output + b + k \in 1 .. L /\ output + b + k \notin (next + 1) .. (next + w)
      BY <1>1, <1>2, <2>3 DEF next
    <3> QED  BY <1>7, <3>1
  <2> QED  BY <2>2, <2>4, SeqEqual, SMTT(20)
<1>10. ASSUME NEW a \in 1 .. L, a \notin (output + 1) .. (output + (at + w))
       PROVE  s[a] = memory[a]
  <2>1. a \notin (next + 1) .. (next + w) /\ a \notin (output + 1) .. (output + at)
    BY <1>1, <1>10 DEF next
  <2> QED  BY <1>3, <1>7, <2>1
<1>11. ASSUME FromMemory(stored) = Meaning(order, ValueAt(memory, data, w, n + 1)),
              NEW i \in 1 .. (n + 1)
       PROVE  FromMemory(ValueAt(s, output, w, i)) = Meaning(order, ValueAt(memory, data, w, i))
  <2>1. CASE i \in 1 .. n
    BY <1>3, <1>9, <2>1
  <2>2. CASE i = n + 1
    BY <1>8, <1>11, <2>2
  <2> QED  BY <2>1, <2>2
<1>12. ASSUME FromMemory(stored) = Meaning(order, ValueAt(memory, data, w, n + 1))
       PROVE  DecodedUpTo(order, memory, data, output, w, s, n + 1)
  BY <1>1, <1>7, <1>10, <1>11, <1>12 DEF DecodedUpTo, L
<1> QED  BY <1>5, <1>12 DEF s, next, at, NextDecodes

\* Swapped one by one, or copied, the values end up decoded and the rest as it was.
LEMMA ImplDecodeIs ==
    ASSUME NEW order \in Orders, NEW memory \in Seq(Byte), NEW data \in Nat, NEW size \in Nat,
           NEW output \in Nat, NEW w \in Nat \ {0}, DecodesWithin(memory, data, size, output, w)
    PROVE  DecodedUpTo(order, memory, data, output, w,
                       ImplDecode_v(order, memory, data, size, output, w), size)
<1> DEFINE Done(m, n)  == DecodedUpTo(order, memory, data, output, w, m, n)
           Held(i)   == ValueAt(memory, data, w, i)
           Swapped(m, i) == ToMemory(ByteSwap(FromMemory(ValueAt(m, data, w, i)), w), w)
           Stored(m, i) == StoreAt(m, output + (i - 1) * w, Swapped(m, i))
           Impl        == ImplDecode_v(order, memory, data, size, output, w)
           L           == Len(memory)
<1>1. /\ size * w \in Nat /\ L \in Nat /\ data + size * w =< L /\ output + size * w =< L
      /\ data = output \/ data + size * w =< output \/ output + size * w =< data
  BY DEF DecodesWithin
<1>2. \A i \in 1 .. size : IsValueAt(Held(i), memory, data, w, i, size)
  BY <1>1, ValueAtIs
<1>3. ASSUME NEW i \in 1 .. size PROVE Held(i) \in Seq(Byte) /\ Len(Held(i)) = w
  BY <1>2 DEF IsValueAt
<1>4. CASE w > 1 /\ order # Host
  <2> DEFINE S      == {m \in Seq(Byte) : Len(m) = L}
             Rec(f) == [i \in 0 .. size |-> IF i = 0 THEN memory ELSE Stored(f[i - 1], i)]
             after  == CHOOSE f : f = Rec(f)
             F      == [x \in Nat \X S |-> IF x[1] \in 1 .. size THEN Stored(x[2], x[1]) ELSE x[2]]
  <2>1. Impl = after[size]
    BY <1>4 DEF ImplDecode_v
  <2>2. ASSUME NEW m \in S, NEW i \in 1 .. size PROVE Stored(m, i) \in S
    <3> DEFINE v    == ValueAt(m, data, w, i)
               next == output + (i - 1) * w
    <3>1. IsValueAt(v, m, data, w, i, size)
      BY <1>1, ValueAtIs
    <3>2. v \in Seq(Byte) /\ Len(v) = w /\ (i - 1) * w \in Nat /\ (i - 1) * w + w =< size * w
      <4>1. i * w = (i - 1) * w + w /\ i * w =< size * w
        BY <3>1 DEF IsValueAt
      <4> HIDE DEF v
      <4> QED  BY <3>1, <4>1 DEF IsValueAt
    <3> HIDE DEF v
    <3>3. Swapped(m, i) \in Seq(Byte) /\ Len(Swapped(m, i)) = w
      <4>1. PICK stored \in Seq(Byte) :
               Len(stored) = w /\ ToMemory(ByteSwap(FromMemory(v), w), w) = stored
        BY <1>4, <3>2, HostBytesIs
      <4>2. Swapped(m, i) = stored
        BY <4>1 DEF v
      <4> HIDE DEF Swapped
      <4> QED  BY <4>1, <4>2
    <3>4. next \in Nat /\ next + w =< L
      <4> DEFINE p == (i - 1) * w
                 all == size * w
      <4>1. p \in Nat /\ p + w =< all /\ all \in Nat /\ output + all =< L
        BY <1>1, <3>2
      <4> HIDE DEF p, all, L
      <4>2. output + p \in Nat /\ output + p + w =< L
        BY <1>1, <4>1
      <4> QED  BY <4>2 DEF p
    <3> HIDE DEF next, Swapped
    <3>5. IsStoredAt(StoreAt(m, next, Swapped(m, i)), m, next, Swapped(m, i))
      BY <3>3, <3>4, StoreAtIs
    <3> QED  BY <3>5 DEF IsStoredAt, next
  <2>3. memory \in S
    OBVIOUS
  <2> HIDE DEF S, Stored
  <2>4. F \in [Nat \X S -> S] /\ \A i \in 1 .. size, m \in S : F[<<i, m>>] = Stored(m, i)
    <3>1. ASSUME NEW x \in Nat \X S
          PROVE  (IF x[1] \in 1 .. size THEN Stored(x[2], x[1]) ELSE x[2]) \in S
      <4>1. x[2] \in S
        OBVIOUS
      <4> QED  BY <2>2, <4>1
    <3>2. \A i \in 1 .. size, m \in S :
             <<i, m>> \in Nat \X S /\ <<i, m>>[1] = i /\ <<i, m>>[2] = m
      OBVIOUS
    <3> QED  BY <3>1, <3>2
  <2> HIDE DEF F
  <2>5. PICK g \in [0 .. size -> S] : Obeys(g, memory, F, size)
    BY <2>3, <2>4, RecursionExists
  <2>6. g = Rec(g)
    <3>1. ASSUME NEW i \in 1 .. size PROVE g[i] = Stored(g[i - 1], i)
      <4>1. i - 1 \in 0 .. size /\ i \in Nat
        OBVIOUS
      <4> QED  BY <2>4, <2>5, <4>1 DEF Obeys
    <3> QED  BY <2>5, <3>1 DEF Obeys
  <2>7. after = Rec(after)
    <3> HIDE DEF Rec
    <3> QED  BY <2>6
  <2> HIDE DEF after
  <2>8. after[0] = memory /\ \A i \in 1 .. size : after[i] = Stored(after[i - 1], i)
    BY <2>7
  <2> DEFINE Good == {n \in Nat : n =< size => Done(after[n], n)}
  <2>9. 0 \in Good
    <3>1. 1 .. 0 = {} /\ \A a \in 1 .. L : memory[a] = memory[a]
      OBVIOUS
    <3>2. Done(memory, 0)
      BY <3>1 DEF DecodedUpTo
    <3> HIDE DEF Done
    <3> QED  BY <2>8, <3>2
  <2>10. ASSUME NEW n \in Nat, n \in Good PROVE n + 1 \in Good
    <3> SUFFICES ASSUME n + 1 =< size PROVE Done(after[n + 1], n + 1)
      <4> HIDE DEF Done
      <4> QED  OBVIOUS
    <3> DEFINE m == after[n]
               b == Held(n + 1)
    <3>1. Done(m, n)
      <4> HIDE DEF Done
      <4> QED  BY <2>10
    <3>2. n + 1 \in 1 .. size /\ (n + 1) - 1 = n
      OBVIOUS
    <3>3. b \in Seq(Byte) /\ Len(b) = w
      BY <1>3, <3>2
    <3> HIDE DEF b, m
    <3>4. PICK stored \in Seq(Byte) :
             /\ Len(stored) = w /\ FromMemory(stored) = Meaning(order, b)
             /\ ToMemory(ByteSwap(FromMemory(b), w), w) = stored
      BY <1>4, <3>3, HostBytesIs
    <3>5. /\ ValueAt(m, data, w, n + 1) = b
          /\ FromMemory(stored) = Meaning(order, b) =>
                Done(StoreAt(m, output + n * w, stored), n + 1)
      <4>1. /\ n + 1 =< size /\ DecodesWithin(memory, data, size, output, w)
            /\ DecodedUpTo(order, memory, data, output, w, m, n)
            /\ stored \in Seq(Byte) /\ Len(stored) = w
        BY <3>1, <3>4
      <4>2. NextDecodes(order, memory, data, output, w, m, n, stored)
        BY <4>1, NextIsDecoded
      <4> QED  BY <4>2 DEF b, NextDecodes
    <3>6. after[n + 1] = StoreAt(m, output + n * w, stored)
      <4>1. after[n + 1] = Stored(m, n + 1)
        BY <2>8, <3>2 DEF m
      <4>2. Swapped(m, n + 1) = stored
        BY <3>4, <3>5
      <4> HIDE DEF Swapped
      <4> QED  BY <3>2, <4>1, <4>2 DEF Stored
    <3> HIDE DEF Done
    <3> QED  BY <3>4, <3>5, <3>6
  <2>11. \A n \in Nat : n \in Good
    <3> HIDE DEF Good
    <3> QED  BY <2>9, <2>10, SetInduction
  <2> HIDE DEF Done
  <2>12. Done(after[size], size)
    BY <2>11
  <2> QED  BY <2>1, <2>12 DEF Done
<1>5. CASE ~(w > 1 /\ order # Host)
  <2>1. ASSUME NEW i \in 1 .. size PROVE FromMemory(Held(i)) = Meaning(order, Held(i))
    BY <1>3, <1>5, HostBytesIs
  <2> SUFFICES /\ Impl \in Seq(Byte) /\ Len(Impl) = L
               /\ \A i \in 1 .. size : ValueAt(Impl, output, w, i) = Held(i)
               /\ \A a \in 1 .. L : a \notin (output + 1) .. (output + size * w) => Impl[a] = memory[a]
    BY <2>1 DEF DecodedUpTo
  <2>2. CASE ~(size > 0 /\ data # output)
    <3>1. Impl = memory
      BY <1>5, <2>2 DEF ImplDecode_v
    <3>2. size = 0 \/ data = output
      BY <2>2
    <3> QED  BY <3>1, <3>2
  <2>3. CASE size > 0 /\ data # output
    <3> DEFINE all == size * w
               source == SubSeq(memory, data + 1, data + all)
    <3>1. Impl = StoreAt(memory, output, source)
      BY <1>5, <2>3 DEF ImplDecode_v
    <3>2. source \in Seq(Byte) /\ Len(source) = all /\ \A k \in 1 .. all : source[k] = memory[data + k]
      <4> DEFINE b == data + 1
                 e == data + all
      <4>0. size * w >= 1
        BY <2>3
      <4>1. b \in Int /\ e \in Int /\ b <= e /\ e - b + 1 = all /\ e =< L /\ b >= 1
        <5> HIDE DEF L
        <5> QED  BY <1>1, <4>0
      <4>2. \A j \in b .. e : memory[j] \in Byte
        BY <4>1
      <4>3. \A k \in 1 .. all : b + k - 1 = data + k
        OBVIOUS
      <4> HIDE DEF b, e, all
      <4> DEFINE c == SubSeq(memory, b, e)
      <4>4. /\ c \in Seq(Byte)
            /\ Len(c) = IF b <= e THEN e - b + 1 ELSE 0
            /\ \A k \in 1 .. e - b + 1 : c[k] = memory[b + k - 1]
        BY <4>1, <4>2, SubSeqProperties
      <4> HIDE DEF c
      <4>5. c \in Seq(Byte) /\ Len(c) = all /\ \A k \in 1 .. all : c[k] = memory[data + k]
        BY <4>1, <4>3, <4>4
      <4> QED  BY <4>5 DEF c, b, e
    <3> HIDE DEF source
    <3>3. IsStoredAt(Impl, memory, output, source)
      BY <1>1, <3>1, <3>2, StoreAtIs
    <3> HIDE DEF Impl
    <3>4. /\ Impl \in Seq(Byte) /\ Len(Impl) = L
          /\ \A k \in 1 .. all : Impl[output + k] = memory[data + k]
          /\ \A a \in 1 .. L : a \notin (output + 1) .. (output + all) => Impl[a] = memory[a]
      BY <3>2, <3>3 DEF IsStoredAt
    <3>5. ASSUME NEW i \in 1 .. size PROVE ValueAt(Impl, output, w, i) = Held(i)
      <4> DEFINE v == ValueAt(Impl, output, w, i)
                 u == Held(i)
                 p == (i - 1) * w
      <4>1. IsValueAt(v, Impl, output, w, i, size) /\ IsValueAt(u, memory, data, w, i, size)
        BY <1>1, <1>2, <3>4, ValueAtIs
      <4> HIDE DEF v, u
      <4>2. /\ v \in Seq(Byte) /\ Len(v) = w /\ \A k \in 1 .. w : v[k] = Impl[output + p + k]
            /\ u \in Seq(Byte) /\ Len(u) = w /\ \A k \in 1 .. w : u[k] = memory[data + p + k]
            /\ p \in Nat /\ i * w = p + w /\ i * w =< all
        BY <4>1, Zenon DEF IsValueAt
      <4> HIDE DEF p, all
      <4>3. ASSUME NEW k \in 1 .. w PROVE Impl[output + p + k] = memory[data + p + k]
        <5>1. p + w =< all /\ all \in Nat
          BY <1>1, <4>2 DEF all
        <5>2. p + k \in 1 .. all
          BY <4>2, <5>1
        <5>3. output + p + k = output + (p + k) /\ data + p + k = data + (p + k)
          BY <4>2
        <5> QED  BY <3>4, <5>2, <5>3
      <4>4. v = u
        BY <4>2, <4>3, SeqEqual
      <4> QED  BY <4>4 DEF v, u
    <3> QED  BY <3>4, <3>5
  <2> QED  BY <2>2, <2>3
<1> QED  BY <1>4, <1>5

\* memory ends with the bytes, behind its first `data`.
EndsWith(memory, data, bytes) ==
    /\ memory \in Seq(Byte) /\ data \in Nat /\ Len(memory) = data + Len(bytes)
    /\ \A k \in 1 .. Len(bytes) : memory[data + k] = bytes[k]

\* The first N values there are the chunks of the bytes.
ChunksAt(memory, data, bytes, w, N) ==
    \A i \in 1 .. N : ValueAt(memory, data, w, i) = Chunk(bytes, w, i)

LEMMA ChunkInMemory ==
    ASSUME NEW bytes \in Seq(Byte), NEW memory, NEW data, EndsWith(memory, data, bytes),
           NEW w \in Nat \ {0}, NEW N \in Nat, N * w =< Len(bytes)
    PROVE  ChunksAt(memory, data, bytes, w, N)
<1> SUFFICES ASSUME NEW i \in 1 .. N PROVE ValueAt(memory, data, w, i) = Chunk(bytes, w, i)
  BY DEF ChunksAt
<1> DEFINE c == Chunk(bytes, w, i)
           v == ValueAt(memory, data, w, i)
           p == (i - 1) * w
<1>0. /\ memory \in Seq(Byte) /\ data \in Nat /\ Len(memory) = data + Len(bytes)
      /\ \A k \in 1 .. Len(bytes) : memory[data + k] = bytes[k]
  BY DEF EndsWith
<1>1. /\ c \in Seq(Byte) /\ Len(c) = w /\ p \in Nat /\ i * w = p + w /\ i * w =< Len(bytes)
      /\ \A k \in 1 .. w : c[k] = bytes[p + k]
  <2>1. \A j \in 1 .. N :
           /\ Chunk(bytes, w, j) \in Seq(Byte) /\ Len(Chunk(bytes, w, j)) = w
           /\ (j - 1) * w \in Nat /\ j * w = (j - 1) * w + w /\ j * w =< Len(bytes)
           /\ \A k \in 1 .. w : Chunk(bytes, w, j)[k] = bytes[(j - 1) * w + k]
    BY ChunkIs
  <2> QED  BY <2>1, Zenon
<1>2. data + N * w =< Len(memory) /\ Len(bytes) \in Nat
  BY <1>0
<1>3. IsValueAt(v, memory, data, w, i, N)
  BY <1>0, <1>2, ValueAtIs
<1> HIDE DEF c, v
<1>4. v \in Seq(Byte) /\ Len(v) = w /\ \A k \in 1 .. w : v[k] = memory[data + p + k]
  BY <1>3 DEF IsValueAt
<1> HIDE DEF p
<1>5. ASSUME NEW k \in 1 .. w PROVE memory[data + p + k] = bytes[p + k]
  <2>1. p + w =< Len(bytes)
    BY <1>1
  <2>2. p + k \in 1 .. Len(bytes) /\ data + p + k = data + (p + k)
    BY <1>0, <1>1, <1>2, <2>1
  <2> QED  BY <1>0, <2>2
<1>6. \A k \in 1 .. w : v[k] = c[k]
  BY <1>1, <1>4, <1>5
<1>7. v = c
  BY <1>1, <1>4, <1>6, SeqEqual
<1> QED  BY <1>1, <1>7 DEF c, v

\* The whole values of bytes that stand behind some room, decoded in place or into it.
WholeDecoded(order, memory, bytes, w, N, after, at) ==
    /\ Len(after) = Len(memory)
    /\ \A i \in 1 .. N : FromMemory(ValueAt(after, at, w, i)) = Meaning(order, Chunk(bytes, w, i))
    /\ \A a \in 1 .. Len(memory) : a \notin (at + 1) .. (at + N * w) => after[a] = memory[a]

LEMMA ChunksDecode ==
    ASSUME NEW order \in Orders, NEW bytes \in Seq(Byte), NEW room \in Seq(Byte),
           NEW w \in Nat \ {0}, NEW N \in Nat, N * w =< Len(bytes), N * w =< Len(room),
           NEW at \in {0, Len(room)}
    PROVE  WholeDecoded(order, room \o bytes, bytes, w, N,
                        ImplDecode_v(order, room \o bytes, Len(room), N, at, w), at)
<1> DEFINE memory == room \o bytes
           data   == Len(room)
           after  == ImplDecode_v(order, memory, data, N, at, w)
<1>1. N * w \in Nat
  OBVIOUS
<1>2. /\ memory \in Seq(Byte) /\ Len(memory) = data + Len(bytes) /\ data \in Nat
      /\ \A k \in 1 .. Len(bytes) : memory[data + k] = bytes[k]
  <2>1. data \in Nat /\ Len(bytes) \in Nat
    OBVIOUS
  <2>2. /\ memory \in Seq(Byte) /\ Len(memory) = data + Len(bytes)
        /\ \A k \in 1 .. (data + Len(bytes)) :
              memory[k] = IF k <= data THEN room[k] ELSE bytes[k - data]
    BY ConcatProperties
  <2>3. ASSUME NEW k \in 1 .. Len(bytes) PROVE memory[data + k] = bytes[k]
    <3>1. data + k \in 1 .. (data + Len(bytes)) /\ ~(data + k <= data) /\ (data + k) - data = k
      BY <2>1
    <3> HIDE DEF data, memory
    <3> QED  BY <2>2, <3>1
  <2> QED  BY <2>1, <2>2, <2>3
<1> HIDE DEF memory, data
<1>3. ChunksAt(memory, data, bytes, w, N)
  <2>1. EndsWith(memory, data, bytes)
    BY <1>2 DEF EndsWith
  <2> QED  BY <2>1, ChunkInMemory
<1>4. at \in Nat /\ DecodesWithin(memory, data, N, at, w)
  <2> DEFINE all == N * w
  <2>1. /\ all \in Nat /\ all =< Len(bytes) /\ all =< data
        /\ Len(memory) = data + Len(bytes) /\ data \in Nat /\ Len(bytes) \in Nat
        /\ at \in {0, data}
    BY <1>1, <1>2 DEF data
  <2> HIDE DEF all
  <2>2. /\ at \in Nat /\ data + all =< Len(memory) /\ at + all =< Len(memory)
        /\ data = at \/ data + all =< at \/ at + all =< data
    BY <2>1
  <2> QED  BY <2>2 DEF DecodesWithin, all
<1>5. DecodedUpTo(order, memory, data, at, w, after, N)
  BY <1>2, <1>4, ImplDecodeIs
<1> HIDE DEF after
<1>6. WholeDecoded(order, memory, bytes, w, N, after, at)
  BY <1>3, <1>5 DEF DecodedUpTo, WholeDecoded, ChunksAt
<1> QED  BY <1>6 DEF memory, data, after

\* encode_v of what chunks mean gives them back.
LEMMA ChunksEncode ==
    ASSUME NEW order \in Orders, NEW bytes \in Seq(Byte), NEW w \in Nat \ {0}, NEW N \in Nat,
           N * w =< Len(bytes)
    PROVE  Encode_v(order, [i \in 1 .. N |-> Meaning(order, Chunk(bytes, w, i))], w)
               = SubSeq(bytes, 1, N * w)
<1> DEFINE chunk  == [i \in 1 .. N |-> Chunk(bytes, w, i)]
           values == [i \in 1 .. N |-> Meaning(order, Chunk(bytes, w, i))]
<1>1. ASSUME NEW i \in 1 .. N PROVE Encode(order, values[i], w) = chunk[i]
  <2>1. Chunk(bytes, w, i) \in Seq(Byte) /\ w = Len(Chunk(bytes, w, i))
    BY ChunkIs
  <2> QED  BY <2>1, DecodeEncode
<1>2. Len(values) = N /\ N * w = w * N
  OBVIOUS
<1>3. [i \in 1 .. N |-> Encode(order, values[i], w)] = chunk
  BY <1>1
<1> HIDE DEF values
<1>4. Encode_v(order, values, w) = FlattenSeq(chunk)
  BY <1>2, <1>3 DEF Encode_v
<1>5. FlattenSeq(chunk) = SubSeq(bytes, 1, w * N)
  BY ChunksFlatten
<1> QED  BY <1>2, <1>4, <1>5 DEF values

\* decode and encode are inverse and independent of the host, for one value and
\* for many, of any width in any base, from elements of any size, in place or not.
LEMMA BytesMean ==
    ASSUME NEW order \in Orders \cup {"unknown"}, NEW bytes \in Seq(Byte), NEW w \in Nat \ {0},
           NEW unit \in Nat \ {0}, Len(bytes) % unit = 0,
           NEW room \in Seq(Byte), Len(room) >= (Len(bytes) \div w) * w
    PROVE  DecodeIsMeaning(order, bytes) /\ VectorsAreWholeValues(order, bytes, unit, w, room)
<1> DEFINE known  == RuntimeOrder(order)
           N      == Len(bytes) \div w
           memory == room \o bytes
           size   == Len(bytes) \div unit
           values == [i \in 1 .. N |-> Meaning(order, Chunk(bytes, w, i))]
<1>1. known \in Orders
  BY DEF RuntimeOrder, Orders
<1>2. \A b : Meaning(order, b) = Meaning(known, b)
  BY DEF RuntimeOrder, Meaning
<1> HIDE DEF known
<1>3. DecodeIsMeaning(order, bytes)
  BY <1>1, <1>2, DecodeEncode DEF DecodeIsMeaning, DecodeAtRunTime, EncodeAtRunTime, known
<1>4. N \in Nat /\ N * w =< Len(bytes) /\ N * w =< Len(room)
  <2>1. Len(bytes) \in Nat
    OBVIOUS
  <2>2. \A x \in Nat : x \div w \in Nat /\ (x \div w) * w =< x /\ (x \div w) * w \in Nat
    OBVIOUS
  <2> QED  BY <2>1, <2>2
<1>5. (size * unit) \div w = N
  <2>1. \A x \in Nat : x % unit = 0 => (x \div unit) * unit = x
    OBVIOUS
  <2>2. Len(bytes) \in Nat /\ Len(bytes) % unit = 0
    OBVIOUS
  <2> QED  BY <2>1, <2>2
<1>6. Decode_v(known, memory, Len(room), size, unit, 0, w)
          = ImplDecode_v(known, memory, Len(room), N, 0, w)
  BY <1>5 DEF Decode_v
<1>7. Decode_vInPlace(known, memory, Len(room), N, w)
          = ImplDecode_v(known, memory, Len(room), N, Len(room), w)
  BY DEF Decode_vInPlace
<1>8. values = [i \in 1 .. N |-> Meaning(known, Chunk(bytes, w, i))]
  BY <1>2
<1> HIDE DEF N, size
<1>9. \A at \in {0, Len(room)} :
         WholeDecoded(known, memory, bytes, w, N, ImplDecode_v(known, memory, Len(room), N, at, w), at)
  BY <1>1, <1>4, ChunksDecode
<1> HIDE DEF memory
<1>10. Encode_v(known, values, w) = SubSeq(bytes, 1, N * w)
  <2> HIDE DEF values
  <2> QED  BY <1>1, <1>4, <1>8, ChunksEncode
<1>11. ASSUME NEW after, NEW at, WholeDecoded(known, memory, bytes, w, N, after, at)
       PROVE  /\ Len(after) = Len(memory)
              /\ \A i \in 1 .. N : FromMemory(ValueAt(after, at, w, i)) = values[i]
              /\ \A a \in 1 .. Len(memory) : a \notin (at + 1) .. (at + N * w) => after[a] = memory[a]
  BY <1>2, <1>11 DEF WholeDecoded
<1>12. /\ WholeDecoded(known, memory, bytes, w, N,
                       Decode_v(known, memory, Len(room), size, unit, 0, w), 0)
       /\ WholeDecoded(known, memory, bytes, w, N,
                       Decode_vInPlace(known, memory, Len(room), N, w), Len(room))
  BY <1>6, <1>7, <1>9
<1> DEFINE Decoded(after, at) ==
               /\ Len(after) = Len(memory)
               /\ \A i \in 1 .. N : FromMemory(ValueAt(after, at, w, i)) = values[i]
               /\ \A a \in 1 .. Len(memory) :
                     a \notin (at + 1) .. (at + N * w) => after[a] = memory[a]
<1> HIDE DEF values
<1>13. /\ Decoded(Decode_v(known, memory, Len(room), size, unit, 0, w), 0)
       /\ Decoded(Decode_vInPlace(known, memory, Len(room), N, w), Len(room))
  BY <1>11, <1>12
<1>14. VectorsAreWholeValues(order, bytes, unit, w, room)
  BY <1>10, <1>13 DEF VectorsAreWholeValues, N, size, known, memory, values
<1> QED  BY <1>3, <1>14

-----------------------------------------------------------------------------
(* fuzzy_match: the levels bound every alignment, and tracing back attains it. *)

LEMMA MaxIs ==
    ASSUME NEW S \in SUBSET Int, NEW x \in S, \A y \in S : x >= y
    PROVE  Max(S) = x
<1>1. Max(S) \in S /\ Max(S) >= x
  BY DEF Max
<1>2. x \in Int /\ Max(S) \in Int /\ x >= Max(S)
  BY <1>1
<1> QED  BY <1>1, <1>2

\* Finitely many values, and one more, have a greatest.
LEMMA MaxOfValues ==
    ASSUME NEW f, NEW K \in Nat, NEW a \in Int, \A k \in 1 .. K : f[k] \in Int
    PROVE  LET S == {a} \cup {f[k] : k \in 1 .. K}
           IN  S \subseteq Int /\ Max(S) \in S /\ \A y \in S : Max(S) >= y
<1> DEFINE S(n) == {a} \cup {f[k] : k \in 1 .. n}
           Has(n) == \E x \in S(n) : \A y \in S(n) : x >= y
           Good == {n \in Nat : n =< K => Has(n)}
<1>1. 0 \in Good
  <2>1. S(0) = {a}
    OBVIOUS
  <2> QED  BY <2>1
<1>2. ASSUME NEW n \in Nat, n \in Good PROVE n + 1 \in Good
  <2> SUFFICES ASSUME n + 1 =< K PROVE Has(n + 1)
    <3> HIDE DEF Has
    <3> QED  OBVIOUS
  <2>1. Has(n)
    <3> HIDE DEF Has
    <3> QED  BY <1>2
  <2>2. PICK x \in S(n) : \A y \in S(n) : x >= y
    BY <2>1
  <2>3. S(n + 1) = S(n) \cup {f[n + 1]} /\ f[n + 1] \in Int
    <3>1. 1 .. (n + 1) = (1 .. n) \cup {n + 1}
      OBVIOUS
    <3> QED  BY <3>1
  <2>4. S(n) \subseteq Int
    OBVIOUS
  <2> HIDE DEF S
  <2>5. CASE x >= f[n + 1]
    BY <2>2, <2>3, <2>4, <2>5
  <2>6. CASE ~(x >= f[n + 1])
    <3>1. \A y \in S(n + 1) : f[n + 1] >= y
      BY <2>2, <2>3, <2>4, <2>6
    <3> QED  BY <2>3, <3>1
  <2> QED  BY <2>5, <2>6
<1>3. K \in Good
  <2> HIDE DEF Good
  <2> QED  BY <1>1, <1>2, SetInduction
<1>4. Has(K)
  <2> HIDE DEF Has
  <2> QED  BY <1>3
<1>5. S(K) \subseteq Int
  OBVIOUS
<1> HIDE DEF S
<1>6. Max(S(K)) \in S(K) /\ \A y \in S(K) : Max(S(K)) >= y
  BY <1>4 DEF Max
<1> QED  BY <1>5, <1>6 DEF S

\* What a level holds.
Scores == {NegInf} \cup (Nat \ {0})

LEMMA BonusIs ==
    ASSUME NEW candidate, NEW i
    PROVE  WordStartBonus(candidate, i) \in Nat
  BY DEF WordStartBonus

\* The best before i is the best of all that stand before i, and PreviousOf
\* finds one.
LEMMA BestPreviousIs ==
    ASSUME NEW n \in Nat, NEW level \in [1 .. n -> Scores], NEW i \in 1 .. n
    PROVE  LET best == BestPrevious(level, i)
               from == PreviousOf(level, i)
           IN  /\ best \in Scores
               /\ \A k \in 1 .. (i - 1) : level[k] # NegInf =>
                     best >= level[k] + IF i = k + 1 THEN 4 ELSE 0
               /\ best # NegInf =>
                     /\ from \in 1 .. (i - 1) /\ level[from] # NegInf
                     /\ best = level[from] + IF i = from + 1 THEN 4 ELSE 0
<1> DEFINE before == PrefixMax(level, i)
           near   == Adjacent(level, i)
           best   == BestPrevious(level, i)
           K      == IF i > 1 THEN i - 2 ELSE 0
           V      == {NegInf} \cup {level[k] : k \in 1 .. K}
<1>1. K \in Nat /\ K =< n /\ 1 .. (i - 2) = 1 .. K /\ NegInf \in Int
  BY DEF NegInf
<1>2. /\ \A k \in 1 .. n : level[k] \in Scores /\ level[k] \in Int
      /\ \A k \in 1 .. n : level[k] # NegInf => level[k] > 0
      /\ \A s \in Scores : s \in Int /\ s >= NegInf /\ (s # NegInf => s > 0)
  BY DEF Scores, NegInf
<1>3. V \subseteq Int /\ Max(V) \in V /\ \A y \in V : Max(V) >= y
  <2>1. \A k \in 1 .. K : level[k] \in Int
    BY <1>1, <1>2
  <2> QED  BY <1>1, <2>1, MaxOfValues
<1>4. before = Max(V) /\ before \in V /\ \A y \in V : before >= y
  BY <1>1, <1>3 DEF PrefixMax
<1>5. before \in Scores
  <2>1. \A k \in 1 .. K : level[k] \in Scores
    BY <1>1, <1>2
  <2> QED  BY <1>4, <2>1 DEF Scores
<1>6. /\ near \in Scores
      /\ near # NegInf => i - 1 \in 1 .. n /\ level[i - 1] # NegInf /\ near = level[i - 1] + 4
      /\ i > 1 /\ level[i - 1] # NegInf => near = level[i - 1] + 4
  <2>1. CASE i > 1 /\ level[i - 1] # NegInf
    <3>1. i - 1 \in 1 .. n /\ level[i - 1] \in Nat \ {0}
      BY <2>1 DEF Scores
    <3>2. near = level[i - 1] + 4
      BY <2>1 DEF Adjacent
    <3> QED  BY <2>1, <3>1, <3>2 DEF Scores
  <2>2. CASE ~(i > 1 /\ level[i - 1] # NegInf)
    BY <2>2 DEF Adjacent, Scores
  <2> QED  BY <2>1, <2>2
<1> HIDE DEF before, near, V
<1>7. best = IF near >= before THEN near ELSE before
  <2>1. {before, near} \subseteq Int
    BY <1>2, <1>5, <1>6
  <2>2. best = Max({before, near})
    BY DEF BestPrevious, before, near
  <2>3. CASE near >= before
    <3>1. \A y \in {before, near} : near >= y
      BY <2>1, <2>3
    <3> QED  BY <2>1, <2>2, <2>3, <3>1, MaxIs
  <2>4. CASE ~(near >= before)
    <3>1. \A y \in {before, near} : before >= y
      BY <2>1, <2>4
    <3> QED  BY <2>1, <2>2, <2>4, <3>1, MaxIs
  <2> QED  BY <2>3, <2>4
<1> HIDE DEF best
<1>8. best \in Scores /\ best >= near /\ best >= before
  BY <1>2, <1>5, <1>6, <1>7
<1>9. ASSUME NEW k \in 1 .. (i - 1), level[k] # NegInf
      PROVE  best >= level[k] + IF i = k + 1 THEN 4 ELSE 0
  <2>1. CASE i = k + 1
    BY <1>6, <1>8, <1>9, <2>1
  <2>2. CASE i # k + 1
    <3>1. k \in 1 .. K /\ level[k] \in Int
      BY <1>2, <2>2
    <3>2. before >= level[k]
      BY <1>4, <3>1 DEF V
    <3> QED  BY <1>2, <1>5, <1>8, <2>2, <3>1, <3>2
  <2> QED  BY <2>1, <2>2
<1>10. ASSUME best # NegInf
       PROVE  LET from == PreviousOf(level, i)
              IN  /\ from \in 1 .. (i - 1) /\ level[from] # NegInf
                  /\ best = level[from] + IF i = from + 1 THEN 4 ELSE 0
  <2>1. CASE near >= before
    <3>1. PreviousOf(level, i) = i - 1
      BY <2>1 DEF PreviousOf, near, before
    <3>2. best = near /\ near # NegInf
      BY <1>7, <1>10, <2>1
    <3>3. i - 1 \in 1 .. (i - 1) /\ i = (i - 1) + 1
      BY <1>6, <3>2
    <3> QED  BY <1>6, <3>1, <3>2, <3>3
  <2>2. CASE ~(near >= before)
    <3> DEFINE W == {k \in 1 .. (i - 2) : level[k] = before}
    <3>1. PreviousOf(level, i) = Min(W)
      BY <2>2 DEF PreviousOf, near, before
    <3>2. best = before
      BY <1>7, <2>2
    <3>3. W \in SUBSET Nat /\ W # {}
      <4>1. before # NegInf
        BY <1>10, <3>2
      <4>2. PICK k \in 1 .. K : before = level[k]
        BY <1>4, <4>1 DEF V
      <4>3. k \in 1 .. (i - 2) /\ level[k] = before
        BY <1>1, <4>2
      <4> QED  BY <4>3
    <3>4. Min(W) \in W
      <4> HIDE DEF W
      <4>1. \E x \in W : \A y \in W : x =< y
        BY <3>3, LeastNatural
      <4> QED  BY <4>1 DEF Min
    <3> DEFINE from == Min(W)
    <3>5. from \in 1 .. (i - 2) /\ level[from] = before
      BY <3>4
    <3> HIDE DEF W, from
    <3>6. from \in 1 .. (i - 1) /\ i # from + 1 /\ before + 0 = before
      BY <1>2, <1>5, <3>5
    <3> QED  BY <1>10, <3>1, <3>2, <3>5, <3>6 DEF from
  <2> QED  BY <2>1, <2>2
<1> QED  BY <1>8, <1>9, <1>10 DEF best

LEMMA NextLevelIs ==
    ASSUME NEW C, NEW candidate \in Seq(C), NEW c,
           NEW level \in [1 .. Len(candidate) -> Scores]
    PROVE  NextLevel(level, c, candidate) \in [1 .. Len(candidate) -> Scores]
<1> DEFINE n == Len(candidate)
<1>1. n \in Nat /\ DOMAIN candidate = 1 .. n
  OBVIOUS
<1>2. ASSUME NEW i \in 1 .. n, BestPrevious(level, i) # NegInf
      PROVE  BestPrevious(level, i) + 1 + WordStartBonus(candidate, i) \in Scores
  <2>1. BestPrevious(level, i) \in Scores
    BY <1>1, BestPreviousIs
  <2> QED  BY <1>2, <2>1, BonusIs DEF Scores
<1> HIDE DEF n
<1> QED  BY <1>1, <1>2 DEF NextLevel, Scores, n

LEMMA FirstLevelIs ==
    ASSUME NEW C, NEW candidate \in Seq(C), NEW query
    PROVE  FirstLevel(query, candidate) \in [1 .. Len(candidate) -> Scores]
<1>1. \A i : 1 + WordStartBonus(candidate, i) \in Nat \ {0}
  BY BonusIs
<1> QED  BY <1>1 DEF FirstLevel, Scores

LEMMA LevelsAre ==
    ASSUME NEW C, NEW query \in Seq(C) \ {<<>>}, NEW candidate \in Seq(C)
    PROVE  LET level == Levels(query, candidate)
           IN  /\ level \in [1 .. Len(query) -> [1 .. Len(candidate) -> Scores]]
               /\ level[1] = FirstLevel(query, candidate)
               /\ \A j \in 2 .. Len(query) :
                     level[j] = NextLevel(level[j - 1], query[j], candidate)
<1> DEFINE m      == Len(query)
           L      == [1 .. Len(candidate) -> Scores]
           first  == FirstLevel(query, candidate)
           Rec(f) == [j \in DOMAIN query |->
                        IF j = 1 THEN first ELSE NextLevel(f[j - 1], query[j], candidate)]
           level  == CHOOSE f : f = Rec(f)
           F      == [x \in Nat \X L |-> NextLevel(x[2], query[x[1] + 1], candidate)]
<1>1. m \in Nat \ {0} /\ DOMAIN query = 1 .. m
  OBVIOUS
<1>2. first \in L /\ \A l \in L : \A c : NextLevel(l, c, candidate) \in L
  BY FirstLevelIs, NextLevelIs
<1>3. Levels(query, candidate) = level
  BY DEF Levels
<1> HIDE DEF first, L
<1>4. F \in [Nat \X L -> L] /\ \A j \in Nat, l \in L : F[<<j, l>>] = NextLevel(l, query[j + 1], candidate)
  <2>1. \A x \in Nat \X L : x[2] \in L
    OBVIOUS
  <2>2. \A j \in Nat, l \in L :
           <<j, l>> \in Nat \X L /\ <<j, l>>[1] = j /\ <<j, l>>[2] = l
    OBVIOUS
  <2> QED  BY <1>2, <2>1, <2>2
<1> HIDE DEF F, m
<1>5. PICK h \in [0 .. (m - 1) -> L] : Obeys(h, first, F, m - 1)
  <2>1. m - 1 \in Nat
    BY <1>1
  <2> QED  BY <1>2, <1>4, <2>1, RecursionExists
<1> DEFINE g == [j \in 1 .. m |-> h[j - 1]]
<1>6. g = Rec(g)
  <2>1. g[1] = first
    BY <1>1, <1>5 DEF Obeys
  <2>2. ASSUME NEW j \in 1 .. m, j # 1 PROVE g[j] = NextLevel(g[j - 1], query[j], candidate)
    <3>1. /\ j - 1 \in 1 .. (m - 1) /\ j - 1 \in Nat /\ j - 1 \in 1 .. m
          /\ (j - 1) - 1 \in 0 .. (m - 1) /\ (j - 1) + 1 = j
      BY <1>1, <2>2
    <3>2. g[j] = h[j - 1] /\ g[j - 1] = h[(j - 1) - 1] /\ h[(j - 1) - 1] \in L
      BY <1>5, <3>1
    <3>3. h[j - 1] = F[<<j - 1, h[(j - 1) - 1]>>]
      BY <1>5, <3>1 DEF Obeys
    <3> QED  BY <1>4, <3>1, <3>2, <3>3
  <2> HIDE DEF g
  <2>3. g = [j \in 1 .. m |-> g[j]]
    BY DEF g
  <2> QED  BY <1>1, <2>1, <2>2, <2>3
<1>7. level = Rec(level)
  <2> HIDE DEF Rec, g
  <2> QED  BY <1>6
<1> HIDE DEF level
<1>8. /\ level[1] = first
      /\ \A j \in 2 .. m : level[j] = NextLevel(level[j - 1], query[j], candidate)
  <2>1. level = [j \in 1 .. m |->
                   IF j = 1 THEN first ELSE NextLevel(level[j - 1], query[j], candidate)]
    BY <1>1, <1>7
  <2>2. \A j \in 1 .. m :
           level[j] = IF j = 1 THEN first ELSE NextLevel(level[j - 1], query[j], candidate)
    BY <2>1
  <2>3. 1 \in 1 .. m /\ \A j \in 2 .. m : j \in 1 .. m /\ j # 1
    BY <1>1
  <2> QED  BY <2>2, <2>3
<1>9. \A j \in 1 .. m : level[j] \in L
  <2> DEFINE Good == {k \in Nat : k + 1 =< m => level[k + 1] \in L}
  <2>1. 0 \in Good
    BY <1>2, <1>8
  <2>2. ASSUME NEW k \in Nat, k \in Good PROVE k + 1 \in Good
    <3> SUFFICES ASSUME (k + 1) + 1 =< m PROVE level[(k + 1) + 1] \in L
      OBVIOUS
    <3>1. (k + 1) + 1 \in 2 .. m /\ ((k + 1) + 1) - 1 = k + 1 /\ k + 1 =< m
      BY <1>1
    <3>2. level[k + 1] \in L
      BY <2>2, <3>1
    <3> QED  BY <1>2, <1>8, <3>1, <3>2
  <2>3. \A k \in Nat : k \in Good
    <3> HIDE DEF Good
    <3> QED  BY <2>1, <2>2, SetInduction
  <2>4. ASSUME NEW j \in 1 .. m PROVE level[j] \in L
    <3>1. j - 1 \in Nat /\ (j - 1) + 1 = j /\ j =< m
      BY <1>1
    <3> QED  BY <2>3, <3>1
  <2> QED  BY <2>4
<1>10. level \in [1 .. m -> L]
  <2>1. level = [j \in 1 .. m |-> level[j]]
    BY <1>1, <1>7
  <2> HIDE DEF level
  <2> QED  BY <1>9, <2>1
<1> QED  BY <1>3, <1>8, <1>10 DEF m, L, first

\* sum[j] is the score of the first j characters of an alignment.
SumsGains(sum, p, candidate) ==
    /\ AlignmentScore(p, candidate) = sum[Len(p)]
    /\ sum[0] = 0
    /\ \A j \in 1 .. Len(p) : sum[j] = sum[j - 1] + Gain(p, j, candidate)

LEMMA AlignmentScoreIs ==
    ASSUME NEW p \in Seq(Int), NEW candidate
    PROVE  \E sum \in [0 .. Len(p) -> Nat] : SumsGains(sum, p, candidate)
<1> DEFINE m      == Len(p)
           Rec(f) == [j \in 0 .. m |-> IF j = 0 THEN 0 ELSE f[j - 1] + Gain(p, j, candidate)]
           sum    == CHOOSE f : f = Rec(f)
           F      == [x \in Nat \X Nat |-> x[2] + Gain(p, x[1], candidate)]
<1>0. \A j \in Nat : Gain(p, j, candidate) \in Nat
  BY BonusIs DEF Gain
<1>1. F \in [Nat \X Nat -> Nat] /\ \A j, y \in Nat : F[<<j, y>>] = y + Gain(p, j, candidate)
  <2>1. \A x \in Nat \X Nat : x[1] \in Nat /\ x[2] \in Nat
    OBVIOUS
  <2>2. \A j, y \in Nat : <<j, y>> \in Nat \X Nat /\ <<j, y>>[1] = j /\ <<j, y>>[2] = y
    OBVIOUS
  <2>3. ASSUME NEW x \in Nat \X Nat PROVE x[2] + Gain(p, x[1], candidate) \in Nat
    <3> DEFINE a == x[2]
               b == Gain(p, x[1], candidate)
    <3>1. a \in Nat /\ b \in Nat
      BY <1>0, <2>1
    <3> HIDE DEF a, b
    <3>2. a + b \in Nat
      BY <3>1
    <3> QED  BY <3>2 DEF a, b
  <2> QED  BY <2>2, <2>3
<1>2. AlignmentScore(p, candidate) = sum[m]
  BY DEF AlignmentScore
<1>10. m \in Nat
  OBVIOUS
<1> HIDE DEF F, m
<1>3. PICK g \in [0 .. m -> Nat] : Obeys(g, 0, F, m)
  BY <1>1, <1>10, RecursionExists
<1>4. g = Rec(g)
  <2>1. ASSUME NEW j \in 1 .. m PROVE g[j] = g[j - 1] + Gain(p, j, candidate)
    <3>1. j - 1 \in 0 .. m /\ j \in Nat
      BY <1>10
    <3> QED  BY <1>1, <1>3, <3>1 DEF Obeys
  <2> QED  BY <1>3, <2>1 DEF Obeys
<1>5. sum = Rec(sum)
  <2> HIDE DEF Rec
  <2> QED  BY <1>4
<1> HIDE DEF sum
<1>6. sum[0] = 0 /\ \A j \in 1 .. m : sum[j] = sum[j - 1] + Gain(p, j, candidate)
  BY <1>5, <1>10
<1>7. \A j \in 0 .. m : sum[j] \in Nat
  <2>1. ASSUME NEW j \in 1 .. m, sum[j - 1] \in Nat PROVE sum[j] \in Nat
    <3> DEFINE b == Gain(p, j, candidate)
    <3>0. j \in Nat
      OBVIOUS
    <3>1. b \in Nat /\ sum[j] = sum[j - 1] + b
      BY <1>0, <1>6, <3>0
    <3> HIDE DEF b
    <3> QED  BY <2>1, <3>1
  <2>2. sum[0] \in Nat
    BY <1>6
  <2> QED  BY <1>10, <2>1, <2>2, RecursionType, Zenon
<1>8. sum = [j \in 0 .. m |-> sum[j]]
  BY <1>5
<1>9. sum \in [0 .. m -> Nat]
  <2> HIDE DEF sum
  <2> QED  BY <1>7, <1>8
<1> QED  BY <1>2, <1>6, <1>9 DEF SumsGains, m

LEMMA StepwiseIncreasing ==
    ASSUME NEW m \in Nat, NEW f, \A j \in 1 .. m : f[j] \in Int,
           \A j \in 2 .. m : f[j - 1] < f[j]
    PROVE  \A j, k \in 1 .. m : j < k => f[j] < f[k]
<1> DEFINE Good == {k \in Nat : k =< m => \A j \in 1 .. (k - 1) : f[j] < f[k]}
<1>1. 0 \in Good
  OBVIOUS
<1>2. ASSUME NEW k \in Nat, k \in Good PROVE k + 1 \in Good
  <2> SUFFICES ASSUME k + 1 =< m, NEW j \in 1 .. k PROVE f[j] < f[k + 1]
    OBVIOUS
  <2>1. /\ k + 1 \in 2 .. m /\ k + 1 \in 1 .. m /\ k \in 1 .. m /\ j \in 1 .. m
        /\ (k + 1) - 1 = k
    OBVIOUS
  <2>2. f[k] < f[k + 1] /\ f[k] \in Int /\ f[k + 1] \in Int /\ f[j] \in Int
    BY <2>1
  <2>3. j = k \/ f[j] < f[k]
    <3>1. j = k \/ j \in 1 .. (k - 1)
      OBVIOUS
    <3> QED  BY <1>2, <3>1
  <2> QED  BY <2>2, <2>3
<1>3. \A k \in Nat : k \in Good
  <2> HIDE DEF Good
  <2> QED  BY <1>1, <1>2, SetInduction
<1> QED  BY <1>3

\* An alignment is increasing, so it is no longer than the candidate.
LEMMA AlignmentIs ==
    ASSUME NEW C, NEW query \in Seq(C) \ {<<>>}, NEW candidate \in Seq(C),
           NEW p \in Alignments(query, candidate)
    PROVE  /\ p \in [1 .. Len(query) -> 1 .. Len(candidate)]
           /\ p \in Seq(Int) /\ Len(p) = Len(query)
           /\ \A j \in 1 .. Len(query) : Same(query[j], candidate[p[j]])
           /\ \A j, k \in 1 .. Len(query) : j < k => p[j] < p[k]
           /\ Len(query) =< Len(candidate)
<1> DEFINE m == Len(query)
           n == Len(candidate)
<1>1. m \in Nat \ {0} /\ DOMAIN query = 1 .. m /\ n \in Nat /\ DOMAIN candidate = 1 .. n
  OBVIOUS
<1>2. /\ p \in [1 .. m -> 1 .. n]
      /\ \A j \in 1 .. m : Same(query[j], candidate[p[j]])
      /\ \A j, k \in 1 .. m : j < k => p[j] < p[k]
  BY <1>1 DEF Alignments
<1> HIDE DEF m, n
<1>3. p \in Seq(Int) /\ Len(p) = m
  <2>1. p \in [1 .. m -> Int]
    BY <1>1, <1>2
  <2> QED  BY <1>1, <2>1
<1>4. m =< n
  <2> DEFINE Good == {k \in Nat : k + 1 =< m => p[k + 1] >= k + 1}
  <2>1. 0 \in Good
    BY <1>1, <1>2
  <2>2. ASSUME NEW k \in Nat, k \in Good PROVE k + 1 \in Good
    <3> SUFFICES ASSUME (k + 1) + 1 =< m PROVE p[(k + 1) + 1] >= (k + 1) + 1
      OBVIOUS
    <3>1. k + 1 \in 1 .. m /\ (k + 1) + 1 \in 1 .. m /\ k + 1 < (k + 1) + 1
      BY <1>1
    <3>2. p[k + 1] < p[(k + 1) + 1] /\ p[k + 1] \in Int /\ p[(k + 1) + 1] \in Int
      BY <1>2, <3>1
    <3>3. p[k + 1] >= k + 1
      BY <2>2, <3>1
    <3> QED  BY <3>2, <3>3
  <2>3. \A k \in Nat : k \in Good
    <3> HIDE DEF Good
    <3> QED  BY <2>1, <2>2, SetInduction
  <2>4. m - 1 \in Nat /\ (m - 1) + 1 = m /\ m \in 1 .. m
    BY <1>1
  <2>5. p[m] >= m /\ p[m] \in 1 .. n
    BY <1>2, <2>3, <2>4
  <2> QED  BY <1>1, <2>5
<1> QED  BY <1>2, <1>3, <1>4 DEF m, n

\* No alignment of the first characters scores more than the level says.
LEMMA LevelsBound ==
    ASSUME NEW C, NEW query \in Seq(C) \ {<<>>}, NEW candidate \in Seq(C),
           NEW p \in Alignments(query, candidate)
    PROVE  LET last == LastLevel(query, candidate)
               i    == p[Len(query)]
           IN  /\ i \in 1 .. Len(candidate)
               /\ last[i] # NegInf
               /\ AlignmentScore(p, candidate) \in Nat
               /\ AlignmentScore(p, candidate) =< last[i]
<1> DEFINE m     == Len(query)
           n     == Len(candidate)
           level == Levels(query, candidate)
<1>1. m \in Nat \ {0} /\ n \in Nat /\ DOMAIN candidate = 1 .. n
  OBVIOUS
<1>2. /\ p \in [1 .. m -> 1 .. n]
      /\ p \in Seq(Int) /\ Len(p) = m
      /\ \A j \in 1 .. m : Same(query[j], candidate[p[j]])
      /\ \A j, k \in 1 .. m : j < k => p[j] < p[k]
  BY AlignmentIs
<1>3. /\ level \in [1 .. m -> [1 .. n -> Scores]]
      /\ level[1] = FirstLevel(query, candidate)
      /\ \A j \in 2 .. m : level[j] = NextLevel(level[j - 1], query[j], candidate)
  BY LevelsAre
<1> HIDE DEF m, n, level
<1>4. PICK sum \in [0 .. m -> Nat] :
          /\ AlignmentScore(p, candidate) = sum[m]
          /\ sum[0] = 0
          /\ \A j \in 1 .. m : sum[j] = sum[j - 1] + Gain(p, j, candidate)
  BY <1>2, AlignmentScoreIs DEF SumsGains
<1> DEFINE Bound(j) == level[j][p[j]] # NegInf /\ sum[j] =< level[j][p[j]]
           Good     == {k \in Nat : k + 1 =< m => Bound(k + 1)}
           bonus(j) == WordStartBonus(candidate, p[j])
<1>5. \A j \in 1 .. m : p[j] \in 1 .. n /\ bonus(j) \in Nat /\ sum[j] \in Nat /\ sum[j - 1] \in Nat
  <2>1. \A j \in 1 .. m : j \in 0 .. m /\ j - 1 \in 0 .. m
    BY <1>1
  <2> QED  BY <1>2, <1>4, <2>1, BonusIs
<1>6. \A j \in 1 .. m : sum[j] = sum[j - 1]
                           + (1 + bonus(j) + (IF j > 1 /\ p[j] = p[j - 1] + 1 THEN 4 ELSE 0))
  BY <1>4 DEF Gain
<1>7. Bound(1)
  <2>1. 1 \in 1 .. m /\ p[1] \in DOMAIN candidate /\ Same(query[1], candidate[p[1]])
    BY <1>1, <1>2, <1>5
  <2>2. level[1][p[1]] = 1 + bonus(1)
    BY <1>3, <2>1 DEF FirstLevel
  <2>3. sum[1] = 1 + bonus(1) /\ bonus(1) \in Nat
    BY <1>4, <1>5, <1>6, <2>1
  <2> HIDE DEF bonus
  <2> QED  BY <2>2, <2>3 DEF NegInf
<1>8. ASSUME NEW j \in 2 .. m, Bound(j - 1) PROVE Bound(j)
  <2> DEFINE i    == p[j]
             k    == p[j - 1]
             prev == level[j - 1]
             best == BestPrevious(prev, i)
             step == IF i = k + 1 THEN 4 ELSE 0
  <2>1. /\ j \in 1 .. m /\ j - 1 \in 1 .. m /\ j - 1 < j /\ j > 1
    BY <1>1
  <2>2. /\ i \in 1 .. n /\ k \in 1 .. (i - 1) /\ prev \in [1 .. n -> Scores]
        /\ Same(query[j], candidate[i]) /\ i \in DOMAIN candidate /\ k \in 1 .. n
    BY <1>1, <1>2, <1>3, <2>1, SMTT(30)
  <2>3. prev[k] # NegInf /\ sum[j - 1] =< prev[k] /\ sum[j - 1] \in Nat /\ prev[k] \in Scores
    BY <1>5, <1>8, <2>1, <2>2
  <2>4. sum[j] = sum[j - 1] + (1 + bonus(j) + step) /\ bonus(j) \in Nat /\ step \in Nat
    BY <1>5, <1>6, <2>1
  <2>5. level[j][i] = IF best # NegInf /\ Same(query[j], candidate[i])
                      THEN best + 1 + bonus(j) ELSE NegInf
    BY <1>3, <2>2 DEF NextLevel
  <2> HIDE DEF prev, i, k, bonus
  <2>6. best \in Scores /\ best >= prev[k] + step
    BY <1>1, <2>2, <2>3, BestPreviousIs
  <2> HIDE DEF best, step
  <2>7. prev[k] \in Nat /\ best \in Int
    BY <2>3, <2>6 DEF Scores, NegInf
  <2>8. best # NegInf /\ best \in Nat /\ best >= sum[j - 1] + step
    BY <2>3, <2>4, <2>6, <2>7, SMTT(30) DEF Scores, NegInf
  <2>9. level[j][i] = best + 1 + bonus(j)
    BY <2>2, <2>5, <2>8
  <2>10. level[j][i] # NegInf /\ sum[j] =< level[j][i]
    BY <2>3, <2>4, <2>8, <2>9 DEF NegInf
  <2> QED  BY <2>10 DEF i
<1> HIDE DEF Bound
<1>9. 0 \in Good
  BY <1>7
<1>10. ASSUME NEW k \in Nat, k \in Good PROVE k + 1 \in Good
  <2>1. (k + 1) + 1 =< m => (k + 1) + 1 \in 2 .. m /\ ((k + 1) + 1) - 1 = k + 1 /\ k + 1 =< m
    BY <1>1
  <2> QED  BY <1>8, <1>10, <2>1
<1>11. Bound(m)
  <2>1. \A k \in Nat : k \in Good
    <3> HIDE DEF Good
    <3> QED  BY <1>9, <1>10, SetInduction
  <2>2. m - 1 \in Nat /\ (m - 1) + 1 = m
    BY <1>1
  <2> QED  BY <2>1, <2>2
<1>12. m \in 1 .. m
  BY <1>1
<1> QED  BY <1>1, <1>4, <1>5, <1>11, <1>12 DEF Bound, LastLevel, m, n, level

\* A step back goes to the level before, where the rest of the score is.
LEMMA StepBack ==
    ASSUME NEW C, NEW query \in Seq(C) \ {<<>>}, NEW candidate \in Seq(C),
           NEW j \in 2 .. Len(query), NEW i \in 1 .. Len(candidate),
           Levels(query, candidate)[j][i] # NegInf
    PROVE  LET level == Levels(query, candidate)
               from  == PreviousOf(level[j - 1], i)
           IN  /\ from \in 1 .. (i - 1) /\ level[j - 1][from] # NegInf
               /\ Same(query[j], candidate[i])
               /\ level[j][i] = level[j - 1][from] + (1 + WordStartBonus(candidate, i)
                                     + (IF i = from + 1 THEN 4 ELSE 0))
<1> DEFINE m     == Len(query)
           n     == Len(candidate)
           level == Levels(query, candidate)
           prev  == level[j - 1]
           best  == BestPrevious(prev, i)
           from  == PreviousOf(prev, i)
           bonus == WordStartBonus(candidate, i)
           step  == IF i = from + 1 THEN 4 ELSE 0
<1>1. /\ level \in [1 .. m -> [1 .. n -> Scores]]
      /\ level[j] = NextLevel(level[j - 1], query[j], candidate)
  BY LevelsAre
<1>2. m \in Nat /\ n \in Nat /\ j - 1 \in 1 .. m /\ i \in DOMAIN candidate /\ i \in 1 .. n
  OBVIOUS
<1>3. bonus \in Nat /\ step \in Nat
  BY BonusIs
<1> HIDE DEF m, n, level
<1>4. prev \in [1 .. n -> Scores] /\ level[j][i] # NegInf
  BY <1>1, <1>2 DEF level
<1>5. level[j][i] = IF best # NegInf /\ Same(query[j], candidate[i])
                    THEN best + 1 + bonus ELSE NegInf
  BY <1>1, <1>2 DEF NextLevel
<1> HIDE DEF prev, bonus
<1>6. best # NegInf /\ Same(query[j], candidate[i]) /\ level[j][i] = best + 1 + bonus
  BY <1>4, <1>5
<1>7. from \in 1 .. (i - 1) /\ prev[from] # NegInf /\ best = prev[from] + step
  BY <1>2, <1>4, <1>6, BestPreviousIs
<1>8. from \in 1 .. n /\ prev[from] \in Int
  <2>1. from \in 1 .. n
    BY <1>2, <1>7
  <2> QED  BY <1>4, <2>1 DEF Scores, NegInf
<1> HIDE DEF best, from, step
<1>9. level[j][i] = prev[from] + (1 + bonus + step)
  <2>1. level[j][i] = best + 1 + bonus /\ best = prev[from] + step
    BY <1>6, <1>7
  <2>2. prev[from] \in Int /\ bonus \in Int /\ step \in Int
    BY <1>3, <1>8
  <2> QED  BY <2>1, <2>2, SMTT(30)
<1> QED  BY <1>6, <1>7, <1>9 DEF level, prev, from, step, bonus

\* f goes back from a position of the last level to one of each level.
IsTrace(f, query, candidate) ==
    /\ f = [j \in 1 .. Len(query) |-> f[j]]
    /\ f[Len(query)] \in 1 .. Len(candidate)
    /\ LastLevel(query, candidate)[f[Len(query)]] # NegInf
    /\ \A j \in 2 .. Len(query) :
          f[j - 1] = PreviousOf(Levels(query, candidate)[j - 1], f[j])

LEMMA TraceStays ==
    ASSUME NEW C, NEW query \in Seq(C) \ {<<>>}, NEW candidate \in Seq(C),
           NEW f, IsTrace(f, query, candidate)
    PROVE  \A j \in 1 .. Len(query) :
               f[j] \in 1 .. Len(candidate) /\ Levels(query, candidate)[j][f[j]] # NegInf
<1> DEFINE m       == Len(query)
           n       == Len(candidate)
           level   == Levels(query, candidate)
           Stays(j) == f[j] \in 1 .. n /\ level[j][f[j]] # NegInf
           Good    == {k \in Nat : k < m => Stays(m - k)}
<1>1. m \in Nat \ {0} /\ n \in Nat
  OBVIOUS
<1>2. Stays(m)
  BY DEF IsTrace, LastLevel
<1>3. ASSUME NEW j \in 2 .. m, Stays(j) PROVE Stays(j - 1)
  <2>1. f[j - 1] = PreviousOf(level[j - 1], f[j])
    BY DEF IsTrace
  <2>2. f[j - 1] \in 1 .. (f[j] - 1) /\ level[j - 1][f[j - 1]] # NegInf
    BY <1>3, <2>1, StepBack
  <2> QED  BY <1>1, <1>3, <2>2
<1> HIDE DEF Stays, m
<1>4. 0 \in Good
  <2>1. m - 0 = m
    BY <1>1
  <2> QED  BY <1>2, <2>1
<1>5. ASSUME NEW k \in Nat, k \in Good PROVE k + 1 \in Good
  <2>1. k + 1 < m => m - k \in 2 .. m /\ (m - k) - 1 = m - (k + 1) /\ k < m
    BY <1>1
  <2> QED  BY <1>3, <1>5, <2>1
<1>6. \A k \in Nat : k \in Good
  <2> HIDE DEF Good
  <2> QED  BY <1>4, <1>5, SetInduction
<1>7. ASSUME NEW j \in 1 .. m PROVE Stays(j)
  <2>1. m - j \in Nat /\ m - j < m /\ m - (m - j) = j
    BY <1>1
  <2> QED  BY <1>6, <2>1
<1> QED  BY <1>7 DEF Stays, m, n, level

\* Going back is an alignment with the score it started from.
LEMMA TraceAligns ==
    ASSUME NEW C, NEW query \in Seq(C) \ {<<>>}, NEW candidate \in Seq(C),
           NEW f, IsTrace(f, query, candidate)
    PROVE  /\ f \in Alignments(query, candidate)
           /\ AlignmentScore(f, candidate) = LastLevel(query, candidate)[f[Len(query)]]
<1> DEFINE m     == Len(query)
           n     == Len(candidate)
           level == Levels(query, candidate)
           bonus(j) == WordStartBonus(candidate, f[j])
<1>1. m \in Nat \ {0} /\ DOMAIN query = 1 .. m /\ n \in Nat /\ DOMAIN candidate = 1 .. n
  OBVIOUS
<1>2. \A j \in 1 .. m : f[j] \in 1 .. n /\ level[j][f[j]] # NegInf
  BY TraceStays
<1>3. ASSUME NEW j \in 2 .. m
      PROVE  /\ f[j - 1] \in 1 .. (f[j] - 1) /\ Same(query[j], candidate[f[j]])
             /\ level[j][f[j]] = level[j - 1][f[j - 1]]
                   + (1 + bonus(j) + (IF f[j] = f[j - 1] + 1 THEN 4 ELSE 0))
  <2>1. f[j - 1] = PreviousOf(level[j - 1], f[j])
    BY DEF IsTrace
  <2>2. f[j] \in 1 .. n /\ level[j][f[j]] # NegInf
    BY <1>1, <1>2
  <2> QED  BY <2>1, <2>2, StepBack, SMTT(30)
<1>4. /\ level \in [1 .. m -> [1 .. n -> Scores]]
      /\ level[1] = FirstLevel(query, candidate)
  BY LevelsAre
<1>5. Same(query[1], candidate[f[1]]) /\ level[1][f[1]] = 1 + bonus(1)
  <2>1. 1 \in 1 .. m /\ f[1] \in DOMAIN candidate /\ level[1][f[1]] # NegInf
    BY <1>1, <1>2
  <2> QED  BY <1>4, <2>1 DEF FirstLevel
<1>6. f = [j \in 1 .. m |-> f[j]]
  BY DEF IsTrace
<1> HIDE DEF m, n, level
<1>7. f \in [1 .. m -> 1 .. n] /\ f \in [1 .. m -> Int]
  <2>1. \A j \in 1 .. m : f[j] \in 1 .. n /\ f[j] \in Int
    BY <1>1, <1>2
  <2> QED  BY <1>6, <2>1
<1>8. f \in Alignments(query, candidate)
  <2>1. \A j \in 1 .. m : Same(query[j], candidate[f[j]])
    <3>1. \A j \in 1 .. m : j = 1 \/ j \in 2 .. m
      BY <1>1
    <3> QED  BY <1>3, <1>5, <3>1
  <2>2. \A j \in 2 .. m : f[j - 1] < f[j]
    <3>1. \A j \in 2 .. m : j \in 1 .. m
      BY <1>1
    <3> QED  BY <1>2, <1>3, <3>1
  <2>3. \A j, k \in 1 .. m : j < k => f[j] < f[k]
    <3>1. \A j \in 1 .. m : f[j] \in Int
      BY <1>7
    <3> QED  BY <1>1, <2>2, <3>1, StepwiseIncreasing
  <2> QED  BY <1>1, <1>7, <2>1, <2>3 DEF Alignments
<1>9. f \in Seq(Int) /\ Len(f) = m
  BY <1>1, <1>7
<1>10. PICK sum \in [0 .. m -> Nat] :
           /\ AlignmentScore(f, candidate) = sum[m]
           /\ sum[0] = 0
           /\ \A j \in 1 .. m : sum[j] = sum[j - 1] + Gain(f, j, candidate)
  BY <1>9, AlignmentScoreIs DEF SumsGains
<1>11. \A j \in 1 .. m :
           sum[j] = sum[j - 1]
                    + (1 + bonus(j) + (IF j > 1 /\ f[j] = f[j - 1] + 1 THEN 4 ELSE 0))
  BY <1>10 DEF Gain
<1> DEFINE Good == {k \in Nat : k + 1 =< m => sum[k + 1] = level[k + 1][f[k + 1]]}
<1>12. 0 \in Good
  <2>1. 1 \in 1 .. m /\ 0 + 1 = 1 /\ 1 - 1 = 0 /\ ~(1 > 1) /\ bonus(1) \in Nat
    BY <1>1, BonusIs
  <2>2. sum[1] = 0 + (1 + bonus(1) + 0)
    BY <1>10, <1>11, <2>1
  <2> HIDE DEF bonus
  <2>3. sum[1] = level[1][f[1]]
    BY <1>5, <2>1, <2>2
  <2> QED  BY <2>1, <2>3
<1>13. ASSUME NEW k \in Nat, k \in Good PROVE k + 1 \in Good
  <2> DEFINE j == (k + 1) + 1
  <2> SUFFICES ASSUME j =< m PROVE sum[j] = level[j][f[j]]
    OBVIOUS
  <2>1. j \in 2 .. m /\ j \in 1 .. m /\ j > 1 /\ j - 1 = k + 1 /\ k + 1 =< m
    BY <1>1
  <2>2. sum[j - 1] = level[j - 1][f[j - 1]]
    BY <1>13, <2>1
  <2> HIDE DEF j, bonus
  <2> QED  BY <1>3, <1>11, <2>1, <2>2
<1>14. sum[m] = level[m][f[m]]
  <2>1. \A k \in Nat : k \in Good
    <3> HIDE DEF Good
    <3> QED  BY <1>12, <1>13, SetInduction
  <2>2. m - 1 \in Nat /\ (m - 1) + 1 = m
    BY <1>1
  <2> QED  BY <2>1, <2>2
<1> QED  BY <1>8, <1>10, <1>14 DEF LastLevel, m, level

\* The best of the last level, and where it stands.
LEMMA BestLastIs ==
    ASSUME NEW C, NEW query \in Seq(C) \ {<<>>}, NEW candidate \in Seq(C),
           Len(query) =< Len(candidate)
    PROVE  LET last == LastLevel(query, candidate)
               raw  == RawScore(query, candidate)
               best == BestLast(last)
           IN  /\ raw \in Scores
               /\ \A i \in 1 .. Len(candidate) : last[i] \in Scores /\ raw >= last[i]
               /\ best \in 1 .. Len(candidate) /\ last[best] = raw
<1> DEFINE m    == Len(query)
           n    == Len(candidate)
           last == LastLevel(query, candidate)
           raw  == RawScore(query, candidate)
           R    == {last[1]} \cup {last[k] : k \in 1 .. n}
           W    == {i \in 1 .. n : last[i] = raw}
<1>1. m \in Nat \ {0} /\ n \in Nat \ {0} /\ 1 \in 1 .. n /\ m \in 1 .. m
  OBVIOUS
<1>2. last \in [1 .. n -> Scores]
  BY <1>1, LevelsAre DEF LastLevel
<1>3. raw = Max(Range(last))
  BY DEF RawScore
<1> HIDE DEF last, raw
<1>4. DOMAIN last = 1 .. n /\ \A k \in 1 .. n : last[k] \in Scores /\ last[k] \in Int
  BY <1>2 DEF Scores, NegInf
<1>5. Range(last) = R
  BY <1>1, <1>4 DEF Range
<1>6. R \subseteq Int /\ Max(R) \in R /\ \A y \in R : Max(R) >= y
  BY <1>1, <1>4, MaxOfValues
<1>7. raw \in R /\ \A k \in 1 .. n : raw >= last[k]
  BY <1>3, <1>5, <1>6
<1>8. raw \in Scores /\ W \in SUBSET Nat /\ W # {}
  BY <1>1, <1>4, <1>7
<1>9. BestLast(last) = Min(W)
  BY <1>3, <1>4 DEF BestLast
<1>10. Min(W) \in W
  <2> HIDE DEF W
  <2>1. \E x \in W : \A y \in W : x =< y
    BY <1>8, LeastNatural
  <2> QED  BY <2>1 DEF Min
<1> QED  BY <1>4, <1>7, <1>8, <1>9, <1>10 DEF last, raw

\* The back pointers are a trace from there.
LEMMA PositionsAre ==
    ASSUME NEW C, NEW query \in Seq(C) \ {<<>>}, NEW candidate \in Seq(C),
           Len(query) =< Len(candidate), RawScore(query, candidate) # -1
    PROVE  LET p == Positions(query, candidate)
           IN  /\ IsTrace(p, query, candidate)
               /\ p[Len(query)] = BestLast(LastLevel(query, candidate))
<1> DEFINE m      == Len(query)
           n      == Len(candidate)
           level  == Levels(query, candidate)
           best   == BestLast(level[m])
           Rec(f) == [k \in 0 .. (m - 1) |->
                        IF k = 0 THEN best ELSE PreviousOf(level[m - k], f[k - 1])]
           back   == CHOOSE f : f = Rec(f)
           From(k, i) == PreviousOf(level[m - k], i)
           F      == [x \in Nat \X (1 .. n) |->
                        IF From(x[1], x[2]) \in 1 .. n THEN From(x[1], x[2]) ELSE best]
<1>1. m \in Nat \ {0} /\ n \in Nat
  OBVIOUS
<1>2. best \in 1 .. n /\ level[m][best] # NegInf
  BY BestLastIs DEF LastLevel, NegInf
<1>3. Positions(query, candidate) = [j \in 1 .. m |-> back[m - j]]
  BY DEF Positions
<1>4. ASSUME NEW j \in 2 .. m, NEW i \in 1 .. n, level[j][i] # NegInf
      PROVE  PreviousOf(level[j - 1], i) \in 1 .. n
             /\ level[j - 1][PreviousOf(level[j - 1], i)] # NegInf
  <2>1. PreviousOf(level[j - 1], i) \in 1 .. (i - 1)
        /\ level[j - 1][PreviousOf(level[j - 1], i)] # NegInf
    BY <1>4, StepBack
  <2> QED  BY <1>1, <2>1
<1> HIDE DEF m, n, level, best, From
<1>5. /\ F \in [Nat \X (1 .. n) -> 1 .. n]
      /\ \A k \in Nat, i \in 1 .. n : From(k, i) \in 1 .. n => F[<<k, i>>] = From(k, i)
  <2>1. \A k \in Nat, i \in 1 .. n :
           <<k, i>> \in Nat \X (1 .. n) /\ <<k, i>>[1] = k /\ <<k, i>>[2] = i
    OBVIOUS
  <2> QED  BY <1>2, <2>1
<1> HIDE DEF F
<1>6. PICK g \in [0 .. (m - 1) -> 1 .. n] : Obeys(g, best, F, m - 1)
  <2>1. m - 1 \in Nat
    BY <1>1
  <2> QED  BY <1>2, <1>5, <2>1, RecursionExists
<1> DEFINE Good == {k \in Nat : k =< m - 1 =>
                       /\ level[m - k][g[k]] # NegInf
                       /\ k # 0 => g[k] = From(k, g[k - 1])}
<1>7. 0 \in Good
  <2>1. g[0] = best /\ m - 0 = m
    BY <1>1, <1>6 DEF Obeys
  <2> QED  BY <1>2, <2>1
<1>8. ASSUME NEW k \in Nat, k \in Good PROVE k + 1 \in Good
  <2> SUFFICES ASSUME k + 1 =< m - 1
               PROVE  level[m - (k + 1)][g[k + 1]] # NegInf /\ g[k + 1] = From(k + 1, g[(k + 1) - 1])
    OBVIOUS
  <2>1. /\ m - k \in 2 .. m /\ (m - k) - 1 = m - (k + 1) /\ k =< m - 1
        /\ k + 1 \in 1 .. (m - 1) /\ (k + 1) - 1 = k /\ k \in 0 .. (m - 1) /\ k + 1 \in Nat
    BY <1>1
  <2>2. g[k] \in 1 .. n /\ level[m - k][g[k]] # NegInf
    BY <1>6, <1>8, <2>1
  <2>3. PreviousOf(level[m - (k + 1)], g[k]) \in 1 .. n
        /\ level[m - (k + 1)][PreviousOf(level[m - (k + 1)], g[k])] # NegInf
    BY <1>4, <2>1, <2>2
  <2>4. From(k + 1, g[k]) = PreviousOf(level[m - (k + 1)], g[k])
    BY DEF From
  <2>5. g[k + 1] = F[<<k + 1, g[(k + 1) - 1]>>]
    BY <1>6, <2>1 DEF Obeys
  <2>6. g[k + 1] = F[<<k + 1, g[k]>>]
    BY <2>1, <2>5
  <2>7. g[k + 1] = From(k + 1, g[k])
    BY <1>5, <2>1, <2>2, <2>3, <2>4, <2>6
  <2> QED  BY <2>1, <2>3, <2>4, <2>7
<1>9. \A k \in Nat : k \in Good
  <2> HIDE DEF Good
  <2> QED  BY <1>7, <1>8, SetInduction
<1>10. g = Rec(g)
  <2>1. g[0] = best /\ \A k \in 0 .. (m - 1) : k # 0 => g[k] = PreviousOf(level[m - k], g[k - 1])
    <3>1. \A k \in 0 .. (m - 1) : k \in Nat /\ k =< m - 1
      BY <1>1
    <3> QED  BY <1>6, <1>9, <3>1 DEF Obeys, From
  <2> QED  BY <1>6, <2>1
<1>11. back = Rec(back)
  <2> HIDE DEF Rec
  <2> QED  BY <1>10
<1> HIDE DEF back
<1>12. \A k \in 0 .. (m - 1) :
           back[k] = IF k = 0 THEN best ELSE PreviousOf(level[m - k], back[k - 1])
  BY <1>11
<1> DEFINE p == [j \in 1 .. m |-> back[m - j]]
<1>13. p[m] = best /\ p = [j \in 1 .. m |-> p[j]]
  <2>1. m \in 1 .. m /\ m - m = 0 /\ 0 \in 0 .. (m - 1)
    BY <1>1
  <2> QED  BY <1>12, <2>1
<1>14. ASSUME NEW j \in 2 .. m PROVE p[j - 1] = PreviousOf(level[j - 1], p[j])
  <2>1. /\ j \in 1 .. m /\ j - 1 \in 1 .. m /\ m - (j - 1) \in 0 .. (m - 1)
        /\ m - (j - 1) # 0 /\ (m - (j - 1)) - 1 = m - j /\ m - (m - (j - 1)) = j - 1
    BY <1>1
  <2>2. p[j - 1] = back[m - (j - 1)] /\ p[j] = back[m - j]
    BY <2>1
  <2>3. back[m - (j - 1)] = PreviousOf(level[j - 1], back[m - j])
    BY <1>12, <2>1
  <2> QED  BY <2>2, <2>3
<1> HIDE DEF p
<1>15. p = Positions(query, candidate)
  BY <1>3 DEF p
<1> QED  BY <1>2, <1>13, <1>14, <1>15 DEF IsTrace, LastLevel, m, n, level, best

LEMMA RawScoreIs ==
    ASSUME NEW C, NEW query \in Seq(C) \ {<<>>}, NEW candidate \in Seq(C)
    PROVE  LET A   == Alignments(query, candidate)
               p   == Positions(query, candidate)
               raw == RawScore(query, candidate)
           IN  /\ A = {} => raw = -1 /\ p = <<>>
               /\ A # {} => /\ Len(query) =< Len(candidate)
                            /\ raw \in Nat
                            /\ p \in A /\ AlignmentScore(p, candidate) = raw
               /\ \A q \in A : AlignmentScore(q, candidate) \in Nat
                                /\ AlignmentScore(q, candidate) =< raw
<1> DEFINE A    == Alignments(query, candidate)
           p    == Positions(query, candidate)
           raw  == RawScore(query, candidate)
           last == LastLevel(query, candidate)
<1>0. Len(query) \in Nat /\ Len(candidate) \in Nat
  OBVIOUS
<1>1. CASE Len(query) > Len(candidate)
  <2>1. A = {}
    <3> SUFFICES ASSUME NEW q \in A PROVE FALSE
      OBVIOUS
    <3>1. Len(query) =< Len(candidate)
      BY AlignmentIs
    <3> QED  BY <1>0, <1>1, <3>1
  <2>2. raw = -1
    BY <1>1 DEF RawScore
  <2>3. p = <<>>
    BY <2>2 DEF Positions
  <2> QED  BY <2>1, <2>2, <2>3
<1>2. CASE ~(Len(query) > Len(candidate))
  <2>0. Len(query) =< Len(candidate)
    BY <1>0, <1>2
  <2>1. /\ raw \in Scores
        /\ \A i \in 1 .. Len(candidate) : last[i] \in Scores /\ raw >= last[i]
        /\ last[BestLast(last)] = raw
    BY <2>0, BestLastIs
  <2>2. ASSUME NEW q \in A
        PROVE  /\ AlignmentScore(q, candidate) \in Nat
               /\ AlignmentScore(q, candidate) =< raw
               /\ raw # -1
    <3> DEFINE i == q[Len(query)]
    <3>1. /\ i \in 1 .. Len(candidate) /\ last[i] # NegInf
          /\ AlignmentScore(q, candidate) \in Nat /\ AlignmentScore(q, candidate) =< last[i]
      BY LevelsBound
    <3>2. last[i] \in Scores /\ raw >= last[i]
      BY <2>1, <3>1
    <3> HIDE DEF raw, last, A, i
    <3> DEFINE score == AlignmentScore(q, candidate)
    <3>3. score \in Nat /\ score =< last[i] /\ last[i] \in Nat /\ raw \in Int
      BY <2>1, <3>1, <3>2 DEF Scores, NegInf
    <3> HIDE DEF score
    <3>4. score =< raw /\ raw # -1
      BY <3>2, <3>3
    <3> QED  BY <3>3, <3>4 DEF score
  <2>3. CASE raw = -1
    <3>1. A = {}
      BY <2>2, <2>3
    <3>2. p = <<>>
      BY <2>3 DEF Positions
    <3> QED  BY <2>3, <3>1, <3>2
  <2>4. CASE raw # -1
    <3>1. IsTrace(p, query, candidate) /\ p[Len(query)] = BestLast(last)
      BY <2>0, <2>4, PositionsAre
    <3>2. p \in A /\ AlignmentScore(p, candidate) = raw
      BY <2>1, <3>1, TraceAligns
    <3>3. raw \in Nat
      BY <2>1, <2>4 DEF Scores, NegInf
    <3> HIDE DEF A, p, raw
    <3> QED  BY <2>0, <2>2, <3>2, <3>3 DEF A, p, raw
  <2> QED  BY <2>3, <2>4
<1> QED  BY <1>1, <1>2

\* fuzzy_match's score is the best of all alignments, its positions are one with
\* that score, and it is 0 exactly when there is none, for any query that is not
\* empty, any candidate and any alphabet.
LEMMA BestMatch ==
    ASSUME NEW C, NEW query \in Seq(C) \ {<<>>}, NEW candidate \in Seq(C)
    PROVE  MatchHasBestScore(query, candidate)
<1> DEFINE A   == Alignments(query, candidate)
           p   == Positions(query, candidate)
           raw == RawScore(query, candidate)
           S   == {-1} \cup {AlignmentScore(q, candidate) : q \in A}
<1>0. Len(query) \in Nat /\ Len(candidate) \in Nat /\ (candidate = <<>> <=> Len(candidate) = 0)
      /\ Len(query) # 0
  OBVIOUS
<1>1. /\ A = {} => raw = -1 /\ p = <<>>
      /\ A # {} => /\ Len(query) =< Len(candidate)
                   /\ raw \in Nat
                   /\ p \in A /\ AlignmentScore(p, candidate) = raw
      /\ \A q \in A : AlignmentScore(q, candidate) \in Nat
                       /\ AlignmentScore(q, candidate) =< raw
  BY RawScoreIs
<1>2. A # {} => candidate # <<>>
  BY <1>0, <1>1
<1> HIDE DEF A, p, raw
<1>3. raw = Max(S)
  <2>1. S \in SUBSET Int /\ raw \in S
    BY <1>1
  <2>2. ASSUME NEW y \in S PROVE raw >= y
    <3>1. CASE y = -1
      BY <1>1, <3>1
    <3>2. CASE y # -1
      <4>1. PICK q \in A : y = AlignmentScore(q, candidate)
        BY <3>2
      <4>2. y \in Nat /\ y =< raw /\ raw \in Nat
        BY <1>1, <4>1
      <4> QED  BY <4>2
    <3> QED  BY <3>1, <3>2
  <2> HIDE DEF S
  <2> QED  BY <2>1, <2>2, MaxIs
<1>4. RawScoreIsBest(query, candidate)
  BY <1>3 DEF RawScoreIsBest, raw, A
<1>5. PositionsHaveTheScore(query, candidate)
  <2>1. FuzzyMatchResult(query, candidate).match_positions = IF candidate = <<>> THEN <<>> ELSE p
    BY <1>0 DEF FuzzyMatchResult, p
  <2> QED  BY <1>1, <1>2, <2>1 DEF PositionsHaveTheScore, A, raw
<1>6. ZeroIsNoMatch(query, candidate)
  <2> DEFINE score == FuzzyMatchScore(query, candidate)
  <2>1. CASE A = {}
    <3>1. score = 0
      BY <1>0, <1>1, <2>1 DEF FuzzyMatchScore, raw
    <3> QED  BY <2>1, <3>1 DEF ZeroIsNoMatch, A
  <2>2. CASE A # {}
    <3> DEFINE d == 100 + Len(candidate) - Len(query)
               x == (raw * 100) \div d
    <3>1. d \in Nat \ {0} /\ raw * 100 \in Nat
      BY <1>0, <1>1, <2>2
    <3>2. x \in Int
      <4> HIDE DEF d
      <4> QED  BY <3>1
    <3>3. score = Max({1, x})
      <4>1. ~(raw < 0) /\ query # <<>>
        BY <1>0, <1>1, <2>2
      <4>2. score = ScoreOfLength(raw, query, candidate)
        BY <1>2, <2>2, <4>1 DEF FuzzyMatchScore, raw
      <4> QED  BY <4>2 DEF ScoreOfLength
    <3> HIDE DEF x, score
    <3>4. score # 0
      <4>1. CASE x >= 1
        <5>1. Max({1, x}) = x
          <6>1. {1, x} \in SUBSET Int /\ x \in {1, x} /\ \A y \in {1, x} : x >= y
            BY <3>2, <4>1
          <6> QED  BY <6>1, MaxIs
        <5> QED  BY <3>2, <3>3, <4>1, <5>1
      <4>2. CASE ~(x >= 1)
        <5>1. Max({1, x}) = 1
          <6>1. {1, x} \in SUBSET Int /\ 1 \in {1, x} /\ \A y \in {1, x} : 1 >= y
            BY <3>2, <4>2
          <6> QED  BY <6>1, MaxIs
        <5> QED  BY <3>3, <5>1
      <4> QED  BY <4>1, <4>2
    <3> QED  BY <2>2, <3>4 DEF ZeroIsNoMatch, A, score
  <2> QED  BY <2>1, <2>2
<1> QED  BY <1>4, <1>5, <1>6 DEF MatchHasBestScore

-----------------------------------------------------------------------------
(* The local reader. *)

\* total[k] is the size of the first k ranges.
SumsSizes(total, ranges) ==
    /\ TotalSize(ranges) = total[Len(ranges)]
    /\ total[0] = 0
    /\ \A k \in 1 .. Len(ranges) : total[k] = total[k - 1] + ranges[k].size

LEMMA TotalSizeIs ==
    ASSUME NEW ranges \in Seq(ByteRange)
    PROVE  \E total \in [0 .. Len(ranges) -> Nat] : SumsSizes(total, ranges)
<1> DEFINE m       == Len(ranges)
           size(k) == ranges[k].size
           Rec(f)  == [k \in 0 .. m |-> IF k = 0 THEN 0 ELSE f[k - 1] + size(k)]
           total   == CHOOSE f : f = Rec(f)
           F       == [x \in Nat \X Nat |-> x[2] + IF x[1] \in 1 .. m THEN size(x[1]) ELSE 0]
<1>1. m \in Nat /\ \A k \in 1 .. m : size(k) \in Nat
  <2>1. \A k \in 1 .. m : ranges[k] \in ByteRange
    OBVIOUS
  <2> QED  BY <2>1 DEF ByteRange
<1>2. TotalSize(ranges) = total[m]
  BY DEF TotalSize
<1> HIDE DEF m, size
<1>3. /\ F \in [Nat \X Nat -> Nat]
      /\ \A k \in 1 .. m, y \in Nat : F[<<k, y>>] = y + size(k)
  <2>1. \A x \in Nat \X Nat : x[1] \in Nat /\ x[2] \in Nat
    OBVIOUS
  <2>2. \A k \in 1 .. m, y \in Nat :
           <<k, y>> \in Nat \X Nat /\ <<k, y>>[1] = k /\ <<k, y>>[2] = y
    BY <1>1
  <2>3. ASSUME NEW x \in Nat \X Nat
        PROVE  x[2] + (IF x[1] \in 1 .. m THEN size(x[1]) ELSE 0) \in Nat
    BY <1>1, <2>1
  <2> QED  BY <2>2, <2>3
<1> HIDE DEF F
<1>4. PICK g \in [0 .. m -> Nat] : Obeys(g, 0, F, m)
  BY <1>1, <1>3, RecursionExists
<1>5. g = Rec(g)
  <2>1. ASSUME NEW k \in 1 .. m PROVE g[k] = g[k - 1] + size(k)
    <3>1. k - 1 \in 0 .. m
      BY <1>1
    <3> QED  BY <1>3, <1>4, <3>1 DEF Obeys
  <2> QED  BY <1>1, <1>4, <2>1 DEF Obeys
<1>6. total = Rec(total)
  <2> HIDE DEF Rec
  <2> QED  BY <1>5
<1> HIDE DEF total
<1>7. total[0] = 0 /\ \A k \in 1 .. m : total[k] = total[k - 1] + size(k)
  BY <1>1, <1>6
<1>8. \A k \in 0 .. m : total[k] \in Nat
  <2>1. ASSUME NEW k \in 1 .. m, total[k - 1] \in Nat PROVE total[k] \in Nat
    BY <1>1, <1>7, <2>1
  <2>2. total[0] \in Nat
    BY <1>7
  <2> QED  BY <1>1, <2>1, <2>2, RecursionType, Zenon
<1>9. total \in [0 .. m -> Nat]
  <2>1. total = [k \in 0 .. m |-> total[k]]
    BY <1>6
  <2> HIDE DEF total
  <2> QED  BY <1>8, <2>1
<1> QED  BY <1>2, <1>7, <1>9 DEF SumsSizes, m, size

\* What pieces of given sizes hold together is the sum of the sizes.
LEMMA FlatteningHasTotal ==
    ASSUME NEW B, NEW ranges \in Seq(ByteRange), NEW pieces \in Seq(Seq(B)),
           Len(pieces) = Len(ranges),
           \A i \in 1 .. Len(ranges) : Len(pieces[i]) = ranges[i].size
    PROVE  Len(FlattenSeq(pieces)) = TotalSize(ranges)
<1> DEFINE m        == Len(ranges)
           First(k) == [i \in 1 .. k |-> pieces[i]]
<1>1. PICK total \in [0 .. m -> Nat] : SumsSizes(total, ranges)
  BY TotalSizeIs
<1>2. m \in Nat /\ \A i \in 1 .. m : pieces[i] \in Seq(B)
  OBVIOUS
<1>3. \A k \in 0 .. m : First(k) \in Seq(Seq(B)) /\ Len(First(k)) = k
  BY <1>2
<1> DEFINE Good == {k \in Nat : k =< m => Len(FlattenSeq(First(k))) = total[k]}
<1>4. 0 \in Good
  <2>1. First(0) = <<>> /\ FlattenSeq(<<>>) = <<>>
    BY DEF FlattenSeq
  <2> QED  BY <1>1, <2>1 DEF SumsSizes
<1>5. ASSUME NEW k \in Nat, k \in Good PROVE k + 1 \in Good
  <2> SUFFICES ASSUME k + 1 =< m PROVE Len(FlattenSeq(First(k + 1))) = total[k + 1]
    OBVIOUS
  <2>1. k + 1 \in 1 .. m /\ (k + 1) - 1 = k /\ k \in 0 .. m /\ k + 1 \in 0 .. m
    BY <1>2
  <2> DEFINE s == Append(First(k), pieces[k + 1])
  <2>2. First(k + 1) = s
    <3>1. /\ s \in Seq(Seq(B)) /\ Len(s) = k + 1
          /\ \A i \in 1 .. k : s[i] = First(k)[i]
          /\ s[k + 1] = pieces[k + 1]
      <4>1. First(k) \in Seq(Seq(B)) /\ Len(First(k)) = k /\ pieces[k + 1] \in Seq(B)
        BY <1>2, <1>3, <2>1
      <4> HIDE DEF First
      <4> QED  BY <4>1, AppendProperties
    <3>2. First(k + 1) \in Seq(Seq(B)) /\ Len(First(k + 1)) = k + 1
      BY <1>3, <2>1
    <3>3. ASSUME NEW i \in 1 .. (k + 1) PROVE First(k + 1)[i] = s[i]
      <4>1. CASE i \in 1 .. k
        <5>1. First(k + 1)[i] = pieces[i] /\ First(k)[i] = pieces[i]
          BY <4>1
        <5> HIDE DEF s, First
        <5> QED  BY <3>1, <4>1, <5>1
      <4>2. CASE i = k + 1
        <5>1. First(k + 1)[i] = pieces[i]
          OBVIOUS
        <5> HIDE DEF s, First
        <5> QED  BY <3>1, <4>2, <5>1
      <4> QED  BY <4>1, <4>2
    <3> HIDE DEF s, First
    <3> QED  BY <3>1, <3>2, <3>3, SeqEqual
  <2>3. First(k) \in Seq(Seq(B)) /\ pieces[k + 1] \in Seq(B)
    BY <1>2, <1>3, <2>1
  <2>4. Len(FlattenSeq(First(k))) = total[k]
    BY <1>5, <2>1
  <2> HIDE DEF First
  <2>5. FlattenSeq(First(k)) \in Seq(B) /\ FlattenSeq(s) = FlattenSeq(First(k)) \o pieces[k + 1]
    BY <2>3, FlattenSeqAppend
  <2>6. Len(FlattenSeq(s)) = Len(FlattenSeq(First(k))) + Len(pieces[k + 1])
    BY <2>3, <2>5, ConcatProperties
  <2>7. total[k + 1] = total[k] + ranges[k + 1].size
    BY <1>1, <2>1 DEF SumsSizes
  <2> QED  BY <2>1, <2>2, <2>4, <2>6, <2>7
<1>6. m \in Good
  <2> HIDE DEF Good
  <2> QED  BY <1>2, <1>4, <1>5, SetInduction
<1>7. First(m) = pieces
  OBVIOUS
<1> HIDE DEF First
<1>8. Len(FlattenSeq(pieces)) = total[m]
  BY <1>2, <1>6, <1>7
<1> QED  BY <1>1, <1>8 DEF SumsSizes

\* read_ranges serves a batch whole or refuses it whole, for any file and any
\* ranges, and counts exactly the bytes it served.
LEMMA BatchIsWhole ==
    ASSUME FileBytes \in Seq(Nat),
           NEW log \in [batches : Seq(Seq(ByteRange)), served : Nat],
           NEW ranges \in Seq(ByteRange), NEW before \in Seq(Seq(Nat))
    PROVE  AllOrNothing(log, ranges, before)
<1> DEFINE m    == Len(ranges)
           size == Len(FileBytes)
           out  == ReadRanges(log, ranges, before)
           read == [i \in 1 .. m |-> Copied(ranges[i])]
<1>1. /\ m \in Nat /\ size \in Nat /\ DOMAIN ranges = 1 .. m
      /\ \A i \in 1 .. m : ranges[i].offset \in Nat /\ ranges[i].size \in Nat
  <2>1. \A i \in 1 .. m : ranges[i] \in ByteRange
    BY ElementOfSeq
  <2>2. \A i \in 1 .. m : ranges[i].offset \in Nat /\ ranges[i].size \in Nat
    BY <2>1 DEF ByteRange
  <2>3. m \in Nat /\ size \in Nat /\ DOMAIN ranges = 1 .. m
    BY LenProperties
  <2> QED  BY <2>2, <2>3
<1>2. \A i \in 1 .. m : Outside(ranges[i]) <=> ~(ranges[i].offset + ranges[i].size <= size)
  BY <1>1 DEF Outside
<1>3. CASE Len(before) # m \/ \E i \in 1 .. m : Outside(ranges[i])
  <2>1. out.threw /\ out.log = log /\ out.read = before
    BY <1>1, <1>3 DEF ReadRanges
  <2>2. ~(\A i \in 1 .. m : ranges[i].offset + ranges[i].size <= size) \/ Len(before) # m
    BY <1>2, <1>3
  <2> HIDE DEF out
  <2> QED  BY <1>1, <2>1, <2>2 DEF AllOrNothing, out
<1>4. CASE ~(Len(before) # m \/ \E i \in 1 .. m : Outside(ranges[i]))
  <2>1. ~out.threw /\ out.log = Logged(log, ranges) /\ out.read = read
    BY <1>1, <1>4 DEF ReadRanges
  <2>2. /\ out.log.batches = Append(log.batches, ranges)
        /\ out.log.served = log.served + TotalSize(ranges)
    BY <2>1 DEF Logged
  <2>3. \A i \in 1 .. m : ranges[i].offset + ranges[i].size <= size
    BY <1>2, <1>4
  <2>4. ASSUME NEW i \in 1 .. m
        PROVE  /\ Copied(ranges[i]) \in Seq(Nat)
               /\ Len(Copied(ranges[i])) = ranges[i].size
               /\ \A k \in 1 .. ranges[i].size :
                     Copied(ranges[i])[k] = FileBytes[ranges[i].offset + k]
    <3> DEFINE a == ranges[i].offset
               n == ranges[i].size
               c == SubSeq(FileBytes, a + 1, a + n)
    <3>1. a \in Nat /\ n \in Nat /\ a + n <= size
      BY <1>1, <2>3
    <3>2. Copied(ranges[i]) = c
      BY DEF Copied
    <3> HIDE DEF a, n
    <3>3. /\ a + 1 \in Int /\ a + n \in Int /\ (a + n) - (a + 1) + 1 = n
          /\ (a + 1 <= a + n <=> n # 0)
      BY <3>1
    <3>4. \A j \in (a + 1) .. (a + n) : FileBytes[j] \in Nat
      BY <1>1, <3>1
    <3>5. /\ c \in Seq(Nat)
          /\ Len(c) = IF a + 1 <= a + n THEN (a + n) - (a + 1) + 1 ELSE 0
          /\ \A k \in 1 .. (a + n) - (a + 1) + 1 : c[k] = FileBytes[(a + 1) + k - 1]
      BY <3>3, <3>4, SubSeqProperties
    <3>6. \A k \in 1 .. n : (a + 1) + k - 1 = a + k
      BY <3>1
    <3> HIDE DEF c
    <3>7. c \in Seq(Nat) /\ Len(c) = n /\ \A k \in 1 .. n : c[k] = FileBytes[a + k]
      BY <3>1, <3>3, <3>5, <3>6
    <3> QED  BY <3>2, <3>7 DEF a, n
  <2>5. read \in Seq(Seq(Nat)) /\ Len(read) = m /\ \A i \in 1 .. m : Len(read[i]) = ranges[i].size
    BY <1>1, <2>4
  <2>6. Len(FlattenSeq(read)) = TotalSize(ranges)
    <3> HIDE DEF read
    <3> QED  BY <2>5, FlatteningHasTotal
  <2>7. \A i \in 1 .. m : \A k \in 1 .. ranges[i].size :
           read[i][k] = FileBytes[ranges[i].offset + k]
    BY <2>4
  <2> HIDE DEF out, read
  <2> QED  BY <1>1, <1>4, <2>1, <2>2, <2>3, <2>5, <2>6, <2>7 DEF AllOrNothing, out
<1> QED  BY <1>3, <1>4

-----------------------------------------------------------------------------
(* Strings. *)

LEMMA MinIs ==
    ASSUME NEW S \in SUBSET Nat, S # {}
    PROVE  Min(S) \in S /\ \A y \in S : Min(S) =< y
<1>1. \E x \in S : \A y \in S : x =< y
  BY LeastNatural
<1> QED  BY <1>1 DEF Min

\* The last of some positions, or 0.
LEMMA LastPositionIs ==
    ASSUME NEW n \in Nat, NEW P \in SUBSET (1 .. n)
    PROVE  LET last == Max(P \cup {0})
           IN  /\ last \in 0 .. n
               /\ last # 0 => last \in P
               /\ \A k \in P : k =< last
<1> DEFINE f == [k \in 1 .. n |-> IF k \in P THEN k ELSE 0]
           S == {0} \cup {f[k] : k \in 1 .. n}
<1>1. \A k \in 1 .. n : f[k] \in Int /\ (f[k] = 0 \/ (f[k] = k /\ k \in P)) /\ (k \in P => f[k] = k)
  OBVIOUS
<1> HIDE DEF f
<1>2. Max(S) \in S /\ \A y \in S : Max(S) >= y
  <2>1. \A k \in 1 .. n : f[k] \in Int
    BY <1>1
  <2>2. n \in Nat /\ 0 \in Int
    OBVIOUS
  <2>3. Max({0} \cup {f[k] : k \in 1 .. n}) \in {0} \cup {f[k] : k \in 1 .. n}
    BY <2>1, <2>2, MaxOfValues
  <2>4. \A y \in {0} \cup {f[k] : k \in 1 .. n} :
           Max({0} \cup {f[k] : k \in 1 .. n}) >= y
    BY <2>1, <2>2, MaxOfValues
  <2> QED  BY <2>3, <2>4
<1>3. S = P \cup {0}
  BY <1>1
<1> HIDE DEF S
<1>4. Max(P \cup {0}) \in P \cup {0} /\ \A y \in P \cup {0} : Max(P \cup {0}) >= y
  BY <1>2, <1>3
<1> DEFINE last == Max(P \cup {0})
<1> HIDE DEF last
<1>5. last \in P \cup {0} /\ \A y \in P : last >= y
  BY <1>4 DEF last
<1>6. last \in 0 .. n /\ \A y \in P : y =< last
  BY <1>5
<1> QED  BY <1>5, <1>6 DEF last

LEMMA TrimIs ==
    ASSUME NEW C, NEW s \in Seq(C)
    PROVE  TrimCutsTheEnds(s)
<1> DEFINE n     == Len(s)
           N     == NonSpaces(s)
           first == Min(N \cup {n + 1})
           t     == LTrim(s)
           m     == Len(t)
           M     == NonSpaces(t)
           last  == Max(M \cup {0})
           i     == first - 1
           j     == i + last
           u     == Trim(s)
<1>1. n \in Nat /\ DOMAIN s = 1 .. n /\ N \in SUBSET (1 .. n) /\ \A k \in 1 .. n : s[k] \in C
  BY DEF NonSpaces
<1>2. /\ first \in 1 .. (n + 1)
      /\ \A k \in 1 .. n : k < first => s[k] \in Spaces
      /\ first # n + 1 => s[first] \notin Spaces
  <2> DEFINE S == N \cup {n + 1}
  <2>1. S \in SUBSET Nat /\ S # {} /\ \A y \in S : y \in 1 .. (n + 1)
    BY <1>1
  <2> HIDE DEF S
  <2>2. Min(S) \in S /\ \A y \in S : Min(S) =< y
    BY <2>1, MinIs
  <2>3. first = Min(S)
    BY DEF S
  <2> HIDE DEF first
  <2>4. first \in 1 .. (n + 1) /\ first \in N \cup {n + 1} /\ \A y \in N : first =< y
    BY <2>1, <2>2, <2>3 DEF S
  <2>5. \A k \in 1 .. n : k < first => k \notin N
    BY <2>4
  <2> QED  BY <1>1, <2>4, <2>5 DEF NonSpaces
<1>3. t = SubSeq(s, first, n)
  BY DEF LTrim
<1> HIDE DEF n, first, t
<1>4. /\ t \in Seq(C) /\ m = n - first + 1 /\ m \in Nat
      /\ \A k \in 1 .. m : t[k] = s[i + k] /\ i + k \in 1 .. n
  <2>1. /\ first \in Int /\ n \in Int /\ first <= n + 1
        /\ \A k \in first .. n : s[k] \in C
    BY <1>1, <1>2
  <2>2. /\ t \in Seq(C)
        /\ Len(t) = IF first <= n THEN n - first + 1 ELSE 0
        /\ \A k \in 1 .. (n - first + 1) : t[k] = s[first + k - 1]
    BY <1>3, <2>1, SubSeqProperties
  <2>3. m = n - first + 1 /\ m \in Nat
    BY <1>1, <1>2, <2>2
  <2>4. \A k \in 1 .. m : first + k - 1 = i + k /\ i + k \in 1 .. n
    BY <1>1, <1>2, <2>3
  <2> QED  BY <2>2, <2>3, <2>4
<1>5. DOMAIN t = 1 .. m /\ M \in SUBSET (1 .. m)
  BY <1>4 DEF NonSpaces
<1> HIDE DEF m, M
<1>6. last \in 0 .. m /\ (last # 0 => last \in M) /\ \A k \in M : k =< last
  BY <1>4, <1>5, LastPositionIs
<1>7. u = SubSeq(t, 1, last)
  BY DEF Trim, RTrim, t, last, M
<1> HIDE DEF last, u
<1>8. /\ u \in Seq(C) /\ Len(u) = last
      /\ \A k \in 1 .. last : u[k] = s[i + k]
  <2>1. u \in Seq(C) /\ Len(u) = last /\ \A k \in 1 .. last : u[k] = t[k]
    <3>1. last \in 0 .. Len(t)
      BY <1>6 DEF m
    <3> QED  BY <1>4, <1>7, <3>1, SubSeqRestrict
  <2>2. \A k \in 1 .. last : k \in 1 .. m
    BY <1>4, <1>6
  <2> QED  BY <1>4, <2>1, <2>2
<1>9. /\ i \in 0 .. n /\ j \in 0 .. n /\ i + m = n
  BY <1>1, <1>2, <1>4, <1>6
<1>10. u = SubSeq(s, i + 1, j)
  <2> DEFINE v == SubSeq(s, i + 1, j)
  <2>1. /\ i + 1 \in Int /\ j \in Int /\ j - (i + 1) + 1 = last /\ (i + 1 <= j <=> last # 0)
        /\ \A k \in (i + 1) .. j : s[k] \in C
    BY <1>1, <1>6, <1>9
  <2>2. /\ v \in Seq(C)
        /\ Len(v) = IF i + 1 <= j THEN j - (i + 1) + 1 ELSE 0
        /\ \A k \in 1 .. (j - (i + 1) + 1) : v[k] = s[(i + 1) + k - 1]
    <3> HIDE DEF i, j
    <3> QED  BY <2>1, SubSeqProperties
  <2>3. \A k \in 1 .. last : (i + 1) + k - 1 = i + k
    BY <1>6, <1>9
  <2> HIDE DEF v, i, j
  <2>4. v \in Seq(C) /\ Len(v) = last /\ \A k \in 1 .. last : v[k] = s[i + k]
    BY <1>6, <2>1, <2>2, <2>3
  <2>5. u = v
    BY <1>8, <2>4, SeqEqual
  <2> QED  BY <2>5 DEF v
<1>11. ASSUME NEW k \in DOMAIN s, k <= i \/ k > j PROVE s[k] \in Spaces
  <2>1. k \in 1 .. n
    BY <1>1
  <2>2. CASE k <= i
    <3>1. k < first
      BY <1>2, <2>1, <2>2
    <3> QED  BY <1>2, <2>1, <3>1
  <2>3. CASE k > j
    <3>1. k - i \in 1 .. m /\ k - i > last /\ i + (k - i) = k
      <4>1. i \in Nat /\ n \in Nat /\ m \in Nat /\ last \in Nat /\ k \in Nat /\ j = i + last
        BY <1>1, <1>4, <1>6, <1>9, <2>1
      <4> HIDE DEF i, j
      <4> QED  BY <1>9, <2>1, <2>3, <4>1
    <3>2. k - i \notin M
      BY <1>6, <3>1
    <3>3. t[k - i] \in Spaces
      BY <1>5, <3>1, <3>2 DEF M, NonSpaces
    <3> QED  BY <1>4, <3>1, <3>3
  <2> QED  BY <1>11, <2>2, <2>3
<1>12. ASSUME u # <<>> PROVE u[1] \notin Spaces /\ Last(u) \notin Spaces
  <2>1. last \in 1 .. m /\ last \in M /\ 1 \in 1 .. last /\ last \in 1 .. last
    <3>1. last # 0
      BY <1>8, <1>12
    <3> QED  BY <1>4, <1>6, <3>1
  <2>2. u[1] = s[first] /\ s[first] \notin Spaces
    <3>1. i + 1 = first /\ first # n + 1
      BY <1>1, <1>2, <1>4, <2>1
    <3> QED  BY <1>2, <1>8, <2>1, <3>1
  <2>3. Last(u) = t[last] /\ t[last] \notin Spaces
    <3>1. Last(u) = u[last]
      BY <1>8 DEF Last
    <3> QED  BY <1>4, <1>8, <2>1, <3>1 DEF M, NonSpaces
  <2> QED  BY <2>2, <2>3
<1> HIDE DEF i, j
<1> QED  BY <1>9, <1>10, <1>11, <1>12 DEF TrimCutsTheEnds, u, n

\* Of n + 1 numbers, one is not among n names.
LEMMA SomeNumberIsFree ==
    ASSUME NEW base, NEW blacklist, IsFiniteSet(blacklist)
    PROVE  /\ Cardinality(blacklist) \in Nat
           /\ \E i \in 1 .. (Cardinality(blacklist) + 1) : Numbered(base, i) \notin blacklist
<1> DEFINE n == Cardinality(blacklist)
           D == 1 .. (n + 1)
           f == [i \in D |-> Numbered(base, i)]
<1>1. n \in Nat
  BY FS_CardinalityType
<1> HIDE DEF n
<1>2. IsFiniteSet(D) /\ Cardinality(D) = n + 1
  BY <1>1, FS_Interval
<1> HIDE DEF D
<1>3. SUFFICES ASSUME \A i \in D : Numbered(base, i) \in blacklist PROVE FALSE
  BY <1>1 DEF D, n
<1>4. f \in [D -> blacklist]
  BY <1>3
<1> HIDE DEF f
<1>5. \E x, y \in D : x # y /\ f[x] = f[y]
  <2>1. Cardinality(blacklist) < Cardinality(D)
    BY <1>1, <1>2 DEF n
  <2> QED  BY <1>2, <1>4, <2>1, FS_PigeonHole
<1>6. PICK x \in D, y \in D : x # y /\ Numbered(base, x) = Numbered(base, y)
  BY <1>5 DEF f
<1>7. Numbered(base, x).number = Numbered(base, y).number
  BY <1>6
<1> QED  BY <1>6, <1>7 DEF Numbered

LEMMA FirstFreeIs ==
    ASSUME NEW base, NEW blacklist, IsFiniteSet(blacklist)
    PROVE  \E i \in Nat \ {0} :
              /\ FirstFree(base, blacklist) = Numbered(base, i)
              /\ Numbered(base, i) \notin blacklist
              /\ \A k \in 1 .. (i - 1) : Numbered(base, k) \in blacklist
<1> DEFINE n       == Cardinality(blacklist)
           Name(i) == Numbered(base, i)
           Taken(i) == Name(i) \in blacklist
           Rec(f)  == [i \in 1 .. (n + 1) |->
                         IF Taken(i) /\ i <= n THEN f[i + 1] ELSE Name(i)]
           from    == CHOOSE f : f = Rec(f)
           Ends(i) == {k \in i .. (n + 1) : ~(Taken(k) /\ k <= n)}
           g       == [i \in 1 .. (n + 1) |-> Name(Min(Ends(i)))]
           free    == Min(Ends(1))
<1>1. n \in Nat /\ \E i \in 1 .. (n + 1) : ~Taken(i)
  BY SomeNumberIsFree
<1>2. FirstFree(base, blacklist) = from[1]
  BY DEF FirstFree
<1> HIDE DEF n, Name, Taken
<1>3. ASSUME NEW i \in 1 .. (n + 1)
      PROVE  Min(Ends(i)) \in Ends(i) /\ \A y \in Ends(i) : Min(Ends(i)) =< y
  <2>1. Ends(i) \in SUBSET Nat /\ n + 1 \in Ends(i)
    BY <1>1
  <2> HIDE DEF Ends
  <2> QED  BY <2>1, MinIs
<1>4. g = Rec(g)
  <2>1. ASSUME NEW i \in 1 .. (n + 1)
        PROVE  g[i] = IF Taken(i) /\ i <= n THEN g[i + 1] ELSE Name(i)
    <3>1. CASE Taken(i) /\ i <= n
      <4>1. Ends(i) = Ends(i + 1) /\ i + 1 \in 1 .. (n + 1)
        <5>1. \A k \in i .. (n + 1) : k = i \/ k \in (i + 1) .. (n + 1)
          BY <1>1
        <5>2. \A k \in (i + 1) .. (n + 1) : k \in i .. (n + 1)
          BY <1>1
        <5> QED  BY <1>1, <3>1, <5>1, <5>2
      <4> HIDE DEF Ends
      <4> QED  BY <3>1, <4>1
    <3>2. CASE ~(Taken(i) /\ i <= n)
      <4>1. i \in Ends(i) /\ Min(Ends(i)) \in i .. (n + 1) /\ Min(Ends(i)) =< i
        BY <1>1, <1>3, <3>2
      <4>2. Min(Ends(i)) = i
        <5> HIDE DEF Ends
        <5> QED  BY <1>1, <4>1
      <4> HIDE DEF Ends
      <4> QED  BY <3>2, <4>2
    <3> QED  BY <3>1, <3>2
  <2> HIDE DEF g
  <2>2. g = [i \in 1 .. (n + 1) |-> g[i]]
    BY DEF g
  <2> QED  BY <2>1, <2>2
<1>5. from = Rec(from)
  <2> HIDE DEF Rec, g
  <2> QED  BY <1>4
<1> HIDE DEF from
<1>6. \A i \in 1 .. (n + 1) : from[i] = IF Taken(i) /\ i <= n THEN from[i + 1] ELSE Name(i)
  BY <1>5
<1>7. /\ free \in 1 .. (n + 1) /\ ~(Taken(free) /\ free <= n)
      /\ \A k \in 1 .. (n + 1) : ~(Taken(k) /\ k <= n) => free =< k
  <2>1. 1 \in 1 .. (n + 1)
    BY <1>1
  <2>2. Min(Ends(1)) \in Ends(1) /\ \A y \in Ends(1) : Min(Ends(1)) =< y
    BY <1>3, <2>1
  <2> QED  BY <2>2
<1> HIDE DEF free
<1>8. \A k \in 1 .. (free - 1) : Taken(k) /\ k <= n
  <2> SUFFICES ASSUME NEW k \in 1 .. (free - 1), ~(Taken(k) /\ k <= n) PROVE FALSE
    OBVIOUS
  <2>1. k \in 1 .. (n + 1) /\ ~(free =< k)
    BY <1>1, <1>7
  <2> QED  BY <1>7, <2>1
<1>9. ~Taken(free)
  <2>1. PICK i \in 1 .. (n + 1) : ~Taken(i)
    BY <1>1
  <2>2. CASE free <= n
    BY <1>7, <2>2
  <2>3. CASE ~(free <= n)
    <3>1. free = n + 1 /\ ~(i \in 1 .. (free - 1))
      BY <1>1, <1>7, <1>8, <2>1, <2>3
    <3>2. i = free
      BY <1>1, <3>1
    <3> QED  BY <2>1, <3>2
  <2> QED  BY <2>2, <2>3
<1> DEFINE Good == {k \in Nat : k < free => from[free - k] = Name(free)}
<1>10. 0 \in Good
  <2>1. from[free] = Name(free) /\ free - 0 = free
    BY <1>1, <1>6, <1>7
  <2> QED  BY <2>1
<1>11. ASSUME NEW k \in Nat, k \in Good PROVE k + 1 \in Good
  <2> SUFFICES ASSUME k + 1 < free PROVE from[free - (k + 1)] = Name(free)
    OBVIOUS
  <2> DEFINE i == free - (k + 1)
  <2>1. i \in 1 .. (free - 1) /\ i \in 1 .. (n + 1) /\ i + 1 = free - k /\ k < free
    BY <1>1, <1>7
  <2> HIDE DEF i
  <2>2. from[i] = from[i + 1]
    BY <1>6, <1>8, <2>1
  <2>3. from[free - k] = Name(free)
    BY <1>11, <2>1
  <2> QED  BY <2>1, <2>2, <2>3 DEF i
<1>12. from[1] = Name(free)
  <2>1. \A k \in Nat : k \in Good
    <3> HIDE DEF Good
    <3> QED  BY <1>10, <1>11, SetInduction
  <2>2. free - 1 \in Nat /\ free - 1 < free /\ free - (free - 1) = 1
    BY <1>1, <1>7
  <2> QED  BY <2>1, <2>2
<1>13. free \in Nat \ {0}
  BY <1>1, <1>7
<1> QED  BY <1>2, <1>8, <1>9, <1>12, <1>13 DEF Name, Taken

\* make_unique_name ends, with the first free name, for any finite blacklist.
LEMMA NameIsFirstFree ==
    ASSUME NEW base \in Seq(Characters),
           NEW blacklist \in SUBSET [base : Seq(Characters), number : Nat],
           IsFiniteSet(blacklist)
    PROVE  UniqueNameIsFirstFree(base, blacklist)
<1>1. Plain(base) = Numbered(base, 0)
  BY DEF Plain, Numbered
<1>2. CASE Plain(base) \notin blacklist
  <2>1. MakeUniqueName(base, blacklist) = Plain(base)
    BY <1>2 DEF MakeUniqueName
  <2>2. Plain(base).base = base /\ Plain(base).number = 0
    BY DEF Plain
  <2>3. 0 .. (0 - 1) = {}
    OBVIOUS
  <2> QED  BY <1>2, <2>1, <2>2, <2>3 DEF UniqueNameIsFirstFree
<1>3. CASE Plain(base) \in blacklist
  <2>1. PICK i \in Nat \ {0} :
            /\ FirstFree(base, blacklist) = Numbered(base, i)
            /\ Numbered(base, i) \notin blacklist
            /\ \A k \in 1 .. (i - 1) : Numbered(base, k) \in blacklist
    BY FirstFreeIs
  <2>2. MakeUniqueName(base, blacklist) = Numbered(base, i)
    BY <1>3, <2>1 DEF MakeUniqueName
  <2>3. Numbered(base, i).base = base /\ Numbered(base, i).number = i
    BY DEF Numbered
  <2>4. \A k \in 0 .. (i - 1) : k = 0 \/ k \in 1 .. (i - 1)
    OBVIOUS
  <2>5. \A k \in 0 .. (i - 1) : Numbered(base, k) \in blacklist
    BY <1>1, <1>3, <2>1, <2>4
  <2> QED  BY <2>1, <2>2, <2>3, <2>5 DEF UniqueNameIsFirstFree
<1> QED  BY <1>2, <1>3

-----------------------------------------------------------------------------
(* split and join: what the loop of split holds after each item. *)

Cutting(C) == [output : Seq(Seq(C)), chunk : Seq(C)]

LEMMA CutType ==
    ASSUME NEW C, NEW s \in Cutting(C), NEW c \in C, NEW sep
    PROVE  Cut(s, c, sep) \in Cutting(C)
<1>1. s.output \in Seq(Seq(C)) /\ s.chunk \in Seq(C)
  BY DEF Cutting
<1>2. Append(s.chunk, c) \in Seq(C) /\ Append(s.output, s.chunk) \in Seq(Seq(C)) /\ <<>> \in Seq(C)
  BY <1>1, AppendProperties, EmptySeq
<1>3. Flushed(s.output, s.chunk) \in Seq(Seq(C))
  BY <1>1, <1>2 DEF Flushed
<1> QED  BY <1>1, <1>2, <1>3 DEF Cut, Cutting

\* state[i] is the loop's state behind item i.
CutsAre(state, items, sep) ==
    /\ Cuts(items, sep) = state[Len(items)]
    /\ state[0] = NoCuts
    /\ \A i \in 1 .. Len(items) : state[i] = Cut(state[i - 1], items[i], sep)

LEMMA CutsExist ==
    ASSUME NEW C, NEW items \in Seq(C), NEW sep
    PROVE  \E state \in [0 .. Len(items) -> Cutting(C)] : CutsAre(state, items, sep)
<1> DEFINE n      == Len(items)
           Rec(f) == [i \in 0 .. n |->
                        IF i = 0 THEN NoCuts
                        ELSE Cut(f[i - 1], items[i], sep)]
           state  == CHOOSE f : f = Rec(f)
           F      == [x \in Nat \X Cutting(C) |->
                        IF x[1] \in 1 .. n THEN Cut(x[2], items[x[1]], sep) ELSE NoCuts]
<1>1. n \in Nat /\ \A i \in 1 .. n : items[i] \in C
  BY LenProperties, ElementOfSeq
<1>2. Cuts(items, sep) = state[n]
  BY DEF Cuts
<1> HIDE DEF n
<1>3. NoCuts \in Cutting(C)
  <2>1. <<>> \in Seq(C) /\ <<>> \in Seq(Seq(C))
    BY EmptySeq
  <2> QED  BY <2>1 DEF NoCuts, Cutting
<1>4. /\ F \in [Nat \X Cutting(C) -> Cutting(C)]
      /\ \A i \in 1 .. n, y \in Cutting(C) : F[<<i, y>>] = Cut(y, items[i], sep)
  <2>1. \A x \in Nat \X Cutting(C) : x[1] \in Nat /\ x[2] \in Cutting(C)
    OBVIOUS
  <2>2. \A i \in 1 .. n, y \in Cutting(C) :
           <<i, y>> \in Nat \X Cutting(C) /\ <<i, y>>[1] = i /\ <<i, y>>[2] = y
    BY <1>1
  <2>3. ASSUME NEW x \in Nat \X Cutting(C)
        PROVE  (IF x[1] \in 1 .. n THEN Cut(x[2], items[x[1]], sep) ELSE NoCuts) \in Cutting(C)
    BY <1>1, <1>3, <2>1, CutType
  <2> QED  BY <2>2, <2>3
<1> HIDE DEF F
<1>5. PICK g \in [0 .. n -> Cutting(C)] : Obeys(g, NoCuts, F, n)
  BY <1>1, <1>3, <1>4, RecursionExists
<1>6. \A i \in 1 .. n : g[i] = Cut(g[i - 1], items[i], sep)
  <2> SUFFICES ASSUME NEW i \in 1 .. n PROVE g[i] = Cut(g[i - 1], items[i], sep)
    OBVIOUS
  <2>1. i - 1 \in 0 .. n
    BY <1>1
  <2> QED  BY <1>4, <1>5, <2>1 DEF Obeys
<1>7. g = Rec(g)
  <2>1. g[0] = NoCuts
    BY <1>5 DEF Obeys
  <2>2. \A i \in 0 .. n : g[i] = IF i = 0 THEN NoCuts
                                 ELSE Cut(g[i - 1], items[i], sep)
    <3>1. \A i \in 0 .. n : i = 0 \/ i \in 1 .. n
      BY <1>1
    <3> QED  BY <1>6, <2>1, <3>1
  <2>3. g = [i \in 0 .. n |-> g[i]]
    BY <1>5
  <2> QED  BY <2>2, <2>3
<1>8. state = Rec(state)
  <2> HIDE DEF Rec
  <2> QED  BY <1>7
<1> HIDE DEF state
<1>9. state[0] = NoCuts /\ \A i \in 1 .. n : state[i] = Cut(state[i - 1], items[i], sep)
  <2>1. 0 \in 0 .. n /\ \A i \in 1 .. n : i \in 0 .. n /\ i # 0
    BY <1>1
  <2>2. \A i \in 0 .. n : state[i] = IF i = 0 THEN NoCuts
                                     ELSE Cut(state[i - 1], items[i], sep)
    BY <1>8
  <2> QED  BY <2>1, <2>2
<1>10. \A i \in 0 .. n : state[i] \in Cutting(C)
  <2>1. ASSUME NEW i \in 1 .. n, state[i - 1] \in Cutting(C) PROVE state[i] \in Cutting(C)
    BY <1>1, <1>9, <2>1, CutType
  <2>2. state[0] \in Cutting(C)
    BY <1>3, <1>9
  <2> QED  BY <1>1, <2>1, <2>2, RecursionType, Zenon
<1>11. state \in [0 .. n -> Cutting(C)]
  <2>1. state = [i \in 0 .. n |-> state[i]]
    BY <1>8
  <2> HIDE DEF state
  <2> QED  BY <1>10, <2>1
<1> QED  BY <1>2, <1>9, <1>11 DEF CutsAre, n

LEMMA CutsEmpty == \A sep : Cuts(<<>>, sep) = NoCuts
<1> SUFFICES ASSUME NEW sep PROVE Cuts(<<>>, sep) = NoCuts
  OBVIOUS
<1> DEFINE C == {}
<1>1. <<>> \in Seq(C) /\ Len(<<>>) = 0
  BY EmptySeq
<1> HIDE DEF C
<1>2. PICK f \in [0 .. Len(<<>>) -> Cutting(C)] : CutsAre(f, <<>>, sep)
  BY <1>1, CutsExist
<1> QED  BY <1>1, <1>2 DEF CutsAre

\* One more item is one more turn of the loop.
LEMMA CutsAppend ==
    ASSUME NEW C, NEW items \in Seq(C), NEW c \in C, NEW sep
    PROVE  /\ Cuts(items, sep) \in Cutting(C)
           /\ Cuts(Append(items, c), sep) = Cut(Cuts(items, sep), c, sep)
<1> DEFINE t == Append(items, c)
           n == Len(items)
<1>1. /\ t \in Seq(C) /\ Len(t) = n + 1 /\ t[n + 1] = c /\ n \in Nat
      /\ \A i \in 1 .. n : t[i] = items[i]
  BY AppendProperties, LenProperties
<1>2. PICK f \in [0 .. n -> Cutting(C)] : CutsAre(f, items, sep)
  BY CutsExist
<1>3. PICK g \in [0 .. Len(t) -> Cutting(C)] : CutsAre(g, t, sep)
  BY <1>1, CutsExist
<1> HIDE DEF t, n
<1> DEFINE Agreed == {i \in 0 .. n : f[i] = g[i]}
<1>4. ASSUME NEW i \in 1 .. n, i - 1 \in Agreed PROVE i \in Agreed
  <2>1. i \in 1 .. Len(t) /\ t[i] = items[i] /\ i \in 0 .. n
    BY <1>1
  <2>2. g[i] = Cut(g[i - 1], t[i], sep)
    BY <1>3, <2>1 DEF CutsAre
  <2>3. f[i] = Cut(f[i - 1], items[i], sep)
    BY <1>2 DEF CutsAre, n
  <2> QED  BY <1>4, <2>1, <2>2, <2>3
<1>5. 0 \in Agreed
  BY <1>1, <1>2, <1>3 DEF CutsAre
<1>6. n \in 0 .. n /\ f[n] = g[n]
  <2>1. n \in Nat
    BY <1>1
  <2>2. \A i \in 0 .. n : i \in Agreed
    <3> HIDE DEF Agreed
    <3> QED  BY <1>4, <1>5, <2>1, IntervalInduction
  <2> QED  BY <2>1, <2>2
<1>7. g[n + 1] = Cut(g[n], c, sep)
  <2>1. n + 1 \in 1 .. Len(t) /\ (n + 1) - 1 = n
    BY <1>1
  <2>2. g[n + 1] = Cut(g[(n + 1) - 1], t[n + 1], sep)
    BY <1>3, <2>1 DEF CutsAre
  <2> QED  BY <1>1, <2>1, <2>2
<1>8. Cuts(items, sep) = f[n] /\ Cuts(t, sep) = g[n + 1]
  BY <1>1, <1>2, <1>3 DEF CutsAre, n
<1>9. Cuts(items, sep) \in Cutting(C)
  BY <1>2, <1>6, <1>8
<1> QED  BY <1>6, <1>7, <1>8, <1>9 DEF t

\* others[i] is what is left of the first i items.
OthersAre(others, items, sep) ==
    /\ Others(items, sep) = others[Len(items)]
    /\ others[0] = <<>>
    /\ \A i \in 1 .. Len(items) :
          others[i] = IF items[i] = sep THEN others[i - 1] ELSE Append(others[i - 1], items[i])

LEMMA OthersExist ==
    ASSUME NEW C, NEW items \in Seq(C), NEW sep
    PROVE  \E others \in [0 .. Len(items) -> Seq(C)] : OthersAre(others, items, sep)
<1> DEFINE n       == Len(items)
           Step(s, c) == IF c = sep THEN s ELSE Append(s, c)
           Rec(f)  == [i \in 0 .. n |->
                         IF i = 0 THEN <<>>
                         ELSE IF items[i] = sep THEN f[i - 1] ELSE Append(f[i - 1], items[i])]
           others  == CHOOSE f : f = Rec(f)
           F       == [x \in Nat \X Seq(C) |->
                         IF x[1] \in 1 .. n THEN Step(x[2], items[x[1]]) ELSE <<>>]
<1>1. n \in Nat /\ \A i \in 1 .. n : items[i] \in C
  BY LenProperties, ElementOfSeq
<1>2. Others(items, sep) = others[n]
  BY DEF Others
<1> HIDE DEF n
<1>3. /\ <<>> \in Seq(C)
      /\ \A s \in Seq(C), c \in C : Step(s, c) \in Seq(C)
  BY EmptySeq, AppendProperties
<1>4. /\ F \in [Nat \X Seq(C) -> Seq(C)]
      /\ \A i \in 1 .. n, y \in Seq(C) : F[<<i, y>>] = Step(y, items[i])
  <2> HIDE DEF Step
  <2>1. \A x \in Nat \X Seq(C) : x[1] \in Nat /\ x[2] \in Seq(C)
    OBVIOUS
  <2>2. \A i \in 1 .. n, y \in Seq(C) :
           <<i, y>> \in Nat \X Seq(C) /\ <<i, y>>[1] = i /\ <<i, y>>[2] = y
    BY <1>1
  <2>3. ASSUME NEW x \in Nat \X Seq(C)
        PROVE  (IF x[1] \in 1 .. n THEN Step(x[2], items[x[1]]) ELSE <<>>) \in Seq(C)
    BY <1>1, <1>3, <2>1
  <2> QED  BY <2>2, <2>3
<1> HIDE DEF F
<1>5. PICK g \in [0 .. n -> Seq(C)] : Obeys(g, <<>>, F, n)
  <2> HIDE DEF Step
  <2> QED  BY <1>1, <1>3, <1>4, RecursionExists
<1>6. \A i \in 1 .. n : g[i] = Step(g[i - 1], items[i])
  <2> SUFFICES ASSUME NEW i \in 1 .. n PROVE g[i] = Step(g[i - 1], items[i])
    OBVIOUS
  <2> HIDE DEF Step
  <2>1. i - 1 \in 0 .. n
    BY <1>1
  <2> QED  BY <1>4, <1>5, <2>1 DEF Obeys
<1>7. g = Rec(g)
  <2>1. g[0] = <<>>
    BY <1>5 DEF Obeys
  <2>2. \A i \in 0 .. n : g[i] = IF i = 0 THEN <<>>
                                 ELSE IF items[i] = sep THEN g[i - 1] ELSE Append(g[i - 1], items[i])
    <3>1. \A i \in 0 .. n : i = 0 \/ i \in 1 .. n
      BY <1>1
    <3> QED  BY <1>6, <2>1, <3>1
  <2>3. g = [i \in 0 .. n |-> g[i]]
    BY <1>5
  <2> QED  BY <2>2, <2>3
<1>8. others = Rec(others)
  <2> HIDE DEF Rec
  <2> QED  BY <1>7
<1> HIDE DEF others
<1>9. others[0] = <<>> /\ \A i \in 1 .. n : others[i] = Step(others[i - 1], items[i])
  <2>1. 0 \in 0 .. n /\ \A i \in 1 .. n : i \in 0 .. n /\ i # 0
    BY <1>1
  <2>2. \A i \in 0 .. n : others[i] = IF i = 0 THEN <<>>
                                      ELSE IF items[i] = sep THEN others[i - 1]
                                           ELSE Append(others[i - 1], items[i])
    BY <1>8
  <2> QED  BY <2>1, <2>2
<1>10. \A i \in 0 .. n : others[i] \in Seq(C)
  <2> HIDE DEF Step
  <2>1. ASSUME NEW i \in 1 .. n, others[i - 1] \in Seq(C) PROVE others[i] \in Seq(C)
    BY <1>1, <1>3, <1>9, <2>1
  <2>2. others[0] \in Seq(C)
    BY <1>3, <1>9
  <2> QED  BY <1>1, <2>1, <2>2, RecursionType, Zenon
<1>11. others \in [0 .. n -> Seq(C)]
  <2>1. others = [i \in 0 .. n |-> others[i]]
    BY <1>8
  <2> HIDE DEF others
  <2> QED  BY <1>10, <2>1
<1> QED  BY <1>2, <1>9, <1>11 DEF OthersAre, n

LEMMA OthersEmpty == \A sep : Others(<<>>, sep) = <<>>
<1> SUFFICES ASSUME NEW sep PROVE Others(<<>>, sep) = <<>>
  OBVIOUS
<1> DEFINE C == {}
<1>1. <<>> \in Seq(C) /\ Len(<<>>) = 0
  BY EmptySeq
<1> HIDE DEF C
<1>2. PICK f \in [0 .. Len(<<>>) -> Seq(C)] : OthersAre(f, <<>>, sep)
  BY <1>1, OthersExist
<1> QED  BY <1>1, <1>2 DEF OthersAre

LEMMA OthersAppend ==
    ASSUME NEW C, NEW items \in Seq(C), NEW c \in C, NEW sep
    PROVE  /\ Others(items, sep) \in Seq(C)
           /\ Others(Append(items, c), sep) =
                 IF c = sep THEN Others(items, sep) ELSE Append(Others(items, sep), c)
<1> DEFINE t == Append(items, c)
           n == Len(items)
           Step(s, d) == IF d = sep THEN s ELSE Append(s, d)
<1>1. /\ t \in Seq(C) /\ Len(t) = n + 1 /\ t[n + 1] = c /\ n \in Nat
      /\ \A i \in 1 .. n : t[i] = items[i]
  BY AppendProperties, LenProperties
<1>2. PICK f \in [0 .. n -> Seq(C)] : OthersAre(f, items, sep)
  BY OthersExist
<1>3. PICK g \in [0 .. Len(t) -> Seq(C)] : OthersAre(g, t, sep)
  BY <1>1, OthersExist
<1> HIDE DEF t, n
<1>4. \A i \in 1 .. n : f[i] = Step(f[i - 1], items[i])
  BY <1>2 DEF OthersAre, n
<1>5. \A i \in 1 .. Len(t) : g[i] = Step(g[i - 1], t[i])
  BY <1>3 DEF OthersAre
<1> HIDE DEF Step
<1> DEFINE Agreed == {i \in 0 .. n : f[i] = g[i]}
<1>6. ASSUME NEW i \in 1 .. n, i - 1 \in Agreed PROVE i \in Agreed
  <2>0. t[i] = items[i]
    BY <1>1
  <2>1. i \in 1 .. Len(t) /\ i \in 0 .. n
    BY <1>1
  <2>2. f[i - 1] = g[i - 1]
    BY <1>6
  <2>3. f[i] = Step(f[i - 1], items[i]) /\ g[i] = Step(g[i - 1], t[i])
    BY <1>4, <1>5, <2>1
  <2> QED  BY <2>0, <2>1, <2>2, <2>3
<1>7. 0 \in Agreed
  BY <1>1, <1>2, <1>3 DEF OthersAre
<1>8. n \in 0 .. n /\ f[n] = g[n]
  <2>1. n \in Nat
    BY <1>1
  <2>2. \A i \in 0 .. n : i \in Agreed
    <3> HIDE DEF Agreed
    <3> QED  BY <1>6, <1>7, <2>1, IntervalInduction
  <2> QED  BY <2>1, <2>2
<1>9. g[n + 1] = Step(g[n], c)
  <2>1. n + 1 \in 1 .. Len(t) /\ (n + 1) - 1 = n
    BY <1>1
  <2>2. g[n + 1] = Step(g[(n + 1) - 1], t[n + 1])
    BY <1>5, <2>1
  <2> QED  BY <1>1, <2>1, <2>2
<1>10. Others(items, sep) = f[n] /\ Others(t, sep) = g[n + 1]
  BY <1>1, <1>2, <1>3 DEF OthersAre, n
<1>11. Others(items, sep) \in Seq(C)
  BY <1>2, <1>8, <1>10
<1> QED  BY <1>8, <1>9, <1>10, <1>11 DEF t, Step

LEMMA ConcatAppend ==
    ASSUME NEW C, NEW s \in Seq(C), NEW t \in Seq(C), NEW c \in C
    PROVE  s \o Append(t, c) = Append(s \o t, c)
<1>1. <<c>> \in Seq(C)
  OBVIOUS
<1>2. Append(t, c) = t \o <<c>> /\ s \o t \in Seq(C)
  BY AppendIsConcat, ConcatProperties
<1>3. Append(s \o t, c) = (s \o t) \o <<c>>
  BY <1>2, AppendIsConcat
<1> QED  BY <1>1, <1>2, <1>3, ConcatAssociative

\* The chunks, each with a separator behind it.
Glued(chunks, sep) == FlattenSeq([i \in 1 .. Len(chunks) |-> Append(chunks[i], sep)])

LEMMA GluedEmpty == \A sep : Glued(<<>>, sep) = <<>>
<1>1. Len(<<>>) = 0
  OBVIOUS
<1> QED  BY <1>1, SMT DEF Glued, FlattenSeq

\* join puts one behind each chunk but the last.
LEMMA JoinedAndGlued ==
    ASSUME NEW C, NEW o \in Seq(Seq(C)), NEW x \in Seq(C), NEW sep \in C
    PROVE  /\ Glued(o, sep) \in Seq(C)
           /\ Join(Append(o, x), sep) = Glued(o, sep) \o x
           /\ Glued(Append(o, x), sep) = Append(Join(Append(o, x), sep), sep)
<1> DEFINE all      == Append(o, x)
           pairs(s) == [i \in 1 .. Len(s) |-> Append(s[i], sep)]
<1>1. /\ all \in Seq(Seq(C)) /\ all # <<>> /\ Len(all) = Len(o) + 1 /\ Len(o) \in Nat
      /\ all[Len(o) + 1] = x /\ \A i \in 1 .. Len(o) : all[i] = o[i]
  BY AppendProperties, LenProperties
<1>2. ASSUME NEW s \in Seq(Seq(C)) PROVE pairs(s) \in Seq(Seq(C)) /\ Len(pairs(s)) = Len(s)
  <2>1. \A i \in 1 .. Len(s) : Append(s[i], sep) \in Seq(C)
    BY ElementOfSeq, AppendProperties
  <2>2. Len(s) \in Nat
    BY LenProperties
  <2> QED  BY <2>1, <2>2
<1> HIDE DEF all
<1>3. pairs(all) = Append(pairs(o), Append(x, sep))
  <2> DEFINE both == Append(pairs(o), Append(x, sep))
  <2>1. pairs(o) \in Seq(Seq(C)) /\ Len(pairs(o)) = Len(o) /\ Append(x, sep) \in Seq(C)
    BY <1>2, AppendProperties
  <2>2. /\ both \in Seq(Seq(C)) /\ Len(both) = Len(o) + 1
        /\ both[Len(o) + 1] = Append(x, sep)
        /\ \A i \in 1 .. Len(o) : both[i] = pairs(o)[i]
    <3> HIDE DEF pairs
    <3> QED  BY <2>1, AppendProperties
  <2>3. pairs(all) \in Seq(Seq(C)) /\ Len(pairs(all)) = Len(o) + 1
    BY <1>1, <1>2
  <2>4. ASSUME NEW i \in 1 .. (Len(o) + 1) PROVE pairs(all)[i] = both[i]
    <3>0. pairs(all)[i] = Append(all[i], sep)
      BY <1>1
    <3>1. CASE i \in 1 .. Len(o)
      <4>1. pairs(o)[i] = Append(o[i], sep)
        BY <3>1
      <4> HIDE DEF pairs, both
      <4> QED  BY <1>1, <2>2, <3>0, <3>1, <4>1
    <3>2. CASE i = Len(o) + 1
      <4> HIDE DEF pairs, both
      <4> QED  BY <1>1, <2>2, <3>0, <3>2
    <3> QED  BY <1>1, <3>1, <3>2
  <2> HIDE DEF both, pairs
  <2>5. pairs(all) = both
    BY <2>2, <2>3, <2>4, SeqEqual
  <2> QED  BY <2>5 DEF both
<1>4. Glued(o, sep) = FlattenSeq(pairs(o)) /\ Glued(all, sep) = FlattenSeq(pairs(all))
  BY DEF Glued
<1>5. Join(all, sep) = FlattenSeq(pairs(o)) \o x
  <2>1. Len(all) - 1 = Len(o) /\ Last(all) = x
    BY <1>1 DEF Last
  <2>2. [i \in 1 .. (Len(all) - 1) |-> Append(all[i], sep)] = pairs(o)
    BY <1>1, <2>1
  <2> QED  BY <1>1, <2>1, <2>2 DEF Join
<1>6. pairs(o) \in Seq(Seq(C)) /\ Append(x, sep) \in Seq(C)
  BY <1>2, AppendProperties
<1> HIDE DEF pairs
<1>7. /\ FlattenSeq(pairs(o)) \in Seq(C)
       /\ FlattenSeq(Append(pairs(o), Append(x, sep))) = FlattenSeq(pairs(o)) \o Append(x, sep)
  BY <1>6, FlattenSeqAppend
<1>8. FlattenSeq(pairs(o)) \o Append(x, sep) = Append(FlattenSeq(pairs(o)) \o x, sep)
  BY <1>7, ConcatAppend
<1> QED  BY <1>3, <1>4, <1>5, <1>7, <1>8 DEF all

LEMMA JoinAppend ==
    ASSUME NEW C, NEW o \in Seq(Seq(C)), NEW x \in Seq(C), NEW sep \in C
    PROVE  Glued(o, sep) \in Seq(C) /\ Join(Append(o, x), sep) = Glued(o, sep) \o x
BY JoinedAndGlued

LEMMA GluedAppend ==
    ASSUME NEW C, NEW o \in Seq(Seq(C)), NEW x \in Seq(C), NEW sep \in C
    PROVE  Glued(Append(o, x), sep) = Append(Join(Append(o, x), sep), sep)
BY JoinedAndGlued

LEMMA CutFields ==
    ASSUME NEW C, NEW s \in Cutting(C), NEW c \in C, NEW sep
    PROVE  /\ s.output \in Seq(Seq(C)) /\ s.chunk \in Seq(C)
           /\ s = [output |-> s.output, chunk |-> s.chunk]
           /\ c # sep => Cut(s, c, sep) = [output |-> s.output, chunk |-> Append(s.chunk, c)]
           /\ c = sep /\ s.chunk # <<>> =>
                 Cut(s, c, sep) = [output |-> Append(s.output, s.chunk), chunk |-> <<>>]
           /\ c = sep /\ s.chunk = <<>> => Cut(s, c, sep) = s
<1>1. s.output \in Seq(Seq(C)) /\ s.chunk \in Seq(C)
      /\ s = [output |-> s.output, chunk |-> s.chunk]
  BY DEF Cutting
<1>2. [s EXCEPT !.chunk = Append(@, c)] = [output |-> s.output, chunk |-> Append(s.chunk, c)]
  <2>1. ASSUME NEW r, NEW o, NEW k, r = [output |-> o, chunk |-> k]
        PROVE  [r EXCEPT !.chunk = Append(@, c)] = [output |-> o, chunk |-> Append(k, c)]
    BY <2>1
  <2> QED  BY <1>1, <2>1
<1> QED  BY <1>1, <1>2 DEF Cut, Flushed

\* A chunk is open exactly behind an item that is no separator.
LEMMA ChunkIsOpen ==
    ASSUME NEW C, NEW t \in Seq(C), NEW sep \in C
    PROVE  Cuts(t, sep).chunk # <<>> <=> t # <<>> /\ t[Len(t)] # sep
<1>1. CASE t = <<>>
  BY <1>1, CutsEmpty DEF NoCuts
<1>2. CASE t # <<>>
  <2>1. PICK u \in Seq(C), c \in C : t = Append(u, c)
    BY <1>2, SequenceEmptyOrAppend
  <2>2. Len(t) = Len(u) + 1 /\ t[Len(u) + 1] = c
    BY <2>1, AppendProperties
  <2>3. Cuts(u, sep) \in Cutting(C) /\ Cuts(t, sep) = Cut(Cuts(u, sep), c, sep)
    BY <2>1, CutsAppend
  <2>4. CASE c = sep
    <3>1. Cuts(t, sep).chunk = <<>>
      BY <2>3, <2>4, CutFields
    <3> QED  BY <2>2, <2>4, <3>1
  <2>5. CASE c # sep
    <3>1. Cuts(t, sep).chunk = Append(Cuts(u, sep).chunk, c) /\ Cuts(u, sep).chunk \in Seq(C)
      BY <2>3, <2>5, CutFields
    <3>2. Cuts(t, sep).chunk # <<>>
      BY <3>1, AppendProperties
    <3> QED  BY <1>2, <2>2, <2>5, <3>2
  <2> QED  BY <2>4, <2>5
<1> QED  BY <1>1, <1>2

\* Nothing but separators is lost, and no chunk is empty.
LEMMA CutsKeepItems ==
    ASSUME NEW C, NEW sep \in C
    PROVE  \A t \in Seq(C) :
              /\ Cuts(t, sep).output \in Seq(Seq(C) \ {<<>>})
              /\ FlattenSeq(Cuts(t, sep).output) \o Cuts(t, sep).chunk = Others(t, sep)
<1> DEFINE Kept(t) == /\ Cuts(t, sep).output \in Seq(Seq(C) \ {<<>>})
                      /\ FlattenSeq(Cuts(t, sep).output) \o Cuts(t, sep).chunk = Others(t, sep)
           G       == {t \in Seq(C) : Kept(t)}
<1>1. <<>> \in G
  <2>1. /\ <<>> \in Seq(C) /\ <<>> \in Seq(Seq(C) \ {<<>>}) /\ FlattenSeq(<<>>) = <<>>
        /\ <<>> \o <<>> = <<>>
    BY EmptySeq, ConcatEmptySeq DEF FlattenSeq
  <2>2. Cuts(<<>>, sep) = NoCuts /\ Others(<<>>, sep) = <<>>
    BY CutsEmpty, OthersEmpty
  <2>3. Cuts(<<>>, sep).output = <<>> /\ Cuts(<<>>, sep).chunk = <<>>
    BY <2>2 DEF NoCuts
  <2>4. Kept(<<>>)
    BY <2>1, <2>2, <2>3
  <2> QED  BY <2>1, <2>4
<1>2. ASSUME NEW t \in Seq(C), NEW c \in C, t \in G PROVE Append(t, c) \in G
  <2> DEFINE s    == Cuts(t, sep)
             next == Cuts(Append(t, c), sep)
             rest == Others(t, sep)
  <2>1. s \in Cutting(C) /\ next = Cut(s, c, sep)
    BY CutsAppend
  <2>2. rest \in Seq(C) /\ Others(Append(t, c), sep) = IF c = sep THEN rest ELSE Append(rest, c)
    BY OthersAppend
  <2>3. s.output \in Seq(Seq(C) \ {<<>>}) /\ FlattenSeq(s.output) \o s.chunk = rest
    BY <1>2
  <2>4. Append(t, c) \in Seq(C)
    BY AppendProperties
  <2> SUFFICES Kept(Append(t, c))
    BY <2>4
  <2> HIDE DEF s, next, rest
  <2>5. s.output \in Seq(Seq(C)) /\ s.chunk \in Seq(C)
    BY <2>1, CutFields
  <2>6. FlattenSeq(s.output) \in Seq(C)
        /\ FlattenSeq(Append(s.output, s.chunk)) = FlattenSeq(s.output) \o s.chunk
    BY <2>5, FlattenSeqAppend
  <2>7. CASE c # sep
    <3>1. next.output = s.output /\ next.chunk = Append(s.chunk, c)
      BY <2>1, <2>7, CutFields
    <3>2. FlattenSeq(s.output) \o Append(s.chunk, c) = Append(rest, c)
      <4> DEFINE flat == FlattenSeq(s.output)
                 k    == s.chunk
      <4>1. flat \in Seq(C) /\ k \in Seq(C) /\ flat \o k = rest
        BY <2>3, <2>5, <2>6
      <4> HIDE DEF flat, k
      <4>2. flat \o Append(k, c) = Append(flat \o k, c)
        BY <4>1, ConcatAppend
      <4>3. flat \o Append(k, c) = Append(rest, c)
        BY <4>1, <4>2
      <4> QED  BY <4>3 DEF flat, k
    <3> QED  BY <2>2, <2>3, <2>7, <3>1, <3>2 DEF next, rest
  <2>8. CASE c = sep /\ s.chunk # <<>>
    <3>1. next.output = Append(s.output, s.chunk) /\ next.chunk = <<>>
      BY <2>1, <2>8, CutFields
    <3>2. s.chunk \in Seq(C) \ {<<>>}
      BY <2>5, <2>8
    <3>3. Append(s.output, s.chunk) \in Seq(Seq(C) \ {<<>>})
      BY <2>3, <3>2, AppendProperties
    <3>4. rest \o <<>> = rest
      BY <2>2, ConcatEmptySeq
    <3> QED  BY <2>2, <2>3, <2>6, <2>8, <3>1, <3>3, <3>4 DEF next, rest
  <2>9. CASE c = sep /\ s.chunk = <<>>
    <3>1. next = s
      BY <2>1, <2>9, CutFields
    <3> QED  BY <2>2, <2>3, <2>9, <3>1 DEF next, rest
  <2> QED  BY <2>7, <2>8, <2>9
<1>3. \A t \in Seq(C) : t \in G
  <2> HIDE DEF G
  <2> QED  BY <1>1, <1>2, SequenceInduction
<1> QED  BY <1>3

\* Where chunks begin.
Starts(t, sep) ==
    {i \in DOMAIN t \ Separated(t, sep) : i = 1 \/ i - 1 \in Separated(t, sep)}

LEMMA SeparatedAppend ==
    ASSUME NEW C, NEW t \in Seq(C), NEW c \in C, NEW sep \in C
    PROVE  /\ Len(t) \in Nat /\ DOMAIN t = 1 .. Len(t)
           /\ DOMAIN Append(t, c) = 1 .. (Len(t) + 1)
           /\ Separated(t, sep) \subseteq 1 .. Len(t)
           /\ Separated(Append(t, c), sep) =
                 Separated(t, sep) \cup (IF c = sep THEN {Len(t) + 1} ELSE {})
           /\ t = <<>> <=> Len(t) = 0
           /\ t # <<>> => (Len(t) \in Separated(t, sep) <=> t[Len(t)] = sep)
<1> DEFINE u == Append(t, c)
           n == Len(t)
<1>1. n \in Nat /\ DOMAIN t = 1 .. n
  BY LenProperties
<1>2. /\ u \in Seq(C) /\ Len(u) = n + 1 /\ u[n + 1] = c /\ \A i \in 1 .. n : u[i] = t[i]
  BY AppendProperties
<1>3. DOMAIN u = 1 .. (n + 1)
  BY <1>2, LenProperties
<1>4. t = <<>> <=> n = 0
  BY EmptySeq
<1> HIDE DEF u, n
<1>5. Separated(t, sep) = {i \in 1 .. n : t[i] = sep}
  BY <1>1 DEF Separated
<1>6. Separated(u, sep) = {i \in 1 .. (n + 1) : u[i] = sep}
  BY <1>3 DEF Separated
<1>7. 1 .. (n + 1) = (1 .. n) \cup {n + 1}
  BY <1>1
<1>8. Separated(u, sep) = Separated(t, sep) \cup (IF c = sep THEN {n + 1} ELSE {})
  BY <1>2, <1>5, <1>6, <1>7
<1>9. t # <<>> => (n \in Separated(t, sep) <=> t[n] = sep)
  BY <1>1, <1>4, <1>5
<1> QED  BY <1>1, <1>3, <1>4, <1>5, <1>8, <1>9 DEF u, n

LEMMA StartsAppend ==
    ASSUME NEW C, NEW t \in Seq(C), NEW c \in C, NEW sep \in C
    PROVE  /\ Starts(t, sep) \subseteq 1 .. Len(t)
           /\ Starts(Append(t, c), sep) =
                 IF c # sep /\ Cuts(t, sep).chunk = <<>> THEN Starts(t, sep) \cup {Len(t) + 1}
                 ELSE Starts(t, sep)
<1> DEFINE u == Append(t, c)
           n == Len(t)
           S == Separated(t, sep)
           R == Separated(u, sep)
<1>1. /\ n \in Nat /\ DOMAIN t = 1 .. n /\ DOMAIN u = 1 .. (n + 1) /\ S \subseteq 1 .. n
      /\ R = S \cup (IF c = sep THEN {n + 1} ELSE {})
      /\ t = <<>> <=> n = 0
      /\ t # <<>> => (n \in S <=> t[n] = sep)
  BY SeparatedAppend
<1>2. Cuts(t, sep).chunk = <<>> <=> n = 0 \/ n \in S
  BY <1>1, ChunkIsOpen
<1> HIDE DEF u, n, S, R
<1>3. Starts(t, sep) = {i \in (1 .. n) \ S : i = 1 \/ i - 1 \in S}
  BY <1>1 DEF Starts, S
<1>4. Starts(u, sep) = {i \in (1 .. (n + 1)) \ R : i = 1 \/ i - 1 \in R}
  BY <1>1 DEF Starts, R
<1>5. \A i \in 1 .. n : i \in 1 .. (n + 1) /\ i # n + 1 /\ i - 1 # n + 1
  BY <1>1
<1>6. \A i \in 1 .. n : i \in Starts(u, sep) <=> i \in Starts(t, sep)
  BY <1>1, <1>3, <1>4, <1>5
<1>7. n + 1 \in Starts(u, sep) <=> c # sep /\ (n = 0 \/ n \in S)
  <2>1. n + 1 \in 1 .. (n + 1) /\ n + 1 \notin S /\ (n + 1) - 1 = n /\ n # n + 1 /\ (n + 1 = 1 <=> n = 0)
    BY <1>1
  <2> QED  BY <1>1, <1>4, <2>1
<1>8. \A i \in Starts(u, sep) : i \in 1 .. n \/ i = n + 1
  BY <1>1, <1>4
<1>9. Starts(t, sep) \subseteq 1 .. n /\ n + 1 \notin Starts(t, sep)
  BY <1>1, <1>3
<1>10. CASE c # sep /\ (n = 0 \/ n \in S)
  <2>1. Starts(u, sep) = Starts(t, sep) \cup {n + 1}
    BY <1>6, <1>7, <1>8, <1>9, <1>10
  <2> QED  BY <1>2, <1>9, <1>10, <2>1 DEF u, n
<1>11. CASE ~ (c # sep /\ (n = 0 \/ n \in S))
  <2>1. n + 1 \notin Starts(u, sep)
    BY <1>7, <1>11
  <2>2. Starts(u, sep) = Starts(t, sep)
    BY <1>6, <1>8, <1>9, <2>1
  <2> QED  BY <1>2, <1>9, <1>11, <2>2 DEF u, n
<1> QED  BY <1>10, <1>11

\* As many chunks are cut, the open one included, as have begun.
LEMMA CutsCountStarts ==
    ASSUME NEW C, NEW sep \in C
    PROVE  \A t \in Seq(C) :
              Len(Cuts(t, sep).output) + (IF Cuts(t, sep).chunk = <<>> THEN 0 ELSE 1)
                 = Cardinality(Starts(t, sep))
<1> DEFINE Number(s)  == Len(s.output) + (IF s.chunk = <<>> THEN 0 ELSE 1)
           Counted(t) == IsFiniteSet(Starts(t, sep)) /\ Number(Cuts(t, sep)) = Cardinality(Starts(t, sep))
           G          == {t \in Seq(C) : Counted(t)}
<1>1. <<>> \in G
  <2>1. <<>> \in Seq(C) /\ Len(<<>>) = 0
    BY EmptySeq
  <2>2. Starts(<<>>, sep) = {}
    BY <2>1, SMT DEF Starts
  <2>3. Cuts(<<>>, sep).output = <<>> /\ Cuts(<<>>, sep).chunk = <<>>
    BY CutsEmpty DEF NoCuts
  <2>4. Counted(<<>>)
    BY <2>1, <2>2, <2>3, FS_EmptySet
  <2> QED  BY <2>1, <2>4
<1>2. ASSUME NEW t \in Seq(C), NEW c \in C, t \in G PROVE Append(t, c) \in G
  <2> DEFINE s    == Cuts(t, sep)
             next == Cuts(Append(t, c), sep)
             old  == Starts(t, sep)
             new  == Starts(Append(t, c), sep)
             n    == Len(t)
  <2>1. s \in Cutting(C) /\ next = Cut(s, c, sep)
    BY CutsAppend
  <2>2. /\ n + 1 \notin old
        /\ new = IF c # sep /\ s.chunk = <<>> THEN old \cup {n + 1} ELSE old
    <3>1. n \in Nat /\ n + 1 \notin 1 .. n
      BY LenProperties
    <3> QED  BY <3>1, StartsAppend
  <2>3. IsFiniteSet(old) /\ Number(s) = Cardinality(old)
    BY <1>2
  <2>4. Append(t, c) \in Seq(C)
    BY AppendProperties
  <2> SUFFICES Counted(Append(t, c))
    BY <2>4
  <2> HIDE DEF s, next, old, new, n
  <2>5. s.output \in Seq(Seq(C)) /\ s.chunk \in Seq(C) /\ Len(s.output) \in Nat
    BY <2>1, CutFields, LenProperties
  <2>6. IsFiniteSet(new) /\ Number(next) = Cardinality(new)
    <3>1. CASE c # sep
      <4>1. next.output = s.output /\ next.chunk = Append(s.chunk, c) /\ next.chunk # <<>>
        BY <2>1, <2>5, <3>1, CutFields, AppendProperties
      <4>2. CASE s.chunk = <<>>
        <5>1. IsFiniteSet(new) /\ Cardinality(new) = Cardinality(old) + 1
          BY <2>2, <2>3, <3>1, <4>2, FS_AddElement
        <5> QED  BY <2>3, <2>5, <4>1, <4>2, <5>1
      <4>3. CASE s.chunk # <<>>
        BY <2>2, <2>3, <4>1, <4>3
      <4> QED  BY <4>2, <4>3
    <3>2. CASE c = sep /\ s.chunk # <<>>
      <4>1. next.output = Append(s.output, s.chunk) /\ next.chunk = <<>>
        BY <2>1, <3>2, CutFields
      <4>2. Len(next.output) = Len(s.output) + 1
        BY <2>5, <4>1, AppendProperties
      <4> QED  BY <2>2, <2>3, <2>5, <3>2, <4>1, <4>2
    <3>3. CASE c = sep /\ s.chunk = <<>>
      <4>1. next = s /\ new = old
        BY <2>1, <2>2, <3>3, CutFields
      <4> QED  BY <2>3, <4>1
    <3> QED  BY <3>1, <3>2, <3>3
  <2> QED  BY <2>6 DEF next, new
<1>3. \A t \in Seq(C) : t \in G
  <2> HIDE DEF G
  <2> QED  BY <1>1, <1>2, SequenceInduction
<1> QED  BY <1>3

\* No separator stands first or behind another.
Apart(t, sep) == \A i \in Separated(t, sep) : i # 1 /\ i - 1 \notin Separated(t, sep)

\* The chunks cut so far, and the open one, put back together.
CutText(t, sep) == Glued(Cuts(t, sep).output, sep) \o Cuts(t, sep).chunk

\* That is the items without the separators that cut nothing, and it is cut as
\* they are.
LEMMA TextIsCutAlike ==
    ASSUME NEW C, NEW sep \in C
    PROVE  \A t \in Seq(C) :
              /\ CutText(t, sep) \in Seq(C)
              /\ Cuts(CutText(t, sep), sep) = Cuts(t, sep)
              /\ Len(CutText(t, sep)) =< Len(t)
              /\ IF Apart(t, sep) THEN CutText(t, sep) = t ELSE Len(CutText(t, sep)) < Len(t)
<1> DEFINE Alike(t) == /\ CutText(t, sep) \in Seq(C)
                       /\ Cuts(CutText(t, sep), sep) = Cuts(t, sep)
                       /\ Len(CutText(t, sep)) =< Len(t)
                       /\ IF Apart(t, sep) THEN CutText(t, sep) = t
                          ELSE Len(CutText(t, sep)) < Len(t)
           G        == {t \in Seq(C) : Alike(t)}
<1>1. <<>> \in G
  <2>1. <<>> \in Seq(C) /\ Len(<<>>) = 0 /\ <<>> \o <<>> = <<>> /\ <<>> \in Seq(Seq(C))
    BY EmptySeq, ConcatEmptySeq
  <2>2. Cuts(<<>>, sep).output = <<>> /\ Cuts(<<>>, sep).chunk = <<>>
    BY CutsEmpty DEF NoCuts
  <2>3. Glued(<<>>, sep) = <<>>
    BY GluedEmpty
  <2>4. CutText(<<>>, sep) = <<>>
    BY <2>1, <2>2, <2>3 DEF CutText
  <2>5. Apart(<<>>, sep)
    <3>1. DOMAIN <<>> = {}
      BY SMT
    <3> QED  BY <3>1 DEF Apart, Separated
  <2>6. Alike(<<>>)
    <3>1. Len(CutText(<<>>, sep)) =< Len(<<>>)
      BY <2>1, <2>4
    <3>2. CutText(<<>>, sep) \in Seq(C) /\ Cuts(CutText(<<>>, sep), sep) = Cuts(<<>>, sep)
      BY <2>1, <2>4
    <3> QED  BY <2>4, <2>5, <3>1, <3>2
  <2> QED  BY <2>1, <2>6
<1>2. ASSUME NEW t \in Seq(C), NEW c \in C, t \in G PROVE Append(t, c) \in G
  <2> DEFINE s    == Cuts(t, sep)
             u    == Append(t, c)
             next == Cuts(u, sep)
             x    == CutText(t, sep)
             y    == CutText(u, sep)
             glue == Glued(s.output, sep)
  <2>1. s \in Cutting(C) /\ next = Cut(s, c, sep)
    BY CutsAppend
  <2>2. /\ x \in Seq(C) /\ Cuts(x, sep) = s /\ Len(x) =< Len(t)
        /\ IF Apart(t, sep) THEN x = t ELSE Len(x) < Len(t)
    BY <1>2
  <2>3. u \in Seq(C) /\ Len(u) = Len(t) + 1 /\ Len(t) \in Nat /\ Len(x) \in Nat
    BY <2>2, AppendProperties, LenProperties
  <2>4. Apart(u, sep) <=> Apart(t, sep) /\ (c = sep => s.chunk # <<>>)
    <3> DEFINE n == Len(t)
               S == Separated(t, sep)
               R == Separated(u, sep)
    <3>1. /\ n \in Nat /\ S \subseteq 1 .. n /\ R = S \cup (IF c = sep THEN {n + 1} ELSE {})
          /\ t = <<>> <=> n = 0
          /\ t # <<>> => (n \in S <=> t[n] = sep)
      BY SeparatedAppend
    <3>2. s.chunk # <<>> <=> n # 0 /\ n \notin S
      BY <3>1, ChunkIsOpen
    <3> HIDE DEF n, S, R, s, u
    <3>3. \A i \in S : i # n + 1 /\ i - 1 # n + 1
      BY <3>1
    <3>4. (n + 1 # 1 <=> n # 0) /\ (n + 1) - 1 = n /\ n # n + 1
      BY <3>1
    <3>5. (\A i \in R : i # 1 /\ i - 1 \notin R) <=>
             (\A i \in S : i # 1 /\ i - 1 \notin S) /\ (c = sep => n # 0 /\ n \notin S)
      BY <3>1, <3>3, <3>4
    <3> QED  BY <3>2, <3>5 DEF Apart, R, S
  <2>5. /\ s.output \in Seq(Seq(C)) /\ s.chunk \in Seq(C) /\ glue \in Seq(C)
        /\ x = glue \o s.chunk
    BY <2>1, CutFields, JoinAppend DEF CutText
  <2>6. y = Glued(next.output, sep) \o next.chunk
    BY DEF CutText
  <2> SUFFICES Alike(u)
    BY <2>3
  <2> HIDE DEF s, u, next, x, y, glue
  <2>7. ASSUME y = Append(x, c), c = sep => s.chunk # <<>> PROVE Alike(u)
    <3>1. y \in Seq(C) /\ Len(y) = Len(x) + 1
      BY <2>2, <2>7, AppendProperties
    <3>2. Cuts(y, sep) = next
      BY <2>1, <2>2, <2>7, CutsAppend
    <3>3. IF Apart(u, sep) THEN y = u ELSE Len(y) < Len(u)
      BY <2>2, <2>3, <2>4, <2>7, <3>1 DEF u
    <3>4. Len(y) =< Len(u)
      BY <2>2, <2>3, <3>1
    <3> QED  BY <3>1, <3>2, <3>3, <3>4 DEF y, next
  <2>8. CASE c # sep
    <3>1. next.output = s.output /\ next.chunk = Append(s.chunk, c)
      BY <2>1, <2>8, CutFields
    <3>2. glue \o Append(s.chunk, c) = Append(glue \o s.chunk, c)
      BY <2>5, ConcatAppend
    <3>3. y = Append(x, c)
      BY <2>5, <2>6, <3>1, <3>2 DEF glue
    <3> QED  BY <2>7, <2>8, <3>3
  <2>9. CASE c = sep /\ s.chunk # <<>>
    <3>1. next.output = Append(s.output, s.chunk) /\ next.chunk = <<>>
      BY <2>1, <2>9, CutFields
    <3>2. Join(Append(s.output, s.chunk), sep) = x
      BY <2>5, JoinAppend DEF glue
    <3>3. Glued(Append(s.output, s.chunk), sep) = Append(Join(Append(s.output, s.chunk), sep), sep)
      <4> DEFINE o == s.output
                 k == s.chunk
      <4>1. o \in Seq(Seq(C)) /\ k \in Seq(C)
        BY <2>5
      <4> HIDE DEF o, k
      <4>2. Glued(Append(o, k), sep) = Append(Join(Append(o, k), sep), sep)
        BY <4>1, GluedAppend
      <4> QED  BY <4>2 DEF o, k
    <3>4. Append(x, sep) \in Seq(C)
      BY <2>2, AppendProperties
    <3>5. Append(x, sep) \o <<>> = Append(x, sep)
      BY <3>4, ConcatEmptySeq
    <3>6. y = Append(x, c)
      BY <2>6, <2>9, <3>1, <3>2, <3>3, <3>5
    <3> QED  BY <2>7, <2>9, <3>6
  <2>10. CASE c = sep /\ s.chunk = <<>>
    <3>1. next = s
      BY <2>1, <2>10, CutFields
    <3>2. y = x
      BY <2>5, <2>6, <3>1 DEF glue
    <3>3. ~ Apart(u, sep) /\ Len(y) < Len(u) /\ Len(y) =< Len(u)
      BY <2>2, <2>3, <2>4, <2>10, <3>2
    <3> QED  BY <2>2, <3>1, <3>2, <3>3 DEF y, next
  <2> QED  BY <2>8, <2>9, <2>10
<1>3. \A t \in Seq(C) : t \in G
  <2> HIDE DEF G
  <2> QED  BY <1>1, <1>2, SequenceInduction
<1> QED  BY <1>3

\* split drops separators, leaves no chunk empty, and cuts where one stood.
LEMMA SplitDrops ==
    ASSUME NEW C, NEW items \in Seq(C), NEW sep \in C
    PROVE  SplitDropsSeparators(items, sep)
<1> DEFINE s      == Cuts(items, sep)
           chunks == Split(items, sep)
           rest   == Others(items, sep)
           number == Cardinality(Starts(items, sep))
<1>1. chunks = Flushed(s.output, s.chunk)
  BY DEF Split
<1>2. /\ s \in Cutting(C) /\ rest \in Seq(C)
      /\ s.output \in Seq(Seq(C) \ {<<>>}) /\ FlattenSeq(s.output) \o s.chunk = rest
      /\ Len(s.output) + (IF s.chunk = <<>> THEN 0 ELSE 1) = number
  BY CutsAppend, OthersAppend, CutsKeepItems, CutsCountStarts
<1>3. s.output \in Seq(Seq(C)) /\ s.chunk \in Seq(C) /\ Len(s.output) \in Nat
  BY <1>2, CutFields, LenProperties
<1>4. /\ FlattenSeq(s.output) \in Seq(C)
      /\ FlattenSeq(Append(s.output, s.chunk)) = FlattenSeq(s.output) \o s.chunk
  BY <1>3, FlattenSeqAppend
<1> HIDE DEF s, chunks, rest, number
<1>5. FlattenSeq(chunks) = rest /\ chunks \in Seq(Seq(C) \ {<<>>}) /\ Len(chunks) = number
  <2>1. CASE s.chunk = <<>>
    <3>1. chunks = s.output
      BY <1>1, <2>1 DEF Flushed
    <3>2. FlattenSeq(s.output) \o <<>> = FlattenSeq(s.output)
      BY <1>4, ConcatEmptySeq
    <3> QED  BY <1>2, <1>3, <2>1, <3>1, <3>2
  <2>2. CASE s.chunk # <<>>
    <3>1. chunks = Append(s.output, s.chunk)
      BY <1>1, <2>2 DEF Flushed
    <3>2. s.chunk \in Seq(C) \ {<<>>}
      BY <1>3, <2>2
    <3>3. chunks \in Seq(Seq(C) \ {<<>>}) /\ Len(chunks) = Len(s.output) + 1
      BY <1>2, <3>1, <3>2, AppendProperties
    <3> QED  BY <1>2, <1>4, <2>2, <3>1, <3>3
  <2> QED  BY <2>1, <2>2
<1>6. \A i \in DOMAIN chunks : chunks[i] # <<>>
  <2>1. DOMAIN chunks = 1 .. Len(chunks) /\ \A i \in 1 .. Len(chunks) : chunks[i] \in Seq(C) \ {<<>>}
    BY <1>5, LenProperties, ElementOfSeq
  <2> QED  BY <2>1
<1> QED  BY <1>5, <1>6 DEF SplitDropsSeparators, chunks, rest, number, Starts

\* split undoes join, and join undoes split where the separators are apart and
\* none stands last.
LEMMA JoinUndoes ==
    ASSUME NEW C, NEW items \in Seq(C), NEW sep \in C
    PROVE  JoinUndoesSplit(items, sep)
<1> DEFINE s      == Cuts(items, sep)
           chunks == Split(items, sep)
           joined == Join(chunks, sep)
           text   == CutText(items, sep)
           exact  == Apart(items, sep) /\ (items # <<>> => items[Len(items)] # sep)
<1>1. /\ s \in Cutting(C)
      /\ text \in Seq(C) /\ Cuts(text, sep) = s /\ Len(text) =< Len(items)
  BY CutsAppend, TextIsCutAlike
<1>2. (Apart(items, sep) => text = items) /\ (~ Apart(items, sep) => Len(text) < Len(items))
  BY TextIsCutAlike
<1>3. chunks = Flushed(s.output, s.chunk)
  BY DEF Split
<1>4. text = Glued(s.output, sep) \o s.chunk /\ Len(items) \in Nat /\ Len(text) \in Nat
  BY <1>1, LenProperties DEF CutText
<1>5. s.chunk # <<>> <=> items # <<>> /\ items[Len(items)] # sep
  BY ChunkIsOpen
<1>6. s.output \in Seq(Seq(C)) /\ s.chunk \in Seq(C)
  BY <1>1, CutFields
<1>7. Split(joined, sep) = Flushed(Cuts(joined, sep).output, Cuts(joined, sep).chunk)
  BY DEF Split
<1>8. items = <<>> => s.output = <<>>
  BY CutsEmpty DEF NoCuts
<1> HIDE DEF s, chunks, joined, text, exact
<1>9. Split(joined, sep) = chunks /\ (joined = items <=> exact)
  <2>1. CASE s.chunk # <<>>
    <3>1. joined = text
      <4>1. chunks = Append(s.output, s.chunk)
        BY <1>3, <2>1 DEF Flushed
      <4>2. Join(Append(s.output, s.chunk), sep) = Glued(s.output, sep) \o s.chunk
        BY <1>6, JoinAppend
      <4> QED  BY <1>4, <4>1, <4>2 DEF joined
    <3>2. Split(joined, sep) = chunks
      BY <1>1, <1>7, <1>3, <3>1
    <3>3. joined = items <=> Apart(items, sep)
      <4>1. CASE Apart(items, sep)
        BY <1>2, <3>1, <4>1
      <4>2. CASE ~ Apart(items, sep)
        <5>1. Len(joined) < Len(items)
          BY <1>2, <3>1, <4>2
        <5>2. ~ (Len(items) < Len(items))
          BY <1>4
        <5>3. joined # items
          BY <5>1, <5>2, Zenon
        <5> QED  BY <4>2, <5>3
      <4> QED  BY <4>1, <4>2
    <3> QED  BY <1>5, <2>1, <3>2, <3>3 DEF exact
  <2>2. CASE s.chunk = <<>> /\ s.output = <<>>
    <3>1. chunks = <<>> /\ joined = <<>>
      BY <1>3, <2>2 DEF Flushed, joined, Join
    <3>2. Split(joined, sep) = chunks
      <4>1. Cuts(joined, sep).output = <<>> /\ Cuts(joined, sep).chunk = <<>>
        BY <3>1, CutsEmpty DEF NoCuts
      <4> QED  BY <1>7, <3>1, <4>1 DEF Flushed
    <3>3. CASE items = <<>>
      <4>1. DOMAIN <<>> = {}
        BY SMT
      <4>2. exact
        BY <3>3, <4>1 DEF exact, Apart, Separated
      <4> QED  BY <3>1, <3>2, <3>3, <4>2
    <3>4. CASE items # <<>>
      BY <1>5, <2>2, <3>1, <3>2, <3>4 DEF exact
    <3> QED  BY <3>3, <3>4
  <2>3. CASE s.chunk = <<>> /\ s.output # <<>>
    <3>1. PICK o \in Seq(Seq(C)), k \in Seq(C) : s.output = Append(o, k)
      BY <1>6, <2>3, SequenceEmptyOrAppend
    <3>2. chunks = s.output
      BY <1>3, <2>3 DEF Flushed
    <3> DEFINE glue == Glued(o, sep)
    <3>3. glue \in Seq(C) /\ joined = glue \o k /\ Glued(s.output, sep) = Append(joined, sep)
      <4>1. glue \in Seq(C) /\ Join(Append(o, k), sep) = glue \o k
        BY <3>1, JoinAppend
      <4>2. Glued(Append(o, k), sep) = Append(Join(Append(o, k), sep), sep)
        BY <3>1, GluedAppend
      <4> HIDE DEF glue
      <4> QED  BY <3>1, <3>2, <4>1, <4>2 DEF joined
    <3> HIDE DEF glue
    <3>4. joined \in Seq(C)
      BY <3>1, <3>3, ConcatProperties
    <3>5. text = Append(joined, sep)
      <4>1. Append(joined, sep) \in Seq(C)
        BY <3>4, AppendProperties
      <4>2. Append(joined, sep) \o <<>> = Append(joined, sep)
        BY <4>1, ConcatEmptySeq
      <4> QED  BY <1>4, <2>3, <3>3, <4>2
    <3>6. Split(joined, sep) = chunks
      <4>1. s = Cut(Cuts(joined, sep), sep, sep)
        BY <1>1, <3>4, <3>5, CutsAppend
      <4>2. s.output = Flushed(Cuts(joined, sep).output, Cuts(joined, sep).chunk)
        BY <4>1 DEF Cut
      <4> QED  BY <1>7, <3>1, <3>2, <4>2
    <3>7. joined # items
      <4>1. Len(text) = Len(joined) + 1 /\ Len(joined) \in Nat
        BY <3>4, <3>5, AppendProperties, LenProperties
      <4> QED  BY <1>1, <1>4, <4>1
    <3>8. ~ exact
      BY <1>5, <1>8, <2>3 DEF exact
    <3> QED  BY <3>6, <3>7, <3>8
  <2> QED  BY <2>1, <2>2, <2>3
<1>10. exact <=> \A i \in Separated(items, sep) :
                   i # 1 /\ i # Len(items) /\ i - 1 \notin Separated(items, sep)
  <2>1. /\ Separated(items, sep) \subseteq 1 .. Len(items)
        /\ items = <<>> <=> Len(items) = 0
        /\ items # <<>> => (Len(items) \in Separated(items, sep) <=> items[Len(items)] = sep)
    BY SeparatedAppend
  <2> QED  BY <1>4, <2>1 DEF exact, Apart
<1> QED  BY <1>9, <1>10 DEF JoinUndoesSplit, chunks, joined

-----------------------------------------------------------------------------
(* Traversals of a tree: the subtree of a node is the nodes its path begins. *)

Paths == Seq(Nat \ {0})

\* A prefix, item by item.
LEMMA PrefixIs ==
    ASSUME NEW p \in Paths, NEW q \in Paths
    PROVE  IsPrefix(p, q) <=> Len(p) =< Len(q) /\ \A k \in 1 .. Len(p) : p[k] = q[k]
<1> SUFFICES ASSUME Len(p) =< Len(q)
             PROVE  SubSeq(p, 1, Len(p)) = SubSeq(q, 1, Len(p))
                        <=> \A k \in 1 .. Len(p) : p[k] = q[k]
  BY DEF IsPrefix
<1>1. Len(p) \in Nat /\ Len(q) \in Nat
  BY DEF Paths
<1>2. SubSeq(p, 1, Len(p)) = p
  BY SubSeqFull DEF Paths
<1> DEFINE s == SubSeq(q, 1, Len(p))
<1>3. s \in Paths /\ Len(s) = Len(p) /\ \A k \in 1 .. Len(p) : s[k] = q[k]
  BY <1>1, SubSeqProperties DEF Paths
<1> HIDE DEF s
<1>4. p = s <=> \A k \in 1 .. Len(p) : p[k] = s[k]
  BY <1>3, SeqEqual DEF Paths
<1> QED  BY <1>2, <1>3, <1>4 DEF s

\* A path and one more step.
LEMMA PathAppended ==
    ASSUME NEW p \in Paths, NEW i \in Nat \ {0}
    PROVE  /\ Append(p, i) \in Paths /\ Append(p, i) # Root
           /\ Len(Append(p, i)) = Len(p) + 1 /\ Len(p) \in Nat
           /\ Front(Append(p, i)) = p /\ Last(Append(p, i)) = i
           /\ Append(p, i)[Len(p) + 1] = i /\ \A k \in 1 .. Len(p) : Append(p, i)[k] = p[k]
<1> DEFINE q == Append(p, i)
<1>1. /\ q \in Paths /\ q # <<>> /\ Len(q) = Len(p) + 1 /\ Len(p) \in Nat
      /\ q[Len(p) + 1] = i /\ \A k \in 1 .. Len(p) : q[k] = p[k]
  BY AppendProperties DEF Paths
<1> HIDE DEF q
<1> DEFINE s == SubSeq(q, 1, Len(p))
<1>2. s \in Paths /\ Len(s) = Len(p) /\ \A k \in 1 .. Len(p) : s[k] = q[k]
  BY <1>1, SubSeqProperties DEF Paths
<1> HIDE DEF s
<1>3. s = p
  BY <1>1, <1>2, SeqEqual DEF Paths
<1>4. Front(q) = p /\ Last(q) = i
  <2>1. Len(q) - 1 = Len(p)
    BY <1>1
  <2> QED  BY <1>1, <1>3, <2>1 DEF Front, Last, s
<1> QED  BY <1>1, <1>4 DEF q, Root

\* Every path but the root has a last step.
LEMMA PathSplit ==
    ASSUME NEW p \in Paths, p # Root
    PROVE  Front(p) \in Paths /\ Last(p) \in Nat \ {0} /\ p = Append(Front(p), Last(p))
<1>1. PICK q \in Paths, i \in Nat \ {0} : p = Append(q, i)
  BY SequenceEmptyOrAppend DEF Paths, Root
<1>2. Front(Append(q, i)) = q /\ Last(Append(q, i)) = i
  BY PathAppended
<1> QED  BY <1>1, <1>2

\* With a node, a tree has its parent and elder siblings,
LEMMA TreeIsClosed ==
    ASSUME NEW tree \in SUBSET Paths, IsTree(tree),
           NEW n \in Paths, NEW i \in Nat \ {0}, Append(n, i) \in tree
    PROVE  n \in tree /\ (i > 1 => Append(n, i - 1) \in tree)
<1> DEFINE p == Append(n, i)
<1>1. p # Root /\ Front(p) = n /\ Last(p) = i
  BY PathAppended
<1>2. p \in tree
  OBVIOUS
<1> HIDE DEF p
<1> QED  BY <1>1, <1>2 DEF IsTree

\* and so all its ancestors.
LEMMA AncestorsAreNodes ==
    ASSUME NEW tree \in SUBSET Paths, IsTree(tree), NEW n \in tree, NEW k \in 0 .. Len(n)
    PROVE  SubSeq(n, 1, k) \in tree
<1> DEFINE G == {p \in Paths : p \in tree => \A j \in 0 .. Len(p) : SubSeq(p, 1, j) \in tree}
<1>1. <<>> \in G
  <2>1. <<>> \in Paths /\ \A j \in 0 .. Len(<<>>) : SubSeq(<<>>, 1, j) = <<>>
    BY DEF Paths
  <2> QED  BY <2>1
<1>2. ASSUME NEW p \in Seq(Nat \ {0}), NEW i \in Nat \ {0}, p \in G PROVE Append(p, i) \in G
  <2> DEFINE q == Append(p, i)
  <2>0. p \in Paths
    BY DEF Paths
  <2>1. /\ q \in Paths /\ Len(q) = Len(p) + 1 /\ Len(p) \in Nat
        /\ \A j \in 1 .. Len(p) : q[j] = p[j]
    BY <2>0, PathAppended
  <2>2. q \in tree => p \in tree
    BY <2>0, TreeIsClosed
  <2> HIDE DEF q
  <2>3. ASSUME q \in tree, NEW j \in 0 .. Len(q) PROVE SubSeq(q, 1, j) \in tree
    <3>1. CASE j = Len(q)
      BY <2>1, <2>3, <3>1, SubSeqFull DEF Paths
    <3>2. CASE j # Len(q)
      <4>1. j \in 0 .. Len(p)
        BY <2>1, <3>2
      <4>2. SubSeq(p, 1, j) \in tree
        BY <1>2, <2>2, <2>3, <4>1
      <4>3. SubSeq(q, 1, j) = SubSeq(p, 1, j)
        <5> DEFINE s == SubSeq(q, 1, j)
                   r == SubSeq(p, 1, j)
        <5>1. s \in Paths /\ Len(s) = j /\ \A m \in 1 .. j : s[m] = q[m]
          BY <2>1, <4>1, SubSeqProperties DEF Paths
        <5>2. r \in Paths /\ Len(r) = j /\ \A m \in 1 .. j : r[m] = p[m]
          BY <2>0, <2>1, <4>1, SubSeqProperties DEF Paths
        <5> HIDE DEF s, r
        <5>3. \A m \in 1 .. j : s[m] = r[m]
          BY <2>1, <4>1, <5>1, <5>2
        <5>4. s = r
          BY <5>1, <5>2, <5>3, SeqEqual DEF Paths
        <5> QED  BY <5>4 DEF s, r
      <4> QED  BY <4>2, <4>3
    <3> QED  BY <3>1, <3>2
  <2>4. q \in G
    BY <2>1, <2>3
  <2> QED  BY <2>4 DEF q
<1> HIDE DEF G
<1>3. \A p \in Seq(Nat \ {0}) : p \in G
  BY <1>1, <1>2, SequenceInduction
<1> QED  BY <1>3 DEF G, Paths

\* The children of a node are numbered from 1 to their count.
LEMMA ChildrenAre ==
    ASSUME NEW tree \in SUBSET Paths, IsTree(tree), NEW n \in tree
    PROVE  /\ ChildrenCount(tree, n) \in Nat
           /\ \A i \in Nat \ {0} : Append(n, i) \in tree <=> i =< ChildrenCount(tree, n)
<1> DEFINE K == {p \in tree : Len(p) = Len(n) + 1 /\ IsPrefix(n, p)}
           I == {i \in Nat \ {0} : Append(n, i) \in tree}
<1>1. n \in Paths /\ IsFiniteSet(tree)
  BY DEF IsTree
<1>2. IsFiniteSet(K)
  BY <1>1, FS_Subset
<1>3. \A i \in I : Append(n, i) \in K
  <2> SUFFICES ASSUME NEW i \in Nat \ {0}, Append(n, i) \in tree PROVE Append(n, i) \in K
    OBVIOUS
  <2> DEFINE q == Append(n, i)
  <2>1. /\ q \in Paths /\ Len(q) = Len(n) + 1 /\ Len(n) \in Nat
        /\ \A k \in 1 .. Len(n) : q[k] = n[k]
    BY <1>1, PathAppended
  <2>2. q \in tree
    OBVIOUS
  <2> HIDE DEF q
  <2>3. IsPrefix(n, q)
    BY <1>1, <2>1, PrefixIs
  <2>4. q \in K
    BY <2>1, <2>2, <2>3
  <2> QED  BY <2>4 DEF q
<1>4. \A p \in K : \E i \in I : p = Append(n, i)
  <2> SUFFICES ASSUME NEW p \in tree, Len(p) = Len(n) + 1, IsPrefix(n, p)
               PROVE  \E i \in I : p = Append(n, i)
    OBVIOUS
  <2>1. p \in Paths /\ Len(n) \in Nat /\ \A k \in 1 .. Len(n) : n[k] = p[k]
    BY <1>1, PrefixIs, LenProperties DEF Paths
  <2>2. p # Root
    BY <2>1 DEF Root
  <2>3. Front(p) \in Paths /\ Last(p) \in Nat \ {0} /\ p = Append(Front(p), Last(p))
    BY <2>1, <2>2, PathSplit
  <2>4. /\ Len(p) = Len(Front(p)) + 1 /\ Len(Front(p)) \in Nat
        /\ \A k \in 1 .. Len(Front(p)) : p[k] = Front(p)[k]
    <3> DEFINE f == Front(p)
               i == Last(p)
    <3>1. f \in Paths /\ i \in Nat \ {0} /\ p = Append(f, i)
      BY <2>3
    <3> HIDE DEF f, i
    <3>2. Len(p) = Len(f) + 1 /\ Len(f) \in Nat /\ \A k \in 1 .. Len(f) : p[k] = f[k]
      BY <3>1, PathAppended
    <3> QED  BY <3>2 DEF f
  <2>5. Front(p) = n
    <3>1. Len(Front(p)) = Len(n) /\ \A k \in 1 .. Len(n) : Front(p)[k] = n[k]
      BY <2>1, <2>4
    <3> QED  BY <1>1, <2>3, <3>1, SeqEqual DEF Paths
  <2> QED  BY <2>3, <2>5
<1>5. \A i, j \in Nat \ {0} : Append(n, i) = Append(n, j) => i = j
  BY <1>1, AppendInjective DEF Paths
<1> HIDE DEF K
<1>6. Cardinality(K) \in Nat
  BY <1>2, FS_CardinalityType
<1>7. ASSUME NEW N \in Nat, 1 .. N \subseteq I PROVE N =< Cardinality(K)
  <2> DEFINE f == [i \in 1 .. N |-> Append(n, i)]
  <2>1. f \in [1 .. N -> K]
    BY <1>3, <1>7
  <2>2. f \in Injection(1 .. N, K)
    BY <1>5, <1>7, <2>1 DEF Injection, IsInjective
  <2>3. Cardinality(1 .. N) =< Cardinality(K)
    BY <1>2, <2>2, FS_Injection
  <2>4. Cardinality(1 .. N) = N
    BY FS_Interval
  <2> QED  BY <2>3, <2>4
<1> DEFINE M == {j \in Nat : j + 1 \notin I}
<1>8. M # {}
  <2>1. ~(1 .. Cardinality(K) + 1 \subseteq I)
    BY <1>6, <1>7
  <2>2. PICK i \in 1 .. Cardinality(K) + 1 : i \notin I
    BY <2>1
  <2>3. i - 1 \in Nat /\ (i - 1) + 1 = i
    BY <1>6, <2>2
  <2> QED  BY <2>2, <2>3
<1>9. PICK c \in M : \A y \in M : c =< y
  BY <1>8, LeastNatural
<1>10. ASSUME NEW i \in Nat \ {0}, i =< c PROVE i \in I
  <2>1. i - 1 \in Nat /\ (i - 1) + 1 = i /\ ~(c =< i - 1)
    BY <1>9, <1>10
  <2>2. i - 1 \notin M
    BY <1>9, <2>1
  <2> QED  BY <2>1, <2>2
<1>11. ASSUME NEW i \in I PROVE i =< c
  <2> DEFINE Below == {d \in Nat : d < i => i - d \in I}
  <2>1. 0 \in Below
    BY <1>11
  <2>2. ASSUME NEW d \in Nat, d \in Below PROVE d + 1 \in Below
    <3> SUFFICES ASSUME d + 1 < i PROVE i - (d + 1) \in I
      OBVIOUS
    <3>1. i - d \in I /\ i - d > 1 /\ (i - d) - 1 = i - (d + 1) /\ i - (d + 1) \in Nat \ {0}
      BY <1>11, <2>2
    <3>2. Append(n, (i - d) - 1) \in tree
      <4> DEFINE e == i - d
      <4>1. e \in Nat \ {0} /\ Append(n, e) \in tree /\ e > 1
        BY <3>1
      <4> HIDE DEF e
      <4>2. Append(n, e - 1) \in tree
        BY <1>1, <4>1, TreeIsClosed
      <4> QED  BY <4>2 DEF e
    <3> QED  BY <3>1, <3>2
  <2>3. \A d \in Nat : d \in Below
    <3> HIDE DEF Below
    <3> QED  BY <2>1, <2>2, SetInduction
  <2> SUFFICES ASSUME ~(i =< c) PROVE FALSE
    OBVIOUS
  <2>4. i - (c + 1) \in Nat /\ i - (c + 1) < i /\ i - (i - (c + 1)) = c + 1
    BY <1>9, <1>11
  <2>5. i - (c + 1) \in Below
    BY <2>3, <2>4
  <2> QED  BY <1>9, <2>4, <2>5
<1>12. I = 1 .. c /\ c \in Nat
  BY <1>9, <1>10, <1>11
<1>13. Cardinality(K) = c
  <2> DEFINE f == [i \in 1 .. c |-> Append(n, i)]
  <2>1. f \in [1 .. c -> K]
    BY <1>3, <1>12
  <2>2. f \in Injection(1 .. c, K)
    BY <1>5, <2>1 DEF Injection, IsInjective
  <2>3. f \in Surjection(1 .. c, K)
    BY <1>4, <1>12, <2>1 DEF Surjection
  <2>4. ExistsBijection(1 .. c, K)
    BY <2>2, <2>3 DEF ExistsBijection, Bijection
  <2>5. IsFiniteSet(1 .. c) /\ Cardinality(1 .. c) = c
    BY <1>12, FS_Interval
  <2> QED  BY <2>4, <2>5, FS_Bijection
<1>14. ChildrenCount(tree, n) = c
  BY <1>13 DEF ChildrenCount, K
<1> HIDE DEF M
<1> QED  BY <1>12, <1>14

\* No path of a tree is longer than some number.
LEMMA TreeIsBounded ==
    ASSUME NEW tree \in SUBSET Paths, IsTree(tree)
    PROVE  \E H \in Nat : \A n \in tree : Len(n) =< H
<1>1. IsFiniteSet(tree) /\ \A n \in tree : Len(n) \in Nat
  BY DEF IsTree, Paths
<1> DEFINE K == Cardinality(tree)
<1>2. K \in Nat /\ ExistsBijection(1 .. K, tree)
  BY <1>1, FS_CardinalityType
<1> HIDE DEF K
<1>3. PICK g \in [1 .. K -> tree] : \A n \in tree : \E k \in 1 .. K : g[k] = n
  BY <1>2 DEF ExistsBijection, Bijection, Surjection
<1> DEFINE f == [k \in 1 .. K |-> Len(g[k])]
           S == {0} \cup {f[k] : k \in 1 .. K}
<1>4. 0 \in Int /\ \A k \in 1 .. K : f[k] \in Int
  BY <1>1, <1>3
<1>5. \A n \in tree : Len(n) \in S
  BY <1>1, <1>3
<1> HIDE DEF f
<1>6. \E m \in S : \A y \in S : m >= y
  <2>1. Max({0} \cup {f[k] : k \in 1 .. K}) \in {0} \cup {f[k] : k \in 1 .. K}
    BY <1>2, <1>4, MaxOfValues
  <2>2. \A y \in {0} \cup {f[k] : k \in 1 .. K} : Max({0} \cup {f[k] : k \in 1 .. K}) >= y
    BY <1>2, <1>4, MaxOfValues
  <2> QED  BY <2>1, <2>2
<1>7. S \subseteq Int /\ 0 \in S
  BY <1>4
<1> HIDE DEF S
<1>8. PICK m \in S : \A y \in S : m >= y
  BY <1>6
<1>9. m \in Nat /\ \A n \in tree : Len(n) =< m
  <2>1. m \in Int /\ m >= 0
    BY <1>7, <1>8
  <2>2. \A n \in tree : m >= Len(n)
    BY <1>5, <1>8
  <2> QED  BY <1>1, <2>1, <2>2
<1> QED  BY <1>9

\* Induction over a tree, from the children to their parent.
LEMMA NodeInduction ==
    ASSUME NEW tree \in SUBSET Paths, IsTree(tree), NEW D,
           \A n \in tree :
              (\A i \in 1 .. ChildrenCount(tree, n) : Append(n, i) \in D) => n \in D
    PROVE  \A n \in tree : n \in D
<1>1. PICK H \in Nat : \A n \in tree : Len(n) =< H
  BY TreeIsBounded
<1> DEFINE Good == {k \in Nat : \A n \in tree : Len(n) + k > H => n \in D}
<1>2. 0 \in Good
  BY <1>1 DEF Paths
<1>3. ASSUME NEW k \in Nat, k \in Good PROVE k + 1 \in Good
  <2> SUFFICES ASSUME NEW n \in tree, Len(n) + (k + 1) > H PROVE n \in D
    OBVIOUS
  <2>1. n \in Paths /\ ChildrenCount(tree, n) \in Nat
    BY ChildrenAre
  <2>2. ASSUME NEW i \in 1 .. ChildrenCount(tree, n) PROVE Append(n, i) \in D
    <3>1. i \in Nat \ {0} /\ i =< ChildrenCount(tree, n)
      BY <2>1, <2>2
    <3> HIDE DEF Good
    <3>2. Append(n, i) \in tree
      BY <3>1, ChildrenAre
    <3> DEFINE q == Append(n, i)
    <3>3. Len(q) = Len(n) + 1 /\ Len(n) \in Nat
      BY <2>1, <3>1, PathAppended
    <3>4. q \in tree
      BY <3>2
    <3> HIDE DEF q
    <3>5. Len(q) + k > H
      BY <3>3
    <3>6. q \in D
      BY <1>3, <3>4, <3>5 DEF Good
    <3> QED  BY <3>6 DEF q
  <2> QED  BY <2>2
<1>4. H + 1 \in Good
  <2> HIDE DEF Good
  <2> QED  BY <1>2, <1>3, SetInduction
<1> QED  BY <1>4 DEF Paths

OfChildren(tree, f, n) == [i \in 1 .. ChildrenCount(tree, n) |-> f[Append(n, i)]]

\* f has F of each node and of the values of its children.
ObeysOnTree(f, F, tree) == \A n \in tree : f[n] = F[<<n, OfChildren(tree, f, n)>>]

\* A function on a tree, each value made from those of the node's children, exists.
LEMMA TreeRecursionExists ==
    ASSUME NEW tree \in SUBSET Paths, IsTree(tree), NEW S, NEW s0 \in S,
           NEW F \in [tree \X Seq(S) -> S]
    PROVE  \E f \in [tree -> S] : ObeysOnTree(f, F, tree)
<1>1. PICK H \in Nat : \A n \in tree : Len(n) =< H
  BY TreeIsBounded
<1> DEFINE Obeyed(g, k) ==
              \A n \in tree : Len(n) + k > H => g[n] = F[<<n, OfChildren(tree, g, n)>>]
           Good == {k \in Nat : \E g \in [tree -> S] : Obeyed(g, k)}
<1>2. 0 \in Good
  <2> DEFINE g == [n \in tree |-> s0]
  <2>1. g \in [tree -> S]
    OBVIOUS
  <2>2. Obeyed(g, 0)
    BY <1>1 DEF Paths
  <2> HIDE DEF g, Obeyed
  <2> QED  BY <2>1, <2>2
<1>3. ASSUME NEW n \in tree, NEW i \in 1 .. ChildrenCount(tree, n)
      PROVE  Append(n, i) \in tree /\ Len(Append(n, i)) = Len(n) + 1
  <2>1. n \in Paths /\ ChildrenCount(tree, n) \in Nat
    BY ChildrenAre
  <2>2. i \in Nat \ {0} /\ i =< ChildrenCount(tree, n)
    BY <2>1
  <2> QED  BY <2>1, <2>2, ChildrenAre, PathAppended
<1>4. ASSUME NEW g \in [tree -> S], NEW n \in tree PROVE OfChildren(tree, g, n) \in Seq(S)
  <2>1. ChildrenCount(tree, n) \in Nat
    BY ChildrenAre
  <2>2. \A i \in 1 .. ChildrenCount(tree, n) : g[Append(n, i)] \in S
    BY <1>3
  <2> QED  BY <2>1, <2>2 DEF OfChildren
<1>5. ASSUME NEW k \in Nat, k \in Good PROVE k + 1 \in Good
  <2>1. PICK g \in [tree -> S] : Obeyed(g, k)
    BY <1>5
  <2> DEFINE h == [n \in tree |-> F[<<n, OfChildren(tree, g, n)>>]]
  <2>2. h \in [tree -> S]
    BY <1>4
  <2>3. \A n \in tree : Len(n) + k > H => h[n] = g[n]
    BY <2>1
  <2>4. ASSUME NEW n \in tree, Len(n) + (k + 1) > H
        PROVE  h[n] = F[<<n, OfChildren(tree, h, n)>>]
    <3>1. \A i \in 1 .. ChildrenCount(tree, n) : h[Append(n, i)] = g[Append(n, i)]
      <4> SUFFICES ASSUME NEW i \in 1 .. ChildrenCount(tree, n)
                   PROVE  h[Append(n, i)] = g[Append(n, i)]
        OBVIOUS
      <4> DEFINE q == Append(n, i)
      <4>1. q \in tree /\ Len(q) = Len(n) + 1 /\ Len(n) \in Nat
        BY <1>3 DEF Paths
      <4> HIDE DEF q, h
      <4>2. Len(q) + k > H
        BY <2>4, <4>1
      <4>3. h[q] = g[q]
        BY <2>3, <4>1, <4>2
      <4> QED  BY <4>3 DEF q
    <3> HIDE DEF h
    <3>2. OfChildren(tree, h, n) = OfChildren(tree, g, n)
      BY <3>1 DEF OfChildren
    <3>3. h[n] = F[<<n, OfChildren(tree, g, n)>>]
      BY DEF h
    <3> QED  BY <3>2, <3>3
  <2> HIDE DEF h
  <2>5. Obeyed(h, k + 1)
    BY <2>4
  <2> HIDE DEF Obeyed
  <2> QED  BY <2>2, <2>5
<1>6. H + 1 \in Good
  <2> HIDE DEF Good
  <2> QED  BY <1>2, <1>5, SetInduction
<1>7. PICK g \in [tree -> S] : Obeyed(g, H + 1)
  BY <1>6
<1>8. \A n \in tree : g[n] = F[<<n, OfChildren(tree, g, n)>>]
  BY <1>7 DEF Paths
<1> QED  BY <1>8 DEF ObeysOnTree

\* Each visit comes before the later ones.
Sorted(s, order) == \A i, j \in DOMAIN s : i < j => Before(order, s[i], s[j])

\* Two parts in order, one before the other.
LEMMA SortedConcat ==
    ASSUME NEW B, NEW s \in Seq(B), NEW r \in Seq(B), NEW order,
           Sorted(s, order), Sorted(r, order),
           \A x \in Range(s), y \in Range(r) : Before(order, x, y)
    PROVE  /\ s \o r \in Seq(B) /\ Range(s \o r) = Range(s) \cup Range(r)
           /\ Sorted(s \o r, order)
<1> DEFINE c == s \o r
<1>1. /\ c \in Seq(B) /\ Len(c) = Len(s) + Len(r) /\ Len(s) \in Nat /\ Len(r) \in Nat
      /\ \A i \in 1 .. Len(c) : c[i] = IF i =< Len(s) THEN s[i] ELSE r[i - Len(s)]
  BY ConcatProperties
<1>2. DOMAIN c = 1 .. Len(c) /\ DOMAIN s = 1 .. Len(s) /\ DOMAIN r = 1 .. Len(r)
  BY <1>1
<1>3. Range(c) = Range(s) \cup Range(r)
  BY RangeConcatenation
<1> HIDE DEF c
<1>4. ASSUME NEW i \in DOMAIN c, NEW j \in DOMAIN c, i < j PROVE Before(order, c[i], c[j])
  <2>1. CASE j =< Len(s)
    <3>1. i \in DOMAIN s /\ j \in DOMAIN s /\ c[i] = s[i] /\ c[j] = s[j]
      BY <1>1, <1>2, <1>4, <2>1
    <3> QED  BY <1>4, <3>1 DEF Sorted
  <2>2. CASE i =< Len(s) /\ ~(j =< Len(s))
    <3>1. i \in DOMAIN s /\ j - Len(s) \in DOMAIN r /\ c[i] = s[i] /\ c[j] = r[j - Len(s)]
      BY <1>1, <1>2, <1>4, <2>2
    <3>2. c[i] \in Range(s) /\ c[j] \in Range(r)
      BY <3>1 DEF Range
    <3> QED  BY <3>2
  <2>3. CASE ~(i =< Len(s))
    <3>1. /\ i - Len(s) \in DOMAIN r /\ j - Len(s) \in DOMAIN r /\ i - Len(s) < j - Len(s)
          /\ c[i] = r[i - Len(s)] /\ c[j] = r[j - Len(s)]
      BY <1>1, <1>2, <1>4, <2>3
    <3> QED  BY <3>1 DEF Sorted
  <2> QED  BY <1>1, <1>2, <2>1, <2>2, <2>3
<1> QED  BY <1>1, <1>3, <1>4 DEF c, Sorted

Subtree(tree, n) == {p \in tree : IsPrefix(n, p)}

\* A node and the subtrees of its children, left to right, make its subtree.
LEMMA SubtreeSplit ==
    ASSUME NEW tree \in SUBSET Paths, IsTree(tree), NEW n \in tree
    PROVE  LET c == ChildrenCount(tree, n)
               part(i) == Subtree(tree, Append(n, i))
           IN  /\ n \in Subtree(tree, n)
               /\ \A i \in 1 .. c : Append(n, i) \in tree
               /\ \A i \in 1 .. c, p \in tree : p \in part(i) =>
                     p \in Subtree(tree, n) /\ IsStrictPrefix(n, p)
               /\ \A p \in Subtree(tree, n) \ {n} : \E i \in 1 .. c : p \in part(i)
               /\ \A i, j \in 1 .. c : i < j =>
                     \A p \in part(i), q \in part(j) : LeftOf(p, q)
<1> DEFINE c == ChildrenCount(tree, n)
<1>1. n \in Paths /\ Len(n) \in Nat /\ c \in Nat
  BY ChildrenAre DEF Paths
<1>2. n \in Subtree(tree, n)
  BY <1>1, PrefixIs DEF Subtree
<1>3. ASSUME NEW i \in 1 .. c PROVE Append(n, i) \in tree
  <2>1. i \in Nat \ {0} /\ i =< c
    BY <1>1
  <2> QED  BY <2>1, ChildrenAre
<1>4. ASSUME NEW i \in 1 .. c, NEW p \in Subtree(tree, Append(n, i))
      PROVE  /\ p \in Paths /\ Len(n) + 1 =< Len(p) /\ Len(p) \in Nat
             /\ p[Len(n) + 1] = i /\ \A k \in 1 .. Len(n) : p[k] = n[k]
  <2> DEFINE q == Append(n, i)
  <2>0. i \in Nat \ {0}
    BY <1>1
  <2>1. /\ q \in Paths /\ Len(q) = Len(n) + 1 /\ q[Len(n) + 1] = i
        /\ \A k \in 1 .. Len(n) : q[k] = n[k]
    BY <1>1, <2>0, PathAppended
  <2>2. p \in Paths /\ IsPrefix(q, p) /\ Len(p) \in Nat
    BY DEF Subtree, Paths
  <2> HIDE DEF q
  <2>3. Len(q) =< Len(p) /\ \A k \in 1 .. Len(q) : q[k] = p[k]
    BY <2>1, <2>2, PrefixIs
  <2> QED  BY <1>1, <2>1, <2>2, <2>3
<1>5. ASSUME NEW i \in 1 .. c, NEW p \in Subtree(tree, Append(n, i))
      PROVE  p \in Subtree(tree, n) /\ IsStrictPrefix(n, p)
  <2>1. IsPrefix(n, p)
    BY <1>1, <1>4, PrefixIs
  <2>2. n # p
    BY <1>1, <1>4
  <2> QED  BY <2>1, <2>2 DEF Subtree, IsStrictPrefix
<1>6. ASSUME NEW p \in Subtree(tree, n), p # n
      PROVE  \E i \in 1 .. c : p \in Subtree(tree, Append(n, i))
  <2>1. /\ p \in tree /\ p \in Paths /\ Len(n) =< Len(p) /\ Len(p) \in Nat
        /\ \A k \in 1 .. Len(n) : n[k] = p[k]
    BY <1>1, PrefixIs DEF Subtree, Paths
  <2>2. Len(n) + 1 =< Len(p)
    <3> SUFFICES ASSUME Len(p) = Len(n) PROVE FALSE
      BY <1>1, <2>1
    <3> QED  BY <1>1, <1>6, <2>1, SeqEqual DEF Paths
  <2> DEFINE i == p[Len(n) + 1]
             q == Append(n, i)
             s == SubSeq(p, 1, Len(n) + 1)
  <2>3. i \in Nat \ {0}
    BY <1>1, <2>1, <2>2 DEF Paths
  <2>4. /\ s \in Paths /\ Len(s) = Len(n) + 1 /\ \A k \in 1 .. Len(n) + 1 : s[k] = p[k]
    BY <1>1, <2>1, <2>2, SubSeqProperties DEF Paths
  <2>5. s \in tree
    BY <1>1, <2>1, <2>2, AncestorsAreNodes
  <2>6. /\ q \in Paths /\ Len(q) = Len(n) + 1 /\ q[Len(n) + 1] = i
        /\ \A k \in 1 .. Len(n) : q[k] = n[k]
    BY <1>1, <2>3, PathAppended
  <2>7. s[Len(n) + 1] = i
    BY <1>1, <2>4
  <2> HIDE DEF i, q, s
  <2>8. s = q
    <3>1. \A k \in 1 .. Len(n) : s[k] = q[k]
      BY <1>1, <2>1, <2>4, <2>6
    <3>2. \A k \in 1 .. Len(s) : s[k] = q[k]
      BY <1>1, <2>4, <2>6, <2>7, <3>1
    <3> QED  BY <2>4, <2>6, <3>2, SeqEqual DEF Paths
  <2>9. IsPrefix(s, p)
    BY <2>1, <2>2, <2>4, PrefixIs
  <2>10. i =< c
    BY <2>3, <2>5, <2>8, ChildrenAre DEF q
  <2> QED  BY <1>1, <2>1, <2>3, <2>8, <2>9, <2>10 DEF Subtree, q
<1>7. ASSUME NEW i \in 1 .. c, NEW j \in 1 .. c, i < j,
             NEW p \in Subtree(tree, Append(n, i)), NEW q \in Subtree(tree, Append(n, j))
      PROVE  LeftOf(p, q)
  <2> DEFINE k == Len(n) + 1
  <2>1. DOMAIN p = 1 .. Len(p) /\ DOMAIN q = 1 .. Len(q)
    BY <1>4 DEF Paths
  <2>2. k \in DOMAIN p \cap DOMAIN q /\ p[k] < q[k]
    BY <1>1, <1>4, <1>7, <2>1
  <2>3. \A m \in 1 .. (k - 1) : p[m] = q[m]
    BY <1>1, <1>4
  <2> QED  BY <2>2, <2>3 DEF LeftOf
<1> QED  BY <1>2, <1>3, <1>5, <1>6, <1>7

\* The visits of the children's subtrees, one behind the other.
LEMMA ChildrenInOrder ==
    ASSUME NEW tree \in SUBSET Paths, IsTree(tree), NEW n \in tree, NEW order,
           \A p, q : LeftOf(p, q) => Before(order, p, q),
           NEW f \in [tree -> Seq(tree)],
           \A i \in 1 .. ChildrenCount(tree, n) :
              /\ Range(f[Append(n, i)]) = Subtree(tree, Append(n, i))
              /\ Sorted(f[Append(n, i)], order)
    PROVE  LET w == FlattenSeq(OfChildren(tree, f, n))
           IN  /\ OfChildren(tree, f, n) \in Seq(Seq(tree)) /\ w \in Seq(tree)
               /\ Sorted(w, order) /\ Range(w) = Subtree(tree, n) \ {n}
<1> DEFINE c == ChildrenCount(tree, n)
           part(i) == Subtree(tree, Append(n, i))
           s(k) == [i \in 1 .. k |-> f[Append(n, i)]]
           Right(k) == /\ FlattenSeq(s(k)) \in Seq(tree) /\ Sorted(FlattenSeq(s(k)), order)
                       /\ Range(FlattenSeq(s(k))) = UNION {part(i) : i \in 1 .. k}
           Good == {k \in Nat : k =< c => Right(k)}
<1>1. c \in Nat /\ \A i \in 1 .. c : f[Append(n, i)] \in Seq(tree)
  BY ChildrenAre, SubtreeSplit
<1>2. ASSUME NEW k \in Nat, k =< c PROVE s(k) \in Seq(Seq(tree))
  BY <1>1, <1>2
<1>3. 0 \in Good
  <2>1. s(0) = <<>>
    OBVIOUS
  <2>2. FlattenSeq(<<>>) = <<>>
    BY DEF FlattenSeq
  <2>3. <<>> \in Seq(tree) /\ Range(<<>>) = {} /\ UNION {part(i) : i \in 1 .. 0} = {}
    BY DEF Range
  <2>4. Sorted(<<>>, order)
    BY DEF Sorted
  <2>5. Right(0)
    BY <2>1, <2>2, <2>3, <2>4
  <2> HIDE DEF Right
  <2> QED  BY <2>5
<1>4. ASSUME NEW k \in Nat, k \in Good PROVE k + 1 \in Good
  <2> SUFFICES ASSUME k + 1 =< c PROVE Right(k + 1)
    <3> HIDE DEF Right
    <3> QED  OBVIOUS
  <2>1. Right(k) /\ k =< c
    <3> HIDE DEF Right
    <3> QED  BY <1>1, <1>4
  <2> DEFINE x == f[Append(n, k + 1)]
             w == FlattenSeq(s(k))
  <2>2. k + 1 \in 1 .. c /\ x \in Seq(tree) /\ s(k) \in Seq(Seq(tree))
    BY <1>1, <1>2, <2>1
  <2>3. s(k + 1) = Append(s(k), x)
    BY <2>2
  <2>4. Range(x) = part(k + 1) /\ Sorted(x, order)
    BY <2>2
  <2>5. w \in Seq(tree) /\ Sorted(w, order) /\ Range(w) = UNION {part(i) : i \in 1 .. k}
    BY <2>1
  <2> HIDE DEF x
  <2>6. FlattenSeq(s(k + 1)) = w \o x
    <3> DEFINE r == s(k)
    <3>1. r \in Seq(Seq(tree))
      BY <2>2
    <3> HIDE DEF r
    <3>2. FlattenSeq(Append(r, x)) = FlattenSeq(r) \o x
      BY <2>2, <3>1, FlattenSeqAppend
    <3> QED  BY <2>3, <3>2 DEF r
  <2> HIDE DEF w
  <2>7. \A p \in Range(w), q \in Range(x) : Before(order, p, q)
    <3> SUFFICES ASSUME NEW p \in Range(w), NEW q \in Range(x) PROVE LeftOf(p, q)
      OBVIOUS
    <3> HIDE DEF part
    <3>1. PICK i \in 1 .. k : p \in part(i)
      BY <2>5
    <3>2. q \in part(k + 1) /\ i \in 1 .. c /\ i < k + 1
      BY <1>1, <2>1, <2>4, <3>1
    <3> QED  BY <2>2, <3>1, <3>2, SubtreeSplit DEF part
  <2>8. w \o x \in Seq(tree) /\ Range(w \o x) = Range(w) \cup Range(x) /\ Sorted(w \o x, order)
    BY <2>2, <2>4, <2>5, <2>7, SortedConcat
  <2>9. UNION {part(i) : i \in 1 .. k + 1} = (UNION {part(i) : i \in 1 .. k}) \cup part(k + 1)
    <3> HIDE DEF part
    <3>1. 1 .. k + 1 = (1 .. k) \cup {k + 1}
      OBVIOUS
    <3> QED  BY <3>1
  <2> QED  BY <2>4, <2>5, <2>6, <2>8, <2>9
<1>5. Right(c)
  <2>1. c \in Good
    <3> HIDE DEF Good
    <3> QED  BY <1>1, <1>3, <1>4, SetInduction
  <2> HIDE DEF Right
  <2> QED  BY <1>1, <2>1
<1>6. UNION {part(i) : i \in 1 .. c} = Subtree(tree, n) \ {n}
  <2>1. \A i \in 1 .. c, p \in tree : p \in part(i) => p \in Subtree(tree, n) /\ n # p
    BY SubtreeSplit DEF IsStrictPrefix
  <2>2. \A p \in Subtree(tree, n) \ {n} : \E i \in 1 .. c : p \in part(i)
    BY SubtreeSplit
  <2>3. \A i \in 1 .. c : part(i) \subseteq tree
    BY DEF Subtree
  <2> HIDE DEF part, c
  <2> QED  BY <2>1, <2>2, <2>3
<1>7. OfChildren(tree, f, n) = s(c)
  BY DEF OfChildren
<1>8. s(c) \in Seq(Seq(tree))
  BY <1>1, <1>2
<1> HIDE DEF s, part
<1> QED  BY <1>5, <1>6, <1>7, <1>8

\* F sets a node before or behind the visits of its children, where it belongs.
SetsNodes(F, tree, order) ==
    \A n \in tree, w \in Seq(tree) :
       Sorted(w, order) /\ Range(w) = Subtree(tree, n) \ {n} =>
          Sorted(F[<<n, w>>], order) /\ Range(F[<<n, w>>]) = Subtree(tree, n)

\* f[n] visits the subtree of n in order, and is made of what f says of n's children.
Traverses(f, F, tree, order) ==
    \A n \in tree :
       /\ FlattenSeq(OfChildren(tree, f, n)) \in Seq(tree)
       /\ f[n] = F[<<n, FlattenSeq(OfChildren(tree, f, n))>>]
       /\ Sorted(f[n], order) /\ Range(f[n]) = Subtree(tree, n)

LEMMA DepthFirst ==
    ASSUME NEW tree \in SUBSET Paths, IsTree(tree), NEW order,
           \A p, q : LeftOf(p, q) => Before(order, p, q),
           NEW F \in [tree \X Seq(tree) -> Seq(tree)], SetsNodes(F, tree, order)
    PROVE  \E f \in [tree -> Seq(tree)] : Traverses(f, F, tree, order)
<1> DEFINE S == Seq(tree)
           G == [x \in tree \X Seq(S) |-> F[<<x[1], FlattenSeq(x[2])>>]]
<1>1. \A s \in Seq(S) : FlattenSeq(s) \in S
  <2>1. <<>> \in Seq(tree)
    OBVIOUS
  <2> QED  BY <2>1, FlattenSeqAppend
<1>2. G \in [tree \X Seq(S) -> S]
  BY <1>1
<1>3. \A n \in tree, s \in Seq(S) : G[<<n, s>>] = F[<<n, FlattenSeq(s)>>]
  OBVIOUS
<1>4. <<>> \in S
  OBVIOUS
<1> HIDE DEF S, G
<1>5. PICK f \in [tree -> S] : ObeysOnTree(f, G, tree)
  BY <1>2, <1>4, TreeRecursionExists
<1>6. ASSUME NEW n \in tree PROVE OfChildren(tree, f, n) \in Seq(S)
  <2>1. ChildrenCount(tree, n) \in Nat
    BY ChildrenAre
  <2>2. \A i \in 1 .. ChildrenCount(tree, n) : f[Append(n, i)] \in S
    BY SubtreeSplit
  <2> QED  BY <2>1, <2>2 DEF OfChildren
<1>7. ASSUME NEW n \in tree
      PROVE  /\ FlattenSeq(OfChildren(tree, f, n)) \in S
             /\ f[n] = F[<<n, FlattenSeq(OfChildren(tree, f, n))>>]
  <2>1. f[n] = G[<<n, OfChildren(tree, f, n)>>]
    BY <1>5 DEF ObeysOnTree
  <2> QED  BY <1>1, <1>3, <1>6, <2>1
<1> DEFINE Right(n) == Sorted(f[n], order) /\ Range(f[n]) = Subtree(tree, n)
           D == {n \in tree : Right(n)}
<1>8. ASSUME NEW n \in tree, \A i \in 1 .. ChildrenCount(tree, n) : Append(n, i) \in D
      PROVE  n \in D
  <2> DEFINE w == FlattenSeq(OfChildren(tree, f, n))
  <2>1. \A i \in 1 .. ChildrenCount(tree, n) :
           Range(f[Append(n, i)]) = Subtree(tree, Append(n, i)) /\ Sorted(f[Append(n, i)], order)
    BY <1>8
  <2>2. w \in Seq(tree) /\ Sorted(w, order) /\ Range(w) = Subtree(tree, n) \ {n}
    BY <2>1, ChildrenInOrder DEF S
  <2>3. f[n] = F[<<n, w>>]
    BY <1>7
  <2> HIDE DEF w
  <2>4. Sorted(F[<<n, w>>], order) /\ Range(F[<<n, w>>]) = Subtree(tree, n)
    BY <2>2 DEF SetsNodes
  <2> QED  BY <2>3, <2>4
<1>9. \A n \in tree : n \in D
  <2> HIDE DEF D
  <2> QED  BY <1>8, NodeInduction
<1>10. \A n \in tree : Sorted(f[n], order) /\ Range(f[n]) = Subtree(tree, n)
  BY <1>9
<1> HIDE DEF D
<1> QED  BY <1>5, <1>7, <1>10 DEF S, Traverses

\* All nodes are below the root.
LEMMA SubtreeOfRoot ==
    ASSUME NEW tree \in SUBSET Paths, IsTree(tree)
    PROVE  Root \in tree /\ Subtree(tree, Root) = tree
<1>1. Root \in tree /\ Root \in Paths /\ Len(Root) = 0
  BY DEF IsTree, Root, Paths
<1>2. \A p \in tree : IsPrefix(Root, p)
  <2> SUFFICES ASSUME NEW p \in tree PROVE IsPrefix(Root, p)
    OBVIOUS
  <2>1. p \in Paths /\ Len(p) \in Nat
    BY DEF Paths
  <2>2. 0 =< Len(p) /\ \A k \in 1 .. 0 : Root[k] = p[k]
    BY <2>1
  <2> QED  BY <1>1, <2>1, <2>2, PrefixIs
<1> QED  BY <1>1, <1>2 DEF Subtree

LEMMA OneIsSorted ==
    ASSUME NEW B, NEW n \in B, NEW order
    PROVE  <<n>> \in Seq(B) /\ Range(<<n>>) = {n} /\ Sorted(<<n>>, order)
<1>1. <<n>> \in Seq(B) /\ Range(<<n>>) = {n}
  BY DEF Range
<1>2. DOMAIN <<n>> = {1}
  OBVIOUS
<1> QED  BY <1>1, <1>2 DEF Sorted

\* for_each in pre-order,
LEMMA PreOrderVisits ==
    ASSUME NEW tree \in SUBSET Paths, IsTree(tree) PROVE VisitsInOrder(tree, "pre_order")
<1> DEFINE F == [x \in tree \X Seq(tree) |-> <<x[1]>> \o x[2]]
<1>1. \A n \in tree, w \in Seq(tree) : F[<<n, w>>] = <<n>> \o w
  OBVIOUS
<1>2. F \in [tree \X Seq(tree) -> Seq(tree)]
  OBVIOUS
<1> HIDE DEF F
<1>3. \A p, q : LeftOf(p, q) => Before("pre_order", p, q)
  BY DEF Before
<1>4. ASSUME NEW n \in tree, NEW w \in Seq(tree),
             Sorted(w, "pre_order") /\ Range(w) = Subtree(tree, n) \ {n}
      PROVE  Sorted(F[<<n, w>>], "pre_order") /\ Range(F[<<n, w>>]) = Subtree(tree, n)
  <2>1. <<n>> \in Seq(tree) /\ Range(<<n>>) = {n} /\ Sorted(<<n>>, "pre_order")
    BY OneIsSorted
  <2>2. \A x \in Range(<<n>>), y \in Range(w) : Before("pre_order", x, y)
    BY <1>4, <2>1 DEF Before, IsStrictPrefix, Subtree
  <2>3. Sorted(<<n>> \o w, "pre_order") /\ Range(<<n>> \o w) = {n} \cup Range(w)
    <3> DEFINE v == <<n>>
    <3>1. /\ v \in Seq(tree) /\ Range(v) = {n} /\ Sorted(v, "pre_order")
          /\ \A x \in Range(v), y \in Range(w) : Before("pre_order", x, y)
      BY <2>1, <2>2
    <3> HIDE DEF v
    <3>2. Sorted(v \o w, "pre_order") /\ Range(v \o w) = {n} \cup Range(w)
      BY <1>4, <3>1, SortedConcat
    <3> QED  BY <3>2 DEF v
  <2>4. n \in Subtree(tree, n)
    BY SubtreeSplit
  <2> QED  BY <1>1, <1>4, <2>3, <2>4
<1>5. PICK f \in [tree -> Seq(tree)] : Traverses(f, F, tree, "pre_order")
  <2>1. SetsNodes(F, tree, "pre_order")
    BY <1>4 DEF SetsNodes
  <2> QED  BY <1>2, <1>3, <2>1, DepthFirst
<1> DEFINE Rec(g) == [n \in tree |-> <<n>> \o FlattenSeq(OfChildren(tree, g, n))]
           h == CHOOSE g : g = Rec(g)
<1>6. PreOrder(tree, Root) = h[Root]
  BY DEF PreOrder, OfChildren
<1>7. f = Rec(f)
  BY <1>1, <1>5 DEF Traverses
<1> HIDE DEF Rec
<1>8. h = Rec(h)
  BY <1>7
<1> HIDE DEF h
<1> DEFINE D == {n \in tree : h[n] = f[n]}
<1>9. ASSUME NEW n \in tree, \A i \in 1 .. ChildrenCount(tree, n) : Append(n, i) \in D
      PROVE  n \in D
  <2>1. OfChildren(tree, h, n) = OfChildren(tree, f, n)
    BY <1>9 DEF OfChildren
  <2>2. /\ h[n] = <<n>> \o FlattenSeq(OfChildren(tree, h, n))
        /\ f[n] = <<n>> \o FlattenSeq(OfChildren(tree, f, n))
    BY <1>7, <1>8 DEF Rec
  <2> QED  BY <2>1, <2>2
<1>10. \A n \in tree : n \in D
  <2> HIDE DEF D
  <2> QED  BY <1>9, NodeInduction
<1>11. Root \in tree /\ Subtree(tree, Root) = tree
  BY SubtreeOfRoot
<1>12. Sorted(h[Root], "pre_order") /\ Range(h[Root]) = tree
  BY <1>5, <1>10, <1>11 DEF Traverses
<1>13. Visits(tree, "pre_order") = h[Root]
  BY <1>6 DEF Visits
<1> QED  BY <1>12, <1>13 DEF VisitsInOrder, Sorted

\* in post-order,
LEMMA PostOrderVisits ==
    ASSUME NEW tree \in SUBSET Paths, IsTree(tree) PROVE VisitsInOrder(tree, "post_order")
<1> DEFINE F == [x \in tree \X Seq(tree) |-> x[2] \o <<x[1]>>]
<1>1. \A n \in tree, w \in Seq(tree) : F[<<n, w>>] = w \o <<n>>
  OBVIOUS
<1>2. F \in [tree \X Seq(tree) -> Seq(tree)]
  OBVIOUS
<1> HIDE DEF F
<1>3. \A p, q : LeftOf(p, q) => Before("post_order", p, q)
  BY DEF Before
<1>4. ASSUME NEW n \in tree, NEW w \in Seq(tree),
             Sorted(w, "post_order") /\ Range(w) = Subtree(tree, n) \ {n}
      PROVE  Sorted(F[<<n, w>>], "post_order") /\ Range(F[<<n, w>>]) = Subtree(tree, n)
  <2>1. <<n>> \in Seq(tree) /\ Range(<<n>>) = {n} /\ Sorted(<<n>>, "post_order")
    BY OneIsSorted
  <2>2. \A x \in Range(w), y \in Range(<<n>>) : Before("post_order", x, y)
    BY <1>4, <2>1 DEF Before, IsStrictPrefix, Subtree
  <2>3. Sorted(w \o <<n>>, "post_order") /\ Range(w \o <<n>>) = {n} \cup Range(w)
    <3> DEFINE v == <<n>>
    <3>1. /\ v \in Seq(tree) /\ Range(v) = {n} /\ Sorted(v, "post_order")
          /\ \A x \in Range(w), y \in Range(v) : Before("post_order", x, y)
      BY <2>1, <2>2
    <3> HIDE DEF v
    <3>2. Sorted(w \o v, "post_order") /\ Range(w \o v) = {n} \cup Range(w)
      BY <1>4, <3>1, SortedConcat
    <3> QED  BY <3>2 DEF v
  <2>4. n \in Subtree(tree, n)
    BY SubtreeSplit
  <2> QED  BY <1>1, <1>4, <2>3, <2>4
<1>5. PICK f \in [tree -> Seq(tree)] : Traverses(f, F, tree, "post_order")
  <2>1. SetsNodes(F, tree, "post_order")
    BY <1>4 DEF SetsNodes
  <2> QED  BY <1>2, <1>3, <2>1, DepthFirst
<1> DEFINE Rec(g) == [n \in tree |-> FlattenSeq(OfChildren(tree, g, n)) \o <<n>>]
           h == CHOOSE g : g = Rec(g)
<1>6. PostOrder(tree, Root) = h[Root]
  BY DEF PostOrder, OfChildren
<1>7. f = Rec(f)
  BY <1>1, <1>5 DEF Traverses
<1> HIDE DEF Rec
<1>8. h = Rec(h)
  BY <1>7
<1> HIDE DEF h
<1> DEFINE D == {n \in tree : h[n] = f[n]}
<1>9. ASSUME NEW n \in tree, \A i \in 1 .. ChildrenCount(tree, n) : Append(n, i) \in D
      PROVE  n \in D
  <2>1. OfChildren(tree, h, n) = OfChildren(tree, f, n)
    BY <1>9 DEF OfChildren
  <2>2. /\ h[n] = FlattenSeq(OfChildren(tree, h, n)) \o <<n>>
        /\ f[n] = FlattenSeq(OfChildren(tree, f, n)) \o <<n>>
    BY <1>7, <1>8 DEF Rec
  <2> QED  BY <2>1, <2>2
<1>10. \A n \in tree : n \in D
  <2> HIDE DEF D
  <2> QED  BY <1>9, NodeInduction
<1>11. Root \in tree /\ Subtree(tree, Root) = tree
  BY SubtreeOfRoot
<1>12. Sorted(h[Root], "post_order") /\ Range(h[Root]) = tree
  BY <1>5, <1>10, <1>11 DEF Traverses
<1>13. Visits(tree, "post_order") = h[Root]
  BY <1>6 DEF Visits
<1> QED  BY <1>12, <1>13 DEF VisitsInOrder, Sorted

-----------------------------------------------------------------------------
(* Breadth first: the queue. *)

Items(tree) == [visited : Seq(tree), pending : Seq(tree)]

\* The children of a node, and no others, left to right.
LEMMA ChildrenList ==
    ASSUME NEW tree \in SUBSET Paths, IsTree(tree), NEW n \in tree
    PROVE  /\ Children(tree, n) \in Seq(tree)
           /\ Range(Children(tree, n)) = {p \in tree \ {Root} : Front(p) = n}
           /\ Sorted(Children(tree, n), "breadth_first")
<1> DEFINE c == ChildrenCount(tree, n)
           s == Children(tree, n)
<1>1. /\ n \in Paths /\ Len(n) \in Nat /\ c \in Nat
      /\ \A i \in Nat \ {0} : Append(n, i) \in tree <=> i =< c
  BY ChildrenAre DEF Paths
<1>2. s \in Seq(tree) /\ DOMAIN s = 1 .. c /\ \A i \in 1 .. c : s[i] = Append(n, i)
  <2>1. s = [i \in 1 .. c |-> Append(n, i)]
    BY DEF Children
  <2>2. \A i \in 1 .. c : Append(n, i) \in tree
    <3> HIDE DEF c
    <3> QED  BY <1>1
  <2> HIDE DEF s, c
  <2> QED  BY <1>1, <2>1, <2>2
<1>3. ASSUME NEW i \in 1 .. c
      PROVE  /\ i \in Nat \ {0} /\ s[i] \in tree /\ s[i] # Root /\ Front(s[i]) = n
             /\ Len(s[i]) = Len(n) + 1 /\ s[i] \in Paths
             /\ s[i][Len(n) + 1] = i /\ \A k \in 1 .. Len(n) : s[i][k] = n[k]
  <2> DEFINE q == Append(n, i)
  <2>1. i \in Nat \ {0} /\ q \in tree /\ s[i] = q
    BY <1>1, <1>2
  <2>2. /\ q # Root /\ Front(q) = n /\ Len(q) = Len(n) + 1 /\ q \in Paths
        /\ q[Len(n) + 1] = i /\ \A k \in 1 .. Len(n) : q[k] = n[k]
    BY <1>1, <2>1, PathAppended
  <2> HIDE DEF q, s
  <2> QED  BY <2>1, <2>2
<1>4. ASSUME NEW p \in tree, p # Root, Front(p) = n PROVE \E i \in 1 .. c : p = s[i]
  <2>1. p \in Paths /\ Last(p) \in Nat \ {0} /\ p = Append(n, Last(p))
    BY <1>4, PathSplit
  <2> DEFINE i == Last(p)
  <2>2. i \in Nat \ {0} /\ p = Append(n, i)
    BY <2>1
  <2> HIDE DEF i, c, s
  <2>3. i =< c
    BY <1>1, <2>2
  <2>4. i \in 1 .. c
    BY <1>1, <2>2, <2>3
  <2> QED  BY <1>2, <2>2, <2>4
<1> HIDE DEF s
<1>5. Range(s) = {p \in tree \ {Root} : Front(p) = n}
  BY <1>2, <1>3, <1>4 DEF Range
<1>6. ASSUME NEW i \in 1 .. c, NEW j \in 1 .. c, i < j
      PROVE  Before("breadth_first", s[i], s[j])
  <2> DEFINE p == s[i]
             q == s[j]
             k == Len(n) + 1
  <2>1. /\ p \in Paths /\ Len(p) = k /\ p[k] = i /\ \A m \in 1 .. Len(n) : p[m] = n[m]
        /\ q \in Paths /\ Len(q) = k /\ q[k] = j /\ \A m \in 1 .. Len(n) : q[m] = n[m]
    BY <1>3
  <2> HIDE DEF p, q
  <2>2. DOMAIN p = 1 .. k /\ DOMAIN q = 1 .. k
    BY <2>1 DEF Paths
  <2>3. k \in DOMAIN p \cap DOMAIN q /\ p[k] < q[k] /\ \A m \in 1 .. (k - 1) : p[m] = q[m]
    BY <1>1, <1>6, <2>1, <2>2
  <2>4. LeftOf(p, q)
    BY <2>3 DEF LeftOf
  <2>5. Before("breadth_first", p, q)
    BY <2>1, <2>4 DEF Before
  <2> QED  BY <2>5 DEF p, q
<1>7. Sorted(s, "breadth_first")
  BY <1>2, <1>6 DEF Sorted
<1> QED  BY <1>2, <1>5, <1>7 DEF s

\* The children of a node stand behind those of a node before it.
LEMMA ChildrenBefore ==
    ASSUME NEW p \in Paths, NEW q \in Paths, p # Root, q # Root,
           Before("breadth_first", Front(p), Front(q))
    PROVE  Before("breadth_first", p, q)
<1> DEFINE f == Front(p)
           g == Front(q)
<1>1. /\ f \in Paths /\ Len(f) \in Nat /\ Len(p) = Len(f) + 1 /\ \A k \in 1 .. Len(f) : p[k] = f[k]
  <2>1. f \in Paths /\ Last(p) \in Nat \ {0} /\ p = Append(f, Last(p))
    BY PathSplit
  <2> DEFINE i == Last(p)
  <2> HIDE DEF f, i
  <2>2. Len(f) \in Nat /\ Len(Append(f, i)) = Len(f) + 1 /\ \A k \in 1 .. Len(f) : Append(f, i)[k] = f[k]
    BY <2>1, PathAppended DEF i
  <2> QED  BY <2>1, <2>2 DEF i
<1>2. /\ g \in Paths /\ Len(g) \in Nat /\ Len(q) = Len(g) + 1 /\ \A k \in 1 .. Len(g) : q[k] = g[k]
  <2>1. g \in Paths /\ Last(q) \in Nat \ {0} /\ q = Append(g, Last(q))
    BY PathSplit
  <2> DEFINE i == Last(q)
  <2> HIDE DEF g, i
  <2>2. Len(g) \in Nat /\ Len(Append(g, i)) = Len(g) + 1 /\ \A k \in 1 .. Len(g) : Append(g, i)[k] = g[k]
    BY <2>1, PathAppended DEF i
  <2> QED  BY <2>1, <2>2 DEF i
<1>3. Len(f) < Len(g) \/ (Len(f) = Len(g) /\ LeftOf(f, g))
  BY DEF Before
<1> HIDE DEF f, g
<1>4. CASE Len(f) < Len(g)
  <2>1. Len(p) < Len(q)
    BY <1>1, <1>2, <1>4
  <2> QED  BY <2>1 DEF Before
<1>5. CASE Len(f) = Len(g) /\ LeftOf(f, g)
  <2>1. PICK k \in DOMAIN f \cap DOMAIN g : f[k] < g[k] /\ \A j \in 1 .. (k - 1) : f[j] = g[j]
    BY <1>5 DEF LeftOf
  <2>2. /\ DOMAIN f = 1 .. Len(f) /\ DOMAIN g = 1 .. Len(g)
        /\ DOMAIN p = 1 .. Len(p) /\ DOMAIN q = 1 .. Len(q)
    BY <1>1, <1>2 DEF Paths
  <2>3. k \in DOMAIN p \cap DOMAIN q /\ p[k] < q[k] /\ \A j \in 1 .. (k - 1) : p[j] = q[j]
    BY <1>1, <1>2, <1>5, <2>1, <2>2
  <2>4. LeftOf(p, q) /\ Len(p) = Len(q)
    BY <1>1, <1>2, <1>5, <2>3 DEF LeftOf
  <2> QED  BY <2>4 DEF Before
<1> QED  BY <1>3, <1>4, <1>5

\* The queue after k turns: visited and pending nodes stand in order; they are the
\* root and the children of those visited; the queue has lost one node a turn.
InTurn(tree, s, k) ==
    LET all == s.visited \o s.pending
    IN  /\ s \in Items(tree) /\ Sorted(all, "breadth_first")
        /\ Range(all) = {Root} \cup {p \in tree \ {Root} : Front(p) \in Range(s.visited)}
        /\ s.pending # <<>> => Len(s.visited) = k

\* A turn visits the front and lets its children wait,
LEMMA TurnKeepsOrder ==
    ASSUME NEW tree \in SUBSET Paths, IsTree(tree), NEW k \in Nat, NEW s, InTurn(tree, s, k)
    PROVE  InTurn(tree, Turn(tree, s), k + 1)
<1> DEFINE v == s.visited
           w == s.pending
<1>1. /\ s \in Items(tree) /\ v \in Seq(tree) /\ w \in Seq(tree) /\ Sorted(v \o w, "breadth_first")
      /\ Range(v \o w) = {Root} \cup {p \in tree \ {Root} : Front(p) \in Range(v)}
      /\ w # <<>> => Len(v) = k
  BY DEF InTurn, Items
<1>2. CASE w = <<>>
  <2>1. Turn(tree, s) = s
    BY <1>2 DEF Turn
  <2> QED  BY <1>2, <2>1 DEF InTurn
<1>3. CASE w # <<>>
  <2> DEFINE h  == Head(w)
             ch == Children(tree, h)
             t  == Tail(w)
             n  == [visited |-> Append(v, h), pending |-> t \o ch]
             all == v \o w
  <2>1. Turn(tree, s) = n
    BY <1>3 DEF Turn, Queued
  <2>2. h \in tree /\ t \in Seq(tree) /\ w = <<h>> \o t
    <3> HIDE DEF w
    <3> QED  BY <1>1, <1>3, HeadTailProperties
  <2>3. /\ ch \in Seq(tree) /\ Range(ch) = {p \in tree \ {Root} : Front(p) = h}
        /\ Sorted(ch, "breadth_first")
    BY <2>2, ChildrenList
  <2> HIDE DEF ch, h, t, v, w
  <2>4. /\ Append(v, h) \in Seq(tree) /\ t \o ch \in Seq(tree)
        /\ Append(v, h) = v \o <<h>> /\ Len(Append(v, h)) = Len(v) + 1
    BY <1>1, <2>2, <2>3, AppendProperties, AppendIsConcat, ConcatProperties
  <2> DEFINE o == <<h>>
  <2>5. o \in Seq(tree) /\ Range(o) = {h} /\ w = o \o t /\ Append(v, h) = v \o o
    BY <2>2, <2>4, OneIsSorted
  <2> HIDE DEF o
  <2>6. \A x, y, z \in Seq(tree) : (x \o y) \o z = x \o (y \o z)
    BY ConcatAssociative
  <2>7. Append(v, h) \o (t \o ch) = all \o ch
    <3>1. o \o t \in Seq(tree)
      BY <2>2, <2>5, ConcatProperties
    <3>2. (v \o o) \o (t \o ch) = v \o (o \o (t \o ch))
      BY <1>1, <2>4, <2>5, <2>6, Zenon
    <3>3. o \o (t \o ch) = (o \o t) \o ch
      BY <2>2, <2>3, <2>5, <2>6, Zenon
    <3>4. v \o ((o \o t) \o ch) = (v \o (o \o t)) \o ch
      BY <1>1, <2>3, <2>6, <3>1, Zenon
    <3> QED  BY <2>5, <3>2, <3>3, <3>4
  <2>8. Range(Append(v, h)) = Range(v) \cup {h}
    BY <1>1, <2>5, RangeConcatenation
  <2>9. all \in Seq(tree)
    BY <1>1, ConcatProperties
  <2>10. ASSUME NEW f \in Range(v) PROVE Before("breadth_first", f, h)
    <3>1. PICK i \in DOMAIN v : v[i] = f
      BY DEF Range
    <3>2. Len(w) \in Nat \ {0} /\ w[1] = h
      <4>1. <<h>> \in Seq(tree) /\ Len(<<h>>) = 1 /\ <<h>>[1] = h
        BY <2>2
      <4> QED  BY <2>2, <4>1, ConcatProperties
    <3>3. /\ i \in DOMAIN all /\ Len(v) + 1 \in DOMAIN all /\ i < Len(v) + 1
          /\ all[i] = f /\ all[Len(v) + 1] = h
      BY <1>1, <3>1, <3>2, ConcatProperties
    <3> QED  BY <1>1, <3>3 DEF Sorted
  <2>11. ASSUME NEW x \in Range(all), NEW y \in Range(ch) PROVE Before("breadth_first", x, y)
    <3>1. y \in tree /\ y \in Paths /\ y # Root /\ Front(y) = h
      BY <2>3
    <3>2. CASE x = Root
      <4>1. Len(x) = 0 /\ Len(y) \in Nat \ {0}
        BY <3>1, <3>2, EmptySeq DEF Root, Paths
      <4> QED  BY <4>1 DEF Before
    <3>3. CASE x # Root
      <4>1. x \in tree /\ x \in Paths /\ Front(x) \in Range(v)
        BY <1>1, <3>3
      <4> QED  BY <2>10, <3>1, <3>3, <4>1, ChildrenBefore
    <3> QED  BY <3>2, <3>3
  <2>12. Sorted(all \o ch, "breadth_first") /\ Range(all \o ch) = Range(all) \cup Range(ch)
    <3>1. Sorted(all, "breadth_first")
      BY <1>1
    <3> HIDE DEF all
    <3> QED  BY <2>3, <2>9, <2>11, <3>1, SortedConcat
  <2>13. Range(all \o ch) = {Root} \cup {p \in tree \ {Root} : Front(p) \in Range(v) \cup {h}}
    BY <1>1, <2>3, <2>12
  <2>14. n \in Items(tree) /\ n.visited = Append(v, h) /\ n.pending = t \o ch
    BY <2>4 DEF Items
  <2>15. Len(n.visited) = k + 1
    BY <1>1, <1>3, <2>4, <2>14
  <2> HIDE DEF n, all
  <2>16. InTurn(tree, n, k + 1)
    BY <2>7, <2>8, <2>12, <2>13, <2>14, <2>15 DEF InTurn
  <2> QED  BY <2>1, <2>16
<1> QED  BY <1>2, <1>3

\* and so do all turns of the loop.
LEMMA TurnsAre ==
    ASSUME NEW tree \in SUBSET Paths, IsTree(tree), NEW N \in Nat
    PROVE  InTurn(tree, Turns(tree, Root, N), N)
<1> DEFINE S  == Items(tree)
           s0 == [visited |-> <<>>, pending |-> <<Root>>]
           F  == [x \in Nat \X S |-> Turn(tree, x[2])]
           Rec(f) == [k \in 0 .. N |-> IF k = 0 THEN s0 ELSE Turn(tree, f[k - 1])]
           state  == CHOOSE f : f = Rec(f)
<1>1. Turns(tree, Root, N) = state[N]
  BY DEF Turns
<1>2. InTurn(tree, s0, 0)
  <2>1. Root \in tree
    BY DEF IsTree
  <2> DEFINE o == <<Root>>
  <2>2. o \in Seq(tree) /\ Range(o) = {Root} /\ Sorted(o, "breadth_first")
    BY <2>1, OneIsSorted
  <2> HIDE DEF o
  <2>3. <<>> \in Seq(tree) /\ Range(<<>>) = {} /\ Len(<<>>) = 0 /\ <<>> \o o = o
    BY <2>2, ConcatEmptySeq DEF Range
  <2>4. s0 \in Items(tree) /\ s0.visited = <<>> /\ s0.pending = o
    BY <2>2, <2>3 DEF Items, o
  <2> HIDE DEF s0
  <2> QED  BY <2>2, <2>3, <2>4 DEF InTurn
<1>3. s0 \in S
  BY <1>2 DEF InTurn
<1>4. ASSUME NEW s \in S PROVE Turn(tree, s) \in S
  <2> DEFINE w == s.pending
             h == Head(w)
             t == Tail(w)
             ch == Children(tree, h)
  <2>1. s.visited \in Seq(tree) /\ w \in Seq(tree)
    BY DEF Items
  <2>2. CASE w = <<>>
    BY <2>2 DEF Turn
  <2>3. CASE w # <<>>
    <3>1. h \in tree /\ t \in Seq(tree)
      BY <2>1, <2>3, HeadTailProperties
    <3>2. ch \in Seq(tree)
      BY <3>1, ChildrenList
    <3>3. Turn(tree, s) = [visited |-> Append(s.visited, h), pending |-> t \o ch]
      BY <2>3 DEF Turn, Queued
    <3> HIDE DEF ch, h, t
    <3>4. Append(s.visited, h) \in Seq(tree) /\ t \o ch \in Seq(tree)
      BY <2>1, <3>1, <3>2
    <3> QED  BY <3>3, <3>4 DEF Items
  <2> QED  BY <2>2, <2>3
<1> HIDE DEF S, s0
<1>5. F \in [Nat \X S -> S] /\ \A k \in Nat, s \in S : F[<<k, s>>] = Turn(tree, s)
  BY <1>4
<1> HIDE DEF F
<1>6. PICK g \in [0 .. N -> S] : Obeys(g, s0, F, N)
  BY <1>3, <1>5, RecursionExists
<1>7. g = Rec(g)
  <2>1. \A k \in 1 .. N : g[k] = Turn(tree, g[k - 1])
    <3> SUFFICES ASSUME NEW k \in 1 .. N PROVE g[k] = Turn(tree, g[k - 1])
      OBVIOUS
    <3>1. g[k] = F[<<k, g[k - 1]>>] /\ g[k - 1] \in S /\ k \in Nat
      BY <1>6 DEF Obeys
    <3> QED  BY <1>5, <3>1
  <2>2. g[0] = s0
    BY <1>6 DEF Obeys
  <2> QED  BY <2>1, <2>2
<1> HIDE DEF Rec
<1>8. state = Rec(state)
  BY <1>7
<1> HIDE DEF state
<1>9. state[0] = s0 /\ \A k \in 1 .. N : state[k] = Turn(tree, state[k - 1])
  BY <1>8 DEF Rec
<1> DEFINE Good == {k \in 0 .. N : InTurn(tree, state[k], k)}
<1>10. 0 \in Good
  BY <1>2, <1>9
<1>11. ASSUME NEW k \in 1 .. N, k - 1 \in Good PROVE k \in Good
  <2>1. k - 1 \in Nat /\ InTurn(tree, state[k - 1], k - 1) /\ (k - 1) + 1 = k
    BY <1>11
  <2>2. InTurn(tree, Turn(tree, state[k - 1]), (k - 1) + 1)
    BY <2>1, TurnKeepsOrder
  <2> QED  BY <1>9, <2>1, <2>2
<1>12. N \in Good
  <2> HIDE DEF Good
  <2> QED  BY <1>10, <1>11, IntervalInduction
<1> QED  BY <1>1, <1>12

\* No path is before itself, so that a sorted sequence holds each node once.
LEMMA SortedIsShort ==
    ASSUME NEW tree \in SUBSET Paths, IsFiniteSet(tree), NEW s \in Seq(tree),
           Sorted(s, "breadth_first")
    PROVE  Len(s) =< Cardinality(tree)
<1>1. ASSUME NEW p \in Paths PROVE ~Before("breadth_first", p, p)
  <2>1. ~LeftOf(p, p)
    BY DEF LeftOf, Paths
  <2>2. Len(p) \in Nat
    BY DEF Paths
  <2> QED  BY <2>1, <2>2 DEF Before
<1>2. /\ Len(s) \in Nat /\ DOMAIN s = 1 .. Len(s) /\ s \in [1 .. Len(s) -> tree]
  OBVIOUS
<1>3. ASSUME NEW i \in 1 .. Len(s), NEW j \in 1 .. Len(s), s[i] = s[j], i # j PROVE FALSE
  <2>1. s[i] \in Paths
    BY <1>2
  <2>2. CASE i < j
    BY <1>1, <1>2, <1>3, <2>1, <2>2 DEF Sorted
  <2>3. CASE j < i
    BY <1>1, <1>2, <1>3, <2>1, <2>3 DEF Sorted
  <2> QED  BY <1>2, <1>3, <2>2, <2>3
<1>4. s \in Injection(1 .. Len(s), tree)
  BY <1>2, <1>3 DEF Injection, IsInjective
<1>5. Cardinality(1 .. Len(s)) =< Cardinality(tree)
  BY <1>4, FS_Injection
<1>6. Cardinality(1 .. Len(s)) = Len(s)
  BY <1>2, FS_Interval
<1> QED  BY <1>5, <1>6

\* and breadth first, where the queue runs empty.
LEMMA BreadthFirstVisits ==
    ASSUME NEW tree \in SUBSET Paths, IsTree(tree)
    PROVE  VisitsInOrder(tree, "breadth_first") /\ QueueRunsEmpty(tree)
<1> DEFINE N == Cardinality(tree)
           s == Turns(tree, Root, N)
           v == s.visited
           w == s.pending
           all == v \o w
<1>1. IsFiniteSet(tree) /\ Root \in tree /\ N \in Nat
  BY FS_CardinalityType DEF IsTree
<1>2. InTurn(tree, s, N)
  BY <1>1, TurnsAre
<1>3. /\ v \in Seq(tree) /\ w \in Seq(tree) /\ Sorted(all, "breadth_first")
      /\ Range(all) = {Root} \cup {p \in tree \ {Root} : Front(p) \in Range(v)}
      /\ w # <<>> => Len(v) = N
  BY <1>2 DEF InTurn, Items
<1>4. w = <<>>
  <2> SUFFICES ASSUME w # <<>> PROVE FALSE
    OBVIOUS
  <2> HIDE DEF v, w
  <2>1. all \in Seq(tree) /\ Len(all) = Len(v) + Len(w) /\ Len(w) \in Nat \ {0}
    BY <1>3, ConcatProperties, EmptySeq
  <2>2. Len(all) =< N
    <3> HIDE DEF all
    <3> QED  BY <1>1, <1>3, <2>1, SortedIsShort
  <2> QED  BY <1>1, <1>3, <2>1, <2>2
<1>5. all = v
  <2> HIDE DEF v, w
  <2> QED  BY <1>3, <1>4, ConcatEmptySeq
<1>6. Range(v) = tree
  <2> HIDE DEF s
  <2> DEFINE G == {p \in Paths : p \in tree => p \in Range(v)}
  <2>1. <<>> \in G
    BY <1>3, <1>5 DEF Root, Paths
  <2>2. ASSUME NEW p \in Seq(Nat \ {0}), NEW i \in Nat \ {0}, p \in G PROVE Append(p, i) \in G
    <3> DEFINE q == Append(p, i)
    <3>0. p \in Paths
      BY DEF Paths
    <3>1. q \in Paths /\ q # Root /\ Front(q) = p
      BY <3>0, PathAppended
    <3>2. q \in tree => p \in tree
      BY <3>0, TreeIsClosed
    <3> HIDE DEF q
    <3>3. q \in tree => q \in Range(v)
      BY <1>3, <1>5, <2>2, <3>1, <3>2
    <3>4. q \in G
      BY <3>1, <3>3
    <3> QED  BY <3>4 DEF q
  <2>3. \A p \in Seq(Nat \ {0}) : p \in G
    <3> HIDE DEF G
    <3> QED  BY <2>1, <2>2, SequenceInduction
  <2>4. tree \subseteq Range(v)
    BY <2>3 DEF Paths
  <2>5. Range(v) \subseteq tree
    BY <1>3, RangeOfSeq
  <2> QED  BY <2>4, <2>5
<1>7. Visits(tree, "breadth_first") = v
  BY DEF Visits
<1>8. QueueRunsEmpty(tree)
  BY <1>4 DEF QueueRunsEmpty
<1> HIDE DEF v
<1> QED  BY <1>3, <1>5, <1>6, <1>7, <1>8 DEF VisitsInOrder, Sorted

-----------------------------------------------------------------------------
(* N-dimensional arrays: the points of a shape, and their places. *)

LEMMA TimesPlus == \A a, b, c \in Nat : a * b \in Nat /\ a * b + c \in Nat
  OBVIOUS

\* size[d] is the number of points of the first d axes.
SizesAxes(size, s) ==
    /\ Product(s) = size[Len(s)]
    /\ size[0] = 1
    /\ \A d \in 1 .. Len(s) : size[d] = size[d - 1] * s[d]

LEMMA ProductIs ==
    ASSUME NEW s \in Seq(Nat)
    PROVE  \E size \in [0 .. Len(s) -> Nat] : SizesAxes(size, s)
<1> DEFINE n      == Len(s)
           Rec(f) == [d \in 0 .. n |-> IF d = 0 THEN 1 ELSE f[d - 1] * s[d]]
           size   == CHOOSE f : f = Rec(f)
           F      == [x \in Nat \X Nat |-> IF x[1] \in 1 .. n THEN x[2] * s[x[1]] ELSE 0]
<1>1. n \in Nat /\ \A d \in 1 .. n : s[d] \in Nat
  OBVIOUS
<1>2. Product(s) = size[n]
  BY DEF Product
<1> HIDE DEF n
<1>3. /\ F \in [Nat \X Nat -> Nat]
      /\ \A d \in 1 .. n, y \in Nat : F[<<d, y>>] = y * s[d]
  <2>1. \A x \in Nat \X Nat : x[1] \in Nat /\ x[2] \in Nat
    OBVIOUS
  <2>2. \A d \in 1 .. n, y \in Nat :
           <<d, y>> \in Nat \X Nat /\ <<d, y>>[1] = d /\ <<d, y>>[2] = y
    BY <1>1
  <2>3. ASSUME NEW x \in Nat \X Nat
        PROVE  (IF x[1] \in 1 .. n THEN x[2] * s[x[1]] ELSE 0) \in Nat
    BY <1>1, <2>1
  <2> QED  BY <2>2, <2>3
<1> HIDE DEF F
<1>4. PICK g \in [0 .. n -> Nat] : Obeys(g, 1, F, n)
  BY <1>1, <1>3, RecursionExists
<1>5. g = Rec(g)
  <2>1. ASSUME NEW d \in 1 .. n PROVE g[d] = g[d - 1] * s[d]
    <3>1. d - 1 \in 0 .. n
      BY <1>1
    <3> QED  BY <1>3, <1>4, <3>1 DEF Obeys
  <2> QED  BY <1>1, <1>4, <2>1 DEF Obeys
<1>6. size = Rec(size)
  <2> HIDE DEF Rec
  <2> QED  BY <1>5
<1> HIDE DEF size
<1>7. size[0] = 1 /\ \A d \in 1 .. n : size[d] = size[d - 1] * s[d]
  BY <1>1, <1>6
<1>8. \A d \in 0 .. n : size[d] \in Nat
  <2>1. ASSUME NEW d \in 1 .. n, size[d - 1] \in Nat PROVE size[d] \in Nat
    <3>1. s[d] \in Nat /\ size[d] = size[d - 1] * s[d]
      BY <1>1, <1>7
    <3> QED  BY <2>1, <3>1, TimesPlus
  <2>2. size[0] \in Nat
    BY <1>7
  <2> QED  BY <1>1, <2>1, <2>2, RecursionType, Zenon
<1>9. size \in [0 .. n -> Nat]
  <2>1. size = [d \in 0 .. n |-> size[d]]
    BY <1>6
  <2> HIDE DEF size
  <2> QED  BY <1>8, <2>1
<1> QED  BY <1>2, <1>7, <1>9 DEF SizesAxes, n

LEMMA PointsAre ==
    ASSUME NEW s \in Seq(Nat)
    PROVE  Points(s) = {p \in [1 .. Len(s) -> Nat] : \A d \in 1 .. Len(s) : p[d] < s[d]}
<1> DEFINE n   == Len(s)
           top == Max({0} \cup Range(s))
<1>1. n \in Nat /\ DOMAIN s = 1 .. n /\ \A d \in 1 .. n : s[d] \in Nat /\ s[d] \in Int
  OBVIOUS
<1> HIDE DEF n
<1>2. Range(s) = {s[k] : k \in 1 .. n} /\ 0 \in Int /\ \A k \in 1 .. n : s[k] \in Int
  BY <1>1 DEF Range
<1>3. \A y \in {0} \cup {s[k] : k \in 1 .. n} : Max({0} \cup {s[k] : k \in 1 .. n}) >= y
  BY <1>1, <1>2, MaxOfValues
<1>4. Max({0} \cup {s[k] : k \in 1 .. n}) \in {0} \cup {s[k] : k \in 1 .. n}
  BY <1>1, <1>2, MaxOfValues
<1>5. top \in Nat /\ \A d \in 1 .. n : top >= s[d]
  BY <1>1, <1>2, <1>3, <1>4
<1> HIDE DEF top
<1>6. \A p : p \in [1 .. n -> 0 .. top] /\ (\A d \in 1 .. n : p[d] < s[d])
             <=> p \in [1 .. n -> Nat] /\ \A d \in 1 .. n : p[d] < s[d]
  <2>1. ASSUME NEW p \in [1 .. n -> Nat], \A d \in 1 .. n : p[d] < s[d]
        PROVE  p \in [1 .. n -> 0 .. top]
    <3>1. \A d \in 1 .. n : p[d] \in Nat /\ p[d] =< top
      BY <1>1, <1>5, <2>1
    <3> QED  BY <1>5, <3>1
  <2>2. \A p : p \in [1 .. n -> 0 .. top] => p \in [1 .. n -> Nat]
    BY <1>5
  <2> QED  BY <2>1, <2>2
<1>7. Points(s) = {p \in [1 .. n -> 0 .. top] : \A d \in 1 .. n : p[d] < s[d]}
  BY <1>1 DEF Points, top
<1> QED  BY <1>6, <1>7 DEF n

\* The axis that counts k-th, and flat[k], the place of the first k indices.
Axis(k, s, order) == IF order = "row_major" THEN k ELSE Len(s) + 1 - k

PlacesIn(flat, p, s, order) ==
    /\ FlatIndex(p, s, order) = flat[Len(s)]
    /\ flat[0] = 0
    /\ \A k \in 1 .. Len(s) :
          flat[k] = flat[k - 1] * s[Axis(k, s, order)] + p[Axis(k, s, order)]

LEMMA FlatIndexIs ==
    ASSUME NEW s \in Seq(Nat), NEW p \in [1 .. Len(s) -> Nat], NEW order
    PROVE  \E flat \in [0 .. Len(s) -> Nat] : PlacesIn(flat, p, s, order)
<1> DEFINE n      == Len(s)
           axis(k) == IF order = "row_major" THEN k ELSE n + 1 - k
           Rec(f) == [k \in 0 .. n |-> IF k = 0 THEN 0 ELSE f[k - 1] * s[axis(k)] + p[axis(k)]]
           flat   == CHOOSE f : f = Rec(f)
           F      == [x \in Nat \X Nat |->
                        IF x[1] \in 1 .. n THEN x[2] * s[axis(x[1])] + p[axis(x[1])] ELSE 0]
<1>1. n \in Nat /\ \A k \in 1 .. n : s[axis(k)] \in Nat /\ p[axis(k)] \in Nat
  <2>1. \A k \in 1 .. n : axis(k) \in 1 .. n
    OBVIOUS
  <2>2. \A k \in 1 .. n : s[k] \in Nat /\ p[k] \in Nat
    OBVIOUS
  <2> HIDE DEF axis
  <2> QED  BY <2>1, <2>2, SMTT(30)
<1>2. FlatIndex(p, s, order) = flat[n]
  BY DEF FlatIndex
<1>0. \A k : axis(k) = Axis(k, s, order)
  BY DEF Axis
<1> HIDE DEF n, axis
<1>3. /\ F \in [Nat \X Nat -> Nat]
      /\ \A k \in 1 .. n, y \in Nat : F[<<k, y>>] = y * s[axis(k)] + p[axis(k)]
  <2>1. \A x \in Nat \X Nat : x[1] \in Nat /\ x[2] \in Nat
    OBVIOUS
  <2>2. \A k \in 1 .. n, y \in Nat :
           <<k, y>> \in Nat \X Nat /\ <<k, y>>[1] = k /\ <<k, y>>[2] = y
    BY <1>1
  <2>3. ASSUME NEW x \in Nat \X Nat
        PROVE  (IF x[1] \in 1 .. n THEN x[2] * s[axis(x[1])] + p[axis(x[1])] ELSE 0) \in Nat
    BY <1>1, <2>1, TimesPlus
  <2> QED  BY <2>2, <2>3
<1> HIDE DEF F
<1>4. PICK g \in [0 .. n -> Nat] : Obeys(g, 0, F, n)
  BY <1>1, <1>3, RecursionExists
<1>5. g = Rec(g)
  <2>1. ASSUME NEW k \in 1 .. n PROVE g[k] = g[k - 1] * s[axis(k)] + p[axis(k)]
    <3>1. k - 1 \in 0 .. n
      BY <1>1
    <3> QED  BY <1>3, <1>4, <3>1 DEF Obeys
  <2> QED  BY <1>1, <1>4, <2>1 DEF Obeys
<1>6. flat = Rec(flat)
  <2> HIDE DEF Rec
  <2> QED  BY <1>5
<1> HIDE DEF flat
<1>7. flat[0] = 0 /\ \A k \in 1 .. n : flat[k] = flat[k - 1] * s[axis(k)] + p[axis(k)]
  BY <1>1, <1>6
<1>8. \A k \in 0 .. n : flat[k] \in Nat
  <2>1. ASSUME NEW k \in 1 .. n, flat[k - 1] \in Nat PROVE flat[k] \in Nat
    <3>1. /\ s[axis(k)] \in Nat /\ p[axis(k)] \in Nat
          /\ flat[k] = flat[k - 1] * s[axis(k)] + p[axis(k)]
      BY <1>1, <1>7
    <3> QED  BY <2>1, <3>1, TimesPlus
  <2>2. flat[0] \in Nat
    BY <1>7
  <2> QED  BY <1>1, <2>1, <2>2, RecursionType, Zenon
<1>9. flat \in [0 .. n -> Nat]
  <2>1. flat = [k \in 0 .. n |-> flat[k]]
    BY <1>6
  <2> HIDE DEF flat
  <2> QED  BY <1>8, <2>1
<1> QED  BY <1>0, <1>2, <1>7, <1>9 DEF PlacesIn, n

\* Row by row, each axis in turn.
Places(flat, p, s) ==
    /\ FlatIndex(p, s, "row_major") = flat[Len(s)]
    /\ flat[0] = 0
    /\ \A k \in 1 .. Len(s) : flat[k] = flat[k - 1] * s[k] + p[k]

LEMMA RowIndexIs ==
    ASSUME NEW s \in Seq(Nat), NEW p \in [1 .. Len(s) -> Nat]
    PROVE  \E flat \in [0 .. Len(s) -> Nat] : Places(flat, p, s)
<1>1. PICK flat \in [0 .. Len(s) -> Nat] : PlacesIn(flat, p, s, "row_major")
  BY FlatIndexIs
<1>2. \A k : Axis(k, s, "row_major") = k
  BY DEF Axis
<1> QED  BY <1>1, <1>2 DEF PlacesIn, Places

LEMMA DigitBelow ==
    ASSUME NEW a \in Nat, NEW b \in Nat, NEW x \in Nat, NEW y \in Nat, a < b, x < y
    PROVE  a * y + x < b * y
<1> DEFINE c == b - a - 1
<1>1. c \in Nat /\ b = a + 1 + c
  OBVIOUS
<1> HIDE DEF c
<1>2. b * y = a * y + y + c * y /\ a * y \in Nat /\ c * y \in Nat
  BY <1>1
<1> QED  BY <1>2

\* A digit v behind a number a, in base y.
Digit(a, v, y) == a * y + v

LEMMA DigitsAgree ==
    \A a, b, v, w, y \in Nat :
        v < y /\ w < y /\ Digit(a, v, y) = Digit(b, w, y) => a = b /\ v = w
<1> SUFFICES ASSUME NEW a \in Nat, NEW b \in Nat, NEW v \in Nat, NEW w \in Nat, NEW y \in Nat,
                    v < y, w < y, a * y + v = b * y + w
             PROVE  a = b /\ v = w
  BY DEF Digit
<1>0. a * y \in Nat /\ b * y \in Nat
  BY TimesPlus
<1>1. ~(a < b)
  <2>1. a < b => a * y + v < b * y
    BY DigitBelow
  <2> QED  BY <1>0, <2>1
<1>2. ~(b < a)
  <2>1. b < a => b * y + w < a * y
    BY DigitBelow
  <2> QED  BY <1>0, <2>1
<1>3. a = b
  BY <1>1, <1>2
<1>4. a * y = b * y
  BY <1>3
<1> QED  BY <1>0, <1>3, <1>4

LEMMA PointIs ==
    ASSUME NEW s \in Seq(Nat), NEW p \in Points(s)
    PROVE  /\ p \in [1 .. Len(s) -> Nat]
           /\ \A d \in 1 .. Len(s) : p[d] \in Nat /\ s[d] \in Nat /\ p[d] < s[d]
  BY PointsAre

\* A point has its place among those of its shape,
LEMMA FlatInRange ==
    ASSUME NEW s \in Seq(Nat), NEW p \in Points(s)
    PROVE  FlatIndex(p, s, "row_major") \in 0 .. (Product(s) - 1) /\ Product(s) \in Nat
<1> DEFINE n == Len(s)
<1>1. n \in Nat /\ p \in [1 .. n -> Nat]
      /\ \A d \in 1 .. n : p[d] \in Nat /\ s[d] \in Nat /\ p[d] < s[d]
  BY PointIs
<1>2. PICK size \in [0 .. n -> Nat] : SizesAxes(size, s)
  BY ProductIs
<1>3. PICK flat \in [0 .. n -> Nat] : Places(flat, p, s)
  BY <1>1, RowIndexIs
<1> HIDE DEF n
<1> DEFINE Good == {k \in Nat : k =< n => flat[k] < size[k]}
<1>4. 0 \in Good
  BY <1>2, <1>3 DEF SizesAxes, Places
<1>5. ASSUME NEW k \in Nat, k \in Good PROVE k + 1 \in Good
  <2> SUFFICES ASSUME k + 1 =< n PROVE flat[k + 1] < size[k + 1]
    OBVIOUS
  <2>1. k + 1 \in 1 .. n /\ k \in 0 .. n /\ (k + 1) - 1 = k /\ k =< n
    BY <1>1
  <2>2. flat[k + 1] = flat[k] * s[k + 1] + p[k + 1] /\ size[k + 1] = size[k] * s[k + 1]
    BY <1>2, <1>3, <2>1 DEF SizesAxes, Places, n
  <2>3. /\ flat[k] \in Nat /\ size[k] \in Nat /\ flat[k] < size[k]
        /\ p[k + 1] \in Nat /\ s[k + 1] \in Nat /\ p[k + 1] < s[k + 1]
    BY <1>1, <1>2, <1>3, <1>5, <2>1
  <2> QED  BY <2>2, <2>3, DigitBelow
<1>6. flat[n] < size[n] /\ flat[n] \in Nat /\ size[n] \in Nat
  <2>1. n \in Good
    <3> HIDE DEF Good
    <3> QED  BY <1>1, <1>4, <1>5, SetInduction
  <2>2. n \in 0 .. n
    BY <1>1
  <2> QED  BY <1>1, <1>2, <1>3, <2>1, <2>2
<1>7. FlatIndex(p, s, "row_major") = flat[n] /\ Product(s) = size[n]
  BY <1>2, <1>3 DEF SizesAxes, Places, n
<1> QED  BY <1>6, <1>7

\* and no other point has it.
LEMMA FlatInjective ==
    ASSUME NEW s \in Seq(Nat), NEW p \in Points(s), NEW q \in Points(s),
           FlatIndex(p, s, "row_major") = FlatIndex(q, s, "row_major")
    PROVE  p = q
<1> DEFINE n == Len(s)
<1>1. n \in Nat /\ p \in [1 .. n -> Nat]
      /\ \A d \in 1 .. n : p[d] \in Nat /\ s[d] \in Nat /\ p[d] < s[d]
  BY PointIs
<1>2. q \in [1 .. n -> Nat] /\ \A d \in 1 .. n : q[d] \in Nat /\ q[d] < s[d]
  BY PointIs
<1>3. PICK f \in [0 .. n -> Nat] : Places(f, p, s)
  BY <1>1, RowIndexIs
<1>4. PICK g \in [0 .. n -> Nat] : Places(g, q, s)
  BY <1>2, RowIndexIs
<1> HIDE DEF n
<1>5. ASSUME NEW d \in 1 .. n, f[d] = g[d] PROVE f[d - 1] = g[d - 1] /\ p[d] = q[d]
  <2>1. f[d] = f[d - 1] * s[d] + p[d] /\ g[d] = g[d - 1] * s[d] + q[d]
    BY <1>3, <1>4 DEF Places, n
  <2>2. f[d - 1] \in Nat /\ g[d - 1] \in Nat
    <3>1. d - 1 \in 0 .. n
      BY <1>1
    <3> QED  BY <1>3, <1>4, <3>1
  <2> DEFINE a == f[d - 1]
             b == g[d - 1]
             v == p[d]
             w == q[d]
             y == s[d]
  <2>3. /\ a \in Nat /\ b \in Nat /\ v \in Nat /\ w \in Nat /\ y \in Nat
        /\ v < y /\ w < y /\ Digit(a, v, y) = Digit(b, w, y)
    BY <1>1, <1>2, <1>5, <2>1, <2>2 DEF Digit
  <2> HIDE DEF a, b, v, w, y
  <2>4. a = b /\ v = w
    BY <2>3, DigitsAgree
  <2> QED  BY <2>4 DEF a, b, v, w
<1> DEFINE Good == {k \in Nat : k =< n => f[n - k] = g[n - k]}
<1>6. 0 \in Good
  <2>1. f[n] = g[n] /\ n - 0 = n
    BY <1>1, <1>3, <1>4 DEF Places, n
  <2> QED  BY <2>1
<1>7. ASSUME NEW k \in Nat, k \in Good PROVE k + 1 \in Good
  <2>1. k + 1 =< n => n - k \in 1 .. n /\ (n - k) - 1 = n - (k + 1) /\ k =< n
    BY <1>1
  <2> QED  BY <1>5, <1>7, <2>1
<1>8. ASSUME NEW d \in 1 .. n PROVE p[d] = q[d]
  <2>1. \A k \in Nat : k \in Good
    <3> HIDE DEF Good
    <3> QED  BY <1>6, <1>7, SetInduction
  <2>2. n - d \in Nat /\ n - d =< n /\ n - (n - d) = d
    BY <1>1
  <2>3. f[d] = g[d]
    BY <2>1, <2>2
  <2> QED  BY <1>5, <2>3
<1> QED  BY <1>1, <1>2, <1>8

\* An array with an element has no axis of length 0, and 0 is the first place.
LEMMA FirstPoint ==
    ASSUME NEW s \in Seq(Nat), Product(s) > 0
    PROVE  /\ [d \in DOMAIN s |-> 0] \in Points(s)
           /\ FlatIndex([d \in DOMAIN s |-> 0], s, "row_major") = 0
<1> DEFINE n == Len(s)
           z == [d \in DOMAIN s |-> 0]
<1>1. n \in Nat /\ z \in [1 .. n -> Nat] /\ \A d \in 1 .. n : z[d] = 0 /\ s[d] \in Nat
  OBVIOUS
<1>2. PICK size \in [0 .. n -> Nat] : SizesAxes(size, s)
  BY ProductIs
<1>3. PICK flat \in [0 .. n -> Nat] : Places(flat, z, s)
  BY <1>1, RowIndexIs
<1> HIDE DEF n, z
<1>4. ASSUME NEW d \in 1 .. n, size[d] > 0 PROVE size[d - 1] > 0 /\ 0 < s[d]
  <2>1. size[d] = size[d - 1] * s[d] /\ size[d - 1] \in Nat /\ s[d] \in Nat
    <3>1. d - 1 \in 0 .. n
      BY <1>1
    <3> QED  BY <1>1, <1>2, <3>1 DEF SizesAxes, n
  <2> DEFINE a == size[d - 1]
             b == s[d]
  <2>2. a \in Nat /\ b \in Nat /\ a * b > 0
    BY <1>4, <2>1
  <2> HIDE DEF a, b
  <2>3. a # 0 /\ b # 0
    <3>1. 0 * b = 0 /\ a * 0 = 0
      BY <2>2
    <3> QED  BY <2>2, <3>1
  <2>4. a > 0 /\ 0 < b
    BY <2>2, <2>3
  <2> QED  BY <2>4 DEF a, b
<1> DEFINE Good == {k \in Nat : k =< n => size[n - k] > 0}
<1>5. 0 \in Good
  <2>1. size[n] > 0 /\ n - 0 = n
    BY <1>1, <1>2 DEF SizesAxes, n
  <2> QED  BY <2>1
<1>6. ASSUME NEW k \in Nat, k \in Good PROVE k + 1 \in Good
  <2>1. k + 1 =< n => n - k \in 1 .. n /\ (n - k) - 1 = n - (k + 1) /\ k =< n
    BY <1>1
  <2> QED  BY <1>4, <1>6, <2>1
<1>7. ASSUME NEW d \in 1 .. n PROVE 0 < s[d]
  <2>1. \A k \in Nat : k \in Good
    <3> HIDE DEF Good
    <3> QED  BY <1>5, <1>6, SetInduction
  <2>2. n - d \in Nat /\ n - d =< n /\ n - (n - d) = d
    BY <1>1
  <2>3. size[d] > 0
    BY <2>1, <2>2
  <2> QED  BY <1>4, <2>3
<1>8. z \in Points(s)
  <2>1. \A d \in 1 .. n : z[d] < s[d]
    BY <1>1, <1>7
  <2> QED  BY <1>1, <2>1, PointsAre DEF n
<1> DEFINE Zero == {k \in Nat : k =< n => flat[k] = 0}
<1>9. 0 \in Zero
  BY <1>3 DEF Places
<1>10. ASSUME NEW k \in Nat, k \in Zero PROVE k + 1 \in Zero
  <2> SUFFICES ASSUME k + 1 =< n PROVE flat[k + 1] = 0
    OBVIOUS
  <2>1. k + 1 \in 1 .. n /\ (k + 1) - 1 = k /\ k =< n
    BY <1>1
  <2>2. flat[k + 1] = flat[k] * s[k + 1] + z[k + 1]
    BY <1>3, <2>1 DEF Places, n
  <2>3. flat[k] = 0 /\ z[k + 1] = 0 /\ s[k + 1] \in Nat
    BY <1>1, <1>10, <2>1
  <2>4. 0 * s[k + 1] = 0
    BY <2>3
  <2> QED  BY <2>2, <2>3, <2>4
<1>11. flat[n] = 0
  <2>1. n \in Zero
    <3> HIDE DEF Zero
    <3> QED  BY <1>1, <1>9, <1>10, SetInduction
  <2> QED  BY <1>1, <2>1
<1> QED  BY <1>3, <1>8, <1>11 DEF Places, n, z

\* The odometer goes to the next place.
LEMMA AdvanceIs ==
    ASSUME NEW s \in Seq(Nat), NEW p \in Points(s),
           FlatIndex(p, s, "row_major") + 1 < Product(s)
    PROVE  LET q == Advance(p, s)
           IN  /\ q \in Points(s)
               /\ FlatIndex(q, s, "row_major") = FlatIndex(p, s, "row_major") + 1
<1> DEFINE n    == Len(s)
           full == {d \in 1 .. n : \A e \in d .. n : p[e] + 1 >= s[e]}
           q    == Advance(p, s)
           P    == 1 .. n
<1>1. n \in Nat /\ p \in [1 .. n -> Nat]
      /\ \A d \in 1 .. n : p[d] \in Nat /\ s[d] \in Nat /\ p[d] < s[d]
  BY PointIs
<1>2. q = [d \in 1 .. n |->
             IF d \in full THEN 0
             ELSE IF (d + 1) \in full \cup {n + 1} THEN p[d] + 1 ELSE p[d]]
  BY DEF Advance
<1>3. PICK size \in [0 .. n -> Nat] : SizesAxes(size, s)
  BY ProductIs
<1>4. PICK f \in [0 .. n -> Nat] : Places(f, p, s)
  BY <1>1, RowIndexIs
<1> HIDE DEF n, q
<1>5. \A d \in 1 .. n : f[d] = f[d - 1] * s[d] + p[d] /\ size[d] = size[d - 1] * s[d]
  BY <1>3, <1>4 DEF SizesAxes, Places, n
<1>6. \A d \in 1 .. n : d - 1 \in 0 .. n /\ f[d - 1] \in Nat /\ size[d - 1] \in Nat
  <2>1. \A d \in 1 .. n : d - 1 \in 0 .. n
    BY <1>1
  <2> QED  BY <1>3, <1>4, <2>1
\* Some axis is not at its end, or p would be the last point.
<1>7. \E d \in 1 .. n : p[d] + 1 < s[d]
  <2> SUFFICES ASSUME \A d \in 1 .. n : ~(p[d] + 1 < s[d]) PROVE FALSE
    OBVIOUS
  <2> DEFINE Good == {k \in Nat : k =< n => f[k] + 1 = size[k]}
  <2>1. 0 \in Good
    BY <1>3, <1>4 DEF SizesAxes, Places
  <2>2. ASSUME NEW k \in Nat, k \in Good PROVE k + 1 \in Good
    <3> SUFFICES ASSUME k + 1 =< n PROVE f[k + 1] + 1 = size[k + 1]
      OBVIOUS
    <3>1. k + 1 \in 1 .. n /\ (k + 1) - 1 = k /\ k =< n
      BY <1>1
    <3> DEFINE a == f[k]
               b == size[k]
               x == p[k + 1]
               y == s[k + 1]
    <3>2. /\ a \in Nat /\ b \in Nat /\ x \in Nat /\ y \in Nat
          /\ f[k + 1] = a * y + x /\ size[k + 1] = b * y
      BY <1>1, <1>5, <1>6, <3>1
    <3>3. a + 1 = b
      BY <2>2, <3>1
    <3>5. x < y /\ ~(x + 1 < y)
      BY <1>1, <3>1
    <3> HIDE DEF a, b, x, y
    <3>4. (a + 1) * y = a * y + y /\ a * y \in Nat
      BY <3>2
    <3> QED  BY <3>2, <3>3, <3>4, <3>5, SMTT(30)
  <2>3. n \in Good
    <3> HIDE DEF Good
    <3> QED  BY <1>1, <2>1, <2>2, SetInduction
  <2>4. f[n] + 1 = size[n] /\ f[n] = FlatIndex(p, s, "row_major") /\ size[n] = Product(s)
    BY <1>1, <1>3, <1>4, <2>3 DEF SizesAxes, Places, n
  <2>5. size[n] \in Nat
    <3>1. n \in 0 .. n
      BY <1>1
    <3> QED  BY <1>3, <3>1
  <2> QED  BY <2>4, <2>5
\* c is the axis that moves on.
<1>8. PICK c \in 1 .. n : p[c] + 1 < s[c] /\ \A e \in (c + 1) .. n : p[e] + 1 = s[e]
  <2> DEFINE W == {k \in 0 .. n : n - k \in 1 .. n /\ p[n - k] + 1 < s[n - k]}
  <2>1. W \in SUBSET Nat /\ W # {}
    <3>1. PICK d \in 1 .. n : p[d] + 1 < s[d]
      BY <1>7
    <3>2. n - d \in 0 .. n /\ n - (n - d) = d
      BY <1>1
    <3>3. n - d \in W
      BY <3>1, <3>2
    <3> QED  BY <3>3
  <2>2. PICK k \in W : \A j \in W : k =< j
    <3> HIDE DEF W
    <3> QED  BY <2>1, LeastNatural
  <2> DEFINE c == n - k
  <2>3. c \in 1 .. n /\ p[c] + 1 < s[c]
    BY <2>2
  <2>4. ASSUME NEW e \in (c + 1) .. n PROVE p[e] + 1 = s[e]
    <3>1. e \in 1 .. n /\ n - e \in 0 .. n /\ n - (n - e) = e /\ ~(k =< n - e)
      BY <1>1, <2>2
    <3>2. ~(p[e] + 1 < s[e])
      BY <2>2, <3>1
    <3>3. p[e] \in Nat /\ s[e] \in Nat /\ p[e] < s[e]
      BY <1>1, <3>1
    <3> QED  BY <3>2, <3>3
  <2> QED  BY <2>3, <2>4
<1>9. full = (c + 1) .. n
  <2>1. ASSUME NEW d \in full PROVE d \in (c + 1) .. n
    <3>1. d \in 1 .. n /\ ~(c \in d .. n)
      BY <1>1, <1>8, SMTT(30)
    <3> QED  BY <1>1, <3>1
  <2>2. ASSUME NEW d \in (c + 1) .. n PROVE d \in full
    <3>1. d \in 1 .. n /\ \A e \in d .. n : e \in (c + 1) .. n /\ e \in 1 .. n
      BY <1>1
    <3>2. \A e \in d .. n : p[e] + 1 >= s[e]
      BY <1>1, <1>8, <3>1
    <3> QED  BY <3>1, <3>2
  <2> HIDE DEF full
  <2> QED  BY <2>1, <2>2
<1> HIDE DEF full
<1>10. /\ \A d \in 1 .. (c - 1) : d \in 1 .. n /\ q[d] = p[d]
       /\ q[c] = p[c] + 1
       /\ \A d \in (c + 1) .. n : d \in 1 .. n /\ q[d] = 0
  <2>1. c \in 1 .. n /\ c \notin full /\ c + 1 \in full \cup {n + 1}
    BY <1>1, <1>9
  <2>2. \A d \in 1 .. (c - 1) : d \in 1 .. n /\ d \notin full /\ d + 1 \notin full \cup {n + 1}
    BY <1>1, <1>9
  <2>3. \A d \in (c + 1) .. n : d \in 1 .. n /\ d \in full
    BY <1>1, <1>9
  <2> QED  BY <1>2, <2>1, <2>2, <2>3
<1>11. \A d \in 1 .. n : d \in 1 .. (c - 1) \/ d = c \/ d \in (c + 1) .. n
  BY <1>1
<1>12. q \in [1 .. n -> Nat] /\ \A d \in 1 .. n : q[d] < s[d] /\ q[d] \in Nat
  <2>1. \A d \in 1 .. n : q[d] \in Nat /\ q[d] < s[d]
    <3> SUFFICES ASSUME NEW d \in 1 .. n PROVE q[d] \in Nat /\ q[d] < s[d]
      OBVIOUS
    <3>1. CASE d \in 1 .. (c - 1)
      <4>1. q[d] = p[d]
        BY <1>10, <3>1
      <4> QED  BY <1>1, <4>1
    <3>2. CASE d = c
      <4>1. q[d] = p[d] + 1 /\ p[d] + 1 < s[d] /\ p[d] \in Nat
        BY <1>1, <1>8, <1>10, <3>2
      <4> QED  BY <4>1
    <3>3. CASE d \in (c + 1) .. n
      <4>1. q[d] = 0 /\ p[d] \in Nat /\ s[d] \in Nat /\ p[d] < s[d]
        BY <1>1, <1>10, <3>3
      <4> QED  BY <4>1
    <3> QED  BY <1>11, <3>1, <3>2, <3>3
  <2> QED  BY <1>2, <2>1
<1>13. q \in Points(s)
  BY <1>12, PointsAre DEF n
<1>14. PICK g \in [0 .. n -> Nat] : Places(g, q, s)
  BY <1>12, RowIndexIs DEF n
<1>15. \A d \in 1 .. n : g[d] = g[d - 1] * s[d] + q[d] /\ g[d - 1] \in Nat
  BY <1>6, <1>14 DEF Places, n
<1> DEFINE Good == {k \in Nat : k =< n => g[k] = IF k < c THEN f[k] ELSE f[k] + 1}
<1>16. 0 \in Good
  BY <1>4, <1>14 DEF Places
<1>17. ASSUME NEW k \in Nat, k \in Good PROVE k + 1 \in Good
  <2> SUFFICES ASSUME k + 1 =< n
               PROVE  g[k + 1] = IF k + 1 < c THEN f[k + 1] ELSE f[k + 1] + 1
    OBVIOUS
  <2>1. k + 1 \in 1 .. n /\ (k + 1) - 1 = k /\ k =< n
    BY <1>1
  <2> DEFINE a == f[k]
             b == g[k]
             y == s[k + 1]
             x == p[k + 1]
             v == q[k + 1]
  <2>2. /\ a \in Nat /\ b \in Nat /\ x \in Nat /\ y \in Nat /\ v \in Nat
        /\ f[k + 1] = a * y + x /\ g[k + 1] = b * y + v
    BY <1>1, <1>5, <1>6, <1>12, <1>15, <2>1
  <2>3. b = IF k < c THEN a ELSE a + 1
    BY <1>17, <2>1
  <2>4. CASE k + 1 < c
    <3>1. k + 1 \in 1 .. (c - 1) /\ k < c
      BY <2>4
    <3>2. v = x /\ b = a
      BY <1>10, <2>3, <3>1
    <3> HIDE DEF a, b, x, y, v
    <3> QED  BY <2>2, <2>4, <3>2
  <2>5. CASE k + 1 = c
    <3>1. v = x + 1 /\ b = a
      BY <1>10, <2>3, <2>5
    <3> HIDE DEF a, b, x, y, v
    <3>2. g[k + 1] = a * y + (x + 1) /\ a * y \in Nat
      BY <2>2, <3>1
    <3> QED  BY <2>2, <2>5, <3>2
  <2>6. CASE k + 1 > c
    <3>1. k + 1 \in (c + 1) .. n /\ ~(k < c)
      BY <2>1, <2>6
    <3>2. v = 0 /\ b = a + 1 /\ x + 1 = y
      BY <1>8, <1>10, <2>3, <3>1
    <3> HIDE DEF a, b, x, y, v
    <3>3. (a + 1) * y = a * y + y /\ a * y \in Nat
      BY <2>2
    <3>4. g[k + 1] = f[k + 1] + 1
      BY <2>2, <3>2, <3>3
    <3> QED  BY <2>6, <3>4
  <2>7. k + 1 < c \/ k + 1 = c \/ k + 1 > c
    BY <2>1
  <2> QED  BY <2>4, <2>5, <2>6, <2>7
<1>18. g[n] = f[n] + 1
  <2>1. n \in Good
    <3> HIDE DEF Good
    <3> QED  BY <1>1, <1>16, <1>17, SetInduction
  <2> QED  BY <1>1, <2>1
<1> QED  BY <1>4, <1>13, <1>14, <1>18 DEF Places, n, q

\* All places of a shape are taken, each by one point.
LEMMA RowsNumberPoints ==
    ASSUME NEW s \in Seq(Nat)
    PROVE  /\ Product(s) \in Nat
           /\ IsFiniteSet(Points(s)) /\ Cardinality(Points(s)) = Product(s)
           /\ {FlatIndex(p, s, "row_major") : p \in Points(s)} = 0 .. (Product(s) - 1)
<1> DEFINE N     == Product(s)
           P     == Points(s)
           At(p) == FlatIndex(p, s, "row_major")
           T     == 0 .. (N - 1)
           f     == [p \in P |-> At(p)]
<1>1. N \in Nat
  <2>1. PICK size \in [0 .. Len(s) -> Nat] : SizesAxes(size, s)
    BY ProductIs
  <2>2. Len(s) \in 0 .. Len(s)
    OBVIOUS
  <2> QED  BY <2>1, <2>2 DEF SizesAxes
<1>2. \A p \in P : At(p) \in T
  BY FlatInRange
<1>3. \A p, q \in P : At(p) = At(q) => p = q
  BY FlatInjective
<1>4. N > 0 => \E p \in P : At(p) = 0
  BY FirstPoint
<1>5. \A p \in P : At(p) + 1 < N => \E q \in P : At(q) = At(p) + 1
  BY AdvanceIs
<1> HIDE DEF N, P, At
<1>6. \A t \in T : \E p \in P : At(p) = t
  <2> DEFINE Good == {t \in Nat : t < N => \E p \in P : At(p) = t}
  <2>1. 0 \in Good
    BY <1>4
  <2>2. ASSUME NEW t \in Nat, t \in Good PROVE t + 1 \in Good
    <3> SUFFICES ASSUME t + 1 < N PROVE \E p \in P : At(p) = t + 1
      OBVIOUS
    <3>1. PICK p \in P : At(p) = t
      BY <1>1, <2>2
    <3> QED  BY <1>5, <3>1
  <2>3. \A t \in Nat : t \in Good
    <3> HIDE DEF Good
    <3> QED  BY <2>1, <2>2, SetInduction
  <2> QED  BY <1>1, <2>3
<1>7. f \in Injection(P, T) /\ f \in Surjection(P, T)
  <2>1. f \in [P -> T] /\ \A p \in P : f[p] = At(p)
    BY <1>2
  <2> HIDE DEF f, T
  <2>2. f \in Injection(P, T)
    BY <1>3, <2>1 DEF Injection, IsInjective
  <2>3. f \in Surjection(P, T)
    BY <1>6, <2>1 DEF Surjection
  <2> QED  BY <2>2, <2>3
<1>8. IsFiniteSet(T) /\ Cardinality(T) = N
  <2>1. 0 \in Int /\ N - 1 \in Int
    BY <1>1
  <2>2. IsFiniteSet(T) /\ Cardinality(T) = IF 0 > N - 1 THEN 0 ELSE N - 1 - 0 + 1
    BY <2>1, FS_Interval
  <2> HIDE DEF T
  <2> QED  BY <1>1, <2>2
<1> HIDE DEF f
<1>9. IsFiniteSet(P) /\ Cardinality(P) = N
  <2> HIDE DEF T
  <2> QED  BY <1>7, <1>8, FS_Injection
<1>10. {At(p) : p \in P} = T
  BY <1>2, <1>6
<1> QED  BY <1>1, <1>9, <1>10 DEF N, P, At

\* Permuting the axes takes points to points, one to one.
LEMMA PermutedIs ==
    ASSUME NEW s \in Seq(Nat), NEW perm \in Bijection(DOMAIN s, DOMAIN s)
    PROVE  LET t == Permuted(s, perm)
           IN  /\ t \in Seq(Nat) /\ Len(t) = Len(s) /\ DOMAIN perm = 1 .. Len(s)
               /\ \A p \in Points(s) : Permuted(p, perm) \in Points(t)
               /\ \A p, q \in Points(s) : Permuted(p, perm) = Permuted(q, perm) => p = q
               /\ \A r \in Points(t) : \E p \in Points(s) : Permuted(p, perm) = r
<1> DEFINE n == Len(s)
           D == 1 .. n
           t == Permuted(s, perm)
<1>1. n \in Nat /\ DOMAIN s = D /\ \A d \in D : s[d] \in Nat
  OBVIOUS
<1>2. /\ perm \in [D -> D] /\ DOMAIN perm = D
      /\ \A i, j \in D : perm[i] = perm[j] => i = j
      /\ \A d \in D : \E k \in D : perm[k] = d
  BY <1>1 DEF Bijection, Injection, Surjection, IsInjective
<1>3. t = [k \in D |-> s[perm[k]]] /\ \A p : Permuted(p, perm) = [k \in D |-> p[perm[k]]]
  BY <1>2 DEF Permuted
<1>4. t \in Seq(Nat) /\ Len(t) = n /\ \A k \in D : t[k] = s[perm[k]]
  <2>1. t \in [1 .. n -> Nat]
    BY <1>1, <1>2, <1>3
  <2> HIDE DEF t
  <2> QED  BY <1>1, <1>3, <2>1
<1> HIDE DEF t
<1>5. Points(t) = {p \in [D -> Nat] : \A d \in D : p[d] < t[d]}
  BY <1>4, PointsAre
<1>6. Points(s) = {p \in [D -> Nat] : \A d \in D : p[d] < s[d]}
  BY PointsAre
<1> HIDE DEF D, n
<1>7. ASSUME NEW p \in Points(s) PROVE Permuted(p, perm) \in Points(t)
  <2>1. p \in [D -> Nat] /\ \A d \in D : p[d] < s[d]
    BY <1>6
  <2> DEFINE r == [k \in D |-> p[perm[k]]]
  <2>2. r \in [D -> Nat] /\ \A k \in D : r[k] < t[k]
    <3>1. \A k \in D : r[k] = p[perm[k]] /\ perm[k] \in D
      BY <1>2
    <3>2. \A k \in D : p[perm[k]] \in Nat /\ p[perm[k]] < s[perm[k]]
      BY <1>2, <2>1
    <3>3. r = [k \in D |-> r[k]]
      OBVIOUS
    <3> HIDE DEF r
    <3> QED  BY <1>4, <3>1, <3>2, <3>3
  <2>3. Permuted(p, perm) = r
    BY <1>3
  <2> HIDE DEF r
  <2> QED  BY <1>5, <2>2, <2>3
<1>8. ASSUME NEW p \in Points(s), NEW q \in Points(s), Permuted(p, perm) = Permuted(q, perm)
      PROVE  p = q
  <2>1. p \in [D -> Nat] /\ q \in [D -> Nat]
    BY <1>6
  <2>2. \A k \in D : p[perm[k]] = q[perm[k]]
    BY <1>3, <1>8
  <2>3. \A d \in D : p[d] = q[d]
    BY <1>2, <2>2
  <2> QED  BY <2>1, <2>3
<1>9. ASSUME NEW r \in Points(t) PROVE \E p \in Points(s) : Permuted(p, perm) = r
  <2> DEFINE p == [d \in D |-> r[CHOOSE k \in D : perm[k] = d]]
  <2>1. r \in [D -> Nat] /\ \A k \in D : r[k] < t[k]
    BY <1>5
  <2>2. \A k \in D : p[perm[k]] = r[k]
    <3> SUFFICES ASSUME NEW k \in D PROVE p[perm[k]] = r[k]
      OBVIOUS
    <3>1. perm[k] \in D /\ (CHOOSE j \in D : perm[j] = perm[k]) = k
      BY <1>2
    <3> QED  BY <3>1
  <2>3. p \in [D -> Nat] /\ \A d \in D : p[d] < s[d]
    <3>1. ASSUME NEW d \in D PROVE p[d] \in Nat /\ p[d] < s[d]
      <4>1. PICK k \in D : perm[k] = d
        BY <1>2
      <4> HIDE DEF p
      <4>2. r[k] \in Nat /\ r[k] < t[k] /\ p[d] = r[k]
        BY <2>1, <2>2, <4>1
      <4>3. t[k] = s[d]
        BY <1>4, <4>1
      <4> QED  BY <4>2, <4>3
    <3> QED  BY <3>1
  <2>4. Permuted(p, perm) = r
    <3> HIDE DEF p
    <3> QED  BY <1>3, <2>1, <2>2
  <2> HIDE DEF p
  <2> QED  BY <1>6, <2>3, <2>4
<1> QED  BY <1>2, <1>4, <1>7, <1>8, <1>9 DEF t, n, D

LEMMA PermutedProduct ==
    ASSUME NEW s \in Seq(Nat), NEW perm \in Bijection(DOMAIN s, DOMAIN s)
    PROVE  Product(Permuted(s, perm)) = Product(s)
<1> DEFINE t == Permuted(s, perm)
           S == Points(s)
           T == Points(t)
           f == [p \in S |-> Permuted(p, perm)]
<1>1. /\ t \in Seq(Nat)
      /\ \A p \in S : Permuted(p, perm) \in T
      /\ \A p, q \in S : Permuted(p, perm) = Permuted(q, perm) => p = q
      /\ \A r \in T : \E p \in S : Permuted(p, perm) = r
  BY PermutedIs
<1>2. IsFiniteSet(S) /\ Cardinality(S) = Product(s)
  BY RowsNumberPoints
<1> HIDE DEF t
<1>3. Cardinality(T) = Product(t)
  BY <1>1, RowsNumberPoints
<1> HIDE DEF S, T
<1>4. f \in [S -> T] /\ \A p \in S : f[p] = Permuted(p, perm)
  BY <1>1
<1> HIDE DEF f
<1>5. f \in Bijection(S, T)
  BY <1>1, <1>4 DEF Bijection, Injection, Surjection, IsInjective
<1>6. Cardinality(T) = Cardinality(S)
  BY <1>2, <1>5, FS_Bijection DEF ExistsBijection
<1> QED  BY <1>2, <1>3, <1>6 DEF t

\* Column by column is row by row of the axes reversed.
LEMMA ColumnsAreRows ==
    ASSUME NEW s \in Seq(Nat)
    PROVE  \E rev \in Bijection(DOMAIN s, DOMAIN s) :
              \A p \in Points(s) :
                 FlatIndex(p, s, "column_major")
                    = FlatIndex(Permuted(p, rev), Permuted(s, rev), "row_major")
<1> DEFINE n   == Len(s)
           D   == 1 .. n
           rev == [k \in D |-> n + 1 - k]
           t   == Permuted(s, rev)
<1>1. n \in Nat /\ DOMAIN s = D
  OBVIOUS
<1> HIDE DEF n
<1>2. /\ rev \in [D -> D] /\ \A k \in D : rev[k] = n + 1 - k /\ n + 1 - k \in D
      /\ \A k \in D : rev[n + 1 - k] = k
  BY <1>1
<1>3. rev \in Bijection(D, D)
  <2>1. \A i, j \in D : rev[i] = rev[j] => i = j
    BY <1>1
  <2>2. \A d \in D : \E k \in D : rev[k] = d
    BY <1>2
  <2> HIDE DEF rev, D
  <2> QED  BY <1>2, <2>1, <2>2 DEF Bijection, Injection, Surjection, IsInjective
<1> HIDE DEF rev, D
<1>4. ASSUME NEW p \in Points(s)
      PROVE  FlatIndex(p, s, "column_major") = FlatIndex(Permuted(p, rev), t, "row_major")
  <2> DEFINE q == Permuted(p, rev)
  <2>1. t \in Seq(Nat) /\ Len(t) = n /\ DOMAIN rev = D /\ q \in Points(t)
    BY <1>1, <1>3, PermutedIs DEF n, D
  <2>2. \A k \in D : t[k] = s[n + 1 - k] /\ q[k] = p[n + 1 - k]
    BY <1>2, <2>1 DEF Permuted
  <2> HIDE DEF t, q
  <2>3. PICK f \in [0 .. n -> Nat] : PlacesIn(f, p, s, "column_major")
    BY PointIs, FlatIndexIs DEF n
  <2>4. PICK g \in [0 .. n -> Nat] : Places(g, q, t)
    BY <2>1, PointIs, RowIndexIs
  <2>5. /\ f[0] = 0 /\ g[0] = 0
        /\ \A k \in 1 .. n : f[k] = f[k - 1] * s[n + 1 - k] + p[n + 1 - k]
        /\ \A k \in 1 .. n : g[k] = g[k - 1] * t[k] + q[k]
    <3>1. \A k : Axis(k, s, "column_major") = n + 1 - k
      BY DEF Axis, n
    <3> QED  BY <2>1, <2>3, <2>4, <3>1 DEF PlacesIn, Places, n
  <2> DEFINE Good == {k \in Nat : k =< n => f[k] = g[k]}
  <2>6. 0 \in Good
    BY <2>5
  <2>7. ASSUME NEW k \in Nat, k \in Good PROVE k + 1 \in Good
    <3>1. k + 1 =< n => k + 1 \in 1 .. n /\ k + 1 \in D /\ (k + 1) - 1 = k /\ k =< n
      BY <1>1 DEF D
    <3> QED  BY <2>2, <2>5, <2>7, <3>1
  <2>8. f[n] = g[n]
    <3>1. n \in Good
      <4> HIDE DEF Good
      <4> QED  BY <1>1, <2>6, <2>7, SetInduction
    <3> QED  BY <1>1, <3>1
  <2> QED  BY <2>1, <2>3, <2>4, <2>8 DEF PlacesIn, Places, n, q
<1> QED  BY <1>1, <1>3, <1>4 DEF t

LEMMA FlatIndexNumbers ==
    ASSUME NEW s \in Seq(Nat) PROVE FlatIndexNumbersPoints(s)
<1> DEFINE N == Product(s)
<1>1. /\ N \in Nat /\ Cardinality(Points(s)) = N
      /\ {FlatIndex(p, s, "row_major") : p \in Points(s)} = 0 .. (N - 1)
  BY RowsNumberPoints
<1>2. {FlatIndex(p, s, "column_major") : p \in Points(s)} = 0 .. (N - 1)
  <2>1. PICK rev \in Bijection(DOMAIN s, DOMAIN s) :
            \A p \in Points(s) :
               FlatIndex(p, s, "column_major")
                  = FlatIndex(Permuted(p, rev), Permuted(s, rev), "row_major")
    BY ColumnsAreRows
  <2> DEFINE t == Permuted(s, rev)
  <2>2. /\ t \in Seq(Nat) /\ Product(t) = N
        /\ \A p \in Points(s) : Permuted(p, rev) \in Points(t)
        /\ \A r \in Points(t) : \E p \in Points(s) : Permuted(p, rev) = r
    BY PermutedIs, PermutedProduct
  <2> HIDE DEF t, N
  <2>3. {FlatIndex(r, t, "row_major") : r \in Points(t)} = 0 .. (N - 1)
    BY <2>2, RowsNumberPoints
  <2>4. \A p \in Points(s) : FlatIndex(p, s, "column_major") = FlatIndex(Permuted(p, rev), t, "row_major")
    BY <2>1 DEF t
  <2> QED  BY <2>2, <2>3, <2>4
<1>3. s # <<>> => FlatSize(s) = N
  BY DEF FlatSize
<1> HIDE DEF N
<1> QED  BY <1>1, <1>2, <1>3 DEF FlatIndexNumbersPoints

\* permute_axes counts through index, and fills result.
Permutes(index, result, data, s, perm) ==
    LET N == FlatSize(s)
    IN  /\ PermuteAxes(data, s, perm) = result[N]
        /\ index[0] = [d \in DOMAIN s |-> 0]
        /\ \A i \in 1 .. N : index[i] = Advance(index[i - 1], s)
        /\ \A i \in 1 .. N :
              result[i] = [result[i - 1] EXCEPT
                             ![FlatIndex(Permuted(index[i - 1], perm), Permuted(s, perm), "row_major") + 1]
                                 = data[i]]

LEMMA PermuteAxesIs ==
    ASSUME NEW s \in Seq(Nat), NEW perm, NEW data \in Seq(Int), Len(data) = FlatSize(s),
           FlatSize(s) \in Nat
    PROVE  \E index, result :
              /\ Permutes(index, result, data, s, perm)
              /\ result \in [0 .. FlatSize(s) -> [1 .. FlatSize(s) -> Int]]
<1> DEFINE n       == Len(s)
           N       == FlatSize(s)
           I       == [1 .. n -> Int]
           R       == [1 .. N -> Int]
           zero    == [d \in DOMAIN s |-> 0]
           empty   == [k \in 1 .. N |-> 0]
           RecI(f) == [i \in 0 .. N |-> IF i = 0 THEN zero ELSE Advance(f[i - 1], s)]
           index   == CHOOSE f : f = RecI(f)
           Place(i) == FlatIndex(Permuted(index[i - 1], perm), Permuted(s, perm), "row_major") + 1
           Put(x, i) == [x EXCEPT ![Place(i)] = data[i]]
           RecR(f) == [i \in 0 .. N |-> IF i = 0 THEN empty ELSE Put(f[i - 1], i)]
           result  == CHOOSE f : f = RecR(f)
           FI      == [x \in Nat \X I |-> Advance(x[2], s)]
           FR      == [x \in Nat \X R |->
                         IF x[1] \in 1 .. N THEN Put(x[2], x[1]) ELSE x[2]]
<1>1. n \in Nat /\ N \in Nat /\ zero \in I /\ empty \in R /\ \A i \in 1 .. N : data[i] \in Int
  OBVIOUS
<1>2. \A x \in I : Advance(x, s) \in I
  BY DEF Advance
<1>3. PermuteAxes(data, s, perm) = result[N]
  BY DEF PermuteAxes
<1> HIDE DEF n, N, zero, I
<1>4. FI \in [Nat \X I -> I] /\ \A i \in Nat, x \in I : FI[<<i, x>>] = Advance(x, s)
  <2>1. \A x \in Nat \X I : x[2] \in I
    OBVIOUS
  <2>2. \A i \in Nat, x \in I : <<i, x>> \in Nat \X I /\ <<i, x>>[2] = x
    OBVIOUS
  <2> QED  BY <1>2, <2>1, <2>2
<1> HIDE DEF FI
<1>5. PICK g \in [0 .. N -> I] : Obeys(g, zero, FI, N)
  BY <1>1, <1>4, RecursionExists
<1>6. g = RecI(g)
  <2>1. ASSUME NEW i \in 1 .. N PROVE g[i] = Advance(g[i - 1], s)
    <3>1. i - 1 \in 0 .. N /\ i \in Nat
      BY <1>1
    <3> QED  BY <1>4, <1>5, <3>1 DEF Obeys
  <2> QED  BY <1>1, <1>5, <2>1 DEF Obeys
<1>7. index = RecI(index)
  <2> HIDE DEF RecI
  <2> QED  BY <1>6
<1> HIDE DEF index
<1>8. index[0] = zero /\ \A i \in 1 .. N : index[i] = Advance(index[i - 1], s)
  BY <1>1, <1>7
<1> HIDE DEF Place, R, empty
<1>15. \A x \in R, i \in 1 .. N : Put(x, i) \in R
  BY <1>1 DEF R
<1> HIDE DEF Put
<1>9. /\ FR \in [Nat \X R -> R]
      /\ \A i \in 1 .. N, x \in R : FR[<<i, x>>] = Put(x, i)
  <2>1. \A x \in Nat \X R : x[1] \in Nat /\ x[2] \in R
    OBVIOUS
  <2>2. \A i \in 1 .. N, x \in R : <<i, x>> \in Nat \X R /\ <<i, x>>[1] = i /\ <<i, x>>[2] = x
    BY <1>1
  <2> QED  BY <1>15, <2>1, <2>2
<1> HIDE DEF FR
<1>10. PICK h \in [0 .. N -> R] : Obeys(h, empty, FR, N)
  BY <1>1, <1>9, RecursionExists
<1>11. h = RecR(h)
  <2>1. ASSUME NEW i \in 1 .. N PROVE h[i] = Put(h[i - 1], i)
    <3>1. i - 1 \in 0 .. N
      BY <1>1
    <3> QED  BY <1>9, <1>10, <3>1 DEF Obeys
  <2> QED  BY <1>1, <1>10, <2>1 DEF Obeys
<1>12. result = RecR(result)
  <2> HIDE DEF RecR
  <2> QED  BY <1>11
<1> HIDE DEF result
<1>13. result[0] = empty /\ \A i \in 1 .. N : result[i] = Put(result[i - 1], i)
  BY <1>1, <1>12
<1>14. result \in [0 .. N -> R]
  <2>1. ASSUME NEW i \in 1 .. N, result[i - 1] \in R PROVE result[i] \in R
    BY <1>13, <1>15, <2>1
  <2>2. result[0] \in R
    BY <1>1, <1>13
  <2>3. \A i \in 0 .. N : result[i] \in R
    BY <1>1, <2>1, <2>2, RecursionType, Zenon
  <2>4. result = [i \in 0 .. N |-> result[i]]
    BY <1>12
  <2> HIDE DEF result
  <2> QED  BY <2>3, <2>4
<1> QED  BY <1>3, <1>8, <1>13, <1>14 DEF Permutes, N, R, zero, Place, Put

\* The odometer stands on the t-th point after t steps.
LEMMA OdometerIs ==
    ASSUME NEW s \in Seq(Nat), NEW index, index[0] = [d \in DOMAIN s |-> 0],
           \A i \in 1 .. Product(s) : index[i] = Advance(index[i - 1], s)
    PROVE  \A t \in 0 .. (Product(s) - 1) :
              index[t] \in Points(s) /\ FlatIndex(index[t], s, "row_major") = t
<1> DEFINE N     == Product(s)
           P     == Points(s)
           At(p) == FlatIndex(p, s, "row_major")
           Good  == {t \in Nat : t < N => index[t] \in P /\ At(index[t]) = t}
<1>1. N \in Nat
  BY RowsNumberPoints
<1>2. 0 \in Good
  BY FirstPoint
<1>3. ASSUME NEW t \in Nat, t \in Good PROVE t + 1 \in Good
  <2> SUFFICES ASSUME t + 1 < N PROVE index[t + 1] \in P /\ At(index[t + 1]) = t + 1
    OBVIOUS
  <2>1. t < N /\ t + 1 \in 1 .. N /\ (t + 1) - 1 = t
    BY <1>1
  <2>2. index[t] \in P /\ At(index[t]) = t
    BY <1>3, <2>1
  <2>3. index[t + 1] = Advance(index[t], s)
    BY <2>1
  <2> QED  BY <2>2, <2>3, AdvanceIs
<1>4. \A t \in Nat : t \in Good
  <2> HIDE DEF Good
  <2> QED  BY <1>2, <1>3, SetInduction
<1> HIDE DEF N, P, At
<1>5. \A t \in 0 .. (N - 1) : index[t] \in P /\ At(index[t]) = t
  BY <1>1, <1>4
<1> QED  BY <1>5 DEF N, P, At

\* No step undoes an earlier one: the places are different.
LEMMA PermuteAxesMoves ==
    ASSUME NEW s \in Seq(Nat), NEW perm \in Bijection(DOMAIN s, DOMAIN s),
           NEW data \in Seq(Int), Len(data) = FlatSize(s)
    PROVE  PermuteAxesMovesPoints(data, s, perm)
<1> DEFINE N     == FlatSize(s)
           P     == Points(s)
           At(p) == FlatIndex(p, s, "row_major")
           To(p) == FlatIndex(Permuted(p, perm), Permuted(s, perm), "row_major")
           out   == PermuteAxes(data, s, perm)
<1>1. N \in Nat /\ (s # <<>> => N = Product(s)) /\ (s = <<>> => N = 0)
  BY RowsNumberPoints DEF FlatSize
<1>2. PICK index, result :
          /\ Permutes(index, result, data, s, perm)
          /\ result \in [0 .. N -> [1 .. N -> Int]]
  BY <1>1, PermuteAxesIs
<1>3. /\ out = result[N]
      /\ \A i \in 1 .. N : result[i] = [result[i - 1] EXCEPT ![To(index[i - 1]) + 1] = data[i]]
  BY <1>2 DEF Permutes
<1>4. \A t \in 0 .. (N - 1) : index[t] \in P /\ At(index[t]) = t
  <2>1. CASE s = <<>>
    BY <1>1, <2>1
  <2>2. CASE s # <<>>
    <3>1. N = Product(s)
      BY <1>1, <2>2
    <3>2. index[0] = [d \in DOMAIN s |-> 0] /\ \A i \in 1 .. Product(s) : index[i] = Advance(index[i - 1], s)
      BY <1>2, <3>1 DEF Permutes
    <3>3. \A t \in 0 .. (Product(s) - 1) : index[t] \in P /\ At(index[t]) = t
      BY <3>2, OdometerIs
    <3> HIDE DEF N, P, At
    <3> QED  BY <3>1, <3>3
  <2> QED  BY <2>1, <2>2
<1>5. \A p, q \in P : At(p) = At(q) => p = q
  BY FlatInjective
<1>6. s # <<>> => \A p \in P : At(p) \in 0 .. (N - 1) /\ To(p) \in 0 .. (N - 1)
  <2> SUFFICES ASSUME s # <<>>, NEW p \in P PROVE At(p) \in 0 .. (N - 1) /\ To(p) \in 0 .. (N - 1)
    OBVIOUS
  <2>1. At(p) \in 0 .. (Product(s) - 1)
    BY FlatInRange
  <2>2. To(p) \in 0 .. (Product(s) - 1)
    BY PermutedIs, PermutedProduct, FlatInRange
  <2>3. N = Product(s)
    BY <1>1
  <2> HIDE DEF N, At, To
  <2> QED  BY <2>1, <2>2, <2>3
<1>7. \A p, q \in P : To(p) = To(q) => p = q
  <2> SUFFICES ASSUME NEW p \in P, NEW q \in P, To(p) = To(q) PROVE p = q
    OBVIOUS
  <2>1. /\ Permuted(s, perm) \in Seq(Nat)
        /\ Permuted(p, perm) \in Points(Permuted(s, perm))
        /\ Permuted(q, perm) \in Points(Permuted(s, perm))
    BY PermutedIs
  <2>2. Permuted(p, perm) = Permuted(q, perm)
    BY <2>1, FlatInjective
  <2> QED  BY <2>2, PermutedIs
<1>8. N > 0 => s # <<>>
  BY <1>1
<1> HIDE DEF N, P, At, To
<1> DEFINE Done(i) == \A t \in 0 .. (i - 1) : result[i][To(index[t]) + 1] = data[t + 1]
           Good    == {i \in Nat : i =< N => Done(i)}
<1>9. 0 \in Good
  OBVIOUS
<1>10. ASSUME NEW i \in Nat, i \in Good PROVE i + 1 \in Good
  <2> SUFFICES ASSUME i + 1 =< N, NEW t \in 0 .. i
               PROVE  result[i + 1][To(index[t]) + 1] = data[t + 1]
    OBVIOUS
  <2>1. /\ i + 1 \in 1 .. N /\ (i + 1) - 1 = i /\ i \in 0 .. N /\ i =< N
        /\ i \in 0 .. (N - 1) /\ t \in 0 .. (N - 1) /\ N > 0
    BY <1>1
  <2> DEFINE x == result[i]
             a == To(index[i]) + 1
             b == To(index[t]) + 1
  <2>2. result[i + 1] = [x EXCEPT ![a] = data[i + 1]]
    BY <1>3, <2>1
  <2>3. DOMAIN x = 1 .. N
    BY <1>2, <2>1 DEF N
  <2>4. index[i] \in P /\ At(index[i]) = i /\ index[t] \in P /\ At(index[t]) = t
    BY <1>4, <2>1
  <2>5. To(index[i]) \in 0 .. (N - 1) /\ To(index[t]) \in 0 .. (N - 1)
    BY <1>6, <1>8, <2>1, <2>4
  <2>6. a \in 1 .. N /\ b \in 1 .. N
    BY <1>1, <2>5
  <2>7. CASE t = i
    BY <2>2, <2>3, <2>6, <2>7
  <2>8. CASE t # i
    <3>1. index[t] # index[i]
      BY <2>4, <2>8
    <3>2. a # b
      <4>1. To(index[t]) # To(index[i])
        BY <1>7, <2>4, <3>1
      <4> QED  BY <1>1, <2>5, <4>1
    <3>3. x[b] = data[t + 1]
      BY <1>10, <2>1, <2>8
    <3> HIDE DEF x, a, b
    <3>4. result[i + 1][b] = x[b]
      BY <2>2, <2>3, <2>6, <3>2
    <3> QED  BY <3>3, <3>4 DEF b
  <2> QED  BY <2>7, <2>8
<1>11. Done(N)
  <2>1. N \in Good
    <3> HIDE DEF Good
    <3> QED  BY <1>1, <1>9, <1>10, SetInduction
  <2> QED  BY <1>1, <2>1
<1>12. Len(out) = N
  <2>1. out \in [1 .. N -> Int]
    BY <1>1, <1>2, <1>3 DEF N
  <2> HIDE DEF out
  <2> QED  BY <1>1, <2>1
<1>13. ASSUME s # <<>>, NEW p \in P PROVE out[To(p) + 1] = data[At(p) + 1]
  <2>1. At(p) \in 0 .. (N - 1)
    BY <1>6, <1>13
  <2>2. index[At(p)] = p
    BY <1>4, <1>5, <2>1
  <2>3. result[N][To(index[At(p)]) + 1] = data[At(p) + 1]
    BY <1>11, <2>1
  <2> QED  BY <1>3, <2>2, <2>3
<1> QED  BY <1>12, <1>13 DEF PermuteAxesMovesPoints, N, P, At, To

-----------------------------------------------------------------------------
(* Whatever input is picked. *)

InputInv == input \in {NoInput} \cup Inputs

LEMMA InputsArePicked == Spec => []InputInv
<1>1. Init => InputInv
  BY DEF Init, InputInv
<1>2. InputInv /\ [Next]_input => InputInv'
  BY DEF InputInv, Next, Pick, Forget
<1> QED  BY <1>1, <1>2, PTL DEF Spec

LEMMA InputIs ==
    ASSUME InputInv
    PROVE  /\ input.kind \in {"range", "extras", "claim"} => input \in FileInputs
           /\ input.kind = "query" => input \in QueryInputs
           /\ input.kind = "sequence" => input \in SequenceInputs
           /\ input.kind = "name" => input \in NameInputs
           /\ input.kind = "array" => input \in ArrayInputs
           /\ input.kind = "tree" => input \in TreeInputs
           /\ input.kind = "bytes" => input \in BytesInputs
           /\ input.kind = "batch" => input \in BatchInputs
<1>1. NoInput.kind = "none"
  BY DEF NoInput
<1>2. CASE input = NoInput
  BY <1>1, <1>2
<1>3. CASE input \in Inputs
  BY <1>3, AlgorithmsAssumption
<1> QED  BY <1>2, <1>3 DEF InputInv

\* decode and encode are inverse and independent of the host, for one value and
\* for many, of any width in any base, from elements of any size, in place or not; a vector form
\* writes its values and nothing else.
THEOREM BytesMeanTheirValue == Spec => []BytesHaveTheirMeaning
<1>1. ASSUME InputInv PROVE BytesHaveTheirMeaning
  <2> SUFFICES ASSUME input.kind = "bytes"
               PROVE  /\ DecodeIsMeaning(input.order, input.bytes)
                      /\ VectorsAreWholeValues(input.order, input.bytes, input.unit, input.width,
                                               input.room)
    BY DEF BytesHaveTheirMeaning
  <2>1. input \in BytesInputs
    BY <1>1, InputIs
  <2>2. /\ input.order \in Orders \cup {"unknown"} /\ input.bytes \in Seq(Byte)
        /\ input.width \in Nat \ {0} /\ input.unit \in Nat \ {0} /\ input.room \in Seq(Byte)
        /\ Len(input.bytes) % input.unit = 0
        /\ Len(input.room) >= (Len(input.bytes) \div input.width) * input.width
    BY <2>1 DEF BytesInputs
  <2> QED  BY <2>2, BytesMean
<1> QED  BY <1>1, InputsArePicked, PTL

\* fuzzy_match's score is the best of all alignments, its positions are one with
\* that score, and it is 0 exactly when there is none, for any query that is not
\* empty, any candidate and any alphabet.
THEOREM MatchesAreBest == Spec => []MatchIsBest
<1>1. ASSUME InputInv PROVE MatchIsBest
  <2> SUFFICES ASSUME input.kind = "query"
               PROVE  MatchHasBestScore(input.query, input.candidate)
    BY DEF MatchIsBest
  <2> DEFINE C == DOMAIN LowerOf
  <2>1. input \in QueryInputs
    BY <1>1, InputIs
  <2>2. input.query \in Seq(C) \ {<<>>} /\ input.candidate \in Seq(C)
    BY <2>1 DEF QueryInputs
  <2> HIDE DEF C
  <2> QED  BY <2>2, BestMatch
<1> QED  BY <1>1, InputsArePicked, PTL

\* read_ranges serves a batch whole or refuses it whole, for any file and any
\* ranges, and counts exactly the bytes it served.
THEOREM BatchesAreWhole == Spec => []BatchIsAllOrNothing
<1>1. ASSUME InputInv PROVE BatchIsAllOrNothing
  <2> SUFFICES ASSUME input.kind = "batch"
               PROVE  AllOrNothing(EmptyLog, input.ranges, input.before)
    BY DEF BatchIsAllOrNothing
  <2>1. input \in BatchInputs
    BY <1>1, InputIs
  <2>2. input.ranges \in Seq(ByteRange) /\ input.before \in Seq(Seq(Nat))
    BY <2>1 DEF BatchInputs
  <2>3. EmptyLog \in [batches : Seq(Seq(ByteRange)), served : Nat]
    <3>1. <<>> \in Seq(Seq(ByteRange)) /\ 0 \in Nat
      OBVIOUS
    <3> QED  BY <3>1 DEF EmptyLog
  <2>4. FileBytes \in Seq(Nat)
    BY AlgorithmsAssumption
  <2> QED  BY <2>2, <2>3, <2>4, BatchIsWhole
<1> QED  BY <1>1, InputsArePicked, PTL

\* split keeps all items but the separators, in chunks that are not empty and cut
\* where one stood; it undoes join, and join undoes it exactly where no separator
\* stands first, last or behind another, for any sequence and separator.
THEOREM ChunksAreCutAndJoined == Spec => []SplitAndJoinAgree
<1>1. ASSUME InputInv PROVE SplitAndJoinAgree
  <2> SUFFICES ASSUME input.kind = "sequence"
               PROVE  /\ SplitDropsSeparators(input.items, input.sep)
                      /\ JoinUndoesSplit(input.items, input.sep)
    BY DEF SplitAndJoinAgree
  <2>1. input \in SequenceInputs
    BY <1>1, InputIs
  <2>2. input.items \in Seq(Characters) /\ input.sep \in Characters
    BY <2>1 DEF SequenceInputs
  <2> QED  BY <2>2, SplitDrops, JoinUndoes
<1> QED  BY <1>1, InputsArePicked, PTL

\* trim cuts exactly the spaces at both ends, and make_unique_name finds the
\* first free name and ends, for any string and any finite blacklist.
THEOREM StringsAreTrimmedAndNamed == Spec => []StringsAreClean
<1>1. ASSUME InputInv PROVE StringsAreClean
  <2>1. ASSUME input.kind = "sequence" PROVE TrimCutsTheEnds(input.items)
    <3>1. input \in SequenceInputs
      BY <1>1, <2>1, InputIs
    <3>2. input.items \in Seq(Characters)
      BY <3>1 DEF SequenceInputs
    <3> QED  BY <3>2, TrimIs
  <2>2. ASSUME input.kind = "name" PROVE UniqueNameIsFirstFree(input.base, input.blacklist)
    <3>1. input \in NameInputs
      BY <1>1, <2>2, InputIs
    <3>2. /\ input.base \in Seq(Characters) /\ IsFiniteSet(input.blacklist)
          /\ input.blacklist \in SUBSET [base : Seq(Characters), number : Nat]
      BY <3>1 DEF NameInputs
    <3> QED  BY <3>2, NameIsFirstFree
  <2> QED  BY <2>1, <2>2 DEF StringsAreClean
<1> QED  BY <1>1, InputsArePicked, PTL

\* Every point of an array has a place of its own among its flat_size elements,
\* row by row or column by column, and permute_axes takes the element at each
\* point to the permuted point, for every shape, permutation and data.
THEOREM ArraysArePoints == Spec => []ArraysKeepTheirPoints
<1>1. ASSUME InputInv PROVE ArraysKeepTheirPoints
  <2> SUFFICES ASSUME input.kind = "array"
               PROVE  /\ FlatIndexNumbersPoints(input.shape)
                      /\ PermuteAxesMovesPoints(input.data, input.shape, input.permutation)
    BY DEF ArraysKeepTheirPoints
  <2>1. input \in ArrayInputs
    BY <1>1, InputIs
  <2>2. /\ input.shape \in Seq(Nat) /\ input.data \in Seq(Int)
        /\ input.permutation \in Bijection(DOMAIN input.shape, DOMAIN input.shape)
        /\ Len(input.data) = FlatSize(input.shape)
    BY <2>1 DEF ArrayInputs
  <2> QED  BY <2>2, FlatIndexNumbers, PermuteAxesMoves
<1> QED  BY <1>1, InputsArePicked, PTL

\* for_each visits every node of a tree once, parents before or behind their
\* subtrees and left before right, or level by level, and the breadth-first queue
\* runs empty, for any finite tree.
THEOREM TraversalsVisitInOrder == Spec => []TraversalsAreOrders
<1>1. ASSUME InputInv PROVE TraversalsAreOrders
  <2> SUFFICES ASSUME input.kind = "tree"
               PROVE  /\ VisitsInOrder(input.nodes, "pre_order")
                      /\ VisitsInOrder(input.nodes, "post_order")
                      /\ VisitsInOrder(input.nodes, "breadth_first")
                      /\ QueueRunsEmpty(input.nodes)
    BY DEF TraversalsAreOrders
  <2>1. input \in TreeInputs
    BY <1>1, InputIs
  <2>2. input.nodes \in SUBSET Paths /\ IsTree(input.nodes)
    BY <2>1 DEF TreeInputs, Paths
  <2> QED  BY <2>2, PreOrderVisits, PostOrderVisits, BreadthFirstVisits
<1> QED  BY <1>1, InputsArePicked, PTL

-----------------------------------------------------------------------------
(* The arithmetic of pages, whatever file is picked. *)

Proved == INSTANCE PageMathProofs
        WITH SizeMax <- MaxSizeT, PageSize <- input.pageSize, Size <- input.size,
             ReadAhead <- input.readAhead, TailPrefetch <- input.tail,
             DownloadWholeBelow <- input.whole

LEMMA FilesAreAccepted ==
    ASSUME input \in FileInputs PROVE Proved!PageMathAssumption
<1>1. /\ MaxSizeT \in Nat
      /\ input.pageSize \in Nat \ {0} /\ 2 * input.pageSize =< MaxSizeT
      /\ input.size \in Nat /\ input.size =< MaxSizeT - input.pageSize
      /\ input.readAhead \in 0 .. (MaxSizeT \div 2)
      /\ input.tail \in 0 .. MaxSizeT /\ input.whole \in 0 .. MaxSizeT
  BY AlgorithmsAssumption DEF FileInputs
<1>2. MaxSizeT \div 2 \in Int
  BY <1>1
<1> QED  BY <1>1, <1>2 DEF Proved!PageMathAssumption

\* A plan names the pages of the bytes it is about: of the ranges, of their
\* windows, of what the first fetch adds, for every size and option.
THEOREM PlansNamePagesOfBytes == Spec => []PagesAreThoseOfBytes
<1>1. ASSUME InputInv PROVE PagesAreThoseOfBytes
  <2>1. ASSUME input.kind \in {"range", "extras"}
        PROVE  Math!RangesHaveTheirPages /\ Math!ExtrasAreTailOrWhole
    <3>1. input \in FileInputs
      BY <1>1, <2>1, InputIs
    <3>2. Proved!PageMathAssumption
      BY <3>1, FilesAreAccepted
    <3>3. Proved!RangesHaveTheirPages /\ Proved!ExtrasAreTailOrWhole
      BY <3>2, Proved!RangesHavePages, Proved!ExtraPagesAreTailOrWhole
    <3> QED
      BY <3>3
      DEF Proved!RangesHaveTheirPages, Proved!ExtrasAreTailOrWhole,
          Proved!ExactIsPagesOfBytes, Proved!WidenedIsPagesOfWindows, Proved!ByteRanges,
          Proved!InBounds, Proved!ExactPages, Proved!WidenedPages, Proved!PagesOf,
          Proved!BytesIn, Proved!NoWrap, Proved!Window, Proved!RoundUp, Proved!Lesser,
          Proved!Greater, Proved!OffsetsInFile, Proved!ExtraPages, Proved!ExactOf,
          Proved!FirstFetchExtras,
          Math!RangesHaveTheirPages, Math!ExtrasAreTailOrWhole, Math!ExactIsPagesOfBytes,
          Math!WidenedIsPagesOfWindows, Math!ByteRanges, Math!InBounds, Math!ExactPages,
          Math!WidenedPages, Math!PagesOf, Math!BytesIn, Math!NoWrap, Math!Window,
          Math!RoundUp, Math!Lesser, Math!Greater, Math!OffsetsInFile, Math!ExtraPages,
          Math!ExactOf, Math!FirstFetchExtras
  <2> QED  BY <2>1 DEF PagesAreThoseOfBytes
<1> QED  BY <1>1, InputsArePicked, PTL

\* What check_bounds lets through and what a batch asks the reader for is the
\* file, once, for every page size and file size.
THEOREM BatchesAreOfTheFile == Spec => []BatchesStayInFile
<1>1. ASSUME InputInv PROVE BatchesStayInFile
  <2>1. ASSUME input.kind = "claim" PROVE Math!BatchesStayInFile
    <3>1. input \in FileInputs
      BY <1>1, <2>1, InputIs
    <3>2. Proved!PageMathAssumption
      BY <3>1, FilesAreAccepted
    <3>3. Proved!BatchesStayInFile
      BY <3>2, Proved!BatchesAreInFile
    <3> QED
      BY <3>3
      DEF Proved!BatchesStayInFile, Proved!BoundsAreTheFile, Proved!RunIsMaximalBatch,
          Proved!ByteRanges, Proved!InBounds, Proved!BytesIn, Proved!OffsetsInFile,
          Proved!FirstRun, Proved!First, Proved!Last, Proved!BytesOf, Proved!Pages,
          Proved!PageCount, Proved!RoundUp, Proved!Lesser,
          Math!BatchesStayInFile, Math!BoundsAreTheFile, Math!RunIsMaximalBatch,
          Math!ByteRanges, Math!InBounds, Math!BytesIn, Math!OffsetsInFile, Math!FirstRun,
          Math!First, Math!Last, Math!BytesOf, Math!Pages, Math!PageCount, Math!RoundUp,
          Math!Lesser
  <2> QED  BY <2>1 DEF BatchesStayInFile
<1> QED  BY <1>1, InputsArePicked, PTL

=============================================================================
