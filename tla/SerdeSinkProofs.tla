-------------------------- MODULE SerdeSinkProofs ---------------------------
(***************************************************************************)
(* Proofs about SerdeSink, for any bytes, calls, offsets and failures, and *)
(* about the fields of SerdeFields, of any width, between any other bytes. *)
(***************************************************************************)
EXTENDS SerdeSink, SerdeFields, AlgorithmsProofs

-----------------------------------------------------------------------------
(* The operators of the sinks. *)

LEMMA ByteFacts == /\ Byte \subseteq Nat /\ 0 \in Byte
  BY EndiannessAssumption DEF Byte

\* What memory holds after a store.
LEMMA StoreIs ==
    ASSUME NEW memory \in Seq(Byte), NEW at \in Nat, NEW bytes \in Seq(Byte),
           NEW m, m = StoreInMemory(memory, at, bytes)
    PROVE  /\ m \in Seq(Byte)
           /\ Len(m) = IF at + Len(bytes) > Len(memory) THEN at + Len(bytes) ELSE Len(memory)
           /\ \A i \in 1 .. Len(bytes) : m[at + i] = bytes[i]
           /\ \A i \in 1 .. Len(memory) :
                  i \notin (at + 1) .. (at + Len(bytes)) => m[i] = memory[i]
<1> DEFINE end  == at + Len(bytes)
           size == IF end > Len(memory) THEN end ELSE Len(memory)
           F(i) == IF i \in (at + 1) .. end THEN bytes[i - at]
                   ELSE IF i \in DOMAIN memory THEN memory[i] ELSE 0
<1>1. m = [i \in 1 .. size |-> F(i)]
  BY DEF StoreInMemory
<1>2. end \in Nat /\ size \in Nat /\ end =< size /\ Len(memory) =< size /\ Len(bytes) \in Nat
  OBVIOUS
<1>3. ASSUME NEW i \in 1 .. size PROVE F(i) \in Byte
  <2>1. i \in (at + 1) .. end => i - at \in 1 .. Len(bytes)
    OBVIOUS
  <2> QED  BY <2>1, ByteFacts
<1>4. ASSUME NEW i \in 1 .. Len(bytes) PROVE at + i \in 1 .. size /\ F(at + i) = bytes[i]
  <2>1. at + i \in (at + 1) .. end /\ (at + i) - at = i /\ at + i \in 1 .. size
    BY <1>2
  <2> QED  BY <2>1
<1>5. ASSUME NEW i \in 1 .. Len(memory), i \notin (at + 1) .. end
      PROVE  i \in 1 .. size /\ F(i) = memory[i]
  BY <1>2, <1>5
<1> HIDE DEF size, F
<1>6. m \in Seq(Byte) /\ Len(m) = size
  BY <1>1, <1>2, <1>3
<1>7. /\ \A i \in 1 .. Len(bytes) : m[at + i] = bytes[i]
      /\ \A i \in 1 .. Len(memory) : i \notin (at + 1) .. end => m[i] = memory[i]
  BY <1>1, <1>4, <1>5
<1> QED  BY <1>6, <1>7 DEF size

\* A writer that is at Len(all), having written all, has written all \o bytes after a write.
LEMMA AppendedIs ==
    ASSUME NEW s \in [kind : {"memory", "vector", "file"}, bytes : Seq(Byte), cursor : Nat,
                      good : BOOLEAN],
           NEW bytes \in Seq(Byte), s.cursor =< Len(s.bytes)
    PROVE  /\ Appended(s, bytes) \in Seq(Byte)
           /\ Len(Appended(s, bytes)) = s.cursor + Len(bytes)
           /\ s.cursor = Len(s.bytes) => Appended(s, bytes) = s.bytes \o bytes
           /\ s.cursor = 0 => Appended(s, bytes) = bytes
<1>1. s.bytes \in Seq(Byte) /\ s.cursor \in Nat
  OBVIOUS
<1>2. /\ SubSeq(s.bytes, 1, s.cursor) \in Seq(Byte)
      /\ Len(SubSeq(s.bytes, 1, s.cursor)) = s.cursor
  <2>1. 1 \in Int /\ s.cursor \in Int /\ \A i \in 1 .. s.cursor : s.bytes[i] \in Byte
    BY <1>1
  <2>2. /\ SubSeq(s.bytes, 1, s.cursor) \in Seq(Byte)
        /\ Len(SubSeq(s.bytes, 1, s.cursor)) =
               IF 1 <= s.cursor THEN s.cursor - 1 + 1 ELSE 0
    BY <2>1, SubSeqProperties
  <2> QED  BY <1>1, <2>2
<1>3. s.cursor = Len(s.bytes) => SubSeq(s.bytes, 1, s.cursor) = s.bytes
  BY <1>1, SubSeqFull
<1>4. s.cursor = 0 => SubSeq(s.bytes, 1, s.cursor) = <<>>
  BY <1>1, SubSeqEmpty
<1> DEFINE kept == SubSeq(s.bytes, 1, s.cursor)
<1> HIDE DEF kept
<1>5. /\ kept \in Seq(Byte) /\ Len(kept) = s.cursor
      /\ s.cursor = Len(s.bytes) => kept = s.bytes
      /\ s.cursor = 0 => kept = <<>>
      /\ Appended(s, bytes) = kept \o bytes
  BY <1>2, <1>3, <1>4 DEF kept, Appended
<1>6. kept \o bytes \in Seq(Byte) /\ Len(kept \o bytes) = Len(kept) + Len(bytes)
  BY <1>5, ConcatProperties
<1>7. kept = <<>> => kept \o bytes = bytes
  BY ConcatEmptySeq
<1> QED  BY <1>5, <1>6, <1>7

-----------------------------------------------------------------------------
(* Types. *)

SinkSet == [kind : {"memory", "vector", "file"}, bytes : Seq(Byte), cursor : Nat, good : BOOLEAN]

\* A writer's cursor is not past the end of what it holds, unless it failed.
CursorInv == sink.kind # "memory" /\ sink.good => sink.cursor =< Len(sink.bytes)

LEMMA WriteToIs ==
    ASSUME SinkTypeOK, CursorInv, NEW bytes \in Seq(Byte), NEW w, w = WriteTo(sink, bytes)
    PROVE  /\ w \in SinkSet
           /\ w.kind = sink.kind /\ w.good = sink.good
           /\ w.cursor = sink.cursor + Len(bytes)
           /\ w.bytes = IF ~sink.good THEN sink.bytes
                        ELSE IF sink.kind = "memory"
                             THEN StoreInMemory(sink.bytes, sink.cursor, bytes)
                             ELSE Appended(sink, bytes)
<1> DEFINE b == IF ~sink.good THEN sink.bytes
                ELSE IF sink.kind = "memory" THEN StoreInMemory(sink.bytes, sink.cursor, bytes)
                ELSE Appended(sink, bytes)
           c == sink.cursor + Len(bytes)
<1>1. sink \in SinkSet
  BY DEF SinkTypeOK, SinkSet
<1>2. b \in Seq(Byte)
  BY <1>1, StoreIs, AppendedIs DEF SinkSet, CursorInv
<1>3. c \in Nat
  BY <1>1 DEF SinkSet
<1>4. w = [sink EXCEPT !.cursor = c, !.bytes = b]
  BY <1>1 DEF WriteTo, SinkSet
<1> HIDE DEF b, c
<1>5. /\ w \in SinkSet
      /\ w.kind = sink.kind /\ w.good = sink.good
      /\ w.cursor = c /\ w.bytes = b
  BY <1>1, <1>2, <1>3, <1>4 DEF SinkSet
<1> QED  BY <1>5 DEF b, c

TypeInv == SinkTypeOK /\ CursorInv

LEMMA InitTypeInv == SinkInit => TypeInv
<1> SUFFICES ASSUME SinkInit PROVE TypeInv
  OBVIOUS
<1>1. sink \in SinkSet /\ sink.cursor = 0
  <2>1. /\ sink \in NewSinks /\ <<>> \in Seq(Byte)
        /\ \A m \in Memories : m \in Seq(Byte)
    BY SinkAssumption DEF SinkInit
  <2>2. CASE sink \in [kind : {"memory", "vector"}, bytes : Memories, cursor : {0}, good : {TRUE}]
    <3>1. PICK k \in {"memory", "vector"}, m \in Memories :
              sink = [kind |-> k, bytes |-> m, cursor |-> 0, good |-> TRUE]
      BY <2>2
    <3> QED  BY <2>1, <3>1 DEF SinkSet
  <2>3. CASE sink \in [kind : {"file"}, bytes : {<<>>}, cursor : {0}, good : BOOLEAN]
    <3>1. PICK g \in BOOLEAN : sink = [kind |-> "file", bytes |-> <<>>, cursor |-> 0, good |-> g]
      BY <2>3
    <3> QED  BY <2>1, <3>1 DEF SinkSet
  <2> QED  BY <2>1, <2>2, <2>3 DEF NewSinks
<1>2. sink.bytes \in Seq(Byte) /\ Len(sink.bytes) \in Nat
  BY <1>1 DEF SinkSet
<1>3. SinkTypeOK
  <2>1. <<>> \in Seq(Seq(Byte))
    OBVIOUS
  <2> QED  BY <1>1, <1>2, <2>1 DEF SinkInit, SinkTypeOK, SinkSet
<1> QED  BY <1>1, <1>2, <1>3 DEF TypeInv, CursorInv

LEMMA PendingIs ==
    ASSUME TypeInv, pending # <<>>
    PROVE  Head(pending) \in Seq(Byte) /\ Tail(pending) \in Seq(Seq(Byte))
  BY HeadTailProperties DEF TypeInv, SinkTypeOK

LEMMA NextTypeInv == TypeInv /\ [SinkNext]_sinkVars => TypeInv'
<1> SUFFICES ASSUME TypeInv, [SinkNext]_sinkVars PROVE TypeInv'
  OBVIOUS
<1>0. /\ SinkTypeOK /\ CursorInv
      /\ sink \in SinkSet /\ sink.bytes \in Seq(Byte) /\ sink.cursor \in Nat
  BY DEF TypeInv, SinkTypeOK, SinkSet
<1>1. ASSUME NEW writes \in Seq(Seq(Byte)), NEW offset \in Offsets, Begin(writes, offset)
      PROVE  TypeInv'
  <2>1. start' \in Nat
    BY <1>0, <1>1, SinkAssumption DEF Begin
  <2>2. /\ sink' \in SinkSet /\ sink'.kind = sink.kind /\ sink'.bytes = sink.bytes
        /\ sink'.good = sink.good /\ sink'.cursor = start'
    BY <1>0, <1>1, <2>1 DEF Begin, SinkSet
  <2>3. SinkTypeOK'
    BY <1>0, <1>1, <2>1, <2>2 DEF Begin, SinkTypeOK, SinkSet
  <2>4. CursorInv'
    BY <1>0, <1>1, <2>2 DEF Begin, CursorInv
  <2> QED  BY <2>3, <2>4 DEF TypeInv
<1>2. ASSUME Put PROVE TypeInv'
  <2> DEFINE p == Head(pending)
  <2>1. p \in Seq(Byte) /\ Tail(pending) \in Seq(Seq(Byte)) /\ Len(p) \in Nat
    BY <1>2, PendingIs DEF Put
  <2>2. /\ sink' \in SinkSet /\ sink'.kind = sink.kind /\ sink'.good = sink.good
        /\ sink'.cursor = sink.cursor + Len(p)
        /\ sink.kind # "memory" /\ sink.good => sink'.bytes = Appended(sink, p)
    <3>1. sink' = WriteTo(sink, p)
      BY <1>2 DEF Put
    <3> QED  BY <1>0, <2>1, <3>1, WriteToIs
  <2>3. pieces' \in Seq(Seq(Byte))
    BY <1>0, <1>2, <2>1, AppendProperties DEF Put, SinkTypeOK
  <2>4. SinkTypeOK'
    BY <1>0, <1>2, <2>1, <2>2, <2>3 DEF Put, SinkTypeOK, SinkSet
  <2>5. CursorInv'
    <3> SUFFICES ASSUME sink.kind # "memory", sink.good PROVE sink'.cursor =< Len(sink'.bytes)
      BY <2>2 DEF CursorInv
    <3>1. Len(Appended(sink, p)) = sink.cursor + Len(p)
      BY <1>0, <2>1, AppendedIs DEF CursorInv, SinkSet
    <3> QED  BY <1>0, <2>1, <2>2, <3>1
  <2> QED  BY <2>4, <2>5 DEF TypeInv
<1>3. ASSUME PutThrows PROVE TypeInv'
  <2>1. pending' = <<>> /\ pending' \in Seq(Seq(Byte)) /\ calling' = FALSE
    BY <1>3 DEF PutThrows
  <2>2. UNCHANGED <<sink, pieces, start, before, returned>>
    BY <1>3 DEF PutThrows
  <2> QED  BY <1>0, <2>1, <2>2 DEF TypeInv, SinkTypeOK, CursorInv
<1>4. ASSUME Return PROVE TypeInv'
  BY <1>0, <1>4 DEF Return, Position, TypeInv, SinkTypeOK, CursorInv
<1>5. ASSUME StreamFails PROVE TypeInv'
  <2>1. PICK n \in 0 .. Len(sink.bytes) :
            sink' = [sink EXCEPT !.good = FALSE, !.bytes = SubSeq(sink.bytes, 1, n)]
    BY <1>0, <1>5 DEF StreamFails, SinkSet
  <2>2. SubSeq(sink.bytes, 1, n) \in Seq(Byte)
    <3>1. n \in Int /\ \A i \in 1 .. n : sink.bytes[i] \in Byte
      BY <1>0
    <3> QED  BY <3>1, SubSeqProperties
  <2>3. sink' \in SinkSet /\ ~sink'.good
    BY <1>0, <2>1, <2>2 DEF SinkSet
  <2> QED  BY <1>0, <1>5, <2>3 DEF StreamFails, TypeInv, SinkTypeOK, SinkSet, CursorInv
<1>6. ASSUME UNCHANGED sinkVars PROVE TypeInv'
  BY <1>6 DEF sinkVars, TypeInv, SinkTypeOK, CursorInv
<1> QED  BY <1>1, <1>2, <1>3, <1>4, <1>5, <1>6 DEF SinkNext

\* Type correctness: a sink holds bytes and its cursor counts them, whatever is
\* written, thrown or lost.
THEOREM TypeCorrect == SinkSpec => []SinkTypeOK
<1>1. TypeInv => SinkTypeOK  BY DEF TypeInv
<1> QED  BY InitTypeInv, NextTypeInv, <1>1, PTL DEF SinkSpec

-----------------------------------------------------------------------------
(* What is written. *)

\* All that was put into the sink, by this call in memory, else by all calls.
All == FlattenSeq(pieces)

\* serialize has returned nothing before it returns.
CallInv == calling => returned = None

\* A writer, failed or not.
WriterInv ==
    sink.kind # "memory" =>
        /\ sink.good /\ (sink.kind = "file" \/ pieces # <<>>) => sink.bytes = All
        /\ ~sink.good => /\ Len(sink.bytes) =< Len(All)
                         /\ \A i \in 1 .. Len(sink.bytes) : sink.bytes[i] = All[i]
        /\ sink.cursor = Len(All)
        /\ returned \in {None, Len(All)}

\* Memory: each byte written is at its place, each other byte still what it was.
MemoryInv ==
    sink.kind = "memory" =>
        /\ sink.good
        /\ sink.cursor = start + Len(All)
        /\ \A j \in 1 .. Len(All) :
               start + j =< Len(sink.bytes) /\ sink.bytes[start + j] = All[j]
        /\ Len(before) =< Len(sink.bytes)
        /\ \A i \in 1 .. Len(before) :
               i \notin (start + 1) .. sink.cursor => sink.bytes[i] = before[i]
        /\ Len(sink.bytes) =< Len(before) \/ Len(sink.bytes) =< sink.cursor
        /\ returned \in {None, sink.cursor}

WrittenInv == TypeInv /\ CallInv /\ WriterInv /\ MemoryInv

LEMMA AllType ==
    ASSUME TypeInv
    PROVE  All \in Seq(Byte) /\ Len(All) \in Nat
<1>1. <<>> \in Seq(Byte) /\ pieces \in Seq(Seq(Byte))
  BY DEF TypeInv, SinkTypeOK
<1>2. FlattenSeq(pieces) \in Seq(Byte)
  BY <1>1, FlattenSeqAppend
<1> QED  BY <1>2 DEF All

LEMMA NothingYet == ASSUME pieces = <<>> PROVE All = <<>> /\ Len(All) = 0
  BY DEF All, FlattenSeq

LEMMA InitWrittenInv == SinkInit => WrittenInv
<1> SUFFICES ASSUME SinkInit PROVE WrittenInv
  OBVIOUS
<1>1. TypeInv
  BY InitTypeInv
<1>2. /\ pieces = <<>> /\ sink \in NewSinks /\ start = 0 /\ before = sink.bytes
      /\ returned = None /\ ~calling
  BY DEF SinkInit
<1>3. All = <<>> /\ Len(All) = 0
  BY <1>2, NothingYet
<1>4. /\ sink.cursor = 0
      /\ sink.kind # "file" => sink.good
      /\ sink.kind = "file" => sink.bytes = <<>>
  BY <1>2 DEF NewSinks
<1>5. sink.bytes \in Seq(Byte) /\ Len(sink.bytes) \in Nat
  BY <1>1 DEF TypeInv, SinkTypeOK
<1>6. WriterInv
  BY <1>2, <1>3, <1>4, <1>5 DEF WriterInv
<1>7. MemoryInv
  BY <1>2, <1>3, <1>4, <1>5 DEF MemoryInv
<1> QED  BY <1>1, <1>2, <1>6, <1>7 DEF WrittenInv, CallInv

\* One write through a writer.
LEMMA PutKeepsWriter ==
    ASSUME WrittenInv, Put, sink.kind # "memory"
    PROVE  WriterInv'
<1> DEFINE p == Head(pending)
<1>1. /\ TypeInv /\ SinkTypeOK /\ CursorInv /\ CallInv /\ WriterInv
      /\ sink \in SinkSet /\ sink.bytes \in Seq(Byte) /\ sink.cursor \in Nat
  BY DEF WrittenInv, TypeInv, SinkTypeOK, SinkSet
<1>2. p \in Seq(Byte) /\ Len(p) \in Nat
  BY <1>1, PendingIs DEF Put
<1>3. /\ sink'.kind = sink.kind /\ sink'.good = sink.good
      /\ sink'.cursor = sink.cursor + Len(p)
      /\ sink'.bytes = IF ~sink.good THEN sink.bytes ELSE Appended(sink, p)
  <2>1. sink' = WriteTo(sink, p)
    BY DEF Put
  <2> QED  BY <1>1, <1>2, <2>1, WriteToIs
<1>4. /\ All' = All \o p
      /\ All \in Seq(Byte) /\ Len(All) \in Nat
  <2>1. pieces' = Append(pieces, p) /\ pieces \in Seq(Seq(Byte))
    BY <1>1 DEF Put, SinkTypeOK
  <2>2. FlattenSeq(Append(pieces, p)) = FlattenSeq(pieces) \o p
    BY <1>2, <2>1, FlattenSeqAppend
  <2> QED  BY <1>1, <2>1, <2>2, AllType DEF All
<1> HIDE DEF p
<1>5. /\ Len(All') = Len(All) + Len(p)
      /\ \A i \in 1 .. Len(All) : All'[i] = All[i]
  BY <1>2, <1>4, ConcatProperties
<1>6. sink.cursor = Len(All)
  BY <1>1 DEF WriterInv
<1>7. ASSUME sink.good PROVE sink'.bytes = All'
  <2>1. CASE sink.kind = "file" \/ pieces # <<>>
    <3>1. sink.bytes = All
      BY <1>1, <1>7, <2>1 DEF WriterInv
    <3>2. Appended(sink, p) = sink.bytes \o p
      <4>1. sink.cursor = Len(sink.bytes) /\ sink.cursor =< Len(sink.bytes)
        BY <1>4, <1>6, <3>1
      <4> QED  BY <1>1, <1>2, <4>1, AppendedIs DEF SinkSet
    <3> QED  BY <1>3, <1>4, <1>7, <3>1, <3>2
  <2>2. CASE pieces = <<>>
    <3>1. All = <<>> /\ Len(All) = 0
      BY <2>2, NothingYet
    <3>2. Len(sink.bytes) \in Nat /\ sink.cursor = 0
      BY <1>1, <1>6, <3>1
    <3>3. Appended(sink, p) = p
      BY <1>1, <1>2, <3>2, AppendedIs DEF SinkSet
    <3>4. <<>> \o p = p
      BY <1>2, ConcatEmptySeq
    <3> QED  BY <1>3, <1>4, <1>7, <3>1, <3>3, <3>4
  <2> QED  BY <2>1, <2>2
<1>8. ASSUME ~sink.good
      PROVE  /\ Len(sink'.bytes) =< Len(All')
             /\ \A i \in 1 .. Len(sink'.bytes) : sink'.bytes[i] = All'[i]
  <2>1. /\ sink'.bytes = sink.bytes /\ Len(sink.bytes) \in Nat /\ Len(sink.bytes) =< Len(All)
        /\ \A i \in 1 .. Len(sink.bytes) : sink.bytes[i] = All[i]
    BY <1>1, <1>3, <1>8 DEF WriterInv
  <2>2. Len(sink.bytes) =< Len(All')
    BY <1>2, <1>4, <1>5, <2>1
  <2>3. ASSUME NEW i \in 1 .. Len(sink.bytes) PROVE sink.bytes[i] = All'[i]
    <3>1. i \in 1 .. Len(All)
      BY <1>4, <2>1
    <3> QED  BY <1>5, <2>1, <3>1
  <2> QED  BY <2>1, <2>2, <2>3
<1>9. sink'.cursor = Len(All') /\ returned' = None
  BY <1>1, <1>3, <1>5, <1>6 DEF Put, CallInv
<1> QED  BY <1>3, <1>7, <1>8, <1>9 DEF WriterInv

\* One write into memory.
LEMMA PutKeepsMemory ==
    ASSUME WrittenInv, Put, sink.kind = "memory"
    PROVE  MemoryInv'
<1> DEFINE p == Head(pending)
<1>1. /\ TypeInv /\ SinkTypeOK /\ CursorInv /\ CallInv /\ MemoryInv
      /\ sink \in SinkSet /\ sink.bytes \in Seq(Byte) /\ sink.cursor \in Nat
      /\ start \in Nat /\ before \in Seq(Byte) /\ start' = start /\ before' = before
  BY DEF WrittenInv, TypeInv, SinkTypeOK, SinkSet, Put
<1>2. p \in Seq(Byte) /\ Len(p) \in Nat
  BY <1>1, PendingIs DEF Put
<1>3. /\ sink'.kind = sink.kind /\ sink.good /\ sink'.good = sink.good
      /\ sink'.cursor = sink.cursor + Len(p)
      /\ sink'.bytes = StoreInMemory(sink.bytes, sink.cursor, p)
  <2>1. sink' = WriteTo(sink, p) /\ sink.good
    BY <1>1 DEF Put, MemoryInv
  <2> QED  BY <1>1, <1>2, <2>1, WriteToIs
<1>4. /\ All' = All \o p
      /\ All \in Seq(Byte) /\ Len(All) \in Nat
  <2>1. pieces' = Append(pieces, p) /\ pieces \in Seq(Seq(Byte))
    BY <1>1 DEF Put, SinkTypeOK
  <2>2. FlattenSeq(Append(pieces, p)) = FlattenSeq(pieces) \o p
    BY <1>2, <2>1, FlattenSeqAppend
  <2> QED  BY <1>1, <2>1, <2>2, AllType DEF All
<1> HIDE DEF p
<1> DEFINE old == sink.bytes
           new == sink'.bytes
           end == sink.cursor + Len(p)
<1>5. /\ Len(All') = Len(All) + Len(p)
      /\ \A i \in 1 .. Len(All) : All'[i] = All[i]
      /\ \A i \in 1 .. Len(p) : All'[Len(All) + i] = p[i]
  BY <1>2, <1>4, ConcatProperties
<1>6. /\ new \in Seq(Byte)
      /\ Len(new) = IF end > Len(old) THEN end ELSE Len(old)
      /\ \A i \in 1 .. Len(p) : new[sink.cursor + i] = p[i]
      /\ \A i \in 1 .. Len(old) : i \notin (sink.cursor + 1) .. end => new[i] = old[i]
  BY <1>1, <1>2, <1>3, StoreIs
<1>7. /\ sink.cursor = start + Len(All)
      /\ \A j \in 1 .. Len(All) : start + j =< Len(old) /\ old[start + j] = All[j]
      /\ Len(before) =< Len(old)
      /\ \A i \in 1 .. Len(before) : i \notin (start + 1) .. sink.cursor => old[i] = before[i]
      /\ Len(old) =< Len(before) \/ Len(old) =< sink.cursor
  BY <1>1 DEF MemoryInv
<1>8. Len(old) \in Nat /\ Len(before) \in Nat /\ Len(new) \in Nat
  BY <1>1, <1>6
<1>9. sink'.cursor = end /\ end = start + Len(All')
  BY <1>1, <1>2, <1>3, <1>4, <1>5, <1>7
<1> HIDE DEF old, new
<1>10. ASSUME NEW j \in 1 .. Len(All')
       PROVE  start + j =< Len(new) /\ new[start + j] = All'[j]
  <2>1. CASE j =< Len(All)
    <3>1. j \in 1 .. Len(All) /\ start + j \in 1 .. Len(old) /\ Len(old) =< Len(new)
          /\ start + j \notin (sink.cursor + 1) .. end
      BY <1>1, <1>2, <1>4, <1>5, <1>6, <1>7, <1>8, <2>1
    <3> QED  BY <1>1, <1>5, <1>6, <1>7, <1>8, <3>1
  <2>2. CASE j > Len(All)
    <3> DEFINE i == j - Len(All)
    <3>1. i \in 1 .. Len(p) /\ j = Len(All) + i /\ start + j = sink.cursor + i
          /\ start + j =< end /\ end =< Len(new)
      BY <1>1, <1>2, <1>4, <1>5, <1>6, <1>7, <1>8, <2>2
    <3> HIDE DEF i
    <3> QED  BY <1>1, <1>5, <1>6, <1>8, <3>1
  <2> QED  BY <1>4, <2>1, <2>2
<1>11. ASSUME NEW i \in 1 .. Len(before), i \notin (start + 1) .. end
       PROVE  new[i] = before[i]
  <2>1. i \in 1 .. Len(old) /\ i \notin (start + 1) .. sink.cursor
        /\ i \notin (sink.cursor + 1) .. end
    BY <1>1, <1>2, <1>4, <1>7, <1>8, <1>11
  <2> QED  BY <1>6, <1>7, <2>1
<1>12. /\ Len(before) =< Len(new)
       /\ Len(new) =< Len(before) \/ Len(new) =< end
  BY <1>1, <1>2, <1>6, <1>7, <1>8
<1>13. returned' = None
  BY <1>1 DEF Put, CallInv
<1> QED  BY <1>1, <1>3, <1>9, <1>10, <1>11, <1>12, <1>13 DEF MemoryInv, new

\* A call starts where its caller says in memory, at the cursor of a writer.
LEMMA BeginKeepsWritten ==
    ASSUME WrittenInv, NEW writes \in Seq(Seq(Byte)), NEW offset \in Offsets,
           Begin(writes, offset)
    PROVE  CallInv' /\ WriterInv' /\ MemoryInv'
<1>1. /\ TypeInv /\ WriterInv /\ MemoryInv
      /\ sink \in SinkSet /\ sink.bytes \in Seq(Byte) /\ offset \in Nat
  BY SinkAssumption DEF WrittenInv, TypeInv, SinkTypeOK, SinkSet
<1>2. /\ sink'.kind = sink.kind /\ sink'.bytes = sink.bytes /\ sink'.good = sink.good
      /\ sink'.cursor = start' /\ before' = sink.bytes /\ returned' = None
  BY <1>1 DEF Begin, SinkSet
<1>3. CASE sink.kind = "memory"
  <2>1. pieces' = <<>> /\ start' = offset /\ sink.good
    BY <1>1, <1>3 DEF Begin, MemoryInv
  <2>2. All' = <<>> /\ Len(All') = 0
    BY <2>1 DEF All, FlattenSeq
  <2>3. MemoryInv'
    BY <1>1, <1>2, <2>1, <2>2 DEF MemoryInv
  <2> QED  BY <1>2, <1>3, <2>3 DEF CallInv, WriterInv
<1>4. CASE sink.kind # "memory"
  <2>1. pieces' = pieces /\ start' = sink.cursor
    BY <1>4 DEF Begin
  <2>2. All' = All
    BY <2>1 DEF All
  <2>3. WriterInv'
    BY <1>1, <1>2, <2>1, <2>2 DEF WriterInv
  <2> QED  BY <1>2, <1>4, <2>3 DEF CallInv, MemoryInv
<1> QED  BY <1>3, <1>4

\* What a stream that fails loses is the end of what it was given.
LEMMA FailureKeepsWritten ==
    ASSUME WrittenInv, StreamFails
    PROVE  CallInv' /\ WriterInv' /\ MemoryInv'
<1>1. /\ WriterInv /\ CallInv /\ sink.kind = "file" /\ sink.good
      /\ sink \in SinkSet /\ sink.bytes \in Seq(Byte)
  BY DEF WrittenInv, TypeInv, SinkTypeOK, SinkSet, StreamFails
<1>2. PICK n \in 0 .. Len(sink.bytes) :
          sink' = [sink EXCEPT !.good = FALSE, !.bytes = SubSeq(sink.bytes, 1, n)]
  BY <1>1 DEF StreamFails, SinkSet
<1>3. /\ sink'.kind = "file" /\ ~sink'.good /\ sink'.cursor = sink.cursor
      /\ sink'.bytes = SubSeq(sink.bytes, 1, n)
  BY <1>1, <1>2 DEF SinkSet
<1>4. /\ All' = All /\ returned' = returned /\ calling' = calling
      /\ sink.bytes = All /\ sink.cursor = Len(All) /\ returned \in {None, Len(All)}
  BY <1>1 DEF StreamFails, All, WriterInv
<1>5. /\ Len(sink'.bytes) = n
      /\ \A i \in 1 .. n : sink'.bytes[i] = sink.bytes[i]
  <2>1. n \in Nat /\ 1 \in Int /\ n \in Int /\ \A i \in 1 .. n : sink.bytes[i] \in Byte
    BY <1>1
  <2>2. /\ Len(sink'.bytes) = IF 1 <= n THEN n - 1 + 1 ELSE 0
        /\ \A i \in 1 .. n - 1 + 1 : sink'.bytes[i] = sink.bytes[1 + i - 1]
    BY <1>3, <2>1, SubSeqProperties
  <2>3. n - 1 + 1 = n /\ \A i \in 1 .. n : 1 + i - 1 = i
    BY <2>1
  <2> QED  BY <2>1, <2>2, <2>3
<1>6. n =< Len(All)
  BY <1>1, <1>4
<1> QED  BY <1>1, <1>3, <1>4, <1>5, <1>6 DEF CallInv, WriterInv, MemoryInv

LEMMA NextWrittenInv == WrittenInv /\ [SinkNext]_sinkVars => WrittenInv'
<1> SUFFICES ASSUME WrittenInv, [SinkNext]_sinkVars PROVE CallInv' /\ WriterInv' /\ MemoryInv'
  BY NextTypeInv DEF WrittenInv
<1>0. CallInv /\ WriterInv /\ MemoryInv
  BY DEF WrittenInv
<1>1. ASSUME NEW writes \in Seq(Seq(Byte)), NEW offset \in Offsets, Begin(writes, offset)
      PROVE  CallInv' /\ WriterInv' /\ MemoryInv'
  BY <1>1, BeginKeepsWritten
<1>2. ASSUME Put PROVE CallInv' /\ WriterInv' /\ MemoryInv'
  <2>1. CallInv' /\ sink'.kind = sink.kind
    <3>1. sink \in SinkSet /\ SinkTypeOK /\ CursorInv
      BY DEF WrittenInv, TypeInv, SinkTypeOK, SinkSet
    <3>2. Head(pending) \in Seq(Byte)
      BY <1>2, PendingIs DEF Put, WrittenInv
    <3>3. sink'.kind = sink.kind
      BY <1>2, <3>1, <3>2, WriteToIs DEF Put
    <3> QED  BY <1>0, <1>2, <3>3 DEF Put, CallInv
  <2>2. CASE sink.kind = "memory"
    BY <1>2, <2>1, <2>2, PutKeepsMemory DEF WriterInv
  <2>3. CASE sink.kind # "memory"
    BY <1>2, <2>1, <2>3, PutKeepsWriter DEF MemoryInv
  <2> QED  BY <2>2, <2>3
<1>3. ASSUME PutThrows PROVE CallInv' /\ WriterInv' /\ MemoryInv'
  <2>1. UNCHANGED <<sink, pieces, start, before, returned>> /\ ~calling'
    BY <1>3 DEF PutThrows
  <2>2. All' = All
    BY <2>1 DEF All
  <2> QED  BY <1>0, <2>1, <2>2 DEF CallInv, WriterInv, MemoryInv
<1>4. ASSUME Return PROVE CallInv' /\ WriterInv' /\ MemoryInv'
  <2>1. UNCHANGED <<sink, pieces, start, before>> /\ ~calling' /\ returned' = sink.cursor
    BY <1>4 DEF Return, Position
  <2>2. All' = All
    BY <2>1 DEF All
  <2> QED  BY <1>0, <2>1, <2>2 DEF CallInv, WriterInv, MemoryInv
<1>5. ASSUME StreamFails PROVE CallInv' /\ WriterInv' /\ MemoryInv'
  BY <1>5, FailureKeepsWritten
<1>6. ASSUME UNCHANGED sinkVars PROVE CallInv' /\ WriterInv' /\ MemoryInv'
  <2>1. All' = All
    BY <1>6 DEF sinkVars, All
  <2> QED  BY <1>0, <1>6, <2>1 DEF sinkVars, CallInv, WriterInv, MemoryInv
<1> QED  BY <1>1, <1>2, <1>3, <1>4, <1>5, <1>6 DEF SinkNext

\* Structures chained through a writer stand one behind the other, failures and
\* throws included, and serialize returns the position in all of them.
THEOREM WritersKeepOrder == SinkSpec => []WriterKeepsOrder
<1>1. ASSUME WrittenInv PROVE WriterKeepsOrder
  <2> SUFFICES ASSUME sink.kind # "memory"
               PROVE  /\ IF sink.good THEN pieces # <<>> => sink.bytes = All
                         ELSE IsPrefix(sink.bytes, All)
                      /\ sink.cursor = Len(All)
                      /\ returned \in {None, Len(All)}
    BY DEF WriterKeepsOrder, All
  <2>1. WriterInv /\ TypeInv /\ sink.bytes \in Seq(Byte)
    BY <1>1 DEF WrittenInv, TypeInv, SinkTypeOK
  <2>2. All \in Seq(Byte)
    BY <2>1, AllType
  <2>3. ASSUME ~sink.good PROVE IsPrefix(sink.bytes, All)
    <3> DEFINE n == Len(sink.bytes)
    <3>1. /\ n \in Nat /\ n =< Len(All)
          /\ \A i \in 1 .. n : sink.bytes[i] = All[i] /\ sink.bytes[i] \in Byte
      BY <2>1, <2>3 DEF WriterInv
    <3>2. SubSeq(sink.bytes, 1, n) = sink.bytes
      BY <2>1, SubSeqFull
    <3>3. SubSeq(All, 1, n) \in Seq(Byte) /\ Len(SubSeq(All, 1, n)) = n
          /\ \A i \in 1 .. n : SubSeq(All, 1, n)[i] = All[i]
      <4>1. 1 \in Int /\ n \in Int /\ \A i \in 1 .. n : All[i] \in Byte
        BY <3>1
      <4>2. /\ SubSeq(All, 1, n) \in Seq(Byte)
            /\ Len(SubSeq(All, 1, n)) = IF 1 <= n THEN n - 1 + 1 ELSE 0
            /\ \A i \in 1 .. n - 1 + 1 : SubSeq(All, 1, n)[i] = All[1 + i - 1]
        BY <4>1, SubSeqProperties
      <4>3. n - 1 + 1 = n /\ \A i \in 1 .. n : 1 + i - 1 = i
        BY <3>1
      <4> QED  BY <3>1, <4>2, <4>3
    <3>4. SubSeq(All, 1, n) = sink.bytes
      BY <2>1, <3>1, <3>3, SeqEqual
    <3> QED  BY <3>1, <3>2, <3>4 DEF IsPrefix
  <2> QED  BY <2>1, <2>3 DEF WriterInv
<1> QED  BY InitWrittenInv, NextWrittenInv, <1>1, PTL DEF SinkSpec

\* serialize into memory writes its bytes at its offset and no others, at each
\* point of a call and after one that threw.
THEOREM MemoryKeepsOtherBytes == SinkSpec => []SerializeStaysInside
<1>1. ASSUME WrittenInv PROVE SerializeStaysInside
  <2> DEFINE mine == SubSeq(sink.bytes, start + 1, sink.cursor)
  <2> SUFFICES ASSUME sink.kind = "memory"
               PROVE  /\ sink.cursor = start + Len(All)
                      /\ mine = All
                      /\ \A i \in DOMAIN before \ ((start + 1) .. sink.cursor) :
                             i \in DOMAIN sink.bytes /\ sink.bytes[i] = before[i]
                      /\ Len(sink.bytes) <= Len(before) \/ Len(sink.bytes) <= sink.cursor
                      /\ returned \in {None, sink.cursor}
    BY DEF SerializeStaysInside, All
  <2>1. /\ MemoryInv /\ TypeInv /\ sink.bytes \in Seq(Byte) /\ before \in Seq(Byte)
        /\ start \in Nat
    BY <1>1 DEF WrittenInv, TypeInv, SinkTypeOK
  <2>2. All \in Seq(Byte) /\ Len(All) \in Nat
    BY <2>1, AllType
  <2>3. /\ sink.cursor = start + Len(All)
        /\ \A j \in 1 .. Len(All) :
               start + j \in 1 .. Len(sink.bytes) /\ sink.bytes[start + j] = All[j]
    BY <2>1, <2>2 DEF MemoryInv
  <2>4. mine \in Seq(Byte) /\ Len(mine) = Len(All)
        /\ \A j \in 1 .. Len(All) : mine[j] = All[j]
    <3>1. start + 1 \in Int /\ sink.cursor \in Int
          /\ sink.cursor - (start + 1) + 1 = Len(All)
          /\ (start + 1 <= sink.cursor <=> Len(All) # 0)
      BY <2>1, <2>2, <2>3
    <3>2. ASSUME NEW i \in (start + 1) .. sink.cursor PROVE sink.bytes[i] \in Byte
      <4>1. i - start \in 1 .. Len(All) /\ start + (i - start) = i
        BY <2>1, <2>2, <2>3
      <4> QED  BY <2>1, <2>3, <4>1
    <3>3. /\ mine \in Seq(Byte)
          /\ Len(mine) = IF start + 1 <= sink.cursor THEN sink.cursor - (start + 1) + 1 ELSE 0
          /\ \A j \in 1 .. sink.cursor - (start + 1) + 1 :
                 mine[j] = sink.bytes[(start + 1) + j - 1]
      BY <3>1, <3>2, SubSeqProperties
    <3>4. \A j \in 1 .. Len(All) : (start + 1) + j - 1 = start + j
      BY <2>1, <2>2
    <3> HIDE DEF mine
    <3> QED  BY <2>2, <2>3, <3>1, <3>3, <3>4
  <2>5. mine = All
    BY <2>2, <2>4, SeqEqual
  <2>6. ASSUME NEW i \in DOMAIN before \ ((start + 1) .. sink.cursor)
        PROVE  i \in DOMAIN sink.bytes /\ sink.bytes[i] = before[i]
    <3>1. i \in 1 .. Len(before) /\ i \in 1 .. Len(sink.bytes)
      BY <2>1 DEF MemoryInv
    <3> QED  BY <2>1, <3>1 DEF MemoryInv
  <2> QED  BY <2>1, <2>3, <2>5, <2>6 DEF MemoryInv
<1> QED  BY InitWrittenInv, NextWrittenInv, <1>1, PTL DEF SinkSpec

-----------------------------------------------------------------------------
(* Fields of a fixed size. *)

\* encode and decode of a value of w bytes.
LEMMA ValuesReadBack ==
    ASSUME NEW order \in Orders, NEW w \in Nat, NEW v \in Representable(w)
    PROVE  /\ Encode(order, v, w) \in Seq(Byte) /\ Len(Encode(order, v, w)) = w
           /\ Decode(order, Encode(order, v, w)) = v
           /\ v \in Nat
<1>1. PICK b \in [1 .. w -> Byte] : v = LittleValue(b)
  BY DEF Representable
<1>2. b \in Seq(Byte) /\ Len(b) = w
  BY <1>1
<1> DEFINE bytes == IF order = "big" THEN Reverse(b) ELSE b
<1>3. /\ bytes \in Seq(Byte) /\ Len(bytes) = w
      /\ (IF order = "big" THEN Reverse(bytes) ELSE bytes) = b
  BY <1>2, ReverseIs
<1> HIDE DEF bytes
<1>4. Meaning(order, bytes) = v
  BY <1>1, <1>2, <1>3, LittleValueIsSum DEF Meaning
<1>5. Decode(order, bytes) = v /\ Encode(order, v, w) = bytes
  BY <1>3, <1>4, DecodeEncode
<1> QED  BY <1>1, <1>2, <1>3, <1>5, BytesOfValue

\* A value that was read is stored as the bytes it was read from.
LEMMA BytesAreStoredBack ==
    ASSUME NEW order \in Orders, NEW bytes \in Seq(Byte), NEW w, w = Len(bytes)
    PROVE  /\ Decode(order, bytes) \in Nat
           /\ Encode(order, Decode(order, bytes), w) = bytes
<1>1. Decode(order, bytes) = Meaning(order, bytes)
      /\ Encode(order, Meaning(order, bytes), w) = bytes
  BY DecodeEncode
<1>2. Meaning(order, bytes) \in Nat
  BY ReverseIs, LittleValueIsSum, BytesOfValue DEF Meaning
<1> QED  BY <1>1, <1>2

\* The bytes of s stand in data from at on.
StandsAt(s, data, at) ==
    /\ at + Len(s) <= Len(data)
    /\ \A k \in 1 .. Len(s) : data[at + k] = s[k]

LEMMA ReadIs ==
    ASSUME NEW data \in Seq(Byte), NEW at \in Nat, NEW order \in Orders, NEW s \in Seq(Byte),
           StandsAt(s, data, at)
    PROVE  Read(data, at, Len(s), order) = Loaded(Decode(order, s), at + Len(s), FALSE)
<1> DEFINE w == Len(s)
           t == [i \in 1 .. w |-> Byte0(data, at + i - 1)]
<1>1. w \in Nat /\ Len(data) \in Nat
  OBVIOUS
<1>2. ASSUME NEW i \in 1 .. w PROVE Byte0(data, at + i - 1) = s[i]
  <2>1. at + i - 1 < Len(data) /\ (at + i - 1) + 1 = at + i
    BY <1>1 DEF StandsAt
  <2>2. data[at + i] = s[i]
    BY DEF StandsAt
  <2> QED  BY <2>1, <2>2 DEF Byte0
<1>3. t = [i \in 1 .. w |-> s[i]]
  BY <1>2
<1>4. t = s
  BY <1>3
<1> HIDE DEF t
<1>5. (at + w > Len(data)) = FALSE
  BY <1>1 DEF StandsAt
<1>6. Read(data, at, w, order) = Loaded(Decode(order, t), at + w, at + w > Len(data))
  BY DEF Read, t
<1> QED  BY <1>4, <1>5, <1>6

\* The bytes between two others.
LEMMA BetweenStandsAt ==
    ASSUME NEW front \in Seq(Byte), NEW s \in Seq(Byte), NEW behind \in Seq(Byte)
    PROVE  front \o s \o behind \in Seq(Byte) /\ StandsAt(s, front \o s \o behind, Len(front))
<1> DEFINE p == front \o s
<1>1. /\ p \in Seq(Byte) /\ Len(p) = Len(front) + Len(s)
      /\ \A k \in 1 .. Len(p) : p[k] = IF k <= Len(front) THEN front[k] ELSE s[k - Len(front)]
  BY ConcatProperties, ZenonT(30)
<1> HIDE DEF p
<1> DEFINE q == p \o behind
<1>2. /\ q \in Seq(Byte) /\ Len(q) = Len(p) + Len(behind)
      /\ \A k \in 1 .. Len(q) : q[k] = IF k <= Len(p) THEN p[k] ELSE behind[k - Len(p)]
  <2>1. p \in Seq(Byte)
    BY <1>1
  <2> QED  BY <2>1, ConcatProperties
<1> HIDE DEF q
<1>3. Len(front) \in Nat /\ Len(s) \in Nat /\ Len(behind) \in Nat
  OBVIOUS
<1>4. ASSUME NEW k \in 1 .. Len(s) PROVE q[Len(front) + k] = s[k]
  <2> DEFINE j == Len(front) + k
  <2>1. /\ j \in 1 .. Len(p) /\ j \in 1 .. Len(q) /\ j <= Len(p)
        /\ ~(j <= Len(front)) /\ j - Len(front) = k
    BY <1>1, <1>2, <1>3
  <2> HIDE DEF j
  <2> QED  BY <1>1, <1>2, <2>1 DEF j
<1> QED  BY <1>1, <1>2, <1>3, <1>4 DEF StandsAt, q, p

LEMMA BlockBelow ==
    ASSUME NEW w \in Nat, NEW n \in Nat, NEW i \in 1 .. n
    PROVE  (i - 1) * w \in Nat /\ (i - 1) * w + w <= n * w
<1>1. i - 1 \in Nat /\ n - i \in Nat /\ n = ((i - 1) + 1) + (n - i)
  OBVIOUS
<1>2. \A x, y \in Nat : x * w \in Nat /\ ((x + 1) + y) * w = x * w + w + y * w
  OBVIOUS
<1>3. n * w = (i - 1) * w + w + (n - i) * w
  BY <1>1, <1>2
<1> QED  BY <1>1, <1>2, <1>3

LEMMA ChunksOfWhole ==
    ASSUME NEW bytes \in Seq(Byte), NEW w \in Nat \ {0}, NEW n \in Nat, n * w =< Len(bytes)
    PROVE  \A i \in 1 .. n :
              /\ Chunk(bytes, w, i) \in Seq(Byte) /\ Len(Chunk(bytes, w, i)) = w
              /\ (i - 1) * w \in Nat /\ (i - 1) * w + w =< Len(bytes)
              /\ \A k \in 1 .. w : Chunk(bytes, w, i)[k] = bytes[(i - 1) * w + k]
<1>1. \A i \in 1 .. n :
          /\ Chunk(bytes, w, i) \in Seq(Byte) /\ Len(Chunk(bytes, w, i)) = w
          /\ (i - 1) * w \in Nat /\ i * w = (i - 1) * w + w /\ i * w =< Len(bytes)
          /\ \A k \in 1 .. w : Chunk(bytes, w, i)[k] = bytes[(i - 1) * w + k]
  BY ChunkIs
<1> QED  BY <1>1

\* n values of w bytes stand in data from at to end, one behind the other.
ValuesStandAt(values, order, w, n, data, at, end) ==
    /\ order \in Orders /\ w \in Nat \ {0} /\ n \in Nat /\ data \in Seq(Byte) /\ at \in Nat
    /\ \E s \in Seq(Byte) :
          /\ StandsAt(s, data, at) /\ Len(s) = n * w /\ end = at + Len(s)
          /\ values = [i \in 1 .. n |-> values[i]]
          /\ \A i \in 1 .. n : values[i] = Decode(order, Chunk(s, w, i))

LEMMA ReadManyIs ==
    ASSUME NEW values, NEW order, NEW w, NEW n, NEW data, NEW at, NEW end,
           ValuesStandAt(values, order, w, n, data, at, end)
    PROVE  ReadMany(data, at, w, n, order) = Loaded(values, end, FALSE)
<1>t. order \in Orders /\ w \in Nat \ {0} /\ n \in Nat /\ data \in Seq(Byte) /\ at \in Nat
  BY DEF ValuesStandAt
<1>s. PICK s \in Seq(Byte) :
          /\ StandsAt(s, data, at) /\ Len(s) = n * w /\ end = at + Len(s)
          /\ values = [i \in 1 .. n |-> values[i]]
          /\ \A i \in 1 .. n : values[i] = Decode(order, Chunk(s, w, i))
  BY DEF ValuesStandAt
<1>0. \A i \in 1 .. n :
          /\ Chunk(s, w, i) \in Seq(Byte) /\ Len(Chunk(s, w, i)) = w
          /\ (i - 1) * w \in Nat /\ (i - 1) * w + w =< Len(s)
          /\ \A k \in 1 .. w : Chunk(s, w, i)[k] = s[(i - 1) * w + k]
  <2>1. n * w =< Len(s)
    BY <1>s, <1>t
  <2> QED  BY <1>t, <2>1, ChunksOfWhole
<1>1. ASSUME NEW i \in 1 .. n
      PROVE  Read(data, at + (i - 1) * w, w, order).value = Decode(order, Chunk(s, w, i))
  <2> DEFINE c == Chunk(s, w, i)
             a == (i - 1) * w
  <2>1. /\ c \in Seq(Byte) /\ Len(c) = w /\ a \in Nat /\ a + w =< Len(s)
        /\ \A k \in 1 .. w : c[k] = s[a + k]
    BY <1>0, <1>t
  <2> HIDE DEF c, a
  <2>2. at + a \in Nat /\ Len(s) \in Nat /\ Len(data) \in Nat
    BY <1>t, <2>1
  <2>3. ASSUME NEW k \in 1 .. w PROVE data[(at + a) + k] = c[k]
    <3>1. a + k \in 1 .. Len(s) /\ (at + a) + k = at + (a + k)
      BY <1>s, <1>t, <2>1, <2>2
    <3>2. data[at + (a + k)] = s[a + k]
      BY <1>s, <3>1 DEF StandsAt
    <3> QED  BY <2>1, <3>1, <3>2
  <2>4. StandsAt(c, data, at + a)
    BY <1>s, <1>t, <2>1, <2>2, <2>3 DEF StandsAt
  <2>5. Read(data, at + a, w, order) = Loaded(Decode(order, c), (at + a) + w, FALSE)
    <3>1. \A x \in Nat : StandsAt(c, data, x) =>
              Read(data, x, Len(c), order) = Loaded(Decode(order, c), x + Len(c), FALSE)
      BY <1>t, <2>1, ReadIs
    <3> QED  BY <2>1, <2>2, <2>4, <3>1
  <2> QED  BY <2>1, <2>5 DEF Loaded, a, c
<1>2. (n > 0 /\ at + n * w > Len(data)) = FALSE
  <2>1. at + Len(s) <= Len(data)
    BY <1>s DEF StandsAt
  <2>2. at + n * w <= Len(data) /\ at + n * w \in Nat /\ Len(data) \in Nat
    BY <1>s, <1>t, <2>1
  <2> QED  BY <2>2
<1> DEFINE read == [i \in 1 .. n |-> Read(data, at + (i - 1) * w, w, order).value]
<1>3. read = values
  BY <1>1, <1>s
<1>4. ReadMany(data, at, w, n, order)
      = Loaded(read, at + n * w, n > 0 /\ at + n * w > Len(data))
  BY DEF ReadMany
<1> HIDE DEF read
<1>5. at + n * w = end
  BY <1>s
<1> QED  BY <1>2, <1>3, <1>4, <1>5

AllOfWidth(s, w) == \A i \in 1 .. Len(s) : Len(s[i]) = w

\* Pieces of w bytes, put together: each is a chunk of the whole.
LEMMA PiecesAreChunks ==
    ASSUME NEW w \in Nat \ {0}, NEW parts \in Seq(Seq(Byte)), AllOfWidth(parts, w)
    PROVE  /\ FlattenSeq(parts) \in Seq(Byte)
           /\ Len(FlattenSeq(parts)) = Len(parts) * w
           /\ \A i \in 1 .. Len(parts) : Chunk(FlattenSeq(parts), w, i) = parts[i]
<1> DEFINE Whole(s) == /\ FlattenSeq(s) \in Seq(Byte)
                       /\ Len(FlattenSeq(s)) = Len(s) * w
                       /\ \A i \in 1 .. Len(s), k \in 1 .. w :
                             FlattenSeq(s)[(i - 1) * w + k] = s[i][k]
           Good == {s \in Seq(Seq(Byte)) : AllOfWidth(s, w) => Whole(s)}
<1>1. <<>> \in Good
  <2>1. FlattenSeq(<<>>) = <<>>
    BY DEF FlattenSeq
  <2>2. /\ Len(<<>>) = 0 /\ <<>> \in Seq(Byte) /\ <<>> \in Seq(Seq(Byte))
        /\ Len(<<>>) * w = 0
    OBVIOUS
  <2>3. Whole(<<>>)
    <3>1. /\ FlattenSeq(<<>>) \in Seq(Byte)
          /\ Len(FlattenSeq(<<>>)) = Len(<<>>) * w
      BY <2>1, <2>2
    <3>2. 1 .. Len(<<>>) = {}
      BY <2>2
    <3> QED  BY <3>1, <3>2
  <2> QED  BY <2>2, <2>3
<1>2. ASSUME NEW s \in Seq(Seq(Byte)), NEW x \in Seq(Byte), s \in Good
      PROVE  Append(s, x) \in Good
  <2> DEFINE t == Append(s, x)
  <2>1. /\ t \in Seq(Seq(Byte)) /\ Len(t) = Len(s) + 1 /\ Len(s) \in Nat
        /\ \A i \in 1 .. Len(s) : t[i] = s[i]
        /\ t[Len(s) + 1] = x
    BY AppendProperties
  <2> SUFFICES ASSUME AllOfWidth(t, w) PROVE Whole(t)
    BY <2>1
  <2> DEFINE p == FlattenSeq(s)
             q == FlattenSeq(t)
             a == Len(s) * w
  <2>2. p \in Seq(Byte) /\ q = p \o x
    BY FlattenSeqAppend
  <2> HIDE DEF t
  <2>3. AllOfWidth(s, w) /\ Len(x) = w
    <3>1. \A i \in 1 .. Len(s) : i \in 1 .. Len(t) /\ t[i] = s[i]
      BY <2>1
    <3>2. Len(s) + 1 \in 1 .. Len(t)
      BY <2>1
    <3> QED  BY <2>1, <3>1, <3>2 DEF AllOfWidth
  <2>4. Whole(s)
    <3> HIDE DEF Whole
    <3> QED  BY <1>2, <2>3
  <2>5. a \in Nat /\ Len(p) = a /\ Len(t) * w = a + w
    <3>1. (Len(s) + 1) * w = Len(s) * w + w /\ Len(s) * w \in Nat
      BY <2>1
    <3> QED  BY <2>1, <2>4, <3>1
  <2> HIDE DEF a
  <2>6. /\ q \in Seq(Byte) /\ Len(q) = a + w
        /\ \A k \in 1 .. (a + w) : q[k] = IF k <= a THEN p[k] ELSE x[k - a]
    <3> HIDE DEF p, q
    <3>1. /\ p \o x \in Seq(Byte) /\ Len(p \o x) = Len(p) + Len(x)
          /\ \A k \in 1 .. Len(p) + Len(x) : (p \o x)[k] =
                IF k <= Len(p) THEN p[k] ELSE x[k - Len(p)]
      BY <2>2, ConcatProperties
    <3> QED  BY <2>2, <2>3, <2>5, <3>1
  <2>7. ASSUME NEW i \in 1 .. Len(t), NEW k \in 1 .. w
        PROVE  q[(i - 1) * w + k] = t[i][k]
    <3>1. CASE i \in 1 .. Len(s)
      <4> DEFINE j == (i - 1) * w + k
      <4>1. j \in 1 .. a
        <5> DEFINE b == (i - 1) * w
        <5>2. b \in Nat /\ b + w <= a
          <6>1. Len(s) \in Nat /\ w \in Nat
            BY <2>1
          <6> QED  BY <3>1, <6>1, BlockBelow DEF a
        <5> HIDE DEF b
        <5>3. b + k \in 1 .. a
          BY <2>5, <5>2
        <5> QED  BY <5>3 DEF b
      <4>2. p[j] = s[i][k]
        BY <2>4, <3>1
      <4> HIDE DEF j, p, q
      <4>3. j \in 1 .. (a + w) /\ j <= a
        BY <2>5, <4>1
      <4>4. q[j] = p[j]
        BY <2>6, <4>3
      <4> QED  BY <2>1, <3>1, <4>2, <4>4 DEF j
    <3>2. CASE i = Len(s) + 1
      <4>1. i - 1 = Len(s)
        BY <2>1, <3>2
      <4>2. (i - 1) * w = a
        BY <4>1 DEF a
      <4>3. a + k \in 1 .. (a + w) /\ ~(a + k <= a) /\ (a + k) - a = k
        BY <2>5
      <4> HIDE DEF p, q
      <4>4. q[a + k] = x[k]
        BY <2>6, <4>3
      <4> QED  BY <2>1, <3>2, <4>2, <4>4
    <3> QED  BY <2>1, <3>1, <3>2
  <2> QED  BY <2>5, <2>6, <2>7
<1>3. parts \in Good
  <2> HIDE DEF Good
  <2> QED  BY <1>1, <1>2, SequenceInduction
<1> DEFINE whole == FlattenSeq(parts)
           n     == Len(parts)
<1>4. /\ whole \in Seq(Byte) /\ Len(whole) = n * w
      /\ \A i \in 1 .. n, k \in 1 .. w : whole[(i - 1) * w + k] = parts[i][k]
  BY <1>3
<1> HIDE DEF whole
<1>5. whole \in Seq(Byte)
  BY <1>4
<1>6. ASSUME NEW m \in Nat, m * w =< Len(whole)
      PROVE  \A i \in 1 .. m :
                /\ Chunk(whole, w, i) \in Seq(Byte) /\ Len(Chunk(whole, w, i)) = w
                /\ \A k \in 1 .. w : Chunk(whole, w, i)[k] = whole[(i - 1) * w + k]
  BY <1>5, <1>6, ChunksOfWhole
<1>7. ASSUME NEW i \in 1 .. n PROVE Chunk(whole, w, i) = parts[i]
  <2> DEFINE c == Chunk(whole, w, i)
  <2>2. /\ c \in Seq(Byte) /\ Len(c) = w
        /\ \A k \in 1 .. w : c[k] = whole[(i - 1) * w + k]
    <3>1. n \in Nat /\ n * w =< Len(whole)
      BY <1>4
    <3> QED  BY <1>6, <3>1
  <2>3. parts[i] \in Seq(Byte) /\ Len(parts[i]) = w
    BY DEF n, AllOfWidth
  <2> HIDE DEF c
  <2>4. \A k \in 1 .. w : c[k] = parts[i][k]
    BY <1>4, <2>2
  <2>5. c = parts[i]
    BY <2>2, <2>3, <2>4, SeqEqual
  <2> QED  BY <2>5 DEF c
<1> QED  BY <1>4, <1>7 DEF whole, n

\* encode_v and back.
LEMMA ArraysReadBack ==
    ASSUME NEW order \in Orders, NEW w \in Nat \ {0}, NEW n \in Nat,
           NEW values \in [1 .. n -> Representable(w)]
    PROVE  /\ Encode_v(order, values, w) \in Seq(Byte)
           /\ Len(Encode_v(order, values, w)) = n * w
           /\ [i \in 1 .. n |-> Decode(order, Chunk(Encode_v(order, values, w), w, i))] = values
<1> DEFINE parts == [i \in 1 .. n |-> Encode(order, values[i], w)]
           bytes  == Encode_v(order, values, w)
<1>1. ASSUME NEW i \in 1 .. n
      PROVE  /\ parts[i] \in Seq(Byte) /\ Len(parts[i]) = w
             /\ Decode(order, parts[i]) = values[i]
  <2>1. values[i] \in Representable(w) /\ w \in Nat
    OBVIOUS
  <2> QED  BY <2>1, ValuesReadBack
<1>2. parts \in Seq(Seq(Byte)) /\ Len(parts) = n
  BY <1>1
<1>3. Len(values) = n
  OBVIOUS
<1>4. bytes = FlattenSeq(parts)
  BY <1>3 DEF Encode_v
<1> HIDE DEF parts, bytes
<1>5. /\ bytes \in Seq(Byte) /\ Len(bytes) = n * w
      /\ \A i \in 1 .. n : Chunk(bytes, w, i) = parts[i]
  BY <1>1, <1>2, <1>4, PiecesAreChunks DEF AllOfWidth
<1>6. \A i \in 1 .. n : Decode(order, Chunk(bytes, w, i)) = values[i]
  BY <1>1, <1>5
<1>7. [i \in 1 .. n |-> Decode(order, Chunk(bytes, w, i))] = values
  BY <1>6
<1> QED  BY <1>5, <1>7 DEF bytes

\* decode_v and back.
LEMMA ArraysAreStoredBack ==
    ASSUME NEW order \in Orders, NEW w \in Nat \ {0}, NEW n \in Nat,
           NEW bytes \in Seq(Byte), Len(bytes) = n * w
    PROVE  Encode_v(order, [i \in 1 .. n |-> Decode(order, Chunk(bytes, w, i))], w) = bytes
<1> DEFINE values == [i \in 1 .. n |-> Decode(order, Chunk(bytes, w, i))]
<1>0. n * w =< Len(bytes) /\ w * n = Len(bytes)
  OBVIOUS
<1>1. ASSUME NEW i \in 1 .. n PROVE Encode(order, values[i], w) = Chunk(bytes, w, i)
  <2>1. Chunk(bytes, w, i) \in Seq(Byte) /\ w = Len(Chunk(bytes, w, i))
    BY <1>0, ChunksOfWhole
  <2>2. values[i] = Decode(order, Chunk(bytes, w, i))
    OBVIOUS
  <2> HIDE DEF values
  <2> QED  BY <2>1, <2>2, BytesAreStoredBack
<1>2. Len(values) = n
  OBVIOUS
<1> HIDE DEF values
<1>3. [i \in 1 .. n |-> Encode(order, values[i], w)] = [i \in 1 .. n |-> Chunk(bytes, w, i)]
  BY <1>1
<1>4. Encode_v(order, values, w) = SubSeq(bytes, 1, w * n)
  BY <1>0, <1>2, <1>3, ChunksFlatten DEF Encode_v
<1>5. SubSeq(bytes, 1, Len(bytes)) = bytes
  BY SubSeqFull
<1> QED  BY <1>0, <1>4, <1>5 DEF values

LEMMA TextLengthIs ==
    ASSUME NEW data \in Seq(Byte), NEW at \in Nat, NEW max \in Nat
    PROVE  LET n == TextLength(data, at, max)
           IN  /\ n \in 0 .. max
               /\ n = max \/ Byte0(data, at + n) = 0
               /\ \A i \in 0 .. (n - 1) : Byte0(data, at + i) # 0
<1> DEFINE Ends == {n \in 0 .. max : n = max \/ Byte0(data, at + n) = 0}
<1>1. Ends \in SUBSET Nat /\ max \in Ends
  OBVIOUS
<1>2. PICK x \in Ends : \A y \in Ends : x =< y
  BY <1>1, LeastNatural
<1>3. \A i \in 0 .. (x - 1) : Byte0(data, at + i) # 0
  <2> SUFFICES ASSUME NEW i \in 0 .. (x - 1), Byte0(data, at + i) = 0 PROVE FALSE
    OBVIOUS
  <2>1. i \in Ends /\ ~(x =< i)
    OBVIOUS
  <2> QED  BY <1>2, <2>1
<1>4. \E n \in 0 .. max : /\ n = max \/ Byte0(data, at + n) = 0
                          /\ \A i \in 0 .. (n - 1) : Byte0(data, at + i) # 0
  BY <1>2, <1>3
<1> QED  BY <1>4 DEF TextLength

\* Text is read up to its first NUL, or to its size.
LEMMA LoadTextIs ==
    ASSUME NEW data \in Seq(Byte), NEW at \in Nat, NEW max \in Nat, NEW s \in Seq(Byte),
           Len(s) = max, StandsAt(s, data, at)
    PROVE  \E text \in Seq(Byte) :
              /\ LoadText(Text(max), data, at) = Loaded(text, at + max, FALSE)
              /\ IsTextOf(text, s, max)
<1> DEFINE n    == TextLength(data, at, max)
           text == [i \in 1 .. n |-> Byte0(data, at + i - 1)]
<1>1. /\ n \in 0 .. max
      /\ n = max \/ Byte0(data, at + n) = 0
      /\ \A i \in 0 .. (n - 1) : Byte0(data, at + i) # 0
  BY TextLengthIs
<1>2. LoadText(Text(max), data, at)
      = Loaded(text, at + max, at + n > Len(data) \/ (at + n = Len(data) /\ n < max))
  BY DEF LoadText, Text
<1> HIDE DEF n
<1>3. Len(data) \in Nat /\ at + max <= Len(data)
  BY DEF StandsAt
<1>4. (at + n > Len(data) \/ (at + n = Len(data) /\ n < max)) = FALSE
  BY <1>1, <1>3
<1>5. ASSUME NEW j \in 0 .. (max - 1) PROVE Byte0(data, at + j) = s[j + 1] /\ s[j + 1] \in Byte
  <2>1. j + 1 \in 1 .. Len(s) /\ (at + j) + 1 = at + (j + 1) /\ at + j < Len(data)
    BY <1>3
  <2>2. data[at + (j + 1)] = s[j + 1]
    BY <2>1 DEF StandsAt
  <2> QED  BY <2>1, <2>2 DEF Byte0
<1>6. ASSUME NEW i \in 1 .. n PROVE text[i] = s[i] /\ s[i] # 0 /\ s[i] \in Byte
  <2>1. /\ i - 1 \in 0 .. (max - 1) /\ i - 1 \in 0 .. (n - 1)
        /\ at + i - 1 = at + (i - 1) /\ (i - 1) + 1 = i
    BY <1>1
  <2>2. Byte0(data, at + (i - 1)) = s[i] /\ s[i] \in Byte
    BY <1>5, <2>1
  <2>3. Byte0(data, at + (i - 1)) # 0
    BY <1>1, <2>1
  <2> QED  BY <2>1, <2>2, <2>3
<1>7. text \in Seq(Byte) /\ Len(text) = n
  <2>1. n \in Nat
    BY <1>1
  <2>2. \A i \in 1 .. n : Byte0(data, at + i - 1) \in Byte
    BY <1>6
  <2> QED  BY <2>1, <2>2
<1>8. n < max => s[n + 1] = 0
  <2> SUFFICES ASSUME n < max PROVE s[n + 1] = 0
    OBVIOUS
  <2>1. n \in 0 .. (max - 1)
    BY <1>1
  <2>2. Byte0(data, at + n) = 0
    BY <1>1, <2>1
  <2> QED  BY <1>5, <2>1, <2>2
<1> HIDE DEF text
<1>9. IsTextOf(text, s, max)
  BY <1>1, <1>6, <1>7, <1>8 DEF IsTextOf
<1> QED  BY <1>2, <1>4, <1>7, <1>9

\* Half a scale is what rounding loses.
LEMMA RoundedIs ==
    ASSUME NEW v \in Nat, NEW k \in Nat \ {0}
    PROVE  /\ Rounded(v, k) \in Nat /\ Rounded(v, k) * k \in Nat
           /\ 2 * (Rounded(v, k) * k - v) <= k
           /\ 2 * (v - Rounded(v, k) * k) <= k
<1> DEFINE x == 2 * v + k
           d == 2 * k
           q == x \div d
<1>1. x \in Nat /\ d \in Nat \ {0} /\ k \in Nat
  OBVIOUS
<1>2. q \in Nat /\ q * d <= x /\ x < q * d + d
  <2>1. \A y \in Nat, z \in Nat \ {0} :
           y \div z \in Nat /\ (y \div z) * z <= y /\ y < (y \div z) * z + z
    OBVIOUS
  <2> HIDE DEF x, d
  <2> QED  BY <1>1, <2>1
<1>3. Rounded(v, k) = q
  BY DEF Rounded
<1> HIDE DEF q
<1> DEFINE p == q * k
<1>4. p \in Nat /\ q * d = 2 * p
  BY <1>2
<1> HIDE DEF p
<1>5. 2 * p <= 2 * v + k /\ 2 * v + k < 2 * p + 2 * k
  BY <1>2, <1>4
<1>6. 2 * (p - v) <= k /\ 2 * (v - p) <= k
  BY <1>1, <1>4, <1>5
<1> QED  BY <1>2, <1>3, <1>4, <1>6 DEF p

LEMMA MultiplesAreKept ==
    ASSUME NEW q \in Nat, NEW k \in Nat \ {0}
    PROVE  q * k \in Nat /\ Rounded(q * k, k) = q
<1> DEFINE p == q * k
           d == 2 * k
           x == 2 * p + k
<1>1. p \in Nat /\ q * d = 2 * p /\ d \in Nat \ {0} /\ k \in Nat /\ k < d /\ k > 0
  OBVIOUS
<1> HIDE DEF p
<1>2. x \in Nat /\ q * d <= x /\ x < q * d + d
  BY <1>1
<1>3. \A y \in Nat, z \in Nat \ {0}, r \in Nat : r * z <= y /\ y < r * z + z => y \div z = r
  OBVIOUS
<1> HIDE DEF x, d
<1>4. x \div d = q
  BY <1>1, <1>2, <1>3
<1> QED  BY <1>1, <1>4 DEF Rounded, p, x, d

\* The text of a field that is padded with NULs is the text of what it holds.
LEMMA PaddedText ==
    ASSUME NEW value \in Seq(Byte), NEW max \in Nat, NEW text \in Seq(Byte),
           IsTextOf(text, TextBytes(value, max), max)
    PROVE  IsTextOf(text, value, max)
<1> DEFINE s == TextBytes(value, max)
           n == Len(text)
<1>1. n \in Nat /\ Len(value) \in Nat /\ DOMAIN value = 1 .. Len(value)
  OBVIOUS
<1>2. Len(s) = max /\ \A i \in 1 .. max : s[i] = IF i \in 1 .. Len(value) THEN value[i] ELSE 0
  BY <1>1 DEF TextBytes
<1> HIDE DEF s
<1>3. /\ n <= max /\ \A i \in 1 .. n : text[i] = s[i] /\ s[i] # 0
      /\ n < max => s[n + 1] = 0
  BY <1>2 DEF IsTextOf, s
<1>4. n <= Len(value)
  <2> SUFFICES ASSUME ~(n <= Len(value)) PROVE FALSE
    OBVIOUS
  <2>1. n \in 1 .. n /\ n \in 1 .. max /\ n \notin 1 .. Len(value)
    BY <1>1, <1>3
  <2> QED  BY <1>2, <1>3, <2>1
<1>5. ASSUME NEW i \in 1 .. n PROVE text[i] = value[i] /\ value[i] # 0
  <2>1. i \in 1 .. max /\ i \in 1 .. Len(value)
    BY <1>1, <1>3, <1>4
  <2> QED  BY <1>2, <1>3, <2>1
<1>6. n < Len(value) /\ n < max => value[n + 1] = 0
  <2> SUFFICES ASSUME n < Len(value), n < max PROVE value[n + 1] = 0
    OBVIOUS
  <2>1. n + 1 \in 1 .. max /\ n + 1 \in 1 .. Len(value)
    BY <1>1
  <2> QED  BY <1>2, <1>3, <2>1
<1> QED  BY <1>3, <1>4, <1>5, <1>6 DEF IsTextOf

\* serialize then deserialize, for a field of a fixed size: it takes that size
\* whatever the byte orders of host and data and whatever stands around it, no
\* byte past it is read, and what is read back is what it held, text up to its
\* first NUL and cut to its size, a scaled number to half a scale.
THEOREM FieldsReadBack ==
    ASSUME NEW f, IsFixed(f), NEW order \in Orders, NEW value, Holds(f, value), NEW old,
           NEW front \in Seq(Byte), NEW behind \in Seq(Byte)
    PROVE  FieldReadsBack(f, order, value, old, front, behind)
<1> DEFINE at       == Len(front)
           Data(s)  == front \o s \o behind
           bytes    == StoreFixed(f, order, value)
           r        == LoadFixed(f, order, old, Data(bytes), at)
           Kept     == /\ Len(bytes) = FixedSize(f)
                       /\ r.at = at + FixedSize(f)
                       /\ ~r.over
                       /\ IsReadBack(f, value, r.value)
<1>0. \A s \in Seq(Byte) : Data(s) \in Seq(Byte) /\ StandsAt(s, Data(s), at)
  BY BetweenStandsAt
<1>n. at \in Nat
  OBVIOUS
<1> HIDE DEF Data, at
<1>1. ASSUME NEW w \in Nat \ {0}, f = Scalar(w) PROVE Kept
  <2>1. /\ f.kind = "scalar" /\ f.width = w /\ w \in Nat /\ FixedSize(f) = w
        /\ bytes = Encode(order, value, w) /\ r = Read(Data(bytes), at, w, order)
        /\ value \in Representable(w)
    BY <1>1 DEF Scalar, FixedSize, StoreFixed, LoadFixed, Holds
  <2> HIDE DEF bytes, r
  <2>2. bytes \in Seq(Byte) /\ Len(bytes) = w /\ Decode(order, bytes) = value
    BY <2>1, ValuesReadBack
  <2>b. bytes \in Seq(Byte)
    BY <2>2
  <2>3. r = Loaded(value, at + w, FALSE)
    <3> DEFINE d == Data(bytes)
    <3>1. d \in Seq(Byte) /\ StandsAt(bytes, d, at)
      BY <1>0, <2>2
    <3> HIDE DEF d
    <3>2. Read(d, at, Len(bytes), order)
          = Loaded(Decode(order, bytes), at + Len(bytes), FALSE)
      BY <1>n, <2>b, <3>1, ReadIs
    <3> QED  BY <2>1, <2>2, <3>2 DEF d
  <2>4. IsReadBack(f, value, value)
    BY <2>1 DEF IsReadBack
  <2> QED  BY <2>1, <2>2, <2>3, <2>4 DEF Loaded
<1>2. ASSUME NEW n \in Nat, NEW b \in Byte, f = Padding(n, b) PROVE Kept
  <2>1. /\ FixedSize(f) = n /\ bytes = [i \in 1 .. n |-> b]
        /\ r = Loaded(old, at + n, FALSE)
        /\ IsReadBack(f, value, r.value)
    BY <1>2 DEF Padding, FixedSize, StoreFixed, LoadFixed, IsReadBack
  <2> HIDE DEF bytes, r
  <2>2. Len(bytes) = n
    BY <2>1
  <2> QED  BY <2>1, <2>2 DEF Loaded
<1>3. ASSUME NEW w \in Nat \ {0}, NEW n \in Nat, f = Static(w, n) PROVE Kept
  <2>1. /\ f.kind = "static" /\ FixedSize(f) = n * w
        /\ bytes = Encode_v(order, value, w) /\ r = ReadMany(Data(bytes), at, w, n, order)
        /\ value \in [1 .. n -> Representable(w)]
    BY <1>3 DEF Static, FixedSize, StoreFixed, LoadFixed, Holds
  <2> HIDE DEF bytes, r
  <2>2. /\ bytes \in Seq(Byte) /\ Len(bytes) = n * w
        /\ [i \in 1 .. n |-> Decode(order, Chunk(bytes, w, i))] = value
    BY <2>1, ArraysReadBack
  <2>b. bytes \in Seq(Byte)
    BY <2>2
  <2>3. r = Loaded(value, at + n * w, FALSE)
    <3> DEFINE d == Data(bytes)
    <3>1. d \in Seq(Byte) /\ StandsAt(bytes, d, at)
      BY <1>0, <2>2
    <3> HIDE DEF d
    <3>2. ValuesStandAt(value, order, w, n, d, at, at + n * w)
      BY <1>n, <2>1, <2>2, <3>1 DEF ValuesStandAt
    <3>3. ReadMany(d, at, w, n, order) = Loaded(value, at + n * w, FALSE)
      BY <3>2, ReadManyIs, Zenon
    <3> QED  BY <2>1, <3>3 DEF d
  <2>4. IsReadBack(f, value, value)
    BY <2>1 DEF IsReadBack
  <2> QED  BY <2>1, <2>2, <2>3, <2>4 DEF Loaded
<1>4. ASSUME NEW n \in Nat, f = Text(n) PROVE Kept
  <2>1. /\ f.kind = "text" /\ f.max = n /\ FixedSize(f) = n
        /\ bytes = TextBytes(value, n) /\ r = LoadText(f, Data(bytes), at)
        /\ value \in Seq(Byte)
    BY <1>4 DEF Text, FixedSize, StoreFixed, LoadFixed, Holds
  <2> HIDE DEF bytes, r
  <2>2. bytes \in Seq(Byte) /\ Len(bytes) = n
    BY <2>1, ByteFacts DEF TextBytes
  <2>3. PICK text \in Seq(Byte) : /\ r = Loaded(text, at + n, FALSE)
                                  /\ IsTextOf(text, bytes, n)
    <3> DEFINE d == Data(bytes)
    <3>1. d \in Seq(Byte) /\ StandsAt(bytes, d, at)
      BY <1>0, <2>2
    <3> HIDE DEF d
    <3>2. \E text \in Seq(Byte) : /\ LoadText(Text(n), d, at) = Loaded(text, at + n, FALSE)
                                 /\ IsTextOf(text, bytes, n)
      BY <1>n, <2>2, <3>1, LoadTextIs
    <3> QED  BY <1>4, <2>1, <3>2 DEF d
  <2>4. IsTextOf(text, value, n)
    BY <2>1, <2>3, PaddedText
  <2>5. IsReadBack(f, value, text)
    BY <2>1, <2>4 DEF IsReadBack
  <2> QED  BY <2>1, <2>2, <2>3, <2>5 DEF Loaded
<1>5. ASSUME NEW w \in Nat \ {0}, NEW k \in Nat \ {0}, f = Scaled(w, k) PROVE Kept
  <2> DEFINE raw == Rounded(value, k)
  <2>1. /\ f.kind = "scaled" /\ f.scale = k /\ FixedSize(f) = w /\ w \in Nat
        /\ bytes = Encode(order, raw, w)
        /\ r = [Read(Data(bytes), at, w, order) EXCEPT !.value = @ * k]
        /\ value \in Nat /\ raw \in Representable(w)
    BY <1>5 DEF Scaled, FixedSize, StoreFixed, LoadFixed, Holds
  <2>2. 2 * (raw * k - value) <= k /\ 2 * (value - raw * k) <= k
    BY <2>1, RoundedIs
  <2> HIDE DEF bytes, r, raw
  <2>3. bytes \in Seq(Byte) /\ Len(bytes) = w /\ Decode(order, bytes) = raw
    BY <2>1, ValuesReadBack
  <2>4. Read(Data(bytes), at, w, order) = Loaded(raw, at + w, FALSE)
    <3> DEFINE d == Data(bytes)
    <3>1. d \in Seq(Byte) /\ StandsAt(bytes, d, at)
      BY <1>0, <2>3
    <3> HIDE DEF d
    <3>2. Read(d, at, Len(bytes), order)
          = Loaded(Decode(order, bytes), at + Len(bytes), FALSE)
      BY <1>n, <2>3, <3>1, ReadIs, Zenon
    <3> QED  BY <2>3, <3>2 DEF d
  <2>5. r.value = raw * k /\ r.at = at + w /\ r.over = FALSE
    <3>1. r = [Loaded(raw, at + w, FALSE) EXCEPT !.value = @ * k]
      BY <2>1, <2>4, Zenon
    <3> QED  BY <3>1 DEF Loaded
  <2>6. IsReadBack(f, value, raw * k)
    BY <2>1, <2>2 DEF IsReadBack
  <2> QED  BY <2>1, <2>3, <2>5, <2>6
<1>6. Kept
  <2> HIDE DEF Kept
  <2> QED  BY <1>1, <1>2, <1>3, <1>4, <1>5 DEF IsFixed
<1> QED  BY <1>6 DEF FieldReadsBack, Data, at

\* deserialize then serialize, for a field of a fixed size that stands in the
\* input: it is stored as the bytes it was read from, text as far as its first
\* NUL, padding as its own byte, and no byte past it was read.
THEOREM FieldsKeepBytes ==
    ASSUME NEW f, IsFixed(f), NEW order \in Orders, NEW old, NEW data \in Seq(Byte),
           NEW at \in Nat, at + FixedSize(f) <= Len(data)
    PROVE  FieldKeepsBytes(f, order, old, data, at)
<1> DEFINE held  == SubSeq(data, at + 1, at + FixedSize(f))
           r     == LoadFixed(f, order, old, data, at)
           bytes == StoreFixed(f, order, r.value)
           Agree == CASE f.kind \in {"scalar", "static", "scaled"} -> bytes = held
                      [] f.kind = "padding" -> bytes = [i \in 1 .. f.size |-> f.byte]
                      [] f.kind = "text" ->
                           /\ IsTextOf(r.value, held, f.max)
                           /\ bytes = [i \in 1 .. f.max |->
                                          IF i <= Len(r.value) THEN held[i] ELSE 0]
           Kept  == r.at = at + FixedSize(f) /\ ~r.over /\ Agree
<1>0. FixedSize(f) \in Nat
  <2>1. ASSUME NEW w \in Nat \ {0}, f = Scalar(w) PROVE FixedSize(f) \in Nat
    BY <2>1 DEF Scalar, FixedSize
  <2>2. ASSUME NEW n \in Nat, NEW b \in Byte, f = Padding(n, b) PROVE FixedSize(f) \in Nat
    BY <2>2 DEF Padding, FixedSize
  <2>3. ASSUME NEW w \in Nat \ {0}, NEW n \in Nat, f = Static(w, n) PROVE FixedSize(f) \in Nat
    BY <2>3 DEF Static, FixedSize
  <2>4. ASSUME NEW n \in Nat, f = Text(n) PROVE FixedSize(f) \in Nat
    BY <2>4 DEF Text, FixedSize
  <2>5. ASSUME NEW w \in Nat \ {0}, NEW k \in Nat \ {0}, f = Scaled(w, k)
        PROVE  FixedSize(f) \in Nat
    BY <2>5 DEF Scaled, FixedSize
  <2> QED  BY <2>1, <2>2, <2>3, <2>4, <2>5 DEF IsFixed
<1>a. held \in Seq(Byte) /\ Len(held) = FixedSize(f) /\ StandsAt(held, data, at)
  <2> DEFINE size == FixedSize(f)
             z    == at + size
  <2>1. size \in Nat /\ z \in Nat /\ z <= Len(data) /\ Len(data) \in Nat
    BY <1>0
  <2>h. held = SubSeq(data, at + 1, z)
    OBVIOUS
  <2> HIDE DEF size, z, held
  <2>2. /\ at + 1 \in Int /\ z \in Int /\ z - (at + 1) + 1 = size
        /\ at + 1 <= z <=> size # 0
        /\ \A j \in (at + 1) .. z : data[j] \in Byte
    BY <2>1 DEF z
  <2>3. /\ held \in Seq(Byte)
        /\ Len(held) = IF at + 1 <= z THEN z - (at + 1) + 1 ELSE 0
        /\ \A k \in 1 .. z - (at + 1) + 1 : held[k] = data[(at + 1) + k - 1]
    BY <2>2, <2>h, SubSeqProperties
  <2>4. \A k \in 1 .. size : (at + 1) + k - 1 = at + k
    BY <2>1
  <2>5. Len(held) = size /\ \A k \in 1 .. size : data[at + k] = held[k]
    BY <2>1, <2>2, <2>3, <2>4
  <2> QED  BY <2>1, <2>3, <2>5 DEF StandsAt, z, size
<1> HIDE DEF held
<1>1. ASSUME NEW w \in Nat \ {0}, f = Scalar(w) PROVE Kept
  <2>1. /\ f.kind = "scalar" /\ FixedSize(f) = w
        /\ r = Read(data, at, w, order) /\ bytes = Encode(order, r.value, w)
    BY <1>1 DEF Scalar, FixedSize, StoreFixed, LoadFixed
  <2> HIDE DEF bytes, r
  <2>2. r = Loaded(Decode(order, held), at + w, FALSE)
    <3>1. Read(data, at, Len(held), order)
          = Loaded(Decode(order, held), at + Len(held), FALSE)
      BY <1>a, ReadIs
    <3> QED  BY <1>a, <2>1, <3>1
  <2>3. bytes = held
    BY <1>a, <2>1, <2>2, BytesAreStoredBack DEF Loaded
  <2> QED  BY <2>1, <2>2, <2>3 DEF Loaded
<1>2. ASSUME NEW n \in Nat, NEW b \in Byte, f = Padding(n, b) PROVE Kept
  <2>1. /\ f.kind = "padding" /\ FixedSize(f) = n
        /\ bytes = [i \in 1 .. f.size |-> f.byte]
        /\ r = Loaded(old, at + n, FALSE)
    BY <1>2 DEF Padding, FixedSize, StoreFixed, LoadFixed
  <2> HIDE DEF bytes, r
  <2> QED  BY <2>1 DEF Loaded
<1>3. ASSUME NEW w \in Nat \ {0}, NEW n \in Nat, f = Static(w, n) PROVE Kept
  <2>1. /\ f.kind = "static" /\ FixedSize(f) = n * w
        /\ r = ReadMany(data, at, w, n, order) /\ bytes = Encode_v(order, r.value, w)
    BY <1>3 DEF Static, FixedSize, StoreFixed, LoadFixed
  <2> HIDE DEF bytes, r
  <2> DEFINE values == [i \in 1 .. n |-> Decode(order, Chunk(held, w, i))]
  <2>2. r = Loaded(values, at + n * w, FALSE)
    <3>1. Len(held) = n * w
      BY <1>a, <2>1
    <3>2. ValuesStandAt(values, order, w, n, data, at, at + n * w)
      BY <1>a, <3>1 DEF ValuesStandAt
    <3> HIDE DEF values
    <3>3. ReadMany(data, at, w, n, order) = Loaded(values, at + n * w, FALSE)
      BY <3>2, ReadManyIs, Zenon
    <3> QED  BY <2>1, <3>3
  <2>3. bytes = held
    BY <1>a, <2>1, <2>2, ArraysAreStoredBack DEF Loaded
  <2> QED  BY <2>1, <2>2, <2>3 DEF Loaded
<1>4. ASSUME NEW n \in Nat, f = Text(n) PROVE Kept
  <2>1. /\ f.kind = "text" /\ f.max = n /\ FixedSize(f) = n
        /\ r = LoadText(f, data, at) /\ bytes = TextBytes(r.value, n)
    BY <1>4 DEF Text, FixedSize, StoreFixed, LoadFixed
  <2> HIDE DEF bytes, r
  <2>2. PICK text \in Seq(Byte) : /\ r = Loaded(text, at + n, FALSE)
                                  /\ IsTextOf(text, held, n)
    BY <1>4, <1>a, <2>1, LoadTextIs
  <2>3. r.value = text /\ r.at = at + n /\ r.over = FALSE
    BY <2>2 DEF Loaded
  <2>4. bytes = [i \in 1 .. n |-> IF i <= Len(text) THEN held[i] ELSE 0]
    <3>1. ASSUME NEW i \in 1 .. n
          PROVE  (IF i \in DOMAIN text THEN text[i] ELSE 0)
                 = (IF i <= Len(text) THEN held[i] ELSE 0)
      <4>1. i \in DOMAIN text <=> i <= Len(text)
        OBVIOUS
      <4>2. i \in DOMAIN text => text[i] = held[i]
        BY <2>2 DEF IsTextOf
      <4> QED  BY <4>1, <4>2
    <3> QED  BY <2>1, <2>3, <3>1 DEF TextBytes
  <2> QED  BY <2>1, <2>2, <2>3, <2>4
<1>5. ASSUME NEW w \in Nat \ {0}, NEW k \in Nat \ {0}, f = Scaled(w, k) PROVE Kept
  <2>1. /\ f.kind = "scaled" /\ f.scale = k /\ FixedSize(f) = w
        /\ r = [Read(data, at, w, order) EXCEPT !.value = @ * k]
        /\ bytes = Encode(order, Rounded(r.value, k), w)
    BY <1>5 DEF Scaled, FixedSize, StoreFixed, LoadFixed
  <2> HIDE DEF bytes, r
  <2> DEFINE raw == Decode(order, held)
  <2>2. raw \in Nat /\ Encode(order, raw, w) = held
    BY <1>a, <2>1, BytesAreStoredBack
  <2>3. Read(data, at, w, order) = Loaded(raw, at + w, FALSE)
    <3>1. Read(data, at, Len(held), order)
          = Loaded(Decode(order, held), at + Len(held), FALSE)
      BY <1>a, ReadIs
    <3> QED  BY <1>a, <2>1, <3>1
  <2> HIDE DEF raw
  <2>4. r.value = raw * k /\ r.at = at + w /\ r.over = FALSE
    <3>1. r = [Loaded(raw, at + w, FALSE) EXCEPT !.value = @ * k]
      BY <2>1, <2>3, Zenon
    <3> QED  BY <3>1 DEF Loaded
  <2>5. Rounded(raw * k, k) = raw
    BY <2>2, MultiplesAreKept
  <2>6. bytes = held
    BY <2>1, <2>2, <2>4, <2>5
  <2> QED  BY <2>1, <2>4, <2>6
<1>6. Kept
  <2> HIDE DEF Kept
  <2> QED  BY <1>1, <1>2, <1>3, <1>4, <1>5 DEF IsFixed
<1> QED  BY <1>6 DEF FieldKeepsBytes, held

=============================================================================
