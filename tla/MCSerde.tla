------------------------------ MODULE MCSerde -------------------------------
(***************************************************************************)
(* Structures with every kind of field, two objects of each, and inputs of *)
(* up to MaxInput bytes: every first three, then ones.                     *)
(***************************************************************************)
EXTENDS Serde

CONSTANTS MaxInput

Sample(s, v, w) == [schema |-> s, values |-> {v, w}]

Point == Schema("big", <<Scalar(1), Scalar(2)>>)
Item  == Schema("little", <<Scalar(1), Dynamic(Scalar(1), 1)>>)

\* A size in bytes in a sibling field.
Counted == Schema("big", <<Scalar(1), DynBytes(1, 1)>>)

Described == {
    \* scalars in the other order than the host's, padding, an array in place
    Sample(Schema("big", <<Scalar(2), Padding(1, 2), Static(1, 2)>>),
           <<5, <<>>, <<1, 2>>>>, <<2, <<>>, <<0, 0>>>>),
    \* a count in a sibling field; a composite with an order of its own
    Sample(Schema("little", <<Scalar(1), Dynamic(Scalar(2), 1), Composite(Point)>>),
           <<2, <<7, 1>>, <<1, 5>>>>, <<0, <<>>, <<2, 3>>>>),
    \* an array of structures whose own arrays differ in length, then a field
    Sample(Schema("little", <<Scalar(1), Dynamic(Composite(Item), 1), Scalar(1)>>),
           <<2, <<<<1, <<2>>>>, <<0, <<>>>>>>, 1>>, <<1, <<<<2, <<1, 0>>>>>>, 2>>),
    \* text longer and shorter than its field, a scaled number that rounds
    Sample(Schema("big", <<Text(2), Scaled(1, 4), Unused(Scalar(1))>>),
           <<<<1, 2, 1>>, 6, 0>>, <<<<1>>, 5, 0>>),
    Sample(Counted, <<2, <<2, 1>>>>, <<0, <<>>>>),
    \* elements of constant size until the end
    Sample(Schema("big", <<Text(1), UntilEof(Composite(Point))>>),
           <<<<1>>, <<<<1, 4>>, <<2, 0>>>>>>, <<<<>>, <<>>>>),
    \* a size from the context; elements of variable size until the end
    Sample(Schema("little", <<Dynamic(Scalar(1), 0), UntilEof(Composite(Item))>>),
           <<<<1>>, <<<<0, <<>>>>, <<1, <<2>>>>>>>>, <<<<2>>, <<>>>>),
    \* scalars until the end
    Sample(Schema("big", <<UntilEof(Scalar(2))>>), <<<<1, 2>>>>, <<<<>>>>)}

\* Wrappers around a field that is not of constant layout in memory.
Wrapped == {
    Sample(Schema("little", <<Unused(Text(2)), Scalar(1)>>), <<<<>>, 1>>, <<<<>>, 2>>),
    Sample(Schema("little", <<Unused(Scaled(1, 4)), Scalar(1)>>), <<0, 1>>, <<0, 2>>)}

AllSamples       == Described \cup Wrapped
DescribedSchemas == {x.schema : x \in Described}
AllSchemas       == {x.schema : x \in AllSamples}

MCSamples(s) == UNION {x.values : x \in {y \in AllSamples : y.schema = s}}
MCMemories   == {<<>>, [i \in 1 .. 3 |-> 1], [i \in 1 .. 12 |-> 1]}
MCInputs     == UNION {{h \o [i \in 1 .. (n - Len(h)) |-> 1] :
                            h \in [1 .. (IF n < 3 THEN n ELSE 3) -> Byte]} : n \in 0 .. MaxInput}

=============================================================================
