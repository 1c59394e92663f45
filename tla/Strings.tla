------------------------------ MODULE Strings -------------------------------
(***************************************************************************)
(* trim and make_unique_name.  A string is a sequence of characters, and a *)
(* generated name is its base with the number that was put behind it.      *)
(* Definitions named X_Y are plausible errors in X, for the mutation runs. *)
(***************************************************************************)
EXTENDS Integers, Sequences, SequencesExt, FiniteSets, FiniteSetsExt

CONSTANTS
    Characters,
    Spaces                         \* the characters isspace accepts

NonSpaces(s) == {i \in DOMAIN s : s[i] \notin Spaces}

\* erase from the start to the first character that is no space, or all.
LTrim(s) == SubSeq(s, Min(NonSpaces(s) \cup {Len(s) + 1}), Len(s))

RTrim_AtLast(s) == SubSeq(s, 1, Max(NonSpaces(s) \cup {0}) - 1)

\* base() of the reverse iterator: what follows the last such character.
RTrim(s) == SubSeq(s, 1, Max(NonSpaces(s) \cup {0}))

Trim(s) == RTrim(LTrim(s))

Plain(base)       == [base |-> base, number |-> 0]
Numbered(base, i) == [base |-> base, number |-> i]

\* The numbers from 1 on are tried in turn; n names take no more than n of them.
FirstFree(base, blacklist) ==
    LET n == Cardinality(blacklist)
        from[i \in 1 .. (n + 1)] ==
            IF Numbered(base, i) \in blacklist /\ i <= n THEN from[i + 1] ELSE Numbered(base, i)
    IN  from[1]

MakeUniqueName(base, blacklist) ==
    IF Plain(base) \notin blacklist THEN Plain(base) ELSE FirstFree(base, blacklist)

-----------------------------------------------------------------------------
\* trim cuts all spaces off both ends and no other character.
TrimCutsTheEnds(items) ==
    LET trimmed == Trim(items)
    IN  \E i, j \in 0 .. Len(items) :
           /\ trimmed = SubSeq(items, i + 1, j)
           /\ \A k \in DOMAIN items : k <= i \/ k > j => items[k] \in Spaces
           /\ trimmed # <<>> => trimmed[1] \notin Spaces /\ Last(trimmed) \notin Spaces

\* The name is not taken, and no name with a lower number is free.
UniqueNameIsFirstFree(base, blacklist) ==
    LET name == MakeUniqueName(base, blacklist)
    IN  /\ name.base = base /\ name \notin blacklist
        /\ \A n \in 0 .. (name.number - 1) : Numbered(base, n) \in blacklist

=============================================================================
