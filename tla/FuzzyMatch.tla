----------------------------- MODULE FuzzyMatch -----------------------------
(***************************************************************************)
(* fuzzy_match: the best way to match a query as a subsequence of a        *)
(* candidate, found level by level: level j holds, for each position of the *)
(* candidate, the best score of the first j characters of the query with the *)
(* j-th of them there, or NegInf.  Positions count from 1.                 *)
(* Definitions named X_Y are plausible errors in X, for the mutation runs. *)
(***************************************************************************)
EXTENDS Integers, Sequences, SequencesExt, FiniteSetsExt

CONSTANTS
    LowerOf,              \* to_lower, a function on characters
    Uppers, Lowers,       \* is_upper, is_lower
    Separators            \* '_', ' ' and '/'

NegInf == -1              \* every score of a match is positive

Same(a, b) == LowerOf[a] = LowerOf[b]

WordStartBonus(candidate, i) ==
    IF i = 1 \/ candidate[i - 1] \in Separators THEN 3
    ELSE IF candidate[i] \in Uppers /\ candidate[i - 1] \in Lowers THEN 2
    ELSE 0

FirstLevel(query, candidate) ==
    [i \in DOMAIN candidate |->
        IF Same(query[1], candidate[i]) THEN 1 + WordStartBonus(candidate, i) ELSE NegInf]

\* The best of the positions before the one just before i.
PrefixMax(level, i) == Max({NegInf} \cup {level[k] : k \in 1 .. (i - 2)})

Adjacent(level, i) == IF i > 1 /\ level[i - 1] # NegInf THEN level[i - 1] + 4 ELSE NegInf

BestPrevious_Reused(level, i) == Max({PrefixMax(level, i), Adjacent(level, i), level[i]})

BestPrevious(level, i) == Max({PrefixMax(level, i), Adjacent(level, i)})

NextLevel(level, c, candidate) ==
    [i \in DOMAIN candidate |->
        IF BestPrevious(level, i) # NegInf /\ Same(c, candidate[i])
        THEN BestPrevious(level, i) + 1 + WordStartBonus(candidate, i)
        ELSE NegInf]

Levels(query, candidate) ==
    LET level[j \in DOMAIN query] ==
            IF j = 1 THEN FirstLevel(query, candidate)
            ELSE NextLevel(level[j - 1], query[j], candidate)
    IN  level

LastLevel(query, candidate) == Levels(query, candidate)[Len(query)]

\* best_alignment_raw_score, of a query that is not empty.
RawScore(query, candidate) ==
    IF Len(query) > Len(candidate) THEN -1 ELSE Max(Range(LastLevel(query, candidate)))

\* Where the best score before i was: next to it unless an earlier one is
\* better, and then the first such position.
PreviousOf(level, i) ==
    IF Adjacent(level, i) >= PrefixMax(level, i) THEN i - 1
    ELSE Min({k \in 1 .. (i - 2) : level[k] = PrefixMax(level, i)})

BestLast(last) == Min({i \in DOMAIN last : last[i] = Max(Range(last))})

\* best_alignment_with_positions: back from the first best position of the
\* last level, through the levels before it; <<>> when nothing matches.
Positions(query, candidate) ==
    LET m      == Len(query)
        levels == Levels(query, candidate)
        back[k \in 0 .. (m - 1)] ==
            IF k = 0 THEN BestLast(levels[m]) ELSE PreviousOf(levels[m - k], back[k - 1])
    IN  IF RawScore(query, candidate) = -1 THEN <<>> ELSE [j \in 1 .. m |-> back[m - j]]

ScoreOfLength(raw, query, candidate) ==
    Max({1, (raw * 100) \div (100 + Len(candidate) - Len(query))})

FuzzyMatchScore(query, candidate) ==
    IF query = <<>> THEN 1
    ELSE IF candidate = <<>> \/ RawScore(query, candidate) < 0 THEN 0
    ELSE ScoreOfLength(RawScore(query, candidate), query, candidate)

FuzzyMatchResult(query, candidate) ==
    [score |-> FuzzyMatchScore(query, candidate),
     match_positions |-> IF query = <<>> \/ candidate = <<>> THEN <<>>
                         ELSE Positions(query, candidate)]

-----------------------------------------------------------------------------
(* What a match is, and what is promised of it. *)

Alignments(query, candidate) ==
    {p \in [DOMAIN query -> DOMAIN candidate] :
        /\ \A j \in DOMAIN query : Same(query[j], candidate[p[j]])
        /\ \A j, k \in DOMAIN query : j < k => p[j] < p[k]}

\* One for each character, a bonus at the start of a word, four for a neighbour.
Gain(p, j, candidate) ==
    1 + WordStartBonus(candidate, p[j]) + (IF j > 1 /\ p[j] = p[j - 1] + 1 THEN 4 ELSE 0)

AlignmentScore(p, candidate) ==
    LET sum[j \in 0 .. Len(p)] == IF j = 0 THEN 0 ELSE sum[j - 1] + Gain(p, j, candidate)
    IN  sum[Len(p)]

\* The score is that of the best way to match the query, however early a worse
\* one starts, and -1 when it is no subsequence of the candidate.
RawScoreIsBest(query, candidate) ==
    RawScore(query, candidate) =
        Max({-1} \cup {AlignmentScore(p, candidate) : p \in Alignments(query, candidate)})

\* The positions reported are a way to match the query, and one that has the
\* score reported, in the variant that keeps back pointers.
PositionsHaveTheScore(query, candidate) ==
    LET p == FuzzyMatchResult(query, candidate).match_positions
    IN  IF Alignments(query, candidate) = {} THEN p = <<>>
        ELSE /\ p \in Alignments(query, candidate)
             /\ AlignmentScore(p, candidate) = RawScore(query, candidate)

\* A score of 0 says exactly that there is no match: no match is scaled down to
\* 0 by the length of its candidate, and no miss is scaled up to 1.
ZeroIsNoMatch(query, candidate) ==
    FuzzyMatchScore(query, candidate) = 0 <=> Alignments(query, candidate) = {}

MatchHasBestScore(query, candidate) ==
    /\ RawScoreIsBest(query, candidate)
    /\ PositionsHaveTheScore(query, candidate)
    /\ ZeroIsNoMatch(query, candidate)

=============================================================================
