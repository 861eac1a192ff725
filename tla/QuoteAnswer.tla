---------------------------- MODULE QuoteAnswer -----------------------------
(***************************************************************************)
(* The answer of a sweep in closed form: what sort check and sweep loop     *)
(* return for a side s, an input a, a slippage bound m and a ladder ls.     *)
(***************************************************************************)
EXTENDS Ladder, FiniteSets, Functions

Depth(s, ls, i) == SumFunction([j \in 1 .. i |-> Pay(s, ls[j])])

Touched(s, a, ls) == {i \in DOMAIN ls : Depth(s, ls, i - 1) < a}

\* What level i contributes to a fill of a.
Share(s, a, ls, i) ==
    LET in == a - Depth(s, ls, i - 1)
    IN  IF in >= Pay(s, ls[i]) THEN Get(s, ls[i]) ELSE PartialOut(s, in, ls[i])

Total(s, a, ls, i) == SumFunction([j \in 1 .. i |-> Share(s, a, ls, j)])

\* The first of the loop's errors at level i.
Trouble(s, a, ls, i) ==
    IF Degenerate(ls[i])                THEN "DegenerateLevelEntry"
    ELSE IF Share(s, a, ls, i) = 0      THEN "InsufficientLiquidity"
    ELSE IF Total(s, a, ls, i) > U64Max THEN "Overflow"
    ELSE "none"

\* Every level is strictly worse than the one before it.  Without degenerate
\* levels so is every later one; a degenerate level may hide one that is not.
StrictlyWorsening(s, ls) ==
    \A i \in 1 .. Len(ls) - 1 : WindowOrdered(s, ls[i], ls[i + 1])

Refused(e) == [result |-> e, out |-> 0]

Answer(s, a, m, ls) ==
    LET touched == Touched(s, a, ls)
        bad     == {i \in touched : Trouble(s, a, ls, i) # "none"}
        total   == Total(s, a, ls, Cardinality(touched))
    IN  IF ~StrictlyWorsening(s, ls) THEN Refused("InvalidLevelOrdering")
        ELSE IF bad # {}
        THEN Refused(Trouble(s, a, ls, CHOOSE i \in bad : \A j \in bad : i <= j))
        ELSE IF Depth(s, ls, Len(ls)) < a THEN Refused("InsufficientLiquidity")
        ELSE IF total < m THEN Refused("SlippageExceeded")
        ELSE [result |-> "Ok", out |-> total]

=============================================================================
