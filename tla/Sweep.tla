------------------------------- MODULE Sweep --------------------------------
(***************************************************************************)
(* assert_sorted_bid/ask followed by sweep_bid/ask, as the handler calls    *)
(* them: one step per window of the sort check, one step per iteration of   *)
(* the sweep loop.  `?` on an error is Fail: nothing after it runs.         *)
(*                                                                         *)
(* A call stays answered (phase "done") until Return hands control back.    *)
(***************************************************************************)
EXTENDS Ladder, Functions

CONSTANTS
    Ladders,        \* the ladders a caller may present
    Amounts,        \* the input amounts; the handler refuses zero
    MinOuts         \* the taker's slippage bounds
ASSUME InputsAssumption ==
    /\ Ladders \subseteq Seq(Level) \ {<<>>}
    /\ Amounts \subseteq U64 \ {0}
    /\ MinOuts \subseteq U64

VARIABLES
    side, amount_in, min_out, levels,   \* the arguments
    phase,          \* "idle", "sort", "sweep" or "done"
    w,              \* index of the window the sort check looks at next
    k,              \* index of the level the iterator yields next
    remaining,      \* input atoms not yet taken by a level
    out,            \* output atoms so far
    result          \* "none" while running, then "Ok" or the error

args      == <<side, amount_in, min_out, levels>>
sweepVars == <<side, amount_in, min_out, levels, phase, w, k, remaining, out, result>>

SweepErrors == {"InvalidLevelOrdering", "DegenerateLevelEntry", "Overflow",
                "InsufficientLiquidity", "SlippageExceeded"}

SweepTypeOK ==
    /\ side \in Side
    /\ amount_in \in U64
    /\ min_out \in U64
    /\ levels \in Seq(Level)
    /\ phase \in {"idle", "sort", "sweep", "done"}
    /\ w \in Nat \ {0}
    /\ k \in Nat \ {0}
    /\ remaining \in U64
    /\ out \in U64
    /\ result \in {"none", "Ok"} \cup SweepErrors

SweepInit ==
    /\ side = "Bid" /\ amount_in = 0 /\ min_out = 0 /\ levels = <<>>
    /\ phase = "idle"
    /\ w = 1 /\ k = 1 /\ remaining = 0 /\ out = 0
    /\ result = "none"

\* The handler reaches the sort check: it has refused a zero amount and an
\* empty ladder before.
Call(s, a, m, ls) ==
    /\ phase = "idle"
    /\ side' = s /\ amount_in' = a /\ min_out' = m /\ levels' = ls
    /\ phase' = "sort"
    /\ w' = 1 /\ k' = 1 /\ remaining' = a /\ out' = 0
    /\ result' = "none"

Fail(e) ==
    /\ phase' = "done"
    /\ result' = e
    /\ UNCHANGED <<args, w, k, remaining, out>>

-----------------------------------------------------------------------------
(* assert_sorted *)

SortWindow ==
    /\ phase = "sort"
    /\ w < Len(levels)
    /\ WindowOrdered(side, levels[w], levels[w + 1])
    /\ w' = w + 1
    /\ UNCHANGED <<args, phase, k, remaining, out, result>>

SortReject ==
    /\ phase = "sort"
    /\ w < Len(levels)
    /\ ~WindowOrdered(side, levels[w], levels[w + 1])
    /\ Fail("InvalidLevelOrdering")

SortDone ==
    /\ phase = "sort"
    /\ w >= Len(levels)
    /\ phase' = "sweep"
    /\ UNCHANGED <<args, w, k, remaining, out, result>>

-----------------------------------------------------------------------------
(* The loop of sweep_bid and sweep_ask *)

InLoop == phase = "sweep" /\ k <= Len(levels) /\ remaining # 0

RejectDegenerate ==
    /\ InLoop
    /\ Degenerate(levels[k])
    /\ Fail("DegenerateLevelEntry")

\* What the level gives: all of it when the remaining input covers it, else
\* the floored share.
WholeLevelSwapped == remaining >= Get(side, levels[k])  \* slip: the other field
WholeLevel  == remaining >= Pay(side, levels[k])
LevelOut    == IF WholeLevel THEN Get(side, levels[k])
                             ELSE PartialOut(side, remaining, levels[k])

\* Slip: + instead of checked_add.
TakeWholeUnchecked ==
    /\ InLoop
    /\ ~Degenerate(levels[k])
    /\ WholeLevel
    /\ remaining' = remaining - Pay(side, levels[k])
    /\ out' = out + LevelOut
    /\ k' = k + 1
    /\ UNCHANGED <<args, phase, w, result>>

TakeWhole ==
    /\ InLoop
    /\ ~Degenerate(levels[k])
    /\ WholeLevel
    /\ out + LevelOut <= U64Max
    /\ remaining' = remaining - Pay(side, levels[k])
    /\ out' = out + LevelOut
    /\ k' = k + 1
    /\ UNCHANGED <<args, phase, w, result>>

\* The last, partly used level.  The iterator is past it when the loop breaks;
\* here remaining = 0 ends the loop.
TakePartial ==
    /\ InLoop
    /\ ~Degenerate(levels[k])
    /\ ~WholeLevel
    /\ LevelOut > 0
    /\ out + LevelOut <= U64Max
    /\ remaining' = 0
    /\ out' = out + LevelOut
    /\ k' = k + 1
    /\ UNCHANGED <<args, phase, w, result>>

\* A tail so small that its share of the level rounds to nothing.
RejectDust ==
    /\ InLoop
    /\ ~Degenerate(levels[k])
    /\ ~WholeLevel
    /\ LevelOut = 0
    /\ Fail("InsufficientLiquidity")

\* checked_add returns None (the guard `partial <= u64::MAX` is covered by it).
RejectOverflow ==
    /\ InLoop
    /\ ~Degenerate(levels[k])
    /\ out + LevelOut > U64Max
    /\ Fail("Overflow")

-----------------------------------------------------------------------------
(* After the loop *)

LoopOver == phase = "sweep" /\ ~InLoop

RejectLiquidity ==
    /\ LoopOver
    /\ remaining # 0
    /\ Fail("InsufficientLiquidity")

\* Slip: > for >= in the slippage check.
RejectSlippageAtBound ==
    /\ LoopOver
    /\ remaining = 0
    /\ out <= min_out
    /\ Fail("SlippageExceeded")

RejectSlippage ==
    /\ LoopOver
    /\ remaining = 0
    /\ out < min_out
    /\ Fail("SlippageExceeded")

\* Slip: no slippage check.
FinishAnyway ==
    /\ LoopOver
    /\ remaining = 0
    /\ phase' = "done"
    /\ result' = "Ok"
    /\ UNCHANGED <<args, w, k, remaining, out>>

Finish ==
    /\ LoopOver
    /\ remaining = 0
    /\ out >= min_out
    /\ phase' = "done"
    /\ result' = "Ok"
    /\ UNCHANGED <<args, w, k, remaining, out>>

SweepStep ==
    \/ SortWindow \/ SortReject \/ SortDone
    \/ RejectDegenerate \/ TakeWhole \/ TakePartial \/ RejectDust \/ RejectOverflow
    \/ RejectLiquidity \/ RejectSlippage \/ Finish

\* The caller takes the answer; the locals are gone.
Return ==
    /\ phase = "done"
    /\ side' = "Bid" /\ amount_in' = 0 /\ min_out' = 0 /\ levels' = <<>>
    /\ phase' = "idle"
    /\ w' = 1 /\ k' = 1 /\ remaining' = 0 /\ out' = 0
    /\ result' = "none"

SweepNext ==
    \/ /\ phase = "idle"
       /\ \E s \in Side, a \in Amounts, m \in MinOuts, ls \in Ladders : Call(s, a, m, ls)
    \/ SweepStep
    \/ Return

SweepSpec == SweepInit /\ [][SweepNext]_sweepVars

-----------------------------------------------------------------------------
(* Correctness *)

Consumed == amount_in - remaining

\* At every moment of the sweep the taker's average price is no better than
\* the first level's: sorted ladders never sell below the best quoted price,
\* however many levels the fill spans and however the last one is rounded
\* (assert_sorted and the floor together).
NeverBetterThanBestLevel ==
    phase \in {"sweep", "done"} =>
        out * Pay(side, levels[1]) <= Consumed * Get(side, levels[1])

\* The taker's side of the same bargain: the fill so far is no worse than the
\* price of the worst level it touched, but for less than one output atom of
\* rounding over the whole fill (sweep_bid and sweep_ask round once, in the
\* last level).
NeverWorseThanLastLevel ==
    phase \in {"sweep", "done"} /\ k > 1 =>
        (out + 1) * Pay(side, levels[k - 1]) > Consumed * Get(side, levels[k - 1])

\* Every share of the input the taker could have given each level: the i-th is
\* at most what the level takes, and together they are the amount.
Splits ==
    LET shares == {f \in [DOMAIN levels -> 0 .. amount_in] :
                       \A i \in DOMAIN levels : f[i] <= Pay(side, levels[i])}
    IN  {f \in shares : SumFunction(f) = amount_in}

\* Best execution: no other way to split the amount over the ladder, each share
\* floored like a partial fill, gives the taker more than an accepted sweep.
\* Greedy order is only right because assert_sorted ran first.
BestExecution ==
    phase = "done" /\ result = "Ok" =>
        \A f \in Splits :
            /\ \A i \in DOMAIN f : f[i] > 0 => ~Degenerate(levels[i])
            => SumFunction([i \in DOMAIN f |->
                   IF f[i] = 0 THEN 0 ELSE PartialOut(side, f[i], levels[i])]) <= out

\* No u64 value of the sweep wraps and no division by zero is reached: a share
\* of a level never exceeds the level, so `partial as u64` loses nothing and
\* the guard before it never fires.
PartialFitsLevel ==
    InLoop /\ ~Degenerate(levels[k]) => LevelOut <= Get(side, levels[k])

-----------------------------------------------------------------------------
(* The inductive invariant behind the two price bounds *)

Ordered(i, j) == WindowOrdered(side, levels[i], levels[j])

\* What assert_sorted has seen, and what it leaves to the sweep.
SortInv ==
    phase # "idle" =>
        /\ w \in 1 .. Len(levels)
        /\ \A i \in 1 .. w - 1 : Ordered(i, i + 1)
        /\ phase = "sweep" => w = Len(levels)

\* Where the loop stands.  The last conjunct carries the order of neighbours
\* over to the pair (first level, next level).
LoopInv ==
    phase # "idle" =>
        /\ k \in 1 .. Len(levels) + 1
        /\ remaining <= amount_in
        /\ phase = "sort" => k = 1
        /\ k = 1 => out = 0 /\ remaining = amount_in
        /\ \A i \in 1 .. k - 1 : ~Degenerate(levels[i])
        /\ k > 1 /\ k <= Len(levels) /\ remaining # 0 => Ordered(1, k)

BestBound ==
    phase # "idle" => out * Pay(side, levels[1]) <= Consumed * Get(side, levels[1])

\* Whole levels leave no rounding behind; the partial one, the last, leaves
\* less than an atom.
WorstBound ==
    phase # "idle" /\ k > 1 =>
        IF remaining # 0
        THEN out * Pay(side, levels[k - 1]) >= Consumed * Get(side, levels[k - 1])
        ELSE (out + 1) * Pay(side, levels[k - 1]) > Consumed * Get(side, levels[k - 1])

\* An answer of Ok means that the whole amount was taken and the bound met.
AnswerInv == phase = "done" /\ result = "Ok" => remaining = 0 /\ out >= min_out

SweepInv == SweepTypeOK /\ SortInv /\ LoopInv /\ BestBound /\ WorstBound /\ AnswerInv

=============================================================================
