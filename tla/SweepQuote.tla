----------------------------- MODULE SweepQuote -----------------------------
(***************************************************************************)
(* Sweep against the closed form of its answer: the refinement of Quote,    *)
(* and the loop invariant behind it.                                       *)
(***************************************************************************)
EXTENDS Sweep, QuoteAnswer

\* A sweep as its caller sees it: what was asked for, and the answer.
request == IF phase = "idle" THEN [none |-> TRUE]
           ELSE [side |-> side, amount_in |-> amount_in, min_out |-> min_out, levels |-> levels]

answer  == IF phase = "done"
           THEN [result |-> result, out |-> IF result = "Ok" THEN out ELSE 0]
           ELSE [none |-> TRUE]

Q == INSTANCE Quote

\* The loops of assert_sorted and sweep_bid/ask give the closed-form answer,
\* each error in its order of precedence.
AnswersAsQuoted == Q!QuoteSpec

\* While the loop of sweep_bid/ask runs, what it has taken and given is what
\* the closed form says of the levels behind the iterator: each was reached
\* with input left, none was in trouble.
SweptInv ==
    phase # "idle" =>
        /\ \A i \in 1 .. k - 1 :
              /\ Depth(side, levels, i - 1) < amount_in
              /\ Trouble(side, amount_in, levels, i) = "none"
        /\ remaining = IF Depth(side, levels, k - 1) < amount_in
                       THEN amount_in - Depth(side, levels, k - 1) ELSE 0
        /\ out = Total(side, amount_in, levels, k - 1)
        /\ phase = "sweep" \/ result = "Ok" => StrictlyWorsening(side, levels)
        /\ phase # "done" => result = "none"
        /\ amount_in > 0

=============================================================================
