------------------------------- MODULE Quote --------------------------------
(***************************************************************************)
(* What a sweep promises, with no loop in it: a request is answered in one  *)
(* step with Answer, a function of the request alone.  Sweep implements it  *)
(* with the closed form of QuoteAnswer for Answer.                         *)
(***************************************************************************)
CONSTANTS Side, Ladders, Amounts, MinOuts, Answer(_, _, _, _)

VARIABLES request, answer

none == [none |-> TRUE]

Requests == [side : Side, amount_in : Amounts, min_out : MinOuts, levels : Ladders]

-----------------------------------------------------------------------------
QuoteInit == request = none /\ answer = none

Request ==
    /\ request = none
    /\ request' \in Requests
    /\ UNCHANGED answer

Reply ==
    /\ request # none
    /\ answer = none
    /\ answer' = Answer(request.side, request.amount_in, request.min_out, request.levels)
    /\ UNCHANGED request

Done == answer # none /\ request' = none /\ answer' = none

QuoteNext == Request \/ Reply \/ Done

QuoteSpec == QuoteInit /\ [][QuoteNext]_<<request, answer>>

=============================================================================
