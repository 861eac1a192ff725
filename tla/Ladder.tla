------------------------------- MODULE Ladder -------------------------------
(***************************************************************************)
(* The price ladder of an RFQ quote (programs/solana-rfq-v2/src/types.rs)   *)
(* and the integer arithmetic on it (sweep.rs).                            *)
(*                                                                         *)
(* A taker who bids pays quote atoms and gets base atoms; one who asks pays *)
(* base atoms and gets quote atoms.  sweep_bid and sweep_ask are mirror     *)
(* images: Pay and Get name, for a side, the two fields of a level by the   *)
(* role they play.                                                         *)
(***************************************************************************)
EXTENDS Integers, Sequences

CONSTANT U64Max     \* u64::MAX; small in the models, 2^64 - 1 on chain
ASSUME U64MaxAssumption == U64Max \in Nat \ {0}

U64   == 0 .. U64Max
Side  == {"Bid", "Ask"}
Level == [base_atoms : U64, quote_atoms : U64]

Pay(s, l) == IF s = "Bid" THEN l.quote_atoms ELSE l.base_atoms
Get(s, l) == IF s = "Bid" THEN l.base_atoms ELSE l.quote_atoms

\* Slip: the comparison of a bid on both sides.  (A definition marked "slip" is
\* a plausible mistake kept beside what it would break, to see that a property
\* notices it; no specification uses it.)
WindowOrderedAsBid(s, l0, l1) ==
    l0.quote_atoms * l1.base_atoms < l1.quote_atoms * l0.base_atoms

\* One window of assert_sorted.  The products are u128 in the code, where the
\* product of two u64 cannot wrap.
WindowOrdered(s, l0, l1) ==
    LET lhs == l0.quote_atoms * l1.base_atoms
        rhs == l1.quote_atoms * l0.base_atoms
    IN  IF s = "Bid" THEN lhs < rhs ELSE lhs > rhs

Degenerate(l) == ~(l.base_atoms > 0 /\ l.quote_atoms > 0)

\* Slips: rounding in the taker's favour, rounding exact quotients down too.
PartialOutRoundedUp(s, in, l) == (in * Get(s, l) + Pay(s, l) - 1) \div Pay(s, l)
PartialOutShort(s, in, l) == (in * Get(s, l) - 1) \div Pay(s, l)

\* bid_partial_out_atoms and ask_partial_out_atoms: the floor of the exact
\* proportional output.
PartialOut(s, in, l) == (in * Get(s, l)) \div Pay(s, l)

=============================================================================
