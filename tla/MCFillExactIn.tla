--------------------------- MODULE MCFillExactIn ----------------------------
(* A taker T and a maker M with two mints.  The quote mint B changes its
   transfer fee from 0 in epoch 2, the mint Q to 0 in epoch 1: only epoch 1 is
   free of fees. *)
EXTENDS FillSettlement

MCMintOf == [TB |-> "B", TQ |-> "Q", MB |-> "B", MQ |-> "Q", MX |-> "B"]
MCOwnerOf == [TB |-> "T", TQ |-> "T", MB |-> "M", MQ |-> "M", MX |-> "M"]
MCTransferFee == [B |-> [older |-> 0, newer |-> 5000, newer_epoch |-> 2],
                  Q |-> [older |-> 5000, newer |-> 0, newer_epoch |-> 1]]
MCBalance == [TB |-> 3, TQ |-> 4, MB |-> 4, MQ |-> 4, MX |-> 3]
MCInitialBalances == {MCBalance}

Lv(b, q) == [base_atoms |-> b, quote_atoms |-> q]
\* Sorted for a bid, sorted for an ask, degenerate.
MCLadders == {<<Lv(2, 1), Lv(2, 2)>>, <<Lv(2, 3), Lv(3, 2)>>, <<Lv(1, 1), Lv(0, 2)>>}

Fill(s, a, m, e, ls, ub, uq, mb, mq) ==
    [op |-> "fill", side |-> s, amount_in |-> a, min_out |-> m,
     rfq_id |-> 1, expire_at |-> e, levels |-> ls, user |-> "T", fill_authority |-> "M",
     base_mint |-> "B", quote_mint |-> "Q",
     user_base |-> ub, user_quote |-> uq, maker_base |-> mb, maker_quote |-> mq]

MoveOf(f, t, a) == [op |-> "move", from |-> f, to |-> t,
                    authority |-> MCOwnerOf[f], amount |-> a]

Of(c)    == [metas |-> KeysOf(c), calls |-> <<c>>]
Both(c, d) == [metas |-> KeysOf(c) \cup KeysOf(d), calls |-> <<c, d>>]
Tx(ixs)  == [signers |-> Wallets, ixs |-> ixs]

-----------------------------------------------------------------------------
(* One transaction of many shapes *)

Plain == {Fill(s, a, m, e, ls, "TB", "TQ", "MB", "MQ") :
            s \in Side, a \in {0, 2, 3}, m \in MinOuts, e \in {2, 4},
            ls \in MCLadders \cup {<<>>}}

\* The taker's accounts may be anyone's, the maker's must be the maker's.
Odd == {Fill(s, 2, 0, 4, ls, ub, uq, mb, "MQ") :
          s \in Side, ls \in MCLadders, ub \in {"TB", "MB", "MX", "TQ"}, uq \in {"TQ", "MQ"},
          mb \in {"MB", "MX"}}

\* The maker pays himself or the taker, the taker moves its own or donates.
Moves == {MoveOf("MB", "TB", 1), MoveOf("MX", "MB", 1), MoveOf("MX", "TB", 1),
          MoveOf("TB", "MB", 1), MoveOf("TQ", "MQ", 1), MoveOf("TB", "TB", 1),
          MoveOf("TQ", "TQ", 5)}

Paired == {Fill(s, a, 0, 4, ls, "TB", "TQ", "MB", "MQ") :
             s \in Side, a \in {1, 2}, ls \in MCLadders}

Shapes ==
    {<<Of(f)>> : f \in Plain \cup Odd}
      \cup {<<Of(f), Of(m)>> : f \in Paired, m \in Moves}
      \cup {<<Of(m), Of(f)>> : f \in Paired, m \in Moves}
      \cup {<<Both(f, m)>> : f \in Paired, m \in Moves}
      \cup {<<Both(f, g)>> : f \in Paired, g \in Paired}
      \cup {<<Of(f), Of(g)>> : f \in Paired, g \in Paired}
      \cup {<<Of(MoveOf("TB", "TB", 1)), Both(f, m)>> : f \in Paired, m \in Moves}

\* One of the two signatures, or both, are missing.
Unsigned == {[signers |-> ws, ixs |-> <<Of(f)>>] : ws \in {{}, {"T"}, {"M"}}, f \in Paired}

MCTransactions == {Tx(ixs) : ixs \in Shapes} \cup Unsigned

-----------------------------------------------------------------------------
(* Several transactions against one ledger *)

MCRepeated ==
    {Tx(<<Of(Fill(s, a, 0, 3, ls, "TB", "TQ", "MB", "MQ"))>>) :
       s \in Side, a \in {1, 2}, ls \in MCLadders}
      \cup {Tx(<<Both(f, g)>>) : f \in Paired, g \in Paired}
      \cup {Tx(<<Of(MoveOf("TB", "MB", 1))>>), Tx(<<Of(MoveOf("TQ", "TB", 1))>>)}
      \cup {Tx(<<Of(Fill("Bid", 1, 0, 4, ls, "MB", "TQ", "MB", "MQ"))>>) : ls \in MCLadders}

=============================================================================
