---------------------------- MODULE MCSignedFill ----------------------------
(* A taker T and a maker M, who quotes a bid and an ask.  Legs of seven slots:
   those of the source without mints, token programs, sysvar and event
   authority.  MX is an account of the maker's that no quote is bound to. *)
EXTENDS SignedFill

Lv(b, q) == [base_atoms |-> b, quote_atoms |-> q]

MCQuoteOf == <<[side |-> "Bid", expire_at |-> 0, levels |-> <<Lv(2, 1), Lv(2, 2)>>],
               [side |-> "Ask", expire_at |-> 1, levels |-> <<Lv(2, 3)>>],
               [side |-> "Bid", expire_at |-> 1, levels |-> <<Lv(4, 1)>>]>>
MCLadders == {q.levels : q \in Range(MCQuoteOf)} \cup {<<Lv(1, 1)>>}

MCMintOf  == [TB |-> "B", TX |-> "B", TQ |-> "Q", MB |-> "B", MX |-> "B", MQ |-> "Q"]
MCOwnerOf == [TB |-> "T", TX |-> "T", TQ |-> "T", MB |-> "M", MX |-> "M", MQ |-> "M"]

MCTransferFee == [m \in {"B", "Q"} |-> NoFeeConfig]
MCInitialBalances == {[TB |-> 3, TX |-> 1, TQ |-> 3, MB |-> 4, MX |-> 4, MQ |-> 3]}

\*              0    1    2     3     4     5     6      7      8     and 9, 10 loaded
StaticKeys == <<"T", "M", "TB", "TQ", "MB", "MQ", "RFQ", "DEX", "P">>

Ix(p, accounts, entry, routes) ==
    [program_id_index |-> p, account_indices |-> accounts, entry |-> entry, routes |-> routes]

\* The tables are looked up when an index needs them.
Msg(ixs) ==
    [num_required_signatures |-> 2, num_readonly_signed_accounts |-> 0,
     num_readonly_unsigned_accounts |-> 3, static_account_keys |-> StaticKeys,
     loaded |-> IF \E inst \in Range(ixs) :
                     {9, 10} \cap (Range(inst.account_indices) \cup {inst.program_id_index}) # {}
                THEN 2 ELSE 0,
     instructions |-> ixs]

R(s, id) == [dex |-> "rfq", taker_side |-> s, rfq_id |-> id]
Hop      == [dex |-> "other"]

BidLeg == <<6, 0, 3, 2, 1, 4, 5>>
AskLeg == <<6, 0, 2, 3, 1, 4, 5>>

\* Around a leg, into it, and next to it.
Lists(leg) ==
    {leg, <<0, 2, 9>> \o leg, leg \o <<0, 9, 10>>, leg \o <<4>>, leg \o leg,
     leg \o <<6, 0, 3, 2, 9, 10, 10>>, <<1, 4, 9>> \o leg}
      \cup {[leg EXCEPT ![n] = x] : n \in 2 .. 7, x \in {2, 4, 9}}

RouteLists == {<<R(0, 1)>>, <<R(1, 2)>>, <<R(0, 3)>>, <<R(1, 1)>>, <<R(2, 1)>>,
               <<R(0, 1), R(0, 3)>>, <<Hop, R(1, 2)>>, <<R(0, 1), R(0, 1)>>}

Swaps == {Ix(7, a, "swap", rs) : a \in Lists(BidLeg) \cup Lists(AskLeg), rs \in RouteLists}

Usual == {Ix(7, BidLeg, "swap", <<R(0, 1)>>), Ix(7, AskLeg, "swap", <<R(1, 2)>>)}

Siblings == {Ix(p, a, "unknown", <<>>) :
               p \in {6, 7, 8, 9}, a \in {<<>>, <<0, 2, 9>>, <<1, 4, 9>>, <<4>>}}
              \cup {Ix(p, BidLeg, e, <<R(0, 3)>>) : p \in {7, 9}, e \in {"swap", "swap_tob"}}

MCMessages ==
    {Msg(<<s>>) : s \in Swaps}
      \cup {Msg(<<s, u>>) : s \in Siblings, u \in Usual}
      \cup {Msg(<<u, s>>) : s \in Siblings, u \in Usual}

\* Messages for both quotes, to sign, hold back and sign again.
Plain == {Msg(<<u>>) : u \in Usual}

Several ==
    Plain
      \cup {Msg(<<Ix(8, <<0, 2, 9>>, "unknown", <<>>), Ix(7, BidLeg, "swap", <<R(0, 1)>>)>>)}

\* Any message alone, or three of the several; a plain one comes first.
MCInboxes ==
    {<<m>> : m \in MCMessages} \cup {b \in [1 .. 3 -> Several] : b[1] \in Plain}

\* Someone else's quote, taken into the maker's account, and one of the maker's
\* that nobody signed for him.
MCOthers ==
    LET Of(wallet, mb, mq, ub) ==
            [op |-> "fill", side |-> "Bid", amount_in |-> 1, min_out |-> 0, rfq_id |-> 1,
             expire_at |-> 1, levels |-> <<Lv(1, 1)>>, user |-> "T", fill_authority |-> wallet,
             base_mint |-> "B", quote_mint |-> "Q", user_base |-> ub, user_quote |-> "TQ",
             maker_base |-> mb, maker_quote |-> mq]
    IN  {[signers |-> {"T"}, ixs |-> <<[metas |-> KeysOf(c), calls |-> <<c>>]>>] :
            c \in {Of("T", "TB", "TQ", "MB"), Of("M", "MB", "MQ", "TB")}}

MCMakers ==
    {[fill_authority |-> "M", maker_base_token_account |-> "MB",
      maker_quote_token_account |-> "MQ"]}

=============================================================================
