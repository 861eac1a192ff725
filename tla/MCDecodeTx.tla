----------------------------- MODULE MCDecodeTx -----------------------------
(* A sample of the messages of MCSignedTransaction, under every command line. *)
EXTENDS DecodeTx

Ix(p, accounts, entry, routes) ==
    [program_id_index |-> p, account_indices |-> accounts, entry |-> entry, routes |-> routes]

Msg(signers, roUnsigned, keys, n, ixs) ==
    [num_required_signatures |-> signers, num_readonly_signed_accounts |-> 0,
     num_readonly_unsigned_accounts |-> roUnsigned, static_account_keys |-> keys,
     loaded |-> n, instructions |-> ixs]

Leg1   == [dex |-> "rfq", taker_side |-> 0, rfq_id |-> 1]
BadLeg == [dex |-> "rfq", taker_side |-> 2, rfq_id |-> 1]

Base == <<"PAY", "FA", "MB", "MQ", "RFQ", "DEX">>
Good == <<4, 0, 1, 2, 3>>

Swaps == {Ix(p[1], p[2], e, rs) :
            p \in {<<5, Good>>, <<6, Good>>, <<5, <<4, 0, 1, 2, 6>>>>}, e \in Entrypoints,
            rs \in {<<>>, <<Leg1>>, <<Leg1, BadLeg>>, <<Leg1, Leg1>>}}

Others == {Ix(0, <<>>, "unknown", <<>>), Ix(5, <<2>>, "unknown", <<>>),
           Ix(5, <<0, 6>>, "swap_tob", <<>>), Ix(6, <<4>>, "swap", <<Leg1>>),
           Ix(5, <<6>>, "swap", <<Leg1>>)}

\* A good header, one whose maker does not sign, one that is no header, and the
\* maker's account twice.
Fronts == {<<2, 2, Base>>, <<1, 2, Base>>, <<7, 0, Base>>, <<2, 2, Base \o <<"MB">>>>}

MCMessages ==
    {Msg(f[1], f[2], f[3], 1, <<s>>) : f \in Fronts, s \in Swaps}
      \cup {Msg(2, 2, Base, 1, <<o, s>>) : o \in Others, s \in Swaps}

MCMakers ==
    {[fill_authority |-> "FA", maker_base_token_account |-> "MB",
      maker_quote_token_account |-> mq] : mq \in {"MQ", "MB"}}
=============================================================================
