------------------------ MODULE MCSignedTransaction -------------------------
(* Legs of five slots: the program, the taker, and the maker's three.  At most
   eight account keys. *)
EXTENDS SignedTransaction

Ix(p, accounts, entry, routes) ==
    [program_id_index |-> p, account_indices |-> accounts, entry |-> entry, routes |-> routes]

Msg(signers, roSigned, roUnsigned, keys, n, ixs) ==
    [num_required_signatures |-> signers, num_readonly_signed_accounts |-> roSigned,
     num_readonly_unsigned_accounts |-> roUnsigned, static_account_keys |-> keys,
     loaded |-> n, instructions |-> ixs]

Leg1  == [dex |-> "rfq", taker_side |-> 0, rfq_id |-> 1]
Leg2  == [dex |-> "rfq", taker_side |-> 1, rfq_id |-> 2]
BadLeg == [dex |-> "rfq", taker_side |-> 2, rfq_id |-> 2]
Hop   == [dex |-> "other"]

\* The payer and the fill authority sign; index 6 is the first loaded key.
Base == <<"PAY", "FA", "MB", "MQ", "RFQ", "DEX">>

-----------------------------------------------------------------------------
(* Every account list a fill instruction can have, around one leg *)

Good == <<4, 0, 1, 2, 3>>

\* Good with at most one account changed, and one more before or after it.
OffByOne == {Good} \cup {[Good EXCEPT ![n] = x] : n \in 1 .. 5, x \in 0 .. 6}
SixLong  == {<<x>> \o g : x \in 0 .. 6, g \in OffByOne} \cup {g \o <<x>> : x \in 0 .. 6, g \in OffByOne}

\* Two legs in a row, the second whole or not.
TwoLegs == {Good \o g : g \in [1 .. 5 -> {1, 2, 3, 4}] \cup {Good, <<6, 0, 6, 6, 6>>}}

MCLists ==
    {Msg(2, 0, 2, Base, 1, <<Ix(5, a, "swap", <<Leg1>>)>>) :
        a \in [1 .. 5 -> 0 .. 6] \cup SixLong \cup TwoLegs}

-----------------------------------------------------------------------------
(* Every way the rest of a message can be off *)

Fillers == {Ix(5, Good, "swap", rs) : rs \in {<<Leg1>>, <<Hop, Leg2>>, <<Leg1, BadLeg>>,
                                               <<Leg1, Leg2>>, <<Hop>>, <<BadLeg>>}}
             \cup {Ix(5, Good, e, <<Leg1>>) :
                     e \in {"swap_tob", "swap_tob_token_ledger", "unknown"}}
             \cup {Ix(6, Good, "swap", <<Leg1>>), Ix(6, <<0>>, "unknown", <<>>)}

Siblings == {Ix(p, a, "unknown", <<>>) : p \in {0, 1, 4, 6, 7}, a \in {<<>>, <<3>>, <<6, 0>>}}
              \cup {Ix(p, <<>>, e, rs) : p \in {5, 6}, e \in {"swap", "swap_tob"},
                                         rs \in {<<>>, <<Leg1>>, <<Leg2>>, <<BadLeg>>}}
              \cup {Ix(5, <<4, 0, 6, 6, 6>>, "swap", <<Leg2>>)}

KeyLists == {Base, Base \o <<"DEX2">>, Base \o <<"MB">>, Base \o <<"RFQ">>,
             <<"PAY", "MB", "FA", "MQ", "RFQ", "DEX">>, <<"PAY", "FA", "MB", "MQ", "X", "DEX">>,
             <<"PAY", "FA", "MB", "X", "RFQ", "DEX">>, <<"FA", "PAY", "MB", "MQ", "RFQ", "DEX">>,
             <<"PAY", "FA", "MB", "PAY", "RFQ", "DEX">>}

Headers == {<<2, 0, 2>>, <<2, 1, 2>>, <<1, 0, 2>>, <<2, 0, 3>>, <<3, 1, 2>>, <<2, 3, 0>>, <<7, 0, 0>>}

MCOff ==
    {Msg(h[1], h[2], h[3], keys, n, ixs) :
        h \in Headers, keys \in KeyLists, n \in 0 .. 2,
        ixs \in {<<f>> : f \in Fillers}}
    \cup {Msg(2, 0, 2, Base, n, ixs) :
        n \in 0 .. 2, ixs \in {<<f, s>> : f \in Fillers, s \in Siblings}
                                \cup {<<s, f>> : f \in Fillers, s \in Siblings}}

\* Nine keys are one too many: the ninth's index would not fit.
MCLong == {Msg(2, 0, 2, <<"PAY", "FA", "MB", "X", "RFQ", "DEX", "DEX2", "Y", "MQ">>, 0,
               <<Ix(5, <<4, 6, 1, 2, 0>>, "swap", <<Leg1>>)>>)}

MCMessages == MCLists \cup MCOff \cup MCLong

MCMakers ==
    {[fill_authority |-> "FA", maker_base_token_account |-> "MB",
      maker_quote_token_account |-> mq] : mq \in {"MQ", "MB"}}

=============================================================================
