------------------------------ MODULE MCPrices ------------------------------
(* Numbers in binary, with up to MaxFrac digits after the point. *)
EXTENDS Prices

CONSTANTS Digits, MaxFrac

Numbers == [digits : Digits, frac : 0 .. MaxFrac]

MCTyped == {<<>>} \cup UNION {[1 .. n -> [price : Numbers, qty : Numbers]] : n \in 1 .. 2}

MCDecimals == {<<0, 0>>, <<1, 0>>, <<0, 2>>, <<2, 1>>}

=============================================================================
