------------------------------- MODULE Calls --------------------------------
(***************************************************************************)
(* Token accounts, and the calls that move tokens between them: a call to   *)
(* fill_exact_in with its accounts (the Accounts struct of handler.rs), or  *)
(* any other program's move.                                               *)
(***************************************************************************)
EXTENDS Ladder

CONSTANTS
    Wallets,            \* signing keys: takers and fill authorities
    TokenAccounts,
    Mints,
    MintOf,             \* [TokenAccounts -> Mints]
    OwnerOf             \* [TokenAccounts -> Wallets]

Named == Wallets \cup TokenAccounts

KeysOf(c) ==
    IF c.op = "fill"
    THEN {c.user, c.fill_authority, c.user_base, c.user_quote, c.maker_base, c.maker_quote}
    ELSE {c.from, c.to, c.authority}

SignersOf(c) == IF c.op = "fill" THEN {c.user, c.fill_authority} ELSE {c.authority}

\* The taker pays from and gets into, for its side.
UserPays(c)      == IF c.side = "Bid" THEN c.user_quote ELSE c.user_base
MakerReceives(c) == IF c.side = "Bid" THEN c.maker_quote ELSE c.maker_base
MakerGives(c)    == IF c.side = "Bid" THEN c.maker_base ELSE c.maker_quote
UserReceives(c)  == IF c.side = "Bid" THEN c.user_base ELSE c.user_quote
PayMint(c)       == IF c.side = "Bid" THEN c.quote_mint ELSE c.base_mint
GetMint(c)       == IF c.side = "Bid" THEN c.base_mint ELSE c.quote_mint

Protected(c) == {c.fill_authority, c.maker_base, c.maker_quote}

=============================================================================
