------------------------------ MODULE Decoder -------------------------------
(***************************************************************************)
(* What the fill decoder makes of a parsed message: the checks and counts   *)
(* of fill-decoder/src/transaction.rs, extract_fills of lib.rs and the leg  *)
(* extraction of aggregator.rs and idl_types.rs.  Bytes are abstracted to   *)
(* what those functions tell apart: keys are model values, an instruction's *)
(* data is its entrypoint and its routes.                                  *)
(*                                                                         *)
(* Account indices count from 0, over the static keys and then the keys an  *)
(* address lookup table loads, whose contents the decoder never sees.       *)
(***************************************************************************)
EXTENDS Integers, Sequences, FiniteSets, Functions

CONSTANTS
    Keys,               \* public keys
    RfqProgram,         \* RFQ_V2_PROGRAM_ID
    DexPrograms,        \* the recognised dex-solana-v3 deployments
    MaxAccountKeys,     \* MAX_ACCOUNT_KEYS, the number of values of a u8 index
    RfqIds              \* what tells one RFQ leg from another: id, expiry, levels

ASSUME DecoderAssumption ==
    /\ RfqProgram \in Keys
    /\ DexPrograms \subseteq Keys \ {RfqProgram}
    /\ MaxAccountKeys \in Nat \ {0}

\* Discriminators: the supported swaps, the swap_tob family (token-ledger
\* variants among them), anything else or args that do not parse.
Entrypoints == {"swap", "swap_tob", "swap_tob_token_ledger", "unknown"}

\* A route of a swap: some other dex, or a SolRfqV2 leg with its side byte.
Routes == [dex : {"other"}] \cup [dex : {"rfq"}, taker_side : 0 .. 255, rfq_id : RfqIds]

Instructions ==
    [program_id_index : Nat, account_indices : Seq(Nat),
     entry : Entrypoints, routes : Seq(Routes)]

Messages ==
    [num_required_signatures : Nat, num_readonly_signed_accounts : Nat,
     num_readonly_unsigned_accounts : Nat, static_account_keys : Seq(Keys),
     loaded : Nat, instructions : Seq(Instructions)]

-----------------------------------------------------------------------------
(* decode_message and build_instruction *)

HeaderValid(m) ==
    LET static == Len(m.static_account_keys)
    IN  /\ m.num_required_signatures <= static
        /\ m.num_readonly_signed_accounts <= m.num_required_signatures
        /\ m.num_readonly_unsigned_accounts <= static - m.num_required_signatures

TotalAccounts(m) == Len(m.static_account_keys) + m.loaded

\* Position 0 of an instruction is its program id, the others its accounts.
Positions(m) ==
    UNION {{i} \X (0 .. Len(m.instructions[i].account_indices)) : i \in DOMAIN m.instructions}

IndexAt(m, pos) ==
    LET inst == m.instructions[pos[1]]
    IN  IF pos[2] = 0 THEN inst.program_id_index ELSE inst.account_indices[pos[2]]

IndicesValid(m) == \A pos \in Positions(m) : IndexAt(m, pos) < TotalAccounts(m)

DecodesAnyLength(m) == HeaderValid(m) /\ IndicesValid(m)    \* slip: no limit on the keys

Decodes(m) ==
    /\ HeaderValid(m)
    /\ TotalAccounts(m) <= MaxAccountKeys
    /\ IndicesValid(m)

-----------------------------------------------------------------------------
(* extract_fills and decode_solrfqv2_legs *)

IsStatic(m, index) == index < Len(m.static_account_keys)

KeyOfStatic(m, index) == m.static_account_keys[index + 1]

\* Only a static dex-solana-v3 program id is looked into.
Recognised(m, i) ==
    LET p == m.instructions[i].program_id_index
    IN  IsStatic(m, p) /\ KeyOfStatic(m, p) \in DexPrograms

\* AnySwapArgs::kind; no arm of decode_swap_args builds TokenLedger.
Entrypoint(m, i) ==
    IF ~Recognised(m, i) \/ m.instructions[i].entry = "unknown" THEN "None"
    ELSE IF m.instructions[i].entry = "swap" THEN "Concrete"
    ELSE "Unsupported"

\* Side::from_u8 knows two bytes; a leg with another is skipped.
IsFill(r) == r.dex = "rfq" /\ r.taker_side \in {0, 1}

\* The decoded fills, as <<instruction, route>>.
Fills(m) ==
    {f \in UNION {{i} \X DOMAIN m.instructions[i].routes : i \in DOMAIN m.instructions} :
        /\ Entrypoint(m, f[1]) = "Concrete"
        /\ IsFill(m.instructions[f[1]].routes[f[2]])}

HasUnsupportedEntrypoint(m) ==
    \E i \in DOMAIN m.instructions : Entrypoint(m, i) = "Unsupported"

HasTokenLedgerFill(m) ==
    \E f \in Fills(m) : Entrypoint(m, f[1]) = "TokenLedger"

\* Slip: the first fill is taken for the only one.
SingleFillFirst(m) ==
    IF HasUnsupportedEntrypoint(m) THEN "UnsupportedEntrypoint"
    ELSE IF Fills(m) = {} THEN "NotFound" ELSE "Ok"

\* single_fill, in its order of precedence
SingleFill(m) ==
    IF HasUnsupportedEntrypoint(m) THEN "UnsupportedEntrypoint"
    ELSE IF Fills(m) = {} THEN "NotFound"
    ELSE IF \E f \in Fills(m) : Fills(m) = {f} THEN "Ok"
    ELSE "Multiple"

-----------------------------------------------------------------------------
(* The cluster loading a message (external): the lookup tables add their keys, *)
(* and a key that comes up twice is refused.                                  *)

AllKeys(m, loaded) == m.static_account_keys \o loaded

NoKeyTwice(m, loaded) ==
    \A i, j \in DOMAIN AllKeys(m, loaded) :
        AllKeys(m, loaded)[i] = AllKeys(m, loaded)[j] => i = j

KeyAt(m, loaded, pos) == AllKeys(m, loaded)[IndexAt(m, pos) + 1]

Uses(m, loaded, key) == {pos \in Positions(m) : KeyAt(m, loaded, pos) = key}

=============================================================================
