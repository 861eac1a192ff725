----------------------------- MODULE MakerCheck -----------------------------
(***************************************************************************)
(* validate_maker_accounts (fill-decoder/src/exclusivity.rs) on a decoded   *)
(* message: one step per check, in the order of the source, each with its   *)
(* early return.                                                           *)
(***************************************************************************)
EXTENDS Decoder

CONSTANTS
    LegWidth,           \* SOL_RFQ_V2_LEG_WIDTH
    LegProgramId, LegFillAuthority, LegMakerBase, LegMakerQuote,  \* slots of a leg
    Presented,          \* the messages a maker may be presented with
    Makers              \* the MakerAccounts he may check them against

MakerAccounts ==
    [fill_authority : Keys, maker_base_token_account : Keys,
     maker_quote_token_account : Keys]

ASSUME LegAssumption ==
    /\ LegWidth \in Nat
    /\ {LegProgramId, LegFillAuthority, LegMakerBase, LegMakerQuote} \subseteq 0 .. LegWidth - 1
    /\ Cardinality({LegProgramId, LegFillAuthority, LegMakerBase, LegMakerQuote}) = 4
    /\ Presented \subseteq Messages
    /\ Makers \subseteq MakerAccounts

VARIABLES
    msg,        \* the message
    maker,      \* the maker's accounts
    stage,      \* the check that comes next
    verdict     \* "none" while checking, then "Ok" or the error

checkVars == <<msg, maker, stage, verdict>>

-----------------------------------------------------------------------------
(* Helpers of validate_maker_accounts *)

Copies(m, key) == {i \in DOMAIN m.static_account_keys : m.static_account_keys[i] = key}

\* `index as u8`, the position of the one copy
StaticIndex(m, key) ==
    ((CHOOSE i \in Copies(m, key) : \A j \in Copies(m, key) : i <= j) - 1) % MaxAccountKeys

IsWritable(m, index) ==
    IF index < m.num_required_signatures
    THEN index < m.num_required_signatures - m.num_readonly_signed_accounts
    ELSE index < Len(m.static_account_keys) - m.num_readonly_unsigned_accounts

MakerTokenAccounts(mk) == {mk.maker_base_token_account, mk.maker_quote_token_account}
MakerKeys(mk)     == {mk.fill_authority} \cup MakerTokenAccounts(mk)

KeysDistinct(mk) ==
    /\ mk.fill_authority \notin MakerTokenAccounts(mk)
    /\ mk.maker_base_token_account # mk.maker_quote_token_account

\* Where an index is used, program id positions included.
References(m, index) == {pos \in Positions(m) : IndexAt(m, pos) = index}

\* Slip: found, not counted.
ReferencedSomewhere(m, key) == References(m, StaticIndex(m, key)) # {}

\* counts[i] = 1
ReferencedOnce(m, key) ==
    \E pos \in References(m, StaticIndex(m, key)) :
        References(m, StaticIndex(m, key)) = {pos}

\* The first instruction that carries a fill.
FillIx(m) ==
    CHOOSE i \in {f[1] : f \in Fills(m)} : \A f \in Fills(m) : i <= f[1]

ExpectedSlots(mk) ==
    {<<LegProgramId, RfqProgram>>, <<LegFillAuthority, mk.fill_authority>>,
     <<LegMakerBase, mk.maker_base_token_account>>,
     <<LegMakerQuote, mk.maker_quote_token_account>>}

\* Offsets at which a whole leg fits and its four static slots match.
LegOffsets(m, mk) ==
    LET accounts == m.instructions[FillIx(m)].account_indices
    IN  {o \in 0 .. Len(accounts) - LegWidth :
            \A s \in ExpectedSlots(mk) : accounts[o + s[1] + 1] = StaticIndex(m, s[2])}

-----------------------------------------------------------------------------
(* The steps *)

CheckStart == maker \in Makers /\ stage = "decode" /\ verdict = "none"

CheckInit == msg \in Presented /\ CheckStart

Pass(at, cond, next) ==
    /\ stage = at
    /\ cond
    /\ stage' = next
    /\ UNCHANGED <<msg, maker, verdict>>

Respond(at, cond, v) ==
    /\ stage = at
    /\ cond
    /\ stage' = "answered"
    /\ verdict' = v
    /\ UNCHANGED <<msg, maker>>

Decode       == Pass("decode", Decodes(msg), "distinct")
DecodeFails  == Respond("decode", ~Decodes(msg), "DecodeError")

Distinct     == Pass("distinct", KeysDistinct(maker), "static")
NotDistinct  == Respond("distinct", ~KeysDistinct(maker), "KeysNotDistinct")

\* unique_static_index, three times: the first role that fails is reported.
RoleOrder == <<maker.fill_authority, maker.maker_base_token_account,
               maker.maker_quote_token_account>>

FoundOnce(key) == \E i \in DOMAIN msg.static_account_keys : Copies(msg, key) = {i}

FirstNotOnce(r) == ~FoundOnce(RoleOrder[r]) /\ \A q \in 1 .. r - 1 : FoundOnce(RoleOrder[q])

Static        == Pass("static", \A r \in 1 .. 3 : FoundOnce(RoleOrder[r]), "signer")
NotStatic     == Respond("static",
                        \E r \in 1 .. 3 : FirstNotOnce(r) /\ Copies(msg, RoleOrder[r]) = {},
                        "NotStatic")
DuplicateKey  == Respond("static",
                        \E r \in 1 .. 3 : FirstNotOnce(r) /\ Copies(msg, RoleOrder[r]) # {},
                        "DuplicateStaticKey")

Signs == StaticIndex(msg, maker.fill_authority) < msg.num_required_signatures

Signer        == Pass("signer", Signs, "writable")
NotSigner     == Respond("signer", ~Signs, "FillAuthorityNotSigner")

BothWritable == \A key \in MakerTokenAccounts(maker) : IsWritable(msg, StaticIndex(msg, key))

Writable      == Pass("writable", BothWritable, "rfq")
NotWritable   == Respond("writable", ~BothWritable, "TokenAccountNotWritable")

\* unique_rfq_program_index
RfqStatic     == Pass("rfq", FoundOnce(RfqProgram), "single")
RfqNotStatic  == Respond("rfq", Copies(msg, RfqProgram) = {}, "RfqProgramNotStatic")
RfqDuplicate  == Respond("rfq", Copies(msg, RfqProgram) # {} /\ ~FoundOnce(RfqProgram),
                        "DuplicateRfqProgramStaticKey")

Single        == Pass("single", SingleFill(msg) = "Ok", "count")
NotSingle     == Respond("single", SingleFill(msg) # "Ok", SingleFill(msg))

\* Slip: the maker's keys only have to be there.
MakerCountsSome == \A key \in MakerKeys(maker) : ReferencedSomewhere(msg, key)

MakerCountsOne == \A key \in MakerKeys(maker) : ReferencedOnce(msg, key)

Count         == Pass("count", MakerCountsOne /\ ReferencedOnce(msg, RfqProgram), "slots")
BadCount      == Respond("count", ~MakerCountsOne, "ReferenceCount")
BadRfqCount   == Respond("count", MakerCountsOne /\ ~ReferencedOnce(msg, RfqProgram),
                        "RfqProgramReferenceCount")

\* A second match (MultipleLegMatches) is refused too; no message gets that
\* far with one, see LegUnique.
OneLeg == \E o \in LegOffsets(msg, maker) : LegOffsets(msg, maker) = {o}

Accept        == Respond("slots", OneLeg, "Ok")
NoLeg         == Respond("slots", ~OneLeg, "LegNotFound")

CheckStep ==
    \/ Decode \/ DecodeFails \/ Distinct \/ NotDistinct
    \/ Static \/ NotStatic \/ DuplicateKey \/ Signer \/ NotSigner
    \/ Writable \/ NotWritable \/ RfqStatic \/ RfqNotStatic \/ RfqDuplicate
    \/ Single \/ NotSingle \/ Count \/ BadCount \/ BadRfqCount
    \/ Accept \/ NoLeg

Stages == {"decode", "distinct", "static", "signer", "writable", "rfq", "single",
           "count", "slots", "answered"}

Errors == {"DecodeError", "KeysNotDistinct", "NotStatic", "DuplicateStaticKey",
           "FillAuthorityNotSigner", "TokenAccountNotWritable", "RfqProgramNotStatic",
           "DuplicateRfqProgramStaticKey", "UnsupportedEntrypoint", "NotFound", "Multiple",
           "ReferenceCount", "RfqProgramReferenceCount", "LegNotFound"}

CheckTypeOK ==
    /\ msg \in Messages
    /\ maker \in Makers
    /\ stage \in Stages
    /\ verdict \in {"none", "Ok"} \cup Errors

\* What an Ok says of a message, for the maker's accounts mk.
Vetted(m, mk) ==
    /\ m \in Messages /\ Decodes(m)
    /\ SingleFill(m) = "Ok"
    /\ \A s \in ExpectedSlots(mk) :
          /\ \E i \in DOMAIN m.static_account_keys : Copies(m, s[2]) = {i}
          /\ ReferencedOnce(m, s[2])
    /\ \E o \in LegOffsets(m, mk) : LegOffsets(m, mk) = {o}

\* What each check leaves to the ones after it, and to whoever acts on an Ok.
Stood(after) == stage \in after \/ verdict = "Ok"

CheckInv ==
    /\ CheckTypeOK
    /\ verdict # "none" => stage = "answered"
    /\ Stood(Stages \ {"decode", "answered"}) => Decodes(msg)
    /\ Stood({"signer", "writable", "rfq", "single", "count", "slots"}) =>
          \A key \in MakerKeys(maker) : FoundOnce(key)
    /\ Stood({"single", "count", "slots"}) => FoundOnce(RfqProgram)
    /\ Stood({"count", "slots"}) => SingleFill(msg) = "Ok"
    /\ Stood({"slots"}) => MakerCountsOne /\ ReferencedOnce(msg, RfqProgram)
    /\ verdict = "Ok" => OneLeg

\* The leg slice is unambiguous when it is looked for: two matching offsets
\* would be two references to the RFQ program, and the counts came first.
LegUnique ==
    stage = "slots" =>
        \A o1, o2 \in LegOffsets(msg, maker) : o1 = o2

=============================================================================
