------------------------------- MODULE DexIdl -------------------------------
(***************************************************************************)
(* How dex-solana-v3 writes the routes of a swap: the Dex enum and its      *)
(* types in the embedded IDL (idls/dex_solana_v3.json), in Borsh.  Bytes are *)
(* numbers 0 .. 255; the content of a field the decoder never looks at is    *)
(* one byte, repeated.                                                      *)
(***************************************************************************)
EXTENDS Integers, SequencesExt

CONSTANTS MaxVec, Fillers       \* bound on the vectors, bytes that fill fields

ASSUME IdlAssumption == MaxVec \in Nat /\ Fillers \subseteq 0 .. 255

Bool == 1
U8   == 1
U16  == 2
U64  == 8
U128 == 16

Sum(ns) == SumFunction(ns)

Copies(x, n) == [i \in 1 .. n |-> x]

\* A vector length: u32, little-endian.
LenPrefix(n) == <<n % 256, (n \div 256) % 256, (n \div 65536) % 256, n \div 16777216>>

\* The payload of the *WithSig variants.
WithSig == <<U64, U64, U64, U16, U64, 64, U8>>

Variants == 0 .. 135

Variable == {117, 119, 126, 133}    \* SolRfqV2, MeteoraDlmmSwap2Hook, DynamicRouteV1, Native

\* The widths of the fields of the other variants; most have none.
FieldsOf(tag) ==
    CASE tag \in {23, 24, 34, 35}   -> <<Bool>>
      [] tag = 64                   -> Copies(U64, 6) \o Copies(Bool, 2)
      [] tag \in {74, 75}           -> <<U8, U8>>
      [] tag \in {81, 100, 118}     -> <<U64>>
      [] tag = 82                   -> <<U128>>
      [] tag = 103                  -> <<U64, U64>>
      [] tag \in {104, 120}         -> WithSig
      [] tag \in {121, 125}         -> <<U8>>
      [] tag = 132                  -> <<40>>
      [] tag = 134                  -> <<U64, U64, 32, 16, 32>>
      [] OTHER                      -> <<>>

CandidateFields(tag) ==
    CASE tag \in {3, 14}  -> <<U64>>
      [] tag = 5          -> <<U128>>
      [] tag = 10         -> WithSig
      [] OTHER            -> <<>>

\* SelectionMode: Auto, Forced(u8), Hint(u8)
Modes(f) == {<<0>>, <<1, f>>, <<2, f>>}

Candidates(f) == {<<c>> \o Copies(f, Sum(CandidateFields(c))) : c \in 0 .. 14}

\* RfqSide || rfq_id || expire_at || levels
RfqBody(side, n, f) == <<side>> \o Copies(f, 16) \o LenPrefix(n) \o Copies(f, 16 * n)

Bodies(tag, f) ==
    CASE tag = 117 -> {RfqBody(side, n, f) : side \in {0, 1}, n \in 0 .. MaxVec}
      [] tag = 119 -> {LenPrefix(n) \o Copies(f, 2 * n) \o <<f>> : n \in 0 .. MaxVec}
      [] tag = 126 -> {LenPrefix(Len(cs)) \o FlattenSeq(cs) \o m :
                         cs \in BoundedSeq(Candidates(f), MaxVec), m \in Modes(f)}
      [] tag = 133 -> {LenPrefix(n) \o Copies(f, n) : n \in 0 .. MaxVec}
      [] OTHER     -> {Copies(f, Sum(FieldsOf(tag)))}

IdlRoutes == UNION {{[tag |-> t, body |-> b] : b \in Bodies(t, f)} : t \in Variants, f \in Fillers}

\* order_id, amount_in, expect_amount_out and slippage of SwapArgs
Prologue == Copies(0, 3 * U64 + U16)

\* weight and index of a Route
Epilogue == Copies(0, U16 + U8)

Encode(rs) ==
    LET EncodeRoute(r) == <<r.tag>> \o r.body \o Epilogue
    IN  Prologue \o LenPrefix(Len(rs)) \o FlattenSeq([i \in DOMAIN rs |-> EncodeRoute(rs[i])])

=============================================================================
