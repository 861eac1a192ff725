-------------------------------- MODULE Wire --------------------------------
(***************************************************************************)
(* The parser of transactions and messages (fill-decoder/src/wire.rs) and    *)
(* the conversion that follows it.  The input is not given in advance: every *)
(* read picks the units it finds, and tape is what was read so far.  A unit  *)
(* is one byte, or one field that the parser copies whole: a key, a          *)
(* signature, the blockhash, a u32 word, a mask, a u16 length, the data of   *)
(* an instruction.                                                          *)
(***************************************************************************)
EXTENDS Decoder, Compact16, SequencesExt

CONSTANTS
    Signatures, Blockhash, Data, Words,
    Indices,            \* the account indices that occur
    HeaderBytes,        \* the bytes that occur in a header
    Masks,              \* the configuration masks that occur
    MaxVec,             \* bound on the vectors; longer ones end the input
    V1MaxSigs, V1MaxKeys, V1MaxIxs,     \* 12, 64, 64 in the source
    SignatureLen,       \* what one signature counts in a v1 size, 64 in the source
    V1MaxSize,          \* V1_MAX_TRANSACTION_SIZE, in units
    MinHeap, MaxHeap, HeapUnit,
    MaxSize             \* bound on the input

ASSUME WireAssumption ==
    /\ Words \subseteq Nat /\ Masks \subseteq Nat
    /\ MinHeap \in Nat /\ MaxHeap \in Nat /\ HeapUnit \in Nat \ {0}
    /\ HeaderBytes \subseteq CompactByte /\ Indices \subseteq CompactByte
    /\ MaxVec \in Nat /\ SignatureLen \in Nat \ {0} /\ V1MaxSize \in 0 .. MaxSize
    /\ V1MaxKeys \in Nat /\ V1MaxIxs \in Nat /\ V1MaxKeys <= MaxAccountKeys

V0Tag == Radix
V1Tag == Radix + 1

NoConfig == [mask |-> 0, values |-> <<>>]

\* What parse_message has found so far; loaded is what decode_message sums up.
NoMessage ==
    [version |-> "Legacy", num_required_signatures |-> 0, num_readonly_signed_accounts |-> 0,
     num_readonly_unsigned_accounts |-> 0, static_account_keys |-> <<>>,
     instructions |-> <<>>, address_table_lookups |-> <<>>, loaded |-> 0, config |-> NoConfig]

VARIABLES
    mode,           \* "transaction" or "message": which entry point was called
    state,          \* what is read next
    tape,           \* the input up to the cursor
    atMost,         \* what is known of the length of the input
    rest,           \* whether input is left when the parser returns
    todo,           \* elements left in the vector being read
    signatures,
    m               \* the message

wireVars == <<mode, state, tape, atMost, rest, todo, signatures, m>>

-----------------------------------------------------------------------------
(* Reading *)

\* A length of at most MaxVec, in some form the parser takes.
Lengths == {e \in CompactReads : CompactValid(e) /\ CompactValue(e) <= MaxVec}

Vectors(S) == UNION {{<<e, v>> : v \in [1 .. CompactValue(e) -> S]} : e \in Lengths}

-----------------------------------------------------------------------------
WireInit ==
    /\ mode \in {"transaction", "message"}
    /\ state = "start"
    /\ tape = <<>> /\ atMost = MaxSize /\ rest = 0
    /\ todo = 0
    /\ signatures = <<>> /\ m = NoMessage

\* require, then the cursor moves on.
Take(units) ==
    /\ Len(tape) + Len(units) <= atMost
    /\ tape' = tape \o units

Go(s) == state' = s /\ UNCHANGED <<mode, atMost, rest>>

Reject ==
    /\ state' = "refused"
    /\ tape' = <<>> /\ m' = NoMessage /\ signatures' = <<>> /\ todo' = 0
    /\ atMost' = MaxSize /\ rest' = 0
    /\ UNCHANGED mode

\* The input ends inside a read.
Truncated == state \notin {"parsed", "decoded", "refused"} /\ Reject

\* A length the parser does not take.
BadLengths == {e \in CompactReads : ~CompactValid(e)}

BadLength ==
    /\ state \in {"start", "keys", "count", "instructions", "lookups"}
    /\ BadLengths # {}
    /\ Reject

-----------------------------------------------------------------------------
(* Legacy and v0 *)

\* A first byte V1Tag is not a number of signatures.
Envelope ==
    /\ state = "start" /\ mode = "transaction"
    /\ \E v \in Vectors(Signatures) :
        /\ v[1][1] # V1Tag
        /\ Take(v[1] \o v[2])
        /\ signatures' = v[2]
    /\ Go("version")
    /\ UNCHANGED <<todo, m>>

AtVersion == state = "version" \/ (state = "start" /\ mode = "message")

Header(version, h) ==
    [m EXCEPT !.version = version, !.num_required_signatures = h[1],
              !.num_readonly_signed_accounts = h[2], !.num_readonly_unsigned_accounts = h[3]]

Headers == HeaderBytes \X HeaderBytes \X HeaderBytes

LegacyHeader ==
    /\ AtVersion
    /\ \E h \in Headers :
        /\ h[1] < Radix
        /\ Take(h)
        /\ m' = Header("Legacy", h)
    /\ Go("keys")
    /\ UNCHANGED <<todo, signatures>>

V0Header ==
    /\ AtVersion
    /\ \E h \in Headers : Take(<<V0Tag>> \o h) /\ m' = Header("V0", h)
    /\ Go("keys")
    /\ UNCHANGED <<todo, signatures>>

\* A high bit with another version; V1Tag too once signatures came first.
UnknownVersion ==
    /\ AtVersion
    /\ \E first \in Radix .. 2 * Radix - 1 :
        first # V0Tag /\ (state = "start" => first # V1Tag)
    /\ Reject

StaticKeys ==
    /\ state = "keys"
    /\ \E v \in Vectors(Keys) :
        /\ Take(v[1] \o v[2])
        /\ m' = [m EXCEPT !.static_account_keys = v[2]]
    /\ Go("count")
    /\ UNCHANGED <<todo, signatures>>

NumInstructions ==
    /\ state = "count"
    /\ \E e \in Lengths : Take(<<Blockhash>> \o e) /\ todo' = CompactValue(e)
    /\ Go("instructions")
    /\ UNCHANGED <<signatures, m>>

Compiled(program, accounts, bytes) ==
    [program_id_index |-> program, account_indices |-> accounts, data |-> bytes]

ReadInstruction ==
    /\ state = "instructions" /\ todo > 0
    /\ \E program \in Indices, accounts \in Vectors(Indices), bytes \in Vectors(Data) :
        /\ Take(<<program>> \o (accounts[1] \o accounts[2]) \o (bytes[1] \o bytes[2]))
        /\ m' = [m EXCEPT !.instructions = Append(@, Compiled(program, accounts[2], bytes[2]))]
    /\ todo' = todo - 1
    /\ Go("instructions")
    /\ UNCHANGED signatures

NumLookups ==
    /\ state = "instructions" /\ todo = 0 /\ m.version = "V0"
    /\ \E e \in Lengths : Take(e) /\ todo' = CompactValue(e)
    /\ Go("lookups")
    /\ UNCHANGED <<signatures, m>>

Lookup(table, writable, readonly) ==
    [table_key |-> table, writable_indexes |-> writable, readonly_indexes |-> readonly]

ReadLookup ==
    /\ state = "lookups" /\ todo > 0
    /\ \E table \in Keys, w \in Vectors(Indices), r \in Vectors(Indices) :
        /\ Take(<<table>> \o (w[1] \o w[2]) \o (r[1] \o r[2]))
        /\ m' = [m EXCEPT !.address_table_lookups = Append(@, Lookup(table, w[2], r[2])),
                          !.loaded = @ + Len(w[2]) + Len(r[2])]
    /\ todo' = todo - 1
    /\ Go("lookups")
    /\ UNCHANGED signatures

\* No finish here: what follows the message is left unread.
Parsed ==
    /\ todo = 0
    /\ \/ state = "instructions" /\ m.version = "Legacy"
       \/ state = "lookups"
    /\ state' = "parsed"
    /\ rest' \in {0, 1} /\ Len(tape) + rest' <= atMost
    /\ UNCHANGED <<mode, tape, atMost, todo, signatures, m>>

-----------------------------------------------------------------------------
(* v1: the fixed part, and the counts at its end, are the first units *)

NumIxs  == tape[7]
NumKeys == tape[8]

Bit(mask, b) == (mask \div 2 ^ b) % 2 = 1

\* count_ones of the bits below b
Ones(mask, b) == Cardinality({i \in 0 .. b - 1 : Bit(mask, i)})

\* Slip: the words are taken from the highest bit down.
ValueFromTop(config, b, default) ==
    IF Bit(config.mask, b)
    THEN config.values[Ones(config.mask, 5) - Ones(config.mask, b)] ELSE default

\* V1TransactionConfig::value
Value(config, b, default) ==
    IF Bit(config.mask, b) THEN config.values[Ones(config.mask, b) + 1] ELSE default

\* Slip: the read-only keys without a signature are not counted.
CountsValidSignersOnly(h, nix, nkeys) ==
    /\ h[1] <= V1MaxSigs
    /\ h[2] < h[1]
    /\ nkeys >= h[1]
    /\ nkeys <= V1MaxKeys /\ nix <= V1MaxIxs

\* The counts fit the limits, the signers and the keys each other.
CountsValid(h, nix, nkeys) ==
    /\ h[1] <= V1MaxSigs
    /\ h[2] < h[1]
    /\ nkeys >= h[1] + h[3]
    /\ nkeys <= V1MaxKeys /\ nix <= V1MaxIxs

HeapValid(config) ==
    LET heap == Value(config, 4, MinHeap)
    IN  heap \in MinHeap .. MaxHeap /\ heap % HeapUnit = 0

ConfigValid(config) == (Bit(config.mask, 0) <=> Bit(config.mask, 1)) /\ HeapValid(config)

IndicesInRange(ix, nkeys) ==
    /\ ix.program_id_index < nkeys
    /\ \A i \in DOMAIN ix.account_indices : ix.account_indices[i] < nkeys

\* A full transaction is refused at once when the input is too long, so from
\* here on it is known not to be.
V1Fixed ==
    /\ state = "start"
    /\ \E h \in Headers, mask \in Masks, nix \in 0 .. V1MaxIxs, nkeys \in 0 .. V1MaxKeys :
        /\ CountsValid(h, nix, nkeys) /\ mask < 32
        /\ Take((<<V1Tag>> \o h) \o <<mask, Blockhash, nix, nkeys>>)
        /\ m' = [Header("V1", h) EXCEPT !.config.mask = mask]
    /\ state' = "v1_keys"
    /\ atMost' = IF mode = "transaction" THEN V1MaxSize ELSE atMost
    /\ UNCHANGED <<mode, rest, todo, signatures>>

V1Keys ==
    /\ state = "v1_keys"
    /\ \E ks \in [1 .. NumKeys -> Keys] :
        /\ IsInjective(ks)
        /\ Take(ks)
        /\ m' = [m EXCEPT !.static_account_keys = ks]
    /\ Go("v1_config")
    /\ UNCHANGED <<todo, signatures>>

V1Config ==
    /\ state = "v1_config"
    /\ \E ws \in [1 .. Ones(m.config.mask, 5) -> Words] :
        LET config == [m.config EXCEPT !.values = ws]
        IN  ConfigValid(config) /\ Take(ws) /\ m' = [m EXCEPT !.config = config]
    /\ Go("v1_headers")
    /\ UNCHANGED <<todo, signatures>>

\* Every header comes before the first payload.
V1Headers ==
    /\ state = "v1_headers"
    /\ \E hs \in [1 .. NumIxs -> Indices \X (0 .. MaxVec) \X (0 .. MaxVec)] :
        Take(FlattenSeq(hs))
    /\ Go("v1_payloads")
    /\ todo' = NumIxs
    /\ UNCHANGED <<signatures, m>>

\* The k-th of the headers that follow the first n units.
HeaderAfter(t, n, k) == SubSeq(t, n + 3 * (k - 1) + 1, n + 3 * (k - 1) + 3)

HeadersStart == 8 + NumKeys + Len(m.config.values)

\* Slip: payloads are paired with the headers from the last one.
V1HeaderFromLast(k) == HeaderAfter(tape, HeadersStart, NumIxs - k + 1)

\* The k-th header: program, number of accounts, length of the data.
V1Header(k) == HeaderAfter(tape, HeadersStart, k)

\* The instruction whose payload comes next, for some accounts and data.
V1Instructions ==
    LET h == V1Header(Len(m.instructions) + 1)
    IN  {Compiled(h[1], accounts, bytes) :
           accounts \in [1 .. h[2] -> Indices], bytes \in [1 .. h[3] -> Data]}

V1Payload ==
    /\ state = "v1_payloads" /\ todo > 0
    /\ \E ix \in V1Instructions :
        /\ IndicesInRange(ix, NumKeys)
        /\ Take(ix.account_indices \o ix.data)
        /\ m' = [m EXCEPT !.instructions = Append(@, ix)]
    /\ todo' = todo - 1
    /\ Go("v1_payloads")
    /\ UNCHANGED signatures

\* The size of the signatures the message asks for.
SignaturesSize == m.num_required_signatures * SignatureLen

\* Slip: a message counts its signers, not what their signatures take.
V1FinishPerSigner ==
    /\ state = "v1_payloads" /\ todo = 0
    /\ \/ /\ mode = "message"
          /\ Len(tape) + m.num_required_signatures <= V1MaxSize
          /\ tape' = tape /\ signatures' = <<>>
       \/ /\ mode = "transaction"
          /\ Len(tape) + SignaturesSize <= atMost
          /\ \E sigs \in [1 .. m.num_required_signatures -> Signatures] :
                tape' = tape \o sigs /\ signatures' = sigs
    /\ state' = "parsed" /\ rest' = 0
    /\ UNCHANGED <<mode, atMost, todo, m>>

\* The signatures come last, a message without them is measured as if it had
\* them, and nothing may follow.
V1Finish ==
    /\ state = "v1_payloads" /\ todo = 0
    /\ \/ /\ mode = "message"
          /\ Len(tape) + SignaturesSize <= V1MaxSize
          /\ tape' = tape /\ signatures' = <<>>
       \/ /\ mode = "transaction"
          /\ Len(tape) + SignaturesSize <= atMost
          /\ \E sigs \in [1 .. m.num_required_signatures -> Signatures] :
                tape' = tape \o sigs /\ signatures' = sigs
    /\ state' = "parsed" /\ rest' = 0
    /\ UNCHANGED <<mode, atMost, todo, m>>

V1Refused ==
    /\ \/ /\ state = "start"
          /\ \E h \in Headers, mask \in Masks, nix \in 0 .. V1MaxIxs + 1,
                nkeys \in 0 .. V1MaxKeys + 1 : ~(CountsValid(h, nix, nkeys) /\ mask < 32)
       \/ state = "v1_keys" /\ NumKeys > 1      \* a key twice
       \/ /\ state = "v1_config"
          /\ \E ws \in [1 .. Ones(m.config.mask, 5) -> Words] :
                ~ConfigValid([m.config EXCEPT !.values = ws])
       \/ /\ state = "v1_payloads" /\ todo > 0
          /\ \E ix \in V1Instructions : ~IndicesInRange(ix, NumKeys)
       \/ state = "v1_payloads" /\ todo = 0     \* input left, or too much of it
    /\ Reject

-----------------------------------------------------------------------------
(* decode_transaction, decode_message *)

Accepted ==
    /\ mode = "transaction" => Len(signatures) = m.num_required_signatures
    /\ Decodes(m)

DecodeMessage ==
    /\ state = "parsed"
    /\ Accepted
    /\ state' = "decoded"
    /\ UNCHANGED <<mode, tape, atMost, rest, todo, signatures, m>>

DecodeRefused == state = "parsed" /\ ~Accepted /\ Reject

WireNext ==
    \/ Envelope \/ LegacyHeader \/ V0Header \/ UnknownVersion
    \/ StaticKeys \/ NumInstructions \/ ReadInstruction \/ NumLookups \/ ReadLookup \/ Parsed
    \/ V1Fixed \/ V1Keys \/ V1Config \/ V1Headers \/ V1Payload \/ V1Finish \/ V1Refused
    \/ Truncated \/ BadLength
    \/ DecodeMessage \/ DecodeRefused

WireSpec == WireInit /\ [][WireNext]_wireVars

-----------------------------------------------------------------------------
(* The encoder: what a serializer writes for a message x *)

EncodeVector(v) == CompactEncoding(Len(v)) \o v

EncodeTag(x) ==
    IF x.version = "Legacy" THEN <<>> ELSE IF x.version = "V0" THEN <<V0Tag>> ELSE <<V1Tag>>

EncodeFront(x) ==
    EncodeTag(x) \o <<x.num_required_signatures, x.num_readonly_signed_accounts,
                      x.num_readonly_unsigned_accounts>>

EncodeIx(ix) ==
    <<ix.program_id_index>> \o EncodeVector(ix.account_indices) \o EncodeVector(ix.data)

EncodeLookup(l) ==
    <<l.table_key>> \o EncodeVector(l.writable_indexes) \o EncodeVector(l.readonly_indexes)

EncodeIxs(ixs) == FlattenSeq([i \in DOMAIN ixs |-> EncodeIx(ixs[i])])

EncodeTables(ls) == FlattenSeq([i \in DOMAIN ls |-> EncodeLookup(ls[i])])

\* The part that legacy and v0 have in common, with n for the number of its
\* instructions.
EncodeBody(x, n) ==
    EncodeFront(x) \o EncodeVector(x.static_account_keys) \o (<<Blockhash>> \o CompactEncoding(n))
      \o EncodeIxs(x.instructions)

EncodeLookups(ls, n) == CompactEncoding(n) \o EncodeTables(ls)

\* The configuration is written field by field, as its accessors tell it.
EncodeConfig(config) ==
    FlattenSeq([b \in 1 .. 5 |-> IF Bit(config.mask, b - 1)
                                 THEN <<Value(config, b - 1, 0)>> ELSE <<>>])

EncodeFixed(x, nix, nkeys) == EncodeFront(x) \o <<x.config.mask, Blockhash, nix, nkeys>>

EncodeIxHeader(ix) == <<ix.program_id_index, Len(ix.account_indices), Len(ix.data)>>

EncodeIxHeaders(ixs) == FlattenSeq([i \in DOMAIN ixs |-> EncodeIxHeader(ixs[i])])

EncodePayload(ix) == ix.account_indices \o ix.data

EncodePayloads(ixs) == FlattenSeq([i \in DOMAIN ixs |-> EncodePayload(ixs[i])])

EncodeV1(x) ==
    EncodeFixed(x, Len(x.instructions), Len(x.static_account_keys))
      \o x.static_account_keys \o EncodeConfig(x.config)
      \o EncodeIxHeaders(x.instructions) \o EncodePayloads(x.instructions)

EncodeMessage(x) ==
    IF x.version = "V1" THEN EncodeV1(x)
    ELSE IF x.version = "V0"
    THEN EncodeBody(x, Len(x.instructions))
           \o EncodeLookups(x.address_table_lookups, Len(x.address_table_lookups))
    ELSE EncodeBody(x, Len(x.instructions))

\* The signatures that come first, before a version, and a v1 message's, that
\* come last.
SignaturesBefore == IF mode = "transaction" /\ m.version # "V1" THEN EncodeVector(signatures) ELSE <<>>
SignaturesAfter  == IF mode = "transaction" /\ m.version = "V1" THEN signatures ELSE <<>>

EncodeInput == SignaturesBefore \o EncodeMessage(m) \o SignaturesAfter

-----------------------------------------------------------------------------
(* What holds on the way: the tape is what a serializer has written by then *)

Units == Nat \cup Keys \cup Signatures \cup Data \cup {Blockhash}

CompiledInstructions ==
    [program_id_index : Nat, account_indices : Seq(Nat), data : Seq(Data)]

TableLookups == [table_key : Keys, writable_indexes : Seq(Nat), readonly_indexes : Seq(Nat)]

WireMessages ==
    [version : {"Legacy", "V0", "V1"}, num_required_signatures : Nat,
     num_readonly_signed_accounts : Nat, num_readonly_unsigned_accounts : Nat,
     static_account_keys : Seq(Keys), instructions : Seq(CompiledInstructions),
     address_table_lookups : Seq(TableLookups), loaded : Nat,
     config : [mask : Nat, values : Seq(Words)]]

HeaderOf(x) ==
    <<x.num_required_signatures, x.num_readonly_signed_accounts,
      x.num_readonly_unsigned_accounts>>

InVersions ==
    /\ state = "start" => tape = <<>> /\ m = NoMessage
    /\ state = "version" =>
        mode = "transaction" /\ m = NoMessage /\ tape = EncodeVector(signatures)

\* Legacy and v0: the counts cover what is still to come.
InLegacy ==
    /\ state \in {"keys", "count", "instructions", "lookups"} => m.version # "V1"
    /\ state \in {"keys", "count"} => m.instructions = <<>>
    /\ state \in {"keys", "count", "instructions"} => m.address_table_lookups = <<>>
    /\ state = "keys" => tape = SignaturesBefore \o EncodeFront(m)
    /\ state = "count" =>
        tape = SignaturesBefore \o (EncodeFront(m) \o EncodeVector(m.static_account_keys))
    /\ state = "instructions" =>
        tape = SignaturesBefore \o EncodeBody(m, Len(m.instructions) + todo)
    /\ state = "lookups" =>
        /\ m.version = "V0"
        /\ tape = SignaturesBefore
                    \o (EncodeBody(m, Len(m.instructions))
                          \o EncodeLookups(m.address_table_lookups,
                                           Len(m.address_table_lookups) + todo))

\* What validate_v1_counts has seen, of a tape t that begins with the fixed part.
V1Begun(t, x) ==
    /\ x.version = "V1" /\ x.loaded = 0
    /\ Len(t) >= 8 /\ t[7] \in Nat /\ t[8] \in Nat
    /\ CountsValid(HeaderOf(x), t[7], t[8])

EncodeKeys(x, nix, nkeys) == EncodeFixed(x, nix, nkeys) \o x.static_account_keys

EncodeToConfig(x, nix, nkeys) == EncodeKeys(x, nix, nkeys) \o x.config.values

HeadersIn(t, n, nix) == [k \in 1 .. nix |-> HeaderAfter(t, n, k)]

\* The headers hs are those of the instructions read so far, and then some.
Described(x, hs, nkeys) ==
    /\ hs \in Seq(Nat \X Nat \X Nat)
    /\ \A i \in DOMAIN x.instructions :
        /\ hs[i] = EncodeIxHeader(x.instructions[i])
        /\ IndicesInRange(x.instructions[i], nkeys)

\* v1: the headers that are read describe the instructions that are, and the
\* numbers on the tape the ones that will be.
InV1 ==
    /\ state \in {"v1_keys", "v1_config", "v1_headers", "v1_payloads"} =>
        V1Begun(tape, m) /\ (mode = "transaction" => atMost = V1MaxSize)
    /\ state \in {"v1_keys", "v1_config", "v1_headers"} => m.instructions = <<>>
    /\ state = "v1_keys" => tape = EncodeFixed(m, NumIxs, NumKeys)
    /\ state \in {"v1_config", "v1_headers", "v1_payloads"} =>
        Len(m.static_account_keys) = NumKeys
    /\ state = "v1_config" => tape = EncodeKeys(m, NumIxs, NumKeys)
    /\ state \in {"v1_headers", "v1_payloads"} => Len(m.config.values) = Ones(m.config.mask, 5)
    /\ state = "v1_headers" => tape = EncodeToConfig(m, NumIxs, NumKeys)
    /\ state = "v1_payloads" =>
        /\ Len(m.instructions) + todo = NumIxs
        /\ Described(m, HeadersIn(tape, HeadersStart, NumIxs), NumKeys)
        /\ tape = (EncodeToConfig(m, NumIxs, NumKeys)
                     \o FlattenSeq(HeadersIn(tape, HeadersStart, NumIxs)))
                    \o EncodePayloads(m.instructions)

V1Checked ==
    /\ m.loaded = 0 /\ rest = 0
    /\ CountsValid(HeaderOf(m), Len(m.instructions), Len(m.static_account_keys))
    /\ \A i \in DOMAIN m.instructions :
        IndicesInRange(m.instructions[i], Len(m.static_account_keys))
    /\ mode = "transaction" => Len(signatures) = m.num_required_signatures
    /\ Len(EncodeMessage(m)) + SignaturesSize <= V1MaxSize

InParsed ==
    /\ state \in {"parsed", "decoded"} => tape = EncodeInput /\ (m.version = "V1" => V1Checked)
    /\ state = "decoded" => Accepted

\* At every cursor: up to there the tape is the encoding of what was found, for
\* some rest that the counts on it announce.
WireInv ==
    /\ mode \in {"transaction", "message"} /\ todo \in Nat
    /\ tape \in Seq(Units) /\ signatures \in Seq(Signatures) /\ m \in WireMessages
    /\ InVersions /\ InLegacy /\ InV1 /\ InParsed

-----------------------------------------------------------------------------
(* Correctness *)

\* What the parser returns is what a serializer would have written the input
\* for, up to the cursor: nothing is skipped, misplaced or read in a second way,
\* so the message the maker is shown is the one the signature covers
\* (parse_transaction, parse_message and the configuration's accessors).
ReadsWhatWasWritten == state \in {"parsed", "decoded"} => tape = EncodeInput

\* A v1 input that is accepted is accepted whole, within the size of a
\* transaction, and a message without its signatures only if they still fit, at
\* the size a signature has (finish, validate_v1_size).
V1WholeAndFits ==
    state \in {"parsed", "decoded"} /\ m.version = "V1" =>
        /\ rest = 0
        /\ Len(EncodeMessage(m)) + SignaturesSize <= V1MaxSize

\* The checks the v1 parser makes of its own leave nothing for decode_message to
\* refuse: the two validations of header, keys and indices never disagree.
V1AlwaysDecodes == state = "parsed" /\ m.version = "V1" => Accepted

=============================================================================
