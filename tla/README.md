# A formal model of solana-rfq-v2

This directory specifies and verifies the repository it sits beside: the
on-chain request-for-quote program (`programs/solana-rfq-v2`) and the decoder a
maker runs before he signs (`fill-decoder`). The modules are TLA+, the bounded
checks run in TLC, the proofs in TLAPS.

Paths below are relative to the repository root.

## The system

A maker quotes a ladder of price levels off chain. A taker puts the ladder into
a transaction that calls `fill_exact_in`, alone or as a leg of a swap of the
aggregator `dex-solana-v3`. The maker is a co-signer: before he signs, he runs
the decoder on the unsigned transaction, which tells him what would fill and
whether his accounts can be used by anything else.

| Component | State it keeps | Operations | Interacts with | What makes it correct |
|---|---|---|---|---|
| Sweep (`sweep.rs`) | the locals of a loop | `assert_sorted_bid/ask`, `sweep_bid/ask` | called by the handler | no price above the best level; none below the last level touched; no `u64` wraps |
| Handler (`handler.rs`) | none of its own; moves the token ledger | `fill_exact_in` | runtime, token programs, sibling instructions | both legs or neither; the maker's accounts belong to the fill; no fee on a leg; within the quote; nothing refused that is in order |
| Wire parser (`wire.rs`) | a cursor, a partly built message | `parse_transaction`, `parse_message`, the accessors of the v1 configuration | feeds the decoder | one byte form per message; whole and signed |
| Message decoding (`transaction.rs`, `lib.rs`) | none | `decode_message`, `extract_fills`, `single_fill` | reads the parser's message | counts every fill; an index never leaves the keys |
| Swap argument decoding (`aggregator.rs`, `idl_types.rs`) | a cursor | `decode_swap_args`, the Borsh readers of `Dex` | follows the aggregator's IDL | never loses step with the encoder |
| Maker check (`exclusivity.rs`) | none | `validate_maker_accounts` | reads the decoded message; the cluster later loads tables it never saw | the maker's keys are used once, in the leg he looked at |
| `decode-tx` (`bin/decode_tx.rs`) | the process, what it has printed | reading, checking, report, exit codes | an RPC node; the maker's signer acts on report and exit code | 0 means safe to sign; code and report agree |
| Taker CLI (`scripts/cli.ts`) | none | decimal prices to levels, one transaction | RPC node, the program | what is offered and traded keeps to the typed price |
| IDLs, errors, tests, deployment hook | none | none | | generated, wording, or no behaviour |

**What is hard here.** Nothing in the program runs in parallel with itself: the
runtime serialises transactions that write the same accounts. What is hard is

* the order and the company a fill runs in: sibling instructions before and
  after it, other calls inside the same instruction, further transactions with
  the same quote (which has an expiry and no nonce), an epoch boundary that
  changes a mint's transfer fee between two transactions;
* a step that fails after another took effect: the second transfer fails when
  the first is done;
* integer arithmetic at its edges: floors, `u64` bounds, cross products with a
  zero in them, `index as u8`;
* what the maker's decoder does not see: lookup tables that are resolved after
  the signature, instructions behind a program id that such a table loads,
  routes with a side byte it does not know;
* decisions taken twice, by different rules and at different times: exclusivity
  by the decoder and by the program, the report and the exit code, the base and
  the quote side of a typed price;
* signed transactions that are held back, and sent later, in another order, or
  never;
* cursors over bytes with 136 variants, three message versions and two places
  for the signatures, where one byte too many makes something else of the rest.

`PROJECT.json` lists these under `hazards`, each at its line and with the
properties that would notice it.

## Modules

| Module | Models | Extends |
|---|---|---|
| `Ladder` | the level and the arithmetic on one or two of them | |
| `Sweep` | the sort check and the sweep, a step per window and per level | `Ladder` |
| `QuoteAnswer` | the answer of a sweep in closed form | `Ladder` |
| `Quote` | a service that answers in one step: the abstract specification of `Sweep` | |
| `SweepQuote` | the refinement of the one by the other, and its invariant | `Sweep`, `QuoteAnswer`, an instance of `Quote` |
| `Recursion` | lemmas: recursive functions, sums over finite sets | |
| `SweepProofs` | proofs about `Sweep` | `SweepQuote`, `Recursion` |
| `Calls` | token accounts, a fill's accounts in their roles | `Ladder` |
| `FillExactIn` | the handler in its transaction, over a ledger | `Sweep`, `Calls` |
| `Settlement` | a ledger on which a transaction is one step: the abstract specification of `FillExactIn` | `Calls` |
| `FillSettlement` | the refinement of the one by the other, and its invariant | `FillExactIn`, `SweepQuote`, an instance of `Settlement` |
| `FillExactInProofs` | proofs about `FillExactIn` | `FillSettlement`, `SweepProofs` |
| `Decoder` | `decode_message`, fills, counts; the cluster's account loading | |
| `MakerCheck` | `validate_maker_accounts`, a step per check | `Decoder` |
| `SignedTransaction` | an accepted message signed, loaded and executed | `MakerCheck` |
| `MakerCheckProofs` | lemmas about the check, whoever runs it | `MakerCheck` |
| `SignedFill` | the maker's check, his registry and the handler together | `MakerCheck`, `FillExactIn` |
| `SignedFillProofs` | proofs about it | `SignedFill`, `FillExactInProofs`, `MakerCheckProofs` |
| `TxReport` | `print_human` and `print_json` | `MakerCheck` |
| `DecodeTx` | `main` of `decode-tx` | `TxReport` |
| `SignerProofs` | proofs about the two who run the check | `SignedTransaction`, `DecodeTx`, `MakerCheckProofs` |
| `Compact16` | the compact-u16 of the wire format | |
| `Wire` | the parser of legacy, v0 and v1 input, and what a serializer writes | `Decoder`, `Compact16` |
| `WireProofs` | proofs about both | `Wire`, `Recursion` |
| `DexIdl` | how the embedded IDL encodes the routes of a swap | |
| `DexRoutes` | the decoder's cursor over those routes | |
| `Prices` | the CLI's conversion of prices to levels, up to the program's sweep | `Sweep` |
| `PricesProofs` | proofs about it | `Prices`, `SweepProofs` |
| `MC*` | bounds, and the instances the runs check | |

A definition whose comment begins with *Slip* is a plausible mistake, kept
beside the definition it would spoil. No specification uses one; putting it in
the place of its original has to break a property, which shows that the
property is about the code.

### Sweep

`SweepInit .. Return` are one call of the handler into `sweep.rs`. `SortWindow`,
`SortReject` and `SortDone` are the loop over `levels.windows(2)`; `w` is its
position. `TakeWhole` and `TakePartial` are an iteration of the sweep, `k` the
iterator, and the `Reject*` actions are its early returns, in the order of the
source. `Pay` and `Get` name the fields of a level by their role, so that
`sweep_bid` and `sweep_ask`, which mirror each other, are one action each.
Products are `u128` in the code, where two `u64` factors cannot wrap, and are
unbounded here; the sum of outputs is `u64` and `checked_add` is a guard. Two
guards of the code never fire: `checked_sub` on the remaining input and
`partial <= u64::MAX` (`PartialFitsLevel` says so, and is proved).
`TakePartial` leaves `remaining = 0`, so that the loop ends as it does with the
code's `break`; the last level's `Overflow` and dust checks are kept.

`Quote` answers a request in one step; `QuoteAnswer` has the formula, each error
in its order of precedence. `SweepQuote` puts the two together: `AnswersAsQuoted`
is the refinement, and `SweptInv` what links them, the closed form of a loop that
is half way.

### FillExactIn

The state is the ledger, the clock, the running transaction and the place in it
(`tx`, `ix`, `cl`, `step`), plus what a transaction leaves: the transfers it
made (`trail`) and the events it emitted (`fills`), which become `committed`
when it lands. The handler's steps are `Enter` (signatures, account
constraints, zero amount, empty ladder, expiry), `CheckMints`, `CheckExclusivity`, `Sweeping`,
`PayMaker`, `Deliver`; each has its refusal, which reverts the transaction.

External, and modelled by what the handler relies on: the runtime (an
instruction's calls touch only accounts in its metas, a transfer is signed with
signatures of the transaction, an error reverts everything; a fill without its
two signatures is refused by the program, `Signed`), the token programs
(`transfer_checked`, with a Token-2022 fee withheld from the receiver, rounded
up, by epoch) and any other program, as moves of tokens. The account constraints
do not ask who owns the user's token accounts, and Anchor 0.31.1 does not refuse
one mutable account twice, so the model lets accounts coincide: legs may be self
transfers.

What a reader may not expect, and the properties are stated around it:

* the taker's leg moves the whole `amount_in`; this equals what the ladder took
  only because a sweep that leaves input is refused;
* `check_fill_exclusivity` skips the instruction it runs in, so a second fill or
  a transfer the maker signs may share the top-level instruction with a fill.
  `MakerMovesOnlyInFill` is about the other instructions, `FillSettlesInFull`
  about each fill by itself;
* a quote may be filled as often as the maker co-signs before it expires. That
  it is filled once is up to his registry, which is not in this repository;
* `check_mint_compatibility` returns early when the extension data cannot be
  read (`if let Ok`, `handler.rs:29`), where `error.rs` speaks of a mint that
  could not be unpacked. A mint is modelled as with or without a readable fee
  configuration.

### Decoder, MakerCheck, SignedTransaction, DecodeTx

Keys are model values and an instruction's data is its entrypoint and its
routes. A message holds the number of accounts its lookup tables load, not their
keys: the decoder never resolves them. `SignedTransaction` then signs an accepted
message and lets the cluster resolve the tables to *any* keys, refusing only a
key that is loaded twice; the properties quantify over that. That an aggregator
swap reverts on a route with an unknown side, or without the RFQ program among
its accounts, is an assumption about `dex-solana-v3`, used by
`OnlyDecodedFillRuns` alone. `MaxAccountKeys` is 256 in the source and 8 in the
runs; `index as u8` is `% MaxAccountKeys`.

Code that is never reached, and so has no action: `MultipleLegMatches`
(`LegUnique` says why), the `NotFound` of a fill that `single_fill` has just
found, and `EntrypointKind::TokenLedger`, which nothing constructs.

`DecodeTx` adds the command line, the input, the report and the exit codes in the
order of `main`. `TxReport` gives the facts of the report: the listing with the
legs of each instruction, the fill count, the entrypoint policy and the maker's
section, which is there when the check was asked for. `print_human` writes them a
section at a time (`PrintReport`), `print_json` in one piece, and either panics when
its reader has gone (`PrintFails`, exit code 101). `CliInv` says what the process
knows at each stage. The order in which a signature
count that is off, or bytes that are no transaction, show up is abstracted to
`garbled`. Levels rendered as floating-point prices (`to_price_qty`) are left
out: the source says that signers compare atoms, not these.

### SignedFill

This composes the two halves. The maker examines a message with `CheckStep`,
looks its one fill up in his registry and signs (`Sign`), then turns to the next
message; what he signed goes into `sent`, from where the taker submits it at any
time, or never. `Submit` resolves the lookup tables to any keys that load
without a double and turns the message into a transaction of `FillExactIn`
(`TransactionsOf`), which then runs against one ledger. In between run
transactions of others (`Others`), which he has not signed and which may name
his accounts all the same.

External, and stated in the module: the registry, as the example in
`fill-decoder/README.md` uses it (look up, compare side, expiry and levels, mark
consumed before the signature is released); and the aggregator, which runs one
fill for each RFQ route of a swap, on some leg of the accounts, hands the maker's
slots of a leg to the RFQ program alone, and fails when a route cannot run. What
else it or any other program does with the accounts it gets is open: a transfer
of any account it was given, signed by anyone who signed, or a fill of any id.

`MakerTradesAsQuoted` is what the whole construction is for, and needs all of
it: the counts and slots of the decoder, the registry, the program's price and
its revert. `SignedIsExclusive` says that the two exclusivity rules agree in the
direction that matters: what the decoder lets pass is not refused on chain.

### Settlement

`Settlement` has no handler in it: a transaction lands in one step or leaves no
trace; what lands has every fill honoured, at the closed-form price of
`QuoteAnswer`, in live time, with its accounts apart from all other
instructions, and changes each account by the sum of what its calls are worth;
the events come in the order of the fills, one each. `ImplementsSettlement`
(module `FillSettlement`) is the refinement. Its mapping (`Seen`) shows the
ledger as it was while a transaction runs, so that a revert, at whatever step, is
no step at all; `LandingInv` says what the transaction is worth half way.

A transaction lands only if it is `InOrder`: every call signed, every quote live,
answered and alone, no fee in the epoch of the transaction, every transfer covered
by the ledger *it* finds, the transfers before it done. The refinement says no
more than that: a handler which refuses everything satisfies it. `InOrderLands`
says the converse, that a transaction in order never reverts: not in the last
second of its quotes, not for a mint that had a fee an epoch ago, not for an
account that is both sides of a leg. Together: a transaction lands if and only if
it is in order.

### Prices

A decimal is its digits read as one number and how many of them follow the
point; `split`, `slice` and `padEnd` of the source become `Shifted`. The quantity
is cut to whole base atoms, the quote side is priced from the uncut quantity, as
in `qtyPriceToAtoms`. `ParseLevel` and its refusals are a round of `parseLevels`;
then the transaction is sent, or not if a number is no `u64` (the client library
refuses it), and the handler sweeps. Text that is no decimal is refused before
anything else and left out. `TypedPriceKept` bounds both roundings together,
`FilledAtTypedPrice` carries that through sort check and sweep, and
`ApartIsInOrder` says how far apart typed prices must be so that the program
accepts their order: prices closer than that may tie or swap, and are refused.
`PriceInv` ties what is parsed, sent and swept to what was typed.

### Wire and Compact16

The input is not enumerated up front. Every read picks what it finds, and `tape`
is the input up to the cursor: TLC visits every input, prefix by prefix. A unit
of the tape is a byte or a field that the parser copies whole (a key, a
signature, the blockhash, a `u32` word). `atMost` is what has been learnt about
the length of the input: a v1 transaction that is too long is refused before it
is read; in that sum a signature counts `SignatureLen`, the 64 bytes of the source,
as in the size that a message without signatures is measured by
(`SignaturesSize`). The legacy and v0 parsers return without looking at what follows; the
v1 parser does not (`rest`): the properties speak of the input up to the cursor,
and trailing bytes after a legacy or v0 message are outside them. `Radix` stands for the 128 of a compact-u16.

The second half of the module writes a message the way a serializer does, from
the parsed fields alone. `ReadsWhatWasWritten` compares that with the tape;
`WireInv` does so at every cursor on the way, with the counts that have been read
in the place of the ones that will be found. v1 messages carry instructions, and so
headers to be paired with payloads, in `MCWireV1` only; `MCWire` has the compact
lengths and the configuration masks.

### DexIdl and DexRoutes

`DexIdl` encodes routes from the types in `idls/dex_solana_v3.json`. `DexRoutes`
is the reader of `idl_types.rs`: an action per read, with the lengths written in
its match arms. Here bytes are bytes, since tags are what may be mistaken; a
field nobody looks at is one byte repeated, and one of the filler bytes is 117,
the tag of `SolRfqV2`, so that a cursor off by one finds a leg that is not there.

## Runs

| Run | Bounds | Distinct states | Shows |
|---|---|---|---|
| `MCSweep` | every ladder of 1 to 3 levels of 0..3 atoms, both sides, every amount, `u64` max 5 | 229,953 | `SweepInv`; prices between the first and the last level; `BestExecution`: no split of the amount does better; `PartialFitsLevel`; the closed form, as an invariant of the loop and as a refinement |
| `MCFillExactIn` | one transaction out of 846 shapes, signed or not, 5 token accounts, epochs with and without a fee on either mint | 16,101 | the promises of the handler, their inductive invariants (types among them), the refinement of `Settlement`, and `InOrderLands`: what is in order there does not revert |
| `MCRepeated` | three transactions in a row, any mix, landing or not | 1,939,330 | `MakerNeverShort`: the balances of a wallet that only quotes cover the events that landed; `LedgerInv`, its form inside a transaction |
| `MCSignedTransaction` | every account list of 5 accounts out of 7, of 6 with at most two off, and two legs in a row; headers, key lists, entrypoints, siblings and table contents that are off in every way | 265,281 | the check finds the leg and only it; the maker's keys stay in it; only the decoded fill runs |
| `MCSignedFill` | one message, some 440 of them: account lists around two legs, route lists, siblings and up to two loaded keys; or three messages in a row for two quotes, signed, held back and sent in any order; 2 open quotes out of 3; fills of others, between two wallets into the maker's account, and in his name without his signature | 579,543 | the two exclusivity rules agree; the maker trades as quoted, each quote once; `SignedInv` |
| `MCPrices` | up to two levels of binary decimals with up to two digits after the point, four pairs of mint decimals, both sides, three amounts | 366,343 | typed prices are kept, offered and traded, and when their order is; `PriceInv` |
| `MCDecodeTx` | every command line on a sample of those messages, the output closing at any section | 456,420 | what exit code 0 means; code and report agree; `CliInv` |
| `MCWire` | every legacy and v0 input up to 18 units; v1 with one key, every legal mask, six words, heap limits | 796,167 | read as written, at every cursor; a configuration word for its bit |
| `MCWireV1` | v1 input, up to 2 signers, 2 keys, 2 instructions, a signature of size 2, size limit 21 | 1,532,960 | read as written, at every cursor; whole, within the size; never refused later |
| `MCDexRoutes` | every variant of the IDL with every shape of body, alone, between two RFQ legs and after another variable body; the same cut at every byte; every tag no enum has | 111,665 | the cursor keeps step; a truncated input is refused |
| `MCExitSix` | the messages of `MCDecodeTx` | stops at the violation | finding 1 |
| `MCDeclared` | every tag a byte can hold | stops at the violation | finding 2 |

Why the bounds are enough to be worth something: three levels are the least at
which a middle level separates "ordered with its neighbour" from "ordered with
the first", and a fill spans a whole, another whole and a partial level; 0 is
among the atoms, so degenerate levels occur in every place, and 5 as the `u64`
bound is below the sum of two levels, so overflow occurs. In the handler, the
epochs are arranged so that each mint is free while the other is not, both are,
and neither stays so; the taker's accounts range over the maker's; balances are
small enough that either transfer can fail. Three transactions let a landed, a
reverted and a further fill follow each other. In the maker's check, five slots
with four fixed is the smallest leg with a free slot, as in the source, and nine
keys against a limit of eight wrap an index. In the composition, legs have seven
slots: those of the source without mints, token programs, sysvar and event
authority, which no property tells apart; the maker has a token account that no
quote is bound to, the taker one more than a leg needs, and three ids, one of
them never offered, tell a wrong quote from a second fill of the right one.
Three messages are the least at which one quote is signed, another sent, and the
first tried again. For prices, a radix of 2 makes numbers with more digits than
the mint has decimals small: some pairs cut the quantity, some the price, some
both, some nothing; two levels can tie, swap and stay in order. For the parsers the bounds on
vectors reach lengths in one and two bytes; the three-byte form is in the proof.

`CHECK_DEADLOCK FALSE` stands where the system stops: a transaction is over, the
process has exited, the input is read, or a bound of the model is reached. The
sweep has no such end and is checked for deadlock.

**Fairness.** None is assumed, and no liveness property is stated. The program and
the decoder are straight-line code and `for` loops over slices, which end by
construction; on chain the compute meter ends them in any case. There are two
places where something may wait for ever: the RPC request of `decode-tx`, which has
no timeout (`decode_tx.rs:164`), and its `println!`, when nobody reads from a full
pipe. The code promises nothing of either, so the model allows the process to stay
where it is, in those states as in any other, and its properties say what holds
wherever it stops. Nobody is assumed to submit a transaction or to let time pass.
What must not happen by mistake is a *refusal*: that is `InOrderLands`, a property
of steps.

## Proofs

All proofs hold for every value of the constants under the named assumptions
beside the `CONSTANTS`, which TLC evaluates in the runs: `U64MaxAssumption`
(a positive bound), `InputsAssumption` (callers present `u64` amounts and
non-empty ladders of `u64` levels, which is what Borsh and the handler's guards
leave), `LedgerAssumption` (types of the accounts and fee schedules, and the
runtime's rule `WellFormed`), `PricesAssumption` (a radix above one, typed lists
are lists of decimals), `CompactAssumption` (a radix above one, a bound below its
cube), `WireAssumption` (what occurs in a header or an index is a byte; a
signature has a size; the v1 limit on keys is not above the decoder's), `DecoderAssumption` and
`LegAssumption` (at least one account key fits a message; the RFQ program is a
key and no DEX; the leg's slots differ; the messages presented are messages).
`MaxTime`, `MaxTxs`, `MaxVec` and `MaxSize` bound the models; in the theorems
they are any numbers.

**`Recursion`.** What the other proofs need of recursive functions: TLAPS knows
one only as "the function with this recursion, if there is any", and the theorems
of its library on induction cannot be instantiated. `Induction` is therefore
stated for a *set* of naturals and proved by a minimal counterexample;
`RecursionExists` builds a function from its finite starts, and `AddsExists` does
the same for sums over finite sets, from which the laws of `SumFunction` follow:
adding, removing and changing a term, monotony, concatenation of sequences.

**`SweepProofs`.** `NeverBetterThanBestLevel` is not inductive: to add a level to
a fill at or below the first level's price one needs that this level is no
better than the first, and the sort check only compares neighbours. `SweepInv`
carries: `SortInv` (which windows were compared), `LoopInv` (the level that comes
next is strictly worse than the first, and no level used so far is degenerate),
`BestBound`, `WorstBound` (whole levels leave no rounding behind, the last one
less than an atom) and `AnswerInv` (an `Ok` has consumed everything and met the
bound). Strict ordering by cross products is transitive only through levels that
are not degenerate, which is why `LoopInv` needs both of its parts, and why it
matters that the sweep refuses a degenerate level before it uses it. The
arithmetic is in lemmas about products of naturals at the top; the steps name
them.

`SweptInv` says what the loop has done in closed form: what it took is `Depth`,
what it gave is `Total`, and each level behind the iterator was reached and in no
trouble. `SweepRefinesQuote` then follows answer by answer (`AnswerRight`): the
error the code returns is that of the first level in trouble, and comes before
the errors that the formula ranks below it. `GreedyIsBest` compares a finished
sweep with any other split of the amount. The level `l` the sweep ended in
separates the two: below it the split gives a level no more than the sweep did,
above it more, and each atom moved across `l` is moved to no better price.
Summed up, the split's value *times the atoms of `l`* is below that of the sweep
plus one atom, and both are whole numbers.

**`FillExactInProofs`.** `HandlerInv` adds to `SweepInv`: `PlaceInv` (the handler
runs for the fill whose arguments it accepted), `CheckedInv` (what each check
established is still true at the transfers, since neither the clock nor the
transaction moves in between), `TrailInv` (a transfer touches what its
instruction names), `FillsInv` (no other instruction names what a fill has to
itself), `SettledInv` (the transfers hold two legs per event, none of them
shared, but for a taker's leg that waits for the maker's). From it follow
`MakerMovesOnlyInFill`, `FillSettlesInFull`, `LandedWithinQuote` and the types.
`LandedWithinQuote` takes its price from `BestBound`: the proof of the sweep is
used inside the handler's, not assumed.

`MakerNeverShort` speaks of the time between transactions; `LedgerInv` says what
that means inside one. An event counts as soon as it is emitted, a taker's leg
that arrived without its event is `Waiting`, and the ledger that a revert would
bring back is covered by the events before the transaction. The wallets it is
about are those that quote and do nothing else (`OnlyQuotesIn`): a wallet that
signs a transfer of its own spends what it likes. It also takes the token
programs' check that the paying account belongs to who signed: without it a
taker could pay with the maker's account.

`HandlerRefinesSettlement` is the refinement. `LandingInv` is its invariant: each
call so far is one that `Settlement` lets land, each account is what it was plus
what these calls are worth, and the events are those of the fills among them, in
order. `SweptInv` is part of it: that a fill is worth the closed-form answer is
the refinement of `Quote`, used inside this one. `StepIsSettlement` then maps
`Commit` to `Land`, `Tick` to itself and every other step to none.

`InOrderAlwaysLands` is the other direction: `InOrder` rules out every refusal
(`HonouredPasses` for the handler's checks, `HonouredPays` for its transfers,
`InOrderRuns` for all of them). `Settlement` asks that one atom of a mint moves
for free, where the handler asks for a rate of zero and then moves whole legs,
and it measures the ledger in sums of calls, where the token programs look at the
balances: `FreeIsCompatible` and, with `LandingInv`, `LedgerReached` bridge the
two.

**`WireProofs`.** An accepted compact-u16 is the shortest encoding of its value,
and every value has one, for every radix: the case of three bytes, which the
small inputs of the runs hardly reach, is here. On it rests `WireInv`, for inputs
of any length: at each cursor the tape is the encoding of what was found, *with
the counts that were read in place of the lengths that are not there yet* (a
vector of which `todo` elements are missing has its full length in front). That
is what makes it inductive, and turns into `ReadsWhatWasWritten` when nothing is
missing. In v1 all headers come before all payloads, so there the invariant also
says of the headers on the tape that they are those of the instructions that have
been read (`Described`). The encoder flattens sequences of fields; `FlattenSeq` is
recursive, and the first part of the module proves what it does to one element
more. The configuration is encoded bit by bit, and `ConfigEncoded` shows that the
words read in one piece are those of the set bits in order. `V1AlwaysDecodes`
then is a comparison of two validations of the same facts, as `V1Checked` keeps
what the parser's own has established.

**`MakerCheckProofs`.** The maker counts indices of static keys in a
message whose tables he never sees; what matters is which *keys* the loaded
transaction uses. `UsesAreReferences` is the bridge: an index below the number of
static keys names that key, an index past it names a key of a table, and the
cluster's rule that no key is loaded twice says that the latter is another key.
It needs that `unique_static_index` casts to `u8` without loss, which follows
from the limit `decode_message` puts on the keys (`IndexOfStaticKey`), and that
the key is static once. `LegHasAll` adds that a matching leg refers to each
expected slot, so the one reference that was counted is that one. `CheckInv` is
the bookkeeping: the checks are steps, and `Stood` says which facts hold from
which check on.

**`SignerProofs`** uses it for the two who run the check. The signer:
`MakerKeysOnlyInLeg` for any tables, `LegUnique` (two legs would be two
references to the RFQ program), and `OnlyDecodedFillRuns`. `decode-tx` adds the
process: `CliInv` says that what is printed is a beginning of the report on a
message whose checks are over, and that a code which speaks of them comes after
all of it. From these follow `ZeroIsSafeToSign`, `ZeroIsOneFill` and
`ExitAgreesWithReport`, which is over every entry of the report and includes
those that are there only if they were asked for. With `--allow-token-ledger` it
holds because no arm of `decode_swap_args` builds the `TokenLedger` kind: the
report calls such a leg unsupported whatever the flag says, the exit code would
not.

**`SignedFillProofs`** joins the two halves of the system. `MakerTradesAsQuoted`
and `SignedIsExclusive` hold for any messages, tables, ladders, ledgers and
transactions of others that the maker does not sign; the assumptions are those
above and `SignedAssumption` (the slots of the taker are slots of the leg and not
the authority's; the registry's quotes are typed).

The first half of the module says what an accepted message can do once it is
loaded, `RunsAsVetted`. The lemmas of `MakerCheckProofs` put each of the maker's
keys in one slot of one instruction. So no other instruction names them, and
nothing but a leg gets them in the swap that does (`NothingFree`, as the
aggregator hands the slots on); the leg is the one counted, the route is the one
decoded, and its fill has the accounts the maker gave, on the side and under the
id that he looked up. `KeepsTo` collects that: all the transaction does with what
is the maker's is one call, a fill of that quote.

The second half carries it through registry, queue and handler. `SignedInv` is
inductive together with `CheckInv` and `HandlerInv`, which the theorem
`SignedInvariant` conjoins. Its parts: `SentInv`, every message that is out was
vetted, for a consumed quote, and no two for the same one; `LandedInv`, an event
of his that landed is as quoted, and its quote is *spent*: consumed, with no
message out that has it; `RunningInv`, what runs is either nothing of his, or
keeps to a spent quote with no event landed yet, whose call is still to come or
has made the one event there is; `HisLedger`, the ledger covers his events, as in
`LedgerInv` but for one wallet and whatever runs. That a quote is filled once
needs all three of the places it can be in: out, running, landed. The price
comes from `HandlerInv` (`WithinQuote`), hence from the sweep's proof, and the
exclusivity on chain from `KeepsTo` and the metas that the runtime gives an
instruction.

**`PricesProofs`.** A level rounds twice, and to two different grids.
`ShiftedBounds` says what a shift of the point loses, and `PriceBounds` that the
losses of both sides of one level do not add: the quantity's reaches the price
only through the base atoms. Powers of the radix are recursive; `PowerAdds` is
what lets the numbers of digits cancel, whichever of the four shifts go left and
which go right. `FilledAtTypedPrice` chains this with `BestBound` of the sweep,
`ApartIsInOrder` with the order of the levels. `PriceInv` says that the levels
the sweep runs on are the parsed ones, none of them with an empty side.

**Only model-checked.** `DexRoutes`, the decoder's cursor over the aggregator's
routes, is checked on the instance above, where it
meets every variant of the IDL: a proof could only compare the lengths written in
`idl_types.rs` with those of the one IDL there is, variant by variant, which is
what the run does.

## Findings

1. **Exit code 6** (`MCExitSix`). `fill-decoder/README.md:159` gives it as
   "SolRfqV2 leg uses a token-ledger entrypoint". `decode_tx.rs:140-142` exits 6
   for any `swap_tob*` entrypoint, with no such leg in it; the branch that
   matches the table, `decode_tx.rs:146-148`, is never taken, as nothing builds
   `AnySwapArgs::TokenLedger`. The code errs on the careful side: a message it
   cannot vouch for is not signed.
2. **Undeclared variants** (`MCDeclared`). The comment at `idl_types.rs:62-63`
   calls variant indices and layouts confirmed against the aggregator's enum and
   the embedded IDL. The reader accepts `Dex` tags 136 to 140 and dynamic
   candidates 15 to 17, which that IDL does not have. The bodies it assumes for
   them cannot be checked against anything in the repository.

Smaller ones, without a run, both about messages in `error.rs`:

* `error.rs:7` says "insufficient liquidity to fully consume amount_in".
  `sweep.rs:59` and `sweep.rs:94` answer it also when the last share of the
  amount is too small to buy one atom, however deep the ladder is (action
  `RejectDust`); a client that reacts by asking for less gets the same answer.
* `error.rs:5` says "u128 intermediate value overflowed". The `u128` products
  cannot; it is the `u64` sum of the outputs (action `RejectOverflow`).

## Not modelled

* Of `scripts/cli.ts`: key sources, options, the lookups of mints and token
  accounts before sending, the dry run, waiting for a confirmation. Each is one
  call of a client library whose failure ends the process. That a run which gave
  up waiting may be repeated while its transaction lands is the repeated quote of
  `MCRepeated`. Prices given as JSON numbers lose digits before the CLI sees them.
* Of `decode-tx`: wording, base58 and base64, levels as floating-point prices.
  Error texts of `fill-decoder/src/error.rs`.
* The maker's registry and signer, which are not in the repository: `SignedFill`
  takes lookup and mark as one step, as the decoder's README asks for.
* `idls/solana_rfq_v2.json`, embedded as a string (`lib.rs:63`) that no decoder
  reads; lock files, tests, the deployment hook.
* Compute limits, rent, account creation, and any Token-2022 extension but the
  transfer fee.

## Coverage

Modelled and checked: the sweep, the handler, the settlement it implements, the
decoder and the maker's check, their composition, `decode-tx` and its report, the
wire format, the routes, the prices. Every safety property of a run is proved,
but for the three of the routes and those of the two findings.

When the code changes: a changed definition is found by its lines in
`PROJECT.json`; run the module's configurations first, which find a broken
invariant in minutes, then the proofs of the modules that extend it. An invariant
that stops being inductive is checked with TLC before its proof is repaired.
