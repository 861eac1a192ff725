---------------------------- MODULE FillExactIn -----------------------------
(***************************************************************************)
(* The instruction handler of the program (handler.rs) inside the thing     *)
(* that runs it: a transaction of top-level instructions, each making token *)
(* moves and calls to fill_exact_in, over a ledger of token accounts.       *)
(*                                                                         *)
(* The handler's steps and the sweep it calls (module Sweep, whose          *)
(* variables are its locals) are from the source.  The runtime (accounts of *)
(* an instruction bound what its inner calls touch, one failing instruction *)
(* reverts the transaction) and the token programs are external, modelled   *)
(* by what the handler relies on.                                          *)
(***************************************************************************)
EXTENDS Sweep, Calls

CONSTANTS
    TransferFee,        \* per mint, its TransferFeeConfig or NoFeeConfig
    NoFeeConfig,        \* a classic mint, or a Token-2022 mint without the extension
    InitialBalances,    \* the ledgers to start from
    Transactions,       \* the transactions that may be submitted
    EpochLength,
    MaxTime,            \* bound on the clock
    MaxTxs              \* bound on the transactions that run

\* A call to fill_exact_in: its accounts and its arguments.
FillCalls ==
    [op : {"fill"}, side : Side, amount_in : Amounts \cup {0}, min_out : MinOuts,
     rfq_id : U64, expire_at : Int, levels : Ladders \cup {<<>>},
     user : Wallets, fill_authority : Wallets, base_mint : Mints, quote_mint : Mints,
     user_base : TokenAccounts, user_quote : TokenAccounts,
     maker_base : TokenAccounts, maker_quote : TokenAccounts]

\* Any other program moving tokens.
MoveCalls ==
    [op : {"move"}, from : TokenAccounts, to : TokenAccounts,
     authority : Wallets, amount : U64]

\* The runtime's rule: an instruction's calls only touch accounts in its metas.
\* A move that lacks a signature is not made; a fill that lacks one is for the
\* handler to refuse.
WellFormed(t) ==
    \A i \in DOMAIN t.ixs : \A j \in DOMAIN t.ixs[i].calls :
        LET c == t.ixs[i].calls[j]
        IN  /\ KeysOf(c) \subseteq t.ixs[i].metas
            /\ c.op = "move" => SignersOf(c) \subseteq t.signers

Runnable ==
    {t \in [signers : SUBSET Wallets,
            ixs : Seq([metas : SUBSET Named, calls : Seq(FillCalls \cup MoveCalls)])] :
        WellFormed(t)}

Rates == 0 .. 10000     \* basis points

FeeConfigs == [older : Rates, newer : Rates, newer_epoch : Nat]

ASSUME LedgerAssumption ==
    /\ MintOf \in [TokenAccounts -> Mints]
    /\ OwnerOf \in [TokenAccounts -> Wallets]
    /\ TransferFee \in [Mints -> FeeConfigs \cup {NoFeeConfig}]
    /\ InitialBalances \subseteq [TokenAccounts -> U64]
    /\ Wallets \cap TokenAccounts = {}
    /\ Transactions \subseteq Runnable
    /\ EpochLength \in Nat \ {0}
    /\ MaxTime \in Nat /\ MaxTxs \in Nat

NoTx == [signers |-> {}, ixs |-> <<>>]

VARIABLES
    bal,            \* the ledger: atoms in each token account
    now,            \* clock.unix_timestamp
    tx, ix, cl,     \* the running transaction, its instruction, its call
    step,           \* where the runtime and the handler stand
    saved,          \* the ledger the transaction started from
    trail,          \* the token transfers the transaction made
    fills,          \* the fill events it emitted
    committed,      \* the fill events of the transactions that landed
    ran             \* how many transactions have run

ledgerVars == <<bal, now, tx, ix, cl, step, saved, trail, fills, committed, ran>>
vars       == <<sweepVars, ledgerVars>>

Clock == [unix_timestamp |-> now, epoch |-> now \div EpochLength]

-----------------------------------------------------------------------------
(* The token programs (external) *)

\* get_epoch_fee
BasisPoints(m, epoch) ==
    LET cfg == TransferFee[m]
    IN  IF epoch >= cfg.newer_epoch THEN cfg.newer ELSE cfg.older

\* The fee Token-2022 withholds from the receiver, rounded up.
FeeOn(m, amount, epoch) ==
    IF TransferFee[m] = NoFeeConfig THEN 0
    ELSE (amount * BasisPoints(m, epoch) + 9999) \div 10000

Received(m, amount) == amount - FeeOn(m, amount, Clock.epoch)

\* transfer_checked succeeds
CanTransfer(from, to, m, authority, amount) ==
    /\ MintOf[from] = m /\ MintOf[to] = m
    /\ OwnerOf[from] = authority
    /\ bal[from] >= amount
    /\ from # to => bal[to] + Received(m, amount) <= U64Max

Transfer(from, to, m, authority, amount) ==
    /\ CanTransfer(from, to, m, authority, amount)
    /\ bal' = IF from = to THEN bal
              ELSE [bal EXCEPT ![from] = @ - amount, ![to] = @ + Received(m, amount)]
    /\ trail' = Append(trail, [ix |-> ix, from |-> from, to |-> to, authority |-> authority,
                               sent |-> amount, received |-> Received(m, amount)])

-----------------------------------------------------------------------------
(* The call at hand *)

call == tx.ixs[ix].calls[cl]

HasCall == ix <= Len(tx.ixs) /\ cl <= Len(tx.ixs[ix].calls)

\* The account constraints.  They ask nothing of the owner of the user's
\* accounts and let accounts and mints coincide.
AccountsValid(c) ==
    /\ MintOf[c.user_base] = c.base_mint /\ MintOf[c.user_quote] = c.quote_mint
    /\ MintOf[c.maker_base] = c.base_mint /\ MintOf[c.maker_quote] = c.quote_mint
    /\ OwnerOf[c.maker_base] = c.fill_authority
    /\ OwnerOf[c.maker_quote] = c.fill_authority

\* user and fill_authority are Signers.
Signed(c) == SignersOf(c) \subseteq tx.signers

\* Slip: a fee that is announced, or was one, counts like one in force.
MintNeverTaxed(m, epoch) ==
    TransferFee[m] # NoFeeConfig => TransferFee[m].older = 0 /\ TransferFee[m].newer = 0

\* check_mint_compatibility
MintCompatible(m, epoch) ==
    TransferFee[m] # NoFeeConfig => BasisPoints(m, epoch) = 0

\* Slip: the siblings that already ran are not looked at.
ExclusiveFromHere(c) ==
    \A i \in DOMAIN tx.ixs : i > ix => tx.ixs[i].metas \cap Protected(c) = {}

\* check_fill_exclusivity
Exclusive(c) ==
    \A i \in DOMAIN tx.ixs : i # ix => tx.ixs[i].metas \cap Protected(c) = {}

-----------------------------------------------------------------------------
(* The runtime (external) *)

\* `?` all the way up: the transaction leaves no trace.
Abort ==
    /\ bal' = saved
    /\ tx' = NoTx /\ step' = "idle" /\ ix' = 1 /\ cl' = 1
    /\ trail' = <<>> /\ fills' = <<>>
    /\ UNCHANGED <<now, saved, committed, ran>>

\* The handler gives up before, or after, it called the sweep.
Refuse == Abort /\ (IF phase = "idle" THEN UNCHANGED sweepVars ELSE Return)

Tick ==
    /\ step = "idle"
    /\ now < MaxTime
    /\ now' = now + 1
    /\ UNCHANGED <<sweepVars, bal, tx, ix, cl, step, saved, trail, fills, committed, ran>>

Start(t) ==
    /\ step = "idle"
    /\ ran < MaxTxs
    /\ tx' = t
    /\ ix' = 1 /\ cl' = 1
    /\ step' = "next"
    /\ saved' = bal /\ trail' = <<>> /\ fills' = <<>>
    /\ ran' = ran + 1
    /\ UNCHANGED <<sweepVars, bal, now, committed>>

Begin == \E t \in Transactions : Start(t)

NextIx ==
    /\ step = "next"
    /\ ix <= Len(tx.ixs) /\ cl > Len(tx.ixs[ix].calls)
    /\ ix' = ix + 1 /\ cl' = 1
    /\ UNCHANGED <<sweepVars, bal, now, tx, step, saved, trail, fills, committed, ran>>

Commit ==
    /\ step = "next"
    /\ ix > Len(tx.ixs)
    /\ committed' = committed \o fills
    /\ tx' = NoTx /\ step' = "idle" /\ ix' = 1 /\ cl' = 1
    /\ trail' = <<>> /\ fills' = <<>>
    /\ UNCHANGED <<sweepVars, bal, now, saved, ran>>

Move ==
    /\ step = "next" /\ HasCall /\ call.op = "move"
    /\ Transfer(call.from, call.to, MintOf[call.from], call.authority, call.amount)
    /\ cl' = cl + 1
    /\ UNCHANGED <<sweepVars, now, tx, ix, step, saved, fills, committed, ran>>

MoveFails ==
    /\ step = "next" /\ HasCall /\ call.op = "move"
    /\ ~CanTransfer(call.from, call.to, MintOf[call.from], call.authority, call.amount)
    /\ Refuse

-----------------------------------------------------------------------------
(* fill_exact_in *)

Goto(s) ==
    /\ step' = s
    /\ UNCHANGED <<bal, now, tx, ix, cl, saved, trail, fills, committed, ran>>

AtFill(s) == step = s /\ HasCall /\ call.op = "fill"

\* Slip: the seconds of the expiry taken for its end.
ArgumentsValidUntilAfter(c) ==
    /\ Signed(c) /\ AccountsValid(c)
    /\ c.amount_in > 0
    /\ c.levels # <<>>
    /\ Clock.unix_timestamp <= c.expire_at + 1

\* Slips: expired in its last second, signed by anyone.
ArgumentsValidUntilBefore(c) ==
    /\ Signed(c) /\ AccountsValid(c)
    /\ c.amount_in > 0
    /\ c.levels # <<>>
    /\ Clock.unix_timestamp < c.expire_at

ArgumentsValidUnsigned(c) ==
    /\ AccountsValid(c)
    /\ c.amount_in > 0
    /\ c.levels # <<>>
    /\ Clock.unix_timestamp <= c.expire_at

ArgumentsValid(c) ==
    /\ Signed(c) /\ AccountsValid(c)
    /\ c.amount_in > 0
    /\ c.levels # <<>>
    /\ Clock.unix_timestamp <= c.expire_at

Enter       == AtFill("next") /\ ArgumentsValid(call) /\ Goto("mints") /\ UNCHANGED sweepVars
EnterFails  == AtFill("next") /\ ~ArgumentsValid(call) /\ Refuse

\* Slip: only one mint is checked.
MintsValidBaseOnly(c) == MintCompatible(c.base_mint, Clock.epoch)

MintsValid(c) ==
    /\ MintCompatible(c.base_mint, Clock.epoch)
    /\ MintCompatible(c.quote_mint, Clock.epoch)

CheckMints  == AtFill("mints") /\ MintsValid(call) /\ Goto("exclusive") /\ UNCHANGED sweepVars
MintsFail   == AtFill("mints") /\ ~MintsValid(call) /\ Refuse

\* Slip: the two u64 arguments of the sweep in the wrong order.
CheckExclusivitySwapped ==
    /\ AtFill("exclusive")
    /\ Exclusive(call)
    /\ Call(call.side, call.min_out, call.amount_in, call.levels)
    /\ Goto("sweep")

CheckExclusivity ==
    /\ AtFill("exclusive")
    /\ Exclusive(call)
    /\ Call(call.side, call.amount_in, call.min_out, call.levels)
    /\ Goto("sweep")

NotExclusive == AtFill("exclusive") /\ ~Exclusive(call) /\ Refuse

Sweeping == step = "sweep" /\ SweepStep /\ UNCHANGED ledgerVars

SweepFails == step = "sweep" /\ phase = "done" /\ result # "Ok" /\ Refuse

\* Slip: the result of the first transfer is not looked at.
PayMakerUnseen ==
    /\ AtFill("sweep") /\ phase = "done" /\ result = "Ok"
    /\ \/ Transfer(UserPays(call), MakerReceives(call), PayMint(call), call.user, call.amount_in)
       \/ UNCHANGED <<bal, trail>>
    /\ step' = "deliver"
    /\ UNCHANGED <<sweepVars, now, tx, ix, cl, saved, fills, committed, ran>>

\* The taker's leg: the whole amount_in, whatever the ladder consumed.
PayMaker ==
    /\ AtFill("sweep") /\ phase = "done" /\ result = "Ok"
    /\ Transfer(UserPays(call), MakerReceives(call), PayMint(call), call.user, call.amount_in)
    /\ step' = "deliver"
    /\ UNCHANGED <<sweepVars, now, tx, ix, cl, saved, fills, committed, ran>>

PayFails ==
    /\ AtFill("sweep") /\ phase = "done" /\ result = "Ok"
    /\ ~CanTransfer(UserPays(call), MakerReceives(call), PayMint(call), call.user, call.amount_in)
    /\ Refuse

\* The maker's leg, the event, and the handler returns.
Deliver ==
    /\ AtFill("deliver")
    /\ Transfer(MakerGives(call), UserReceives(call), GetMint(call), call.fill_authority, out)
    /\ fills' = Append(fills, [ix |-> ix, call |-> call, amount_out |-> out,
                               epoch |-> Clock.epoch])
    /\ cl' = cl + 1
    /\ step' = "next"
    /\ Return
    /\ UNCHANGED <<now, tx, ix, saved, committed, ran>>

DeliverFails ==
    /\ AtFill("deliver")
    /\ ~CanTransfer(MakerGives(call), UserReceives(call), GetMint(call), call.fill_authority, out)
    /\ Refuse

-----------------------------------------------------------------------------
Init ==
    /\ SweepInit
    /\ bal \in InitialBalances
    /\ now = 0
    /\ tx = NoTx /\ ix = 1 /\ cl = 1
    /\ step = "idle"
    /\ saved = bal
    /\ trail = <<>> /\ fills = <<>> /\ committed = <<>>
    /\ ran = 0

\* The steps of a running transaction.
Run ==
    \/ NextIx \/ Commit \/ Move \/ MoveFails
    \/ Enter \/ EnterFails \/ CheckMints \/ MintsFail
    \/ CheckExclusivity \/ NotExclusive
    \/ Sweeping \/ SweepFails
    \/ PayMaker \/ PayFails \/ Deliver \/ DeliverFails

Next == Tick \/ Begin \/ Run

Spec == Init /\ [][Next]_vars

-----------------------------------------------------------------------------
(* Correctness *)

Steps == {"idle", "next", "mints", "exclusive", "sweep", "deliver"}

FillEvents == [ix : Nat \ {0}, call : FillCalls, amount_out : U64, epoch : Nat]

Transfers == [ix : Nat \ {0}, from : TokenAccounts, to : TokenAccounts,
              authority : Wallets, sent : U64, received : U64]

TypeOK ==
    /\ SweepTypeOK
    /\ bal \in [TokenAccounts -> U64]
    /\ saved \in [TokenAccounts -> U64]
    /\ now \in Nat
    /\ tx # NoTx => tx \in Runnable
    /\ ix \in Nat \ {0} /\ cl \in Nat \ {0}
    /\ step \in Steps
    /\ trail \in Seq(Transfers)
    /\ fills \in Seq(FillEvents)
    /\ committed \in Seq(FillEvents)
    /\ ran \in Nat

\* A transaction that contains a fill moves nothing of the maker's, and signs
\* nothing with the maker's key, in any other top-level instruction: not one
\* that ran before the check, not one that runs after it
\* (check_fill_exclusivity looks at metas, the ledger at transfers).
MakerMovesOnlyInFill ==
    \A f \in Range(fills), t \in Range(trail) :
        t.ix # f.ix => Protected(f.call) \cap {t.from, t.to, t.authority} = {}

\* A transfer off which no fee came.
Leg(i, from, to, authority, amount) ==
    [ix |-> i, from |-> from, to |-> to, authority |-> authority,
     sent |-> amount, received |-> amount]

TakerLeg(i, c)    == Leg(i, UserPays(c), MakerReceives(c), c.user, c.amount_in)
MakerLeg(i, c, o) == Leg(i, MakerGives(c), UserReceives(c), c.fill_authority, o)

\* The first len of the transfers ts hold the two legs of each of the fills fs,
\* in the order of the fills; no transfer serves two of them.
Settled(ts, fs, len) ==
    \E at \in [DOMAIN fs -> 1 .. len - 1] :
        /\ \A n \in DOMAIN fs :
              /\ ts[at[n]] = TakerLeg(fs[n].ix, fs[n].call)
              /\ ts[at[n] + 1] = MakerLeg(fs[n].ix, fs[n].call, fs[n].amount_out)
        /\ \A n1, n2 \in DOMAIN fs : n1 < n2 => at[n1] + 1 < at[n2]

\* Every fill event is backed by two transfers of its own, next to each other,
\* of exactly the atoms it reports: no fee came off either leg, in whatever
\* epoch the transaction ran (check_mint_compatibility, transfer_checked).
FillSettlesInFull == Settled(trail, fills, Len(trail))

WithinQuote(f) ==
    LET c == f.call
    IN  /\ f.amount_out * Pay(c.side, c.levels[1]) <= c.amount_in * Get(c.side, c.levels[1])
        /\ f.amount_out >= c.min_out

\* Every fill, of this transaction or of one that landed, is within the quote
\* the maker signed and the bound the taker set: never above the best level's
\* price, never below min_out.
LandedWithinQuote == \A f \in Range(fills) \cup Range(committed) : WithinQuote(f)

\* What an event says the token account a of a maker gained.
EventGain(e, a) ==
    (IF MakerReceives(e.call) = a THEN e.call.amount_in ELSE 0)
      - (IF MakerGives(e.call) = a THEN e.amount_out ELSE 0)

Gain(es, a) == SumFunction([n \in DOMAIN es |-> EventGain(es[n], a)])

\* A wallet that quotes and does nothing else: what it signs has it take no
\* quote and make no move.
OnlyQuotesIn(t, wallet) ==
    wallet \in t.signers => \A i \in DOMAIN t.ixs : \A j \in DOMAIN t.ixs[i].calls :
        LET c == t.ixs[i].calls[j]
        IN  IF c.op = "fill" THEN c.user # wallet ELSE c.authority # wallet

QuotersAccounts ==
    {a \in TokenAccounts : \A t \in Transactions : OnlyQuotesIn(t, OwnerOf[a])}

\* Between transactions the accounts of a wallet that only quotes hold at least
\* what the landed events account for: a revert takes back both legs and the
\* event, a landed fill has all three, and a donation only adds.
MakerNeverShort ==
    step = "idle" =>
        \E start \in InitialBalances : \A a \in QuotersAccounts :
            bal[a] >= start[a] + Gain(committed, a)

-----------------------------------------------------------------------------
(* The inductive invariants behind them *)

\* Nothing is left over between transactions, and the handler runs for a fill
\* whose accounts and arguments it has accepted.
PlaceInv ==
    /\ step = "idle" => tx = NoTx /\ trail = <<>> /\ fills = <<>>
    /\ step # "idle" => tx \in Runnable
    /\ step \notin {"idle", "next"} => HasCall /\ call.op = "fill" /\ ArgumentsValid(call)

\* What runs was submitted.
Submitted == step # "idle" => tx \in Transactions

\* What each check has established stays true until the transfers: the clock,
\* the instructions and the arguments are those that were checked.
CheckedInv ==
    /\ step \in {"exclusive", "sweep", "deliver"} => MintsValid(call)
    /\ step \in {"sweep", "deliver"} =>
          /\ Exclusive(call)
          /\ phase # "idle"
          /\ side = call.side /\ amount_in = call.amount_in
          /\ min_out = call.min_out /\ levels = call.levels
    /\ step = "deliver" =>
          /\ phase = "done" /\ result = "Ok"
          /\ trail # <<>> /\ trail[Len(trail)] = TakerLeg(ix, call)

\* The runtime lets a transfer touch only what its instruction names.
TrailInv ==
    \A n \in DOMAIN trail :
        LET t == trail[n]
        IN  /\ t.ix \in DOMAIN tx.ixs
            /\ {t.from, t.to, t.authority} \subseteq tx.ixs[t.ix].metas

\* No other instruction names what a fill has to itself.
FillsInv ==
    \A n \in DOMAIN fills :
        \A i \in DOMAIN tx.ixs :
            i # fills[n].ix => tx.ixs[i].metas \cap Protected(fills[n].call) = {}

\* While the taker's leg waits for the maker's, it is not yet of a fill.
SettledInv ==
    Settled(trail, fills, IF step = "deliver" THEN Len(trail) - 1 ELSE Len(trail))

HandlerInv ==
    /\ TypeOK /\ SweepInv
    /\ PlaceInv /\ CheckedInv /\ TrailInv /\ FillsInv /\ SettledInv /\ LandedWithinQuote

\* The taker's leg of a fill whose maker's leg is still to come.
Waiting(a) == IF step = "deliver" /\ MakerReceives(call) = a THEN call.amount_in ELSE 0

\* MakerNeverShort inside a transaction: its events count already, and the
\* ledger a revert would go back to is covered by the events before it.
CoveredSince(start, a) ==
    /\ bal[a] >= start[a] + Gain(committed, a) + Gain(fills, a) + Waiting(a)
    /\ step # "idle" => saved[a] >= start[a] + Gain(committed, a)

LedgerInv ==
    \E start \in InitialBalances : \A a \in QuotersAccounts : CoveredSince(start, a)

=============================================================================
