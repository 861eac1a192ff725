------------------------- MODULE FillExactInProofs --------------------------
(***************************************************************************)
(* For every set of accounts and transactions, every ledger, fee schedule   *)
(* and clock: the handler leaves the maker's accounts to the fill, settles  *)
(* each event with two transfers that no fee came off, stays within the     *)
(* quote, never leaves a quoting wallet short of what its events say, and   *)
(* implements Settlement.  The prices come from SweepProofs.                *)
(***************************************************************************)
EXTENDS FillSettlement, SweepProofs

-----------------------------------------------------------------------------
(* Sequences *)

\* What is in a sequence with one more element.
LEMMA RangeAppend ==
    ASSUME NEW S, NEW s \in Seq(S), NEW e
    PROVE  Range(Append(s, e)) = Range(s) \cup {e}
<1>1. /\ DOMAIN Append(s, e) = DOMAIN s \cup {Len(s) + 1}
      /\ Append(s, e)[Len(s) + 1] = e
      /\ \A n \in DOMAIN s : Append(s, e)[n] = s[n]
  OBVIOUS
<1> QED BY <1>1, Zenon DEF Range

\* What is in one sequence after another is in one of them.
LEMMA RangeConcat ==
    ASSUME NEW S, NEW s \in Seq(S), NEW t \in Seq(S)
    PROVE  Range(s \o t) \subseteq Range(s) \cup Range(t)
<1> SUFFICES ASSUME NEW n \in DOMAIN (s \o t)
             PROVE  (s \o t)[n] \in Range(s) \cup Range(t)
  BY DEF Range
<1>1. CASE n <= Len(s)
  <2>1. n \in DOMAIN s /\ (s \o t)[n] = s[n]
    BY <1>1
  <2> QED BY <2>1 DEF Range
<1>2. CASE n > Len(s)
  <2>1. n - Len(s) \in DOMAIN t /\ (s \o t)[n] = t[n - Len(s)]
    BY <1>2
  <2> QED BY <2>1 DEF Range
<1> QED BY <1>1, <1>2

-----------------------------------------------------------------------------
(* Fees and transfers *)

\* A rate in force is one of the two in the mint's configuration.
LEMMA RateType ==
    ASSUME NEW m \in Mints, TransferFee[m] # NoFeeConfig
    PROVE  BasisPoints(m, Clock.epoch) \in Rates
<1>1. PICK cfg \in FeeConfigs : TransferFee[m] = cfg
  BY LedgerAssumption
<1>2. cfg.newer \in Rates /\ cfg.older \in Rates
  BY DEF FeeConfigs
<1>3. BasisPoints(m, Clock.epoch) = cfg.newer \/ BasisPoints(m, Clock.epoch) = cfg.older
  BY <1>1 DEF BasisPoints
<1> QED BY <1>2, <1>3

\* What a fee leaves of a u64 amount is a u64 amount.
LEMMA ReceivedType ==
    ASSUME NEW m \in Mints, NEW a \in U64
    PROVE  Received(m, a) \in U64
<1> DEFINE bp == BasisPoints(m, Clock.epoch)
           fee == FeeOn(m, a, Clock.epoch)
<1>1. a \in Nat /\ a <= U64Max /\ U64Max \in Nat
  BY U64MaxAssumption DEF U64
<1>2. CASE TransferFee[m] = NoFeeConfig
  BY <1>1, <1>2 DEF Received, FeeOn, U64
<1>3. CASE TransferFee[m] # NoFeeConfig
  <2>3. fee = (a * bp + 9999) \div 10000
    BY <1>3 DEF FeeOn
  <2>4. bp \in Rates
    BY <1>3, RateType
  <2> HIDE DEF bp, fee
  <2>5. a * bp \in Nat /\ a * bp <= a * 10000
    BY <1>1, <2>4 DEF Rates
  <2>6. /\ fee \in Nat
        /\ fee * 10000 <= a * bp + 9999
    BY <2>3, <2>5, DivBounds
  <2>7. fee <= a
    BY <2>5, <2>6, <1>1
  <2>8. Received(m, a) = a - fee
    BY DEF Received, fee
  <2> QED BY <2>6, <2>7, <2>8, <1>1 DEF U64
<1> QED BY <1>2, <1>3

\* A mint that passed the check charges nothing now.
LEMMA CompatibleIsFree ==
    ASSUME NEW m \in Mints, NEW a \in U64, MintCompatible(m, Clock.epoch)
    PROVE  Received(m, a) = a
<1>1. a \in Nat
  BY U64MaxAssumption DEF U64
<1>2. FeeOn(m, a, Clock.epoch) = 0
  <2>1. CASE TransferFee[m] = NoFeeConfig
    BY <2>1 DEF FeeOn
  <2>2. CASE TransferFee[m] # NoFeeConfig
    <3>1. FeeOn(m, a, Clock.epoch) = (a * 0 + 9999) \div 10000
      BY <2>2 DEF FeeOn, MintCompatible
    <3>2. a * 0 + 9999 = 9999 /\ 9999 \div 10000 = 0
      BY <1>1
    <3> QED BY <3>1, <3>2
  <2> QED BY <2>1, <2>2
<1> QED BY <1>1, <1>2 DEF Received

\* A transfer keeps the ledger in u64 and leaves its record at the end of the
\* trail.
LEMMA TransferFacts ==
    ASSUME TypeOK,
           NEW from \in TokenAccounts, NEW to \in TokenAccounts, NEW m \in Mints,
           NEW authority \in Wallets, NEW amount \in U64,
           Transfer(from, to, m, authority, amount)
    PROVE  LET t == [ix |-> ix, from |-> from, to |-> to, authority |-> authority,
                     sent |-> amount, received |-> Received(m, amount)]
           IN  /\ bal' \in [TokenAccounts -> U64]
               /\ t \in Transfers
               /\ trail' = Append(trail, t)
               /\ trail' \in Seq(Transfers)
<1> DEFINE r == Received(m, amount)
           t == [ix |-> ix, from |-> from, to |-> to, authority |-> authority,
                 sent |-> amount, received |-> r]
<1>1. r \in U64
  BY ReceivedType
<1>2. t \in Transfers
  BY <1>1 DEF TypeOK, Transfers
<1>3. trail' = Append(trail, t)
  BY DEF Transfer
<1>4. trail' \in Seq(Transfers)
  <2> HIDE DEF t
  <2> QED BY <1>2, <1>3 DEF TypeOK
<1>5. bal' \in [TokenAccounts -> U64]
  <2> HIDE DEF r
  <2>1. /\ U64Max \in Nat /\ amount \in Nat /\ r \in Nat
        /\ bal \in [TokenAccounts -> U64]
        /\ bal[from] >= amount
        /\ from # to => bal[to] + r <= U64Max
    BY <1>1, U64MaxAssumption DEF TypeOK, U64, Transfer, CanTransfer, r
  <2>2. CASE from = to
    BY <2>1, <2>2 DEF Transfer
  <2>3. CASE from # to
    <3>1. bal' = [bal EXCEPT ![from] = @ - amount, ![to] = @ + r]
      BY <2>3 DEF Transfer, r
    <3>2. bal[from] - amount \in U64 /\ bal[to] + r \in U64
      BY <2>1, <2>3 DEF U64
    <3> QED BY <3>1, <3>2, <2>1, <2>3
  <2> QED BY <2>2, <2>3
<1> QED BY <1>2, <1>3, <1>4, <1>5

-----------------------------------------------------------------------------
(* The call at hand *)

\* What the runtime guarantees of a transaction it runs.
LEMMA RunnableFacts ==
    ASSUME NEW t \in Runnable
    PROVE  /\ t.signers \subseteq Wallets
           /\ t.ixs \in Seq([metas : SUBSET Named, calls : Seq(FillCalls \cup MoveCalls)])
           /\ WellFormed(t)
<1> DEFINE I == [metas : SUBSET Named, calls : Seq(FillCalls \cup MoveCalls)]
<1>1. t \in [signers : SUBSET Wallets, ixs : Seq(I)] /\ WellFormed(t)
  BY DEF Runnable
<1> HIDE DEF I
<1>2. t.signers \subseteq Wallets /\ t.ixs \in Seq(I)
  BY <1>1
<1> QED BY <1>1, <1>2 DEF I

\* And of a call in it.
LEMMA CallFacts ==
    ASSUME TypeOK, PlaceInv, step # "idle", HasCall
    PROVE  /\ tx \in Runnable /\ ix \in DOMAIN tx.ixs
           /\ call.op = "fill" => call \in FillCalls
           /\ call.op = "move" => call \in MoveCalls
           /\ KeysOf(call) \subseteq tx.ixs[ix].metas
           /\ cl \in DOMAIN tx.ixs[ix].calls
<1>1. tx \in Runnable
  BY DEF PlaceInv
<1>2. /\ tx.ixs \in Seq([metas : SUBSET Named, calls : Seq(FillCalls \cup MoveCalls)])
      /\ WellFormed(tx)
  BY <1>1, RunnableFacts
<1>3. ix \in Nat \ {0} /\ cl \in Nat \ {0} /\ ix <= Len(tx.ixs)
  BY DEF TypeOK, HasCall
<1>4. ix \in DOMAIN tx.ixs
  BY <1>2, <1>3
<1>5. tx.ixs[ix].calls \in Seq(FillCalls \cup MoveCalls)
  <2> DEFINE I == [metas : SUBSET Named, calls : Seq(FillCalls \cup MoveCalls)]
  <2>1. tx.ixs[ix] \in I
    <3> HIDE DEF I
    <3>1. tx.ixs \in Seq(I)
      BY <1>2 DEF I
    <3> QED BY <3>1, <1>4
  <2> QED BY <2>1
<1>6. cl \in DOMAIN tx.ixs[ix].calls
  BY <1>3, <1>5 DEF HasCall
<1>7. call \in FillCalls \cup MoveCalls
  BY <1>5, <1>6 DEF call
<1>8. KeysOf(call) \subseteq tx.ixs[ix].metas
  BY <1>2, <1>4, <1>6 DEF WellFormed, call
<1> QED BY <1>1, <1>4, <1>6, <1>7, <1>8 DEF FillCalls, MoveCalls

\* The accounts and arguments of a fill have their types, and the transfers
\* name accounts that the call names.
LEMMA FillFacts ==
    ASSUME NEW c \in FillCalls
    PROVE  /\ c.side \in Side /\ c.amount_in \in U64 /\ c.min_out \in U64
           /\ c.levels # <<>> => c.levels \in Seq(Level) \ {<<>>}
           /\ UserPays(c) \in TokenAccounts /\ MakerReceives(c) \in TokenAccounts
           /\ MakerGives(c) \in TokenAccounts /\ UserReceives(c) \in TokenAccounts
           /\ PayMint(c) \in Mints /\ GetMint(c) \in Mints
           /\ c.user \in Wallets /\ c.fill_authority \in Wallets
           /\ {UserPays(c), MakerReceives(c), c.user} \subseteq KeysOf(c)
           /\ {MakerGives(c), UserReceives(c), c.fill_authority} \subseteq KeysOf(c)
<1>1. /\ c.op = "fill" /\ c.side \in Side /\ c.amount_in \in Amounts \cup {0}
      /\ c.min_out \in MinOuts /\ c.levels \in Ladders \cup {<<>>}
      /\ c.user \in Wallets /\ c.fill_authority \in Wallets
      /\ c.base_mint \in Mints /\ c.quote_mint \in Mints
      /\ c.user_base \in TokenAccounts /\ c.user_quote \in TokenAccounts
      /\ c.maker_base \in TokenAccounts /\ c.maker_quote \in TokenAccounts
  BY DEF FillCalls
<1>2. /\ c.amount_in \in U64 /\ c.min_out \in U64
      /\ c.levels # <<>> => c.levels \in Seq(Level) \ {<<>>}
  <2>1. 0 \in U64
    BY U64MaxAssumption DEF U64
  <2> QED BY <1>1, <2>1, InputsAssumption
<1>3. KeysOf(c) = {c.user, c.fill_authority, c.user_base, c.user_quote,
                   c.maker_base, c.maker_quote}
  BY <1>1 DEF KeysOf
<1> QED BY <1>1, <1>2, <1>3
        DEF UserPays, MakerReceives, MakerGives, UserReceives, PayMint, GetMint

\* The checks read the clock, the transaction and the place in it.
LEMMA SamePlace ==
    ASSUME UNCHANGED <<now, tx, ix, cl>>
    PROVE  /\ call' = call /\ HasCall' = HasCall
           /\ ArgumentsValid(call)' <=> ArgumentsValid(call)
           /\ MintsValid(call)' <=> MintsValid(call)
           /\ Exclusive(call)' <=> Exclusive(call)
<1>1. call' = call /\ HasCall' = HasCall /\ Clock' = Clock
  BY DEF call, HasCall, Clock
<1>2. ArgumentsValid(call)' <=> ArgumentsValid(call)
  BY <1>1 DEF ArgumentsValid, Signed, AccountsValid
<1>3. MintsValid(call)' <=> MintsValid(call)
  BY <1>1 DEF MintsValid, MintCompatible, BasisPoints
<1>4. Exclusive(call)' <=> Exclusive(call)
  BY <1>1 DEF Exclusive, Protected
<1> QED BY <1>1, <1>2, <1>3, <1>4

-----------------------------------------------------------------------------
(* What a step does to the trail and the events *)

\* A transaction starts, and ends, with neither.
LEMMA NothingYet ==
    ASSUME trail' = <<>>, fills' = <<>>
    PROVE  TrailInv' /\ FillsInv' /\ SettledInv'
<1>1. DOMAIN trail' = {} /\ DOMAIN fills' = {}
  OBVIOUS
<1>2. TrailInv' /\ FillsInv'
  BY <1>1 DEF TrailInv, FillsInv
<1>3. SettledInv'
  <2> DEFINE at == [n \in {} |-> 0]
  <2>1. \A S : at \in [{} -> S]
    OBVIOUS
  <2> HIDE DEF at
  <2>2. \A ts, len : Settled(ts, fills', len)
    BY <1>1, <2>1 DEF Settled
  <2> QED BY <2>2 DEF SettledInv
<1> QED BY <1>2, <1>3

\* Steps that transfer nothing.
LEMMA NothingMoved ==
    ASSUME HandlerInv, UNCHANGED <<tx, trail, fills, committed>>,
           step # "deliver", step' # "deliver"
    PROVE  TrailInv' /\ FillsInv' /\ SettledInv' /\ LandedWithinQuote'
<1>1. TrailInv' /\ FillsInv'
  BY DEF HandlerInv, TrailInv, FillsInv, Protected
<1>2. SettledInv'
  BY DEF HandlerInv, SettledInv
<1>3. LandedWithinQuote'
  BY DEF HandlerInv, LandedWithinQuote
<1> QED BY <1>1, <1>2, <1>3

\* A transfer between accounts of its own instruction.
LEMMA TrailGrows ==
    ASSUME TypeOK, TrailInv, UNCHANGED tx, ix \in DOMAIN tx.ixs,
           NEW t \in Transfers, trail' = Append(trail, t),
           t.ix = ix, {t.from, t.to, t.authority} \subseteq tx.ixs[ix].metas
    PROVE  TrailInv'
<1>1. trail \in Seq(Transfers)
  BY DEF TypeOK
<1> SUFFICES ASSUME NEW n \in DOMAIN trail'
             PROVE  /\ trail'[n].ix \in DOMAIN tx.ixs
                    /\ {trail'[n].from, trail'[n].to, trail'[n].authority}
                          \subseteq tx.ixs[trail'[n].ix].metas
  BY DEF TrailInv
<1>2. CASE n \in DOMAIN trail
  <2>1. trail'[n] = trail[n]
    BY <1>1, <1>2
  <2> QED BY <1>2, <2>1 DEF TrailInv
<1>3. CASE n = Len(trail) + 1
  <2>1. trail'[n] = t
    BY <1>1, <1>3
  <2> QED BY <2>1
<1> QED BY <1>1, <1>2, <1>3

\* More transfers after the settled ones disturb nothing.
LEMMA SettledAppend ==
    ASSUME NEW S, NEW ts \in Seq(S), NEW t, NEW fs,
           NEW len \in Int, NEW more \in Int, len <= Len(ts), len <= more,
           Settled(ts, fs, len)
    PROVE  Settled(Append(ts, t), fs, more)
<1>1. PICK at \in [DOMAIN fs -> 1 .. len - 1] :
         /\ \A n \in DOMAIN fs :
               /\ ts[at[n]] = TakerLeg(fs[n].ix, fs[n].call)
               /\ ts[at[n] + 1] = MakerLeg(fs[n].ix, fs[n].call, fs[n].amount_out)
         /\ \A n1, n2 \in DOMAIN fs : n1 < n2 => at[n1] + 1 < at[n2]
  BY DEF Settled
<1>2. \A i \in 1 .. Len(ts) : Append(ts, t)[i] = ts[i]
  OBVIOUS
<1>3. \A n \in DOMAIN fs : at[n] \in 1 .. Len(ts) /\ at[n] + 1 \in 1 .. Len(ts)
  BY <1>1
<1>4. at \in [DOMAIN fs -> 1 .. more - 1]
  BY <1>1
<1> DEFINE us == Append(ts, t)
<1>5. \A n \in DOMAIN fs : us[at[n]] = ts[at[n]] /\ us[at[n] + 1] = ts[at[n] + 1]
  BY <1>2, <1>3
<1> HIDE DEF us
<1>6. Settled(us, fs, more)
  <2> SUFFICES \E a \in [DOMAIN fs -> 1 .. more - 1] :
         /\ \A n \in DOMAIN fs :
               /\ us[a[n]] = TakerLeg(fs[n].ix, fs[n].call)
               /\ us[a[n] + 1] = MakerLeg(fs[n].ix, fs[n].call, fs[n].amount_out)
         /\ \A n1, n2 \in DOMAIN fs : n1 < n2 => a[n1] + 1 < a[n2]
    BY Zenon DEF Settled
  <2> WITNESS at \in [DOMAIN fs -> 1 .. more - 1]
  <2> QED BY <1>1, <1>5
<1> QED BY <1>6 DEF us

\* The maker's leg right behind the taker's settles the next fill.
LEMMA SettledByDelivery ==
    ASSUME NEW S, NEW ts \in Seq(S), ts # <<>>, NEW F, NEW fs \in Seq(F), NEW f,
           ts[Len(ts)] = TakerLeg(f.ix, f.call),
           Settled(ts, fs, Len(ts) - 1)
    PROVE  Settled(Append(ts, MakerLeg(f.ix, f.call, f.amount_out)), Append(fs, f), Len(ts) + 1)
<1> DEFINE ml == MakerLeg(f.ix, f.call, f.amount_out)
           ts2 == Append(ts, ml)
           fs2 == Append(fs, f)
           L == Len(ts)
           N == Len(fs)
           M == L + 1
<1>1. L \in Nat \ {0} /\ N \in Nat
  OBVIOUS
<1>2. PICK at \in [DOMAIN fs -> 1 .. L - 1 - 1] :
         /\ \A n \in DOMAIN fs :
               /\ ts[at[n]] = TakerLeg(fs[n].ix, fs[n].call)
               /\ ts[at[n] + 1] = MakerLeg(fs[n].ix, fs[n].call, fs[n].amount_out)
         /\ \A n1, n2 \in DOMAIN fs : n1 < n2 => at[n1] + 1 < at[n2]
  BY DEF Settled
<1>3. /\ \A i \in 1 .. L : ts2[i] = ts[i]
      /\ ts2[L + 1] = ml
  <2> HIDE DEF ml
  <2> QED OBVIOUS
<1>4. /\ DOMAIN fs = 1 .. N /\ DOMAIN fs2 = 1 .. N + 1
      /\ \A n \in 1 .. N : fs2[n] = fs[n]
      /\ fs2[N + 1] = f
  OBVIOUS
<1> DEFINE at2 == [n \in 1 .. N + 1 |-> IF n <= N THEN at[n] ELSE L]
<1>5. /\ \A n \in 1 .. N : at2[n] = at[n] /\ at[n] \in 1 .. L - 1 - 1
      /\ at2[N + 1] = L
  BY <1>1, <1>2, <1>4
<1>6. at2 \in [DOMAIN fs2 -> 1 .. M - 1]
  BY <1>1, <1>2, <1>4
<1> HIDE DEF at2, ts2, fs2, L, N, M
<1>7. ASSUME NEW n \in DOMAIN fs2
      PROVE  /\ ts2[at2[n]] = TakerLeg(fs2[n].ix, fs2[n].call)
             /\ ts2[at2[n] + 1] = MakerLeg(fs2[n].ix, fs2[n].call, fs2[n].amount_out)
  <2>1. CASE n \in 1 .. N
    <3>1. at2[n] \in 1 .. L /\ at2[n] + 1 \in 1 .. L /\ at2[n] = at[n] /\ fs2[n] = fs[n]
      BY <2>1, <1>1, <1>4, <1>5
    <3>2. ts2[at2[n]] = ts[at[n]] /\ ts2[at2[n] + 1] = ts[at[n] + 1]
      BY <3>1, <1>3
    <3> QED BY <2>1, <3>1, <3>2, <1>2, <1>4
  <2>2. CASE n = N + 1
    <3>1. at2[n] = L /\ fs2[n] = f /\ L \in 1 .. L
      BY <2>2, <1>1, <1>4, <1>5
    <3>2. ts2[L] = TakerLeg(f.ix, f.call) /\ ts2[L + 1] = ml
      BY <3>1, <1>3 DEF L
    <3> QED BY <3>1, <3>2
  <2> QED BY <2>1, <2>2, <1>1, <1>4
<1>8. ASSUME NEW n1 \in DOMAIN fs2, NEW n2 \in DOMAIN fs2, n1 < n2
      PROVE  at2[n1] + 1 < at2[n2]
  <2>1. n1 \in 1 .. N /\ at2[n1] = at[n1]
    BY <1>8, <1>1, <1>4, <1>5
  <2>2. CASE n2 \in 1 .. N
    BY <2>1, <2>2, <1>2, <1>4, <1>5, <1>8
  <2>3. CASE n2 = N + 1
    BY <2>1, <2>3, <1>1, <1>5
  <2> QED BY <2>2, <2>3, <1>1, <1>4
<1>9. Settled(ts2, fs2, M)
  <2> SUFFICES \E a \in [DOMAIN fs2 -> 1 .. M - 1] :
         /\ \A n \in DOMAIN fs2 :
               /\ ts2[a[n]] = TakerLeg(fs2[n].ix, fs2[n].call)
               /\ ts2[a[n] + 1] = MakerLeg(fs2[n].ix, fs2[n].call, fs2[n].amount_out)
         /\ \A n1, n2 \in DOMAIN fs2 : n1 < n2 => a[n1] + 1 < a[n2]
    BY Zenon DEF Settled
  <2> WITNESS at2 \in [DOMAIN fs2 -> 1 .. M - 1]
  <2> QED BY <1>7, <1>8
<1> QED BY <1>9 DEF ts2, fs2, L, M


-----------------------------------------------------------------------------
(* The invariant, one lemma per kind of step *)

\* It holds before anything runs.
LEMMA HandlerInit == Init => HandlerInv
<1> SUFFICES ASSUME Init PROVE HandlerInv
  OBVIOUS
<1>1. SweepInv
  BY SweepInitInv DEF Init
<1>2. TypeOK
  BY <1>1, LedgerAssumption DEF Init, SweepInv, TypeOK, Steps, NoTx
<1>3. PlaceInv /\ CheckedInv
  BY DEF Init, PlaceInv, CheckedInv
<1>4. DOMAIN trail = {} /\ DOMAIN fills = {} /\ DOMAIN committed = {}
  BY DEF Init
<1>5. TrailInv /\ FillsInv /\ LandedWithinQuote
  BY <1>4 DEF TrailInv, FillsInv, LandedWithinQuote, Range
<1>6. SettledInv
  <2> DEFINE at == [n \in {} |-> 0]
  <2>1. \A S : at \in [{} -> S]
    OBVIOUS
  <2> HIDE DEF at
  <2>2. \A ts, len : Settled(ts, fills, len)
    BY <1>4, <2>1 DEF Settled
  <2> QED BY <2>2 DEF SettledInv
<1> QED BY <1>1, <1>2, <1>3, <1>5, <1>6 DEF HandlerInv

\* A reverted transaction leaves nothing to speak of.
LEMMA RefuseInv == ASSUME HandlerInv, Refuse PROVE HandlerInv'
<1>1. SweepInv'
  BY ReturnInv, SweepStutterInv DEF HandlerInv, Refuse
<1>2. TypeOK'
  BY <1>1 DEF HandlerInv, SweepInv, TypeOK, Refuse, Abort, Steps
<1>3. PlaceInv' /\ CheckedInv'
  BY DEF Refuse, Abort, PlaceInv, CheckedInv
<1>4. TrailInv' /\ FillsInv' /\ SettledInv'
  BY NothingYet DEF Refuse, Abort
<1>5. LandedWithinQuote'
  BY DEF HandlerInv, LandedWithinQuote, Refuse, Abort, Range
<1> QED BY <1>1, <1>2, <1>3, <1>4, <1>5 DEF HandlerInv

\* Time only passes between transactions.
LEMMA TickInv == ASSUME HandlerInv, Tick PROVE HandlerInv'
<1>1. SweepInv'
  BY SweepStutterInv DEF HandlerInv, Tick
<1>2. TypeOK'
  BY <1>1 DEF HandlerInv, SweepInv, TypeOK, Tick, Steps
<1>3. PlaceInv' /\ CheckedInv'
  BY DEF HandlerInv, Tick, PlaceInv, CheckedInv
<1>4. TrailInv' /\ FillsInv' /\ SettledInv' /\ LandedWithinQuote'
  BY NothingMoved DEF Tick
<1> QED BY <1>1, <1>2, <1>3, <1>4 DEF HandlerInv

\* A transaction starts with an empty trail.
LEMMA StartInv == ASSUME HandlerInv, NEW t \in Runnable, Start(t) PROVE HandlerInv'
<1>1. SweepInv'
  BY SweepStutterInv DEF HandlerInv, Start
<1>2. TypeOK'
  BY <1>1 DEF HandlerInv, SweepInv, TypeOK, Start, Steps
<1>3. PlaceInv' /\ CheckedInv'
  BY DEF HandlerInv, Start, PlaceInv, CheckedInv
<1>4. TrailInv' /\ FillsInv' /\ SettledInv'
  BY NothingYet DEF Start
<1>5. LandedWithinQuote'
  BY DEF HandlerInv, LandedWithinQuote, Start, Range
<1> QED BY <1>1, <1>2, <1>3, <1>4, <1>5 DEF HandlerInv

\* The next instruction.
LEMMA NextIxInv == ASSUME HandlerInv, NextIx PROVE HandlerInv'
<1>1. SweepInv'
  BY SweepStutterInv DEF HandlerInv, NextIx
<1>2. TypeOK'
  BY <1>1 DEF HandlerInv, SweepInv, TypeOK, NextIx, Steps
<1>3. PlaceInv' /\ CheckedInv'
  BY DEF HandlerInv, NextIx, PlaceInv, CheckedInv
<1>4. TrailInv' /\ FillsInv' /\ SettledInv' /\ LandedWithinQuote'
  BY NothingMoved DEF NextIx
<1> QED BY <1>1, <1>2, <1>3, <1>4 DEF HandlerInv

\* Landing turns the transaction's events into landed ones.
LEMMA CommitInv == ASSUME HandlerInv, Commit PROVE HandlerInv'
<1>1. SweepInv'
  BY SweepStutterInv DEF HandlerInv, Commit
<1>2. fills \in Seq(FillEvents) /\ committed \in Seq(FillEvents)
  BY DEF HandlerInv, TypeOK
<1>3. TypeOK'
  BY <1>1, <1>2 DEF HandlerInv, SweepInv, TypeOK, Commit, Steps
<1>4. PlaceInv' /\ CheckedInv'
  BY DEF HandlerInv, Commit, PlaceInv, CheckedInv
<1>5. TrailInv' /\ FillsInv' /\ SettledInv'
  BY NothingYet DEF Commit
<1>6. LandedWithinQuote'
  <2>1. Range(fills') = {} /\ committed' = committed \o fills
    BY DEF Commit, Range
  <2>2. Range(committed') \subseteq Range(committed) \cup Range(fills)
    BY <1>2, <2>1, RangeConcat
  <2> QED BY <2>1, <2>2 DEF HandlerInv, LandedWithinQuote, WithinQuote, Pay, Get
<1> QED BY <1>1, <1>3, <1>4, <1>5, <1>6 DEF HandlerInv

\* Any other program's transfer.
LEMMA MoveInv == ASSUME HandlerInv, Move PROVE HandlerInv'
<1>1. SweepInv'
  BY SweepStutterInv DEF HandlerInv, Move
<1>2. /\ ix \in DOMAIN tx.ixs /\ call \in MoveCalls
      /\ KeysOf(call) \subseteq tx.ixs[ix].metas
  BY CallFacts DEF HandlerInv, Move
<1>3. /\ call.from \in TokenAccounts /\ call.to \in TokenAccounts
      /\ call.authority \in Wallets /\ call.amount \in U64
      /\ {call.from, call.to, call.authority} = KeysOf(call)
      /\ MintOf[call.from] \in Mints
  BY <1>2, LedgerAssumption DEF MoveCalls, KeysOf, Move
<1> DEFINE t == [ix |-> ix, from |-> call.from, to |-> call.to, authority |-> call.authority,
                 sent |-> call.amount, received |-> Received(MintOf[call.from], call.amount)]
<1>4. /\ bal' \in [TokenAccounts -> U64] /\ t \in Transfers
      /\ trail' = Append(trail, t) /\ trail' \in Seq(Transfers)
  BY <1>3, TransferFacts DEF HandlerInv, Move
<1>5. TypeOK'
  BY <1>1, <1>4 DEF HandlerInv, SweepInv, TypeOK, Move, Steps
<1>6. PlaceInv' /\ CheckedInv'
  BY DEF HandlerInv, Move, PlaceInv, CheckedInv
<1>7. TrailInv'
  <2>1. t.ix = ix /\ {t.from, t.to, t.authority} \subseteq tx.ixs[ix].metas
    BY <1>2, <1>3
  <2> HIDE DEF t
  <2> QED BY <1>2, <1>4, <2>1, TrailGrows DEF HandlerInv, Move
<1>8. FillsInv'
  BY DEF HandlerInv, FillsInv, Move, Protected
<1>9. SettledInv'
  <2> HIDE DEF t
  <2>1. trail \in Seq(Transfers) /\ Len(trail) \in Nat /\ Len(trail') = Len(trail) + 1
    BY <1>4 DEF HandlerInv, TypeOK
  <2>2. Settled(trail, fills, Len(trail))
    BY DEF HandlerInv, SettledInv, Move
  <2>3. Settled(Append(trail, t), fills, Len(trail) + 1)
    BY <2>1, <2>2, SettledAppend
  <2> QED BY <1>4, <2>1, <2>3 DEF SettledInv, Move
<1>10. LandedWithinQuote'
  BY DEF HandlerInv, LandedWithinQuote, Move, Range
<1> QED BY <1>1, <1>5, <1>6, <1>7, <1>8, <1>9, <1>10 DEF HandlerInv

\* The handler accepts the accounts and the arguments.
LEMMA EnterInv == ASSUME HandlerInv, Enter PROVE HandlerInv'
<1> USE DEF Enter, Goto, AtFill
<1>1. SweepInv'
  BY SweepStutterInv DEF HandlerInv
<1>2. TypeOK'
  BY <1>1 DEF HandlerInv, SweepInv, TypeOK, Steps
<1>3. PlaceInv' /\ CheckedInv'
  BY SamePlace DEF HandlerInv, PlaceInv, CheckedInv
<1>4. TrailInv' /\ FillsInv' /\ SettledInv' /\ LandedWithinQuote'
  BY NothingMoved
<1> QED BY <1>1, <1>2, <1>3, <1>4 DEF HandlerInv

\* Both mints are free of fees in this epoch.
LEMMA CheckMintsInv == ASSUME HandlerInv, CheckMints PROVE HandlerInv'
<1> USE DEF CheckMints, Goto, AtFill
<1>1. SweepInv'
  BY SweepStutterInv DEF HandlerInv
<1>2. TypeOK'
  BY <1>1 DEF HandlerInv, SweepInv, TypeOK, Steps
<1>3. PlaceInv' /\ CheckedInv'
  BY SamePlace DEF HandlerInv, PlaceInv, CheckedInv
<1>4. TrailInv' /\ FillsInv' /\ SettledInv' /\ LandedWithinQuote'
  BY NothingMoved
<1> QED BY <1>1, <1>2, <1>3, <1>4 DEF HandlerInv

\* The maker's accounts are the fill's alone, and the sweep is called.
LEMMA CheckExclusivityInv == ASSUME HandlerInv, CheckExclusivity PROVE HandlerInv'
<1> USE DEF CheckExclusivity, Goto, AtFill
<1>1. call \in FillCalls /\ call.levels # <<>>
  BY CallFacts DEF HandlerInv, PlaceInv, ArgumentsValid
<1>2. /\ call.side \in Side /\ call.amount_in \in U64 /\ call.min_out \in U64
      /\ call.levels \in Seq(Level) \ {<<>>}
  BY <1>1, FillFacts
<1>3. SweepInv'
  BY <1>2, CallInv DEF HandlerInv
<1>4. TypeOK'
  BY <1>3 DEF HandlerInv, SweepInv, TypeOK, Steps
<1>5. PlaceInv' /\ CheckedInv'
  BY SamePlace DEF HandlerInv, PlaceInv, CheckedInv, Call
<1>6. TrailInv' /\ FillsInv' /\ SettledInv' /\ LandedWithinQuote'
  BY NothingMoved
<1> QED BY <1>3, <1>4, <1>5, <1>6 DEF HandlerInv

\* The sweep works on the arguments it was given.
LEMMA SweepingInv == ASSUME HandlerInv, Sweeping PROVE HandlerInv'
<1> USE DEF Sweeping, ledgerVars
<1>1. SweepInv'
  BY SweepStepInv DEF HandlerInv
<1>2. TypeOK'
  BY <1>1 DEF HandlerInv, SweepInv, TypeOK
<1>3. UNCHANGED args /\ phase' # "idle"
  BY DEF SweepStep, SortWindow, SortReject, SortDone, RejectDegenerate, TakeWhole,
         TakePartial, RejectDust, RejectOverflow, RejectLiquidity, RejectSlippage, Finish,
         InLoop, LoopOver, Fail, args
<1>4. PlaceInv' /\ CheckedInv'
  BY <1>3, SamePlace DEF HandlerInv, PlaceInv, CheckedInv, args
<1>5. TrailInv' /\ FillsInv' /\ SettledInv' /\ LandedWithinQuote'
  BY NothingMoved
<1> QED BY <1>1, <1>2, <1>4, <1>5 DEF HandlerInv

\* The taker's leg: nothing came off it, since both mints are free.
LEMMA PayMakerInv == ASSUME HandlerInv, PayMaker PROVE HandlerInv'
<1> USE DEF PayMaker, AtFill
<1> DEFINE t == TakerLeg(ix, call)
<1>1. SweepInv'
  BY SweepStutterInv DEF HandlerInv
<1>2. /\ ix \in DOMAIN tx.ixs /\ call \in FillCalls
      /\ KeysOf(call) \subseteq tx.ixs[ix].metas
  BY CallFacts DEF HandlerInv
<1>3. /\ UserPays(call) \in TokenAccounts /\ MakerReceives(call) \in TokenAccounts
      /\ PayMint(call) \in Mints /\ call.user \in Wallets /\ call.amount_in \in U64
      /\ {UserPays(call), MakerReceives(call), call.user} \subseteq KeysOf(call)
  BY <1>2, FillFacts
<1>4. Received(PayMint(call), call.amount_in) = call.amount_in
  <2>1. MintCompatible(PayMint(call), Clock.epoch)
    BY DEF HandlerInv, CheckedInv, MintsValid, PayMint
  <2> QED BY <1>3, <2>1, CompatibleIsFree
<1>5. /\ bal' \in [TokenAccounts -> U64] /\ t \in Transfers
      /\ trail' = Append(trail, t) /\ trail' \in Seq(Transfers)
  BY <1>3, <1>4, TransferFacts DEF HandlerInv, TakerLeg, Leg
<1>6. TypeOK'
  BY <1>1, <1>5 DEF HandlerInv, SweepInv, TypeOK, Steps
<1>7. t.ix = ix /\ {t.from, t.to, t.authority} \subseteq tx.ixs[ix].metas
  BY <1>2, <1>3 DEF TakerLeg, Leg
<1>8. trail \in Seq(Transfers) /\ Len(trail) \in Nat
  BY DEF HandlerInv, TypeOK
<1> HIDE DEF t
<1>9. /\ Len(trail') = Len(trail) + 1 /\ trail' # <<>>
      /\ trail'[Len(trail')] = t
  BY <1>5, <1>8
<1>10. TakerLeg(ix, call)' = t
  BY SamePlace DEF t, TakerLeg, Leg, UserPays, MakerReceives
<1>11. PlaceInv' /\ CheckedInv'
  BY <1>9, <1>10, SamePlace DEF HandlerInv, PlaceInv, CheckedInv, sweepVars
<1>12. TrailInv'
  BY <1>2, <1>5, <1>7, TrailGrows DEF HandlerInv
<1>13. FillsInv'
  BY DEF HandlerInv, FillsInv, Protected
<1>14. SettledInv'
  <2>1. Settled(trail, fills, Len(trail))
    BY DEF HandlerInv, SettledInv
  <2>2. Settled(Append(trail, t), fills, Len(trail))
    BY <1>8, <2>1, SettledAppend
  <2>3. Len(trail') - 1 = Len(trail)
    BY <1>8, <1>9
  <2> QED BY <1>5, <2>2, <2>3 DEF SettledInv
<1>15. LandedWithinQuote'
  BY DEF HandlerInv, LandedWithinQuote, Range
<1> QED BY <1>1, <1>6, <1>11, <1>12, <1>13, <1>14, <1>15 DEF HandlerInv

\* The maker's leg: an event whose price is the sweep's, whose two transfers
\* are the last ones, and whose instruction is the only one with its accounts.
LEMMA DeliverInv == ASSUME HandlerInv, Deliver PROVE HandlerInv'
<1> USE DEF Deliver, AtFill
<1> DEFINE t == MakerLeg(ix, call, out)
           f == [ix |-> ix, call |-> call, amount_out |-> out, epoch |-> Clock.epoch]
<1>1. SweepInv'
  BY ReturnInv DEF HandlerInv
<1>2. /\ ix \in DOMAIN tx.ixs /\ call \in FillCalls
      /\ KeysOf(call) \subseteq tx.ixs[ix].metas
  BY CallFacts DEF HandlerInv
<1>3. /\ UserReceives(call) \in TokenAccounts /\ MakerGives(call) \in TokenAccounts
      /\ GetMint(call) \in Mints /\ call.fill_authority \in Wallets /\ out \in U64
      /\ {MakerGives(call), UserReceives(call), call.fill_authority} \subseteq KeysOf(call)
  BY <1>2, FillFacts DEF HandlerInv, SweepInv, SweepTypeOK
<1>4. Received(GetMint(call), out) = out
  <2>1. MintCompatible(GetMint(call), Clock.epoch)
    BY DEF HandlerInv, CheckedInv, MintsValid, GetMint
  <2> QED BY <1>3, <2>1, CompatibleIsFree
<1>5. /\ bal' \in [TokenAccounts -> U64] /\ t \in Transfers
      /\ trail' = Append(trail, t) /\ trail' \in Seq(Transfers)
  BY <1>3, <1>4, TransferFacts DEF HandlerInv, MakerLeg, Leg
<1>6. t.ix = ix /\ {t.from, t.to, t.authority} \subseteq tx.ixs[ix].metas
  BY <1>2, <1>3 DEF MakerLeg, Leg
<1>7. f \in FillEvents
  <2>1. Clock.epoch \in Nat
    <3>1. now \in Nat /\ EpochLength \in Nat /\ EpochLength > 0
      BY LedgerAssumption DEF HandlerInv, TypeOK
    <3>2. now \div EpochLength \in Nat
      BY <3>1, DivBounds
    <3> QED BY <3>2 DEF Clock
  <2> QED BY <1>2, <1>3, <2>1 DEF FillEvents, HandlerInv, TypeOK
<1>8. /\ trail \in Seq(Transfers) /\ Len(trail) \in Nat
      /\ fills \in Seq(FillEvents) /\ Len(fills) \in Nat
  BY DEF HandlerInv, TypeOK
<1>9. f.ix = ix /\ f.call = call /\ f.amount_out = out
  OBVIOUS
<1>10. fills' = Append(fills, f)
  OBVIOUS
<1> HIDE DEF t, f
<1>11. fills' \in Seq(FillEvents)
  BY <1>7, <1>8, <1>10
<1>12. TypeOK'
  BY <1>1, <1>5, <1>11 DEF HandlerInv, SweepInv, TypeOK, Steps
<1>13. PlaceInv' /\ CheckedInv'
  BY DEF HandlerInv, PlaceInv, CheckedInv
<1>14. TrailInv'
  BY <1>2, <1>5, <1>6, TrailGrows DEF HandlerInv
<1>15. FillsInv'
  <2>1. \A i \in DOMAIN tx.ixs : i # f.ix => tx.ixs[i].metas \cap Protected(f.call) = {}
    BY <1>9 DEF HandlerInv, CheckedInv, Exclusive
  <2> SUFFICES ASSUME NEW n \in DOMAIN fills', NEW i \in DOMAIN tx.ixs, i # fills'[n].ix
               PROVE  tx.ixs[i].metas \cap Protected(fills'[n].call) = {}
    BY DEF FillsInv, Protected
  <2>2. CASE n \in DOMAIN fills
    <3>1. fills'[n] = fills[n]
      BY <1>8, <1>10, <2>2
    <3> QED BY <2>2, <3>1 DEF HandlerInv, FillsInv
  <2>3. CASE n = Len(fills) + 1
    <3>1. fills'[n] = f
      BY <1>8, <1>10, <2>3
    <3> QED BY <2>1, <3>1
  <2> QED BY <1>8, <1>10, <2>2, <2>3
<1>16. SettledInv'
  <2>1. trail # <<>> /\ trail[Len(trail)] = TakerLeg(f.ix, f.call)
    BY <1>9 DEF HandlerInv, CheckedInv
  <2>2. Settled(trail, fills, Len(trail) - 1)
    BY DEF HandlerInv, SettledInv
  <2>3. Settled(Append(trail, MakerLeg(f.ix, f.call, f.amount_out)), Append(fills, f), Len(trail) + 1)
    BY <1>8, <2>1, <2>2, SettledByDelivery
  <2>4. MakerLeg(f.ix, f.call, f.amount_out) = t /\ Len(trail') = Len(trail) + 1
    BY <1>5, <1>8, <1>9 DEF t
  <2> QED BY <1>5, <1>10, <2>3, <2>4 DEF SettledInv
<1>17. WithinQuote(f)
  <2>1. remaining = 0 /\ out >= min_out /\ amount_in \in Nat
    BY U64MaxAssumption DEF HandlerInv, SweepInv, SweepTypeOK, AnswerInv, CheckedInv, U64
  <2>2. out * Pay(side, levels[1]) <= amount_in * Get(side, levels[1])
    <3>1. Consumed = amount_in
      BY <2>1 DEF Consumed
    <3> QED BY <3>1 DEF HandlerInv, SweepInv, BestBound, CheckedInv
  <2>3. /\ side = f.call.side /\ amount_in = f.call.amount_in
        /\ min_out = f.call.min_out /\ levels = f.call.levels
    BY <1>9 DEF HandlerInv, CheckedInv
  <2> QED BY <1>9, <2>1, <2>2, <2>3 DEF WithinQuote
<1>18. LandedWithinQuote'
  <2>1. Range(fills') = Range(fills) \cup {f} /\ committed' = committed
    BY <1>8, <1>10, RangeAppend
  <2> QED BY <1>17, <2>1 DEF HandlerInv, LandedWithinQuote, WithinQuote, Pay, Get
<1> QED BY <1>1, <1>12, <1>13, <1>14, <1>15, <1>16, <1>18 DEF HandlerInv

\* Whatever transactions it runs, the handler keeps its invariant.
LEMMA HandlerStep ==
    ASSUME HandlerInv, [Tick \/ (\E t \in Runnable : Start(t)) \/ Run]_vars
    PROVE  HandlerInv'
<1>1. CASE Tick BY <1>1, TickInv
<1>2. CASE \E t \in Runnable : Start(t) BY <1>2, StartInv
<1>3. CASE NextIx BY <1>3, NextIxInv
<1>4. CASE Commit BY <1>4, CommitInv
<1>5. CASE Move BY <1>5, MoveInv
<1>6. CASE Refuse BY <1>6, RefuseInv
<1>7. CASE Enter BY <1>7, EnterInv
<1>8. CASE CheckMints BY <1>8, CheckMintsInv
<1>9. CASE CheckExclusivity BY <1>9, CheckExclusivityInv
<1>10. CASE Sweeping BY <1>10, SweepingInv
<1>11. CASE PayMaker BY <1>11, PayMakerInv
<1>12. CASE Deliver BY <1>12, DeliverInv
<1>13. CASE UNCHANGED vars
  <2> USE <1>13 DEF vars, ledgerVars
  <2>1. SweepInv'
    BY SweepStutterInv DEF HandlerInv
  <2>2. TypeOK'
    BY <2>1 DEF HandlerInv, SweepInv, TypeOK
  <2>3. PlaceInv' /\ CheckedInv'
    BY SamePlace DEF HandlerInv, PlaceInv, CheckedInv, sweepVars, TakerLeg, Leg,
                     UserPays, MakerReceives
  <2>4. TrailInv' /\ FillsInv' /\ SettledInv' /\ LandedWithinQuote'
    BY DEF HandlerInv, TrailInv, FillsInv, Protected, SettledInv, LandedWithinQuote, Range
  <2> QED BY <2>1, <2>2, <2>3, <2>4 DEF HandlerInv
<1> QED BY <1>1, <1>2, <1>3, <1>4, <1>5, <1>6, <1>7, <1>8, <1>9, <1>10, <1>11, <1>12, <1>13
        DEF Run, MoveFails, EnterFails, MintsFail, NotExclusive, SweepFails,
            PayFails, DeliverFails

-----------------------------------------------------------------------------
(* What the events account for *)

\* An event is worth an integer to every account.
LEMMA EventGainType ==
    ASSUME NEW e \in FillEvents, NEW a
    PROVE  EventGain(e, a) \in Int
<1>1. e.call \in FillCalls /\ e.amount_out \in U64
  BY DEF FillEvents
<1>2. e.call.amount_in \in Int /\ e.amount_out \in Int
  BY <1>1, FillFacts, U64MaxAssumption DEF U64
<1> QED BY <1>2 DEF EventGain

\* So are several.
LEMMA GainType ==
    ASSUME NEW es \in Seq(FillEvents), NEW a
    PROVE  Gain(es, a) \in Int
<1> DEFINE f == [n \in DOMAIN es |-> EventGain(es[n], a)]
<1>1. IsFiniteSet(DOMAIN f) /\ \A n \in DOMAIN f : f[n] \in Int
  <2>1. DOMAIN f = 1 .. Len(es) /\ \A n \in 1 .. Len(es) : es[n] \in FillEvents
    OBVIOUS
  <2> QED BY <2>1, FS_Interval, EventGainType
<1> HIDE DEF f
<1>2. SumFunction(f) \in Int
  BY <1>1, SumType DEF SumFunction
<1> QED BY <1>2 DEF Gain, f

\* No event, no gain.
LEMMA GainNone == \A a : Gain(<<>>, a) = 0
<1> TAKE a
<1> DEFINE f == [n \in DOMAIN <<>> |-> EventGain(<<>>[n], a)]
<1>1. DOMAIN f = {}
  OBVIOUS
<1> HIDE DEF f
<1>2. SumFunction(f) = 0
  BY <1>1, SumNone DEF SumFunction
<1> QED BY <1>2 DEF Gain, f

\* One event more.
LEMMA GainAppend ==
    ASSUME NEW es \in Seq(FillEvents), NEW e \in FillEvents, NEW a
    PROVE  Gain(Append(es, e), a) = Gain(es, a) + EventGain(e, a)
<1> DEFINE g == [n \in DOMAIN es |-> EventGain(es[n], a)]
           f == [n \in DOMAIN Append(es, e) |-> EventGain(Append(es, e)[n], a)]
           N == Len(es)
<1>1. N \in Nat /\ DOMAIN g = 1 .. N /\ DOMAIN f = 1 .. N + 1
  OBVIOUS
<1>2. \A n \in 1 .. N : g[n] = f[n] /\ es[n] \in FillEvents /\ f[n] = EventGain(es[n], a)
  OBVIOUS
<1>3. f[N + 1] = EventGain(e, a)
  OBVIOUS
<1> HIDE DEF f, g, N
<1>4. \A n \in 1 .. N + 1 : f[n] \in Int
  <2>1. \A n \in 1 .. N + 1 : n = N + 1 \/ n \in 1 .. N
    BY <1>1
  <2>2. f[N + 1] \in Int /\ \A n \in 1 .. N : f[n] \in Int
    BY <1>2, <1>3, EventGainType
  <2> QED BY <2>1, <2>2, Zenon
<1>5. SumFunction(f) = SumFunction(g) + f[N + 1]
  BY <1>1, <1>2, <1>4, SumGrows
<1> QED BY <1>3, <1>5 DEF Gain, f, g

\* The events of a transaction behind those of the ones before it.
LEMMA GainConcat ==
    ASSUME NEW es \in Seq(FillEvents), NEW fs \in Seq(FillEvents), NEW a
    PROVE  Gain(es \o fs, a) = Gain(es, a) + Gain(fs, a)
<1> DEFINE f == [n \in DOMAIN es |-> EventGain(es[n], a)]
           g == [n \in DOMAIN fs |-> EventGain(fs[n], a)]
           h == [n \in DOMAIN (es \o fs) |-> EventGain((es \o fs)[n], a)]
           N == Len(es)
           M == Len(fs)
<1>1. /\ N \in Nat /\ M \in Nat
      /\ DOMAIN f = 1 .. N /\ DOMAIN g = 1 .. M /\ DOMAIN h = 1 .. N + M
  OBVIOUS
<1>2. \A n \in 1 .. N : f[n] \in Int /\ h[n] = f[n]
  <2>1. \A n \in 1 .. N : /\ es[n] \in FillEvents /\ f[n] = EventGain(es[n], a)
                          /\ h[n] = EventGain((es \o fs)[n], a) /\ (es \o fs)[n] = es[n]
    OBVIOUS
  <2> QED BY <2>1, EventGainType
<1>3. \A n \in 1 .. M : g[n] \in Int /\ h[N + n] = g[n]
  <2>1. \A n \in 1 .. M : /\ fs[n] \in FillEvents /\ g[n] = EventGain(fs[n], a)
                          /\ h[N + n] = EventGain((es \o fs)[N + n], a)
                          /\ (es \o fs)[N + n] = fs[n]
    OBVIOUS
  <2> QED BY <2>1, EventGainType
<1> HIDE DEF f, g, h, N, M
<1>4. SumFunctionOnSet(h, 1 .. N + M)
        = SumFunctionOnSet(f, 1 .. N) + SumFunctionOnSet(g, 1 .. M)
  BY <1>1, <1>2, <1>3, SumConcat
<1>5. SumFunction(h) = SumFunction(f) + SumFunction(g)
  BY <1>1, <1>4 DEF SumFunction
<1> QED BY <1>5 DEF Gain, f, g, h

\* A transfer takes the amount from one account of its authority, and nothing
\* from any other account.
LEMMA TransferFlow ==
    ASSUME TypeOK,
           NEW from \in TokenAccounts, NEW to \in TokenAccounts, NEW m \in Mints,
           NEW authority \in Wallets, NEW amount \in U64,
           Transfer(from, to, m, authority, amount), NEW a \in TokenAccounts
    PROVE  /\ bal[a] \in Int /\ bal'[a] \in Int
           /\ bal'[a] >= bal[a] - (IF a = from THEN amount ELSE 0)
           /\ OwnerOf[from] = authority
           /\ a # from => bal'[a] >= bal[a] + (IF a = to THEN Received(m, amount) ELSE 0)
<1> DEFINE r == Received(m, amount)
<1>1. r \in Nat /\ amount \in Nat
  BY ReceivedType, U64MaxAssumption DEF U64
<1>2. bal \in [TokenAccounts -> Nat]
  <2>1. U64 \subseteq Nat
    BY U64MaxAssumption DEF U64
  <2> QED BY <2>1 DEF TypeOK
<1>3. OwnerOf[from] = authority
  BY DEF Transfer, CanTransfer
<1>4. bal' = IF from = to THEN bal ELSE [bal EXCEPT ![from] = @ - amount, ![to] = @ + r]
  BY DEF Transfer
<1> HIDE DEF r
<1> QED BY <1>1, <1>2, <1>3, <1>4 DEF r

\* A quoter's account is nobody's to pay with: he signs no move, and the user of
\* a fill that was let in has signed.
LEMMA QuoterFacts ==
    ASSUME TypeOK, PlaceInv, step # "idle", HasCall, NEW a, OnlyQuotesIn(tx, OwnerOf[a])
    PROVE  /\ call.op = "fill" /\ step # "next" => call.user # OwnerOf[a]
           /\ call.op = "move" => call.authority # OwnerOf[a]
<1>1. tx \in Runnable /\ ix \in DOMAIN tx.ixs /\ cl \in DOMAIN tx.ixs[ix].calls
  BY CallFacts
<1>2. OwnerOf[a] \in tx.signers =>
         IF call.op = "fill" THEN call.user # OwnerOf[a] ELSE call.authority # OwnerOf[a]
  BY <1>1 DEF OnlyQuotesIn, call
<1>3. call.op = "fill" /\ step # "next" => call.user \in tx.signers
  BY DEF PlaceInv, ArgumentsValid, Signed, SignersOf
<1>4. call.op = "move" => call.authority \in tx.signers
  <2>1. WellFormed(tx)
    BY <1>1, RunnableFacts
  <2> QED BY <1>1, <2>1 DEF WellFormed, SignersOf, call
<1>5. call.op = "move" => call.op # "fill"
  OBVIOUS
<1> QED BY <1>2, <1>3, <1>4, <1>5

\* Steps that neither move tokens nor emit events, inside a transaction.
LEMMA QuietCovered ==
    ASSUME NEW start, NEW a, CoveredSince(start, a),
           UNCHANGED <<bal, saved, fills, committed>>,
           step \notin {"idle", "deliver"}, step' # "deliver"
    PROVE  CoveredSince(start, a)'
BY DEF CoveredSince, Waiting

\* The numbers of the invariant are integers.
LEMMA CoverTypes ==
    ASSUME TypeOK, NEW a \in TokenAccounts, NEW start \in InitialBalances
    PROVE  /\ bal[a] \in Int /\ saved[a] \in Int /\ start[a] \in Int
           /\ Gain(committed, a) \in Int /\ Gain(fills, a) \in Int
<1>1. U64 \subseteq Int
  BY U64MaxAssumption DEF U64
<1>2. start \in [TokenAccounts -> U64]
  BY LedgerAssumption
<1> QED BY <1>1, <1>2, GainType DEF TypeOK

\* A revert goes back to a ledger that the landed events cover.
LEMMA RefuseCovered ==
    ASSUME HandlerInv, NEW start \in InitialBalances, NEW a \in TokenAccounts,
           CoveredSince(start, a), step # "idle", Refuse
    PROVE  CoveredSince(start, a)'
<1> SUFFICES bal'[a] >= start[a] + Gain(committed', a) + Gain(fills', a) + Waiting(a)'
  BY DEF Refuse, Abort, CoveredSince
<1>1. /\ bal' = saved /\ committed' = committed /\ Gain(fills', a) = 0 /\ Waiting(a)' = 0
  BY GainNone DEF Refuse, Abort, Waiting
<1>2. saved[a] >= start[a] + Gain(committed, a)
  BY DEF CoveredSince
<1>3. start[a] \in Int /\ Gain(committed, a) \in Int
  BY CoverTypes DEF HandlerInv
<1> QED BY <1>1, <1>2, <1>3

\* A transaction starts from a ledger that the landed events cover.
LEMMA StartCovered ==
    ASSUME HandlerInv, NEW start \in InitialBalances, NEW a \in TokenAccounts,
           CoveredSince(start, a), NEW t, Start(t)
    PROVE  CoveredSince(start, a)'
<1> USE DEF Start
<1> SUFFICES /\ bal'[a] >= start[a] + Gain(committed', a) + Gain(fills', a) + Waiting(a)'
                    /\ saved'[a] >= start[a] + Gain(committed', a)
  BY DEF CoveredSince
<1>1. fills = <<>> /\ step = "idle"
  BY DEF HandlerInv, PlaceInv
<1>2. /\ bal' = bal /\ saved' = bal /\ committed' = committed
      /\ Gain(fills', a) = 0 /\ Gain(fills, a) = 0 /\ Waiting(a)' = 0 /\ Waiting(a) = 0
  BY <1>1, GainNone DEF Waiting
<1>3. bal[a] >= start[a] + Gain(committed, a) + Gain(fills, a) + Waiting(a)
  BY DEF CoveredSince
<1>4. start[a] \in Int /\ Gain(committed, a) \in Int
  BY CoverTypes DEF HandlerInv
<1> QED BY <1>2, <1>3, <1>4

\* Landing moves the events of the transaction to the landed ones.
LEMMA CommitCovered ==
    ASSUME HandlerInv, NEW start \in InitialBalances, NEW a \in TokenAccounts,
           CoveredSince(start, a), Commit
    PROVE  CoveredSince(start, a)'
<1> USE DEF Commit
<1> SUFFICES bal'[a] >= start[a] + Gain(committed', a) + Gain(fills', a) + Waiting(a)'
  BY DEF CoveredSince
<1>1. fills \in Seq(FillEvents) /\ committed \in Seq(FillEvents)
  BY DEF HandlerInv, TypeOK
<1>2. /\ bal' = bal /\ Gain(committed', a) = Gain(committed, a) + Gain(fills, a)
      /\ Gain(fills', a) = 0 /\ Waiting(a)' = 0 /\ Waiting(a) = 0
  BY <1>1, GainNone, GainConcat DEF Waiting
<1>3. bal[a] >= start[a] + Gain(committed, a) + Gain(fills, a) + Waiting(a)
  BY DEF CoveredSince
<1>4. start[a] \in Int /\ Gain(committed, a) \in Int /\ Gain(fills, a) \in Int
  BY CoverTypes DEF HandlerInv
<1> QED BY <1>2, <1>3, <1>4

\* A move comes out of another wallet's account.
LEMMA MoveCovered ==
    ASSUME HandlerInv, NEW start \in InitialBalances, NEW a \in TokenAccounts,
           CoveredSince(start, a), OnlyQuotesIn(tx, OwnerOf[a]), Move
    PROVE  CoveredSince(start, a)'
<1> USE DEF Move
<1> SUFFICES /\ bal'[a] >= start[a] + Gain(committed', a) + Gain(fills', a) + Waiting(a)'
                    /\ saved'[a] >= start[a] + Gain(committed', a)
  BY DEF CoveredSince
<1>1. call.authority # OwnerOf[a]
  BY QuoterFacts DEF HandlerInv
<1>2. call \in MoveCalls
  BY CallFacts DEF HandlerInv
<1>3. bal'[a] \in Int /\ bal'[a] >= bal[a]
  <2>1. /\ call.from \in TokenAccounts /\ call.to \in TokenAccounts
        /\ call.authority \in Wallets /\ call.amount \in U64 /\ MintOf[call.from] \in Mints
    BY <1>2, LedgerAssumption DEF MoveCalls
  <2>2. /\ bal[a] \in Int /\ bal'[a] \in Int /\ OwnerOf[call.from] = call.authority
        /\ bal'[a] >= bal[a] - (IF a = call.from THEN call.amount ELSE 0)
    BY <1>1, <2>1, TransferFlow DEF HandlerInv
  <2>3. a # call.from
    BY <1>1, <2>2
  <2> QED BY <2>2, <2>3
<1>4. /\ UNCHANGED <<saved, fills, committed>> /\ Waiting(a)' = 0 /\ Waiting(a) = 0
      /\ step # "idle"
  BY DEF Waiting
<1>5. /\ bal[a] >= start[a] + Gain(committed, a) + Gain(fills, a) + Waiting(a)
      /\ saved[a] >= start[a] + Gain(committed, a)
  BY <1>4 DEF CoveredSince
<1>6. /\ start[a] \in Int /\ bal[a] \in Int
      /\ Gain(committed, a) \in Int /\ Gain(fills, a) \in Int
  BY <1>1, CoverTypes DEF HandlerInv
<1> QED BY <1>3, <1>4, <1>5, <1>6

\* The taker's leg comes out of another wallet's account, in full.
LEMMA PayMakerCovered ==
    ASSUME HandlerInv, NEW start \in InitialBalances, NEW a \in TokenAccounts,
           CoveredSince(start, a), OnlyQuotesIn(tx, OwnerOf[a]), PayMaker
    PROVE  CoveredSince(start, a)'
<1> USE DEF PayMaker, AtFill
<1> SUFFICES /\ bal'[a] >= start[a] + Gain(committed', a) + Gain(fills', a) + Waiting(a)'
                    /\ saved'[a] >= start[a] + Gain(committed', a)
  BY DEF CoveredSince
<1>1. call.user # OwnerOf[a]
  BY QuoterFacts DEF HandlerInv
<1>2. call \in FillCalls
  BY CallFacts DEF HandlerInv
<1>3. /\ UserPays(call) \in TokenAccounts /\ MakerReceives(call) \in TokenAccounts
      /\ PayMint(call) \in Mints /\ call.user \in Wallets /\ call.amount_in \in U64
  BY <1>2, FillFacts
<1>4. Received(PayMint(call), call.amount_in) = call.amount_in
  <2>1. MintCompatible(PayMint(call), Clock.epoch)
    BY DEF HandlerInv, CheckedInv, MintsValid, PayMint
  <2> QED BY <1>3, <2>1, CompatibleIsFree
<1> DEFINE gained == IF a = MakerReceives(call) THEN call.amount_in ELSE 0
<1>5. bal'[a] \in Int /\ bal'[a] >= bal[a] + gained
  <2>1. OwnerOf[UserPays(call)] = call.user
    BY <1>1, <1>3, TransferFlow DEF HandlerInv
  <2>2. a # UserPays(call)
    BY <1>1, <2>1
  <2> QED BY <1>1, <1>3, <1>4, <2>2, TransferFlow DEF HandlerInv
<1>6. /\ UNCHANGED <<saved, fills, committed>> /\ Waiting(a) = 0 /\ step # "idle"
  BY DEF Waiting
<1>7. Waiting(a)' = gained
  <2>1. call' = call /\ step' = "deliver"
    BY SamePlace
  <2> QED BY <2>1 DEF Waiting, MakerReceives
<1>8. gained \in Int
  BY <1>3, U64MaxAssumption DEF U64
<1> HIDE DEF gained
<1>9. /\ bal[a] >= start[a] + Gain(committed, a) + Gain(fills, a) + Waiting(a)
      /\ saved[a] >= start[a] + Gain(committed, a)
  BY <1>6 DEF CoveredSince
<1>10. /\ start[a] \in Int /\ bal[a] \in Int
       /\ Gain(committed, a) \in Int /\ Gain(fills, a) \in Int
  BY <1>1, CoverTypes DEF HandlerInv
<1> QED BY <1>5, <1>6, <1>7, <1>8, <1>9, <1>10

\* The maker's leg costs him what the event says.
LEMMA DeliverCovered ==
    ASSUME HandlerInv, NEW start \in InitialBalances, NEW a \in TokenAccounts,
           CoveredSince(start, a), Deliver
    PROVE  CoveredSince(start, a)'
<1> USE DEF Deliver, AtFill
<1> SUFFICES /\ bal'[a] >= start[a] + Gain(committed', a) + Gain(fills', a) + Waiting(a)'
                    /\ saved'[a] >= start[a] + Gain(committed', a)
  BY DEF CoveredSince
<1> DEFINE f == [ix |-> ix, call |-> call, amount_out |-> out, epoch |-> Clock.epoch]
           got  == IF MakerReceives(call) = a THEN call.amount_in ELSE 0
           gave == IF MakerGives(call) = a THEN out ELSE 0
<1>2. call \in FillCalls
  BY CallFacts DEF HandlerInv
<1>3. /\ UserReceives(call) \in TokenAccounts /\ MakerGives(call) \in TokenAccounts
      /\ GetMint(call) \in Mints /\ call.fill_authority \in Wallets /\ out \in U64
      /\ call.amount_in \in U64
  BY <1>2, FillFacts DEF HandlerInv, SweepInv, SweepTypeOK
<1>4. bal'[a] \in Int /\ bal'[a] >= bal[a] - gave
  BY <1>3, TransferFlow DEF HandlerInv
<1>5. Gain(fills', a) = Gain(fills, a) + (got - gave)
  <2>1. f \in FillEvents
    <3>1. now \in Nat /\ EpochLength \in Nat /\ EpochLength > 0
      BY LedgerAssumption DEF HandlerInv, TypeOK
    <3>2. Clock.epoch \in Nat
      BY <3>1, DivBounds DEF Clock
    <3> QED BY <1>2, <1>3, <3>2 DEF FillEvents, HandlerInv, TypeOK
  <2>2. EventGain(f, a) = got - gave
    BY DEF EventGain
  <2>3. fills' = Append(fills, f) /\ fills \in Seq(FillEvents)
    BY DEF HandlerInv, TypeOK
  <2> HIDE DEF f, got, gave
  <2> QED BY <2>1, <2>2, <2>3, GainAppend
<1>6. /\ UNCHANGED <<saved, committed>> /\ Waiting(a)' = 0 /\ Waiting(a) = got
  BY DEF Waiting
<1>7. got \in Int /\ gave \in Int
  BY <1>3, U64MaxAssumption DEF U64
<1>8. /\ bal[a] >= start[a] + Gain(committed, a) + Gain(fills, a) + Waiting(a)
      /\ saved[a] >= start[a] + Gain(committed, a)
  BY DEF CoveredSince
<1>9. /\ start[a] \in Int /\ bal[a] \in Int
      /\ Gain(committed, a) \in Int /\ Gain(fills, a) \in Int
  BY CoverTypes DEF HandlerInv
<1> HIDE DEF f, got, gave, Deliver
<1>10. bal'[a] >= start[a] + Gain(committed, a) + (Gain(fills, a) + (got - gave)) + 0
  BY <1>4, <1>6, <1>7, <1>8, <1>9
<1>11. Gain(committed', a) = Gain(committed, a) /\ saved'[a] = saved[a]
  BY <1>6
<1> QED BY <1>5, <1>6, <1>8, <1>10, <1>11

\* At the start nothing has to be covered.
LEMMA CoveredInit ==
    ASSUME Init, NEW a \in TokenAccounts
    PROVE  CoveredSince(bal, a)
<1>1. bal[a] \in Int
  BY LedgerAssumption, U64MaxAssumption DEF Init, U64
<1>2. Gain(committed, a) = 0 /\ Gain(fills, a) = 0 /\ Waiting(a) = 0 /\ step = "idle"
  BY GainNone DEF Init, Waiting
<1> QED BY <1>1, <1>2 DEF CoveredSince

\* Between transactions only the landed events count.
LEMMA CoveredBetween ==
    ASSUME HandlerInv, NEW start \in InitialBalances, NEW a \in TokenAccounts,
           CoveredSince(start, a), step = "idle"
    PROVE  bal[a] >= start[a] + Gain(committed, a)
<1>1. Gain(fills, a) = 0 /\ Waiting(a) = 0
  BY GainNone DEF Waiting, HandlerInv, PlaceInv
<1>2. bal[a] >= start[a] + Gain(committed, a) + Gain(fills, a) + Waiting(a)
  BY DEF CoveredSince
<1>3. start[a] \in Int /\ Gain(committed, a) \in Int
  BY CoverTypes DEF HandlerInv
<1> QED BY <1>1, <1>2, <1>3

\* Whatever transactions run, an account stays covered as long as its owner
\* only quotes in them.
LEMMA CoveredStep ==
    ASSUME HandlerInv, NEW start \in InitialBalances, NEW a \in TokenAccounts,
           CoveredSince(start, a), step # "idle" => OnlyQuotesIn(tx, OwnerOf[a]),
           [Tick \/ (\E t \in Runnable : Start(t)) \/ Run]_vars
    PROVE  CoveredSince(start, a)'
<1>1. ASSUME Refuse, step # "idle" PROVE CoveredSince(start, a)'
  BY <1>1, RefuseCovered
<1>2. CASE Tick
  BY <1>2 DEF Tick, CoveredSince, Waiting
<1>3. CASE \E t \in Runnable : Start(t) BY <1>3, StartCovered
<1>4. CASE NextIx
  BY <1>4, QuietCovered DEF NextIx
<1>5. CASE Commit BY <1>5, CommitCovered
<1>6. CASE Move BY <1>6, MoveCovered DEF Move
<1>7. CASE Enter \/ CheckMints \/ CheckExclusivity \/ Sweeping
  BY <1>7, QuietCovered
     DEF Enter, CheckMints, CheckExclusivity, Sweeping, AtFill, Goto, ledgerVars
<1>8. CASE PayMaker BY <1>8, PayMakerCovered DEF PayMaker, AtFill
<1>9. CASE Deliver BY <1>9, DeliverCovered
<1>10. CASE MoveFails \/ EnterFails \/ MintsFail \/ NotExclusive \/ SweepFails
            \/ PayFails \/ DeliverFails
  BY <1>1, <1>10 DEF MoveFails, EnterFails, MintsFail, NotExclusive, SweepFails,
                     PayFails, DeliverFails, AtFill
<1>11. CASE UNCHANGED vars
  <2>1. call' = call
    BY <1>11 DEF vars, ledgerVars, call
  <2> QED BY <1>11, <2>1 DEF vars, ledgerVars, CoveredSince, Waiting, MakerReceives
<1> QED BY <1>2, <1>3, <1>4, <1>5, <1>6, <1>7, <1>8, <1>9, <1>10, <1>11 DEF Run

-----------------------------------------------------------------------------
(* The refinement of Settlement *)

\* The sweep inside a handler answers as the closed form does.
LEMMA AnsweredStep ==
    ASSUME HandlerInv, AnsweredInv, [Next]_vars
    PROVE  AnsweredInv'
<1>1. ASSUME UNCHANGED sweepVars PROVE AnsweredInv'
  BY <1>1 DEF sweepVars, AnsweredInv, SweptInv, answer
<1>2. ASSUME phase' = "idle" PROVE AnsweredInv'
  BY <1>2 DEF AnsweredInv, SweptInv
<1>3. ASSUME Refuse PROVE AnsweredInv'
  BY <1>1, <1>2, <1>3 DEF Refuse, Return
<1>4. CASE CheckExclusivity
  <2>1. call \in FillCalls /\ call.levels # <<>> /\ call.amount_in > 0
    BY <1>4, CallFacts
       DEF CheckExclusivity, AtFill, HandlerInv, PlaceInv, ArgumentsValid
  <2>2. /\ call.side \in Side /\ call.amount_in \in U64 \ {0} /\ call.min_out \in U64
        /\ call.levels \in Seq(Level) \ {<<>>}
    BY <2>1, FillFacts, U64MaxAssumption DEF U64
  <2>3. SweptInv'
    BY <1>4, <2>2, SweptCallInv DEF CheckExclusivity
  <2>4. phase' = "sort"
    BY <1>4 DEF CheckExclusivity, Call
  <2> QED BY <2>3, <2>4 DEF AnsweredInv
<1>5. CASE Sweeping
  <2>1. SweepInv /\ SweptInv /\ SweepStep
    BY <1>5 DEF Sweeping, HandlerInv, AnsweredInv
  <2>2. SweptInv'
    BY <2>1, SweptStepInv
  <2>3. ASSUME phase' = "done" PROVE answer' = Answer(side, amount_in, min_out, levels)'
    <3>1. UNCHANGED args
      BY <2>1 DEF SweepStep, SortWindow, SortReject, SortDone, RejectDegenerate, TakeWhole,
             TakePartial, RejectDust, RejectOverflow, RejectLiquidity, RejectSlippage, Finish,
             InLoop, LoopOver, Fail, args
    <3>2. Answer(side, amount_in, min_out, levels) = answer'
      BY <2>1, <2>3, AnswerRight DEF answer
    <3> QED BY <3>1, <3>2 DEF args
  <2> QED BY <2>2, <2>3 DEF AnsweredInv
<1>6. CASE Deliver
  BY <1>2, <1>6 DEF Deliver, Return
<1>7. CASE Tick \/ Begin \/ NextIx \/ Commit \/ Move \/ Enter \/ CheckMints \/ PayMaker
           \/ UNCHANGED vars
  BY <1>1, <1>7 DEF Tick, Begin, Start, NextIx, Commit, Move, Enter, CheckMints, PayMaker, vars
<1>8. CASE MoveFails \/ EnterFails \/ MintsFail \/ NotExclusive \/ SweepFails
           \/ PayFails \/ DeliverFails
  BY <1>3, <1>8 DEF MoveFails, EnterFails, MintsFail, NotExclusive, SweepFails,
                    PayFails, DeliverFails
<1> QED BY <1>4, <1>5, <1>6, <1>7, <1>8 DEF Next, Run

\* The positions of a sequence are finitely many.
LEMMA FinitePositions == \A n \in Nat : IsFiniteSet(1 .. n)
<1> SUFFICES ASSUME NEW n \in Nat PROVE IsFiniteSet(1 .. n)
  OBVIOUS
<1>1. 1 \in Int /\ n \in Int
  OBVIOUS
<1> QED BY <1>1, FS_Interval, Zenon

\* The places of a transaction are finitely many pairs of numbers.
LEMMA PlacesFacts ==
    ASSUME NEW t \in Runnable
    PROVE  /\ IsFiniteSet(Ledger!Places(t))
           /\ \A p \in Ledger!Places(t) :
                 /\ p[1] \in DOMAIN t.ixs /\ p[2] \in DOMAIN t.ixs[p[1]].calls
                 /\ p[1] \in Nat /\ p[2] \in Nat /\ p = <<p[1], p[2]>>
                 /\ p[1] >= 1 /\ p[2] >= 1
<1> DEFINE I == [metas : SUBSET Named, calls : Seq(FillCalls \cup MoveCalls)]
           row(i) == {<<i, j>> : j \in DOMAIN t.ixs[i].calls}
<1>1. t.ixs \in Seq(I)
  BY RunnableFacts
<1>2. DOMAIN t.ixs = 1 .. Len(t.ixs) /\ Len(t.ixs) \in Nat
  BY <1>1
<1>3. ASSUME NEW i \in DOMAIN t.ixs
      PROVE  /\ DOMAIN t.ixs[i].calls = 1 .. Len(t.ixs[i].calls)
             /\ Len(t.ixs[i].calls) \in Nat
  <2>1. t.ixs[i] \in I
    <3> HIDE DEF I
    <3> QED BY <1>1
  <2> QED BY <2>1
<1>4. Ledger!Places(t) = UNION {row(i) : i \in DOMAIN t.ixs}
  BY DEF Ledger!Places
<1>5. IsFiniteSet(Ledger!Places(t))
  <2>1. ASSUME NEW i \in DOMAIN t.ixs PROVE IsFiniteSet(row(i))
    <3>1. IsFiniteSet(DOMAIN t.ixs[i].calls)
      BY <1>3, FinitePositions, Zenon
    <3> DEFINE f == [j \in DOMAIN t.ixs[i].calls |-> <<i, j>>]
    <3>2. f \in Surjection(DOMAIN t.ixs[i].calls, row(i))
      BY Zenon DEF Surjection
    <3> HIDE DEF f
    <3> QED BY <3>1, <3>2, FS_Surjection
  <2> DEFINE g == [i \in DOMAIN t.ixs |-> row(i)]
             rows == {row(i) : i \in DOMAIN t.ixs}
  <2>2. g \in Surjection(DOMAIN t.ixs, rows)
    BY Zenon DEF Surjection
  <2>3. IsFiniteSet(DOMAIN t.ixs)
    BY <1>2, FinitePositions, Zenon
  <2>4. IsFiniteSet(rows)
    <3> HIDE DEF g, rows
    <3> QED BY <2>2, <2>3, FS_Surjection
  <2>5. \A r \in rows : IsFiniteSet(r)
    BY <2>1
  <2>6. Ledger!Places(t) = UNION rows
    BY <1>4
  <2> HIDE DEF rows
  <2> QED BY <2>4, <2>5, <2>6, FS_UNION
<1>6. ASSUME NEW p \in Ledger!Places(t)
      PROVE  /\ p[1] \in DOMAIN t.ixs /\ p[2] \in DOMAIN t.ixs[p[1]].calls
             /\ p = <<p[1], p[2]>>
  BY <1>4
<1> HIDE DEF I, row
<1>7. ASSUME NEW p \in Ledger!Places(t)
      PROVE  p[1] \in Nat /\ p[2] \in Nat /\ p[1] >= 1 /\ p[2] >= 1
  BY <1>2, <1>3, <1>6
<1> QED BY <1>5, <1>6, <1>7

\* The calls made so far are places of the running transaction, and finitely many.
LEMMA DoneFacts ==
    ASSUME HandlerInv, step # "idle"
    PROVE  tx \in Runnable /\ IsFiniteSet(Done) /\ Done \subseteq Ledger!Places(tx)
<1>1. tx \in Runnable
  BY DEF HandlerInv, PlaceInv
<1> QED BY <1>1, PlacesFacts, FS_Subset DEF Done

\* The call at hand has a place in the transaction.
LEMMA CallPlaced ==
    ASSUME HandlerInv, step # "idle", HasCall
    PROVE  <<ix, cl>> \in Ledger!Places(tx) /\ Ledger!CallAt(tx, <<ix, cl>>) = call
<1>1. ix \in DOMAIN tx.ixs /\ cl \in DOMAIN tx.ixs[ix].calls
  BY CallFacts DEF HandlerInv
<1>2. <<ix, cl>> \in Ledger!Places(tx)
  BY <1>1 DEF Ledger!Places
<1> QED BY <1>2 DEF Ledger!CallAt, call

\* The call that has just run is the last of those that have.
LEMMA DoneNext ==
    ASSUME HandlerInv, step # "idle", HasCall, tx' = tx, ix' = ix, cl' = cl + 1
    PROVE  /\ <<ix, cl>> \in Ledger!Places(tx) /\ <<ix, cl>> \notin Done
           /\ Done' = Done \cup {<<ix, cl>>}
           /\ Ledger!CallAt(tx, <<ix, cl>>) = call
           /\ \A p \in Done : Ledger!Before(p, <<ix, cl>>)
<1>1. /\ tx \in Runnable /\ ix \in DOMAIN tx.ixs /\ ix \in Nat /\ cl \in Nat
  BY CallFacts DEF HandlerInv, TypeOK
<1>2. <<ix, cl>> \in Ledger!Places(tx)
  BY CallPlaced
<1>3. \A p \in Done : Ledger!Before(p, <<ix, cl>>)
  BY DEF Done
<1>4. <<ix, cl>> \notin Done
  BY <1>1 DEF Done, Ledger!Before
<1>5. Ledger!CallAt(tx, <<ix, cl>>) = call
  BY DEF Ledger!CallAt, call
<1>6. Done' = Done \cup {<<ix, cl>>}
  <2>1. Done' = {p \in Ledger!Places(tx) : Ledger!Before(p, <<ix, cl + 1>>)}
    BY DEF Done
  <2>2. ASSUME NEW p \in Ledger!Places(tx)
        PROVE  Ledger!Before(p, <<ix, cl + 1>>) <=> Ledger!Before(p, <<ix, cl>>) \/ p = <<ix, cl>>
    <3>1. p[1] \in Nat /\ p[2] \in Nat /\ p = <<p[1], p[2]>>
      BY <1>1, PlacesFacts
    <3>2. p = <<ix, cl>> <=> p[1] = ix /\ p[2] = cl
      BY <3>1
    <3>3. Ledger!Before(p, <<ix, cl + 1>>) <=> p[1] < ix \/ (p[1] = ix /\ p[2] < cl + 1)
      BY DEF Ledger!Before
    <3>4. Ledger!Before(p, <<ix, cl>>) <=> p[1] < ix \/ (p[1] = ix /\ p[2] < cl)
      BY DEF Ledger!Before
    <3> QED BY <1>1, <3>1, <3>2, <3>3, <3>4
  <2> QED BY <1>2, <2>1, <2>2 DEF Done
<1> QED BY <1>2, <1>3, <1>4, <1>5, <1>6

\* What a transfer is worth to an account is an integer.
LEMMA FlowType ==
    ASSUME NEW a, NEW from, NEW to, NEW sent \in Int, NEW received \in Int
    PROVE  Ledger!Flow(a, from, to, sent, received) \in Int
BY DEF Ledger!Flow

\* A call of a transaction is a fill or a move.
LEMMA PlacedCall ==
    ASSUME NEW t \in Runnable, NEW p \in Ledger!Places(t)
    PROVE  Ledger!CallAt(t, p) \in FillCalls \cup MoveCalls
<1> DEFINE I == [metas : SUBSET Named, calls : Seq(FillCalls \cup MoveCalls)]
<1>1. t.ixs \in Seq(I) /\ p[1] \in DOMAIN t.ixs /\ p[2] \in DOMAIN t.ixs[p[1]].calls
  BY PlacesFacts, RunnableFacts
<1>2. t.ixs[p[1]] \in I
  <2> HIDE DEF I
  <2> QED BY <1>1
<1> QED BY <1>1, <1>2 DEF Ledger!CallAt

\* A fill is worth an integer to every account when its answer is one.
LEMMA FillWorth ==
    ASSUME NEW c \in FillCalls, Ledger!Quoted(c).out \in Int, NEW a, NEW time
    PROVE  /\ Ledger!Delta(c, a, time) \in Int
           /\ Ledger!Delta(c, a, time) =
                Ledger!Flow(a, UserPays(c), MakerReceives(c), c.amount_in, c.amount_in)
                  + Ledger!Flow(a, MakerGives(c), UserReceives(c),
                                Ledger!Quoted(c).out, Ledger!Quoted(c).out)
           /\ Ledger!Flow(a, UserPays(c), MakerReceives(c), c.amount_in, c.amount_in) \in Int
           /\ Ledger!Flow(a, MakerGives(c), UserReceives(c),
                          Ledger!Quoted(c).out, Ledger!Quoted(c).out) \in Int
<1>1. c.amount_in \in Int /\ c.op = "fill"
  BY FillFacts, U64MaxAssumption DEF FillCalls, U64
<1>2. Ledger!Delta(c, a, time) =
        Ledger!Flow(a, UserPays(c), MakerReceives(c), c.amount_in, c.amount_in)
          + Ledger!Flow(a, MakerGives(c), UserReceives(c),
                        Ledger!Quoted(c).out, Ledger!Quoted(c).out)
  BY <1>1 DEF Ledger!Delta, Ledger!UserPays, Ledger!MakerReceives, Ledger!MakerGives,
              Ledger!UserReceives, UserPays, MakerReceives, MakerGives, UserReceives
<1>3. /\ Ledger!Flow(a, UserPays(c), MakerReceives(c), c.amount_in, c.amount_in) \in Int
      /\ Ledger!Flow(a, MakerGives(c), UserReceives(c),
                     Ledger!Quoted(c).out, Ledger!Quoted(c).out) \in Int
  BY <1>1, FlowType, Zenon
<1> QED BY <1>2, <1>3

\* So is a move, in the epoch of the clock.
LEMMA MoveWorth ==
    ASSUME NEW c \in MoveCalls, NEW a
    PROVE  /\ Ledger!Delta(c, a, now) \in Int
           /\ Ledger!Delta(c, a, now) =
                Ledger!Flow(a, c.from, c.to, c.amount, Received(MintOf[c.from], c.amount))
<1>1. c.op = "move" /\ c.amount \in U64 /\ MintOf[c.from] \in Mints
  BY LedgerAssumption DEF MoveCalls
<1>2. Received(MintOf[c.from], c.amount) =
        c.amount - FeeOn(MintOf[c.from], c.amount, Ledger!Epoch(now))
  BY DEF Received, Clock, Ledger!Epoch
<1>3. c.amount \in Int /\ Received(MintOf[c.from], c.amount) \in Int
  BY <1>1, ReceivedType, U64MaxAssumption DEF U64
<1>4. Ledger!Delta(c, a, now) =
        Ledger!Flow(a, c.from, c.to, c.amount, Received(MintOf[c.from], c.amount))
  BY <1>1, <1>2 DEF Ledger!Delta
<1> QED BY <1>3, <1>4, FlowType, Zenon

\* A call that has run is worth an integer to every account.
LEMMA DoneWorth ==
    ASSUME HandlerInv, LandingInv, step # "idle", NEW p \in Done, NEW a
    PROVE  Ledger!Delta(Ledger!CallAt(tx, p), a, now) \in Int
<1> DEFINE c == Ledger!CallAt(tx, p)
<1>1. c \in FillCalls \cup MoveCalls
  BY DoneFacts, PlacedCall
<1>2. CASE c \in FillCalls
  <2>1. p \in Done \cap Ledger!FillsOf(tx)
    BY <1>2, DoneFacts DEF Ledger!FillsOf, FillCalls
  <2>2. PICK at \in [DOMAIN fills -> Done \cap Ledger!FillsOf(tx)] :
           /\ \A n \in DOMAIN fills : fills[n] = Ledger!Event(tx, at[n], now)
           /\ \A q \in Done \cap Ledger!FillsOf(tx) : \E n \in DOMAIN fills : at[n] = q
    BY DEF LandingInv, Reports
  <2>3. PICK n \in DOMAIN fills : fills[n] = Ledger!Event(tx, p, now)
    BY <2>1, <2>2
  <2>4. fills[n].amount_out = Ledger!Quoted(c).out
    BY <2>3 DEF Ledger!Event
  <2>5. fills[n] \in FillEvents
    BY DEF HandlerInv, TypeOK
  <2>6. Ledger!Quoted(c).out \in Int
    BY <2>4, <2>5, U64MaxAssumption DEF FillEvents, U64
  <2> HIDE DEF c
  <2> QED BY <1>2, <2>6, FillWorth DEF c
<1>3. CASE c \in MoveCalls
  BY <1>3, MoveWorth
<1> QED BY <1>1, <1>2, <1>3

\* So are all of them together.
LEMMA DoneWorthType ==
    ASSUME HandlerInv, LandingInv, step # "idle", NEW a
    PROVE  Worth(tx, Done, a, now) \in Int
<1> DEFINE f == [p \in Done |-> Ledger!Delta(Ledger!CallAt(tx, p), a, now)]
<1>1. DOMAIN f = Done /\ \A p \in Done : f[p] \in Int
  BY DoneWorth
<1>2. IsFiniteSet(Done)
  BY DoneFacts
<1>3. Worth(tx, Done, a, now) = SumFunction(f)
  BY DEF Worth
<1> HIDE DEF f
<1>4. SumFunctionOnSet(f, Done) \in Int
  BY <1>1, <1>2, SumType
<1>5. SumFunction(f) = SumFunctionOnSet(f, Done)
  BY <1>1, Zenon DEF SumFunction
<1> QED BY <1>3, <1>4, <1>5

\* A transfer is one flow between two accounts.
LEMMA TransferIsFlow ==
    ASSUME TypeOK,
           NEW from \in TokenAccounts, NEW to \in TokenAccounts, NEW m \in Mints,
           NEW authority \in Wallets, NEW amount \in U64,
           Transfer(from, to, m, authority, amount), NEW a \in TokenAccounts
    PROVE  /\ bal[a] \in Int /\ Received(m, amount) \in Int /\ amount \in Int
           /\ bal'[a] = bal[a] + Ledger!Flow(a, from, to, amount, Received(m, amount))
           /\ OwnerOf[from] = authority /\ MintOf[from] = m /\ MintOf[to] = m
<1> DEFINE r == Received(m, amount)
<1>1. r \in Int /\ amount \in Int
  BY ReceivedType, U64MaxAssumption DEF U64
<1>2. bal \in [TokenAccounts -> Int]
  <2>1. U64 \subseteq Int
    BY U64MaxAssumption DEF U64
  <2> QED BY <2>1 DEF TypeOK
<1>3. OwnerOf[from] = authority /\ MintOf[from] = m /\ MintOf[to] = m
  BY DEF Transfer, CanTransfer
<1>4. bal' = IF from = to THEN bal ELSE [bal EXCEPT ![from] = @ - amount, ![to] = @ + r]
  BY DEF Transfer
<1> HIDE DEF r
<1>5. bal'[a] = bal[a] + Ledger!Flow(a, from, to, amount, r)
  BY <1>1, <1>2, <1>4 DEF Ledger!Flow
<1> QED BY <1>1, <1>2, <1>3, <1>5 DEF r

-----------------------------------------------------------------------------
(* The running transaction so far *)

\* Both modules sum in the same way.
LEMMA LedgerSums == \A f : Ledger!SumFunction(f) = SumFunction(f)
<1>1. ASSUME NEW f, NEW s PROVE Ledger!SumFunctionOnSet(f, s) = (CHOOSE g : Adds(f, s, g))[s]
  BY DEF Ledger!SumFunctionOnSet, Ledger!FoldFunctionOnSet, Ledger!MapThenFoldSet, Adds, Picked
<1>2. ASSUME NEW f PROVE Ledger!SumFunction(f) = SumFunction(f)
  <2>1. Ledger!SumFunctionOnSet(f, DOMAIN f) = SumFunctionOnSet(f, DOMAIN f)
    BY <1>1, SumIsChosen, Zenon
  <2> QED BY <2>1, Zenon DEF Ledger!SumFunction, SumFunction
<1> QED BY <1>2

\* The call at hand finds the ledger that Settlement says, but for the taker's
\* leg of a fill that is half done.
LEMMA LedgerReached ==
    ASSUME HandlerInv, LandingInv, step # "idle"
    PROVE  /\ step # "deliver" => Ledger!Reached(saved, tx, <<ix, cl>>, now) = bal
           /\ step = "deliver" =>
                [a \in TokenAccounts |->
                    Ledger!Reached(saved, tx, <<ix, cl>>, now)[a]
                      + Ledger!Flow(a, UserPays(call), MakerReceives(call),
                                    call.amount_in, call.amount_in)] = bal
<1> DEFINE before == Ledger!Reached(saved, tx, <<ix, cl>>, now)
           flow(a) == Ledger!Flow(a, UserPays(call), MakerReceives(call),
                                  call.amount_in, call.amount_in)
<1>1. before = [a \in TokenAccounts |-> saved[a] + Worth(tx, Done, a, now)]
  <2>1. before = [a \in TokenAccounts |->
                    saved[a] + Ledger!SumFunction([p \in Done |->
                                   Ledger!Delta(Ledger!CallAt(tx, p), a, now)])]
    BY Zenon DEF Ledger!Reached, Ledger!With, Done
  <2>2. \A a : Ledger!SumFunction([p \in Done |-> Ledger!Delta(Ledger!CallAt(tx, p), a, now)])
                 = Worth(tx, Done, a, now)
    BY LedgerSums, Zenon DEF Worth
  <2> QED BY <2>1, <2>2
<1>2. bal = [a \in TokenAccounts |-> bal[a]]
  BY DEF HandlerInv, TypeOK
<1> HIDE DEF before
<1>3. ASSUME NEW a \in TokenAccounts
      PROVE  /\ saved[a] + Worth(tx, Done, a, now) \in Int /\ bal[a] \in Int
             /\ bal[a] = saved[a] + Worth(tx, Done, a, now) + HalfDone(a)
  <2>1. Worth(tx, Done, a, now) \in Int
    BY DoneWorthType
  <2>2. saved[a] \in Int /\ bal[a] \in Int
    BY U64MaxAssumption DEF HandlerInv, TypeOK, U64
  <2> QED BY <2>1, <2>2 DEF LandingInv
<1>4. CASE step # "deliver"
  <2>1. \A a \in TokenAccounts : before[a] = bal[a]
    BY <1>1, <1>3, <1>4 DEF HalfDone
  <2>2. before = [a \in TokenAccounts |-> bal[a]]
    BY <1>1, <2>1
  <2> QED BY <1>2, <1>4, <2>2 DEF before
<1>5. CASE step = "deliver"
  <2>1. ASSUME NEW a \in TokenAccounts PROVE before[a] + flow(a) = bal[a]
    <3>1. HalfDone(a) = flow(a)
      BY <1>5 DEF HalfDone
    <3> HIDE DEF flow
    <3> QED BY <1>1, <1>3, <3>1
  <2> HIDE DEF flow
  <2>2. [a \in TokenAccounts |-> before[a] + flow(a)] = bal
    BY <1>2, <2>1
  <2> QED BY <1>5, <2>2 DEF before, flow
<1> QED BY <1>4, <1>5

\* The legs of a fill, one after the other.
LEMMA FillAffordable ==
    ASSUME NEW c \in FillCalls, NEW b, NEW time
    PROVE  Ledger!Affordable(b, c, time) <=>
             /\ Ledger!Covers(b, UserPays(c), MakerReceives(c), c.amount_in, c.amount_in)
             /\ Ledger!Covers([a \in TokenAccounts |->
                                  b[a] + Ledger!Flow(a, UserPays(c), MakerReceives(c),
                                                     c.amount_in, c.amount_in)],
                              MakerGives(c), UserReceives(c),
                              Ledger!Quoted(c).out, Ledger!Quoted(c).out)
<1>1. c.op = "fill"
  BY DEF FillCalls
<1>2. /\ Ledger!UserPays(c) = UserPays(c) /\ Ledger!MakerReceives(c) = MakerReceives(c)
      /\ Ledger!MakerGives(c) = MakerGives(c) /\ Ledger!UserReceives(c) = UserReceives(c)
  BY DEF Ledger!UserPays, Ledger!MakerReceives, Ledger!MakerGives, Ledger!UserReceives,
         UserPays, MakerReceives, MakerGives, UserReceives
<1> QED BY <1>1, <1>2, Zenon DEF Ledger!Affordable

\* What transfer_checked asks of the ledger.
LEMMA TransferCovered ==
    ASSUME NEW from, NEW to, NEW m, NEW authority, NEW amount
    PROVE  CanTransfer(from, to, m, authority, amount) <=>
             /\ MintOf[from] = m /\ MintOf[to] = m /\ OwnerOf[from] = authority
             /\ Ledger!Covers(bal, from, to, amount, Received(m, amount))
BY Zenon DEF CanTransfer, Ledger!Covers

\* A move Settlement lets run is one the token program makes.
LEMMA MoveRuns ==
    ASSUME HandlerInv, LandingInv, step = "next", HasCall, call.op = "move"
    PROVE  Ledger!MayRun(tx, <<ix, cl>>, saved, now) <=>
             CanTransfer(call.from, call.to, MintOf[call.from], call.authority, call.amount)
<1>1. /\ Ledger!CallAt(tx, <<ix, cl>>) = call /\ tx \in Runnable
      /\ ix \in DOMAIN tx.ixs /\ cl \in DOMAIN tx.ixs[ix].calls
  BY CallPlaced, CallFacts DEF HandlerInv
<1>2. Ledger!SignersOf(call) \subseteq tx.signers
  <2>1. WellFormed(tx)
    BY <1>1, RunnableFacts
  <2>2. SignersOf(call) \subseteq tx.signers
    BY <1>1, <2>1 DEF WellFormed, call
  <2> QED BY <2>2 DEF SignersOf, Ledger!SignersOf
<1>3. Ledger!Reached(saved, tx, <<ix, cl>>, now) = bal
  BY LedgerReached
<1>4. Received(MintOf[call.from], call.amount) =
        call.amount - FeeOn(MintOf[call.from], call.amount, Ledger!Epoch(now))
  BY DEF Received, Clock, Ledger!Epoch
<1>5. Ledger!Affordable(bal, call, now) <=>
        Ledger!Covers(bal, call.from, call.to, call.amount,
                      Received(MintOf[call.from], call.amount))
  BY <1>4 DEF Ledger!Affordable
<1>6. Ledger!MayRun(tx, <<ix, cl>>, saved, now) <=>
        Ledger!MoveAllowed(call) /\ Ledger!Affordable(bal, call, now)
  <2>1. call.op # "fill"
    OBVIOUS
  <2> QED BY <1>1, <1>2, <1>3, <2>1, Zenon DEF Ledger!MayRun
<1>7. CanTransfer(call.from, call.to, MintOf[call.from], call.authority, call.amount) <=>
        Ledger!MoveAllowed(call) /\ Ledger!Affordable(bal, call, now)
  BY <1>5, TransferCovered, Zenon DEF Ledger!MoveAllowed
<1> QED BY <1>6, <1>7

\* Steps inside a transaction that run no call and move no tokens.
LEMMA QuietLanding ==
    ASSUME LandingInv, UNCHANGED <<bal, saved, tx, now, fills>>, Done' = Done,
           step \notin {"idle", "deliver"}, step' \notin {"idle", "deliver"}
    PROVE  LandingInv'
<1>1. \A a : HalfDone(a)' = 0 /\ HalfDone(a) = 0
  BY DEF HalfDone
<1>2. /\ \A p \in Done : Ledger!MayRun(tx, p, saved, now)
      /\ \A a \in TokenAccounts : bal[a] = saved[a] + Worth(tx, Done, a, now) + HalfDone(a)
      /\ Reports(fills, tx, Done \cap Ledger!FillsOf(tx), now)
  BY DEF LandingInv
<1>3. \A p \in Done' : Ledger!MayRun(tx', p, saved', now')
  BY <1>2
<1>4. \A a \in TokenAccounts : bal'[a] = saved'[a] + Worth(tx', Done', a, now') + HalfDone(a)'
  BY <1>1, <1>2
<1>5. Reports(fills', tx', Done' \cap Ledger!FillsOf(tx'), now')
  BY <1>2
<1> QED BY <1>3, <1>4, <1>5 DEF LandingInv

\* A step that moves no place has the same calls behind it.
LEMMA SameDone == ASSUME UNCHANGED <<tx, ix, cl>> PROVE Done' = Done
BY DEF Done

\* One fill more, run after all others, is one event more.
LEMMA EventsGrow ==
    ASSUME NEW E, NEW es \in Seq(E), NEW t, NEW ps, NEW h, h \notin ps, NEW time,
           \A p \in ps : Ledger!Before(p, h),
           Reports(es, t, ps, time)
    PROVE  Reports(Append(es, Ledger!Event(t, h, time)), t, ps \cup {h}, time)
<1> DEFINE N == Len(es)
           e == Ledger!Event(t, h, time)
           fs == Append(es, e)
<1>1. PICK at \in [DOMAIN es -> ps] :
         /\ \A n \in DOMAIN es : es[n] = Ledger!Event(t, at[n], time)
         /\ \A m, n \in DOMAIN es : m < n => Ledger!Before(at[m], at[n])
         /\ \A p \in ps : \E n \in DOMAIN es : at[n] = p
  BY DEF Reports
<1> DEFINE more == [n \in 1 .. N + 1 |-> IF n <= N THEN at[n] ELSE h]
<1> HIDE DEF e
<1>2. /\ N \in Nat /\ DOMAIN es = 1 .. N /\ DOMAIN fs = 1 .. N + 1
      /\ \A n \in 1 .. N : fs[n] = es[n]
      /\ fs[N + 1] = e
  OBVIOUS
<1>3. /\ more \in [1 .. N + 1 -> ps \cup {h}]
      /\ \A n \in 1 .. N : more[n] = at[n] /\ at[n] \in ps
      /\ more[N + 1] = h
  BY <1>2
<1>4. \A n \in 1 .. N + 1 : n = N + 1 \/ n \in 1 .. N
  BY <1>2
<1> HIDE DEF N, fs, more
<1>5. \A n \in 1 .. N + 1 : fs[n] = Ledger!Event(t, more[n], time)
  BY <1>1, <1>2, <1>3, <1>4, Zenon DEF e
<1>6. ASSUME NEW m \in 1 .. N + 1, NEW n \in 1 .. N + 1, m < n
      PROVE  Ledger!Before(more[m], more[n])
  <2>1. m \in 1 .. N
    BY <1>2, <1>6
  <2>2. CASE n \in 1 .. N
    BY <1>1, <1>2, <1>3, <1>6, <2>1, <2>2, Zenon
  <2>3. CASE n = N + 1
    BY <1>3, <2>1, <2>3, Zenon
  <2> QED BY <1>4, <2>2, <2>3
<1>7. ASSUME NEW p \in ps \cup {h} PROVE \E n \in 1 .. N + 1 : more[n] = p
  <2>1. CASE p = h
    <3>1. N + 1 \in 1 .. N + 1
      BY <1>2
    <3> QED BY <1>3, <2>1, <3>1
  <2>2. CASE p \in ps
    <3>1. PICK n \in 1 .. N : at[n] = p
      BY <1>1, <1>2, <2>2
    <3>2. n \in 1 .. N + 1 /\ more[n] = p
      BY <1>2, <1>3, <3>1
    <3> QED BY <3>2
  <2> QED BY <2>1, <2>2
<1>8. /\ more \in [DOMAIN fs -> ps \cup {h}]
      /\ \A n \in DOMAIN fs : fs[n] = Ledger!Event(t, more[n], time)
      /\ \A m, n \in DOMAIN fs : m < n => Ledger!Before(more[m], more[n])
      /\ \A p \in ps \cup {h} : \E n \in DOMAIN fs : more[n] = p
  BY <1>2, <1>3, <1>5, <1>6, <1>7, Zenon
<1>9. Reports(fs, t, ps \cup {h}, time)
  BY <1>8, Zenon DEF Reports
<1> QED BY <1>9 DEF fs, e

\* A call that Settlement lets run has run, with the effect Settlement gives it.
LEMMA LandCall ==
    ASSUME HandlerInv, LandingInv, step # "idle", HasCall,
           UNCHANGED <<tx, ix, now, saved>>, cl' = cl + 1, step' = "next",
           Ledger!MayRun(tx, <<ix, cl>>, saved, now),
           fills' = IF call.op = "fill" THEN Append(fills, Ledger!Event(tx, <<ix, cl>>, now))
                    ELSE fills,
           \A a \in TokenAccounts :
               /\ Ledger!Delta(call, a, now) \in Int /\ HalfDone(a) \in Int
               /\ bal'[a] = bal[a] - HalfDone(a) + Ledger!Delta(call, a, now)
    PROVE  LandingInv'
<1> DEFINE h == <<ix, cl>>
<1>1. /\ h \in Ledger!Places(tx) /\ h \notin Done /\ Done' = Done \cup {h}
      /\ Ledger!CallAt(tx, h) = call
      /\ \A p \in Done : Ledger!Before(p, h)
  BY DoneNext
<1>2. tx \in Runnable /\ IsFiniteSet(Done) /\ Done \subseteq Ledger!Places(tx)
  BY DoneFacts
<1> HIDE DEF h
<1>3. ASSUME NEW p \in Done' PROVE Ledger!MayRun(tx', p, saved', now')
  <2>1. Ledger!MayRun(tx, p, saved, now)
    BY <1>1 DEF LandingInv, h
  <2> QED BY <2>1
<1>4. ASSUME NEW a \in TokenAccounts
      PROVE  bal'[a] = saved'[a] + Worth(tx', Done', a, now') + HalfDone(a)'
  <2> DEFINE f == [p \in Done |-> Ledger!Delta(Ledger!CallAt(tx, p), a, now)]
             more == Done \cup {h}
             g == [p \in more |-> Ledger!Delta(Ledger!CallAt(tx, p), a, now)]
  <2>1. /\ DOMAIN f = Done /\ DOMAIN g = Done \cup {h} /\ g[h] = Ledger!Delta(call, a, now)
        /\ \A p \in Done : g[p] = f[p]
    BY <1>1
  <2>2. \A p \in Done : f[p] \in Int
    BY DoneWorth
  <2>3. SumFunction(f) = Worth(tx, Done, a, now) /\ SumFunction(g) = Worth(tx, more, a, now)
    BY DEF Worth
  <2>4. bal[a] = saved[a] + SumFunction(f) + HalfDone(a)
    BY <2>3 DEF LandingInv
  <2> HIDE DEF f, g, more
  <2>5. SumFunction(g) = SumFunction(f) + Ledger!Delta(call, a, now) /\ SumFunction(f) \in Int
    <3>1. \A y \in Done : f[y] \in Int /\ g[y] = f[y]
      BY <2>1, <2>2
    <3>2. g[h] \in Int
      BY <2>1
    <3>3. SumFunction(g) = SumFunction(f) + g[h] /\ SumFunction(f) \in Int
      <4>1. IsFiniteSet(Done) /\ h \notin Done /\ DOMAIN f = Done /\ DOMAIN g = Done \cup {h}
        BY <1>1, <1>2, <2>1
      <4> QED BY <3>1, <3>2, <4>1, SumInsert, Zenon
    <3> QED BY <2>1, <3>3
  <2>6. HalfDone(a)' = 0
    BY DEF HalfDone
  <2>7. saved[a] \in Int
    BY U64MaxAssumption DEF HandlerInv, TypeOK, U64
  <2>8. bal'[a] = saved[a] + SumFunction(g) + 0
    BY <2>4, <2>5, <2>7
  <2>9. Worth(tx', Done', a, now') = SumFunction(g)
    BY <1>1, <2>3 DEF more
  <2> QED BY <2>6, <2>8, <2>9
<1>5. Reports(fills', tx', Done' \cap Ledger!FillsOf(tx'), now')
  <2> DEFINE old == Done \cap Ledger!FillsOf(tx)
             ps == (Done \cup {h}) \cap Ledger!FillsOf(tx)
  <2>1. Reports(fills, tx, old, now)
    BY DEF LandingInv
  <2>2. CASE call.op = "fill"
    <3>1. ps = old \cup {h} /\ h \notin old /\ \A p \in old : Ledger!Before(p, h)
      BY <1>1, <2>2 DEF Ledger!FillsOf
    <3>2. fills' = Append(fills, Ledger!Event(tx, h, now)) /\ fills \in Seq(FillEvents)
      BY <2>2 DEF HandlerInv, TypeOK, h
    <3> HIDE DEF ps, old
    <3>3. Reports(Append(fills, Ledger!Event(tx, h, now)), tx, old \cup {h}, now)
      BY <2>1, <3>1, <3>2, EventsGrow
    <3>4. Reports(fills', tx, ps, now)
      BY <3>1, <3>2, <3>3
    <3> QED BY <1>1, <3>4 DEF ps
  <2>3. CASE call.op # "fill"
    <3>1. ps = old /\ fills' = fills
      BY <1>1, <2>3 DEF Ledger!FillsOf
    <3> HIDE DEF ps, old
    <3>2. Reports(fills', tx, ps, now)
      BY <2>1, <3>1
    <3> QED BY <1>1, <3>2 DEF ps
  <2> QED BY <2>2, <2>3
<1> QED BY <1>3, <1>4, <1>5 DEF LandingInv

\* Another program's move.
LEMMA LandMove == ASSUME HandlerInv, LandingInv, Move PROVE LandingInv'
<1>1. /\ TypeOK /\ step = "next" /\ HasCall /\ call \in MoveCalls /\ call.op = "move"
      /\ Transfer(call.from, call.to, MintOf[call.from], call.authority, call.amount)
      /\ UNCHANGED <<tx, ix, now, saved, fills>> /\ cl' = cl + 1 /\ step' = step
  BY CallFacts DEF Move, HandlerInv
<1>2. /\ call.from \in TokenAccounts /\ call.to \in TokenAccounts /\ MintOf[call.from] \in Mints
      /\ call.authority \in Wallets /\ call.amount \in U64
  BY <1>1, LedgerAssumption DEF MoveCalls
<1>3. Ledger!MayRun(tx, <<ix, cl>>, saved, now)
  BY <1>1, MoveRuns DEF Transfer, Move
<1>4. ASSUME NEW a \in TokenAccounts
      PROVE  /\ Ledger!Delta(call, a, now) \in Int /\ HalfDone(a) \in Int
             /\ bal'[a] = bal[a] - HalfDone(a) + Ledger!Delta(call, a, now)
  <2>1. HalfDone(a) = 0
    BY <1>1 DEF HalfDone
  <2>2. /\ bal[a] \in Int
        /\ bal'[a] = bal[a]
             + Ledger!Flow(a, call.from, call.to, call.amount,
                           Received(MintOf[call.from], call.amount))
    BY <1>1, <1>2, TransferIsFlow
  <2>3. /\ Ledger!Delta(call, a, now) \in Int
        /\ Ledger!Delta(call, a, now) =
             Ledger!Flow(a, call.from, call.to, call.amount,
                         Received(MintOf[call.from], call.amount))
    BY <1>1, MoveWorth
  <2>4. bal'[a] = bal[a] + Ledger!Delta(call, a, now)
    BY <2>2, <2>3
  <2> QED BY <2>1, <2>2, <2>3, <2>4
<1>5. fills' = IF call.op = "fill" THEN Append(fills, Ledger!Event(tx, <<ix, cl>>, now))
               ELSE fills
  BY <1>1
<1> QED BY <1>1, <1>3, <1>4, <1>5, LandCall

\* A mint that passed the check withholds nothing of any amount.
LEMMA CompatibleFee ==
    ASSUME NEW m \in Mints, MintCompatible(m, Clock.epoch)
    PROVE  Ledger!FeeFree(m, 1, now)
<1>1. FeeOn(m, 1, Clock.epoch) = 0
  <2>1. CASE TransferFee[m] = NoFeeConfig
    BY <2>1 DEF FeeOn
  <2>2. CASE TransferFee[m] # NoFeeConfig
    <3>1. FeeOn(m, 1, Clock.epoch) = (1 * 0 + 9999) \div 10000
      BY <2>2 DEF FeeOn, MintCompatible
    <3>2. 1 * 0 + 9999 = 9999 /\ 9999 \div 10000 = 0
      OBVIOUS
    <3> QED BY <3>1, <3>2
  <2> QED BY <2>1, <2>2
<1> QED BY <1>1 DEF Ledger!FeeFree, Ledger!Epoch, Clock

\* A fill that has got to its last leg is one that Settlement lets land.
LEMMA DeliveryHonoured ==
    ASSUME HandlerInv, AnsweredInv, LandingInv, Deliver
    PROVE  /\ HasCall /\ call.op = "fill" /\ call \in FillCalls
           /\ Ledger!MayRun(tx, <<ix, cl>>, saved, now)
           /\ Ledger!Quoted(call).out = out /\ out \in U64
           /\ \A a \in U64 : /\ Received(GetMint(call), a) = a
                             /\ Received(PayMint(call), a) = a
<1>1. /\ step = "deliver" /\ HasCall /\ call.op = "fill"
      /\ ArgumentsValid(call) /\ MintsValid(call) /\ Exclusive(call)
  BY DEF Deliver, AtFill, HandlerInv, PlaceInv, CheckedInv
<1>2. call \in FillCalls
  BY <1>1, CallFacts DEF HandlerInv
<1>3. /\ phase = "done" /\ result = "Ok" /\ side = call.side /\ amount_in = call.amount_in
      /\ min_out = call.min_out /\ levels = call.levels
  BY <1>1 DEF HandlerInv, CheckedInv
<1>4. Ledger!Quoted(call) = answer
  BY <1>3 DEF Ledger!Quoted, AnsweredInv
<1>5. Ledger!Quoted(call).result = "Ok" /\ Ledger!Quoted(call).out = out
  BY <1>3, <1>4 DEF answer
<1>6. out \in U64
  BY DEF HandlerInv, SweepInv, SweepTypeOK
<1>7. call.base_mint \in Mints /\ call.quote_mint \in Mints
  BY <1>2 DEF FillCalls
<1>8. MintCompatible(call.base_mint, Clock.epoch) /\ MintCompatible(call.quote_mint, Clock.epoch)
  BY <1>1 DEF MintsValid
<1>9. Ledger!FeeFree(call.base_mint, 1, now) /\ Ledger!FeeFree(call.quote_mint, 1, now)
  BY <1>7, <1>8, CompatibleFee
<1>10. TakerPaid
  BY <1>1 DEF LandingInv
<1>11. Ledger!FillHonoured(call, now)
  <2>1. Ledger!UserPays(call) = UserPays(call)
    BY DEF Ledger!UserPays, UserPays
  <2>2. AccountsValid(call) /\ call.amount_in > 0 /\ call.levels # <<>> /\ now <= call.expire_at
    BY <1>1 DEF ArgumentsValid, Clock
  <2> QED BY <1>5, <1>9, <1>10, <2>1, <2>2 DEF Ledger!FillHonoured, AccountsValid, TakerPaid
<1>12. Ledger!CallAt(tx, <<ix, cl>>) = call
  BY DEF Ledger!CallAt, call
<1>13. Ledger!Alone(tx, <<ix, cl>>)
  BY <1>1, <1>12 DEF Exclusive, Ledger!Alone, Ledger!Protected, Protected
<1>14. \A a \in U64 : Received(GetMint(call), a) = a /\ Received(PayMint(call), a) = a
  BY <1>7, <1>8, CompatibleIsFree DEF GetMint, PayMint
<1>15. Ledger!Affordable(Ledger!Reached(saved, tx, <<ix, cl>>, now), call, now)
  <2>1. Ledger!Covers(bal, MakerGives(call), UserReceives(call), out, out)
    <3>1. CanTransfer(MakerGives(call), UserReceives(call), GetMint(call),
                      call.fill_authority, out)
      BY DEF Deliver, Transfer
    <3>2. Received(GetMint(call), out) = out
      BY <1>6, <1>14
    <3> QED BY <3>1, <3>2, TransferCovered
  <2> QED BY <1>1, <1>2, <1>5, <1>10, <2>1, FillAffordable, LedgerReached DEF TakerPaid
<1>16. Ledger!SignersOf(call) \subseteq tx.signers
  BY <1>1 DEF ArgumentsValid, Signed, SignersOf, Ledger!SignersOf
<1>17. Ledger!MayRun(tx, <<ix, cl>>, saved, now)
  BY <1>1, <1>11, <1>12, <1>13, <1>15, <1>16 DEF Ledger!MayRun
<1> QED BY <1>1, <1>2, <1>5, <1>6, <1>14, <1>17

\* The maker's leg completes the fill.
LEMMA LandDeliver == ASSUME HandlerInv, AnsweredInv, LandingInv, Deliver PROVE LandingInv'
<1>1. /\ TypeOK /\ step = "deliver"
      /\ Transfer(MakerGives(call), UserReceives(call), GetMint(call), call.fill_authority, out)
      /\ fills' = Append(fills, [ix |-> ix, call |-> call, amount_out |-> out,
                                 epoch |-> Clock.epoch])
      /\ UNCHANGED <<tx, ix, now, saved>> /\ cl' = cl + 1 /\ step' = "next"
  BY DEF Deliver, HandlerInv, AtFill
<1>2. /\ HasCall /\ call.op = "fill" /\ call \in FillCalls
      /\ Ledger!MayRun(tx, <<ix, cl>>, saved, now)
      /\ Ledger!Quoted(call).out = out /\ out \in U64
      /\ Received(GetMint(call), out) = out
  BY <1>1, DeliveryHonoured
<1>3. ASSUME NEW a \in TokenAccounts
      PROVE  /\ Ledger!Delta(call, a, now) \in Int /\ HalfDone(a) \in Int
             /\ bal'[a] = bal[a] - HalfDone(a) + Ledger!Delta(call, a, now)
  <2> DEFINE taker == Ledger!Flow(a, UserPays(call), MakerReceives(call),
                                  call.amount_in, call.amount_in)
             maker == Ledger!Flow(a, MakerGives(call), UserReceives(call), out, out)
  <2>1. out \in Int
    BY <1>2, U64MaxAssumption DEF U64
  <2>2. /\ Ledger!Delta(call, a, now) = taker + maker
        /\ taker \in Int /\ maker \in Int
    BY <1>2, <2>1, FillWorth
  <2>3. HalfDone(a) = taker
    BY <1>1 DEF HalfDone
  <2>4. bal[a] \in Int /\ bal'[a] = bal[a] + maker
    <3>1. /\ MakerGives(call) \in TokenAccounts /\ UserReceives(call) \in TokenAccounts
          /\ GetMint(call) \in Mints /\ call.fill_authority \in Wallets
      BY <1>2, FillFacts
    <3> QED BY <1>1, <1>2, <3>1, TransferIsFlow
  <2> HIDE DEF taker, maker
  <2> QED BY <2>2, <2>3, <2>4
<1>4. fills' = IF call.op = "fill" THEN Append(fills, Ledger!Event(tx, <<ix, cl>>, now))
               ELSE fills
  <2>1. Ledger!CallAt(tx, <<ix, cl>>) = call
    BY DEF Ledger!CallAt, call
  <2>2. Ledger!Event(tx, <<ix, cl>>, now)
          = [ix |-> ix, call |-> call, amount_out |-> out, epoch |-> Clock.epoch]
    BY <1>2, <2>1 DEF Ledger!Event, Ledger!Epoch, Clock
  <2> QED BY <1>1, <1>2, <2>2
<1> QED BY <1>1, <1>2, <1>3, <1>4, LandCall

\* The taker's leg leaves it half done.
LEMMA LandPay == ASSUME HandlerInv, LandingInv, PayMaker PROVE LandingInv'
<1>1. /\ TypeOK /\ step = "sweep" /\ HasCall /\ call.op = "fill" /\ step' = "deliver"
      /\ Transfer(UserPays(call), MakerReceives(call), PayMint(call), call.user, call.amount_in)
      /\ UNCHANGED <<tx, ix, cl, now, saved, fills>>
  BY DEF PayMaker, HandlerInv, AtFill
<1>2. call \in FillCalls /\ MintsValid(call)
  BY <1>1, CallFacts DEF HandlerInv, CheckedInv
<1>3. Done' = Done /\ call' = call
  BY <1>1 DEF Done, call
<1>4. /\ UserPays(call) \in TokenAccounts /\ MakerReceives(call) \in TokenAccounts
      /\ PayMint(call) \in Mints /\ call.user \in Wallets /\ call.amount_in \in U64
  BY <1>2, FillFacts
<1>5. Received(PayMint(call), call.amount_in) = call.amount_in
  <2>1. MintCompatible(PayMint(call), Clock.epoch)
    BY <1>2 DEF MintsValid, PayMint
  <2> QED BY <1>4, <2>1, CompatibleIsFree
<1>6. OwnerOf[UserPays(call)] = call.user
  BY <1>1 DEF Transfer, CanTransfer
<1>7. /\ \A p \in Done : Ledger!MayRun(tx, p, saved, now)
      /\ \A a \in TokenAccounts : bal[a] = saved[a] + Worth(tx, Done, a, now) + HalfDone(a)
      /\ Reports(fills, tx, Done \cap Ledger!FillsOf(tx), now)
  BY <1>1 DEF LandingInv
<1>8. ASSUME NEW a \in TokenAccounts
      PROVE  bal'[a] = saved'[a] + Worth(tx', Done', a, now') + HalfDone(a)'
  <2> DEFINE taker == Ledger!Flow(a, UserPays(call), MakerReceives(call),
                                  call.amount_in, call.amount_in)
  <2>1. HalfDone(a) = 0
    BY <1>1 DEF HalfDone
  <2>2. HalfDone(a)' = taker
    BY <1>1, <1>3 DEF HalfDone, UserPays, MakerReceives, Ledger!Flow
  <2>3. bal'[a] = bal[a] + taker
    BY <1>1, <1>4, <1>5, TransferIsFlow
  <2>4. bal[a] = saved[a] + Worth(tx, Done, a, now) + 0
    BY <1>7, <2>1
  <2>5. bal[a] \in Int /\ saved[a] \in Int /\ taker \in Int
    BY <1>4, U64MaxAssumption, FlowType DEF HandlerInv, TypeOK, U64
  <2>6. Worth(tx', Done', a, now') = Worth(tx, Done, a, now) /\ saved'[a] = saved[a]
    BY <1>1, <1>3
  <2> HIDE DEF taker
  <2>7. Worth(tx, Done, a, now) \in Int
    BY DoneWorthType, <1>1
  <2> QED BY <2>2, <2>3, <2>4, <2>5, <2>6, <2>7
<1>9. /\ \A p \in Done' : Ledger!MayRun(tx', p, saved', now')
      /\ Reports(fills', tx', Done' \cap Ledger!FillsOf(tx'), now')
  BY <1>1, <1>3, <1>7
<1>10. TakerPaid
  <2>1. Ledger!Reached(saved, tx, <<ix, cl>>, now) = bal
    BY <1>1, LedgerReached
  <2>2. Ledger!Covers(bal, UserPays(call), MakerReceives(call), call.amount_in, call.amount_in)
    BY <1>1, <1>5, TransferCovered DEF Transfer
  <2> QED BY <1>6, <2>1, <2>2 DEF TakerPaid
<1>11. TakerPaid'
  BY <1>1, <1>3, <1>10 DEF TakerPaid, UserPays, MakerReceives
<1> QED BY <1>8, <1>9, <1>11 DEF LandingInv

\* A transaction that starts has run nothing.
LEMMA LandBegin == ASSUME HandlerInv, Begin PROVE LandingInv'
<1>1. PICK t \in Runnable : Start(t)
  BY LedgerAssumption DEF Begin
<1>2. /\ tx' = t /\ ix' = 1 /\ cl' = 1 /\ step' = "next" /\ saved' = bal /\ bal' = bal
      /\ fills' = <<>> /\ now' = now
  BY <1>1 DEF Start
<1>3. Done' = {}
  <2>1. Done' = {p \in Ledger!Places(t) : Ledger!Before(p, <<1, 1>>)}
    BY <1>2 DEF Done
  <2>2. ASSUME NEW p \in Ledger!Places(t) PROVE ~Ledger!Before(p, <<1, 1>>)
    <3>1. p[1] \in Nat /\ p[2] \in Nat /\ p[1] >= 1 /\ p[2] >= 1
      BY PlacesFacts
    <3> QED BY <3>1 DEF Ledger!Before
  <2> QED BY <2>1, <2>2
<1>4. \A p \in {} : Ledger!MayRun(t, p, saved', now)
  OBVIOUS
<1>5. ASSUME NEW a \in TokenAccounts
      PROVE  bal'[a] = saved'[a] + Worth(t, {}, a, now) + HalfDone(a)'
  <2> DEFINE f == [p \in {} |-> Ledger!Delta(Ledger!CallAt(t, p), a, now)]
  <2>1. Worth(t, {}, a, now) = SumFunction(f) /\ DOMAIN f = {}
    BY DEF Worth
  <2> HIDE DEF f
  <2>2. SumFunction(f) = 0
    BY <2>1, SumNone, Zenon DEF SumFunction
  <2>3. HalfDone(a)' = 0
    BY <1>2 DEF HalfDone
  <2>4. bal[a] \in Int
    BY U64MaxAssumption DEF HandlerInv, TypeOK, U64
  <2> QED BY <1>2, <2>1, <2>2, <2>3, <2>4
<1>6. Reports(<<>>, t, {}, now)
  <2> DEFINE at == [n \in {} |-> 0]
  <2>1. DOMAIN <<>> = {} /\ at \in [{} -> {}]
    OBVIOUS
  <2> HIDE DEF at
  <2> QED BY <2>1 DEF Reports
<1>7. {} \cap Ledger!FillsOf(t) = {}
  OBVIOUS
<1>8. /\ \A p \in Done' : Ledger!MayRun(tx', p, saved', now')
      /\ \A a \in TokenAccounts : bal'[a] = saved'[a] + Worth(tx', Done', a, now') + HalfDone(a)'
      /\ Reports(fills', tx', Done' \cap Ledger!FillsOf(tx'), now')
  BY <1>2, <1>3, <1>4, <1>5, <1>6, <1>7
<1> QED BY <1>2, <1>8 DEF LandingInv

\* One instruction is over: the next has run nothing.
LEMMA LandNextIx == ASSUME HandlerInv, LandingInv, NextIx PROVE LandingInv'
<1>1. /\ step = "next" /\ step' = step /\ ix \in Nat \ {0} /\ cl \in Nat
      /\ ix <= Len(tx.ixs) /\ cl > Len(tx.ixs[ix].calls)
      /\ ix' = ix + 1 /\ cl' = 1 /\ UNCHANGED <<bal, saved, tx, now, fills>>
  BY DEF NextIx, HandlerInv, TypeOK
<1>2. tx \in Runnable
  BY <1>1 DEF HandlerInv, PlaceInv
<1>3. Done' = Done
  <2>1. Done' = {p \in Ledger!Places(tx) : Ledger!Before(p, <<ix + 1, 1>>)}
    BY <1>1 DEF Done
  <2>2. ASSUME NEW p \in Ledger!Places(tx)
        PROVE  Ledger!Before(p, <<ix + 1, 1>>) <=> Ledger!Before(p, <<ix, cl>>)
    <3>1. p[1] \in Nat /\ p[2] \in Nat /\ p[2] >= 1 /\ p[2] \in DOMAIN tx.ixs[p[1]].calls
          /\ p[1] \in DOMAIN tx.ixs
      BY <1>2, PlacesFacts
    <3>2. p[1] = ix => p[2] < cl
      <4> DEFINE I == [metas : SUBSET Named, calls : Seq(FillCalls \cup MoveCalls)]
      <4>1. tx.ixs \in Seq(I)
        BY <1>2, RunnableFacts
      <4>2. tx.ixs[p[1]] \in I
        <5> HIDE DEF I
        <5> QED BY <3>1, <4>1
      <4>3. p[2] <= Len(tx.ixs[p[1]].calls) /\ Len(tx.ixs[p[1]].calls) \in Nat
        BY <3>1, <4>2
      <4> QED BY <1>1, <3>1, <4>3
    <3>3. Ledger!Before(p, <<ix + 1, 1>>) <=> p[1] < ix + 1 \/ (p[1] = ix + 1 /\ p[2] < 1)
      BY DEF Ledger!Before
    <3>4. Ledger!Before(p, <<ix, cl>>) <=> p[1] < ix \/ (p[1] = ix /\ p[2] < cl)
      BY DEF Ledger!Before
    <3> QED BY <1>1, <3>1, <3>2, <3>3, <3>4
  <2> QED BY <2>1, <2>2 DEF Done
<1> QED BY <1>1, <1>3, QuietLanding

\* Every step keeps the running transaction on the way Settlement says.
LEMMA LandStep ==
    ASSUME HandlerInv, AnsweredInv, LandingInv, [Next]_vars PROVE LandingInv'
<1>1. ASSUME step' = "idle" PROVE LandingInv'
  BY <1>1 DEF LandingInv
<1>2. CASE Tick
  BY <1>1, <1>2 DEF Tick
<1>3. CASE Begin BY <1>3, LandBegin
<1>4. CASE NextIx BY <1>4, LandNextIx
<1>5. CASE Commit
  BY <1>1, <1>5 DEF Commit
<1>6. CASE Move BY <1>6, LandMove
<1>7. CASE Enter \/ CheckMints \/ CheckExclusivity
  <2>1. /\ UNCHANGED <<bal, saved, tx, ix, cl, now, fills>>
        /\ step \notin {"idle", "deliver"} /\ step' \notin {"idle", "deliver"}
    BY <1>7 DEF Enter, CheckMints, CheckExclusivity, AtFill, Goto
  <2> QED BY <2>1, SameDone, QuietLanding
<1>8. CASE Sweeping
  <2>1. /\ UNCHANGED <<bal, saved, tx, ix, cl, now, fills>> /\ step = "sweep" /\ step' = step
    BY <1>8 DEF Sweeping, ledgerVars
  <2> QED BY <2>1, SameDone, QuietLanding
<1>9. CASE PayMaker BY <1>9, LandPay
<1>10. CASE Deliver BY <1>10, LandDeliver
<1>11. CASE MoveFails \/ EnterFails \/ MintsFail \/ NotExclusive \/ SweepFails
            \/ PayFails \/ DeliverFails
  BY <1>1, <1>11 DEF MoveFails, EnterFails, MintsFail, NotExclusive, SweepFails,
                     PayFails, DeliverFails, Refuse, Abort
<1>12. CASE UNCHANGED vars
  <2>1. UNCHANGED <<bal, saved, tx, ix, cl, now, fills, step>>
    BY <1>12 DEF vars, ledgerVars
  <2>2. Done' = Done /\ call' = call
    BY <2>1 DEF Done, call
  <2>3. \A a : HalfDone(a)' = HalfDone(a)
    BY <2>1, <2>2 DEF HalfDone, UserPays, MakerReceives
  <2>4. step' # "idle" =>
          /\ \A p \in Done' : Ledger!MayRun(tx', p, saved', now')
          /\ \A a \in TokenAccounts : bal'[a] = saved'[a] + Worth(tx', Done', a, now') + HalfDone(a)'
          /\ Reports(fills', tx', Done' \cap Ledger!FillsOf(tx'), now')
          /\ step' = "deliver" => TakerPaid
    BY <2>1, <2>2, <2>3 DEF LandingInv
  <2>5. TakerPaid' <=> TakerPaid
    BY <2>1, <2>2 DEF TakerPaid, UserPays, MakerReceives
  <2> QED BY <2>4, <2>5 DEF LandingInv
<1> QED BY <1>2, <1>3, <1>4, <1>5, <1>6, <1>7, <1>8, <1>9, <1>10, <1>11, <1>12 DEF Next, Run

-----------------------------------------------------------------------------
(* Every step is a step of Settlement, or none *)

\* A transaction that is over has run all its calls.
LEMMA AllDone ==
    ASSUME HandlerInv, step = "next", ix > Len(tx.ixs)
    PROVE  Done = Ledger!Places(tx)
<1>1. tx \in Runnable /\ ix \in Nat
  BY DEF HandlerInv, PlaceInv, TypeOK
<1>2. ASSUME NEW p \in Ledger!Places(tx) PROVE Ledger!Before(p, <<ix, cl>>)
  <2>1. tx.ixs \in Seq([metas : SUBSET Named, calls : Seq(FillCalls \cup MoveCalls)])
    BY <1>1, RunnableFacts
  <2>2. p[1] \in DOMAIN tx.ixs
    BY <1>1, PlacesFacts
  <2>3. p[1] < ix
    BY <1>1, <2>1, <2>2
  <2> QED BY <2>3 DEF Ledger!Before
<1> QED BY <1>2 DEF Done

\* The events of a transaction go behind those of the ones before it.
LEMMA LandedReport ==
    ASSUME HandlerInv, LandingInv, Commit
    PROVE  Ledger!Reported(tx)
<1> DEFINE L == Len(committed)
           N == Len(fills)
           ps == Ledger!FillsOf(tx)
<1>1. /\ step = "next" /\ ix > Len(tx.ixs) /\ committed' = committed \o fills
      /\ committed \in Seq(FillEvents) /\ fills \in Seq(FillEvents)
  BY DEF Commit, HandlerInv, TypeOK
<1>2. Reports(fills, tx, ps, now)
  <2>1. Done = Ledger!Places(tx)
    BY <1>1, AllDone
  <2>2. Done \cap Ledger!FillsOf(tx) = Ledger!FillsOf(tx)
    BY <2>1 DEF Ledger!FillsOf
  <2>3. Reports(fills, tx, Done \cap Ledger!FillsOf(tx), now)
    BY <1>1 DEF LandingInv
  <2> QED BY <2>2, <2>3
<1>3. PICK at \in [DOMAIN fills -> ps] :
         /\ \A n \in DOMAIN fills : fills[n] = Ledger!Event(tx, at[n], now)
         /\ \A m, n \in DOMAIN fills : m < n => Ledger!Before(at[m], at[n])
         /\ \A p \in ps : \E n \in DOMAIN fills : at[n] = p
  BY <1>2 DEF Reports
<1> HIDE DEF ps
<1>4. /\ L \in Nat /\ N \in Nat /\ DOMAIN fills = 1 .. N /\ DOMAIN committed = 1 .. L
      /\ DOMAIN committed' = 1 .. L + N
      /\ \A n \in 1 .. L : committed'[n] = committed[n]
      /\ \A n \in 1 .. N : committed'[L + n] = fills[n]
  BY <1>1
<1> HIDE DEF L, N
<1>5. \A n \in (1 .. L + N) \ (1 .. L) : n - L \in 1 .. N /\ L + (n - L) = n
  BY <1>4
<1>6. \A n \in 1 .. N : L + n \in (1 .. L + N) \ (1 .. L) /\ (L + n) - L = n
  BY <1>4
<1> DEFINE new == (1 .. L + N) \ (1 .. L)
           to == [n \in new |-> at[n - L]]
<1>7. to \in [new -> ps]
  BY <1>3, <1>4, <1>5
<1>8. \A n \in new : to[n] = at[n - L]
  OBVIOUS
<1>9. \A m, n \in new : m < n => m - L < n - L
  BY <1>4
<1>10. DOMAIN to = new
  OBVIOUS
<1> HIDE DEF new, to
<1>11. ASSUME NEW n \in new PROVE committed'[n] = Ledger!Event(tx, to[n], now)
  <2>1. n - L \in 1 .. N /\ committed'[L + (n - L)] = fills[n - L] /\ L + (n - L) = n
    BY <1>4, <1>5 DEF new
  <2> QED BY <1>3, <1>4, <1>8, <2>1
<1>12. ASSUME NEW m \in new, NEW n \in new, m < n PROVE Ledger!Before(to[m], to[n])
  <2>1. m - L \in 1 .. N /\ n - L \in 1 .. N /\ m - L < n - L
    BY <1>5, <1>9, <1>12 DEF new
  <2> QED BY <1>3, <1>4, <1>8, <2>1
<1>13. ASSUME NEW p \in ps PROVE \E n \in new : to[n] = p
  <2>1. PICK n \in 1 .. N : at[n] = p
    BY <1>3, <1>4
  <2>2. L + n \in new /\ to[L + n] = p
    BY <1>6, <1>8, <2>1 DEF new
  <2> QED BY <2>2
<1>14. DOMAIN committed' \ DOMAIN committed = new
  BY <1>4 DEF new
<1>15. \A n \in DOMAIN committed : n \in DOMAIN committed' /\ committed'[n] = committed[n]
  BY <1>4
<1>16. /\ to \in [DOMAIN committed' \ DOMAIN committed -> Ledger!FillsOf(tx)]
       /\ \A n \in DOMAIN to : committed'[n] = Ledger!Event(tx, to[n], now)
       /\ \A m, n \in DOMAIN to : m < n => Ledger!Before(to[m], to[n])
       /\ \A p \in Ledger!FillsOf(tx) : \E n \in DOMAIN to : to[n] = p
  BY <1>7, <1>10, <1>11, <1>12, <1>13, <1>14 DEF ps
<1> QED BY <1>15, <1>16, Zenon DEF Ledger!Reported

\* A commit is the landing of the transaction as a whole.
LEMMA CommitLands == ASSUME HandlerInv, LandingInv, Commit PROVE Ledger!Land(tx)
<1>1. /\ step = "next" /\ ix > Len(tx.ixs) /\ step' = "idle" /\ bal' = bal /\ now' = now
  BY DEF Commit
<1>2. Done = Ledger!Places(tx) /\ Seen = saved /\ Seen' = bal
  BY <1>1, AllDone DEF Seen
<1>3. \A p \in Ledger!Places(tx) : Ledger!MayRun(tx, p, saved, now)
  BY <1>1, <1>2 DEF LandingInv
<1>4. Ledger!With(saved, tx, Ledger!Places(tx), now) = bal
  <2>1. ASSUME NEW a \in TokenAccounts
        PROVE  saved[a] + Ledger!SumFunction([p \in Ledger!Places(tx) |->
                                                Ledger!Delta(Ledger!CallAt(tx, p), a, now)])
                 = bal[a]
    <3>1. HalfDone(a) = 0
      BY <1>1 DEF HalfDone
    <3>2. bal[a] = saved[a] + Worth(tx, Done, a, now) + HalfDone(a)
      BY <1>1 DEF LandingInv
    <3>3. saved[a] \in Int /\ Worth(tx, Done, a, now) \in Int
      BY <1>1, DoneWorthType, U64MaxAssumption DEF HandlerInv, TypeOK, U64
    <3>4. bal[a] = saved[a] + Worth(tx, Done, a, now)
      BY <3>1, <3>2, <3>3
    <3>5. Worth(tx, Ledger!Places(tx), a, now) =
            Ledger!SumFunction([p \in Ledger!Places(tx) |->
                                   Ledger!Delta(Ledger!CallAt(tx, p), a, now)])
      BY LedgerSums DEF Worth
    <3> QED BY <1>2, <3>4, <3>5
  <2>2. bal = [a \in TokenAccounts |-> bal[a]]
    BY DEF HandlerInv, TypeOK
  <2>3. Ledger!With(saved, tx, Ledger!Places(tx), now) = [a \in TokenAccounts |-> bal[a]]
    BY <2>1, Zenon DEF Ledger!With
  <2> QED BY <2>2, <2>3
<1>5. Ledger!InOrder(tx, Seen, now)
  BY <1>2, <1>3 DEF Ledger!InOrder
<1> QED BY <1>1, <1>2, <1>4, <1>5, LandedReport DEF Ledger!Land

\* Nothing withheld from one atom means a rate of zero.
LEMMA FreeIsCompatible ==
    ASSUME NEW m \in Mints, Ledger!FeeFree(m, 1, now), now \in Nat
    PROVE  MintCompatible(m, Clock.epoch)
<1> SUFFICES ASSUME TransferFee[m] # NoFeeConfig PROVE BasisPoints(m, Clock.epoch) = 0
  BY DEF MintCompatible
<1> DEFINE bp == BasisPoints(m, Clock.epoch)
<1>1. bp \in Rates
  BY RateType
<1>2. FeeOn(m, 1, Clock.epoch) = 0
  BY DEF Ledger!FeeFree, Ledger!Epoch, Clock
<1>3. (1 * bp + 9999) \div 10000 = 0
  BY <1>2 DEF FeeOn
<1> HIDE DEF bp
<1>4. bp \in Nat /\ 1 * bp + 9999 \in Nat /\ 1 * bp = bp
  BY <1>1 DEF Rates
<1>5. bp = 0
  <2>1. 1 * bp + 9999 < ((1 * bp + 9999) \div 10000 + 1) * 10000
    BY <1>4, DivBounds
  <2>2. 1 * bp + 9999 < (0 + 1) * 10000
    BY <1>3, <2>1
  <2>3. bp + 9999 < 10000
    BY <1>4, <2>2
  <2> QED BY <1>4, <2>3
<1> QED BY <1>5 DEF bp

\* A fill that Settlement lets run passes what the handler has checked so far.
LEMMA HonouredPasses ==
    ASSUME HandlerInv, AnsweredInv, step # "idle", HasCall, call.op = "fill",
           Ledger!MayRun(tx, <<ix, cl>>, saved, now)
    PROVE  /\ ArgumentsValid(call) /\ MintsValid(call) /\ Exclusive(call)
           /\ step \in {"sweep", "deliver"} /\ phase = "done" =>
                result = "Ok" /\ Ledger!Quoted(call).out = out
<1>1. call \in FillCalls /\ Ledger!CallAt(tx, <<ix, cl>>) = call
  BY CallFacts, CallPlaced DEF HandlerInv
<1>2. /\ Ledger!SignersOf(call) \subseteq tx.signers
      /\ Ledger!FillHonoured(call, now) /\ Ledger!Alone(tx, <<ix, cl>>)
  BY <1>1 DEF Ledger!MayRun
<1>3. call.base_mint \in Mints /\ call.quote_mint \in Mints /\ now \in Nat
  BY <1>1 DEF FillCalls, HandlerInv, TypeOK
<1>4. ArgumentsValid(call)
  <2>1. Signed(call)
    BY <1>2 DEF Signed, SignersOf, Ledger!SignersOf
  <2>2. AccountsValid(call)
    BY <1>2 DEF Ledger!FillHonoured, AccountsValid
  <2>3. call.amount_in > 0 /\ call.levels # <<>> /\ now <= call.expire_at
    BY <1>2 DEF Ledger!FillHonoured
  <2> QED BY <2>1, <2>2, <2>3 DEF ArgumentsValid, Clock
<1>5. MintsValid(call)
  BY <1>2, <1>3, FreeIsCompatible DEF Ledger!FillHonoured, MintsValid
<1>6. Exclusive(call)
  BY <1>1, <1>2 DEF Ledger!Alone, Ledger!Protected, Protected, Exclusive
<1>7. ASSUME step \in {"sweep", "deliver"}, phase = "done"
      PROVE  result = "Ok" /\ Ledger!Quoted(call).out = out
  <2>1. /\ side = call.side /\ amount_in = call.amount_in
        /\ min_out = call.min_out /\ levels = call.levels
    BY <1>7 DEF HandlerInv, CheckedInv
  <2>2. Ledger!Quoted(call) = answer
    BY <1>7, <2>1 DEF Ledger!Quoted, AnsweredInv
  <2>3. answer = [result |-> result, out |-> IF result = "Ok" THEN out ELSE 0]
    BY <1>7 DEF answer
  <2>4. Ledger!Quoted(call).result = "Ok"
    BY <1>2 DEF Ledger!FillHonoured
  <2> QED BY <2>2, <2>3, <2>4
<1> QED BY <1>4, <1>5, <1>6, <1>7

\* Both its transfers go through.
LEMMA HonouredPays ==
    ASSUME HandlerInv, AnsweredInv, LandingInv, HasCall, call.op = "fill",
           step \in {"sweep", "deliver"}, phase = "done",
           Ledger!MayRun(tx, <<ix, cl>>, saved, now)
    PROVE  /\ step = "sweep" =>
                CanTransfer(UserPays(call), MakerReceives(call), PayMint(call),
                            call.user, call.amount_in)
           /\ step = "deliver" =>
                CanTransfer(MakerGives(call), UserReceives(call), GetMint(call),
                            call.fill_authority, out)
<1>1. call \in FillCalls /\ Ledger!CallAt(tx, <<ix, cl>>) = call
  BY CallFacts, CallPlaced DEF HandlerInv
<1>2. /\ Ledger!FillHonoured(call, now)
      /\ Ledger!Affordable(Ledger!Reached(saved, tx, <<ix, cl>>, now), call, now)
  BY <1>1 DEF Ledger!MayRun
<1>3. ArgumentsValid(call) /\ MintsValid(call) /\ Ledger!Quoted(call).out = out
  BY HonouredPasses
<1>4. AccountsValid(call)
  BY <1>3 DEF ArgumentsValid
<1>5. /\ PayMint(call) \in Mints /\ GetMint(call) \in Mints
      /\ call.amount_in \in U64 /\ out \in U64
  BY <1>1, FillFacts DEF HandlerInv, SweepInv, SweepTypeOK
<1>6. /\ Received(PayMint(call), call.amount_in) = call.amount_in
      /\ Received(GetMint(call), out) = out
  <2>1. MintCompatible(PayMint(call), Clock.epoch) /\ MintCompatible(GetMint(call), Clock.epoch)
    BY <1>3 DEF MintsValid, PayMint, GetMint
  <2> QED BY <1>5, <2>1, CompatibleIsFree
<1>7. OwnerOf[UserPays(call)] = call.user
  BY <1>2 DEF Ledger!FillHonoured, Ledger!UserPays, UserPays
<1>8. CASE step = "sweep"
  <2>1. Ledger!Covers(bal, UserPays(call), MakerReceives(call), call.amount_in, call.amount_in)
    BY <1>1, <1>2, <1>8, FillAffordable, LedgerReached
  <2>2. MintOf[UserPays(call)] = PayMint(call) /\ MintOf[MakerReceives(call)] = PayMint(call)
    BY <1>4 DEF AccountsValid, UserPays, MakerReceives, PayMint
  <2> QED BY <1>6, <1>7, <1>8, <2>1, <2>2, TransferCovered
<1>9. CASE step = "deliver"
  <2>1. Ledger!Covers(bal, MakerGives(call), UserReceives(call), out, out)
    BY <1>1, <1>2, <1>3, <1>9, FillAffordable, LedgerReached
  <2>2. /\ MintOf[MakerGives(call)] = GetMint(call) /\ MintOf[UserReceives(call)] = GetMint(call)
        /\ OwnerOf[MakerGives(call)] = call.fill_authority
    BY <1>4 DEF AccountsValid, MakerGives, UserReceives, GetMint
  <2> QED BY <1>6, <1>9, <2>1, <2>2, TransferCovered
<1> QED BY <1>8, <1>9

\* So nothing of a transaction that is in order fails.
LEMMA InOrderRuns ==
    ASSUME HandlerInv, AnsweredInv, LandingInv, Ledger!InOrder(tx, saved, now)
    PROVE  ~(\/ MoveFails \/ EnterFails \/ MintsFail \/ NotExclusive \/ SweepFails
             \/ PayFails \/ DeliverFails)
<1>1. ASSUME HasCall, step # "idle" PROVE Ledger!MayRun(tx, <<ix, cl>>, saved, now)
  BY <1>1, CallPlaced DEF Ledger!InOrder
<1>2. ~MoveFails
  BY <1>1, MoveRuns DEF MoveFails
<1>3. ~EnterFails /\ ~MintsFail /\ ~NotExclusive
  BY <1>1, HonouredPasses DEF EnterFails, MintsFail, NotExclusive, AtFill
<1>4. ~SweepFails
  <2> SUFFICES ASSUME SweepFails PROVE FALSE
    OBVIOUS
  <2>1. step = "sweep" /\ HasCall /\ call.op = "fill"
    BY DEF SweepFails, HandlerInv, PlaceInv
  <2> QED BY <1>1, <2>1, HonouredPasses DEF SweepFails
<1>5. ~PayFails
  BY <1>1, HonouredPays DEF PayFails, AtFill
<1>6. ~DeliverFails
  <2> SUFFICES ASSUME DeliverFails PROVE FALSE
    OBVIOUS
  <2>1. phase = "done"
    BY DEF DeliverFails, AtFill, HandlerInv, CheckedInv
  <2> QED BY <1>1, <2>1, HonouredPays DEF DeliverFails, AtFill
<1> QED BY <1>2, <1>3, <1>4, <1>5, <1>6

\* Each step of the program is one of Settlement or changes nothing it sees.
LEMMA StepIsSettlement ==
    ASSUME HandlerInv, Submitted, LandingInv, [Next]_vars
    PROVE  [Ledger!Next]_<<Seen, now, committed>>
<1>1. CASE Tick
  BY <1>1 DEF Tick, Seen, Ledger!Next, Ledger!Tick
<1>2. CASE Begin
  BY <1>2 DEF Begin, Start, Seen
<1>3. CASE Commit
  <2>1. Ledger!Land(tx) /\ tx \in Transactions
    BY <1>3, CommitLands DEF Commit, Submitted
  <2>2. now' = now
    BY <1>3 DEF Commit
  <2>3. CASE <<Seen, committed>>' = <<Seen, committed>>
    BY <2>2, <2>3
  <2>4. CASE <<Seen, committed>>' # <<Seen, committed>>
    BY <2>1, <2>4 DEF Ledger!Next, Ledger!LandSome
  <2> QED BY <2>3, <2>4
<1>4. ASSUME Refuse, step # "idle" PROVE UNCHANGED <<Seen, now, committed>>
  BY <1>4 DEF Refuse, Abort, Seen
<1>5. CASE MoveFails \/ EnterFails \/ MintsFail \/ NotExclusive \/ SweepFails
           \/ PayFails \/ DeliverFails
  BY <1>4, <1>5 DEF MoveFails, EnterFails, MintsFail, NotExclusive, SweepFails,
                    PayFails, DeliverFails, AtFill
<1>6. CASE NextIx \/ Move \/ Enter \/ CheckMints \/ CheckExclusivity \/ Sweeping
           \/ PayMaker \/ Deliver \/ UNCHANGED vars
  BY <1>6 DEF NextIx, Move, Enter, CheckMints, CheckExclusivity, Sweeping, PayMaker, Deliver,
              AtFill, Goto, Seen, ledgerVars, vars
<1> QED BY <1>1, <1>2, <1>3, <1>5, <1>6 DEF Next, Run

-----------------------------------------------------------------------------
(* Theorems *)

\* The inductive invariant of the handler in its transaction.
THEOREM HandlerInvariant == Spec => []HandlerInv
<1>1. [Next]_vars => [Tick \/ (\E t \in Runnable : Start(t)) \/ Run]_vars
  BY LedgerAssumption DEF Next, Begin
<1> QED BY <1>1, HandlerInit, HandlerStep, PTL DEF Spec

\* Every balance and every event stays in u64, whatever fees are charged.
THEOREM TypeCorrect == Spec => []TypeOK
BY HandlerInvariant, PTL DEF HandlerInv

\* No other top-level instruction of a transaction with a fill moves the
\* maker's tokens or signs with its key: the metas check is enough.
THEOREM MakerIsolated == Spec => []MakerMovesOnlyInFill
<1>1. ASSUME HandlerInv PROVE MakerMovesOnlyInFill
  <2> SUFFICES ASSUME NEW f \in Range(fills), NEW t \in Range(trail), t.ix # f.ix
               PROVE  Protected(f.call) \cap {t.from, t.to, t.authority} = {}
    BY DEF MakerMovesOnlyInFill
  <2>1. /\ t.ix \in DOMAIN tx.ixs
        /\ {t.from, t.to, t.authority} \subseteq tx.ixs[t.ix].metas
    BY <1>1 DEF HandlerInv, TrailInv, Range
  <2>2. tx.ixs[t.ix].metas \cap Protected(f.call) = {}
    BY <1>1, <2>1 DEF HandlerInv, FillsInv, Range
  <2> QED BY <2>1, <2>2
<1> QED BY <1>1, HandlerInvariant, PTL

\* Every event has two full transfers of its own.
THEOREM FillsSettle == Spec => []FillSettlesInFull
<1>1. ASSUME HandlerInv PROVE FillSettlesInFull
  <2>1. Len(trail) \in Nat
    BY <1>1 DEF HandlerInv, TypeOK
  <2>2. CASE step = "deliver"
    <3> DEFINE len == Len(trail) - 1
    <3>1. Settled(trail, fills, len)
      BY <1>1, <2>2 DEF HandlerInv, SettledInv
    <3>2. \A S : [S -> 1 .. len - 1] \subseteq [S -> 1 .. Len(trail) - 1]
      BY <2>1
    <3> QED BY <3>1, <3>2 DEF FillSettlesInFull, Settled
  <2>3. CASE step # "deliver"
    BY <1>1, <2>3 DEF HandlerInv, SettledInv, FillSettlesInFull
  <2> QED BY <2>2, <2>3
<1> QED BY <1>1, HandlerInvariant, PTL

\* Every fill, landed or about to, is within the maker's quote and the taker's
\* bound.
THEOREM FillsWithinQuote == Spec => []LandedWithinQuote
BY HandlerInvariant, PTL DEF HandlerInv

\* What runs is what began.
LEMMA SubmittedRuns == Spec => []Submitted
<1>1. Init => Submitted
  BY DEF Init, Submitted
<1>2. Submitted /\ [Next]_vars => Submitted'
  <2> SUFFICES ASSUME Submitted, [Next]_vars PROVE Submitted'
    OBVIOUS
  <2>1. ASSUME Refuse PROVE Submitted'
    BY <2>1 DEF Refuse, Abort, Submitted
  <2>2. CASE Begin
    BY <2>2 DEF Begin, Start, Submitted
  <2>3. ASSUME tx' = tx, step # "idle" PROVE Submitted'
    BY <2>3 DEF Submitted
  <2>4. CASE \/ NextIx \/ Move \/ Enter \/ CheckMints \/ CheckExclusivity \/ Sweeping
             \/ PayMaker \/ Deliver
    BY <2>3, <2>4 DEF NextIx, Move, Enter, CheckMints, CheckExclusivity, Sweeping, PayMaker,
                      Deliver, AtFill, Goto, ledgerVars
  <2>5. CASE Tick \/ Commit \/ UNCHANGED vars
    BY <2>5 DEF Tick, Commit, vars, ledgerVars, Submitted
  <2> QED BY <2>1, <2>2, <2>4, <2>5
          DEF Next, Run, MoveFails, EnterFails, MintsFail, NotExclusive, SweepFails,
              PayFails, DeliverFails
<1> QED BY <1>1, <1>2, PTL DEF Spec

\* A wallet that only quotes never holds less than its events account for,
\* between the transactions and, for its share of one, inside.
THEOREM LedgerCovered == Spec => []LedgerInv
<1>1. Init => LedgerInv
  <2> SUFFICES ASSUME Init PROVE LedgerInv
    OBVIOUS
  <2>1. bal \in InitialBalances
    BY DEF Init
  <2>2. \A a \in QuotersAccounts : CoveredSince(bal, a)
    BY CoveredInit DEF QuotersAccounts
  <2> QED BY <2>1, <2>2 DEF LedgerInv
<1>2. HandlerInv /\ Submitted /\ LedgerInv /\ [Next]_vars => LedgerInv'
  <2> SUFFICES ASSUME HandlerInv, Submitted, LedgerInv, [Next]_vars PROVE LedgerInv'
    OBVIOUS
  <2>1. PICK start \in InitialBalances : \A a \in QuotersAccounts : CoveredSince(start, a)
    BY DEF LedgerInv
  <2>2. [Tick \/ (\E t \in Runnable : Start(t)) \/ Run]_vars
    BY LedgerAssumption DEF Next, Begin
  <2>3. ASSUME NEW a \in QuotersAccounts PROVE CoveredSince(start, a)'
    <3>1. a \in TokenAccounts /\ (step # "idle" => OnlyQuotesIn(tx, OwnerOf[a]))
      BY DEF QuotersAccounts, Submitted
    <3> QED BY <2>1, <2>2, <3>1, CoveredStep
  <2> QED BY <2>3 DEF LedgerInv
<1> QED BY <1>1, <1>2, HandlerInvariant, SubmittedRuns, PTL DEF Spec

\* A maker who only quotes is never short of what the landed events promise
\* him, whatever reverted in between.
THEOREM MakersAreCovered == Spec => []MakerNeverShort
<1>1. ASSUME HandlerInv, LedgerInv PROVE MakerNeverShort
  <2>1. PICK start \in InitialBalances : \A a \in QuotersAccounts : CoveredSince(start, a)
    BY <1>1 DEF LedgerInv
  <2>2. ASSUME step = "idle", NEW a \in QuotersAccounts
        PROVE  bal[a] >= start[a] + Gain(committed, a)
    BY <1>1, <2>1, <2>2, CoveredBetween DEF QuotersAccounts
  <2> QED BY <2>2 DEF MakerNeverShort
<1> QED BY <1>1, HandlerInvariant, LedgerCovered, PTL

\* The sweep of the running fill keeps to the closed form.
LEMMA AnsweredInvariant == Spec => []AnsweredInv
<1>1. Init => AnsweredInv
  BY DEF Init, SweepInit, AnsweredInv, SweptInv
<1>2. HandlerInv /\ AnsweredInv /\ [Next]_vars => AnsweredInv'
  BY AnsweredStep
<1> QED BY <1>1, <1>2, HandlerInvariant, PTL DEF Spec

\* While a transaction runs, its calls so far are ones that Settlement lets
\* land, and the ledger and the events are those they make together.
THEOREM LandingInvariant == Spec => []LandingInv
<1>1. Init => LandingInv
  BY DEF Init, LandingInv
<1>2. HandlerInv /\ AnsweredInv /\ LandingInv /\ [Next]_vars => LandingInv'
  BY LandStep
<1> QED BY <1>1, <1>2, HandlerInvariant, AnsweredInvariant, PTL DEF Spec

\* The handler, its sweep and the runtime around them are the atomic exchange
\* of Settlement, at the closed-form price of the ladder.
THEOREM HandlerRefinesSettlement == Spec => ImplementsSettlement
<1>1. Init => Ledger!Init
  BY DEF Init, Ledger!Init, Seen
<1>2. HandlerInv /\ Submitted /\ LandingInv /\ [Next]_vars => [Ledger!Next]_<<Seen, now, committed>>
  BY StepIsSettlement
<1> QED BY <1>1, <1>2, HandlerInvariant, SubmittedRuns, LandingInvariant, PTL
        DEF Spec, ImplementsSettlement, Ledger!Spec

\* A transaction that nothing stands in the way of never reverts: each of the
\* handler's refusals, each error of the sweep and each failed transfer is one
\* that Settlement has a reason for.
THEOREM InOrderAlwaysLands == Spec => InOrderLands
<1> DEFINE A == step # "idle" /\ step' = "idle" /\ Ledger!InOrder(tx, saved, now)
                   => Ledger!Land(tx)
<1>1. HandlerInv /\ AnsweredInv /\ LandingInv /\ [Next]_vars => [A]_vars
  <2> SUFFICES ASSUME HandlerInv, AnsweredInv, LandingInv, Next, step # "idle", step' = "idle",
                      Ledger!InOrder(tx, saved, now)
               PROVE  Ledger!Land(tx)
    OBVIOUS
  <2>1. CASE Commit BY <2>1, CommitLands
  <2>2. CASE \/ MoveFails \/ EnterFails \/ MintsFail \/ NotExclusive \/ SweepFails
             \/ PayFails \/ DeliverFails
    BY <2>2, InOrderRuns
  <2>3. ~(\/ Tick \/ Begin \/ NextIx \/ Move \/ Enter \/ CheckMints \/ CheckExclusivity
          \/ Sweeping \/ PayMaker \/ Deliver)
    BY DEF Tick, Begin, Start, NextIx, Move, Enter, CheckMints, CheckExclusivity, Sweeping,
           PayMaker, Deliver, AtFill, Goto, ledgerVars
  <2> QED BY <2>1, <2>2, <2>3 DEF Next, Run
<1> HIDE DEF A
<1>2. Spec => [][A]_vars
  BY <1>1, HandlerInvariant, AnsweredInvariant, LandingInvariant, PTL DEF Spec
<1> QED BY <1>2 DEF A, InOrderLands

=============================================================================
