----------------------------- MODULE Settlement -----------------------------
(***************************************************************************)
(* What the program promises about a ledger, with no handler, no sweep and  *)
(* no half-done transfer in it: a transaction lands in one step or leaves   *)
(* no trace.  One that lands has every fill in it honoured, exchanges       *)
(* amount_in for the closed-form answer of the ladder in each, and changes  *)
(* the ledger by the sum of its calls.  FillExactIn implements it.          *)
(***************************************************************************)
EXTENDS Calls, Functions

CONSTANTS
    InitialBalances, Transactions, EpochLength, MaxTime,
    Fee(_, _, _),       \* withheld when moving an amount of a mint in an epoch
    Answer(_, _, _, _)  \* what a ladder answers to side, amount and bound

VARIABLES bal, now, committed

Epoch(time) == time \div EpochLength

\* The calls of a transaction, by instruction and position in it.
Places(t) == UNION {{<<i, j>> : j \in DOMAIN t.ixs[i].calls} : i \in DOMAIN t.ixs}

CallAt(t, p) == t.ixs[p[1]].calls[p[2]]

\* p runs before q.
Before(p, q) == p[1] < q[1] \/ (p[1] = q[1] /\ p[2] < q[2])

FillsOf(t) == {p \in Places(t) : CallAt(t, p).op = "fill"}

Quoted(c) == Answer(c.side, c.amount_in, c.min_out, c.levels)

-----------------------------------------------------------------------------
(* What a transaction must be to land *)

FeeFree(m, amount, time) == Fee(m, amount, Epoch(time)) = 0

\* The maker's quote is live and covers the amount, the accounts are what they
\* are said to be, and nothing is withheld from either leg.
FillHonoured(c, time) ==
    /\ c.amount_in > 0 /\ c.levels # <<>>
    /\ time <= c.expire_at
    /\ Quoted(c).result = "Ok"
    /\ OwnerOf[UserPays(c)] = c.user
    /\ OwnerOf[c.maker_base] = c.fill_authority /\ OwnerOf[c.maker_quote] = c.fill_authority
    /\ \A a \in {c.user_base, c.maker_base} : MintOf[a] = c.base_mint
    /\ \A a \in {c.user_quote, c.maker_quote} : MintOf[a] = c.quote_mint
    /\ FeeFree(c.base_mint, 1, time) /\ FeeFree(c.quote_mint, 1, time)

MoveAllowed(c) == OwnerOf[c.from] = c.authority /\ MintOf[c.from] = MintOf[c.to]

\* No other instruction names what a fill protects.
Alone(t, p) ==
    \A i \in DOMAIN t.ixs : i # p[1] => t.ixs[i].metas \cap Protected(CallAt(t, p)) = {}

-----------------------------------------------------------------------------
(* What it does *)

\* An exchange between two accounts, as seen from account a.
Flow(a, from, to, sent, received) ==
    IF from = to THEN 0
    ELSE (IF a = to THEN received ELSE 0) - (IF a = from THEN sent ELSE 0)

Delta(c, a, time) ==
    IF c.op = "move"
    THEN Flow(a, c.from, c.to, c.amount, c.amount - Fee(MintOf[c.from], c.amount, Epoch(time)))
    ELSE Flow(a, UserPays(c), MakerReceives(c), c.amount_in, c.amount_in)
           + Flow(a, MakerGives(c), UserReceives(c), Quoted(c).out, Quoted(c).out)

\* The ledger b once the calls at the places ps of t have run on it.
With(b, t, ps, time) ==
    [a \in TokenAccounts |-> b[a] + SumFunction([p \in ps |-> Delta(CallAt(t, p), a, time)])]

\* The ledger that the call at p finds, when t runs on b.
Reached(b, t, p, time) == With(b, t, {q \in Places(t) : Before(q, p)}, time)

-----------------------------------------------------------------------------
(* What it needs for that *)

\* The sender has it and the receiver's account can hold it.
Covers(b, from, to, sent, received) ==
    b[from] >= sent /\ (from # to => b[to] + received <= U64Max)

\* The legs of a fill one after the other.
Affordable(b, c, time) ==
    IF c.op = "move"
    THEN Covers(b, c.from, c.to, c.amount, c.amount - Fee(MintOf[c.from], c.amount, Epoch(time)))
    ELSE LET paid == [a \in TokenAccounts |->
                         b[a] + Flow(a, UserPays(c), MakerReceives(c), c.amount_in, c.amount_in)]
         IN  /\ Covers(b, UserPays(c), MakerReceives(c), c.amount_in, c.amount_in)
             /\ Covers(paid, MakerGives(c), UserReceives(c), Quoted(c).out, Quoted(c).out)

MayRun(t, p, b, time) ==
    LET c == CallAt(t, p)
    IN  /\ SignersOf(c) \subseteq t.signers
        /\ c.op = "fill" => FillHonoured(c, time) /\ Alone(t, p)
        /\ c.op = "move" => MoveAllowed(c)
        /\ Affordable(Reached(b, t, p, time), c, time)

\* Nothing stands in the way of t on the ledger b.
InOrder(t, b, time) == \A p \in Places(t) : MayRun(t, p, b, time)

-----------------------------------------------------------------------------
(* What is seen of it *)

Event(t, p, time) ==
    LET c == CallAt(t, p)
    IN  [ix |-> p[1], call |-> c, amount_out |-> Quoted(c).out, epoch |-> Epoch(time)]

\* The fills of t are reported behind those before them, each once and in the
\* order they run.
Reported(t) ==
    /\ \A n \in DOMAIN committed : n \in DOMAIN committed' /\ committed'[n] = committed[n]
    /\ \E at \in [DOMAIN committed' \ DOMAIN committed -> FillsOf(t)] :
          /\ \A n \in DOMAIN at : committed'[n] = Event(t, at[n], now)
          /\ \A m, n \in DOMAIN at : m < n => Before(at[m], at[n])
          /\ \A p \in FillsOf(t) : \E n \in DOMAIN at : at[n] = p

-----------------------------------------------------------------------------
Init == bal \in InitialBalances /\ now = 0 /\ committed = <<>>

Tick == now < MaxTime /\ now' = now + 1 /\ UNCHANGED <<bal, committed>>

Land(t) ==
    /\ InOrder(t, bal, now)
    /\ bal' = With(bal, t, Places(t), now)
    /\ Reported(t)
    /\ UNCHANGED now

\* A transaction that changes nothing is not seen to land.
LandSome ==
    /\ <<bal, committed>>' # <<bal, committed>>
    /\ \E t \in Transactions : Land(t)

Next == Tick \/ LandSome

Spec == Init /\ [][Next]_<<bal, now, committed>>

=============================================================================
