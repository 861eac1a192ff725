--------------------------- MODULE FillSettlement ---------------------------
(***************************************************************************)
(* FillExactIn against the ledger it promises: the refinement of Settlement, *)
(* and the invariant behind it.                                            *)
(***************************************************************************)
EXTENDS FillExactIn, SweepQuote

\* The ledger as anyone else sees it.
Seen == IF step = "idle" THEN bal ELSE saved

Ledger == INSTANCE Settlement WITH bal <- Seen, Fee <- FeeOn

\* Seen between transactions, handler and sweep are one atomic exchange: a
\* reverted transaction is nothing at all, whatever half of it had run, and a
\* landed one is the sum of its calls at the closed-form price.
ImplementsSettlement == Ledger!Spec

\* The other direction: the handler refuses nothing it should let through.  A
\* transaction whose calls are signed, whose quotes are live to their last
\* second and answered by their ladders, whose mints withhold nothing in the
\* epoch it runs in, and that the ledger covers transfer after transfer, does
\* not revert; all its fills land, whatever ran and reverted before it.
InOrderLands ==
    [][step # "idle" /\ step' = "idle" /\ Ledger!InOrder(tx, saved, now) => Ledger!Land(tx)]_vars

-----------------------------------------------------------------------------
\* The sweep of the running fill keeps to the closed form.
AnsweredInv ==
    /\ SweptInv
    /\ phase = "done" => answer = Answer(side, amount_in, min_out, levels)

\* The calls of the running transaction that have run.
Done == {p \in Ledger!Places(tx) : Ledger!Before(p, <<ix, cl>>)}

\* The taker's leg of a fill that is half done, as seen from account a.
HalfDone(a) ==
    IF step = "deliver"
    THEN Ledger!Flow(a, UserPays(call), MakerReceives(call), call.amount_in, call.amount_in)
    ELSE 0

\* That leg was one Settlement lets through, too.
TakerPaid ==
    /\ OwnerOf[UserPays(call)] = call.user
    /\ Ledger!Covers(Ledger!Reached(saved, tx, <<ix, cl>>, now),
                     UserPays(call), MakerReceives(call), call.amount_in, call.amount_in)

\* What the calls at the places ps of t are worth to account a.
Worth(t, ps, a, time) ==
    SumFunction([p \in ps |-> Ledger!Delta(Ledger!CallAt(t, p), a, time)])

\* The events es are those of the fills at the places ps of t, in their order.
Reports(es, t, ps, time) ==
    \E at \in [DOMAIN es -> ps] :
        /\ \A n \in DOMAIN es : es[n] = Ledger!Event(t, at[n], time)
        /\ \A m, n \in DOMAIN es : m < n => Ledger!Before(at[m], at[n])
        /\ \A p \in ps : \E n \in DOMAIN es : at[n] = p

\* Inside a transaction: every call so far was one that Settlement lets land,
\* the ledger is the one the transaction started from plus what they are worth,
\* and the events are those of the fills among them.
LandingInv ==
    step # "idle" =>
        /\ \A p \in Done : Ledger!MayRun(tx, p, saved, now)
        /\ \A a \in TokenAccounts : bal[a] = saved[a] + Worth(tx, Done, a, now) + HalfDone(a)
        /\ Reports(fills, tx, Done \cap Ledger!FillsOf(tx), now)
        /\ step = "deliver" => TakerPaid

=============================================================================
