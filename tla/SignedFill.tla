----------------------------- MODULE SignedFill -----------------------------
(***************************************************************************)
(* The decoder and the program together.  A maker looks at message after    *)
(* message and signs those that validate_maker_accounts accepts and whose   *)
(* one fill is a quote he has open.  The takers send what he signed when    *)
(* they like, in any order or not at all; the cluster resolves the lookup   *)
(* tables as they are then, and runs what comes out of it as a transaction  *)
(* of fill_exact_in, module FillExactIn, against one ledger.  Transactions  *)
(* are those of others, which he does not sign and which run in between.    *)
(*                                                                         *)
(* The maker's quote registry, the cluster and the aggregator are external. *)
(* The aggregator hands the maker's slots of a leg to the RFQ program only; *)
(* what else a message's programs do with the accounts they get is open.    *)
(***************************************************************************)
EXTENDS MakerCheck, FillExactIn

CONSTANTS
    LegTaker, LegSource, LegDestination,    \* the taker's slots of a leg
    QuoteOf,            \* what the id on a route stands for: side, expiry and levels
    Offered,            \* the ids under which the maker has a quote open
    Inboxes,            \* the messages the maker may be presented with, in turn
    MaxMessages         \* bound on their number

ASSUME SignedAssumption ==
    /\ {LegTaker, LegSource, LegDestination} \subseteq 0 .. LegWidth - 1
    /\ LegTaker # LegFillAuthority
    /\ RfqIds \subseteq U64
    /\ QuoteOf \in [RfqIds -> [side : Side, expire_at : Int, levels : Ladders]]
    /\ Inboxes \subseteq {b \in Seq(Presented) : Len(b) \in 1 .. MaxMessages}
    /\ \A t \in Transactions, mk \in Makers : mk.fill_authority \notin t.signers

VARIABLES
    inbox,              \* the messages he has not looked at
    consumed,           \* the quotes marked consumed in the registry
    sent                \* the messages he signed that have not run

signedVars == <<checkVars, inbox, consumed, sent, vars>>

-----------------------------------------------------------------------------
(* What an instruction i of a message m may do, its tables resolved to l *)

KeyOf(m, l, i, n) == KeyAt(m, l, <<i, n>>)

AccountsOf(m, i) == DOMAIN m.instructions[i].account_indices

Metas(m, l, i) == {KeyOf(m, l, i, n) : n \in AccountsOf(m, i)}

Signers(m) == {m.static_account_keys[n] : n \in 1 .. m.num_required_signatures} \cap Wallets

\* The swap entrypoints of the aggregator run the routes in their arguments.
RunsRoutes(m, l, i) ==
    KeyOf(m, l, i, 0) \in DexPrograms /\ m.instructions[i].entry # "unknown"

\* Where a leg may start in the accounts: its program is the RFQ program.
LegsIn(m, l, i) ==
    {n \in AccountsOf(m, i) : n + LegWidth - 1 \in AccountsOf(m, i)
                               /\ KeyOf(m, l, i, n + LegProgramId) = RfqProgram}

MakerSlots == {LegFillAuthority, LegMakerBase, LegMakerQuote}

\* What is left for anything but the legs.
FreeKeys(m, l, i) ==
    {KeyOf(m, l, i, n) : n \in {n \in AccountsOf(m, i) :
        RunsRoutes(m, l, i) => \A leg \in LegsIn(m, l, i) : n - leg \notin MakerSlots}}

MovesWith(accounts, signers) ==
    {c \in [op : {"move"}, from : accounts, to : accounts, authority : signers,
            amount : Amounts] :
        c.from # c.to /\ MintOf[c.from] = MintOf[c.to]}

\* The fills of fill_exact_in on some side, under the terms of an id, with the
\* accounts in their roles.
FillsAs(roles, s, id) ==
    {c \in {[op |-> "fill", side |-> s, amount_in |-> a, min_out |-> o, rfq_id |-> id,
             expire_at |-> QuoteOf[id].expire_at, levels |-> QuoteOf[id].levels,
             user |-> roles.user, fill_authority |-> roles.fill_authority,
             base_mint |-> MintOf[roles.maker_base], quote_mint |-> MintOf[roles.maker_quote],
             user_base |-> roles.user_base, user_quote |-> roles.user_quote,
             maker_base |-> roles.maker_base, maker_quote |-> roles.maker_quote] :
            a \in Amounts, o \in MinOuts} : AccountsValid(c)}

Roles(accounts, signers) ==
    [user : signers, fill_authority : signers, user_base : accounts, user_quote : accounts,
     maker_base : accounts, maker_quote : accounts]

SideOf(r) == IF r.taker_side = 0 THEN "Bid" ELSE "Ask"

\* The accounts of the leg at an offset, in the roles its slots have on a side.
RolesOf(m, l, i, leg, s) ==
    LET slot(n) == KeyOf(m, l, i, leg + n)
    IN  [user |-> slot(LegTaker), fill_authority |-> slot(LegFillAuthority),
         user_base  |-> slot(IF s = "Bid" THEN LegDestination ELSE LegSource),
         user_quote |-> slot(IF s = "Bid" THEN LegSource ELSE LegDestination),
         maker_base |-> slot(LegMakerBase), maker_quote |-> slot(LegMakerQuote)]

\* The fills a route may make of a leg.
LegFills(m, l, i, r) ==
    UNION {FillsAs(RolesOf(m, l, i, leg, SideOf(r)), SideOf(r), r.rfq_id) :
           leg \in {leg \in LegsIn(m, l, i) :
               RolesOf(m, l, i, leg, SideOf(r)) \in Roles(TokenAccounts, Signers(m))}}

RfqRoutes(m, i) ==
    {n \in DOMAIN m.instructions[i].routes : m.instructions[i].routes[n].dex = "rfq"}

\* A fill for each RFQ route, in turn; nothing, when one of them cannot run.
RoutesRun(m, l, i) ==
    LET routes == m.instructions[i].routes
        rfq    == RfqRoutes(m, i)
        turns  == {at \in [1 .. Cardinality(rfq) -> rfq] :
                      \A a, b \in DOMAIN at : a < b => at[a] < at[b]}
    IN  {cs \in [1 .. Cardinality(rfq) -> UNION {LegFills(m, l, i, routes[n]) : n \in rfq}] :
            /\ \A n \in rfq : IsFill(routes[n])
            /\ \E at \in turns : \A a \in DOMAIN cs : cs[a] \in LegFills(m, l, i, routes[at[a]])}

ReachesRfq(m, l, i) == RfqProgram \in Metas(m, l, i) \cup {KeyOf(m, l, i, 0)}

Moves(m, l, i) ==
    MovesWith(FreeKeys(m, l, i) \cap TokenAccounts, FreeKeys(m, l, i) \cap Signers(m))

AnyFills(m, l, i) ==
    UNION {FillsAs(roles, s, id) :
        roles \in Roles(Metas(m, l, i) \cap TokenAccounts, Metas(m, l, i) \cap Signers(m)),
        s \in Side, id \in RfqIds}

\* A swap makes the calls of its routes, after a transfer or none; any other
\* program nothing, a transfer, or a fill if it can.
CallsOf(m, l, i) ==
    IF RunsRoutes(m, l, i)
    THEN RoutesRun(m, l, i)
           \cup UNION {{<<c>> \o cs : cs \in RoutesRun(m, l, i)} : c \in Moves(m, l, i)}
    ELSE {<<>>} \cup {<<c>> : c \in Moves(m, l, i)}
           \cup {<<c>> : c \in IF ReachesRfq(m, l, i) THEN AnyFills(m, l, i) ELSE {}}

\* The transactions a message can come to; none, when one of its legs cannot
\* run, and it reverts.
TransactionsOf(m, l) ==
    LET ixs == DOMAIN m.instructions
    IN  {[signers |-> Signers(m),
          ixs |-> [i \in ixs |-> [metas |-> Metas(m, l, i) \cap Named, calls |-> calls[i]]]] :
            calls \in {c \in [ixs -> UNION {CallsOf(m, l, i) : i \in ixs}] :
                          \A i \in ixs : c[i] \in CallsOf(m, l, i)}}

-----------------------------------------------------------------------------
(* The steps *)

SignedInit ==
    /\ \E b \in Inboxes : inbox = Tail(b) /\ msg = Head(b)
    /\ CheckStart /\ Init
    /\ consumed = {} /\ sent = {}

Examine == CheckStep /\ UNCHANGED <<inbox, consumed, sent, vars>>

\* The one fill is looked up in the registry, compared, and marked consumed
\* before the signature leaves.
Sign ==
    /\ stage = "answered" /\ verdict = "Ok"
    /\ \E f \in Fills(msg) :
          LET r == msg.instructions[f[1]].routes[f[2]]
          IN  /\ r.rfq_id \in Offered \ consumed
              /\ SideOf(r) = QuoteOf[r.rfq_id].side
              /\ now <= QuoteOf[r.rfq_id].expire_at
              /\ consumed' = consumed \cup {r.rfq_id}
    /\ sent' = sent \cup {msg}
    /\ UNCHANGED <<checkVars, inbox, vars>>

\* Signed or not, the next one.
NextMessage ==
    /\ stage = "answered"
    /\ inbox # <<>>
    /\ msg' = Head(inbox) /\ inbox' = Tail(inbox)
    /\ stage' = "decode" /\ verdict' = "none"
    /\ UNCHANGED <<maker, consumed, sent, vars>>

\* The contents of the tables are anyone's choice, and may change until now;
\* a key that would be loaded twice keeps the message from running.
Submit ==
    /\ step = "idle" /\ ran < MaxTxs
    /\ \E m \in sent :
          /\ sent' = sent \ {m}
          /\ \E l \in {l \in [1 .. m.loaded -> Keys] : NoKeyTwice(m, l)} :
                \E t \in TransactionsOf(m, l) : Start(t)
    /\ UNCHANGED <<checkVars, inbox, consumed>>

Others == Begin /\ UNCHANGED <<checkVars, inbox, consumed, sent>>

Program == (Run \/ Tick) /\ UNCHANGED <<checkVars, inbox, consumed, sent>>

SignedNext == Examine \/ Sign \/ NextMessage \/ Submit \/ Others \/ Program

SignedSpec == SignedInit /\ [][SignedNext]_signedVars

-----------------------------------------------------------------------------
(* Correctness *)

Maker == maker.fill_authority

\* The two exclusivity rules agree, though one counts indices of static keys
\* before the lookup tables are known and the other compares the keys of
\* sibling instructions when they are (validate_maker_accounts,
\* check_fill_exclusivity): a transaction the maker signed is never refused
\* for it on chain.
SignedIsExclusive ==
    step = "exclusive" /\ Maker \in tx.signers => Exclusive(call)

\* The fills of his among the events.
His(es) == {n \in DOMAIN es : es[n].call.fill_authority = Maker}

Landed(id) == {n \in His(committed) : committed[n].call.rfq_id = id}

HisAccounts == {a \in TokenAccounts : OwnerOf[a] = Maker}

\* Whatever the taker puts around the quote, whichever accounts the tables
\* resolve to and whatever others run in between, all that his signatures let
\* happen to the maker is his quotes: each is filled at most once, on its own
\* side and terms and at its price or better, into and out of the accounts it
\* was bound to, and apart from those fills none of his accounts, bound or not,
\* ever loses an atom (validate_maker_accounts, fill_exact_in).
MakerTradesAsQuoted ==
    /\ \A n \in His(committed) :
          LET c == committed[n].call
              q == QuoteOf[c.rfq_id]
          IN  /\ c.rfq_id \in Offered /\ Landed(c.rfq_id) = {n}
              /\ c.side = q.side /\ c.levels = q.levels
              /\ Protected(c) = MakerKeys(maker)
              /\ WithinQuote(committed[n])
    /\ step = "idle" =>
          \E start \in InitialBalances : \A a \in HisAccounts :
              bal[a] >= start[a] + Gain(committed, a)

-----------------------------------------------------------------------------
(* The inductive invariant behind them *)

\* The route of a message with one fill, and the quote it is of.
FillRoute(m) ==
    LET f == CHOOSE f \in Fills(m) : TRUE
    IN  m.instructions[f[1]].routes[f[2]]

IdOf(m) == FillRoute(m).rfq_id

\* A fill of the quote under an id, between the accounts it was bound to.
AsQuoted(c, id) ==
    /\ c.rfq_id = id
    /\ c.side = QuoteOf[id].side /\ c.levels = QuoteOf[id].levels
    /\ c.fill_authority = Maker /\ Protected(c) = MakerKeys(maker)

\* All that t does with what is the maker's is the call at <<i, j>>, a fill of
\* that quote in an instruction that has his keys to itself.
KeepsTo(t, id, i, j) ==
    /\ i \in DOMAIN t.ixs /\ j \in DOMAIN t.ixs[i].calls
    /\ t.ixs[i].calls[j].op = "fill" /\ AsQuoted(t.ixs[i].calls[j], id)
    /\ \A i2 \in DOMAIN t.ixs : i2 # i => t.ixs[i2].metas \cap MakerKeys(maker) = {}
    /\ \A i2 \in DOMAIN t.ixs : \A j2 \in DOMAIN t.ixs[i2].calls :
          t.ixs[i2].calls[j2].op = "fill" => i2 = i /\ j2 = j
    /\ OnlyQuotesIn(t, Maker)

\* Every message he signed is for a quote of its own, and as it was looked up.
SentInv ==
    /\ consumed \subseteq Offered
    /\ \A m \in sent :
          /\ Vetted(m, maker)
          /\ IdOf(m) \in consumed /\ SideOf(FillRoute(m)) = QuoteOf[IdOf(m)].side
    /\ \A m1, m2 \in sent : IdOf(m1) = IdOf(m2) => m1 = m2

\* A quote that was filled is not in what he signed and has not run.
Spent(id) ==
    /\ id \in consumed
    /\ \A m \in sent : IdOf(m) # id

LandedInv ==
    \A n \in His(committed) :
        LET c == committed[n].call
        IN  AsQuoted(c, c.rfq_id) /\ Spent(c.rfq_id) /\ Landed(c.rfq_id) = {n}

NothingOfHis == Maker \notin tx.signers /\ His(fills) = {}

\* A quote that nothing else can fill: its fill is to come, or was made once.
FillsOnce(id, i, j) ==
    /\ KeepsTo(tx, id, i, j) /\ Spent(id) /\ Landed(id) = {}
    /\ \/ fills = <<>>
       \/ /\ i < ix \/ (i = ix /\ j < cl)
          /\ Len(fills) = 1 /\ fills[1].call = tx.ixs[i].calls[j]

RunningInv ==
    step # "idle" =>
        \/ NothingOfHis
        \/ \E id \in consumed : \E i \in DOMAIN tx.ixs : \E j \in DOMAIN tx.ixs[i].calls :
              FillsOnce(id, i, j)

HisLedger ==
    \E start \in InitialBalances : \A a \in HisAccounts : CoveredSince(start, a)

SignedInv ==
    inbox \in Seq(Messages) /\ SentInv /\ LandedInv /\ RunningInv /\ HisLedger

=============================================================================
