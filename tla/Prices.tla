------------------------------- MODULE Prices -------------------------------
(***************************************************************************)
(* How the CLI (scripts/cli.ts) turns the prices and quantities a user      *)
(* types into the levels of a quote, and what the program's sweep makes of  *)
(* them.  A decimal is its digits, read as one number, and how many of them *)
(* come after the point; the strings are cut and padded like numbers.       *)
(***************************************************************************)
EXTENDS Sweep

CONSTANTS
    Radix,              \* 10
    Decimals,           \* the pairs <<base, quote>> of mint decimals
    TypedLevels         \* the lists of [price, qty] a user may type

TypedNumbers == [digits : Nat, frac : Nat]
TypedLevel   == [price : TypedNumbers, qty : TypedNumbers]
ParsedLevel  == [base_atoms : Nat, quote_atoms : Nat]

ASSUME PricesAssumption ==
    /\ Radix \in Nat \ {0, 1}
    /\ Decimals \subseteq Nat \X Nat
    /\ TypedLevels \subseteq Seq(TypedLevel)

VARIABLES
    typed, decimals,    \* the input: levels, and the decimals of the two mints
    parsed,             \* the levels converted so far
    cli                 \* "parsing", "threw" or "sent"

cliVars   == <<typed, decimals, parsed, cli>>
priceVars == <<cliVars, sweepVars>>

BaseDecimals  == decimals[1]
QuoteDecimals == decimals[2]

-----------------------------------------------------------------------------
\* The powers of the radix.
Power[n \in Nat] == IF n = 0 THEN 1 ELSE Radix * Power[n - 1]

\* Move the point right by e places, or left, and drop what falls off.
Shifted(n, e) == IF e >= 0 THEN n * Power[e] ELSE n \div Power[-e]

\* decimalToAtoms
DecimalToAtoms(value, decs) == Shifted(value.digits, decs - value.frac)

\* Slip: the price is cut to whole quote atoms before it is multiplied.
QuoteAtomsOfCutPrice(l) ==
    Shifted(l.qty.digits * DecimalToAtoms(l.price, QuoteDecimals), -l.qty.frac)

\* The quote side is priced before the quantity is cut to whole base atoms.
QuoteAtoms(l) ==
    Shifted(l.qty.digits * l.price.digits, QuoteDecimals - l.qty.frac - l.price.frac)

\* qtyPriceToAtoms
QtyPriceToAtoms(l) ==
    [base_atoms |-> DecimalToAtoms(l.qty, BaseDecimals), quote_atoms |-> QuoteAtoms(l)]

\* Slip: a level may come out with no atoms on one side.
ProducesOnlyZeroAtoms(l) == l.base_atoms = 0 /\ l.quote_atoms = 0

ProducesZeroAtoms(l) == l.base_atoms = 0 \/ l.quote_atoms = 0

-----------------------------------------------------------------------------
PricesInit ==
    /\ typed \in TypedLevels /\ decimals \in Decimals
    /\ parsed = <<>> /\ cli = "parsing"
    /\ SweepInit

Throw == cli' = "threw" /\ UNCHANGED <<typed, decimals, parsed, sweepVars>>

NoLevels == cli = "parsing" /\ typed = <<>> /\ Throw

\* One round of the map in parseLevels.
AtLevel == cli = "parsing" /\ Len(parsed) < Len(typed)

NextLevel == QtyPriceToAtoms(typed[Len(parsed) + 1])

ParseLevel ==
    /\ AtLevel
    /\ ~ProducesZeroAtoms(NextLevel)
    /\ parsed' = Append(parsed, NextLevel)
    /\ UNCHANGED <<typed, decimals, cli, sweepVars>>

ZeroLevel == AtLevel /\ ProducesZeroAtoms(NextLevel) /\ Throw

AllParsed == cli = "parsing" /\ typed # <<>> /\ Len(parsed) = Len(typed)

Encodable == \A i \in DOMAIN parsed : parsed[i] \in Level

\* The client library refuses a number that is no u64.
EncodeFails == AllParsed /\ ~Encodable /\ Throw

\* The transaction is built and sent, and the handler reaches its sweep.
Send ==
    /\ AllParsed /\ Encodable
    /\ \E s \in Side, a \in Amounts, m \in MinOuts : Call(s, a, m, parsed)
    /\ cli' = "sent"
    /\ UNCHANGED <<typed, decimals, parsed>>

OnChain == cli = "sent" /\ SweepStep /\ UNCHANGED cliVars

PricesNext ==
    \/ NoLevels \/ ParseLevel \/ ZeroLevel \/ EncodeFails \/ Send \/ OnChain

PricesSpec == PricesInit /\ [][PricesNext]_priceVars

-----------------------------------------------------------------------------
(* Correctness *)

\* The inductive invariant: what is parsed is what was typed, level by level,
\* with atoms on both sides; what is sent is what was parsed, and the sweep runs
\* on nothing else.
PriceInv ==
    /\ SweepInv
    /\ typed \in Seq(TypedLevel) /\ decimals \in Nat \X Nat
    /\ cli \in {"parsing", "threw", "sent"}
    /\ parsed \in Seq(ParsedLevel) /\ Len(parsed) <= Len(typed)
    /\ \A i \in DOMAIN parsed :
          parsed[i] = QtyPriceToAtoms(typed[i]) /\ ~ProducesZeroAtoms(parsed[i])
    /\ IF cli = "sent" THEN levels = parsed /\ phase # "idle" /\ amount_in > 0
                       ELSE phase = "idle"
    /\ result = "InvalidLevelOrdering" =>
          \E i \in 1 .. Len(levels) - 1 : ~WindowOrdered(side, levels[i], levels[i + 1])
    /\ result # "DegenerateLevelEntry"

\* The typed price of level i in quote atoms per base atom, as a fraction.
Num(i) == typed[i].price.digits * Power[QuoteDecimals]
Den(i) == Power[typed[i].price.frac + BaseDecimals]

\* Whatever is typed, each level offers its base atoms at the typed price, but
\* for less than one quote atom down, and less than the price of one base atom
\* up: the two roundings do not add up further, however many digits are cut
\* (decimalToAtoms cuts the quantity, qtyPriceToAtoms prices it uncut).
TypedPriceKept ==
    \A i \in DOMAIN parsed :
        LET q == parsed[i].quote_atoms
            b == parsed[i].base_atoms
        IN  /\ b * Num(i) - Den(i) < q * Den(i)
            /\ q * Den(i) < (b + 1) * Num(i)

\* The same of what is traded, after sorting, sweeping and flooring: on a bid
\* the taker gets base atoms at no less than the best typed price, but for one
\* quote atom in the level; on an ask quote atoms at no more than it, but for
\* one base atom.
FilledAtTypedPrice ==
    phase = "done" /\ result = "Ok" =>
        LET b == parsed[1].base_atoms
        IN  IF side = "Bid"
            THEN out * (b * Num(1) - Den(1)) < amount_in * b * Den(1)
            ELSE out * b * Den(1) < amount_in * (b + 1) * Num(1)

\* Levels i and i + 1 are so far apart that the rounding of both fits between.
Apart(i) ==
    LET b1 == parsed[i].base_atoms
        b2 == parsed[i + 1].base_atoms
    IN  IF side = "Bid"
        THEN (b1 + 1) * Num(i) * b2 * Den(i + 1)
                <= b1 * (b2 * Num(i + 1) - Den(i + 1)) * Den(i)
        ELSE (b2 + 1) * Num(i + 1) * b1 * Den(i)
                <= b2 * (b1 * Num(i) - Den(i)) * Den(i + 1)

\* A user whose prices get worse by more than the atoms can blur is never told
\* by the program that his levels are out of order or empty; prices that are
\* closer may tie or swap when they are rounded, level by level.
ApartIsInOrder ==
    phase = "done" /\ (\A i \in 1 .. Len(parsed) - 1 : Apart(i)) =>
        result \notin {"InvalidLevelOrdering", "DegenerateLevelEntry"}

=============================================================================
