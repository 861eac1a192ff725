---------------------------- MODULE PricesProofs ----------------------------
(***************************************************************************)
(* What becomes of a typed price, for every radix, every decimals and every  *)
(* list of levels: the two roundings of the CLI do not add up, and what the  *)
(* program makes of the levels keeps to the price the user typed.           *)
(***************************************************************************)
EXTENDS Prices, SweepProofs

-----------------------------------------------------------------------------
(* Powers *)

\* The recursion has a solution, so Power satisfies it.
LEMMA PowerSteps == Power[0] = 1 /\ \A n \in Nat : Power[n + 1] = Radix * Power[n]
<1> DEFINE next == [p \in Nat \X Nat |-> Radix * p[2]]
<1>1. next \in [Nat \X Nat -> Nat]
  BY PricesAssumption
<1>2. \A p \in Nat \X Nat : next[p] = Radix * p[2]
  OBVIOUS
<1> HIDE DEF next
<1>3. PICK g \in [Nat -> Nat] : Runs(1, next, g)
  <2>1. 1 \in Nat
    OBVIOUS
  <2> QED BY <1>1, <2>1, RecursionExists
<1>4. ASSUME NEW n \in Nat PROVE g[n + 1] = Radix * g[n]
  <2>1. <<n, g[n]>> \in Nat \X Nat /\ <<n, g[n]>>[2] = g[n]
    BY <1>3
  <2> QED BY <1>2, <1>3, <2>1 DEF Runs
<1>5. ASSUME NEW n \in Nat PROVE g[n] = IF n = 0 THEN 1 ELSE Radix * g[n - 1]
  <2>1. CASE n = 0
    BY <1>3, <2>1 DEF Runs
  <2>2. CASE n # 0
    <3>1. n - 1 \in Nat /\ (n - 1) + 1 = n
      BY <2>2
    <3>2. g[(n - 1) + 1] = Radix * g[n - 1]
      BY <1>4, <3>1
    <3> QED BY <2>2, <3>1, <3>2
  <2> QED BY <2>1, <2>2
<1> DEFINE Is(h) == h = [n \in Nat |-> IF n = 0 THEN 1 ELSE Radix * h[n - 1]]
<1>6. Is(g)
  <2>1. g = [n \in Nat |-> g[n]]
    BY <1>3
  <2> QED BY <1>5, <2>1
<1>7. Is(Power)
  <2>1. Power = CHOOSE h : Is(h)
    BY DEF Power
  <2> HIDE DEF Is
  <2> QED BY <1>6, <2>1
<1>8. ASSUME NEW n \in Nat PROVE Power[n] = IF n = 0 THEN 1 ELSE Radix * Power[n - 1]
  BY <1>7
<1>9. ASSUME NEW n \in Nat PROVE Power[n + 1] = Radix * Power[n]
  <2>1. n + 1 \in Nat /\ n + 1 # 0 /\ (n + 1) - 1 = n
    OBVIOUS
  <2> QED BY <1>8, <2>1
<1> QED BY <1>8, <1>9

LEMMA PowerPositive == \A n \in Nat : Power[n] \in Nat \ {0}
<1> DEFINE S == {n \in Nat : Power[n] \in Nat \ {0}}
<1>1. 0 \in S
  BY PowerSteps
<1>2. ASSUME NEW n \in S PROVE n + 1 \in S
  <2>1. Power[n + 1] = Radix * Power[n] /\ n \in Nat
    BY PowerSteps
  <2>2. ASSUME NEW p \in Nat \ {0} PROVE Radix * p \in Nat \ {0}
    BY PricesAssumption
  <2> QED BY <2>1, <2>2
<1>3. S \in SUBSET Nat
  OBVIOUS
<1> HIDE DEF S
<1>4. S = Nat
  BY <1>1, <1>2, <1>3, Induction
<1> QED BY <1>4 DEF S

LEMMA PowerAdds ==
    ASSUME NEW d \in Nat PROVE \A n \in Nat : Power[d + n] = Power[d] * Power[n]
<1> DEFINE S == {n \in Nat : Power[d + n] = Power[d] * Power[n]}
<1>1. 0 \in S
  BY PowerSteps, PowerPositive
<1>2. ASSUME NEW n \in S PROVE n + 1 \in S
  <2>1. Power[d + (n + 1)] = Radix * Power[d + n]
    <3>1. d + n \in Nat /\ d + (n + 1) = (d + n) + 1
      OBVIOUS
    <3> QED BY <3>1, PowerSteps
  <2>2. Power[n + 1] = Radix * Power[n]
    BY PowerSteps
  <2>3. Power[d] \in Nat /\ Power[n] \in Nat
    BY PowerPositive
  <2>4. Radix * (Power[d] * Power[n]) = Power[d] * (Radix * Power[n])
    BY <2>3, PricesAssumption
  <2> QED BY <2>1, <2>2, <2>4
<1>3. S \in SUBSET Nat
  OBVIOUS
<1> HIDE DEF S
<1>4. S = Nat
  BY <1>1, <1>2, <1>3, Induction
<1> QED BY <1>4 DEF S

-----------------------------------------------------------------------------
(* Arithmetic *)

LEMMA FloorBounds ==
    ASSUME NEW n \in Nat, NEW d \in Nat \ {0}
    PROVE  /\ n \div d \in Nat
           /\ (n \div d) * d <= n
           /\ n < (n \div d + 1) * d
<1>1. n = (n \div d) * d + (n % d) /\ (n % d) \in 0 .. d - 1 /\ n \div d \in Nat
  OBVIOUS
<1> DEFINE q == n \div d
           r == n % d
<1> HIDE DEF q, r
<1>2. n = q * d + r /\ r \in 0 .. d - 1 /\ q \in Nat
  BY <1>1 DEF q, r
<1>3. q * d <= n /\ n < (q + 1) * d
  BY <1>2
<1> QED BY <1>2, <1>3 DEF q

LEMMA TimesKeepsOrder ==
    ASSUME NEW a \in Int, NEW b \in Int, NEW c \in Nat
    PROVE  /\ a <= b => a * c <= b * c
           /\ a < b /\ c > 0 => a * c < b * c
OBVIOUS

LEMMA OrderWithoutFactor ==
    ASSUME NEW a \in Int, NEW b \in Int, NEW c \in Nat \ {0}, a * c < b * c
    PROVE  a < b
OBVIOUS

\* A number shifted by u places to the right and v to the left loses less than
\* a unit.
LEMMA ShiftedBounds ==
    ASSUME NEW n \in Nat, NEW u \in Nat, NEW v \in Nat
    PROVE  /\ Shifted(n, u - v) \in Nat
           /\ Shifted(n, u - v) * Power[v] <= n * Power[u]
           /\ n * Power[u] < (Shifted(n, u - v) + 1) * Power[v]
<1> DEFINE s == Shifted(n, u - v)
<1>1. Power[u] \in Nat \ {0} /\ Power[v] \in Nat \ {0}
  BY PowerPositive
<1>2. CASE u >= v
  <2>1. PICK e \in Nat : u - v = e /\ u = v + e
    BY <1>2
  <2>2. s = n * Power[e]
    BY <2>1 DEF Shifted
  <2>3. Power[u] = Power[v] * Power[e] /\ Power[e] \in Nat
    BY <2>1, PowerAdds, PowerPositive
  <2> DEFINE pe == Power[e]
             pv == Power[v]
             pu == Power[u]
  <2> HIDE DEF pe, pv, pu, s
  <2>4. s = n * pe /\ pu = pv * pe /\ pe \in Nat /\ pv \in Nat \ {0} /\ pu \in Nat
    BY <1>1, <2>2, <2>3 DEF pe, pv, pu
  <2>5. s \in Nat /\ s * pv = n * pu
    BY <2>4
  <2>6. s * pv < (s + 1) * pv
    BY <2>4, <2>5
  <2> QED BY <2>4, <2>5, <2>6 DEF s, pv, pu
<1>3. CASE u < v
  <2>1. PICK e \in Nat : -(u - v) = e /\ v = u + e /\ ~(u - v >= 0)
    <3>1. v - u \in Nat /\ -(u - v) = v - u /\ v = u + (v - u)
      BY <1>3
    <3> QED BY <1>3, <3>1
  <2>2. s = n \div Power[e]
    BY <2>1 DEF Shifted
  <2>3. Power[v] = Power[u] * Power[e] /\ Power[e] \in Nat \ {0}
    BY <2>1, PowerAdds, PowerPositive
  <2> DEFINE pe == Power[e]
             pv == Power[v]
             pu == Power[u]
  <2>4. s \in Nat /\ s * pe <= n /\ n < (s + 1) * pe
    BY <2>2, <2>3, FloorBounds
  <2> HIDE DEF pe, pv, pu, s
  <2>5. pv = pu * pe /\ pe \in Nat \ {0} /\ pv \in Nat /\ pu \in Nat \ {0}
    BY <1>1, <2>3 DEF pe, pv, pu
  <2>6. (s * pe) * pu <= n * pu /\ n * pu < ((s + 1) * pe) * pu
    BY <2>4, <2>5, TimesKeepsOrder
  <2>7. (s * pe) * pu = s * pv /\ ((s + 1) * pe) * pu = (s + 1) * pv
    BY <2>4, <2>5
  <2> QED BY <2>4, <2>6, <2>7 DEF s, pv, pu
<1> QED BY <1>2, <1>3

\* The bounds on the base atoms b of x, and on the quote atoms q of x times the
\* price y, with the powers of what is cut: the powers drop out.
LEMMA PriceBounds ==
    ASSUME NEW x \in Nat, NEW y \in Nat, NEW b \in Nat, NEW q \in Nat,
           NEW rb \in Nat \ {0}, NEW rq \in Nat \ {0}, NEW rf \in Nat \ {0}, NEW rp \in Nat \ {0},
           b * rf <= x * rb, x * rb < (b + 1) * rf,
           q * (rf * rp) <= (x * y) * rq, (x * y) * rq < (q + 1) * (rf * rp), q > 0
    PROVE  /\ b * (y * rq) < (q + 1) * (rp * rb)
           /\ q * (rp * rb) < (b + 1) * (y * rq)
<1>1. y * rq \in Nat \ {0} /\ rp * rb \in Nat \ {0} /\ rf * rp \in Nat \ {0}
  <2>1. q * (rf * rp) > 0
    <3>1. rf * rp > 0
      OBVIOUS
    <3> QED BY <3>1
  <2>2. (x * y) * rq > 0
    BY <2>1
  <2>3. y # 0
    BY <2>2
  <2> QED BY <2>3
<1> DEFINE N == y * rq
           D == rp * rb
<1>2. (b * N) * rf < ((q + 1) * D) * rf
  <2>1. (b * rf) * N <= (x * rb) * N
    BY <1>1, TimesKeepsOrder
  <2>2. (x * rb) * N = ((x * y) * rq) * rb
    OBVIOUS
  <2>3. ((x * y) * rq) * rb < ((q + 1) * (rf * rp)) * rb
    BY TimesKeepsOrder
  <2>4. ((q + 1) * (rf * rp)) * rb = ((q + 1) * D) * rf
    OBVIOUS
  <2>5. (b * rf) * N = (b * N) * rf
    BY <1>1
  <2> DEFINE x1 == (b * N) * rf
             x2 == (x * rb) * N
             x3 == ((q + 1) * D) * rf
  <2>6. x1 \in Int /\ x2 \in Int /\ x3 \in Int
    BY <1>1
  <2>7. x1 <= x2 /\ x2 < x3
    BY <2>1, <2>2, <2>3, <2>4, <2>5
  <2> HIDE DEF x1, x2, x3
  <2>8. x1 < x3
    BY <2>6, <2>7
  <2> QED BY <2>8 DEF x1, x3
<1>3. (q * D) * rf < ((b + 1) * N) * rf
  <2>1. (q * (rf * rp)) * rb <= ((x * y) * rq) * rb
    BY <1>1, TimesKeepsOrder
  <2>2. ((x * y) * rq) * rb = (x * rb) * N
    OBVIOUS
  <2>3. (x * rb) * N < ((b + 1) * rf) * N
    BY <1>1, TimesKeepsOrder
  <2>4. ((b + 1) * rf) * N = ((b + 1) * N) * rf /\ (q * (rf * rp)) * rb = (q * D) * rf
    BY <1>1
  <2> DEFINE x1 == (q * D) * rf
             x2 == (x * rb) * N
             x3 == ((b + 1) * N) * rf
  <2>5. x1 \in Int /\ x2 \in Int /\ x3 \in Int
    BY <1>1
  <2>6. x1 <= x2 /\ x2 < x3
    BY <2>1, <2>2, <2>3, <2>4
  <2> HIDE DEF x1, x2, x3
  <2>7. x1 < x3
    BY <2>5, <2>6
  <2> QED BY <2>7 DEF x1, x3
<1> HIDE DEF N, D
<1>4. N \in Nat /\ D \in Nat
  BY <1>1 DEF N, D
<1>5. b * N < (q + 1) * D
  BY <1>2, <1>4, OrderWithoutFactor
<1>6. q * D < (b + 1) * N
  BY <1>3, <1>4, OrderWithoutFactor
<1> QED BY <1>5, <1>6 DEF N, D

-----------------------------------------------------------------------------
(* The conversion of a level *)

\* What a level is converted to is numbers, within a unit of the exact ones.
LEMMA LevelBounds ==
    ASSUME NEW l \in TypedLevel, decimals \in Nat \X Nat
    PROVE  LET a == QtyPriceToAtoms(l)
               x == l.qty.digits
               y == l.price.digits
               rf == Power[l.qty.frac]
               rp == Power[l.price.frac]
               rb == Power[BaseDecimals]
               rq == Power[QuoteDecimals]
           IN  /\ a \in ParsedLevel
               /\ a.base_atoms * rf <= x * rb /\ x * rb < (a.base_atoms + 1) * rf
               /\ a.quote_atoms * (rf * rp) <= (x * y) * rq
               /\ (x * y) * rq < (a.quote_atoms + 1) * (rf * rp)
<1> DEFINE x == l.qty.digits
           y == l.price.digits
           f == l.qty.frac
           p == l.price.frac
           bd == BaseDecimals
           qd == QuoteDecimals
           b == Shifted(x, bd - f)
           q == Shifted(x * y, qd - f - p)
<1>1. x \in Nat /\ y \in Nat /\ f \in Nat /\ p \in Nat /\ bd \in Nat /\ qd \in Nat
  BY DEF TypedLevel, TypedNumbers, BaseDecimals, QuoteDecimals
<1>2. QtyPriceToAtoms(l) = [base_atoms |-> b, quote_atoms |-> q]
  BY DEF QtyPriceToAtoms, DecimalToAtoms, QuoteAtoms
<1> HIDE DEF x, y, f, p, bd, qd
<1>3. b \in Nat /\ b * Power[f] <= x * Power[bd] /\ x * Power[bd] < (b + 1) * Power[f]
  BY <1>1, ShiftedBounds
<1>4. x * y \in Nat /\ f + p \in Nat /\ qd - f - p = qd - (f + p)
  BY <1>1
<1>5. /\ q \in Nat /\ q * Power[f + p] <= (x * y) * Power[qd]
      /\ (x * y) * Power[qd] < (q + 1) * Power[f + p]
  <2>1. LET s == Shifted(x * y, qd - (f + p))
        IN  /\ s \in Nat /\ s * Power[f + p] <= (x * y) * Power[qd]
            /\ (x * y) * Power[qd] < (s + 1) * Power[f + p]
    BY <1>1, <1>4, ShiftedBounds
  <2> QED BY <1>4, <2>1
<1>6. Power[f + p] = Power[f] * Power[p]
  BY <1>1, PowerAdds
<1>7. /\ QtyPriceToAtoms(l).base_atoms = b /\ QtyPriceToAtoms(l).quote_atoms = q
      /\ QtyPriceToAtoms(l) \in ParsedLevel
  BY <1>2, <1>3, <1>5 DEF ParsedLevel
<1> HIDE DEF b, q
<1> QED BY <1>3, <1>5, <1>6, <1>7, Zenon DEF x, y, f, p, bd, qd

-----------------------------------------------------------------------------
(* The command *)

LEMMA PriceInvInit == PricesInit => PriceInv
<1> SUFFICES ASSUME PricesInit PROVE PriceInv
  OBVIOUS
<1>1. SweepInv /\ phase = "idle" /\ result = "none"
  BY SweepInitInv DEF PricesInit, SweepInit
<1>2. typed \in Seq(TypedLevel) /\ decimals \in Nat \X Nat /\ parsed = <<>> /\ cli = "parsing"
  BY PricesAssumption DEF PricesInit
<1>3. parsed \in Seq(ParsedLevel) /\ Len(parsed) = 0 /\ DOMAIN parsed = {}
  BY <1>2
<1>4. Len(typed) \in Nat
  BY <1>2
<1> QED BY <1>1, <1>2, <1>3, <1>4 DEF PriceInv

\* The sweep answers InvalidLevelOrdering for a window out of order, and
\* DegenerateLevelEntry for a level without atoms.
LEMMA RefusedFor ==
    ASSUME SweepInv, SweepStep, phase # "idle"
    PROVE  /\ levels' = levels /\ side' = side /\ amount_in' = amount_in /\ phase' # "idle"
           /\ result' = "InvalidLevelOrdering" /\ result # "InvalidLevelOrdering" =>
                 \E i \in 1 .. Len(levels) - 1 : ~WindowOrdered(side, levels[i], levels[i + 1])
           /\ result' = "DegenerateLevelEntry" /\ result # "DegenerateLevelEntry" =>
                 \E i \in 1 .. Len(levels) : Degenerate(levels[i])
<1>1. /\ levels \in Seq(Level) /\ w \in Nat \ {0} /\ k \in Nat \ {0} /\ Len(levels) \in Nat
  BY DEF SweepInv, SweepTypeOK
<1>2. CASE SortReject
  <2>1. w \in 1 .. Len(levels) - 1 /\ ~WindowOrdered(side, levels[w], levels[w + 1])
    BY <1>1, <1>2 DEF SortReject
  <2> QED BY <1>2, <2>1 DEF SortReject, Fail, args
<1>3. CASE RejectDegenerate
  <2>1. k \in 1 .. Len(levels) /\ Degenerate(levels[k])
    BY <1>1, <1>3 DEF RejectDegenerate, InLoop
  <2> QED BY <1>3, <2>1 DEF RejectDegenerate, Fail, args
<1>4. CASE SortWindow \/ SortDone \/ TakeWhole \/ TakePartial
  BY <1>4 DEF SortWindow, SortDone, TakeWhole, TakePartial, InLoop, args
<1>5. CASE RejectDust \/ RejectOverflow \/ RejectLiquidity \/ RejectSlippage \/ Finish
  BY <1>5 DEF RejectDust, RejectOverflow, RejectLiquidity, RejectSlippage, Finish, Fail, args
<1> QED BY <1>2, <1>3, <1>4, <1>5 DEF SweepStep

LEMMA PriceInvStep == PriceInv /\ [PricesNext]_priceVars => PriceInv'
<1> SUFFICES ASSUME PriceInv, [PricesNext]_priceVars PROVE PriceInv'
  OBVIOUS
<1>1. ASSUME cli' \in {"parsing", "threw"}, cli # "sent", UNCHANGED <<typed, decimals, parsed, sweepVars>>
      PROVE  PriceInv'
  <2>1. SweepInv'
    BY <1>1, SweepStutterInv DEF PriceInv
  <2> QED BY <1>1, <2>1 DEF PriceInv, QtyPriceToAtoms, DecimalToAtoms, QuoteAtoms, BaseDecimals,
             QuoteDecimals, ProducesZeroAtoms, sweepVars
<1>2. CASE NoLevels \/ ZeroLevel \/ EncodeFails
  BY <1>1, <1>2 DEF NoLevels, ZeroLevel, EncodeFails, AtLevel, AllParsed, Throw
<1>3. CASE ParseLevel
  <2> DEFINE a == NextLevel
             n == Len(parsed)
  <2>1. /\ cli = "parsing" /\ n < Len(typed) /\ ~ProducesZeroAtoms(a)
        /\ parsed' = Append(parsed, a) /\ UNCHANGED <<typed, decimals, cli, sweepVars>>
    BY <1>3 DEF ParseLevel, AtLevel
  <2>2. SweepInv'
    BY <2>1, SweepStutterInv DEF PriceInv
  <2>3. /\ parsed \in Seq(ParsedLevel) /\ n \in Nat
        /\ typed \in Seq(TypedLevel) /\ Len(typed) \in Nat /\ decimals \in Nat \X Nat
    BY DEF PriceInv
  <2>4. n + 1 \in 1 .. Len(typed) /\ typed[n + 1] \in TypedLevel
    BY <2>1, <2>3
  <2>5. a = QtyPriceToAtoms(typed[n + 1]) /\ a \in ParsedLevel
    BY <2>3, <2>4, LevelBounds DEF NextLevel
  <2> HIDE DEF a
  <2>6. /\ parsed' \in Seq(ParsedLevel) /\ Len(parsed') = n + 1
        /\ DOMAIN parsed' = 1 .. n + 1 /\ parsed'[n + 1] = a
        /\ \A i \in 1 .. n : parsed'[i] = parsed[i] /\ i \in DOMAIN parsed
    BY <2>1, <2>3, <2>5
  <2>7. ASSUME NEW i \in DOMAIN parsed'
        PROVE  parsed'[i] = QtyPriceToAtoms(typed[i]) /\ ~ProducesZeroAtoms(parsed'[i])
    <3>1. CASE i = n + 1
      BY <2>1, <2>5, <2>6, <3>1
    <3>2. CASE i # n + 1
      <4>1. i \in 1 .. n
        BY <2>3, <2>6, <3>2
      <4> QED BY <2>6, <4>1 DEF PriceInv
    <3> QED BY <3>1, <3>2
  <2>8. typed' = typed /\ decimals' = decimals /\ cli' = cli /\ UNCHANGED sweepVars
    BY <2>1
  <2>9. \A i \in DOMAIN parsed' :
           parsed'[i] = QtyPriceToAtoms(typed[i])' /\ ~ProducesZeroAtoms(parsed[i])'
    BY <2>7, <2>8 DEF QtyPriceToAtoms, DecimalToAtoms, QuoteAtoms, BaseDecimals, QuoteDecimals,
         ProducesZeroAtoms
  <2>10. Len(parsed') <= Len(typed')
    BY <2>4, <2>6, <2>8
  <2> QED BY <2>1, <2>2, <2>6, <2>8, <2>9, <2>10 DEF PriceInv, sweepVars
<1>4. CASE Send
  <2>1. PICK s \in Side, a \in Amounts, c \in MinOuts : Call(s, a, c, parsed)
    BY <1>4 DEF Send
  <2>2. /\ cli = "parsing" /\ typed # <<>> /\ Len(parsed) = Len(typed) /\ Encodable
        /\ cli' = "sent" /\ UNCHANGED <<typed, decimals, parsed>>
    BY <1>4 DEF Send, AllParsed
  <2>3. parsed \in Seq(Level) \ {<<>>}
    BY <2>2 DEF PriceInv, Encodable
  <2>4. a \in U64 /\ c \in U64 /\ a > 0
    BY InputsAssumption, U64MaxAssumption DEF U64
  <2>5. SweepInv'
    BY <2>1, <2>3, <2>4, CallInv DEF PriceInv
  <2>6. levels' = parsed /\ phase' = "sort" /\ result' = "none" /\ amount_in' = a
    BY <2>1 DEF Call
  <2>7. \A i \in DOMAIN parsed' :
           parsed'[i] = QtyPriceToAtoms(typed[i])' /\ ~ProducesZeroAtoms(parsed[i])'
    BY <2>2 DEF PriceInv, QtyPriceToAtoms, DecimalToAtoms, QuoteAtoms, BaseDecimals, QuoteDecimals,
         ProducesZeroAtoms
  <2> QED BY <2>2, <2>4, <2>5, <2>6, <2>7 DEF PriceInv
<1>5. CASE OnChain
  <2>1. cli = "sent" /\ SweepStep /\ UNCHANGED <<typed, decimals, parsed, cli>>
    BY <1>5 DEF OnChain, cliVars
  <2>2. phase # "idle" /\ SweepInv /\ levels = parsed
    BY <2>1 DEF PriceInv
  <2>3. SweepInv'
    BY <2>1, <2>2, SweepStepInv
  <2>4. \A i \in 1 .. Len(levels) : ~Degenerate(levels[i])
    <3> SUFFICES ASSUME NEW i \in 1 .. Len(levels) PROVE ~Degenerate(levels[i])
      OBVIOUS
    <3>1. i \in DOMAIN parsed /\ parsed \in Seq(ParsedLevel)
      BY <2>2 DEF PriceInv
    <3>2. ~ProducesZeroAtoms(parsed[i]) /\ levels[i] = parsed[i]
      BY <2>2, <3>1 DEF PriceInv
    <3>3. parsed[i] \in ParsedLevel
      BY <3>1
    <3> QED BY <3>2, <3>3 DEF ParsedLevel, ProducesZeroAtoms, Degenerate
  <2>5. /\ levels' = levels /\ side' = side /\ amount_in' = amount_in /\ phase' # "idle"
        /\ result' = "InvalidLevelOrdering" =>
              \E i \in 1 .. Len(levels) - 1 : ~WindowOrdered(side, levels[i], levels[i + 1])
        /\ result' # "DegenerateLevelEntry"
    BY <2>1, <2>2, <2>4, RefusedFor DEF PriceInv
  <2>6. \A i \in DOMAIN parsed' :
           parsed'[i] = QtyPriceToAtoms(typed[i])' /\ ~ProducesZeroAtoms(parsed[i])'
    BY <2>1 DEF PriceInv, QtyPriceToAtoms, DecimalToAtoms, QuoteAtoms, BaseDecimals, QuoteDecimals,
         ProducesZeroAtoms
  <2> QED BY <2>1, <2>2, <2>3, <2>5, <2>6 DEF PriceInv
<1>6. CASE UNCHANGED priceVars
  <2>1. SweepInv' /\ UNCHANGED <<typed, decimals, parsed, cli>> /\ UNCHANGED sweepVars
    BY <1>6, SweepStutterInv DEF PriceInv, priceVars, cliVars
  <2> QED BY <2>1 DEF PriceInv, QtyPriceToAtoms, DecimalToAtoms, QuoteAtoms, BaseDecimals,
             QuoteDecimals, ProducesZeroAtoms, sweepVars
<1> QED BY <1>2, <1>3, <1>4, <1>5, <1>6 DEF PricesNext

\* What is parsed is what was typed, and the program sweeps what was parsed.
THEOREM PriceInvariant == PricesSpec => []PriceInv
  BY PriceInvInit, PriceInvStep, PTL DEF PricesSpec

-----------------------------------------------------------------------------
(* The typed price *)

\* Level i, in the terms of the properties.
LEMMA KeptAt ==
    ASSUME PriceInv, NEW i \in DOMAIN parsed
    PROVE  /\ parsed[i].base_atoms \in Nat \ {0} /\ parsed[i].quote_atoms \in Nat \ {0}
           /\ Num(i) \in Nat \ {0} /\ Den(i) \in Nat \ {0}
           /\ parsed[i].base_atoms * Num(i) - Den(i) < parsed[i].quote_atoms * Den(i)
           /\ parsed[i].quote_atoms * Den(i) < (parsed[i].base_atoms + 1) * Num(i)
<1> DEFINE l == typed[i]
           a == QtyPriceToAtoms(l)
           b == parsed[i].base_atoms
           q == parsed[i].quote_atoms
           x == l.qty.digits
           y == l.price.digits
           rf == Power[l.qty.frac]
           rp == Power[l.price.frac]
           rb == Power[BaseDecimals]
           rq == Power[QuoteDecimals]
<1>1. /\ typed \in Seq(TypedLevel) /\ decimals \in Nat \X Nat /\ Len(parsed) <= Len(typed)
      /\ parsed \in Seq(ParsedLevel)
      /\ parsed[i] = a /\ ~ProducesZeroAtoms(parsed[i])
  BY DEF PriceInv
<1>2. l \in TypedLevel /\ parsed[i] \in ParsedLevel
  <2>1. Len(parsed) \in Nat /\ Len(typed) \in Nat /\ i \in 1 .. Len(parsed)
    BY <1>1
  <2>2. i \in 1 .. Len(typed)
    BY <1>1, <2>1
  <2> QED BY <1>1, <2>1, <2>2
<1>3. b \in Nat \ {0} /\ q \in Nat \ {0}
  BY <1>1, <1>2 DEF ParsedLevel, ProducesZeroAtoms
<1>4. /\ x \in Nat /\ y \in Nat /\ l.qty.frac \in Nat /\ l.price.frac \in Nat
      /\ BaseDecimals \in Nat /\ QuoteDecimals \in Nat
  BY <1>1, <1>2 DEF TypedLevel, TypedNumbers, BaseDecimals, QuoteDecimals
<1>5. rf \in Nat \ {0} /\ rp \in Nat \ {0} /\ rb \in Nat \ {0} /\ rq \in Nat \ {0}
  BY <1>4, PowerPositive
<1>6. /\ b * rf <= x * rb /\ x * rb < (b + 1) * rf
      /\ q * (rf * rp) <= (x * y) * rq /\ (x * y) * rq < (q + 1) * (rf * rp)
  BY <1>1, <1>2, LevelBounds
<1>7. Num(i) = y * rq /\ Den(i) = rp * rb
  BY <1>4, PowerAdds DEF Num, Den
<1> HIDE DEF b, q, x, y, rf, rp, rb, rq, a, l
<1>8. b * (y * rq) < (q + 1) * (rp * rb) /\ q * (rp * rb) < (b + 1) * (y * rq)
  BY <1>3, <1>4, <1>5, <1>6, PriceBounds
<1> DEFINE N == y * rq
           D == rp * rb
<1>9. N \in Nat /\ D \in Nat \ {0}
  BY <1>4, <1>5
<1> HIDE DEF N, D
<1>10. b * N < (q + 1) * D /\ q * D < (b + 1) * N
  BY <1>8 DEF N, D
<1>11. N # 0
  BY <1>3, <1>9, <1>10
<1>12. b * N - D < q * D
  <2>1. (q + 1) * D = q * D + D /\ b * N \in Int /\ q * D \in Int
    BY <1>3, <1>9
  <2> QED BY <1>9, <1>10, <2>1
<1>13. Num(i) = N /\ Den(i) = D
  BY <1>7 DEF N, D
<1> QED BY <1>3, <1>9, <1>10, <1>11, <1>12, <1>13 DEF b, q

\* Each level offers its base atoms at the typed price, but for less than one
\* quote atom down and the price of one base atom up, whatever is typed.
THEOREM PriceKept == PricesSpec => []TypedPriceKept
<1>1. PriceInv => TypedPriceKept
  BY KeptAt DEF TypedPriceKept
<1> QED BY <1>1, PriceInvariant, PTL

\* What an accepted sweep takes and gives at most, in terms of the first level.
LEMMA BestInv ==
    ASSUME PriceInv, phase = "done", result = "Ok"
    PROVE  /\ 1 \in DOMAIN parsed /\ side \in Side
           /\ out \in Nat /\ amount_in \in Nat \ {0}
           /\ out * Pay(side, parsed[1]) <= amount_in * Get(side, parsed[1])
<1>1. /\ SweepInv /\ levels = parsed /\ amount_in > 0
      /\ parsed \in Seq(ParsedLevel)
  BY DEF PriceInv
<1>2. /\ side \in Side /\ out \in Nat /\ amount_in \in Nat \ {0} /\ w \in 1 .. Len(levels)
      /\ levels \in Seq(Level)
  BY <1>1, U64MaxAssumption DEF SweepInv, SweepTypeOK, SortInv, U64
<1>3. Consumed = amount_in
  BY <1>1, <1>2 DEF SweepInv, AnswerInv, Consumed
<1>4. out * Pay(side, levels[1]) <= Consumed * Get(side, levels[1])
  BY <1>1 DEF SweepInv, BestBound
<1> QED BY <1>1, <1>2, <1>3, <1>4

\* The taker's atoms, at the price D : N of b and q atoms.
LEMMA FilledBound ==
    ASSUME NEW o \in Nat, NEW a \in Nat \ {0}, NEW b \in Nat \ {0}, NEW q \in Nat \ {0},
           NEW N \in Nat \ {0}, NEW D \in Nat \ {0}
    PROVE  /\ o * q <= a * b /\ b * N - D < q * D => o * (b * N - D) < a * b * D
           /\ o * b <= a * q /\ q * D < (b + 1) * N => o * b * D < a * (b + 1) * N
<1>1. ASSUME o * q <= a * b, b * N - D < q * D PROVE o * (b * N - D) < a * b * D
  <2> DEFINE z == b * N - D
  <2>1. z \in Int /\ z < q * D
    BY <1>1
  <2> HIDE DEF z
  <2>2. CASE o = 0
    <3>1. o * z = 0
      BY <2>1, <2>2
    <3>2. a * b \in Nat \ {0}
      OBVIOUS
    <3>3. a * b * D > 0
      BY <3>2
    <3> QED BY <3>1, <3>3 DEF z
  <2>3. CASE o # 0
    <3>1. z * o < (q * D) * o
      BY <2>1, <2>3, TimesKeepsOrder
    <3>2. (o * q) * D <= (a * b) * D
      BY <1>1, TimesKeepsOrder
    <3>3. (q * D) * o = (o * q) * D /\ z * o = o * z
      BY <2>1
    <3> DEFINE x1 == o * z
               x2 == (o * q) * D
               x3 == (a * b) * D
    <3>4. x1 \in Int /\ x2 \in Int /\ x3 \in Int
      BY <2>1
    <3>5. x1 < x2 /\ x2 <= x3
      BY <3>1, <3>2, <3>3
    <3> HIDE DEF x1, x2, x3
    <3>6. x1 < x3
      BY <3>4, <3>5
    <3> QED BY <3>6 DEF x1, x3, z
  <2> QED BY <2>2, <2>3
<1>2. ASSUME o * b <= a * q, q * D < (b + 1) * N PROVE o * b * D < a * (b + 1) * N
  <2>1. (o * b) * D <= (a * q) * D
    BY <1>2, TimesKeepsOrder
  <2>2. (q * D) * a < ((b + 1) * N) * a
    BY <1>2, TimesKeepsOrder
  <2>3. (q * D) * a = (a * q) * D /\ ((b + 1) * N) * a = a * (b + 1) * N
    OBVIOUS
  <2> DEFINE x1 == o * b * D
             x2 == (a * q) * D
             x3 == a * (b + 1) * N
  <2>4. x1 \in Int /\ x2 \in Int /\ x3 \in Int
    OBVIOUS
  <2>5. x1 <= x2 /\ x2 < x3
    BY <2>1, <2>2, <2>3
  <2> HIDE DEF x1, x2, x3
  <2>6. x1 < x3
    BY <2>4, <2>5
  <2> QED BY <2>6 DEF x1, x3
<1> QED BY <1>1, <1>2

\* What is traded keeps to the best typed price, but for one atom of the level,
\* after sorting, sweeping and flooring.
THEOREM FilledAsTyped == PricesSpec => []FilledAtTypedPrice
<1>1. PriceInv => FilledAtTypedPrice
  <2> SUFFICES ASSUME PriceInv, phase = "done", result = "Ok"
               PROVE  LET b == parsed[1].base_atoms
                      IN  IF side = "Bid"
                          THEN out * (b * Num(1) - Den(1)) < amount_in * b * Den(1)
                          ELSE out * b * Den(1) < amount_in * (b + 1) * Num(1)
    BY DEF FilledAtTypedPrice
  <2> DEFINE b == parsed[1].base_atoms
             q == parsed[1].quote_atoms
             N == Num(1)
             D == Den(1)
  <2>1. /\ 1 \in DOMAIN parsed /\ side \in Side /\ out \in Nat /\ amount_in \in Nat \ {0}
        /\ out * Pay(side, parsed[1]) <= amount_in * Get(side, parsed[1])
    BY BestInv
  <2>2. /\ b \in Nat \ {0} /\ q \in Nat \ {0} /\ N \in Nat \ {0} /\ D \in Nat \ {0}
        /\ b * N - D < q * D /\ q * D < (b + 1) * N
    BY <2>1, KeptAt
  <2>3. IF side = "Bid" THEN out * q <= amount_in * b ELSE out * b <= amount_in * q
    BY <2>1 DEF Pay, Get
  <2> HIDE DEF b, q, N, D
  <2>4. /\ out * q <= amount_in * b => out * (b * N - D) < amount_in * b * D
        /\ out * b <= amount_in * q => out * b * D < amount_in * (b + 1) * N
    BY <2>1, <2>2, FilledBound
  <2> QED BY <2>3, <2>4, Zenon DEF b, N, D
<1> QED BY <1>1, PriceInvariant, PTL

\* Two levels as far apart as Apart asks are in order.
LEMMA ApartBound ==
    ASSUME NEW b1 \in Nat \ {0}, NEW q1 \in Nat \ {0}, NEW n1 \in Nat \ {0}, NEW d1 \in Nat \ {0},
           NEW b2 \in Nat \ {0}, NEW q2 \in Nat \ {0}, NEW n2 \in Nat \ {0}, NEW d2 \in Nat \ {0},
           q1 * d1 < (b1 + 1) * n1, b2 * n2 - d2 < q2 * d2,
           (b1 + 1) * n1 * b2 * d2 <= b1 * (b2 * n2 - d2) * d1
    PROVE  q1 * b2 < q2 * b1
<1> DEFINE z == b2 * n2 - d2
           y == (b1 + 1) * n1
<1>1. z \in Int /\ y \in Nat /\ q1 * d1 < y /\ z < q2 * d2
  OBVIOUS
<1>2. y * b2 * d2 <= b1 * z * d1
  OBVIOUS
<1> HIDE DEF z, y
<1>3. b2 * d2 \in Nat \ {0} /\ b1 * d1 \in Nat \ {0} /\ d1 * d2 \in Nat \ {0}
  OBVIOUS
<1>4. (q1 * d1) * (b2 * d2) < y * (b2 * d2)
  BY <1>1, <1>3, TimesKeepsOrder
<1>5. z * (b1 * d1) < (q2 * d2) * (b1 * d1)
  BY <1>1, <1>3, TimesKeepsOrder
<1>6. y * (b2 * d2) = y * b2 * d2 /\ b1 * z * d1 = z * (b1 * d1)
  BY <1>1
<1>7. /\ (q1 * d1) * (b2 * d2) = (q1 * b2) * (d1 * d2)
      /\ (q2 * d2) * (b1 * d1) = (q2 * b1) * (d1 * d2)
  OBVIOUS
<1> DEFINE x1 == (q1 * b2) * (d1 * d2)
           x2 == y * b2 * d2
           x3 == b1 * z * d1
           x4 == (q2 * b1) * (d1 * d2)
<1>8. x1 \in Int /\ x2 \in Int /\ x3 \in Int /\ x4 \in Int
  BY <1>1
<1>9. x1 < x2 /\ x2 <= x3 /\ x3 < x4
  BY <1>2, <1>4, <1>5, <1>6, <1>7
<1> HIDE DEF x1, x2, x3, x4
<1>10. x1 < x4
  BY <1>8, <1>9
<1> QED BY <1>3, <1>10, OrderWithoutFactor DEF x1, x4

\* A user whose prices get worse by more than the atoms can blur is never told
\* that his levels are out of order or empty.
THEOREM ApartStaysInOrder == PricesSpec => []ApartIsInOrder
<1>1. PriceInv => ApartIsInOrder
  <2> SUFFICES ASSUME PriceInv, phase = "done", \A i \in 1 .. Len(parsed) - 1 : Apart(i),
                      result = "InvalidLevelOrdering"
               PROVE  FALSE
    BY DEF ApartIsInOrder, PriceInv
  <2>1. levels = parsed /\ parsed \in Seq(ParsedLevel) /\ side \in Side
    BY DEF PriceInv, SweepInv, SweepTypeOK
  <2>2. PICK i \in 1 .. Len(parsed) - 1 : ~WindowOrdered(side, parsed[i], parsed[i + 1])
    BY <2>1 DEF PriceInv
  <2> DEFINE b1 == parsed[i].base_atoms
             q1 == parsed[i].quote_atoms
             n1 == Num(i)
             d1 == Den(i)
             b2 == parsed[i + 1].base_atoms
             q2 == parsed[i + 1].quote_atoms
             n2 == Num(i + 1)
             d2 == Den(i + 1)
  <2>3. i \in DOMAIN parsed /\ i + 1 \in DOMAIN parsed
    BY <2>1
  <2>4. /\ b1 \in Nat \ {0} /\ q1 \in Nat \ {0} /\ n1 \in Nat \ {0} /\ d1 \in Nat \ {0}
        /\ b1 * n1 - d1 < q1 * d1 /\ q1 * d1 < (b1 + 1) * n1
    BY <2>3, KeptAt
  <2>5. /\ b2 \in Nat \ {0} /\ q2 \in Nat \ {0} /\ n2 \in Nat \ {0} /\ d2 \in Nat \ {0}
        /\ b2 * n2 - d2 < q2 * d2 /\ q2 * d2 < (b2 + 1) * n2
    BY <2>3, KeptAt
  <2>6. IF side = "Bid" THEN (b1 + 1) * n1 * b2 * d2 <= b1 * (b2 * n2 - d2) * d1
                        ELSE (b2 + 1) * n2 * b1 * d1 <= b2 * (b1 * n1 - d1) * d2
    BY Zenon DEF Apart
  <2>7. IF side = "Bid" THEN ~(q1 * b2 < q2 * b1) ELSE ~(q1 * b2 > q2 * b1)
    BY <2>2 DEF WindowOrdered
  <2> HIDE DEF b1, q1, n1, d1, b2, q2, n2, d2
  <2>8. CASE side = "Bid"
    <3>1. q1 * b2 < q2 * b1
      BY <2>4, <2>5, <2>6, <2>8, ApartBound
    <3> QED BY <2>7, <2>8, <3>1
  <2>9. CASE side # "Bid"
    <3>1. q2 * b1 < q1 * b2
      BY <2>4, <2>5, <2>6, <2>9, ApartBound
    <3> QED BY <2>4, <2>5, <2>7, <2>9, <3>1
  <2> QED BY <2>8, <2>9
<1> QED BY <1>1, PriceInvariant, PTL

=============================================================================
