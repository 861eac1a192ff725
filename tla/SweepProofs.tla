---------------------------- MODULE SweepProofs -----------------------------
(***************************************************************************)
(* For every u64::MAX, every ladder, amount and slippage bound: the sweep   *)
(* keeps its types (no u64 leaves its range), prices every fill between the *)
(* first and the last level it touched, gives the closed-form answer, and   *)
(* no split of the amount does better.                                     *)
(*                                                                         *)
(* The facts about prices are facts about products of naturals; they come   *)
(* first, so that the steps of the sweep below only have to name them.      *)
(***************************************************************************)
EXTENDS SweepQuote, Recursion

-----------------------------------------------------------------------------
(* Arithmetic.  A price is a pair (p, g): pay p, get g. *)

\* The floor of a quotient, from below and from above.
LEMMA DivBounds ==
    ASSUME NEW a \in Nat, NEW b \in Nat, b > 0
    PROVE  /\ a \div b \in Nat
           /\ (a \div b) * b <= a
           /\ a < (a \div b + 1) * b
BY SMT

\* Strictly worse prices compose: what assert_sorted checks for neighbours
\* holds between distant levels.
LEMMA WorseTransitive ==
    ASSUME NEW p1 \in Nat, NEW g1 \in Nat, NEW p2 \in Nat, NEW g2 \in Nat,
           NEW p3 \in Nat, NEW g3 \in Nat,
           p1 * g2 < p2 * g1, p2 * g3 < p3 * g2
    PROVE  p1 * g3 < p3 * g1
BY SMT

\* A floored share of a level stays below that level's price, and so below
\* any better one.
LEMMA ShareBelowBest ==
    ASSUME NEW x \in Nat, NEW r \in Nat, NEW p \in Nat, NEW g \in Nat,
           NEW bp \in Nat, NEW bg \in Nat,
           x * p <= r * g, bp * g <= p * bg, p > 0
    PROVE  x * bp <= r * bg
BY SMT

\* Adding two fills that respect a bound gives one that does.
LEMMA AddBelow ==
    ASSUME NEW o \in Nat, NEW x \in Nat, NEW c \in Nat, NEW r \in Nat,
           NEW p \in Nat, NEW g \in Nat, o * p <= c * g, x * p <= r * g
    PROVE  (o + x) * p <= (c + r) * g
BY SMT

\* Adding a fill that is an atom short of its price to one at or above its
\* price leaves the sum less than an atom short.
LEMMA AddAbove ==
    ASSUME NEW o \in Nat, NEW x \in Nat, NEW c \in Nat, NEW r \in Nat,
           NEW p \in Nat, NEW g \in Nat, o * p >= c * g, p > 0
    PROVE  /\ x * p >= r * g => /\ (o + x) * p >= (c + r) * g
                                /\ (o + x + 1) * p > (c + r) * g
           /\ (x + 1) * p > r * g => (o + x + 1) * p > (c + r) * g
BY SMT

\* A fill at or above a price is above it with one more output atom.
LEMMA OneMoreAtom ==
    ASSUME NEW o \in Nat, NEW c \in Nat, NEW p \in Nat, NEW g \in Nat, p > 0,
           o * p >= c * g
    PROVE  (o + 1) * p > c * g
BY SMT

\* A fill no worse than one price is no worse than a strictly worse price.
LEMMA NoWorseThanNext ==
    ASSUME NEW o \in Nat, NEW c \in Nat, NEW p \in Nat, NEW g \in Nat,
           NEW np \in Nat, NEW ng \in Nat,
           o * p >= c * g, p * ng < np * g
    PROVE  o * np >= c * ng
BY SMT

\* Leaving input on a level to use it on a worse one gains nothing: x of the
\* level's g atoms for f of its p, the rest at the price (q, h).
LEMMA EarlierIsBetter ==
    ASSUME NEW x \in Nat, NEW f \in Nat, NEW p \in Nat, NEW g \in Nat,
           NEW q \in Nat, NEW h \in Nat,
           p > 0, f <= p, x * p <= f * g, p * h <= q * g
    PROVE  x * q + p * h <= g * q + f * h
<1>1. PICK d \in Nat : p = f + d
  <2>1. p - f \in Nat /\ p = f + (p - f)
    OBVIOUS
  <2> QED BY <2>1
<1>2. x <= g
  <2>1. f * g <= p * g
    BY SMT
  <2>2. x * p <= g * p
    BY <2>1
  <2> QED BY <2>2
<1>3. PICK e \in Nat : g = x + e
  <2>1. g - x \in Nat /\ g = x + (g - x)
    BY <1>2
  <2> QED BY <2>1
<1>4. d * g <= e * p
  BY <1>1, <1>3
<1>5. (d * h) * p <= (e * q) * p
  <2>1. d * (p * h) <= d * (q * g)
    BY <1>1
  <2>2. q * (d * g) <= q * (e * p)
    BY <1>4
  <2>3. d * (p * h) = (d * h) * p /\ d * (q * g) = q * (d * g) /\ q * (e * p) = (e * q) * p
    BY SMT
  <2> QED BY <2>1, <2>2, <2>3
<1>6. d * h <= e * q
  BY <1>5
<1>7. p * h = f * h + d * h /\ g * q = x * q + e * q
  BY <1>1, <1>3
<1> QED BY <1>6, <1>7

\* Two bounds on sums of fills give one on the sum with a term more.
LEMMA AddTerm ==
    ASSUME NEW t \in Nat, NEW d \in Nat, NEW e \in Nat, NEW c \in Nat,
           NEW x \in Nat, NEW p \in Nat, NEW g \in Nat, NEW f \in Nat,
           NEW q \in Nat, NEW h \in Nat,
           t * q + d * h <= e * q + c * h
    PROVE  /\ x * q + p * h <= g * q + f * h =>
                 (t + x) * q + (d + p) * h <= (e + g) * q + (c + f) * h
           /\ x * q <= f * h => (t + x) * q + d * h <= e * q + (c + f) * h
BY SMT

\* What one gets beyond e at the price (q, h), floored, is what a partial fill
\* of the level gives.
LEMMA FloorCloses ==
    ASSUME NEW t \in Nat, NEW d \in Nat, NEW e \in Nat, NEW a \in Nat,
           NEW y \in Nat, NEW q \in Nat, NEW h \in Nat,
           q > 0, d <= a,
           t * q + d * h <= e * q + a * h, (a - d) * h < (y + 1) * q
    PROVE  t <= e + y
<1>1. PICK r \in Nat : a = d + r
  <2>1. a - d \in Nat /\ a = d + (a - d)
    OBVIOUS
  <2> QED BY <2>1
<1>2. t * q <= e * q + r * h
  BY <1>1
<1>3. r * h < (y + 1) * q
  BY <1>1
<1>4. t * q < (e + y + 1) * q
  BY <1>2, <1>3
<1> QED BY <1>4

-----------------------------------------------------------------------------
(* Levels *)

\* A level pays and gets u64 amounts on either side; a level that is not
\* degenerate pays and gets at least an atom.
LEMMA LevelAtoms ==
    ASSUME NEW s \in Side, NEW l \in Level
    PROVE  /\ Pay(s, l) \in U64 /\ Pay(s, l) \in Nat
           /\ Get(s, l) \in U64 /\ Get(s, l) \in Nat
           /\ ~Degenerate(l) <=> Pay(s, l) > 0 /\ Get(s, l) > 0
BY U64MaxAssumption DEF Pay, Get, Level, U64, Degenerate, Side

\* For either side the sort check asks for a strictly worse price.
LEMMA OrderedIsWorse ==
    ASSUME NEW s \in Side, NEW l0 \in Level, NEW l1 \in Level
    PROVE  WindowOrdered(s, l0, l1) <=> Pay(s, l0) * Get(s, l1) < Pay(s, l1) * Get(s, l0)
<1>1. CASE s = "Bid"
  BY <1>1, U64MaxAssumption DEF WindowOrdered, Pay, Get, Level, U64
<1>2. CASE s = "Ask"
  BY <1>2, U64MaxAssumption DEF WindowOrdered, Pay, Get, Level, U64
<1> QED BY <1>1, <1>2 DEF Side

\* A floored share of a level: never more than the level, never above its
\* price, and less than one atom below it.
LEMMA PartialBounds ==
    ASSUME NEW s \in Side, NEW l \in Level, ~Degenerate(l),
           NEW in \in Nat, in < Pay(s, l)
    PROVE  /\ PartialOut(s, in, l) \in Nat
           /\ PartialOut(s, in, l) <= Get(s, l)
           /\ PartialOut(s, in, l) * Pay(s, l) <= in * Get(s, l)
           /\ (PartialOut(s, in, l) + 1) * Pay(s, l) > in * Get(s, l)
<1> DEFINE p == Pay(s, l)
           g == Get(s, l)
           x == PartialOut(s, in, l)
<1>1. p \in Nat /\ g \in Nat /\ p > 0
  BY LevelAtoms
<1>2. in * g \in Nat /\ x = (in * g) \div p
  BY <1>1 DEF PartialOut
<1>3. x \in Nat /\ x * p <= in * g /\ in * g < (x + 1) * p
  <2> HIDE DEF p, g, x
  <2> QED BY <1>1, <1>2, DivBounds
<1>4. x <= g
  <2> HIDE DEF x, p, g
  <2>1. in * g <= p * g
    BY <1>1 DEF p
  <2>2. x * p <= g * p
    BY <2>1, <1>1, <1>3
  <2> QED BY <2>2, <1>1, <1>3
<1> QED BY <1>3, <1>4

-----------------------------------------------------------------------------
(* The closed form, level by level *)

\* What the first i levels take, and one more.
LEMMA DepthSteps ==
    ASSUME NEW s \in Side, NEW ls \in Seq(Level)
    PROVE  /\ Depth(s, ls, 0) = 0
           /\ \A i \in 0 .. Len(ls) : Depth(s, ls, i) \in Nat
           /\ \A i \in 0 .. Len(ls) - 1 :
                 Depth(s, ls, i + 1) = Depth(s, ls, i) + Pay(s, ls[i + 1])
<1>1. ASSUME NEW i \in 1 .. Len(ls) PROVE Pay(s, ls[i]) \in Nat
  BY LevelAtoms
<1>2. Depth(s, ls, 0) = 0
  <2>1. 1 .. 0 = {}
    OBVIOUS
  <2> QED BY <2>1, SumNone DEF Depth, SumFunction
<1>3. ASSUME NEW i \in 0 .. Len(ls) PROVE Depth(s, ls, i) \in Nat
  <2> DEFINE f == [j \in 1 .. i |-> Pay(s, ls[j])]
  <2>1. IsFiniteSet(1 .. i)
    BY FS_Interval
  <2>2. \A j \in 1 .. i : f[j] \in Nat
    BY <1>1
  <2>3. Depth(s, ls, i) = SumFunctionOnSet(f, 1 .. i)
    BY DEF Depth, SumFunction
  <2> HIDE DEF f
  <2> QED BY <2>1, <2>2, <2>3, SumNat
<1>4. ASSUME NEW i \in 0 .. Len(ls) - 1
      PROVE  Depth(s, ls, i + 1) = Depth(s, ls, i) + Pay(s, ls[i + 1])
  <2> DEFINE f == [j \in 1 .. i + 1 |-> Pay(s, ls[j])]
             g == [j \in 1 .. i |-> Pay(s, ls[j])]
  <2>1. DOMAIN f = 1 .. i + 1 /\ DOMAIN g = 1 .. i /\ i \in Nat
    OBVIOUS
  <2>2. \A j \in 1 .. i : g[j] = f[j]
    OBVIOUS
  <2>3. \A j \in 1 .. i + 1 : f[j] \in Int
    BY <1>1
  <2>4. f[i + 1] = Pay(s, ls[i + 1])
    OBVIOUS
  <2>5. Depth(s, ls, i + 1) = SumFunction(f) /\ Depth(s, ls, i) = SumFunction(g)
    BY DEF Depth
  <2> HIDE DEF f, g
  <2>6. SumFunction(f) = SumFunction(g) + f[i + 1]
    BY <2>1, <2>2, <2>3, SumGrows
  <2> QED BY <2>4, <2>5, <2>6
<1> QED BY <1>2, <1>3, <1>4

\* More levels take no less.
LEMMA DepthMonotone ==
    ASSUME NEW s \in Side, NEW ls \in Seq(Level), NEW i \in 0 .. Len(ls)
    PROVE  \A j \in i .. Len(ls) : Depth(s, ls, i) <= Depth(s, ls, j)
<1> DEFINE S == {n \in Nat : i + n <= Len(ls) => Depth(s, ls, i) <= Depth(s, ls, i + n)}
<1>1. S \in SUBSET Nat
  OBVIOUS
<1>2. 0 \in S
  BY DepthSteps
<1>3. ASSUME NEW n \in S PROVE n + 1 \in S
  <2> SUFFICES ASSUME i + (n + 1) <= Len(ls)
               PROVE  Depth(s, ls, i) <= Depth(s, ls, i + (n + 1))
    OBVIOUS
  <2>1. Depth(s, ls, i) <= Depth(s, ls, i + n)
    OBVIOUS
  <2>2. i + n \in 0 .. Len(ls) - 1 /\ i + (n + 1) = (i + n) + 1 /\ (i + n) + 1 \in 1 .. Len(ls)
    OBVIOUS
  <2>3. Depth(s, ls, (i + n) + 1) = Depth(s, ls, i + n) + Pay(s, ls[(i + n) + 1])
    BY <2>2, DepthSteps
  <2>4. Pay(s, ls[(i + n) + 1]) \in Nat
    BY <2>2, LevelAtoms
  <2>5. Depth(s, ls, i) \in Nat /\ Depth(s, ls, i + n) \in Nat
    BY <2>2, DepthSteps
  <2> QED BY <2>1, <2>2, <2>3, <2>4, <2>5
<1> HIDE DEF S
<1>4. S = Nat
  BY <1>1, <1>2, <1>3, Induction
<1> SUFFICES ASSUME NEW j \in i .. Len(ls) PROVE Depth(s, ls, i) <= Depth(s, ls, j)
  OBVIOUS
<1>5. j - i \in S /\ i + (j - i) = j
  BY <1>4
<1> QED BY <1>5 DEF S

\* A level that is reached gives a number of atoms.
LEMMA ShareType ==
    ASSUME NEW s \in Side, NEW ls \in Seq(Level), NEW a \in Nat, NEW i \in 1 .. Len(ls),
           ~Degenerate(ls[i]), Depth(s, ls, i - 1) < a
    PROVE  Share(s, a, ls, i) \in Nat
<1> DEFINE in == a - Depth(s, ls, i - 1)
<1>1. in \in Nat
  BY DepthSteps
<1>2. Pay(s, ls[i]) \in Nat /\ Get(s, ls[i]) \in Nat
  BY LevelAtoms
<1> HIDE DEF in
<1>3. in < Pay(s, ls[i]) => PartialOut(s, in, ls[i]) \in Nat
  BY <1>1, PartialBounds
<1>4. Share(s, a, ls, i) = IF in >= Pay(s, ls[i]) THEN Get(s, ls[i]) ELSE PartialOut(s, in, ls[i])
  BY DEF Share, in
<1> QED BY <1>1, <1>2, <1>3, <1>4

\* What the first i levels give, and one more.
LEMMA TotalSteps ==
    ASSUME NEW s \in Side, NEW ls \in Seq(Level), NEW a \in Nat, NEW i \in 0 .. Len(ls) - 1,
           \A j \in 1 .. i + 1 : ~Degenerate(ls[j]) /\ Depth(s, ls, j - 1) < a
    PROVE  Total(s, a, ls, i + 1) = Total(s, a, ls, i) + Share(s, a, ls, i + 1)
<1> DEFINE f == [j \in 1 .. i + 1 |-> Share(s, a, ls, j)]
           g == [j \in 1 .. i |-> Share(s, a, ls, j)]
<1>1. DOMAIN f = 1 .. i + 1 /\ DOMAIN g = 1 .. i /\ i \in Nat
  OBVIOUS
<1>2. \A j \in 1 .. i : g[j] = f[j]
  OBVIOUS
<1>3. ASSUME NEW j \in 1 .. i + 1 PROVE f[j] \in Int
  <2>1. j \in 1 .. Len(ls) /\ f[j] = Share(s, a, ls, j)
    OBVIOUS
  <2> QED BY <2>1, ShareType
<1>4. f[i + 1] = Share(s, a, ls, i + 1)
  OBVIOUS
<1>5. Total(s, a, ls, i + 1) = SumFunction(f) /\ Total(s, a, ls, i) = SumFunction(g)
  BY DEF Total
<1> HIDE DEF f, g
<1>6. SumFunction(f) = SumFunction(g) + f[i + 1]
  BY <1>1, <1>2, <1>3, SumGrows
<1> QED BY <1>4, <1>5, <1>6

\* Nothing is given for no level.
LEMMA TotalNone == \A s, a, ls : Total(s, a, ls, 0) = 0
<1>1. 1 .. 0 = {}
  OBVIOUS
<1> QED BY <1>1, SumNone DEF Total, SumFunction

-----------------------------------------------------------------------------
(* The invariant, one lemma per kind of step *)

\* The invariant holds when nothing has been called.
LEMMA SweepInitInv == SweepInit => SweepInv
BY U64MaxAssumption
   DEF SweepInit, SweepInv, SweepTypeOK, SortInv, LoopInv, BestBound, WorstBound, AnswerInv,
       Side, U64, SweepErrors

\* A call that presents u64 arguments and a non-empty ladder starts within it.
LEMMA CallInv ==
    ASSUME SweepInv,
           NEW s \in Side, NEW a \in U64, NEW m \in U64, NEW ls \in Seq(Level) \ {<<>>},
           Call(s, a, m, ls)
    PROVE  SweepInv'
<1> USE DEF Call
<1>1. SweepTypeOK'
  BY U64MaxAssumption DEF SweepInv, SweepTypeOK, U64
<1>2. Len(ls) \in Nat /\ Len(ls) >= 1 /\ ls[1] \in Level
  OBVIOUS
<1>3. SortInv'
  BY <1>2 DEF SortInv
<1>4. LoopInv'
  BY <1>2, U64MaxAssumption DEF LoopInv, U64
<1>5. BestBound'
  BY <1>2, LevelAtoms, U64MaxAssumption DEF BestBound, Consumed, U64
<1>6. WorstBound' /\ AnswerInv'
  BY DEF WorstBound, AnswerInv
<1> QED BY <1>1, <1>3, <1>4, <1>5, <1>6 DEF SweepInv

\* The locals are gone with the call.
LEMMA ReturnInv == ASSUME SweepInv, Return PROVE SweepInv'
BY U64MaxAssumption
   DEF Return, SweepInv, SweepTypeOK, SortInv, LoopInv, BestBound, WorstBound, AnswerInv,
       Side, U64, SweepErrors

\* Refusing changes nothing the bounds speak of.
LEMMA FailInv ==
    ASSUME SweepInv, phase \in {"sort", "sweep"}, NEW e \in SweepErrors, Fail(e)
    PROVE  SweepInv'
BY DEF Fail, SweepErrors, args, SweepInv, SweepTypeOK, SortInv, LoopInv, BestBound, WorstBound,
       AnswerInv,
       Consumed, Ordered

\* assert_sorted adds one ordered window to those it has seen.
LEMMA SortWindowInv == ASSUME SweepInv, SortWindow PROVE SweepInv'
<1> USE DEF SortWindow, args
<1>1. SweepTypeOK'
  BY DEF SweepInv, SweepTypeOK
<1>2. SortInv'
  BY DEF SweepInv, SweepTypeOK, SortInv, Ordered
<1>3. LoopInv' /\ BestBound' /\ WorstBound' /\ AnswerInv'
  BY DEF SweepInv, LoopInv, BestBound, WorstBound, AnswerInv, Consumed, Ordered
<1> QED BY <1>1, <1>2, <1>3 DEF SweepInv

\* The sweep starts on a ladder whose windows were all seen.
LEMMA SortDoneInv == ASSUME SweepInv, SortDone PROVE SweepInv'
BY DEF SortDone, args, SweepInv, SweepTypeOK, SortInv, LoopInv, BestBound,
       WorstBound, AnswerInv, Consumed, Ordered

\* Answering Ok changes nothing the bounds speak of.
LEMMA FinishInv == ASSUME SweepInv, Finish PROVE SweepInv'
BY DEF Finish, LoopOver, args, SweepInv, SweepTypeOK, SortInv, LoopInv, BestBound,
       WorstBound, AnswerInv, Consumed, Ordered

\* What a level contributes, whole or partial, keeps both bounds.  take is the
\* input the level takes.
LEMMA TakeInv ==
    ASSUME SweepInv, InLoop, ~Degenerate(levels[k]),
           NEW take \in Nat,
           take = IF WholeLevel THEN Pay(side, levels[k]) ELSE remaining,
           LevelOut > 0,
           out + LevelOut <= U64Max,
           remaining' = remaining - take,
           out' = out + LevelOut,
           k' = k + 1,
           UNCHANGED <<args, phase, w, result>>
    PROVE  SweepInv'
<1> DEFINE l == levels[k]
           p == Pay(side, l)
           g == Get(side, l)
           x == LevelOut
           c == Consumed
<1>1. /\ side \in Side /\ levels \in Seq(Level)
      /\ k \in 1 .. Len(levels) /\ phase = "sweep" /\ remaining # 0
      /\ Len(levels) \in Nat
      /\ out \in Nat /\ remaining \in Nat /\ amount_in \in Nat
      /\ remaining <= amount_in /\ amount_in <= U64Max /\ U64Max \in Nat
  BY U64MaxAssumption DEF SweepInv, SweepTypeOK, LoopInv, InLoop, U64
<1>2. l \in Level /\ levels[1] \in Level
  BY <1>1
<1>3. p \in Nat /\ g \in Nat /\ p > 0 /\ g > 0
  BY <1>1, <1>2, LevelAtoms
<1>4. /\ Pay(side, levels[1]) \in Nat
      /\ Get(side, levels[1]) \in Nat
  BY <1>1, <1>2, LevelAtoms
<1>5. take <= remaining /\ c \in Nat /\ c = amount_in - remaining
  BY <1>1, <1>3 DEF WholeLevel, Consumed
<1>6. /\ x \in Nat
      /\ x * p <= take * g
      /\ WholeLevel => x * p >= take * g
      /\ ~WholeLevel => (x + 1) * p > take * g
  <2>1. CASE WholeLevel
    BY <2>1, <1>3 DEF LevelOut
  <2>2. CASE ~WholeLevel
    BY <2>2, <1>1, <1>2, <1>3, PartialBounds DEF LevelOut, WholeLevel
  <2> QED BY <2>1, <2>2
<1>7. /\ levels' = levels /\ side' = side /\ phase' = phase /\ w' = w
      /\ amount_in' = amount_in /\ min_out' = min_out /\ result' = result
  BY DEF args
<1>8. Consumed' = c + take /\ remaining' \in Nat
  BY <1>1, <1>5, <1>7 DEF Consumed
<1>9. SweepTypeOK'
  BY <1>1, <1>5, <1>6, <1>7, <1>8 DEF SweepInv, SweepTypeOK, U64
<1>10. SortInv'
  BY <1>7 DEF SweepInv, SortInv, Ordered
<1>11. LoopInv'
  <2>1. k' \in 1 .. Len(levels) + 1 /\ k' # 1
    BY <1>1
  <2>2. \A i \in 1 .. k' - 1 : ~Degenerate(levels[i])
    BY <1>1 DEF SweepInv, LoopInv
  <2>3. ASSUME k' <= Len(levels) PROVE WindowOrdered(side, levels[1], levels[k + 1])
    <3>1. k \in 1 .. w - 1 /\ w = Len(levels)
      BY <2>3, <1>1 DEF SweepInv, SortInv
    <3>2. WindowOrdered(side, levels[k], levels[k + 1])
      BY <3>1, <1>1 DEF SweepInv, SortInv, Ordered
    <3>3. CASE k = 1
      BY <3>2, <3>3
    <3>4. CASE k > 1
      <4>1. WindowOrdered(side, levels[1], levels[k])
        BY <3>4, <1>1 DEF SweepInv, LoopInv, Ordered
      <4>2. levels[k + 1] \in Level
        BY <2>3, <1>1
      <4>3. /\ Pay(side, levels[k + 1]) \in Nat
            /\ Get(side, levels[k + 1]) \in Nat
        BY <4>2, <1>1, LevelAtoms
      <4> HIDE DEF l, p, g
      <4>4. /\ Pay(side, levels[1]) * g < p * Get(side, levels[1])
            /\ p * Get(side, levels[k + 1]) < Pay(side, levels[k + 1]) * g
        BY <4>1, <3>2, <4>2, <1>1, <1>2, OrderedIsWorse DEF l, p, g
      <4>5. Pay(side, levels[1]) * Get(side, levels[k + 1])
              < Pay(side, levels[k + 1]) * Get(side, levels[1])
        BY <4>4, <4>3, <1>3, <1>4, WorseTransitive
      <4> QED BY <4>5, <4>2, <1>1, <1>2, OrderedIsWorse
    <3> QED BY <3>3, <3>4, <1>1
  <2> QED BY <2>1, <2>2, <2>3, <1>1, <1>5, <1>7, <1>8 DEF LoopInv, Ordered
<1>12. BestBound'
  <2> DEFINE bp == Pay(side, levels[1])
             bg == Get(side, levels[1])
  <2>1. bp * g <= p * bg
    <3>1. CASE k = 1
      BY <3>1, <1>3
    <3>2. CASE k > 1
      <4>1. WindowOrdered(side, levels[1], levels[k])
        BY <3>2, <1>1 DEF SweepInv, LoopInv, Ordered
      <4> HIDE DEF x, c
      <4>2. bp * g < p * bg
        BY <4>1, <1>1, <1>2, OrderedIsWorse, Zenon
      <4>3. bp * g \in Nat /\ p * bg \in Nat
        BY <1>3, <1>4
      <4> HIDE DEF p, g, bp, bg
      <4> QED BY <4>2, <4>3
    <3> QED BY <3>1, <3>2, <1>1
  <2>2. out * bp <= c * bg
    BY <1>1 DEF SweepInv, BestBound
  <2>3. x * bp <= take * bg
    <3> HIDE DEF l, p, g, x, bp, bg
    <3> QED BY <2>1, <1>3, <1>4, <1>6, ShareBelowBest DEF bp, bg
  <2>4. (out + x) * bp <= (c + take) * bg
    <3> HIDE DEF x, c, bp, bg
    <3> QED BY <2>2, <2>3, <1>1, <1>4, <1>5, <1>6, AddBelow DEF bp, bg
  <2> QED BY <2>4, <1>7, <1>8 DEF BestBound
<1>13. WorstBound'
  <2>1. out * p >= c * g
    <3>1. CASE k = 1
      BY <3>1, <1>1, <1>3 DEF SweepInv, LoopInv, Consumed
    <3>2. CASE k > 1
      <4> DEFINE q == Pay(side, levels[k - 1])
                 h == Get(side, levels[k - 1])
      <4>1. levels[k - 1] \in Level /\ k - 1 \in 1 .. w - 1
        BY <3>2, <1>1 DEF SweepInv, SortInv
      <4>2. q \in Nat /\ h \in Nat
        BY <4>1, <1>1, LevelAtoms
      <4>3. out * q >= c * h
        BY <3>2, <1>1 DEF SweepInv, WorstBound
      <4>4. WindowOrdered(side, levels[k - 1], levels[k])
        <5>1. Ordered(k - 1, (k - 1) + 1)
          BY <4>1, <1>1 DEF SweepInv, SortInv
        <5>2. (k - 1) + 1 = k
          BY <1>1
        <5> QED BY <5>1, <5>2 DEF Ordered
      <4>5. q * g < p * h
        BY <4>4, <4>1, <1>1, <1>2, OrderedIsWorse
      <4> HIDE DEF l, p, g, q, h, c
      <4> QED BY <4>2, <4>3, <4>5, <1>1, <1>3, <1>5, NoWorseThanNext
    <3> QED BY <3>1, <3>2, <1>1
  <2>2. /\ WholeLevel => (out + x) * p >= (c + take) * g
        /\ (out + x + 1) * p > (c + take) * g
    <3> HIDE DEF x, p, g, c
    <3> QED BY <2>1, <1>1, <1>3, <1>5, <1>6, AddAbove
  <2>3. ~WholeLevel => remaining' = 0
    BY <1>1
  <2>4. levels'[k' - 1] = l /\ Pay(side', l) = p /\ Get(side', l) = g
    BY <1>1, <1>7
  <2> QED BY <2>2, <2>3, <2>4, <1>7, <1>8 DEF WorstBound
<1>14. AnswerInv'
  BY <1>1, <1>7 DEF AnswerInv
<1> QED BY <1>9, <1>10, <1>11, <1>12, <1>13, <1>14 DEF SweepInv

\* Every step of the sort check and the sweep keeps the invariant.
LEMMA SweepStepInv == ASSUME SweepInv, SweepStep PROVE SweepInv'
<1> USE DEF InLoop, LoopOver
<1>1. CASE SortWindow BY <1>1, SortWindowInv
<1>2. CASE SortReject BY <1>2, FailInv DEF SortReject, SweepErrors
<1>3. CASE SortDone BY <1>3, SortDoneInv
<1>4. CASE RejectDegenerate BY <1>4, FailInv DEF RejectDegenerate, SweepErrors
<1>5. CASE TakeWhole
  <2>1. /\ side \in Side /\ levels[k] \in Level
        /\ out \in Nat /\ remaining \in Nat
    BY <1>5, U64MaxAssumption DEF TakeWhole, SweepInv, SweepTypeOK, LoopInv, U64
  <2>2. Pay(side, levels[k]) \in Nat /\ Get(side, levels[k]) > 0
    BY <1>5, <2>1, LevelAtoms DEF TakeWhole
  <2>3. LevelOut > 0
    BY <1>5, <2>2 DEF TakeWhole, LevelOut
  <2> QED BY <1>5, <2>2, <2>3, TakeInv DEF TakeWhole, args
<1>6. CASE TakePartial
  <2>1. remaining \in Nat /\ remaining' = remaining - remaining
    BY <1>6, U64MaxAssumption DEF TakePartial, SweepInv, SweepTypeOK, U64
  <2> QED BY <1>6, <2>1, TakeInv DEF TakePartial, args
<1>7. CASE RejectDust BY <1>7, FailInv DEF RejectDust, SweepErrors
<1>8. CASE RejectOverflow BY <1>8, FailInv DEF RejectOverflow, SweepErrors
<1>9. CASE RejectLiquidity BY <1>9, FailInv DEF RejectLiquidity, SweepErrors
<1>10. CASE RejectSlippage BY <1>10, FailInv DEF RejectSlippage, SweepErrors
<1>11. CASE Finish BY <1>11, FinishInv
<1> QED BY <1>1, <1>2, <1>3, <1>4, <1>5, <1>6, <1>7, <1>8, <1>9, <1>10, <1>11
        DEF SweepStep

\* So does a step of anything else.
LEMMA SweepStutterInv == ASSUME SweepInv, UNCHANGED sweepVars PROVE SweepInv'
BY DEF sweepVars, SweepInv, SweepTypeOK, SortInv, LoopInv, BestBound, WorstBound,
       AnswerInv, Consumed, Ordered

-----------------------------------------------------------------------------
(* The closed form, step by step *)

\* What the step at level k sees is what the closed form says of it.
LEMMA LoopAtLevel ==
    ASSUME SweepInv, SweptInv, InLoop
    PROVE  /\ side \in Side /\ levels \in Seq(Level) /\ amount_in \in Nat
           /\ k \in 1 .. Len(levels) /\ levels[k] \in Level /\ Len(levels) \in Nat
           /\ Depth(side, levels, k - 1) < amount_in
           /\ remaining = amount_in - Depth(side, levels, k - 1)
           /\ LevelOut = Share(side, amount_in, levels, k)
<1>1. /\ side \in Side /\ levels \in Seq(Level) /\ amount_in \in Nat
      /\ k \in 1 .. Len(levels) /\ phase = "sweep" /\ remaining # 0
  BY U64MaxAssumption DEF SweepInv, SweepTypeOK, LoopInv, InLoop, U64
<1>2. Depth(side, levels, k - 1) < amount_in /\ remaining = amount_in - Depth(side, levels, k - 1)
  BY <1>1 DEF SweptInv
<1>3. LevelOut = Share(side, amount_in, levels, k)
  BY <1>2 DEF LevelOut, WholeLevel, Share
<1> QED BY <1>1, <1>2, <1>3

\* A level that is taken, whole or in part, is a term of both sums.
LEMMA SweptTake ==
    ASSUME SweepInv, SweptInv, InLoop, ~Degenerate(levels[k]),
           NEW take \in Nat,
           take = IF WholeLevel THEN Pay(side, levels[k]) ELSE remaining,
           LevelOut > 0,
           out + LevelOut <= U64Max,
           remaining' = remaining - take,
           out' = out + LevelOut,
           k' = k + 1,
           UNCHANGED <<args, phase, w, result>>
    PROVE  SweptInv'
<1> DEFINE D(i) == Depth(side, levels, i)
           T(i) == Total(side, amount_in, levels, i)
<1>1. /\ side \in Side /\ levels \in Seq(Level) /\ amount_in \in Nat
      /\ k \in 1 .. Len(levels) /\ Len(levels) \in Nat /\ levels[k] \in Level
      /\ D(k - 1) < amount_in /\ remaining = amount_in - D(k - 1)
      /\ LevelOut = Share(side, amount_in, levels, k)
  BY LoopAtLevel
<1>2. D(k) = D(k - 1) + Pay(side, levels[k])
  <2>1. k - 1 \in 0 .. Len(levels) - 1 /\ (k - 1) + 1 = k
    BY <1>1
  <2> QED BY <1>1, <2>1, DepthSteps
<1>3. /\ Pay(side, levels[k]) \in Nat /\ D(k - 1) \in Nat /\ D(k) \in Nat
  <2>1. k \in 0 .. Len(levels) /\ k - 1 \in 0 .. Len(levels)
    BY <1>1
  <2>2. Pay(side, levels[k]) \in Nat
    BY <1>1, LevelAtoms
  <2> QED BY <1>1, <2>1, <2>2, DepthSteps
<1>4. \A i \in 1 .. k : ~Degenerate(levels[i]) /\ D(i - 1) < amount_in
  <2>1. \A i \in 1 .. k - 1 : ~Degenerate(levels[i]) /\ D(i - 1) < amount_in
    BY DEF SweepInv, LoopInv, SweptInv, InLoop
  <2>2. \A i \in 1 .. k : i = k \/ i \in 1 .. k - 1
    BY <1>1
  <2>3. ~Degenerate(levels[k]) /\ D(k - 1) < amount_in
    BY <1>1
  <2> QED BY <2>1, <2>2, <2>3, Zenon
<1>5. T(k) = T(k - 1) + Share(side, amount_in, levels, k)
  <2>1. PICK m \in 0 .. Len(levels) - 1 : m + 1 = k /\ m = k - 1
    BY <1>1
  <2>2. \A j \in 1 .. m + 1 : ~Degenerate(levels[j]) /\ Depth(side, levels, j - 1) < amount_in
    BY <1>4, <2>1
  <2>3. /\ Total(side, amount_in, levels, m + 1)
             = Total(side, amount_in, levels, m) + Share(side, amount_in, levels, m + 1)
    BY <1>1, <2>2, TotalSteps
  <2> QED BY <2>1, <2>3
<1>6. out = T(k - 1) /\ phase = "sweep"
  BY DEF SweptInv, InLoop
<1>7. out' = T(k)
  BY <1>1, <1>5, <1>6
<1>8. remaining' = IF D(k) < amount_in THEN amount_in - D(k) ELSE 0
  <2> DEFINE p == Pay(side, levels[k])
             b == D(k - 1)
             d == D(k)
  <2>1. /\ p \in Nat /\ b \in Nat /\ d \in Nat /\ amount_in \in Nat
        /\ d = b + p /\ b < amount_in /\ remaining = amount_in - b
    BY <1>1, <1>2, <1>3
  <2>2. remaining' = remaining - (IF remaining >= p THEN p ELSE remaining)
    BY DEF WholeLevel
  <2> HIDE DEF p, b, d
  <2>3. remaining' = IF d < amount_in THEN amount_in - d ELSE 0
    <3>1. CASE remaining >= p
      <4>1. remaining' = amount_in - d /\ d <= amount_in
        BY <2>1, <2>2, <3>1
      <4> QED BY <2>1, <4>1
    <3>2. CASE ~(remaining >= p)
      <4>1. remaining' = 0 /\ ~(d < amount_in)
        BY <2>1, <2>2, <3>2
      <4> QED BY <4>1
    <3> QED BY <3>1, <3>2
  <2> QED BY <2>3 DEF d
<1>9. Trouble(side, amount_in, levels, k) = "none"
  <2>1. ~(Share(side, amount_in, levels, k) = 0)
    BY <1>1
  <2>2. ~(T(k) > U64Max)
    <3> HIDE DEF T
    <3>1. out + LevelOut \in Int /\ U64Max \in Int
      BY <1>1, <1>4, ShareType, U64MaxAssumption DEF SweepInv, SweepTypeOK, U64, D
    <3> QED BY <1>7, <3>1
  <2> QED BY <2>1, <2>2 DEF Trouble
<1>10. /\ levels' = levels /\ side' = side /\ amount_in' = amount_in
       /\ phase' = phase /\ result' = result
  BY DEF args
<1>11. \A i \in 1 .. k : D(i - 1) < amount_in /\ Trouble(side, amount_in, levels, i) = "none"
  <2>1. ASSUME NEW i \in 1 .. k, i # k
        PROVE  Trouble(side, amount_in, levels, i) = "none"
    BY <1>1, <1>6, <2>1 DEF SweptInv
  <2> QED BY <1>4, <1>9, <2>1
<1>12. k' - 1 = k
  BY <1>1
<1> HIDE DEF D, T
<1>13. /\ \A i \in 1 .. k' - 1 :
             /\ Depth(side', levels', i - 1) < amount_in'
             /\ Trouble(side', amount_in', levels', i) = "none"
       /\ remaining' = IF Depth(side', levels', k' - 1) < amount_in'
                        THEN amount_in' - Depth(side', levels', k' - 1) ELSE 0
       /\ out' = Total(side', amount_in', levels', k' - 1)
  BY <1>7, <1>8, <1>10, <1>11, <1>12 DEF D, T
<1>14. /\ StrictlyWorsening(side', levels') /\ result' = "none" /\ phase' = "sweep"
       /\ amount_in' > 0
  BY <1>6, <1>10 DEF SweptInv
<1> QED BY <1>13, <1>14 DEF SweptInv

\* The windows that assert_sorted has seen are all there are.
LEMMA SortedIsWorsening ==
    ASSUME SweepInv, phase = "sweep" \/ (phase = "sort" /\ w >= Len(levels))
    PROVE  StrictlyWorsening(side, levels)
<1>1. w = Len(levels)
  BY DEF SweepInv, SweepTypeOK, SortInv
<1>2. \A i \in 1 .. Len(levels) - 1 : WindowOrdered(side, levels[i], levels[i + 1])
  BY <1>1 DEF SweepInv, SortInv, Ordered
<1> QED BY <1>2 DEF StrictlyWorsening

\* The closed form is kept by every step of the sort check and the sweep.
LEMMA SweptStepInv == ASSUME SweepInv, SweptInv, SweepStep PROVE SweptInv'
<1> USE DEF InLoop, LoopOver
<1>1. CASE SortWindow
  BY <1>1 DEF SortWindow, args, SweptInv
<1>2. CASE SortReject
  BY <1>2 DEF SortReject, Fail, args, SweptInv
<1>3. CASE SortDone
  <2>1. StrictlyWorsening(side, levels)
    BY <1>3, SortedIsWorsening DEF SortDone
  <2> QED BY <1>3, <2>1 DEF SortDone, args, SweptInv
<1>4. CASE RejectDegenerate
  BY <1>4 DEF RejectDegenerate, Fail, args, SweptInv
<1>5. CASE TakeWhole
  <2>1. /\ side \in Side /\ levels[k] \in Level
        /\ out \in Nat /\ remaining \in Nat
    BY <1>5, U64MaxAssumption DEF TakeWhole, SweepInv, SweepTypeOK, LoopInv, U64
  <2>2. Pay(side, levels[k]) \in Nat /\ Get(side, levels[k]) > 0
    BY <1>5, <2>1, LevelAtoms DEF TakeWhole
  <2>3. LevelOut > 0
    BY <1>5, <2>2 DEF TakeWhole, LevelOut
  <2> QED BY <1>5, <2>2, <2>3, SweptTake DEF TakeWhole, args
<1>6. CASE TakePartial
  <2>1. remaining \in Nat /\ remaining' = remaining - remaining
    BY <1>6, U64MaxAssumption DEF TakePartial, SweepInv, SweepTypeOK, U64
  <2> QED BY <1>6, <2>1, SweptTake DEF TakePartial, args
<1>7. CASE RejectDust
  BY <1>7 DEF RejectDust, Fail, args, SweptInv
<1>8. CASE RejectOverflow
  BY <1>8 DEF RejectOverflow, Fail, args, SweptInv
<1>9. CASE RejectLiquidity
  BY <1>9 DEF RejectLiquidity, Fail, args, SweptInv
<1>10. CASE RejectSlippage
  BY <1>10 DEF RejectSlippage, Fail, args, SweptInv
<1>11. CASE Finish
  BY <1>11 DEF Finish, args, SweptInv
<1> QED BY <1>1, <1>2, <1>3, <1>4, <1>5, <1>6, <1>7, <1>8, <1>9, <1>10, <1>11
        DEF SweepStep

\* A call starts with nothing taken.
LEMMA SweptCallInv ==
    ASSUME NEW s \in Side, NEW a \in U64 \ {0}, NEW m \in U64,
           NEW ls \in Seq(Level) \ {<<>>}, Call(s, a, m, ls)
    PROVE  SweptInv'
<1> USE DEF Call
<1>1. Depth(s, ls, 0) = 0 /\ Total(s, a, ls, 0) = 0
  BY DepthSteps, TotalNone
<1>2. a \in Nat /\ a > 0
  BY U64MaxAssumption DEF U64
<1>3. k' - 1 = 0 /\ a = IF 0 < a THEN a - 0 ELSE 0
  BY <1>2
<1>4. 1 .. 0 = {}
  OBVIOUS
<1> QED BY <1>1, <1>2, <1>3, <1>4 DEF SweptInv

-----------------------------------------------------------------------------
(* The answers *)

\* A loop that stops at a level in trouble answers what the closed form does:
\* no level before it was in trouble.
LEMMA AnswerAtLevel ==
    ASSUME SweepInv, SweptInv, InLoop,
           NEW e, e = Trouble(side, amount_in, levels, k), e # "none"
    PROVE  Answer(side, amount_in, min_out, levels) = Refused(e)
<1> DEFINE touched == Touched(side, amount_in, levels)
           bad == {i \in touched : Trouble(side, amount_in, levels, i) # "none"}
<1>1. k \in 1 .. Len(levels) /\ Len(levels) \in Nat /\ levels \in Seq(Level)
  BY LoopAtLevel
<1>2. k \in touched
  BY <1>1, LoopAtLevel DEF Touched
<1>3. k \in bad /\ \A j \in bad : j \in 1 .. Len(levels)
  BY <1>1, <1>2 DEF Touched
<1>4. \A j \in bad : j \notin 1 .. k - 1
  BY DEF SweptInv, InLoop
<1>5. StrictlyWorsening(side, levels)
  BY DEF SweptInv, InLoop
<1> HIDE DEF bad
<1>6. \A j \in bad : k <= j /\ j \in Int
  BY <1>1, <1>3, <1>4
<1> DEFINE c == CHOOSE i \in bad : \A j \in bad : i <= j
<1>7. c = k
  <2>1. c \in bad /\ \A j \in bad : c <= j
    BY <1>3, <1>6
  <2> HIDE DEF c
  <2>2. c <= k /\ k <= c /\ c \in Int /\ k \in Int
    BY <2>1, <1>1, <1>3, <1>6
  <2> QED BY <2>2
<1>8. Answer(side, amount_in, min_out, levels) = Refused(Trouble(side, amount_in, levels, c))
  <2>1. bad # {}
    BY <1>3
  <2> QED BY <1>5, <2>1, Zenon DEF Answer, bad
<1> HIDE DEF c
<1> QED BY <1>7, <1>8

\* A loop that ends has touched the levels behind the iterator, and no other.
LEMMA AnswerAfterLoop ==
    ASSUME SweepInv, SweptInv, LoopOver
    PROVE  Answer(side, amount_in, min_out, levels) =
             IF remaining # 0 THEN Refused("InsufficientLiquidity")
             ELSE IF out < min_out THEN Refused("SlippageExceeded")
             ELSE [result |-> "Ok", out |-> out]
<1> DEFINE touched == Touched(side, amount_in, levels)
           bad == {i \in touched : Trouble(side, amount_in, levels, i) # "none"}
           D(i) == Depth(side, levels, i)
           n == Len(levels)
<1>1. /\ side \in Side /\ levels \in Seq(Level) /\ amount_in \in Nat /\ n \in Nat
      /\ k \in 1 .. n + 1 /\ phase = "sweep" /\ (k <= n => remaining = 0)
  BY U64MaxAssumption DEF SweepInv, SweepTypeOK, LoopInv, LoopOver, InLoop, U64
<1>2. StrictlyWorsening(side, levels) /\ out = Total(side, amount_in, levels, k - 1)
  BY <1>1 DEF SweptInv
<1>3. /\ remaining = IF D(k - 1) < amount_in THEN amount_in - D(k - 1) ELSE 0
      /\ \A i \in 1 .. k - 1 : D(i - 1) < amount_in
      /\ \A i \in 1 .. k - 1 : Trouble(side, amount_in, levels, i) = "none"
  BY <1>1 DEF SweptInv
<1>4. \A i \in 0 .. n : D(i) \in Nat
  BY <1>1, DepthSteps
<1>5. remaining # 0 <=> D(k - 1) < amount_in
  <2>1. D(k - 1) \in Nat
    BY <1>1, <1>4
  <2> HIDE DEF D
  <2> QED BY <1>1, <1>3, <2>1
<1>6. \A j \in k - 1 .. n : D(k - 1) <= D(j)
  <2>1. k - 1 \in 0 .. n
    BY <1>1
  <2> QED BY <1>1, <2>1, DepthMonotone
<1>7. touched = 1 .. k - 1
  <2>1. ASSUME NEW i \in 1 .. n, i \notin 1 .. k - 1
        PROVE  ~(D(i - 1) < amount_in)
    <3>1. i - 1 \in k - 1 .. n /\ i - 1 \in 0 .. n /\ k - 1 \in 0 .. n /\ k <= n
      BY <1>1, <2>1
    <3>2. D(k - 1) <= D(i - 1) /\ D(i - 1) \in Nat /\ D(k - 1) \in Nat
      BY <1>4, <1>6, <3>1
    <3>3. ~(D(k - 1) < amount_in)
      BY <1>1, <1>5, <3>1
    <3> HIDE DEF D
    <3> QED BY <1>1, <3>2, <3>3
  <2>2. 1 .. k - 1 \subseteq 1 .. n /\ DOMAIN levels = 1 .. n
    BY <1>1
  <2>3. touched = {i \in 1 .. n : D(i - 1) < amount_in}
    BY <2>2 DEF Touched
  <2> HIDE DEF touched, n
  <2> QED BY <1>3, <2>1, <2>2, <2>3
<1>8. bad = {}
  BY <1>3, <1>7
<1>9. Cardinality(touched) = k - 1
  BY <1>1, <1>7, FS_Interval
<1>10. D(n) < amount_in <=> remaining # 0
  <2>1. n \in k - 1 .. n /\ n \in 0 .. n /\ k - 1 \in 0 .. n
    BY <1>1
  <2>2. D(k - 1) <= D(n) /\ D(n) \in Nat /\ D(k - 1) \in Nat
    BY <1>4, <1>6, <2>1
  <2>3. k = n + 1 => D(k - 1) = D(n)
    BY <1>1
  <2>4. k # n + 1 => k <= n
    BY <1>1
  <2> HIDE DEF D, n
  <2> QED BY <1>1, <1>5, <2>2, <2>3, <2>4
<1> HIDE DEF bad, D
<1>11. Answer(side, amount_in, min_out, levels) =
         IF D(n) < amount_in THEN Refused("InsufficientLiquidity")
         ELSE IF Total(side, amount_in, levels, Cardinality(touched)) < min_out
         THEN Refused("SlippageExceeded")
         ELSE [result |-> "Ok", out |-> Total(side, amount_in, levels, Cardinality(touched))]
  BY <1>2, <1>8, Zenon DEF Answer, bad, D
<1> HIDE DEF touched, n
<1> QED BY <1>2, <1>9, <1>10, <1>11

\* Whatever step ends the call, its answer is the closed form.
LEMMA AnswerRight ==
    ASSUME SweepInv, SweptInv, SweepStep, phase' = "done"
    PROVE  Answer(side, amount_in, min_out, levels) =
             [result |-> result', out |-> IF result' = "Ok" THEN out' ELSE 0]
<1> USE DEF InLoop, LoopOver, Refused
<1>1. CASE SortReject
  <2>1. w \in 1 .. Len(levels) - 1 /\ ~WindowOrdered(side, levels[w], levels[w + 1])
    BY <1>1 DEF SortReject, SweepInv, SweepTypeOK, SortInv
  <2>2. ~StrictlyWorsening(side, levels)
    BY <2>1 DEF StrictlyWorsening
  <2>3. Answer(side, amount_in, min_out, levels) = Refused("InvalidLevelOrdering")
    BY <2>2 DEF Answer
  <2>4. result' = "InvalidLevelOrdering"
    BY <1>1 DEF SortReject, Fail
  <2> QED BY <2>3, <2>4
<1>2. CASE RejectDegenerate
  <2>1. Trouble(side, amount_in, levels, k) = "DegenerateLevelEntry"
    BY <1>2 DEF RejectDegenerate, Trouble
  <2>2. Answer(side, amount_in, min_out, levels) = Refused("DegenerateLevelEntry")
    BY <1>2, <2>1, AnswerAtLevel DEF RejectDegenerate
  <2>3. result' = "DegenerateLevelEntry"
    BY <1>2 DEF RejectDegenerate, Fail
  <2> QED BY <2>2, <2>3
<1>3. CASE RejectDust
  <2>1. Share(side, amount_in, levels, k) = 0 /\ ~Degenerate(levels[k])
    BY <1>3, LoopAtLevel DEF RejectDust
  <2>2. Trouble(side, amount_in, levels, k) = "InsufficientLiquidity"
    BY <2>1 DEF Trouble
  <2>3. Answer(side, amount_in, min_out, levels) = Refused("InsufficientLiquidity")
    BY <1>3, <2>2, AnswerAtLevel DEF RejectDust
  <2>4. result' = "InsufficientLiquidity"
    BY <1>3 DEF RejectDust, Fail
  <2> QED BY <2>3, <2>4
<1>4. CASE RejectOverflow
  <2>1. /\ ~Degenerate(levels[k]) /\ out + LevelOut > U64Max
        /\ k \in 1 .. Len(levels) /\ Len(levels) \in Nat
        /\ side \in Side /\ levels \in Seq(Level) /\ amount_in \in Nat
        /\ LevelOut = Share(side, amount_in, levels, k)
    BY <1>4, LoopAtLevel DEF RejectOverflow
  <2>2. \A i \in 1 .. k : ~Degenerate(levels[i]) /\ Depth(side, levels, i - 1) < amount_in
    <3>1. \A i \in 1 .. k - 1 : ~Degenerate(levels[i]) /\ Depth(side, levels, i - 1) < amount_in
      BY <1>4 DEF SweepInv, LoopInv, SweptInv, RejectOverflow
    <3>2. \A i \in 1 .. k : i = k \/ i \in 1 .. k - 1
      BY <2>1
    <3>3. Depth(side, levels, k - 1) < amount_in
      BY <1>4, LoopAtLevel DEF RejectOverflow
    <3> QED BY <2>1, <3>1, <3>2, <3>3, Zenon
  <2>3. Total(side, amount_in, levels, k) = out + LevelOut
    <3>1. PICK m \in 0 .. Len(levels) - 1 : m + 1 = k /\ m = k - 1
      BY <2>1
    <3>2. \A j \in 1 .. m + 1 : ~Degenerate(levels[j]) /\ Depth(side, levels, j - 1) < amount_in
      BY <2>2, <3>1
    <3>3. Total(side, amount_in, levels, m + 1)
             = Total(side, amount_in, levels, m) + Share(side, amount_in, levels, m + 1)
      BY <2>1, <3>2, TotalSteps
    <3>4. out = Total(side, amount_in, levels, k - 1)
      BY <1>4 DEF SweptInv, RejectOverflow
    <3> QED BY <2>1, <3>1, <3>3, <3>4
  <2>4. Share(side, amount_in, levels, k) # 0
    <3>1. out \in 0 .. U64Max /\ U64Max \in Nat
      BY U64MaxAssumption DEF SweepInv, SweepTypeOK, U64
    <3> QED BY <2>1, <3>1
  <2>5. Trouble(side, amount_in, levels, k) = "Overflow"
    BY <2>1, <2>3, <2>4 DEF Trouble
  <2>6. Answer(side, amount_in, min_out, levels) = Refused("Overflow")
    BY <1>4, <2>5, AnswerAtLevel DEF RejectOverflow
  <2>7. result' = "Overflow"
    BY <1>4 DEF RejectOverflow, Fail
  <2> QED BY <2>6, <2>7
<1>5. CASE RejectLiquidity
  BY <1>5, AnswerAfterLoop DEF RejectLiquidity, Fail
<1>6. CASE RejectSlippage
  BY <1>6, AnswerAfterLoop DEF RejectSlippage, Fail
<1>7. CASE Finish
  <2>1. ~(out < min_out)
    BY <1>7, U64MaxAssumption DEF Finish, SweepInv, SweepTypeOK, U64
  <2> QED BY <1>7, <2>1, AnswerAfterLoop DEF Finish
<1>8. ~(SortWindow \/ SortDone \/ TakeWhole \/ TakePartial)
  BY DEF SortWindow, SortDone, TakeWhole, TakePartial
<1> QED BY <1>1, <1>2, <1>3, <1>4, <1>5, <1>6, <1>7, <1>8 DEF SweepStep

-----------------------------------------------------------------------------
(* Best execution *)

\* In a sorted ladder every later level is worse than every earlier one.
LEMMA WorseningIsOrder ==
    ASSUME NEW s \in Side, NEW ls \in Seq(Level), StrictlyWorsening(s, ls),
           NEW i \in 1 .. Len(ls)
    PROVE  \A j \in i + 1 .. Len(ls) : WindowOrdered(s, ls[i], ls[j])
<1> DEFINE S == {n \in Nat : i + (n + 1) <= Len(ls) => WindowOrdered(s, ls[i], ls[i + (n + 1)])}
<1>1. S \in SUBSET Nat
  OBVIOUS
<1>2. 0 \in S
  <2>1. i + 1 <= Len(ls) => i \in 1 .. Len(ls) - 1 /\ i + (0 + 1) = i + 1
    OBVIOUS
  <2> QED BY <2>1 DEF StrictlyWorsening
<1>3. ASSUME NEW n \in S PROVE n + 1 \in S
  <2> SUFFICES ASSUME i + ((n + 1) + 1) <= Len(ls)
               PROVE  WindowOrdered(s, ls[i], ls[i + ((n + 1) + 1)])
    OBVIOUS
  <2> DEFINE m == i + (n + 1)
  <2>1. m \in 1 .. Len(ls) - 1 /\ m + 1 = i + ((n + 1) + 1) /\ m + 1 \in 1 .. Len(ls)
    OBVIOUS
  <2>2. WindowOrdered(s, ls[i], ls[m])
    OBVIOUS
  <2> HIDE DEF S, m
  <2>3. WindowOrdered(s, ls[m], ls[m + 1])
    BY <2>1 DEF StrictlyWorsening
  <2>4. ls[i] \in Level /\ ls[m] \in Level /\ ls[m + 1] \in Level
    BY <2>1
  <2> DEFINE p1 == Pay(s, ls[i])
             g1 == Get(s, ls[i])
             p2 == Pay(s, ls[m])
             g2 == Get(s, ls[m])
             p3 == Pay(s, ls[m + 1])
             g3 == Get(s, ls[m + 1])
  <2>5. /\ p1 \in Nat /\ g1 \in Nat /\ p2 \in Nat /\ g2 \in Nat /\ p3 \in Nat /\ g3 \in Nat
    BY <2>4, LevelAtoms
  <2>6. p1 * g2 < p2 * g1
    BY <2>2, <2>4, OrderedIsWorse, Zenon
  <2>7. p2 * g3 < p3 * g2
    BY <2>3, <2>4, OrderedIsWorse, Zenon
  <2> HIDE DEF p1, g1, p2, g2, p3, g3
  <2>8. p1 * g3 < p3 * g1
    BY <2>5, <2>6, <2>7, WorseTransitive
  <2>9. WindowOrdered(s, ls[i], ls[m + 1])
    BY <2>4, <2>8, OrderedIsWorse, Zenon DEF p1, g1, p3, g3
  <2> QED BY <2>1, <2>9
<1> HIDE DEF S
<1>4. S = Nat
  BY <1>1, <1>2, <1>3, Induction
<1> SUFFICES ASSUME NEW j \in i + 1 .. Len(ls) PROVE WindowOrdered(s, ls[i], ls[j])
  OBVIOUS
<1>5. j - (i + 1) \in S /\ i + ((j - (i + 1)) + 1) = j
  BY <1>4
<1> QED BY <1>5 DEF S

\* The share a split gives a level, floored.
FlooredShare(f, i) == IF f[i] = 0 THEN 0 ELSE PartialOut(side, f[i], levels[i])

\* It is no more than the price of the level allows.
LEMMA FlooredShareBounds ==
    ASSUME NEW f, NEW i, side \in Side, levels[i] \in Level,
           f[i] \in Nat, f[i] > 0 => ~Degenerate(levels[i])
    PROVE  /\ FlooredShare(f, i) \in Nat
           /\ FlooredShare(f, i) * Pay(side, levels[i]) <= f[i] * Get(side, levels[i])
<1> DEFINE p == Pay(side, levels[i])
           g == Get(side, levels[i])
           x == FlooredShare(f, i)
<1>1. p \in Nat /\ g \in Nat /\ (f[i] > 0 => p > 0)
  BY LevelAtoms
<1>2. x = IF f[i] = 0 THEN 0 ELSE (f[i] * g) \div p
  BY DEF FlooredShare, PartialOut
<1> HIDE DEF p, g, x
<1>3. f[i] > 0 => x \in Nat /\ x * p <= f[i] * g
  <2>1. f[i] * g \in Nat
    BY <1>1
  <2> QED BY <1>1, <1>2, <2>1, DivBounds
<1>4. f[i] = 0 => x \in Nat /\ x * p <= f[i] * g
  BY <1>1, <1>2
<1> QED BY <1>3, <1>4 DEF p, g, x

\* An accepted sweep took its levels whole, but for the last.
LEMMA AcceptedSweep ==
    ASSUME SweepInv, SweptInv, phase = "done", result = "Ok"
    PROVE  LET last == k - 1
               P    == Pay(side, levels[last])
               G    == Get(side, levels[last])
               D    == Depth(side, levels, last - 1)
               T    == Total(side, amount_in, levels, last - 1)
           IN  /\ side \in Side /\ levels \in Seq(Level) /\ amount_in \in Nat
               /\ last \in 1 .. Len(levels) /\ StrictlyWorsening(side, levels)
               /\ P \in Nat /\ G \in Nat /\ P > 0
               /\ D \in Nat /\ D < amount_in
               /\ \A i \in 1 .. last - 1 :
                     Share(side, amount_in, levels, i) = Get(side, levels[i])
               /\ \A i \in 1 .. last :
                     ~Degenerate(levels[i]) /\ Depth(side, levels, i - 1) < amount_in
               /\ \E y \in Nat : out = T + y /\ (amount_in - D) * G < (y + 1) * P
<1> DEFINE last == k - 1
           l == levels[last]
           D == Depth(side, levels, last - 1)
           T == Total(side, amount_in, levels, last - 1)
           y == Share(side, amount_in, levels, last)
           in == amount_in - D
<1>1. /\ side \in Side /\ levels \in Seq(Level) /\ amount_in \in Nat /\ amount_in > 0
      /\ Len(levels) \in Nat /\ k \in 1 .. Len(levels) + 1
      /\ remaining = 0 /\ (k = 1 => remaining = amount_in)
      /\ StrictlyWorsening(side, levels)
  BY U64MaxAssumption
     DEF SweepInv, SweepTypeOK, LoopInv, AnswerInv, SweptInv, U64
<1>2. last \in 1 .. Len(levels) /\ l \in Level
  BY <1>1
<1>3. \A i \in 1 .. last : ~Degenerate(levels[i]) /\ Depth(side, levels, i - 1) < amount_in
  BY DEF SweepInv, LoopInv, SweptInv
<1>4. Pay(side, l) \in Nat /\ Get(side, l) \in Nat /\ Pay(side, l) > 0
  BY <1>1, <1>2, <1>3, LevelAtoms
<1>5. D \in Nat /\ D < amount_in
  <2>1. last - 1 \in 0 .. Len(levels)
    BY <1>2
  <2> QED BY <1>1, <1>2, <1>3, <2>1, DepthSteps
<1>6. ASSUME NEW i \in 1 .. last - 1
      PROVE  Share(side, amount_in, levels, i) = Get(side, levels[i])
  <2>1. i + 1 \in 1 .. last /\ (i + 1) - 1 = i /\ i \in 1 .. Len(levels) /\ i \in Nat
    BY <1>2
  <2>2. Depth(side, levels, i) < amount_in
    BY <1>3, <2>1
  <2>3. PICK m \in 0 .. Len(levels) - 1 : m + 1 = i /\ m = i - 1
    BY <2>1
  <2>4. Depth(side, levels, m + 1) = Depth(side, levels, m) + Pay(side, levels[m + 1])
    BY <1>1, DepthSteps
  <2>5. Depth(side, levels, m) \in Nat /\ Pay(side, levels[m + 1]) \in Nat
    BY <1>1, <2>1, <2>3, DepthSteps, LevelAtoms
  <2>6. amount_in - Depth(side, levels, i - 1) >= Pay(side, levels[i])
    BY <1>1, <2>2, <2>3, <2>4, <2>5
  <2> QED BY <2>6 DEF Share
<1>7. out = T + y
  <2>1. out = Total(side, amount_in, levels, k - 1)
    BY DEF SweptInv
  <2>2. PICK m \in 0 .. Len(levels) - 1 : m + 1 = last /\ m = last - 1
    BY <1>2
  <2>3. \A j \in 1 .. m + 1 : ~Degenerate(levels[j]) /\ Depth(side, levels, j - 1) < amount_in
    BY <1>3, <2>2
  <2>4. Total(side, amount_in, levels, m + 1)
          = Total(side, amount_in, levels, m) + Share(side, amount_in, levels, m + 1)
    BY <1>1, <2>3, TotalSteps
  <2> QED BY <2>1, <2>2, <2>4
<1>8. y \in Nat
  BY <1>1, <1>2, <1>3, ShareType
<1>9. in <= Pay(side, l)
  <2>1. ~(Depth(side, levels, last) < amount_in)
    <3>1. remaining = IF Depth(side, levels, last) < amount_in
                      THEN amount_in - Depth(side, levels, last) ELSE 0
      BY DEF SweptInv
    <3>2. Depth(side, levels, last) \in Nat
      BY <1>1, <1>2, DepthSteps
    <3> QED BY <1>1, <3>1, <3>2
  <2>2. PICK m \in 0 .. Len(levels) - 1 : m + 1 = last /\ m = last - 1
    BY <1>2
  <2>3. Depth(side, levels, m + 1) = Depth(side, levels, m) + Pay(side, levels[m + 1])
    BY <1>1, DepthSteps
  <2> QED BY <1>1, <1>4, <1>5, <2>1, <2>2, <2>3
<1>10. in \in Nat
  BY <1>1, <1>5
<1>11. y = IF in >= Pay(side, l) THEN Get(side, l) ELSE PartialOut(side, in, l)
  BY DEF Share
<1>12. in * Get(side, l) < (y + 1) * Pay(side, l)
  <2>1. CASE in >= Pay(side, l)
    <3> HIDE DEF in, y, l
    <3>1. in = Pay(side, l)
      BY <1>4, <1>9, <1>10, <2>1
    <3>2. y = Get(side, l)
      BY <1>11, <2>1
    <3> QED BY <1>4, <3>1, <3>2
  <2>2. CASE ~(in >= Pay(side, l))
    <3>1. ~Degenerate(l)
      BY <1>2, <1>3
    <3> HIDE DEF in, y, l
    <3>2. in < Pay(side, l)
      BY <1>4, <1>10, <2>2
    <3>3. (PartialOut(side, in, l) + 1) * Pay(side, l) > in * Get(side, l)
      BY <1>1, <1>2, <1>10, <3>1, <3>2, PartialBounds DEF l
    <3>4. y = PartialOut(side, in, l) /\ y \in Nat
      BY <1>8, <1>11, <2>2
    <3>5. in * Get(side, l) \in Nat /\ (y + 1) * Pay(side, l) \in Nat
      BY <1>4, <1>10, <3>4
    <3> QED BY <3>3, <3>4, <3>5
  <2> QED BY <2>1, <2>2
<1>13. \E z \in Nat : out = T + z /\ in * Get(side, l) < (z + 1) * Pay(side, l)
  BY <1>7, <1>8, <1>12
<1> HIDE DEF y
<1> QED BY <1>1, <1>2, <1>3, <1>4, <1>5, <1>6, <1>13

\* The split takes no more from any part of the ladder than the sweep does, at
\* the price of the last level: the first levels by EarlierIsBetter, the later
\* ones because they are worse.  By induction over the levels.
LEMMA NoSplitIsBetter ==
    ASSUME SweepInv, SweptInv, phase = "done", result = "Ok",
           NEW f \in Splits, \A i \in DOMAIN f : f[i] > 0 => ~Degenerate(levels[i])
    PROVE  SumFunction([i \in DOMAIN f |-> FlooredShare(f, i)]) <= out
<1> DEFINE n == Len(levels)
           last == k - 1
           P == Pay(side, levels[last])
           G == Get(side, levels[last])
           E(j) == Total(side, amount_in, levels, j)
           D(j) == Depth(side, levels, j)
           o == [i \in DOMAIN f |-> FlooredShare(f, i)]
           T(j) == SumFunctionOnSet(o, 1 .. j)
           F(j) == SumFunctionOnSet(f, 1 .. j)
<1>1. /\ side \in Side /\ levels \in Seq(Level) /\ amount_in \in Nat
      /\ last \in 1 .. n /\ StrictlyWorsening(side, levels)
      /\ P \in Nat /\ G \in Nat /\ P > 0
      /\ D(last - 1) \in Nat /\ D(last - 1) < amount_in
      /\ \A i \in 1 .. last - 1 : Share(side, amount_in, levels, i) = Get(side, levels[i])
      /\ \A i \in 1 .. last : ~Degenerate(levels[i]) /\ D(i - 1) < amount_in
  BY AcceptedSweep
<1>2. PICK y \in Nat : out = E(last - 1) + y /\ (amount_in - D(last - 1)) * G < (y + 1) * P
  BY AcceptedSweep
<1>3. /\ DOMAIN f = 1 .. n /\ n \in Nat
      /\ \A i \in 1 .. n : f[i] \in Nat /\ f[i] <= Pay(side, levels[i])
      /\ SumFunction(f) = amount_in
  BY <1>1 DEF Splits
<1>01. last \in Nat /\ last >= 1 /\ last <= n /\ n \in Nat
  BY <1>1, <1>3
<1>4. ASSUME NEW i \in 1 .. n
      PROVE  /\ levels[i] \in Level
             /\ Pay(side, levels[i]) \in Nat /\ Get(side, levels[i]) \in Nat
             /\ f[i] \in Nat /\ o[i] \in Nat
             /\ o[i] * Pay(side, levels[i]) <= f[i] * Get(side, levels[i])
  <2>1. levels[i] \in Level /\ f[i] \in Nat /\ (f[i] > 0 => ~Degenerate(levels[i]))
    <3>1. levels[i] \in Level
      BY <1>1
    <3>2. i \in DOMAIN f /\ f[i] \in Nat
      BY <1>3
    <3> QED BY <3>1, <3>2
  <2>2. o[i] = FlooredShare(f, i)
    BY <1>3
  <2>3. Pay(side, levels[i]) \in Nat /\ Get(side, levels[i]) \in Nat
    BY <1>1, <2>1, LevelAtoms
  <2>4. /\ FlooredShare(f, i) \in Nat
        /\ FlooredShare(f, i) * Pay(side, levels[i]) <= f[i] * Get(side, levels[i])
    BY <1>1, <2>1, FlooredShareBounds
  <2> QED BY <2>1, <2>2, <2>3, <2>4
<1>5. ASSUME NEW i \in 1 .. n, i <= last
      PROVE  Pay(side, levels[i]) * G <= P * Get(side, levels[i])
  <2>1. CASE i = last
    BY <1>1, <2>1
  <2>2. CASE i # last
    <3>1. last \in i + 1 .. Len(levels)
      BY <1>1, <1>5, <2>2
    <3>2. WindowOrdered(side, levels[i], levels[last])
      BY <1>1, <1>5, <3>1, WorseningIsOrder
    <3>3. levels[i] \in Level /\ levels[last] \in Level
      BY <1>1, <1>4
    <3>4. Pay(side, levels[i]) * G < P * Get(side, levels[i])
      BY <1>1, <3>2, <3>3, OrderedIsWorse, Zenon
    <3> DEFINE p == Pay(side, levels[i])
               g == Get(side, levels[i])
    <3>5. p \in Nat /\ g \in Nat /\ P \in Nat /\ G \in Nat
      BY <1>1, <1>4
    <3> HIDE DEF p, g, P, G
    <3>6. p * G < P * g => p * G <= P * g
      BY <3>5
    <3> QED BY <3>4, <3>6 DEF p, g
  <2> QED BY <2>1, <2>2
<1>6. ASSUME NEW i \in 1 .. n, i < last
      PROVE  o[i] * P + Pay(side, levels[i]) * G <= Get(side, levels[i]) * P + f[i] * G
  <2> DEFINE p == Pay(side, levels[i])
             g == Get(side, levels[i])
             x == o[i]
             c == f[i]
  <2>1. p \in Nat /\ g \in Nat /\ x \in Nat /\ c \in Nat /\ x * p <= c * g /\ c <= p
    BY <1>3, <1>4
  <2>2. p > 0
    <3>1. ~Degenerate(levels[i])
      BY <1>1, <1>6
    <3> QED BY <1>1, <1>4, <3>1, LevelAtoms
  <2>3. p * G <= P * g
    BY <1>1, <1>5, <1>6
  <2> HIDE DEF p, g, x, c, P, G, o
  <2> QED BY <1>1, <2>1, <2>2, <2>3, EarlierIsBetter DEF p, g, x, c
<1>7. ASSUME NEW i \in 1 .. n, i >= last
      PROVE  o[i] * P <= f[i] * G
  <2> DEFINE p == Pay(side, levels[i])
             g == Get(side, levels[i])
             x == o[i]
             c == f[i]
  <2>1. p \in Nat /\ g \in Nat /\ x \in Nat /\ c \in Nat /\ x * p <= c * g
    BY <1>4
  <2>2. CASE i = last
    <3>1. p = P /\ g = G
      BY <2>2
    <3> QED BY <2>1, <3>1
  <2>3. CASE i # last /\ c > 0
    <3>1. p > 0
      <4>1. ~Degenerate(levels[i])
        BY <1>3, <2>3
      <4> QED BY <1>1, <1>4, <4>1, LevelAtoms
    <3>2. i \in last + 1 .. Len(levels)
      BY <1>1, <1>7, <2>3
    <3>3. WindowOrdered(side, levels[last], levels[i])
      BY <1>1, <3>2, WorseningIsOrder
    <3>4. levels[i] \in Level /\ levels[last] \in Level
      BY <1>1, <1>4
    <3>5. P * g < p * G
      BY <1>1, <3>3, <3>4, OrderedIsWorse, Zenon
    <3> HIDE DEF p, g, x, c, P, G, o
    <3>6. P * g <= p * G
      BY <1>1, <2>1, <3>5
    <3>7. x * P <= c * G
      BY <1>1, <2>1, <3>1, <3>6, ShareBelowBest
    <3> QED BY <3>7 DEF x, c
  <2>4. CASE c = 0
    <3>1. o[i] = 0
      BY <1>3, <2>4 DEF FlooredShare
    <3> QED BY <1>1, <2>4, <3>1
  <2>5. c > 0 \/ c = 0
    BY <2>1
  <2> HIDE DEF p, g, x, c, P, G, o
  <2> QED BY <2>2, <2>3, <2>4, <2>5
<1>8. ASSUME NEW j \in Nat, j + 1 <= n
      PROVE  T(j + 1) = T(j) + o[j + 1] /\ F(j + 1) = F(j) + f[j + 1]
  <2>1. \A i \in 1 .. j + 1 : i \in 1 .. n
    BY <1>3, <1>8
  <2>2. ASSUME NEW i \in 1 .. j + 1 PROVE o[i] \in Int /\ f[i] \in Int
    <3> HIDE DEF o
    <3>1. o[i] \in Nat /\ f[i] \in Nat
      BY <1>4, <2>1
    <3> QED BY <3>1
  <2> HIDE DEF o
  <2> QED BY <2>2, SumNext
<1>9. ASSUME NEW j \in Nat, j + 1 <= last - 1
      PROVE  /\ D(j + 1) = D(j) + Pay(side, levels[j + 1]) /\ D(j) \in Nat
             /\ E(j + 1) = E(j) + Get(side, levels[j + 1])
  <2>1. j \in 0 .. n - 1 /\ j + 1 \in 1 .. last - 1 /\ j \in 0 .. n
    BY <1>1, <1>3, <1>9
  <2>2. D(j + 1) = D(j) + Pay(side, levels[j + 1]) /\ D(j) \in Nat
    BY <1>1, <2>1, DepthSteps
  <2>3. \A i \in 1 .. j + 1 : i \in 1 .. last
    BY <1>1, <2>1
  <2>4. \A i \in 1 .. j + 1 : ~Degenerate(levels[i]) /\ Depth(side, levels, i - 1) < amount_in
    BY <1>1, <2>3
  <2>5. E(j + 1) = E(j) + Share(side, amount_in, levels, j + 1)
    BY <1>1, <2>1, <2>4, TotalSteps
  <2> QED BY <1>1, <2>1, <2>2, <2>5
<1> DEFINE Early(j) == E(j) \in Nat /\ D(j) \in Nat /\ T(j) * P + D(j) * G <= E(j) * P + F(j) * G
           Late(j)  == /\ E(last - 1) \in Nat
                       /\ T(j) * P + D(last - 1) * G <= E(last - 1) * P + F(j) * G
           S == {j \in Nat : j <= n => /\ T(j) \in Nat /\ F(j) \in Nat
                                       /\ j <= last - 1 => Early(j)
                                       /\ j >= last - 1 => Late(j)}
<1>10. S \in SUBSET Nat
  OBVIOUS
<1>11. 0 \in S
  <2>1. 1 .. 0 = {}
    OBVIOUS
  <2>2. T(0) = 0 /\ F(0) = 0
    BY <2>1, SumNone
  <2>3. E(0) = 0 /\ D(0) = 0
    BY <1>1, TotalNone, DepthSteps
  <2> HIDE DEF T, F, E, D, P, G
  <2>4. Early(0)
    BY <1>1, <2>2, <2>3
  <2>5. last - 1 <= 0 => last - 1 = 0
    <3> HIDE DEF last
    <3> QED BY <1>01
  <2>6. last - 1 <= 0 => Late(0)
    BY <2>4, <2>5
  <2> HIDE DEF Early, Late, last
  <2> QED BY <1>1, <2>2, <2>4, <2>6
<1>12. ASSUME NEW j \in S PROVE j + 1 \in S
  <2> SUFFICES ASSUME j + 1 <= n
               PROVE  /\ T(j + 1) \in Nat /\ F(j + 1) \in Nat
                      /\ j + 1 <= last - 1 => Early(j + 1)
                      /\ j + 1 >= last - 1 => Late(j + 1)
    OBVIOUS
  <2>1. /\ j \in Nat /\ j + 1 \in 1 .. n /\ j <= n /\ last \in Nat /\ last >= 1
    <3>1. j \in Nat
      OBVIOUS
    <3> HIDE DEF S, last, n
    <3> QED BY <1>01, <3>1
  <2>2. T(j) \in Nat /\ F(j) \in Nat /\ (j <= last - 1 => Early(j)) /\ (j >= last - 1 => Late(j))
    BY <2>1
  <2>3. T(j + 1) = T(j) + o[j + 1] /\ F(j + 1) = F(j) + f[j + 1]
    BY <1>8, <2>1
  <2>4. /\ Pay(side, levels[j + 1]) \in Nat /\ Get(side, levels[j + 1]) \in Nat
        /\ f[j + 1] \in Nat /\ o[j + 1] \in Nat
    BY <1>4, <2>1
  <2> DEFINE x == o[j + 1]
             c == f[j + 1]
             p == Pay(side, levels[j + 1])
             g == Get(side, levels[j + 1])
  <2>5. ASSUME j + 1 <= last - 1 PROVE Early(j + 1)
    <3>1. D(j + 1) = D(j) + p /\ E(j + 1) = E(j) + g
      BY <1>9, <2>1, <2>5
    <3>2. x * P + p * G <= g * P + c * G
      <4>1. j + 1 < last
        <5> HIDE DEF last
        <5> QED BY <2>1, <2>5
      <4> HIDE DEF last, n, P, G, o
      <4> QED BY <1>6, <2>1, <4>1
    <3>3. E(j) \in Nat /\ D(j) \in Nat /\ T(j) * P + D(j) * G <= E(j) * P + F(j) * G
      BY <2>1, <2>2, <2>5
    <3>4. x \in Nat /\ c \in Nat /\ p \in Nat /\ g \in Nat /\ T(j + 1) = T(j) + x /\ F(j + 1) = F(j) + c
      BY <2>3, <2>4
    <3> HIDE DEF T, F, E, D, P, G, x, c, p, g
    <3>5. (T(j) + x) * P + (D(j) + p) * G <= (E(j) + g) * P + (F(j) + c) * G
      BY <1>1, <2>2, <3>2, <3>3, <3>4, AddTerm
    <3> QED BY <3>1, <3>3, <3>4, <3>5
  <2>6. ASSUME j + 1 >= last - 1 PROVE Late(j + 1)
    <3>1. CASE j + 1 = last - 1
      <4>1. Early(j + 1)
        BY <2>5, <3>1
      <4> HIDE DEF T, F, E, D, P, G
      <4> QED BY <3>1, <4>1
    <3>2. CASE j + 1 # last - 1
      <4>1. j >= last - 1 /\ j + 1 >= last
        BY <2>1, <2>6, <3>2
      <4>2. x * P <= c * G
        BY <1>7, <2>1, <4>1
      <4>3. E(last - 1) \in Nat /\ T(j) * P + D(last - 1) * G <= E(last - 1) * P + F(j) * G
        BY <2>2, <4>1
      <4>4. x \in Nat /\ c \in Nat /\ p \in Nat /\ g \in Nat /\ T(j + 1) = T(j) + x /\ F(j + 1) = F(j) + c
        BY <2>3, <2>4
      <4> DEFINE d == D(last - 1)
                 e == E(last - 1)
      <4>5. d \in Nat
        BY <1>1
      <4>6. e \in Nat /\ T(j) * P + d * G <= e * P + F(j) * G
        BY <4>3
      <4> HIDE DEF T, F, E, D, P, G, x, c, p, g, d, e
      <4>7. (T(j) + x) * P + d * G <= e * P + (F(j) + c) * G
        BY <1>1, <2>2, <4>2, <4>4, <4>5, <4>6, AddTerm
      <4>8. T(j + 1) * P + d * G <= e * P + F(j + 1) * G
        BY <4>4, <4>7
      <4> QED BY <4>6, <4>8 DEF d, e
    <3> QED BY <3>1, <3>2
  <2> HIDE DEF Early, Late, T, F, o
  <2> QED BY <2>2, <2>3, <2>4, <2>5, <2>6
<1> HIDE DEF S
<1>13. S = Nat
  BY <1>10, <1>11, <1>12, Induction
<1>14. T(n) \in Nat /\ Late(n)
  <2>1. n \in S /\ n >= last - 1 /\ n <= n
    BY <1>1, <1>3, <1>13
  <2> HIDE DEF Early, Late, T, F, n, last
  <2> QED BY <2>1 DEF S
<1>15. F(n) = amount_in /\ T(n) = SumFunction(o)
  BY <1>3 DEF SumFunction
<1> DEFINE d == D(last - 1)
           e == E(last - 1)
           t == T(n)
<1>16. /\ t \in Nat /\ d \in Nat /\ e \in Nat /\ d <= amount_in
       /\ t * P + d * G <= e * P + amount_in * G
       /\ (amount_in - d) * G < (y + 1) * P
       /\ out = e + y
  BY <1>1, <1>2, <1>14, <1>15
<1> HIDE DEF t, d, e, P, G
<1>17. t <= e + y
  BY <1>1, <1>16, FloorCloses
<1> QED BY <1>15, <1>16, <1>17 DEF t

-----------------------------------------------------------------------------
(* Theorems *)

\* The inductive invariant, for every u64 bound, every ladder and every amount.
THEOREM SweepInvariant == SweepSpec => []SweepInv
<1>1. SweepInit => SweepInv
  BY SweepInitInv
<1>2. SweepInv /\ [SweepNext]_sweepVars => SweepInv'
  <2> SUFFICES ASSUME SweepInv, [SweepNext]_sweepVars PROVE SweepInv'
    OBVIOUS
  <2>1. ASSUME NEW s \in Side, NEW a \in Amounts, NEW m \in MinOuts, NEW ls \in Ladders,
               Call(s, a, m, ls)
        PROVE  SweepInv'
    <3>1. a \in U64 /\ m \in U64 /\ ls \in Seq(Level) \ {<<>>}
      BY InputsAssumption
    <3> QED BY <2>1, <3>1, CallInv
  <2>2. CASE SweepStep BY <2>2, SweepStepInv
  <2>3. CASE Return BY <2>3, ReturnInv
  <2>4. CASE UNCHANGED sweepVars BY <2>4, SweepStutterInv
  <2> QED BY <2>1, <2>2, <2>3, <2>4 DEF SweepNext
<1> QED BY <1>1, <1>2, PTL DEF SweepSpec

\* No u64 of the sweep leaves its range, for any ladder and amount.
THEOREM SweepTypeCorrect == SweepSpec => []SweepTypeOK
BY SweepInvariant, PTL DEF SweepInv

\* The taker never beats the best quoted price: the first level's, for any
\* number of levels and any rounding.
THEOREM BestLevelBoundsPrice == SweepSpec => []NeverBetterThanBestLevel
<1>1. SweepInv => NeverBetterThanBestLevel
  BY DEF SweepInv, BestBound, NeverBetterThanBestLevel
<1> QED BY <1>1, SweepInvariant, PTL

\* The taker never does worse than the last level touched, but for less than
\* one output atom in the whole fill.
THEOREM LastLevelBoundsPrice == SweepSpec => []NeverWorseThanLastLevel
<1>1. ASSUME SweepInv PROVE NeverWorseThanLastLevel
  <2> SUFFICES ASSUME phase \in {"sweep", "done"}, k > 1
               PROVE (out + 1) * Pay(side, levels[k - 1]) > Consumed * Get(side, levels[k - 1])
    BY DEF NeverWorseThanLastLevel
  <2> DEFINE p == Pay(side, levels[k - 1])
             g == Get(side, levels[k - 1])
  <2>1. /\ k - 1 \in 1 .. Len(levels) /\ side \in Side /\ levels \in Seq(Level)
        /\ out \in Nat /\ Consumed \in Nat
    BY <1>1, U64MaxAssumption DEF SweepInv, SweepTypeOK, LoopInv, U64, Consumed
  <2>2. levels[k - 1] \in Level /\ ~Degenerate(levels[k - 1])
    BY <1>1, <2>1 DEF SweepInv, LoopInv
  <2>3. p \in Nat /\ g \in Nat /\ p > 0
    BY <2>1, <2>2, LevelAtoms
  <2>4. out * p >= Consumed * g => (out + 1) * p > Consumed * g
    <3> HIDE DEF p, g
    <3> QED BY <2>1, <2>3, OneMoreAtom
  <2> QED BY <1>1, <2>4 DEF SweepInv, WorstBound
<1> QED BY <1>1, SweepInvariant, PTL

\* `partial as u64` truncates nothing: a floored share never exceeds its level.
THEOREM PartialNeverTruncated == SweepSpec => []PartialFitsLevel
<1>1. ASSUME SweepInv PROVE PartialFitsLevel
  <2> SUFFICES ASSUME InLoop, ~Degenerate(levels[k])
               PROVE  LevelOut <= Get(side, levels[k])
    BY DEF PartialFitsLevel
  <2>1. /\ side \in Side /\ levels[k] \in Level /\ remaining \in Nat
    BY <1>1, U64MaxAssumption DEF SweepInv, SweepTypeOK, LoopInv, InLoop, U64
  <2>2. Pay(side, levels[k]) \in Nat /\ Get(side, levels[k]) \in Nat
    BY <2>1, LevelAtoms
  <2> QED BY <2>1, <2>2, PartialBounds DEF LevelOut, WholeLevel
<1> QED BY <1>1, SweepInvariant, PTL

-----------------------------------------------------------------------------
(* Theorems about the closed form *)

\* The loop keeps to the closed form of its answer.
THEOREM SweptInvariant == SweepSpec => []SweptInv
<1>1. SweepInit => SweptInv
  BY DEF SweepInit, SweptInv
<1>2. SweepInv /\ SweptInv /\ [SweepNext]_sweepVars => SweptInv'
  <2> SUFFICES ASSUME SweepInv, SweptInv, [SweepNext]_sweepVars PROVE SweptInv'
    OBVIOUS
  <2>1. ASSUME NEW s \in Side, NEW a \in Amounts, NEW m \in MinOuts, NEW ls \in Ladders,
               Call(s, a, m, ls)
        PROVE  SweptInv'
    <3>1. a \in U64 \ {0} /\ m \in U64 /\ ls \in Seq(Level) \ {<<>>}
      BY InputsAssumption
    <3> QED BY <2>1, <3>1, SweptCallInv
  <2>2. CASE SweepStep BY <2>2, SweptStepInv
  <2>3. CASE Return BY <2>3 DEF Return, SweptInv
  <2>4. CASE UNCHANGED sweepVars BY <2>4 DEF sweepVars, SweptInv
  <2> QED BY <2>1, <2>2, <2>3, <2>4 DEF SweepNext
<1> QED BY <1>1, <1>2, SweepInvariant, PTL DEF SweepSpec

\* Best execution, for ladders of any length: no split of the amount over the
\* levels, each share floored, gives more than an accepted sweep.
THEOREM GreedyIsBest == SweepSpec => []BestExecution
<1>1. ASSUME SweepInv, SweptInv PROVE BestExecution
  <2> SUFFICES ASSUME phase = "done", result = "Ok", NEW f \in Splits,
                      \A i \in DOMAIN f : f[i] > 0 => ~Degenerate(levels[i])
               PROVE  SumFunction([i \in DOMAIN f |->
                          IF f[i] = 0 THEN 0 ELSE PartialOut(side, f[i], levels[i])]) <= out
    BY Zenon DEF BestExecution
  <2>1. SumFunction([i \in DOMAIN f |-> FlooredShare(f, i)]) <= out
    BY <1>1, NoSplitIsBetter
  <2> QED BY <2>1 DEF FlooredShare
<1> QED BY <1>1, SweepInvariant, SweptInvariant, PTL

\* Every step of a sweep is a request, its answer in closed form, the end of
\* the call, or nothing, as its caller sees it.
LEMMA StepAsQuoted ==
    ASSUME SweepInv, SweptInv, [SweepNext]_sweepVars
    PROVE  [Q!QuoteNext]_<<request, answer>>
<1>1. phase = "idle" <=> request = Q!none
  <2>1. DOMAIN [side |-> side, amount_in |-> amount_in, min_out |-> min_out, levels |-> levels]
          # DOMAIN [none |-> TRUE]
    OBVIOUS
  <2> QED BY <2>1, Zenon DEF request, Q!none
<1>2. phase # "done" <=> answer = Q!none
  <2>1. DOMAIN [result |-> result, out |-> IF result = "Ok" THEN out ELSE 0]
          # DOMAIN [none |-> TRUE]
    OBVIOUS
  <2> QED BY <2>1, Zenon DEF answer, Q!none
<1>3. ASSUME NEW s \in Side, NEW a \in Amounts, NEW m \in MinOuts, NEW ls \in Ladders,
             phase = "idle", Call(s, a, m, ls)
      PROVE  Q!Request
  <2>1. request' = [side |-> s, amount_in |-> a, min_out |-> m, levels |-> ls]
    BY <1>3 DEF Call, request
  <2>2. request' \in Q!Requests
    BY <2>1 DEF Q!Requests
  <2>3. answer' = answer
    BY <1>3 DEF Call, answer
  <2> QED BY <1>1, <1>3, <2>2, <2>3 DEF Q!Request
<1>4. ASSUME SweepStep PROVE UNCHANGED args /\ phase \in {"sort", "sweep"} /\ phase' # "idle"
  BY <1>4 DEF SweepStep, SortWindow, SortReject, SortDone, RejectDegenerate, TakeWhole,
         TakePartial, RejectDust, RejectOverflow, RejectLiquidity, RejectSlippage, Finish,
         InLoop, LoopOver, Fail, args
<1>5. ASSUME SweepStep PROVE UNCHANGED request
  BY <1>4, <1>5 DEF request, args
<1>6. ASSUME SweepStep, phase' = "done" PROVE Q!Reply
  <2>1. Answer(side, amount_in, min_out, levels) = answer'
    BY <1>6, AnswerRight DEF answer
  <2>2. /\ request.side = side /\ request.amount_in = amount_in
        /\ request.min_out = min_out /\ request.levels = levels
    BY <1>4, <1>6 DEF request
  <2>3. request # Q!none /\ answer = Q!none /\ UNCHANGED request
    BY <1>1, <1>2, <1>4, <1>5, <1>6
  <2>4. answer' = Answer(request.side, request.amount_in, request.min_out, request.levels)
    BY <2>1, <2>2
  <2> QED BY <2>3, <2>4 DEF Q!Reply
<1>7. ASSUME SweepStep, phase' # "done" PROVE UNCHANGED <<request, answer>>
  BY <1>4, <1>5, <1>7 DEF answer
<1>8. ASSUME Return PROVE Q!Done
  <2>1. answer # Q!none
    BY <1>2, <1>8 DEF Return
  <2>2. request' = Q!none /\ answer' = Q!none
    BY <1>8 DEF Return, request, answer, Q!none
  <2> QED BY <2>1, <2>2 DEF Q!Done
<1>9. ASSUME UNCHANGED sweepVars PROVE UNCHANGED <<request, answer>>
  BY <1>9 DEF sweepVars, request, answer
<1> QED BY <1>3, <1>6, <1>7, <1>8, <1>9 DEF SweepNext, Q!QuoteNext

\* Sort check and sweep, loops and early returns, are the closed form, for
\* every ladder: any of its errors, in its order of precedence, and its output.
THEOREM SweepRefinesQuote == SweepSpec => AnswersAsQuoted
<1>1. SweepInit => Q!QuoteInit
  BY DEF SweepInit, Q!QuoteInit, Q!none, request, answer
<1>2. SweepInv /\ SweptInv /\ [SweepNext]_sweepVars => [Q!QuoteNext]_<<request, answer>>
  BY StepAsQuoted
<1> QED BY <1>1, <1>2, SweepInvariant, SweptInvariant, PTL
        DEF SweepSpec, AnswersAsQuoted, Q!QuoteSpec

=============================================================================
