------------------------------ MODULE Recursion ------------------------------
(***************************************************************************)
(* Recursive functions: to the prover, such a function is the one that       *)
(* satisfies its recursion, if there is any.  Here is that there is one for  *)
(* a recursion over the naturals, and for the sums of integers over finite   *)
(* sets that the models take with SumFunction and SumFunctionOnSet of the    *)
(* community modules; then what such sums are.  All of it goes by minimal    *)
(* counterexample: where a fact fails, it fails for a number, or a subset,   *)
(* below which it holds.                                                    *)
(***************************************************************************)
EXTENDS Integers, Functions, FiniteSetTheorems, WellFoundedInduction, TLAPS

\* Induction over the naturals, for a set of them.
LEMMA Induction ==
    ASSUME NEW S \in SUBSET Nat, 0 \in S, \A n \in S : n + 1 \in S
    PROVE  S = Nat
<1> SUFFICES ASSUME S # Nat PROVE FALSE
  OBVIOUS
<1> DEFINE T == Nat \ S
           R == OpToRel(<, Nat)
<1>1. T \subseteq Nat /\ T # {}
  OBVIOUS
<1>2. IsWellFoundedOn(R, Nat)
  BY NatLessThanWellFounded
<1> HIDE DEF R, T
<1>3. PICK x \in T : \A y \in T : ~(<<y, x>> \in R)
  BY <1>1, <1>2, WFMin
<1>4. x \in Nat /\ x \notin S
  BY <1>3 DEF T
<1>5. x # 0 /\ x - 1 \in Nat
  BY <1>4
<1>6. x - 1 \in T
  BY <1>4, <1>5 DEF T
<1>7. <<x - 1, x>> \in R
  BY <1>4, <1>5 DEF R, OpToRel
<1> QED
  BY <1>3, <1>6, <1>7

-----------------------------------------------------------------------------
(* Recursion over the naturals *)

\* The first n + 1 values of a function that starts with x and takes step after
\* step.
FirstRuns(x, next, n, g) ==
    /\ g[0] = x
    /\ \A i \in 0 .. n - 1 : g[i + 1] = next[<<i, g[i]>>]

\* Such functions exist for every n, in whatever set the steps stay in.
LEMMA StartExists ==
    ASSUME NEW X, NEW x \in X, NEW next \in [Nat \X X -> X]
    PROVE  \A n \in Nat : \E g \in [0 .. n -> X] : FirstRuns(x, next, n, g)
<1> DEFINE S == {n \in Nat : \E g \in [0 .. n -> X] : FirstRuns(x, next, n, g)}
<1>1. 0 \in S
  <2> DEFINE g == [i \in 0 .. 0 |-> x]
  <2>1. g \in [0 .. 0 -> X] /\ FirstRuns(x, next, 0, g)
    BY DEF FirstRuns
  <2> QED BY <2>1
<1>2. ASSUME NEW n \in S PROVE n + 1 \in S
  <2>1. PICK g \in [0 .. n -> X] : FirstRuns(x, next, n, g)
    OBVIOUS
  <2>2. n \in Nat /\ g[n] \in X /\ <<n, g[n]>> \in Nat \X X
    BY <2>1
  <2> DEFINE h == [i \in 0 .. n + 1 |-> IF i = n + 1 THEN next[<<n, g[n]>>] ELSE g[i]]
  <2>3. h \in [0 .. n + 1 -> X]
    BY <2>2
  <2>4. h[0] = x
    BY <2>1, <2>2 DEF FirstRuns
  <2>5. ASSUME NEW i \in 0 .. n + 1 - 1 PROVE h[i + 1] = next[<<i, h[i]>>]
    <3>1. CASE i = n
      <4>1. h[n + 1] = next[<<n, g[n]>>] /\ h[n] = g[n]
        BY <2>2
      <4> QED BY <3>1, <4>1
    <3>2. CASE i # n
      <4>1. i \in 0 .. n - 1 /\ i + 1 \in 0 .. n /\ i \in 0 .. n
        BY <2>2, <3>2
      <4>2. h[i + 1] = g[i + 1] /\ h[i] = g[i]
        BY <2>2, <4>1
      <4>3. g[i + 1] = next[<<i, g[i]>>]
        BY <2>1, <4>1 DEF FirstRuns
      <4> QED BY <4>2, <4>3
    <3> QED BY <3>1, <3>2
  <2> HIDE DEF h
  <2>6. FirstRuns(x, next, n + 1, h)
    BY <2>4, <2>5 DEF FirstRuns
  <2> QED BY <2>2, <2>3, <2>6
<1>3. S \in SUBSET Nat
  OBVIOUS
<1> HIDE DEF S
<1>4. S = Nat
  BY <1>1, <1>2, <1>3, Induction
<1> QED BY <1>4 DEF S

\* They agree as far as they go.
LEMMA StartAgrees ==
    ASSUME NEW x, NEW next, NEW m \in Nat, NEW n \in Nat, NEW g, NEW h,
           FirstRuns(x, next, m, g), FirstRuns(x, next, n, h)
    PROVE  \A i \in Nat : i <= m /\ i <= n => g[i] = h[i]
<1> DEFINE S == {i \in Nat : i <= m /\ i <= n => g[i] = h[i]}
<1>1. 0 \in S
  BY DEF FirstRuns
<1>2. ASSUME NEW i \in S PROVE i + 1 \in S
  <2> SUFFICES ASSUME i + 1 <= m, i + 1 <= n PROVE g[i + 1] = h[i + 1]
    OBVIOUS
  <2>1. i \in Nat /\ g[i] = h[i] /\ i \in 0 .. m - 1 /\ i \in 0 .. n - 1
    OBVIOUS
  <2> QED BY <2>1 DEF FirstRuns
<1>3. S \in SUBSET Nat
  OBVIOUS
<1> HIDE DEF S
<1>4. S = Nat
  BY <1>1, <1>2, <1>3, Induction
<1> QED BY <1>4 DEF S

\* The function that takes all the steps.
Runs(x, next, g) == g[0] = x /\ \A n \in Nat : g[n + 1] = next[<<n, g[n]>>]

\* One function takes all the steps.
LEMMA RecursionExists ==
    ASSUME NEW X, NEW x \in X, NEW next \in [Nat \X X -> X]
    PROVE  \E g \in [Nat -> X] : Runs(x, next, g)
<1> DEFINE G(n) == {g \in [0 .. n -> X] : FirstRuns(x, next, n, g)}
           P(n) == CHOOSE g : g \in G(n)
           f == [n \in Nat |-> P(n)[n]]
<1>1. ASSUME NEW n \in Nat PROVE P(n) \in [0 .. n -> X] /\ FirstRuns(x, next, n, P(n))
  <2>1. \E g : g \in G(n)
    BY StartExists
  <2>2. P(n) \in G(n)
    BY <2>1
  <2> HIDE DEF P
  <2> QED BY <2>2
<1> HIDE DEF P
<1>2. f \in [Nat -> X]
  BY <1>1
<1>3. f[0] = x
  BY <1>1 DEF FirstRuns
<1>4. ASSUME NEW n \in Nat PROVE f[n + 1] = next[<<n, f[n]>>]
  <2>1. n + 1 \in Nat /\ n <= n + 1 /\ n <= n
    OBVIOUS
  <2>2. P(n)[n] = P(n + 1)[n]
    BY <1>1, <2>1, StartAgrees
  <2>3. P(n + 1)[n + 1] = next[<<n, P(n + 1)[n]>>]
    BY <1>1, <2>1 DEF FirstRuns
  <2> QED BY <2>1, <2>2, <2>3
<1>5. Runs(x, next, f)
  <2> HIDE DEF f
  <2> QED BY <1>3, <1>4 DEF Runs
<1> QED BY <1>2, <1>5

-----------------------------------------------------------------------------
(* The recursion behind a sum *)

\* The element a fold takes next.
Picked(s) == CHOOSE x \in s : TRUE

\* g adds up f over every part of S.
Adds(f, S, g) ==
    g = [s \in SUBSET S |-> IF s = {} THEN 0 ELSE f[Picked(s)] + g[s \ {Picked(s)}]]

\* What SumFunctionOnSet stands for: a recursive function is the one there is.
LEMMA SumIsChosen ==
    ASSUME NEW f, NEW S
    PROVE  SumFunctionOnSet(f, S) = (CHOOSE g : Adds(f, S, g))[S]
  BY DEF SumFunctionOnSet, FoldFunctionOnSet, MapThenFoldSet, Adds, Picked

\* In a set of subsets of a finite set, some set has no strict subset in it.
LEMMA SmallestSubset ==
    ASSUME NEW S, IsFiniteSet(S), NEW F \in SUBSET SUBSET S, F # {}
    PROVE  \E T \in F : \A U \in F : U \subseteq T => U = T
<1> DEFINE R == StrictSubsetOrdering(S)
<1>1. IsWellFoundedOn(R, SUBSET S)
  BY FS_FiniteSubsetsOfFinite, FS_StrictSubsetOrderingWellFounded
<1> HIDE DEF R
<1>2. PICK T \in F : \A U \in F : ~(<<U, T>> \in R)
  BY <1>1, WFMin
<1> QED
  BY <1>2 DEF R, StrictSubsetOrdering

\* No two functions satisfy the recursion.
LEMMA AddsOnce ==
    ASSUME NEW f, NEW S, IsFiniteSet(S), NEW g, NEW h, Adds(f, S, g), Adds(f, S, h)
    PROVE  g = h
<1> DEFINE F == {s \in SUBSET S : g[s] # h[s]}
<1> SUFFICES ASSUME F # {} PROVE FALSE
  <2>1. DOMAIN g = SUBSET S /\ DOMAIN h = SUBSET S
    BY DEF Adds
  <2>2. g = [s \in SUBSET S |-> g[s]] /\ h = [s \in SUBSET S |-> h[s]]
    BY <2>1 DEF Adds
  <2> QED
    BY <2>2
<1>0. F \in SUBSET SUBSET S
  OBVIOUS
<1> HIDE DEF F
<1>1. PICK T \in F : \A U \in F : U \subseteq T => U = T
  BY <1>0, SmallestSubset
<1>2. T \in SUBSET S /\ g[T] # h[T]
  BY DEF F
<1>3. /\ g[T] = IF T = {} THEN 0 ELSE f[Picked(T)] + g[T \ {Picked(T)}]
      /\ h[T] = IF T = {} THEN 0 ELSE f[Picked(T)] + h[T \ {Picked(T)}]
  BY <1>2 DEF Adds
<1>4. T # {}
  BY <1>2, <1>3
<1>5. Picked(T) \in T
  BY <1>4 DEF Picked
<1>6. T \ {Picked(T)} \notin F
  BY <1>1, <1>5
<1> QED
  BY <1>2, <1>3, <1>4, <1>6 DEF F

\* The sum over a part, seen from the whole.
LEMMA AddsPart ==
    ASSUME NEW f, NEW S, IsFiniteSet(S), NEW g, Adds(f, S, g), NEW T \in SUBSET S
    PROVE  SumFunctionOnSet(f, T) = g[T]
<1> DEFINE h == [s \in SUBSET T |-> g[s]]
<1>1. Adds(f, T, h)
  <2>1. \A s \in SUBSET T : g[s] = IF s = {} THEN 0 ELSE f[Picked(s)] + g[s \ {Picked(s)}]
    BY DEF Adds
  <2>2. \A s \in SUBSET T : h[s] = g[s] /\ h[s \ {Picked(s)}] = g[s \ {Picked(s)}]
    OBVIOUS
  <2>3. h = [s \in SUBSET T |-> IF s = {} THEN 0 ELSE f[Picked(s)] + h[s \ {Picked(s)}]]
    BY <2>1, <2>2
  <2> QED
    BY <2>3 DEF Adds
<1> HIDE DEF h
<1>2. Adds(f, T, CHOOSE k : Adds(f, T, k))
  BY <1>1
<1>3. IsFiniteSet(T)
  BY FS_Subset
<1>4. h = CHOOSE k : Adds(f, T, k)
  BY <1>1, <1>2, <1>3, AddsOnce
<1>5. h[T] = g[T]
  BY DEF h
<1> QED
  BY <1>4, <1>5, SumIsChosen

\* Some function satisfies it.
LEMMA AddsExists ==
    ASSUME NEW f, NEW S, IsFiniteSet(S)
    PROVE  \E g : Adds(f, S, g)
<1> DEFINE F == {T \in SUBSET S : ~ \E g : Adds(f, T, g)}
<1> SUFFICES ASSUME F # {} PROVE FALSE
  OBVIOUS
<1>0. F \in SUBSET SUBSET S
  OBVIOUS
<1> HIDE DEF F
<1>1. PICK T \in F : \A U \in F : U \subseteq T => U = T
  BY <1>0, SmallestSubset
<1>2. T \in SUBSET S /\ ~ \E g : Adds(f, T, g)
  BY DEF F
<1>3. ASSUME NEW U \in SUBSET T, U # T PROVE \E g : Adds(f, U, g)
  BY <1>1, <1>2, <1>3 DEF F
<1> DEFINE V(s) == SumFunctionOnSet(f, s)
           E(s) == IF s = {} THEN 0 ELSE f[Picked(s)] + V(s \ {Picked(s)})
           g == [s \in SUBSET T |-> IF s = T THEN E(T) ELSE V(s)]
<1>4. ASSUME NEW U \in SUBSET T, U # T PROVE V(U) = E(U)
  <2>1. PICK h : Adds(f, U, h)
    BY <1>3, <1>4
  <2>2. IsFiniteSet(U)
    BY <1>2, FS_Subset
  <2>3. U \in SUBSET U /\ U \ {Picked(U)} \in SUBSET U
    OBVIOUS
  <2>4. V(U) = h[U] /\ V(U \ {Picked(U)}) = h[U \ {Picked(U)}]
    BY <2>1, <2>2, <2>3, AddsPart
  <2>5. h[U] = IF U = {} THEN 0 ELSE f[Picked(U)] + h[U \ {Picked(U)}]
    BY <2>1, <2>3 DEF Adds
  <2> QED
    BY <2>4, <2>5
<1> HIDE DEF V
<1>5. ASSUME NEW s \in SUBSET T PROVE g[s] = IF s = {} THEN 0 ELSE f[Picked(s)] + g[s \ {Picked(s)}]
  <2>1. g[s] = E(s)
    BY <1>4
  <2>2. s # {} => Picked(s) \in s
    BY DEF Picked
  <2>3. s # {} => s \ {Picked(s)} # T /\ s \ {Picked(s)} \in SUBSET T
    BY <2>2
  <2>4. s # {} => g[s \ {Picked(s)}] = V(s \ {Picked(s)})
    BY <2>3
  <2> QED
    BY <2>1, <2>4
<1>6. g = [s \in SUBSET T |-> g[s]]
  OBVIOUS
<1> HIDE DEF g
<1>7. Adds(f, T, g)
  BY <1>5, <1>6 DEF Adds
<1> QED
  BY <1>2, <1>7

-----------------------------------------------------------------------------
(* Sums *)

\* The recursion itself.
LEMMA SumUnfold ==
    ASSUME NEW f, NEW S, IsFiniteSet(S)
    PROVE  SumFunctionOnSet(f, S) =
             IF S = {} THEN 0 ELSE f[Picked(S)] + SumFunctionOnSet(f, S \ {Picked(S)})
<1>1. PICK g : Adds(f, S, g)
  BY AddsExists
<1>2. S \in SUBSET S /\ S \ {Picked(S)} \in SUBSET S
  OBVIOUS
<1>3. /\ SumFunctionOnSet(f, S) = g[S]
      /\ SumFunctionOnSet(f, S \ {Picked(S)}) = g[S \ {Picked(S)}]
  BY <1>1, <1>2, AddsPart
<1>4. g[S] = IF S = {} THEN 0 ELSE f[Picked(S)] + g[S \ {Picked(S)}]
  BY <1>1, <1>2 DEF Adds
<1> QED
  BY <1>3, <1>4

\* Sums of integers are integers.
LEMMA SumType ==
    ASSUME NEW f, NEW S, IsFiniteSet(S), \A x \in S : f[x] \in Int
    PROVE  SumFunctionOnSet(f, S) \in Int
<1> DEFINE F == {T \in SUBSET S : SumFunctionOnSet(f, T) \notin Int}
<1>0. F \in SUBSET SUBSET S /\ (F = {} => SumFunctionOnSet(f, S) \in Int)
  OBVIOUS
<1> SUFFICES ASSUME F # {} PROVE FALSE
  BY <1>0
<1> HIDE DEF F
<1>1. PICK T \in F : \A U \in F : U \subseteq T => U = T
  BY <1>0, SmallestSubset
<1>2. T \in SUBSET S /\ SumFunctionOnSet(f, T) \notin Int /\ IsFiniteSet(T)
  BY FS_Subset DEF F
<1>3. T # {} => Picked(T) \in T /\ f[Picked(T)] \in Int
  BY <1>2 DEF Picked
<1>4. T # {} => SumFunctionOnSet(f, T \ {Picked(T)}) \in Int
  <2>1. T # {} => T \ {Picked(T)} \notin F
    BY <1>1, <1>3
  <2> QED BY <1>2, <2>1 DEF F
<1> QED
  BY <1>2, <1>3, <1>4, SumUnfold

\* Sums of naturals are naturals.
LEMMA SumNat ==
    ASSUME NEW f, NEW S, IsFiniteSet(S), \A x \in S : f[x] \in Nat
    PROVE  SumFunctionOnSet(f, S) \in Nat
<1> DEFINE F == {T \in SUBSET S : SumFunctionOnSet(f, T) \notin Nat}
<1>0. F \in SUBSET SUBSET S /\ (F = {} => SumFunctionOnSet(f, S) \in Nat)
  OBVIOUS
<1> SUFFICES ASSUME F # {} PROVE FALSE
  BY <1>0
<1> HIDE DEF F
<1>1. PICK T \in F : \A U \in F : U \subseteq T => U = T
  BY <1>0, SmallestSubset
<1>2. T \in SUBSET S /\ SumFunctionOnSet(f, T) \notin Nat /\ IsFiniteSet(T)
  BY FS_Subset DEF F
<1>3. T # {} => Picked(T) \in T /\ f[Picked(T)] \in Nat
  BY <1>2 DEF Picked
<1>4. T # {} => T \ {Picked(T)} \notin F
  BY <1>1, <1>3
<1>5. T # {} => SumFunctionOnSet(f, T \ {Picked(T)}) \in Nat
  BY <1>2, <1>4 DEF F
<1> QED
  BY <1>2, <1>3, <1>5, SumUnfold

\* Any element may be taken out first.
LEMMA SumRemove ==
    ASSUME NEW f, NEW S, IsFiniteSet(S), \A x \in S : f[x] \in Int, NEW x \in S
    PROVE  SumFunctionOnSet(f, S) = f[x] + SumFunctionOnSet(f, S \ {x})
<1> DEFINE V(s) == SumFunctionOnSet(f, s)
           F == {T \in SUBSET S : \E y \in T : V(T) # f[y] + V(T \ {y})}
<1>0. F \in SUBSET SUBSET S /\ (F = {} => V(S) = f[x] + V(S \ {x}))
  OBVIOUS
<1>01. ASSUME NEW T \in SUBSET S PROVE V(T) \in Int /\ IsFiniteSet(T)
  BY FS_Subset, SumType
<1>02. ASSUME NEW T \in SUBSET S PROVE V(T) = IF T = {} THEN 0 ELSE f[Picked(T)] + V(T \ {Picked(T)})
  BY <1>01, SumUnfold
<1> SUFFICES ASSUME F # {} PROVE FALSE
  BY <1>0
<1> HIDE DEF V, F
<1>1. PICK T \in F : \A U \in F : U \subseteq T => U = T
  BY <1>0, SmallestSubset
<1>2. PICK y \in T : V(T) # f[y] + V(T \ {y})
  BY <1>1 DEF F
<1> DEFINE c == Picked(T)
<1>3. T \in SUBSET S /\ c \in T /\ f[c] \in Int /\ f[y] \in Int
  BY <1>2 DEF F, Picked
<1>4. V(T) = f[c] + V(T \ {c}) /\ c # y
  BY <1>02, <1>2, <1>3
<1> HIDE DEF c
<1>5. T \ {c} \notin F /\ T \ {y} \notin F /\ T \ {c} \in SUBSET S /\ T \ {y} \in SUBSET S
  BY <1>1, <1>2, <1>3
<1>6. V(T \ {c}) = f[y] + V((T \ {c}) \ {y})
  BY <1>2, <1>4, <1>5 DEF F
<1>7. V(T \ {y}) = f[c] + V((T \ {y}) \ {c})
  BY <1>3, <1>4, <1>5 DEF F
<1>8. (T \ {c}) \ {y} = (T \ {y}) \ {c} /\ V((T \ {y}) \ {c}) \in Int
  BY <1>01, <1>5
<1>9. V((T \ {c}) \ {y}) = V((T \ {y}) \ {c})
  BY <1>8
<1>10. V(T) = f[c] + (f[y] + V((T \ {y}) \ {c}))
  BY <1>4, <1>6, <1>9
<1>11. f[y] + V(T \ {y}) = f[y] + (f[c] + V((T \ {y}) \ {c}))
  BY <1>7
<1> HIDE DEF V
<1>12. ASSUME NEW a \in Int, NEW b \in Int, NEW d \in Int PROVE a + (b + d) = b + (a + d)
  OBVIOUS
<1>13. f[c] + (f[y] + V((T \ {y}) \ {c})) = f[y] + (f[c] + V((T \ {y}) \ {c}))
  BY <1>3, <1>8, <1>12
<1> QED
  BY <1>2, <1>10, <1>11, <1>13

\* Sums compare when their terms do.
LEMMA SumMonotone ==
    ASSUME NEW f, NEW g, NEW S, IsFiniteSet(S),
           \A x \in S : f[x] \in Int /\ g[x] \in Int /\ f[x] <= g[x]
    PROVE  SumFunctionOnSet(f, S) <= SumFunctionOnSet(g, S)
<1> DEFINE F == {T \in SUBSET S : ~(SumFunctionOnSet(f, T) <= SumFunctionOnSet(g, T))}
<1>0. F \in SUBSET SUBSET S /\ (F = {} => SumFunctionOnSet(f, S) <= SumFunctionOnSet(g, S))
  OBVIOUS
<1> SUFFICES ASSUME F # {} PROVE FALSE
  BY <1>0
<1> HIDE DEF F
<1>1. PICK T \in F : \A U \in F : U \subseteq T => U = T
  BY <1>0, SmallestSubset
<1>2. T \in SUBSET S /\ ~(SumFunctionOnSet(f, T) <= SumFunctionOnSet(g, T)) /\ IsFiniteSet(T)
  BY FS_Subset DEF F
<1> DEFINE U == T \ {Picked(T)}
<1>3. /\ SumFunctionOnSet(f, T) = IF T = {} THEN 0 ELSE f[Picked(T)] + SumFunctionOnSet(f, U)
      /\ SumFunctionOnSet(g, T) = IF T = {} THEN 0 ELSE g[Picked(T)] + SumFunctionOnSet(g, U)
  BY <1>2, SumUnfold
<1>4. T # {}
  BY <1>2, <1>3
<1>5. Picked(T) \in T
  BY <1>4 DEF Picked
<1>6. U \in SUBSET S /\ U \notin F /\ IsFiniteSet(U)
  BY <1>1, <1>2, <1>5, FS_Subset
<1>7. SumFunctionOnSet(f, U) <= SumFunctionOnSet(g, U)
  BY <1>6 DEF F
<1>8. SumFunctionOnSet(f, U) \in Int /\ SumFunctionOnSet(g, U) \in Int
  BY <1>6, SumType
<1>9. f[Picked(T)] \in Int /\ g[Picked(T)] \in Int /\ f[Picked(T)] <= g[Picked(T)]
  BY <1>2, <1>5
<1> HIDE DEF U
<1> QED
  BY <1>2, <1>3, <1>4, <1>7, <1>8, <1>9

\* Only the terms of the sum count.
LEMMA SumAgree ==
    ASSUME NEW f, NEW g, NEW S, IsFiniteSet(S), \A x \in S : f[x] \in Int /\ g[x] = f[x]
    PROVE  SumFunctionOnSet(f, S) = SumFunctionOnSet(g, S)
<1>1. \A x \in S : g[x] \in Int /\ f[x] <= g[x] /\ g[x] <= f[x]
  OBVIOUS
<1>2. SumFunctionOnSet(f, S) <= SumFunctionOnSet(g, S) /\ SumFunctionOnSet(g, S) <= SumFunctionOnSet(f, S)
  BY <1>1, SumMonotone
<1>3. SumFunctionOnSet(f, S) \in Int /\ SumFunctionOnSet(g, S) \in Int
  BY <1>1, SumType
<1> QED
  BY <1>2, <1>3

\* A sum over the positions of a sequence grows by its last term.
LEMMA SumNext ==
    ASSUME NEW f, NEW n \in Nat, \A i \in 1 .. n + 1 : f[i] \in Int
    PROVE  SumFunctionOnSet(f, 1 .. n + 1) = SumFunctionOnSet(f, 1 .. n) + f[n + 1]
<1>1. IsFiniteSet(1 .. n) /\ IsFiniteSet(1 .. n + 1)
  BY FS_Interval
<1>2. n + 1 \in 1 .. n + 1 /\ (1 .. n + 1) \ {n + 1} = 1 .. n
  OBVIOUS
<1>3. SumFunctionOnSet(f, 1 .. n + 1) = f[n + 1] + SumFunctionOnSet(f, 1 .. n)
  BY <1>1, <1>2, SumRemove
<1>4. SumFunctionOnSet(f, 1 .. n) \in Int
  BY <1>1, SumType
<1> QED
  BY <1>2, <1>3, <1>4

\* The empty sum.
LEMMA SumNone == \A f : SumFunctionOnSet(f, {}) = 0
  BY SumUnfold, FS_EmptySet

\* A function with one more argument has a sum with one more term.
LEMMA SumGrows ==
    ASSUME NEW n \in Nat, NEW f, NEW g, DOMAIN f = 1 .. n + 1, DOMAIN g = 1 .. n,
           \A i \in 1 .. n : g[i] = f[i],
           \A i \in 1 .. n + 1 : f[i] \in Int
    PROVE  SumFunction(f) = SumFunction(g) + f[n + 1]
<1>1. SumFunctionOnSet(f, 1 .. n + 1) = SumFunctionOnSet(f, 1 .. n) + f[n + 1]
  BY SumNext
<1>2. \A i \in 1 .. n : f[i] \in Int /\ g[i] = f[i]
  OBVIOUS
<1>3. IsFiniteSet(1 .. n)
  BY FS_Interval
<1>4. SumFunctionOnSet(f, 1 .. n) = SumFunctionOnSet(g, 1 .. n)
  BY <1>2, <1>3, SumAgree, Zenon
<1>5. SumFunction(f) = SumFunctionOnSet(f, 1 .. n + 1) /\ SumFunction(g) = SumFunctionOnSet(g, 1 .. n)
  BY Zenon DEF SumFunction
<1> QED
  BY <1>1, <1>4, <1>5

\* The sum over two sequences, one behind the other.
LEMMA SumConcat ==
    ASSUME NEW n \in Nat, NEW m \in Nat, NEW f, NEW g, NEW h,
           \A i \in 1 .. n : f[i] \in Int /\ h[i] = f[i],
           \A i \in 1 .. m : g[i] \in Int /\ h[n + i] = g[i]
    PROVE  SumFunctionOnSet(h, 1 .. n + m)
             = SumFunctionOnSet(f, 1 .. n) + SumFunctionOnSet(g, 1 .. m)
<1> DEFINE H(k) == SumFunctionOnSet(h, 1 .. n + k)
           F == SumFunctionOnSet(f, 1 .. n)
           G(k) == SumFunctionOnSet(g, 1 .. k)
           S == {k \in Nat : k <= m => H(k) = F + G(k)}
<1>1. ASSUME NEW k \in Nat, k <= m PROVE \A i \in 1 .. n + k : h[i] \in Int
  <2> SUFFICES ASSUME NEW i \in 1 .. n + k PROVE h[i] \in Int
    OBVIOUS
  <2>1. CASE i <= n
    BY <2>1
  <2>2. CASE i > n
    <3>1. i - n \in 1 .. m /\ n + (i - n) = i
      BY <1>1, <2>2
    <3> QED BY <3>1
  <2> QED BY <2>1, <2>2
<1>2. F \in Int /\ \A k \in Nat : k <= m => G(k) \in Int /\ H(k) \in Int
  <2>1. IsFiniteSet(1 .. n) /\ \A k \in Nat : IsFiniteSet(1 .. k) /\ IsFiniteSet(1 .. n + k)
    BY FS_Interval
  <2>2. F \in Int
    BY <2>1, SumType
  <2> SUFFICES ASSUME NEW k \in Nat, k <= m PROVE G(k) \in Int /\ H(k) \in Int
    BY <2>2
  <2>3. \A i \in 1 .. k : g[i] \in Int
    OBVIOUS
  <2> QED BY <1>1, <2>1, <2>3, SumType
<1>3. H(0) = F + G(0)
  <2>1. H(0) = F
    <3>1. \A i \in 1 .. n : f[i] \in Int /\ h[i] = f[i]
      OBVIOUS
    <3>2. IsFiniteSet(1 .. n)
      BY FS_Interval
    <3>3. SumFunctionOnSet(f, 1 .. n) = SumFunctionOnSet(h, 1 .. n)
      BY <3>1, <3>2, SumAgree
    <3>4. 1 .. n + 0 = 1 .. n
      OBVIOUS
    <3> QED BY <3>3, <3>4
  <2>2. G(0) = 0
    <3>1. 1 .. 0 = {}
      OBVIOUS
    <3> QED BY <3>1, SumNone
  <2> HIDE DEF H, F, G
  <2> QED BY <1>2, <2>1, <2>2
<1>4. ASSUME NEW k \in S PROVE k + 1 \in S
  <2> SUFFICES ASSUME k + 1 <= m PROVE H(k + 1) = F + G(k + 1)
    OBVIOUS
  <2>1. k \in Nat /\ k <= m /\ H(k) = F + G(k)
    BY <1>4
  <2>2. H(k + 1) = H(k) + h[n + k + 1]
    <3>1. n + (k + 1) = (n + k) + 1 /\ n + k \in Nat /\ n + k + 1 = (n + k) + 1
      BY <2>1
    <3>2. \A i \in 1 .. (n + k) + 1 : h[i] \in Int
      <4>1. \A i \in 1 .. n + (k + 1) : h[i] \in Int
        BY <1>1, <2>1, k + 1 \in Nat
      <4> QED BY <3>1, <4>1
    <3> QED BY <3>1, <3>2, SumNext
  <2>3. G(k + 1) = G(k) + g[k + 1]
    <3>1. \A i \in 1 .. k + 1 : g[i] \in Int
      BY <2>1
    <3> QED BY <2>1, <3>1, SumNext
  <2>4. h[n + k + 1] = g[k + 1] /\ g[k + 1] \in Int
    <3>1. k + 1 \in 1 .. m /\ n + (k + 1) = n + k + 1
      BY <2>1
    <3> QED BY <3>1
  <2>5. F \in Int /\ G(k) \in Int
    BY <1>2, <2>1
  <2> HIDE DEF H, F, G
  <2> QED BY <2>1, <2>2, <2>3, <2>4, <2>5
<1>5. m \in S
  <2>1. S \in SUBSET Nat /\ 0 \in S /\ \A k \in S : k + 1 \in S
    BY <1>3, <1>4
  <2> HIDE DEF S
  <2>2. S = Nat
    BY <2>1, Induction
  <2> QED BY <2>2
<1> QED BY <1>5

\* A function with an argument more has a term more, whatever its arguments.
LEMMA SumInsert ==
    ASSUME NEW D, IsFiniteSet(D), NEW x, x \notin D, NEW f, NEW g,
           DOMAIN f = D, DOMAIN g = D \cup {x},
           \A y \in D : f[y] \in Int /\ g[y] = f[y], g[x] \in Int
    PROVE  SumFunction(g) = SumFunction(f) + g[x] /\ SumFunction(f) \in Int
<1>1. IsFiniteSet(D \cup {x})
  BY FS_AddElement
<1>2. \A y \in D \cup {x} : g[y] \in Int
  OBVIOUS
<1>3. SumFunctionOnSet(g, D \cup {x}) = g[x] + SumFunctionOnSet(g, (D \cup {x}) \ {x})
  BY <1>1, <1>2, SumRemove
<1>4. (D \cup {x}) \ {x} = D
  OBVIOUS
<1>5. SumFunctionOnSet(f, D) = SumFunctionOnSet(g, D)
  BY SumAgree
<1>6. SumFunctionOnSet(f, D) \in Int
  BY SumType
<1>7. SumFunction(f) = SumFunctionOnSet(f, D) /\ SumFunction(g) = SumFunctionOnSet(g, D \cup {x})
  BY Zenon DEF SumFunction
<1>8. SumFunction(g) = g[x] + SumFunction(f)
  BY <1>3, <1>4, <1>5, <1>7, Zenon
<1> QED BY <1>6, <1>7, <1>8

=============================================================================
