----------------------------- MODULE WireProofs -----------------------------
(***************************************************************************)
(* Proofs about the wire format.  Strict compact-u16 is a bijection: what    *)
(* the reader takes is what a serializer writes, and nothing else, for every *)
(* radix.  On it rests the invariant of the parser: at every cursor, what    *)
(* was read is what a serializer would have written by then for what was     *)
(* found.                                                                  *)
(***************************************************************************)
EXTENDS Wire, Recursion, SequenceTheorems

-----------------------------------------------------------------------------
(* Compact-u16 *)

\* Digits are unique: a number below a * r has one quotient and remainder.
LEMMA DigitsUnique ==
    ASSUME NEW r \in Nat, r > 1, NEW a \in 0 .. r - 1, NEW q \in Nat
    PROVE  (a + q * r) % r = a /\ (a + q * r) \div r = q
  BY SMT

\* A byte without, and with, the high bit.
LEMMA LowBits ==
    ASSUME NEW a \in 0 .. Radix - 1
    PROVE  a % Radix = a /\ (Radix + a) % Radix = a
  BY CompactAssumption, SMT

\* A byte with the high bit is Radix and its low bits.
LEMMA HighByte ==
    ASSUME NEW a \in Radix .. 2 * Radix - 1
    PROVE  a % Radix \in 0 .. Radix - 1 /\ a = Radix + (a % Radix)
  BY CompactAssumption, SMT

\* What the reader accepts is the shortest encoding of the value it returns: no
\* number has two forms on the wire (the canonical check at wire.rs:414).
THEOREM CompactCanonical ==
    ASSUME NEW e \in CompactReads, CompactValid(e)
    PROVE  CompactValue(e) \in 0 .. U16Max /\ e = CompactEncoding(CompactValue(e))
PROOF
  <1>1. CASE \E a \in 0 .. Radix - 1 : e = <<a>>
    <2>1. PICK a \in 0 .. Radix - 1 : e = <<a>>
      BY <1>1
    <2>2. CompactValue(e) = a
      BY <2>1, LowBits DEF CompactValue
    <2> QED
      BY <2>1, <2>2, CompactAssumption DEF CompactValid, CompactEncoding
  <1>2. CASE e \in (Radix .. 2 * Radix - 1) \X (0 .. Radix - 1)
    <2>1. PICK a \in Radix .. 2 * Radix - 1, b \in 0 .. Radix - 1 : e = <<a, b>>
      BY <1>2
    <2> DEFINE l == a % Radix
    <2>2. l \in 0 .. Radix - 1 /\ a = Radix + l
      BY HighByte
    <2>3. b > 0
      BY <2>1, CompactAssumption DEF CompactValid
    <2>4. CompactValue(e) = l + b * Radix
      <3>1. b % Radix = b /\ b * Radix \in Nat /\ l \in Nat
        BY <2>2, LowBits, CompactAssumption
      <3> HIDE DEF l
      <3>2. CompactValue(e) = (a % Radix) + b * Radix + 0
        BY <2>1, <3>1 DEF CompactValue
      <3> QED
        BY <3>1, <3>2 DEF l
    <2>5. Radix <= l + b * Radix /\ l + b * Radix < Radix * Radix
      BY <2>2, <2>3, CompactAssumption, SMT
    <2>6. (l + b * Radix) % Radix = l /\ (l + b * Radix) \div Radix = b
      BY <2>2, DigitsUnique, CompactAssumption
    <2>7. CompactEncoding(l + b * Radix) = <<Radix + l, b>>
      BY <2>2, <2>5, <2>6, CompactAssumption DEF CompactEncoding
    <2>8. l + b * Radix \in 0 .. U16Max
      BY <2>1, <2>2, <2>4, <2>5, CompactAssumption DEF CompactValid
    <2> HIDE DEF l
    <2> QED
      BY <2>1, <2>2, <2>4, <2>7, <2>8
  <1>3. CASE e \in (Radix .. 2 * Radix - 1) \X (Radix .. 2 * Radix - 1) \X CompactByte
    <2>1. PICK a \in Radix .. 2 * Radix - 1, b \in Radix .. 2 * Radix - 1,
               c \in CompactByte : e = <<a, b, c>>
      BY <1>3
    <2> DEFINE l == a % Radix
               h == b % Radix
    <2>2. /\ l \in 0 .. Radix - 1 /\ a = Radix + l
          /\ h \in 0 .. Radix - 1 /\ b = Radix + h
      BY HighByte
    <2>3. c \in 0 .. Radix - 1 /\ c > 0
      BY <2>1, CompactAssumption DEF CompactValid, CompactByte
    <2> DEFINE n == l + h * Radix + c * (Radix * Radix)
    <2>4. CompactValue(e) = n
      BY <2>1, <2>3, LowBits DEF CompactValue
    <2> HIDE DEF l, h
    <2>5. n = l + (h + c * Radix) * Radix /\ n \in Nat /\ h + c * Radix \in Nat
      BY <2>2, <2>3, CompactAssumption, SMT
    <2>6. n % Radix = l /\ n \div Radix = h + c * Radix
      BY <2>2, <2>5, DigitsUnique, CompactAssumption
    <2>7. (n \div Radix) % Radix = h
      <3>1. (h + c * Radix) % Radix = h
        BY <2>2, <2>3, DigitsUnique, CompactAssumption
      <3> HIDE DEF n
      <3> QED
        BY <2>6, <3>1
    <2>8. n = (l + h * Radix) + c * (Radix * Radix) /\ l + h * Radix \in 0 .. Radix * Radix - 1
      BY <2>2, <2>3, CompactAssumption, SMT
    <2>9. n \div (Radix * Radix) = c
      <3>1. Radix * Radix \in Nat /\ Radix * Radix > 1
        BY CompactAssumption, SMT
      <3> QED
        BY <2>3, <2>8, <3>1, DigitsUnique
    <2>10. ~(n < Radix) /\ ~(n < Radix * Radix)
      BY <2>2, <2>3, CompactAssumption, SMT
    <2> HIDE DEF n
    <2>11. CompactEncoding(n) = <<Radix + l, Radix + h, c>>
      BY <2>6, <2>7, <2>9, <2>10, Zenon DEF CompactEncoding
    <2>12. n \in 0 .. U16Max
      BY <2>1, <2>4, <2>5, CompactAssumption DEF CompactValid
    <2> QED
      BY <2>1, <2>2, <2>4, <2>11, <2>12
  <1> QED
    BY <1>1, <1>2, <1>3 DEF CompactReads

\* Quotient and remainder put a number together.
LEMMA DivMod ==
    ASSUME NEW r \in Nat, r > 1, NEW n \in Nat
    PROVE  /\ n % r \in 0 .. r - 1
           /\ n \div r \in Nat
           /\ n = (n % r) + (n \div r) * r
  BY SMT

\* Every u16 has a form the reader accepts, and reads back as itself.
THEOREM CompactRoundTrip ==
    ASSUME NEW n \in 0 .. U16Max
    PROVE  /\ CompactEncoding(n) \in CompactReads
           /\ CompactValid(CompactEncoding(n))
           /\ CompactValue(CompactEncoding(n)) = n
PROOF
  <1> DEFINE l == n % Radix
             q == n \div Radix
             h == q % Radix
             c == q \div Radix
             e == CompactEncoding(n)
  <1>1. /\ l \in 0 .. Radix - 1 /\ q \in Nat /\ n = l + q * Radix
        /\ h \in 0 .. Radix - 1 /\ c \in Nat /\ q = h + c * Radix
    BY DivMod, CompactAssumption
  <1>2. CASE n < Radix
    <2>1. e = <<n>> /\ n \in 0 .. Radix - 1
      BY <1>2, CompactAssumption DEF CompactEncoding
    <2>2. CompactValue(e) = n
      BY <2>1, LowBits DEF CompactValue
    <2> QED
      BY <2>1, <2>2, CompactAssumption DEF CompactReads, CompactValid
  <1>3. CASE ~(n < Radix) /\ n < Radix * Radix
    <2>1. e = <<Radix + l, q>>
      BY <1>3, Zenon DEF CompactEncoding
    <2> HIDE DEF l, q, h, c, e
    <2>2. q \in 1 .. Radix - 1
      BY <1>1, <1>3, CompactAssumption, SMT
    <2>3. Radix + l \in Radix .. 2 * Radix - 1
      BY <1>1, CompactAssumption
    <2>4. CompactValue(e) = n
      BY <1>1, <2>1, <2>2, LowBits DEF CompactValue
    <2>5. e \in CompactReads
      BY <2>1, <2>2, <2>3 DEF CompactReads
    <2>6. CompactValid(e)
      BY <2>1, <2>2, <2>4, CompactAssumption DEF CompactValid
    <2> QED
      BY <2>4, <2>5, <2>6 DEF e
  <1>4. CASE ~(n < Radix) /\ ~(n < Radix * Radix)
    <2>1. n \div (Radix * Radix) = c
      <3>1. n = (l + h * Radix) + c * (Radix * Radix) /\ l + h * Radix \in 0 .. Radix * Radix - 1
        <4> HIDE DEF l, q, h, c
        <4> QED
          BY <1>1, CompactAssumption, SMT
      <3>2. Radix * Radix \in Nat /\ Radix * Radix > 1
        BY CompactAssumption, SMT
      <3> HIDE DEF l, q, h, c
      <3> QED
        BY <1>1, <3>1, <3>2, DigitsUnique
    <2>2. e = <<Radix + l, Radix + h, c>>
      BY <1>4, <2>1, Zenon DEF CompactEncoding
    <2> HIDE DEF l, q, h, c, e
    <2>3. n = l + h * Radix + c * (Radix * Radix)
      BY <1>1, CompactAssumption, SMT
    <2>4. c \in 1 .. Radix - 1
      <3>1. c > 0
        BY <1>1, <1>4, CompactAssumption, SMT
      <3>2. c < Radix
        BY <1>1, <2>3, CompactAssumption, SMT
      <3> QED
        BY <1>1, <3>1, <3>2, CompactAssumption
    <2>5. Radix + l \in Radix .. 2 * Radix - 1 /\ Radix + h \in Radix .. 2 * Radix - 1
      BY <1>1, CompactAssumption
    <2>6. CompactValue(e) = n
      BY <1>1, <2>2, <2>3, <2>4, LowBits DEF CompactValue
    <2>7. e \in CompactReads
      BY <2>2, <2>4, <2>5, CompactAssumption DEF CompactReads, CompactByte
    <2>8. CompactValid(e)
      BY <2>2, <2>4, <2>6, CompactAssumption DEF CompactValid
    <2> QED
      BY <2>6, <2>7, <2>8 DEF e
  <1> QED
    BY <1>2, <1>3, <1>4

-----------------------------------------------------------------------------
(* FlattenSeq *)

\* g joins the sequences in ss one after the other.
Joins(ss, g) ==
    /\ g[0] = <<>>
    /\ \A i \in Nat : i + 1 <= Len(ss) => g[i + 1] = g[i] \o ss[i + 1]

\* The recursion of FlattenSeq.
Flattens(ss, f) == f = [i \in 1 .. Len(ss) |-> IF i = 1 THEN ss[i] ELSE f[i - 1] \o ss[i]]

\* FlattenSeq stands for the function its recursion defines.
LEMMA FlattenIsChosen ==
    ASSUME NEW ss, Len(ss) # 0
    PROVE  FlattenSeq(ss) = (CHOOSE f : Flattens(ss, f))[Len(ss)]
  BY DEF FlattenSeq, Flattens

\* With one more sequence at the end, the joining goes as before up to there.
LEMMA JoinsAgree ==
    ASSUME NEW S, NEW ss \in Seq(Seq(S)), NEW e \in Seq(S), NEW g, NEW h,
           Joins(ss, g), Joins(Append(ss, e), h)
    PROVE  h[Len(ss)] = g[Len(ss)]
<1> DEFINE tt == Append(ss, e)
           N == {i \in Nat : i <= Len(ss) => h[i] = g[i]}
<1>1. /\ Len(ss) \in Nat /\ Len(tt) = Len(ss) + 1
      /\ \A i \in 1 .. Len(ss) : tt[i] = ss[i]
  BY AppendProperties, LenProperties
<1> HIDE DEF tt
<1>2. Joins(tt, h)
  BY DEF tt
<1>3. 0 \in N
  BY <1>2 DEF Joins
<1>4. ASSUME NEW i \in N PROVE i + 1 \in N
  <2> SUFFICES ASSUME i + 1 <= Len(ss) PROVE h[i + 1] = g[i + 1]
    OBVIOUS
  <2>1. i \in Nat /\ h[i] = g[i] /\ tt[i + 1] = ss[i + 1] /\ i + 1 <= Len(tt)
    BY <1>1
  <2>2. h[i + 1] = h[i] \o tt[i + 1] /\ g[i + 1] = g[i] \o ss[i + 1]
    BY <1>2, <2>1 DEF Joins
  <2> QED BY <2>1, <2>2
<1>5. N \in SUBSET Nat
  OBVIOUS
<1> HIDE DEF N
<1>6. N = Nat
  BY <1>3, <1>4, <1>5, Induction
<1> QED BY <1>1, <1>6 DEF N

\* Such a function exists.
LEMMA JoinExists ==
    ASSUME NEW S, NEW ss \in Seq(Seq(S))
    PROVE  \E g \in [Nat -> Seq(S)] : Joins(ss, g)
<1> DEFINE next == [p \in Nat \X Seq(S) |->
                      IF p[1] + 1 <= Len(ss) THEN p[2] \o ss[p[1] + 1] ELSE p[2]]
<1>1. ASSUME NEW i \in Nat, NEW s \in Seq(S), i + 1 <= Len(ss) PROVE s \o ss[i + 1] \in Seq(S)
  <2>1. ss[i + 1] \in Seq(S)
    BY <1>1, ElementOfSeq
  <2> QED BY <2>1, ConcatProperties
<1>2. next \in [Nat \X Seq(S) -> Seq(S)]
  <2>1. ASSUME NEW p \in Nat \X Seq(S)
        PROVE  (IF p[1] + 1 <= Len(ss) THEN p[2] \o ss[p[1] + 1] ELSE p[2]) \in Seq(S)
    <3>1. p[1] \in Nat /\ p[2] \in Seq(S)
      OBVIOUS
    <3> QED BY <1>1, <3>1
  <2> QED BY <2>1
<1>3. <<>> \in Seq(S)
  BY EmptySeq
<1>4. \A i \in Nat, s \in Seq(S) :
        next[<<i, s>>] = IF i + 1 <= Len(ss) THEN s \o ss[i + 1] ELSE s
  OBVIOUS
<1> HIDE DEF next
<1>5. PICK g \in [Nat -> Seq(S)] : Runs(<<>>, next, g)
  BY <1>2, <1>3, RecursionExists
<1>6. g[0] = <<>>
  BY <1>5 DEF Runs
<1>7. ASSUME NEW i \in Nat, i + 1 <= Len(ss) PROVE g[i + 1] = g[i] \o ss[i + 1]
  <2>1. g[i] \in Seq(S) /\ g[i + 1] = next[<<i, g[i]>>]
    BY <1>5 DEF Runs
  <2> QED BY <1>4, <1>7, <2>1
<1> QED BY <1>6, <1>7 DEF Joins

\* FlattenSeq is what joining ends with.
LEMMA FlattenJoins ==
    ASSUME NEW S, NEW ss \in Seq(Seq(S)), NEW g \in [Nat -> Seq(S)], Joins(ss, g)
    PROVE  FlattenSeq(ss) = g[Len(ss)]
<1>1. Len(ss) \in Nat
  BY LenProperties
<1>2. CASE Len(ss) = 0
  <2>1. ss = <<>>
    BY <1>2, EmptySeq
  <2>2. FlattenSeq(ss) = ss
    BY <1>2 DEF FlattenSeq
  <2> QED BY <1>2, <2>1, <2>2 DEF Joins
<1>3. CASE Len(ss) # 0
  <2> DEFINE f == [i \in 1 .. Len(ss) |-> g[i]]
  <2>1. ASSUME NEW i \in 1 .. Len(ss)
        PROVE  f[i] = IF i = 1 THEN ss[i] ELSE f[i - 1] \o ss[i]
    <3>1. PICK k \in Nat : i = k + 1 /\ k + 1 <= Len(ss)
      <4>1. i - 1 \in Nat /\ i = (i - 1) + 1
        OBVIOUS
      <4> QED BY <1>1, <4>1
    <3>2. g[k + 1] = g[k] \o ss[k + 1]
      BY <3>1 DEF Joins
    <3>3. CASE k = 0
      <4>1. ss[1] \in Seq(S)
        BY <1>1, <3>1, <3>3, ElementOfSeq
      <4>2. g[0] \o ss[1] = ss[1]
        BY <4>1, ConcatEmptySeq DEF Joins
      <4>3. i = 1 /\ 0 + 1 = 1 /\ f[i] = g[i]
        BY <1>1, <3>1, <3>3
      <4>4. g[0 + 1] = g[0] \o ss[0 + 1]
        BY <3>2, <3>3
      <4> QED BY <4>2, <4>3, <4>4
    <3>4. CASE k # 0
      <4>1. i - 1 = k /\ k \in 1 .. Len(ss) /\ i # 1
        BY <1>1, <3>1, <3>4
      <4> QED BY <3>1, <3>2, <4>1
    <3> QED BY <3>3, <3>4
  <2>2. f = [i \in 1 .. Len(ss) |-> f[i]]
    OBVIOUS
  <2>3. f[Len(ss)] = g[Len(ss)]
    BY <1>1, <1>3
  <2> HIDE DEF f
  <2>4. Flattens(ss, f)
    BY <2>1, <2>2 DEF Flattens
  <2> DEFINE c == CHOOSE h : Flattens(ss, h)
  <2>5. Flattens(ss, c)
    BY <2>4
  <2>6. FlattenSeq(ss) = c[Len(ss)]
    BY <1>3, FlattenIsChosen
  <2> HIDE DEF c
  <2> DEFINE N == {n \in Nat : n + 1 <= Len(ss) => c[n + 1] = f[n + 1]}
  <2>7. \A i \in 1 .. Len(ss) : c[i] = IF i = 1 THEN ss[i] ELSE c[i - 1] \o ss[i]
    BY <2>5, Zenon DEF Flattens
  <2>8. 0 \in N
    BY <1>1, <2>1, <2>7
  <2>9. ASSUME NEW n \in N PROVE n + 1 \in N
    <3> SUFFICES ASSUME n + 1 + 1 <= Len(ss) PROVE c[n + 1 + 1] = f[n + 1 + 1]
      OBVIOUS
    <3>1. n \in Nat /\ c[n + 1] = f[n + 1]
      BY <1>1
    <3>2. n + 1 + 1 \in 1 .. Len(ss) /\ n + 1 + 1 # 1 /\ (n + 1 + 1) - 1 = n + 1
      BY <1>1, <3>1
    <3> HIDE DEF N
    <3>3. c[n + 1 + 1] = c[n + 1] \o ss[n + 1 + 1] /\ f[n + 1 + 1] = f[n + 1] \o ss[n + 1 + 1]
      BY <2>1, <2>7, <3>2
    <3> QED BY <3>1, <3>3
  <2>10. N \in SUBSET Nat
    OBVIOUS
  <2> HIDE DEF N
  <2>11. N = Nat
    BY <2>8, <2>9, <2>10, Induction
  <2>12. PICK k \in Nat : k + 1 = Len(ss)
    <3>1. Len(ss) - 1 \in Nat /\ (Len(ss) - 1) + 1 = Len(ss)
      BY <1>1, <1>3
    <3> QED BY <3>1
  <2>13. c[k + 1] = f[k + 1]
    <3>1. k + 1 <= Len(ss)
      BY <1>1, <2>12
    <3>2. k \in N
      BY <2>11
    <3> QED BY <3>1, <3>2 DEF N
  <2> QED BY <2>3, <2>6, <2>12, <2>13
<1> QED BY <1>2, <1>3

\* Nothing to flatten.
LEMMA FlattenEmpty == FlattenSeq(<<>>) = <<>>
  BY DEF FlattenSeq

\* The sequence stays in the set of its elements.
LEMMA FlattenType ==
    ASSUME NEW S, NEW ss \in Seq(Seq(S))
    PROVE  FlattenSeq(ss) \in Seq(S)
<1>1. PICK g \in [Nat -> Seq(S)] : Joins(ss, g)
  BY JoinExists
<1>2. FlattenSeq(ss) = g[Len(ss)] /\ Len(ss) \in Nat
  BY <1>1, FlattenJoins, LenProperties
<1> QED BY <1>2

\* One more sequence is joined at the end.
LEMMA FlattenAppend ==
    ASSUME NEW S, NEW ss \in Seq(Seq(S)), NEW e \in Seq(S)
    PROVE  FlattenSeq(Append(ss, e)) = FlattenSeq(ss) \o e
<1> DEFINE tt == Append(ss, e)
<1>1. /\ tt \in Seq(Seq(S)) /\ Len(ss) \in Nat /\ Len(tt) = Len(ss) + 1
      /\ tt[Len(ss) + 1] = e
      /\ \A i \in 1 .. Len(ss) : tt[i] = ss[i]
  BY AppendProperties, LenProperties
<1> HIDE DEF tt
<1>2. PICK g \in [Nat -> Seq(S)] : Joins(ss, g)
  BY JoinExists
<1>3. PICK h \in [Nat -> Seq(S)] : Joins(tt, h)
  BY <1>1, JoinExists
<1>4. h[Len(ss)] = g[Len(ss)]
  BY <1>2, <1>3, JoinsAgree DEF tt
<1>5. h[Len(ss) + 1] = h[Len(ss)] \o e
  <2>1. Len(ss) + 1 <= Len(tt)
    BY <1>1
  <2>2. h[Len(ss) + 1] = h[Len(ss)] \o tt[Len(ss) + 1]
    BY <1>1, <1>3, <2>1 DEF Joins
  <2> QED BY <1>1, <2>2
<1>6. FlattenSeq(ss) = g[Len(ss)]
  BY <1>2, FlattenJoins
<1>7. FlattenSeq(tt) = h[Len(tt)]
  BY <1>1, <1>3, FlattenJoins
<1> QED BY <1>1, <1>4, <1>5, <1>6, <1>7 DEF tt

-----------------------------------------------------------------------------
(* The encoder *)

\* Three parts in a row.
LEMMA Associative ==
    ASSUME NEW a \in Seq(Units), NEW b \in Seq(Units), NEW c \in Seq(Units)
    PROVE  (a \o b) \o c = a \o (b \o c)
  BY ConcatAssociative

\* What F writes for the elements of s.
Written(F, s) == [i \in DOMAIN s |-> F[s[i]]]

\* It is a sequence of sequences.
LEMMA WrittenSeq ==
    ASSUME NEW T, NEW S, NEW F \in [T -> Seq(S)], NEW s \in Seq(T)
    PROVE  Written(F, s) \in Seq(Seq(S))
<1>1. Len(s) \in Nat /\ DOMAIN s = 1 .. Len(s) /\ \A i \in 1 .. Len(s) : s[i] \in T
  BY LenProperties
<1> DEFINE w == Written(F, s)
<1>2. w = [i \in 1 .. Len(s) |-> F[s[i]]] /\ w \in [1 .. Len(s) -> Seq(S)]
  BY <1>1 DEF Written
<1> HIDE DEF w
<1>3. w \in Seq(Seq(S))
  BY <1>1, <1>2
<1> QED BY <1>3 DEF w

\* For one element more it is one longer.
LEMMA WrittenAppend ==
    ASSUME NEW T, NEW S, NEW F \in [T -> Seq(S)], NEW s \in Seq(T), NEW x \in T
    PROVE  Written(F, Append(s, x)) = Append(Written(F, s), F[x])
<1> DEFINE w == Written(F, s)
           ss == Append(s, x)
           ww == Written(F, ss)
<1>1. Len(s) \in Nat /\ DOMAIN s = 1 .. Len(s) /\ \A i \in 1 .. Len(s) : s[i] \in T
  BY LenProperties
<1>2. /\ ss \in Seq(T) /\ Len(ss) = Len(s) + 1 /\ ss[Len(s) + 1] = x
      /\ \A i \in 1 .. Len(s) : ss[i] = s[i]
  BY AppendProperties
<1>3. DOMAIN ss = 1 .. Len(s) + 1
  BY <1>2, LenProperties
<1>4. w = [i \in 1 .. Len(s) |-> F[s[i]]] /\ w \in [1 .. Len(s) -> Seq(S)]
  BY <1>1 DEF Written
<1>5. ww = [i \in 1 .. Len(s) + 1 |-> F[ss[i]]]
  BY <1>3 DEF Written
<1> HIDE DEF w, ww, ss
<1>6. w \in Seq(Seq(S)) /\ Len(w) = Len(s)
  BY <1>1, <1>4
<1>7. Append(w, F[x]) = [i \in 1 .. Len(w) + 1 |-> IF i <= Len(w) THEN w[i] ELSE F[x]]
  BY <1>6
<1>8. ASSUME NEW i \in 1 .. Len(s) + 1
      PROVE  F[ss[i]] = IF i <= Len(w) THEN w[i] ELSE F[x]
  <2>1. CASE i <= Len(s)
    <3>1. i \in 1 .. Len(s)
      BY <1>1, <2>1
    <3> QED BY <1>2, <1>4, <1>6, <2>1, <3>1
  <2>2. CASE ~(i <= Len(s))
    <3>1. i = Len(s) + 1
      BY <1>1, <2>2
    <3> QED BY <1>2, <1>6, <2>2, <3>1
  <2> QED BY <2>1, <2>2
<1>9. ww = Append(w, F[x])
  BY <1>5, <1>6, <1>7, <1>8
<1> QED BY <1>9 DEF w, ww, ss

\* Written out, the elements follow each other.
LEMMA FlattenWritten ==
    ASSUME NEW T, NEW S, NEW F \in [T -> Seq(S)], NEW s \in Seq(T)
    PROVE  FlattenSeq(Written(F, s)) \in Seq(S)
<1>1. Written(F, s) \in Seq(Seq(S))
  BY WrittenSeq
<1> QED BY <1>1, FlattenType

\* The last one comes last.
LEMMA FlattenWrittenAppend ==
    ASSUME NEW T, NEW S, NEW F \in [T -> Seq(S)], NEW s \in Seq(T), NEW x \in T
    PROVE  FlattenSeq(Written(F, Append(s, x))) = FlattenSeq(Written(F, s)) \o F[x]
<1>1. Written(F, s) \in Seq(Seq(S))
  BY WrittenSeq
<1>2. Written(F, Append(s, x)) = Append(Written(F, s), F[x])
  BY WrittenAppend
<1>3. F[x] \in Seq(S)
  OBVIOUS
<1> QED BY <1>1, <1>2, <1>3, FlattenAppend

\* Nothing is written for no elements.
LEMMA WrittenEmpty == ASSUME NEW F PROVE FlattenSeq(Written(F, <<>>)) = <<>>
<1>1. Written(F, <<>>) = <<>>
  BY DEF Written
<1> QED BY <1>1, FlattenEmpty

\* What the units are made of.
LEMMA UnitSets ==
    /\ Nat \subseteq Units /\ Keys \subseteq Units /\ Signatures \subseteq Units
    /\ Data \subseteq Units /\ Blockhash \in Units
  BY DEF Units

\* Sequences of numbers, keys, ... are sequences of units.
LEMMA UnitSeqs ==
    /\ Seq(Nat) \subseteq Seq(Units) /\ Seq(Keys) \subseteq Seq(Units)
    /\ Seq(Signatures) \subseteq Seq(Units) /\ Seq(Data) \subseteq Seq(Units)
  BY UnitSets, SeqMonotonic

\* A unit is a sequence of one.
LEMMA OneUnit == ASSUME NEW u \in Units PROVE <<u>> \in Seq(Units)
  OBVIOUS

\* A number is written in numbers.
LEMMA EncodingType ==
    ASSUME NEW n \in Nat
    PROVE  CompactEncoding(n) \in Seq(Nat) /\ CompactEncoding(n) \in Seq(Units)
<1>1. /\ n % Radix \in Nat /\ n \div Radix \in Nat
      /\ (n \div Radix) % Radix \in Nat /\ n \div (Radix * Radix) \in Nat
  <2>1. Radix * Radix \in Nat /\ Radix * Radix > 1
    BY CompactAssumption, SMT
  <2>2. n % Radix \in Nat /\ n \div Radix \in Nat
    BY DivMod, CompactAssumption
  <2>3. n \div (Radix * Radix) \in Nat
    BY <2>1, DivMod
  <2> QED BY <2>2, <2>3, DivMod, CompactAssumption
<1>2. CompactEncoding(n) \in Seq(Nat)
  <2> DEFINE a == n % Radix
             b == n \div Radix
             c == (n \div Radix) % Radix
             d == n \div (Radix * Radix)
  <2>1. CompactEncoding(n) = <<n>> \/ CompactEncoding(n) = <<Radix + a, b>>
           \/ CompactEncoding(n) = <<Radix + a, Radix + c, d>>
    BY Zenon DEF CompactEncoding
  <2>2. a \in Nat /\ b \in Nat /\ c \in Nat /\ d \in Nat
    BY <1>1
  <2> HIDE DEF a, b, c, d
  <2>3. Radix + a \in Nat /\ Radix + c \in Nat
    BY <2>2, CompactAssumption
  <2>4. <<n>> \in Seq(Nat) /\ <<Radix + a, b>> \in Seq(Nat)
           /\ <<Radix + a, Radix + c, d>> \in Seq(Nat)
    BY <2>2, <2>3
  <2> QED BY <2>1, <2>4
<1> QED BY <1>2, UnitSeqs

\* A vector, its length first.
LEMMA VectorType ==
    ASSUME NEW v \in Seq(Units)
    PROVE  EncodeVector(v) \in Seq(Units)
<1>1. CompactEncoding(Len(v)) \in Seq(Units)
  BY LenProperties, EncodingType
<1> QED BY <1>1, ConcatProperties DEF EncodeVector

\* The parts of an instruction.
LEMMA IxType ==
    ASSUME NEW ix \in CompiledInstructions
    PROVE  /\ EncodeIx(ix) \in Seq(Units)
           /\ EncodeIxHeader(ix) \in Nat \X Nat \X Nat /\ EncodeIxHeader(ix) \in Seq(Units)
           /\ EncodePayload(ix) \in Seq(Units)
<1>1. /\ ix.program_id_index \in Nat /\ ix.account_indices \in Seq(Nat) /\ ix.data \in Seq(Data)
      /\ Len(ix.account_indices) \in Nat /\ Len(ix.data) \in Nat
  BY LenProperties DEF CompiledInstructions
<1>2. ix.account_indices \in Seq(Units) /\ ix.data \in Seq(Units)
  BY <1>1, UnitSeqs
<1>3. EncodeIx(ix) \in Seq(Units)
  <2>1. <<ix.program_id_index>> \in Seq(Units)
    BY <1>1, UnitSets, OneUnit
  <2>2. EncodeVector(ix.account_indices) \in Seq(Units) /\ EncodeVector(ix.data) \in Seq(Units)
    BY <1>2, VectorType
  <2> QED BY <2>1, <2>2, ConcatProperties DEF EncodeIx
<1>4. EncodeIxHeader(ix) \in Nat \X Nat \X Nat /\ EncodeIxHeader(ix) \in Seq(Units)
  <2>1. EncodeIxHeader(ix) \in Nat \X Nat \X Nat /\ EncodeIxHeader(ix) \in Seq(Nat)
    BY <1>1 DEF EncodeIxHeader
  <2> QED BY <2>1, UnitSeqs
<1>5. EncodePayload(ix) \in Seq(Units)
  BY <1>2, ConcatProperties DEF EncodePayload
<1> QED BY <1>3, <1>4, <1>5

\* A table lookup.
LEMMA LookupType ==
    ASSUME NEW l \in TableLookups
    PROVE  EncodeLookup(l) \in Seq(Units)
<1>1. /\ l.table_key \in Keys /\ l.writable_indexes \in Seq(Nat) /\ l.readonly_indexes \in Seq(Nat)
  BY DEF TableLookups
<1>2. <<l.table_key>> \in Seq(Units)
  BY <1>1, UnitSets, OneUnit
<1>3. l.writable_indexes \in Seq(Units) /\ l.readonly_indexes \in Seq(Units)
  BY <1>1, UnitSeqs
<1>4. EncodeVector(l.writable_indexes) \in Seq(Units) /\ EncodeVector(l.readonly_indexes) \in Seq(Units)
  BY <1>3, VectorType
<1> QED BY <1>2, <1>4, ConcatProperties DEF EncodeLookup

\* The instructions of a legacy or v0 message, one more of them.
LEMMA IxsGrow ==
    ASSUME NEW s \in Seq(CompiledInstructions), NEW ix \in CompiledInstructions
    PROVE  /\ EncodeIxs(s) \in Seq(Units)
           /\ EncodeIxs(Append(s, ix)) = EncodeIxs(s) \o EncodeIx(ix)
<1> DEFINE F == [i \in CompiledInstructions |-> EncodeIx(i)]
<1>1. F \in [CompiledInstructions -> Seq(Units)] /\ F[ix] = EncodeIx(ix)
  BY IxType
<1>2. ASSUME NEW t \in Seq(CompiledInstructions) PROVE EncodeIxs(t) = FlattenSeq(Written(F, t))
  <2>1. \A i \in DOMAIN t : t[i] \in CompiledInstructions
    BY LenProperties
  <2>2. [i \in DOMAIN t |-> EncodeIx(t[i])] = [i \in DOMAIN t |-> F[t[i]]]
    BY <2>1
  <2> HIDE DEF F
  <2> QED BY <2>2 DEF EncodeIxs, Written
<1>3. Append(s, ix) \in Seq(CompiledInstructions)
  BY AppendProperties
<1> HIDE DEF F
<1>4. FlattenSeq(Written(F, s)) \in Seq(Units)
  BY <1>1, FlattenWritten
<1>5. FlattenSeq(Written(F, Append(s, ix))) = FlattenSeq(Written(F, s)) \o F[ix]
  BY <1>1, FlattenWrittenAppend
<1> QED BY <1>1, <1>2, <1>3, <1>4, <1>5

\* The table lookups, one more of them.
LEMMA TablesGrow ==
    ASSUME NEW s \in Seq(TableLookups), NEW l \in TableLookups
    PROVE  /\ EncodeTables(s) \in Seq(Units)
           /\ EncodeTables(Append(s, l)) = EncodeTables(s) \o EncodeLookup(l)
<1> DEFINE F == [i \in TableLookups |-> EncodeLookup(i)]
<1>1. F \in [TableLookups -> Seq(Units)] /\ F[l] = EncodeLookup(l)
  BY LookupType
<1>2. ASSUME NEW t \in Seq(TableLookups) PROVE EncodeTables(t) = FlattenSeq(Written(F, t))
  <2>1. \A i \in DOMAIN t : t[i] \in TableLookups
    BY LenProperties
  <2>2. [i \in DOMAIN t |-> EncodeLookup(t[i])] = [i \in DOMAIN t |-> F[t[i]]]
    BY <2>1
  <2> HIDE DEF F
  <2> QED BY <2>2 DEF EncodeTables, Written
<1>3. Append(s, l) \in Seq(TableLookups)
  BY AppendProperties
<1> HIDE DEF F
<1>4. FlattenSeq(Written(F, s)) \in Seq(Units)
  BY <1>1, FlattenWritten
<1>5. FlattenSeq(Written(F, Append(s, l))) = FlattenSeq(Written(F, s)) \o F[l]
  BY <1>1, FlattenWrittenAppend
<1> QED BY <1>1, <1>2, <1>3, <1>4, <1>5

\* The headers of a v1 message, one more of them.
LEMMA IxHeadersGrow ==
    ASSUME NEW s \in Seq(CompiledInstructions), NEW ix \in CompiledInstructions
    PROVE  /\ EncodeIxHeaders(s) \in Seq(Units)
           /\ EncodeIxHeaders(Append(s, ix)) = EncodeIxHeaders(s) \o EncodeIxHeader(ix)
<1> DEFINE F == [i \in CompiledInstructions |-> EncodeIxHeader(i)]
<1>1. F \in [CompiledInstructions -> Seq(Units)] /\ F[ix] = EncodeIxHeader(ix)
  BY IxType
<1>2. ASSUME NEW t \in Seq(CompiledInstructions) PROVE EncodeIxHeaders(t) = FlattenSeq(Written(F, t))
  <2>1. \A i \in DOMAIN t : t[i] \in CompiledInstructions
    BY LenProperties
  <2>2. [i \in DOMAIN t |-> EncodeIxHeader(t[i])] = [i \in DOMAIN t |-> F[t[i]]]
    BY <2>1
  <2> HIDE DEF F
  <2> QED BY <2>2 DEF EncodeIxHeaders, Written
<1>3. Append(s, ix) \in Seq(CompiledInstructions)
  BY AppendProperties
<1> HIDE DEF F
<1>4. FlattenSeq(Written(F, s)) \in Seq(Units)
  BY <1>1, FlattenWritten
<1>5. FlattenSeq(Written(F, Append(s, ix))) = FlattenSeq(Written(F, s)) \o F[ix]
  BY <1>1, FlattenWrittenAppend
<1> QED BY <1>1, <1>2, <1>3, <1>4, <1>5

\* The payloads of a v1 message, one more of them.
LEMMA PayloadsGrow ==
    ASSUME NEW s \in Seq(CompiledInstructions), NEW ix \in CompiledInstructions
    PROVE  /\ EncodePayloads(s) \in Seq(Units)
           /\ EncodePayloads(Append(s, ix)) = EncodePayloads(s) \o EncodePayload(ix)
<1> DEFINE F == [i \in CompiledInstructions |-> EncodePayload(i)]
<1>1. F \in [CompiledInstructions -> Seq(Units)] /\ F[ix] = EncodePayload(ix)
  BY IxType
<1>2. ASSUME NEW t \in Seq(CompiledInstructions) PROVE EncodePayloads(t) = FlattenSeq(Written(F, t))
  <2>1. \A i \in DOMAIN t : t[i] \in CompiledInstructions
    BY LenProperties
  <2>2. [i \in DOMAIN t |-> EncodePayload(t[i])] = [i \in DOMAIN t |-> F[t[i]]]
    BY <2>1
  <2> HIDE DEF F
  <2> QED BY <2>2 DEF EncodePayloads, Written
<1>3. Append(s, ix) \in Seq(CompiledInstructions)
  BY AppendProperties
<1> HIDE DEF F
<1>4. FlattenSeq(Written(F, s)) \in Seq(Units)
  BY <1>1, FlattenWritten
<1>5. FlattenSeq(Written(F, Append(s, ix))) = FlattenSeq(Written(F, s)) \o F[ix]
  BY <1>1, FlattenWrittenAppend
<1> QED BY <1>1, <1>2, <1>3, <1>4, <1>5

\* No instructions, no lookups.
LEMMA NothingToEncode ==
    /\ EncodeIxs(<<>>) = <<>> /\ EncodeTables(<<>>) = <<>>
    /\ EncodeIxHeaders(<<>>) = <<>> /\ EncodePayloads(<<>>) = <<>>
<1>1. DOMAIN <<>> = {}
  OBVIOUS
<1>2. /\ [i \in DOMAIN <<>> |-> EncodeIx(<<>>[i])] = <<>>
      /\ [i \in DOMAIN <<>> |-> EncodeLookup(<<>>[i])] = <<>>
      /\ [i \in DOMAIN <<>> |-> EncodeIxHeader(<<>>[i])] = <<>>
      /\ [i \in DOMAIN <<>> |-> EncodePayload(<<>>[i])] = <<>>
  BY <1>1
<1> QED
  BY <1>2, FlattenEmpty DEF EncodeIxs, EncodeTables, EncodeIxHeaders, EncodePayloads

\* The parts of a message.
LEMMA MessageParts ==
    ASSUME NEW x \in WireMessages
    PROVE  /\ x.num_required_signatures \in Nat /\ x.num_readonly_signed_accounts \in Nat
           /\ x.num_readonly_unsigned_accounts \in Nat
           /\ x.static_account_keys \in Seq(Keys) /\ x.static_account_keys \in Seq(Units)
           /\ Len(x.static_account_keys) \in Nat
           /\ x.instructions \in Seq(CompiledInstructions) /\ Len(x.instructions) \in Nat
           /\ x.address_table_lookups \in Seq(TableLookups)
           /\ Len(x.address_table_lookups) \in Nat
           /\ x.config.mask \in Nat /\ x.config.values \in Seq(Words)
           /\ x.config.values \in Seq(Nat) /\ x.config.values \in Seq(Units)
           /\ x.loaded \in Nat
<1>1. /\ x.num_required_signatures \in Nat /\ x.num_readonly_signed_accounts \in Nat
      /\ x.num_readonly_unsigned_accounts \in Nat /\ x.loaded \in Nat
      /\ x.static_account_keys \in Seq(Keys)
      /\ x.instructions \in Seq(CompiledInstructions)
      /\ x.address_table_lookups \in Seq(TableLookups)
      /\ x.config.mask \in Nat /\ x.config.values \in Seq(Words)
  BY DEF WireMessages
<1>2. Words \subseteq Nat
  BY WireAssumption
<1>3. x.config.values \in Seq(Nat)
  BY <1>1, <1>2, SeqMonotonic
<1> QED BY <1>1, <1>3, UnitSeqs, LenProperties

\* The header, and the version before it.
LEMMA FrontType ==
    ASSUME NEW x \in WireMessages
    PROVE  EncodeFront(x) \in Seq(Units)
<1>1. EncodeTag(x) \in Seq(Units)
  <2>1. V0Tag \in Units /\ V1Tag \in Units
    BY CompactAssumption, UnitSets DEF V0Tag, V1Tag
  <2> QED BY <2>1, OneUnit, EmptySeq DEF EncodeTag
<1>2. HeaderOf(x) \in Seq(Units)
  <2>1. HeaderOf(x) \in Seq(Nat)
    BY MessageParts DEF HeaderOf
  <2> QED BY <2>1, UnitSeqs
<1>3. EncodeFront(x) = EncodeTag(x) \o HeaderOf(x)
  BY DEF EncodeFront, HeaderOf
<1> QED BY <1>1, <1>2, <1>3, ConcatProperties

\* Instructions and lookups of a message are units.
LEMMA ListTypes ==
    ASSUME NEW x \in WireMessages
    PROVE  /\ EncodeIxs(x.instructions) \in Seq(Units)
           /\ EncodeTables(x.address_table_lookups) \in Seq(Units)
           /\ EncodeIxHeaders(x.instructions) \in Seq(Units)
           /\ EncodePayloads(x.instructions) \in Seq(Units)
<1> DEFINE ix == [program_id_index |-> 0, account_indices |-> <<>>, data |-> <<>>]
<1>1. ix \in CompiledInstructions
  BY EmptySeq DEF CompiledInstructions
<1> HIDE DEF ix
<1>2. /\ x.instructions \in Seq(CompiledInstructions)
      /\ x.address_table_lookups \in Seq(TableLookups)
  BY MessageParts
<1>3. /\ EncodeIxs(x.instructions) \in Seq(Units)
      /\ EncodeIxHeaders(x.instructions) \in Seq(Units)
      /\ EncodePayloads(x.instructions) \in Seq(Units)
  BY <1>1, <1>2, IxsGrow, IxHeadersGrow, PayloadsGrow
<1> DEFINE l == [table_key |-> RfqProgram, writable_indexes |-> <<>>, readonly_indexes |-> <<>>]
<1>4. l \in TableLookups
  BY EmptySeq, DecoderAssumption DEF TableLookups
<1> HIDE DEF l
<1>5. EncodeTables(x.address_table_lookups) \in Seq(Units)
  BY <1>2, <1>4, TablesGrow
<1> QED BY <1>3, <1>5

\* Front, keys and instructions, for any number of instructions announced.
LEMMA BodyType ==
    ASSUME NEW x \in WireMessages, NEW n \in Nat
    PROVE  /\ EncodeFront(x) \o EncodeVector(x.static_account_keys) \in Seq(Units)
           /\ <<Blockhash>> \o CompactEncoding(n) \in Seq(Units)
           /\ EncodeBody(x, n) \in Seq(Units)
           /\ EncodeLookups(x.address_table_lookups, n) \in Seq(Units)
<1>1. EncodeFront(x) \o EncodeVector(x.static_account_keys) \in Seq(Units)
  BY FrontType, MessageParts, VectorType, ConcatProperties
<1>2. CompactEncoding(n) \in Seq(Units)
  BY EncodingType
<1>3. <<Blockhash>> \in Seq(Units)
  BY UnitSets, OneUnit
<1>4. <<Blockhash>> \o CompactEncoding(n) \in Seq(Units)
  BY <1>2, <1>3, ConcatProperties
<1>5. EncodeBody(x, n) \in Seq(Units)
  <2> DEFINE a == EncodeFront(x) \o EncodeVector(x.static_account_keys)
             b == <<Blockhash>> \o CompactEncoding(n)
             c == EncodeIxs(x.instructions)
  <2>1. a \in Seq(Units) /\ b \in Seq(Units) /\ c \in Seq(Units)
    BY <1>1, <1>4, ListTypes
  <2>2. EncodeBody(x, n) = (a \o b) \o c
    BY DEF EncodeBody
  <2> HIDE DEF a, b, c
  <2> QED BY <2>1, <2>2, ConcatProperties
<1>6. EncodeLookups(x.address_table_lookups, n) \in Seq(Units)
  BY <1>2, ListTypes, ConcatProperties DEF EncodeLookups
<1> QED BY <1>1, <1>4, <1>5, <1>6

-----------------------------------------------------------------------------
(* Reading *)

\* A length that is taken is read as it is written.
LEMMA ReadLength ==
    ASSUME NEW e \in Lengths
    PROVE  /\ CompactValue(e) \in Nat
           /\ e = CompactEncoding(CompactValue(e)) /\ e \in Seq(Units)
<1>1. e \in CompactReads /\ CompactValid(e)
  BY DEF Lengths
<1>2. CompactValue(e) \in 0 .. U16Max /\ e = CompactEncoding(CompactValue(e))
  BY <1>1, CompactCanonical
<1>3. CompactValue(e) \in Nat
  BY <1>2
<1>4. CompactEncoding(CompactValue(e)) \in Seq(Units)
  BY <1>3, EncodingType
<1> QED BY <1>2, <1>3, <1>4

\* So is a vector.
LEMMA ReadVector ==
    ASSUME NEW S \in SUBSET Units, NEW v \in Vectors(S)
    PROVE  /\ v[2] \in Seq(S) /\ v[2] \in Seq(Units)
           /\ v[1] \o v[2] = EncodeVector(v[2]) /\ v[1] \o v[2] \in Seq(Units)
<1>1. PICK e \in Lengths : \E w \in [1 .. CompactValue(e) -> S] : v = <<e, w>>
  BY DEF Vectors
<1>2. PICK w \in [1 .. CompactValue(e) -> S] : v = <<e, w>>
  BY <1>1
<1>3. CompactValue(e) \in Nat /\ e = CompactEncoding(CompactValue(e))
  BY ReadLength
<1>4. w \in Seq(S) /\ Len(w) = CompactValue(e)
  BY <1>3
<1>5. w \in Seq(Units)
  BY <1>4, SeqMonotonic
<1>6. v[1] = e /\ v[2] = w
  BY <1>2
<1>7. v[1] \o v[2] = EncodeVector(v[2])
  BY <1>3, <1>4, <1>6, Zenon DEF EncodeVector
<1>8. EncodeVector(w) \in Seq(Units)
  BY <1>5, VectorType
<1> QED BY <1>4, <1>5, <1>6, <1>7, <1>8

\* The numbers that occur are units.
LEMMA NumbersAreUnits ==
    /\ HeaderBytes \in SUBSET Nat /\ Indices \in SUBSET Nat
    /\ Indices \in SUBSET Units /\ Masks \in SUBSET Nat /\ Words \in SUBSET Nat
    /\ Keys \in SUBSET Units /\ Data \in SUBSET Units /\ Signatures \in SUBSET Units
<1>1. CompactByte \subseteq Nat
  BY CompactAssumption DEF CompactByte
<1> QED BY <1>1, WireAssumption, UnitSets

\* A header is three numbers.
LEMMA HeaderNumbers ==
    ASSUME NEW h \in Headers
    PROVE  /\ h[1] \in Nat /\ h[2] \in Nat /\ h[3] \in Nat /\ h = <<h[1], h[2], h[3]>>
           /\ h \in Seq(Units) /\ Len(h) = 3
<1>1. HeaderBytes \in SUBSET Nat
  BY NumbersAreUnits
<1>2. PICK x \in HeaderBytes, y \in HeaderBytes, z \in HeaderBytes : h = <<x, y, z>>
  BY DEF Headers
<1>3. h = <<h[1], h[2], h[3]>> /\ h[1] \in Nat /\ h[2] \in Nat /\ h[3] \in Nat
  <2>1. h[1] = x /\ h[2] = y /\ h[3] = z
    BY <1>2
  <2> QED BY <1>1, <1>2, <2>1
<1>4. <<h[1], h[2], h[3]>> \in Seq(Nat) /\ Len(<<h[1], h[2], h[3]>>) = 3
  BY <1>3
<1> QED BY <1>3, <1>4, UnitSeqs

\* What one reads is added to the tape.
LEMMA TapeGrows ==
    ASSUME tape \in Seq(Units), NEW u \in Seq(Units), Take(u)
    PROVE  tape' \in Seq(Units) /\ tape' = tape \o u
  BY ConcatProperties DEF Take

\* Each part of the invariant is about its own states.
LEMMA OnlyLegacy ==
    ASSUME state' \in {"keys", "count", "instructions", "lookups"}
    PROVE  InVersions' /\ InV1' /\ InParsed'
  BY DEF InVersions, InV1, InParsed

\* A step into the v1 parser concerns the v1 part alone.
LEMMA OnlyV1 ==
    ASSUME state' \in {"v1_keys", "v1_config", "v1_headers", "v1_payloads"}
    PROVE  InVersions' /\ InLegacy' /\ InParsed'
  BY DEF InVersions, InLegacy, InParsed

\* A step that ends the parse concerns the last part alone.
LEMMA OnlyParsed ==
    ASSUME state' \in {"parsed", "decoded", "refused"}
    PROVE  InVersions' /\ InLegacy' /\ InV1'
  BY DEF InVersions, InLegacy, InV1

\* The signatures that come first.
LEMMA BeforeType ==
    ASSUME signatures \in Seq(Signatures)
    PROVE  SignaturesBefore \in Seq(Units) /\ SignaturesAfter \in Seq(Units)
<1>1. signatures \in Seq(Units) /\ <<>> \in Seq(Units)
  BY UnitSeqs, EmptySeq
<1>2. EncodeVector(signatures) \in Seq(Units)
  BY <1>1, VectorType
<1> QED BY <1>1, <1>2 DEF SignaturesBefore, SignaturesAfter

-----------------------------------------------------------------------------
(* The invariant: legacy and v0 *)

\* Nothing is read yet.
LEMMA WireInvInit == WireInit => WireInv
<1> SUFFICES ASSUME WireInit PROVE WireInv
  OBVIOUS
<1>1. state = "start" /\ tape = <<>> /\ m = NoMessage /\ signatures = <<>> /\ todo = 0
  BY DEF WireInit
<1>2. NoMessage \in WireMessages
  BY EmptySeq DEF NoMessage, NoConfig, WireMessages
<1>3. InVersions /\ InLegacy /\ InV1 /\ InParsed
  BY <1>1 DEF InVersions, InLegacy, InV1, InParsed
<1> QED BY <1>1, <1>2, <1>3, EmptySeq DEF WireInv, WireInit

\* The signatures of an envelope.
LEMMA EnvelopeInv == ASSUME WireInv, Envelope PROVE WireInv'
<1>1. PICK v \in Vectors(Signatures) : Take(v[1] \o v[2]) /\ signatures' = v[2]
  BY DEF Envelope
<1>2. /\ v[2] \in Seq(Signatures) /\ v[1] \o v[2] = EncodeVector(v[2])
      /\ v[1] \o v[2] \in Seq(Units)
  BY NumbersAreUnits, ReadVector
<1>3. /\ state = "start" /\ state' = "version" /\ mode = "transaction" /\ mode' = mode
      /\ m' = m /\ todo' = todo
  BY DEF Envelope, Go
<1>4. tape = <<>> /\ m = NoMessage /\ tape \in Seq(Units) /\ m \in WireMessages /\ todo \in Nat
  BY <1>3 DEF WireInv, InVersions
<1>5. tape' \in Seq(Units) /\ tape' = tape \o (v[1] \o v[2])
  BY <1>1, <1>2, <1>4, TapeGrows
<1>6. tape' = EncodeVector(signatures')
  BY <1>1, <1>2, <1>4, <1>5, ConcatEmptySeq
<1>7. InVersions' /\ InLegacy' /\ InV1' /\ InParsed'
  BY <1>3, <1>4, <1>6 DEF InVersions, InLegacy, InV1, InParsed
<1> QED BY <1>1, <1>2, <1>3, <1>4, <1>5, <1>7 DEF WireInv

\* A version and a header, whichever of the two it is.
LEMMA HeaderInv ==
    ASSUME NEW version \in {"Legacy", "V0"}, NEW h \in Headers, NEW tag \in Seq(Units),
           WireInv, AtVersion, state' = "keys", mode' = mode, todo' = todo,
           signatures' = signatures, m' = Header(version, h), tag = EncodeTag(m'), Take(tag \o h)
    PROVE  WireInv'
<1>1. h[1] \in Nat /\ h[2] \in Nat /\ h[3] \in Nat /\ h = <<h[1], h[2], h[3]>>
  BY HeaderNumbers
<1>2. h \in Seq(Units)
  BY HeaderNumbers
<1>3. /\ m = NoMessage /\ m \in WireMessages /\ tape \in Seq(Units)
      /\ signatures \in Seq(Signatures) /\ todo \in Nat /\ mode \in {"transaction", "message"}
  BY DEF WireInv, InVersions, AtVersion
<1>4. /\ m' \in WireMessages /\ m'.version = version
      /\ m'.instructions = <<>> /\ m'.address_table_lookups = <<>>
      /\ m'.num_required_signatures = h[1] /\ m'.num_readonly_signed_accounts = h[2]
      /\ m'.num_readonly_unsigned_accounts = h[3]
  BY <1>1, <1>3 DEF Header, WireMessages, NoMessage, NoConfig
<1>5. tag \o h \in Seq(Units)
  BY <1>2, ConcatProperties
<1>6. tape' \in Seq(Units) /\ tape' = tape \o (tag \o h)
  BY <1>3, <1>5, TapeGrows
<1>7. EncodeFront(m') = tag \o h
  BY <1>1, <1>4 DEF EncodeFront
<1>8. tape = SignaturesBefore'
  <2>1. CASE state = "version"
    <3>1. mode = "transaction" /\ tape = EncodeVector(signatures)
      BY <2>1 DEF WireInv, InVersions
    <3> QED BY <1>4, <3>1 DEF SignaturesBefore
  <2>2. CASE state = "start" /\ mode = "message"
    <3>1. tape = <<>>
      BY <2>2 DEF WireInv, InVersions
    <3> QED BY <2>2, <3>1 DEF SignaturesBefore
  <2> QED BY <2>1, <2>2 DEF AtVersion
<1>9. tape' = SignaturesBefore' \o EncodeFront(m')
  BY <1>6, <1>7, <1>8
<1>10. InLegacy'
  BY <1>4, <1>9 DEF InLegacy
<1> QED BY <1>3, <1>4, <1>6, <1>10, OnlyLegacy DEF WireInv

\* No prefix before a legacy header.
LEMMA LegacyHeaderInv == ASSUME WireInv, LegacyHeader PROVE WireInv'
<1>1. PICK h \in Headers : Take(h) /\ m' = Header("Legacy", h)
  BY DEF LegacyHeader
<1>2. h \in Seq(Units)
  BY HeaderNumbers
<1>3. <<>> \o h = h /\ <<>> \in Seq(Units)
  BY <1>2, ConcatEmptySeq, EmptySeq
<1>4. m \in WireMessages
  BY DEF WireInv
<1>5. m'.version = "Legacy"
  BY <1>1, <1>4 DEF Header, WireMessages
<1>6. EncodeTag(m') = <<>>
  BY <1>5 DEF EncodeTag
<1>7. /\ AtVersion /\ state' = "keys" /\ mode' = mode /\ todo' = todo
      /\ signatures' = signatures
  BY DEF LegacyHeader, Go
<1>8. Take(<<>> \o h)
  BY <1>1, <1>3
<1> QED BY <1>1, <1>3, <1>6, <1>7, <1>8, HeaderInv

\* The tag before a v0 header.
LEMMA V0HeaderInv == ASSUME WireInv, V0Header PROVE WireInv'
<1>1. PICK h \in Headers : Take(<<V0Tag>> \o h) /\ m' = Header("V0", h)
  BY DEF V0Header
<1>2. <<V0Tag>> \in Seq(Units)
  BY CompactAssumption, UnitSets, OneUnit DEF V0Tag
<1>3. m \in WireMessages
  BY DEF WireInv
<1>4. m'.version = "V0"
  BY <1>1, <1>3 DEF Header, WireMessages
<1>5. EncodeTag(m') = <<V0Tag>>
  BY <1>4 DEF EncodeTag
<1>6. /\ AtVersion /\ state' = "keys" /\ mode' = mode /\ todo' = todo
      /\ signatures' = signatures
  BY DEF V0Header, Go
<1> QED BY <1>1, <1>2, <1>5, <1>6, HeaderInv

\* What precedes the version is the same in the next state.
LEMMA BeforeStays ==
    ASSUME mode' = mode, signatures' = signatures, m'.version = m.version
    PROVE  SignaturesBefore' = SignaturesBefore
  BY DEF SignaturesBefore

\* The static keys.
LEMMA StaticKeysInv == ASSUME WireInv, StaticKeys PROVE WireInv'
<1>1. PICK v \in Vectors(Keys) :
        Take(v[1] \o v[2]) /\ m' = [m EXCEPT !.static_account_keys = v[2]]
  BY DEF StaticKeys
<1>2. v[2] \in Seq(Keys) /\ v[1] \o v[2] = EncodeVector(v[2]) /\ v[1] \o v[2] \in Seq(Units)
  BY NumbersAreUnits, ReadVector
<1>3. /\ state = "keys" /\ state' = "count" /\ mode' = mode /\ todo' = todo
      /\ signatures' = signatures
  BY DEF StaticKeys, Go
<1> DEFINE b == SignaturesBefore
<1>4. /\ m \in WireMessages /\ tape \in Seq(Units) /\ b \in Seq(Units)
      /\ signatures \in Seq(Signatures) /\ todo \in Nat /\ mode \in {"transaction", "message"}
      /\ m.version # "V1" /\ m.instructions = <<>> /\ m.address_table_lookups = <<>>
      /\ tape = b \o EncodeFront(m)
  BY <1>3, BeforeType DEF WireInv, InLegacy
<1>5. tape' \in Seq(Units) /\ tape' = tape \o EncodeVector(v[2])
  BY <1>1, <1>2, <1>4, TapeGrows
<1>6. /\ m' \in WireMessages /\ m'.version = m.version /\ m'.static_account_keys = v[2]
      /\ m'.instructions = <<>> /\ m'.address_table_lookups = <<>>
      /\ EncodeFront(m') = EncodeFront(m)
  <2>1. /\ m' \in WireMessages /\ m'.version = m.version /\ m'.static_account_keys = v[2]
        /\ m'.instructions = <<>> /\ m'.address_table_lookups = <<>>
        /\ m'.num_required_signatures = m.num_required_signatures
        /\ m'.num_readonly_signed_accounts = m.num_readonly_signed_accounts
        /\ m'.num_readonly_unsigned_accounts = m.num_readonly_unsigned_accounts
    BY <1>1, <1>2, <1>4 DEF WireMessages
  <2>2. EncodeFront(m') = EncodeFront(m)
    BY <2>1 DEF EncodeFront, EncodeTag
  <2> QED BY <2>1, <2>2
<1>7. SignaturesBefore' = b
  BY <1>3, <1>6, BeforeStays
<1>8. tape' = b \o (EncodeFront(m') \o EncodeVector(m'.static_account_keys))
  <2> DEFINE f == EncodeFront(m)
             k == EncodeVector(v[2])
  <2>1. f \in Seq(Units)
    BY <1>4, FrontType
  <2>2. k \in Seq(Units)
    BY <1>2
  <2>3. b \in Seq(Units)
    BY <1>4
  <2>4. tape' = (b \o f) \o k
    BY <1>4, <1>5
  <2>5. EncodeFront(m') = f /\ EncodeVector(m'.static_account_keys) = k
    BY <1>6
  <2> HIDE DEF b, f, k
  <2>6. (b \o f) \o k = b \o (f \o k)
    BY <2>1, <2>2, <2>3, Associative
  <2> QED BY <2>4, <2>5, <2>6
<1> HIDE DEF b
<1>9. InLegacy'
  BY <1>3, <1>4, <1>6, <1>7, <1>8 DEF InLegacy
<1> QED BY <1>3, <1>4, <1>5, <1>6, <1>9, OnlyLegacy DEF WireInv

\* The blockhash, and how many instructions follow.
LEMMA NumInstructionsInv == ASSUME WireInv, NumInstructions PROVE WireInv'
<1>1. PICK e \in Lengths : Take(<<Blockhash>> \o e) /\ todo' = CompactValue(e)
  BY DEF NumInstructions
<1>2. todo' \in Nat /\ e = CompactEncoding(todo') /\ e \in Seq(Units)
  BY <1>1, ReadLength
<1>3. /\ state = "count" /\ state' = "instructions" /\ mode' = mode /\ m' = m
      /\ signatures' = signatures
  BY DEF NumInstructions, Go
<1> DEFINE b == SignaturesBefore
           f == EncodeFront(m) \o EncodeVector(m.static_account_keys)
           c == <<Blockhash>> \o e
<1>4. /\ m \in WireMessages /\ tape \in Seq(Units) /\ b \in Seq(Units)
      /\ signatures \in Seq(Signatures) /\ mode \in {"transaction", "message"}
      /\ m.version # "V1" /\ m.instructions = <<>> /\ m.address_table_lookups = <<>>
      /\ tape = b \o f
  BY <1>3, BeforeType DEF WireInv, InLegacy
<1>5. f \in Seq(Units) /\ c \in Seq(Units)
  BY <1>2, <1>4, BodyType
<1>6. tape' \in Seq(Units) /\ tape' = (b \o f) \o c
  BY <1>1, <1>4, <1>5, TapeGrows
<1>7. EncodeBody(m, 0 + todo') = f \o c
  <2>1. 0 + todo' = todo'
    <3>1. PICK n \in Nat : n = todo'
      BY <1>2
    <3>2. 0 + n = n
      OBVIOUS
    <3> QED BY <3>1, <3>2, Zenon
  <2>2. EncodeIxs(m.instructions) = <<>>
    BY <1>4, NothingToEncode
  <2>3. EncodeBody(m, todo') = (f \o c) \o <<>>
    BY <1>2, <2>2 DEF EncodeBody
  <2>4. f \o c \in Seq(Units)
    BY <1>5, ConcatProperties
  <2> HIDE DEF f, c
  <2>5. (f \o c) \o <<>> = f \o c
    BY <2>4, ConcatEmptySeq
  <2> QED BY <2>1, <2>3, <2>5
<1>8. SignaturesBefore' = b
  BY <1>3, BeforeStays
<1> HIDE DEF b, f, c
<1>9. tape' = b \o EncodeBody(m, 0 + todo')
  <2>1. b \in Seq(Units)
    BY <1>4
  <2>2. (b \o f) \o c = b \o (f \o c)
    BY <1>5, <2>1, Associative
  <2> QED BY <1>6, <1>7, <2>2
<1>10. Len(m.instructions) = 0
  BY <1>4
<1>11. InLegacy'
  BY <1>3, <1>4, <1>8, <1>9, <1>10 DEF InLegacy
<1> QED BY <1>2, <1>3, <1>4, <1>6, <1>11, OnlyLegacy DEF WireInv

\* The same header, tag and keys, one more instruction.
LEMMA BodyGrows ==
    ASSUME NEW x \in WireMessages, NEW y \in WireMessages, NEW ix \in CompiledInstructions,
           NEW n \in Nat, EncodeFront(y) = EncodeFront(x),
           y.static_account_keys = x.static_account_keys,
           y.instructions = Append(x.instructions, ix)
    PROVE  EncodeBody(y, n) = EncodeBody(x, n) \o EncodeIx(ix)
<1> DEFINE a == EncodeFront(x) \o EncodeVector(x.static_account_keys)
           b == <<Blockhash>> \o CompactEncoding(n)
           c == EncodeIxs(x.instructions)
           d == EncodeIx(ix)
<1>1. a \in Seq(Units) /\ b \in Seq(Units)
  BY BodyType
<1>2. c \in Seq(Units)
  BY ListTypes
<1>3. d \in Seq(Units)
  BY IxType
<1>4. x.instructions \in Seq(CompiledInstructions)
  BY MessageParts
<1>5. EncodeIxs(y.instructions) = c \o d
  BY <1>4, IxsGrow
<1>6. EncodeBody(x, n) = (a \o b) \o c
  BY DEF EncodeBody
<1>7. EncodeBody(y, n) = (a \o b) \o (c \o d)
  BY <1>5 DEF EncodeBody
<1> HIDE DEF a, b, c, d
<1>8. a \o b \in Seq(Units)
  BY <1>1, ConcatProperties
<1>9. ((a \o b) \o c) \o d = (a \o b) \o (c \o d)
  BY <1>2, <1>3, <1>8, Associative
<1> QED BY <1>6, <1>7, <1>9 DEF d

\* One instruction: its program, its accounts, its data.
LEMMA ReadInstructionInv == ASSUME WireInv, ReadInstruction PROVE WireInv'
<1>1. PICK program \in Indices, accounts \in Vectors(Indices), bytes \in Vectors(Data) :
        /\ Take(<<program>> \o (accounts[1] \o accounts[2]) \o (bytes[1] \o bytes[2]))
        /\ m' = [m EXCEPT !.instructions = Append(@, Compiled(program, accounts[2], bytes[2]))]
  BY DEF ReadInstruction
<1> DEFINE ix == Compiled(program, accounts[2], bytes[2])
<1>2. /\ accounts[2] \in Seq(Indices) /\ accounts[1] \o accounts[2] = EncodeVector(accounts[2])
      /\ bytes[2] \in Seq(Data) /\ bytes[1] \o bytes[2] = EncodeVector(bytes[2])
  BY NumbersAreUnits, ReadVector
<1>3. accounts[2] \in Seq(Nat) /\ program \in Nat
  BY <1>2, NumbersAreUnits, SeqMonotonic
<1>4. /\ ix \in CompiledInstructions /\ ix.program_id_index = program
      /\ ix.account_indices = accounts[2] /\ ix.data = bytes[2]
  BY <1>2, <1>3 DEF Compiled, CompiledInstructions
<1>5. <<program>> \o (accounts[1] \o accounts[2]) \o (bytes[1] \o bytes[2]) = EncodeIx(ix)
  BY <1>2, <1>4 DEF EncodeIx
<1>6. /\ state = "instructions" /\ state' = "instructions" /\ mode' = mode
      /\ signatures' = signatures /\ todo > 0 /\ todo' = todo - 1
  BY DEF ReadInstruction, Go
<1> DEFINE b == SignaturesBefore
<1>7. /\ m \in WireMessages /\ tape \in Seq(Units) /\ b \in Seq(Units)
      /\ signatures \in Seq(Signatures) /\ todo \in Nat /\ mode \in {"transaction", "message"}
      /\ m.version # "V1" /\ m.address_table_lookups = <<>>
      /\ tape = b \o EncodeBody(m, Len(m.instructions) + todo)
  BY <1>6, BeforeType DEF WireInv, InLegacy
<1> HIDE DEF ix
<1>8. EncodeIx(ix) \in Seq(Units)
  BY <1>4, IxType
<1>9. tape' \in Seq(Units) /\ tape' = tape \o EncodeIx(ix)
  BY <1>1, <1>5, <1>7, <1>8, TapeGrows
<1>10. /\ m' \in WireMessages /\ m'.version = m.version
       /\ m'.address_table_lookups = <<>> /\ m'.static_account_keys = m.static_account_keys
       /\ m'.instructions = Append(m.instructions, ix)
       /\ EncodeFront(m') = EncodeFront(m)
  <2>0. m' = [m EXCEPT !.instructions = Append(m.instructions, ix)]
    BY <1>1 DEF ix
  <2>1. m.instructions \in Seq(CompiledInstructions)
    BY <1>7, MessageParts
  <2>2. Append(m.instructions, ix) \in Seq(CompiledInstructions)
    BY <1>4, <2>1, AppendProperties
  <2>3. /\ m' \in WireMessages /\ m'.version = m.version
        /\ m'.address_table_lookups = <<>> /\ m'.static_account_keys = m.static_account_keys
        /\ m'.instructions = Append(m.instructions, ix)
        /\ m'.num_required_signatures = m.num_required_signatures
        /\ m'.num_readonly_signed_accounts = m.num_readonly_signed_accounts
        /\ m'.num_readonly_unsigned_accounts = m.num_readonly_unsigned_accounts
    BY <1>7, <2>0, <2>2 DEF WireMessages
  <2>4. EncodeFront(m') = EncodeFront(m)
    BY <2>3 DEF EncodeFront, EncodeTag
  <2> QED BY <2>3, <2>4
<1>11. PICK n \in Nat : n = Len(m.instructions) + todo /\ n = Len(m'.instructions) + todo'
       /\ todo' \in Nat
  <2>1. m.instructions \in Seq(CompiledInstructions) /\ Len(m.instructions) \in Nat
    BY <1>7, MessageParts
  <2>2. Len(Append(m.instructions, ix)) = Len(m.instructions) + 1
    BY <1>4, <2>1, AppendProperties
  <2>3. PICK l \in Nat, k \in Nat : l = Len(m.instructions) /\ k = todo
    BY <1>7, <2>1
  <2>4. k > 0 /\ Len(m'.instructions) = l + 1 /\ todo' = k - 1
    BY <1>6, <1>10, <2>2, <2>3
  <2>5. l + k \in Nat /\ (l + 1) + (k - 1) = l + k /\ k - 1 \in Nat
    BY <2>4
  <2> QED BY <2>3, <2>4, <2>5
<1>12. SignaturesBefore' = b
  BY <1>6, <1>10, BeforeStays
<1>13. tape' = b \o EncodeBody(m', n)
  <2> DEFINE f == EncodeBody(m, n)
             d == EncodeIx(ix)
  <2>1. f \in Seq(Units)
    BY <1>7, BodyType
  <2>2. EncodeBody(m', n) = f \o d
    BY <1>4, <1>7, <1>10, BodyGrows
  <2>3. tape' = (b \o f) \o d
    BY <1>7, <1>9, <1>11
  <2>4. b \in Seq(Units)
    BY <1>7
  <2>5. d \in Seq(Units)
    BY <1>8
  <2> HIDE DEF b, f, d
  <2>6. (b \o f) \o d = b \o (f \o d)
    BY <2>1, <2>4, <2>5, Associative
  <2> QED BY <2>2, <2>3, <2>6
<1> HIDE DEF b
<1>14. InLegacy'
  BY <1>6, <1>7, <1>10, <1>11, <1>12, <1>13 DEF InLegacy
<1> QED BY <1>6, <1>7, <1>9, <1>10, <1>11, <1>14, OnlyLegacy DEF WireInv

\* How many table lookups follow.
LEMMA NumLookupsInv == ASSUME WireInv, NumLookups PROVE WireInv'
<1>1. PICK e \in Lengths : Take(e) /\ todo' = CompactValue(e)
  BY DEF NumLookups
<1>2. todo' \in Nat /\ e = CompactEncoding(todo') /\ e \in Seq(Units)
  BY <1>1, ReadLength
<1>3. /\ state = "instructions" /\ state' = "lookups" /\ mode' = mode /\ m' = m
      /\ signatures' = signatures /\ todo = 0 /\ m.version = "V0"
  BY DEF NumLookups, Go
<1> DEFINE b == SignaturesBefore
           f == EncodeBody(m, Len(m.instructions))
<1>4. /\ m \in WireMessages /\ tape \in Seq(Units) /\ b \in Seq(Units)
      /\ signatures \in Seq(Signatures) /\ mode \in {"transaction", "message"}
      /\ m.address_table_lookups = <<>>
      /\ tape = b \o EncodeBody(m, Len(m.instructions) + todo)
  BY <1>3, BeforeType DEF WireInv, InLegacy
<1>5. Len(m.instructions) \in Nat /\ Len(m.instructions) + todo = Len(m.instructions)
  <2>1. PICK l \in Nat : l = Len(m.instructions)
    BY <1>4, MessageParts
  <2> QED BY <1>3, <2>1
<1>6. f \in Seq(Units) /\ tape = b \o f
  BY <1>4, <1>5, BodyType
<1>7. tape' \in Seq(Units) /\ tape' = (b \o f) \o e
  BY <1>1, <1>2, <1>4, <1>6, TapeGrows
<1>8. EncodeLookups(m.address_table_lookups, todo') = e
  <2>1. EncodeTables(m.address_table_lookups) = <<>>
    BY <1>4, NothingToEncode
  <2>2. e \o <<>> = e
    BY <1>2, ConcatEmptySeq
  <2> QED BY <1>2, <2>1, <2>2 DEF EncodeLookups
<1>9. Len(m.address_table_lookups) + todo' = todo'
  <2>1. PICK n \in Nat : n = todo'
    BY <1>2
  <2>2. Len(m.address_table_lookups) = 0 /\ 0 + n = n
    BY <1>4
  <2> QED BY <2>1, <2>2, Zenon
<1>10. SignaturesBefore' = b
  BY <1>3, BeforeStays
<1>11. tape' = b \o (f \o e)
  <2>1. b \in Seq(Units)
    BY <1>4
  <2> HIDE DEF b, f
  <2>2. (b \o f) \o e = b \o (f \o e)
    BY <1>2, <1>6, <2>1, Associative
  <2> QED BY <1>7, <2>2
<1> HIDE DEF b
<1>12. InLegacy'
  BY <1>3, <1>4, <1>8, <1>9, <1>10, <1>11 DEF InLegacy
<1> QED BY <1>2, <1>3, <1>4, <1>7, <1>12, OnlyLegacy DEF WireInv

\* One more lookup, with the same number announced.
LEMMA LookupsGrow ==
    ASSUME NEW s \in Seq(TableLookups), NEW l \in TableLookups, NEW n \in Nat
    PROVE  EncodeLookups(Append(s, l), n) = EncodeLookups(s, n) \o EncodeLookup(l)
<1> DEFINE c == CompactEncoding(n)
           t == EncodeTables(s)
           d == EncodeLookup(l)
<1>1. c \in Seq(Units)
  BY EncodingType
<1>2. t \in Seq(Units) /\ EncodeTables(Append(s, l)) = t \o d
  BY TablesGrow
<1>3. d \in Seq(Units)
  BY LookupType
<1>4. EncodeLookups(s, n) = c \o t /\ EncodeLookups(Append(s, l), n) = c \o (t \o d)
  BY <1>2 DEF EncodeLookups
<1> HIDE DEF c, t, d
<1>5. (c \o t) \o d = c \o (t \o d)
  BY <1>1, <1>2, <1>3, Associative
<1> QED BY <1>4, <1>5 DEF d

\* One lookup: its table, its writable and its read-only indexes.
LEMMA ReadLookupInv == ASSUME WireInv, ReadLookup PROVE WireInv'
<1>1. PICK table \in Keys, w \in Vectors(Indices), r \in Vectors(Indices) :
        /\ Take(<<table>> \o (w[1] \o w[2]) \o (r[1] \o r[2]))
        /\ m' = [m EXCEPT !.address_table_lookups = Append(@, Lookup(table, w[2], r[2])),
                          !.loaded = @ + Len(w[2]) + Len(r[2])]
  BY DEF ReadLookup
<1> DEFINE l == Lookup(table, w[2], r[2])
           more == m.loaded + Len(w[2]) + Len(r[2])
<1>2. /\ w[2] \in Seq(Indices) /\ w[1] \o w[2] = EncodeVector(w[2])
      /\ r[2] \in Seq(Indices) /\ r[1] \o r[2] = EncodeVector(r[2])
  BY NumbersAreUnits, ReadVector
<1>3. w[2] \in Seq(Nat) /\ r[2] \in Seq(Nat)
  BY <1>2, NumbersAreUnits, SeqMonotonic
<1>4. /\ l \in TableLookups /\ l.table_key = table
      /\ l.writable_indexes = w[2] /\ l.readonly_indexes = r[2]
  BY <1>3 DEF Lookup, TableLookups
<1>5. <<table>> \o (w[1] \o w[2]) \o (r[1] \o r[2]) = EncodeLookup(l)
  BY <1>2, <1>4 DEF EncodeLookup
<1>6. /\ state = "lookups" /\ state' = "lookups" /\ mode' = mode
      /\ signatures' = signatures /\ todo > 0 /\ todo' = todo - 1
  BY DEF ReadLookup, Go
<1> DEFINE b == SignaturesBefore
           ls == m.address_table_lookups
           f == EncodeBody(m, Len(m.instructions))
<1>7. /\ m \in WireMessages /\ tape \in Seq(Units) /\ b \in Seq(Units)
      /\ signatures \in Seq(Signatures) /\ todo \in Nat /\ mode \in {"transaction", "message"}
      /\ m.version = "V0"
      /\ tape = b \o (f \o EncodeLookups(ls, Len(ls) + todo))
  BY <1>6, BeforeType DEF WireInv, InLegacy
<1>8. more \in Nat
  <2>1. Len(w[2]) \in Nat /\ Len(r[2]) \in Nat /\ m.loaded \in Nat
    BY <1>3, <1>7, LenProperties, MessageParts
  <2> QED BY <2>1
<1> HIDE DEF l, more
<1>9. EncodeLookup(l) \in Seq(Units)
  BY <1>4, LookupType
<1>10. tape' \in Seq(Units) /\ tape' = tape \o EncodeLookup(l)
  BY <1>1, <1>5, <1>7, <1>9, TapeGrows
<1>11. ls \in Seq(TableLookups) /\ Len(ls) \in Nat /\ Len(m.instructions) \in Nat
  BY <1>7, MessageParts
<1>12. /\ m' \in WireMessages /\ m'.version = m.version
       /\ m'.address_table_lookups = Append(ls, l) /\ m'.instructions = m.instructions
       /\ \A n \in Nat : EncodeBody(m', n) = EncodeBody(m, n)
  <2>1. m' = [m EXCEPT !.address_table_lookups = Append(ls, l), !.loaded = more]
    BY <1>1 DEF l, more
  <2>2. Append(ls, l) \in Seq(TableLookups)
    BY <1>4, <1>11, AppendProperties
  <2> HIDE DEF ls
  <2>3. /\ m' \in WireMessages /\ m'.version = m.version
        /\ m'.address_table_lookups = Append(ls, l)
        /\ m'.static_account_keys = m.static_account_keys
        /\ m'.instructions = m.instructions
        /\ m'.num_required_signatures = m.num_required_signatures
        /\ m'.num_readonly_signed_accounts = m.num_readonly_signed_accounts
        /\ m'.num_readonly_unsigned_accounts = m.num_readonly_unsigned_accounts
    BY <1>7, <1>8, <2>1, <2>2 DEF WireMessages
  <2>4. EncodeFront(m') = EncodeFront(m)
    BY <2>3 DEF EncodeFront, EncodeTag
  <2>5. \A n \in Nat : EncodeBody(m', n) = EncodeBody(m, n)
    BY <2>3, <2>4 DEF EncodeBody
  <2> QED BY <2>3, <2>5
<1>13. PICK n \in Nat : n = Len(ls) + todo /\ n = Len(m'.address_table_lookups) + todo'
       /\ todo' \in Nat
  <2>1. Len(Append(ls, l)) = Len(ls) + 1
    BY <1>4, <1>11, AppendProperties
  <2>2. PICK i \in Nat, k \in Nat : i = Len(ls) /\ k = todo
    BY <1>7, <1>11
  <2>3. k > 0 /\ Len(m'.address_table_lookups) = i + 1 /\ todo' = k - 1
    BY <1>6, <1>12, <2>1, <2>2
  <2>4. i + k \in Nat /\ (i + 1) + (k - 1) = i + k /\ k - 1 \in Nat
    BY <2>3
  <2> QED BY <2>2, <2>3, <2>4
<1>14. SignaturesBefore' = b
  BY <1>6, <1>12, BeforeStays
<1>15. tape' = b \o (f \o EncodeLookups(m'.address_table_lookups, n))
  <2> DEFINE g == EncodeLookups(ls, n)
             d == EncodeLookup(l)
  <2>1. f \in Seq(Units) /\ g \in Seq(Units)
    BY <1>7, <1>11, BodyType
  <2>2. EncodeLookups(m'.address_table_lookups, n) = g \o d
    BY <1>4, <1>11, <1>12, LookupsGrow
  <2>3. tape' = (b \o (f \o g)) \o d
    BY <1>7, <1>10, <1>13
  <2>4. b \in Seq(Units)
    BY <1>7
  <2>5. d \in Seq(Units)
    BY <1>9
  <2> HIDE DEF b, f, g, d
  <2>6. f \o g \in Seq(Units)
    BY <2>1, ConcatProperties
  <2>7. (b \o (f \o g)) \o d = b \o ((f \o g) \o d)
    BY <2>4, <2>5, <2>6, Associative
  <2>8. (f \o g) \o d = f \o (g \o d)
    BY <2>1, <2>5, Associative
  <2> QED BY <2>2, <2>3, <2>7, <2>8
<1>16. EncodeBody(m', Len(m'.instructions)) = f
  BY <1>11, <1>12
<1> HIDE DEF b, f, ls
<1>17. InLegacy'
  BY <1>6, <1>7, <1>12, <1>13, <1>14, <1>15, <1>16 DEF InLegacy
<1> QED BY <1>6, <1>7, <1>10, <1>12, <1>13, <1>17, OnlyLegacy DEF WireInv

\* The message ends where the encoder's does; what may follow is not read.
LEMMA ParsedInv == ASSUME WireInv, Parsed PROVE WireInv'
<1>1. /\ state' = "parsed" /\ mode' = mode /\ tape' = tape /\ todo' = todo
      /\ signatures' = signatures /\ m' = m /\ todo = 0
      /\ state \in {"instructions", "lookups"}
  BY DEF Parsed
<1> DEFINE b == SignaturesBefore
<1>2. /\ m \in WireMessages /\ tape \in Seq(Units) /\ b \in Seq(Units)
      /\ signatures \in Seq(Signatures) /\ mode \in {"transaction", "message"}
      /\ m.version # "V1"
  BY <1>1, BeforeType DEF WireInv, InLegacy
<1>3. /\ Len(m.instructions) + 0 = Len(m.instructions)
      /\ Len(m.address_table_lookups) + 0 = Len(m.address_table_lookups)
      /\ Len(m.instructions) \in Nat /\ Len(m.address_table_lookups) \in Nat
  <2>1. PICK i \in Nat, j \in Nat : i = Len(m.instructions) /\ j = Len(m.address_table_lookups)
    BY <1>2, MessageParts
  <2>2. i + 0 = i /\ j + 0 = j
    OBVIOUS
  <2> QED BY <2>1, <2>2
<1>4. tape = b \o EncodeMessage(m)
  <2>1. CASE state = "instructions"
    <3>1. m.version = "Legacy"
      BY <1>1, <2>1 DEF Parsed
    <3>2. tape = b \o EncodeBody(m, Len(m.instructions))
      BY <1>1, <1>3, <2>1 DEF WireInv, InLegacy
    <3> QED BY <3>1, <3>2 DEF EncodeMessage
  <2>2. CASE state = "lookups"
    <3>1. m.version = "V0"
      BY <2>2 DEF WireInv, InLegacy
    <3>2. tape = b \o (EncodeBody(m, Len(m.instructions))
                        \o EncodeLookups(m.address_table_lookups, Len(m.address_table_lookups)))
      BY <1>1, <1>3, <2>2 DEF WireInv, InLegacy
    <3> QED BY <3>1, <3>2 DEF EncodeMessage
  <2> QED BY <1>1, <2>1, <2>2
<1>5. EncodeInput = tape
  <2>1. SignaturesAfter = <<>>
    BY <1>2 DEF SignaturesAfter
  <2>2. EncodeInput = tape \o <<>>
    BY <1>4, <2>1 DEF EncodeInput
  <2> QED BY <1>2, <2>2, ConcatEmptySeq
<1>6. EncodeInput' = EncodeInput
  BY <1>1 DEF EncodeInput, SignaturesBefore, SignaturesAfter
<1>7. tape' = EncodeInput' /\ m'.version # "V1"
  BY <1>1, <1>2, <1>5, <1>6
<1>8. InParsed'
  BY <1>1, <1>7 DEF InParsed
<1>9. InVersions' /\ InLegacy' /\ InV1'
  BY <1>1, OnlyParsed
<1>10. todo' \in Nat
  BY <1>1
<1> QED BY <1>1, <1>2, <1>8, <1>9, <1>10 DEF WireInv

-----------------------------------------------------------------------------
(* v1: the headers of the instructions *)

\* A header does not change when more is read.
LEMMA HeaderStays ==
    ASSUME NEW s \in Seq(Units), NEW u \in Seq(Units), NEW n \in Nat, NEW k \in Nat \ {0},
           n + 3 * k <= Len(s)
    PROVE  HeaderAfter(s \o u, n, k) = HeaderAfter(s, n, k)
<1> DEFINE a == n + 3 * (k - 1) + 1
           b == n + 3 * (k - 1) + 3
<1>1. Len(s) \in Nat
  BY LenProperties
<1>2. a \in 1 .. Len(s) /\ b \in 1 .. Len(s)
  BY <1>1
<1> HIDE DEF a, b
<1>3. SubSeq(s \o u, a, b) = SubSeq(s, a, b)
  BY <1>2, SubSeqOfConcat1
<1> QED BY <1>3 DEF HeaderAfter, a, b

\* A header counts from where the headers start.
LEMMA HeaderMoves ==
    ASSUME NEW p \in Seq(Units), NEW s \in Seq(Units), NEW k \in Nat \ {0}, 3 * k <= Len(s)
    PROVE  HeaderAfter(p \o s, Len(p), k) = HeaderAfter(s, 0, k)
<1> DEFINE a == Len(p) + 3 * (k - 1) + 1
           b == Len(p) + 3 * (k - 1) + 3
           c == 0 + 3 * (k - 1) + 1
           d == 0 + 3 * (k - 1) + 3
<1>1. Len(s) \in Nat /\ Len(p) \in Nat
  BY LenProperties
<1>2. /\ a \in Len(p) + 1 .. Len(p) + Len(s) /\ b \in Len(p) + 1 .. Len(p) + Len(s)
      /\ a - Len(p) = c /\ b - Len(p) = d
  BY <1>1
<1> HIDE DEF a, b, c, d
<1>3. SubSeq(p \o s, a, b) = SubSeq(s, a - Len(p), b - Len(p))
  BY <1>2, SubSeqOfConcat2
<1> QED BY <1>2, <1>3 DEF HeaderAfter, a, b, c, d

\* A triple of numbers is a sequence of units.
LEMMA TripleSeq ==
    ASSUME NEW h \in Nat \X Nat \X Nat
    PROVE  h \in Seq(Units) /\ Len(h) = 3 /\ SubSeq(h, 1, 3) = h
<1>1. PICK x \in Nat, y \in Nat, z \in Nat : h = <<x, y, z>>
  OBVIOUS
<1>2. <<x, y, z>> \in Seq(Nat) /\ Len(<<x, y, z>>) = 3
  OBVIOUS
<1>3. h \in Seq(Units) /\ Len(h) = 3
  BY <1>1, <1>2, UnitSeqs
<1>4. SubSeq(h, 1, Len(h)) = h
  BY <1>3, SubSeqFull
<1> QED BY <1>3, <1>4

\* Headers in a row are found where they were put.
LEMMA HeadersFound ==
    ASSUME NEW hs \in Seq(Nat \X Nat \X Nat)
    PROVE  /\ hs \in Seq(Seq(Units)) /\ FlattenSeq(hs) \in Seq(Units)
           /\ Len(FlattenSeq(hs)) = 3 * Len(hs)
           /\ \A k \in 1 .. Len(hs) : HeaderAfter(FlattenSeq(hs), 0, k) = hs[k]
<1> DEFINE T == Nat \X Nat \X Nat
<1>1. T \subseteq Seq(Units)
  BY TripleSeq
<1>2. hs \in Seq(Seq(Units))
  <2> HIDE DEF T
  <2>1. hs \in Seq(T)
    BY DEF T
  <2> QED BY <1>1, <2>1, SeqMonotonic
<1>3. Len(hs) \in Nat /\ \A k \in 1 .. Len(hs) : hs[k] \in T
  BY LenProperties
<1>4. PICK g \in [Nat -> Seq(Units)] : Joins(hs, g)
  BY <1>2, JoinExists
<1> DEFINE N == {n \in Nat : n <= Len(hs) =>
                    /\ Len(g[n]) = 3 * n
                    /\ \A k \in 1 .. n : HeaderAfter(g[n], 0, k) = hs[k]}
<1>5. 0 \in N
  BY <1>4 DEF Joins
<1>6. ASSUME NEW n \in N PROVE n + 1 \in N
  <2> SUFFICES ASSUME n + 1 <= Len(hs)
               PROVE  /\ Len(g[n + 1]) = 3 * (n + 1)
                      /\ \A k \in 1 .. n + 1 : HeaderAfter(g[n + 1], 0, k) = hs[k]
    OBVIOUS
  <2>1. n \in Nat /\ Len(g[n]) = 3 * n /\ \A k \in 1 .. n : HeaderAfter(g[n], 0, k) = hs[k]
    BY <1>3
  <2>2. g[n + 1] = g[n] \o hs[n + 1]
    BY <1>4, <2>1 DEF Joins
  <2>3. n + 1 \in 1 .. Len(hs) /\ n + 1 \in Nat
    BY <1>3, <2>1
  <2>4. hs[n + 1] \in T
    BY <1>3, <2>3
  <2>5. hs[n + 1] \in Seq(Units) /\ Len(hs[n + 1]) = 3 /\ SubSeq(hs[n + 1], 1, 3) = hs[n + 1]
    BY <2>4, TripleSeq
  <2>6. g[n] \in Seq(Units)
    BY <2>1
  <2> DEFINE s == g[n]
             h == hs[n + 1]
  <2> HIDE DEF s, h, N, T
  <2>7. s \in Seq(Units) /\ h \in Seq(Units) /\ Len(s) = 3 * n /\ Len(h) = 3
    BY <2>1, <2>5, <2>6 DEF s, h
  <2>8. Len(s \o h) = 3 * (n + 1)
    <3>1. Len(s \o h) = Len(s) + Len(h)
      BY <2>7, ConcatProperties
    <3>2. 3 * n + 3 = 3 * (n + 1)
      BY <2>1
    <3> QED BY <2>7, <3>1, <3>2
  <2>9. ASSUME NEW k \in 1 .. n + 1 PROVE HeaderAfter(s \o h, 0, k) = hs[k]
    <3>1. CASE k <= n
      <4>1. k \in 1 .. n /\ k \in Nat \ {0} /\ 0 + 3 * k <= Len(s)
        BY <2>1, <2>7, <3>1
      <4>2. HeaderAfter(s \o h, 0, k) = HeaderAfter(s, 0, k)
        BY <2>7, <4>1, HeaderStays
      <4> QED BY <2>1, <4>1, <4>2 DEF s
    <3>2. CASE ~(k <= n)
      <4>1. k = n + 1 /\ 3 * 1 <= Len(h) /\ 0 + 3 * (k - 1) + 1 = Len(s) + 3 * (1 - 1) + 1
            /\ 0 + 3 * (k - 1) + 3 = Len(s) + 3 * (1 - 1) + 3 /\ 1 \in Nat \ {0}
        BY <2>1, <2>7, <3>2
      <4>2. HeaderAfter(s \o h, 0, k) = HeaderAfter(s \o h, Len(s), 1)
        BY <4>1 DEF HeaderAfter
      <4>3. HeaderAfter(s \o h, Len(s), 1) = HeaderAfter(h, 0, 1)
        BY <2>7, <4>1, HeaderMoves
      <4>4. HeaderAfter(h, 0, 1) = SubSeq(h, 1, 3)
        BY DEF HeaderAfter
      <4>5. SubSeq(h, 1, 3) = h
        BY <2>5 DEF h
      <4> QED BY <4>1, <4>2, <4>3, <4>4, <4>5 DEF h
    <3> QED BY <3>1, <3>2
  <2> QED BY <2>2, <2>8, <2>9 DEF s, h
<1>7. N \in SUBSET Nat
  OBVIOUS
<1> HIDE DEF N, T
<1>8. N = Nat
  BY <1>5, <1>6, <1>7, Induction
<1>9. PICK n \in Nat : n = Len(hs)
  BY <1>3
<1>10. /\ Len(g[n]) = 3 * n
       /\ \A k \in 1 .. n : HeaderAfter(g[n], 0, k) = hs[k]
  <2>1. n \in N /\ n <= Len(hs)
    BY <1>8, <1>9
  <2> QED BY <2>1 DEF N
<1>11. FlattenSeq(hs) = g[n] /\ g[n] \in Seq(Units)
  BY <1>2, <1>4, <1>9, FlattenJoins
<1> QED BY <1>2, <1>9, <1>10, <1>11

-----------------------------------------------------------------------------
(* v1: the configuration *)

\* One more bit, one more value if it is set.
LEMMA OnesStep ==
    ASSUME NEW mask, NEW b \in Nat
    PROVE  /\ Ones(mask, b) \in Nat /\ Ones(mask, 0) = 0
           /\ Ones(mask, b + 1) = Ones(mask, b) + (IF Bit(mask, b) THEN 1 ELSE 0)
<1> DEFINE S(n) == {i \in 0 .. n - 1 : Bit(mask, i)}
<1>1. ASSUME NEW n \in Nat PROVE IsFiniteSet(S(n))
  <2>1. 0 \in Int /\ n - 1 \in Int
    OBVIOUS
  <2>2. IsFiniteSet(0 .. n - 1)
    BY <2>1, FS_Interval, Zenon
  <2>3. S(n) \in SUBSET (0 .. n - 1)
    OBVIOUS
  <2> HIDE DEF S
  <2> QED BY <2>2, <2>3, FS_Subset
<1>2. S(0) = {}
  BY SMT
<1>3. S(b + 1) = IF Bit(mask, b) THEN S(b) \cup {b} ELSE S(b)
  <2>1. 0 .. (b + 1) - 1 = (0 .. b - 1) \cup {b}
    OBVIOUS
  <2> QED BY <2>1
<1>4. b \notin S(b)
  OBVIOUS
<1>5. \A n : Ones(mask, n) = Cardinality(S(n))
  BY DEF Ones
<1> HIDE DEF S
<1>6. IsFiniteSet(S(b)) /\ Cardinality(S(b)) \in Nat
  BY <1>1, FS_CardinalityType
<1>7. Cardinality(S(b) \cup {b}) = Cardinality(S(b)) + 1
  BY <1>4, <1>6, FS_AddElement
<1>8. Ones(mask, 0) = 0
  BY <1>2, <1>5, FS_EmptySet
<1>9. Ones(mask, b + 1) = Ones(mask, b) + (IF Bit(mask, b) THEN 1 ELSE 0)
  <2>1. Ones(mask, b + 1) = Cardinality(S(b + 1)) /\ Ones(mask, b) = Cardinality(S(b))
    BY <1>5
  <2> QED BY <1>3, <1>6, <1>7, <2>1
<1> QED BY <1>5, <1>6, <1>8, <1>9

\* At most as many values are before a bit as there are.
LEMMA OnesGrow ==
    ASSUME NEW mask, NEW b \in 0 .. 5
    PROVE  Ones(mask, b) <= Ones(mask, 5) /\ Ones(mask, b) \in Nat
<1>1. \A n \in Nat : Ones(mask, n) \in Nat /\ Ones(mask, n) <= Ones(mask, n + 1)
  BY OnesStep
<1>2. /\ Ones(mask, 0) <= Ones(mask, 1) /\ Ones(mask, 1) <= Ones(mask, 2)
      /\ Ones(mask, 2) <= Ones(mask, 3) /\ Ones(mask, 3) <= Ones(mask, 4)
      /\ Ones(mask, 4) <= Ones(mask, 5)
      /\ Ones(mask, 0) \in Nat /\ Ones(mask, 1) \in Nat /\ Ones(mask, 2) \in Nat
      /\ Ones(mask, 3) \in Nat /\ Ones(mask, 4) \in Nat /\ Ones(mask, 5) \in Nat
  <2>1. 0 + 1 = 1 /\ 1 + 1 = 2 /\ 2 + 1 = 3 /\ 3 + 1 = 4 /\ 4 + 1 = 5
    OBVIOUS
  <2> QED BY <1>1, <2>1
<1>3. b = 0 \/ b = 1 \/ b = 2 \/ b = 3 \/ b = 4 \/ b = 5
  OBVIOUS
<1> QED BY <1>2, <1>3

\* The words of the configuration are what its accessors make of them, in the
\* order of the bits.
LEMMA ConfigEncoded ==
    ASSUME NEW config, config.values \in Seq(Nat), Len(config.values) = Ones(config.mask, 5)
    PROVE  EncodeConfig(config) = config.values
<1> DEFINE v == config.values
           mask == config.mask
           e(b) == IF Bit(mask, b - 1) THEN <<Value(config, b - 1, 0)>> ELSE <<>>
           ss == [b \in 1 .. 5 |-> e(b)]
           g == [b \in Nat |-> IF b <= 5 THEN SubSeq(v, 1, Ones(mask, b)) ELSE <<>>]
<1>1. v \in Seq(Nat) /\ Len(v) = Ones(mask, 5) /\ Len(v) \in Nat
  BY LenProperties
<1>2. EncodeConfig(config) = FlattenSeq(ss)
  BY DEF EncodeConfig
<1>3. ASSUME NEW b \in 0 .. 4
      PROVE  /\ e(b + 1) = IF Bit(mask, b) THEN <<v[Ones(mask, b) + 1]>> ELSE <<>>
             /\ Ones(mask, b) \in Nat
             /\ Ones(mask, b + 1) = Ones(mask, b) + (IF Bit(mask, b) THEN 1 ELSE 0)
             /\ Ones(mask, b + 1) <= Len(v)
  <2>1. (b + 1) - 1 = b /\ b \in Nat /\ b + 1 \in 0 .. 5
    OBVIOUS
  <2>2. e(b + 1) = IF Bit(mask, b) THEN <<v[Ones(mask, b) + 1]>> ELSE <<>>
    BY <2>1 DEF Value
  <2> HIDE DEF e, mask, v
  <2> QED BY <1>1, <2>1, <2>2, OnesStep, OnesGrow
<1> HIDE DEF e, v, mask
<1>4. ss \in Seq(Seq(Nat)) /\ Len(ss) = 5 /\ \A b \in 0 .. 4 : ss[b + 1] = e(b + 1)
  <2>1. ASSUME NEW b \in 1 .. 5 PROVE e(b) \in Seq(Nat)
    <3>1. PICK c \in 0 .. 4 : b = c + 1
      <4>1. b - 1 \in 0 .. 4 /\ b = (b - 1) + 1
        OBVIOUS
      <4> QED BY <4>1
    <3>2. CASE Bit(mask, c)
      <4>0. /\ Ones(mask, c) \in Nat /\ Ones(mask, c + 1) = Ones(mask, c) + 1
            /\ Ones(mask, c + 1) <= Len(v)
        BY <1>3, <3>2
      <4>1. Ones(mask, c) + 1 \in 1 .. Len(v)
        BY <1>1, <4>0
      <4>2. v[Ones(mask, c) + 1] \in Nat
        BY <1>1, <4>1, ElementOfSeq
      <4>3. e(b) = <<v[Ones(mask, c) + 1]>>
        BY <1>3, <3>1, <3>2
      <4> QED BY <4>2, <4>3
    <3>3. CASE ~Bit(mask, c)
      BY <1>3, <3>1, <3>3, EmptySeq
    <3> QED BY <3>2, <3>3
  <2> DEFINE X == Seq(Nat)
  <2>2. ss \in [1 .. 5 -> X]
    BY <2>1
  <2> HIDE DEF X
  <2>3. ss \in Seq(X) /\ Len(ss) = 5
    BY <2>2
  <2> QED BY <2>3 DEF X
<1>5. g \in [Nat -> Seq(Nat)]
  <2>1. ASSUME NEW b \in Nat, b <= 5 PROVE SubSeq(v, 1, Ones(mask, b)) \in Seq(Nat)
    <3>1. b \in 0 .. 5
      BY <2>1
    <3>2. Ones(mask, b) \in Nat /\ Ones(mask, b) <= Len(v)
      BY <1>1, <3>1, OnesGrow
    <3>3. \A i \in 1 .. Ones(mask, b) : v[i] \in Nat
      BY <1>1, <3>2, ElementOfSeq
    <3> QED BY <3>2, <3>3, SubSeqProperties
  <2> QED BY <2>1, EmptySeq
<1>6. g[0] = <<>>
  <2>1. Ones(mask, 0) = 0
    BY OnesStep
  <2>2. SubSeq(v, 1, 0) = <<>>
    BY SubSeqEmpty
  <2> QED BY <2>1, <2>2
<1>7. ASSUME NEW b \in Nat, b + 1 <= Len(ss) PROVE g[b + 1] = g[b] \o ss[b + 1]
  <2>1. b \in 0 .. 4 /\ b <= 5 /\ b + 1 <= 5 /\ b + 1 \in Nat
    BY <1>4, <1>7
  <2> DEFINE o == Ones(mask, b)
  <2>2. g[b] = SubSeq(v, 1, o) /\ g[b + 1] = SubSeq(v, 1, Ones(mask, b + 1))
    BY <2>1
  <2>3. /\ ss[b + 1] = IF Bit(mask, b) THEN <<v[o + 1]>> ELSE <<>>
        /\ o \in Nat /\ Ones(mask, b + 1) = o + (IF Bit(mask, b) THEN 1 ELSE 0)
        /\ Ones(mask, b + 1) <= Len(v)
    BY <1>3, <1>4, <2>1
  <2>4. g[b] \in Seq(Nat)
    BY <1>5
  <2> HIDE DEF g, ss, o
  <2>5. CASE Bit(mask, b)
    <3>1. 1 \in 1 .. Len(v) /\ o + 1 \in 1 .. Len(v) /\ (o + 1) - 1 = o
      BY <1>1, <2>3, <2>5
    <3>2. SubSeq(v, 1, o + 1) = SubSeq(v, 1, (o + 1) - 1) \o <<v[o + 1]>>
      BY <1>1, <3>1, SubSeqRecursiveSecond
    <3> QED BY <2>2, <2>3, <2>5, <3>1, <3>2
  <2>6. CASE ~Bit(mask, b)
    <3>1. Ones(mask, b + 1) = o /\ ss[b + 1] = <<>>
      BY <2>3, <2>6
    <3>2. g[b] \o <<>> = g[b]
      BY <2>4, ConcatEmptySeq
    <3> QED BY <2>2, <3>1, <3>2
  <2> QED BY <2>5, <2>6
<1>8. g[5] = v
  <2>0. 5 \in Nat /\ 5 <= 5
    OBVIOUS
  <2>1. g[5] = SubSeq(v, 1, Ones(mask, 5))
    BY <2>0
  <2>2. SubSeq(v, 1, Len(v)) = v
    BY <1>1, SubSeqFull
  <2> QED BY <1>1, <2>1, <2>2
<1> HIDE DEF g, ss
<1>9. Joins(ss, g)
  BY <1>6, <1>7 DEF Joins
<1>10. FlattenSeq(ss) = g[Len(ss)]
  BY <1>4, <1>5, <1>9, FlattenJoins
<1> QED BY <1>2, <1>4, <1>8, <1>10 DEF v

-----------------------------------------------------------------------------
(* The invariant: v1 *)

\* The fixed part is eight units, the counts the last two of them.
LEMMA FixedFacts ==
    ASSUME NEW x \in WireMessages, NEW i \in Nat, NEW k \in Nat, x.version = "V1"
    PROVE  /\ EncodeFixed(x, i, k) \in Seq(Units) /\ Len(EncodeFixed(x, i, k)) = 8
           /\ EncodeFixed(x, i, k)[7] = i /\ EncodeFixed(x, i, k)[8] = k
<1> DEFINE h == HeaderOf(x)
           t == <<V1Tag>>
           f == t \o h
           q == <<x.config.mask, Blockhash, i, k>>
<1>1. h \in Seq(Units) /\ Len(h) = 3
  <2>1. h \in Seq(Nat) /\ Len(h) = 3
    BY MessageParts DEF HeaderOf
  <2> QED BY <2>1, UnitSeqs
<1>2. t \in Seq(Units) /\ Len(t) = 1
  <2>1. V1Tag \in Units
    BY CompactAssumption, UnitSets DEF V1Tag
  <2> QED BY <2>1
<1>3. q \in Seq(Units) /\ Len(q) = 4 /\ q[3] = i /\ q[4] = k
  <2>1. x.config.mask \in Units /\ Blockhash \in Units /\ i \in Units /\ k \in Units
    BY UnitSets, MessageParts
  <2> QED BY <2>1
<1>4. EncodeFixed(x, i, k) = f \o q
  BY DEF EncodeFixed, EncodeFront, EncodeTag, HeaderOf
<1> HIDE DEF h, t, q
<1>5. f \in Seq(Units) /\ Len(f) = 4
  <2>1. t \o h \in Seq(Units) /\ Len(t \o h) = Len(t) + Len(h)
    BY <1>1, <1>2, ConcatProperties
  <2>2. 1 + 3 = 4
    OBVIOUS
  <2> QED BY <1>1, <1>2, <2>1, <2>2
<1> HIDE DEF f
<1>6. f \o q \in Seq(Units) /\ Len(f \o q) = 8
  <2>1. f \o q \in Seq(Units) /\ Len(f \o q) = Len(f) + Len(q)
    BY <1>3, <1>5, ConcatProperties
  <2>2. 4 + 4 = 8
    OBVIOUS
  <2> QED BY <1>3, <1>5, <2>1, <2>2
<1>7. \A j \in 1 .. Len(f) + Len(q) : (f \o q)[j] = IF j <= Len(f) THEN f[j] ELSE q[j - Len(f)]
  BY <1>3, <1>5, ConcatProperties
<1>8. (f \o q)[7] = q[3] /\ (f \o q)[8] = q[4]
  <2>1. 7 \in 1 .. 4 + 4 /\ 8 \in 1 .. 4 + 4 /\ ~(7 <= 4) /\ ~(8 <= 4) /\ 7 - 4 = 3 /\ 8 - 4 = 4
    OBVIOUS
  <2> QED BY <1>3, <1>5, <1>7, <2>1
<1> QED BY <1>3, <1>4, <1>6, <1>8

\* With the keys and the configuration after it.
LEMMA PrefixFacts ==
    ASSUME NEW x \in WireMessages, NEW i \in Nat, NEW k \in Nat, x.version = "V1"
    PROVE  /\ EncodeKeys(x, i, k) \in Seq(Units) /\ EncodeToConfig(x, i, k) \in Seq(Units)
           /\ Len(EncodeToConfig(x, i, k)) = 8 + Len(x.static_account_keys) + Len(x.config.values)
<1> DEFINE f == EncodeFixed(x, i, k)
           s == x.static_account_keys
           v == x.config.values
<1>1. f \in Seq(Units) /\ Len(f) = 8
  BY FixedFacts
<1>2. s \in Seq(Units) /\ v \in Seq(Units)
  BY MessageParts
<1>3. EncodeKeys(x, i, k) = f \o s /\ EncodeToConfig(x, i, k) = (f \o s) \o v
  BY DEF EncodeKeys, EncodeToConfig
<1> HIDE DEF f, s, v
<1>4. f \o s \in Seq(Units) /\ Len(f \o s) = 8 + Len(s)
  <2>1. f \o s \in Seq(Units) /\ Len(f \o s) = Len(f) + Len(s)
    BY <1>1, <1>2, ConcatProperties
  <2> QED BY <1>1, <2>1
<1>5. (f \o s) \o v \in Seq(Units) /\ Len((f \o s) \o v) = Len(f \o s) + Len(v)
  BY <1>2, <1>4, ConcatProperties
<1> QED BY <1>3, <1>4, <1>5 DEF s, v

\* Once begun, a v1 message stays so while more is read.
LEMMA BegunStays ==
    ASSUME NEW t \in Seq(Units), NEW u \in Seq(Units), NEW x, NEW y, V1Begun(t, x),
           y.version = "V1", y.loaded = 0, HeaderOf(y) = HeaderOf(x)
    PROVE  /\ V1Begun(t \o u, y) /\ (t \o u)[7] = t[7] /\ (t \o u)[8] = t[8]
<1>1. Len(t) \in Nat /\ Len(u) \in Nat /\ Len(t) >= 8
  BY LenProperties DEF V1Begun
<1>2. Len(t \o u) = Len(t) + Len(u)
  BY ConcatProperties
<1>3. \A j \in 1 .. Len(t) + Len(u) : (t \o u)[j] = IF j <= Len(t) THEN t[j] ELSE u[j - Len(t)]
  BY ConcatProperties
<1>4. 7 \in 1 .. Len(t) + Len(u) /\ 8 \in 1 .. Len(t) + Len(u) /\ 7 <= Len(t) /\ 8 <= Len(t)
  BY <1>1
<1>5. (t \o u)[7] = t[7] /\ (t \o u)[8] = t[8]
  BY <1>3, <1>4
<1>6. Len(t \o u) >= 8
  BY <1>1, <1>2
<1> QED BY <1>5, <1>6 DEF V1Begun

\* What the fixed part does not depend on.
LEMMA FixedSame ==
    ASSUME NEW x, NEW y, NEW i, NEW k, x.version = y.version, HeaderOf(x) = HeaderOf(y),
           x.config.mask = y.config.mask
    PROVE  EncodeFixed(x, i, k) = EncodeFixed(y, i, k)
<1>1. EncodeTag(x) = EncodeTag(y)
  BY DEF EncodeTag
<1>2. EncodeFront(x) = EncodeTag(x) \o HeaderOf(x) /\ EncodeFront(y) = EncodeTag(y) \o HeaderOf(y)
  BY DEF EncodeFront, HeaderOf
<1>3. EncodeFront(x) = EncodeFront(y)
  BY <1>1, <1>2
<1> QED BY <1>3 DEF EncodeFixed

\* The counts are checked before anything else is read.
LEMMA V1FixedInv == ASSUME WireInv, V1Fixed PROVE WireInv'
<1>1. PICK h \in Headers, mask \in Masks, nix \in 0 .. V1MaxIxs, nkeys \in 0 .. V1MaxKeys :
        /\ CountsValid(h, nix, nkeys)
        /\ Take((<<V1Tag>> \o h) \o <<mask, Blockhash, nix, nkeys>>)
        /\ m' = [Header("V1", h) EXCEPT !.config.mask = mask]
  BY DEF V1Fixed
<1>2. /\ state = "start" /\ state' = "v1_keys" /\ mode' = mode /\ todo' = todo
      /\ signatures' = signatures
      /\ atMost' = IF mode = "transaction" THEN V1MaxSize ELSE atMost
  BY DEF V1Fixed
<1>3. /\ tape = <<>> /\ m = NoMessage /\ tape \in Seq(Units) /\ m \in WireMessages
      /\ todo \in Nat /\ signatures \in Seq(Signatures) /\ mode \in {"transaction", "message"}
  BY <1>2 DEF WireInv, InVersions
<1>4. nix \in Nat /\ nkeys \in Nat /\ mask \in Nat
  BY NumbersAreUnits
<1>5. h[1] \in Nat /\ h[2] \in Nat /\ h[3] \in Nat /\ h = <<h[1], h[2], h[3]>>
  BY HeaderNumbers
<1>6. /\ m' \in WireMessages /\ m'.version = "V1" /\ m'.config.mask = mask /\ m'.loaded = 0
      /\ m'.instructions = <<>> /\ HeaderOf(m') = h
  <2> DEFINE x == Header("V1", h)
  <2>1. /\ x \in WireMessages /\ x.version = "V1" /\ x.loaded = 0 /\ x.instructions = <<>>
        /\ x.num_required_signatures = h[1] /\ x.num_readonly_signed_accounts = h[2]
        /\ x.num_readonly_unsigned_accounts = h[3]
    BY <1>3, <1>5 DEF Header, WireMessages, NoMessage, NoConfig
  <2>2. m' = [x EXCEPT !.config.mask = mask]
    BY <1>1
  <2> HIDE DEF x
  <2>3. /\ m' \in WireMessages /\ m'.version = "V1" /\ m'.config.mask = mask /\ m'.loaded = 0
        /\ m'.instructions = <<>>
        /\ m'.num_required_signatures = h[1] /\ m'.num_readonly_signed_accounts = h[2]
        /\ m'.num_readonly_unsigned_accounts = h[3]
    BY <1>4, <2>1, <2>2 DEF WireMessages
  <2> QED BY <1>5, <2>3 DEF HeaderOf
<1> DEFINE f == EncodeFixed(m', nix, nkeys)
<1>7. (<<V1Tag>> \o h) \o <<mask, Blockhash, nix, nkeys>> = f
  <2>1. EncodeFront(m') = <<V1Tag>> \o h
    <3>1. EncodeFront(m') = EncodeTag(m') \o HeaderOf(m')
      BY DEF EncodeFront, HeaderOf
    <3>2. EncodeTag(m') = <<V1Tag>>
      BY <1>6 DEF EncodeTag
    <3> QED BY <1>6, <3>1, <3>2
  <2> QED BY <1>6, <2>1 DEF EncodeFixed
<1>8. f \in Seq(Units) /\ Len(f) = 8 /\ f[7] = nix /\ f[8] = nkeys
  <2>1. PICK y \in WireMessages : y = m'
    BY <1>6
  <2>2. y.version = "V1"
    BY <1>6, <2>1
  <2>3. /\ EncodeFixed(y, nix, nkeys) \in Seq(Units) /\ Len(EncodeFixed(y, nix, nkeys)) = 8
        /\ EncodeFixed(y, nix, nkeys)[7] = nix /\ EncodeFixed(y, nix, nkeys)[8] = nkeys
    BY <1>4, <2>2, FixedFacts
  <2> QED BY <2>1, <2>3
<1> HIDE DEF f
<1>9. Take(f)
  BY <1>1, <1>7
<1>10. tape' = f
  <2>1. tape' = tape \o f
    BY <1>3, <1>8, <1>9, TapeGrows
  <2> QED BY <1>3, <1>8, <2>1, ConcatEmptySeq
<1>11. NumIxs' = nix /\ NumKeys' = nkeys
  BY <1>8, <1>10 DEF NumIxs, NumKeys
<1>12. tape' = EncodeFixed(m', NumIxs', NumKeys')
  BY <1>10, <1>11 DEF f
<1>13. V1Begun(tape', m')
  <2>1. tape'[7] = nix /\ tape'[8] = nkeys /\ Len(tape') = 8
    BY <1>8, <1>10
  <2>2. CountsValid(HeaderOf(m'), tape'[7], tape'[8])
    BY <1>1, <1>6, <2>1
  <2>3. Len(tape') >= 8 /\ tape'[7] \in Nat /\ tape'[8] \in Nat
    BY <1>4, <2>1
  <2> QED BY <1>6, <2>2, <2>3 DEF V1Begun
<1>14. InV1'
  BY <1>2, <1>6, <1>12, <1>13 DEF InV1
<1>15. InVersions' /\ InLegacy' /\ InParsed'
  BY <1>2, OnlyV1
<1> QED BY <1>2, <1>3, <1>6, <1>8, <1>10, <1>14, <1>15 DEF WireInv

\* As many keys as were announced.
LEMMA V1KeysInv == ASSUME WireInv, V1Keys PROVE WireInv'
<1>1. PICK ks \in [1 .. NumKeys -> Keys] :
        Take(ks) /\ m' = [m EXCEPT !.static_account_keys = ks]
  BY DEF V1Keys
<1>2. /\ state = "v1_keys" /\ state' = "v1_config" /\ mode' = mode /\ todo' = todo
      /\ signatures' = signatures /\ atMost' = atMost
  BY DEF V1Keys, Go
<1>3. /\ m \in WireMessages /\ tape \in Seq(Units) /\ todo \in Nat
      /\ signatures \in Seq(Signatures) /\ mode \in {"transaction", "message"}
      /\ V1Begun(tape, m) /\ m.instructions = <<>>
      /\ mode = "transaction" => atMost = V1MaxSize
      /\ tape = EncodeFixed(m, NumIxs, NumKeys)
  BY <1>2 DEF WireInv, InV1
<1>4. NumIxs \in Nat /\ NumKeys \in Nat
  BY <1>3 DEF V1Begun, NumIxs, NumKeys
<1>5. ks \in Seq(Keys) /\ Len(ks) = NumKeys
  BY <1>4
<1>6. ks \in Seq(Units)
  BY <1>5, UnitSeqs
<1>7. tape' \in Seq(Units) /\ tape' = tape \o ks
  BY <1>1, <1>3, <1>6, TapeGrows
<1>8. /\ m' \in WireMessages /\ m'.version = "V1" /\ m'.loaded = 0 /\ m'.instructions = <<>>
      /\ HeaderOf(m') = HeaderOf(m) /\ m'.config = m.config /\ m'.static_account_keys = ks
      /\ m.version = "V1"
  BY <1>1, <1>3, <1>5 DEF WireMessages, HeaderOf, V1Begun
<1>9. V1Begun(tape', m') /\ tape'[7] = tape[7] /\ tape'[8] = tape[8]
  <2>1. PICK y : y = m'
    OBVIOUS
  <2>2. y.version = "V1" /\ y.loaded = 0 /\ HeaderOf(y) = HeaderOf(m)
    BY <1>8, <2>1
  <2>3. tape \in Seq(Units) /\ V1Begun(tape, m)
    BY <1>3
  <2>4. /\ V1Begun(tape \o ks, y)
        /\ (tape \o ks)[7] = tape[7] /\ (tape \o ks)[8] = tape[8]
    BY <1>6, <2>2, <2>3, BegunStays
  <2> QED BY <1>7, <2>1, <2>4
<1>10. NumIxs' = NumIxs /\ NumKeys' = NumKeys
  BY <1>9 DEF NumIxs, NumKeys
<1>11. tape' = EncodeKeys(m', NumIxs, NumKeys)
  <2>1. EncodeFixed(m', NumIxs, NumKeys) = EncodeFixed(m, NumIxs, NumKeys)
    BY <1>8, FixedSame
  <2> QED BY <1>3, <1>7, <1>8, <2>1 DEF EncodeKeys
<1>12. InV1'
  BY <1>2, <1>3, <1>5, <1>8, <1>9, <1>10, <1>11 DEF InV1
<1>13. InVersions' /\ InLegacy' /\ InParsed'
  BY <1>2, OnlyV1
<1> QED BY <1>2, <1>3, <1>7, <1>8, <1>12, <1>13 DEF WireInv

\* As many words as the mask has bits.
LEMMA V1ConfigInv == ASSUME WireInv, V1Config PROVE WireInv'
<1>1. PICK ws \in [1 .. Ones(m.config.mask, 5) -> Words] :
        Take(ws) /\ m' = [m EXCEPT !.config = [m.config EXCEPT !.values = ws]]
  BY DEF V1Config
<1>2. /\ state = "v1_config" /\ state' = "v1_headers" /\ mode' = mode /\ todo' = todo
      /\ signatures' = signatures /\ atMost' = atMost
  BY DEF V1Config, Go
<1>3. /\ m \in WireMessages /\ tape \in Seq(Units) /\ todo \in Nat
      /\ signatures \in Seq(Signatures) /\ mode \in {"transaction", "message"}
      /\ V1Begun(tape, m) /\ m.instructions = <<>>
      /\ mode = "transaction" => atMost = V1MaxSize
      /\ Len(m.static_account_keys) = NumKeys
      /\ tape = EncodeKeys(m, NumIxs, NumKeys)
  BY <1>2 DEF WireInv, InV1
<1>4. PICK o \in Nat : o = Ones(m.config.mask, 5)
  <2>1. 5 \in 0 .. 5
    OBVIOUS
  <2> QED BY <2>1, OnesGrow
<1>5. ws \in Seq(Words) /\ Len(ws) = Ones(m.config.mask, 5)
  BY <1>4
<1>6. ws \in Seq(Units)
  <2>1. Words \subseteq Units
    BY NumbersAreUnits, UnitSets
  <2> QED BY <1>5, <2>1, SeqMonotonic
<1>7. tape' \in Seq(Units) /\ tape' = tape \o ws
  BY <1>1, <1>3, <1>6, TapeGrows
<1>8. /\ m' \in WireMessages /\ m'.version = "V1" /\ m'.loaded = 0 /\ m'.instructions = <<>>
      /\ HeaderOf(m') = HeaderOf(m) /\ m'.config.mask = m.config.mask /\ m'.config.values = ws
      /\ m'.static_account_keys = m.static_account_keys /\ m.version = "V1"
  BY <1>1, <1>3, <1>5 DEF WireMessages, HeaderOf, V1Begun
<1>9. V1Begun(tape', m') /\ tape'[7] = tape[7] /\ tape'[8] = tape[8]
  <2>1. PICK y : y = m'
    OBVIOUS
  <2>2. y.version = "V1" /\ y.loaded = 0 /\ HeaderOf(y) = HeaderOf(m)
    BY <1>8, <2>1
  <2>3. tape \in Seq(Units) /\ V1Begun(tape, m)
    BY <1>3
  <2>4. /\ V1Begun(tape \o ws, y)
        /\ (tape \o ws)[7] = tape[7] /\ (tape \o ws)[8] = tape[8]
    BY <1>6, <2>2, <2>3, BegunStays
  <2> QED BY <1>7, <2>1, <2>4
<1>10. NumIxs' = NumIxs /\ NumKeys' = NumKeys
  BY <1>9 DEF NumIxs, NumKeys
<1>11. tape' = EncodeToConfig(m', NumIxs, NumKeys)
  <2>1. EncodeFixed(m', NumIxs, NumKeys) = EncodeFixed(m, NumIxs, NumKeys)
    BY <1>8, FixedSame
  <2>2. EncodeKeys(m', NumIxs, NumKeys) = EncodeKeys(m, NumIxs, NumKeys)
    BY <1>8, <2>1 DEF EncodeKeys
  <2> QED BY <1>3, <1>7, <1>8, <2>2 DEF EncodeToConfig
<1>12. Len(m'.config.values) = Ones(m'.config.mask, 5)
  BY <1>5, <1>8
<1>13. InV1'
  BY <1>2, <1>3, <1>8, <1>9, <1>10, <1>11, <1>12 DEF InV1
<1>14. InVersions' /\ InLegacy' /\ InParsed'
  BY <1>2, OnlyV1
<1> QED BY <1>2, <1>3, <1>7, <1>8, <1>13, <1>14 DEF WireInv

\* All headers, before the first payload.
LEMMA V1HeadersInv == ASSUME WireInv, V1Headers PROVE WireInv'
<1>1. PICK hs \in [1 .. NumIxs -> Indices \X (0 .. MaxVec) \X (0 .. MaxVec)] :
        Take(FlattenSeq(hs))
  BY DEF V1Headers
<1>2. /\ state = "v1_headers" /\ state' = "v1_payloads" /\ mode' = mode /\ todo' = NumIxs
      /\ signatures' = signatures /\ atMost' = atMost /\ m' = m
  BY DEF V1Headers, Go
<1>3. /\ m \in WireMessages /\ tape \in Seq(Units)
      /\ signatures \in Seq(Signatures) /\ mode \in {"transaction", "message"}
      /\ V1Begun(tape, m) /\ m.instructions = <<>>
      /\ mode = "transaction" => atMost = V1MaxSize
      /\ Len(m.static_account_keys) = NumKeys
      /\ Len(m.config.values) = Ones(m.config.mask, 5)
      /\ tape = EncodeToConfig(m, NumIxs, NumKeys)
  BY <1>2 DEF WireInv, InV1
<1>4. NumIxs \in Nat /\ NumKeys \in Nat /\ m.version = "V1" /\ m.loaded = 0
  BY <1>3 DEF V1Begun, NumIxs, NumKeys
<1>5. hs \in Seq(Nat \X Nat \X Nat) /\ Len(hs) = NumIxs /\ DOMAIN hs = 1 .. NumIxs
  <2> DEFINE T == Nat \X Nat \X Nat
             U == Indices \X (0 .. MaxVec) \X (0 .. MaxVec)
  <2>0. Indices \subseteq Nat /\ 0 .. MaxVec \subseteq Nat
    BY NumbersAreUnits
  <2>1. U \subseteq T
    BY <2>0
  <2>2. hs \in [1 .. NumIxs -> U]
    OBVIOUS
  <2> HIDE DEF T, U
  <2>3. hs \in Seq(T) /\ Len(hs) = NumIxs /\ DOMAIN hs = 1 .. NumIxs
    BY <1>4, <2>1, <2>2
  <2> QED BY <2>3 DEF T
<1> DEFINE fl == FlattenSeq(hs)
<1>6. /\ fl \in Seq(Units) /\ Len(fl) = 3 * NumIxs
      /\ \A k \in 1 .. NumIxs : HeaderAfter(fl, 0, k) = hs[k]
  BY <1>5, HeadersFound
<1> HIDE DEF fl
<1>7. tape' \in Seq(Units) /\ tape' = tape \o fl
  BY <1>1, <1>3, <1>6, TapeGrows DEF fl
<1>8. V1Begun(tape', m') /\ tape'[7] = tape[7] /\ tape'[8] = tape[8]
  <2>1. tape \in Seq(Units) /\ V1Begun(tape, m) /\ m.version = "V1" /\ m.loaded = 0
    BY <1>3, <1>4
  <2>2. /\ V1Begun(tape \o fl, m)
        /\ (tape \o fl)[7] = tape[7] /\ (tape \o fl)[8] = tape[8]
    BY <1>6, <2>1, BegunStays
  <2> QED BY <1>2, <1>7, <2>2
<1>9. NumIxs' = NumIxs /\ NumKeys' = NumKeys
  BY <1>8 DEF NumIxs, NumKeys
<1>10. Len(tape) = HeadersStart /\ HeadersStart' = HeadersStart
  <2>1. Len(tape) = 8 + NumKeys + Len(m.config.values)
    BY <1>3, <1>4, PrefixFacts
  <2> QED BY <1>2, <1>9, <2>1 DEF HeadersStart
<1>11. HeadersIn(tape', HeadersStart', NumIxs') = hs
  <2>1. ASSUME NEW k \in 1 .. NumIxs PROVE HeaderAfter(tape', Len(tape), k) = hs[k]
    <3>1. k \in Nat \ {0} /\ 3 * k <= Len(fl)
      BY <1>4, <1>6
    <3>2. tape \in Seq(Units)
      BY <1>3
    <3>3. HeaderAfter(tape \o fl, Len(tape), k) = HeaderAfter(fl, 0, k)
      BY <1>6, <3>1, <3>2, HeaderMoves
    <3> QED BY <1>6, <1>7, <3>3
  <2>2. hs = [k \in 1 .. NumIxs |-> hs[k]]
    BY <1>5
  <2>3. [k \in 1 .. NumIxs |-> HeaderAfter(tape', Len(tape), k)] = hs
    BY <2>1, <2>2
  <2>4. HeadersIn(tape', Len(tape), NumIxs) = hs
    BY <2>3 DEF HeadersIn
  <2> QED BY <1>9, <1>10, <2>4
<1>12. Described(m', hs, NumKeys)
  BY <1>2, <1>3, <1>5 DEF Described
<1>13. tape' = (EncodeToConfig(m', NumIxs, NumKeys) \o FlattenSeq(hs)) \o EncodePayloads(m'.instructions)
  <2>1. EncodePayloads(m'.instructions) = <<>>
    BY <1>2, <1>3, NothingToEncode
  <2>2. tape' = EncodeToConfig(m', NumIxs, NumKeys) \o FlattenSeq(hs)
    BY <1>2, <1>3, <1>7 DEF fl
  <2>3. tape' \o <<>> = tape'
    BY <1>7, ConcatEmptySeq
  <2> QED BY <2>1, <2>2, <2>3
<1>14. Len(m'.instructions) + todo' = NumIxs
  <2>1. PICK n \in Nat : n = NumIxs
    BY <1>4
  <2>2. Len(m'.instructions) = 0 /\ 0 + n = n
    BY <1>2, <1>3
  <2> QED BY <1>2, <2>1, <2>2
<1>15. InV1'
  BY <1>2, <1>3, <1>8, <1>9, <1>11, <1>12, <1>13, <1>14 DEF InV1
<1>16. InVersions' /\ InLegacy' /\ InParsed'
  BY <1>2, OnlyV1
<1>17. todo' \in Nat
  BY <1>2, <1>4
<1> QED BY <1>2, <1>3, <1>7, <1>15, <1>16, <1>17 DEF WireInv

\* The headers on the tape are the same after more is read.
LEMMA HeadersStay ==
    ASSUME NEW s \in Seq(Units), NEW u \in Seq(Units), NEW n \in Nat, NEW nix \in Nat,
           n + 3 * nix <= Len(s)
    PROVE  HeadersIn(s \o u, n, nix) = HeadersIn(s, n, nix)
<1>1. Len(s) \in Nat
  BY LenProperties
<1>2. ASSUME NEW k \in 1 .. nix PROVE HeaderAfter(s \o u, n, k) = HeaderAfter(s, n, k)
  <2>1. k \in Nat \ {0} /\ n + 3 * k <= Len(s)
    BY <1>1
  <2> QED BY <2>1, HeaderStays
<1> QED BY <1>2 DEF HeadersIn

\* The payload of one instruction, as long as its header says.
LEMMA V1PayloadInv == ASSUME WireInv, V1Payload PROVE WireInv'
<1>1. PICK ix \in V1Instructions :
        /\ IndicesInRange(ix, NumKeys)
        /\ Take(ix.account_indices \o ix.data)
        /\ m' = [m EXCEPT !.instructions = Append(@, ix)]
  BY DEF V1Payload
<1>2. /\ state = "v1_payloads" /\ state' = "v1_payloads" /\ mode' = mode
      /\ todo > 0 /\ todo' = todo - 1 /\ signatures' = signatures /\ atMost' = atMost
  BY DEF V1Payload, Go
<1> DEFINE hs == HeadersIn(tape, HeadersStart, NumIxs)
           ixs == m.instructions
           p == EncodeToConfig(m, NumIxs, NumKeys)
           fl == FlattenSeq(hs)
           y == EncodePayloads(ixs)
           u == EncodePayload(ix)
<1>3. /\ m \in WireMessages /\ tape \in Seq(Units) /\ todo \in Nat
      /\ signatures \in Seq(Signatures) /\ mode \in {"transaction", "message"}
      /\ V1Begun(tape, m)
      /\ mode = "transaction" => atMost = V1MaxSize
      /\ Len(m.static_account_keys) = NumKeys
      /\ Len(m.config.values) = Ones(m.config.mask, 5)
      /\ Len(ixs) + todo = NumIxs /\ Described(m, hs, NumKeys)
      /\ tape = (p \o fl) \o y
  BY <1>2 DEF WireInv, InV1
<1>4. NumIxs \in Nat /\ NumKeys \in Nat /\ m.version = "V1" /\ m.loaded = 0
  BY <1>3 DEF V1Begun, NumIxs, NumKeys
<1>5. /\ ixs \in Seq(CompiledInstructions) /\ Len(ixs) \in Nat /\ DOMAIN ixs = 1 .. Len(ixs)
      /\ Len(m.config.values) \in Nat
  BY <1>3, MessageParts, LenProperties
<1>6. hs \in Seq(Nat \X Nat \X Nat) /\ Len(hs) = NumIxs
  <2>1. hs \in Seq(Nat \X Nat \X Nat)
    BY <1>3 DEF Described
  <2>2. DOMAIN hs = 1 .. NumIxs
    BY DEF HeadersIn
  <2> HIDE DEF hs
  <2> QED BY <1>4, <2>1, <2>2
<1>7. PICK i \in 1 .. NumIxs : i = Len(ixs) + 1
  <2>1. PICK a \in Nat, b \in Nat : a = Len(ixs) /\ b = todo
    BY <1>3, <1>5
  <2>2. a + 1 \in 1 .. NumIxs
    BY <1>2, <1>3, <1>4, <2>1
  <2> QED BY <2>1, <2>2
<1>8. hs[i] \in Nat \X Nat \X Nat /\ V1Header(i) = hs[i]
  <2>1. hs[i] \in Nat \X Nat \X Nat
    BY <1>6, <1>7, ElementOfSeq
  <2>2. V1Header(i) = hs[i]
    BY DEF V1Header, HeadersIn
  <2> QED BY <2>1, <2>2
<1>9. /\ ix \in CompiledInstructions /\ EncodeIxHeader(ix) = hs[i]
  <2> DEFINE h == hs[i]
  <2>1. PICK accounts \in [1 .. h[2] -> Indices], bytes \in [1 .. h[3] -> Data] :
          ix = Compiled(h[1], accounts, bytes)
    <3>1. h = V1Header(Len(m.instructions) + 1)
      BY <1>7, <1>8
    <3> HIDE DEF h
    <3> QED BY <3>1 DEF V1Instructions
  <2>2. PICK a \in Nat, b \in Nat, c \in Nat : h = <<a, b, c>>
    BY <1>8
  <2> HIDE DEF h, hs
  <2>3. h[1] = a /\ h[2] = b /\ h[3] = c
    BY <2>2
  <2>4. /\ accounts \in Seq(Indices) /\ Len(accounts) = b
        /\ bytes \in Seq(Data) /\ Len(bytes) = c
    BY <2>1, <2>3
  <2>5. accounts \in Seq(Nat)
    BY <2>4, NumbersAreUnits, SeqMonotonic
  <2>6. /\ ix \in CompiledInstructions /\ ix.program_id_index = a
        /\ ix.account_indices = accounts /\ ix.data = bytes
    BY <2>1, <2>3, <2>4, <2>5 DEF Compiled, CompiledInstructions
  <2>7. EncodeIxHeader(ix) = h
    BY <2>2, <2>4, <2>6 DEF EncodeIxHeader
  <2> QED BY <2>6, <2>7 DEF h
<1>10. u \in Seq(Units) /\ Take(u)
  <2>1. Take(ix.account_indices \o ix.data)
    BY <1>1
  <2> QED BY <1>9, <2>1, IxType DEF EncodePayload
<1>11. p \in Seq(Units) /\ Len(p) = HeadersStart /\ HeadersStart \in Nat
  <2>1. p \in Seq(Units) /\ Len(p) = 8 + NumKeys + Len(m.config.values)
    BY <1>3, <1>4, PrefixFacts
  <2>2. HeadersStart = 8 + NumKeys + Len(m.config.values)
    BY DEF HeadersStart
  <2>3. 8 + NumKeys + Len(m.config.values) \in Nat
    <3>1. PICK a \in Nat, b \in Nat : a = NumKeys /\ b = Len(m.config.values)
      BY <1>4, <1>5
    <3>2. 8 + a + b \in Nat
      OBVIOUS
    <3> QED BY <3>1, <3>2
  <2> HIDE DEF p
  <2> QED BY <2>1, <2>2, <2>3
<1>12. fl \in Seq(Units) /\ Len(fl) = 3 * NumIxs
  <2> HIDE DEF hs
  <2> QED BY <1>6, HeadersFound
<1>13. y \in Seq(Units) /\ Len(y) \in Nat
  BY <1>3, ListTypes, LenProperties
<1>14. /\ m' \in WireMessages /\ m'.version = "V1" /\ m'.loaded = 0
       /\ HeaderOf(m') = HeaderOf(m) /\ m'.config = m.config
       /\ m'.static_account_keys = m.static_account_keys
       /\ m'.instructions = Append(ixs, ix)
  <2>1. m' = [m EXCEPT !.instructions = Append(ixs, ix)]
    BY <1>1
  <2>2. Append(ixs, ix) \in Seq(CompiledInstructions)
    BY <1>5, <1>9, AppendProperties
  <2> HIDE DEF ixs
  <2> QED BY <1>3, <1>4, <2>1, <2>2 DEF WireMessages, HeaderOf
<1>15. EncodePayloads(Append(ixs, ix)) = y \o u
  BY <1>5, <1>9, PayloadsGrow
<1> HIDE DEF hs, ixs, p, fl, y, u
<1>16. tape' \in Seq(Units) /\ tape' = tape \o u
  BY <1>3, <1>10, TapeGrows
<1>17. V1Begun(tape', m') /\ tape'[7] = tape[7] /\ tape'[8] = tape[8]
  <2>1. PICK x : x = m'
    OBVIOUS
  <2>2. x.version = "V1" /\ x.loaded = 0 /\ HeaderOf(x) = HeaderOf(m)
    BY <1>14, <2>1
  <2>3. tape \in Seq(Units) /\ V1Begun(tape, m)
    BY <1>3
  <2>4. /\ V1Begun(tape \o u, x)
        /\ (tape \o u)[7] = tape[7] /\ (tape \o u)[8] = tape[8]
    BY <1>10, <2>2, <2>3, BegunStays
  <2> QED BY <1>16, <2>1, <2>4
<1>18. NumIxs' = NumIxs /\ NumKeys' = NumKeys /\ HeadersStart' = HeadersStart
  <2>1. NumIxs' = NumIxs /\ NumKeys' = NumKeys
    BY <1>17 DEF NumIxs, NumKeys
  <2> QED BY <1>14, <2>1 DEF HeadersStart
<1>19. HeadersIn(tape', HeadersStart, NumIxs) = hs
  <2>1. p \o fl \in Seq(Units) /\ Len(p \o fl) = HeadersStart + 3 * NumIxs
    BY <1>11, <1>12, ConcatProperties
  <2>2. Len(tape) = (HeadersStart + 3 * NumIxs) + Len(y)
    BY <1>3, <1>13, <2>1, ConcatProperties
  <2>3. HeadersStart + 3 * NumIxs <= Len(tape)
    BY <1>4, <1>11, <1>13, <2>2
  <2>4. tape \in Seq(Units)
    BY <1>3
  <2>5. HeadersIn(tape \o u, HeadersStart, NumIxs) = HeadersIn(tape, HeadersStart, NumIxs)
    BY <1>4, <1>10, <1>11, <2>3, <2>4, HeadersStay
  <2> QED BY <1>16, <2>5 DEF hs
<1>20. Described(m', hs, NumKeys)
  <2>1. /\ DOMAIN m'.instructions = 1 .. Len(ixs) + 1
        /\ \A j \in 1 .. Len(ixs) : m'.instructions[j] = ixs[j]
        /\ m'.instructions[Len(ixs) + 1] = ix
    <3>1. Append(ixs, ix) \in Seq(CompiledInstructions) /\ Len(Append(ixs, ix)) = Len(ixs) + 1
          /\ Append(ixs, ix)[Len(ixs) + 1] = ix
          /\ \A j \in 1 .. Len(ixs) : Append(ixs, ix)[j] = ixs[j]
      BY <1>5, <1>9, AppendProperties
    <3>2. DOMAIN Append(ixs, ix) = 1 .. Len(ixs) + 1
      BY <3>1, LenProperties
    <3> QED BY <1>14, <3>1, <3>2
  <2>2. ASSUME NEW j \in DOMAIN m'.instructions
        PROVE  /\ hs[j] = EncodeIxHeader(m'.instructions[j])
               /\ IndicesInRange(m'.instructions[j], NumKeys)
    <3>1. CASE j \in 1 .. Len(ixs)
      <4>1. hs[j] = EncodeIxHeader(ixs[j]) /\ IndicesInRange(ixs[j], NumKeys)
        BY <1>3, <1>5, <3>1 DEF Described, ixs
      <4> QED BY <2>1, <3>1, <4>1
    <3>2. CASE j \notin 1 .. Len(ixs)
      <4>1. j = Len(ixs) + 1
        BY <1>5, <2>1, <3>2
      <4> QED BY <1>1, <1>7, <1>9, <2>1, <4>1
    <3> QED BY <3>1, <3>2
  <2> QED BY <1>6, <2>2 DEF Described
<1>21. tape' = (EncodeToConfig(m', NumIxs, NumKeys) \o fl) \o EncodePayloads(m'.instructions)
  <2>1. EncodeToConfig(m', NumIxs, NumKeys) = p
    <3>1. EncodeFixed(m', NumIxs, NumKeys) = EncodeFixed(m, NumIxs, NumKeys)
      BY <1>4, <1>14, FixedSame
    <3> QED BY <1>14, <3>1 DEF EncodeToConfig, EncodeKeys, p
  <2>2. EncodePayloads(m'.instructions) = y \o u
    BY <1>14, <1>15
  <2>3. p \o fl \in Seq(Units)
    BY <1>11, <1>12, ConcatProperties
  <2>4. ((p \o fl) \o y) \o u = (p \o fl) \o (y \o u)
    BY <1>10, <1>13, <2>3, Associative
  <2> QED BY <1>3, <1>16, <2>1, <2>2, <2>4
<1>22. Len(m'.instructions) + todo' = NumIxs /\ todo' \in Nat
  <2>1. Len(m'.instructions) = Len(ixs) + 1
    BY <1>5, <1>9, <1>14, AppendProperties
  <2>2. PICK a \in Nat, b \in Nat : a = Len(ixs) /\ b = todo
    BY <1>3, <1>5
  <2>3. b > 0 /\ a + b = NumIxs /\ (a + 1) + (b - 1) = a + b /\ b - 1 \in Nat
    BY <1>2, <1>3, <2>2
  <2> QED BY <1>2, <2>1, <2>2, <2>3
<1>23. Len(m'.config.values) = Ones(m'.config.mask, 5) /\ Len(m'.static_account_keys) = NumKeys
  BY <1>3, <1>14
<1>24. InV1'
  BY <1>2, <1>3, <1>17, <1>18, <1>19, <1>20, <1>21, <1>22, <1>23 DEF InV1, fl
<1>25. InVersions' /\ InLegacy' /\ InParsed'
  BY <1>2, OnlyV1
<1> QED BY <1>2, <1>3, <1>14, <1>16, <1>22, <1>24, <1>25 DEF WireInv

\* With all payloads read, the tape is the whole encoding of the message.
LEMMA V1Complete ==
    ASSUME WireInv, state = "v1_payloads", todo = 0
    PROVE  /\ m.version = "V1" /\ m.loaded = 0 /\ tape = EncodeMessage(m)
           /\ mode = "transaction" => atMost = V1MaxSize
           /\ CountsValid(HeaderOf(m), Len(m.instructions), Len(m.static_account_keys))
           /\ \A i \in DOMAIN m.instructions :
                IndicesInRange(m.instructions[i], Len(m.static_account_keys))
<1> DEFINE hs == HeadersIn(tape, HeadersStart, NumIxs)
           ixs == m.instructions
           nkeys == Len(m.static_account_keys)
<1>1. /\ m \in WireMessages /\ V1Begun(tape, m)
      /\ mode = "transaction" => atMost = V1MaxSize
      /\ nkeys = NumKeys
      /\ Len(m.config.values) = Ones(m.config.mask, 5)
      /\ Len(ixs) + 0 = NumIxs /\ Described(m, hs, NumKeys)
      /\ tape = (EncodeToConfig(m, NumIxs, NumKeys) \o FlattenSeq(hs)) \o EncodePayloads(ixs)
  BY DEF WireInv, InV1
<1>2. Len(ixs) = NumIxs /\ DOMAIN ixs = 1 .. NumIxs
  <2>1. ixs \in Seq(CompiledInstructions) /\ Len(ixs) \in Nat
    BY <1>1, MessageParts
  <2>2. Len(ixs) + 0 = Len(ixs)
    BY <2>1
  <2> QED BY <1>1, <2>1, <2>2, LenProperties
<1>3. hs = [i \in DOMAIN ixs |-> EncodeIxHeader(ixs[i])]
  <2>1. \A i \in 1 .. NumIxs : hs[i] = EncodeIxHeader(ixs[i])
    BY <1>1, <1>2 DEF Described
  <2>2. hs = [k \in 1 .. NumIxs |-> hs[k]]
    BY DEF HeadersIn
  <2> HIDE DEF hs
  <2> QED BY <1>2, <2>1, <2>2
<1>4. FlattenSeq(hs) = EncodeIxHeaders(ixs)
  BY <1>3 DEF EncodeIxHeaders
<1>5. EncodeConfig(m.config) = m.config.values
  <2>1. PICK c : c = m.config
    OBVIOUS
  <2>2. c.values \in Seq(Nat) /\ Len(c.values) = Ones(c.mask, 5)
    BY <1>1, <2>1, MessageParts
  <2>3. EncodeConfig(c) = c.values
    BY <2>2, ConfigEncoded
  <2> QED BY <2>1, <2>3
<1>6. EncodeV1(m) = (EncodeToConfig(m, NumIxs, NumKeys) \o FlattenSeq(hs)) \o EncodePayloads(ixs)
  <2> HIDE DEF hs
  <2> QED BY <1>1, <1>2, <1>4, <1>5 DEF EncodeV1, EncodeToConfig, EncodeKeys
<1>7. m.version = "V1" /\ m.loaded = 0 /\ CountsValid(HeaderOf(m), NumIxs, NumKeys)
  BY <1>1 DEF V1Begun, NumIxs, NumKeys
<1>8. tape = EncodeMessage(m)
  BY <1>1, <1>6, <1>7 DEF EncodeMessage
<1>9. \A i \in DOMAIN ixs : IndicesInRange(ixs[i], nkeys)
  BY <1>1 DEF Described
<1> QED BY <1>1, <1>2, <1>7, <1>8, <1>9

\* Nothing follows but the signatures, and with them it is not too long.
LEMMA V1FinishInv == ASSUME WireInv, V1Finish PROVE WireInv'
<1>1. /\ state = "v1_payloads" /\ todo = 0 /\ state' = "parsed" /\ rest' = 0
      /\ mode' = mode /\ todo' = todo /\ m' = m
  BY DEF V1Finish
<1>2. /\ m.version = "V1" /\ m.loaded = 0 /\ tape = EncodeMessage(m)
      /\ mode = "transaction" => atMost = V1MaxSize
      /\ CountsValid(HeaderOf(m), Len(m.instructions), Len(m.static_account_keys))
      /\ \A i \in DOMAIN m.instructions :
           IndicesInRange(m.instructions[i], Len(m.static_account_keys))
  BY <1>1, V1Complete
<1>3. /\ m \in WireMessages /\ tape \in Seq(Units) /\ mode \in {"transaction", "message"}
      /\ m.num_required_signatures \in Nat /\ Len(tape) \in Nat
  <2>1. m \in WireMessages /\ tape \in Seq(Units) /\ mode \in {"transaction", "message"}
    BY DEF WireInv
  <2> QED BY <2>1, MessageParts, LenProperties
<1>4. <<>> \o tape = tape /\ tape \o <<>> = tape
  BY <1>3, ConcatEmptySeq
<1>5. /\ tape' \in Seq(Units) /\ signatures' \in Seq(Signatures) /\ tape' = EncodeInput'
      /\ mode = "transaction" => Len(signatures') = m.num_required_signatures
      /\ Len(tape) + SignaturesSize <= V1MaxSize
  <2>1. CASE mode = "message"
    <3>1. /\ Len(tape) + SignaturesSize <= V1MaxSize
          /\ tape' = tape /\ signatures' = <<>>
      BY <2>1 DEF V1Finish
    <3>2. SignaturesBefore' = <<>> /\ SignaturesAfter' = <<>> /\ EncodeMessage(m') = tape
      BY <1>1, <1>2, <2>1 DEF SignaturesBefore, SignaturesAfter
    <3>3. EncodeInput' = (<<>> \o tape) \o <<>>
      BY <3>2 DEF EncodeInput
    <3> QED BY <1>3, <1>4, <2>1, <3>1, <3>3, EmptySeq
  <2>2. CASE mode = "transaction"
    <3>1. PICK sigs \in [1 .. m.num_required_signatures -> Signatures] :
            tape' = tape \o sigs /\ signatures' = sigs
      BY <2>2 DEF V1Finish
    <3>2. sigs \in Seq(Signatures) /\ Len(sigs) = m.num_required_signatures
      BY <1>3
    <3>3. sigs \in Seq(Units)
      BY <3>2, UnitSeqs
    <3>4. tape' \in Seq(Units) /\ tape' = tape \o sigs
      BY <1>3, <3>1, <3>3, ConcatProperties
    <3>5. SignaturesBefore' = <<>> /\ SignaturesAfter' = sigs /\ EncodeMessage(m') = tape
      BY <1>1, <1>2, <2>2, <3>1 DEF SignaturesBefore, SignaturesAfter
    <3>6. EncodeInput' = (<<>> \o tape) \o sigs
      BY <3>5 DEF EncodeInput
    <3>7. Len(tape) + SignaturesSize <= atMost
      BY <2>2 DEF V1Finish
    <3> QED BY <1>2, <1>4, <2>2, <3>1, <3>2, <3>4, <3>6, <3>7
  <2> QED BY <1>3, <2>1, <2>2
<1>6. V1Checked'
  <2>1. SignaturesSize' = SignaturesSize
    BY <1>1 DEF SignaturesSize
  <2> QED BY <1>1, <1>2, <1>5, <2>1 DEF V1Checked
<1>7. InParsed'
  BY <1>1, <1>5, <1>6 DEF InParsed
<1>8. InVersions' /\ InLegacy' /\ InV1'
  BY <1>1, OnlyParsed
<1>9. todo' \in Nat
  BY <1>1
<1> QED BY <1>1, <1>3, <1>5, <1>7, <1>8, <1>9 DEF WireInv

-----------------------------------------------------------------------------
(* The invariant: refusing, accepting *)

\* After a refusal nothing is kept.
LEMMA RejectInv == ASSUME WireInv, Reject PROVE WireInv'
<1>1. /\ state' = "refused" /\ tape' = <<>> /\ m' = NoMessage /\ signatures' = <<>> /\ todo' = 0
      /\ mode' = mode
  BY DEF Reject
<1>2. NoMessage \in WireMessages
  BY EmptySeq DEF NoMessage, NoConfig, WireMessages
<1>3. InVersions' /\ InLegacy' /\ InV1'
  BY <1>1, OnlyParsed
<1>4. InParsed'
  BY <1>1 DEF InParsed
<1>5. mode \in {"transaction", "message"}
  BY DEF WireInv
<1> QED BY <1>1, <1>2, <1>3, <1>4, <1>5, EmptySeq DEF WireInv

\* decode_message changes nothing that was parsed.
LEMMA DecodeMessageInv == ASSUME WireInv, DecodeMessage PROVE WireInv'
<1>1. /\ state = "parsed" /\ Accepted /\ state' = "decoded" /\ mode' = mode /\ tape' = tape
      /\ rest' = rest /\ todo' = todo /\ signatures' = signatures /\ m' = m
  BY DEF DecodeMessage
<1>2. tape = EncodeInput /\ (m.version = "V1" => V1Checked)
  BY <1>1 DEF WireInv, InParsed
<1>3. EncodeInput' = EncodeInput
  BY <1>1 DEF EncodeInput, SignaturesBefore, SignaturesAfter
<1>4. V1Checked' = V1Checked
  BY <1>1 DEF V1Checked, SignaturesSize
<1>5. Accepted'
  BY <1>1 DEF Accepted
<1>6. InParsed'
  BY <1>1, <1>2, <1>3, <1>4, <1>5 DEF InParsed
<1>7. InVersions' /\ InLegacy' /\ InV1'
  BY <1>1, OnlyParsed
<1>8. /\ mode \in {"transaction", "message"} /\ todo \in Nat
      /\ tape \in Seq(Units) /\ signatures \in Seq(Signatures) /\ m \in WireMessages
  BY DEF WireInv
<1> QED BY <1>1, <1>6, <1>7, <1>8 DEF WireInv

\* Every step keeps the invariant.
LEMMA WireInvNext == ASSUME WireInv, [WireNext]_wireVars PROVE WireInv'
<1>1. CASE UNCHANGED wireVars
  <2>1. /\ mode' = mode /\ state' = state /\ tape' = tape /\ atMost' = atMost /\ rest' = rest
        /\ todo' = todo /\ signatures' = signatures /\ m' = m
    BY <1>1 DEF wireVars
  <2>2. SignaturesBefore' = SignaturesBefore /\ SignaturesAfter' = SignaturesAfter
    BY <2>1 DEF SignaturesBefore, SignaturesAfter
  <2>3. /\ EncodeInput' = EncodeInput /\ NumIxs' = NumIxs /\ NumKeys' = NumKeys
        /\ HeadersStart' = HeadersStart /\ V1Checked' = V1Checked /\ Accepted' = Accepted
    BY <2>1, <2>2 DEF EncodeInput, NumIxs, NumKeys, HeadersStart, V1Checked, SignaturesSize, Accepted
  <2>4. InVersions' /\ InLegacy'
    BY <2>1, <2>2 DEF WireInv, InVersions, InLegacy
  <2>5. InV1'
    BY <2>1, <2>3 DEF WireInv, InV1
  <2>6. InParsed'
    BY <2>1, <2>3 DEF WireInv, InParsed
  <2> QED BY <2>1, <2>4, <2>5, <2>6 DEF WireInv
<1>2. CASE Envelope
  BY <1>2, EnvelopeInv
<1>3. CASE LegacyHeader
  BY <1>3, LegacyHeaderInv
<1>4. CASE V0Header
  BY <1>4, V0HeaderInv
<1>5. CASE StaticKeys
  BY <1>5, StaticKeysInv
<1>6. CASE NumInstructions
  BY <1>6, NumInstructionsInv
<1>7. CASE ReadInstruction
  BY <1>7, ReadInstructionInv
<1>8. CASE NumLookups
  BY <1>8, NumLookupsInv
<1>9. CASE ReadLookup
  BY <1>9, ReadLookupInv
<1>10. CASE Parsed
  BY <1>10, ParsedInv
<1>11. CASE V1Fixed
  BY <1>11, V1FixedInv
<1>12. CASE V1Keys
  BY <1>12, V1KeysInv
<1>13. CASE V1Config
  BY <1>13, V1ConfigInv
<1>14. CASE V1Headers
  BY <1>14, V1HeadersInv
<1>15. CASE V1Payload
  BY <1>15, V1PayloadInv
<1>16. CASE V1Finish
  BY <1>16, V1FinishInv
<1>17. CASE UnknownVersion \/ V1Refused \/ Truncated \/ BadLength \/ DecodeRefused
  <2>1. Reject
    BY <1>17 DEF UnknownVersion, V1Refused, Truncated, BadLength, DecodeRefused
  <2> QED BY <2>1, RejectInv
<1>18. CASE DecodeMessage
  BY <1>18, DecodeMessageInv
<1> QED
  BY <1>1, <1>2, <1>3, <1>4, <1>5, <1>6, <1>7, <1>8, <1>9, <1>10, <1>11, <1>12, <1>13,
     <1>14, <1>15, <1>16, <1>17, <1>18 DEF WireNext

-----------------------------------------------------------------------------
(* Theorems *)

\* At every cursor, whatever the input, the tape is the encoding of what was
\* found (wire.rs, parse_transaction and parse_message).
THEOREM WireInvariant == WireSpec => []WireInv
<1>1. WireInit => WireInv
  BY WireInvInit
<1>2. WireInv /\ [WireNext]_wireVars => WireInv'
  BY WireInvNext
<1> QED BY <1>1, <1>2, PTL DEF WireSpec

\* The parser reads what a serializer has written, for every version, every
\* length of the vectors and every configuration: no input has a second reading.
THEOREM ParserReadsBack == WireSpec => []ReadsWhatWasWritten
<1>1. WireInv => ReadsWhatWasWritten
  BY DEF WireInv, InParsed, ReadsWhatWasWritten
<1> QED BY <1>1, WireInvariant, PTL

\* A v1 input that is accepted has nothing left over and fits a transaction.
THEOREM V1IsWhole == WireSpec => []V1WholeAndFits
<1>1. WireInv => V1WholeAndFits
  BY DEF WireInv, InParsed, V1Checked, V1WholeAndFits
<1> QED BY <1>1, WireInvariant, PTL

\* What the v1 parser has checked is all that decode_message asks for.
THEOREM V1IsDecoded == WireSpec => []V1AlwaysDecodes
<1>1. ASSUME WireInv, state = "parsed", m.version = "V1" PROVE Accepted
  <2> DEFINE n == Len(m.static_account_keys)
             a == m.num_required_signatures
             b == m.num_readonly_signed_accounts
             c == m.num_readonly_unsigned_accounts
  <2>1. /\ m.loaded = 0 /\ CountsValid(HeaderOf(m), Len(m.instructions), n)
        /\ \A i \in DOMAIN m.instructions : IndicesInRange(m.instructions[i], n)
        /\ mode = "transaction" => Len(signatures) = a
    BY <1>1 DEF WireInv, InParsed, V1Checked
  <2>2. m \in WireMessages
    BY <1>1 DEF WireInv
  <2>3. n \in Nat /\ a \in Nat /\ b \in Nat /\ c \in Nat
    BY <2>2, MessageParts
  <2>4. b < a /\ n >= a + c /\ n <= V1MaxKeys
    BY <2>1 DEF CountsValid, HeaderOf
  <2>5. HeaderValid(m)
    <3>1. a <= n /\ b <= a /\ c <= n - a
      BY <2>3, <2>4
    <3> QED BY <3>1 DEF HeaderValid
  <2>6. TotalAccounts(m) = n
    <3>1. n + 0 = n
      BY <2>3
    <3> QED BY <2>1, <3>1 DEF TotalAccounts
  <2>7. n <= MaxAccountKeys
    BY <2>3, <2>4, WireAssumption, DecoderAssumption
  <2>8. IndicesValid(m)
    <3>1. ASSUME NEW i \in DOMAIN m.instructions,
                 NEW j \in 0 .. Len(m.instructions[i].account_indices)
          PROVE  IndexAt(m, <<i, j>>) < n
      <4>1. IndicesInRange(m.instructions[i], n)
        BY <2>1
      <4>2. m.instructions[i] \in CompiledInstructions
        BY <2>2, MessageParts, LenProperties
      <4>3. DOMAIN m.instructions[i].account_indices
              = 1 .. Len(m.instructions[i].account_indices)
        BY <4>2, LenProperties DEF CompiledInstructions
      <4>4. IndexAt(m, <<i, j>>) = IF j = 0 THEN m.instructions[i].program_id_index
                                     ELSE m.instructions[i].account_indices[j]
        BY DEF IndexAt
      <4>5. CASE j = 0
        BY <4>1, <4>4, <4>5 DEF IndicesInRange
      <4>6. CASE j # 0
        <5>1. j \in DOMAIN m.instructions[i].account_indices
          BY <4>3, <4>6
        <5> QED BY <4>1, <4>4, <4>6, <5>1 DEF IndicesInRange
      <4> QED BY <4>5, <4>6
    <3>2. ASSUME NEW pos \in Positions(m) PROVE IndexAt(m, pos) < n
      <4>1. PICK i \in DOMAIN m.instructions :
              pos \in {i} \X (0 .. Len(m.instructions[i].account_indices))
        BY DEF Positions
      <4>2. PICK j \in 0 .. Len(m.instructions[i].account_indices) : pos = <<i, j>>
        BY <4>1
      <4> QED BY <3>1, <4>2
    <3> QED BY <2>6, <3>2 DEF IndicesValid
  <2> QED BY <2>1, <2>5, <2>6, <2>7, <2>8 DEF Accepted, Decodes
<1>2. WireInv => V1AlwaysDecodes
  BY <1>1 DEF V1AlwaysDecodes
<1> QED BY <1>2, WireInvariant, PTL

=============================================================================
