-------------------------- MODULE SignedFillProofs ---------------------------
(***************************************************************************)
(* For every message, every contents of the lookup tables and every ledger: *)
(* all that a maker's signatures let happen to him is his quotes, each once. *)
(*                                                                         *)
(* MakerCheckProofs says where the keys of an accepted message are used     *)
(* once it is loaded.  The first half here turns that into what a           *)
(* transaction of the message can do (KeepsTo); the second half carries it  *)
(* through the handler, whose invariants are those of FillExactInProofs.    *)
(***************************************************************************)
EXTENDS SignedFill, FillExactInProofs, MakerCheckProofs, SequenceTheorems

Loads(m, l) == l \in [1 .. m.loaded -> Keys] /\ NoKeyTwice(m, l)

-----------------------------------------------------------------------------
(* The leg of an accepted message *)

\* An accepted message is typed, and its indices are natural numbers.
LEMMA AccountsFacts ==
    ASSUME NEW m \in Messages, NEW i \in DOMAIN m.instructions
    PROVE  /\ DOMAIN m.instructions = 1 .. Len(m.instructions) /\ Len(m.instructions) \in Nat
           /\ AccountsOf(m, i) = 1 .. Len(m.instructions[i].account_indices)
           /\ Len(m.instructions[i].account_indices) \in Nat
           /\ m.instructions[i].routes \in Seq(Routes)
<1>1. m.instructions \in Seq(Instructions)
  BY DEF Messages
<1>2. m.instructions[i] \in Instructions
  BY <1>1
<1> QED
  BY <1>1, <1>2 DEF Instructions, AccountsOf

\* Each of the maker's keys and the RFQ program is at its slot of the leg, and
\* nowhere else.
LEMMA OnlyInLeg ==
    ASSUME NEW m, NEW mk \in MakerAccounts, Vetted(m, mk), NEW l, Loads(m, l),
           NEW s \in ExpectedSlots(mk), NEW o \in LegOffsets(m, mk),
           NEW i \in DOMAIN m.instructions,
           NEW n \in 0 .. Len(m.instructions[i].account_indices)
    PROVE  KeyOf(m, l, i, n) = s[2] <=> i = FillIx(m) /\ n = o + s[1] + 1
<1>1. Uses(m, l, s[2]) = {<<FillIx(m), o + s[1] + 1>>}
  BY LegHasAllUses DEF Loads
<1>2. <<i, n>> \in Positions(m)
  BY DEF Positions
<1>3. KeyOf(m, l, i, n) = s[2] <=> <<i, n>> \in Uses(m, l, s[2])
  BY <1>2 DEF KeyOf, Uses
<1> QED
  BY <1>1, <1>3

\* The maker's slots and the program's are the four that were checked.
LEMMA SlotFacts ==
    ASSUME NEW mk \in MakerAccounts
    PROVE  /\ LegWidth \in Nat
           /\ LegProgramId \in 0 .. LegWidth - 1 /\ LegFillAuthority \in 0 .. LegWidth - 1
           /\ LegMakerBase \in 0 .. LegWidth - 1 /\ LegMakerQuote \in 0 .. LegWidth - 1
           /\ LegTaker \in 0 .. LegWidth - 1
           /\ <<LegProgramId, RfqProgram>> \in ExpectedSlots(mk)
           /\ <<LegFillAuthority, mk.fill_authority>> \in ExpectedSlots(mk)
           /\ <<LegMakerBase, mk.maker_base_token_account>> \in ExpectedSlots(mk)
           /\ <<LegMakerQuote, mk.maker_quote_token_account>> \in ExpectedSlots(mk)
BY LegAssumption, SignedAssumption DEF ExpectedSlots

\* A leg that was found is whole.
LEMMA LegFits ==
    ASSUME NEW m, NEW mk \in MakerAccounts, Vetted(m, mk), NEW o \in LegOffsets(m, mk)
    PROVE  /\ m \in Messages /\ FillIx(m) \in DOMAIN m.instructions
           /\ o \in Nat
           /\ \A s \in 0 .. LegWidth - 1 : o + 1 + s \in AccountsOf(m, FillIx(m))
<1>1. m \in Messages /\ SingleFill(m) = "Ok"
  BY DEF Vetted
<1>2. FillIx(m) \in DOMAIN m.instructions
  BY <1>1, FillIsIn
<1> DEFINE len == Len(m.instructions[FillIx(m)].account_indices)
<1>3. len \in Nat /\ AccountsOf(m, FillIx(m)) = 1 .. len
  BY <1>1, <1>2, AccountsFacts
<1>4. o \in 0 .. len - LegWidth
  BY DEF LegOffsets
<1>5. LegWidth \in Nat
  BY SlotFacts
<1> QED
  BY <1>1, <1>2, <1>3, <1>4, <1>5

\* So there is one leg for the aggregator to run.
LEMMA OneLegRuns ==
    ASSUME NEW m, NEW mk \in MakerAccounts, Vetted(m, mk), NEW l, Loads(m, l),
           NEW o \in LegOffsets(m, mk), NEW i \in DOMAIN m.instructions
    PROVE  LegsIn(m, l, i) = IF i = FillIx(m) THEN {o + 1} ELSE {}
<1>1. m \in Messages /\ LegWidth \in Nat /\ LegProgramId \in 0 .. LegWidth - 1
  BY LegFits, SlotFacts
<1> DEFINE len == Len(m.instructions[i].account_indices)
           s == <<LegProgramId, RfqProgram>>
<1>2. len \in Nat /\ AccountsOf(m, i) = 1 .. len
  BY <1>1, AccountsFacts
<1>3. s \in ExpectedSlots(mk) /\ s[1] = LegProgramId /\ s[2] = RfqProgram
  BY SlotFacts
<1>4. \A n \in 0 .. len : KeyOf(m, l, i, n) = RfqProgram
                             <=> i = FillIx(m) /\ n = o + LegProgramId + 1
  <2> HIDE DEF s, len
  <2> SUFFICES ASSUME NEW n \in 0 .. len
               PROVE  KeyOf(m, l, i, n) = s[2] <=> i = FillIx(m) /\ n = o + s[1] + 1
    BY <1>3
  <2> QED
    BY <1>3, OnlyInLeg DEF len
<1>5. o \in Nat
  BY LegFits
<1>6. ASSUME NEW n \in LegsIn(m, l, i) PROVE i = FillIx(m) /\ n = o + 1
  <2>1. n \in 1 .. len /\ n + LegWidth - 1 \in 1 .. len
        /\ KeyOf(m, l, i, n + LegProgramId) = RfqProgram
    BY <1>2 DEF LegsIn
  <2>2. n + LegProgramId \in 0 .. len
    BY <1>1, <1>2, <2>1
  <2>3. i = FillIx(m) /\ n + LegProgramId = o + LegProgramId + 1
    BY <1>4, <2>1, <2>2
  <2> QED
    BY <1>1, <1>5, <2>1, <2>3
<1>7. ASSUME i = FillIx(m) PROVE o + 1 \in LegsIn(m, l, i)
  <2>1. \A n \in 0 .. LegWidth - 1 : o + 1 + n \in 1 .. len
    BY <1>2, <1>7, LegFits
  <2>2. 0 \in 0 .. LegWidth - 1 /\ LegWidth - 1 \in 0 .. LegWidth - 1
    BY <1>1
  <2>3. o + 1 + 0 \in 1 .. len /\ o + 1 + (LegWidth - 1) \in 1 .. len
        /\ o + 1 + LegProgramId \in 1 .. len
    BY <1>1, <2>1, <2>2
  <2>4. KeyOf(m, l, i, o + 1 + LegProgramId) = RfqProgram
    BY <1>1, <1>2, <1>4, <1>5, <1>7, <2>3
  <2> QED
    BY <1>1, <1>2, <1>5, <2>3, <2>4 DEF LegsIn
<1> QED
  BY <1>6, <1>7

\* The aggregator runs the instruction with the fill.
LEMMA FillRuns ==
    ASSUME NEW m, NEW mk \in MakerAccounts, Vetted(m, mk), NEW l, Loads(m, l)
    PROVE  RunsRoutes(m, l, FillIx(m))
<1> DEFINE i == FillIx(m)
           p == m.instructions[i].program_id_index
<1>1. m \in Messages /\ SingleFill(m) = "Ok"
  BY DEF Vetted
<1>2. PICK f \in Fills(m) : f[1] = i /\ i \in DOMAIN m.instructions
  BY <1>1, FillIsIn
<1>3. Recognised(m, i) /\ m.instructions[i].entry = "swap"
  BY <1>2 DEF Fills, Entrypoint
<1>4. m.instructions \in Seq(Instructions) /\ m.static_account_keys \in Seq(Keys)
  BY <1>1 DEF Messages
<1>5. p \in Nat
  <2>1. m.instructions[i] \in Instructions
    BY <1>2, <1>4
  <2> QED BY <2>1 DEF Instructions
<1>6. p + 1 \in DOMAIN m.static_account_keys /\ m.static_account_keys[p + 1] \in DexPrograms
  BY <1>3, <1>4, <1>5 DEF Recognised, IsStatic, KeyOfStatic
<1>7. KeyOf(m, l, i, 0) = AllKeys(m, l)[p + 1]
  BY DEF KeyOf, KeyAt, IndexAt
<1>8. KeyOf(m, l, i, 0) \in DexPrograms
  BY <1>1, <1>6, <1>7, AllKeysAreBoth DEF Loads
<1> QED
  BY <1>3, <1>8 DEF RunsRoutes

\* What an instruction names of the maker's is in the leg, at his slots.
LEMMA MakerKeyAt ==
    ASSUME NEW m, NEW mk \in MakerAccounts, Vetted(m, mk), NEW l, Loads(m, l),
           NEW o \in LegOffsets(m, mk), NEW i \in DOMAIN m.instructions,
           NEW n \in AccountsOf(m, i), KeyOf(m, l, i, n) \in MakerKeys(mk)
    PROVE  i = FillIx(m) /\ n - (o + 1) \in MakerSlots
<1>1. m \in Messages /\ o \in Nat
  BY LegFits
<1>2. n \in 0 .. Len(m.instructions[i].account_indices) /\ n \in Nat
  BY <1>1, AccountsFacts
<1>3. ASSUME NEW s \in ExpectedSlots(mk), s[2] = KeyOf(m, l, i, n), s[1] \in MakerSlots,
             s[1] \in Nat
      PROVE  i = FillIx(m) /\ n - (o + 1) \in MakerSlots
  <2>1. i = FillIx(m) /\ n = o + s[1] + 1
    BY <1>2, <1>3, OnlyInLeg
  <2>2. n - (o + 1) = s[1]
    BY <1>1, <1>2, <1>3, <2>1
  <2> QED
    BY <1>3, <2>1, <2>2
<1>4. \E s \in ExpectedSlots(mk) :
        s[2] = KeyOf(m, l, i, n) /\ s[1] \in MakerSlots /\ s[1] \in Nat
  <2>1. LegFillAuthority \in Nat /\ LegMakerBase \in Nat /\ LegMakerQuote \in Nat
    BY LegAssumption
  <2>2. CASE KeyOf(m, l, i, n) = mk.fill_authority
    BY <2>1, <2>2, SlotFacts DEF MakerSlots
  <2>3. CASE KeyOf(m, l, i, n) = mk.maker_base_token_account
    BY <2>1, <2>3, SlotFacts DEF MakerSlots
  <2>4. CASE KeyOf(m, l, i, n) = mk.maker_quote_token_account
    BY <2>1, <2>4, SlotFacts DEF MakerSlots
  <2> QED
    BY <2>2, <2>3, <2>4 DEF MakerKeys, MakerTokenAccounts
<1> QED
  BY <1>3, <1>4

\* No other instruction names anything of the maker's or reaches the program.
LEMMA OthersNameNothing ==
    ASSUME NEW m, NEW mk \in MakerAccounts, Vetted(m, mk), NEW l, Loads(m, l),
           NEW i \in DOMAIN m.instructions, i # FillIx(m)
    PROVE  Metas(m, l, i) \cap MakerKeys(mk) = {} /\ ~ReachesRfq(m, l, i)
<1>1. PICK o \in LegOffsets(m, mk) : TRUE
  BY DEF Vetted
<1>2. m \in Messages
  BY DEF Vetted
<1>3. Metas(m, l, i) \cap MakerKeys(mk) = {}
  BY <1>1, MakerKeyAt DEF Metas
<1>4. ASSUME NEW n \in AccountsOf(m, i) \cup {0} PROVE KeyOf(m, l, i, n) # RfqProgram
  <2>1. n \in 0 .. Len(m.instructions[i].account_indices)
    BY <1>2, AccountsFacts
  <2>2. PICK s \in ExpectedSlots(mk) : s[2] = RfqProgram
    BY SlotFacts
  <2> QED
    BY <1>1, <2>1, <2>2, OnlyInLeg
<1> QED
  BY <1>3, <1>4 DEF ReachesRfq, Metas

\* And nothing but the leg can use what is the maker's.
LEMMA NothingFree ==
    ASSUME NEW m, NEW mk \in MakerAccounts, Vetted(m, mk), NEW l, Loads(m, l),
           NEW i \in DOMAIN m.instructions
    PROVE  /\ FreeKeys(m, l, i) \cap MakerKeys(mk) = {}
           /\ FreeKeys(m, l, i) \subseteq Metas(m, l, i)
<1>1. PICK o \in LegOffsets(m, mk) : TRUE
  BY DEF Vetted
<1>2. ASSUME NEW n \in AccountsOf(m, i), KeyOf(m, l, i, n) \in MakerKeys(mk)
      PROVE  RunsRoutes(m, l, i) /\ \E leg \in LegsIn(m, l, i) : n - leg \in MakerSlots
  <2>1. i = FillIx(m) /\ n - (o + 1) \in MakerSlots
    BY <1>1, <1>2, MakerKeyAt
  <2>2. RunsRoutes(m, l, i)
    BY <2>1, FillRuns
  <2>3. LegsIn(m, l, i) = {o + 1}
    BY <1>1, <2>1, OneLegRuns
  <2> QED
    BY <2>1, <2>2, <2>3
<1> QED
  BY <1>2 DEF FreeKeys, Metas

-----------------------------------------------------------------------------
(* The calls of an accepted message *)

\* The route of the one fill.
LEMMA RouteIs ==
    ASSUME NEW m, NEW i, NEW r, Fills(m) = {<<i, r>>}
    PROVE  /\ FillRoute(m) = m.instructions[i].routes[r]
           /\ Entrypoint(m, i) = "Concrete" /\ IsFill(FillRoute(m))
<1> DEFINE f == CHOOSE f \in Fills(m) : TRUE
<1>1. f = <<i, r>> /\ f \in Fills(m)
  OBVIOUS
<1>2. FillRoute(m) = m.instructions[f[1]].routes[f[2]]
  BY DEF FillRoute
<1>3. Entrypoint(m, f[1]) = "Concrete" /\ IsFill(m.instructions[f[1]].routes[f[2]])
  BY <1>1 DEF Fills
<1> HIDE DEF f
<1>4. f[1] = i /\ f[2] = r
  BY <1>1
<1> QED
  BY <1>2, <1>3, <1>4

\* The RFQ routes of the fill's instruction that run are the fill.
LEMMA OneRouteRuns ==
    ASSUME NEW m \in Messages, SingleFill(m) = "Ok",
           \A n \in RfqRoutes(m, FillIx(m)) : IsFill(m.instructions[FillIx(m)].routes[n])
    PROVE  \E r \in DOMAIN m.instructions[FillIx(m)].routes :
              /\ RfqRoutes(m, FillIx(m)) = {r}
              /\ FillRoute(m) = m.instructions[FillIx(m)].routes[r]
              /\ IsFill(FillRoute(m))
<1> DEFINE i == FillIx(m)
           routes == m.instructions[i].routes
<1>1. PICK r \in DOMAIN routes : Fills(m) = {<<i, r>>}
  BY OneFill
<1>2. FillRoute(m) = routes[r]
  BY <1>1, RouteIs
<1>3. i \in DOMAIN m.instructions
  BY FillIsIn
<1>4. Entrypoint(m, i) = "Concrete" /\ IsFill(routes[r])
  BY <1>1, <1>2, RouteIs
<1>5. ASSUME NEW n \in RfqRoutes(m, i) PROVE n = r
  <2>1. n \in DOMAIN routes /\ IsFill(routes[n])
    BY <1>5 DEF RfqRoutes
  <2>2. <<i, n>> \in UNION {{i2} \X DOMAIN m.instructions[i2].routes : i2 \in DOMAIN m.instructions}
    BY <1>3, <2>1
  <2>3. <<i, n>> \in Fills(m)
    BY <1>4, <2>1, <2>2 DEF Fills
  <2> QED
    BY <1>1, <2>3
<1>6. r \in RfqRoutes(m, i)
  BY <1>4 DEF RfqRoutes, IsFill
<1> QED
  BY <1>2, <1>4, <1>5, <1>6

\* So the legs that run are that one, once.
LEMMA OneFillRuns ==
    ASSUME NEW m, NEW mk \in MakerAccounts, Vetted(m, mk), NEW l, Loads(m, l),
           NEW cs \in RoutesRun(m, l, FillIx(m))
    PROVE  /\ \E c \in LegFills(m, l, FillIx(m), FillRoute(m)) : cs = <<c>>
           /\ IsFill(FillRoute(m))
<1> DEFINE i == FillIx(m)
           routes == m.instructions[i].routes
           rfq == RfqRoutes(m, i)
<1>1. m \in Messages /\ SingleFill(m) = "Ok"
  BY DEF Vetted
<1>2. /\ cs \in [1 .. Cardinality(rfq) -> UNION {LegFills(m, l, i, routes[n]) : n \in rfq}]
      /\ \A n \in rfq : IsFill(routes[n])
  BY DEF RoutesRun
<1>3. PICK r \in DOMAIN routes :
         rfq = {r} /\ FillRoute(m) = routes[r] /\ IsFill(FillRoute(m))
  BY <1>1, <1>2, OneRouteRuns
<1>4. Cardinality(rfq) = 1
  BY <1>3, FS_Singleton
<1>5. cs \in [1 .. 1 -> LegFills(m, l, i, FillRoute(m))]
  BY <1>2, <1>3, <1>4
<1>6. cs = <<cs[1]>> /\ cs[1] \in LegFills(m, l, i, FillRoute(m))
  BY <1>5
<1> QED
  BY <1>3, <1>6

\* In the other instructions no leg runs.
LEMMA NoFillRuns ==
    ASSUME NEW m, NEW mk \in MakerAccounts, Vetted(m, mk), NEW l, Loads(m, l),
           NEW i \in DOMAIN m.instructions, i # FillIx(m), NEW cs \in RoutesRun(m, l, i)
    PROVE  cs = <<>>
<1> DEFINE rfq == RfqRoutes(m, i)
           legs == UNION {LegFills(m, l, i, m.instructions[i].routes[n]) : n \in rfq}
           N == Cardinality(rfq)
<1>1. PICK o \in LegOffsets(m, mk) : TRUE
  BY DEF Vetted
<1>2. LegsIn(m, l, i) = {}
  BY <1>1, OneLegRuns
<1>3. \A r : LegFills(m, l, i, r) = {}
  BY <1>2 DEF LegFills
<1>4. cs \in [1 .. N -> legs]
  BY DEF RoutesRun
<1>5. legs = {}
  BY <1>3
<1> HIDE DEF legs, N
<1>6. 1 .. N = {}
  BY <1>4, <1>5
<1>7. cs = [n \in {} |-> cs[n]]
  BY <1>4, <1>6
<1> QED
  BY <1>7

\* What FillsAs makes of roles that accounts and signers can fill.
LEMMA FillsAsFacts ==
    ASSUME NEW roles, NEW m, roles \in Roles(TokenAccounts, Signers(m)),
           NEW s \in Side, NEW id \in RfqIds, NEW c \in FillsAs(roles, s, id)
    PROVE  /\ c \in FillCalls /\ c.op = "fill" /\ c.rfq_id = id
           /\ c.side = s /\ c.levels = QuoteOf[id].levels
           /\ c.user = roles.user /\ c.fill_authority = roles.fill_authority
           /\ c.user_base = roles.user_base /\ c.user_quote = roles.user_quote
           /\ c.maker_base = roles.maker_base /\ c.maker_quote = roles.maker_quote
<1>1. PICK a \in Amounts, n \in MinOuts :
         c = [op |-> "fill", side |-> s, amount_in |-> a, min_out |-> n, rfq_id |-> id,
              expire_at |-> QuoteOf[id].expire_at, levels |-> QuoteOf[id].levels,
              user |-> roles.user, fill_authority |-> roles.fill_authority,
              base_mint |-> MintOf[roles.maker_base], quote_mint |-> MintOf[roles.maker_quote],
              user_base |-> roles.user_base, user_quote |-> roles.user_quote,
              maker_base |-> roles.maker_base, maker_quote |-> roles.maker_quote]
  BY DEF FillsAs
<1>2. /\ roles.user \in Wallets /\ roles.fill_authority \in Wallets
      /\ roles.user_base \in TokenAccounts /\ roles.user_quote \in TokenAccounts
      /\ roles.maker_base \in TokenAccounts /\ roles.maker_quote \in TokenAccounts
  BY DEF Roles, Signers
<1>3. MintOf[roles.maker_base] \in Mints /\ MintOf[roles.maker_quote] \in Mints
  BY <1>2, LedgerAssumption
<1>4. id \in U64 /\ QuoteOf[id].expire_at \in Int /\ QuoteOf[id].levels \in Ladders
  BY SignedAssumption
<1>5. c \in FillCalls
  BY <1>1, <1>2, <1>3, <1>4 DEF FillCalls
<1> QED
  BY <1>1, <1>5

\* The leg's fill trades the maker's accounts and is not his own to take.
LEMMA LegFillFacts ==
    ASSUME NEW m, NEW mk \in MakerAccounts, Vetted(m, mk), NEW l, Loads(m, l),
           IsFill(FillRoute(m)), SideOf(FillRoute(m)) = QuoteOf[IdOf(m)].side,
           NEW c \in LegFills(m, l, FillIx(m), FillRoute(m))
    PROVE  /\ c \in FillCalls /\ c.op = "fill"
           /\ c.rfq_id = IdOf(m)
           /\ c.side = QuoteOf[IdOf(m)].side /\ c.levels = QuoteOf[IdOf(m)].levels
           /\ c.fill_authority = mk.fill_authority /\ Protected(c) = MakerKeys(mk)
           /\ c.user # mk.fill_authority
           /\ KeysOf(c) \subseteq Metas(m, l, FillIx(m)) \cap Named
           /\ SignersOf(c) \subseteq Signers(m)
<1> DEFINE i == FillIx(m)
           s == SideOf(FillRoute(m))
           id == IdOf(m)
<1>1. PICK leg \in LegsIn(m, l, i) :
         /\ RolesOf(m, l, i, leg, s) \in Roles(TokenAccounts, Signers(m))
         /\ c \in FillsAs(RolesOf(m, l, i, leg, s), s, id)
  BY DEF LegFills, IdOf
<1> DEFINE roles == RolesOf(m, l, i, leg, s)
           slot(n) == KeyOf(m, l, i, leg + n)
<1>2. /\ roles.user = slot(LegTaker) /\ roles.fill_authority = slot(LegFillAuthority)
      /\ roles.user_base \in {slot(LegDestination), slot(LegSource)}
      /\ roles.user_quote \in {slot(LegDestination), slot(LegSource)}
      /\ roles.maker_base = slot(LegMakerBase) /\ roles.maker_quote = slot(LegMakerQuote)
  BY DEF RolesOf
<1>3. PICK o \in LegOffsets(m, mk) : TRUE
  BY DEF Vetted
<1>4. m \in Messages /\ i \in DOMAIN m.instructions /\ o \in Nat
  BY <1>3, LegFits
<1>5. leg = o + 1
  BY <1>3, <1>4, OneLegRuns
<1>6. /\ roles.user \in Signers(m) /\ roles.fill_authority \in Signers(m)
      /\ roles.user_base \in TokenAccounts /\ roles.user_quote \in TokenAccounts
      /\ roles.maker_base \in TokenAccounts /\ roles.maker_quote \in TokenAccounts
  BY <1>1 DEF Roles
<1>7. \A n \in 0 .. LegWidth - 1 : leg + n \in AccountsOf(m, i) /\ slot(n) \in Metas(m, l, i)
  BY <1>3, <1>5, LegFits DEF Metas
<1>8. ASSUME NEW e \in ExpectedSlots(mk), e[1] \in 0 .. LegWidth - 1,
             NEW n \in 0 .. LegWidth - 1
      PROVE  slot(n) = e[2] <=> n = e[1]
  <2>1. leg + n \in 0 .. Len(m.instructions[i].account_indices)
    BY <1>4, <1>7, AccountsFacts
  <2>2. KeyOf(m, l, i, leg + n) = e[2] <=> leg + n = o + e[1] + 1
    BY <1>3, <1>4, <2>1, OnlyInLeg
  <2> QED
    BY <1>4, <1>5, <1>8, <2>2
<1>9. {LegTaker, LegSource, LegDestination, LegFillAuthority, LegMakerBase, LegMakerQuote}
        \subseteq 0 .. LegWidth - 1
  BY LegAssumption, SignedAssumption
<1>10. /\ slot(LegFillAuthority) = mk.fill_authority
       /\ slot(LegMakerBase) = mk.maker_base_token_account
       /\ slot(LegMakerQuote) = mk.maker_quote_token_account
       /\ slot(LegTaker) # mk.fill_authority
  <2>1. slot(LegFillAuthority) = mk.fill_authority /\ slot(LegTaker) # mk.fill_authority
    <3> DEFINE e == <<LegFillAuthority, mk.fill_authority>>
    <3>1. e \in ExpectedSlots(mk) /\ e[1] = LegFillAuthority /\ e[2] = mk.fill_authority
      BY SlotFacts
    <3> HIDE DEF e, slot
    <3> QED BY <1>8, <1>9, <3>1, SignedAssumption
  <2>2. slot(LegMakerBase) = mk.maker_base_token_account
    <3> DEFINE e == <<LegMakerBase, mk.maker_base_token_account>>
    <3>1. e \in ExpectedSlots(mk) /\ e[1] = LegMakerBase /\ e[2] = mk.maker_base_token_account
      BY SlotFacts
    <3> HIDE DEF e, slot
    <3> QED BY <1>8, <1>9, <3>1
  <2>3. slot(LegMakerQuote) = mk.maker_quote_token_account
    <3> DEFINE e == <<LegMakerQuote, mk.maker_quote_token_account>>
    <3>1. e \in ExpectedSlots(mk) /\ e[1] = LegMakerQuote /\ e[2] = mk.maker_quote_token_account
      BY SlotFacts
    <3> HIDE DEF e, slot
    <3> QED BY <1>8, <1>9, <3>1
  <2> QED BY <2>1, <2>2, <2>3
<1>11. id \in RfqIds
  <2>1. m.instructions[i] \in Instructions
    BY <1>4 DEF Messages
  <2>2. PICK r \in DOMAIN m.instructions[i].routes : FillRoute(m) = m.instructions[i].routes[r]
    <3>1. m \in Messages /\ SingleFill(m) = "Ok"
      BY DEF Vetted
    <3>2. PICK r \in DOMAIN m.instructions[i].routes : Fills(m) = {<<i, r>>}
      BY <3>1, OneFill
    <3> QED BY <3>2, RouteIs
  <2>3. FillRoute(m) \in Routes
    BY <2>1, <2>2 DEF Instructions
  <2> QED BY <2>3 DEF Routes, IsFill, IdOf
<1>12. /\ c \in FillCalls /\ c.op = "fill" /\ c.rfq_id = id
       /\ c.side = s /\ c.levels = QuoteOf[id].levels
       /\ c.user = roles.user /\ c.fill_authority = roles.fill_authority
       /\ c.user_base = roles.user_base /\ c.user_quote = roles.user_quote
       /\ c.maker_base = roles.maker_base /\ c.maker_quote = roles.maker_quote
  <2>1. s \in Side
    BY DEF SideOf, Side
  <2>2. roles \in Roles(TokenAccounts, Signers(m)) /\ c \in FillsAs(roles, s, id)
    BY <1>1
  <2> HIDE DEF roles, s, id
  <2> QED BY <1>11, <2>1, <2>2, FillsAsFacts
<1>13. SignersOf(c) \subseteq Signers(m)
  BY <1>6, <1>12 DEF SignersOf
<1>14. KeysOf(c) \subseteq Metas(m, l, i) \cap Named
  <2> HIDE DEF slot, roles
  <2>1. Signers(m) \subseteq Named /\ TokenAccounts \subseteq Named
    BY DEF Signers, Named
  <2> QED BY <1>2, <1>6, <1>7, <1>9, <1>12, <2>1 DEF KeysOf
<1> QED
  BY <1>2, <1>10, <1>12, <1>13, <1>14 DEF Protected, MakerKeys, MakerTokenAccounts

\* A transfer that comes along is not of what is the maker's.
LEMMA MoveFacts ==
    ASSUME NEW m, NEW mk \in MakerAccounts, Vetted(m, mk), NEW l, Loads(m, l),
           NEW i \in DOMAIN m.instructions, NEW c \in Moves(m, l, i)
    PROVE  /\ c \in MoveCalls /\ c.op = "move"
           /\ c.authority # mk.fill_authority
           /\ KeysOf(c) \subseteq Metas(m, l, i) \cap Named
           /\ SignersOf(c) \subseteq Signers(m)
<1>1. /\ c \in [op : {"move"}, from : FreeKeys(m, l, i) \cap TokenAccounts,
                 to : FreeKeys(m, l, i) \cap TokenAccounts,
                 authority : FreeKeys(m, l, i) \cap Signers(m), amount : Amounts]
  BY DEF Moves, MovesWith
<1>2. /\ FreeKeys(m, l, i) \cap MakerKeys(mk) = {}
      /\ FreeKeys(m, l, i) \subseteq Metas(m, l, i)
  BY NothingFree
<1>3. Signers(m) \subseteq Wallets /\ Wallets \subseteq Named /\ TokenAccounts \subseteq Named
  BY DEF Signers, Named
<1>4. c \in MoveCalls
  BY <1>1, <1>3, InputsAssumption DEF MoveCalls
<1>5. c.op = "move" /\ c.authority # mk.fill_authority
  BY <1>1, <1>2 DEF MakerKeys
<1> QED
  BY <1>1, <1>2, <1>3, <1>4, <1>5 DEF KeysOf, SignersOf

\* Two one-call sequences make one of two calls.
LEMMA OneThenOne == ASSUME NEW a, NEW b PROVE <<a>> \o <<b>> = <<a, b>>
<1>1. ASSUME NEW S, NEW x \in Seq(S), NEW y \in Seq(S), Len(x) = 1, Len(y) = 1
      PROVE  x \o y = <<x[1], y[1]>>
  <2> DEFINE z == x \o y
  <2>5. z \in Seq(S)
    BY ConcatProperties
  <2>1. Len(z) = Len(x) + Len(y)
    BY ConcatProperties
  <2>2. \A n \in 1 .. Len(x) + Len(y) :
           z[n] = IF n <= Len(x) THEN x[n] ELSE y[n - Len(x)]
    BY ConcatProperties
  <2> HIDE DEF z
  <2>3. z[1] = x[1] /\ z[2] = y[1]
    BY <1>1, <2>1, <2>2
  <2>4. Len(z) = 2
    BY <1>1, <2>1
  <2>6. z = <<z[1], z[2]>>
    BY <2>5, <2>4
  <2>7. z = <<x[1], y[1]>>
    BY <2>3, <2>6
  <2> QED
    BY <2>7 DEF z
<1> DEFINE S == {a, b}
           x == <<a>>
           y == <<b>>
<1>2. x \in Seq(S) /\ y \in Seq(S) /\ Len(x) = 1 /\ Len(y) = 1 /\ x[1] = a /\ y[1] = b
  OBVIOUS
<1> HIDE DEF S, x, y
<1>3. x \o y = <<a, b>>
  BY <1>1, <1>2
<1> QED
  BY <1>3 DEF x, y

\* An instruction makes at most one transfer; that with the fill, the fill
\* after it.
LEMMA CallsAre ==
    ASSUME NEW m, NEW mk \in MakerAccounts, Vetted(m, mk), NEW l, Loads(m, l),
           NEW i \in DOMAIN m.instructions, NEW cs \in CallsOf(m, l, i)
    PROVE  IF i = FillIx(m)
           THEN /\ IsFill(FillRoute(m))
                /\ \E c \in LegFills(m, l, i, FillRoute(m)) :
                      cs = <<c>> \/ \E mv \in Moves(m, l, i) : cs = <<mv, c>>
           ELSE cs = <<>> \/ \E mv \in Moves(m, l, i) : cs = <<mv>>
<1>1. CASE i = FillIx(m)
  <2>1. RunsRoutes(m, l, i)
    BY <1>1, FillRuns
  <2>2. cs \in RoutesRun(m, l, i)
                \cup UNION {{<<mv>> \o rs : rs \in RoutesRun(m, l, i)} : mv \in Moves(m, l, i)}
    BY <2>1, Zenon DEF CallsOf
  <2>3. PICK rs \in RoutesRun(m, l, i) : cs = rs \/ \E mv \in Moves(m, l, i) : cs = <<mv>> \o rs
    BY <2>2, Zenon
  <2>4. PICK c \in LegFills(m, l, i, FillRoute(m)) : rs = <<c>> /\ IsFill(FillRoute(m))
    BY <1>1, <2>3, OneFillRuns
  <2>5. \A mv : <<mv>> \o <<c>> = <<mv, c>>
    BY OneThenOne
  <2> QED
    BY <1>1, <2>3, <2>4, <2>5
<1>2. CASE i # FillIx(m)
  <2>1. ~ReachesRfq(m, l, i)
    BY <1>2, OthersNameNothing
  <2>2. CASE RunsRoutes(m, l, i)
    <3>1. cs \in RoutesRun(m, l, i)
                  \cup UNION {{<<mv>> \o rs : rs \in RoutesRun(m, l, i)} : mv \in Moves(m, l, i)}
      BY <2>2, Zenon DEF CallsOf
    <3>2. PICK rs \in RoutesRun(m, l, i) :
             cs = rs \/ \E mv \in Moves(m, l, i) : cs = <<mv>> \o rs
      BY <3>1, Zenon
    <3>3. rs = <<>>
      BY <1>2, <3>2, NoFillRuns
    <3>4. \A mv : <<mv>> \o <<>> = <<mv>>
      OBVIOUS
    <3> QED
      BY <1>2, <3>2, <3>3, <3>4
  <2>3. CASE ~RunsRoutes(m, l, i)
    BY <1>2, <2>1, <2>3 DEF CallsOf
  <2> QED
    BY <2>2, <2>3
<1> QED
  BY <1>1, <1>2

\* A transaction of a message he vetted, against the quote he looked up, keeps
\* to that quote, whatever the lookup tables load.
LEMMA RunsAsVetted ==
    ASSUME NEW m, maker \in MakerAccounts, Vetted(m, maker),
           SideOf(FillRoute(m)) = QuoteOf[IdOf(m)].side,
           NEW l, Loads(m, l), NEW t \in TransactionsOf(m, l)
    PROVE  /\ t \in Runnable
           /\ \E i \in DOMAIN t.ixs : \E j \in DOMAIN t.ixs[i].calls : KeepsTo(t, IdOf(m), i, j)
<1> DEFINE ixs == DOMAIN m.instructions
           F == FillIx(m)
           C == FillCalls \cup MoveCalls
           metas(i) == Metas(m, l, i) \cap Named
<1>1. PICK calls \in [ixs -> UNION {CallsOf(m, l, i) : i \in ixs}] :
         /\ \A i \in ixs : calls[i] \in CallsOf(m, l, i)
         /\ t = [signers |-> Signers(m),
                 ixs |-> [i \in ixs |-> [metas |-> metas(i), calls |-> calls[i]]]]
  BY DEF TransactionsOf
<1>2. m \in Messages /\ F \in ixs /\ SingleFill(m) = "Ok"
  BY FillIsIn DEF Vetted
<1>3. ixs = 1 .. Len(m.instructions) /\ Len(m.instructions) \in Nat
  BY <1>2, AccountsFacts
<1>3a. /\ IsFill(FillRoute(m))
       /\ \E c \in LegFills(m, l, F, FillRoute(m)) :
             calls[F] = <<c>> \/ \E mv \in Moves(m, l, F) : calls[F] = <<mv, c>>
  <2>1. F \in DOMAIN m.instructions /\ calls[F] \in CallsOf(m, l, F) /\ F = FillIx(m)
    BY <1>1, <1>2
  <2> HIDE DEF F
  <2> QED BY <2>1, CallsAre
<1>4. PICK c \in LegFills(m, l, F, FillRoute(m)) :
         calls[F] = <<c>> \/ \E mv \in Moves(m, l, F) : calls[F] = <<mv, c>>
  BY <1>3a
<1>5. IsFill(FillRoute(m))
  BY <1>3a
<1>6. /\ c \in FillCalls /\ c.op = "fill" /\ AsQuoted(c, IdOf(m)) /\ c.user # Maker
      /\ KeysOf(c) \subseteq metas(F) /\ SignersOf(c) \subseteq Signers(m)
  BY <1>4, <1>5, LegFillFacts DEF AsQuoted, Maker
<1>7. ASSUME NEW i \in ixs, NEW mv \in Moves(m, l, i)
      PROVE  /\ mv \in C /\ mv.op = "move" /\ mv.authority # Maker
             /\ KeysOf(mv) \subseteq metas(i) /\ SignersOf(mv) \subseteq Signers(m)
  BY <1>7, MoveFacts DEF Maker
<1>8. \E j \in DOMAIN calls[F] :
         /\ calls[F][j] = c /\ calls[F] \in Seq(C)
         /\ \A j2 \in DOMAIN calls[F] : j2 # j => calls[F][j2] \in Moves(m, l, F)
  <2>1. CASE calls[F] = <<c>>
    <3>1. 1 \in DOMAIN <<c>> /\ <<c>>[1] = c /\ <<c>> \in Seq(C)
          /\ \A j2 \in DOMAIN <<c>> : j2 = 1
      BY <1>6
    <3> QED BY <2>1, <3>1
  <2>2. CASE \E mv \in Moves(m, l, F) : calls[F] = <<mv, c>>
    <3>1. PICK mv \in Moves(m, l, F) : calls[F] = <<mv, c>>
      BY <2>2
    <3>2. mv \in C /\ c \in C
      BY <1>2, <1>6, <1>7
    <3> HIDE DEF C
    <3>3. /\ 2 \in DOMAIN <<mv, c>> /\ <<mv, c>>[2] = c /\ <<mv, c>>[1] = mv
          /\ <<mv, c>> \in Seq(C)
          /\ \A j2 \in DOMAIN <<mv, c>> : j2 # 2 => j2 = 1
      BY <3>2
    <3> QED BY <3>1, <3>3
  <2> QED BY <1>4, <2>1, <2>2
<1>9. PICK j \in DOMAIN calls[F] :
         /\ calls[F][j] = c /\ calls[F] \in Seq(C)
         /\ \A j2 \in DOMAIN calls[F] : j2 # j => calls[F][j2] \in Moves(m, l, F)
  BY <1>8
<1>10. ASSUME NEW i \in ixs, i # F
       PROVE  /\ calls[i] \in Seq(C)
              /\ \A j2 \in DOMAIN calls[i] : calls[i][j2] \in Moves(m, l, i)
  <2>1. calls[i] = <<>> \/ \E mv \in Moves(m, l, i) : calls[i] = <<mv>>
    BY <1>1, <1>10, CallsAre
  <2>2. CASE calls[i] = <<>>
    BY <2>2
  <2>3. ASSUME NEW mv \in Moves(m, l, i), calls[i] = <<mv>>
        PROVE  /\ calls[i] \in Seq(C)
               /\ \A j2 \in DOMAIN calls[i] : calls[i][j2] \in Moves(m, l, i)
    <3>1. mv \in C
      BY <1>7
    <3> HIDE DEF C
    <3>2. <<mv>> \in Seq(C) /\ <<mv>>[1] = mv /\ \A j2 \in DOMAIN <<mv>> : j2 = 1
      BY <3>1
    <3> QED BY <2>3, <3>2
  <2> QED BY <2>1, <2>2, <2>3
<1>11. \A i \in ixs : \A j2 \in DOMAIN calls[i] :
          \/ i = F /\ j2 = j /\ calls[i][j2] = c
          \/ calls[i][j2] \in Moves(m, l, i)
  BY <1>9, <1>10
<1>12. /\ t.signers = Signers(m) /\ DOMAIN t.ixs = ixs
       /\ \A i \in ixs : t.ixs[i].metas = metas(i) /\ t.ixs[i].calls = calls[i]
  BY <1>1
<1> HIDE DEF metas, F
<1>13. t \in Runnable
  <2> DEFINE I == [metas : SUBSET Named, calls : Seq(C)]
  <2>1. WellFormed(t)
    BY <1>6, <1>7, <1>11, <1>12 DEF WellFormed
  <2>2. t.signers \subseteq Wallets
    BY <1>12 DEF Signers
  <2>3. \A i \in ixs : [metas |-> metas(i), calls |-> calls[i]] \in I
    BY <1>9, <1>10 DEF metas
  <2> HIDE DEF I
  <2>4. t.ixs \in Seq(I)
    BY <1>1, <1>3, <2>3
  <2>5. t \in [signers : SUBSET Wallets, ixs : Seq(I)]
    BY <1>1, <1>12, <2>2, <2>4
  <2> QED BY <2>1, <2>5 DEF Runnable, I
<1>14. KeepsTo(t, IdOf(m), F, j)
  <2>1. \A i2 \in DOMAIN t.ixs : i2 # F => t.ixs[i2].metas \cap MakerKeys(maker) = {}
    BY <1>12, OthersNameNothing DEF F, metas
  <2>2. \A i2 \in DOMAIN t.ixs : \A j2 \in DOMAIN t.ixs[i2].calls :
            t.ixs[i2].calls[j2].op = "fill" => i2 = F /\ j2 = j
    BY <1>7, <1>11, <1>12
  <2>3. OnlyQuotesIn(t, Maker)
    BY <1>6, <1>7, <1>11, <1>12 DEF OnlyQuotesIn
  <2> QED BY <1>2, <1>6, <1>9, <1>12, <2>1, <2>2, <2>3 DEF KeepsTo
<1> QED
  BY <1>2, <1>9, <1>12, <1>13, <1>14

-----------------------------------------------------------------------------
(* The steps: what stays true while others than the one it is about move *)

SafeInv == HandlerInv /\ CheckInv /\ SignedInv

\* The quotes a transaction keeps to depend on the maker alone.
LEMMA SameMaker ==
    ASSUME maker' = maker
    PROVE  /\ Maker' = Maker /\ HisAccounts' = HisAccounts
           /\ \A es : His(es)' = His(es)
           /\ \A c, id : AsQuoted(c, id)' <=> AsQuoted(c, id)
BY DEF Maker, HisAccounts, His, AsQuoted

\* So does what a transaction does for a quote.
LEMMA KeepsStill ==
    ASSUME maker' = maker, NEW t, tx' = t, NEW id, NEW i, NEW j, KeepsTo(t, id, i, j)
    PROVE  KeepsTo(tx, id, i, j)'
BY DEF KeepsTo, AsQuoted, Maker, OnlyQuotesIn

\* What has landed depends on the events alone.
LEMMA SameLanded ==
    ASSUME UNCHANGED <<maker, committed>>
    PROVE  His(committed)' = His(committed) /\ \A id : Landed(id)' = Landed(id)
BY DEF Landed, His, Maker

\* A quote that was filled stays spent: he signs for another one, or less of
\* what he signed has yet to run.
LEMMA StaysSpent ==
    ASSUME NEW id, Spent(id),
           \/ consumed' = consumed /\ sent' \subseteq sent
           \/ /\ IdOf(msg) \notin consumed
              /\ consumed' = consumed \cup {IdOf(msg)} /\ sent' = sent \cup {msg}
    PROVE  Spent(id)'
BY DEF Spent

\* A step that adds no event and gives no spent quote back keeps what landed as it was.
LEMMA LandedStays ==
    ASSUME LandedInv, UNCHANGED <<maker, committed>>, \A id : Spent(id) => Spent(id)'
    PROVE  LandedInv'
<1>1. His(committed)' = His(committed) /\ \A id : Landed(id)' = Landed(id)
  BY SameLanded
<1> SUFFICES ASSUME NEW n \in His(committed)
             PROVE  /\ AsQuoted(committed[n].call, committed[n].call.rfq_id)'
                    /\ Spent(committed[n].call.rfq_id)'
                    /\ Landed(committed[n].call.rfq_id)' = {n}
  BY <1>1 DEF LandedInv
<1> DEFINE c == committed[n].call
           id == c.rfq_id
<1>2. AsQuoted(c, id) /\ Spent(id) /\ Landed(id) = {n}
  BY DEF LandedInv
<1>3. AsQuoted(c, id)'
  BY <1>2 DEF AsQuoted, Maker
<1>4. Spent(id)'
  <2>1. \A e : Spent(e) => e \in consumed' /\ \A m \in sent' : IdOf(m) # e
    BY DEF Spent
  <2> QED BY <1>2, <2>1 DEF Spent
<1>5. Landed(id)' = {n}
  <2>1. \A e : Landed(e)' = Landed(e)
    BY <1>1
  <2> QED BY <1>2 DEF Landed, His, Maker
<1> QED
  BY <1>3, <1>4, <1>5

\* The calls of an instruction are a sequence.
LEMMA CallsAreSeqs ==
    ASSUME NEW t \in Runnable, NEW i \in DOMAIN t.ixs
    PROVE  i \in Nat /\ t.ixs[i].calls \in Seq(FillCalls \cup MoveCalls)
<1> DEFINE I == [metas : SUBSET Named, calls : Seq(FillCalls \cup MoveCalls)]
<1>1. t.ixs \in Seq(I)
  BY RunnableFacts
<1> HIDE DEF I
<1>2. i \in Nat /\ t.ixs[i] \in I
  BY <1>1
<1> QED
  BY <1>2 DEF I

\* The call at hand is one of the transaction.
LEMMA CallIsThere ==
    ASSUME HandlerInv, step # "idle", HasCall
    PROVE  /\ tx \in Runnable
           /\ ix \in Nat /\ cl \in Nat
           /\ ix \in DOMAIN tx.ixs /\ cl \in DOMAIN tx.ixs[ix].calls
<1>1. tx \in Runnable /\ ix \in DOMAIN tx.ixs
  BY CallFacts DEF HandlerInv
<1>2. ix \in Nat \ {0} /\ cl \in Nat \ {0} /\ cl <= Len(tx.ixs[ix].calls)
  BY DEF HandlerInv, TypeOK, HasCall
<1>3. tx.ixs[ix].calls \in Seq(FillCalls \cup MoveCalls)
  BY <1>1, CallsAreSeqs
<1> QED
  BY <1>1, <1>2, <1>3

\* A transaction that has run on, or not, but made no fill.
LEMMA RunningStays ==
    ASSUME SafeInv, UNCHANGED <<maker, committed>>, \A id : Spent(id) => Spent(id)',
           consumed \subseteq consumed',
           step' # "idle" => step # "idle" /\ UNCHANGED <<tx, fills>>
                             /\ \/ ix' = ix /\ cl' \in {cl, cl + 1}
                                \/ ix' = ix + 1
    PROVE  RunningInv'
<1> SUFFICES ASSUME step' # "idle"
             PROVE  \/ NothingOfHis'
                    \/ \E id \in consumed' : \E i \in DOMAIN tx'.ixs :
                          \E j \in DOMAIN tx'.ixs[i].calls : FillsOnce(id, i, j)'
  BY DEF RunningInv
<1>1. CASE NothingOfHis
  BY <1>1 DEF NothingOfHis, His, Maker
<1>2. CASE ~NothingOfHis
  <2>0. PICK id \in consumed, i \in DOMAIN tx.ixs :
           \E j \in DOMAIN tx.ixs[i].calls : FillsOnce(id, i, j)
    BY <1>2 DEF SafeInv, SignedInv, RunningInv
  <2>1. PICK j \in DOMAIN tx.ixs[i].calls : FillsOnce(id, i, j)
    BY <2>0
  <2>2. tx \in Runnable /\ ix \in Nat /\ cl \in Nat
    BY DEF SafeInv, HandlerInv, TypeOK, PlaceInv
  <2>3. i \in Nat /\ j \in Nat
    BY <2>2, CallsAreSeqs
  <2>4. KeepsTo(tx, id, i, j)'
    BY <2>1, KeepsStill DEF FillsOnce
  <2>5. Spent(id)'
    BY <2>1 DEF FillsOnce
  <2>6. Landed(id)' = {}
    BY <2>1, SameLanded DEF FillsOnce
  <2>7. i < ix \/ (i = ix /\ j < cl) => i < ix' \/ (i = ix' /\ j < cl')
    BY <2>2, <2>3
  <2>8. FillsOnce(id, i, j)'
    BY <2>1, <2>4, <2>5, <2>6, <2>7 DEF FillsOnce
  <2> QED BY <2>1, <2>8
<1> QED
  BY <1>1, <1>2

\* Forgetting a message keeps the others as they were looked up.
LEMMA SentStays ==
    ASSUME SentInv, UNCHANGED <<maker, consumed>>, sent' \subseteq sent
    PROVE  SentInv'
BY DEF SentInv

\* What is his stays covered as long as he only quotes in what runs.
LEMMA HisLedgerStays ==
    ASSUME HandlerInv, HisLedger, maker' = maker, step # "idle" => OnlyQuotesIn(tx, Maker),
           [Tick \/ (\E t \in Runnable : Start(t)) \/ Run]_vars
    PROVE  HisLedger'
<1>1. PICK start \in InitialBalances : \A a \in HisAccounts : CoveredSince(start, a)
  BY DEF HisLedger
<1>2. ASSUME NEW a \in HisAccounts PROVE CoveredSince(start, a)'
  <2>1. a \in TokenAccounts /\ (step # "idle" => OnlyQuotesIn(tx, OwnerOf[a]))
    BY DEF HisAccounts
  <2> QED BY <1>1, <2>1, CoveredStep
<1>3. HisAccounts' = HisAccounts
  BY SameMaker
<1> QED
  BY <1>2, <1>3 DEF HisLedger

-----------------------------------------------------------------------------
(* The steps: what he signs, and what is run *)

\* At the start nothing is signed and nothing has landed.
LEMMA SignedStart == SignedInit => SafeInv
<1> SUFFICES ASSUME SignedInit PROVE SafeInv
  OBVIOUS
<1>1. PICK b \in Inboxes : inbox = Tail(b) /\ msg = Head(b)
  BY DEF SignedInit
<1>2. b \in Seq(Messages) /\ b # <<>> /\ Head(b) \in Presented
  <2>1. b \in Seq(Presented) /\ Len(b) >= 1
    BY SignedAssumption
  <2> QED BY <2>1, LegAssumption
<1>3. HandlerInv /\ Init
  BY HandlerInit DEF SignedInit
<1>4. CheckInv
  BY <1>1, <1>2, CheckInvInit DEF SignedInit, CheckInit
<1>5. inbox \in Seq(Messages)
  BY <1>1, <1>2
<1>6. SentInv /\ LandedInv /\ RunningInv
  BY DEF SignedInit, Init, SentInv, LandedInv, RunningInv, His
<1>7. HisLedger
  <2>1. bal \in InitialBalances /\ \A a \in TokenAccounts : CoveredSince(bal, a)
    BY <1>3, CoveredInit DEF Init
  <2> QED BY <2>1 DEF HisLedger, HisAccounts
<1> QED
  BY <1>3, <1>4, <1>5, <1>6, <1>7 DEF SafeInv, SignedInv

\* Neither the ledger nor what he signed has moved.
LEMMA NothingSigned ==
    ASSUME SafeInv, UNCHANGED <<maker, consumed, sent, vars>>
    PROVE  HandlerInv' /\ SentInv' /\ LandedInv' /\ RunningInv' /\ HisLedger'
<1>1. HandlerInv'
  BY HandlerStep DEF SafeInv
<1>2. \A id : Spent(id) => Spent(id)'
  BY StaysSpent
<1>3. UNCHANGED <<committed, tx, ix, cl, fills, step>>
  BY DEF vars, ledgerVars
<1>4. cl \in Nat
  BY DEF SafeInv, HandlerInv, TypeOK
<1>5. RunningInv'
  BY <1>2, <1>3, <1>4, RunningStays
<1>6. LandedInv'
  BY <1>2, <1>3, LandedStays DEF SafeInv, SignedInv
<1>7. SentInv'
  BY SentStays DEF SafeInv, SignedInv
<1>8. HisLedger'
  <2>1. PICK start \in InitialBalances : \A a \in HisAccounts : CoveredSince(start, a)
    BY DEF SafeInv, SignedInv, HisLedger
  <2>2. \A a \in HisAccounts : CoveredSince(start, a)'
    BY <2>1 DEF CoveredSince, Waiting, call, vars, ledgerVars
  <2> QED BY <2>1, <2>2, SameMaker DEF HisLedger
<1> QED
  BY <1>1, <1>5, <1>6, <1>7, <1>8

\* Looking at a message changes nothing of what was signed (validate_maker_accounts).
LEMMA ExamineSafe == ASSUME SafeInv, Examine PROVE SafeInv'
<1>1. CheckInv' /\ maker' = maker
  <2>1. CheckStep
    BY DEF Examine
  <2>2. maker' = maker
    BY <2>1 DEF CheckStep, Pass, Respond, Decode, DecodeFails, Distinct, NotDistinct,
       Static, NotStatic, DuplicateKey, Signer, NotSigner, Writable, NotWritable, RfqStatic,
       RfqNotStatic, RfqDuplicate, Single, NotSingle, Count, BadCount, BadRfqCount, Accept, NoLeg
  <2> QED BY <2>1, <2>2, CheckInvStep DEF SafeInv
<1>2. HandlerInv' /\ SentInv' /\ LandedInv' /\ RunningInv' /\ HisLedger'
  BY <1>1, NothingSigned DEF Examine
<1> QED
  BY <1>1, <1>2 DEF SafeInv, SignedInv, Examine

\* Nor does turning to the next message.
LEMMA NextMessageSafe == ASSUME SafeInv, NextMessage PROVE SafeInv'
<1>1. HandlerInv' /\ SentInv' /\ LandedInv' /\ RunningInv' /\ HisLedger'
  BY NothingSigned DEF NextMessage
<1>2. inbox' \in Seq(Messages) /\ msg' \in Messages
  BY DEF NextMessage, SafeInv, SignedInv
<1>3. CheckTypeOK'
  BY <1>2 DEF NextMessage, SafeInv, CheckInv, CheckTypeOK, Stages
<1>4. CheckInv'
  BY <1>3 DEF NextMessage, CheckInv, Stood, Stages
<1> QED
  BY <1>1, <1>2, <1>4 DEF SafeInv, SignedInv

\* A signature goes out for a quote that was open and is consumed by it.
LEMMA SignSafe == ASSUME SafeInv, Sign PROVE SafeInv'
<1> DEFINE id == IdOf(msg)
<1>1. Vetted(msg, maker)
  BY OkVets DEF SafeInv, Sign
<1>2. PICK f \in Fills(msg) :
         LET r == msg.instructions[f[1]].routes[f[2]]
         IN  /\ r.rfq_id \in Offered \ consumed
             /\ SideOf(r) = QuoteOf[r.rfq_id].side
             /\ consumed' = consumed \cup {r.rfq_id}
  BY DEF Sign
<1>3. FillRoute(msg) = msg.instructions[f[1]].routes[f[2]]
  <2>1. PICK g \in Fills(msg) : Fills(msg) = {g}
    BY <1>1, FillIsIn DEF Vetted
  <2>2. f = CHOOSE g2 \in Fills(msg) : TRUE
    BY <2>1
  <2> QED BY <2>2 DEF FillRoute
<1>4. /\ id \in Offered /\ id \notin consumed /\ SideOf(FillRoute(msg)) = QuoteOf[id].side
      /\ consumed' = consumed \cup {id} /\ sent' = sent \cup {msg}
      /\ UNCHANGED <<checkVars, inbox, vars>>
  BY <1>2, <1>3 DEF Sign, IdOf
<1> HIDE DEF id
<1>5. \A e : Spent(e) => Spent(e)'
  BY <1>4, StaysSpent DEF id
<1>6. /\ maker' = maker /\ msg' = msg /\ inbox' = inbox
      /\ UNCHANGED <<committed, tx, ix, cl, fills, step>>
  BY <1>4 DEF checkVars, vars, ledgerVars
<1>7. HandlerInv'
  BY <1>4, HandlerStep DEF SafeInv
<1>8. CheckInv'
  BY <1>4, CheckStutter DEF SafeInv
<1>9. SentInv'
  <2>1. /\ consumed \subseteq Offered
        /\ \A m \in sent : /\ Vetted(m, maker)
                           /\ IdOf(m) \in consumed
                           /\ SideOf(FillRoute(m)) = QuoteOf[IdOf(m)].side
        /\ \A m1, m2 \in sent : IdOf(m1) = IdOf(m2) => m1 = m2
    BY DEF SafeInv, SignedInv, SentInv
  <2>2. \A m1, m2 \in sent' : IdOf(m1) = IdOf(m2) => m1 = m2
    BY <1>4, <2>1 DEF id
  <2> QED BY <1>1, <1>4, <1>6, <2>1, <2>2 DEF SentInv, id
<1>10. LandedInv'
  BY <1>5, <1>6, LandedStays DEF SafeInv, SignedInv
<1>11. RunningInv'
  <2>1. cl \in Nat
    BY DEF SafeInv, HandlerInv, TypeOK
  <2> QED BY <1>4, <1>5, <1>6, <2>1, RunningStays
<1>12. HisLedger'
  <2>1. PICK start \in InitialBalances : \A a \in HisAccounts : CoveredSince(start, a)
    BY DEF SafeInv, SignedInv, HisLedger
  <2>2. \A a \in HisAccounts : CoveredSince(start, a)'
    BY <1>4, <2>1 DEF CoveredSince, Waiting, call, vars, ledgerVars
  <2> QED BY <1>6, <2>1, <2>2, SameMaker DEF HisLedger
<1> QED
  BY <1>6, <1>7, <1>8, <1>9, <1>10, <1>11, <1>12 DEF SafeInv, SignedInv

\* Only one of the messages he signed is for a quote, so what is run for it is
\* run for the first time.
LEMMA SubmitSafe == ASSUME SafeInv, Submit PROVE SafeInv'
<1>1. PICK m \in sent :
         /\ sent' = sent \ {m}
         /\ \E l \in {l \in [1 .. m.loaded -> Keys] : NoKeyTwice(m, l)} :
               \E t \in TransactionsOf(m, l) : Start(t)
  BY DEF Submit
<1>2. PICK l : Loads(m, l) /\ \E t \in TransactionsOf(m, l) : Start(t)
  BY <1>1 DEF Loads
<1>3. PICK t \in TransactionsOf(m, l) : Start(t)
  BY <1>2
<1> DEFINE id == IdOf(m)
<1>4. /\ Vetted(m, maker) /\ id \in consumed /\ SideOf(FillRoute(m)) = QuoteOf[id].side
      /\ \A m2 \in sent : IdOf(m2) = id => m2 = m
  BY DEF SafeInv, SignedInv, SentInv
<1>5. maker \in MakerAccounts
  BY LegAssumption DEF SafeInv, CheckInv, CheckTypeOK
<1>6. /\ t \in Runnable
      /\ \E i \in DOMAIN t.ixs : \E j \in DOMAIN t.ixs[i].calls : KeepsTo(t, id, i, j)
  BY <1>2, <1>4, <1>5, RunsAsVetted
<1> HIDE DEF id
<1>7. PICK i \in DOMAIN t.ixs : \E j \in DOMAIN t.ixs[i].calls : KeepsTo(t, id, i, j)
  BY <1>6
<1>8. PICK j \in DOMAIN t.ixs[i].calls : KeepsTo(t, id, i, j)
  BY <1>7
<1>9. /\ step = "idle" /\ tx' = t /\ fills' = <<>> /\ step' = "next"
      /\ UNCHANGED <<checkVars, inbox, consumed, committed>>
  BY <1>3 DEF Start, Submit
<1>10. maker' = maker /\ consumed' = consumed /\ committed' = committed /\ inbox' = inbox
  BY <1>9 DEF checkVars
<1>11. HandlerInv' /\ HisLedger'
  <2>1. [Tick \/ (\E t2 \in Runnable : Start(t2)) \/ Run]_vars
    BY <1>3, <1>6
  <2> QED BY <1>9, <1>10, <2>1, HandlerStep, HisLedgerStays DEF SafeInv, SignedInv
<1>12. CheckInv'
  BY <1>9, CheckStutter DEF SafeInv
<1>13. SentInv'
  BY <1>1, <1>10, SentStays DEF SafeInv, SignedInv
<1>14. \A e : Spent(e) => Spent(e)'
  BY <1>1, <1>10, StaysSpent
<1>15. LandedInv'
  BY <1>10, <1>14, LandedStays DEF SafeInv, SignedInv
<1>16. RunningInv'
  <2>1. Spent(id)'
    BY <1>1, <1>4, <1>10 DEF Spent, id
  <2>2. Landed(id) = {}
    <3>1. ASSUME NEW n \in Landed(id) PROVE FALSE
      <4>1. n \in His(committed) /\ committed[n].call.rfq_id = id
        BY <3>1 DEF Landed
      <4>2. Spent(id)
        BY <4>1 DEF SafeInv, SignedInv, LandedInv
      <4> QED BY <1>1, <4>2 DEF Spent, id
    <3> QED BY <3>1
  <2>3. Landed(id)' = {}
    BY <1>10, <2>2, SameLanded
  <2>4. KeepsTo(tx, id, i, j)'
    BY <1>8, <1>9, <1>10, KeepsStill
  <2>5. FillsOnce(id, i, j)'
    BY <1>9, <2>1, <2>3, <2>4 DEF FillsOnce
  <2>6. id \in consumed'
    BY <1>4, <1>10
  <2> QED BY <1>9, <2>5, <2>6 DEF RunningInv
<1> QED
  BY <1>10, <1>11, <1>12, <1>13, <1>15, <1>16 DEF SafeInv, SignedInv

\* What others run makes no fill of his.
LEMMA OthersSafe == ASSUME SafeInv, Others PROVE SafeInv'
<1>1. PICK t \in Transactions : Start(t)
  BY DEF Others, Begin
<1>2. t \in Runnable /\ Maker \notin t.signers
  BY LedgerAssumption, SignedAssumption DEF Maker, SafeInv, CheckInv, CheckTypeOK
<1>3. /\ step = "idle" /\ tx' = t /\ fills' = <<>> /\ step' = "next"
      /\ UNCHANGED <<checkVars, inbox, consumed, sent, committed>>
  BY <1>1 DEF Start, Others
<1>4. /\ maker' = maker /\ consumed' = consumed /\ sent' = sent /\ committed' = committed
      /\ inbox' = inbox
  BY <1>3 DEF checkVars
<1>5. HandlerInv' /\ HisLedger'
  <2>1. [Tick \/ (\E t2 \in Runnable : Start(t2)) \/ Run]_vars
    BY <1>1, <1>2
  <2> QED BY <1>3, <1>4, <2>1, HandlerStep, HisLedgerStays DEF SafeInv, SignedInv
<1>6. CheckInv'
  BY <1>3, CheckStutter DEF SafeInv
<1>7. SentInv'
  BY <1>4, SentStays DEF SafeInv, SignedInv
<1>8. LandedInv'
  BY <1>4, StaysSpent, LandedStays DEF SafeInv, SignedInv
<1>9. RunningInv'
  <2>1. His(fills)' = {}
    BY <1>3 DEF His
  <2> QED BY <1>2, <1>3, <1>4, <2>1 DEF RunningInv, NothingOfHis, Maker
<1> QED
  BY <1>4, <1>5, <1>6, <1>7, <1>8, <1>9 DEF SafeInv, SignedInv

\* In what runs he only quotes.
LEMMA OnlyQuotesRun == ASSUME SafeInv, step # "idle" PROVE OnlyQuotesIn(tx, Maker)
<1>1. CASE NothingOfHis
  BY <1>1 DEF NothingOfHis, OnlyQuotesIn
<1>2. CASE ~NothingOfHis
  BY <1>2 DEF SafeInv, SignedInv, RunningInv, FillsOnce, KeepsTo
<1> QED
  BY <1>1, <1>2

\* Lands: a quote that was to be filled once has been, or has not.
LEMMA CommitSafe ==
    ASSUME SafeInv, Commit, UNCHANGED <<checkVars, inbox, consumed, sent>>
    PROVE  LandedInv'
<1>1. /\ committed' = committed \o fills
      /\ committed \in Seq(FillEvents) /\ fills \in Seq(FillEvents)
      /\ step # "idle"
  BY DEF Commit, SafeInv, HandlerInv, TypeOK
<1>2. maker' = maker /\ consumed' = consumed /\ sent' = sent
  BY DEF checkVars
<1> DEFINE L == Len(committed)
           N == Len(fills)
<1>3. L \in Nat /\ N \in Nat /\ DOMAIN committed = 1 .. L /\ DOMAIN fills = 1 .. N
  BY <1>1
<1>4. /\ DOMAIN committed' = 1 .. L + N
      /\ \A n \in 1 .. L : committed'[n] = committed[n]
      /\ \A n \in 1 .. N : committed'[L + n] = fills[n]
  <2>1. /\ committed \o fills \in Seq(FillEvents)
        /\ Len(committed \o fills) = L + N
        /\ \A n \in 1 .. L + N : (committed \o fills)[n] =
               IF n <= L THEN committed[n] ELSE fills[n - L]
    BY <1>1, ConcatProperties
  <2>2. DOMAIN committed' = 1 .. L + N
    BY <1>1, <2>1
  <2>3. \A n \in 1 .. L + N : committed'[n] = IF n <= L THEN committed[n] ELSE fills[n - L]
    BY <1>1, <2>1
  <2> HIDE DEF L, N
  <2> QED BY <1>3, <2>2, <2>3
<1> HIDE DEF L, N
<1>5. His(committed)' = His(committed) \cup {L + n : n \in His(fills)}
  <2>1. ASSUME NEW n \in 1 .. L + N
        PROVE  \/ n \in 1 .. L
               \/ n - L \in 1 .. N /\ n = L + (n - L)
    BY <1>3
  <2>2. \A n \in 1 .. L : n \in 1 .. L + N
    BY <1>3
  <2>3. \A n \in 1 .. N : L + n \in 1 .. L + N
    BY <1>3
  <2>4. His(committed)' = {n \in 1 .. L + N : committed'[n].call.fill_authority = Maker}
    BY <1>2, <1>4 DEF His, Maker
  <2>5. /\ His(committed) = {n \in 1 .. L : committed[n].call.fill_authority = Maker}
        /\ His(fills) = {n \in 1 .. N : fills[n].call.fill_authority = Maker}
    BY <1>3 DEF His
  <2>6. ASSUME NEW n \in His(committed)'
        PROVE  n \in His(committed) \/ \E k1 \in His(fills) : n = L + k1
    <3>1. n \in 1 .. L + N /\ committed'[n].call.fill_authority = Maker
      BY <2>4, <2>6
    <3>2. CASE n \in 1 .. L
      BY <1>4, <2>5, <3>1, <3>2
    <3>3. CASE n - L \in 1 .. N /\ n = L + (n - L)
      <4> DEFINE d == n - L
      <4>1. d \in 1 .. N /\ n = L + d
        BY <3>3
      <4> HIDE DEF d
      <4> QED BY <1>4, <2>5, <3>1, <4>1
    <3> QED BY <2>1, <3>1, <3>2, <3>3
  <2>7. \A n \in His(committed) : n \in His(committed)'
    BY <1>4, <2>2, <2>4, <2>5
  <2>8. \A n \in His(fills) : L + n \in His(committed)'
    BY <1>4, <2>3, <2>4, <2>5
  <2> QED BY <2>6, <2>7, <2>8
<1>6. \A n \in His(committed) : committed'[n] = committed[n]
  BY <1>3, <1>4 DEF His
<1>7. \A n \in His(committed) :
         /\ AsQuoted(committed[n].call, committed[n].call.rfq_id)
         /\ Spent(committed[n].call.rfq_id)
         /\ Landed(committed[n].call.rfq_id) = {n}
  BY DEF SafeInv, SignedInv, LandedInv
<1>8. (\A e : Spent(e) => Spent(e)') /\ \A c, e : AsQuoted(c, e) => AsQuoted(c, e)'
  BY <1>2, StaysSpent, SameMaker
<1>9. CASE His(fills) = {}
  <2>1. His(committed)' = His(committed)
    BY <1>5, <1>9
  <2>2. \A e : Landed(e)' = Landed(e)
    BY <1>6, <2>1 DEF Landed
  <2> QED BY <1>6, <1>7, <1>8, <2>1, <2>2 DEF LandedInv
<1>10. CASE His(fills) # {}
  <2>1. ~NothingOfHis /\ fills # <<>>
    BY <1>10 DEF NothingOfHis, His
  <2>2. PICK id \in consumed, i \in DOMAIN tx.ixs :
           \E j \in DOMAIN tx.ixs[i].calls : FillsOnce(id, i, j)
    BY <1>1, <2>1 DEF SafeInv, SignedInv, RunningInv
  <2>3. PICK j \in DOMAIN tx.ixs[i].calls : FillsOnce(id, i, j)
    BY <2>2
  <2>4. N = 1 /\ AsQuoted(fills[1].call, id) /\ Spent(id) /\ Landed(id) = {}
    BY <2>1, <2>3 DEF FillsOnce, KeepsTo, N
  <2>5. His(committed)' = His(committed) \cup {L + 1} /\ committed'[L + 1] = fills[1]
    <3>1. His(fills) = {1}
      BY <1>3, <1>10, <2>4 DEF His
    <3> QED BY <1>3, <1>4, <1>5, <2>4, <3>1
  <2>6. fills[1].call.rfq_id = id /\ \A n \in His(committed) : committed[n].call.rfq_id # id
    BY <2>4 DEF AsQuoted, Landed
  <2>7. L + 1 \notin His(committed)
    BY <1>3 DEF His
  <2>8. Landed(id)' = {L + 1}
    BY <1>6, <2>5, <2>6 DEF Landed
  <2>9. ASSUME NEW n \in His(committed) PROVE Landed(committed[n].call.rfq_id)' = {n}
    <3> DEFINE e == committed[n].call.rfq_id
    <3>1. e # id /\ Landed(e) = {n} /\ e' = e
      BY <1>6, <1>7, <2>6
    <3>2. {n2 \in His(committed)' : committed'[n2].call.rfq_id = e} = {n}
      <4>1. {n2 \in His(committed) : committed[n2].call.rfq_id = e} = {n}
        BY <3>1 DEF Landed
      <4> HIDE DEF e
      <4> QED BY <1>6, <2>5, <2>6, <3>1, <4>1
    <3> QED BY <3>1, <3>2 DEF Landed
  <2>10. ASSUME NEW n \in His(committed)
         PROVE  /\ AsQuoted(committed[n].call, committed[n].call.rfq_id)'
                /\ Spent(committed[n].call.rfq_id)'
                /\ Landed(committed[n].call.rfq_id)' = {n}
    <3>1. committed'[n] = committed[n] /\ AsQuoted(committed[n].call, committed[n].call.rfq_id)
          /\ Spent(committed[n].call.rfq_id)
      BY <1>6, <1>7
    <3>2. AsQuoted(committed[n].call, committed[n].call.rfq_id)'
      BY <1>2, <3>1 DEF AsQuoted, Maker
    <3>3. Spent(committed[n].call.rfq_id)'
      BY <1>2, <3>1 DEF Spent
    <3> QED BY <2>9, <3>2, <3>3
  <2>11. ASSUME NEW n, n = L + 1
         PROVE  /\ AsQuoted(committed[n].call, committed[n].call.rfq_id)'
                /\ Spent(committed[n].call.rfq_id)'
                /\ Landed(committed[n].call.rfq_id)' = {n}
    <3>1. committed'[n].call = fills[1].call /\ committed'[n].call.rfq_id = id
      BY <2>5, <2>6, <2>11
    <3>2. AsQuoted(committed[n].call, committed[n].call.rfq_id)'
      BY <1>2, <2>4, <3>1 DEF AsQuoted, Maker
    <3>3. Spent(committed[n].call.rfq_id)'
      BY <1>2, <2>4, <3>1 DEF Spent
    <3>4. Landed(committed[n].call.rfq_id)' = {n}
      BY <2>8, <2>11, <3>1 DEF Landed
    <3> QED BY <3>2, <3>3, <3>4
  <2> QED BY <2>5, <2>10, <2>11 DEF LandedInv
<1> QED
  BY <1>9, <1>10

\* What is delivered is not his to give, or the fill of the quote.
LEMMA DeliverSafe ==
    ASSUME SafeInv, Deliver, UNCHANGED <<checkVars, inbox, consumed, sent>>
    PROVE  RunningInv'
<1>1. /\ step = "deliver" /\ HasCall /\ call.op = "fill"
      /\ \E o, e : fills' = Append(fills, [ix |-> ix, call |-> call, amount_out |-> o, epoch |-> e])
      /\ cl' = cl + 1 /\ UNCHANGED <<tx, ix, committed>>
  BY DEF Deliver, AtFill
<1>2. PICK o, e : fills' = Append(fills, [ix |-> ix, call |-> call, amount_out |-> o, epoch |-> e])
  BY <1>1
<1> DEFINE f == [ix |-> ix, call |-> call, amount_out |-> o, epoch |-> e]
<1>3. f.call = call /\ fills' = Append(fills, f) /\ fills \in Seq(FillEvents)
  BY <1>2 DEF SafeInv, HandlerInv, TypeOK
<1> HIDE DEF f
<1>4. maker' = maker /\ consumed' = consumed /\ sent' = sent
  BY DEF checkVars
<1>5. /\ tx \in Runnable /\ ix \in DOMAIN tx.ixs /\ cl \in DOMAIN tx.ixs[ix].calls
      /\ ix \in Nat /\ cl \in Nat
  BY <1>1, CallIsThere DEF SafeInv
<1>6. CASE NothingOfHis
  <2>1. call.fill_authority # Maker
    <3>1. call.fill_authority \in tx.signers
      BY <1>1 DEF SafeInv, HandlerInv, PlaceInv, ArgumentsValid, Signed, SignersOf
    <3> QED BY <1>6, <3>1 DEF NothingOfHis
  <2>2. \A n \in DOMAIN fills : fills[n].call.fill_authority # Maker
    BY <1>6 DEF NothingOfHis, His
  <2>3. \A n \in DOMAIN fills' : fills'[n] = f \/ (n \in DOMAIN fills /\ fills'[n] = fills[n])
    BY <1>3
  <2>4. His(fills)' = {}
    BY <1>3, <1>4, <2>1, <2>2, <2>3 DEF His, Maker
  <2>5. NothingOfHis'
    BY <1>1, <1>4, <1>6, <2>4 DEF NothingOfHis, Maker
  <2> QED BY <2>5 DEF RunningInv
<1>7. CASE ~NothingOfHis
  <2>1. PICK id \in consumed, i \in DOMAIN tx.ixs :
           \E j \in DOMAIN tx.ixs[i].calls : FillsOnce(id, i, j)
    BY <1>1, <1>7 DEF SafeInv, SignedInv, RunningInv
  <2>2. PICK j \in DOMAIN tx.ixs[i].calls : FillsOnce(id, i, j)
    BY <2>1
  <2>3. ix = i /\ cl = j
    BY <1>1, <1>5, <2>2 DEF FillsOnce, KeepsTo, call
  <2>4. fills = <<>>
    BY <1>5, <2>2, <2>3 DEF FillsOnce
  <2>5. Len(fills') = 1 /\ fills'[1] = f
    BY <1>3, <2>4
  <2>6. fills'[1].call = tx'.ixs[i].calls[j]
    BY <1>1, <1>3, <2>3, <2>5 DEF call
  <2>7. KeepsTo(tx, id, i, j)'
    BY <1>1, <1>4, <2>2, KeepsStill DEF FillsOnce
  <2>8. Spent(id)'
    BY <1>4, <2>2, StaysSpent DEF FillsOnce
  <2>9. Landed(id)' = {}
    BY <1>1, <1>4, <2>2, SameLanded DEF FillsOnce
  <2>10. i = ix' /\ j < cl'
    BY <1>1, <1>5, <2>3
  <2>11. FillsOnce(id, i, j)'
    BY <2>5, <2>6, <2>7, <2>8, <2>9, <2>10 DEF FillsOnce
  <2> QED BY <1>1, <1>4, <2>1, <2>2, <2>11 DEF RunningInv
<1> QED
  BY <1>6, <1>7

\* Every step of the program keeps to what the running transaction may do.
LEMMA ProgramSafe == ASSUME SafeInv, Program PROVE SafeInv'
<1>1. UNCHANGED <<checkVars, inbox, consumed, sent>> /\ (Run \/ Tick)
  BY DEF Program
<1>2. maker' = maker /\ inbox' = inbox /\ consumed' = consumed /\ sent' = sent
  BY <1>1 DEF checkVars
<1>3. HandlerInv' /\ HisLedger'
  BY <1>1, <1>2, HandlerStep, HisLedgerStays, OnlyQuotesRun DEF SafeInv, SignedInv
<1>4. CheckInv'
  BY <1>1, CheckStutter DEF SafeInv
<1>5. SentInv'
  BY <1>2, SentStays DEF SafeInv, SignedInv
<1>6. \A id : Spent(id) => Spent(id)'
  BY <1>2, StaysSpent
<1>7. CASE Commit
  <2>1. LandedInv'
    BY <1>1, <1>7, CommitSafe
  <2>2. RunningInv'
    BY <1>7 DEF Commit, RunningInv
  <2> QED BY <1>2, <1>3, <1>4, <1>5, <2>1, <2>2 DEF SafeInv, SignedInv
<1>8. CASE ~Commit
  <2>1. committed' = committed
    BY <1>1, <1>8 DEF Run, NextIx, Move, MoveFails, Enter, EnterFails, CheckMints, MintsFail,
       CheckExclusivity, NotExclusive, Sweeping, SweepFails, PayMaker, PayFails, Deliver,
       DeliverFails, Refuse, Abort, Goto, ledgerVars, Tick
  <2>2. LandedInv'
    BY <1>2, <1>6, <2>1, LandedStays DEF SafeInv, SignedInv
  <2>3. RunningInv'
    <3>1. CASE Deliver
      BY <1>1, <3>1, DeliverSafe
    <3>2. CASE ~Deliver
      <4>1. step' # "idle" => step # "idle" /\ UNCHANGED <<tx, fills>>
                              /\ \/ ix' = ix /\ cl' \in {cl, cl + 1}
                                 \/ ix' = ix + 1
        BY <1>1, <1>8, <3>2 DEF Run, NextIx, Move, MoveFails, Enter, EnterFails, CheckMints,
           MintsFail, CheckExclusivity, NotExclusive, Sweeping, SweepFails, PayMaker, PayFails,
           DeliverFails, Refuse, Abort, Goto, ledgerVars, Tick, AtFill
      <4> QED BY <1>2, <1>6, <2>1, <4>1, RunningStays
    <3> QED BY <3>1, <3>2
  <2> QED BY <1>2, <1>3, <1>4, <1>5, <2>2, <2>3 DEF SafeInv, SignedInv
<1> QED
  BY <1>7, <1>8

-----------------------------------------------------------------------------
\* The inductive invariant: the handler's, the check's, and that what he signed
\* is one quote each.
THEOREM SignedInvariant == SignedSpec => [](HandlerInv /\ CheckInv /\ SignedInv)
<1>1. SafeInv /\ [SignedNext]_signedVars => SafeInv'
  <2> SUFFICES ASSUME SafeInv, [SignedNext]_signedVars PROVE SafeInv'
    OBVIOUS
  <2>1. CASE Examine BY <2>1, ExamineSafe
  <2>2. CASE Sign BY <2>2, SignSafe
  <2>3. CASE NextMessage BY <2>3, NextMessageSafe
  <2>4. CASE Submit BY <2>4, SubmitSafe
  <2>5. CASE Others BY <2>5, OthersSafe
  <2>6. CASE Program BY <2>6, ProgramSafe
  <2>7. CASE UNCHANGED signedVars
    <3>1. UNCHANGED <<checkVars, inbox, consumed, sent, vars>> /\ maker' = maker
      BY <2>7 DEF signedVars, checkVars
    <3> QED BY <3>1, NothingSigned, CheckStutter DEF SafeInv, SignedInv
  <2> QED BY <2>1, <2>2, <2>3, <2>4, <2>5, <2>6, <2>7 DEF SignedNext
<1>2. SignedSpec => []SafeInv
  BY <1>1, SignedStart, PTL DEF SignedSpec
<1> QED
  BY <1>2, PTL DEF SafeInv

\* The program never refuses for exclusivity what a maker signed: the decoder's
\* count of static indices, made before the tables are known, leaves his keys
\* in no other instruction.
THEOREM SignedNotRefused == SignedSpec => []SignedIsExclusive
<1>1. ASSUME SafeInv PROVE SignedIsExclusive
  <2> SUFFICES ASSUME step = "exclusive", Maker \in tx.signers PROVE Exclusive(call)
    BY DEF SignedIsExclusive
  <2>1. PICK id \in consumed, i \in DOMAIN tx.ixs :
           \E j \in DOMAIN tx.ixs[i].calls : FillsOnce(id, i, j)
    BY <1>1 DEF SafeInv, SignedInv, RunningInv, NothingOfHis
  <2>2. PICK j \in DOMAIN tx.ixs[i].calls : FillsOnce(id, i, j)
    BY <2>1
  <2>3. HasCall /\ call.op = "fill"
    BY <1>1 DEF SafeInv, HandlerInv, PlaceInv
  <2>4. ix \in DOMAIN tx.ixs /\ cl \in DOMAIN tx.ixs[ix].calls
    BY <1>1, <2>3, CallIsThere DEF SafeInv
  <2>5. ix = i /\ cl = j
    BY <2>2, <2>3, <2>4 DEF FillsOnce, KeepsTo, call
  <2>6. Protected(call) = MakerKeys(maker)
    BY <2>2, <2>5 DEF FillsOnce, KeepsTo, AsQuoted, call
  <2>7. \A i2 \in DOMAIN tx.ixs : i2 # ix => tx.ixs[i2].metas \cap MakerKeys(maker) = {}
    BY <2>2, <2>5 DEF FillsOnce, KeepsTo
  <2> QED BY <2>6, <2>7 DEF Exclusive
<1> QED
  BY <1>1, SignedInvariant, PTL DEF SafeInv

\* And all that happens to him is his quotes, each at most once, at their price
\* or better; apart from them no account of his ever loses an atom.
THEOREM MakersTradeAsQuoted == SignedSpec => []MakerTradesAsQuoted
<1>1. ASSUME SafeInv PROVE MakerTradesAsQuoted
  <2>1. ASSUME NEW n \in His(committed)
        PROVE  LET c == committed[n].call
                   q == QuoteOf[c.rfq_id]
               IN  /\ c.rfq_id \in Offered /\ Landed(c.rfq_id) = {n}
                   /\ c.side = q.side /\ c.levels = q.levels
                   /\ Protected(c) = MakerKeys(maker)
                   /\ WithinQuote(committed[n])
    <3>1. WithinQuote(committed[n])
      BY <1>1, <2>1 DEF SafeInv, HandlerInv, LandedWithinQuote, His, Range
    <3>2. consumed \subseteq Offered
      BY <1>1 DEF SafeInv, SignedInv, SentInv
    <3> QED BY <1>1, <2>1, <3>1, <3>2 DEF SafeInv, SignedInv, LandedInv, AsQuoted, Spent
  <2>2. ASSUME step = "idle"
        PROVE  \E start \in InitialBalances : \A a \in HisAccounts :
                  bal[a] >= start[a] + Gain(committed, a)
    <3>1. PICK start \in InitialBalances : \A a \in HisAccounts : CoveredSince(start, a)
      BY <1>1 DEF SafeInv, SignedInv, HisLedger
    <3>2. ASSUME NEW a \in HisAccounts PROVE bal[a] >= start[a] + Gain(committed, a)
      BY <1>1, <2>2, <3>1, CoveredBetween DEF HisAccounts, SafeInv
    <3> QED BY <3>2
  <2> QED BY <2>1, <2>2 DEF MakerTradesAsQuoted
<1> QED
  BY <1>1, SignedInvariant, PTL DEF SafeInv

=============================================================================
