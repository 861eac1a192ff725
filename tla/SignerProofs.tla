---------------------------- MODULE SignerProofs ----------------------------
(***************************************************************************)
(* What the maker's check is worth to the two that act on its Ok: the maker *)
(* who signs, and whose transaction is loaded and executed, for any lookup  *)
(* tables; and the decode-tx command, whose exit code 0 is that Ok, for any *)
(* command line.  What an Ok itself says comes from MakerCheckProofs.       *)
(***************************************************************************)
EXTENDS SignedTransaction, DecodeTx, MakerCheckProofs

-----------------------------------------------------------------------------
(* A message the maker signed *)

\* The initial state satisfies the invariant.
LEMMA TxInvInit == TxInit => TxInv
<1> SUFFICES ASSUME TxInit PROVE TxInv
  OBVIOUS
<1>1. CheckInv
  BY CheckInvInit DEF TxInit
<1>2. fate = "unsigned" /\ loadedKeys = <<>>
  BY DEF TxInit
<1>3. TxTypeOK
  BY <1>1, <1>2 DEF TxTypeOK, CheckInv
<1> QED
  BY <1>1, <1>2, <1>3 DEF TxInv

\* Checking, signing, loading and executing keep the invariant.
LEMMA TxInvStep == TxInv /\ [TxNext]_txVars => TxInv'
<1> SUFFICES ASSUME TxInv, [TxNext]_txVars PROVE TxInv'
  OBVIOUS
<1>1. CheckInv /\ TxTypeOK
  BY DEF TxInv
<1>2. CASE Check
  <2>1. CheckInv' /\ verdict = "none" /\ UNCHANGED <<loadedKeys, fate>>
    BY <1>1, <1>2, CheckInvStep DEF Check
  <2>2. fate = "unsigned"
    BY <2>1 DEF TxInv
  <2> QED
    BY <1>1, <2>1, <2>2 DEF TxInv, TxTypeOK, CheckInv
<1>3. ASSUME UNCHANGED checkVars
      PROVE  CheckInv' /\ CheckTypeOK' /\ verdict' = verdict /\ msg' = msg
  BY <1>1, <1>3 DEF checkVars, CheckInv, CheckTypeOK, Stood, FoundOnce, MakerCountsOne, OneLeg
<1>4. CASE Sign
  BY <1>1, <1>3, <1>4 DEF Sign, TxInv, TxTypeOK
<1>5. CASE Load
  <2>1. PICK loaded \in [1 .. msg.loaded -> Keys] :
           /\ loadedKeys' = loaded
           /\ fate' = IF NoKeyTwice(msg, loaded) THEN "loaded" ELSE "AccountLoadedTwice"
    BY <1>5 DEF Load
  <2>2. msg.loaded \in Nat
    BY <1>1 DEF TxTypeOK, CheckTypeOK, Messages
  <2>3. loaded \in Seq(Keys)
    BY <2>2
  <2>4. verdict = "Ok" /\ UNCHANGED checkVars
    BY <1>5 DEF Load, TxInv
  <2> QED
    BY <1>3, <2>1, <2>3, <2>4 DEF TxInv, TxTypeOK
<1>6. CASE Execute
  <2>1. /\ fate = "loaded" /\ UNCHANGED <<checkVars, loadedKeys>>
        /\ fate' = IF Reverts THEN "reverted" ELSE "executed"
    BY <1>6 DEF Execute
  <2>2. Reverts' <=> Reverts
    BY <2>1 DEF checkVars, Reverts, RunsOnDex, UsesOf
  <2> QED
    BY <1>1, <1>3, <2>1, <2>2 DEF TxInv, TxTypeOK
<1>7. CASE UNCHANGED txVars
  <2>1. Reverts' <=> Reverts
    BY <1>7 DEF txVars, Reverts, RunsOnDex, UsesOf
  <2> QED
    BY <1>1, <1>3, <1>7, <2>1 DEF txVars, checkVars, TxInv, TxTypeOK
<1> QED
  BY <1>2, <1>4, <1>5, <1>6, <1>7 DEF TxNext

\* What each check of validate_maker_accounts established is there when the
\* later ones, the signer and the cluster rely on it.
THEOREM CheckInvariant == TxSpec => []TxInv
  BY TxInvInit, TxInvStep, PTL DEF TxSpec

\* Two matching legs cannot be (MultipleLegMatches, exclusivity.rs:193): each
\* would be a reference to the RFQ program, and there is one.
THEOREM LegIsUnique == TxSpec => []LegUnique
<1>1. TxInv => LegUnique
  <2> SUFFICES ASSUME TxInv, stage = "slots",
                      NEW o1 \in LegOffsets(msg, maker), NEW o2 \in LegOffsets(msg, maker)
               PROVE  o1 = o2
    BY DEF LegUnique
  <2> DEFINE s == <<LegProgramId, RfqProgram>>
  <2>1. msg \in Messages /\ maker \in MakerAccounts /\ SingleFill(msg) = "Ok"
          /\ ReferencedOnce(msg, RfqProgram)
    BY LegAssumption DEF TxInv, TxTypeOK, CheckTypeOK, CheckInv, Stood
  <2>2. s \in ExpectedSlots(maker) /\ s[2] = RfqProgram /\ s[1] = LegProgramId
    BY DEF ExpectedSlots
  <2> HIDE DEF s
  <2>3. References(msg, StaticIndex(msg, s[2])) = {<<FillIx(msg), o1 + s[1] + 1>>}
    BY <2>1, <2>2, LegHasAll
  <2>4. References(msg, StaticIndex(msg, s[2])) = {<<FillIx(msg), o2 + s[1] + 1>>}
    BY <2>1, <2>2, LegHasAll
  <2>5. <<FillIx(msg), o1 + LegProgramId + 1>> = <<FillIx(msg), o2 + LegProgramId + 1>>
    BY <2>2, <2>3, <2>4
  <2>6. LegProgramId \in Int /\ o1 \in Int /\ o2 \in Int
    BY LegAssumption DEF LegOffsets
  <2> QED
    BY <2>5, <2>6
<1> QED
  BY <1>1, CheckInvariant, PTL

\* Its uses are in the leg.
LEMMA UsesInLeg ==
    ASSUME TxInv, fate \in {"loaded", "executed"}, NEW s \in ExpectedSlots(maker)
    PROVE  UsesOf(s[2]) = {<<FillIx(msg), Leg + s[1] + 1>>}
<1>1. /\ CheckInv /\ verdict = "Ok"
      /\ loadedKeys \in [1 .. msg.loaded -> Keys] /\ NoKeyTwice(msg, loadedKeys)
      /\ Leg \in LegOffsets(msg, maker)
  BY DEF TxInv, CheckInv, OneLeg, Leg
<1>2. Vetted(msg, maker) /\ maker \in MakerAccounts
  BY <1>1, OkVets
<1>3. Uses(msg, loadedKeys, s[2]) = {<<FillIx(msg), Leg + s[1] + 1>>}
  BY <1>1, <1>2, LegHasAllUses
<1> QED
  BY <1>3 DEF UsesOf

\* What validate_maker_accounts is for: whatever the lookup tables resolve to,
\* a transaction the maker signed uses each of his keys, and the RFQ program,
\* once, in its slot of the leg he decoded.
THEOREM MakerKeysStayInLeg == TxSpec => []MakerKeysOnlyInLeg
<1>1. TxInv => MakerKeysOnlyInLeg
  <2> SUFFICES ASSUME TxInv, fate \in {"loaded", "executed"}
               PROVE  /\ UsesOf(maker.fill_authority) = {LegSlot(LegFillAuthority)}
                      /\ UsesOf(maker.maker_base_token_account) = {LegSlot(LegMakerBase)}
                      /\ UsesOf(maker.maker_quote_token_account) = {LegSlot(LegMakerQuote)}
                      /\ UsesOf(RfqProgram) = {LegSlot(LegProgramId)}
    BY DEF MakerKeysOnlyInLeg
  <2>1. ASSUME NEW slot, NEW key, <<slot, key>> \in ExpectedSlots(maker)
        PROVE  UsesOf(key) = {LegSlot(slot)}
    BY <2>1, UsesInLeg DEF LegSlot
  <2>2. /\ <<LegProgramId, RfqProgram>> \in ExpectedSlots(maker)
        /\ <<LegFillAuthority, maker.fill_authority>> \in ExpectedSlots(maker)
        /\ <<LegMakerBase, maker.maker_base_token_account>> \in ExpectedSlots(maker)
        /\ <<LegMakerQuote, maker.maker_quote_token_account>> \in ExpectedSlots(maker)
    BY DEF ExpectedSlots
  <2> QED
    BY <2>1, <2>2
<1> QED
  BY <1>1, CheckInvariant, PTL

\* No RFQ route runs but the one that was decoded, be it skipped for its side
\* byte (aggregator.rs:98) or behind a program id that a table loaded.
THEOREM OnlyTheDecodedFillRuns == TxSpec => []OnlyDecodedFillRuns
<1>1. TxInv => OnlyDecodedFillRuns
  <2> SUFFICES ASSUME TxInv, fate = "executed",
                      NEW i \in DOMAIN msg.instructions,
                      NEW n \in DOMAIN msg.instructions[i].routes,
                      RunsOnDex(i), msg.instructions[i].routes[n].dex = "rfq"
               PROVE  Fills(msg) = {<<i, n>>}
    BY DEF OnlyDecodedFillRuns
  <2> DEFINE routes == msg.instructions[i].routes
             r == routes[n]
  <2>1. r \in Range(routes)
    BY DEF Range
  <2>2. PICK pos \in UsesOf(RfqProgram) : IsFill(r) /\ pos[1] = i
    BY <2>1 DEF TxInv, Reverts
  <2>3. UsesOf(RfqProgram) = {<<FillIx(msg), Leg + LegProgramId + 1>>}
    <3> DEFINE s == <<LegProgramId, RfqProgram>>
    <3>1. s \in ExpectedSlots(maker) /\ s[1] = LegProgramId /\ s[2] = RfqProgram
      BY DEF ExpectedSlots
    <3> QED
      BY <3>1, UsesInLeg
  <2>4. FillIx(msg) = i
    BY <2>2, <2>3
  <2>5. msg \in Messages /\ SingleFill(msg) = "Ok"
    BY DEF TxInv, TxTypeOK, CheckTypeOK, CheckInv, Stood
  <2>6. PICK f \in Fills(msg) : Fills(msg) = {f} /\ f[1] = i
    BY <2>4, <2>5, FillIsIn
  <2>7. Entrypoint(msg, i) = "Concrete"
    BY <2>6 DEF Fills
  <2>8. <<i, n>> \in Fills(msg)
    BY <2>2, <2>7 DEF Fills
  <2> QED
    BY <2>6, <2>8
<1> QED
  BY <1>1, CheckInvariant, PTL

-----------------------------------------------------------------------------
(* The report of decode-tx *)

\* A line printed after the others (print_human, print_json).
LEMMA AppendFacts ==
    ASSUME NEW S, NEW s \in Seq(S), NEW e \in S
    PROVE  /\ Append(s, e) \in Seq(S) /\ Len(Append(s, e)) = Len(s) + 1
           /\ Append(s, e)[Len(s) + 1] = e
           /\ \A n \in 1 .. Len(s) : Append(s, e)[n] = s[n]
OBVIOUS

\* A report has three sections, and the maker's behind them if it was asked for.
LEMMA WholeFacts ==
    /\ \E S : Whole \in Seq(S)
    /\ Whole[1] = ListingSection(msg)
    /\ Whole[2] = SingleFillSection(msg)
    /\ Whole[3] = EntrypointSection(msg)
    /\ cli.maker_keys = "given" => Len(Whole) = 4 /\ Whole[4] = MakerSection(msg, maker, verdict)
    /\ cli.maker_keys # "given" => Len(Whole) = 3
<1> DEFINE a == ListingSection(msg)
           b == SingleFillSection(msg)
           c == EntrypointSection(msg)
           d == MakerSection(msg, maker, verdict)
           S == {a, b, c, d}
<1>1. Whole = IF cli.maker_keys = "given" THEN Append(<<a, b, c>>, d) ELSE <<a, b, c>>
  BY Zenon DEF Whole, Report
<1>2. a \in S /\ b \in S /\ c \in S /\ d \in S
  OBVIOUS
<1> HIDE DEF S, a, b, c, d
<1>3. /\ <<a, b, c>> \in Seq(S) /\ Len(<<a, b, c>>) = 3
      /\ <<a, b, c>>[1] = a /\ <<a, b, c>>[2] = b /\ <<a, b, c>>[3] = c
  BY <1>2
<1> DEFINE front == <<a, b, c>>
<1> HIDE DEF front
<1>4. /\ front \in Seq(S) /\ Len(front) = 3
      /\ front[1] = a /\ front[2] = b /\ front[3] = c
  BY <1>3 DEF front
<1>5. /\ Append(front, d) \in Seq(S) /\ Len(Append(front, d)) = 4
      /\ Append(front, d)[1] = a /\ Append(front, d)[2] = b
      /\ Append(front, d)[3] = c /\ Append(front, d)[4] = d
  <2>1. /\ Append(front, d) \in Seq(S) /\ Len(Append(front, d)) = Len(front) + 1
        /\ Append(front, d)[Len(front) + 1] = d
        /\ \A n \in 1 .. Len(front) : Append(front, d)[n] = front[n]
    <3>1. d \in S
      BY <1>2
    <3>2. front \in Seq(S)
      BY <1>4
    <3> QED BY <3>1, <3>2, AppendFacts
  <2>2. 1 \in 1 .. 3 /\ 2 \in 1 .. 3 /\ 3 \in 1 .. 3 /\ 3 + 1 = 4
    OBVIOUS
  <2> QED BY <1>4, <2>1, <2>2, Zenon
<1>6. Whole = front \/ Whole = Append(front, d)
  BY <1>1 DEF front
<1>7. Whole \in Seq(S) /\ Whole[1] = a /\ Whole[2] = b /\ Whole[3] = c
  BY <1>4, <1>5, <1>6
<1>8. cli.maker_keys = "given" => Len(Whole) = 4 /\ Whole[4] = d
  BY <1>1, <1>5 DEF front
<1>9. cli.maker_keys # "given" => Len(Whole) = 3
  BY <1>1, <1>4 DEF front
<1> QED BY <1>7, <1>8, <1>9 DEF a, b, c, d

\* What is printed is a part of a sequence.
LEMMA WholeIsSeq == \E S : Whole \in Seq(S) /\ Len(Whole) \in Nat \ {0}
<1>1. PICK S : Whole \in Seq(S)
  BY WholeFacts
<1>2. Len(Whole) = 4 \/ Len(Whole) = 3
  BY WholeFacts
<1> QED BY <1>1, <1>2

\* Fills are decoded from concrete entrypoints alone (AnySwapArgs::fills).
LEMMA NoTokenLedgerFill == \A m : ~HasTokenLedgerFill(m)
BY DEF HasTokenLedgerFill, Fills

-----------------------------------------------------------------------------
(* The command *)

\* The same state of the checks has the same report and the same code.
LEMMA SameChecks ==
    ASSUME UNCHANGED <<msg, maker, stage, verdict, cli>>
    PROVE  Whole' = Whole /\ ExitCode' = ExitCode /\ (Checked' <=> Checked)
BY DEF Whole, ExitCode, Checked

\* Nothing is read, checked or printed at the start.
LEMMA CliInvInit == CliInit => CliInv
<1> SUFFICES ASSUME CliInit PROVE CliInv
  OBVIOUS
<1>1. CheckInv
  BY CheckInvInit DEF CliInit
<1>2. /\ stage = "decode" /\ cli \in CommandLines /\ input = "unread" /\ output = <<>>
      /\ exit = NotExited
  BY DEF CliInit, CheckInit, CheckStart
<1> QED BY <1>1, <1>2 DEF CliInv, NotExited

\* A process that ends without a word on the checks.
LEMMA OtherExit ==
    ASSUME CliInv, NEW code \in {1, 2, Panicked}, Exit(code)
    PROVE  CliInv'
<1>1. UNCHANGED <<checkVars, cli, input, output>> /\ exit' = code
  BY DEF Exit
<1>2. CheckInv' /\ UNCHANGED <<msg, maker, stage, verdict, cli>>
  BY <1>1, CheckStutter DEF CliInv, checkVars
<1>3. exit' \in {1, 2, Panicked} /\ exit' \notin {0, 3, 4, 6}
  BY <1>1 DEF Panicked
<1> QED BY <1>1, <1>2, <1>3, SameChecks DEF CliInv

\* So does one that ends with an error message.
LEMMA ComplaintInv ==
    ASSUME CliInv, NEW code \in {1, 2}, Complain(code)
    PROVE  CliInv'
BY OtherExit DEF Complain

\* Every step keeps the checks, the report and the code together.
LEMMA CliInvStep ==
    ASSUME CliInv, [CliNext]_cliVars PROVE CliInv'
<1>1. ASSUME Got, input = "unread", Running PROVE CliInv'
  <2>1. UNCHANGED <<checkVars, cli, output, exit>> /\ input' \in {"read", "garbled"}
    BY <1>1 DEF Got
  <2>2. CheckInv' /\ UNCHANGED <<msg, maker, stage, verdict, cli>>
    BY <2>1, CheckStutter DEF CliInv, checkVars
  <2>3. stage = "decode"
    BY <1>1 DEF CliInv
  <2> QED BY <2>1, <2>2, <2>3, SameChecks DEF CliInv
<1>2. CASE Read \/ Fetched
  BY <1>1, <1>2 DEF Read, Fetched, AwaitsNode
<1>3. CASE FetchFails \/ NothingToRead \/ MalformedKey
  BY <1>3, ComplaintInv DEF FetchFails, NothingToRead, MalformedKey
<1>4. CASE DecodeError
  BY <1>4, ComplaintInv DEF DecodeError
<1>5. CASE CheckMessage
  <2>1. /\ CheckStep /\ exit = NotExited /\ input = "read"
        /\ stage # "decode" => cli.maker_keys = "given"
        /\ UNCHANGED <<cli, input, output, exit>>
    BY <1>5 DEF CheckMessage, Running
  <2>2. CheckInv' /\ verdict = "none"
    BY <2>1, CheckInvStep DEF CliInv
  <2>3. stage # "answered"
    BY <2>1 DEF CheckStep, Pass, Respond, Decode, DecodeFails, Distinct, NotDistinct,
       Static, NotStatic, DuplicateKey, Signer, NotSigner, Writable, NotWritable, RfqStatic,
       RfqNotStatic, RfqDuplicate, Single, NotSingle, Count, BadCount, BadRfqCount, Accept, NoLeg
  <2>4. ~Checked
    BY <2>1, <2>3 DEF Checked
  <2>5. output = <<>> /\ exit' \notin {0, 3, 4, 6}
    BY <2>1, <2>4 DEF CliInv, NotExited
  <2>6. stage' \notin {"decode", "distinct"} =>
           cli'.maker_keys = "given" \/ verdict' = "DecodeError"
    <3>1. CASE stage = "decode"
      BY <2>1, <3>1 DEF CheckStep, Pass, Respond, Decode, DecodeFails, Distinct, NotDistinct,
         Static, NotStatic, DuplicateKey, Signer, NotSigner, Writable, NotWritable, RfqStatic,
         RfqNotStatic, RfqDuplicate, Single, NotSingle, Count, BadCount, BadRfqCount, Accept, NoLeg
    <3> QED BY <2>1, <3>1
  <2> QED BY <2>1, <2>2, <2>5, <2>6 DEF CliInv
<1>6. CASE PrintReport
  <2> DEFINE n == IF cli.json THEN Len(Whole) ELSE Len(output) + 1
  <2>1. /\ Checked /\ Len(output) < Len(Whole) /\ exit = NotExited
        /\ output' = SubSeq(Whole, 1, n)
        /\ UNCHANGED <<checkVars, cli, input, exit>>
    BY <1>6 DEF PrintReport, Printing, Running
  <2>2. CheckInv' /\ UNCHANGED <<msg, maker, stage, verdict, cli>>
    BY <2>1, CheckStutter DEF CliInv, checkVars
  <2>3. Whole' = Whole /\ Checked'
    BY <2>1, <2>2, SameChecks
  <2>4. Len(output) \in Nat
    <3>1. CASE output = <<>>
      BY <3>1
    <3>2. CASE output # <<>>
      <4>1. PICK m \in 1 .. Len(Whole) : output = SubSeq(Whole, 1, m)
        BY <3>2 DEF CliInv
      <4> QED BY <4>1, WholeIsSeq
    <3> QED BY <3>1, <3>2
  <2>5. n \in 1 .. Len(Whole)
    BY <2>1, <2>4, WholeIsSeq
  <2>6. \E m \in 1 .. Len(Whole') : output' = SubSeq(Whole', 1, m)
    <3> HIDE DEF n
    <3> QED BY <2>1, <2>3, <2>5
  <2>7. exit' \notin {0, 3, 4, 6}
    BY <2>1 DEF NotExited
  <2> QED BY <2>1, <2>2, <2>3, <2>6, <2>7 DEF CliInv
<1>7. CASE PrintFails
  BY <1>7, OtherExit DEF PrintFails
<1>8. CASE Finish
  <2>1. /\ Checked /\ Len(output) = Len(Whole) /\ exit' = ExitCode
        /\ UNCHANGED <<checkVars, cli, input, output>>
    BY <1>8 DEF Finish, Exit
  <2>2. CheckInv' /\ UNCHANGED <<msg, maker, stage, verdict, cli>>
    BY <2>1, CheckStutter DEF CliInv, checkVars
  <2>3. output = Whole
    <3>1. output # <<>>
      BY <2>1, WholeIsSeq
    <3>2. PICK m \in 1 .. Len(Whole) : output = SubSeq(Whole, 1, m)
      BY <3>1 DEF CliInv
    <3>3. m = Len(Whole)
      BY <2>1, <3>2, WholeIsSeq
    <3> QED BY <3>2, <3>3, WholeIsSeq
  <2>4. exit' \in {0, 3, 4, 6}
    BY <2>1 DEF ExitCode
  <2> QED BY <2>1, <2>2, <2>3, <2>4, SameChecks DEF CliInv
<1>9. CASE UNCHANGED cliVars
  <2>1. UNCHANGED <<checkVars, cli, input, output, exit>>
    BY <1>9 DEF cliVars, checkVars
  <2>2. CheckInv' /\ UNCHANGED <<msg, maker, stage, verdict, cli>>
    BY <2>1, CheckStutter DEF CliInv, checkVars
  <2> QED BY <2>1, <2>2, SameChecks DEF CliInv
<1> QED BY <1>2, <1>3, <1>4, <1>5, <1>6, <1>7, <1>8, <1>9 DEF CliNext

\* Exit code 0 comes after every check that was asked for said OK.
LEMMA ZeroFacts ==
    ASSUME CliInv, exit = 0
    PROVE  /\ output = Whole /\ SingleFill(msg) = "Ok" /\ ~HasUnsupportedEntrypoint(msg)
           /\ msg \in Messages
           /\ cli.maker_keys = "given" => verdict = "Ok"
<1>1. output = Whole /\ ExitCode = 0 /\ msg \in Messages
  BY DEF CliInv, CheckInv, CheckTypeOK
<1> QED BY <1>1 DEF ExitCode

-----------------------------------------------------------------------------
\* What is printed, and the code, are those of a message whose checks are over.
THEOREM CliInvariant == CliSpec => []CliInv
  BY CliInvInit, CliInvStep, PTL DEF CliSpec

\* Exit code 0 with the maker's keys is the signal to sign: whatever the lookup
\* tables come to hold, his keys are used once each, in the slots of the leg
\* that the report printed.
THEOREM ZeroSafeToSign == CliSpec => []ZeroIsSafeToSign
<1>1. CliInv => ZeroIsSafeToSign
  <2> SUFFICES ASSUME CliInv, exit = 0, cli.maker_keys = "given"
               PROVE  LET report == output[4].body
                          inst   == report.instruction_index
                      IN  /\ output[4].ok
                          /\ \A loaded \in [1 .. msg.loaded -> Keys] :
                                NoKeyTwice(msg, loaded) =>
                                    \A s \in ExpectedSlots(maker) :
                                        Uses(msg, loaded, s[2])
                                          = {<<inst, report.leg_offset + s[1] + 1>>}
                          /\ \E r \in DOMAIN msg.instructions[inst].routes :
                                Fills(msg) = {<<inst, r>>}
    BY DEF ZeroIsSafeToSign
  <2> DEFINE o == CHOOSE n \in LegOffsets(msg, maker) : TRUE
  <2>1. output = Whole /\ SingleFill(msg) = "Ok" /\ verdict = "Ok" /\ msg \in Messages
    BY ZeroFacts
  <2>2. Vetted(msg, maker) /\ maker \in MakerAccounts /\ o \in LegOffsets(msg, maker)
    BY <2>1, OkVets DEF CliInv, CheckInv, OneLeg
  <2>3. output[4] = MakerSection(msg, maker, verdict)
    BY <2>1, WholeFacts
  <2>4. output[4].ok /\ output[4].body = MakerReport(msg, maker)
    <3>1. output[4] = [section |-> "maker_account_check", ok |-> TRUE,
                       body |-> MakerReport(msg, maker)]
      BY <2>1, <2>3, Zenon DEF MakerSection, Section
    <3> QED BY <3>1
  <2>5. /\ output[4].body.instruction_index = FillIx(msg)
        /\ output[4].body.leg_offset = o
    BY <2>4 DEF MakerReport
  <2> HIDE DEF o
  <2>6. ASSUME NEW loaded \in [1 .. msg.loaded -> Keys], NoKeyTwice(msg, loaded),
               NEW s \in ExpectedSlots(maker)
        PROVE  Uses(msg, loaded, s[2]) = {<<FillIx(msg), o + s[1] + 1>>}
    BY <2>2, <2>6, LegHasAllUses
  <2>7. \E r \in DOMAIN msg.instructions[FillIx(msg)].routes : Fills(msg) = {<<FillIx(msg), r>>}
    BY <2>1, OneFill
  <2> QED BY <2>4, <2>5, <2>6, <2>7
<1> QED BY <1>1, CliInvariant, PTL

\* The code is 0 exactly if every check in the whole report says OK.
THEOREM ExitIsTheReport == CliSpec => []ExitAgreesWithReport
<1>1. CliInv => ExitAgreesWithReport
  <2> SUFFICES ASSUME CliInv, exit \in {0, 3, 4, 6}
               PROVE  output = Whole /\ (exit = 0 <=> \A n \in DOMAIN output : output[n].ok)
    BY DEF ExitAgreesWithReport
  <2>1. output = Whole /\ exit = ExitCode
    BY DEF CliInv
  <2>2. /\ ListingSection(msg).ok
        /\ SingleFillSection(msg).ok <=> SingleFill(msg) = "Ok"
        /\ EntrypointSection(msg).ok <=> ~HasUnsupportedEntrypoint(msg)
        /\ MakerSection(msg, maker, verdict).ok <=> verdict = "Ok"
    BY NoTokenLedgerFill
       DEF ListingSection, SingleFillSection, EntrypointSection, MakerSection, Section
  <2>3. exit = 0 <=> /\ ~HasUnsupportedEntrypoint(msg) /\ SingleFill(msg) = "Ok"
                     /\ cli.maker_keys = "given" => verdict = "Ok"
    BY <2>1, NoTokenLedgerFill DEF ExitCode
  <2>4. CASE cli.maker_keys = "given"
    <3>1. /\ DOMAIN output = 1 .. 4
          /\ output[1] = ListingSection(msg) /\ output[2] = SingleFillSection(msg)
          /\ output[3] = EntrypointSection(msg) /\ output[4] = MakerSection(msg, maker, verdict)
      BY <2>1, <2>4, WholeFacts
    <3>2. (\A n \in DOMAIN output : output[n].ok)
            <=> output[1].ok /\ output[2].ok /\ output[3].ok /\ output[4].ok
      BY <3>1
    <3> QED BY <2>1, <2>2, <2>3, <2>4, <3>1, <3>2
  <2>5. CASE cli.maker_keys # "given"
    <3>1. /\ DOMAIN output = 1 .. 3
          /\ output[1] = ListingSection(msg) /\ output[2] = SingleFillSection(msg)
          /\ output[3] = EntrypointSection(msg)
      BY <2>1, <2>5, WholeFacts
    <3>2. (\A n \in DOMAIN output : output[n].ok)
            <=> output[1].ok /\ output[2].ok /\ output[3].ok
      BY <3>1
    <3> QED BY <2>1, <2>2, <2>3, <2>5, <3>1, <3>2
  <2> QED BY <2>4, <2>5
<1> QED BY <1>1, CliInvariant, PTL

\* Without the maker's keys, 0 is one leg in the listing, behind a static
\* program id, and no entrypoint that is not supported.
THEOREM ZeroOneFill == CliSpec => []ZeroIsOneFill
<1>1. CliInv => ZeroIsOneFill
  <2> SUFFICES ASSUME CliInv, exit = 0
               PROVE  LET listing == output[1].body
                      IN  \E i \in DOMAIN listing :
                            /\ \E n \in DOMAIN listing[i].legs : DOMAIN listing[i].legs = {n}
                            /\ listing[i].program \in DexPrograms
                            /\ \A j \in DOMAIN listing :
                                  /\ j # i => DOMAIN listing[j].legs = {}
                                  /\ listing[j].entrypoint # "Unsupported"
    BY DEF ZeroIsOneFill
  <2>1. /\ output = Whole /\ SingleFill(msg) = "Ok" /\ ~HasUnsupportedEntrypoint(msg)
        /\ msg \in Messages
    BY ZeroFacts
  <2> DEFINE i == FillIx(msg)
  <2>2. output[1] = ListingSection(msg)
    BY <2>1, WholeFacts
  <2>3. output[1].body = Listing(msg)
    BY <2>2 DEF ListingSection, Section
  <2>4. DOMAIN Listing(msg) = DOMAIN msg.instructions
    BY DEF Listing
  <2>5. ASSUME NEW j \in DOMAIN msg.instructions
        PROVE  /\ Listing(msg)[j].program = Program(msg, j)
               /\ Listing(msg)[j].entrypoint = Entrypoint(msg, j)
               /\ DOMAIN Listing(msg)[j].legs =
                    {n \in DOMAIN msg.instructions[j].routes : <<j, n>> \in Fills(msg)}
    BY DEF Listing, Legs, Fills
  <2>6. PICK r \in DOMAIN msg.instructions[i].routes : Fills(msg) = {<<i, r>>}
    BY <2>1, OneFill
  <2>7. i \in DOMAIN msg.instructions /\ Entrypoint(msg, i) = "Concrete"
    <3>1. <<i, r>> \in Fills(msg)
      BY <2>6
    <3>2. i \in DOMAIN msg.instructions
      BY <2>1, FillIsIn
    <3>3. Entrypoint(msg, <<i, r>>[1]) = "Concrete"
      BY <3>1, Zenon DEF Fills
    <3>4. <<i, r>>[1] = i
      OBVIOUS
    <3> QED BY <3>2, <3>3, <3>4
  <2> HIDE DEF i
  <2>8. DOMAIN Listing(msg)[i].legs = {r}
    BY <2>5, <2>6, <2>7
  <2>9. Listing(msg)[i].program \in DexPrograms
    BY <2>5, <2>7 DEF Program, Entrypoint, Recognised
  <2>10. ASSUME NEW j \in DOMAIN msg.instructions
         PROVE  /\ j # i => DOMAIN Listing(msg)[j].legs = {}
                /\ Listing(msg)[j].entrypoint # "Unsupported"
    BY <2>1, <2>5, <2>6 DEF HasUnsupportedEntrypoint
  <2> QED BY <2>3, <2>4, <2>7, <2>8, <2>9, <2>10
<1> QED BY <1>1, CliInvariant, PTL

=============================================================================
