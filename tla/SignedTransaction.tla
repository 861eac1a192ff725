------------------------- MODULE SignedTransaction --------------------------
(***************************************************************************)
(* A message the maker's check accepted, signed and sent.  The cluster      *)
(* (external) resolves the lookup tables the decoder never saw, refuses a   *)
(* key that would be loaded twice, and runs the instructions.  Here is what *)
(* the check is for: nothing the maker signs can use his accounts other     *)
(* than in the one leg he looked at.                                       *)
(***************************************************************************)
EXTENDS MakerCheck

VARIABLES
    loadedKeys,     \* what the lookup tables held
    fate            \* "unsigned", "signed", "AccountLoadedTwice", "loaded", "reverted", "executed"

txVars == <<msg, maker, stage, verdict, loadedKeys, fate>>

TxInit == CheckInit /\ loadedKeys = <<>> /\ fate = "unsigned"

Check == CheckStep /\ UNCHANGED <<loadedKeys, fate>>

Sign ==
    /\ stage = "answered" /\ verdict = "Ok"
    /\ fate = "unsigned"
    /\ fate' = "signed"
    /\ UNCHANGED <<checkVars, loadedKeys>>

\* The contents of the tables are anyone's choice, and may change until now.
Load ==
    /\ fate = "signed"
    /\ \E loaded \in [1 .. msg.loaded -> Keys] :
          /\ loadedKeys' = loaded
          /\ fate' = IF NoKeyTwice(msg, loaded) THEN "loaded" ELSE "AccountLoadedTwice"
    /\ UNCHANGED checkVars

UsesOf(key) == Uses(msg, loadedKeys, key)

RunsOnDex(i) == KeyAt(msg, loadedKeys, <<i, 0>>) \in DexPrograms

\* An aggregator swap reverts on a SolRfqV2 route with an unknown side, or
\* whose program it was not given.
Reverts ==
    \E i \in DOMAIN msg.instructions :
        /\ RunsOnDex(i)
        /\ \E r \in Range(msg.instructions[i].routes) :
              r.dex = "rfq" /\ (~IsFill(r) \/ ~\E pos \in UsesOf(RfqProgram) : pos[1] = i)

Execute ==
    /\ fate = "loaded"
    /\ fate' = IF Reverts THEN "reverted" ELSE "executed"
    /\ UNCHANGED <<checkVars, loadedKeys>>

TxNext == Check \/ Sign \/ Load \/ Execute

TxSpec == TxInit /\ [][TxNext]_txVars

-----------------------------------------------------------------------------
(* Correctness *)

TxTypeOK ==
    /\ CheckTypeOK
    /\ loadedKeys \in Seq(Keys)
    /\ fate \in {"unsigned", "signed", "AccountLoadedTwice", "loaded", "reverted", "executed"}

\* The inductive invariant: only an Ok is signed, and what runs was loaded
\* without a key twice and does not revert.
TxInv ==
    /\ TxTypeOK /\ CheckInv
    /\ fate # "unsigned" => verdict = "Ok"
    /\ fate \in {"loaded", "executed"} =>
          loadedKeys \in [1 .. msg.loaded -> Keys] /\ NoKeyTwice(msg, loadedKeys)
    /\ fate = "executed" => ~Reverts

Leg == CHOOSE o \in LegOffsets(msg, maker) : TRUE

LegSlot(slot) == <<FillIx(msg), Leg + slot + 1>>

\* In whatever the tables resolve to, each of the maker's keys and the RFQ
\* program is used exactly once by the whole transaction, in its slot of the
\* one leg the maker decoded.  (The README of the decoder promises this of any
\* transaction that executes; so the program's own check_fill_exclusivity
\* cannot trip on a transaction the maker signed.)
MakerKeysOnlyInLeg ==
    fate \in {"loaded", "executed"} =>
        /\ UsesOf(maker.fill_authority) = {LegSlot(LegFillAuthority)}
        /\ UsesOf(maker.maker_base_token_account) = {LegSlot(LegMakerBase)}
        /\ UsesOf(maker.maker_quote_token_account) = {LegSlot(LegMakerQuote)}
        /\ UsesOf(RfqProgram) = {LegSlot(LegProgramId)}

\* The RFQ fill that runs is the one that was decoded and matched against the
\* quote: no instruction but the decoded one can reach the RFQ program, and no
\* other leg of it runs, undecoded, skipped or behind a dynamic program id.
OnlyDecodedFillRuns ==
    fate = "executed" =>
        \A i \in DOMAIN msg.instructions : \A n \in DOMAIN msg.instructions[i].routes :
            RunsOnDex(i) /\ msg.instructions[i].routes[n].dex = "rfq"
                => Fills(msg) = {<<i, n>>}

=============================================================================
