------------------------------ MODULE TxReport ------------------------------
(***************************************************************************)
(* What decode-tx says of a decoded message: print_human and print_json,    *)
(* which give the same facts in the same order, the first section by        *)
(* section, the second in one piece.  Counts, sizes and layout are left     *)
(* out; instructions count from 1.                                         *)
(***************************************************************************)
EXTENDS MakerCheck

Program(m, i) ==
    LET p == m.instructions[i].program_id_index
    IN  IF IsStatic(m, p) THEN KeyOfStatic(m, p) ELSE "dynamic"

\* The legs decoded from an instruction, by the route they come from.
Legs(m, i) ==
    LET routes == m.instructions[i].routes
    IN  [n \in {n \in DOMAIN routes : Entrypoint(m, i) = "Concrete" /\ IsFill(routes[n])} |->
            routes[n]]

Listing(m) ==
    [i \in DOMAIN m.instructions |->
        [program |-> Program(m, i), entrypoint |-> Entrypoint(m, i), legs |-> Legs(m, i)]]

\* MakerValidationReport
MakerReport(m, mk) ==
    [instruction_index |-> FillIx(m),
     leg_offset |-> CHOOSE o \in LegOffsets(m, mk) : TRUE,
     fill_authority_index |-> StaticIndex(m, mk.fill_authority),
     maker_base_token_account_index |-> StaticIndex(m, mk.maker_base_token_account),
     maker_quote_token_account_index |-> StaticIndex(m, mk.maker_quote_token_account),
     rfq_program_index |-> StaticIndex(m, RfqProgram)]

Section(name, ok, body) == [section |-> name, ok |-> ok, body |-> body]

ListingSection(m) == Section("instructions", TRUE, Listing(m))

SingleFillSection(m) ==
    Section("single_fill", SingleFill(m) = "Ok", Cardinality(Fills(m)))

EntrypointSection(m) ==
    Section("entrypoint_check", ~HasUnsupportedEntrypoint(m) /\ ~HasTokenLedgerFill(m), 0)

\* v: what validate_maker_accounts answered.
MakerSection(m, mk, v) ==
    Section("maker_account_check", v = "Ok", IF v = "Ok" THEN MakerReport(m, mk) ELSE v)

\* The maker's section is there when the check was asked for.
Report(m, mk, v, asked) ==
    LET always == <<ListingSection(m), SingleFillSection(m), EntrypointSection(m)>>
    IN  IF asked THEN Append(always, MakerSection(m, mk, v)) ELSE always

=============================================================================
