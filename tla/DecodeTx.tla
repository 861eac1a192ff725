------------------------------ MODULE DecodeTx ------------------------------
(***************************************************************************)
(* main of the decode-tx command: where the bytes come from, the checks it  *)
(* runs, what it prints and the exit code it maps the checks to.           *)
(***************************************************************************)
EXTENDS TxReport

VARIABLES
    cli,        \* the command line
    input,      \* "unread", "read", or "garbled"
    output,     \* the sections of the report that went to standard output
    exit        \* the exit code, or NotExited

cliVars == <<msg, maker, stage, verdict, cli, input, output, exit>>

\* clap has refused --base64 with --tx and a partial set of maker keys.
\* maker_keys: not given, given but one is no base58 pubkey, given.
CommandLines ==
    [source : {"base64", "tx", "none"}, rpc_url : BOOLEAN,
     maker_keys : {"absent", "malformed", "given"}, allow_token_ledger : BOOLEAN,
     json : BOOLEAN]

NotExited == -1

Panicked == 101     \* println! and eprintln! panic when nobody reads

CliInit ==
    /\ CheckInit
    /\ cli \in CommandLines
    /\ input = "unread"
    /\ output = <<>>
    /\ exit = NotExited

Running == exit = NotExited

Exit(code) == Running /\ exit' = code /\ UNCHANGED <<checkVars, cli, input, output>>

\* An error goes to standard error before the process exits with its code.
Complain(code) == Exit(code) \/ Exit(Panicked)

AwaitsNode == Running /\ input = "unread" /\ cli.source = "tx" /\ cli.rpc_url

\* Garbled: no base64, no transaction on the wire, or one with another number of
\* signatures than its message requires.
Got ==
    /\ input' \in {"read", "garbled"}
    /\ UNCHANGED <<checkVars, cli, output, exit>>

Read == Running /\ input = "unread" /\ cli.source = "base64" /\ Got

\* fetch_tx_base64: the node answers, or its answer is an error or has no
\* transaction in it.  The request has no timeout: there may never be one.
Fetched     == AwaitsNode /\ Got
FetchFails  == AwaitsNode /\ Complain(2)

NothingToRead ==
    /\ input = "unread"
    /\ cli.source = "none" \/ (cli.source = "tx" /\ ~cli.rpc_url)
    /\ Complain(2)

DecodeError ==
    /\ input = "garbled" \/ (input = "read" /\ verdict = "DecodeError")
    /\ Complain(1)

MalformedKey ==
    /\ input = "read" /\ stage = "distinct" /\ cli.maker_keys = "malformed"
    /\ Complain(2)

\* Decoding always runs, validate_maker_accounts only with the maker's keys.
CheckMessage ==
    /\ Running /\ input = "read"
    /\ stage # "decode" => cli.maker_keys = "given"
    /\ CheckStep
    /\ UNCHANGED <<cli, input, output, exit>>

Checked ==
    \/ stage = "distinct" /\ cli.maker_keys = "absent"
    \/ stage = "answered" /\ verdict # "DecodeError"

Whole == Report(msg, maker, verdict, cli.maker_keys = "given")

Printing == Running /\ input = "read" /\ Checked /\ Len(output) < Len(Whole)

\* print_json writes the report at once, print_human a section at a time.
PrintReport ==
    /\ Printing
    /\ output' = SubSeq(Whole, 1, IF cli.json THEN Len(Whole) ELSE Len(output) + 1)
    /\ UNCHANGED <<checkVars, cli, input, exit>>

PrintFails == Printing /\ Exit(Panicked)

\* Slips: an exit code that forgets the maker's check, or the count of fills.
ExitCodeUnchecked ==
    IF HasUnsupportedEntrypoint(msg) THEN 6
    ELSE IF SingleFill(msg) # "Ok" THEN 4
    ELSE IF HasTokenLedgerFill(msg) /\ ~cli.allow_token_ledger THEN 6
    ELSE 0

ExitCodeUncounted ==
    IF HasUnsupportedEntrypoint(msg) THEN 6
    ELSE IF HasTokenLedgerFill(msg) /\ ~cli.allow_token_ledger THEN 6
    ELSE IF cli.maker_keys = "given" /\ verdict # "Ok" THEN 3
    ELSE 0

ExitCode ==
    IF HasUnsupportedEntrypoint(msg) THEN 6
    ELSE IF SingleFill(msg) # "Ok" THEN 4
    ELSE IF HasTokenLedgerFill(msg) /\ ~cli.allow_token_ledger THEN 6
    ELSE IF cli.maker_keys = "given" /\ verdict # "Ok" THEN 3
    ELSE 0

\* Slip: a closed output ends the report, not the process.
FinishCut ==
    /\ input = "read" /\ Checked
    /\ Exit(ExitCode)

Finish ==
    /\ input = "read" /\ Checked
    /\ Len(output) = Len(Whole)
    /\ Exit(ExitCode)

CliNext ==
    \/ Read \/ NothingToRead \/ Fetched \/ FetchFails
    \/ DecodeError \/ MalformedKey \/ CheckMessage
    \/ PrintReport \/ PrintFails \/ Finish

CliSpec == CliInit /\ [][CliNext]_cliVars

-----------------------------------------------------------------------------
(* Correctness *)

\* The inductive invariant: the checks run on what was read, the ones on the
\* maker's keys only with keys, and what is printed, and the code that speaks of
\* it, are those of a message whose checks are over.
CliInv ==
    /\ CheckInv
    /\ cli \in CommandLines
    /\ input \in {"unread", "read", "garbled"}
    /\ exit \in {NotExited, 0, 1, 2, 3, 4, 6, Panicked}
    /\ stage # "decode" => input = "read"
    /\ stage \notin {"decode", "distinct"} =>
          cli.maker_keys = "given" \/ verdict = "DecodeError"
    /\ output # <<>> => Checked /\ \E n \in 1 .. Len(Whole) : output = SubSeq(Whole, 1, n)
    /\ exit \in {0, 3, 4, 6} => Checked /\ output = Whole /\ exit = ExitCode

\* Exit code 0 with the maker's keys given is the signal to sign: whatever the
\* lookup tables hold when the transaction loads, each of the maker's keys is
\* used once, by the instruction and in the slot of the leg that the report
\* printed, and that instruction carries the one decoded fill.
ZeroIsSafeToSign ==
    exit = 0 /\ cli.maker_keys = "given" =>
        LET report == output[4].body
            inst   == report.instruction_index
        IN  /\ output[4].ok
            /\ \A loaded \in [1 .. msg.loaded -> Keys] :
                  NoKeyTwice(msg, loaded) =>
                      \A s \in ExpectedSlots(maker) :
                          Uses(msg, loaded, s[2]) = {<<inst, report.leg_offset + s[1] + 1>>}
            /\ \E r \in DOMAIN msg.instructions[inst].routes : Fills(msg) = {<<inst, r>>}

\* A code that speaks of the checks comes after the whole report, and agrees
\* with it: it is 0 exactly if every check in the report says OK, so that a
\* script that reads the code and a person who reads the text sign the same.
\* Under --allow-token-ledger this rests on there being no such leg to allow: no
\* arm of decode_swap_args gives that kind.
ExitAgreesWithReport ==
    exit \in {0, 3, 4, 6} =>
        /\ output = Whole
        /\ exit = 0 <=> \A n \in DOMAIN output : output[n].ok

\* Without the maker's keys a 0 still means one supported fill: the report that
\* went before it lists one leg, behind a program id that no lookup table can
\* change, and no other instruction of an aggregator it could not vouch for.
ZeroIsOneFill ==
    exit = 0 =>
        LET listing == output[1].body
        IN  \E i \in DOMAIN listing :
                /\ \E n \in DOMAIN listing[i].legs : DOMAIN listing[i].legs = {n}
                /\ listing[i].program \in DexPrograms
                /\ \A j \in DOMAIN listing :
                      /\ j # i => DOMAIN listing[j].legs = {}
                      /\ listing[j].entrypoint # "Unsupported"

\* The decoder's README on exit code 6: "SolRfqV2 leg uses a token-ledger
\* entrypoint" (fill-decoder/README.md:159).
SixIsTokenLedgerLeg == exit = 6 => HasTokenLedgerFill(msg)

=============================================================================
