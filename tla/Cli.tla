-------------------------------- MODULE Cli ---------------------------------
(***************************************************************************)
(* cmd/soroauth: how a run of the command line tool ends.  A command is a  *)
(* chain of checks, the first that fails gives the exit code; then a loop  *)
(* over the entries it was given, each known by what the library says of   *)
(* it.  Text is left out: an outcome is the exit code, the numbers of the  *)
(* entries a result was printed for and the JSON documents on stdout.      *)
(***************************************************************************)
EXTENDS Integers, Sequences, FiniteSets

CONSTANTS
  MaxLedger,      \* the largest ledger number, 2^32 - 1 in the code
  CommandLines    \* what the tool may be run with

ExitOK == 0
ExitGeneralError == 1
ExitUsageError == 2
ExitSigningRefusal == 3
ExitVerificationFailed == 4

\* The first code that is not ExitOK; "code IF condition" is a check that fails.
First(codes) == LET bad == {i \in DOMAIN codes : codes[i] # ExitOK}
                IN  IF bad = {} THEN ExitOK ELSE codes[CHOOSE i \in bad : \A j \in bad : i <= j]
UsageIf(p) == IF p THEN ExitUsageError ELSE ExitOK
GeneralIf(p) == IF p THEN ExitGeneralError ELSE ExitOK
VerificationIf(p) == IF p THEN ExitVerificationFailed ELSE ExitOK

Outcome(exit, results, docs) == [exit |-> exit, results |-> results, docs |-> docs]
machineError(code) == [kind |-> "error", exit |-> code]
writeJSONError(json, code) == Outcome(code, {}, IF json THEN <<machineError(code)>> ELSE <<>>)
Report == [kind |-> "report", exit |-> ExitOK]
\* Mutant: a run whose report says it failed writes an error as well.
Reported_AddsError(json, results, code) ==
  Outcome(code, results, IF ~json THEN <<>> ELSE IF code = ExitOK THEN <<Report>> ELSE <<Report, machineError(code)>>)

Reported(json, results, code) == Outcome(code, results, IF json THEN <<Report>> ELSE <<>>)

-----------------------------------------------------------------------------
\* Settings: a flag wins over the environment, the environment over the file.

loadConfig(in) == UsageIf(in.config = "refused")
loaded(in) == in.config = "loaded"

resolvePrecedence(setting, in, default) ==
  CASE setting.flag # "unset" -> setting.flag
    [] setting.flag = "unset" /\ setting.env # "" -> setting.env
    [] setting.flag = "unset" /\ setting.env = "" /\ loaded(in) /\ setting.file # "" -> setting.file
    [] OTHER -> default

\* --json=false is an answer too; an unknown name in the environment is refused
\* (one in the file was refused when the file was loaded).
resolveFormatValue(in, default) ==
  CASE in.jsonFlag = "true" -> {"json"}
    [] in.jsonFlag = "false" -> {IF in.format.flag # "unset" THEN in.format.flag ELSE default}
    [] in.jsonFlag = "unset" /\ in.format.flag = "unset" /\ in.format.env = "bad" -> {}
    [] OTHER -> {resolvePrecedence(in.format, in, default)}

resolveJSONMode(in) == "json" \in resolveFormatValue(in, "text")

\* Until the mode is settled an error goes by the flag alone.
Startup(in) == First(<<loadConfig(in), UsageIf(resolveFormatValue(in, "text") = {})>>)
FlagJSON(in) == in.jsonFlag = "true"

resolveRPCURL(in) == resolvePrecedence(in.rpc, in, "")

resolveNetworkValue(in) == resolvePrecedence(in.network, in, "")
\* A command that takes no configuration reads the flag alone.
FlagValue(setting) == IF setting.flag = "unset" THEN "" ELSE setting.flag

resolveNetwork(in, value, rpc) ==
  CASE value = "" -> ExitUsageError
    [] value = "rpc" -> First(<<UsageIf(rpc = "" /\ in.rpc.env = ""), GeneralIf(~in.fetched)>>)
    [] OTHER -> ExitOK

\* latest is the current ledger, {} when it could not be read.
resolveValidUntil(in, rpc) ==
  CASE in.validUntil # 0 /\ in.validFor # 0 -> ExitUsageError
    [] in.validUntil # 0 /\ in.validFor = 0 -> UsageIf(in.validUntil > MaxLedger)
    [] in.validUntil = 0 /\ in.validFor # 0 ->
         First(<<UsageIf(in.validFor > MaxLedger \/ rpc = ""), GeneralIf(in.latest = {}),
                 VerificationIf(\E l \in in.latest : l > MaxLedger - in.validFor)>>)
    [] OTHER -> ExitUsageError

\* Which signer the flags name; configuration counts only when no flag names one.
secretEnv(in) ==
  IF in.secret.flag # "unset" THEN in.secret.flag
  ELSE IF in.assertion \/ in.signerCmd # "" THEN ""
  ELSE resolvePrecedence(in.secret, in, "")

resolveSeedKeypair(in) == UsageIf(in.seed # "secret")   \* unset, garbage or a public key

newExecSigner(in) == UsageIf(in.signerCmd \in {"blank", "secret_shaped"} \/ ~in.timeoutPositive)

resolveSigner(in) ==
  LET given == {k \in {"secret", "assertion", "cmd"} :
                  \/ k = "secret" /\ secretEnv(in) # ""
                  \/ k = "assertion" /\ in.assertion
                  \/ k = "cmd" /\ in.signerCmd # ""}
  IN  IF Cardinality(given) # 1 THEN ExitUsageError
      ELSE IF "cmd" \in given THEN newExecSigner(in)
      ELSE IF "assertion" \in given THEN ExitUsageError
      ELSE resolveSeedKeypair(in)

\* The helper signs for --for, or for the one address its entry has.
inferSingleEntryAddress(in, item) ==
  UsageIf(in.signerCmd # "" /\ ~in.for
          /\ (item.arm = "address_with_delegates" \/ (item.arm # "source_account" /\ ~item.inspects)))

-----------------------------------------------------------------------------
\* Input.  What is given is an entry, an envelope (with or without an invocation)
\* or neither; a line of a batch may also end the input unread.

\* sign, payload and delegates read standard input first; the others let the
\* decoder read it, and a stream that fails is then a usage error.
resolveEntryArg(in) == GeneralIf(in.source = "broken_stdin")
decodeEntryOrEnvelope(in) ==
  UsageIf(in.source \in {"", "broken_stdin"} \/ in.shape \notin {"entry", "envelope"})
decodeEntry(in) == UsageIf(in.source \in {"", "broken_stdin"} \/ in.shape # "entry")

decodeBatchLine(item) ==
  First(<<UsageIf(item.line \in {"envelope", "garbage"}), GeneralIf(item.line = "unread")>>)

readBatchEntries(in) == UsageIf(in.source = "no_file" \/ in.items = <<>>)

\* batchRun: the exit code of the first failure, whatever comes after it.
summary(codes) == First(codes)

Each(in, Code(_)) == [i \in DOMAIN in.items |-> Code(in.items[i])]
Passing(in, codes) == {i \in DOMAIN in.items : codes[i] = ExitOK}
Everything(in) == DOMAIN in.items

-----------------------------------------------------------------------------
\* sign: all of the entries, or none.

exitCodeForSigningError(error) ==
  CASE error = "ok" -> ExitOK
    [] error \in {"ErrNoMatchingCredentialNode", "ErrAlreadySigned", "ErrSourceAccountCredentials",
                  "ErrUnsupportedCredentials", "ErrDuplicateDelegate", "ErrMissingSigner",
                  "ErrNoInvokeOperation", "ErrUnsupportedEnvelope", "errExecSignerRefused"} -> ExitSigningRefusal
    [] error \in {"ErrSignatureMismatch", "ErrInvalidExpiration", "ErrTooManySignatures"} -> ExitVerificationFailed
    [] OTHER -> ExitGeneralError

runSignBatch(in, json) ==
  LET codes == Each(in, LAMBDA item : First(<<decodeBatchLine(item), inferSingleEntryAddress(in, item),
                                              exitCodeForSigningError(item.authorize)>>))
      code == First(<<readBatchEntries(in), summary(codes)>>)
  IN  IF code # ExitOK THEN writeJSONError(json, code) ELSE Reported(json, Everything(in), ExitOK)

\* AuthorizeEntry, or AuthorizeEnvelope over the entries in order.
runSignEntry(in, json) ==
  LET code == First(<<resolveEntryArg(in), decodeEntryOrEnvelope(in),
                      UsageIf(in.shape = "envelope" /\ in.for),
                      First(Each(in, LAMBDA item : inferSingleEntryAddress(in, item))),
                      First(Each(in, LAMBDA item : exitCodeForSigningError(item.authorize)))>>)
  IN  IF code # ExitOK THEN writeJSONError(json, code) ELSE Reported(json, Everything(in), ExitOK)

runSign(in, json) ==
  LET rpc == resolveRPCURL(in)
      code == First(<<UsageIf(in.given \in {"both", "neither"}),
                      UsageIf(in.given = "entries" /\ in.for),
                      resolveNetwork(in, resolveNetworkValue(in), rpc), resolveValidUntil(in, rpc), resolveSigner(in)>>)
  IN  IF code # ExitOK THEN writeJSONError(json, code)
      ELSE IF in.given = "entries" THEN runSignBatch(in, json) ELSE runSignEntry(in, json)

-----------------------------------------------------------------------------
\* verify: a report on every entry, and what it says decides the exit code.

\* Mutant: only a wrong signature counts against an entry.
verifyFailed_InvalidOnly(item, allowUnsigned) ==
  \E i \in DOMAIN item.verdicts : item.verdicts[i] = "invalid"

verifyFailed(item, allowUnsigned) ==
  \E i \in DOMAIN item.verdicts :
    ~(item.verdicts[i] = "verified" \/ (item.verdicts[i] = "unsigned" /\ allowUnsigned))

\* The asserted expiration is cut to the width of a ledger number before it is compared.
ExpirationDiffers(in, item) ==
  in.validUntil # 0 /\ item.expiration # in.validUntil % (MaxLedger + 1)

\* What VerifyEntry refuses, or what does not carry the expiration asked for, has no report.
unreportable(in, item) == VerificationIf(item.verify # "ok" \/ ExpirationDiffers(in, item))
verdict(in, item) == VerificationIf(verifyFailed(item, in.allowUnsigned))

runVerifyBatch(in, json) ==
  LET code == First(<<resolveNetwork(in, resolveNetworkValue(in), resolveRPCURL(in)), readBatchEntries(in)>>)
      read == Each(in, LAMBDA item : First(<<decodeBatchLine(item), unreportable(in, item)>>))
      codes == [i \in DOMAIN in.items |-> First(<<read[i], verdict(in, in.items[i])>>)]
  IN  IF code # ExitOK THEN writeJSONError(json, code)
      ELSE Reported(json, Passing(in, read), summary(codes))

runVerify(in, json) ==
  LET code == First(<<UsageIf(in.given = "neither"), decodeEntryOrEnvelope(in),
                      resolveNetwork(in, resolveNetworkValue(in), resolveRPCURL(in)),
                      First(Each(in, LAMBDA item : unreportable(in, item)))>>)
  IN  IF in.given = "both" THEN writeJSONError(json, ExitUsageError)
      ELSE IF in.given = "entries" THEN runVerifyBatch(in, json)
      ELSE IF code # ExitOK THEN writeJSONError(json, code)
      ELSE Reported(json, Everything(in), First(Each(in, LAMBDA item : verdict(in, item))))

-----------------------------------------------------------------------------
\* diff: an item is a pair; a signature carried over a payload change fails it.

runDiffBatch(in, json) ==
  LET read == Each(in, LAMBDA item : First(<<decodeBatchLine(item), GeneralIf(item.diff = "refused")>>))
      codes == [i \in DOMAIN in.items |-> First(<<read[i], VerificationIf(in.items[i].diff = "stale")>>)]
      code == First(<<readBatchEntries(in), UsageIf(in.uneven)>>)
  IN  IF code # ExitOK THEN writeJSONError(json, code)
      ELSE Reported(json, Passing(in, read), summary(codes))

runDiff(in, json) ==
  LET item == in.items[1]
      code == First(<<UsageIf(in.given \in {"both", "neither", "one_side"} \/ in.source = "both_stdin")>>)
  IN  IF code # ExitOK THEN writeJSONError(json, code)
      ELSE IF in.given = "entries" THEN runDiffBatch(in, json)
      ELSE IF decodeEntry(in) # ExitOK THEN writeJSONError(json, decodeEntry(in))
      ELSE IF item.diff = "refused" THEN writeJSONError(json, ExitGeneralError)
      ELSE Reported(json, Everything(in), VerificationIf(item.diff = "stale"))

-----------------------------------------------------------------------------
\* payload, delegates, inspect and tree: a result for every entry, or an error.

\* Preimage's errors; an envelope's source-account entries are listed without a payload.
preimageError(in, item) ==
  IF in.shape = "envelope" /\ item.arm = "source_account" THEN ExitOK
  ELSE IF item.arm \in {"source_account", "unknown"} THEN ExitSigningRefusal
  ELSE VerificationIf(item.verify # "ok")

runPayload(in, json) ==
  LET rpc == resolveRPCURL(in)
      code == First(<<resolveEntryArg(in), decodeEntryOrEnvelope(in), resolveNetwork(in, resolveNetworkValue(in), rpc),
                      resolveValidUntil(in, rpc), First(Each(in, LAMBDA item : preimageError(in, item)))>>)
  IN  IF code # ExitOK THEN writeJSONError(json, code) ELSE Reported(json, Everything(in), ExitOK)

wrapError(error) ==
  CASE error = "ok" -> ExitOK
    [] error \in {"ErrUnsupportedCredentials", "ErrAlreadySigned", "ErrDuplicateDelegate"} ->
         ExitSigningRefusal
    [] error = "ErrInvalidExpiration" -> ExitVerificationFailed
    [] OTHER -> ExitGeneralError

runDelegates(in, json) ==
  LET code == First(<<resolveEntryArg(in), decodeEntry(in), resolveValidUntil(in, resolveRPCURL(in)),
                      UsageIf(in.tree \in {"bad_json", "none"}), wrapError(in.items[1].wrap)>>)
  IN  IF code # ExitOK THEN writeJSONError(json, code) ELSE Reported(json, Everything(in), ExitOK)

Inspected(in) == First(Each(in, LAMBDA item : GeneralIf(~item.inspects)))

runInspectBatch(in, json) ==
  LET codes == Each(in, LAMBDA item : First(<<decodeBatchLine(item), GeneralIf(~item.inspects)>>))
  IN  IF readBatchEntries(in) # ExitOK THEN writeJSONError(json, readBatchEntries(in))
      ELSE Reported(json, Passing(in, codes), summary(codes))

\* The report is JSON in either mode; --text of an envelope is a failed type
\* assertion, which ends the program with Go's own exit code 2.
runInspect(in, json) ==
  LET code == First(<<UsageIf(in.given = "neither"), decodeEntryOrEnvelope(in), Inspected(in)>>)
  IN  IF in.given = "both" THEN writeJSONError(json, ExitUsageError)
      ELSE IF in.given = "entries" THEN runInspectBatch(in, json)
      ELSE IF code # ExitOK THEN writeJSONError(json, code)
      ELSE IF in.text /\ in.shape = "envelope" THEN Outcome(2, {}, <<>>)
      ELSE Reported(~in.text, Everything(in), ExitOK)

runTree(in) ==
  LET mode == resolveFormatValue(in, "ascii")
      json == FlagJSON(in) \/ "json" \in mode
      early == First(<<loadConfig(in), UsageIf(in.format.flag \notin {"unset", "ascii", "dot"} \/ mode = {})>>)
      code == First(<<decodeEntryOrEnvelope(in), Inspected(in)>>)
  IN  IF early # ExitOK THEN writeJSONError(FlagJSON(in), early)
      ELSE IF code # ExitOK THEN writeJSONError(json, code)
      ELSE Reported(json, Everything(in), ExitOK)

-----------------------------------------------------------------------------
\* simulate and submit take no configuration file.

exitCodeForSimulateError(error) ==
  CASE error = "ok" -> ExitOK
    [] error \in {"ErrDecodeLimit", "ErrNoInvokeOperation"} -> ExitUsageError
    [] OTHER -> ExitGeneralError

endpoint(in) == IF in.rpc.flag # "unset" /\ in.rpc.flag # "" THEN in.rpc.flag ELSE in.rpc.env

runSimulate(in) ==
  LET code == First(<<UsageIf(in.source = ""), UsageIf(endpoint(in) = ""),
                      UsageIf(in.source = "broken_stdin"), UsageIf(in.shape # "envelope"),
                      exitCodeForSimulateError(in.simulated)>>)
  IN  IF code # ExitOK THEN writeJSONError(FlagJSON(in), code)
      ELSE Reported(FlagJSON(in), Everything(in), ExitOK)

submitInputs(in) == UsageIf(in.invocations # 1 \/ in.feeBump)

\* Mutant: the top of a delegate tree must be signed too.
unsignedRefusal_TopToo(in) ==
  UsageIf(\E i \in DOMAIN in.items : \E n \in DOMAIN in.items[i].verdicts :
            in.items[i].verify = "ok" /\ in.items[i].verdicts[n] = "unsigned")

\* An entry VerifyEntry refuses is left to the host, and so is the top of a delegate tree.
unsignedRefusal(in) ==
  UsageIf(\E i \in DOMAIN in.items : LET item == in.items[i]
            IN /\ item.verify = "ok"
               /\ \E n \in DOMAIN item.verdicts :
                    /\ item.verdicts[n] = "unsigned"
                    /\ ~(n = 1 /\ item.arm = "address_with_delegates"))

\* submitted: what Submit reports, "lost" when the transaction was sent and polling failed.
runSubmit(in) ==
  LET code == First(<<UsageIf(in.source = "" \/ FlagValue(in.secret) = ""), UsageIf(endpoint(in) = ""),
                      resolveNetwork(in, FlagValue(in.network), endpoint(in)), resolveSeedKeypair(in),
                      UsageIf(in.source = "broken_stdin" \/ in.shape # "envelope"), submitInputs(in),
                      IF in.allowUnsigned THEN ExitOK ELSE unsignedRefusal(in),
                      GeneralIf(in.submitted \in {"refused", "lost"})>>)
  IN  IF code # ExitOK THEN writeJSONError(FlagJSON(in), code)
      ELSE Reported(FlagJSON(in), Everything(in), GeneralIf(in.submitted = "FAILED"))

-----------------------------------------------------------------------------
\* doctor and explain-error.

doctorFails(in) ==
  \/ ~in.toolchain \/ ~in.reachable
  \/ resolvePrecedence(in.secret, in, "") # "" /\ ~(in.seed = "secret" /\ in.possesses)

\* The report is also the error document when a check failed.
runDoctor(in) ==
  LET mode == resolveFormatValue(in, "text")
      code == First(<<loadConfig(in), UsageIf(mode = {}),
                      UsageIf(in.format.flag # "unset" /\ mode \cap {"text", "json"} = {})>>)
  IN  IF code # ExitOK THEN writeJSONError(FlagJSON(in), code)
      ELSE Outcome(GeneralIf(doctorFails(in)), {},
                   IF mode # {"json"} THEN <<>>
                   ELSE IF doctorFails(in) THEN <<machineError(ExitGeneralError)>> ELSE <<Report>>)

\* Without --json an entry that cannot be inspected is reported on stderr only.
runExplainError(in) ==
  LET code == First(<<UsageIf(in.source = ""), decodeEntry(in)>>)
  IN  IF code # ExitOK THEN writeJSONError(FlagJSON(in), code)
      ELSE IF in.items[1].inspects THEN Reported(FlagJSON(in), Everything(in), ExitOK)
      ELSE IF FlagJSON(in) THEN writeJSONError(TRUE, ExitGeneralError)
      ELSE Outcome(ExitOK, {}, <<>>)

-----------------------------------------------------------------------------
\* runWithStdin: the output levels, the flags, the command, the exit code.

configured == {"sign", "verify", "diff", "payload", "delegates", "inspect"}
Commands == configured \cup {"tree", "simulate", "submit", "doctor", "explain-error"}

Dispatch(in) ==
  CASE in.command = "sign" -> runSign(in, resolveJSONMode(in))
    [] in.command = "verify" -> runVerify(in, resolveJSONMode(in))
    [] in.command = "diff" -> runDiff(in, resolveJSONMode(in))
    [] in.command = "payload" -> runPayload(in, resolveJSONMode(in))
    [] in.command = "delegates" -> runDelegates(in, resolveJSONMode(in))
    [] in.command = "inspect" -> runInspect(in, resolveJSONMode(in))
    [] in.command = "tree" -> runTree(in)
    [] in.command = "simulate" -> runSimulate(in)
    [] in.command = "submit" -> runSubmit(in)
    [] in.command = "doctor" -> runDoctor(in)
    [] in.command = "explain-error" -> runExplainError(in)

Run(in) ==
  IF in.command \in configured /\ Startup(in) # ExitOK
    THEN writeJSONError(FlagJSON(in), Startup(in)) ELSE Dispatch(in)

\* --quiet keeps the output back and drops it when the command succeeds.
verbosityOutput(in, out) ==
  IF in.level = "quiet" /\ out.exit = ExitOK THEN Outcome(ExitOK, {}, <<>>) ELSE out

\* A flag that does not parse is reported in JSON by three commands only.
ParseError(in) ==
  writeJSONError(FlagJSON(in) /\ in.command \in {"verify", "doctor", "explain-error"}, ExitUsageError)

runWithStdin(in) ==
  IF in.level \in {"both", "unreadable"} \/ in.command = "unknown" THEN writeJSONError(FALSE, ExitUsageError)
  ELSE verbosityOutput(in, IF in.parses THEN Run(in) ELSE ParseError(in))

-----------------------------------------------------------------------------
\* A command line, and what the library says of the entries it names.  A run names one
\* entry unless it takes a file or an envelope of them; two batches are compared line by
\* line.  VerifyEntry reports on an entry or refuses it, a source-account one never.
Possible(in) ==
  /\ in.command \in Commands \cup {"unknown"}
  /\ in.submitted \in {"SUCCESS", "FAILED", "refused", "lost"}
  /\ in.validUntil \in Nat
  /\ Len(in.items) \in Nat /\ DOMAIN in.items = 1 .. Len(in.items)
  /\ in.given # "entries" => \A i \in DOMAIN in.items : in.items[i].line = "entry"
  /\ in.given # "entries" /\ in.shape # "envelope" => Len(in.items) = 1
  /\ in.given = "entries" => in.command \in {"sign", "verify", "diff", "inspect"} /\ in.shape = "entry"
  /\ in.command \in {"diff", "delegates", "explain-error"} => in.given = "entries" \/ Len(in.items) = 1
  /\ \A i \in DOMAIN in.items : LET item == in.items[i]
       IN  /\ item.line \in {"entry", "envelope", "garbage", "unread"}
           /\ item.diff \in {"clean", "stale", "refused"}
           /\ item.arm = "source_account" => item.verify = "ok"
           /\ item.verify # "ok" => DOMAIN item.verdicts = {}

ASSUME CliAssumption == MaxLedger \in Nat /\ \A in \in CommandLines : Possible(in)

VARIABLES
  commandLine,   \* what the process was started with
  ended          \* how it ended, {} while it runs

cliVars == <<commandLine, ended>>

CliInit == commandLine \in CommandLines /\ ended = {}

Execute ==
  /\ ended = {}
  /\ ended' = {runWithStdin(commandLine)}
  /\ UNCHANGED commandLine

CliSpec == CliInit /\ [][Execute]_cliVars

\* What a user means by an entry being in order, for each command.
InOrder(in, item) ==
  /\ item.line = "entry"
  /\ in.command = "sign" => item.authorize = "ok"
  /\ in.command = "verify" =>
       /\ item.verify = "ok" /\ (in.validUntil \in 1 .. MaxLedger => item.expiration = in.validUntil)
       /\ \A i \in DOMAIN item.verdicts :
            item.verdicts[i] \in {"verified"} \cup IF in.allowUnsigned THEN {"unsigned"} ELSE {}
  /\ in.command = "diff" => item.diff = "clean"
  /\ in.command = "payload" => item.verify = "ok" /\ (item.arm = "source_account" => in.shape = "envelope")
  /\ in.command = "delegates" => item.wrap = "ok"
  /\ in.command \in {"inspect", "tree"} => item.inspects
  /\ in.command = "explain-error" /\ in.jsonFlag = "true" => item.inspects
  /\ in.command = "submit" /\ ~in.allowUnsigned =>
       \A i \in DOMAIN item.verdicts :
         item.verdicts[i] = "unsigned" => i = 1 /\ item.arm = "address_with_delegates"

\* A script can go by the exit code.  Zero means that everything asked about was
\* in order and, unless kept quiet, that each entry has its result; and a sign that
\* fails prints no entry, so that no part of a set is taken for the whole.
\* (runWithStdin and the commands' run functions.  explain-error in text form is as
\* the code has it; so is --valid-until beyond the largest ledger, which verify cuts
\* to 32 bits.)
ExitTellsTruth ==
  \A out \in ended : LET in == commandLine
    IN  /\ out.exit = ExitOK =>
             /\ in.command # "doctor" => \A i \in DOMAIN in.items : InOrder(in, in.items[i])
             /\ in.level # "quiet" /\ in.command # "doctor"
                  /\ (in.command = "explain-error" => in.items[1].inspects) => out.results = Everything(in)
             /\ in.command = "submit" => in.submitted = "SUCCESS"
             /\ in.command = "simulate" => in.simulated = "ok"
             /\ in.command = "doctor" => in.toolchain /\ in.reachable
        /\ in.command = "sign" /\ out.exit # ExitOK => out.results = {}

\* The caller asked for JSON: with the flag, or else with a setting that could be read.
WantsJSON(in) ==
  \/ in.jsonFlag = "true"
  \/ in.jsonFlag = "unset" /\ in.command \in configured /\ Startup(in) = ExitOK
       /\ resolvePrecedence(in.format, in, "text") = "json"

\* A program that asked for JSON reads one document, a report or an error: never
\* two, never none, and an error says the exit code the process ends with.  Only
\* --quiet keeps a success silent.  inspect --text, and a command line that does not
\* parse, are as the code has them (writeJSONError and the commands' run functions).
OneDocument ==
  \A out \in ended : LET in == commandLine
    IN  in.parses /\ in.level \in {"none", "quiet", "verbose"} /\ in.command \in Commands
          /\ ~(in.command = "inspect" /\ in.text) =>
            /\ \A i \in DOMAIN out.docs : out.docs[i].kind = "error" => out.docs[i].exit = out.exit
            /\ Len(out.docs) <= 1
            /\ WantsJSON(in) /\ ~(in.level = "quiet" /\ out.exit = ExitOK) => Len(out.docs) = 1
==============================================================================
