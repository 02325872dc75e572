----------------------------- MODULE Validator -----------------------------
(***************************************************************************)
(* One validation attempt: validator_cb() of _make_cBench_validator() in   *)
(* src/compiler_gym/envs/llvm/datasets/cbench.py, the Differential         *)
(* Validator and the Gold-Standard Comparator.  It composes the process    *)
(* runner of module CompileAndRun, which it calls twice in one scratch     *)
(* directory: first for the gold standard (the unmodified benchmark, no    *)
(* sanitizer), then for the candidate.  The attempt's own steps (vpc) and  *)
(* the runner's steps (rpc) interleave only at the calls and the returns.  *)
(*                                                                         *)
(* The validator instance is one of the registered configurations         *)
(* (Configs), fixed for the whole attempt.  The calls into the            *)
(* environment service (fork, reset, write_bitcode) can raise TimeoutError; *)
(* the runtime-data download can fail; the input files can be missing.    *)
(***************************************************************************)
EXTENDS CompileAndRun, Sequences

CONSTANTS
    Configs   \* the validators registered for the benchmark

(* A validator configuration: the arguments of _make_cBench_validator     *)
(* that change its control flow.                                          *)
Config == [sanitizer : Sanitizers \cup {NoSan},
           compare_output : BOOLEAN,
           output_files : Seq(OutFiles),
           validate_result : BOOLEAN,
           pre_execution_callback : BOOLEAN]

ASSUME ConfigsAssumption == Configs \subseteq Config /\ Configs /= {}

(* A ValidationError; gold marks the "Gold standard: " prefix.            *)
VErrorTypes == ErrorTypes \cup {"Wrong output", "Output not generated", "Wrong output (file)"}
VError == [gold : BOOLEAN, type : VErrorTypes]
Exceptions == {"DownloadError", "FileNotFoundError", "OSError",
               "TimeoutError", "TimeoutExpired"}
VReturned == [kind : {"return"}, error : VError \cup {None}]
VRaised == [kind : {"raise"}, exc : Exceptions]

(* None is not a ValidationError, nor how validator_cb ended.             *)
ASSUME NoneNotError == None \notin VError \cup VReturned \cup VRaised

VARIABLES
    config,     \* the validator's configuration
    vpc,        \* where validator_cb is
    inputs,     \* every input file exists in the runtime data directory
    tmpdir,     \* the TemporaryDirectory cwd exists
    gsEnv,      \* the forked gold-standard environment: "none", "open", "closed"
    gold,       \* gold_standard: the result of the gold-standard run
    goldRaw,    \* its raw console output
    goldFiles,  \* cwd / (o + ".gold_standard") for each output file o
    outcome,    \* the result of the candidate run
    candRaw,    \* its raw console output
    diag,       \* validate_result(outcome) returned a diagnostic
    vres        \* what validator_cb returned or raised, None while it runs

valVars == <<config, vpc, inputs, tmpdir, gsEnv, gold, goldRaw, goldFiles,
             outcome, candRaw, diag, vres>>
vars == <<valVars, runVars>>

VPcs == {"start", "inputs", "mkdir", "setup", "fork", "goldPrepare", "goldWait",
         "goldFiles", "candWrite", "candWait", "check", "console", "diff", "done"}

TypeOK ==
    /\ RunTypeOK
    /\ config \in Configs
    /\ vpc \in VPcs
    /\ inputs \in BOOLEAN
    /\ tmpdir \in BOOLEAN
    /\ gsEnv \in {"none", "open", "closed"}
    /\ gold \in Returned \cup {None}
    /\ goldRaw \in RawOutputs \cup {None}
    /\ goldFiles \in [OutFiles -> Content \cup {Absent}]
    /\ outcome \in Returned \cup {None}
    /\ candRaw \in RawOutputs \cup {None}
    /\ diag \in BOOLEAN
    /\ vres \in VReturned \cup VRaised \cup {None}

-----------------------------------------------------------------------------
Fail(type, isGold) == [kind |-> "return", error |-> [gold |-> isGold, type |-> type]]
Passed == [kind |-> "return", error |-> None]
Throw(exc) == [kind |-> "raise", exc |-> exc]

(* The output files of the configuration, as a set.                       *)
Outs == {config.output_files[i] : i \in 1..Len(config.output_files)}

(* `if compare_output or output_files`: a gold standard is needed.        *)
NeedsGold == config.compare_output \/ config.output_files /= <<>>

(***************************************************************************)
(* validator_cb leaves by a return or an exception; either way the         *)
(* TemporaryDirectory context manager removes cwd.                        *)
(***************************************************************************)
Finish(v) ==
    /\ vpc' = "done"
    /\ vres' = v
    /\ tmpdir' = FALSE

(* download_cBench_runtime_data() under the two locks (see DownloadGate).  *)
Download ==
    /\ vpc = "start"
    /\ \/ vpc' = "inputs" /\ UNCHANGED <<vres, tmpdir>>
       \/ Finish(Throw("DownloadError"))
    /\ UNCHANGED <<config, inputs, gsEnv, gold, goldRaw, goldFiles, outcome,
                   candRaw, diag, runVars>>

(* Every input file must exist, else FileNotFoundError.                   *)
CheckInputs ==
    /\ vpc = "inputs"
    /\ IF inputs THEN vpc' = "mkdir" /\ UNCHANGED <<vres, tmpdir>>
                 ELSE Finish(Throw("FileNotFoundError"))
    /\ UNCHANGED <<config, inputs, gsEnv, gold, goldRaw, goldFiles, outcome,
                   candRaw, diag, runVars>>

(* tempfile.TemporaryDirectory(): a fresh, empty cwd.                     *)
MakeTmp ==
    /\ vpc = "mkdir"
    /\ vpc' = "setup"
    /\ tmpdir' = TRUE
    /\ binary' = FALSE
    /\ files' = [o \in OutFiles |-> Absent]
    /\ UNCHANGED <<config, inputs, gsEnv, gold, goldRaw, goldFiles, outcome,
                   candRaw, diag, vres, rpc, san, who, res, procs, stdout>>

(* pre_execution_callback(cwd), when configured; it copies files and can  *)
(* fail.  Then the gold standard is produced only when it is needed.       *)
Setup ==
    /\ vpc = "setup"
    /\ \/ /\ vpc' = IF NeedsGold THEN "fork" ELSE "candWrite"
          /\ UNCHANGED <<vres, tmpdir>>
       \/ /\ config.pre_execution_callback
          /\ Finish(Throw("OSError"))
    /\ UNCHANGED <<config, inputs, gsEnv, gold, goldRaw, goldFiles, outcome,
                   candRaw, diag, runVars>>

(* gs_env = env.fork(), outside the try: a failure leaves nothing to close. *)
Fork ==
    /\ vpc = "fork"
    /\ \/ vpc' = "goldPrepare" /\ gsEnv' = "open" /\ UNCHANGED <<vres, tmpdir>>
       \/ Finish(Throw("TimeoutError")) /\ UNCHANGED gsEnv
    /\ UNCHANGED <<config, inputs, gold, goldRaw, goldFiles, outcome,
                   candRaw, diag, runVars>>

(* Variant that closes gs_env only on the normal path.                     *)
GoldPrepareNoClose ==
    /\ vpc = "goldPrepare"
    /\ \/ /\ vpc' = "goldWait"
          /\ Call(NoSan, "gold")
          /\ UNCHANGED <<gsEnv, vres, tmpdir>>
       \/ /\ Finish(Throw("TimeoutError"))
          /\ UNCHANGED <<gsEnv, runVars>>
    /\ UNCHANGED <<config, inputs, gold, goldRaw, goldFiles, outcome, candRaw, diag>>

(***************************************************************************)
(* gs_env.reset(benchmark=env.benchmark); gs_env.write_bitcode(...), then  *)
(* the call of _compile_and_run_bitcode_file with sanitizer=None.  A       *)
(* service timeout is raised through the finally clause that closes gs_env. *)
(***************************************************************************)
GoldPrepare ==
    /\ vpc = "goldPrepare"
    /\ \/ /\ vpc' = "goldWait"
          /\ Call(NoSan, "gold")
          /\ UNCHANGED <<gsEnv, vres, tmpdir>>
       \/ /\ gsEnv' = "closed"
          /\ Finish(Throw("TimeoutError"))
          /\ UNCHANGED runVars
    /\ UNCHANGED <<config, inputs, gold, goldRaw, goldFiles, outcome, candRaw, diag>>

(* Variant that keeps whatever the call produced, exception included.       *)
GoldDoneKeepRaise ==
    /\ vpc = "goldWait"
    /\ rpc = "done"
    /\ rpc' = "idle"
    /\ gsEnv' = "closed"
    /\ gold' = res
    /\ goldRaw' = stdout
    /\ CASE res.kind = "raise" -> Finish(Throw(res.exc))
         [] res.kind = "return" /\ res.error /= None -> Finish(Fail(res.error, TRUE))
         [] OTHER -> vpc' = "goldFiles" /\ UNCHANGED <<vres, tmpdir>>
    /\ UNCHANGED <<config, inputs, goldFiles, outcome, candRaw, diag,
                   san, who, res, binary, files, procs, stdout>>

(***************************************************************************)
(* The gold-standard call has ended; the finally clause closes gs_env.    *)
(* An exception propagates; an error comes back as "Gold standard: ...".  *)
(***************************************************************************)
GoldDone ==
    /\ vpc = "goldWait"
    /\ rpc = "done"
    /\ rpc' = "idle"
    /\ gsEnv' = "closed"
    /\ gold' = IF res.kind = "return" THEN res ELSE gold
    /\ goldRaw' = stdout
    /\ CASE res.kind = "raise" -> Finish(Throw(res.exc))
         [] res.kind = "return" /\ res.error /= None -> Finish(Fail(res.error, TRUE))
         [] OTHER -> vpc' = "goldFiles" /\ UNCHANGED <<vres, tmpdir>>
    /\ UNCHANGED <<config, inputs, goldFiles, outcome, candRaw, diag,
                   san, who, res, binary, files, procs, stdout>>

(* Variant that copies the gold files instead of renaming them.           *)
GoldFilesCopy ==
    /\ vpc = "goldFiles"
    /\ IF \A o \in Outs : files[o] /= Absent
         THEN /\ vpc' = "candWrite"
              /\ goldFiles' = [o \in OutFiles |-> IF o \in Outs THEN files[o] ELSE goldFiles[o]]
              /\ UNCHANGED <<vres, tmpdir, files>>
         ELSE /\ Finish(Throw("FileNotFoundError"))
              /\ UNCHANGED <<goldFiles, files>>
    /\ UNCHANGED <<config, inputs, gsEnv, gold, goldRaw, outcome, candRaw, diag,
                   rpc, san, who, res, binary, procs, stdout>>

(***************************************************************************)
(* Each expected output file must have been produced by the gold run      *)
(* (else FileNotFoundError) and is renamed to its .gold_standard sibling.  *)
(***************************************************************************)
GoldFiles ==
    /\ vpc = "goldFiles"
    /\ IF \A o \in Outs : files[o] /= Absent
         THEN /\ vpc' = "candWrite"
              /\ goldFiles' = [o \in OutFiles |-> IF o \in Outs THEN files[o] ELSE goldFiles[o]]
              /\ files' = [o \in OutFiles |-> IF o \in Outs THEN Absent ELSE files[o]]
              /\ UNCHANGED <<vres, tmpdir>>
         ELSE /\ Finish(Throw("FileNotFoundError"))
              /\ UNCHANGED <<goldFiles, files>>
    /\ UNCHANGED <<config, inputs, gsEnv, gold, goldRaw, outcome, candRaw, diag,
                   rpc, san, who, res, binary, procs, stdout>>

(* env.write_bitcode(cwd / "benchmark.bc"), then the candidate call.      *)
CandWrite ==
    /\ vpc = "candWrite"
    /\ \/ /\ vpc' = "candWait"
          /\ Call(config.sanitizer, "cand")
          /\ UNCHANGED <<vres, tmpdir>>
       \/ /\ Finish(Throw("TimeoutError"))
          /\ UNCHANGED runVars
    /\ UNCHANGED <<config, inputs, gsEnv, gold, goldRaw, goldFiles, outcome, candRaw, diag>>

(* The candidate call has ended: an exception or an error propagates.     *)
CandDone ==
    /\ vpc = "candWait"
    /\ rpc = "done"
    /\ rpc' = "idle"
    /\ outcome' = IF res.kind = "return" THEN res ELSE outcome
    /\ candRaw' = stdout
    /\ CASE res.kind = "raise" -> Finish(Throw(res.exc))
         [] res.kind = "return" /\ res.error /= None -> Finish(Fail(res.error, FALSE))
         [] OTHER -> vpc' = "check" /\ UNCHANGED <<vres, tmpdir>>
    /\ UNCHANGED <<config, inputs, gsEnv, gold, goldRaw, goldFiles, diag,
                   san, who, res, binary, files, procs, stdout>>

(* validate_result(outcome): its return value is computed and dropped.    *)
Check ==
    /\ vpc = "check"
    /\ vpc' = "console"
    /\ diag' \in IF config.validate_result THEN BOOLEAN ELSE {FALSE}
    /\ UNCHANGED <<config, inputs, tmpdir, gsEnv, gold, goldRaw, goldFiles,
                   outcome, candRaw, vres, runVars>>

(* Variant that never compares the console outputs.                       *)
ConsoleSkipped ==
    /\ vpc = "console"
    /\ vpc' = "diff"
    /\ UNCHANGED <<config, inputs, tmpdir, gsEnv, gold, goldRaw, goldFiles, outcome,
                   candRaw, diag, vres, runVars>>

(* Difftest the console output.                                           *)
Console ==
    /\ vpc = "console"
    /\ IF config.compare_output /\ gold.output /= outcome.output
         THEN Finish(Fail("Wrong output", FALSE))
         ELSE vpc' = "diff" /\ UNCHANGED <<vres, tmpdir>>
    /\ UNCHANGED <<config, inputs, gsEnv, gold, goldRaw, goldFiles, outcome,
                   candRaw, diag, runVars>>

(***************************************************************************)
(* Difftest the output files in order: the first that is missing or whose *)
(* diff against its .gold_standard sibling is non-empty decides the error. *)
(***************************************************************************)
Diff ==
    LET of == config.output_files
        Bad == {i \in 1..Len(of) : files[of[i]] = Absent \/ files[of[i]].data /= goldFiles[of[i]].data}
        first == CHOOSE i \in Bad : \A k \in Bad : i <= k
    IN
    /\ vpc = "diff"
    /\ IF Bad = {} THEN Finish(Passed)
       ELSE IF files[of[first]] = Absent THEN Finish(Fail("Output not generated", FALSE))
       ELSE Finish(Fail("Wrong output (file)", FALSE))
    /\ UNCHANGED <<config, inputs, gsEnv, gold, goldRaw, goldFiles, outcome,
                   candRaw, diag, runVars>>

AttemptStep ==
    \/ Download \/ CheckInputs \/ MakeTmp \/ Setup \/ Fork \/ GoldPrepare
    \/ GoldDone \/ GoldFiles \/ CandWrite \/ CandDone \/ Check \/ Console \/ Diff

(* The attempt starts with the runner idle and no scratch directory yet;  *)
(* whether the runtime data holds the inputs is a fact of the disk.       *)
AttemptInit ==
    /\ RunInit
    /\ config \in Configs
    /\ vpc = "start"
    /\ inputs \in BOOLEAN
    /\ tmpdir = FALSE
    /\ gsEnv = "none"
    /\ gold = None
    /\ goldRaw = None
    /\ goldFiles = [o \in OutFiles |-> Absent]
    /\ outcome = None
    /\ candRaw = None
    /\ diag = FALSE
    /\ vres = None

Next ==
    \/ AttemptStep
    \/ RunStep /\ UNCHANGED valVars

Spec == AttemptInit /\ [][Next]_vars

-----------------------------------------------------------------------------
(***************************************************************************)
(* An attempt that passes has compared, for every declared output file,   *)
(* a file the candidate run wrote against a file the gold-standard run     *)
(* wrote, and found them equal: a leftover of the gold run can never be   *)
(* taken for the candidate's output.  About the rename of the gold files  *)
(* and the existence check and diff of the candidate's files.             *)
(***************************************************************************)
SuccessMeansCandidateFiles ==
    vres = Passed =>
        \A o \in Outs :
            /\ files[o] /= Absent /\ files[o].by = "cand"
            /\ goldFiles[o] /= Absent /\ goldFiles[o].by = "gold"
            /\ files[o].data = goldFiles[o].data

(***************************************************************************)
(* The forked gold-standard environment is closed whenever validator_cb   *)
(* has left, by a return or by any exception: repeated attempts of the    *)
(* retry loop cannot leak environments.  About the try/finally around     *)
(* gs_env.                                                                 *)
(***************************************************************************)
GoldEnvReleased ==
    vpc = "done" => gsEnv /= "open"

(***************************************************************************)
(* The spec (section 4.5, step 5): the console check is an equality of    *)
(* the oracle's and the candidate's output, so an attempt that passes with *)
(* compare_output has seen the same console bytes from both runs.          *)
(***************************************************************************)
SameConsoleOutput ==
    (vres = Passed /\ config.compare_output) => candRaw = goldRaw

(***************************************************************************)
(* The spec (section 4.5, step 4, and section 9): a non-empty diagnostic  *)
(* from the caller-supplied validate_result hook is a hard validation     *)
(* failure, so an attempt never passes after the hook reported one.       *)
(***************************************************************************)
CheckerVerdictRespected ==
    vres = Passed => ~diag

(***************************************************************************)
(* The attempt as the differential test sees it: the configuration, the   *)
(* results the two runs returned, and the verdict.                         *)
(***************************************************************************)
DT == INSTANCE DiffTest WITH
        Results <- Returned, cfg <- config, goldRes <- gold, candRes <- outcome,
        verdict <- vres

(***************************************************************************)
(* validator_cb implements DiffTest: the gold run, when needed, comes      *)
(* before the candidate and only a clean gold run lets the candidate run;  *)
(* each run's error is reported as that run's (with the "Gold standard: "  *)
(* prefix for the gold run); only a clean candidate is judged, first on    *)
(* its console output, then on its files; and the verdict is final.       *)
(* About the order of the two _compile_and_run_bitcode_file calls and the  *)
(* early returns after each.                                                *)
(***************************************************************************)
ValidatorImplementsDiffTest == DT!DTSpec

=============================================================================
