--------------------------- MODULE CompileAndRun ---------------------------
(***************************************************************************)
(* _compile_and_run_bitcode_file() of                                      *)
(* src/compiler_gym/envs/llvm/datasets/cbench.py: the Process Runner, the  *)
(* Compile Stage and the Execution Result Classifier.  One call is a       *)
(* sequence of steps (rpc), each a blocking subprocess wait in the code,   *)
(* whose outcome the world chooses: the compiler or the benchmark ends     *)
(* with some exit code and output, or overruns its timeout and is killed.  *)
(*                                                                         *)
(* The processes are modelled as a set: Popen starts a leader process      *)
(* ("clang", or the `sh -c` of shell=True, or the benchmark itself when    *)
(* the shell execs it) and possibly a child that inherits the output pipe  *)
(* ("ld" under clang, "bench" under the shell).  Whether sh forks or execs *)
(* depends on the /bin/sh of the host, so both are allowed.  kill() only   *)
(* signals the leader.                                                     *)
(***************************************************************************)
EXTENDS Integers, FiniteSets

CONSTANTS
    OutFiles,    \* the output files the benchmark may write into cwd
    Data,        \* contents of a file or of the console output
    RawOutputs,  \* raw console outputs: [data, markers, utf8]
    Absent,      \* a file that does not exist
    None         \* Python None

(* The sanitizer argument: None or a member of LlvmSanitizer.              *)
NoSan == "None"
Sanitizers == {"ASAN", "TSAN", "MSAN", "UBSAN"}

(* The substrings the classifier looks for in the output.                  *)
Markers == {"LeakSanitizer", "AddressSanitizer", "MemorySanitizer",
            "Segmentation fault", "Illegal Instruction"}

(* The decoded output that stands for undecodable bytes.                   *)
BinaryText == [data |-> "<binary>", markers |-> {}]
Texts == [data : Data \cup {"<binary>"}, markers : SUBSET Markers]

ASSUME RawOutputsAssumption ==
    RawOutputs \subseteq [data : Data, markers : SUBSET Markers, utf8 : BOOLEAN]

ASSUME ValuesAssumption ==
    /\ Absent \notin [by : {"gold", "cand"}, data : Data]
    /\ None \notin Texts
    /\ "<binary>" \notin Data

ErrorTypes == {"Compilation timeout", "Compilation failed", "Execution timeout",
               "Memory leak", "Memory error", "Segmentation fault",
               "Illegal Instruction", "Runtime error"}

(* A BenchmarkExecutionResult, or an exception escaping the call.  The    *)
(* field report is the "output" entry of the error's data.                *)
Returned == [kind : {"return"}, wall : {"timeout", "timer"},
             error : ErrorTypes \cup {None}, output : Texts \cup {None},
             report : Texts \cup {None}]
Raised == [kind : {"raise"}, exc : {"TimeoutExpired"}]

(* None is not a result: the call has not ended.                           *)
ASSUME NoneAssumption == None \notin Returned \cup Raised

Procs == {"clang", "ld", "shell", "bench"}

(* A file in cwd, tagged with the run (gold standard or candidate) that   *)
(* wrote it.                                                               *)
Content == [by : {"gold", "cand"}, data : Data]

VARIABLES
    rpc,      \* where the current call is
    san,      \* its sanitizer argument
    who,      \* "gold" or "cand": which bitcode the call compiles and runs
    res,      \* what the call returned or raised, None while it runs
    binary,   \* cwd / "a.out" exists
    files,    \* cwd / o for each output file o
    procs,    \* the live processes started by the calls
    stdout    \* the raw console output of the last run that exited

runVars == <<rpc, san, who, res, binary, files, procs, stdout>>

RPcs == {"idle", "compile", "compileWait", "compileDrain",
         "exec", "execWait", "execDrain", "done"}

RunTypeOK ==
    /\ rpc \in RPcs
    /\ san \in Sanitizers \cup {NoSan}
    /\ who \in {"gold", "cand"}
    /\ res \in Returned \cup Raised \cup {None}
    /\ binary \in BOOLEAN
    /\ files \in [OutFiles -> Content \cup {Absent}]
    /\ procs \subseteq Procs
    /\ stdout \in RawOutputs \cup {None}

-----------------------------------------------------------------------------
(* Variant that keeps the raw bytes instead of decoding them.              *)
DecodeMissing(raw) == raw

(* output = stdout.decode("utf-8"), "<binary>" on UnicodeDecodeError.      *)
Decode(raw) ==
    IF raw.utf8 THEN [data |-> raw.data, markers |-> raw.markers] ELSE BinaryText

(* Variant with the signal checks ahead of the sanitizer checks.           *)
ClassifySignalFirst(s, text) ==
    IF "Segmentation fault" \in text.markers THEN "Segmentation fault"
    ELSE IF s = "ASAN" /\ "LeakSanitizer" \in text.markers THEN "Memory leak"
    ELSE IF s = "ASAN" /\ "AddressSanitizer" \in text.markers THEN "Memory error"
    ELSE IF s = "MSAN" /\ "MemorySanitizer" \in text.markers THEN "Memory error"
    ELSE IF "Illegal Instruction" \in text.markers THEN "Illegal Instruction"
    ELSE "Runtime error"

(***************************************************************************)
(* The runtime error classifier: the first matching branch of the elif    *)
(* chain wins, whatever later branches would also match.                   *)
(***************************************************************************)
Classify(s, text) ==
    IF s = "ASAN" /\ "LeakSanitizer" \in text.markers THEN "Memory leak"
    ELSE IF s = "ASAN" /\ "AddressSanitizer" \in text.markers THEN "Memory error"
    ELSE IF s = "MSAN" /\ "MemorySanitizer" \in text.markers THEN "Memory error"
    ELSE IF "Segmentation fault" \in text.markers THEN "Segmentation fault"
    ELSE IF "Illegal Instruction" \in text.markers THEN "Illegal Instruction"
    ELSE "Runtime error"

(* A process writes some of the output files (or none) while it runs.     *)
Written(w) ==
    {[o \in OutFiles |-> IF o \in W THEN [by |-> w, data |-> d[o]] ELSE files[o]] :
        W \in SUBSET OutFiles, d \in [OutFiles -> Data]}

(* The `finally: if sanitizer: binary.unlink()` of the execution step.    *)
Unlinked == IF san /= NoSan THEN FALSE ELSE binary

(* Popen() starts a leader, and possibly a child that shares its pipe.    *)
Launch(leader, child) ==
    procs' \in {procs \cup {leader}, procs \cup {leader, child}}

Result(wall, err, out, rep) ==
    [kind |-> "return", wall |-> wall, error |-> err, output |-> out, report |-> rep]
Raise(exc) == [kind |-> "raise", exc |-> exc]

-----------------------------------------------------------------------------
(* The call itself: writes _finfo_dataset and builds the run environment;  *)
(* sanitized runs go to the compiler, the others run under lli.           *)
Call(s, w) ==
    /\ rpc = "idle"
    /\ rpc' = IF s = NoSan THEN "exec" ELSE "compile"
    /\ san' = s
    /\ who' = w
    /\ res' = None
    /\ stdout' = None
    /\ UNCHANGED <<binary, files, procs>>

(***************************************************************************)
(* assert not binary.is_file(); Popen(compile_cmd).  The assertion is a   *)
(* precondition: every call runs in a fresh directory or after an         *)
(* unsanitized gold run, so no a.out can be there (the AssertionError     *)
(* branch is unreachable and is not modelled).                            *)
(***************************************************************************)
CompileStart ==
    /\ rpc = "compile"
    /\ ~binary
    /\ rpc' = "compileWait"
    /\ Launch("clang", "ld")
    /\ UNCHANGED <<san, who, res, binary, files, stdout>>

(* clang.communicate() returns with exit code 0: a.out exists.            *)
CompileOk ==
    /\ rpc = "compileWait"
    /\ rpc' = "exec"
    /\ binary' = TRUE
    /\ procs' = procs \ {"clang", "ld"}
    /\ UNCHANGED <<san, who, res, files, stdout>>

(* clang exits non-zero: "Compilation failed".                             *)
CompileFailed ==
    /\ rpc = "compileWait"
    /\ rpc' = "done"
    /\ res' = Result("timeout", "Compilation failed", None, None)
    /\ procs' = procs \ {"clang", "ld"}
    /\ UNCHANGED <<san, who, binary, files, stdout>>

(* TimeoutExpired: clang.kill().  A linker that was running may already    *)
(* have created a.out.                                                     *)
CompileTimeout ==
    /\ rpc = "compileWait"
    /\ rpc' = "compileDrain"
    /\ procs' = procs \ {"clang"}
    /\ binary' \in IF "ld" \in procs THEN BOOLEAN ELSE {binary}
    /\ UNCHANGED <<san, who, res, files, stdout>>

(* clang.communicate(timeout=30) drains the pipe: "Compilation timeout".   *)
(* An orphaned linker holding the pipe must exit within the grace time.   *)
CompileDrained ==
    /\ rpc = "compileDrain"
    /\ rpc' = "done"
    /\ res' = Result("timeout", "Compilation timeout", None, None)
    /\ procs' = procs \ {"ld"}
    /\ binary' \in IF "ld" \in procs THEN BOOLEAN ELSE {binary}
    /\ UNCHANGED <<san, who, files, stdout>>

(* The grace wait itself times out: TimeoutExpired escapes the call.       *)
CompileDrainTimeout ==
    /\ rpc = "compileDrain"
    /\ "ld" \in procs
    /\ rpc' = "done"
    /\ res' = Raise("TimeoutExpired")
    /\ UNCHANGED <<san, who, binary, files, procs, stdout>>

(* Popen(run_cmd, shell=True): sh either execs the benchmark or forks it.  *)
ExecStart ==
    /\ rpc = "exec"
    /\ rpc' = "execWait"
    /\ procs' \in {procs \cup {"bench"}, procs \cup {"shell", "bench"}}
    /\ UNCHANGED <<san, who, res, binary, files, stdout>>

(***************************************************************************)
(* process.communicate() returns with exit code rc and raw output raw;     *)
(* the finally clause unlinks a.out; the output is decoded and, on a       *)
(* non-zero exit code, classified.                                         *)
(***************************************************************************)
ExecExit(rc, raw) ==
    LET text == Decode(raw) IN
    /\ rpc = "execWait"
    /\ rpc' = "done"
    /\ files' \in Written(who)
    /\ procs' = procs \ {"shell", "bench"}
    /\ binary' = Unlinked
    /\ res' = IF rc /= 0 THEN Result("timer", Classify(san, text), None, text)
                         ELSE Result("timer", None, text, None)
    /\ stdout' = raw
    /\ UNCHANGED <<san, who>>

(* Variant that returns right after kill() without the grace wait.         *)
ExecTimeoutNoDrain ==
    /\ rpc = "execWait"
    /\ rpc' = "done"
    /\ procs' = IF "shell" \in procs THEN procs \ {"shell"} ELSE procs \ {"bench"}
    /\ files' \in Written(who)
    /\ res' = Result("timeout", "Execution timeout", None, None)
    /\ binary' = Unlinked
    /\ UNCHANGED <<san, who, stdout>>

(* TimeoutExpired: process.kill() signals the Popen child only.           *)
ExecTimeout ==
    /\ rpc = "execWait"
    /\ rpc' = "execDrain"
    /\ procs' = IF "shell" \in procs THEN procs \ {"shell"} ELSE procs \ {"bench"}
    /\ files' \in Written(who)
    /\ UNCHANGED <<san, who, res, binary, stdout>>

(* Variant that unlinks a.out only on the normal path, not on a timeout.  *)
ExecDrainedKeepsBinary ==
    /\ rpc = "execDrain"
    /\ rpc' = "done"
    /\ res' = Result("timeout", "Execution timeout", None, None)
    /\ procs' = procs \ {"bench"}
    /\ files' \in IF "bench" \in procs THEN Written(who) ELSE {files}
    /\ UNCHANGED <<san, who, binary, stdout>>

(* process.communicate(timeout=30) drains: "Execution timeout".            *)
ExecDrained ==
    /\ rpc = "execDrain"
    /\ rpc' = "done"
    /\ res' = Result("timeout", "Execution timeout", None, None)
    /\ procs' = procs \ {"bench"}
    /\ files' \in IF "bench" \in procs THEN Written(who) ELSE {files}
    /\ binary' = Unlinked
    /\ UNCHANGED <<san, who, stdout>>

(* The grace wait times out; the finally clause still unlinks a.out.       *)
ExecDrainTimeout ==
    /\ rpc = "execDrain"
    /\ "bench" \in procs
    /\ rpc' = "done"
    /\ res' = Raise("TimeoutExpired")
    /\ binary' = Unlinked
    /\ UNCHANGED <<san, who, files, procs, stdout>>

(***************************************************************************)
(* An orphan (a child whose leader was killed) nobody waits for any more   *)
(* runs to its end and exits, writing what it writes.                      *)
(***************************************************************************)
OrphanExit ==
    /\ rpc \notin {"compileWait", "compileDrain", "execWait", "execDrain"}
    /\ \/ /\ "ld" \in procs
          /\ procs' = procs \ {"ld"}
          /\ binary' \in BOOLEAN
          /\ UNCHANGED files
       \/ /\ "bench" \in procs
          /\ procs' = procs \ {"bench"}
          /\ files' \in Written(who)
          /\ UNCHANGED binary
    /\ UNCHANGED <<rpc, san, who, res, stdout>>

(* The steps of one call, after Call.                                     *)
RunStep ==
    \/ CompileStart \/ CompileOk \/ CompileFailed \/ CompileTimeout
    \/ CompileDrained \/ CompileDrainTimeout
    \/ ExecStart \/ \E rc \in 0..1, raw \in RawOutputs : ExecExit(rc, raw)
    \/ ExecTimeout \/ ExecDrained \/ ExecDrainTimeout
    \/ OrphanExit

-----------------------------------------------------------------------------
(* A caller that makes one call in a fresh working directory, with any     *)
(* sanitizer, for the gold standard or the candidate.                      *)
RunInit ==
    /\ rpc = "idle"
    /\ san = NoSan
    /\ who = "gold"
    /\ res = None
    /\ binary = FALSE
    /\ files = [o \in OutFiles |-> Absent]
    /\ procs = {}
    /\ stdout = None

RunNext ==
    \/ \E s \in Sanitizers \cup {NoSan}, w \in {"gold", "cand"} : Call(s, w)
    \/ RunStep

RunSpec == RunInit /\ [][RunNext]_runVars

(***************************************************************************)
(* The classification table of the spec (section 4.3), as data: the rules *)
(* in order of precedence, "any" matching every sanitizer.                *)
(***************************************************************************)
Rules == <<[san |-> "ASAN", marker |-> "LeakSanitizer", type |-> "Memory leak"],
           [san |-> "ASAN", marker |-> "AddressSanitizer", type |-> "Memory error"],
           [san |-> "MSAN", marker |-> "MemorySanitizer", type |-> "Memory error"],
           [san |-> "any", marker |-> "Segmentation fault", type |-> "Segmentation fault"],
           [san |-> "any", marker |-> "Illegal Instruction", type |-> "Illegal Instruction"]>>

RuleClass(s, text) ==
    LET M == {i \in 1..5 : Rules[i].san \in {s, "any"} /\ Rules[i].marker \in text.markers}
    IN  IF M = {} THEN "Runtime error"
        ELSE Rules[CHOOSE i \in M : \A k \in M : i <= k].type

(***************************************************************************)
(* A benchmark that exits non-zero is reported with the class of the       *)
(* highest-precedence rule its reported output matches under the          *)
(* sanitizer in effect: a sanitizer's own report (a leak ahead of a plain  *)
(* ASan error) is never masked by the generic segfault or runtime error    *)
(* class.  About the elif chain over process.returncode.                   *)
(***************************************************************************)
ClassMatchesRules ==
    (res \in Returned /\ res.wall = "timer" /\ res.error /= None) =>
        res.error = RuleClass(san, res.report)

(***************************************************************************)
(* Whenever the call returns a result (rather than raising), every process *)
(* it started has exited: the kill and the grace wait of the timeout       *)
(* paths reap the whole process tree that holds the output pipe.          *)
(***************************************************************************)
ReturnMeansReaped ==
    (rpc = "done" /\ res \in Returned) => procs = {}

(***************************************************************************)
(* The spec (sections 4.1, 7 and 8): a benchmark that overruns its         *)
(* timeout yields "Execution timeout" as a returned value, never an        *)
(* uncaught fault.  About the except branch of the execution step: the     *)
(* kill() of the shell=True leader and the grace                           *)
(* process.communicate(timeout=30) after it.                               *)
(***************************************************************************)
ExecTimeoutIsValue ==
    [][rpc = "execDrain" /\ rpc' = "done" => res' \in Returned]_runVars

(***************************************************************************)
(* The spec (section 4.1): a timed-out call reports the configured timeout *)
(* as its elapsed time so that callers can detect the timeout case by      *)
(* value equality.  The detection is sound only if no other result reports *)
(* the timeout value: a reported walltime equal to timeout_seconds means a *)
(* compilation or execution timeout.                                       *)
(***************************************************************************)
TimeoutByValue ==
    (res \in Returned /\ res.wall = "timeout") =>
        res.error \in {"Compilation timeout", "Execution timeout"}

(***************************************************************************)
(* The call as its caller sees it: idle before Call, done once a result   *)
(* is returned or raised, running in between.                              *)
(***************************************************************************)
CallPhase ==
    IF rpc = "idle" THEN "idle" ELSE IF rpc = "done" THEN "done" ELSE "running"

RC == INSTANCE RunnerCall WITH
        Sans <- Sanitizers \cup {NoSan}, Class <- RuleClass,
        phase <- CallPhase, csan <- san, cwho <- who, result <- res,
        aout <- binary, disk <- files

(***************************************************************************)
(* The call implements RunnerCall: every result has a shape the spec      *)
(* gives, classified by the spec's table, with compilation results only   *)
(* for sanitized calls; output files are written only as the call's own   *)
(* run; a.out is never touched by an lli run and is gone after a          *)
(* sanitized execution returns (the `finally: binary.unlink()`); and once *)
(* a result is returned nothing in cwd changes again, whatever the        *)
(* processes the kill left behind do.                                     *)
(***************************************************************************)
RunnerImplementsCall == RC!RCSpec

=============================================================================
