---------------------------- MODULE RunnerCall -----------------------------
(***************************************************************************)
(* What one call of _compile_and_run_bitcode_file() promises its caller,  *)
(* validator_cb (src/compiler_gym/envs/llvm/datasets/cbench.py, lines     *)
(* 96-232), seen from outside: the call runs, then ends once with a        *)
(* BenchmarkExecutionResult or with TimeoutExpired escaping.               *)
(*   - A result is one of the shapes the spec (section 4) gives: a failed *)
(*     compilation or a timeout, reported with the timeout as walltime;   *)
(*     a clean exit with its decoded output; a non-zero exit classified   *)
(*     by the spec's rule table Class.  Compilation results only come    *)
(*     from sanitized calls.                                               *)
(*   - While it runs, the call writes output files in cwd as the run it  *)
(*     is (gold standard or candidate), and a.out only when sanitized; a  *)
(*     sanitized execution that returns has removed a.out.                 *)
(*   - After a returned result nothing in cwd changes any more; only after *)
(*     an escaping TimeoutExpired can a left-over process still write.     *)
(* Module CompileAndRun, with its processes, kills and grace waits,       *)
(* implements this specification.                                          *)
(***************************************************************************)
CONSTANTS
    OutFiles,     \* the output files the benchmark may write into cwd
    Data,         \* contents of a file
    Texts,        \* decoded console outputs
    Sans,         \* the sanitizer arguments, NoSan included
    NoSan,        \* no sanitizer: the bitcode runs under lli
    Absent,       \* a file that does not exist
    None,         \* Python None
    Class(_, _)   \* the error type of a non-zero exit, by sanitizer and output

VARIABLES
    phase,    \* "idle", "running" or "done"
    csan,     \* the sanitizer of the call
    cwho,     \* "gold" or "cand": the run the call makes
    result,   \* the result or the escaping exception, None until the end
    aout,     \* cwd / "a.out" exists
    disk      \* cwd / o for each output file o

rcVars == <<phase, csan, cwho, result, aout, disk>>

Ret(wall, err, out, rep) ==
    [kind |-> "return", wall |-> wall, error |-> err, output |-> out, report |-> rep]
Escape == [kind |-> "raise", exc |-> "TimeoutExpired"]

CompileErrors == {"Compilation failed", "Compilation timeout"}

(* The results a call with sanitizer s may end with.                       *)
Outcomes(s) ==
    LET failures == IF s = NoSan THEN {"Execution timeout"}
                    ELSE CompileErrors \cup {"Execution timeout"}
    IN  {Ret("timeout", e, None, None) : e \in failures}
          \cup {Ret("timer", None, t, None) : t \in Texts}
          \cup {Ret("timer", Class(s, t), None, t) : t \in Texts}
          \cup {Escape}

(* The run w writes some of the output files, or none: every file keeps   *)
(* its content or holds one written by w.                                  *)
WriteBy(w) ==
    {f \in [OutFiles -> [by : {"gold", "cand"}, data : Data] \cup {Absent}] :
        \A o \in OutFiles : f[o] = disk[o] \/ f[o] \in [by : {w}, data : Data]}

(* What a.out may become: untouched by an unsanitized call.               *)
AoutAfter == IF csan = NoSan THEN {aout} ELSE BOOLEAN

RCInit ==
    /\ phase = "idle"
    /\ csan \in Sans
    /\ cwho \in {"gold", "cand"}
    /\ result = None
    /\ aout = FALSE
    /\ disk = [o \in OutFiles |-> Absent]

Begin(s, w) ==
    /\ phase = "idle"
    /\ phase' = "running"
    /\ csan' = s
    /\ cwho' = w
    /\ result' = None
    /\ UNCHANGED <<aout, disk>>

(* The call's processes run and write.                                     *)
Work ==
    /\ phase = "running"
    /\ disk' \in WriteBy(cwho)
    /\ aout' \in AoutAfter
    /\ UNCHANGED <<phase, csan, cwho, result>>

(* The call ends with r; an execution that returns has removed a.out.     *)
Finish(r) ==
    /\ phase = "running"
    /\ r \in Outcomes(csan)
    /\ phase' = "done"
    /\ result' = r
    /\ disk' \in WriteBy(cwho)
    /\ aout' \in IF csan /= NoSan /\ r.kind = "return" /\ r.error \notin CompileErrors
                 THEN {FALSE} ELSE AoutAfter
    /\ UNCHANGED <<csan, cwho>>

(* After TimeoutExpired escaped, a process the call left behind writes.   *)
Linger ==
    /\ phase = "done"
    /\ result.kind = "raise"
    /\ disk' \in WriteBy(cwho)
    /\ aout' \in AoutAfter
    /\ UNCHANGED <<phase, csan, cwho, result>>

RCNext ==
    \/ \E s \in Sans, w \in {"gold", "cand"} : Begin(s, w)
    \/ Work
    \/ \E r \in Outcomes(csan) : Finish(r)
    \/ Linger

RCSpec == RCInit /\ [][RCNext]_rcVars

=============================================================================
