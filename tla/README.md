# TLA+ models of the cBench validation engine

This directory holds the formal models of
`src/compiler_gym/envs/llvm/datasets/cbench.py`. That file holds the
validation-and-comparison engine behind cBench benchmark validation. TLC
model-checks the models on small instances, and TLAPS proves the main safety
properties for every value of the constants.

## 1. The system

`cbench.py` has these parts with behaviour (line numbers are in `cbench.py`):

| Part | Code | What it does |
|---|---|---|
| Process Runner / Compile Stage | `_compile_and_run_bitcode_file`, 92-238 | Under a sanitizer, it compiles `benchmark.bc` with clang (timeout, `kill`, then a 30 s grace `communicate`). It then runs the command with `shell=True` under a timeout, with the same kill and grace drain. A `finally` clause unlinks `a.out`. The output is decoded as UTF-8, or becomes `"<binary>"`. |
| Result Classifier | lines 214-227 | An `elif` chain over the sanitizer and output markers picks the error type. |
| Differential Validator + Gold-Standard Comparator | `validator_cb`, 288-408 | It runs the download gate and checks the input files. It then creates a `TemporaryDirectory` and runs the pre-execution hook. When there is anything to compare, it forks the environment, runs the gold standard (`-O2`, no sanitizer) and closes the fork in `finally`. It renames the gold output files to `*.gold_standard`. Then it runs the candidate, calls `validate_result`, diffs the console output and diffs each output file. |
| Flakiness Controller | `flaky_wrapped_cb`, 410-424 | Runs up to `max(flakiness,1)` attempts. `TimeoutError` is swallowed; any other exception escapes. |
| Download gate | `download_cBench_runtime_data`, 241-260, called at 290-292 and from `CBenchDataset.install`, 557-561 | A per-process `threading.Lock` and a `fasteners.InterProcessLock` guard a marker check, an `rmtree` of a partial tree, the download, `extractall` and `touch` of the marker. |
| Registry | `validator()`, 427-516 | Registers one unsanitized validator and one per sanitizer for each benchmark. It also builds the `BenchmarkDynamicConfig` data. |
| Hooks, datasets, tables | 519-913 | `validate_sha_output`, `setup_ghostscript_library_files`, the dataset classes, and the registrations. |

How the parts interact:
- The Flakiness Controller calls the Validator.
- The Validator goes through the download gate once per attempt. It then calls the Process Runner twice in one scratch directory: once for the gold standard and once for the candidate.
- The two runs share `cwd`. That means `a.out`, the output files and any orphaned process of the first run are still there for the second run.

Concurrency. Within one validation, Python's control is sequential. The real
concurrency is elsewhere:
- between the Python code and the child processes it starts (clang and the linker it forks; `sh` and the benchmark it may fork);
- between threads and processes that validate at the same time and share the runtime data directory through the download gate.

What makes the code hard to test:
- a timeout racing the process's exit;
- a kill that reaches only the shell;
- a grace wait that itself times out;
- a crash in the middle of an extraction;
- two threads of one process and the per-process POSIX lock;
- the exact exit paths of a `try/finally`;
- a retry loop whose local variable may be unbound.

PROJECT.json lists these hazards, each at its line.

## 2. Modules

| Module | Models | State | Actions |
|---|---|---|---|
| `Flakiness` | `flaky_wrapped_cb` | `fpc`, `j`, the local `error`, `result`, and the history `outcomes` | `Attempt(o)` (one loop iteration with outcome `o`), `Exhausted` (`return error`) |
| `CompileAndRun` | `_compile_and_run_bitcode_file` | `rpc`, `san`, `who`, `res`, `binary` (a.out exists), `files` (output files tagged with the writing run), `procs` (live processes: clang, ld, shell, bench), `stdout` | `Call`, `CompileStart/Ok/Failed/Timeout/Drained/DrainTimeout`, `ExecStart` (sh execs or forks), `ExecExit(rc, raw)`, `ExecTimeout`, `ExecDrained`, `ExecDrainTimeout`, `OrphanExit` |
| `Validator` | `validator_cb`; EXTENDS `CompileAndRun` | `config` (one registered configuration), `vpc`, `inputs`, `tmpdir`, `gsEnv`, `gold`, `goldRaw`, `goldFiles`, `outcome`, `candRaw`, `diag`, `vres`, plus the runner's state | `Download`, `CheckInputs`, `MakeTmp`, `Setup`, `Fork`, `GoldPrepare`, `GoldDone`, `GoldFiles`, `CandWrite`, `CandDone`, `Check`, `Console`, `Diff`, interleaved with the runner's steps |
| `FlakyValidator` | `flaky_wrapped_cb` around real `validator_cb` attempts; EXTENDS `Validator` | the loop's `fpc`, `j`, `error`, `result`, the history `outcomes`, plus every variable of `Validator` | `AttemptRuns` (a step of the running attempt or of its runner), `Consume` (the loop body after `validator_cb` returned or raised: `return`, retry with `NextAttempt`, or raise), `LoopExhausted` (`return error`, or `UnboundLocalError`) |
| `Registry` | `validator()`, the module-level registration calls (694-913), `CBenchBenchmark.__init__` | `platform`, `k` (the next registration call of the import), `VALIDATORS`, `DYNAMIC_CONFIGS`, `benchmarks` (the constructed objects) | `Register` (one `validator(...)` call), `Construct(b)` |
| `DownloadGate` | the two locks and `download_cBench_runtime_data` | `pc[p][t]` for every thread of every process, `tlock[p]`, `flock`, `data` (absent, partial or complete), `marker` | one action per statement, from `Begin` to `Use`, and `Crash(p)` |
| `RunnerCall` | what one call of `_compile_and_run_bitcode_file` promises `validator_cb` (abstract; maps no code) | `phase`, `csan`, `cwho`, `result`, `aout`, `disk` | `Begin`, `Work` (the call's processes write), `Finish(r)` (with an outcome of the spec's shapes), `Linger` (a left-over process writes after `TimeoutExpired`) |
| `DiffTest` | what one `validator_cb` attempt decides from its runs' results: the differential test of spec §4.5 (abstract; maps no code) | `cfg`, `goldRes`, `candRes`, `verdict` | `GoldRan`, `CandRan`, `Judge(v)`, `Abort(e)` |
| `RuntimeData` | what the locked download promises its users (abstract; maps no code) | `ready`, `readers` | `Materialise` (the data becomes ready, once), `StartRead`, `EndRead`, `ProcCrash` |

Abstractions:
- File contents and console outputs are model values.
- A raw output is a record of its data, the classifier markers it contains, and whether it is valid UTF-8.
- Decoding is modelled by what it does: an invalid output becomes `"<binary>"` with no markers.
- Calls into the environment service (`fork`, `reset`, `write_bitcode`) are nondeterministic: they succeed or raise `TimeoutError`.
- The download fails or succeeds.
- `validate_result` returns a diagnostic or none.
- `FlakyValidator` names an attempt's outcome as the loop sees it (`Outcome`): None, the ValidationError's type (with the `"Gold standard: "` prefix), or the exception's name. A new attempt resets every variable of `Validator` except the configuration, the disk's input files and the live processes: an orphan of an earlier attempt lives on.
- `Registry` lists every registration call of the module in program order (`Calls`): the two bitcount calls, then, for each of the 20 inputs, blowfish to qsort, sha, stringsearch, stringsearch2 (input 1 only), susan and the four tiff tools. A call is reduced to what varies between calls (benchmark, command index, output files, link options, platforms, sanitizers, flags). Input-file lists and `ASAN_OPTIONS` are left out.
- Each mutant variant (an operator named like `ExhaustedOffByOne`) sits just before the definition it replaces. It is used only by the mutation runs.

## 3. Runs

| Run (cfg) | Instance | Expect | What it shows |
|---|---|---|---|
| `MCFlakiness.cfg` | flakiness = 4, errors {e1,e2}, escaping {x1} | pass (282 states) | `TypeOK`. `SuccessIsReal`: None only right after a successful attempt. `ErrorOnlyAfterBudget`: an error only after the full budget, and it is the last returned one. |
| `MCFlakinessUnbound.cfg` | same | violation of `NeverUnbound` | Four `TimeoutError`s in a row end in `UnboundLocalError`. |
| `MCCompileAndRun.cfg` | one output file, 2 data values, 5 raw outputs (one undecodable with a sanitizer marker), any sanitizer | pass (577) | `RunTypeOK`. `ClassMatchesRules`: the elif chain equals the spec's rule table, taken as precedence-ordered data. `ReturnMeansReaped`: a returned result means no process is left. `RunnerImplementsCall`: the call implements `RunnerCall` under `phase <- CallPhase` (idle, running, done), `result <- res`, `aout <- binary`, `disk <- files`, `Class <- RuleClass`. |
| `MCCompileAndRunExecTimeout.cfg` | same | violation of `ExecTimeoutIsValue` (an action property) | A benchmark overruns its timeout under a shell that forks it. `kill()` ends only the shell, the benchmark keeps the pipe, and the grace wait raises `TimeoutExpired`. The call ends with that exception, not with "Execution timeout" as spec §4.1, §7 and §8 promise. |
| `MCCompileAndRunTimeoutValue.cfg` | same | violation of `TimeoutByValue` | "Compilation failed" reports the timeout value as its walltime. |
| `MCValidator.cfg` | 5 configurations shaped like blowfish (compare output plus one output file), sha (validate_result, no compare) and ghostscript (hook); unsanitized and ASan | pass (4586) | `TypeOK`. `SuccessMeansCandidateFiles`: a pass compared candidate-written files with gold-written `.gold_standard` files. `GoldEnvReleased`: the forked environment is closed on every exit path. `ValidatorImplementsDiffTest`: the attempt implements `DiffTest` under `goldRes <- gold`, `candRes <- outcome`, `verdict <- vres`. |
| `MCValidatorSameConsoleOutput.cfg` | same | violation of `SameConsoleOutput` | Two different undecodable outputs both pass the console diff. |
| `MCValidatorCheckerVerdictRespected.cfg` | same | violation of `CheckerVerdictRespected` | The sha validator's diagnostic is ignored. |
| `MCFlakyValidator.cfg` | budget 2, the Validator instance above | pass (48304) | `FTypeOK`. `AttemptStartsClean`: every retried attempt starts with no process of an earlier attempt alive. `WrapperReturnMeansReaped`: when the wrapper returns, no process of any attempt is alive. `FlakinessRefined`: the composition implements `Flakiness!Spec` under the mapping `error <- ErrVal(error)`, `result <- Res(result)`, `Errors <- ErrNames`, `Escaping <- Exceptions \ {"TimeoutError"}`, liveness included. |
| `MCRegistry.cfg` | benchmarks bitcount, jpeg-c, stringsearch2, sha, adpcm (never registered); platforms linux, darwin, win32 | pass (1065) | `CallbacksAsDeclared`: a constructed benchmark carries exactly the validators its calls declare (reference definition `Declared`, built independently with `SelectSeq` and `FlattenSeq`), sanitizer variants on Linux only, in order. |
| `MCDownloadGate.cfg` | 2 processes × 2 threads, any initial disk state, crashes anywhere; symmetry on both sets | pass (379) | `DataReadyWhenUsed` and `MarkerMeansComplete`. `GateRefinesRuntimeData`: the gate implements `RuntimeData` under `ready <- marker`, `readers <-` the threads at `Use`, so the marker appears in one step, is never removed again, and a thread reads only after it appears. |

Why the bounds are enough:
- **Flakiness.** A budget of 4 allows an error followed by timeouts, timeouts followed by an error, and all timeouts.
- **Download gate.** Two threads in each of two processes are the least that exercise both locks: the thread lock against a sibling thread, and the file lock against another process. TLAPS then covers every number of processes and threads.
- **FlakyValidator.** A budget of 2 is the least with a retry; it allows a retry after a returned error, after a `TimeoutError`, and a loop that runs out.
- **Registry.** The instance covers every kind of call: the default sanitizers (bitcount, sha), a subset (jpeg-c, stringsearch2), a benchmark registered once (stringsearch2) and one never registered (adpcm). The three platforms cover Linux, macOS through the `darwin` mapping, and a platform that no call admits. All 2 + 20 x 15 + 1 calls are run on each platform.
- **Validator.** One output file and two data values are enough to tell "same" from "different" and "written by the candidate" from "left by the gold run".

Mutants. Each property of a passing run has a mutant that TLC must find violating it. The mutants are listed in PROJECT.json. Examples:
- the `with _CBENCH_DOWNLOAD_THREAD_LOCK` block is dropped;
- the marker check becomes a directory check;
- the classifier checks signals first;
- the grace drain after `kill()` is missing;
- the gold fork is not closed on a timeout;
- the gold files are copied instead of renamed.

Fairness:
- `Flakiness` assumes WF on `Next`. The loop is sequential Python, and each attempt is one step that ends, because every call inside it is bounded by a timeout. With one-step attempts the loop then ends by construction, so no run checks termination of this module alone; the WF is the liveness that `FlakyValidator`, whose attempts take many steps, must implement (`FlakinessRefined`).
- `FlakyValidator` assumes WF on `FNext`, for the same reason: every step of an attempt is plain Python or a wait bounded by a timeout, so the wrapper keeps running while it can. It needs this fairness to implement the abstract loop's liveness.
- The runner, the validator and the gate assume none. A killed process's grace wait may time out, and the OS scheduler and `threading.Lock` promise no fairness.
- The runs that stop after the call returns (`CompileAndRun`, `Validator`, `Flakiness`) disable the deadlock check, because the modelled call has ended.
- The gate run keeps the deadlock check on, since there is always a possible step.

## 4. Proofs

TLAPS checks every proof (`tlapm FlakinessProofs.tla`, `tlapm DownloadGateProofs.tla`, `tlapm CompileAndRunProofs.tla`, `tlapm ValidatorProofs.tla`, `tlapm ValidatorDiffTestProofs.tla`, `tlapm FlakyValidatorProofs.tla`).

**`FlakinessProofs`** proves `TypeCorrect`, `SuccessIsRealThm` and `ErrorOnlyAfterBudgetThm` for every integer `flakiness` and every set of errors and exceptions.

- **Assumptions:** `FlakinessAssumption` (flakiness is an integer) and `ValuesAssumption` (the values are distinct).
- **Why the invariant needs strengthening:** the properties speak only of the states after the loop, so they are not inductive on their own.
- **The inductive invariant `IInv`:**
  - inside the loop, `Len(outcomes) = j - 1`;
  - every recorded outcome is an error or a swallowed timeout;
  - `error` is unbound exactly when every outcome so far was a timeout, and otherwise it is the last returned error.
- **Proof layout:** one lemma per action (`AttemptIInv`, split by outcome; `ExhaustedIInv`), then `NextIInv`, then the temporal theorems `BY PTL`.

**`DownloadGateProofs`** proves `DataReadyWhenUsedThm`, `MarkerMeansCompleteThm` and `GateTypeCorrect` for any sets of processes and threads, with crashes.

- **Why the invariant needs strengthening:** `DataReadyWhenUsed` alone is not inductive. It needs mutual exclusion and the relation between the marker and where each thread is.
- **The inductive invariant `GateIInv`:**
  - a thread past the thread lock owns it;
  - a thread in the critical section has its process own the file lock;
  - the marker is absent while a thread unpacks;
  - the data is complete when a thread is about to touch the marker;
  - the marker is present while a thread releases or reads;
  - the marker implies complete data;
  - a thread about to touch the marker sees no marker yet (this conjunct is needed only by the refinement: touching is then the one `Materialise` step).
- **Refinement `GateRefinesRuntimeDataThm`:** `GateInitRefines` maps the initial state; `ThreadStepRefines` shows that `Touch` is `Materialise`, that entering `Use` is `StartRead`, that leaving it is `EndRead`, and that every other thread step is a stutter (`QuietStep`); `CrashRefines` maps `Crash(p)` to `ProcCrash(p)`. The step lemmas need `GateIInv` (mutual exclusion and the marker conjuncts), and the theorem combines them with `GateInvariant` by PTL.
- **Lemma `Exclusion`:** derives that a thread in the critical section is alone there. The two actions whose failure path releases both locks (`Download`, `ExtractEnd`) rely on it.

**`CompileAndRunProofs`** proves `RunTypeCorrect`, `ReturnMeansReapedThm` and `ClassMatchesRulesThm` for every set of output files, contents and raw outputs.

- **Assumptions:** `RawOutputsAssumption` (a raw output is a record of data, markers and a UTF-8 flag), `ValuesAssumption` and `NoneAssumption` (None, Absent and `"<binary>"` are not values of another kind).
- **`ClassifyIsRuleClass`:** the elif chain `Classify` equals `RuleClass`, which takes the first matching rule of the spec's table given as data. The proof has one case per branch of the chain. `LeastIndex` shows that the `CHOOSE` of the least matching index picks the given minimum.
- **Why the invariant needs strengthening:** `ReturnMeansReaped` speaks only of the end of a call. The step that returns must know which processes can still be alive at each wait.
- **The inductive invariant `RunIInv`:** `RunTypeOK`, `Reaping` and `Classified`.
  - `Reaping`: no process before a `Popen`; only clang and its linker while clang runs; only the linker after clang was killed; only the shell and the benchmark while the benchmark runs; only the benchmark after the shell was killed; a returned result only with nothing alive.
  - `Classified`: a classified result is the class of its own reported output under the call's sanitizer.
- **Proof layout:** `RunStepReaping` (types and process bounds, one step per action), `RunStepFrame` (what no step changes), `RunStepClassified`, then `RunStepIInv`, `RunIInvariant` and the theorems.
- **Refinement `RunnerImplementsCallThm`:** `RunSpec => RC!RCSpec`.
  - **Strengthening `SanPath`:** only a sanitized call is in the compile stage, and an lli call never has clang or its linker alive. `RunIInv` does not say this. It is needed to show that an unsanitized call leaves `a.out` alone and that a compilation result is allowed for the call's sanitizer. TLC checked `SanPath` on the run before the proof (lemmas `SanPathStep`, `CallIInvariant`).
  - **Step lemmas:**
    - `WrittenWriteBy`: the runner's `Written` is within the abstract `WriteBy`.
    - `WorkStep` and `FinishStep`: the shapes of a middle step and of a last step.
    - `CallStepRefines`, one case per action:
      - `Call` is `Begin`;
      - the Popens, clang's successful exit and the kills are `Work`;
      - each return or raise is `Finish`, with `ClassifyIsRuleClass` for a non-zero exit;
      - an orphan's exit is `Work` while the call runs, and `Linger` after it. `Reaping` shows the call must then have raised.

**`ValidatorProofs`** proves `ValidatorTypeCorrect`, `GoldEnvReleasedThm` and `SuccessMeansCandidateFilesThm` for every set of registered configurations. It reuses the runner's lemmas.

- **Assumptions:** the runner's, plus `ConfigsAssumption` and `NoneNotError` (None is not a ValidationError or a result of `validator_cb`).
- **Why the invariant needs strengthening:** `SuccessMeansCandidateFiles` is about the files at the end. It depends on who wrote each file at each earlier stage and on nothing running after a pass.
- **The inductive invariant `VIInv`:**
  - `RunPhase`: the runner is busy exactly during the two waits; the gold call runs as `"gold"` and the candidate as `"cand"`; the runner's process bounds hold; no process is alive outside the waits except after a `TimeoutExpired`.
  - `GoldEnv`: `gs_env` is open only between the fork and the end of the gold call.
  - `FilesTagged`: nobody writes before the gold call; the gold run writes during it; after the rename, the `.gold_standard` files are the gold run's and the output files are absent or the candidate's.
  - `Success`: a pass is final, with the runner idle and no process alive.
- **Proof layout:** one lemma per action of `validator_cb` (`DownloadIInv` ... `DiffIInv`). `RunStepVIInv` covers the runner's steps during an attempt and uses `RunStepReaping` and `RunStepFrame`. Then `VStepIInv`, `VIInvariant` and the theorems.
- **`Ended`** (lemma `EndedStep`): once an attempt is done, it has a result, and no process is alive unless the result is `TimeoutExpired`. `FlakyValidatorProofs` needs this to start a retry.

**`ValidatorDiffTestProofs`** proves `ValidatorImplementsDiffTestThm`: `Spec => DT!DTSpec`, for every set of registered configurations.

- **Strengthening `RunsOrdered`:** `VIInv` is about processes and files, not results. `RunsOrdered` adds:
  - no verdict before the end;
  - no gold result before the gold call returns, and no candidate result before the candidate call returns;
  - the gold stage is entered only when a gold standard is needed;
  - past the gold stage, the gold run returned without error;
  - past the candidate call, the candidate returned without error;
  - the file difftest is reached only with no console mismatch.
- TLC checked `RunsOrdered` on the `validator` run first. `OrderedStep` proves it inductive together with `VIInv`.
- **Step lemmas:**
  - `QuietOrAbort`: every step that moves on or raises is a stutter or `Abort`.
  - `GoldDoneRefines` and `CandDoneRefines`: the ends of the calls are `GoldRan` and `CandRan`, or `Abort`.
  - `ConsoleRefines` and `DiffRefines`: the checks are `Judge`. With no output file declared, the set of bad files is empty and the attempt passes.
  - `DiffTestStep` combines them.

**`FlakyValidatorProofs`** proves the safety part of the refinement of `Flakiness` by the retry loop over step-by-step attempts. It also proves `FTypeCorrect`, `AttemptStartsCleanThm` and `WrapperReturnMeansReapedThm`, for every `flakiness` and every set of configurations.

- **Assumptions:**
  - `LoopAssumption`: `Unbound` is no value `error` can hold, and None is not `UnboundRaise`.
  - `NamesAssumption`: a ValidationError's name is not an exception's name, None or `"UnboundLocalError"`.
  - TLC evaluates both on the `flaky_validator` run.
- **The inductive invariant `FIInv`:** `VIInv` of the running attempt, plus `Ended`, plus `LoopOK`, plus `WrapperReturnMeansReaped` itself. `LoopOK` holds the loop's types and `j <= Attempts` while an attempt is under way, and gives that the exhausted loop's attempt has not started (`vpc = "start"`), so `RunPhase` of `VIInv` leaves no process alive; a `return` after a pass gets the same from `Success`.
- **Key lemma:** a retry (`NextAttemptIInv`) re-establishes `VIInv` when no process is alive. `EndedAttempt` shows this for exactly the outcomes the loop retries: a returned error and `TimeoutError`.
- **Refinement lemmas:**
  - `FInitRefines`: the initial state maps to `Flakiness`'s initial state.
  - `FStepRefines`: a step of the running attempt is a stutter of `Flakiness`; `Consume` is `Attempt(Outcome(vres))`, case by case; `LoopExhausted` is `Exhausted`.
- **Theorems:**
  - `FlakinessSafetyRefined`: `FSpec => Flak!Init /\ [][Flak!Next]_Flak!vars`.
  - `FlakinessInvariantRefined`: instantiates `FlakinessProofs` (as `FP`) through the same mapping. It transfers `FP!IInv` to the composition, after proving that the mapped constants meet `Flakiness`'s assumptions (`FlakAssumptions`).
  - `SuccessIsRealRefined`: the wrapper over real attempts returns None only when its last attempt returned None.
  - `ErrorOnlyAfterBudgetRefined`: it returns an error only after the full budget, the last returned one.

What stays with TLC:
- the liveness part of `FlakinessRefined` (the `WF` of `Flakiness!Spec`: the retry loop over real, multi-step attempts ends), because the provers do not do liveness or ENABLED. Its safety part is proved;
- `CallbacksAsDeclared` of `Registry`: the reference `Declared` uses `FlattenSeq`, a recursive operator (a module that reaches one loses the SMT backend), and a proof would be an induction over the 300-odd concrete registration calls. The constants are concrete there except the platform, and the run covers every platform value, so the run is already exhaustive;
- all violation runs.

## 5. Findings

The details are in PROJECT.json under `findings`.
1. **Line 422.** If every attempt raises `TimeoutError`, the wrapper raises `UnboundLocalError`.
2. **Lines 210-212 and 378.** Different non-UTF-8 console outputs compare equal.
3. **Line 375.** The diagnostic from `validate_result` is discarded.
4. **Lines 193-196.** When the shell of `shell=True` forks the benchmark, `kill()` ends only the shell. The grace wait then raises `TimeoutExpired`, so an execution timeout escapes the call, and the retry loop, as an exception instead of the "Execution timeout" value that spec §4.1, §7 and §8 promise. Spec §5 accepts that the orphan may outlive the call; it does not accept the exception.
5. **Line 165.** A failed compilation is reported with the timeout value as its walltime.

Spec §5 also says the marker is checked before the locks are taken. The code checks it only inside them. This costs contention, not safety, and no run checks it.

## 6. Not modelled, and the plan

Not modelled:
- the regex in `validate_sha_output` and the file copies in the ghostscript hook. Only their possible results are modelled: a diagnostic or none, success or `OSError`;
- the dataset constructors (`CBenchDataset`, `CBenchLegacyDataset*`), which only pass metadata (names, URLs, hashes) to the framework;
- the input-file lists and `ASAN_OPTIONS` of the registrations, and the `BenchmarkDynamicConfig` build command (the descriptor keeps the run command, outputs and link options);
- the static tables at the top of the file (URLs, hashes).

Plan for later work:
1. Two validator attempts sharing the runtime data through `DownloadGate`, so that the gate's `Use` covers the real reads at 294-298.
2. An orphan from one run writing into the next run's `cwd`, for `SuccessMeansCandidateFiles` across attempts.
