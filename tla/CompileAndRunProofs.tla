------------------------ MODULE CompileAndRunProofs ------------------------
(***************************************************************************)
(* Proofs, for every set of output files, contents and raw outputs, that  *)
(* one call of _compile_and_run_bitcode_file (module CompileAndRun) keeps  *)
(* its types, classifies a failed run by the spec's rule table, and       *)
(* returns a result only once every process it started has exited.        *)
(***************************************************************************)
EXTENDS CompileAndRun, TLAPS

(***************************************************************************)
(* The first rule of the table that matches is the least index of the set *)
(* of matching rules: the CHOOSE of RuleClass picks the given minimum.     *)
(***************************************************************************)
LEMMA LeastIndex ==
  ASSUME NEW M \in SUBSET Int, NEW n \in M, \A i \in M : n <= i
  PROVE  (CHOOSE i \in M : \A k \in M : i <= k) = n
  <1>1. \A c \in M : (\A k \in M : c <= k) => c = n
    BY SMT
  <1>2. \E c \in M : \A k \in M : c <= k
    OBVIOUS
  <1>3. QED
    BY <1>1, <1>2, Zenon

(***************************************************************************)
(* The elif chain of the classifier is the rule table read in order of    *)
(* precedence, for every sanitizer and every decoded output.              *)
(***************************************************************************)
LEMMA ClassifyIsRuleClass ==
  ASSUME NEW s, NEW t \in Texts
  PROVE  Classify(s, t) = RuleClass(s, t)
  <1> DEFINE M == {i \in 1..5 : Rules[i].san \in {s, "any"} /\ Rules[i].marker \in t.markers}
  <1>0. M \in SUBSET Int /\ M \subseteq {1, 2, 3, 4, 5}
    OBVIOUS
  <1>m. \A j \in 1..5 : j \in M <=> Rules[j].san \in {s, "any"} /\ Rules[j].marker \in t.markers
    BY Zenon
  <1>n. {1, 2, 3, 4, 5} \subseteq 1..5
    OBVIOUS
  <1>r. /\ Rules[1].san = "ASAN" /\ Rules[1].marker = "LeakSanitizer"
        /\ Rules[2].san = "ASAN" /\ Rules[2].marker = "AddressSanitizer"
        /\ Rules[3].san = "MSAN" /\ Rules[3].marker = "MemorySanitizer"
        /\ Rules[4].san = "any" /\ Rules[4].marker = "Segmentation fault"
        /\ Rules[5].san = "any" /\ Rules[5].marker = "Illegal Instruction"
    BY DEF Rules
  <1>a. 1 \in M <=> s = "ASAN" /\ "LeakSanitizer" \in t.markers
    BY <1>m, <1>n, <1>r, Zenon
  <1>b. 2 \in M <=> s = "ASAN" /\ "AddressSanitizer" \in t.markers
    BY <1>m, <1>n, <1>r, Zenon
  <1>c. 3 \in M <=> s = "MSAN" /\ "MemorySanitizer" \in t.markers
    BY <1>m, <1>n, <1>r, Zenon
  <1>d. 4 \in M <=> "Segmentation fault" \in t.markers
    BY <1>m, <1>n, <1>r, Zenon
  <1>e. 5 \in M <=> "Illegal Instruction" \in t.markers
    BY <1>m, <1>n, <1>r, Zenon
  <1>f. /\ Rules[1].type = "Memory leak" /\ Rules[2].type = "Memory error"
        /\ Rules[3].type = "Memory error" /\ Rules[4].type = "Segmentation fault"
        /\ Rules[5].type = "Illegal Instruction"
    BY DEF Rules
  <1>g. M /= {} => RuleClass(s, t) = Rules[CHOOSE i \in M : \A k \in M : i <= k].type
    BY Zenon DEF RuleClass
  <1>1. CASE s = "ASAN" /\ "LeakSanitizer" \in t.markers
    <2>0. 1 \in M /\ \A i \in M : 1 <= i
      BY <1>0, <1>1, <1>a
    <2>1. (CHOOSE i \in M : \A k \in M : i <= k) = 1
      BY <1>0, <2>0, LeastIndex
    <2>2. RuleClass(s, t) = "Memory leak"
      BY <1>1, <1>a, <1>f, <1>g, <2>1, Zenon
    <2>3. Classify(s, t) = "Memory leak"
      BY <1>1 DEF Classify
    <2>4. QED
      BY <2>2, <2>3
  <1>2. CASE ~(s = "ASAN" /\ "LeakSanitizer" \in t.markers)
             /\ s = "ASAN" /\ "AddressSanitizer" \in t.markers
    <2>0. 2 \in M /\ \A i \in M : 2 <= i
      BY <1>0, <1>2, <1>a, <1>b
    <2>1. (CHOOSE i \in M : \A k \in M : i <= k) = 2
      BY <1>0, <2>0, LeastIndex
    <2>2. RuleClass(s, t) = "Memory error"
      BY <1>2, <1>b, <1>f, <1>g, <2>1, Zenon
    <2>3. Classify(s, t) = "Memory error"
      BY <1>2 DEF Classify
    <2>4. QED
      BY <2>2, <2>3
  <1>3. CASE ~(s = "ASAN" /\ "LeakSanitizer" \in t.markers)
             /\ ~(s = "ASAN" /\ "AddressSanitizer" \in t.markers)
             /\ s = "MSAN" /\ "MemorySanitizer" \in t.markers
    <2>0. 3 \in M /\ \A i \in M : 3 <= i
      BY <1>0, <1>3, <1>a, <1>b, <1>c
    <2>1. (CHOOSE i \in M : \A k \in M : i <= k) = 3
      BY <1>0, <2>0, LeastIndex
    <2>2. RuleClass(s, t) = "Memory error"
      BY <1>3, <1>c, <1>f, <1>g, <2>1, Zenon
    <2>3. Classify(s, t) = "Memory error"
      BY <1>3 DEF Classify
    <2>4. QED
      BY <2>2, <2>3
  <1>4. CASE ~(s = "ASAN" /\ "LeakSanitizer" \in t.markers)
             /\ ~(s = "ASAN" /\ "AddressSanitizer" \in t.markers)
             /\ ~(s = "MSAN" /\ "MemorySanitizer" \in t.markers)
             /\ "Segmentation fault" \in t.markers
    <2>a. 4 \in M /\ 1 \notin M /\ 2 \notin M /\ 3 \notin M
      BY <1>4, <1>a, <1>b, <1>c, <1>d, Zenon
    <2>0. 4 \in M /\ \A i \in M : 4 <= i
      BY <1>0, <2>a
    <2>1. (CHOOSE i \in M : \A k \in M : i <= k) = 4
      BY <1>0, <2>0, LeastIndex
    <2>2. RuleClass(s, t) = "Segmentation fault"
      BY <1>4, <1>d, <1>f, <1>g, <2>1, Zenon
    <2>3. Classify(s, t) = "Segmentation fault"
      BY <1>4 DEF Classify
    <2>4. QED
      BY <2>2, <2>3
  <1>5. CASE ~(s = "ASAN" /\ "LeakSanitizer" \in t.markers)
             /\ ~(s = "ASAN" /\ "AddressSanitizer" \in t.markers)
             /\ ~(s = "MSAN" /\ "MemorySanitizer" \in t.markers)
             /\ "Segmentation fault" \notin t.markers
             /\ "Illegal Instruction" \in t.markers
    <2>a. 5 \in M /\ 1 \notin M /\ 2 \notin M /\ 3 \notin M /\ 4 \notin M
      BY <1>5, <1>a, <1>b, <1>c, <1>d, <1>e, Zenon
    <2>0. 5 \in M /\ \A i \in M : 5 <= i
      BY <1>0, <2>a
    <2>1. (CHOOSE i \in M : \A k \in M : i <= k) = 5
      BY <1>0, <2>0, LeastIndex
    <2>2. RuleClass(s, t) = "Illegal Instruction"
      BY <1>5, <1>e, <1>f, <1>g, <2>1, Zenon
    <2>3. Classify(s, t) = "Illegal Instruction"
      BY <1>5 DEF Classify
    <2>4. QED
      BY <2>2, <2>3
  <1>6. CASE ~(s = "ASAN" /\ "LeakSanitizer" \in t.markers)
             /\ ~(s = "ASAN" /\ "AddressSanitizer" \in t.markers)
             /\ ~(s = "MSAN" /\ "MemorySanitizer" \in t.markers)
             /\ "Segmentation fault" \notin t.markers
             /\ "Illegal Instruction" \notin t.markers
    <2>1. M = {}
      BY <1>0, <1>6, <1>a, <1>b, <1>c, <1>d, <1>e
    <2>2. QED
      BY <1>6, <2>1 DEF Classify, RuleClass
  <1>7. QED
    BY <1>1, <1>2, <1>3, <1>4, <1>5, <1>6

-----------------------------------------------------------------------------
(***************************************************************************)
(* The inductive invariant.  ReturnMeansReaped alone is not inductive: the *)
(* step that returns must know which processes can still be alive, so     *)
(* Reaping bounds the live processes at every wait of the call (none       *)
(* before a Popen; only the compiler and its linker while clang runs; only *)
(* the linker after clang was killed; the shell and the benchmark while    *)
(* the benchmark runs; only the benchmark after the shell was killed).     *)
(* Classified records that a failed run's error was computed from its own *)
(* reported output under the sanitizer of the call.                       *)
(***************************************************************************)
WaitReaping ==
    /\ rpc \in {"compile", "exec"} => procs = {}
    /\ rpc = "compileWait" => procs \subseteq {"clang", "ld"}
    /\ rpc = "compileDrain" => procs \subseteq {"ld"}
    /\ rpc = "execWait" => procs \subseteq {"shell", "bench"}
    /\ rpc = "execDrain" => procs \subseteq {"bench"}
    /\ rpc = "done" => res /= None
    /\ (rpc = "done" /\ res \in Returned) => procs = {}

Reaping == (rpc = "idle" => procs = {}) /\ WaitReaping

Classified ==
    (res \in Returned /\ res.wall = "timer" /\ res.error /= None) =>
        res.report \in Texts /\ res.error = Classify(san, res.report)

RunIInv == RunTypeOK /\ Reaping /\ Classified

USE RawOutputsAssumption, ValuesAssumption, NoneAssumption

LEMMA DecodeType ==
  ASSUME NEW raw \in RawOutputs
  PROVE  Decode(raw) \in Texts
  BY DEF Decode, Texts, BinaryText

LEMMA ClassifyType ==
  ASSUME NEW s, NEW t
  PROVE  Classify(s, t) \in ErrorTypes
  BY DEF Classify, ErrorTypes

LEMMA WrittenType ==
  ASSUME NEW w \in {"gold", "cand"}, files \in [OutFiles -> Content \cup {Absent}]
  PROVE  Written(w) \subseteq [OutFiles -> Content \cup {Absent}]
  BY DEF Written, Content

LEMMA RunInitIInv == RunInit => RunIInv
  BY DEF RunInit, RunIInv, RunTypeOK, Reaping, WaitReaping, Classified, RPcs, NoSan, Sanitizers

(***************************************************************************)
(* The steps of a call after it started keep the types and the bounds on  *)
(* the live processes: one step per action, the kill-and-drain steps      *)
(* showing that the processes that can survive a kill are the ones the    *)
(* next wait reaps.  Module ValidatorProofs uses this lemma as well.      *)
(***************************************************************************)
LEMMA RunStepReaping ==
  ASSUME RunTypeOK, WaitReaping, RunStep
  PROVE  RunTypeOK' /\ WaitReaping'
  <1> USE DEF RunTypeOK, WaitReaping, RPcs
  <1>2. CASE CompileStart
    BY <1>2 DEF CompileStart, Launch, Procs
  <1>3. CASE CompileOk
    BY <1>3 DEF CompileOk
  <1>4. CASE CompileFailed
    <2>1. res' \in Returned
      BY <1>4 DEF CompileFailed, Result, Returned, ErrorTypes
    <2>2. QED
      BY <1>4, <2>1 DEF CompileFailed
  <1>5. CASE CompileTimeout
    BY <1>5 DEF CompileTimeout
  <1>6. CASE CompileDrained
    <2>1. res' \in Returned
      BY <1>6 DEF CompileDrained, Result, Returned, ErrorTypes
    <2>2. QED
      BY <1>6, <2>1 DEF CompileDrained
  <1>7. CASE CompileDrainTimeout
    <2>1. res' = [kind |-> "raise", exc |-> "TimeoutExpired"] /\ rpc' = "done"
      BY <1>7 DEF CompileDrainTimeout, Raise
    <2>2. res' \in Raised /\ res' \notin Returned /\ res' /= None
      BY <2>1 DEF Raised, Returned
    <2>3. QED
      BY <1>7, <2>1, <2>2 DEF CompileDrainTimeout
  <1>8. CASE ExecStart
    BY <1>8 DEF ExecStart, Procs
  <1>9. ASSUME NEW rc \in 0..1, NEW raw \in RawOutputs, ExecExit(rc, raw)
        PROVE  RunTypeOK' /\ WaitReaping'
    <2> DEFINE text == Decode(raw)
    <2>1. text \in Texts
      BY DecodeType
    <2>2. Classify(san, text) \in ErrorTypes
      BY ClassifyType
    <2>3. files' \in [OutFiles -> Content \cup {Absent}]
      BY <1>9, WrittenType DEF ExecExit
    <2>4. RunTypeOK'
      BY <1>9, <2>1, <2>2, <2>3 DEF ExecExit, Result, Returned, Unlinked
    <2>5. /\ res' \in Returned /\ rpc = "execWait" /\ rpc' = "done"
          /\ procs' = procs \ {"shell", "bench"}
      BY <1>9, <2>1, <2>2 DEF ExecExit, Result, Returned
    <2>6. WaitReaping'
      BY <2>5
    <2>7. QED
      BY <2>4, <2>6
  <1>10. CASE ExecTimeout
    <2>1. files' \in [OutFiles -> Content \cup {Absent}]
      BY <1>10, WrittenType DEF ExecTimeout
    <2>2. QED
      BY <1>10, <2>1 DEF ExecTimeout
  <1>11. CASE ExecDrained
    <2>1. files' \in [OutFiles -> Content \cup {Absent}]
      BY <1>11, WrittenType DEF ExecDrained
    <2>2. res' \in Returned
      BY <1>11 DEF ExecDrained, Result, Returned, ErrorTypes
    <2>3. QED
      BY <1>11, <2>1, <2>2 DEF ExecDrained, Unlinked
  <1>12. CASE ExecDrainTimeout
    <2>1. res' = [kind |-> "raise", exc |-> "TimeoutExpired"] /\ rpc' = "done"
      BY <1>12 DEF ExecDrainTimeout, Raise
    <2>2. res' \in Raised /\ res' \notin Returned /\ res' /= None
      BY <2>1 DEF Raised, Returned
    <2>3. QED
      BY <1>12, <2>1, <2>2 DEF ExecDrainTimeout, Unlinked
  <1>13. CASE OrphanExit
    <2>1. files' \in [OutFiles -> Content \cup {Absent}]
      BY <1>13, WrittenType DEF OrphanExit
    <2>2. QED
      BY <1>13, <2>1 DEF OrphanExit
  <1>15. QED
    BY <1>2, <1>3, <1>4, <1>5, <1>6, <1>7, <1>8, <1>9, <1>10, <1>11,
       <1>12, <1>13 DEF RunStep

(* What no step of a call changes: which call it is and its sanitizer; a  *)
(* step writes files only as the running call; and no step enters or      *)
(* leaves idle, so at idle only an orphan's exit can happen.               *)
LEMMA RunStepFrame ==
  ASSUME RunStep
  PROVE  /\ who' = who /\ san' = san
         /\ files' = files \/ files' \in Written(who)
         /\ (rpc = "idle" \/ rpc' = "idle") => (rpc' = rpc /\ procs /= {})
  BY DEF RunStep, CompileStart, CompileOk, CompileFailed, CompileTimeout,
         CompileDrained, CompileDrainTimeout, ExecStart, ExecExit, ExecTimeout,
         ExecDrained, ExecDrainTimeout, OrphanExit

(* Only the benchmark's exit sets a classified result, and it classifies  *)
(* the output it reports; every other step leaves the result and the      *)
(* sanitizer alone or sets a result that is not classified.               *)
LEMMA RunStepClassified ==
  ASSUME RunTypeOK, Classified, RunStep
  PROVE  Classified'
  <1>1. ASSUME NEW rc \in 0..1, NEW raw \in RawOutputs, ExecExit(rc, raw)
        PROVE  Classified'
    <2>1. Decode(raw) \in Texts
      BY DecodeType
    <2>2. CASE rc /= 0
      <3>1. res' = Result("timer", Classify(san, Decode(raw)), None, Decode(raw)) /\ san' = san
        BY <1>1, <2>2 DEF ExecExit
      <3>2. QED
        BY <2>1, <3>1 DEF Result, Classified
    <2>3. CASE rc = 0
      <3>1. res' = Result("timer", None, Decode(raw), None)
        BY <1>1, <2>3 DEF ExecExit
      <3>2. QED
        BY <3>1 DEF Result, Classified
    <2>4. QED
      BY <2>2, <2>3
  <1>2. ASSUME NEW e, res' = Result("timeout", e, None, None)
        PROVE  Classified'
    BY <1>2 DEF Result, Classified
  <1>3. CASE CompileFailed
    BY <1>3, <1>2 DEF CompileFailed
  <1>4. CASE CompileDrained
    BY <1>4, <1>2 DEF CompileDrained
  <1>5. CASE ExecDrained
    BY <1>5, <1>2 DEF ExecDrained
  <1>6. CASE CompileDrainTimeout \/ ExecDrainTimeout
    <2>1. res' = [kind |-> "raise", exc |-> "TimeoutExpired"]
      BY <1>6 DEF CompileDrainTimeout, ExecDrainTimeout, Raise
    <2>2. res' \notin Returned
      BY <2>1 DEF Returned
    <2>3. QED
      BY <2>2 DEF Classified
  <1>7. CASE CompileStart \/ CompileOk \/ CompileTimeout \/ ExecStart \/ ExecTimeout \/ OrphanExit
    BY <1>7 DEF CompileStart, CompileOk, CompileTimeout, ExecStart, ExecTimeout,
                OrphanExit, Classified
  <1>8. QED
    BY <1>1, <1>3, <1>4, <1>5, <1>6, <1>7 DEF RunStep

(* Every step of RunNext keeps the invariant.                              *)
LEMMA RunStepIInv == RunIInv /\ [RunNext]_runVars => RunIInv'
  <1> SUFFICES ASSUME RunIInv, [RunNext]_runVars PROVE RunIInv'
    OBVIOUS
  <1>1. ASSUME NEW s \in Sanitizers \cup {NoSan}, NEW w \in {"gold", "cand"}, Call(s, w)
        PROVE  RunIInv'
    BY <1>1 DEF Call, RunIInv, RunTypeOK, Reaping, WaitReaping, RPcs, Classified
  <1>2. CASE RunStep
    BY <1>2, RunStepReaping, RunStepFrame, RunStepClassified DEF RunIInv, Reaping
  <1>3. CASE UNCHANGED runVars
    BY <1>3 DEF runVars, RunIInv, RunTypeOK, Reaping, WaitReaping, Classified
  <1>4. QED
    BY <1>1, <1>2, <1>3 DEF RunNext

LEMMA RunIInvariant == RunSpec => []RunIInv
  BY RunInitIInv, RunStepIInv, PTL DEF RunSpec

(***************************************************************************)
(* Every state of a call of _compile_and_run_bitcode_file is well typed:   *)
(* its result is a BenchmarkExecutionResult or the escaping               *)
(* TimeoutExpired, its files carry the contents some run wrote.           *)
(***************************************************************************)
THEOREM RunTypeCorrect == RunSpec => []RunTypeOK
  <1>1. RunIInv => RunTypeOK
    BY DEF RunIInv
  <1>2. QED
    BY <1>1, RunIInvariant, PTL

(***************************************************************************)
(* A call that returns a result (rather than raising TimeoutExpired) has   *)
(* reaped every process it started, for every set of output files and raw *)
(* outputs: the kill of the leader and the grace wait on the pipe.        *)
(***************************************************************************)
THEOREM ReturnMeansReapedThm == RunSpec => []ReturnMeansReaped
  <1>1. RunIInv => ReturnMeansReaped
    BY DEF RunIInv, Reaping, WaitReaping, ReturnMeansReaped
  <1>2. QED
    BY <1>1, RunIInvariant, PTL

(***************************************************************************)
(* A benchmark that exits non-zero is reported with the class of the first *)
(* rule of the spec's table that its reported output matches under the    *)
(* sanitizer in effect: the elif chain of the classifier has the table's   *)
(* precedence for every output.                                            *)
(***************************************************************************)
THEOREM ClassMatchesRulesThm == RunSpec => []ClassMatchesRules
  <1>1. RunIInv => ClassMatchesRules
    <2> SUFFICES ASSUME RunIInv, res \in Returned, res.wall = "timer", res.error /= None
                 PROVE  res.error = RuleClass(san, res.report)
      BY DEF ClassMatchesRules
    <2>1. res.report \in Texts /\ res.error = Classify(san, res.report)
      BY DEF RunIInv, Classified
    <2>2. QED
      BY <2>1, ClassifyIsRuleClass
  <1>2. QED
    BY <1>1, RunIInvariant, PTL

-----------------------------------------------------------------------------
(***************************************************************************)
(* The call implements RunnerCall.  Two facts the refinement needs that    *)
(* RunIInv does not hold: only a sanitized call is ever in the compile     *)
(* stage, and an lli call never has clang or its linker alive.  They give *)
(* that a.out is untouched by an unsanitized call, and that a compilation *)
(* result is one a sanitized call may return.                              *)
(***************************************************************************)
SanPath ==
    /\ rpc \in {"compile", "compileWait", "compileDrain"} => san /= NoSan
    /\ san = NoSan => procs \cap {"clang", "ld"} = {}

LEMMA SanPathStep == RunIInv /\ SanPath /\ [RunNext]_runVars => SanPath'
  <1> SUFFICES ASSUME RunIInv, SanPath, [RunNext]_runVars PROVE SanPath'
    OBVIOUS
  <1>1. ASSUME NEW s \in Sanitizers \cup {NoSan}, NEW w \in {"gold", "cand"}, Call(s, w)
        PROVE  SanPath'
    BY <1>1 DEF Call, SanPath, RunIInv, Reaping
  <1>2. CASE RunStep
    BY <1>2 DEF RunStep, SanPath, CompileStart, CompileOk, CompileFailed, CompileTimeout,
         CompileDrained, CompileDrainTimeout, ExecStart, ExecExit, ExecTimeout,
         ExecDrained, ExecDrainTimeout, OrphanExit, Launch
  <1>3. CASE UNCHANGED runVars
    BY <1>3 DEF runVars, SanPath
  <1>4. QED
    BY <1>1, <1>2, <1>3 DEF RunNext

LEMMA CallIInvariant == RunSpec => [](RunIInv /\ SanPath)
  <1>1. RunInit => SanPath
    BY DEF RunInit, SanPath
  <1>2. QED
    BY <1>1, RunInitIInv, RunStepIInv, SanPathStep, PTL DEF RunSpec

(* What a run writes is what the abstract call may write.                  *)
LEMMA WrittenWriteBy ==
  ASSUME NEW w \in {"gold", "cand"}, files \in [OutFiles -> Content \cup {Absent}]
  PROVE  Written(w) \cup {files} \subseteq RC!WriteBy(w)
  <1>1. files \in RC!WriteBy(w)
    BY DEF RC!WriteBy, Content
  <1>2. ASSUME NEW f \in Written(w) PROVE f \in RC!WriteBy(w)
    <2>1. PICK W \in SUBSET OutFiles, d \in [OutFiles -> Data] :
            f = [o \in OutFiles |-> IF o \in W THEN [by |-> w, data |-> d[o]] ELSE files[o]]
      BY <1>2 DEF Written
    <2>2. QED
      BY <2>1 DEF RC!WriteBy, Content
  <1>3. QED
    BY <1>1, <1>2

(* A step in the middle of the call is a Work step of the abstract call.  *)
LEMMA WorkStep ==
  ASSUME RunTypeOK, rpc \notin {"idle", "done"}, rpc' \notin {"idle", "done"},
         files' \in Written(who) \cup {files},
         binary' \in IF san = NoSan THEN {binary} ELSE BOOLEAN,
         UNCHANGED <<san, who, res>>
  PROVE  RC!Work
  BY WrittenWriteBy DEF RC!Work, RC!AoutAfter, CallPhase, RunTypeOK

(* A step that ends the call with an outcome the abstract call allows.    *)
LEMMA FinishStep ==
  ASSUME RunTypeOK, rpc \notin {"idle", "done"}, rpc' = "done",
         res' \in RC!Outcomes(san),
         files' \in Written(who) \cup {files},
         binary' \in IF san /= NoSan /\ res'.kind = "return" /\ res'.error \notin RC!CompileErrors
                     THEN {FALSE} ELSE IF san = NoSan THEN {binary} ELSE BOOLEAN,
         UNCHANGED <<san, who>>
  PROVE  \E r \in RC!Outcomes(san) : RC!Finish(r)
  <1>1. RC!Finish(res')
    BY WrittenWriteBy DEF RC!Finish, RC!AoutAfter, CallPhase, RunTypeOK
  <1>2. QED
    BY <1>1

(***************************************************************************)
(* Every step of a call is a step of RunnerCall or leaves its state alone: *)
(* Call is Begin; the Popens, clang's exit with 0 and the kills are Work;  *)
(* each return or raise is Finish with that outcome, the benchmark's       *)
(* non-zero exit classified by the table because the elif chain is the    *)
(* table; and an orphan's exit is Work while the call runs and Linger      *)
(* after it, where Reaping shows the call must have raised.               *)
(***************************************************************************)
LEMMA CallStepRefines ==
  RunIInv /\ SanPath /\ [RunNext]_runVars => [RC!RCNext]_RC!rcVars
  <1> SUFFICES ASSUME RunIInv, SanPath, [RunNext]_runVars
               PROVE  [RC!RCNext]_RC!rcVars
    OBVIOUS
  <1> USE DEF RunIInv, Reaping, WaitReaping
  <1>0. RunTypeOK
    OBVIOUS
  <1>1. ASSUME NEW s \in Sanitizers \cup {NoSan}, NEW w \in {"gold", "cand"}, Call(s, w)
        PROVE  RC!RCNext
    <2>1. RC!Begin(s, w)
      BY <1>1 DEF Call, RC!Begin, CallPhase
    <2>2. QED
      BY <2>1 DEF RC!RCNext
  <1>2. CASE UNCHANGED runVars
    BY <1>2 DEF runVars, RC!rcVars, CallPhase
  <1>3. CASE CompileStart \/ CompileOk \/ CompileTimeout \/ ExecStart \/ ExecTimeout
    <2>1. RC!Work
      <3>1. CASE CompileStart
        BY <1>0, <3>1, WorkStep DEF CompileStart, RunTypeOK
      <3>2. CASE CompileOk
        BY <1>0, <3>2, WorkStep DEF CompileOk, SanPath, RunTypeOK
      <3>3. CASE CompileTimeout
        BY <1>0, <3>3, WorkStep DEF CompileTimeout, SanPath, RunTypeOK
      <3>4. CASE ExecStart
        BY <1>0, <3>4, WorkStep DEF ExecStart, RunTypeOK
      <3>5. CASE ExecTimeout
        BY <1>0, <3>5, WorkStep DEF ExecTimeout, RunTypeOK
      <3>6. QED
        BY <1>3, <3>1, <3>2, <3>3, <3>4, <3>5
    <2>2. QED
      BY <2>1 DEF RC!RCNext
  <1>4. CASE CompileFailed \/ CompileDrained \/ CompileDrainTimeout
    <2>1. san /= NoSan /\ binary' \in BOOLEAN
      BY <1>4 DEF SanPath, CompileFailed, CompileDrained, CompileDrainTimeout, RunTypeOK
    <2>2. "Compilation failed" \in RC!CompileErrors /\ "Compilation timeout" \in RC!CompileErrors
      BY DEF RC!CompileErrors
    <2>3. \/ \E e \in RC!CompileErrors : res' = RC!Ret("timeout", e, None, None)
          \/ res' = RC!Escape
      BY <1>4, <2>2 DEF CompileFailed, CompileDrained, CompileDrainTimeout, Result, Raise,
                        RC!Ret, RC!Escape
    <2>4. res' \in RC!Outcomes(san)
      BY <2>1, <2>3 DEF RC!Outcomes
    <2>5. res'.kind = "return" => res'.error \in RC!CompileErrors
      BY <2>3 DEF RC!Ret, RC!Escape
    <2>6. \E r \in RC!Outcomes(san) : RC!Finish(r)
      BY <1>0, <1>4, <2>1, <2>4, <2>5, FinishStep
         DEF CompileFailed, CompileDrained, CompileDrainTimeout
    <2>7. QED
      BY <2>6 DEF RC!RCNext
  <1>5. ASSUME NEW rc \in 0..1, NEW raw \in RawOutputs, ExecExit(rc, raw)
        PROVE  RC!RCNext
    <2> DEFINE text == Decode(raw)
    <2>1. text \in Texts
      BY DecodeType
    <2>2. res' \in RC!Outcomes(san)
      <3>1. CASE rc /= 0
        <4>1. res' = RC!Ret("timer", RuleClass(san, text), None, text)
          BY <1>5, <2>1, <3>1, ClassifyIsRuleClass DEF ExecExit, Result, RC!Ret
        <4>2. QED
          BY <2>1, <4>1 DEF RC!Outcomes
      <3>2. CASE rc = 0
        <4>1. res' = RC!Ret("timer", None, text, None)
          BY <1>5, <3>2 DEF ExecExit, Result, RC!Ret
        <4>2. QED
          BY <2>1, <4>1 DEF RC!Outcomes
      <3>3. QED
        BY <3>1, <3>2
    <2>3. binary' = Unlinked
      BY <1>5 DEF ExecExit
    <2>4. \E r \in RC!Outcomes(san) : RC!Finish(r)
      BY <1>0, <1>5, <2>2, <2>3, FinishStep DEF ExecExit, Unlinked, RunTypeOK
    <2>5. QED
      BY <2>4 DEF RC!RCNext
  <1>6. CASE ExecDrained \/ ExecDrainTimeout
    <2>1. res' \in RC!Outcomes(san)
      BY <1>6 DEF ExecDrained, ExecDrainTimeout, Result, Raise, RC!Outcomes, RC!Ret,
                  RC!Escape
    <2>2. binary' = Unlinked
      BY <1>6 DEF ExecDrained, ExecDrainTimeout
    <2>3. \E r \in RC!Outcomes(san) : RC!Finish(r)
      BY <1>0, <1>6, <2>1, <2>2, FinishStep DEF ExecDrained, ExecDrainTimeout, Unlinked,
                                              RunTypeOK
    <2>4. QED
      BY <2>3 DEF RC!RCNext
  <1>7. CASE OrphanExit
    <2>1. /\ procs /= {} /\ UNCHANGED <<rpc, san, who, res>>
          /\ files' \in Written(who) \cup {files}
          /\ binary' \in IF san = NoSan THEN {binary} ELSE BOOLEAN
      BY <1>7 DEF OrphanExit, SanPath, RunTypeOK
    <2>2. CASE rpc = "done"
      <3>1. res \in Raised
        BY <2>1, <2>2 DEF RunTypeOK
      <3>2. RC!Linger
        BY <2>1, <2>2, <3>1, WrittenWriteBy DEF RC!Linger, RC!AoutAfter, CallPhase,
                                              Raised, RunTypeOK
      <3>3. QED
        BY <3>2 DEF RC!RCNext
    <2>3. CASE rpc /= "done"
      <3>1. RC!Work
        BY <1>0, <2>1, <2>3, WorkStep
      <3>2. QED
        BY <3>1 DEF RC!RCNext
    <2>4. QED
      BY <2>2, <2>3
  <1>8. QED
    BY <1>1, <1>2, <1>3, <1>4, <1>5, <1>6, <1>7 DEF RunNext, RunStep

LEMMA CallInitRefines == RunInit => RC!RCInit
  BY DEF RunInit, RC!RCInit, CallPhase

(***************************************************************************)
(* One call of _compile_and_run_bitcode_file implements what RunnerCall   *)
(* promises its caller, for every set of output files, contents and raw   *)
(* outputs: results of the spec's shapes classified by its table,         *)
(* compilation results only for sanitized calls, files written only as    *)
(* the call's own run, a.out removed by a sanitized execution and never  *)
(* touched by lli, and nothing in cwd changing after a returned result.   *)
(***************************************************************************)
THEOREM RunnerImplementsCallThm == RunSpec => RunnerImplementsCall
  <1>1. RunIInv /\ SanPath /\ [RunNext]_runVars => [RC!RCNext]_RC!rcVars
    BY CallStepRefines
  <1>2. QED
    BY <1>1, CallInitRefines, CallIInvariant, PTL DEF RunSpec, RunnerImplementsCall, RC!RCSpec

=============================================================================
