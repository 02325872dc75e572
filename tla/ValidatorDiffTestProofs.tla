---------------------- MODULE ValidatorDiffTestProofs ----------------------
(***************************************************************************)
(* Proof, for every set of registered configurations, output files,        *)
(* contents and raw outputs, that a validator_cb attempt (module           *)
(* Validator) implements the differential test of module DiffTest.        *)
(***************************************************************************)
EXTENDS ValidatorProofs

(***************************************************************************)
(* What the attempt knows of its runs at each point of validator_cb: no    *)
(* verdict before the end; no gold result before the gold call returns    *)
(* and no candidate result before the candidate call returns; the gold    *)
(* stage is entered only when a gold standard is needed; past it, the     *)
(* gold run returned without error; past the candidate call, the         *)
(* candidate returned without error; and the file difftest is reached    *)
(* only when the console check found nothing.  VIInv alone does not say   *)
(* any of this: it is about processes and files, not about results.       *)
(***************************************************************************)
RunsOrdered ==
    /\ vpc /= "done" => vres = None
    /\ vpc \in {"start", "inputs", "mkdir", "setup", "fork", "goldPrepare", "goldWait"} => gold = None
    /\ vpc \notin {"check", "console", "diff", "done"} => outcome = None
    /\ vpc \in {"fork", "goldPrepare", "goldWait", "goldFiles"} => NeedsGold
    /\ (vpc \in {"goldFiles", "candWrite", "candWait", "check", "console", "diff"} /\ NeedsGold)
           => gold \in Returned /\ gold.error = None
    /\ vpc \in {"check", "console", "diff"} => outcome \in Returned /\ outcome.error = None
    /\ vpc = "diff" => ~(config.compare_output /\ gold.output /= outcome.output)

(* Leaving validator_cb makes every conjunct of RunsOrdered hold.          *)
LEMMA FinishOrdered ==
  ASSUME vpc' = "done" PROVE RunsOrdered'
  BY DEF RunsOrdered

LEMMA OrderedInit == AttemptInit => RunsOrdered
  BY DEF AttemptInit, RunsOrdered

(***************************************************************************)
(* Every step keeps RunsOrdered: the steps that leave validator_cb by      *)
(* FinishOrdered; the calls' ends because they record the result they     *)
(* move on with; the console check because it moves on only without a    *)
(* mismatch.                                                               *)
(***************************************************************************)
LEMMA OrderedStep == VIInv /\ RunsOrdered /\ [Next]_vars => RunsOrdered'
  <1> SUFFICES ASSUME VIInv, RunsOrdered, [Next]_vars PROVE RunsOrdered'
    OBVIOUS
  <1>1. CASE Download \/ CheckInputs \/ Fork \/ GoldPrepare \/ CandWrite \/ GoldFiles
    <2>1. CASE Download
      BY <2>1, FinishOrdered DEF Download, RunsOrdered, Finish
    <2>2. CASE CheckInputs
      BY <2>2, FinishOrdered DEF CheckInputs, RunsOrdered, Finish
    <2>3. CASE Fork
      BY <2>3, FinishOrdered DEF Fork, RunsOrdered, Finish, NeedsGold
    <2>4. CASE GoldPrepare
      BY <2>4, FinishOrdered DEF GoldPrepare, RunsOrdered, Finish, NeedsGold, Call
    <2>5. CASE CandWrite
      BY <2>5, FinishOrdered DEF CandWrite, RunsOrdered, Finish, NeedsGold, Call
    <2>6. CASE GoldFiles
      BY <2>6, FinishOrdered DEF GoldFiles, RunsOrdered, Finish
    <2>7. QED
      BY <1>1, <2>1, <2>2, <2>3, <2>4, <2>5, <2>6
  <1>2. CASE MakeTmp \/ Check
    BY <1>2 DEF MakeTmp, Check, RunsOrdered, NeedsGold, runVars
  <1>3. CASE Setup
    BY <1>3, FinishOrdered DEF Setup, RunsOrdered, Finish, NeedsGold
  <1>4. CASE GoldDone
    <2>0. res \in Returned \cup Raised
      BY <1>4 DEF GoldDone, VIInv, RunTypeOK, RunPhase, WaitReaping
    <2>1. CASE res \in Returned /\ res.error = None
      <3>1. res.kind = "return"
        BY <2>1 DEF Returned
      <3>2. vpc' = "goldFiles" /\ gold' = res /\ vres' = vres /\ UNCHANGED <<config, outcome>>
        BY <1>4, <2>1, <3>1 DEF GoldDone
      <3>3. QED
        BY <1>4, <2>1, <3>2 DEF GoldDone, RunsOrdered, NeedsGold
    <2>2. CASE res \in Raised
      <3>1. res.kind = "raise"
        BY <2>2 DEF Raised
      <3>2. vpc' = "done"
        BY <1>4, <3>1 DEF GoldDone, Finish
      <3>3. QED
        BY <3>2, FinishOrdered
    <2>3. CASE res \in Returned /\ res.error /= None
      <3>1. res.kind = "return"
        BY <2>3 DEF Returned
      <3>2. vpc' = "done"
        BY <1>4, <2>3, <3>1 DEF GoldDone, Finish
      <3>3. QED
        BY <3>2, FinishOrdered
    <2>4. QED
      BY <2>0, <2>1, <2>2, <2>3
  <1>5. CASE CandDone
    <2>0. res \in Returned \cup Raised
      BY <1>5 DEF CandDone, VIInv, RunTypeOK, RunPhase, WaitReaping
    <2>1. CASE res \in Returned /\ res.error = None
      <3>1. res.kind = "return"
        BY <2>1 DEF Returned
      <3>2. vpc' = "check" /\ outcome' = res /\ vres' = vres /\ UNCHANGED <<config, gold>>
        BY <1>5, <2>1, <3>1 DEF CandDone
      <3>3. QED
        BY <1>5, <2>1, <3>2 DEF CandDone, RunsOrdered, NeedsGold
    <2>2. CASE res \in Raised
      <3>1. res.kind = "raise"
        BY <2>2 DEF Raised
      <3>2. vpc' = "done"
        BY <1>5, <3>1 DEF CandDone, Finish
      <3>3. QED
        BY <3>2, FinishOrdered
    <2>3. CASE res \in Returned /\ res.error /= None
      <3>1. res.kind = "return"
        BY <2>3 DEF Returned
      <3>2. vpc' = "done"
        BY <1>5, <2>3, <3>1 DEF CandDone, Finish
      <3>3. QED
        BY <3>2, FinishOrdered
    <2>4. QED
      BY <2>0, <2>1, <2>2, <2>3
  <1>6. CASE Console
    BY <1>6, FinishOrdered DEF Console, RunsOrdered, Finish, NeedsGold, runVars
  <1>7. CASE Diff
    BY <1>7, FinishOrdered DEF Diff, Finish
  <1>8. CASE RunStep /\ UNCHANGED valVars
    BY <1>8 DEF valVars, RunsOrdered, NeedsGold
  <1>9. CASE UNCHANGED vars
    BY <1>9 DEF vars, valVars, RunsOrdered, NeedsGold
  <1>10. QED
    BY <1>1, <1>2, <1>3, <1>4, <1>5, <1>6, <1>7, <1>8, <1>9 DEF Next, AttemptStep

LEMMA OrderedInvariant == Spec => [](VIInv /\ RunsOrdered)
  BY OrderedInit, VInitIInv, OrderedStep, VStepIInv, PTL DEF Spec

-----------------------------------------------------------------------------
(* A step that leaves the results alone and either keeps the verdict or   *)
(* raises is a stutter or an Abort of the differential test.               *)
LEMMA QuietOrAbort ==
  ASSUME RunsOrdered, vpc /= "done", UNCHANGED <<config, gold, outcome>>,
         vres' = vres \/ \E e \in Exceptions : vres' = Throw(e)
  PROVE  [DT!DTNext]_DT!dtVars
  <1>1. CASE vres' = vres
    BY <1>1 DEF DT!dtVars
  <1>2. CASE \E e \in Exceptions : vres' = Throw(e)
    <2>1. PICK e \in Exceptions : vres' = Throw(e)
      BY <1>2
    <2>2. DT!Abort(e)
      BY <2>1 DEF DT!Abort, DT!Thrown, Throw, RunsOrdered
    <2>3. QED
      BY <2>2 DEF DT!DTNext
  <1>3. QED
    BY <1>1, <1>2

(* The end of the gold call: a returned result is GoldRan, an exception   *)
(* an Abort.                                                               *)
LEMMA GoldDoneRefines ==
  ASSUME VIInv, RunsOrdered, GoldDone PROVE [DT!DTNext]_DT!dtVars
  <1>0. /\ vpc = "goldWait" /\ res \in Returned \cup Raised /\ vres = None
        /\ gold = None /\ outcome = None /\ DT!NeedsGoldRun(config)
        /\ UNCHANGED <<config, outcome>>
    BY DEF GoldDone, VIInv, RunTypeOK, RunPhase, WaitReaping, RunsOrdered, NeedsGold,
           DT!NeedsGoldRun
  <1>1. CASE res \in Raised
    <2>1. res.kind = "raise" /\ res.exc \in Exceptions
      BY <1>1 DEF Raised, Exceptions
    <2>2. vres' = Throw(res.exc) /\ gold' = gold
      BY <2>1 DEF GoldDone, Finish
    <2>3. QED
      BY <1>0, <2>1, <2>2, QuietOrAbort
  <1>2. CASE res \in Returned
    <2>1. res.kind = "return" /\ gold' = res
      BY <1>2 DEF Returned, GoldDone
    <2>2. vres' = IF res.error = None THEN None ELSE DT!Verdict(res.error, TRUE)
      <3>1. CASE res.error = None
        BY <1>0, <2>1, <3>1 DEF GoldDone
      <3>2. CASE res.error /= None
        BY <2>1, <3>2 DEF GoldDone, Finish, Fail, DT!Verdict
      <3>3. QED
        BY <3>1, <3>2
    <2>3. DT!GoldRan
      BY <1>0, <1>2, <2>1, <2>2 DEF DT!GoldRan
    <2>4. QED
      BY <2>3 DEF DT!DTNext
  <1>3. QED
    BY <1>0, <1>1, <1>2

(* The end of the candidate call: CandRan or an Abort.                     *)
LEMMA CandDoneRefines ==
  ASSUME VIInv, RunsOrdered, CandDone PROVE [DT!DTNext]_DT!dtVars
  <1>0. /\ vpc = "candWait" /\ res \in Returned \cup Raised /\ vres = None
        /\ outcome = None /\ UNCHANGED <<config, gold>>
        /\ DT!NeedsGoldRun(config) => gold /= None /\ gold.error = None
    BY NoneAssumption DEF CandDone, VIInv, RunTypeOK, RunPhase, WaitReaping, RunsOrdered,
                          NeedsGold, DT!NeedsGoldRun
  <1>1. CASE res \in Raised
    <2>1. res.kind = "raise" /\ res.exc \in Exceptions
      BY <1>1 DEF Raised, Exceptions
    <2>2. vres' = Throw(res.exc) /\ outcome' = outcome
      BY <2>1 DEF CandDone, Finish
    <2>3. QED
      BY <1>0, <2>1, <2>2, QuietOrAbort
  <1>2. CASE res \in Returned
    <2>1. res.kind = "return" /\ outcome' = res
      BY <1>2 DEF Returned, CandDone
    <2>2. vres' = IF res.error = None THEN None ELSE DT!Verdict(res.error, FALSE)
      <3>1. CASE res.error = None
        BY <1>0, <2>1, <3>1 DEF CandDone
      <3>2. CASE res.error /= None
        BY <2>1, <3>2 DEF CandDone, Finish, Fail, DT!Verdict
      <3>3. QED
        BY <3>1, <3>2
    <2>3. DT!CandRan
      BY <1>0, <1>2, <2>1, <2>2 DEF DT!CandRan
    <2>4. QED
      BY <2>3 DEF DT!DTNext
  <1>3. QED
    BY <1>0, <1>1, <1>2

(* The console check: a mismatch is the Judge step "Wrong output".        *)
LEMMA ConsoleRefines ==
  ASSUME RunsOrdered, Console PROVE [DT!DTNext]_DT!dtVars
  <1>0. /\ vpc = "console" /\ vres = None /\ outcome \in Returned /\ outcome.error = None
        /\ outcome /= None /\ UNCHANGED <<config, gold, outcome>>
    BY NoneAssumption DEF Console, RunsOrdered
  <1>1. CASE config.compare_output /\ gold.output /= outcome.output
    <2> DEFINE v == DT!Verdict("Wrong output", FALSE)
    <2>1. vres' = v
      BY <1>1 DEF Console, Finish, Fail, DT!Verdict
    <2>2. DT!Judge(v)
      BY <1>0, <1>1, <2>1 DEF DT!Judge, DT!ConsoleMismatch
    <2>3. QED
      BY <2>2 DEF DT!DTNext
  <1>2. CASE ~(config.compare_output /\ gold.output /= outcome.output)
    <2>1. vres' = vres
      BY <1>2 DEF Console
    <2>2. QED
      BY <1>0, <2>1 DEF DT!dtVars
  <1>3. QED
    BY <1>1, <1>2

(* The file difftest is the Judge step: it passes when no file is declared. *)
LEMMA DiffRefines ==
  ASSUME RunsOrdered, Diff PROVE [DT!DTNext]_DT!dtVars
  <1> DEFINE of == config.output_files
             Bad == {i \in 1..Len(of) : files[of[i]] = Absent \/ files[of[i]].data /= goldFiles[of[i]].data}
  <1>0. /\ vpc = "diff" /\ vres = None /\ outcome \in Returned /\ outcome.error = None
        /\ outcome /= None /\ UNCHANGED <<config, gold, outcome>>
        /\ ~DT!ConsoleMismatch
    BY NoneAssumption DEF Diff, RunsOrdered, DT!ConsoleMismatch
  <1>1. vres' \in IF Bad = {} THEN {DT!Pass}
                  ELSE {DT!Verdict("Output not generated", FALSE),
                        DT!Verdict("Wrong output (file)", FALSE)}
    BY DEF Diff, Finish, Passed, Fail, DT!Pass, DT!Verdict
  <1>2. of = <<>> => Bad = {}
    OBVIOUS
  <1>3. DT!Judge(vres')
    BY <1>0, <1>1, <1>2 DEF DT!Judge
  <1>4. vres' \in {DT!Pass} \cup {DT!Verdict(t, FALSE) : t \in {"Wrong output",
                                   "Output not generated", "Wrong output (file)"}}
    BY <1>1
  <1>5. QED
    BY <1>3, <1>4 DEF DT!DTNext

(***************************************************************************)
(* Every step of an attempt is a step of the differential test or leaves  *)
(* its state alone: the ends of the two calls are GoldRan and CandRan, the *)
(* console and file checks are Judge, every exception is Abort, and all   *)
(* the rest, the runner's steps included, change no result and no verdict. *)
(***************************************************************************)
LEMMA DiffTestStep == VIInv /\ RunsOrdered /\ [Next]_vars => [DT!DTNext]_DT!dtVars
  <1> SUFFICES ASSUME VIInv, RunsOrdered, [Next]_vars PROVE [DT!DTNext]_DT!dtVars
    OBVIOUS
  <1>1. CASE Download
    BY <1>1, QuietOrAbort DEF Download, Finish, Exceptions
  <1>2. CASE CheckInputs
    BY <1>2, QuietOrAbort DEF CheckInputs, Finish, Exceptions
  <1>3. CASE MakeTmp
    BY <1>3, QuietOrAbort DEF MakeTmp
  <1>4. CASE Setup
    BY <1>4, QuietOrAbort DEF Setup, Finish, Exceptions
  <1>5. CASE Fork
    BY <1>5, QuietOrAbort DEF Fork, Finish, Exceptions
  <1>6. CASE GoldPrepare
    BY <1>6, QuietOrAbort DEF GoldPrepare, Finish, Exceptions
  <1>7. CASE GoldFiles
    BY <1>7, QuietOrAbort DEF GoldFiles, Finish, Exceptions
  <1>8. CASE CandWrite
    BY <1>8, QuietOrAbort DEF CandWrite, Finish, Exceptions
  <1>9. CASE Check
    BY <1>9, QuietOrAbort DEF Check
  <1>10. CASE GoldDone
    BY <1>10, GoldDoneRefines
  <1>11. CASE CandDone
    BY <1>11, CandDoneRefines
  <1>12. CASE Console
    BY <1>12, ConsoleRefines
  <1>13. CASE Diff
    BY <1>13, DiffRefines
  <1>14. CASE RunStep /\ UNCHANGED valVars
    BY <1>14 DEF valVars, DT!dtVars
  <1>15. CASE UNCHANGED vars
    BY <1>15 DEF vars, valVars, DT!dtVars
  <1>16. QED
    BY <1>1, <1>2, <1>3, <1>4, <1>5, <1>6, <1>7, <1>8, <1>9, <1>10, <1>11, <1>12,
       <1>13, <1>14, <1>15 DEF Next, AttemptStep

LEMMA DiffTestInit == AttemptInit => DT!DTInit
  BY DEF AttemptInit, DT!DTInit

(***************************************************************************)
(* validator_cb implements the differential test, for every set of        *)
(* registered configurations: the gold standard, when needed, is produced *)
(* once and before the candidate, which runs only after a clean gold run; *)
(* the error of each run is reported as that run's; only a clean          *)
(* candidate is judged, on its console output first; the verdict is final. *)
(***************************************************************************)
THEOREM ValidatorImplementsDiffTestThm == Spec => ValidatorImplementsDiffTest
  <1>1. VIInv /\ RunsOrdered /\ [Next]_vars => [DT!DTNext]_DT!dtVars
    BY DiffTestStep
  <1>2. QED
    BY <1>1, DiffTestInit, OrderedInvariant, PTL
       DEF Spec, ValidatorImplementsDiffTest, DT!DTSpec

=============================================================================
