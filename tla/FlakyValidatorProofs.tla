------------------------ MODULE FlakyValidatorProofs ------------------------
(***************************************************************************)
(* Proofs, for every flakiness value and every set of configurations, that *)
(* flaky_wrapped_cb running real validator_cb attempts (module            *)
(* FlakyValidator) keeps its types, starts every retry with no process of *)
(* an earlier attempt alive, and implements the safety part of the        *)
(* abstract retry loop of module Flakiness.                                *)
(***************************************************************************)
EXTENDS FlakyValidator, ValidatorProofs

(***************************************************************************)
(* The loop's own invariant: its types, and the index is within the       *)
(* budget once an attempt has started (a retry past the budget leaves the *)
(* next attempt at its start, where LoopExhausted takes over).            *)
(***************************************************************************)
LoopOK ==
    /\ fpc \in {"loop", "returned", "raised"}
    /\ j \in 1..(Attempts + 1)
    /\ error \in VError \cup {Unbound}
    /\ result \in VReturned \cup VRaised \cup {UnboundRaise, None}
    /\ outcomes \in Seq(ErrNames \cup Exceptions \cup {None})
    /\ (fpc = "loop" /\ vpc /= "start") => j <= Attempts

(* The attempt's invariant holds for the attempt the loop is running, and  *)
(* a wrapper that has returned left no process behind.                     *)
FIInv == VIInv /\ Ended /\ LoopOK /\ WrapperReturnMeansReaped

USE LoopAssumption, NoneNotError, ConfigsAssumption, RawOutputsAssumption, ValuesAssumption, NoneAssumption

LEMMA AttemptsType == Attempts \in Nat \ {0}
  BY DEF Attempts

(* How an attempt ended, as the loop records it.                           *)
LEMMA OutcomeType ==
  ASSUME NEW v \in VReturned \cup VRaised
  PROVE  Outcome(v) \in ErrNames \cup Exceptions \cup {None}
  <1>1. CASE v \in VRaised
    BY <1>1 DEF Outcome, VRaised
  <1>2. CASE v \in VReturned /\ v.error = None
    BY <1>2 DEF Outcome, VReturned
  <1>3. CASE v \in VReturned /\ v.error /= None
    <2>1. v.error \in VError /\ v.kind = "return"
      BY <1>3 DEF VReturned
    <2>2. ErrName(v.error) \in ErrNames
      BY <2>1, Zenon DEF ErrNames
    <2>3. QED
      BY <2>1, <2>2 DEF Outcome
  <1>4. QED
    BY <1>1, <1>2, <1>3

(***************************************************************************)
(* A retry starts a new attempt in the state AttemptInit describes, on the *)
(* same configuration and disk, provided no process is left: then the     *)
(* attempt's invariant holds again.                                        *)
(***************************************************************************)
LEMMA NextAttemptIInv ==
  ASSUME VIInv, procs = {}, NextAttempt
  PROVE  VIInv' /\ Ended'
  <1>1. config' \in Configs /\ inputs' \in BOOLEAN
    BY DEF NextAttempt, VIInv, ValTypeOK
  <1>2. Passed \in VReturned /\ Passed /= None
    BY ResultValues
  <1>3. RunTypeOK' /\ ValTypeOK' /\ VresOK'
    BY <1>1 DEF NextAttempt, RunTypeOK, ValTypeOK, VresOK, RPcs, VPcs, NoSan, Sanitizers
  <1>4. RunPhase' /\ GoldEnv' /\ FilesTagged' /\ Success' /\ Ended'
    BY <1>2 DEF NextAttempt, RunPhase, WaitReaping, GoldEnv, FilesTagged, Success, Ended
  <1>5. QED
    BY <1>3, <1>4 DEF VIInv

LEMMA FInitIInv == FInit => FIInv
  <1> SUFFICES ASSUME FInit PROVE FIInv
    OBVIOUS
  <1>1. VIInv
    BY VInitIInv DEF FInit
  <1>2. Ended
    BY DEF FInit, AttemptInit, Ended
  <1>3. LoopOK /\ WrapperReturnMeansReaped
    BY AttemptsType DEF FInit, LoopOK, WrapperReturnMeansReaped
  <1>4. QED
    BY <1>1, <1>2, <1>3 DEF FIInv

(* The attempt that just ended left no process behind unless it raised    *)
(* subprocess.TimeoutExpired.                                              *)
LEMMA EndedAttempt ==
  ASSUME FIInv, vpc = "done"
  PROVE  /\ vres \in VReturned \cup VRaised
         /\ (vres.kind = "return" \/ vres.exc = "TimeoutError") => procs = {}
  <1>1. vres \in VReturned \cup VRaised /\ (procs = {} \/ vres = Throw("TimeoutExpired"))
    BY DEF FIInv, VIInv, VresOK, Ended
  <1>2. QED
    BY <1>1 DEF Throw

(* A step that leaves the attempt alone keeps its invariant.               *)
LEMMA AttemptStutter ==
  ASSUME FIInv, UNCHANGED vars PROVE VIInv' /\ Ended'
  <1>1. [Next]_vars
    OBVIOUS
  <1>2. QED
    BY <1>1, VStepIInv, EndedStep DEF FIInv

(* A step of the running attempt: the loop's state stands still.           *)
LEMMA AttemptRunsIInv ==
  ASSUME FIInv, AttemptRuns PROVE FIInv'
  <1>1. [Next]_vars
    BY DEF AttemptRuns, Next
  <1>2. VIInv' /\ Ended'
    BY <1>1, VStepIInv, EndedStep DEF FIInv
  <1>3. LoopOK' /\ WrapperReturnMeansReaped'
    BY DEF AttemptRuns, loopVars, FIInv, LoopOK, WrapperReturnMeansReaped
  <1>4. QED
    BY <1>2, <1>3 DEF FIInv

(* The loop goes on to a new attempt after a returned error or a           *)
(* TimeoutError.                                                           *)
LEMMA RetryIIinv ==
  ASSUME FIInv, fpc = "loop", vpc = "done", procs = {},
         outcomes' = Append(outcomes, Outcome(vres)),
         j' = j + 1, NextAttempt, UNCHANGED <<fpc, result>>,
         error' \in VError \cup {Unbound}
  PROVE  FIInv'
  <1>1. VIInv' /\ Ended'
    BY NextAttemptIInv DEF FIInv
  <1>2. vres \in VReturned \cup VRaised
    BY EndedAttempt
  <1>3. Outcome(vres) \in ErrNames \cup Exceptions \cup {None}
    BY <1>2, OutcomeType
  <1>4. j \in 1..Attempts
    BY AttemptsType DEF FIInv, LoopOK
  <1>5. LoopOK' /\ WrapperReturnMeansReaped'
    BY <1>3, <1>4, AttemptsType DEF FIInv, LoopOK, NextAttempt, WrapperReturnMeansReaped
  <1>6. QED
    BY <1>1, <1>5 DEF FIInv

LEMMA ConsumeIInv ==
  ASSUME FIInv, Consume PROVE FIInv'
  <1>1. vres \in VReturned \cup VRaised
    BY EndedAttempt DEF Consume
  <1>2. Outcome(vres) \in ErrNames \cup Exceptions \cup {None}
    BY <1>1, OutcomeType
  <1>3. outcomes' \in Seq(ErrNames \cup Exceptions \cup {None})
    BY <1>2 DEF Consume, FIInv, LoopOK
  <1>4. CASE vres.kind = "return" /\ vres.error = None
    <2>1. fpc' = "returned" /\ result' = vres /\ UNCHANGED <<j, error, vars>>
      BY <1>4 DEF Consume
    <2>2. VIInv' /\ Ended'
      BY <2>1, AttemptStutter
    <2>3. LoopOK'
      BY <1>1, <1>3, <2>1 DEF FIInv, LoopOK
    <2>4. vres = Passed
      BY <1>1, <1>4 DEF VReturned, VRaised, Passed
    <2>5. procs' = procs /\ procs = {}
      BY <2>1, <2>4 DEF vars, runVars, FIInv, VIInv, Success
    <2>6. QED
      BY <2>2, <2>3, <2>5 DEF FIInv, WrapperReturnMeansReaped
  <1>5. CASE vres.kind = "return" /\ vres.error /= None
    <2>1. error' = vres.error /\ j' = j + 1 /\ NextAttempt /\ UNCHANGED <<fpc, result>>
      BY <1>5 DEF Consume
    <2>2. vres.error \in VError
      BY <1>1, <1>5 DEF VReturned, VRaised
    <2>3. procs = {}
      BY <1>5, EndedAttempt DEF Consume
    <2>4. QED
      BY <2>1, <2>2, <2>3, RetryIIinv DEF Consume
  <1>6. CASE vres.kind = "raise" /\ vres.exc = "TimeoutError"
    <2>1. j' = j + 1 /\ NextAttempt /\ UNCHANGED <<fpc, error, result>>
      BY <1>6 DEF Consume
    <2>2. error \in VError \cup {Unbound}
      BY DEF FIInv, LoopOK
    <2>3. procs = {}
      BY <1>6, EndedAttempt DEF Consume
    <2>4. QED
      BY <2>1, <2>2, <2>3, RetryIIinv DEF Consume
  <1>7. CASE ~(vres.kind = "return") /\ ~(vres.kind = "raise" /\ vres.exc = "TimeoutError")
    <2>1. fpc' = "raised" /\ result' = vres /\ UNCHANGED <<j, error, vars>>
      BY <1>7 DEF Consume
    <2>2. VIInv' /\ Ended'
      BY <2>1, AttemptStutter
    <2>3. LoopOK'
      BY <1>1, <1>3, <2>1 DEF FIInv, LoopOK
    <2>4. QED
      BY <2>1, <2>2, <2>3 DEF FIInv, WrapperReturnMeansReaped
  <1>8. QED
    BY <1>4, <1>5, <1>6, <1>7

LEMMA ExhaustedIInv ==
  ASSUME FIInv, LoopExhausted PROVE FIInv'
  <1>1. UNCHANGED vars /\ UNCHANGED <<j, error, outcomes>>
    BY DEF LoopExhausted
  <1>2. VIInv' /\ Ended'
    BY <1>1, AttemptStutter
  <1>3. error /= Unbound => [kind |-> "return", error |-> error] \in VReturned
    BY DEF FIInv, LoopOK, VReturned
  <1>4. LoopOK'
    BY <1>1, <1>3 DEF LoopExhausted, FIInv, LoopOK
  <1>5. vpc = "start"
    BY AttemptsType DEF LoopExhausted, FIInv, LoopOK
  <1>6. procs' = procs /\ procs = {}
    BY <1>1, <1>5 DEF vars, runVars, FIInv, VIInv, RunPhase
  <1>7. QED
    BY <1>2, <1>4, <1>6 DEF FIInv, WrapperReturnMeansReaped

LEMMA FStepIInv == FIInv /\ [FNext]_fvars => FIInv'
  <1> SUFFICES ASSUME FIInv, [FNext]_fvars PROVE FIInv'
    OBVIOUS
  <1>1. CASE UNCHANGED fvars
    <2>1. UNCHANGED vars /\ UNCHANGED loopVars /\ vpc' = vpc
      BY <1>1 DEF fvars, vars, valVars
    <2>2. VIInv' /\ Ended'
      BY <2>1, AttemptStutter
    <2>3. LoopOK' /\ WrapperReturnMeansReaped'
      BY <2>1 DEF loopVars, vars, runVars, FIInv, LoopOK, WrapperReturnMeansReaped
    <2>4. QED
      BY <2>2, <2>3 DEF FIInv
  <1>2. QED
    BY <1>1, AttemptRunsIInv, ConsumeIInv, ExhaustedIInv DEF FNext

-----------------------------------------------------------------------------
(***************************************************************************)
(* Refinement.  Seen through Flak, a step of a running attempt changes     *)
(* nothing, the end of an attempt is one Attempt step of Flakiness with    *)
(* the outcome of the attempt, and the end of the loop is Exhausted.       *)
(***************************************************************************)
LEMMA ErrNameType ==
  ASSUME NEW e \in VError PROVE ErrName(e) \in ErrNames /\ ErrName(e) /= Unbound
  <1>1. ErrName(e) \in ErrNames
    BY Zenon DEF ErrNames
  <1>2. QED
    BY <1>1

LEMMA FInitRefines == FInit => Flak!Init
  BY DEF FInit, Flak!Init, ErrVal, Res

LEMMA ConsumeRefines ==
  ASSUME FIInv, Consume PROVE Flak!Next
  <1> DEFINE o == Outcome(vres)
  <1>1. vres \in VReturned \cup VRaised /\ vres /= None
    BY EndedAttempt DEF Consume
  <1>2. fpc = "loop" /\ j <= Flak!Budget /\ outcomes' = Append(outcomes, o)
    BY AttemptsType DEF Consume, FIInv, LoopOK, Flak!Budget, Attempts
  <1>4. CASE vres.kind = "return" /\ vres.error = None
    <2>1. fpc' = "returned" /\ result' = vres /\ UNCHANGED <<j, error>>
      BY <1>4 DEF Consume
    <2>2. o = None /\ Res(result') = None
      BY <1>1, <1>4, <2>1 DEF Res, Outcome
    <2>3. Flak!Attempt(o)
      BY <1>2, <2>1, <2>2 DEF Flak!Attempt
    <2>4. QED
      BY <2>2, <2>3 DEF Flak!Next, Flak!Outcomes
  <1>5. CASE vres.kind = "return" /\ vres.error /= None
    <2>1. error' = vres.error /\ j' = j + 1 /\ UNCHANGED <<fpc, result>>
      BY <1>5 DEF Consume
    <2>2. vres.error \in VError
      BY <1>1, <1>5 DEF VReturned, VRaised
    <2>3. o = ErrName(vres.error) /\ o \in ErrNames /\ ErrVal(error') = o
      BY <1>5, <2>1, <2>2, ErrNameType, LoopAssumption DEF Outcome, ErrVal
    <2>4. Flak!Attempt(o)
      BY <1>2, <2>1, <2>3 DEF Flak!Attempt
    <2>5. QED
      BY <2>3, <2>4 DEF Flak!Next, Flak!Outcomes
  <1>6. CASE vres.kind = "raise" /\ vres.exc = "TimeoutError"
    <2>1. j' = j + 1 /\ UNCHANGED <<fpc, error, result>>
      BY <1>6 DEF Consume
    <2>2. o = "TimeoutError"
      BY <1>6 DEF Outcome
    <2>3. Flak!Attempt(o)
      BY <1>2, <2>1, <2>2 DEF Flak!Attempt
    <2>4. QED
      BY <2>2, <2>3 DEF Flak!Next, Flak!Outcomes
  <1>7. CASE ~(vres.kind = "return") /\ ~(vres.kind = "raise" /\ vres.exc = "TimeoutError")
    <2>1. fpc' = "raised" /\ result' = vres /\ UNCHANGED <<j, error>>
      BY <1>7 DEF Consume
    <2>2. vres \in VRaised
      BY <1>1, <1>7 DEF VReturned
    <2>3. o = vres.exc /\ o \in Exceptions \ {"TimeoutError"} /\ Res(result') = o
      BY <1>1, <1>7, <2>1, <2>2 DEF Outcome, VRaised, Res
    <2>4. Flak!Attempt(o)
      BY <1>2, <2>1, <2>3 DEF Flak!Attempt
    <2>5. QED
      BY <2>3, <2>4 DEF Flak!Next, Flak!Outcomes
  <1>8. QED
    BY <1>4, <1>5, <1>6, <1>7

LEMMA ExhaustedRefines ==
  ASSUME FIInv, LoopExhausted PROVE Flak!Exhausted
  <1>1. error \in VError \cup {Unbound}
    BY DEF FIInv, LoopOK
  <1>2. CASE error = Unbound
    BY <1>2 DEF LoopExhausted, Flak!Exhausted, ErrVal, Res, Outcome, UnboundRaise,
                Flak!Budget, Attempts
  <1>3. CASE error /= Unbound
    <2>1. error \in VError /\ ErrVal(error) = ErrName(error) /\ ErrVal(error) /= Unbound
      BY <1>1, <1>3, ErrNameType DEF ErrVal
    <2>2. error /= None
      BY <2>1, NoneNotError
    <2>3. Res(result') = ErrName(error)
      BY <1>3, <2>1, <2>2, NoneNotError DEF LoopExhausted, Res, Outcome, VReturned
    <2>4. QED
      BY <1>3, <2>1, <2>3 DEF LoopExhausted, Flak!Exhausted, Flak!Budget, Attempts
  <1>4. QED
    BY <1>2, <1>3

LEMMA FStepRefines == FIInv /\ [FNext]_fvars => [Flak!Next]_Flak!vars
  <1> SUFFICES ASSUME FIInv, [FNext]_fvars PROVE [Flak!Next]_Flak!vars
    OBVIOUS
  <1>1. CASE AttemptRuns \/ UNCHANGED fvars
    BY <1>1 DEF AttemptRuns, fvars, loopVars, Flak!vars
  <1>2. CASE Consume
    BY <1>2, ConsumeRefines
  <1>3. CASE LoopExhausted
    BY <1>3, ExhaustedRefines DEF Flak!Next
  <1>4. QED
    BY <1>1, <1>2, <1>3 DEF FNext

-----------------------------------------------------------------------------
(* The proofs of module FlakinessProofs, read through the same mapping.    *)
FP == INSTANCE FlakinessProofs WITH
    Errors <- ErrNames,
    Escaping <- Exceptions \ {"TimeoutError"},
    NoError <- None,
    error <- ErrVal(error),
    result <- Res(result)

(* The assumptions of Flakiness hold of the names the mapping gives.      *)
LEMMA FlakAssumptions ==
  /\ flakiness \in Int
  /\ None \notin ErrNames \cup (Exceptions \ {"TimeoutError"})
  /\ Unbound \notin ErrNames \cup (Exceptions \ {"TimeoutError"}) \cup {None}
  /\ ErrNames \cap (Exceptions \ {"TimeoutError"}) = {}
  /\ "TimeoutError" \notin ErrNames \cup (Exceptions \ {"TimeoutError"}) \cup {None, Unbound}
  /\ "UnboundLocalError" \notin ErrNames \cup (Exceptions \ {"TimeoutError"}) \cup {None, Unbound}
  BY LoopAssumption, NamesAssumption DEF Exceptions

LEMMA FIInvariant == FSpec => []FIInv
  BY FInitIInv, FStepIInv, PTL DEF FSpec

(***************************************************************************)
(* flaky_wrapped_cb composed with the steps of validator_cb implements the *)
(* safety part of the retry loop of Flakiness: it starts as the loop       *)
(* starts, and every step is a whole attempt with its outcome, the end of *)
(* the loop, or leaves the loop's state alone.                             *)
(***************************************************************************)
THEOREM FlakinessSafetyRefined == FSpec => Flak!Init /\ [][Flak!Next]_Flak!vars
  BY FInitRefines, FStepRefines, FIInvariant, PTL DEF FSpec

(***************************************************************************)
(* Hence the invariant proved of Flakiness holds of the real attempts: in  *)
(* particular flaky_wrapped_cb returns None only when the last attempt it *)
(* made returned None (SuccessIsReal), and a ValidationError only after   *)
(* the whole budget of attempts.                                           *)
(***************************************************************************)
THEOREM FlakinessInvariantRefined == FSpec => []FP!IInv
  <1>1. Flak!Init => FP!IInv
    BY FlakAssumptions, FP!InitIInv, Zenon DEF FP!Init, Flak!Init
  <1>2. FP!IInv /\ [Flak!Next]_Flak!vars => FP!IInv'
    <2>1. FP!IInv /\ [FP!Next]_FP!vars => FP!IInv'
      BY FlakAssumptions, FP!NextIInv
    <2>2. [Flak!Next]_Flak!vars <=> [FP!Next]_FP!vars
      BY DEF Flak!Next, FP!Next, Flak!vars, FP!vars, Flak!Attempt, FP!Attempt,
             Flak!Exhausted, FP!Exhausted, Flak!Outcomes, FP!Outcomes, Flak!Budget, FP!Budget
    <2>3. QED
      BY <2>1, <2>2
  <1>3. QED
    BY <1>1, <1>2, FlakinessSafetyRefined, PTL

(***************************************************************************)
(* flaky_wrapped_cb composed with the real attempts returns None only when *)
(* the last validator_cb call it made returned None: swallowed            *)
(* TimeoutErrors, however many, never read as a validated benchmark.      *)
(***************************************************************************)
THEOREM SuccessIsRealRefined == FSpec => []Flak!SuccessIsReal
  <1>1. FP!IInv => Flak!SuccessIsReal
    BY DEF FP!IInv, Flak!SuccessIsReal
  <1>2. QED
    BY <1>1, FlakinessInvariantRefined, PTL

(***************************************************************************)
(* flaky_wrapped_cb never returns while a process of one of its attempts  *)
(* still runs (WrapperReturnMeansReaped): a success has reaped everything, *)
(* and the loop is exhausted only after a retry, which starts clean.      *)
(***************************************************************************)
THEOREM WrapperReturnMeansReapedThm == FSpec => []WrapperReturnMeansReaped
  BY FIInvariant, PTL DEF FIInv

(***************************************************************************)
(* Over real attempts, flaky_wrapped_cb returns a ValidationError only     *)
(* after making all max(flakiness, 1) attempts, and it is the error of the *)
(* last attempt that returned one (every later attempt timed out).         *)
(***************************************************************************)
THEOREM ErrorOnlyAfterBudgetRefined == FSpec => []Flak!ErrorOnlyAfterBudget
  <1>1. FP!IInv => Flak!ErrorOnlyAfterBudget
    BY DEF FP!IInv, FP!ErrorTracksLast, FP!LastReturnedIs, Flak!ErrorOnlyAfterBudget,
           Flak!LastReturnedIs, FP!Budget, Flak!Budget
  <1>2. QED
    BY <1>1, FlakinessInvariantRefined, PTL

(* Every state of the retry loop around validator_cb is well typed.       *)
THEOREM FTypeCorrect == FSpec => []FTypeOK
  <1>1. FIInv => FTypeOK
    BY TypeSplit DEF FIInv, VIInv, LoopOK, FTypeOK
  <1>2. QED
    BY <1>1, FIInvariant, PTL

(***************************************************************************)
(* No attempt after the first starts while a process of an earlier one is *)
(* still running (AttemptStartsClean): flaky_wrapped_cb retries only the   *)
(* attempts whose runner calls reaped their processes.                     *)
(***************************************************************************)
THEOREM AttemptStartsCleanThm == FSpec => []AttemptStartsClean
  <1>1. FIInv => AttemptStartsClean
    BY DEF FIInv, VIInv, RunPhase, AttemptStartsClean
  <1>2. QED
    BY <1>1, FIInvariant, PTL

=============================================================================
