--------------------------- MODULE FlakyValidator ---------------------------
(***************************************************************************)
(* The validator that _make_cBench_validator returns: flaky_wrapped_cb()  *)
(* running whole validator_cb() attempts (module Validator, with its calls *)
(* of _compile_and_run_bitcode_file) in its retry loop.  Each attempt is   *)
(* now the sequence of its own steps; the loop looks only at how the       *)
(* attempt ended, vres, and then starts the next attempt afresh in a new   *)
(* TemporaryDirectory.                                                     *)
(*                                                                         *)
(* The module Flakiness, where an attempt is one step, is the abstract    *)
(* specification; Flak below maps this module's state onto it.            *)
(* (src/compiler_gym/envs/llvm/datasets/cbench.py, lines 288-424.)        *)
(***************************************************************************)
EXTENDS Validator

CONSTANTS
    flakiness,   \* the `flakiness` argument of _make_cBench_validator
    Unbound      \* the local `error` before its first assignment

(* The type a ValidationError carries: "Gold standard: " + type for an    *)
(* error of the gold-standard run (line 335).                              *)
ErrName(e) == IF e.gold THEN "Gold standard: " \o e.type ELSE e.type
ErrNames == {ErrName(e) : e \in VError}

(* UnboundLocalError raised by `return error`.                             *)
UnboundRaise == [kind |-> "raise", exc |-> "UnboundLocalError"]

(* `error` is unbound until an attempt returns: no value it can be bound  *)
(* to; None is not an exception the wrapper raises.                        *)
ASSUME LoopAssumption ==
    /\ flakiness \in Int
    /\ Unbound \notin VError \cup ErrNames \cup Exceptions \cup {None, "UnboundLocalError"}
    /\ None /= UnboundRaise

(* The loop tells outcomes apart by name: a ValidationError's type names  *)
(* no exception, and neither is None or the UnboundLocalError of line 422.  *)
ASSUME NamesAssumption ==
    /\ ErrNames \cap (Exceptions \cup {None, "UnboundLocalError"}) = {}
    /\ None \notin Exceptions \cup {"UnboundLocalError"}

(* range(1, max(flakiness, 1) + 1)                                         *)
Attempts == IF flakiness > 1 THEN flakiness ELSE 1

(* How validator_cb ended, as the loop sees it: None, the type of the     *)
(* returned ValidationError, or the name of the exception it raised.      *)
Outcome(v) ==
    IF v.kind = "raise" THEN v.exc
    ELSE IF v.error = None THEN None ELSE ErrName(v.error)

VARIABLES
    fpc,       \* "loop" while the for loop runs, "returned" or "raised" after
    j,         \* the loop index
    error,     \* the local `error`: the last ValidationError returned, or Unbound
    result,    \* how flaky_wrapped_cb ended, None while it runs
    outcomes   \* history: the outcome of every attempt so far

loopVars == <<fpc, j, error, result, outcomes>>
fvars == <<loopVars, vars>>

FTypeOK ==
    /\ TypeOK
    /\ fpc \in {"loop", "returned", "raised"}
    /\ j \in 1..(Attempts + 1)
    /\ error \in VError \cup {Unbound}
    /\ result \in VReturned \cup VRaised \cup {UnboundRaise, None}
    /\ outcomes \in Seq(ErrNames \cup Exceptions \cup {None})

FInit ==
    /\ AttemptInit
    /\ fpc = "loop"
    /\ j = 1
    /\ error = Unbound
    /\ result = None
    /\ outcomes = <<>>

-----------------------------------------------------------------------------
(* A step of the running attempt: validator_cb(env) is executing.          *)
AttemptRuns ==
    /\ fpc = "loop"
    /\ j <= Attempts
    /\ \/ AttemptStep
       \/ RunStep /\ UNCHANGED valVars
    /\ UNCHANGED loopVars

(* The next attempt: a new call of validator_cb, for the same validator    *)
(* on the same disk, with a new TemporaryDirectory and the runner idle.    *)
(* A process orphaned by an earlier attempt lives on.                      *)
NextAttempt ==
    /\ vpc' = "start"
    /\ rpc' = "idle" /\ san' = NoSan /\ who' = "gold" /\ res' = None
    /\ binary' = FALSE /\ stdout' = None
    /\ files' = [o \in OutFiles |-> Absent]
    /\ goldFiles' = [o \in OutFiles |-> Absent]
    /\ tmpdir' = FALSE /\ gsEnv' = "none" /\ gold' = None /\ goldRaw' = None
    /\ outcome' = None /\ candRaw' = None /\ diag' = FALSE /\ vres' = None
    /\ UNCHANGED <<config, inputs, procs>>

(* Variant that also retries when subprocess.TimeoutExpired escapes.       *)
ConsumeRetryExpired ==
    /\ fpc = "loop"
    /\ vpc = "done"
    /\ outcomes' = Append(outcomes, Outcome(vres))
    /\ CASE vres.kind = "return" /\ vres.error = None ->
              fpc' = "returned" /\ result' = vres /\ UNCHANGED <<j, error, vars>>
         [] vres.kind = "return" /\ vres.error /= None ->
              error' = vres.error /\ j' = j + 1 /\ NextAttempt /\ UNCHANGED <<fpc, result>>
         [] vres.kind = "raise" /\ vres.exc \in {"TimeoutError", "TimeoutExpired"} ->
              j' = j + 1 /\ NextAttempt /\ UNCHANGED <<fpc, error, result>>
         [] OTHER ->
              fpc' = "raised" /\ result' = vres /\ UNCHANGED <<j, error, vars>>

(* Variant without the `return` after a successful attempt.               *)
ConsumeNoReturn ==
    /\ fpc = "loop"
    /\ vpc = "done"
    /\ outcomes' = Append(outcomes, Outcome(vres))
    /\ CASE vres.kind = "return" /\ vres.error = None ->
              j' = j + 1 /\ NextAttempt /\ UNCHANGED <<fpc, error, result>>
         [] vres.kind = "return" /\ vres.error /= None ->
              error' = vres.error /\ j' = j + 1 /\ NextAttempt /\ UNCHANGED <<fpc, result>>
         [] vres.kind = "raise" /\ vres.exc = "TimeoutError" ->
              j' = j + 1 /\ NextAttempt /\ UNCHANGED <<fpc, error, result>>
         [] OTHER ->
              fpc' = "raised" /\ result' = vres /\ UNCHANGED <<j, error, vars>>

(***************************************************************************)
(* validator_cb(env) has ended and the loop body goes on: `error =` binds  *)
(* a returned value, `if not error: return`, `except TimeoutError: pass`;  *)
(* any other exception leaves flaky_wrapped_cb.                            *)
(***************************************************************************)
Consume ==
    /\ fpc = "loop"
    /\ vpc = "done"
    /\ outcomes' = Append(outcomes, Outcome(vres))
    /\ CASE vres.kind = "return" /\ vres.error = None ->
              fpc' = "returned" /\ result' = vres /\ UNCHANGED <<j, error, vars>>
         [] vres.kind = "return" /\ vres.error /= None ->
              error' = vres.error /\ j' = j + 1 /\ NextAttempt /\ UNCHANGED <<fpc, result>>
         [] vres.kind = "raise" /\ vres.exc = "TimeoutError" ->
              j' = j + 1 /\ NextAttempt /\ UNCHANGED <<fpc, error, result>>
         [] OTHER ->
              fpc' = "raised" /\ result' = vres /\ UNCHANGED <<j, error, vars>>

(* Variant that returns `error` without regard to whether it is bound.     *)
LoopExhaustedNoCheck ==
    /\ fpc = "loop"
    /\ j > Attempts
    /\ fpc' = "returned"
    /\ result' = [kind |-> "return", error |-> error]
    /\ UNCHANGED <<j, error, outcomes, vars>>

(* `return error` after the last attempt; UnboundLocalError if unbound.    *)
LoopExhausted ==
    /\ fpc = "loop"
    /\ j > Attempts
    /\ IF error = Unbound
         THEN fpc' = "raised" /\ result' = UnboundRaise
         ELSE fpc' = "returned" /\ result' = [kind |-> "return", error |-> error]
    /\ UNCHANGED <<j, error, outcomes, vars>>

FNext == AttemptRuns \/ Consume \/ LoopExhausted

(* Every step of an attempt is bounded by a timeout or is plain Python, so *)
(* the wrapper keeps running while it can.                                 *)
FSpec == FInit /\ [][FNext]_fvars /\ WF_fvars(FNext)

-----------------------------------------------------------------------------
(* What the wrapper returned or raised, as the abstract loop names it.     *)
Res(w) == IF w = None THEN None ELSE Outcome(w)

(* The local `error` as the abstract loop names it.                        *)
ErrVal(e) == IF e = Unbound THEN Unbound ELSE ErrName(e)

Flak == INSTANCE Flakiness WITH
    Errors <- ErrNames,
    Escaping <- Exceptions \ {"TimeoutError"},
    NoError <- None,
    error <- ErrVal(error),
    result <- Res(result)

(***************************************************************************)
(* The composed validator implements the retry loop of module Flakiness:  *)
(* seen through how each validator_cb call ended, flaky_wrapped_cb retries *)
(* exactly on a returned error or a TimeoutError, stops on success or any  *)
(* other exception, and always ends (with WF on its steps).  Every        *)
(* property proved of Flakiness then holds of the real attempts.          *)
(***************************************************************************)
FlakinessRefined == Flak!Spec

(***************************************************************************)
(* Every retry starts with no process of an earlier attempt still running: *)
(* the attempts that are retried (a returned ValidationError, a           *)
(* TimeoutError of the environment service) are exactly those whose calls  *)
(* of _compile_and_run_bitcode_file reaped their processes, and the        *)
(* TimeoutExpired that leaves an orphan behind is not a TimeoutError and   *)
(* ends the loop.  About the `except TimeoutError` of flaky_wrapped_cb and *)
(* the kill and grace waits of the runner.                                 *)
(***************************************************************************)
AttemptStartsClean ==
    (fpc = "loop" /\ vpc = "start") => procs = {}

(***************************************************************************)
(* When flaky_wrapped_cb returns, with None or with the last               *)
(* ValidationError, no process started by any of its attempts is still    *)
(* running: only the TimeoutExpired that escapes as an exception can leave *)
(* an orphan behind.  About the retry loop together with the kill and      *)
(* grace waits of _compile_and_run_bitcode_file.                            *)
(***************************************************************************)
WrapperReturnMeansReaped ==
    fpc = "returned" => procs = {}

=============================================================================
