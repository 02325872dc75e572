----------------------------- MODULE Flakiness -----------------------------
(***************************************************************************)
(* The flakiness retry loop flaky_wrapped_cb() of _make_cBench_validator() *)
(* (src/compiler_gym/envs/llvm/datasets/cbench.py).  One validation        *)
(* attempt, validator_cb(env), is a single step here whose outcome is any  *)
(* of the ways the call can end:                                           *)
(*   - it returns None (the benchmark validated),                         *)
(*   - it returns a ValidationError (a member of Errors),                 *)
(*   - it raises TimeoutError, which the loop swallows and retries,       *)
(*   - it raises any other exception (a member of Escaping), which leaves *)
(*     the loop at once.                                                   *)
(* The module FlakyValidator refines attempts into the steps of            *)
(* validator_cb; this module is then the abstract specification of the    *)
(* retry loop that the detailed one implements.                            *)
(***************************************************************************)
EXTENDS Integers, Sequences

CONSTANTS
    flakiness,   \* the `flakiness` argument of _make_cBench_validator
    Errors,      \* the ValidationErrors one attempt can return
    Escaping,    \* exceptions other than TimeoutError that validator_cb raises
    NoError,     \* Python None as the result of an attempt or of the wrapper
    Unbound      \* the local `error` before its first assignment

ASSUME FlakinessAssumption == flakiness \in Int

ASSUME ValuesAssumption ==
    /\ NoError \notin Errors \cup Escaping
    /\ Unbound \notin Errors \cup Escaping \cup {NoError}
    /\ Errors \cap Escaping = {}
    /\ "TimeoutError" \notin Errors \cup Escaping \cup {NoError, Unbound}
    /\ "UnboundLocalError" \notin Errors \cup Escaping \cup {NoError, Unbound}

(* range(1, max(flakiness, 1) + 1): the number of attempts the loop allows. *)
Budget == IF flakiness > 1 THEN flakiness ELSE 1

(* What one call of validator_cb can produce.                              *)
Outcomes == {NoError, "TimeoutError"} \cup Errors \cup Escaping

(* What the wrapper can return or raise.                                   *)
Results == {NoError, "UnboundLocalError"} \cup Errors \cup Escaping

VARIABLES
    fpc,       \* "loop" while the for loop runs, "returned" or "raised" after
    j,         \* the loop index
    error,     \* the local variable `error`
    result,    \* what flaky_wrapped_cb returned or raised
    outcomes   \* history: the outcome of every attempt made so far

vars == <<fpc, j, error, result, outcomes>>

TypeOK ==
    /\ fpc \in {"loop", "returned", "raised"}
    /\ j \in 1..(Budget + 1)
    /\ error \in Errors \cup {Unbound}
    /\ result \in Results \cup {NoError}
    /\ outcomes \in Seq(Outcomes)

Init ==
    /\ fpc = "loop"
    /\ j = 1
    /\ error = Unbound
    /\ result = NoError
    /\ outcomes = <<>>

(***************************************************************************)
(* Variants of the loop with plausible bugs, kept to show that the         *)
(* properties below are sensitive to them.                                 *)
(***************************************************************************)
(* A returned error ends the loop at once (no retry).                      *)
AttemptNoRetry(o) ==
    /\ fpc = "loop"
    /\ j <= Budget
    /\ outcomes' = Append(outcomes, o)
    /\ \/ o = NoError /\ fpc' = "returned" /\ result' = NoError /\ UNCHANGED <<j, error>>
       \/ o \in Errors /\ error' = o /\ fpc' = "returned" /\ result' = o /\ UNCHANGED j
       \/ o = "TimeoutError" /\ j' = j + 1 /\ UNCHANGED <<fpc, error, result>>
       \/ o \in Escaping /\ fpc' = "raised" /\ result' = o /\ UNCHANGED <<j, error>>

(* `error = None` before the loop: all-timeout runs come back as success.  *)
ExhaustedErrorNone ==
    /\ fpc = "loop"
    /\ j > Budget
    /\ fpc' = "returned"
    /\ result' = IF error = Unbound THEN NoError ELSE error
    /\ UNCHANGED <<j, error, outcomes>>

(* The unbound local itself reaches the caller.                            *)
ExhaustedLeakUnbound ==
    /\ fpc = "loop"
    /\ j > Budget
    /\ fpc' = "returned"
    /\ result' = error
    /\ UNCHANGED <<j, error, outcomes>>

(***************************************************************************)
(* One iteration of the loop body with outcome o of validator_cb(env).     *)
(* `error = validator_cb(env)` binds `error` only when the call returns;   *)
(* `if not error: return` ends the wrapper with None; TimeoutError is      *)
(* caught and the loop goes on; any other exception propagates.            *)
(***************************************************************************)
Attempt(o) ==
    /\ fpc = "loop"
    /\ j <= Budget
    /\ outcomes' = Append(outcomes, o)
    /\ \/ /\ o = NoError
          /\ fpc' = "returned"
          /\ result' = NoError
          /\ UNCHANGED <<j, error>>
       \/ /\ o \in Errors
          /\ error' = o
          /\ j' = j + 1
          /\ UNCHANGED <<fpc, result>>
       \/ /\ o = "TimeoutError"
          /\ j' = j + 1
          /\ UNCHANGED <<fpc, error, result>>
       \/ /\ o \in Escaping
          /\ fpc' = "raised"
          /\ result' = o
          /\ UNCHANGED <<j, error>>

(***************************************************************************)
(* The loop is exhausted: `return error`.  When no attempt ever returned,  *)
(* `error` was never bound and Python raises UnboundLocalError.            *)
(***************************************************************************)
Exhausted ==
    /\ fpc = "loop"
    /\ j > Budget
    /\ IF error = Unbound
         THEN fpc' = "raised" /\ result' = "UnboundLocalError"
         ELSE fpc' = "returned" /\ result' = error
    /\ UNCHANGED <<j, error, outcomes>>

Next ==
    \/ \E o \in Outcomes : Attempt(o)
    \/ Exhausted

(* Every attempt terminates (the attempt is one step here), and the loop   *)
(* is plain sequential Python code, so it keeps running while enabled.     *)
Spec == Init /\ [][Next]_vars /\ WF_vars(Next)

-----------------------------------------------------------------------------
(* e is the error of the last attempt that returned: it returned e and    *)
(* every later attempt raised TimeoutError.                                *)
LastReturnedIs(e) ==
    \E k \in 1..Len(outcomes) :
        /\ outcomes[k] = e
        /\ \A i \in (k + 1)..Len(outcomes) : outcomes[i] = "TimeoutError"

(***************************************************************************)
(* The wrapper reports success (returns None) only when an attempt         *)
(* actually returned None, and that was the last attempt made: a run of    *)
(* swallowed TimeoutErrors must never read as a validated benchmark.       *)
(***************************************************************************)
SuccessIsReal ==
    (fpc = "returned" /\ result = NoError) =>
        /\ outcomes /= <<>>
        /\ outcomes[Len(outcomes)] = NoError

(***************************************************************************)
(* The wrapper surfaces a ValidationError only after it has used the whole *)
(* budget of max(flakiness, 1) attempts, and the error it returns is the   *)
(* one returned by the last attempt that returned at all.                  *)
(***************************************************************************)
ErrorOnlyAfterBudget ==
    (fpc = "returned" /\ result \in Errors) =>
        /\ Len(outcomes) = Budget
        /\ LastReturnedIs(result)

(***************************************************************************)
(* The spec (section 7) says every failure reaches the caller as a typed   *)
(* value, never an uncaught fault, and (section 8) that an attempt that    *)
(* always times out is retried the budget and then reported.  The loop     *)
(* must therefore never end in UnboundLocalError.                          *)
(***************************************************************************)
NeverUnbound == result /= "UnboundLocalError"

=============================================================================
