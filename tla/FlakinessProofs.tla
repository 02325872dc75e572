-------------------------- MODULE FlakinessProofs --------------------------
(***************************************************************************)
(* Proofs, for every value of flakiness and every set of errors and       *)
(* exceptions, of the safety properties of the retry loop of module       *)
(* Flakiness that the run MCFlakiness checks on one small instance.       *)
(***************************************************************************)
EXTENDS Flakiness, SequenceTheorems, TLAPS

(***************************************************************************)
(* The inductive invariant.  The properties speak only of the states after *)
(* the loop; to carry them through the loop we need what holds inside it:  *)
(* one outcome recorded per index, every recorded outcome a returned error *)
(* or a swallowed timeout, and the local `error` bound exactly when some   *)
(* attempt returned, to the error of the last one that did.               *)
(***************************************************************************)
InLoop ==
    /\ Len(outcomes) = j - 1
    /\ \A k \in 1..Len(outcomes) : outcomes[k] \in Errors \cup {"TimeoutError"}

ErrorTracksLast ==
    /\ error = Unbound => \A k \in 1..Len(outcomes) : outcomes[k] = "TimeoutError"
    /\ error /= Unbound => LastReturnedIs(error)

IInv ==
    /\ TypeOK
    /\ fpc = "loop" => InLoop /\ ErrorTracksLast
    /\ (fpc = "returned" /\ result = NoError) =>
           outcomes /= <<>> /\ outcomes[Len(outcomes)] = NoError
    /\ (fpc = "returned" /\ result \in Errors) =>
           /\ Len(outcomes) = Budget
           /\ result = error
           /\ ErrorTracksLast

USE FlakinessAssumption, ValuesAssumption

LEMMA BudgetType == Budget \in Nat \ {0}
  BY DEF Budget

LEMMA InitIInv == Init => IInv
  BY BudgetType DEF Init, IInv, TypeOK, InLoop, ErrorTracksLast, Results

(***************************************************************************)
(* One step of the loop body preserves the invariant, by the outcome of   *)
(* the attempt.                                                            *)
(***************************************************************************)
LEMMA AttemptIInv ==
  ASSUME IInv, NEW o \in Outcomes, Attempt(o)
  PROVE  IInv'
  <1> DEFINE n == Len(outcomes)
  <1>1. /\ fpc = "loop" /\ j <= Budget
        /\ outcomes \in Seq(Outcomes) /\ InLoop /\ ErrorTracksLast
        /\ j \in 1..(Budget + 1)
    BY DEF Attempt, IInv, TypeOK
  <1>2. /\ outcomes' \in Seq(Outcomes)
        /\ Len(outcomes') = n + 1
        /\ outcomes'[n + 1] = o
        /\ \A k \in 1..n : outcomes'[k] = outcomes[k]
    BY <1>1, AppendProperties DEF Attempt
  <1>3. CASE o = NoError
    <2>1. fpc' = "returned" /\ result' = NoError /\ UNCHANGED <<j, error>>
      BY <1>3 DEF Attempt, Outcomes
    <2>2. TypeOK'
      BY <1>1, <1>2, <2>1, BudgetType DEF IInv, TypeOK, Results
    <2>3. QED
      BY <1>2, <1>3, <2>1, <2>2 DEF IInv
  <1>4. CASE o \in Errors
    <2>1. error' = o /\ j' = j + 1 /\ UNCHANGED <<fpc, result>>
      BY <1>4 DEF Attempt
    <2>2. TypeOK'
      BY <1>1, <1>2, <1>4, <2>1, BudgetType DEF IInv, TypeOK
    <2>3. InLoop'
      BY <1>1, <1>2, <1>4, <2>1 DEF InLoop
    <2>4. ErrorTracksLast'
      <3>1. LastReturnedIs(o)'
        BY <1>2 DEF LastReturnedIs
      <3>2. QED
        BY <1>4, <2>1, <3>1 DEF ErrorTracksLast
    <2>5. QED
      BY <1>1, <2>1, <2>2, <2>3, <2>4 DEF IInv
  <1>5. CASE o = "TimeoutError"
    <2>1. j' = j + 1 /\ UNCHANGED <<fpc, error, result>>
      BY <1>5 DEF Attempt
    <2>2. TypeOK'
      BY <1>1, <1>2, <2>1, BudgetType DEF IInv, TypeOK
    <2>3. InLoop'
      BY <1>1, <1>2, <1>5, <2>1 DEF InLoop
    <2>4. ErrorTracksLast'
      <3>1. CASE error = Unbound
        BY <1>1, <1>2, <1>5, <2>1, <3>1 DEF ErrorTracksLast
      <3>2. CASE error /= Unbound
        <4>1. PICK k \in 1..n : /\ outcomes[k] = error
                                /\ \A i \in (k + 1)..n : outcomes[i] = "TimeoutError"
          BY <1>1, <3>2 DEF ErrorTracksLast, LastReturnedIs
        <4>2. /\ outcomes'[k] = error'
              /\ \A i \in (k + 1)..(n + 1) : outcomes'[i] = "TimeoutError"
          BY <1>1, <1>2, <1>5, <2>1, <4>1
        <4>3. LastReturnedIs(error)'
          BY <1>2, <4>2 DEF LastReturnedIs
        <4>4. QED
          BY <2>1, <3>2, <4>3 DEF ErrorTracksLast
      <3>3. QED
        BY <3>1, <3>2
    <2>5. QED
      BY <1>1, <2>1, <2>2, <2>3, <2>4 DEF IInv
  <1>6. CASE o \in Escaping
    <2>1. fpc' = "raised" /\ result' = o /\ UNCHANGED <<j, error>>
      BY <1>6 DEF Attempt
    <2>2. TypeOK'
      BY <1>1, <1>2, <1>6, <2>1 DEF IInv, TypeOK, Results
    <2>3. QED
      BY <2>1, <2>2 DEF IInv
  <1>7. QED
    BY <1>3, <1>4, <1>5, <1>6 DEF Outcomes

(* Leaving the exhausted loop preserves the invariant.                     *)
LEMMA ExhaustedIInv ==
  ASSUME IInv, Exhausted
  PROVE  IInv'
  <1>1. /\ fpc = "loop" /\ j > Budget /\ InLoop /\ ErrorTracksLast /\ TypeOK
    BY DEF Exhausted, IInv
  <1>2. CASE error = Unbound
    <2>1. fpc' = "raised" /\ result' = "UnboundLocalError" /\ UNCHANGED <<j, error, outcomes>>
      BY <1>2 DEF Exhausted
    <2>2. QED
      BY <1>1, <2>1 DEF IInv, TypeOK, Results
  <1>3. CASE error /= Unbound
    <2>1. fpc' = "returned" /\ result' = error /\ UNCHANGED <<j, error, outcomes>>
      BY <1>3 DEF Exhausted
    <2>2. error \in Errors
      BY <1>1, <1>3 DEF TypeOK
    <2>3. Len(outcomes) = Budget
      BY <1>1, BudgetType DEF InLoop, TypeOK
    <2>4. QED
      BY <1>1, <2>1, <2>2, <2>3 DEF IInv, TypeOK, Results, ErrorTracksLast, LastReturnedIs
  <1>4. QED
    BY <1>2, <1>3

LEMMA NextIInv == IInv /\ [Next]_vars => IInv'
  <1> SUFFICES ASSUME IInv, [Next]_vars PROVE IInv'
    OBVIOUS
  <1>1. ASSUME NEW o \in Outcomes, Attempt(o) PROVE IInv'
    BY <1>1, AttemptIInv
  <1>2. CASE Exhausted
    BY <1>2, ExhaustedIInv
  <1>3. CASE UNCHANGED vars
    BY <1>3 DEF vars, IInv, TypeOK, InLoop, ErrorTracksLast, LastReturnedIs
  <1>4. QED
    BY <1>1, <1>2, <1>3 DEF Next

THEOREM InductiveInvariant == Spec => []IInv
  BY InitIInv, NextIInv, PTL DEF Spec

(* The wrapper's variables keep their types.                              *)
THEOREM TypeCorrect == Spec => []TypeOK
  BY InductiveInvariant, PTL DEF IInv

(* Success is reported only when the last attempt returned None.          *)
THEOREM SuccessIsRealThm == Spec => []SuccessIsReal
  <1>1. IInv => SuccessIsReal
    BY DEF IInv, SuccessIsReal
  <1>2. QED
    BY <1>1, InductiveInvariant, PTL

(* An error is surfaced only after the whole budget, and it is the error  *)
(* of the last attempt that returned.                                     *)
THEOREM ErrorOnlyAfterBudgetThm == Spec => []ErrorOnlyAfterBudget
  <1>1. IInv => ErrorOnlyAfterBudget
    BY DEF IInv, ErrorOnlyAfterBudget, ErrorTracksLast
  <1>2. QED
    BY <1>1, InductiveInvariant, PTL

=============================================================================
