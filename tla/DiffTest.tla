----------------------------- MODULE DiffTest ------------------------------
(***************************************************************************)
(* What one validator_cb() attempt (src/compiler_gym/envs/llvm/datasets/   *)
(* cbench.py, lines 285-413) decides, seen from the results of its runs:  *)
(* the differential test of section 4.5 of the spec.                       *)
(*   - The gold standard is produced only when it is needed, before the   *)
(*     candidate runs, and at most once; the candidate runs at most once, *)
(*     and only after a gold standard without error when one is needed.   *)
(*   - An error of the gold run is reported with the gold prefix, an error *)
(*     of the candidate's without it, each with the run's own error type.  *)
(*   - Only a candidate run without error is judged: a console mismatch   *)
(*     under compare_output is "Wrong output"; otherwise the output files *)
(*     decide, and with no output files declared the attempt passes.      *)
(*   - An exception may end the attempt at any point; the verdict, once   *)
(*     given, is final.                                                    *)
(* Module Validator implements this specification.                         *)
(***************************************************************************)
CONSTANTS
    Configs,     \* the validators registered for the benchmark
    Results,     \* what a run of the benchmark can return
    Exceptions,  \* the exceptions that can escape validator_cb
    None         \* Python None

VARIABLES
    cfg,       \* the configuration of the validator
    goldRes,   \* the result of the gold-standard run, None before it
    candRes,   \* the result of the candidate run, None before it
    verdict    \* what the attempt returned or raised, None while it runs

dtVars == <<cfg, goldRes, candRes, verdict>>

Verdict(type, isGold) == [kind |-> "return", error |-> [gold |-> isGold, type |-> type]]
Pass == [kind |-> "return", error |-> None]
Thrown(exc) == [kind |-> "raise", exc |-> exc]

NeedsGoldRun(c) == c.compare_output \/ c.output_files /= <<>>

(* The candidate's console output differs from the gold standard's where  *)
(* it is compared.                                                         *)
ConsoleMismatch == cfg.compare_output /\ goldRes.output /= candRes.output

DTInit ==
    /\ cfg \in Configs
    /\ goldRes = None
    /\ candRes = None
    /\ verdict = None

(* The gold run returns; an error ends the attempt with the gold prefix.  *)
GoldRan ==
    /\ verdict = None /\ goldRes = None /\ candRes = None
    /\ NeedsGoldRun(cfg)
    /\ goldRes' \in Results
    /\ verdict' = IF goldRes'.error = None THEN None ELSE Verdict(goldRes'.error, TRUE)
    /\ UNCHANGED <<cfg, candRes>>

(* The candidate run returns; its error is the attempt's.                 *)
CandRan ==
    /\ verdict = None /\ candRes = None
    /\ NeedsGoldRun(cfg) => goldRes /= None /\ goldRes.error = None
    /\ candRes' \in Results
    /\ verdict' = IF candRes'.error = None THEN None ELSE Verdict(candRes'.error, FALSE)
    /\ UNCHANGED <<cfg, goldRes>>

(* A clean candidate run is judged on its console output, then its files. *)
Judge(v) ==
    /\ verdict = None /\ candRes /= None /\ candRes.error = None
    /\ v \in IF ConsoleMismatch THEN {Verdict("Wrong output", FALSE)}
             ELSE IF cfg.output_files = <<>> THEN {Pass}
             ELSE {Pass, Verdict("Output not generated", FALSE),
                   Verdict("Wrong output (file)", FALSE)}
    /\ verdict' = v
    /\ UNCHANGED <<cfg, goldRes, candRes>>

(* An exception escapes the attempt.                                       *)
Abort(e) ==
    /\ verdict = None
    /\ verdict' = Thrown(e)
    /\ UNCHANGED <<cfg, goldRes, candRes>>

DTNext ==
    \/ GoldRan \/ CandRan
    \/ \E v \in {Pass} \cup {Verdict(t, FALSE) : t \in {"Wrong output", "Output not generated",
                                                         "Wrong output (file)"}} : Judge(v)
    \/ \E e \in Exceptions : Abort(e)

DTSpec == DTInit /\ [][DTNext]_dtVars

=============================================================================
