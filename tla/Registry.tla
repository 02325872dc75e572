------------------------------ MODULE Registry ------------------------------
(***************************************************************************)
(* The Validator Registry of src/compiler_gym/envs/llvm/datasets/cbench.py: *)
(* the module-level validator(...) calls run one after the other while the *)
(* module is imported (k is the next one), each appending to VALIDATORS    *)
(* and overwriting DYNAMIC_CONFIGS for its benchmark; afterwards the       *)
(* dataset constructs CBenchBenchmark objects, each of which copies the    *)
(* validators and the descriptor registered for its URI.                   *)
(*                                                                         *)
(* A command line is named by the argument that varies between the calls   *)
(* (the input index i, or bitcount's iteration count); input files and    *)
(* ASAN_OPTIONS are not kept (module Validator abstracts both).            *)
(***************************************************************************)
EXTENDS Naturals, Sequences, SequencesExt

CONSTANTS
    Benchmarks,  \* the benchmarks of the dataset that get constructed
    Platforms,   \* the values sys.platform can have
    None         \* Python None

(* LlvmSanitizer, in the order iterating the enum yields.                 *)
LlvmSanitizer == <<"ASAN", "TSAN", "MSAN", "UBSAN">>
NoSan == "None"

(* A validator(...) call; the arguments it leaves out take the defaults of *)
(* the signature: `platforms or [...]` treats None and [] alike.           *)
Call(b, cmd) ==
    [benchmark |-> b, cmd |-> cmd, outs |-> <<>>, platforms |-> <<>>,
     compare_output |-> TRUE, validate_result |-> FALSE, linkopts |-> <<>>,
     pre_execution_callback |-> FALSE, sanitizers |-> None]

Outs(b, i, o) == [Call(b, i) EXCEPT !.outs = <<o>>]
OutsLm(b, i, o) == [Call(b, i) EXCEPT !.outs = <<o>>, !.linkopts = <<"-lm">>]

(* The registrations of one iteration of `for i in range(1, 21)`, up to   *)
(* qsort (the adpcm and ispell calls are commented out).                   *)
FirstCalls(i) ==
    << Outs("blowfish", i, "output.txt"),
       Call("bzip2", i), Call("crc32", i), Call("dijkstra", i), Call("gsm", i),
       [Outs("jpeg-c", i, "output.jpeg") EXCEPT !.sanitizers = <<"TSAN", "UBSAN">>],
       Outs("jpeg-d", i, "output.ppm"),
       Call("patricia", i),
       OutsLm("qsort", i, "sorted_output.dat") >>

(* The rest of the iteration (rijndael, lame and ghostscript are           *)
(* commented out; stringsearch2 is registered for i = 1 only).             *)
LaterCalls(i) ==
    << [Call("sha", i) EXCEPT !.compare_output = FALSE, !.validate_result = TRUE],
       OutsLm("stringsearch", i, "output.txt") >>
    \o (IF i = 1
          THEN << [Outs("stringsearch2", i, "output.txt")
                     EXCEPT !.sanitizers = <<"ASAN", "MSAN", "UBSAN">>] >>
          ELSE << >>)
    \o << OutsLm("susan", i, "output_large.corners.pgm"),
          OutsLm("tiff2bw", i, "output.tif"), OutsLm("tiff2rgba", i, "output.tif"),
          OutsLm("tiffdither", i, "out.tif"), OutsLm("tiffmedian", i, "output.tif") >>

(* Every module-level registration, in program order.                     *)
Calls ==
    << Call("bitcount", 1125000), Call("bitcount", 512) >>
    \o FlattenSeq([i \in 1..20 |-> FirstCalls(i) \o LaterCalls(i)])

Registered == {Calls[n].benchmark : n \in 1..Len(Calls)}

(* One registered validator: its command and the configuration that       *)
(* _make_cBench_validator closes over.                                    *)
Entry(a, s) ==
    [cmd |-> a.cmd,
     config |-> [sanitizer |-> s, compare_output |-> a.compare_output,
                 output_files |-> a.outs, validate_result |-> a.validate_result,
                 pre_execution_callback |-> a.pre_execution_callback]]

(* The BenchmarkDynamicConfig of a call, reduced to what varies.           *)
Descriptor(a) == [cmd |-> a.cmd, outs |-> a.outs, linkopts |-> a.linkopts]

VARIABLES
    platform,         \* sys.platform
    k,                \* the next registration call of the import
    VALIDATORS,       \* benchmark -> its validators, in registration order
    DYNAMIC_CONFIGS,  \* benchmark -> its descriptor, None if absent
    benchmarks        \* benchmark -> the constructed object, None if not yet

regVars == <<platform, k, VALIDATORS, DYNAMIC_CONFIGS, benchmarks>>

(* {"darwin": "macos"}.get(sys.platform, sys.platform)                     *)
PlatformName == IF platform = "darwin" THEN "macos" ELSE platform

RegInit ==
    /\ platform \in Platforms
    /\ k = 1
    /\ VALIDATORS = [b \in Registered \cup Benchmarks |-> << >>]
    /\ DYNAMIC_CONFIGS = [b \in Registered \cup Benchmarks |-> None]
    /\ benchmarks = [b \in Benchmarks |-> None]

(* Variant that registers the sanitized validators on every platform.      *)
RegisterEverywhere ==
    LET a == Calls[k]
        platforms == IF a.platforms = << >> THEN <<"linux", "macos">> ELSE a.platforms
        sanitizers == IF a.sanitizers = None THEN LlvmSanitizer ELSE a.sanitizers
        sanitized == [n \in 1..Len(sanitizers) |-> Entry(a, sanitizers[n])]
    IN
    /\ k <= Len(Calls)
    /\ k' = k + 1
    /\ IF PlatformName \in Range(platforms)
         THEN /\ VALIDATORS' = [VALIDATORS EXCEPT ![a.benchmark] =
                                   @ \o <<Entry(a, NoSan)>> \o sanitized]
              /\ DYNAMIC_CONFIGS' = [DYNAMIC_CONFIGS EXCEPT ![a.benchmark] = Descriptor(a)]
         ELSE UNCHANGED <<VALIDATORS, DYNAMIC_CONFIGS>>
    /\ UNCHANGED <<platform, benchmarks>>

(***************************************************************************)
(* validator(...): nothing on a platform the call excludes; else one       *)
(* unsanitized validator, then on Linux one per sanitizer (all of          *)
(* LlvmSanitizer when `sanitizers is None`), and the benchmark's           *)
(* BenchmarkDynamicConfig replaced by this call's.                         *)
(***************************************************************************)
Register ==
    LET a == Calls[k]
        platforms == IF a.platforms = << >> THEN <<"linux", "macos">> ELSE a.platforms
        sanitizers == IF a.sanitizers = None THEN LlvmSanitizer ELSE a.sanitizers
        sanitized == IF platform = "linux"
                       THEN [n \in 1..Len(sanitizers) |-> Entry(a, sanitizers[n])]
                       ELSE << >>
    IN
    /\ k <= Len(Calls)
    /\ k' = k + 1
    /\ IF PlatformName \in Range(platforms)
         THEN /\ VALIDATORS' = [VALIDATORS EXCEPT ![a.benchmark] =
                                   @ \o <<Entry(a, NoSan)>> \o sanitized]
              /\ DYNAMIC_CONFIGS' = [DYNAMIC_CONFIGS EXCEPT ![a.benchmark] = Descriptor(a)]
         ELSE UNCHANGED <<VALIDATORS, DYNAMIC_CONFIGS>>
    /\ UNCHANGED <<platform, benchmarks>>

(* CBenchBenchmark(uri): add_validation_callback for each of               *)
(* VALIDATORS.get(uri, []) and merge DYNAMIC_CONFIGS.get(uri, empty); the   *)
(* class can only be used once the import has finished.                    *)
Construct(b) ==
    /\ k > Len(Calls)
    /\ benchmarks[b] = None
    /\ benchmarks' = [benchmarks EXCEPT ![b] =
                        [validators |-> VALIDATORS[b], dynamic |-> DYNAMIC_CONFIGS[b]]]
    /\ UNCHANGED <<platform, k, VALIDATORS, DYNAMIC_CONFIGS>>

RegNext == Register \/ \E b \in Benchmarks : Construct(b)

RegSpec == RegInit /\ [][RegNext]_regVars

-----------------------------------------------------------------------------
(* The validators that the signature of validator() promises for b: for    *)
(* each call for b that the platform admits, in call order, the plain one  *)
(* and then, on Linux only, one per sanitizer the call names.              *)
Declared(b) ==
    LET block(a) ==
          LET sans == IF a.sanitizers = None THEN LlvmSanitizer ELSE a.sanitizers
              n == IF platform = "linux" THEN Len(sans) ELSE 0
          IN  [m \in 1..(n + 1) |-> Entry(a, IF m = 1 THEN NoSan ELSE sans[m - 1])]
        admits(a) == PlatformName \in
                       IF a.platforms = << >> THEN {"linux", "macos"} ELSE Range(a.platforms)
        mine == SelectSeq(Calls, LAMBDA a : a.benchmark = b /\ admits(a))
    IN  FlattenSeq([n \in 1..Len(mine) |-> block(mine[n])])

(***************************************************************************)
(* Every CBenchBenchmark object carries exactly the validators declared    *)
(* for its URI, in declaration order, sanitizer variants on Linux only:    *)
(* none is lost to a benchmark built before the import ended, none is      *)
(* added on a platform without sanitizer runtimes.  About validator() and  *)
(* CBenchBenchmark.__init__.                                               *)
(***************************************************************************)
CallbacksAsDeclared ==
    \A b \in Benchmarks :
        benchmarks[b] /= None => benchmarks[b].validators = Declared(b)

=============================================================================
