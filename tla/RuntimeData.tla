---------------------------- MODULE RuntimeData -----------------------------
(***************************************************************************)
(* What the locked call of download_cBench_runtime_data() promises the     *)
(* validators of every process (src/compiler_gym/envs/llvm/datasets/       *)
(* cbench.py, lines 241-260 and 290-292): the runtime data becomes ready   *)
(* at most once, in one step, and is never undone; a validation reads it   *)
(* only once it is ready.  A crash of a process ends its reads.            *)
(* Module DownloadGate, with its two locks, its marker and its partial     *)
(* trees, implements this specification.                                   *)
(***************************************************************************)
CONSTANTS
    Procs,     \* the processes that use the runtime data
    Threads    \* the threads of each process

VARIABLES
    ready,     \* the runtime data is unpacked and ready to go
    readers    \* the (process, thread) pairs reading it

rdVars == <<ready, readers>>

RDInit ==
    /\ ready \in BOOLEAN
    /\ readers = {}

(* The data is unpacked, all at once.                                      *)
Materialise ==
    /\ ~ready
    /\ ready' = TRUE
    /\ UNCHANGED readers

(* A validation goes on to read its input files.                           *)
StartRead(p, t) ==
    /\ ready
    /\ readers' = readers \cup {<<p, t>>}
    /\ UNCHANGED ready

(* The validation is done with the data.                                   *)
EndRead(p, t) ==
    /\ <<p, t>> \in readers
    /\ readers' = readers \ {<<p, t>>}
    /\ UNCHANGED ready

(* Process p dies: its reads end, the data stays.                          *)
ProcCrash(p) ==
    /\ readers' = {r \in readers : r[1] /= p}
    /\ UNCHANGED ready

RDNext ==
    \/ Materialise
    \/ \E p \in Procs, t \in Threads : StartRead(p, t) \/ EndRead(p, t)
    \/ \E p \in Procs : ProcCrash(p)

RDSpec == RDInit /\ [][RDNext]_rdVars

=============================================================================
