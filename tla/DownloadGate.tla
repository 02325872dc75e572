---------------------------- MODULE DownloadGate ----------------------------
(***************************************************************************)
(* The one-time materialisation of the cBench runtime data: every          *)
(* validator_cb (and CBenchDataset.install) takes _CBENCH_DOWNLOAD_THREAD_LOCK, *)
(* a threading.Lock of its own process, then the fasteners.InterProcessLock *)
(* on .cbench-v1-runtime-data.LOCK, and calls download_cBench_runtime_data(); *)
(* after releasing both it reads the input files from the data directory.   *)
(* (src/compiler_gym/envs/llvm/datasets/cbench.py.)                         *)
(*                                                                          *)
(* The inter-process lock is a POSIX record lock: it belongs to the        *)
(* process, so a second thread of the holder's process is not excluded by  *)
(* it; the thread lock is what excludes it.  A process can crash at any    *)
(* step: its threads and its thread lock vanish, the operating system      *)
(* drops its file lock, and what it left on disk stays.                    *)
(***************************************************************************)
EXTENDS FiniteSets

CONSTANTS
    Procs,     \* the processes that use the runtime data
    Threads,   \* the threads of each process that may validate at once
    NoOne      \* no holder

ASSUME GateAssumption ==
    /\ NoOne \notin Procs
    /\ NoOne \notin Threads

VARIABLES
    pc,       \* pc[p][t]: where thread t of process p is
    tlock,    \* tlock[p]: the thread holding p's _CBENCH_DOWNLOAD_THREAD_LOCK
    flock,    \* the process holding the inter-process file lock
    data,     \* the runtime_data directory: "absent", "partial", "complete"
    marker    \* runtime_data / "unpacked" exists

gateVars == <<pc, tlock, flock, data, marker>>

PCs == {"idle", "tlock", "flock", "check", "rm", "download", "extract",
        "extracting", "touch", "release", "use"}

GateTypeOK ==
    /\ pc \in [Procs -> [Threads -> PCs]]
    /\ tlock \in [Procs -> Threads \cup {NoOne}]
    /\ flock \in Procs \cup {NoOne}
    /\ data \in {"absent", "partial", "complete"}
    /\ marker \in BOOLEAN

GateInit ==
    /\ pc = [p \in Procs |-> [t \in Threads |-> "idle"]]
    /\ tlock = [p \in Procs |-> NoOne]
    /\ flock = NoOne
    /\ data \in {"absent", "partial", "complete"}
    /\ marker \in IF data = "complete" THEN BOOLEAN ELSE {FALSE}

Goto(p, t, to) == pc' = [pc EXCEPT ![p][t] = to]

(* Leaving both `with` blocks releases the file lock, then the thread lock. *)
ReleaseBoth(p) ==
    /\ flock' = NoOne
    /\ tlock' = [tlock EXCEPT ![p] = NoOne]

-----------------------------------------------------------------------------
(* A validation (or an install) begins.                                   *)
Begin(p, t) ==
    /\ pc[p][t] = "idle"
    /\ Goto(p, t, "tlock")
    /\ UNCHANGED <<tlock, flock, data, marker>>

(* Variant that drops the thread lock: the file lock alone guards the call. *)
TakeThreadLockSkipped(p, t) ==
    /\ pc[p][t] = "tlock"
    /\ flock \in {NoOne, p}
    /\ flock' = p
    /\ Goto(p, t, "check")
    /\ UNCHANGED <<tlock, data, marker>>

(* with _CBENCH_DOWNLOAD_THREAD_LOCK:                                     *)
TakeThreadLock(p, t) ==
    /\ pc[p][t] = "tlock"
    /\ tlock[p] = NoOne
    /\ tlock' = [tlock EXCEPT ![p] = t]
    /\ Goto(p, t, "flock")
    /\ UNCHANGED <<flock, data, marker>>

(* with fasteners.InterProcessLock(...): free, or already the process's.  *)
TakeFileLock(p, t) ==
    /\ pc[p][t] = "flock"
    /\ flock \in {NoOne, p}
    /\ flock' = p
    /\ Goto(p, t, "check")
    /\ UNCHANGED <<tlock, data, marker>>

(* Variant that trusts the directory: `if cbench_data.is_dir(): return`.   *)
CheckMarkerDirOnly(p, t) ==
    /\ pc[p][t] = "check"
    /\ Goto(p, t, IF data /= "absent" THEN "release" ELSE "rm")
    /\ UNCHANGED <<tlock, flock, data, marker>>

(* if (cbench_data / "unpacked").is_file(): return False                  *)
CheckMarker(p, t) ==
    /\ pc[p][t] = "check"
    /\ Goto(p, t, IF marker THEN "release" ELSE "rm")
    /\ UNCHANGED <<tlock, flock, data, marker>>

(* Clean up any partially-extracted data directory.                       *)
RemovePartial(p, t) ==
    /\ pc[p][t] = "rm"
    /\ data' = "absent"
    /\ marker' = FALSE
    /\ Goto(p, t, "download")
    /\ UNCHANGED <<tlock, flock>>

(* download(url, sha256): succeeds, or raises out of both `with` blocks.   *)
Download(p, t) ==
    /\ pc[p][t] = "download"
    /\ \/ Goto(p, t, "extract") /\ UNCHANGED <<tlock, flock>>
       \/ Goto(p, t, "idle") /\ ReleaseBoth(p)
    /\ UNCHANGED <<data, marker>>

(* Variant that touches the marker before extracting instead of after.    *)
ExtractStartMarked(p, t) ==
    /\ pc[p][t] = "extract"
    /\ data' = "partial"
    /\ marker' = TRUE
    /\ Goto(p, t, "extracting")
    /\ UNCHANGED <<tlock, flock>>

(* tar.extractall(cbench_data.parent) starts writing the directory.       *)
ExtractStart(p, t) ==
    /\ pc[p][t] = "extract"
    /\ data' = "partial"
    /\ Goto(p, t, "extracting")
    /\ UNCHANGED <<tlock, flock, marker>>

(* The extraction completes, or fails and raises, leaving a partial tree.  *)
ExtractEnd(p, t) ==
    /\ pc[p][t] = "extracting"
    /\ \/ data' = "complete" /\ Goto(p, t, "touch") /\ UNCHANGED <<tlock, flock>>
       \/ UNCHANGED data /\ Goto(p, t, "idle") /\ ReleaseBoth(p)
    /\ UNCHANGED marker

(* (cbench_data / "unpacked").touch(): the directory is ready.            *)
Touch(p, t) ==
    /\ pc[p][t] = "touch"
    /\ marker' = TRUE
    /\ Goto(p, t, "release")
    /\ UNCHANGED <<tlock, flock, data>>

(* Both `with` blocks end; the validator goes on to read the input files. *)
Release(p, t) ==
    /\ pc[p][t] = "release"
    /\ ReleaseBoth(p)
    /\ Goto(p, t, "use")
    /\ UNCHANGED <<data, marker>>

(* The validation reads the runtime data and ends.                        *)
Use(p, t) ==
    /\ pc[p][t] = "use"
    /\ Goto(p, t, "idle")
    /\ UNCHANGED <<tlock, flock, data, marker>>

(* Process p dies (and is restarted): its threads and its locks go.        *)
Crash(p) ==
    /\ \E t \in Threads : pc[p][t] /= "idle"
    /\ pc' = [pc EXCEPT ![p] = [t \in Threads |-> "idle"]]
    /\ tlock' = [tlock EXCEPT ![p] = NoOne]
    /\ flock' = IF flock = p THEN NoOne ELSE flock
    /\ UNCHANGED <<data, marker>>

ThreadStep(p, t) ==
    \/ Begin(p, t) \/ TakeThreadLock(p, t) \/ TakeFileLock(p, t)
    \/ CheckMarker(p, t) \/ RemovePartial(p, t) \/ Download(p, t)
    \/ ExtractStart(p, t) \/ ExtractEnd(p, t) \/ Touch(p, t)
    \/ Release(p, t) \/ Use(p, t)

GateNext ==
    \/ \E p \in Procs, t \in Threads : ThreadStep(p, t)
    \/ \E p \in Procs : Crash(p)

GateSpec == GateInit /\ [][GateNext]_gateVars

-----------------------------------------------------------------------------
(***************************************************************************)
(* A validation that has passed the download step reads a complete        *)
(* runtime data directory, and it stays complete while it is read: no      *)
(* other thread or process, crashed or not, removes or rewrites it.  About *)
(* the marker check, the rmtree of a partial tree and the two locks.       *)
(***************************************************************************)
DataReadyWhenUsed ==
    \A p \in Procs, t \in Threads :
        pc[p][t] = "use" => data = "complete" /\ marker

(***************************************************************************)
(* The marker file is never there unless the directory is complete, even  *)
(* after a crash in the middle of a download or an extraction: the marker  *)
(* is the durable proof of completion.                                     *)
(***************************************************************************)
MarkerMeansComplete ==
    marker => data = "complete"


(* The reads under way: the threads past both `with` blocks.              *)
Reading == {pt \in Procs \X Threads : pc[pt[1]][pt[2]] = "use"}

RD == INSTANCE RuntimeData WITH ready <- marker, readers <- Reading

(***************************************************************************)
(* The gate implements RuntimeData with the marker file as `ready`: the    *)
(* marker appears once, by the touch after a complete extraction, and is   *)
(* never removed again, since the rmtree of a thread that found no marker  *)
(* cannot run after another thread's touch; and a thread goes on to read   *)
(* only with the marker there.  About the marker check, the rmtree and the *)
(* two locks of validator_cb, across crashes.                              *)
(***************************************************************************)
GateRefinesRuntimeData == RD!RDSpec

=============================================================================
