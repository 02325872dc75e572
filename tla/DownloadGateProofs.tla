------------------------ MODULE DownloadGateProofs -------------------------
(***************************************************************************)
(* Proofs, for any number of processes and threads, that the download     *)
(* gate of module DownloadGate keeps the runtime data consistent: the two  *)
(* locks make the marker check and the extraction a critical section, and  *)
(* the marker is written only after a complete extraction.                 *)
(***************************************************************************)
EXTENDS DownloadGate, TLAPS

(* The critical section: inside both `with` blocks, past the file lock.   *)
InCS == {"check", "rm", "download", "extract", "extracting", "touch", "release"}

(* The steps between the cleanup and the marker, when it must be absent.  *)
Unpacking == {"rm", "download", "extract", "extracting"}

(***************************************************************************)
(* The inductive invariant.  DataReadyWhenUsed alone is not inductive: a   *)
(* thread's step inside the critical section changes the directory, and   *)
(* only mutual exclusion says that no reader exists then.  A thread past   *)
(* the thread lock owns it; one in the critical section also has its       *)
(* process own the file lock; and the marker is absent while a thread      *)
(* unpacks and until it touches it, present while one releases or reads.  *)
(***************************************************************************)
GateIInv ==
    /\ GateTypeOK
    /\ \A p \in Procs, t \in Threads :
          /\ pc[p][t] \in InCS \cup {"flock"} => tlock[p] = t
          /\ pc[p][t] \in InCS => flock = p
          /\ pc[p][t] \in Unpacking => ~marker
          /\ pc[p][t] = "touch" => data = "complete" /\ ~marker
          /\ pc[p][t] \in {"release", "use"} => marker
    /\ MarkerMeansComplete

USE GateAssumption

LEMMA GateInitIInv == GateInit => GateIInv
  <1> SUFFICES ASSUME GateInit PROVE GateIInv
    OBVIOUS
  <1>1. GateTypeOK
    BY DEF GateInit, GateTypeOK, PCs
  <1>2. \A p \in Procs, t \in Threads : pc[p][t] = "idle"
    BY DEF GateInit
  <1>3. MarkerMeansComplete
    BY DEF GateInit, MarkerMeansComplete
  <1>4. QED
    BY <1>1, <1>2, <1>3 DEF GateIInv, InCS, Unpacking

(***************************************************************************)
(* Mutual exclusion: a thread in the critical section is the only one      *)
(* there, and the only thread of its process past the thread lock.         *)
(***************************************************************************)
LEMMA Exclusion ==
  ASSUME GateIInv, NEW p \in Procs, NEW t \in Threads, pc[p][t] \in InCS
  PROVE  /\ \A q \in Procs, u \in Threads : pc[q][u] \in InCS => q = p /\ u = t
         /\ \A u \in Threads : pc[p][u] \in InCS \cup {"flock"} => u = t
  BY DEF GateIInv

LEMMA BeginIInv ==
  ASSUME GateIInv, NEW p \in Procs, NEW t \in Threads, Begin(p, t)
  PROVE  GateIInv'
  BY DEF GateIInv, GateTypeOK, InCS, Unpacking, MarkerMeansComplete, PCs,
         Begin, Goto, ReleaseBoth

LEMMA TakeThreadLockIInv ==
  ASSUME GateIInv, NEW p \in Procs, NEW t \in Threads, TakeThreadLock(p, t)
  PROVE  GateIInv'
  BY DEF GateIInv, GateTypeOK, InCS, Unpacking, MarkerMeansComplete, PCs,
         TakeThreadLock, Goto, ReleaseBoth

LEMMA TakeFileLockIInv ==
  ASSUME GateIInv, NEW p \in Procs, NEW t \in Threads, TakeFileLock(p, t)
  PROVE  GateIInv'
  BY DEF GateIInv, GateTypeOK, InCS, Unpacking, MarkerMeansComplete, PCs,
         TakeFileLock, Goto, ReleaseBoth

LEMMA CheckMarkerIInv ==
  ASSUME GateIInv, NEW p \in Procs, NEW t \in Threads, CheckMarker(p, t)
  PROVE  GateIInv'
  BY DEF GateIInv, GateTypeOK, InCS, Unpacking, MarkerMeansComplete, PCs,
         CheckMarker, Goto, ReleaseBoth

LEMMA RemovePartialIInv ==
  ASSUME GateIInv, NEW p \in Procs, NEW t \in Threads, RemovePartial(p, t)
  PROVE  GateIInv'
  <1>1. GateTypeOK'
    BY DEF GateIInv, GateTypeOK, PCs, RemovePartial, Goto
  <1>2. ASSUME NEW q \in Procs, NEW u \in Threads
        PROVE  /\ pc'[q][u] \in InCS \cup {"flock"} => tlock'[q] = u
               /\ pc'[q][u] \in InCS => flock' = q
               /\ pc'[q][u] \in Unpacking => ~marker'
               /\ pc'[q][u] = "touch" => data' = "complete" /\ ~marker'
               /\ pc'[q][u] \in {"release", "use"} => marker'
    <2>1. CASE q = p /\ u = t
      BY <2>1 DEF GateIInv, GateTypeOK, InCS, Unpacking, PCs, RemovePartial, Goto
    <2>2. CASE ~(q = p /\ u = t)
      <3>1. pc'[q][u] = pc[q][u] /\ pc[p][t] = "rm"
        BY <2>2 DEF GateIInv, GateTypeOK, PCs, RemovePartial, Goto
      <3>2. flock = p /\ tlock[p] = t
        BY <3>1 DEF GateIInv, InCS
      <3>3. pc[q][u] \notin InCS
        <4>1. /\ pc[q][u] \in InCS \cup {"flock"} => tlock[q] = u
              /\ pc[q][u] \in InCS => flock = q
          BY DEF GateIInv
        <4>2. CASE q = p
          BY <2>2, <3>2, <4>1, <4>2
        <4>3. CASE q /= p
          BY <3>2, <4>1, <4>3
        <4>4. QED
          BY <4>2, <4>3
      <3>4. pc[q][u] /= "use"
        BY <3>1 DEF GateIInv, Unpacking
      <3>5. QED
        BY <3>1, <3>3, <3>4 DEF GateIInv, InCS, Unpacking, RemovePartial
    <2>3. QED
      BY <2>1, <2>2
  <1>3. MarkerMeansComplete'
    BY DEF RemovePartial, MarkerMeansComplete
  <1>4. QED
    BY <1>1, <1>2, <1>3 DEF GateIInv

LEMMA DownloadIInv ==
  ASSUME GateIInv, NEW p \in Procs, NEW t \in Threads, Download(p, t)
  PROVE  GateIInv'
  <1>1. CASE Goto(p, t, "extract") /\ UNCHANGED <<tlock, flock>>
    BY <1>1 DEF GateIInv, GateTypeOK, InCS, Unpacking, MarkerMeansComplete, PCs,
                Download, Goto
  <1>2. CASE Goto(p, t, "idle") /\ ReleaseBoth(p)
    <2>1. pc[p][t] \in InCS
      BY DEF Download, InCS
    <2>2. /\ \A q \in Procs, u \in Threads : pc[q][u] \in InCS => q = p /\ u = t
          /\ \A u \in Threads : pc[p][u] \in InCS \cup {"flock"} => u = t
      BY <2>1, Exclusion
    <2>3. QED
      BY <1>2, <2>2 DEF GateIInv, GateTypeOK, InCS, Unpacking, MarkerMeansComplete,
                       PCs, Download, Goto, ReleaseBoth
  <1>3. QED
    BY <1>1, <1>2 DEF Download

LEMMA ExtractStartIInv ==
  ASSUME GateIInv, NEW p \in Procs, NEW t \in Threads, ExtractStart(p, t)
  PROVE  GateIInv'
  BY DEF GateIInv, GateTypeOK, InCS, Unpacking, MarkerMeansComplete, PCs,
         ExtractStart, Goto, ReleaseBoth

LEMMA ExtractEndIInv ==
  ASSUME GateIInv, NEW p \in Procs, NEW t \in Threads, ExtractEnd(p, t)
  PROVE  GateIInv'
  <1>1. CASE data' = "complete" /\ Goto(p, t, "touch") /\ UNCHANGED <<tlock, flock>>
    BY <1>1 DEF GateIInv, GateTypeOK, InCS, Unpacking, MarkerMeansComplete, PCs,
                ExtractEnd, Goto
  <1>2. CASE UNCHANGED data /\ Goto(p, t, "idle") /\ ReleaseBoth(p)
    <2>1. pc[p][t] \in InCS
      BY DEF ExtractEnd, InCS
    <2>2. /\ \A q \in Procs, u \in Threads : pc[q][u] \in InCS => q = p /\ u = t
          /\ \A u \in Threads : pc[p][u] \in InCS \cup {"flock"} => u = t
      BY <2>1, Exclusion
    <2>3. QED
      BY <1>2, <2>2 DEF GateIInv, GateTypeOK, InCS, Unpacking, MarkerMeansComplete,
                       PCs, ExtractEnd, Goto, ReleaseBoth
  <1>3. QED
    BY <1>1, <1>2 DEF ExtractEnd

LEMMA TouchIInv ==
  ASSUME GateIInv, NEW p \in Procs, NEW t \in Threads, Touch(p, t)
  PROVE  GateIInv'
  BY DEF GateIInv, GateTypeOK, InCS, Unpacking, MarkerMeansComplete, PCs,
         Touch, Goto, ReleaseBoth

LEMMA ReleaseIInv ==
  ASSUME GateIInv, NEW p \in Procs, NEW t \in Threads, Release(p, t)
  PROVE  GateIInv'
  BY DEF GateIInv, GateTypeOK, InCS, Unpacking, MarkerMeansComplete, PCs,
         Release, Goto, ReleaseBoth

LEMMA UseIInv ==
  ASSUME GateIInv, NEW p \in Procs, NEW t \in Threads, Use(p, t)
  PROVE  GateIInv'
  BY DEF GateIInv, GateTypeOK, InCS, Unpacking, MarkerMeansComplete, PCs,
         Use, Goto, ReleaseBoth

LEMMA CrashIInv ==
  ASSUME GateIInv, NEW p \in Procs, Crash(p)
  PROVE  GateIInv'
  BY DEF GateIInv, GateTypeOK, InCS, Unpacking, MarkerMeansComplete, PCs, Crash

LEMMA GateNextIInv == GateIInv /\ [GateNext]_gateVars => GateIInv'
  <1> SUFFICES ASSUME GateIInv, [GateNext]_gateVars PROVE GateIInv'
    OBVIOUS
  <1>a. ASSUME NEW p \in Procs, NEW t \in Threads, ThreadStep(p, t) PROVE GateIInv'
    <2> USE <1>a
    <2>1. CASE Begin(p, t)
      BY <2>1, BeginIInv
    <2>2. CASE TakeThreadLock(p, t)
      BY <2>2, TakeThreadLockIInv
    <2>3. CASE TakeFileLock(p, t)
      BY <2>3, TakeFileLockIInv
    <2>4. CASE CheckMarker(p, t)
      BY <2>4, CheckMarkerIInv
    <2>5. CASE RemovePartial(p, t)
      BY <2>5, RemovePartialIInv
    <2>6. CASE Download(p, t)
      BY <2>6, DownloadIInv
    <2>7. CASE ExtractStart(p, t)
      BY <2>7, ExtractStartIInv
    <2>8. CASE ExtractEnd(p, t)
      BY <2>8, ExtractEndIInv
    <2>9. CASE Touch(p, t)
      BY <2>9, TouchIInv
    <2>10. CASE Release(p, t)
      BY <2>10, ReleaseIInv
    <2>11. CASE Use(p, t)
      BY <2>11, UseIInv
    <2>12. QED
      BY <1>a, <2>1, <2>2, <2>3, <2>4, <2>5, <2>6, <2>7, <2>8, <2>9, <2>10, <2>11 DEF ThreadStep
  <1>b. ASSUME NEW p \in Procs, Crash(p) PROVE GateIInv'
    BY <1>b, CrashIInv
  <1>c. CASE UNCHANGED gateVars
    BY <1>c DEF gateVars, GateIInv, GateTypeOK, InCS, Unpacking, MarkerMeansComplete
  <1>d. QED
    BY <1>a, <1>b, <1>c DEF GateNext

THEOREM GateInductiveInvariant == GateSpec => []GateIInv
  BY GateInitIInv, GateNextIInv, PTL DEF GateSpec

(* Every thread and process of the gate keeps its state well typed.        *)
THEOREM GateTypeCorrect == GateSpec => []GateTypeOK
  BY GateInductiveInvariant, PTL DEF GateIInv

(* The marker file of download_cBench_runtime_data() is present only over  *)
(* a complete runtime data directory, whatever crashes happen.             *)
THEOREM MarkerMeansCompleteThm == GateSpec => []MarkerMeansComplete
  BY GateInductiveInvariant, PTL DEF GateIInv

(* A validator_cb past the locked download reads complete runtime data,    *)
(* for any number of processes and threads.                                *)
THEOREM DataReadyWhenUsedThm == GateSpec => []DataReadyWhenUsed
  <1>1. GateIInv => DataReadyWhenUsed
    BY DEF GateIInv, DataReadyWhenUsed, MarkerMeansComplete
  <1>2. QED
    BY <1>1, GateInductiveInvariant, PTL

-----------------------------------------------------------------------------
(***************************************************************************)
(* Refinement of RuntimeData.  The marker is `ready` and the threads at    *)
(* "use" are the readers.  A step that moves a thread between two places   *)
(* other than "use" and keeps the marker is a stutter; RemovePartial is    *)
(* one too, since the marker is already absent when a thread removes the  *)
(* tree; Touch is Materialise, Release is StartRead, Use is EndRead and a  *)
(* crash is ProcCrash.                                                     *)
(***************************************************************************)

(* Moving one thread from one place to another changes the readers only   *)
(* by that thread.                                                         *)
LEMMA GotoReading ==
  ASSUME GateTypeOK, NEW p \in Procs, NEW t \in Threads, NEW to \in PCs, Goto(p, t, to)
  PROVE  Reading' = {pt \in Procs \X Threads :
                        IF pt = <<p, t>> THEN to = "use" ELSE pt \in Reading}
  BY DEF GateTypeOK, Goto, Reading

(* A step of a thread between two places that are not "use", with the     *)
(* marker left alone, is invisible in RuntimeData.                         *)
LEMMA QuietStep ==
  ASSUME GateTypeOK, NEW p \in Procs, NEW t \in Threads, NEW to \in PCs \ {"use"},
         pc[p][t] /= "use", Goto(p, t, to), UNCHANGED marker
  PROVE  UNCHANGED RD!rdVars
  <1>1. Reading' = Reading
    BY GotoReading DEF Reading
  <1>2. QED
    BY <1>1 DEF RD!rdVars

LEMMA ThreadStepRefines ==
  ASSUME GateIInv, NEW p \in Procs, NEW t \in Threads, ThreadStep(p, t)
  PROVE  [RD!RDNext]_RD!rdVars
  <1> USE DEF PCs
  <1>1. GateTypeOK
    BY DEF GateIInv
  <1>2. CASE Begin(p, t) \/ TakeThreadLock(p, t) \/ TakeFileLock(p, t) \/ CheckMarker(p, t)
            \/ ExtractStart(p, t)
    BY <1>1, <1>2, QuietStep DEF Begin, TakeThreadLock, TakeFileLock, CheckMarker, ExtractStart
  <1>3. CASE Download(p, t) \/ ExtractEnd(p, t)
    <2>1. \E to \in PCs \ {"use"} : Goto(p, t, to)
      BY <1>3 DEF Download, ExtractEnd
    <2>2. QED
      BY <1>1, <1>3, <2>1, QuietStep DEF Download, ExtractEnd
  <1>4. CASE RemovePartial(p, t)
    <2>1. ~marker
      BY <1>4 DEF RemovePartial, GateIInv, Unpacking
    <2>2. pc[p][t] = "rm" /\ Goto(p, t, "download") /\ UNCHANGED marker
      BY <1>1, <1>4, <2>1 DEF RemovePartial, GateTypeOK
    <2>3. UNCHANGED RD!rdVars
      BY <1>1, <2>2, QuietStep
    <2>4. QED
      BY <2>3
  <1>5. CASE Touch(p, t)
    <2>1. ~marker /\ marker'
      BY <1>5 DEF Touch, GateIInv
    <2>2. Reading' = Reading
      BY <1>1, <1>5, GotoReading DEF Touch, Reading
    <2>3. RD!Materialise
      BY <2>1, <2>2 DEF RD!Materialise
    <2>4. QED
      BY <2>3 DEF RD!RDNext
  <1>6. CASE Release(p, t)
    <2>1. marker /\ marker' = marker
      BY <1>6 DEF Release, GateIInv
    <2>2. Reading' = Reading \cup {<<p, t>>}
      BY <1>1, <1>6, GotoReading DEF Release, Reading
    <2>3. RD!StartRead(p, t)
      BY <2>1, <2>2 DEF RD!StartRead
    <2>4. QED
      BY <2>3 DEF RD!RDNext
  <1>7. CASE Use(p, t)
    <2>1. <<p, t>> \in Reading /\ marker' = marker
      BY <1>7 DEF Use, Reading
    <2>2. Reading' = Reading \ {<<p, t>>}
      BY <1>1, <1>7, GotoReading DEF Use, Reading
    <2>3. RD!EndRead(p, t)
      BY <2>1, <2>2 DEF RD!EndRead
    <2>4. QED
      BY <2>3 DEF RD!RDNext
  <1>8. QED
    BY <1>2, <1>3, <1>4, <1>5, <1>6, <1>7 DEF ThreadStep

LEMMA CrashRefines ==
  ASSUME GateIInv, NEW p \in Procs, Crash(p)
  PROVE  RD!ProcCrash(p)
  <1>1. Reading' = {r \in Reading : r[1] /= p}
    BY DEF Crash, Reading, GateIInv, GateTypeOK
  <1>2. QED
    BY <1>1 DEF Crash, RD!ProcCrash

LEMMA GateInitRefines == GateInit => RD!RDInit
  BY DEF GateInit, RD!RDInit, Reading

(***************************************************************************)
(* The gate of validator_cb implements RuntimeData (GateRefinesRuntimeData) *)
(* for any number of processes and threads, with crashes: the marker is    *)
(* created at most once and never removed, and nobody reads before it      *)
(* exists.                                                                 *)
(***************************************************************************)
THEOREM GateRefinesRuntimeDataThm == GateSpec => GateRefinesRuntimeData
  <1>1. GateIInv /\ [GateNext]_gateVars => [RD!RDNext]_RD!rdVars
    <2> SUFFICES ASSUME GateIInv, [GateNext]_gateVars PROVE [RD!RDNext]_RD!rdVars
      OBVIOUS
    <2>1. CASE UNCHANGED gateVars
      BY <2>1 DEF gateVars, RD!rdVars, Reading
    <2>2. QED
      BY <2>1, ThreadStepRefines, CrashRefines DEF GateNext, RD!RDNext
  <1>2. QED
    BY <1>1, GateInitRefines, GateInductiveInvariant, PTL
       DEF GateSpec, GateRefinesRuntimeData, RD!RDSpec

=============================================================================
