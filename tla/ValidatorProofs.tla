-------------------------- MODULE ValidatorProofs --------------------------
(***************************************************************************)
(* Proofs, for every set of configurations, output files and raw outputs, *)
(* that one attempt of validator_cb (module Validator) keeps its types,    *)
(* always closes the forked gold-standard environment, and passes only    *)
(* after comparing the candidate's own output files with the gold ones.   *)
(***************************************************************************)
EXTENDS Validator, CompileAndRunProofs

(***************************************************************************)
(* The runner is busy exactly while the attempt waits for one of its two   *)
(* calls, the gold-standard call runs unsanitized, and the processes a    *)
(* wait can leave alive are bounded as in module CompileAndRunProofs.     *)
(* Outside the two waits no process is alive, except after an attempt    *)
(* that raised TimeoutExpired.                                            *)
(***************************************************************************)
RunPhase ==
    /\ rpc /= "idle" <=> vpc \in {"goldWait", "candWait"}
    /\ vpc = "goldWait" => who = "gold"
    /\ vpc = "candWait" => who = "cand"
    /\ WaitReaping
    /\ vpc \notin {"goldWait", "candWait", "done"} => procs = {}

(* gs_env is open only between the fork and the end of the gold call.     *)
GoldEnv == gsEnv = "open" => vpc \in {"goldPrepare", "goldWait"}

(***************************************************************************)
(* Who wrote the files in cwd: nobody before the gold call, the gold run   *)
(* during it, and once the gold files are renamed, the .gold_standard      *)
(* siblings hold the gold run's files and the output files are absent or  *)
(* the candidate's.                                                        *)
(***************************************************************************)
FilesTagged ==
    /\ vpc \in {"setup", "fork", "goldPrepare"} => \A o \in OutFiles : files[o] = Absent
    /\ vpc \in {"goldWait", "goldFiles"} =>
           \A o \in OutFiles : files[o] = Absent \/ files[o].by = "gold"
    /\ vpc \in {"candWrite", "candWait", "check", "console", "diff"} =>
           \A o \in Outs : /\ goldFiles[o] \in Content /\ goldFiles[o].by = "gold"
                           /\ files[o] = Absent \/ files[o].by = "cand"

(* A pass is final: nothing runs any more to change the files.            *)
Success ==
    vres = Passed =>
        /\ vpc = "done" /\ rpc = "idle" /\ procs = {}
        /\ SuccessMeansCandidateFiles

(* TypeOK without the runner's variables and the attempt's result.        *)
ValTypeOK ==
    /\ config \in Configs
    /\ vpc \in VPcs
    /\ inputs \in BOOLEAN
    /\ tmpdir \in BOOLEAN
    /\ gsEnv \in {"none", "open", "closed"}
    /\ gold \in Returned \cup {None}
    /\ goldRaw \in RawOutputs \cup {None}
    /\ goldFiles \in [OutFiles -> Content \cup {Absent}]
    /\ outcome \in Returned \cup {None}
    /\ candRaw \in RawOutputs \cup {None}
    /\ diag \in BOOLEAN

VresOK == vres \in VReturned \cup VRaised \cup {None}

VIInv == RunTypeOK /\ ValTypeOK /\ VresOK /\ RunPhase /\ GoldEnv /\ FilesTagged /\ Success

USE ConfigsAssumption, NoneNotError

LEMMA OutsType ==
  ASSUME config \in Configs
  PROVE  Outs \subseteq OutFiles
  BY DEF Outs, Config

(* A run writes a file as itself or leaves it as it was.                   *)
LEMMA WrittenTags ==
  ASSUME NEW w \in {"gold", "cand"}, NEW f \in Written(w)
  PROVE  \A o \in OutFiles : f[o] = files[o] \/ (f[o] \in Content /\ f[o].by = w)
  BY DEF Written, Content

(* Without a gold standard there are no output files to compare.          *)
LEMMA NoGoldNoOuts ==
  ASSUME config \in Configs, ~NeedsGold
  PROVE  Outs = {}
  BY DEF NeedsGold, Outs, Config

LEMMA TypeSplit == TypeOK <=> RunTypeOK /\ ValTypeOK /\ VresOK
  BY DEF TypeOK, ValTypeOK, VresOK

(* How validator_cb can end.                                               *)
LEMMA ResultValues ==
  /\ Passed \in VReturned
  /\ \A e \in Exceptions : Throw(e) \in VRaised /\ Throw(e) /= Passed
  /\ \A t \in VErrorTypes, g \in BOOLEAN : Fail(t, g) \in VReturned /\ Fail(t, g) /= Passed
  BY DEF Passed, Throw, Fail, VReturned, VRaised, VError

LEMMA VInitIInv == AttemptInit => VIInv
  <1> SUFFICES ASSUME AttemptInit PROVE VIInv
    OBVIOUS
  <1>1. Passed \in VReturned
    BY DEF Passed, VReturned
  <1>2. RunTypeOK /\ ValTypeOK /\ VresOK
    BY DEF AttemptInit, RunInit, ValTypeOK, VresOK, RunTypeOK, RPcs, VPcs, NoSan, Sanitizers
  <1>3. RunPhase /\ GoldEnv /\ FilesTagged
    BY DEF AttemptInit, RunInit, RunPhase, WaitReaping, GoldEnv, FilesTagged
  <1>4. Success
    BY <1>1 DEF AttemptInit, Success
  <1>5. QED
    BY <1>2, <1>3, <1>4 DEF VIInv

(***************************************************************************)
(* The early steps of validator_cb: each moves on or raises.  None of them *)
(* touches the runner, the files or a live process.                        *)
(***************************************************************************)
LEMMA DownloadIInv ==
  ASSUME VIInv, Download PROVE VIInv'
  <1>0. RunTypeOK'
    BY DEF VIInv, Download, runVars, RunTypeOK
  <1>1. ValTypeOK'
    BY DEF VIInv, Download, ValTypeOK, VPcs, Finish
  <1>2. VresOK' /\ vres' /= Passed
    BY ResultValues DEF VIInv, Download, Finish, VresOK, Success, Exceptions
  <1>3. RunPhase' /\ GoldEnv' /\ FilesTagged'
    BY DEF VIInv, Download, runVars, Finish, RunPhase, WaitReaping, GoldEnv, FilesTagged
  <1>4. QED
    BY <1>0, <1>1, <1>2, <1>3 DEF VIInv, Success

LEMMA CheckInputsIInv ==
  ASSUME VIInv, CheckInputs PROVE VIInv'
  <1>0. RunTypeOK'
    BY DEF VIInv, CheckInputs, runVars, RunTypeOK
  <1>1. ValTypeOK'
    BY DEF VIInv, CheckInputs, ValTypeOK, VPcs, Finish
  <1>2. VresOK' /\ vres' /= Passed
    BY ResultValues DEF VIInv, CheckInputs, Finish, VresOK, Success, Exceptions
  <1>3. RunPhase' /\ GoldEnv' /\ FilesTagged'
    BY DEF VIInv, CheckInputs, runVars, Finish, RunPhase, WaitReaping, GoldEnv, FilesTagged
  <1>4. QED
    BY <1>0, <1>1, <1>2, <1>3 DEF VIInv, Success

LEMMA SetupIInv ==
  ASSUME VIInv, Setup PROVE VIInv'
  <1>0. RunTypeOK'
    BY DEF VIInv, Setup, runVars, RunTypeOK
  <1>1. ValTypeOK'
    BY DEF VIInv, Setup, ValTypeOK, VPcs, Finish
  <1>2. VresOK' /\ vres' /= Passed
    BY ResultValues DEF VIInv, Setup, Finish, VresOK, Success, Exceptions
  <1>a. config \in Configs /\ config' = config /\ procs' = procs /\ rpc' = rpc
    BY DEF VIInv, ValTypeOK, Setup, runVars
  <1>b. ~NeedsGold => Outs' = {}
    BY <1>a, NoGoldNoOuts DEF Outs, NeedsGold
  <1>3. RunPhase' /\ GoldEnv' /\ FilesTagged'
    BY <1>a, <1>b DEF VIInv, Setup, runVars, Finish, RunPhase, WaitReaping, GoldEnv, FilesTagged
  <1>4. QED
    BY <1>0, <1>1, <1>2, <1>3 DEF VIInv, Success

LEMMA ForkIInv ==
  ASSUME VIInv, Fork PROVE VIInv'
  <1>0. RunTypeOK'
    BY DEF VIInv, Fork, runVars, RunTypeOK
  <1>1. ValTypeOK'
    BY DEF VIInv, Fork, ValTypeOK, VPcs, Finish
  <1>2. VresOK' /\ vres' /= Passed
    BY ResultValues DEF VIInv, Fork, Finish, VresOK, Success, Exceptions
  <1>3. RunPhase' /\ GoldEnv' /\ FilesTagged'
    BY DEF VIInv, Fork, runVars, Finish, RunPhase, WaitReaping, GoldEnv, FilesTagged
  <1>4. QED
    BY <1>0, <1>1, <1>2, <1>3 DEF VIInv, Success

(* The fresh TemporaryDirectory holds no a.out and no output file.        *)
LEMMA MakeTmpIInv ==
  ASSUME VIInv, MakeTmp PROVE VIInv'
  <1>0. RunTypeOK'
    BY DEF VIInv, MakeTmp, RunTypeOK
  <1>1. ValTypeOK' /\ VresOK' /\ vres' /= Passed
    BY DEF VIInv, MakeTmp, ValTypeOK, VresOK, VPcs, Success
  <1>3. RunPhase' /\ GoldEnv' /\ FilesTagged'
    BY DEF VIInv, MakeTmp, RunPhase, WaitReaping, GoldEnv, FilesTagged
  <1>4. QED
    BY <1>0, <1>1, <1>3 DEF VIInv, Success

(* The gold-standard call starts unsanitized in a directory nobody wrote   *)
(* to, or the service times out and gs_env is closed.                      *)
LEMMA GoldPrepareIInv ==
  ASSUME VIInv, GoldPrepare PROVE VIInv'
  <1>1. CASE vpc' = "goldWait" /\ Call(NoSan, "gold") /\ UNCHANGED <<gsEnv, vres, tmpdir>>
    <2>0. rpc' = "exec" /\ san' = NoSan /\ who' = "gold" /\ res' = None /\ stdout' = None
          /\ UNCHANGED <<binary, files, procs>>
      BY <1>1 DEF Call
    <2>1. RunTypeOK'
      BY <2>0 DEF VIInv, RunTypeOK, RPcs, NoSan, Sanitizers
    <2>2. ValTypeOK' /\ VresOK' /\ vres' /= Passed
      BY <1>1 DEF VIInv, GoldPrepare, ValTypeOK, VresOK, VPcs, Success
    <2>3. RunPhase' /\ GoldEnv' /\ FilesTagged'
      BY <1>1, <2>0 DEF VIInv, GoldPrepare, RunPhase, WaitReaping, GoldEnv, FilesTagged
    <2>4. QED
      BY <2>1, <2>2, <2>3 DEF VIInv, Success
  <1>2. CASE gsEnv' = "closed" /\ Finish(Throw("TimeoutError")) /\ UNCHANGED runVars
    <2>1. RunTypeOK'
      BY <1>2 DEF VIInv, runVars, RunTypeOK
    <2>2. ValTypeOK'
      BY <1>2 DEF VIInv, GoldPrepare, ValTypeOK, VPcs, Finish
    <2>3. VresOK' /\ vres' /= Passed
      BY <1>2, ResultValues DEF Finish, VresOK, Exceptions
    <2>4. RunPhase' /\ GoldEnv' /\ FilesTagged'
      BY <1>2 DEF VIInv, GoldPrepare, runVars, Finish, RunPhase, WaitReaping, GoldEnv, FilesTagged
    <2>5. QED
      BY <2>1, <2>2, <2>3, <2>4 DEF VIInv, Success
  <1>3. QED
    BY <1>1, <1>2 DEF GoldPrepare

(***************************************************************************)
(* The end of a call: a raise or an error leaves validator_cb, a clean     *)
(* result goes on, and a clean result means its processes were reaped.     *)
(***************************************************************************)
LEMMA GoldDoneIInv ==
  ASSUME VIInv, GoldDone PROVE VIInv'
  <1>0. /\ vpc = "goldWait" /\ rpc = "done" /\ res \in Returned \cup Raised
        /\ rpc' = "idle" /\ UNCHANGED <<san, who, res, binary, files, procs, stdout>>
    BY DEF VIInv, GoldDone, RunPhase, WaitReaping, RunTypeOK
  <1>1. RunTypeOK'
    BY <1>0 DEF VIInv, RunTypeOK, RPcs
  <1>2. CASE res \in Raised
    <2>0. res.kind = "raise" /\ res.exc \in Exceptions
      BY <1>2 DEF Raised, Exceptions
    <2>1. vpc' = "done" /\ vres' = Throw(res.exc) /\ tmpdir' = FALSE /\ gold' = gold
      BY <2>0 DEF GoldDone, Finish
    <2>2. ValTypeOK'
      BY <1>2, <1>0, <2>1 DEF VIInv, GoldDone, ValTypeOK, VPcs, RunTypeOK
    <2>5. VresOK' /\ vres' /= Passed
      BY <2>0, <2>1, ResultValues DEF VIInv, VresOK
    <2>3. RunPhase' /\ GoldEnv' /\ FilesTagged'
      BY <1>0, <2>1 DEF VIInv, GoldDone, RunPhase, WaitReaping, GoldEnv, FilesTagged
    <2>4. QED
      BY <1>1, <2>2, <2>3, <2>5 DEF VIInv, Success
  <1>3. CASE res \in Returned /\ res.error /= None
    <2>0. res.kind = "return" /\ res.error \in VErrorTypes
      BY <1>3 DEF Returned, VErrorTypes
    <2>1. vpc' = "done" /\ vres' = Fail(res.error, TRUE) /\ tmpdir' = FALSE /\ gold' = res
      BY <1>3, <2>0 DEF GoldDone, Finish
    <2>2. ValTypeOK'
      BY <1>3, <1>0, <2>1 DEF VIInv, GoldDone, ValTypeOK, VPcs, RunTypeOK
    <2>5. VresOK' /\ vres' /= Passed
      BY <1>3, <2>0, <2>1, ResultValues DEF VIInv, VresOK
    <2>3. RunPhase' /\ GoldEnv' /\ FilesTagged'
      BY <1>0, <2>1 DEF VIInv, GoldDone, RunPhase, WaitReaping, GoldEnv, FilesTagged
    <2>4. QED
      BY <1>1, <2>2, <2>3, <2>5 DEF VIInv, Success
  <1>4. CASE res \in Returned /\ res.error = None
    <2>0. res.kind = "return" /\ procs = {}
      BY <1>0, <1>4 DEF VIInv, RunPhase, WaitReaping, Returned
    <2>1. vpc' = "goldFiles" /\ vres' = vres /\ tmpdir' = tmpdir /\ gold' = res
      BY <1>4, <2>0 DEF GoldDone
    <2>2. ValTypeOK'
      BY <1>4, <1>0, <2>1 DEF VIInv, GoldDone, ValTypeOK, VPcs, RunTypeOK
    <2>5. VresOK' /\ vres' /= Passed
      BY <1>0, <1>4, <2>1 DEF VIInv, VresOK, Success
    <2>3. RunPhase' /\ GoldEnv' /\ FilesTagged'
      BY <1>0, <2>0, <2>1 DEF VIInv, GoldDone, RunPhase, WaitReaping, GoldEnv, FilesTagged
    <2>4. QED
      BY <1>1, <2>2, <2>3, <2>5 DEF VIInv, Success
  <1>5. QED
    BY <1>0, <1>2, <1>3, <1>4

LEMMA CandDoneIInv ==
  ASSUME VIInv, CandDone PROVE VIInv'
  <1>0. /\ vpc = "candWait" /\ rpc = "done" /\ res \in Returned \cup Raised
        /\ rpc' = "idle" /\ UNCHANGED <<san, who, res, binary, files, procs, stdout>>
    BY DEF VIInv, CandDone, RunPhase, WaitReaping, RunTypeOK
  <1>1. RunTypeOK'
    BY <1>0 DEF VIInv, RunTypeOK, RPcs
  <1>2. CASE res \in Raised
    <2>0. res.kind = "raise" /\ res.exc \in Exceptions
      BY <1>2 DEF Raised, Exceptions
    <2>1. vpc' = "done" /\ vres' = Throw(res.exc) /\ tmpdir' = FALSE /\ outcome' = outcome
      BY <2>0 DEF CandDone, Finish
    <2>2. ValTypeOK'
      BY <1>2, <1>0, <2>1 DEF VIInv, CandDone, ValTypeOK, VPcs, RunTypeOK
    <2>5. VresOK' /\ vres' /= Passed
      BY <2>0, <2>1, ResultValues DEF VIInv, VresOK
    <2>3. RunPhase' /\ GoldEnv' /\ FilesTagged'
      BY <1>0, <2>1 DEF VIInv, CandDone, RunPhase, WaitReaping, GoldEnv, FilesTagged
    <2>4. QED
      BY <1>1, <2>2, <2>3, <2>5 DEF VIInv, Success
  <1>3. CASE res \in Returned /\ res.error /= None
    <2>0. res.kind = "return" /\ res.error \in VErrorTypes
      BY <1>3 DEF Returned, VErrorTypes
    <2>1. vpc' = "done" /\ vres' = Fail(res.error, FALSE) /\ tmpdir' = FALSE /\ outcome' = res
      BY <1>3, <2>0 DEF CandDone, Finish
    <2>2. ValTypeOK'
      BY <1>3, <1>0, <2>1 DEF VIInv, CandDone, ValTypeOK, VPcs, RunTypeOK
    <2>5. VresOK' /\ vres' /= Passed
      BY <1>3, <2>0, <2>1, ResultValues DEF VIInv, VresOK
    <2>3. RunPhase' /\ GoldEnv' /\ FilesTagged'
      BY <1>0, <2>1 DEF VIInv, CandDone, RunPhase, WaitReaping, GoldEnv, FilesTagged
    <2>4. QED
      BY <1>1, <2>2, <2>3, <2>5 DEF VIInv, Success
  <1>4. CASE res \in Returned /\ res.error = None
    <2>0. res.kind = "return" /\ procs = {}
      BY <1>0, <1>4 DEF VIInv, RunPhase, WaitReaping, Returned
    <2>1. vpc' = "check" /\ vres' = vres /\ tmpdir' = tmpdir /\ outcome' = res
      BY <1>4, <2>0 DEF CandDone
    <2>2. ValTypeOK'
      BY <1>4, <1>0, <2>1 DEF VIInv, CandDone, ValTypeOK, VPcs, RunTypeOK
    <2>5. VresOK' /\ vres' /= Passed
      BY <1>0, <1>4, <2>1 DEF VIInv, VresOK, Success
    <2>3. RunPhase' /\ GoldEnv' /\ FilesTagged'
      BY <1>0, <2>0, <2>1 DEF VIInv, CandDone, RunPhase, WaitReaping, GoldEnv, FilesTagged, Outs
    <2>4. QED
      BY <1>1, <2>2, <2>3, <2>5 DEF VIInv, Success
  <1>5. QED
    BY <1>0, <1>2, <1>3, <1>4

(***************************************************************************)
(* The rename of the gold run's output files: the .gold_standard siblings *)
(* hold what the gold run wrote, and the output files are gone.           *)
(***************************************************************************)
LEMMA GoldFilesIInv ==
  ASSUME VIInv, GoldFiles PROVE VIInv'
  <1>0. /\ vpc = "goldFiles" /\ rpc = "idle" /\ procs = {} /\ config \in Configs
        /\ Outs \subseteq OutFiles /\ Outs' = Outs
        /\ \A o \in OutFiles : files[o] = Absent \/ files[o].by = "gold"
    BY OutsType DEF VIInv, GoldFiles, RunPhase, WaitReaping, ValTypeOK, FilesTagged, Outs
  <1>1. CASE \A o \in Outs : files[o] /= Absent
    <2>0. /\ vpc' = "candWrite" /\ vres' = vres /\ tmpdir' = tmpdir
          /\ goldFiles' = [o \in OutFiles |-> IF o \in Outs THEN files[o] ELSE goldFiles[o]]
          /\ files' = [o \in OutFiles |-> IF o \in Outs THEN Absent ELSE files[o]]
      BY <1>1 DEF GoldFiles
    <2>1. RunTypeOK'
      BY <2>0 DEF VIInv, GoldFiles, RunTypeOK
    <2>2. ValTypeOK'
      BY <2>0 DEF VIInv, GoldFiles, ValTypeOK, VPcs, RunTypeOK
    <2>3. VresOK' /\ vres' /= Passed
      BY <1>0, <2>0 DEF VIInv, VresOK, Success
    <2>4. \A o \in Outs : files[o] \in Content
      BY <1>0, <1>1 DEF VIInv, RunTypeOK
    <2>5. FilesTagged'
      BY <1>0, <1>1, <2>0, <2>4 DEF FilesTagged
    <2>6. RunPhase' /\ GoldEnv'
      BY <1>0, <2>0 DEF VIInv, GoldFiles, RunPhase, WaitReaping, GoldEnv
    <2>7. QED
      BY <2>1, <2>2, <2>3, <2>5, <2>6 DEF VIInv, Success
  <1>2. CASE ~\A o \in Outs : files[o] /= Absent
    <2>0. Finish(Throw("FileNotFoundError")) /\ UNCHANGED <<goldFiles, files>>
      BY <1>2 DEF GoldFiles
    <2>1. RunTypeOK'
      BY <2>0 DEF VIInv, GoldFiles, RunTypeOK
    <2>2. ValTypeOK'
      BY <2>0 DEF VIInv, GoldFiles, ValTypeOK, VPcs, Finish
    <2>3. VresOK' /\ vres' /= Passed
      BY <2>0, ResultValues DEF Finish, VresOK, Exceptions
    <2>4. RunPhase' /\ GoldEnv' /\ FilesTagged'
      BY <1>0, <2>0 DEF VIInv, GoldFiles, Finish, RunPhase, WaitReaping, GoldEnv, FilesTagged
    <2>5. QED
      BY <2>1, <2>2, <2>3, <2>4 DEF VIInv, Success
  <1>3. QED
    BY <1>1, <1>2

(* The candidate call starts with the configured sanitizer, or the        *)
(* service times out writing the bitcode.                                 *)
LEMMA CandWriteIInv ==
  ASSUME VIInv, CandWrite PROVE VIInv'
  <1>0. /\ vpc = "candWrite" /\ rpc = "idle" /\ procs = {}
        /\ config.sanitizer \in Sanitizers \cup {NoSan}
    BY DEF VIInv, CandWrite, RunPhase, WaitReaping, ValTypeOK, Config
  <1>1. CASE vpc' = "candWait" /\ Call(config.sanitizer, "cand") /\ UNCHANGED <<vres, tmpdir>>
    <2>0. /\ rpc' \in {"exec", "compile"} /\ san' = config.sanitizer /\ who' = "cand"
          /\ res' = None /\ stdout' = None /\ UNCHANGED <<binary, files, procs>>
      BY <1>1 DEF Call
    <2>1. RunTypeOK'
      BY <1>0, <2>0 DEF VIInv, RunTypeOK, RPcs
    <2>2. ValTypeOK' /\ VresOK' /\ vres' /= Passed
      BY <1>0, <1>1 DEF VIInv, CandWrite, ValTypeOK, VresOK, VPcs, Success
    <2>3. RunPhase' /\ GoldEnv' /\ FilesTagged'
      BY <1>0, <1>1, <2>0 DEF VIInv, CandWrite, RunPhase, WaitReaping, GoldEnv, FilesTagged, Outs
    <2>4. QED
      BY <2>1, <2>2, <2>3 DEF VIInv, Success
  <1>2. CASE Finish(Throw("TimeoutError")) /\ UNCHANGED runVars
    <2>1. RunTypeOK'
      BY <1>2 DEF VIInv, runVars, RunTypeOK
    <2>2. ValTypeOK'
      BY <1>2 DEF VIInv, CandWrite, ValTypeOK, VPcs, Finish
    <2>3. VresOK' /\ vres' /= Passed
      BY <1>2, ResultValues DEF Finish, VresOK, Exceptions
    <2>4. RunPhase' /\ GoldEnv' /\ FilesTagged'
      BY <1>0, <1>2 DEF VIInv, CandWrite, runVars, Finish, RunPhase, WaitReaping, GoldEnv, FilesTagged
    <2>5. QED
      BY <2>1, <2>2, <2>3, <2>4 DEF VIInv, Success
  <1>3. QED
    BY <1>1, <1>2 DEF CandWrite

(* validate_result and the console difftest: the first drops its verdict, *)
(* the second fails or moves on to the files.                             *)
LEMMA CheckIInv ==
  ASSUME VIInv, Check PROVE VIInv'
  <1>0. RunTypeOK'
    BY DEF VIInv, Check, runVars, RunTypeOK
  <1>1. ValTypeOK'
    BY DEF VIInv, Check, ValTypeOK, VPcs, Finish
  <1>2. VresOK' /\ vres' /= Passed
    BY ResultValues DEF VIInv, Check, Finish, VresOK, Success
  <1>3. RunPhase' /\ GoldEnv' /\ FilesTagged'
    BY DEF VIInv, Check, runVars, Finish, RunPhase, WaitReaping, GoldEnv, FilesTagged, Outs
  <1>4. QED
    BY <1>0, <1>1, <1>2, <1>3 DEF VIInv, Success

LEMMA ConsoleIInv ==
  ASSUME VIInv, Console PROVE VIInv'
  <1>0. RunTypeOK'
    BY DEF VIInv, Console, runVars, RunTypeOK
  <1>1. ValTypeOK'
    BY DEF VIInv, Console, ValTypeOK, VPcs, Finish
  <1>2. VresOK' /\ vres' /= Passed
    BY ResultValues DEF VIInv, Console, Finish, VresOK, Success, VErrorTypes
  <1>3. RunPhase' /\ GoldEnv' /\ FilesTagged'
    BY DEF VIInv, Console, runVars, Finish, RunPhase, WaitReaping, GoldEnv, FilesTagged, Outs
  <1>4. QED
    BY <1>0, <1>1, <1>2, <1>3 DEF VIInv, Success

(***************************************************************************)
(* The file difftest passes only when no declared output file is missing  *)
(* or differs; with FilesTagged the files compared are the candidate's    *)
(* and the gold run's, and after the pass nothing runs any more.          *)
(***************************************************************************)
LEMMA DiffIInv ==
  ASSUME VIInv, Diff PROVE VIInv'
  <1> DEFINE of == config.output_files
             Bad == {i \in 1..Len(of) : files[of[i]] = Absent \/ files[of[i]].data /= goldFiles[of[i]].data}
  <1>0. /\ vpc = "diff" /\ rpc = "idle" /\ procs = {}
        /\ UNCHANGED <<config, gsEnv, goldFiles, files, rpc, procs>>
    BY DEF VIInv, Diff, RunPhase, WaitReaping, runVars
  <1>1. RunTypeOK'
    BY DEF VIInv, Diff, runVars, RunTypeOK
  <1>2. ValTypeOK'
    BY DEF VIInv, Diff, ValTypeOK, VPcs, Finish
  <1>3. RunPhase' /\ GoldEnv' /\ FilesTagged'
    BY <1>0 DEF VIInv, Diff, Finish, RunPhase, WaitReaping, GoldEnv, FilesTagged
  <1>4. CASE Bad = {}
    <2>1. vres' = Passed /\ vpc' = "done"
      BY <1>4 DEF Diff, Finish
    <2>2. VresOK'
      BY <2>1, ResultValues DEF VresOK
    <2>3. \A o \in Outs : files[o] /= Absent /\ files[o].data = goldFiles[o].data
      BY <1>4 DEF Outs
    <2>4. \A o \in Outs : /\ goldFiles[o] \in Content /\ goldFiles[o].by = "gold"
                          /\ files[o] = Absent \/ files[o].by = "cand"
      BY <1>0 DEF VIInv, FilesTagged
    <2>5. \A o \in Outs : goldFiles[o] /= Absent
      BY <2>4, ValuesAssumption DEF Content
    <2>6. SuccessMeansCandidateFiles'
      BY <1>0, <2>3, <2>4, <2>5 DEF SuccessMeansCandidateFiles, Outs
    <2>7. Success'
      BY <1>0, <2>1, <2>6 DEF Success
    <2>8. QED
      BY <1>1, <1>2, <1>3, <2>2, <2>7 DEF VIInv
  <1>5. CASE Bad /= {}
    <2>1. vres' \in {Fail("Output not generated", FALSE), Fail("Wrong output (file)", FALSE)}
      BY <1>5 DEF Diff, Finish
    <2>2. VresOK' /\ vres' /= Passed
      BY <2>1, ResultValues DEF VresOK, VErrorTypes
    <2>3. QED
      BY <1>1, <1>2, <1>3, <2>2 DEF VIInv, Success
  <1>6. QED
    BY <1>4, <1>5

(***************************************************************************)
(* A step of a running call, the attempt waiting: the runner's own         *)
(* invariant carries over, the attempt's state is untouched, and the files *)
(* are written by the run the attempt is waiting for.  Outside the waits   *)
(* no process is alive and the runner is idle, so no such step happens     *)
(* (in particular none after a pass).                                      *)
(***************************************************************************)
LEMMA RunStepVIInv ==
  ASSUME VIInv, RunStep, UNCHANGED valVars PROVE VIInv'
  <1>0. /\ who' = who /\ san' = san
        /\ files' = files \/ files' \in Written(who)
        /\ (rpc = "idle" \/ rpc' = "idle") => (rpc' = rpc /\ procs /= {})
    BY RunStepFrame
  <1>1. RunTypeOK' /\ WaitReaping'
    BY RunStepReaping DEF VIInv, RunPhase
  <1>2. ValTypeOK' /\ VresOK' /\ GoldEnv'
    BY DEF VIInv, valVars, ValTypeOK, VresOK, GoldEnv
  <1>3. (vpc \in {"goldWait", "candWait"} /\ rpc /= "idle") \/ vpc = "done"
    BY <1>0 DEF VIInv, RunPhase
  <1>4. RunPhase'
    BY <1>0, <1>1, <1>3 DEF VIInv, RunPhase, valVars
  <1>5. ~(vres = Passed)
    BY <1>0 DEF VIInv, Success
  <1>6. Success'
    BY <1>5 DEF valVars, Success
  <1>7. CASE vpc \in {"goldWait", "candWait"}
    <2>1. who = IF vpc = "goldWait" THEN "gold" ELSE "cand"
      BY <1>7 DEF VIInv, RunPhase
    <2>2. \A o \in OutFiles : files'[o] = files[o] \/ (files'[o] \in Content /\ files'[o].by = who)
      <3>1. who \in {"gold", "cand"}
        BY <2>1
      <3>2. CASE files' \in Written(who)
        BY <3>1, <3>2, WrittenTags
      <3>3. QED
        BY <1>0, <3>2
    <2>3. Outs' = Outs /\ goldFiles' = goldFiles /\ vpc' = vpc
      BY DEF valVars, Outs
    <2>4. Outs \subseteq OutFiles
      BY OutsType DEF VIInv, ValTypeOK
    <2>5. FilesTagged'
      BY <1>7, <2>1, <2>2, <2>3, <2>4 DEF VIInv, FilesTagged
    <2>6. QED
      BY <1>1, <1>2, <1>4, <1>6, <2>5 DEF VIInv
  <1>8. CASE vpc = "done"
    BY <1>1, <1>2, <1>4, <1>6, <1>8 DEF VIInv, FilesTagged, valVars
  <1>9. QED
    BY <1>3, <1>7, <1>8

LEMMA VStepIInv == VIInv /\ [Next]_vars => VIInv'
  <1> SUFFICES ASSUME VIInv, [Next]_vars PROVE VIInv'
    OBVIOUS
  <1>1. CASE AttemptStep
    BY <1>1, DownloadIInv, CheckInputsIInv, MakeTmpIInv, SetupIInv, ForkIInv, GoldPrepareIInv, GoldDoneIInv, GoldFilesIInv, CandWriteIInv, CandDoneIInv, CheckIInv, ConsoleIInv, DiffIInv DEF AttemptStep
  <1>2. CASE RunStep /\ UNCHANGED valVars
    BY <1>2, RunStepVIInv
  <1>3. CASE UNCHANGED vars
    BY <1>3 DEF vars, valVars, runVars, VIInv, RunTypeOK, ValTypeOK, VresOK,
                RunPhase, WaitReaping, GoldEnv, FilesTagged, Success,
                SuccessMeansCandidateFiles, Outs
  <1>4. QED
    BY <1>1, <1>2, <1>3 DEF Next

LEMMA VIInvariant == Spec => []VIInv
  BY VInitIInv, VStepIInv, PTL DEF Spec

(***************************************************************************)
(* Every state of an attempt of validator_cb is well typed, for every set  *)
(* of registered configurations: in particular it ends by returning None   *)
(* or a ValidationError, or by raising one of the named exceptions.        *)
(***************************************************************************)
THEOREM ValidatorTypeCorrect == Spec => []TypeOK
  <1>1. VIInv => TypeOK
    BY TypeSplit DEF VIInv
  <1>2. QED
    BY <1>1, VIInvariant, PTL

(***************************************************************************)
(* The forked gold-standard environment is closed whenever validator_cb    *)
(* has left, by a return or by any exception (the try/finally around      *)
(* gs_env), for every configuration.                                       *)
(***************************************************************************)
THEOREM GoldEnvReleasedThm == Spec => []GoldEnvReleased
  <1>1. VIInv => GoldEnvReleased
    BY DEF VIInv, GoldEnv, GoldEnvReleased
  <1>2. QED
    BY <1>1, VIInvariant, PTL

(***************************************************************************)
(* An attempt passes only after comparing, for every declared output file, *)
(* a file the candidate run wrote with the file the gold-standard run      *)
(* wrote and finding the same data: the rename of the gold files and the   *)
(* existence check of the difftest make a leftover of the gold run         *)
(* impossible to take for the candidate's output.                          *)
(***************************************************************************)
THEOREM SuccessMeansCandidateFilesThm == Spec => []SuccessMeansCandidateFiles
  <1>1. VIInv => SuccessMeansCandidateFiles
    BY DEF VIInv, Success, SuccessMeansCandidateFiles
  <1>2. QED
    BY <1>1, VIInvariant, PTL

-----------------------------------------------------------------------------
(***************************************************************************)
(* How an attempt ends, for the retry loop of module FlakyValidator: an    *)
(* ended attempt has a result, and a process is still alive after it only *)
(* when it raised TimeoutExpired out of a grace wait.                      *)
(***************************************************************************)
Ended ==
    vpc = "done" =>
        /\ vres /= None
        /\ procs = {} \/ vres = Throw("TimeoutExpired")

(* No step of validator_cb itself starts or reaps a process.               *)
LEMMA AttemptStepProcs ==
  ASSUME AttemptStep PROVE procs' = procs
  BY DEF AttemptStep, Download, CheckInputs, MakeTmp, Setup, Fork, GoldPrepare, GoldDone, GoldFiles, CandWrite, CandDone, Check, Console, Diff, Call, runVars

(* Every way out of validator_cb sets a result.                            *)
LEMMA AttemptStepResult ==
  ASSUME VIInv, AttemptStep, vpc' = "done"
  PROVE  vres' /= None
  <1>1. ASSUME NEW r \in Returned \cup Raised, r.kind = "raise"
        PROVE  r.exc \in Exceptions
    BY <1>1 DEF Returned, Raised, Exceptions
  <1>2. ASSUME NEW r \in Returned \cup Raised, r.kind = "return", r.error /= None
        PROVE  r.error \in VErrorTypes
    BY <1>2 DEF Returned, Raised, VErrorTypes
  <1>3. CASE Download
    BY <1>1, <1>2, <1>3, ResultValues DEF Download, Finish, Exceptions, VErrorTypes
  <1>4. CASE CheckInputs
    BY <1>1, <1>2, <1>4, ResultValues DEF CheckInputs, Finish, Exceptions, VErrorTypes
  <1>5. CASE MakeTmp
    BY <1>1, <1>2, <1>5, ResultValues DEF MakeTmp, Finish, Exceptions, VErrorTypes
  <1>6. CASE Setup
    BY <1>1, <1>2, <1>6, ResultValues DEF Setup, Finish, Exceptions, VErrorTypes
  <1>7. CASE Fork
    BY <1>1, <1>2, <1>7, ResultValues DEF Fork, Finish, Exceptions, VErrorTypes
  <1>8. CASE GoldPrepare
    BY <1>1, <1>2, <1>8, ResultValues DEF GoldPrepare, Finish, Exceptions, VErrorTypes
  <1>9. CASE GoldDone
    BY <1>1, <1>2, <1>9, ResultValues DEF GoldDone, Finish, Exceptions, VErrorTypes, VIInv, RunTypeOK, RunPhase, WaitReaping
  <1>10. CASE GoldFiles
    BY <1>1, <1>2, <1>10, ResultValues DEF GoldFiles, Finish, Exceptions, VErrorTypes
  <1>11. CASE CandWrite
    BY <1>1, <1>2, <1>11, ResultValues DEF CandWrite, Finish, Exceptions, VErrorTypes
  <1>12. CASE CandDone
    BY <1>1, <1>2, <1>12, ResultValues DEF CandDone, Finish, Exceptions, VErrorTypes, VIInv, RunTypeOK, RunPhase, WaitReaping
  <1>13. CASE Check
    BY <1>1, <1>2, <1>13, ResultValues DEF Check, Finish, Exceptions, VErrorTypes
  <1>14. CASE Console
    BY <1>1, <1>2, <1>14, ResultValues DEF Console, Finish, Exceptions, VErrorTypes
  <1>15. CASE Diff
    BY <1>1, <1>2, <1>15, ResultValues DEF Diff, Finish, Exceptions, VErrorTypes
  <1>16. QED
    BY <1>3, <1>4, <1>5, <1>6, <1>7, <1>8, <1>9, <1>10, <1>11, <1>12, <1>13, <1>14, <1>15 DEF AttemptStep

LEMMA EndedStep ==
  ASSUME VIInv, Ended, [Next]_vars PROVE Ended'
  <1>1. CASE AttemptStep
    <2>1. procs' = procs
      BY <1>1, AttemptStepProcs
    <2>2. vpc' = "done" => vres' /= None
      BY <1>1, AttemptStepResult
    <2>3. vpc /= "done"
      BY <1>1 DEF AttemptStep, Download, CheckInputs, MakeTmp, Setup, Fork, GoldPrepare, GoldDone, GoldFiles, CandWrite, CandDone, Check, Console, Diff
    <2>4. CASE vpc \notin {"goldWait", "candWait"}
      BY <2>1, <2>2, <2>3, <2>4 DEF VIInv, RunPhase, Ended
    <2>5. CASE vpc \in {"goldWait", "candWait"}
      <3>1. GoldDone \/ CandDone
        BY <1>1, <2>5 DEF AttemptStep, Download, CheckInputs, MakeTmp, Setup, Fork, GoldPrepare, GoldDone, GoldFiles, CandWrite, CandDone, Check, Console, Diff
      <3>2. rpc = "done" /\ res \in Returned \cup Raised
        BY <3>1 DEF GoldDone, CandDone, VIInv, RunTypeOK, RunPhase, WaitReaping
      <3>3. CASE res \in Raised
        <4>1. res.kind = "raise" /\ res.exc = "TimeoutExpired"
          BY <3>3 DEF Raised
        <4>2. vres' = Throw("TimeoutExpired")
          BY <3>1, <4>1 DEF GoldDone, CandDone, Finish
        <4>3. QED
          BY <2>2, <4>2 DEF Ended
      <3>4. CASE res \in Returned
        <4>1. procs = {}
          BY <3>2, <3>4 DEF VIInv, RunPhase, WaitReaping
        <4>2. QED
          BY <2>1, <2>2, <4>1 DEF Ended
      <3>5. QED
        BY <3>2, <3>3, <3>4
    <2>6. QED
      BY <2>4, <2>5
  <1>2. CASE RunStep /\ UNCHANGED valVars
    <2>1. vpc = "done" => rpc = "idle"
      BY DEF VIInv, RunPhase
    <2>2. vpc = "done" => procs /= {}
      BY <1>2, <2>1, RunStepFrame
    <2>3. QED
      BY <1>2, <2>2 DEF valVars, Ended
  <1>3. CASE UNCHANGED vars
    BY <1>3 DEF vars, valVars, runVars, Ended
  <1>4. QED
    BY <1>1, <1>2, <1>3 DEF Next

=============================================================================
