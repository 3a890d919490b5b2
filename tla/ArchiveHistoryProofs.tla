------------------------- MODULE ArchiveHistoryProofs -------------------------
(***************************************************************************)
(* HistoryInv is inductive on top of SafetyInv; records only move forward, *)
(* a refused creation leaves nothing, and a shutdown in time loses no job. *)
(* ArchiveSystem implements JobLifecycle, and relies on Generate for no    *)
(* more than Generation promises. The readers change nothing they read:    *)
(* Http implements ArchiveSystem, so every safety theorem about the        *)
(* service holds with downloads and event streams running, and what a      *)
(* stream told its client follows from JobLifecycle alone.                 *)
(***************************************************************************)
EXTENDS Http, ArchiveSafetyProofs

USE DEF vars, serviceVars, workerVars, handlerFrame, workerFrame, cleanupVars,
        cleanupFrame, lifeVars, memory

(* Files and tokens appear only under IDs that were handed over to the      *)
(* queue, through every step of the system.                                 *)
LEMMA NoTraceStep ==
  ASSUME TypeOK, Ownership, NoTrace, [Next]_vars
  PROVE  NoTrace'
<1>t. /\ FilesTypeOK /\ disk \in [Jobs -> Files] /\ req \in [Jobs -> ReqState]
  BY DEF TypeOK, FilesTypeOK, ServiceTypeOK
<1>0. ASSUME \A j \in Jobs : req'[j] # "accepted" =>
               /\ req[j] # "accepted"
               /\ disk[j] = NoFiles => disk'[j] = NoFiles
               /\ \A e \in tokens' : e \in tokens \/ e.jobID # j
      PROVE  NoTrace'
  BY <1>0 DEF NoTrace
<1>1. ASSUME NEW j \in Jobs, Handler(j) PROVE NoTrace'
  <2>1. UNCHANGED <<disk, tokens>> /\ req[j] # "accepted" /\ \A k \in Jobs \ {j} : req'[k] = req[k]
    BY <1>t, <1>1 DEF Handler, BeginCreate, VerifyFails, CreateRecord, Enqueue, RollBack
  <2> QED BY <1>0, <2>1
<1>2. ASSUME NEW w \in Workers, ProcessStep(w) PROVE NoTrace'
  <2>1. wid[w] \in Jobs /\ req' = req /\ OnlyFiles(wid[w]) /\ req[wid[w]] = "accepted"
    BY <1>2, ProcessFrame DEF Ownership, FreshIDs
  <2>2. \A e \in tokens' : e \in tokens \/ e.jobID = wid[w]
    <3>1. CASE IssueToken(w)
      BY <3>1 DEF IssueToken, Issue
    <3>2. CASE ~IssueToken(w)
      BY <1>2, <3>2 DEF ProcessStep, GetJob, MarkProcessing, BuildManifest, RecordTotals, CreateTemp,
         WriteFile, CloseArchive, GenerateFails, Publish, PublishFails, Discard, FailJob, CompleteJob
    <3> QED BY <3>1, <3>2
  <2> QED BY <1>0, <2>1, <2>2 DEF OnlyFiles
<1>3. CASE Sweeper
  <2>1. req' = req /\ tokens' \subseteq tokens
    BY <1>3 DEF Sweeper, SweepStep, SweepList, SweepSelect, CleanupStops, SweepEnds, RevokeTokens,
       Revoke, DropRecord, ListArchives, ListArchivesFails, RemoveArchive, RemoveOrphan
  <2>2. ASSUME NEW k \in Jobs, disk[k] = NoFiles PROVE disk'[k] = NoFiles
    <3>1. ASSUME NEW j \in Jobs, FilesDelete(j) \/ FilesDeleteFails(j) PROVE disk'[k] = NoFiles
      BY <1>t, <2>2, <3>1 DEF FilesDelete, FilesDeleteFails, NoFiles, Files
    <3>2. CASE UNCHANGED disk
      BY <2>2, <3>2
    <3> QED BY <1>3, <3>1, <3>2 DEF Sweeper, SweepStep, SweepList, SweepSelect, CleanupStops,
               SweepEnds, RevokeTokens, DropRecord, ListArchives, ListArchivesFails,
               RemoveArchive, RemoveOrphan
  <2> QED BY <1>0, <2>1, <2>2
<1>4. CASE PoolCloses \/ Crash
  <2>1. /\ disk' = disk /\ tokens' = {}
        /\ \A j \in Jobs : req[j] = "accepted" => req'[j] = "accepted"
    BY <1>4 DEF PoolCloses, Crash, ProcessEnds
  <2> QED BY <1>0, <2>1
<1>5. CASE UNCHANGED <<req, disk, tokens>>
  BY <1>0, <1>5
<1> QED BY <1>1, <1>2, <1>3, <1>4, <1>5 DEF Next, Shutdown, Worker, Dequeue, WorkerStops, Clock,
          StopAccepting, CancelShutdown, ShutdownTimeout, WorkersDone, CleanupDone,
          ServerShutdown, ServeFails, Boot

(* Once the pool has stopped in time, no worker starts again in this        *)
(* process.                                                                 *)
LEMMA PoolStoppedStep ==
  ASSUME TypeOK, PoolStopped, [Next]_vars
  PROVE  PoolStopped'
<1> USE DEF PoolStopped
<1>1. ASSUME NEW w \in Workers, Worker(w) PROVE PoolStopped'
  <2>1. UNCHANGED <<phase, timedOut>> /\ wpc[w] # "stopped"
    BY <1>1, ProcessFrame, PCs DEF Worker, Dequeue, WorkerStops
  <2> QED BY <2>1
<1>2. CASE UNCHANGED <<wpc, phase, timedOut>>
  BY <1>2
<1>3. CASE WorkersDone
  BY <1>3 DEF WorkersDone
<1>4. CASE CleanupDone \/ ShutdownTimeout
  BY <1>4 DEF CleanupDone, ShutdownTimeout
<1>5. CASE phase' \notin {"cleanup", "closing"}
  BY <1>5
<1>6. ASSUME NEW j \in Jobs, Handler(j) PROVE UNCHANGED <<wpc, phase, timedOut>>
  BY <1>6 DEF Handler, BeginCreate, VerifyFails, CreateRecord, Enqueue, RollBack
<1>7. CASE StopAccepting \/ CancelShutdown \/ ServerShutdown \/ ServeFails \/ PoolCloses \/ Crash \/ Boot
  BY <1>5, <1>7 DEF StopAccepting, CancelShutdown, ServerShutdown, ServeFails, PoolCloses, Crash,
     ProcessEnds, Boot
<1> QED BY <1>1, <1>2, <1>3, <1>4, <1>6, <1>7 DEF Next, Shutdown, Sweeper, Clock

-------------------------------------------------------------------------------
Invariant == TypeOK /\ SafetyInv /\ HistoryInv

(* Records, copies, files, tokens and the stopped pool stay as HistoryInv   *)
(* says at every step of every goroutine.                                   *)
THEOREM HistoryInvariant == Spec => [](TypeOK /\ SafetyInv /\ HistoryInv)
<1>1. Init => HistoryInv
  <2> SUFFICES ASSUME Init PROVE HistoryInv
    OBVIOUS
  <2> USE DEF Init, StoreInit, TokensInit, FilesInit, ServiceInit, CleanupInit
  <2>1. \A j \in Jobs : RecordSound(jobs[j])
    BY NoJobSound
  <2>2. \A w \in Workers : CopyInStep(w)
    BY PCs DEF CopyInStep
  <2>3. NoTrace /\ PoolStopped
    BY DEF NoTrace, PoolStopped
  <2> QED BY <2>1, <2>2, <2>3 DEF HistoryInv
<1>2. TypeOK /\ SafetyInv /\ HistoryInv /\ [Next]_vars => HistoryInv'
  <2> SUFFICES ASSUME TypeOK, SafetyInv, HistoryInv, [Next]_vars PROVE HistoryInv'
    OBVIOUS
  <2>1. Ownership /\ Stages /\ TokenStage /\ Records /\ NoTrace /\ PoolStopped
    BY DEF SafetyInv, HistoryInv, Ownership, Stages, Records
  <2>2. Records' /\ NoTrace' /\ PoolStopped'
    BY <2>1, RecordsStep, NoTraceStep, PoolStoppedStep
  <2> QED BY <2>2 DEF HistoryInv, Records
<1> QED BY <1>1, <1>2, SafetyInvariant, PTL DEF Spec, Invariant

(* A completed job has archived every file of its manifest.                 *)
THEOREM ProgressIsTrueAlways == Spec => []ProgressIsTrue
<1>1. Invariant => ProgressIsTrue
  BY DEF Invariant, HistoryInv, RecordSound, ProgressIsTrue
<1> QED BY <1>1, HistoryInvariant, PTL DEF Invariant

(* Although workers overwrite records with their own copies, progress never *)
(* goes back and the deadline of a job never comes nearer.                  *)
THEOREM RecordsAdvanceAlways == Spec => RecordsAdvance
<1>1. Invariant /\ [Next]_vars =>
        [\A j \in Jobs : Exists(j) /\ jobs'[j].status # "none" =>
           /\ jobs'[j].processedFiles >= jobs[j].processedFiles
           /\ Deadline(jobs'[j]) >= Deadline(jobs[j])]_vars
  <2> SUFFICES ASSUME Invariant, [Next]_vars PROVE Advances
    BY DEF Advances
  <2>1. Ownership /\ Stages /\ Records /\ TypeOK
    BY DEF Invariant, SafetyInv, HistoryInv, Ownership, Stages, Records
  <2> QED BY <2>1, AdvanceStep
<1> QED BY <1>1, HistoryInvariant, PTL DEF Spec, Invariant, RecordsAdvance

(* A creation that was refused or cut off leaves no record, no queue entry, *)
(* no worker, no token and no file.                                         *)
THEOREM RefusedLeavesNothingAlways == Spec => []RefusedLeavesNothing
<1>1. Invariant => RefusedLeavesNothing
  BY DEF Invariant, SafetyInv, HistoryInv, RecordStage, FreshIDs, RecordSound, NoTrace,
     RefusedLeavesNothing
<1> QED BY <1>1, HistoryInvariant, PTL DEF Invariant

(* A shutdown that closes the server before its timeout leaves no job half  *)
(* done.                                                                    *)
THEOREM DrainedBeforeCloseAlways == Spec => []DrainedBeforeClose
<1>1. Invariant => DrainedBeforeClose
  BY StageSets DEF Invariant, SafetyInv, HistoryInv, NoLostJob, PoolStopped, DrainedBeforeClose
<1> QED BY <1>1, HistoryInvariant, PTL DEF Invariant

-------------------------------------------------------------------------------
(* Temp files and their writers *)

Writing == {"write", "publish", "discard"}
HasWriter(j) == \E w \in Workers : wid[w] = j /\ wpc[w] \in Writing

(* A temp file whose job has a writer that moves, or has lost it, through a *)
(* step of ProcessJob.                                                      *)
LEMMA WriterProcess ==
  ASSUME TypeOK, NEW w \in Workers, ProcessStep(w), faults' = 0,
         NEW j \in Jobs, HasTemp(j) => HasWriter(j), HasTemp(j)'
  PROVE  HasWriter(j)'
<1>t. WorkerTypeOK /\ FilesTypeOK
  BY DEF TypeOK, ServiceTypeOK
<1>f. wid[w] \in Jobs /\ OnlyWorker(w) /\ OnlyFiles(wid[w])
  BY ProcessFrame
<1>1. CASE \E v \in Workers \ {w} : wid[v] = j /\ wpc[v] \in Writing
  <2>1. PICK v \in Workers \ {w} : wid[v] = j /\ wpc[v] \in Writing
    BY <1>1
  <2>2. wid'[v] = j /\ wpc'[v] \in Writing
    BY <1>f, <2>1 DEF OnlyWorker
  <2> QED BY <2>2 DEF HasWriter
<1>2. CASE wid[w] # j
  <2>1. HasTemp(j)
    BY <1>2, <1>f DEF OnlyFiles, HasTemp
  <2>2. \E v \in Workers \ {w} : wid[v] = j /\ wpc[v] \in Writing
    BY <1>2, <2>1 DEF HasWriter
  <2> QED BY <1>1, <2>2
<1>3. CASE wid[w] = j /\ ~ \E v \in Workers \ {w} : wid[v] = j /\ wpc[v] \in Writing
  <2>1. HasTemp(j) => wpc[w] \in Writing
    BY <1>3 DEF HasWriter
  <2>2. SUFFICES wid'[w] = j /\ wpc'[w] \in Writing
    BY DEF HasWriter
  <2>3. CASE disk' = disk
    <3>1. wpc[w] \in Writing
      BY <2>1, <2>3 DEF HasTemp
    <3>2. CASE WriteFile(w) \/ GenerateFails(w) \/ PublishFails(w)
      <4>1. \E pc \in Writing : \E rec : GoTo(w, pc, rec)
        BY <3>2 DEF WriteFile, GenerateFails, PublishFails, Writing
      <4> QED BY <1>3, <1>t, <4>1, GoToFrame
    <3>3. CASE CloseArchive(w)
      <4>1. GoTo(w, "publish", cur[w])
        BY <3>3 DEF CloseArchive
      <4> QED BY <1>3, <1>t, <4>1, GoToFrame DEF Writing
    <3>4. CASE Publish(w)
      <4>1. disk'[j].tmp = "none"
        BY <1>3, <1>t, <3>4 DEF Publish, RenameTemp, FilesTypeOK, Files
      <4> QED BY <4>1 DEF HasTemp
    <3>5. CASE Discard(w)
      <4>1. FilesDelete(j)
        BY <1>3, <1>t, <3>5 DEF Discard, FilesDeleteFails, FilesTypeOK
      <4>2. disk'[j] = NoFiles
        BY <1>t, <4>1 DEF FilesDelete, FilesTypeOK
      <4> QED BY <4>2 DEF HasTemp, NoFiles
    <3> QED BY <3>1, <3>2, <3>3, <3>4, <3>5 DEF Writing, ProcessStep, GetJob, MarkProcessing,
               BuildManifest, RecordTotals, CreateTemp, FailJob, IssueToken, CompleteJob
  <2>4. CASE disk' # disk
    <3>1. CASE CreateTemp(w)
      <4>1. GoTo(w, "write", cur[w])
        BY <2>4, <3>1 DEF CreateTemp
      <4> QED BY <1>3, <1>t, <4>1, GoToFrame DEF Writing
    <3>2. CASE CloseArchive(w)
      <4>1. GoTo(w, "publish", cur[w])
        BY <3>2 DEF CloseArchive
      <4> QED BY <1>3, <1>t, <4>1, GoToFrame DEF Writing
    <3>3. CASE Publish(w)
      <4>1. disk'[j].tmp = "none"
        BY <1>3, <1>t, <3>3 DEF Publish, RenameTemp, FilesTypeOK, Files
      <4> QED BY <4>1 DEF HasTemp
    <3>4. CASE Discard(w)
      <4>1. FilesDelete(j)
        BY <1>3, <1>t, <3>4 DEF Discard, FilesDeleteFails, FilesTypeOK
      <4>2. disk'[j] = NoFiles
        BY <1>t, <4>1 DEF FilesDelete, FilesTypeOK
      <4> QED BY <4>2 DEF HasTemp, NoFiles
    <3> QED BY <2>4, <3>1, <3>2, <3>3, <3>4 DEF ProcessStep, GetJob, MarkProcessing, BuildManifest,
               RecordTotals, WriteFile, GenerateFails, PublishFails, FailJob, IssueToken, CompleteJob
  <2> QED BY <2>3, <2>4
<1> QED BY <1>1, <1>2, <1>3

(* No error path of generateArchive leaves a temp file behind, in any       *)
(* interleaving with the sweeper and the other workers: as long as no       *)
(* removal has failed and no process has died, every temp file has a worker *)
(* that will rename or delete it.                                           *)
THEOREM NoStrayTempAlways == Spec => []NoStrayTemp
<1>1. Init => NoStrayTemp
  BY DEF Init, FilesInit, NoFiles, HasTemp, NoStrayTemp
<1>2. TypeOK /\ SafetyInv /\ NoStrayTemp /\ [Next]_vars => NoStrayTemp'
  <2> SUFFICES ASSUME TypeOK, SafetyInv, NoStrayTemp, [Next]_vars, faults' = 0, exits' = 0,
                      NEW j \in Jobs, HasTemp(j)'
               PROVE  HasWriter(j)'
    BY DEF NoStrayTemp, HasWriter, Writing, HasTemp
  <2>t. faults \in Nat /\ exits \in Nat /\ FilesTypeOK /\ WorkerTypeOK
    BY DEF TypeOK, FilesTypeOK, ServiceTypeOK
  <2>w. faults = 0 /\ exits = 0 => (HasTemp(j) => HasWriter(j))
    BY DEF NoStrayTemp, HasWriter, Writing
  <2>k. ASSUME faults' = faults, exits' = exits, disk'[j].tmp \in {disk[j].tmp, "none"},
               \A w \in Workers : wid[w] = j /\ wpc[w] \in Writing => wid'[w] = j /\ wpc'[w] = wpc[w]
        PROVE  HasWriter(j)'
    <3>1. HasWriter(j)
      BY <2>k, <2>w DEF HasTemp
    <3> QED BY <2>k, <3>1 DEF HasWriter
  <2>1. ASSUME NEW w \in Workers, ProcessStep(w), UNCHANGED <<cleanupVars, lifeVars>>
        PROVE  HasWriter(j)'
    <3>a. ASSUME Discard(w)
          PROVE  faults' >= faults
      <4>1. faults' \in {faults, faults + 1}
        BY ONLY <3>a DEF Discard, FilesDelete, FilesDeleteFails
      <4> QED BY ONLY <4>1, <2>t
    <3>b. ASSUME GetJob(w) \/ MarkProcessing(w) \/ BuildManifest(w) \/ RecordTotals(w)
          PROVE  faults' >= faults
      <4>1. faults' = faults
        BY ONLY <3>b, Zenon DEF GetJob, MarkProcessing, BuildManifest, RecordTotals
      <4> QED BY ONLY <4>1, <2>t
    <3>c. ASSUME CreateTemp(w) \/ WriteFile(w) \/ CloseArchive(w) \/ GenerateFails(w)
          PROVE  faults' >= faults
      <4>1. faults' = faults
        BY ONLY <3>c, Zenon DEF CreateTemp, WriteFile, CloseArchive, GenerateFails
      <4> QED BY ONLY <4>1, <2>t
    <3>d. ASSUME Publish(w) \/ PublishFails(w) \/ FailJob(w) \/ IssueToken(w) \/ CompleteJob(w)
          PROVE  faults' >= faults
      <4>1. faults' = faults
        BY ONLY <3>d, Zenon DEF Publish, PublishFails, FailJob, IssueToken, CompleteJob
      <4> QED BY ONLY <4>1, <2>t
    <3>0. exits' = exits
      BY ONLY <2>1 DEF lifeVars
    <3>1. faults' >= faults /\ exits' = exits
      BY ONLY <2>1, <3>0, <3>a, <3>b, <3>c, <3>d, Zenon DEF ProcessStep
    <3>2. HasTemp(j) => HasWriter(j)
      BY <3>1, <2>t, <2>w
    <3> QED BY <2>1, <3>2, WriterProcess
  <2>2. ASSUME NEW k \in Jobs, Handler(k) PROVE HasWriter(j)'
    BY <2>2, <2>k DEF Handler, BeginCreate, VerifyFails, CreateRecord, Enqueue, RollBack
  <2>3. ASSUME NEW w \in Workers, Dequeue(w) \/ WorkerStops(w), UNCHANGED <<cleanupVars, lifeVars>>
        PROVE  HasWriter(j)'
    BY <2>3, <2>k, <2>t DEF Dequeue, WorkerStops, Writing, WorkerTypeOK
  <2>4. CASE Sweeper
    <3>a. exits' = exits /\ UNCHANGED <<wid, wpc>>
      BY ONLY <2>4 DEF Sweeper, serviceVars, lifeVars
    <3>b. faults' = faults \/ faults' = faults + 1
      BY ONLY <2>4, Zenon DEF Sweeper, SweepStep, SweepList, SweepSelect, RevokeTokens, DropRecord,
         ListArchives, ListArchivesFails, SweepEnds, CleanupStops, RemoveArchive, RemoveOrphan,
         FilesDelete, FilesDeleteFails
    <3>0. faults' = 0 OBVIOUS
    <3>c. faults' = faults
      BY ONLY <2>t, <3>b, <3>0
    <3>1. faults' = faults /\ exits' = exits /\ UNCHANGED <<wid, wpc>>
      BY ONLY <3>a, <3>c
    <3>2. CASE disk' = disk
      BY <2>k, <3>1, <3>2
    <3>3. CASE \E k \in Jobs : RemoveArchive(k) \/ RemoveOrphan(k)
      <4>1. PICK k \in Jobs : FilesDelete(k) \/ FilesDeleteFails(k)
        BY <3>3 DEF RemoveArchive, RemoveOrphan
      <4>2. disk'[j].tmp \in {disk[j].tmp, "none"}
        BY <2>t, <4>1, DeleteFrame
      <4> QED BY <2>k, <3>1, <4>2
    <3> QED BY <2>4, <3>2, <3>3 DEF Sweeper, SweepStep, SweepList, SweepSelect, RevokeTokens,
               DropRecord, ListArchives, ListArchivesFails, SweepEnds, CleanupStops
  <2>5. CASE Clock \/ StopAccepting \/ CancelShutdown \/ ShutdownTimeout \/ WorkersDone
             \/ CleanupDone \/ ServerShutdown \/ ServeFails \/ UNCHANGED vars
    BY <2>5, <2>k DEF Clock, StopAccepting, CancelShutdown, ShutdownTimeout, WorkersDone, CleanupDone,
       ServerShutdown, ServeFails
  <2>6. CASE PoolCloses \/ Crash
    BY <2>6, <2>t DEF PoolCloses, Crash, ProcessEnds
  <2>7. CASE Boot
    <3>1. ~HasWriter(j)
      BY <2>7 DEF Boot, SafetyInv, DownIsQuiet, HasWriter, Writing
    <3>2. ~HasTemp(j)
      BY <2>7, <2>w, <3>1 DEF Boot
    <3> QED BY <2>7, <3>2 DEF Boot, HasTemp
  <2> QED BY <2>1, <2>2, <2>3, <2>4, <2>5, <2>6, <2>7 DEF Next, Shutdown, Worker
<1> QED BY <1>1, <1>2, TypeCorrect, SafetyInvariant, PTL DEF Spec

-------------------------------------------------------------------------------
(* The refinements *)

(* The abstract state of one job depends on its record and its request.     *)
LEMMA StateOf ==
  ASSUME NEW j \in Jobs
  PROVE  /\ jobs[j].status # "none" => LifecycleState[j] = jobs[j].status
         /\ jobs[j].status = "none" =>
              LifecycleState[j] = IF req[j] \in {"idle", "checked"} THEN "absent" ELSE "gone"
BY DEF LifecycleState, Exists

(* The same after a step. *)
LEMMA StateOfNext ==
  ASSUME NEW j \in Jobs
  PROVE  /\ jobs'[j].status # "none" => LifecycleState'[j] = jobs'[j].status
         /\ jobs'[j].status = "none" =>
              LifecycleState'[j] = IF req'[j] \in {"idle", "checked"} THEN "absent" ELSE "gone"
BY DEF LifecycleState, Exists

(* A job whose record and request stay keeps its abstract state.            *)
LEMMA SameState ==
  ASSUME NEW j \in Jobs, jobs'[j] = jobs[j], req'[j] = req[j]
  PROVE  LifecycleState'[j] = LifecycleState[j]
BY StateOf, StateOfNext

(* A step that changes the abstract state of no job is a stutter.           *)
LEMMA Stutters ==
  ASSUME \A j \in Jobs : LifecycleState'[j] = LifecycleState[j]
  PROVE  LifecycleState' = LifecycleState
BY DEF LifecycleState

(* A step that changes one job's abstract state is a move of that job.      *)
LEMMA Moves ==
  ASSUME NEW j \in Jobs, NEW from, NEW to, LifecycleState[j] = from, LifecycleState'[j] = to,
         \A k \in Jobs \ {j} : LifecycleState'[k] = LifecycleState[k]
  PROVE  LC!Move(j, from, to)
<1>1. LifecycleState' = [LifecycleState EXCEPT ![j] = to]
  BY DEF LifecycleState
<1> QED BY <1>1 DEF LC!Move

(* Records that disappear, after their creation, are a removal.             *)
LEMMA Removes ==
  ASSUME jobs' \in [Jobs -> Job],
         \A j \in Jobs : \/ LifecycleState'[j] = LifecycleState[j]
                         \/ LifecycleState[j] # "absent" /\ LifecycleState'[j] = "gone"
  PROVE  LC!Remove
<1>1. LifecycleState' \in [Jobs -> LC!State]
  BY DEF LifecycleState, LC!State, Job, JobStatus, Exists
<1> QED BY <1>1 DEF LC!Remove

(* A step of CreateJob creates or rolls back one record.                    *)
LEMMA LifecycleHandler ==
  ASSUME TypeOK, jobs' \in [Jobs -> Job], SafetyInv, NEW j \in Jobs, Handler(j)
  PROVE  LC!Next \/ UNCHANGED LifecycleState
<1>t. jobs \in [Jobs -> Job] /\ req \in [Jobs -> ReqState]
  BY DEF TypeOK, StoreTypeOK, ServiceTypeOK
<1>k. \A k \in Jobs \ {j} : req'[k] = req[k] /\ jobs'[k] = jobs[k]
  BY <1>t DEF Handler, BeginCreate, VerifyFails, CreateRecord, Enqueue, RollBack,
              StoreCreate, StoreDelete
<1>o. \A k \in Jobs \ {j} : LifecycleState'[k] = LifecycleState[k]
  <2> TAKE k \in Jobs \ {j}
  <2>1. k \in Jobs /\ jobs'[k] = jobs[k] /\ req'[k] = req[k]
    BY <1>k, Zenon
  <2> QED BY ONLY <2>1, SameState, Zenon
<1>1. CASE BeginCreate(j) \/ VerifyFails(j) \/ Enqueue(j)
  <2>1. /\ jobs' = jobs
        /\ req[j] \in {"idle", "checked"} <=> req'[j] \in {"idle", "checked"}
    BY <1>t, <1>1 DEF BeginCreate, VerifyFails, Enqueue
  <2>2. LifecycleState'[j] = LifecycleState[j]
    BY <2>1, StateOf, StateOfNext
  <2> QED BY <1>o, <2>2, Stutters
<1>2. CASE CreateRecord(j)
  <2>1. /\ jobs[j].status = "none" /\ req[j] = "checked" /\ jobs'[j] = QueuedJob
    BY <1>t, <1>2 DEF CreateRecord, StoreCreate, Exists
  <2>2. QueuedJob.status = "queued"
    BY NoJobType DEF QueuedJob, Job
  <2>3. LC!Accept(j)
    BY <1>o, <2>1, <2>2, StateOf, StateOfNext, Moves DEF LC!Accept
  <2> QED BY <2>3 DEF LC!Next
<1>3. CASE RollBack(j)
  <2>1. req[j] = "recorded" /\ req'[j] = "rejected" /\ jobs'[j].status = "none"
    BY <1>t, <1>3 DEF RollBack, StoreDelete, NoJob
  <2>2. jobs[j].status \in {"none", "queued"}
    BY <2>1 DEF SafetyInv, RecordStage
  <2>3. LifecycleState'[j] = "gone" /\ LifecycleState[j] # "absent"
    BY <2>1, <2>2, StateOf, StateOfNext
  <2>4. LC!Remove
    BY <1>o, <2>3, Removes
  <2> QED BY <2>4 DEF LC!Next
<1> QED BY <1>1, <1>2, <1>3 DEF Handler

(* A step of ProcessJob moves its own job forward or nothing.               *)
LEMMA LifecycleProcess ==
  ASSUME TypeOK, SafetyInv, NEW w \in Workers, ProcessStep(w)
  PROVE  LC!Next \/ UNCHANGED LifecycleState
<1>t. /\ StoreTypeOK /\ WorkerTypeOK /\ cur[w] \in Job
  BY DEF TypeOK, ServiceTypeOK, StoreTypeOK, WorkerTypeOK
<1>f. /\ wpc[w] \in Busy /\ wid[w] \in Jobs /\ req' = req /\ OnlyRecord(wid[w])
  BY ProcessFrame
<1>s. WorkerStage(w)
  BY DEF SafetyInv
<1>o. \A k \in Jobs \ {wid[w]} : LifecycleState'[k] = LifecycleState[k]
  BY <1>f, StateOf, StateOfNext DEF OnlyRecord
<1>0. ASSUME jobs'[wid[w]].status = jobs[wid[w]].status PROVE UNCHANGED LifecycleState
  <2>1. LifecycleState'[wid[w]] = LifecycleState[wid[w]]
    BY <1>0, <1>f, StateOf, StateOfNext
  <2> QED BY <1>o, <2>1, Stutters
<1>1. ASSUME NEW rec, StoreUpdate(wid[w], rec), jobs'[wid[w]].status # jobs[wid[w]].status
      PROVE  jobs'[wid[w]] = rec /\ jobs[wid[w]].status # "none"
  BY <1>t, <1>f, <1>1, UpdateFrame
<1>m. ASSUME jobs[wid[w]].status # "none", jobs'[wid[w]].status # "none"
      PROVE  LC!Move(wid[w], jobs[wid[w]].status, jobs'[wid[w]].status)
  BY <1>f, <1>o, <1>m, StateOf, StateOfNext, Moves
<1>2. CASE MarkProcessing(w)
  <2> SUFFICES ASSUME jobs'[wid[w]].status # jobs[wid[w]].status PROVE LC!Next
    BY <1>0
  <2>1. jobs'[wid[w]].status = "processing" /\ jobs[wid[w]].status = "queued"
    BY <1>t, <1>s, <1>1, <1>2, StageSets DEF MarkProcessing, UpdateOrReturn, WorkerStage, Job
  <2>2. LC!Start(wid[w])
    BY <1>m, <2>1 DEF LC!Start
  <2> QED BY <1>f, <2>2 DEF LC!Next
<1>3. CASE RecordTotals(w) \/ WriteFile(w)
  <2>1. PICK rec : StoreUpdate(wid[w], rec) /\ rec.status = cur[w].status
    <3>1. CASE RecordTotals(w)
      BY <3>1 DEF RecordTotals, UpdateOrReturn
    <3>2. CASE WriteFile(w)
      <4>1. [cur[w] EXCEPT !.processedFiles = @ + 1].status = cur[w].status
        BY <1>t DEF Job
      <4> QED BY <3>2, <4>1 DEF WriteFile
    <3> QED BY <1>3, <3>1, <3>2
  <2>2. wpc[w] \in Late
    BY <1>3, StageSets DEF RecordTotals, WriteFile
  <2>3. jobs'[wid[w]].status = jobs[wid[w]].status
    BY <1>s, <1>1, <2>1, <2>2 DEF WorkerStage
  <2> QED BY <1>0, <2>3
<1>4. CASE FailJob(w)
  <2> SUFFICES ASSUME jobs'[wid[w]].status # jobs[wid[w]].status PROVE LC!Next
    BY <1>0
  <2>1. jobs'[wid[w]].status = "failed" /\ jobs[wid[w]].status = "processing"
    BY <1>t, <1>s, <1>1, <1>4, StageSets DEF FailJob, WorkerStage, Job
  <2>2. LC!Fail(wid[w])
    BY <1>m, <2>1 DEF LC!Fail
  <2> QED BY <1>f, <2>2 DEF LC!Next
<1>5. CASE CompleteJob(w)
  <2> SUFFICES ASSUME jobs'[wid[w]].status # jobs[wid[w]].status PROVE LC!Next
    BY <1>0
  <2>0. CompletedJob(w).status = "completed"
    BY <1>t DEF CompletedJob, Job
  <2>1. jobs'[wid[w]].status = "completed" /\ jobs[wid[w]].status = "processing"
    BY <1>s, <1>1, <1>5, <2>0, StageSets DEF CompleteJob, WorkerStage
  <2>2. LC!Complete(wid[w])
    BY <1>m, <2>1 DEF LC!Complete
  <2> QED BY <1>f, <2>2 DEF LC!Next
<1>6. CASE GetJob(w) \/ BuildManifest(w) \/ CreateTemp(w) \/ CloseArchive(w) \/ GenerateFails(w)
           \/ Publish(w) \/ PublishFails(w) \/ Discard(w) \/ IssueToken(w)
  BY <1>0, <1>6 DEF GetJob, BuildManifest, CreateTemp, CloseArchive, GenerateFails, Publish,
     PublishFails, Discard, IssueToken
<1> QED BY <1>2, <1>3, <1>4, <1>5, <1>6 DEF ProcessStep

(* The service implements the lifecycle: every step of the system is a step *)
(* of one job, a removal, or nothing to JobLifecycle.                       *)
THEOREM LifecycleImplemented == Spec => Lifecycle
<1>1. Init => LC!Init
  <2> SUFFICES ASSUME Init PROVE LifecycleState = [j \in Jobs |-> "absent"]
    BY DEF LC!Init
  <2> QED BY DEF LifecycleState, Exists, Init, StoreInit, ServiceInit, NoJob
<1>2. TypeOK /\ TypeOK' /\ SafetyInv /\ [Next]_vars => [LC!Next]_LifecycleState
  <2> SUFFICES ASSUME TypeOK, TypeOK', SafetyInv, [Next]_vars
               PROVE  LC!Next \/ UNCHANGED LifecycleState
    OBVIOUS
  <2>t. jobs \in [Jobs -> Job] /\ jobs' \in [Jobs -> Job] /\ req \in [Jobs -> ReqState]
    BY DEF TypeOK, StoreTypeOK, ServiceTypeOK
  <2>r. \A j \in Jobs : req[j] \in {"idle", "checked"} => jobs[j].status = "none"
    BY DEF SafetyInv, RecordStage
  <2>1. CASE UNCHANGED <<jobs, req>>
    BY <2>1, StateOf, StateOfNext, Stutters
  <2>2. CASE DropRecord /\ Sweeper
    <3>1. req' = req /\ \A j \in Jobs : jobs'[j] = jobs[j] \/ jobs'[j].status = "none"
      BY <2>t, <2>2 DEF DropRecord, StoreDelete, Sweeper, NoJob
    <3>2. \A j \in Jobs : \/ LifecycleState'[j] = LifecycleState[j]
                          \/ LifecycleState[j] # "absent" /\ LifecycleState'[j] = "gone"
      <4> TAKE j \in Jobs
      <4>1. CASE jobs'[j] = jobs[j]
        BY <3>1, <4>1, StateOf, StateOfNext
      <4>2. CASE jobs'[j].status = "none" /\ jobs[j].status = "none"
        BY <3>1, <4>2, StateOf, StateOfNext
      <4>3. CASE jobs'[j].status = "none" /\ jobs[j].status # "none"
        <5>1. jobs[j].status # "absent"
          BY <2>t DEF Job, JobStatus
        <5> QED BY <2>r, <3>1, <4>3, <5>1, StateOf, StateOfNext
      <4> QED BY <3>1, <4>1, <4>2, <4>3
    <3>3. LC!Remove
      BY <2>t, <3>2, Removes
    <3> QED BY <3>3 DEF LC!Next
  <2>3. CASE PoolCloses \/ Crash
    <3>1. \A j \in Jobs : /\ jobs'[j].status = "none"
                          /\ req'[j] \in {"idle", "checked"} <=> req[j] \in {"idle", "checked"}
      BY <2>t, <2>3 DEF PoolCloses, Crash, ProcessEnds, NoJob
    <3>2. \A j \in Jobs : \/ LifecycleState'[j] = LifecycleState[j]
                          \/ LifecycleState[j] # "absent" /\ LifecycleState'[j] = "gone"
      <4> TAKE j \in Jobs
      <4>1. CASE jobs[j].status = "none"
        BY <3>1, <4>1, StateOf, StateOfNext
      <4>2. CASE jobs[j].status # "none"
        <5>1. jobs[j].status # "absent"
          BY <2>t DEF Job, JobStatus
        <5> QED BY <2>r, <3>1, <4>2, <5>1, StateOf, StateOfNext
      <4> QED BY <4>1, <4>2
    <3>3. LC!Remove
      BY <2>t, <3>2, Removes
    <3> QED BY <3>3 DEF LC!Next
  <2>4. CASE Sweeper /\ ~DropRecord
    BY <2>1, <2>4 DEF Sweeper, SweepStep, SweepList, SweepSelect, CleanupStops, SweepEnds,
       RevokeTokens, ListArchives, ListArchivesFails, RemoveArchive, RemoveOrphan
  <2>5. CASE UNCHANGED vars \/ Clock \/ StopAccepting \/ CancelShutdown \/ ShutdownTimeout \/ WorkersDone
             \/ CleanupDone \/ ServerShutdown \/ ServeFails \/ Boot
    BY <2>1, <2>5 DEF Clock, StopAccepting, CancelShutdown, ShutdownTimeout, WorkersDone,
       CleanupDone, ServerShutdown, ServeFails, Boot
  <2>6. ASSUME NEW w \in Workers, Dequeue(w) \/ WorkerStops(w) PROVE UNCHANGED <<jobs, req>>
    BY <2>6 DEF Dequeue, WorkerStops
  <2> QED BY <2>1, <2>2, <2>3, <2>4, <2>5, <2>6, <2>t, LifecycleHandler, LifecycleProcess
          DEF Next, Shutdown, Worker
<1> QED BY <1>1, <1>2, SafetyInvariant, PTL DEF Spec, Lifecycle, LC!Spec

-------------------------------------------------------------------------------
(* A worker that keeps place and copy, or stays outside its call of         *)
(* Generate, stutters.                                                      *)
LEMMA CallStutters ==
  ASSUME NEW w \in Workers,
         \/ wpc'[w] = wpc[w] /\ cur'[w] = cur[w]
         \/ wpc[w] \notin {"write", "publish"} /\ wpc'[w] \notin {"write", "publish"}
  PROVE  [GW(w)!Next]_(GW(w)!vars)
BY DEF GW!vars, InCall

(* A worker that leaves its call, with success used or with a failure.      *)
LEMMA CallEnds ==
  ASSUME NEW w \in Workers, wpc[w] \in {"write", "publish"}, wpc'[w] \notin {"write", "publish"}
  PROVE  GW(w)!Next
BY DEF GW!Next, GW!End, InCall

(* Every step of ProcessJob treats Generate as Generation allows.           *)
LEMMA CallProcess ==
  ASSUME TypeOK, HistoryInv, NEW w \in Workers, ProcessStep(w)
  PROVE  [GW(w)!Next]_(GW(w)!vars)
<1>t. WorkerTypeOK /\ cur[w] \in Job
  BY DEF TypeOK, ServiceTypeOK, WorkerTypeOK
<1>n. cur[w].processedFiles \in Nat /\ cur[w].totalFiles \in Nat
  BY <1>t DEF Job
<1>1. CASE GetJob(w) \/ MarkProcessing(w) \/ RecordTotals(w) \/ BuildManifest(w) \/ Discard(w)
           \/ IssueToken(w) \/ FailJob(w) \/ CompleteJob(w)
  <2>1. wpc[w] \notin {"write", "publish"}
    BY <1>1 DEF GetJob, MarkProcessing, RecordTotals, BuildManifest, Discard, IssueToken,
       FailJob, CompleteJob
  <2>2. wpc'[w] \notin {"write", "publish"}
    <3>1. CASE GetJob(w) \/ Discard(w) \/ FailJob(w) \/ CompleteJob(w)
      BY <1>t, <3>1, GoToFrame, ReturnFrame DEF GetJob, Discard, FailJob, CompleteJob
    <3>u. ASSUME NEW pc \in {"manifest", "create", "fail"}, NEW rec, UpdateOrReturn(w, pc, rec)
          PROVE  wpc'[w] \notin {"write", "publish"}
      <4>1. wpc'[w] = pc \/ wpc'[w] = "idle"
        BY <1>t, <3>u, GoToFrame, ReturnFrame DEF UpdateOrReturn
      <4> QED BY <4>1
    <3>2. CASE MarkProcessing(w) \/ RecordTotals(w)
      BY <3>u, <3>2 DEF MarkProcessing, RecordTotals
    <3>g. ASSUME NEW pc \in {"totals", "finish", "fail"}, NEW rec, GoTo(w, pc, rec)
          PROVE  wpc'[w] \notin {"write", "publish"}
      BY <1>t, <3>g, GoToFrame
    <3>3. CASE BuildManifest(w) \/ IssueToken(w)
      BY <3>g, <3>3 DEF BuildManifest, IssueToken
    <3> QED BY <1>1, <3>1, <3>2, <3>3
  <2> QED BY <2>1, <2>2, CallStutters
<1>2. CASE CreateTemp(w)
  <2>1. CASE wpc'[w] = "fail"
    BY <1>2, <2>1, CallStutters DEF CreateTemp
  <2>2. CASE GoTo(w, "write", cur[w])
    <3>1. wpc[w] = "create" /\ wpc'[w] = "write" /\ cur'[w] = cur[w]
      BY <1>t, <1>2, <2>2, GoToFrame DEF CreateTemp
    <3>2. cur[w].processedFiles = 0
      BY <3>1, PCs DEF HistoryInv, CopyInStep
    <3>3. GW(w)!Begin
      BY <1>n, <3>1, <3>2 DEF GW!Begin, InCall
    <3> QED BY <3>3 DEF GW!Next
  <2> QED BY <1>t, <1>2, <2>1, <2>2, GoToFrame DEF CreateTemp
<1>3. CASE WriteFile(w)
  <2> DEFINE q == [cur[w] EXCEPT !.processedFiles = @ + 1]
  <2>0. q.processedFiles = cur[w].processedFiles + 1 /\ q.totalFiles = cur[w].totalFiles
    BY <1>t DEF Job
  <2>1. /\ wpc[w] = "write" /\ wpc'[w] = "write" /\ cur'[w] = q
        /\ cur[w].processedFiles < cur[w].totalFiles
    BY <1>t, <1>3, GoToFrame DEF WriteFile
  <2> HIDE DEF q
  <2>2. GW(w)!AddFile
    BY <1>n, <2>0, <2>1 DEF GW!AddFile, InCall
  <2> QED BY <2>2 DEF GW!Next
<1>4. CASE CloseArchive(w)
  <2>1. /\ wpc[w] = "write" /\ wpc'[w] = "publish" /\ cur'[w] = cur[w]
        /\ cur[w].processedFiles = cur[w].totalFiles
    BY <1>t, <1>4, GoToFrame DEF CloseArchive
  <2>2. GW(w)!Succeed
    BY <2>1 DEF GW!Succeed, InCall
  <2> QED BY <2>2 DEF GW!Next
<1>5. CASE GenerateFails(w) \/ PublishFails(w) \/ Publish(w)
  <2>1. wpc[w] \in {"write", "publish"} /\ wpc'[w] \in {"discard", "issue"}
    BY <1>t, <1>5, GoToFrame DEF GenerateFails, PublishFails, Publish, WorkerTypeOK
  <2> QED BY <2>1, CallEnds
<1> QED BY <1>1, <1>2, <1>3, <1>4, <1>5 DEF ProcessStep

(* The workers rely on Generate for no more than Generation promises: what  *)
(* holds of ArchiveSystem holds with any Generate that keeps the promise.   *)
THEOREM PromiseSuffices == Spec => RelyOnPromise
<1>1. Init => \A w \in Workers : GW(w)!Init
  <2> SUFFICES ASSUME Init, NEW w \in Workers PROVE GW(w)!Init
    OBVIOUS
  <2>1. wpc[w] = "idle"
    BY DEF Init, ServiceInit
  <2> QED BY <2>1 DEF GW!Init, InCall
<1>2. Invariant /\ [Next]_vars => [\A w \in Workers : [GW(w)!Next]_(GW(w)!vars)]_vars
  <2> SUFFICES ASSUME Invariant, [Next]_vars, NEW w \in Workers PROVE [GW(w)!Next]_(GW(w)!vars)
    OBVIOUS
  <2>t. TypeOK /\ HistoryInv /\ wpc \in [Workers -> WorkerPC]
    BY DEF Invariant, TypeOK, ServiceTypeOK, WorkerTypeOK
  <2>1. ASSUME NEW v \in Workers, ProcessStep(v) PROVE [GW(w)!Next]_(GW(w)!vars)
    <3>1. CASE v = w
      BY <2>t, <2>1, <3>1, CallProcess
    <3>2. CASE v # w
      <4>1. wpc'[w] = wpc[w] /\ cur'[w] = cur[w]
        BY <2>t, <2>1, <3>2, ProcessFrame DEF OnlyWorker
      <4> QED BY <4>1, CallStutters
    <3> QED BY <3>1, <3>2
  <2>2. ASSUME NEW v \in Workers, Dequeue(v) \/ WorkerStops(v) PROVE [GW(w)!Next]_(GW(w)!vars)
    <3>1. \/ wpc'[w] = wpc[w] /\ cur'[w] = cur[w]
          \/ wpc[w] \notin {"write", "publish"} /\ wpc'[w] \notin {"write", "publish"}
      BY <2>t, <2>2 DEF Dequeue, WorkerStops
    <3> QED BY <3>1, CallStutters
  <2>3. CASE PoolCloses \/ Crash \/ Boot
    <3>1. wpc'[w] \notin {"write", "publish"}
      BY <2>3 DEF PoolCloses, Crash, ProcessEnds, Boot
    <3>2. CASE wpc[w] \in {"write", "publish"}
      BY <3>1, <3>2, CallEnds
    <3>3. CASE wpc[w] \notin {"write", "publish"}
      BY <3>1, <3>3, CallStutters
    <3> QED BY <3>2, <3>3
  <2>4. CASE UNCHANGED <<wpc, cur>>
    BY <2>4, CallStutters
  <2>5. ASSUME NEW j \in Jobs, Handler(j) PROVE UNCHANGED <<wpc, cur>>
    BY <2>5 DEF Handler, BeginCreate, VerifyFails, CreateRecord, Enqueue, RollBack
  <2>6. CASE UNCHANGED vars \/ Sweeper \/ Clock \/ StopAccepting \/ CancelShutdown \/ ShutdownTimeout
             \/ WorkersDone \/ CleanupDone \/ ServerShutdown \/ ServeFails
    BY <2>4, <2>6 DEF Sweeper, Clock, StopAccepting, CancelShutdown, ShutdownTimeout, WorkersDone,
       CleanupDone, ServerShutdown, ServeFails
  <2> QED BY <2>1, <2>2, <2>3, <2>4, <2>5, <2>6 DEF Next, Shutdown, Worker
<1> QED BY <1>1, <1>2, HistoryInvariant, PTL DEF Spec, Invariant, RelyOnPromise

-------------------------------------------------------------------------------
(* Downloads and event streams *)


(* Every step of Http is a step of the service or leaves it alone.          *)
LEMMA HttpStep ==
  ASSUME [HttpNext]_httpVars
  PROVE  [Next]_vars
<1>1. CASE SystemStep
  BY <1>1 DEF SystemStep, Next, Shutdown
<1>2. CASE HttpShutdown
  BY <1>2 DEF HttpShutdown, Next, Shutdown
<1>3. CASE HttpEnds
  BY <1>3 DEF HttpEnds, Next, Shutdown
<1>4. CASE Download
  BY <1>4 DEF Download, DownloadGet, DownloadValidate, DownloadOpen, DownloadEnds
<1>5. CASE Events
  BY <1>5 DEF Events, EventsConnect, EventsPoll, EventsDisconnect, EventsShutdown, EventsReturn
<1>6. CASE UNCHANGED httpVars
  BY <1>6 DEF httpVars
<1> QED BY <1>1, <1>2, <1>3, <1>4, <1>5, <1>6 DEF HttpNext

(* The service with its readers (download.go, sse.go, Shutdown waiting for  *)
(* both) implements the service without them.                               *)
THEOREM HttpImplementsSystem == HttpSpec => Spec
<1>1. HttpInit => Init
  BY DEF HttpInit
<1>2. [HttpNext]_httpVars => [Next]_vars
  BY HttpStep
<1> QED BY <1>1, <1>2, PTL DEF HttpSpec, Spec

(* So a shutdown that has not timed out still closes the server only when   *)
(* no job is half done, whatever the clients do (main.go shutdown).         *)
THEOREM HttpDrainedBeforeClose == HttpSpec => []DrainedBeforeClose
BY HttpImplementsSystem, DrainedBeforeCloseAlways, PTL

(* The progress of a typed record is typed.                                 *)
LEMMA ProgressType ==
  ASSUME NEW rec \in Job
  PROVE  Progress(rec) \in [processedFiles : Nat, totalFiles : Nat]
BY DEF Progress, Job

(* Every handler variable keeps its type, and a handler at work has a job   *)
(* (download.go Download, sse.go Events).                                   *)
THEOREM HttpTypeCorrect == HttpSpec => []HttpTypeOK
<1>n. Progress(NoJob) \in [processedFiles : Nat, totalFiles : Nat]
  BY NoJobType, ProgressType
<1>1. HttpInit => HttpTypeOK
  BY <1>n DEF HttpInit, HttpTypeOK
<1>2. TypeOK /\ HttpTypeOK /\ [HttpNext]_httpVars => HttpTypeOK'
  <2> SUFFICES ASSUME TypeOK, HttpTypeOK, [HttpNext]_httpVars PROVE HttpTypeOK'
    OBVIOUS
  <2>t. \A j \in Jobs : jobs[j] \in Job
    BY DEF TypeOK, StoreTypeOK
  <2>p. \A j \in Jobs : Progress(jobs[j]) \in [processedFiles : Nat, totalFiles : Nat]
    BY <2>t, ProgressType
  <2>1. CASE UNCHANGED readers
    BY <2>1 DEF readers, downloadVars, eventVars, HttpTypeOK
  <2>2. CASE HttpEnds
    BY <2>2, <1>n DEF HttpEnds, Respond, Close, HttpTypeOK
  <2>3. CASE Download
    <3>1. UNCHANGED eventVars
      BY <2>3 DEF Download, DownloadGet, DownloadValidate, DownloadOpen, DownloadEnds
    <3>2. ASSUME NEW j \in Jobs, NEW tok \in Jobs \cup {None}, DownloadGet(j, tok)
          PROVE  HttpTypeOK'
      BY <3>1, <3>2, NoneAssumption DEF DownloadGet, Respond, HttpTypeOK, eventVars
    <3>3. CASE DownloadValidate \/ DownloadOpen \/ DownloadEnds
      BY <3>1, <3>3 DEF DownloadValidate, DownloadOpen, DownloadEnds, Respond, HttpTypeOK, eventVars
    <3> QED BY <2>3, <3>2, <3>3 DEF Download
  <2>4. CASE Events
    <3>1. UNCHANGED downloadVars
      BY <2>4 DEF Events, EventsConnect, EventsPoll, EventsDisconnect, EventsShutdown, EventsReturn
    <3>2. ASSUME NEW j \in Jobs, Send(j), ejob' = j PROVE HttpTypeOK'
      BY <1>n, <2>p, <3>1, <3>2, NoneAssumption
         DEF Send, Close, HttpTypeOK, downloadVars, Terminal
    <3>3. ASSUME NEW j \in Jobs, EventsConnect(j) PROVE HttpTypeOK'
      BY <3>2, <3>3 DEF EventsConnect
    <3>4. CASE EventsPoll
      <4>1. ejob \in Jobs /\ ejob' = ejob
        BY <3>4 DEF EventsPoll, HttpTypeOK
      <4>2. CASE Exists(ejob)
        BY <3>2, <3>4, <4>1, <4>2 DEF EventsPoll
      <4>3. CASE ~Exists(ejob)
        BY <1>n, <3>1, <3>4, <4>1, <4>3 DEF EventsPoll, Close, HttpTypeOK, downloadVars
      <4> QED BY <4>2, <4>3
    <3>5. CASE EventsReturn
      BY <1>n, <3>1, <3>5 DEF EventsReturn, Close, HttpTypeOK, downloadVars
    <3> QED BY <2>4, <3>3, <3>4, <3>5 DEF Events, EventsDisconnect, EventsShutdown
  <2> QED BY <2>1, <2>2, <2>3, <2>4 DEF HttpNext, SystemStep, HttpShutdown, httpVars
<1> QED BY <1>1, <1>2, HttpImplementsSystem, TypeCorrect, PTL DEF HttpSpec

(* What JobLifecycle says of a job over one step: it never becomes absent   *)
(* again, and a verdict or its loss is never taken back.                    *)
LEMMA Forward ==
  ASSUME NEW j \in Jobs, [LC!Next]_LifecycleState
  PROVE  /\ LifecycleState[j] # "absent" => LifecycleState'[j] # "absent"
         /\ \A v \in {"completed", "failed", "gone"} :
              LifecycleState[j] \in {v, "gone"} => LifecycleState'[j] \in {v, "gone"}
<1>d. DOMAIN LifecycleState = Jobs /\ LifecycleState = [k \in Jobs |-> LifecycleState[k]]
  BY DEF LifecycleState
<1>1. ASSUME NEW k \in Jobs, NEW from, NEW to, LC!Move(k, from, to)
      PROVE  LifecycleState[k] = from /\ LifecycleState'[k] = to
             /\ (j # k => LifecycleState'[j] = LifecycleState[j])
  BY <1>1, <1>d DEF LC!Move
<1>2. CASE LC!Remove
  BY <1>2 DEF LC!Remove
<1>3. ASSUME NEW k \in Jobs, LC!Accept(k) \/ LC!Start(k) \/ LC!Complete(k) \/ LC!Fail(k)
      PROVE  \/ LifecycleState'[j] = LifecycleState[j]
             \/ LifecycleState[j] \in {"absent", "queued", "processing"}
                /\ LifecycleState'[j] \in {"queued", "processing", "completed", "failed"}
  BY <1>1, <1>3 DEF LC!Accept, LC!Start, LC!Complete, LC!Fail
<1> QED BY <1>2, <1>3 DEF LC!Next

(* A step of a reader leaves every abstract state as it is.                 *)
LEMMA SameRecords ==
  ASSUME UNCHANGED vars
  PROVE  LifecycleState' = LifecycleState
<1>1. jobs' = jobs /\ req' = req
  BY DEF vars, serviceVars
<1>2. \A j \in Jobs : LifecycleState'[j] = LifecycleState[j]
  BY ONLY <1>1, StateOf, StateOfNext
<1> QED BY ONLY <1>2, Stutters

(* The stream and the abstract state of the job it watches stay in step.    *)
LEMMA WatchedStep ==
  ASSUME TypeOK, HttpTypeOK, WatchedAdvances, [HttpNext]_httpVars, [LC!Next]_LifecycleState
  PROVE  WatchedAdvances'
<1>j. epc = "open" => ejob \in Jobs
  BY DEF HttpTypeOK
<1>f. ejob \in Jobs =>
        /\ LifecycleState[ejob] # "absent" => LifecycleState'[ejob] # "absent"
        /\ \A v \in {"completed", "failed", "gone"} :
             LifecycleState[ejob] \in {v, "gone"} => LifecycleState'[ejob] \in {v, "gone"}
  BY Forward
<1>k. ASSUME ejob' = ejob, told' = told, epc' \in {epc, "closed"} PROVE WatchedAdvances'
  BY <1>j, <1>f, <1>k DEF WatchedAdvances, HttpTypeOK
<1>1. CASE UNCHANGED readers \/ HttpEnds \/ Download \/ EventsReturn
  BY <1>1, <1>k DEF readers, eventVars, HttpEnds, Close, EventsReturn, Download, DownloadGet,
     DownloadValidate, DownloadOpen, DownloadEnds
<1>2. ASSUME NEW j \in Jobs, Exists(j), Send(j), ejob' = j, UNCHANGED vars PROVE WatchedAdvances'
  <2>1. LifecycleState[j] = jobs[j].status /\ jobs[j].status \in JobStatus
    BY <1>2, StateOf DEF Exists, TypeOK, StoreTypeOK, Job
  <2>2. LifecycleState' = LifecycleState
    BY <1>2, SameRecords
  <2> QED BY <1>2, <2>1, <2>2 DEF WatchedAdvances, Send, Close, Terminal, JobStatus
<1>3. CASE EventsPoll
  <2>1. ejob \in Jobs /\ ejob' = ejob /\ LifecycleState[ejob] # "absent" /\ UNCHANGED vars
    BY <1>3, <1>j DEF EventsPoll, WatchedAdvances
  <2>2. CASE Exists(ejob)
    BY <1>2, <1>3, <2>1, <2>2 DEF EventsPoll
  <2>3. CASE ~Exists(ejob)
    <3>1. LifecycleState[ejob] = "gone"
      BY <2>1, <2>3, StateOf DEF Exists
    <3>2. LifecycleState' = LifecycleState
      BY <2>1, SameRecords
    <3> QED BY <1>3, <2>1, <2>3, <3>1, <3>2 DEF EventsPoll, Close, WatchedAdvances
  <2> QED BY <2>2, <2>3
<1>4. ASSUME NEW j \in Jobs, EventsConnect(j) PROVE WatchedAdvances'
  BY <1>2, <1>4 DEF EventsConnect
<1> QED BY <1>1, <1>3, <1>4 DEF HttpNext, SystemStep, HttpShutdown, httpVars, Events,
           EventsDisconnect, EventsShutdown

(* An open stream watches a job that was created, and the abstract state of *)
(* a job with a verdict is that verdict or "gone", in every interleaving    *)
(* with workers, sweeper and restarts.                                      *)
THEOREM WatchedAdvancesAlways == HttpSpec => []WatchedAdvances
<1>1. HttpInit => WatchedAdvances
  BY DEF HttpInit, WatchedAdvances
<1>2. TypeOK /\ HttpTypeOK /\ WatchedAdvances /\ [HttpNext]_httpVars /\ [LC!Next]_LifecycleState
        => WatchedAdvances'
  BY WatchedStep
<1>3. HttpSpec => [][LC!Next]_LifecycleState
  BY HttpImplementsSystem, LifecycleImplemented, PTL DEF Lifecycle, LC!Spec
<1> QED BY <1>1, <1>2, <1>3, HttpImplementsSystem, TypeCorrect, HttpTypeCorrect, PTL DEF HttpSpec

(* The invariant of the handlers: a download or stream under way has a job, *)
(* and what a stream last saw of its job is never taken back (download.go   *)
(* Download, sse.go Events).                                                *)
THEOREM HttpInvariant == HttpSpec => []HttpInv
BY HttpTypeCorrect, WatchedAdvancesAlways, PTL DEF HttpInv

(* What a stream told its client stays true: completed and failed jobs keep *)
(* their outcome until their record goes, and a job reported as no longer   *)
(* available never reappears (sse.go Events against ProcessJob, removeJob   *)
(* and the end of the process).                                             *)
THEOREM VerdictStandsAlways == HttpSpec => []VerdictStands
<1>1. TypeOK /\ HttpTypeOK /\ WatchedAdvances => VerdictStands
  <2> SUFFICES ASSUME TypeOK, HttpTypeOK, WatchedAdvances, told # "none"
               PROVE  jobs[ejob].status \in {told, "none"} /\ (told = "gone" => ~Exists(ejob))
    BY DEF VerdictStands
  <2>1. ejob \in Jobs /\ LifecycleState[ejob] \in {told, "gone"}
    BY DEF WatchedAdvances
  <2>2. jobs[ejob].status \in JobStatus \cup {"none"}
    BY <2>1 DEF TypeOK, StoreTypeOK, Job
  <2> QED BY <2>1, <2>2, StateOf DEF Exists, JobStatus
<1> QED BY <1>1, HttpImplementsSystem, TypeCorrect, HttpTypeCorrect, WatchedAdvancesAlways, PTL
================================================================================
