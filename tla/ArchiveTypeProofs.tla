--------------------------- MODULE ArchiveTypeProofs ---------------------------
(***************************************************************************)
(* Types of ArchiveSystem, and where a job is: a job ID has at most one    *)
(* owner, the queue or one worker; its place in the pipeline decides its   *)
(* stored status; and no job is stranded. For any number of jobs, workers, *)
(* files, faults and process restarts.                                     *)
(***************************************************************************)
EXTENDS ArchiveSystem, SequenceTheorems, TLAPS

USE DEF vars, serviceVars, workerVars, handlerFrame, workerFrame, cleanupVars,
        cleanupFrame, lifeVars, memory

(* Types *)

(* A record with a new status (ProcessJob, failJob) is still a job          *)
(* record.                                                                  *)
LEMMA SetStatus ==
  ASSUME NEW r \in Job, NEW st \in JobStatus PROVE [r EXCEPT !.status = st] \in Job
BY DEF Job

(* A record with the totals of its manifest is still a job record.          *)
LEMMA SetTotal ==
  ASSUME NEW r \in Job, NEW n \in Nat PROVE [r EXCEPT !.totalFiles = n] \in Job
BY DEF Job

(* A record with one more file counted by onProgress is still a job         *)
(* record.                                                                  *)
LEMMA AddProcessed ==
  ASSUME NEW r \in Job PROVE [r EXCEPT !.processedFiles = @ + 1] \in Job
BY DEF Job

(* The record completeJob stores, with its token and expiry, is a job       *)
(* record.                                                                  *)
LEMMA SetCompleted ==
  ASSUME NEW r \in Job, NEW j \in Jobs, NEW t \in Int
  PROVE  [r EXCEPT !.status = "completed", !.downloadToken = j, !.expiresAt = t] \in Job
BY DEF Job, JobStatus

(* The placeholder for an ID without a record is itself of the record       *)
(* type.                                                                    *)
LEMMA NoJobType == NoJob \in Job
BY DEF NoJob, Job, ZeroTime

(* The record CreateJob stores is a job record.                             *)
LEMMA SetQueued ==
  ASSUME NEW t \in Nat PROVE [NoJob EXCEPT !.status = "queued", !.createdAt = t] \in Job
BY NoJobType DEF Job, JobStatus

(* The places inside ProcessJob, apart from waiting in loop and having      *)
(* left it.                                                                 *)
LEMMA PCs ==
  /\ WorkerPC = Busy \cup {"idle", "stopped"}
  /\ "idle" \notin Busy /\ "stopped" \notin Busy
  /\ {"get", "mark", "manifest", "totals", "create", "write", "publish",
      "discard", "fail", "issue", "finish"} \subseteq Busy
BY DEF WorkerPC, Busy

(* Going on inside ProcessJob with a new copy of the job keeps the worker   *)
(* types.                                                                   *)
LEMMA GoToType ==
  ASSUME WorkerTypeOK, NEW w \in Workers, wpc[w] \in Busy,
         NEW pc \in Busy, NEW rec \in Job, GoTo(w, pc, rec)
  PROVE  WorkerTypeOK'
BY PCs DEF WorkerTypeOK, GoTo

(* Returning from ProcessJob, which forgets the job, keeps the worker       *)
(* types.                                                                   *)
LEMMA ReturnType ==
  ASSUME WorkerTypeOK, NEW w \in Workers, Return(w)
  PROVE  WorkerTypeOK'
BY PCs, NoJobType DEF WorkerTypeOK, Return

(* Store.Update with a job record keeps the type of the store.              *)
LEMMA UpdateType ==
  ASSUME StoreTypeOK, NEW j \in Jobs, NEW rec \in Job, StoreUpdate(j, rec)
  PROVE  StoreTypeOK'
BY DEF StoreTypeOK, StoreUpdate

(* An Update whose failure ends ProcessJob keeps the types of store and     *)
(* workers.                                                                 *)
LEMMA UpdateOrReturnType ==
  ASSUME StoreTypeOK, WorkerTypeOK, NEW w \in Workers, wpc[w] \in Busy,
         NEW pc \in Busy, NEW rec \in Job, UpdateOrReturn(w, pc, rec)
  PROVE  StoreTypeOK' /\ WorkerTypeOK'
<1>1. wid[w] \in Jobs
  BY DEF WorkerTypeOK
<1> QED BY <1>1, GoToType, ReturnType, UpdateType DEF UpdateOrReturn

(* Storage.Delete, complete or failing half way, keeps the type of the      *)
(* directory.                                                               *)
LEMMA DeleteType ==
  ASSUME FilesTypeOK, NEW j \in Jobs, FilesDelete(j) \/ FilesDeleteFails(j)
  PROVE  FilesTypeOK'
BY DEF FilesTypeOK, FilesDelete, FilesDeleteFails, Files, Content, NoFiles

(* Every step of a worker (loop and ProcessJob) keeps the types.            *)
LEMMA TypeWorker ==
  ASSUME TypeOK, NEW w \in Workers, Worker(w)
  PROVE  TypeOK'
<1> USE PCs DEF TypeOK, ServiceTypeOK, Worker
<1>0. /\ wpc[w] \in Busy => wid[w] \in Jobs
      /\ cur[w] \in Job /\ doneAt[w] \in Nat
  BY DEF WorkerTypeOK
<1>f. (UNCHANGED jobs => StoreTypeOK') /\ (UNCHANGED tokens => TokensTypeOK')
      /\ (UNCHANGED <<disk, faults>> => FilesTypeOK') /\ CleanupTypeOK'
  BY DEF StoreTypeOK, TokensTypeOK, FilesTypeOK, CleanupTypeOK
<1>1. CASE Dequeue(w)
  <2>1. Head(queue) \in Jobs /\ Tail(queue) \in Seq(Jobs)
    BY <1>1, HeadTailProperties DEF Dequeue
  <2>2. WorkerTypeOK'
    BY <1>1, <2>1, NoneAssumption DEF Dequeue, WorkerTypeOK
  <2> QED BY <1>1, <1>f, <2>1, <2>2 DEF Dequeue
<1>2. CASE WorkerStops(w)
  <2>1. WorkerTypeOK'
    BY <1>2 DEF WorkerStops, WorkerTypeOK
  <2> QED BY <1>2, <1>f, <2>1 DEF WorkerStops
<1>3. CASE GetJob(w)
  <2>1. jobs[wid[w]] \in Job
    BY <1>0, <1>3 DEF GetJob, StoreTypeOK
  <2>2. WorkerTypeOK'
    BY <1>3, <2>1, GoToType, ReturnType DEF GetJob
  <2> QED BY <1>3, <1>f, <2>2 DEF GetJob
<1>4. CASE MarkProcessing(w)
  <2>1. [cur[w] EXCEPT !.status = "processing"] \in Job
    BY <1>0, SetStatus DEF JobStatus
  <2>2. StoreTypeOK' /\ WorkerTypeOK'
    BY <1>4, <2>1, UpdateOrReturnType DEF MarkProcessing
  <2> QED BY <1>4, <1>f, <2>2 DEF MarkProcessing
<1>5. CASE BuildManifest(w)
  <2>1. \A n \in 0..MaxFiles : [cur[w] EXCEPT !.totalFiles = n] \in Job
    BY <1>0, SetTotal, ServiceAssumption
  <2>2. WorkerTypeOK'
    BY <1>0, <1>5, <2>1, GoToType DEF BuildManifest
  <2> QED BY <1>5, <1>f, <2>2 DEF BuildManifest
<1>6. CASE RecordTotals(w)
  <2>1. StoreTypeOK' /\ WorkerTypeOK'
    BY <1>0, <1>6, UpdateOrReturnType DEF RecordTotals
  <2> QED BY <1>6, <1>f, <2>1 DEF RecordTotals
<1>7. CASE CreateTemp(w)
  <2>1. WorkerTypeOK'
    BY <1>0, <1>7, GoToType DEF CreateTemp
  <2>2. FilesTypeOK'
    BY <1>0, <1>7 DEF CreateTemp, FilesCreate, FilesTypeOK, Files, Content
  <2> QED BY <1>7, <1>f, <2>1, <2>2 DEF CreateTemp
<1>8. CASE WriteFile(w)
  <2>1. [cur[w] EXCEPT !.processedFiles = @ + 1] \in Job
    BY <1>0, AddProcessed
  <2>2. WorkerTypeOK'
    BY <1>8, <2>1, GoToType DEF WriteFile
  <2>3. StoreTypeOK'
    BY <1>0, <1>8, <2>1, UpdateType DEF WriteFile
  <2> QED BY <1>8, <1>f, <2>2, <2>3 DEF WriteFile
<1>9. CASE CloseArchive(w)
  <2>1. WorkerTypeOK'
    BY <1>0, <1>9, GoToType DEF CloseArchive
  <2>2. FilesTypeOK'
    <3>1. PICK c \in Content : disk' = [disk EXCEPT ![wid[w]].tmp = c]
      BY <1>0, <1>9 DEF CloseArchive, FilesClose, Content
    <3> QED BY <1>0, <1>9, <3>1 DEF CloseArchive, FilesTypeOK, Files
  <2> QED BY <1>9, <1>f, <2>1, <2>2 DEF CloseArchive
<1>10. CASE GenerateFails(w) \/ PublishFails(w)
  <2>1. WorkerTypeOK'
    BY <1>0, <1>10, GoToType DEF GenerateFails, PublishFails
  <2> QED BY <1>10, <1>f, <2>1 DEF GenerateFails, PublishFails
<1>11. CASE Publish(w)
  <2>1. WorkerTypeOK'
    BY <1>0, <1>11 DEF Publish, WorkerTypeOK
  <2>2. FilesTypeOK'
    BY <1>0, <1>11 DEF Publish, RenameTemp, FilesTypeOK, Files, Content
  <2> QED BY <1>11, <1>f, <2>1, <2>2 DEF Publish
<1>12. CASE Discard(w)
  <2>1. WorkerTypeOK'
    BY <1>0, <1>12, GoToType DEF Discard
  <2>2. FilesTypeOK'
    BY <1>0, <1>12, DeleteType DEF Discard
  <2> QED BY <1>12, <1>f, <2>1, <2>2 DEF Discard
<1>13. CASE FailJob(w)
  <2>1. [cur[w] EXCEPT !.status = "failed"] \in Job
    BY <1>0, SetStatus DEF JobStatus
  <2>2. StoreTypeOK' /\ WorkerTypeOK'
    BY <1>0, <1>13, <2>1, UpdateType, ReturnType DEF FailJob
  <2> QED BY <1>13, <1>f, <2>2 DEF FailJob
<1>14. CASE IssueToken(w)
  <2>1. WorkerTypeOK'
    BY <1>0, <1>14, GoToType DEF IssueToken
  <2>2. TokensTypeOK'
    BY <1>0, <1>14, TimeAssumption DEF IssueToken, Issue, TokensTypeOK, TokenEntry
  <2> QED BY <1>14, <1>f, <2>1, <2>2 DEF IssueToken
<1>15. CASE CompleteJob(w)
  <2>1. CompletedJob(w) \in Job
    <3>1. doneAt[w] + Expiry \in Int /\ wid[w] \in Jobs
      <4>1. wid[w] \in Jobs
        BY <1>0, <1>15, PCs DEF CompleteJob
      <4> QED BY <1>0, <4>1, TimeAssumption
    <3> QED BY <1>0, <3>1, SetCompleted DEF CompletedJob
  <2>2. StoreTypeOK' /\ WorkerTypeOK'
    BY <1>0, <1>15, <2>1, UpdateType, ReturnType DEF CompleteJob
  <2> QED BY <1>15, <1>f, <2>2 DEF CompleteJob
<1> QED BY <1>1, <1>2, <1>3, <1>4, <1>5, <1>6, <1>7, <1>8, <1>9, <1>10, <1>11,
           <1>12, <1>13, <1>14, <1>15 DEF ProcessStep

(* Every step of CreateJob keeps the types.                                 *)
LEMMA TypeHandler ==
  ASSUME TypeOK, NEW j \in Jobs, Handler(j)
  PROVE  TypeOK'
<1> USE DEF TypeOK, ServiceTypeOK, Handler
<1>f. /\ UNCHANGED jobs => StoreTypeOK'
      /\ UNCHANGED <<tokens, disk, faults, workerVars, cleanupVars>> =>
           TokensTypeOK' /\ FilesTypeOK' /\ WorkerTypeOK' /\ CleanupTypeOK'
  BY DEF StoreTypeOK, TokensTypeOK, FilesTypeOK, CleanupTypeOK, WorkerTypeOK
<1>1. CASE BeginCreate(j) \/ VerifyFails(j)
  BY <1>1, <1>f DEF BeginCreate, VerifyFails, ReqState
<1>2. CASE CreateRecord(j)
  <2>1. StoreTypeOK'
    BY <1>2, SetQueued DEF CreateRecord, StoreCreate, QueuedJob, StoreTypeOK
  <2> QED BY <1>2, <1>f, <2>1 DEF CreateRecord, ReqState
<1>3. CASE Enqueue(j)
  BY <1>3, <1>f, AppendProperties DEF Enqueue, ReqState
<1>4. CASE RollBack(j)
  <2>1. StoreTypeOK'
    BY <1>4, NoJobType DEF RollBack, StoreDelete, StoreTypeOK
  <2> QED BY <1>4, <1>f, <2>1 DEF RollBack, ReqState
<1> QED BY <1>1, <1>2, <1>3, <1>4

(* Every step of the sweeper (Run, sweep, removeJob) keeps the types.       *)
LEMMA TypeSweeper ==
  ASSUME TypeOK, Sweeper
  PROVE  TypeOK'
<1> USE DEF TypeOK, Sweeper
<1>f. /\ UNCHANGED jobs => StoreTypeOK'
      /\ UNCHANGED tokens => TokensTypeOK'
      /\ UNCHANGED <<disk, faults>> => FilesTypeOK'
      /\ ServiceTypeOK'
  BY DEF StoreTypeOK, TokensTypeOK, FilesTypeOK, ServiceTypeOK, WorkerTypeOK
<1>1. CASE SweepList \/ SweepSelect \/ CleanupStops \/ SweepEnds
  <2>1. CleanupTypeOK'
    BY <1>1, NoJobType DEF SweepList, SweepSelect, CleanupStops, SweepEnds,
                           CleanupTypeOK, StoreTypeOK, SweepPC
  <2> QED BY <1>1, <1>f, <2>1 DEF SweepList, SweepSelect, CleanupStops, SweepEnds
<1>2. CASE RevokeTokens
  <2>1. TokensTypeOK'
    BY <1>2 DEF RevokeTokens, Revoke, TokensTypeOK
  <2>2. CleanupTypeOK'
    BY <1>2 DEF RevokeTokens, CleanupTypeOK, SweepPC
  <2> QED BY <1>2, <1>f, <2>1, <2>2 DEF RevokeTokens
<1>3. CASE DropRecord
  <2>1. StoreTypeOK'
    BY <1>3, NoJobType DEF DropRecord, StoreDelete, StoreTypeOK
  <2>2. CleanupTypeOK'
    BY <1>3 DEF DropRecord, CleanupTypeOK, SweepPC
  <2> QED BY <1>3, <1>f, <2>1, <2>2 DEF DropRecord
<1>4. CASE ListArchives
  <2>1. CleanupTypeOK'
    BY <1>4 DEF ListArchives, CleanupTypeOK, SweepPC, OnDisk
  <2> QED BY <1>4, <1>f, <2>1 DEF ListArchives
<1>5. CASE ListArchivesFails
  <2>1. CleanupTypeOK'
    BY <1>5 DEF ListArchivesFails, CleanupTypeOK, SweepPC
  <2>2. FilesTypeOK'
    BY <1>5 DEF ListArchivesFails, FilesTypeOK
  <2> QED BY <1>5, <1>f, <2>1, <2>2 DEF ListArchivesFails
<1>6. ASSUME NEW j \in Jobs, RemoveArchive(j) \/ RemoveOrphan(j) PROVE TypeOK'
  <2>1. CleanupTypeOK'
    BY <1>6 DEF RemoveArchive, RemoveOrphan, CleanupTypeOK, SweepPC
  <2>2. FilesTypeOK'
    BY <1>6, DeleteType DEF RemoveArchive, RemoveOrphan
  <2> QED BY <1>6, <1>f, <2>1, <2>2 DEF RemoveArchive, RemoveOrphan
<1> QED BY <1>1, <1>2, <1>3, <1>4, <1>5, <1>6 DEF SweepStep

(* The end of the process, which clears its memory, keeps the types.        *)
LEMMA TypeProcessEnds ==
  ASSUME TypeOK, ProcessEnds
  PROVE  TypeOK'
<1> USE DEF ProcessEnds
<1>1. StoreTypeOK' /\ TokensTypeOK' /\ FilesTypeOK'
  BY NoJobType DEF TypeOK, StoreTypeOK, TokensTypeOK, FilesTypeOK
<1>2. WorkerTypeOK'
  BY NoJobType, PCs DEF WorkerTypeOK
<1>3. ServiceTypeOK'
  <2>1. req' \in [Jobs -> ReqState]
    BY DEF TypeOK, ServiceTypeOK, ReqState
  <2>2. queue' \in Seq(Jobs)
    OBVIOUS
  <2>3. accepting' \in BOOLEAN
    BY Zenon
  <2> QED BY <1>2, <2>1, <2>2, <2>3 DEF ServiceTypeOK
<1>4. CleanupTypeOK'
  BY NoJobType DEF CleanupTypeOK, SweepPC
<1>5. now' \in Nat /\ phase' \in Phase /\ exits' \in Nat
  BY DEF TypeOK, Phase
<1>6. ctxDone' \in BOOLEAN /\ timedOut' \in BOOLEAN
  BY Zenon
<1> QED BY <1>1, <1>3, <1>4, <1>5, <1>6 DEF TypeOK

(* Every step of the system keeps the types.                                *)
LEMMA TypeStep == TypeOK /\ [Next]_vars => TypeOK'
<1> SUFFICES ASSUME TypeOK, [Next]_vars PROVE TypeOK'
  OBVIOUS
<1>f. /\ UNCHANGED <<memory, cleanupVars>> =>
           StoreTypeOK' /\ TokensTypeOK' /\ FilesTypeOK' /\ CleanupTypeOK'
      /\ UNCHANGED serviceVars => ServiceTypeOK'
  BY DEF TypeOK, StoreTypeOK, TokensTypeOK, FilesTypeOK, CleanupTypeOK,
         ServiceTypeOK, WorkerTypeOK
<1>1. CASE Clock
  BY <1>1, <1>f DEF Clock, Tick, TypeOK
<1>2. CASE StopAccepting
  <2>1. ServiceTypeOK'
    BY <1>2 DEF StopAccepting, TypeOK, ServiceTypeOK, WorkerTypeOK
  <2> QED BY <1>2, <1>f, <2>1 DEF StopAccepting, TypeOK, Phase
<1>3. CASE CancelShutdown \/ ShutdownTimeout \/ WorkersDone \/ CleanupDone
           \/ ServerShutdown \/ ServeFails
  BY <1>3, <1>f DEF CancelShutdown, ShutdownTimeout, WorkersDone, CleanupDone, ServerShutdown,
     ServeFails, TypeOK, Phase
<1>4. CASE Boot
  <2>1. ServiceTypeOK'
    <3>1. WorkerTypeOK'
      BY <1>4, PCs DEF Boot, TypeOK, ServiceTypeOK, WorkerTypeOK
    <3> QED BY <1>4, <3>1 DEF Boot, TypeOK, ServiceTypeOK
  <2>2. CleanupTypeOK' /\ StoreTypeOK' /\ TokensTypeOK' /\ FilesTypeOK'
    BY <1>4 DEF Boot, TypeOK, StoreTypeOK, TokensTypeOK, FilesTypeOK, CleanupTypeOK, SweepPC
  <2> QED BY <1>4, <2>1, <2>2 DEF Boot, TypeOK, Phase
<1>5. CASE UNCHANGED vars
  BY <1>5, <1>f DEF TypeOK
<1> QED BY <1>1, <1>2, <1>3, <1>4, <1>5, TypeHandler, TypeWorker, TypeSweeper,
           TypeProcessEnds DEF Next, Shutdown, PoolCloses, Crash

(* Every variable keeps its type; a worker has a job exactly while it runs  *)
(* ProcessJob.                                                              *)
THEOREM TypeCorrect == Spec => []TypeOK
<1>1. Init => TypeOK
  <2> SUFFICES ASSUME Init PROVE TypeOK
    OBVIOUS
  <2>1. StoreTypeOK /\ TokensTypeOK /\ FilesTypeOK /\ CleanupTypeOK
    BY NoJobType DEF Init, StoreInit, TokensInit, FilesInit, CleanupInit, StoreTypeOK,
       TokensTypeOK, FilesTypeOK, CleanupTypeOK, NoFiles, Files, Content, SweepPC
  <2>2. ServiceTypeOK
    BY NoJobType, PCs DEF Init, ServiceInit, ServiceTypeOK, WorkerTypeOK, ReqState
  <2> QED BY <2>1, <2>2 DEF Init, TypeOK, Phase
<1> QED BY <1>1, TypeStep, PTL DEF Spec

-------------------------------------------------------------------------------
(* What a step of a worker leaves alone; one owner per job ID *)

(* ProcessJob is divided into the part before the job is marked and the     *)
(* rest.                                                                    *)
LEMMA StageSets ==
  /\ Busy = Early \cup Late /\ Early \cap Late = {}
  /\ {"get", "mark"} = Early
  /\ {"manifest", "totals", "create", "write", "publish", "discard", "fail",
      "issue", "finish"} = Late
  /\ "idle" \notin Busy /\ "stopped" \notin Busy
BY DEF Busy, Early, Late

(* Only worker w moves, keeping or dropping its job. *)
OnlyWorker(w) ==
  /\ wid' = wid \/ wid' = [wid EXCEPT ![w] = None]
  /\ \A v \in Workers \ {w} :
       wpc'[v] = wpc[v] /\ wid'[v] = wid[v] /\ cur'[v] = cur[v] /\ doneAt'[v] = doneAt[v]

OnlyRecord(j) == \A k \in Jobs \ {j} : jobs'[k] = jobs[k]
OnlyFiles(j) == \A k \in Jobs \ {j} : disk'[k] = disk[k]

(* A worker that goes on inside ProcessJob moves alone and keeps its job.   *)
LEMMA GoToFrame ==
  ASSUME WorkerTypeOK, NEW w \in Workers, NEW pc, NEW rec, GoTo(w, pc, rec)
  PROVE  OnlyWorker(w) /\ wpc'[w] = pc /\ cur'[w] = rec /\ wid' = wid /\ doneAt' = doneAt
BY DEF GoTo, OnlyWorker, WorkerTypeOK

(* A worker that returns from ProcessJob moves alone and drops its job.     *)
LEMMA ReturnFrame ==
  ASSUME WorkerTypeOK, NEW w \in Workers, Return(w)
  PROVE  OnlyWorker(w) /\ wpc'[w] = "idle" /\ wid'[w] = None
BY DEF Return, OnlyWorker, WorkerTypeOK

(* Store.Update touches one record, and only if it is there.                *)
LEMMA UpdateFrame ==
  ASSUME StoreTypeOK, NEW j \in Jobs, NEW rec, StoreUpdate(j, rec)
  PROVE  /\ OnlyRecord(j)
         /\ jobs[j].status = "none" => jobs'[j] = jobs[j]
         /\ jobs[j].status # "none" => jobs'[j] = rec
BY DEF StoreTypeOK, StoreUpdate, OnlyRecord, Exists

(* Storage.Delete touches the files of one job, and only removes.           *)
LEMMA DeleteFrame ==
  ASSUME FilesTypeOK, NEW j \in Jobs, FilesDelete(j) \/ FilesDeleteFails(j)
  PROVE  /\ OnlyFiles(j)
         /\ \A k \in Jobs : /\ disk'[k].tmp \in {disk[k].tmp, "none"}
                            /\ disk'[k].final \in {disk[k].final, "none"}
BY DEF FilesTypeOK, Files, FilesDelete, FilesDeleteFails, NoFiles, OnlyFiles

(* A step inside ProcessJob touches neither queue nor requests nor          *)
(* another job.                                                             *)
LEMMA ProcessFrame ==
  ASSUME TypeOK, NEW w \in Workers, ProcessStep(w)
  PROVE  /\ wpc[w] \in Busy /\ wid[w] \in Jobs
         /\ UNCHANGED <<queue, req>>
         /\ OnlyWorker(w) /\ OnlyRecord(wid[w]) /\ OnlyFiles(wid[w])
<1>t. StoreTypeOK /\ FilesTypeOK /\ WorkerTypeOK
  BY DEF TypeOK, ServiceTypeOK
<1>1. wpc[w] \in Busy
  BY PCs DEF ProcessStep, GetJob, MarkProcessing, BuildManifest, RecordTotals, CreateTemp,
         WriteFile, CloseArchive, GenerateFails, Publish, PublishFails, Discard,
         FailJob, IssueToken, CompleteJob
<1>2. wid[w] \in Jobs
  BY <1>t, <1>1 DEF WorkerTypeOK
<1>3. UNCHANGED <<queue, req>>
  BY DEF ProcessStep, GetJob, MarkProcessing, BuildManifest, RecordTotals, CreateTemp,
         WriteFile, CloseArchive, GenerateFails, Publish, PublishFails, Discard,
         FailJob, IssueToken, CompleteJob
<1>4. /\ UNCHANGED jobs => OnlyRecord(wid[w])
      /\ UNCHANGED disk => OnlyFiles(wid[w])
  BY DEF OnlyRecord, OnlyFiles
<1>5. CASE GetJob(w)
  BY <1>t, <1>1, <1>2, <1>3, <1>4, <1>5, GoToFrame, ReturnFrame DEF GetJob
<1>6. CASE MarkProcessing(w) \/ RecordTotals(w)
  BY <1>t, <1>1, <1>2, <1>3, <1>4, <1>6, GoToFrame, ReturnFrame, UpdateFrame
     DEF MarkProcessing, RecordTotals, UpdateOrReturn
<1>7. CASE BuildManifest(w) \/ GenerateFails(w) \/ PublishFails(w) \/ IssueToken(w)
  BY <1>t, <1>1, <1>2, <1>3, <1>4, <1>7, GoToFrame
     DEF BuildManifest, GenerateFails, PublishFails, IssueToken
<1>8. CASE CreateTemp(w) \/ CloseArchive(w)
  <2>1. OnlyFiles(wid[w])
    BY <1>t, <1>2, <1>4, <1>8
       DEF CreateTemp, CloseArchive, FilesCreate, FilesClose, FilesTypeOK, OnlyFiles
  <2> QED BY <1>t, <1>1, <1>2, <1>3, <1>4, <1>8, <2>1, GoToFrame DEF CreateTemp, CloseArchive
<1>9. CASE WriteFile(w)
  BY <1>t, <1>1, <1>2, <1>3, <1>4, <1>9, GoToFrame, UpdateFrame DEF WriteFile
<1>10. CASE Publish(w)
  <2>1. OnlyFiles(wid[w])
    BY <1>t, <1>2, <1>10 DEF Publish, RenameTemp, FilesTypeOK, OnlyFiles
  <2>2. OnlyWorker(w)
    BY <1>t, <1>10 DEF Publish, OnlyWorker, WorkerTypeOK
  <2> QED BY <1>1, <1>2, <1>3, <1>4, <1>10, <2>1, <2>2 DEF Publish
<1>11. CASE Discard(w)
  BY <1>t, <1>1, <1>2, <1>3, <1>4, <1>11, GoToFrame, DeleteFrame DEF Discard
<1>12. CASE FailJob(w) \/ CompleteJob(w)
  BY <1>t, <1>1, <1>2, <1>3, <1>4, <1>12, ReturnFrame, UpdateFrame DEF FailJob, CompleteJob
<1> QED BY <1>5, <1>6, <1>7, <1>8, <1>9, <1>10, <1>11, <1>12 DEF ProcessStep

-------------------------------------------------------------------------------
(* One owner per job ID. *)

Ownership == OneOwner /\ FreshIDs

(* What a send adds to the channel.                                         *)
LEMMA Sent ==
  ASSUME queue \in Seq(Jobs), NEW j \in Jobs, queue' = Append(queue, j)
  PROVE  /\ Len(queue') = Len(queue) + 1 /\ queue'[Len(queue) + 1] = j
         /\ \A i \in 1..Len(queue) : queue'[i] = queue[i]
         /\ Len(queue) \in Nat
BY AppendProperties

(* Every step keeps a job ID in one place (queue or worker), none before    *)
(* CreateJob enqueues it.                                                   *)
LEMMA OwnershipStep ==
  ASSUME TypeOK, Ownership, [Next]_vars
  PROVE  Ownership'
<1> USE NoneAssumption DEF Ownership, OneOwner, FreshIDs, InQueue
<1>t. /\ queue \in Seq(Jobs) /\ req \in [Jobs -> ReqState]
      /\ wid \in [Workers -> Jobs \cup {None}] /\ wpc \in [Workers -> WorkerPC]
  BY DEF TypeOK, ServiceTypeOK, WorkerTypeOK
<1>1. ASSUME NEW j \in Jobs, Handler(j) PROVE Ownership'
  <2>1. CASE Enqueue(j)
    <3>1. /\ Len(queue') = Len(queue) + 1 /\ queue'[Len(queue) + 1] = j
          /\ \A i \in 1..Len(queue) : queue'[i] = queue[i]
          /\ Len(queue) \in Nat
      <4>1. queue' = Append(queue, j)
        BY <2>1 DEF Enqueue
      <4> QED BY ONLY j \in Jobs, <1>t, <4>1, Sent
    <3>2. wid' = wid /\ req' = [req EXCEPT ![j] = "accepted"] /\ req[j] # "accepted"
      BY <1>1, <2>1 DEF Handler, Enqueue
    <3>3. /\ \A i \in 1..Len(queue) : queue[i] # j
          /\ \A w \in Workers : wid[w] # j
      BY <3>2
    <3>4. \A i \in 1..Len(queue') : i = Len(queue) + 1 \/ i \in 1..Len(queue)
      BY ONLY <3>1
    <3>5. \A i, k \in 1..Len(queue') : queue'[i] = queue'[k] => i = k
      BY <3>1, <3>3, <3>4
    <3>6. \A k \in Jobs \ {j} : InQueue(k)' => InQueue(k)
      BY <3>1, <3>4
    <3>7. OneOwner'
      BY <1>t, <3>2, <3>3, <3>5, <3>6
    <3>8. FreshIDs'
      BY <1>t, <3>2, <3>6
    <3> QED BY <3>7, <3>8
  <2>2. CASE ~Enqueue(j)
    <3>1. UNCHANGED <<queue, wid>> /\ \A k \in Jobs : req'[k] # "accepted" <=> req[k] # "accepted"
      BY <1>t, <1>1, <2>2 DEF Handler, BeginCreate, VerifyFails, CreateRecord, RollBack
    <3> QED BY <3>1
  <2> QED BY <2>1, <2>2
<1>2. ASSUME NEW w \in Workers, Worker(w) PROVE Ownership'
  <2>1. CASE Dequeue(w)
    <3>1. /\ Len(queue') = Len(queue) - 1 /\ Len(queue) \in Nat \ {0}
          /\ \A i \in 1..Len(queue') : queue'[i] = queue[i + 1]
          /\ Head(queue) = queue[1] /\ Head(queue) \in Jobs
      BY <1>t, <2>1, HeadTailProperties, LenProperties, EmptySeq DEF Dequeue
    <3>2. wid' = [wid EXCEPT ![w] = queue[1]] /\ req' = req
      BY <2>1, <3>1 DEF Dequeue
    <3>3. \A k \in Jobs : InQueue(k)' => InQueue(k) /\ k # queue[1]
      BY <3>1
    <3>4. \A v \in Workers : wid[v] # queue[1]
      BY <3>1, <1>t
    <3>5. \A i, k \in 1..Len(queue') : queue'[i] = queue'[k] => i = k
      BY <3>1
    <3>6. /\ \A v \in Workers : wid'[v] = IF v = w THEN queue[1] ELSE wid[v]
          /\ InQueue(queue[1]) /\ queue[1] \in Jobs
      BY <1>t, <3>1, <3>2
    <3>7. OneOwner'
      BY <1>t, <3>3, <3>4, <3>5, <3>6, SMTT(30)
    <3>8. FreshIDs'
      BY <3>2, <3>3, <3>6, SMTT(30)
    <3> QED BY <3>7, <3>8
  <2>2. CASE WorkerStops(w)
    BY <2>2 DEF WorkerStops
  <2>3. CASE ProcessStep(w)
    <3>1. UNCHANGED <<queue, req>> /\ (wid' = wid \/ wid' = [wid EXCEPT ![w] = None])
      BY <2>3, ProcessFrame DEF OnlyWorker
    <3> QED BY <1>t, <3>1
  <2> QED BY <1>2, <2>1, <2>2, <2>3 DEF Worker
<1>3. CASE Sweeper \/ Clock \/ UNCHANGED vars
  BY <1>3 DEF Sweeper, Clock
<1>4. CASE StopAccepting \/ CancelShutdown \/ ShutdownTimeout \/ WorkersDone \/ CleanupDone
           \/ ServerShutdown \/ ServeFails
  BY <1>4 DEF StopAccepting, CancelShutdown, ShutdownTimeout, WorkersDone, CleanupDone,
     ServerShutdown, ServeFails
<1>5. CASE PoolCloses \/ Crash
  <2>1. queue' = <<>> /\ wid' = [w \in Workers |-> None]
    BY <1>5 DEF PoolCloses, Crash, ProcessEnds
  <2>2. Len(queue') = 0 /\ 1..Len(queue') = {} /\ \A w \in Workers : wid'[w] = None
    BY ONLY <2>1
  <2>3. OneOwner'
    BY <2>2
  <2>4. FreshIDs'
    BY <2>2
  <2> QED BY <2>3, <2>4
<1>6. CASE Boot
  BY <1>6 DEF Boot
<1> QED BY <1>1, <1>2, <1>3, <1>4, <1>5, <1>6 DEF Next, Shutdown

-------------------------------------------------------------------------------
(* The stored status follows the pipeline *)

(* The stored status follows the pipeline, and no job is stranded. *)
Stages == RecordStage /\ NoLostJob /\ \A w \in Workers : WorkerStage(w)

(* After a step of worker w, it is enough to look at w and its own job.     *)
LEMMA StagesOfOthers ==
  ASSUME TypeOK, Ownership, Stages, NEW w \in Workers,
         wpc[w] \in Busy, wid[w] \in Jobs, UNCHANGED <<queue, req>>,
         OnlyWorker(w), OnlyRecord(wid[w]),
         wpc'[w] \in Busy => wid'[w] = wid[w] /\ WorkerStage(w)',
         jobs'[wid[w]].status = "queued" => wpc'[w] \in Early /\ wid'[w] = wid[w],
         jobs'[wid[w]].status = "processing" => wpc'[w] \in Late /\ wid'[w] = wid[w]
  PROVE  Stages'
<1> USE DEF Ownership, OneOwner, FreshIDs
<1>t. /\ jobs \in [Jobs -> Job] /\ req \in [Jobs -> ReqState]
      /\ wid \in [Workers -> Jobs \cup {None}]
      /\ \A v \in Workers : wpc[v] \in Busy <=> wid[v] # None
  BY DEF TypeOK, ServiceTypeOK, WorkerTypeOK, StoreTypeOK
<1>0. Early \subseteq Busy /\ Late \subseteq Busy
  BY StageSets
<1>1. RecordStage'
  <2>1. ~InQueue(wid[w]) /\ req[wid[w]] = "accepted"
    BY <1>t, NoneAssumption
  <2>2. \A j \in Jobs : InQueue(j)' = InQueue(j)
    BY DEF InQueue
  <2> QED BY <2>1, <2>2 DEF Stages, RecordStage, OnlyRecord
<1>2. NoLostJob'
  <2> SUFFICES ASSUME NEW j \in Jobs, jobs'[j].status \in {"queued", "processing"}
               PROVE  /\ jobs'[j].status = "queued" /\ req[j] = "accepted" =>
                           InQueue(j)' \/ \E v \in Workers : wid'[v] = j /\ wpc'[v] \in Early
                      /\ jobs'[j].status = "processing" =>
                           \E v \in Workers : wid'[v] = j /\ wpc'[v] \in Late
    BY DEF NoLostJob
  <2>1. CASE j = wid[w]
    BY <2>1
  <2>2. CASE j # wid[w]
    <3>1. jobs'[j] = jobs[j] /\ InQueue(j)' = InQueue(j)
      BY <2>2 DEF OnlyRecord, InQueue
    <3>2. \A v \in Workers : wid[v] = j => wid'[v] = j /\ wpc'[v] = wpc[v]
      BY <2>2 DEF OnlyWorker
    <3>3. /\ jobs[j].status = "queued" /\ req[j] = "accepted" =>
               InQueue(j) \/ \E v \in Workers : wid[v] = j /\ wpc[v] \in Early
          /\ jobs[j].status = "processing" => \E v \in Workers : wid[v] = j /\ wpc[v] \in Late
      BY DEF Stages, NoLostJob
    <3> QED BY ONLY <3>1, <3>2, <3>3
  <2> QED BY <2>1, <2>2
<1>3. ASSUME NEW v \in Workers PROVE WorkerStage(v)'
  <2>1. CASE v = w
    BY <1>0, <2>1 DEF WorkerStage
  <2>2. CASE v # w
    <3>1. wpc'[v] = wpc[v] /\ wid'[v] = wid[v] /\ cur'[v] = cur[v]
      BY <2>2 DEF OnlyWorker
    <3>2. wpc[v] \in Busy => wid[v] \in Jobs \ {wid[w]}
      BY <1>t, <2>2, NoneAssumption
    <3> QED BY <1>0, <3>1, <3>2 DEF Stages, WorkerStage, OnlyRecord
  <2> QED BY <2>1, <2>2
<1> QED BY <1>1, <1>2, <1>3 DEF Stages

(* Every step of ProcessJob keeps place and status of the jobs in           *)
(* agreement.                                                               *)
LEMMA StagesProcess ==
  ASSUME TypeOK, Ownership, Stages, NEW w \in Workers, ProcessStep(w)
  PROVE  Stages'
<1>t. /\ StoreTypeOK /\ WorkerTypeOK /\ cur[w] \in Job
      /\ wpc[w] \in Busy => wid[w] \in Jobs /\ jobs[wid[w]] \in Job
  BY DEF TypeOK, ServiceTypeOK, StoreTypeOK, WorkerTypeOK
<1>s. WorkerStage(w)
  BY DEF Stages
<1>f. /\ wpc[w] \in Busy /\ wid[w] \in Jobs /\ UNCHANGED <<queue, req>>
      /\ OnlyWorker(w) /\ OnlyRecord(wid[w])
  BY ProcessFrame
<1> SUFFICES /\ wpc'[w] \in Busy => wid'[w] = wid[w] /\ WorkerStage(w)'
             /\ jobs'[wid[w]].status = "queued" => wpc'[w] \in Early /\ wid'[w] = wid[w]
             /\ jobs'[wid[w]].status = "processing" => wpc'[w] \in Late /\ wid'[w] = wid[w]
  BY <1>f, StagesOfOthers
<1> USE <1>t, <1>s, <1>f, StageSets DEF WorkerStage
<1>1. CASE GetJob(w)
  BY <1>1, GoToFrame, ReturnFrame DEF GetJob, Exists
<1>2. CASE MarkProcessing(w)
  <2>1. PICK rec : rec.status = "processing" /\ UpdateOrReturn(w, "manifest", rec)
    BY <1>2 DEF MarkProcessing, Job
  <2> QED BY <1>2, <2>1, GoToFrame, ReturnFrame, UpdateFrame DEF MarkProcessing, UpdateOrReturn, Exists
<1>3. CASE BuildManifest(w)
  <2>1. PICK pc \in {"totals", "fail"} : \E rec : rec.status = cur[w].status /\ GoTo(w, pc, rec)
    <3>1. CASE GoTo(w, "fail", cur[w])
      BY <3>1
    <3>2. ASSUME NEW n \in 0..MaxFiles, GoTo(w, "totals", [cur[w] EXCEPT !.totalFiles = n])
          PROVE  \E rec : rec.status = cur[w].status /\ GoTo(w, "totals", rec)
      BY <3>2 DEF Job
    <3> QED BY <1>3, <3>1, <3>2 DEF BuildManifest
  <2> QED BY <1>3, <2>1, GoToFrame DEF BuildManifest
<1>4. CASE RecordTotals(w)
  <2>1. PICK pc \in {"create", "fail"} : wpc[w] \in Late /\ UpdateOrReturn(w, pc, cur[w])
    BY <1>4 DEF RecordTotals
  <2>2. CASE Exists(wid[w]) /\ GoTo(w, pc, cur[w])
    <3>1. wpc'[w] \in Late /\ wpc'[w] # "get" /\ wid' = wid /\ cur'[w] = cur[w]
      BY <2>2, GoToFrame
    <3>2. jobs'[wid[w]] = cur[w]
      BY <2>1, <2>2, UpdateFrame DEF UpdateOrReturn, Exists
    <3> QED BY <2>1, <3>1, <3>2
  <2>3. CASE ~Exists(wid[w]) /\ Return(w)
    <3>1. wpc'[w] = "idle"
      BY <2>3, ReturnFrame
    <3>2. jobs'[wid[w]] = jobs[wid[w]] /\ jobs[wid[w]].status = "none"
      BY <2>1, <2>3, UpdateFrame DEF UpdateOrReturn, Exists
    <3> QED BY <3>1, <3>2
  <2> QED BY <2>1, <2>2, <2>3 DEF UpdateOrReturn
<1>5. CASE CreateTemp(w) \/ CloseArchive(w) \/ GenerateFails(w) \/ PublishFails(w) \/ Discard(w)
  <2>1. /\ jobs' = jobs /\ wpc[w] \in Late
        /\ \E pc \in {"write", "publish", "discard", "fail"} : GoTo(w, pc, cur[w])
    BY <1>5 DEF CreateTemp, CloseArchive, GenerateFails, PublishFails, Discard
  <2>2. PICK pc \in {"write", "publish", "discard", "fail"} : GoTo(w, pc, cur[w])
    BY <2>1
  <2>3. wpc'[w] = pc /\ wid' = wid /\ cur'[w] = cur[w]
    BY <2>2, GoToFrame
  <2> QED BY <2>1, <2>3
<1>6. CASE WriteFile(w)
  <2>1. PICK rec : rec.status = cur[w].status /\ StoreUpdate(wid[w], rec) /\ GoTo(w, "write", rec)
    BY <1>6 DEF WriteFile, Job
  <2> QED BY <1>6, <2>1, GoToFrame, UpdateFrame DEF WriteFile
<1>7. CASE Publish(w)
  BY <1>7 DEF Publish, WorkerTypeOK
<1>8. CASE IssueToken(w)
  <2>1. /\ jobs' = jobs /\ wpc[w] \in Late
        /\ GoTo(w, "finish", cur[w]) \/ GoTo(w, "fail", cur[w])
    BY <1>8 DEF IssueToken
  <2>2. wpc'[w] \in {"finish", "fail"} /\ wid' = wid /\ cur'[w] = cur[w]
    BY <2>1, GoToFrame
  <2> QED BY <2>1, <2>2
<1>9. CASE FailJob(w)
  <2>1. PICK rec : rec.status = "failed" /\ StoreUpdate(wid[w], rec)
    BY <1>9 DEF FailJob, Job
  <2>2. wpc'[w] = "idle"
    BY <1>9, ReturnFrame DEF FailJob
  <2>3. jobs'[wid[w]].status \in {"none", "failed"}
    BY <2>1, UpdateFrame
  <2> QED BY <2>2, <2>3
<1>10. CASE CompleteJob(w)
  <2>1. PICK rec : rec.status = "completed" /\ StoreUpdate(wid[w], rec)
    <3>1. CompletedJob(w).status = "completed"
      BY DEF Job, CompletedJob
    <3> QED BY <1>10, <3>1 DEF CompleteJob
  <2>2. wpc'[w] = "idle"
    BY <1>10, ReturnFrame DEF CompleteJob
  <2>3. jobs'[wid[w]].status \in {"none", "completed"}
    BY <2>1, UpdateFrame
  <2> QED BY <2>2, <2>3
<1> QED BY <1>1, <1>2, <1>3, <1>4, <1>5, <1>6, <1>7, <1>8, <1>9, <1>10 DEF ProcessStep

(* Every step of CreateJob keeps place and status of the jobs in            *)
(* agreement.                                                               *)
LEMMA StagesHandler ==
  ASSUME TypeOK, Ownership, Stages, NEW j \in Jobs, Handler(j)
  PROVE  Stages'
<1> USE DEF Ownership, FreshIDs
<1>t. /\ queue \in Seq(Jobs) /\ req \in [Jobs -> ReqState] /\ jobs \in [Jobs -> Job]
      /\ wid \in [Workers -> Jobs \cup {None}]
      /\ \A v \in Workers : wpc[v] \in Busy <=> wid[v] # None
  BY DEF TypeOK, ServiceTypeOK, WorkerTypeOK, StoreTypeOK
<1>0. Early \subseteq Busy /\ Late \subseteq Busy
  BY StageSets
<1>u. UNCHANGED workerVars
  BY DEF Handler, BeginCreate, VerifyFails, CreateRecord, Enqueue, RollBack
<1>k. \A k \in Jobs \ {j} : req'[k] = req[k] /\ jobs'[k] = jobs[k]
  BY <1>t DEF Handler, BeginCreate, VerifyFails, CreateRecord, Enqueue, RollBack,
              StoreCreate, StoreDelete
<1>n. req[j] # "accepted"
  BY DEF Handler, BeginCreate, VerifyFails, CreateRecord, Enqueue, RollBack
<1>q. /\ \A k \in Jobs : InQueue(k) => InQueue(k)'
      /\ \A k \in Jobs \ {j} : InQueue(k)' => InQueue(k)
      /\ req'[j] = "accepted" => InQueue(j)'
      /\ req'[j] # "accepted" => ~InQueue(j)'
  <2>1. CASE Enqueue(j)
    <3>1. /\ Len(queue') = Len(queue) + 1 /\ queue'[Len(queue) + 1] = j
          /\ \A i \in 1..Len(queue) : queue'[i] = queue[i]
          /\ Len(queue) \in Nat
      <4>1. queue' = Append(queue, j)
        BY <2>1 DEF Enqueue
      <4> QED BY ONLY j \in Jobs, <1>t, <4>1, Sent
    <3>a. req'[j] = "accepted"
      BY <1>t, <2>1 DEF Enqueue
    <3>2. \A k \in Jobs : InQueue(k) => InQueue(k)'
      BY ONLY <3>1 DEF InQueue
    <3>3. InQueue(j)'
      BY ONLY <3>1 DEF InQueue
    <3>4. \A k \in Jobs \ {j} : InQueue(k)' => InQueue(k)
      BY ONLY <3>1 DEF InQueue
    <3> QED BY ONLY <3>a, <3>2, <3>3, <3>4
  <2>2. CASE ~Enqueue(j)
    BY <1>t, <2>2 DEF Handler, BeginCreate, VerifyFails, CreateRecord, RollBack, InQueue
  <2> QED BY <2>1, <2>2
<1>s. /\ req'[j] \in {"idle", "checked", "rejected"} => jobs'[j].status = "none"
      /\ jobs'[j].status \in {"none", "queued"}
  <2>1. CASE BeginCreate(j) \/ VerifyFails(j) \/ Enqueue(j)
    BY <1>t, <2>1 DEF BeginCreate, VerifyFails, Enqueue, Stages, RecordStage
  <2>2. CASE CreateRecord(j)
    <3>1. jobs' = [jobs EXCEPT ![j] = QueuedJob] /\ req' = [req EXCEPT ![j] = "recorded"]
      BY <2>2 DEF CreateRecord, StoreCreate
    <3>2. QueuedJob.status = "queued"
      BY NoJobType DEF QueuedJob, Job
    <3> QED BY <1>t, <3>1, <3>2
  <2>3. CASE RollBack(j)
    BY <1>t, <2>3 DEF RollBack, StoreDelete, NoJob
  <2> QED BY <2>1, <2>2, <2>3 DEF Handler
<1>1. RecordStage'
  BY <1>k, <1>q, <1>s DEF Stages, RecordStage
<1>2. NoLostJob'
  <2> SUFFICES ASSUME NEW k \in Jobs
               PROVE  /\ jobs'[k].status = "queued" /\ req'[k] = "accepted" =>
                           InQueue(k)' \/ \E v \in Workers : wid[v] = k /\ wpc[v] \in Early
                      /\ jobs'[k].status = "processing" =>
                           \E v \in Workers : wid[v] = k /\ wpc[v] \in Late
    BY <1>u DEF NoLostJob
  <2>1. NoLostJob
    BY DEF Stages
  <2>2. CASE k = j
    BY ONLY <1>s, <1>q, <2>2
  <2>3. CASE k # j
    <3>1. jobs'[k] = jobs[k] /\ req'[k] = req[k] /\ (InQueue(k) => InQueue(k)')
      BY <1>k, <1>q, <2>3
    <3> QED BY ONLY k \in Jobs, <2>1, <3>1 DEF NoLostJob
  <2> QED BY <2>2, <2>3
<1>3. ASSUME NEW v \in Workers PROVE WorkerStage(v)'
  <2>1. wpc[v] \in Busy => wid[v] \in Jobs \ {j}
    BY <1>t, <1>n
  <2> QED BY <1>0, <1>u, <1>k, <2>1 DEF Stages, WorkerStage
<1> QED BY <1>1, <1>2, <1>3 DEF Stages

(* Receiving from the queue keeps place and status of the jobs in           *)
(* agreement.                                                               *)
LEMMA StagesDequeue ==
  ASSUME TypeOK, Ownership, Stages, NEW w \in Workers, Dequeue(w)
  PROVE  Stages'
<1>t. /\ queue \in Seq(Jobs) /\ wid \in [Workers -> Jobs \cup {None}] /\ wpc \in [Workers -> WorkerPC]
      /\ wid[w] = None
  BY PCs DEF TypeOK, ServiceTypeOK, WorkerTypeOK, Dequeue
<1>h. /\ Len(queue) \in Nat \ {0} /\ Len(queue') = Len(queue) - 1
      /\ \A i \in 1..Len(queue') : queue'[i] = queue[i + 1]
      /\ Head(queue) = queue[1] /\ Head(queue) \in Jobs
  BY <1>t, HeadTailProperties, LenProperties, EmptySeq DEF Dequeue
<1>q. /\ \A k \in Jobs : InQueue(k)' => InQueue(k)
      /\ \A k \in Jobs : InQueue(k) => InQueue(k)' \/ k = queue[1]
      /\ InQueue(queue[1])
  <2>1. ASSUME NEW k \in Jobs, InQueue(k) PROVE InQueue(k)' \/ k = queue[1]
    <3>1. PICK i \in 1..Len(queue) : queue[i] = k
      BY <2>1 DEF InQueue
    <3>2. i = 1 \/ (i - 1 \in 1..Len(queue') /\ queue'[i - 1] = k)
      BY <1>h, <3>1
    <3> QED BY <3>1, <3>2 DEF InQueue
  <2> QED BY <1>h, <2>1 DEF InQueue
<1>d. /\ wpc' = [wpc EXCEPT ![w] = "get"] /\ wid' = [wid EXCEPT ![w] = queue[1]]
      /\ cur' = cur /\ jobs' = jobs /\ req' = req
  BY <1>h DEF Dequeue
<1>1. RecordStage'
  BY <1>d, <1>q DEF Stages, RecordStage
<1>2. NoLostJob'
  <2> SUFFICES ASSUME NEW k \in Jobs
               PROVE  /\ jobs[k].status = "queued" /\ req[k] = "accepted" =>
                           InQueue(k)' \/ \E v \in Workers : wid'[v] = k /\ wpc'[v] \in Early
                      /\ jobs[k].status = "processing" =>
                           \E v \in Workers : wid'[v] = k /\ wpc'[v] \in Late
    BY <1>d DEF NoLostJob
  <2>1. \A v \in Workers : wid[v] = k => wid'[v] = k /\ wpc'[v] = wpc[v]
    BY <1>t, <1>d, NoneAssumption
  <2>2. wid'[w] = queue[1] /\ wpc'[w] \in Early
    BY <1>t, <1>d, StageSets
  <2>3. NoLostJob
    BY DEF Stages
  <2>4. InQueue(k) => InQueue(k)' \/ (wid'[w] = k /\ wpc'[w] \in Early)
    BY <1>q, <2>2
  <2> QED BY ONLY k \in Jobs, w \in Workers, <2>1, <2>3, <2>4 DEF NoLostJob
<1>3. ASSUME NEW v \in Workers PROVE WorkerStage(v)'
  <2>1. CASE v = w
    <3>1. wid'[w] = queue[1] /\ wpc'[w] \in Early /\ wpc'[w] \notin Late
      BY <1>t, <1>d, StageSets
    <3>2. jobs'[queue[1]].status \in {"none", "queued"}
      BY <1>h, <1>d, <1>q DEF Stages, RecordStage
    <3> QED BY <2>1, <3>1, <3>2 DEF WorkerStage
  <2>2. CASE v # w
    BY <1>t, <1>d, <2>2 DEF Stages, WorkerStage
  <2> QED BY <2>1, <2>2
<1> QED BY <1>1, <1>2, <1>3 DEF Stages

(* A record that disappears strands nobody. *)
LEMMA StagesDrop ==
  ASSUME TypeOK, Stages, UNCHANGED <<queue, req, wpc, wid, cur>>,
         \A j \in Jobs : jobs'[j] = jobs[j] \/ jobs'[j] = NoJob
  PROVE  Stages'
<1>t. /\ wid \in [Workers -> Jobs \cup {None}]
      /\ \A v \in Workers : wpc[v] \in Busy => wid[v] \in Jobs
  BY DEF TypeOK, ServiceTypeOK, WorkerTypeOK
<1>0. Early \subseteq Busy /\ Late \subseteq Busy /\ NoJob.status = "none"
  BY StageSets DEF NoJob
<1>1. RecordStage' /\ NoLostJob'
  <2>1. RecordStage'
    BY <1>0 DEF Stages, RecordStage, InQueue
  <2>2. NoLostJob'
    BY <1>0 DEF Stages, NoLostJob, InQueue
  <2> QED BY <2>1, <2>2
<1>2. ASSUME NEW v \in Workers PROVE WorkerStage(v)'
  BY <1>t, <1>0 DEF Stages, WorkerStage
<1> QED BY <1>1, <1>2 DEF Stages

(* Nothing runs between the end of a process and the next start.            *)
LEMMA QuietStep ==
  ASSUME TypeOK, DownIsQuiet, [Next]_vars
  PROVE  DownIsQuiet'
<1> USE DEF DownIsQuiet
<1>1. ASSUME phase = "down", NEW j \in Jobs, Handler(j) PROVE FALSE
  BY <1>1 DEF Handler, BeginCreate, VerifyFails, CreateRecord, Enqueue, RollBack
<1>2. ASSUME phase = "down", NEW w \in Workers, Worker(w) PROVE FALSE
  <2>1. ~ProcessStep(w)
    BY <1>2, ProcessFrame, PCs
  <2> QED BY <1>2, <2>1 DEF Worker, Dequeue, WorkerStops
<1>3. ASSUME phase = "down", Sweeper PROVE FALSE
  BY <1>3 DEF Sweeper, SweepStep, SweepList, SweepSelect, CleanupStops, SweepEnds, RevokeTokens,
     DropRecord, ListArchives, ListArchivesFails, RemoveArchive, RemoveOrphan
<1>4. CASE \/ \E j \in Jobs : Handler(j)
           \/ \E w \in Workers : Worker(w)
           \/ Sweeper
  BY <1>1, <1>2, <1>3, <1>4 DEF Handler, Worker, Sweeper
<1>5. CASE Clock \/ UNCHANGED vars
  BY <1>5 DEF Clock
<1>6. CASE StopAccepting \/ CancelShutdown \/ WorkersDone \/ CleanupDone \/ ShutdownTimeout
           \/ ServerShutdown \/ ServeFails \/ Boot
  BY <1>6 DEF StopAccepting, CancelShutdown, WorkersDone, CleanupDone, ShutdownTimeout,
     ServerShutdown, ServeFails, Boot
<1>7. CASE PoolCloses \/ Crash
  <2>1. ProcessEnds
    BY <1>7 DEF PoolCloses, Crash
  <2>2. ~accepting'
    BY <2>1, Zenon DEF ProcessEnds
  <2>3. spc' = "stopped" /\ \A w \in Workers : wpc'[w] = "stopped"
    BY <2>1 DEF ProcessEnds
  <2>4. \A j \in Jobs : jobs'[j].status = "none" /\ req'[j] \notin {"checked", "recorded"}
    BY <2>1 DEF ProcessEnds, NoJob
  <2> QED BY <2>2, <2>3, <2>4
<1> QED BY <1>4, <1>5, <1>6, <1>7 DEF Next, Shutdown

(* Every step of the system keeps place and status of the jobs in           *)
(* agreement.                                                               *)
LEMMA StagesStep ==
  ASSUME TypeOK, Ownership, Stages, DownIsQuiet, [Next]_vars
  PROVE  Stages'
<1>1. ASSUME NEW w \in Workers, WorkerStops(w) PROVE Stages'
  <2>1. wpc \in [Workers -> WorkerPC] /\ wpc[w] \notin Busy
    BY <1>1, PCs DEF TypeOK, ServiceTypeOK, WorkerTypeOK, WorkerStops
  <2>2. \A v \in Workers : wpc[v] \in Busy \/ wpc'[v] \in Busy => wpc'[v] = wpc[v]
    BY <1>1, <2>1, PCs DEF WorkerStops
  <2>3. Early \subseteq Busy /\ Late \subseteq Busy
    BY StageSets
  <2>4. UNCHANGED <<queue, req, wid, cur, jobs>>
    BY <1>1 DEF WorkerStops
  <2>5. RecordStage'
    BY <2>4 DEF Stages, RecordStage, InQueue
  <2>6. NoLostJob'
    BY <2>2, <2>3, <2>4 DEF Stages, NoLostJob, InQueue
  <2>7. \A v \in Workers : WorkerStage(v)'
    BY <2>2, <2>3, <2>4 DEF Stages, WorkerStage
  <2> QED BY <2>5, <2>6, <2>7 DEF Stages
<1>2. CASE Sweeper
  <2>1. \A j \in Jobs : jobs'[j] = jobs[j] \/ jobs'[j] = NoJob
    <3>1. CASE DropRecord
      BY <3>1 DEF DropRecord, StoreDelete, TypeOK, StoreTypeOK
    <3>2. CASE ~DropRecord
      BY <1>2, <3>2 DEF Sweeper, SweepStep, SweepList, SweepSelect, CleanupStops, SweepEnds,
         RevokeTokens, ListArchives, ListArchivesFails, RemoveArchive, RemoveOrphan
    <3> QED BY <3>1, <3>2
  <2> QED BY <1>2, <2>1, StagesDrop DEF Sweeper
<1>3. CASE Clock \/ UNCHANGED vars \/ StopAccepting \/ CancelShutdown \/ ShutdownTimeout
           \/ WorkersDone \/ CleanupDone \/ ServerShutdown \/ ServeFails
  BY <1>3, StagesDrop DEF Clock, StopAccepting, CancelShutdown, ShutdownTimeout, WorkersDone,
     CleanupDone, ServerShutdown, ServeFails
<1>4. CASE PoolCloses \/ Crash
  <2>1. /\ queue' = <<>> /\ jobs' = [j \in Jobs |-> NoJob]
        /\ wpc' = [w \in Workers |-> "stopped"]
    BY <1>4 DEF PoolCloses, Crash, ProcessEnds
  <2>2. \A j \in Jobs : jobs'[j].status = "none"
    BY <2>1 DEF NoJob
  <2>3. \A w \in Workers : wpc'[w] \notin Early /\ wpc'[w] \notin Late
    BY <2>1, StageSets
  <2> QED BY <2>1, <2>2, <2>3 DEF Stages, RecordStage, NoLostJob, WorkerStage
<1>5. CASE Boot
  <2>1. /\ UNCHANGED <<jobs, req, queue>> /\ wpc' = [w \in Workers |-> "idle"]
        /\ \A j \in Jobs : jobs[j].status = "none"
    BY <1>5 DEF Boot, DownIsQuiet
  <2>2. \A w \in Workers : wpc'[w] \notin Early /\ wpc'[w] \notin Late
    BY <2>1, StageSets
  <2> QED BY <2>1, <2>2 DEF Stages, RecordStage, NoLostJob, WorkerStage
<1> QED BY <1>1, <1>2, <1>3, <1>4, <1>5, StagesHandler, StagesDequeue, StagesProcess
        DEF Next, Shutdown, Handler, Worker
================================================================================
