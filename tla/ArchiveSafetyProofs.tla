-------------------------- MODULE ArchiveSafetyProofs --------------------------
(***************************************************************************)
(* Safety of ArchiveSystem for any number of jobs, workers, files, faults  *)
(* and process restarts: SafetyInv is inductive relative to TypeOK. Then:  *)
(* stored records and the workers' copies of them agree, so that records   *)
(* count what is archived and only move forward.                           *)
(***************************************************************************)
EXTENDS ArchiveTypeProofs

USE DEF vars, serviceVars, workerVars, handlerFrame, workerFrame, cleanupVars,
        cleanupFrame, lifeVars, memory

(* The token of a completed record outlives the expiry of the record *)

(* A step that issues no token, revokes none and completes no record.       *)
LEMMA TokensKept ==
  ASSUME TokenStage, UNCHANGED <<tokens, wid, doneAt>>, now' >= now, now \in Nat, now' \in Nat,
         doneAt \in [Workers -> Nat],
         \A v \in Workers : wpc'[v] \in {"issue", "finish"} => wpc'[v] = wpc[v],
         \A j \in Jobs : \/ jobs'[j].status = "none"
                         \/ jobs'[j] = jobs[j] /\ (Dropping(j) => Dropping(j)'),
         \A v \in Workers : wpc[v] = "finish" => wid[v] \in Jobs
  PROVE  TokenStage'
BY DEF TokenStage

(* Every step of ProcessJob keeps a token behind each completed record.     *)
LEMMA TokenStageProcess ==
  ASSUME TypeOK, Ownership, Stages, TokenStage, NEW w \in Workers,
         ProcessStep(w), UNCHANGED <<spc, victim>>
  PROVE  TokenStage'
<1>t. /\ StoreTypeOK /\ WorkerTypeOK /\ cur[w] \in Job /\ doneAt[w] \in Nat
      /\ tokens \subseteq TokenEntry /\ now \in Nat /\ now' = now
      /\ wid \in [Workers -> Jobs \cup {None}]
      /\ \A v \in Workers : wpc[v] \in {"issue", "finish"} => wid[v] \in Jobs
  BY PCs DEF TypeOK, ServiceTypeOK, TokensTypeOK, WorkerTypeOK, ProcessStep, GetJob,
         MarkProcessing, BuildManifest, RecordTotals, CreateTemp, WriteFile, CloseArchive,
         GenerateFails, Publish, PublishFails, Discard, FailJob, IssueToken, CompleteJob
<1>f. wpc[w] \in Busy /\ wid[w] \in Jobs /\ OnlyWorker(w) /\ OnlyRecord(wid[w])
  BY ProcessFrame
<1>s. jobs[wid[w]].status \in {"none", "queued", "processing"}
  BY <1>f, StageSets DEF Stages, WorkerStage
<1>c. \A v \in Workers : wpc[v] \in Late => cur[v].status = "processing"
  BY DEF Stages, WorkerStage
<1>d. ASSUME NEW j PROVE Dropping(j)' <=> Dropping(j)
  BY DEF Dropping
<1>g. \A j \in Jobs \ {wid[w]}, t \in Int : Granted(tokens, j, t) => Granted(tokens', j, t)
  <2>1. CASE tokens' = tokens
    BY <2>1 DEF Granted
  <2>2. CASE Issue(wid[w], wid[w], Expiry)
    BY <2>2 DEF Granted, Issue
  <2> QED BY <2>1, <2>2 DEF ProcessStep, GetJob,
         MarkProcessing, BuildManifest, RecordTotals, CreateTemp, WriteFile, CloseArchive,
         GenerateFails, Publish, PublishFails, Discard, FailJob, IssueToken, CompleteJob
<1>o. \A v \in Workers \ {w} : wpc'[v] \in {"issue", "finish"} =>
        /\ wpc[v] = wpc'[v] /\ wid'[v] = wid[v] /\ doneAt'[v] = doneAt[v]
        /\ wid[v] \in Jobs \ {wid[w]} /\ doneAt[v] + Expiry \in Int
  BY <1>t, <1>f, NoneAssumption, TimeAssumption
     DEF OnlyWorker, Ownership, OneOwner, WorkerTypeOK
<1>j. \A j \in Jobs \ {wid[w]} : jobs'[j] = jobs[j] /\ jobs[j].expiresAt \in Int
  BY <1>t, <1>f DEF OnlyRecord, StoreTypeOK, Job
<1> SUFFICES
      /\ wpc'[w] \in {"issue", "finish"} => doneAt'[w] <= now
      /\ wpc'[w] = "finish" => wid'[w] = wid[w] /\ Granted(tokens', wid[w], doneAt'[w] + Expiry)
      /\ jobs'[wid[w]].status = "completed" =>
           /\ jobs'[wid[w]].downloadToken = wid[w]
           /\ Granted(tokens', wid[w], jobs'[wid[w]].expiresAt) \/ Dropping(wid[w])
  BY <1>t, <1>f, <1>d, <1>g, <1>o, <1>j DEF TokenStage
<1> USE <1>t, <1>f, <1>s
<1>1. CASE GetJob(w)
  BY <1>1, GoToFrame, ReturnFrame DEF GetJob
<1>2. CASE MarkProcessing(w)
  <2>1. PICK rec : rec.status = "processing" /\ UpdateOrReturn(w, "manifest", rec)
    BY <1>2 DEF MarkProcessing, Job
  <2> QED BY <2>1, GoToFrame, ReturnFrame, UpdateFrame DEF UpdateOrReturn
<1>3. CASE BuildManifest(w) \/ CreateTemp(w) \/ CloseArchive(w) \/ GenerateFails(w)
           \/ PublishFails(w) \/ Discard(w)
  <2>1. PICK pc \in WorkerPC \ {"issue", "finish"} : \E rec : GoTo(w, pc, rec)
    BY <1>3 DEF BuildManifest, CreateTemp, CloseArchive, GenerateFails, PublishFails, Discard,
                WorkerPC, Busy
  <2>2. jobs' = jobs
    BY <1>3 DEF BuildManifest, CreateTemp, CloseArchive, GenerateFails, PublishFails, Discard
  <2> QED BY <2>1, <2>2, GoToFrame
<1>4. CASE RecordTotals(w)
  <2>1. cur[w].status = "processing"
    BY <1>4, <1>c, StageSets DEF RecordTotals
  <2> QED BY <1>4, <2>1, GoToFrame, ReturnFrame, UpdateFrame DEF RecordTotals, UpdateOrReturn
<1>5. CASE WriteFile(w)
  <2>1. PICK rec : rec.status = "processing" /\ StoreUpdate(wid[w], rec) /\ GoTo(w, "write", rec)
    BY <1>5, <1>c, StageSets DEF WriteFile, Job
  <2> QED BY <2>1, GoToFrame, UpdateFrame
<1>6. CASE Publish(w)
  <2>1. wpc'[w] = "issue" /\ doneAt'[w] = now /\ jobs' = jobs
    BY <1>6 DEF Publish, WorkerTypeOK
  <2> QED BY <2>1
<1>7. CASE FailJob(w)
  <2>1. PICK rec : rec.status = "failed" /\ StoreUpdate(wid[w], rec)
    BY <1>7 DEF FailJob, Job
  <2> QED BY <1>7, <2>1, ReturnFrame, UpdateFrame DEF FailJob
<1>8. CASE IssueToken(w)
  <2>1. CASE Issue(wid[w], wid[w], Expiry) /\ GoTo(w, "finish", cur[w])
    <3>1. doneAt[w] <= now
      BY <1>8 DEF IssueToken, TokenStage
    <3>2. Granted(tokens', wid[w], doneAt[w] + Expiry)
      <4>1. [tok |-> wid[w], jobID |-> wid[w], expiresAt |-> now + Expiry] \in tokens'
        BY <2>1 DEF Issue
      <4> QED BY <3>1, <4>1, TimeAssumption DEF Granted
    <3> QED BY <1>8, <2>1, <3>1, <3>2, GoToFrame DEF IssueToken
  <2>2. CASE UNCHANGED tokens /\ GoTo(w, "fail", cur[w])
    BY <1>8, <2>2, GoToFrame DEF IssueToken
  <2> QED BY <1>8, <2>1, <2>2 DEF IssueToken
<1>9. CASE CompleteJob(w)
  <2>1. PICK rec : /\ rec.downloadToken = wid[w] /\ rec.expiresAt = doneAt[w] + Expiry
                   /\ StoreUpdate(wid[w], rec)
    BY <1>9 DEF CompleteJob, CompletedJob, Job
  <2>2. \/ Granted(tokens, wid[w], doneAt[w] + Expiry)
        \/ jobs[wid[w]].status = "none" \/ Dropping(wid[w])
    BY <1>9 DEF CompleteJob, TokenStage
  <2>3. Granted(tokens, wid[w], doneAt[w] + Expiry) => Granted(tokens', wid[w], doneAt[w] + Expiry)
    BY <1>9 DEF CompleteJob
  <2> QED BY <1>9, <1>d, <2>1, <2>2, <2>3, ReturnFrame, UpdateFrame DEF CompleteJob
<1> QED BY <1>1, <1>2, <1>3, <1>4, <1>5, <1>6, <1>7, <1>8, <1>9 DEF ProcessStep

(* The sweeper revokes tokens only of the record it drops next.             *)
LEMMA TokenStageSweeper ==
  ASSUME TypeOK, TokenStage, Sweeper
  PROVE  TokenStage'
<1>t. /\ now \in Nat /\ now' = now /\ doneAt \in [Workers -> Nat]
      /\ UNCHANGED <<wpc, wid, doneAt>> /\ jobs \in [Jobs -> Job]
      /\ \A v \in Workers : wpc[v] = "finish" => wid[v] \in Jobs
  BY PCs DEF TypeOK, ServiceTypeOK, WorkerTypeOK, StoreTypeOK, Sweeper, SweepStep, SweepList,
         SweepSelect, CleanupStops, SweepEnds, RevokeTokens, DropRecord, ListArchives,
         ListArchivesFails, RemoveArchive, RemoveOrphan
<1>1. CASE RevokeTokens
  <2>1. /\ tokens' = {e \in tokens : e.jobID # victim} /\ jobs' = jobs
        /\ spc' = "drop" /\ victim' = victim /\ spc # "drop"
    BY <1>1 DEF RevokeTokens, Revoke
  <2>2. ASSUME NEW j, NEW t, Granted(tokens, j, t) PROVE Granted(tokens', j, t) \/ j = victim
    BY <2>1, <2>2 DEF Granted
  <2> QED BY <1>t, <2>1, <2>2 DEF TokenStage, Dropping
<1>2. CASE DropRecord
  <2>1. /\ jobs' = [jobs EXCEPT ![victim] = NoJob] /\ tokens' = tokens
        /\ NoJob.status = "none"
    BY <1>2 DEF DropRecord, StoreDelete, NoJob
  <2>2. \A j \in Jobs : jobs'[j].status = "none" \/ (jobs'[j] = jobs[j] /\ j # victim)
    BY <1>t, <2>1
  <2> QED BY <1>t, <2>1, <2>2, TokensKept DEF Dropping
<1>3. CASE ~RevokeTokens /\ ~DropRecord
  <2>1. UNCHANGED <<jobs, tokens>> /\ spc # "drop"
    BY <1>3 DEF Sweeper, SweepStep, SweepList, SweepSelect, CleanupStops, SweepEnds,
       ListArchives, ListArchivesFails, RemoveArchive, RemoveOrphan
  <2> QED BY <1>t, <2>1, TokensKept DEF Dropping
<1> QED BY <1>1, <1>2, <1>3

(* Every step of the system keeps a token behind each completed record.     *)
LEMMA TokenStageStep ==
  ASSUME TypeOK, Ownership, Stages, DownIsQuiet, TokenStage, [Next]_vars
  PROVE  TokenStage'
<1>t. /\ now \in Nat /\ doneAt \in [Workers -> Nat] /\ wpc \in [Workers -> WorkerPC]
      /\ jobs \in [Jobs -> Job]
      /\ \A v \in Workers : wpc[v] = "finish" => wid[v] \in Jobs
  BY PCs DEF TypeOK, ServiceTypeOK, WorkerTypeOK, StoreTypeOK
<1>1. ASSUME NEW j \in Jobs, Handler(j) PROVE TokenStage'
  <2>1. UNCHANGED <<tokens, workerVars, now, spc, victim>>
    BY <1>1 DEF Handler, BeginCreate, VerifyFails, CreateRecord, Enqueue, RollBack
  <2>2. CASE ~CreateRecord(j)
    <3>1. \A k \in Jobs : jobs'[k] = jobs[k] \/ jobs'[k].status = "none"
      BY <1>t, <1>1, <2>2 DEF Handler, BeginCreate, VerifyFails, Enqueue, RollBack, StoreDelete, NoJob
    <3> QED BY <1>t, <2>1, <3>1, TokensKept DEF Dropping
  <2>3. CASE CreateRecord(j)
    <3>1. jobs' = [jobs EXCEPT ![j] = QueuedJob] /\ QueuedJob.status = "queued"
      BY <2>3, NoJobType DEF CreateRecord, StoreCreate, QueuedJob, Job
    <3>2. \A v \in Workers : wpc[v] = "finish" => wid[v] \in Jobs \ {j}
      BY <1>t, <2>3 DEF Ownership, FreshIDs, CreateRecord
    <3> QED BY <1>t, <2>1, <3>1, <3>2 DEF TokenStage, Dropping
  <2> QED BY <2>2, <2>3
<1>2. ASSUME NEW w \in Workers, Dequeue(w) \/ WorkerStops(w), UNCHANGED <<spc, victim>>
      PROVE  TokenStage'
  <2>1. /\ UNCHANGED <<tokens, doneAt, jobs, now>>
        /\ \A v \in Workers : wpc'[v] \in {"issue", "finish"} => wpc'[v] = wpc[v] /\ wid'[v] = wid[v]
    <3>1. CASE Dequeue(w)
      BY <1>t, <3>1 DEF Dequeue, TypeOK, ServiceTypeOK, WorkerTypeOK
    <3>2. CASE WorkerStops(w)
      BY <1>t, <3>2 DEF WorkerStops
    <3> QED BY <1>2, <3>1, <3>2
  <2> QED BY <1>t, <2>1, <1>2 DEF TokenStage, Dropping
<1>3. CASE Clock
  <2>1. now' = now + 1 /\ UNCHANGED <<tokens, wpc, wid, doneAt, jobs, spc, victim>>
    BY <1>3 DEF Clock, Tick
  <2> QED BY <1>t, <2>1, TokensKept DEF Dropping
<1>4. CASE UNCHANGED vars \/ StopAccepting \/ CancelShutdown \/ ShutdownTimeout
           \/ WorkersDone \/ CleanupDone \/ ServerShutdown \/ ServeFails
  <2>1. UNCHANGED <<tokens, wpc, wid, doneAt, jobs, spc, victim, now>>
    BY <1>4 DEF StopAccepting, CancelShutdown, ShutdownTimeout, WorkersDone, CleanupDone,
       ServerShutdown, ServeFails
  <2> QED BY <1>t, <2>1, TokensKept DEF Dropping
<1>5. CASE PoolCloses \/ Crash \/ Boot
  <2>1. /\ \A j \in Jobs : jobs'[j].status = "none"
        /\ \A w \in Workers : wpc'[w] \in {"idle", "stopped"}
    BY <1>5 DEF PoolCloses, Crash, ProcessEnds, Boot, DownIsQuiet, NoJob
  <2> QED BY <2>1 DEF TokenStage
<1> QED BY <1>1, <1>2, <1>3, <1>4, <1>5, TokenStageProcess, TokenStageSweeper
        DEF Next, Shutdown, Worker

-------------------------------------------------------------------------------
(* The final path holds whole archives only. *)

WholeFiles == PublishedIsWhole /\ ReadyToPublish

(* Every step of ProcessJob keeps final archives whole: only a closed       *)
(* temp file is renamed.                                                    *)
LEMMA WholeFilesProcess ==
  ASSUME TypeOK, Ownership, WholeFiles, NEW w \in Workers, ProcessStep(w)
  PROVE  WholeFiles'
<1>t. /\ FilesTypeOK /\ WorkerTypeOK /\ disk \in [Jobs -> Files]
      /\ wid \in [Workers -> Jobs \cup {None}]
      /\ \A v \in Workers : wpc[v] = "publish" => wid[v] \in Jobs
  BY PCs DEF TypeOK, ServiceTypeOK, FilesTypeOK, WorkerTypeOK
<1>f. wid[w] \in Jobs /\ OnlyWorker(w) /\ OnlyFiles(wid[w])
  BY ProcessFrame
<1>o. \A v \in Workers \ {w} : wpc'[v] = "publish" =>
        wpc[v] = "publish" /\ wid'[v] = wid[v] /\ wid[v] \in Jobs \ {wid[w]}
  BY <1>t, <1>f, NoneAssumption DEF OnlyWorker, Ownership, OneOwner
<1> SUFFICES /\ disk'[wid[w]].final # "partial"
             /\ wpc'[w] = "publish" => wid'[w] = wid[w] /\ disk'[wid[w]].tmp # "partial"
  BY <1>f, <1>o DEF WholeFiles, PublishedIsWhole, ReadyToPublish, OnlyFiles
<1>p. disk[wid[w]].final # "partial" /\ (wpc[w] = "publish" => disk[wid[w]].tmp # "partial")
  BY <1>f DEF WholeFiles, PublishedIsWhole, ReadyToPublish
<1> USE <1>t, <1>f, <1>p
<1>1. CASE GetJob(w) \/ MarkProcessing(w) \/ RecordTotals(w)
  BY <1>1, GoToFrame, ReturnFrame DEF GetJob, MarkProcessing, RecordTotals, UpdateOrReturn
<1>2. CASE BuildManifest(w) \/ GenerateFails(w) \/ PublishFails(w) \/ IssueToken(w) \/ WriteFile(w)
  <2>1. PICK pc \in WorkerPC \ {"publish"} : \E rec : GoTo(w, pc, rec)
    BY <1>2 DEF BuildManifest, GenerateFails, PublishFails, IssueToken, WriteFile, WorkerPC, Busy
  <2>2. disk' = disk
    BY <1>2 DEF BuildManifest, GenerateFails, PublishFails, IssueToken, WriteFile
  <2> QED BY <2>1, <2>2, GoToFrame
<1>3. CASE CreateTemp(w)
  BY <1>3, GoToFrame DEF CreateTemp, FilesCreate, Files
<1>4. CASE CloseArchive(w)
  <2>1. PICK c \in {"none", "whole"} : disk' = [disk EXCEPT ![wid[w]].tmp = c]
    BY <1>4 DEF CloseArchive, FilesClose
  <2> QED BY <1>4, <2>1, GoToFrame DEF CloseArchive, Files
<1>5. CASE Publish(w)
  <2>1. wpc[w] = "publish" /\ wpc'[w] = "issue"
    BY <1>5 DEF Publish, WorkerTypeOK
  <2>2. disk' = [disk EXCEPT ![wid[w]] = [tmp |-> "none", final |-> @.tmp]]
    BY <1>5 DEF Publish, RenameTemp
  <2>3. disk'[wid[w]].final = disk[wid[w]].tmp
    BY ONLY <1>t, <1>f, <2>2
  <2> QED BY <1>p, <2>1, <2>3
<1>6. CASE Discard(w)
  <2>1. FilesDelete(wid[w]) \/ FilesDeleteFails(wid[w])
    BY <1>6 DEF Discard
  <2>2. disk'[wid[w]].final \in {disk[wid[w]].final, "none"}
    BY ONLY <1>t, <1>f, <2>1, DeleteFrame, FilesTypeOK
  <2>3. wpc'[w] # "publish"
    BY <1>6, GoToFrame DEF Discard
  <2> QED BY ONLY <1>p, <2>2, <2>3
<1>7. CASE FailJob(w) \/ CompleteJob(w)
  BY <1>7, ReturnFrame DEF FailJob, CompleteJob
<1> QED BY <1>1, <1>2, <1>3, <1>4, <1>5, <1>6, <1>7 DEF ProcessStep

(* Every step of the system keeps final archives whole.                     *)
LEMMA WholeFilesStep ==
  ASSUME TypeOK, Ownership, WholeFiles, [Next]_vars
  PROVE  WholeFiles'
<1>t. \A v \in Workers : wpc[v] = "publish" => wid[v] \in Jobs
  BY PCs DEF TypeOK, ServiceTypeOK, WorkerTypeOK
<1>1. ASSUME UNCHANGED <<wpc, wid>>,
             \A k \in Jobs : /\ disk'[k].tmp \in {disk[k].tmp, "none"}
                             /\ disk'[k].final \in {disk[k].final, "none"}
      PROVE  WholeFiles'
  BY <1>t, <1>1 DEF WholeFiles, PublishedIsWhole, ReadyToPublish
<1>2. ASSUME UNCHANGED disk,
             \A v \in Workers : wpc'[v] = "publish" => wpc[v] = "publish" /\ wid'[v] = wid[v]
      PROVE  WholeFiles'
  BY <1>2 DEF WholeFiles, PublishedIsWhole, ReadyToPublish
<1>3. ASSUME NEW j \in Jobs, Handler(j) PROVE WholeFiles'
  BY <1>1, <1>3 DEF Handler, BeginCreate, VerifyFails, CreateRecord, Enqueue, RollBack
<1>4. ASSUME NEW w \in Workers, Dequeue(w) \/ WorkerStops(w) PROVE WholeFiles'
  BY <1>2, <1>4 DEF Dequeue, WorkerStops, TypeOK, ServiceTypeOK, WorkerTypeOK
<1>5. CASE Sweeper
  <2>1. ASSUME NEW j \in Jobs, RemoveArchive(j) \/ RemoveOrphan(j) PROVE WholeFiles'
    BY <1>1, <1>5, <2>1, DeleteFrame DEF Sweeper, RemoveArchive, RemoveOrphan, TypeOK
  <2>2. CASE UNCHANGED disk
    BY <1>1, <1>5, <2>2 DEF Sweeper
  <2> QED BY <1>5, <2>1, <2>2 DEF Sweeper, SweepStep, SweepList, SweepSelect, CleanupStops,
             SweepEnds, RevokeTokens, DropRecord, ListArchives, ListArchivesFails
<1>6. CASE Clock \/ UNCHANGED vars \/ StopAccepting \/ CancelShutdown \/ ShutdownTimeout
           \/ WorkersDone \/ CleanupDone \/ ServerShutdown \/ ServeFails
  BY <1>1, <1>6 DEF Clock, StopAccepting, CancelShutdown, ShutdownTimeout, WorkersDone, CleanupDone,
     ServerShutdown, ServeFails
<1>7. CASE PoolCloses \/ Crash \/ Boot
  BY <1>2, <1>7 DEF PoolCloses, Crash, ProcessEnds, Boot
<1> QED BY <1>3, <1>4, <1>5, <1>6, <1>7, WholeFilesProcess DEF Next, Shutdown, Worker

-------------------------------------------------------------------------------
(* SafetyInv is an invariant: every stored record, queue entry, archive and *)
(* token agrees with where its job is, at every step of every goroutine.    *)
THEOREM SafetyInvariant == Spec => [](TypeOK /\ SafetyInv)
<1>1. Init => SafetyInv
  <2> SUFFICES ASSUME Init PROVE SafetyInv
    OBVIOUS
  <2> USE DEF Init, StoreInit, TokensInit, FilesInit, ServiceInit, CleanupInit
  <2>1. OneOwner /\ FreshIDs
    BY NoneAssumption DEF OneOwner, FreshIDs, InQueue
  <2>2. RecordStage /\ NoLostJob /\ \A w \in Workers : WorkerStage(w)
    BY StageSets DEF RecordStage, NoLostJob, WorkerStage, InQueue, NoJob
  <2>3. PublishedIsWhole /\ ReadyToPublish
    BY DEF PublishedIsWhole, ReadyToPublish, NoFiles
  <2>4. TokenStage /\ DownIsQuiet
    BY DEF TokenStage, DownIsQuiet, NoJob
  <2> QED BY <2>1, <2>2, <2>3, <2>4 DEF SafetyInv
<1>2. TypeOK /\ SafetyInv /\ [Next]_vars => SafetyInv'
  <2> SUFFICES ASSUME TypeOK, SafetyInv, [Next]_vars PROVE SafetyInv'
    OBVIOUS
  <2>1. Ownership /\ Stages /\ WholeFiles
    BY DEF SafetyInv, Ownership, Stages, WholeFiles
  <2>2. Ownership' /\ Stages' /\ WholeFiles' /\ TokenStage' /\ DownIsQuiet'
    BY <2>1, OwnershipStep, StagesStep, WholeFilesStep, TokenStageStep, QuietStep DEF SafetyInv
  <2> QED BY <2>2 DEF SafetyInv, Ownership, Stages, WholeFiles
<1> QED BY <1>1, <1>2, TypeCorrect, PTL DEF Spec

(* No two workers ever run the same job, and none runs a job that is still  *)
(* queued: the temp file of a job has one writer.                           *)
THEOREM OneOwnerAlways == Spec => []OneOwner
<1>1. SafetyInv => OneOwner
  BY DEF SafetyInv
<1> QED BY <1>1, SafetyInvariant, PTL

(* Every accepted, unfinished job is in the queue or with a worker.         *)
THEOREM NoLostJobAlways == Spec => []NoLostJob
<1>1. SafetyInv => NoLostJob
  BY DEF SafetyInv
<1> QED BY <1>1, SafetyInvariant, PTL

(* The final path of a job never holds a partial archive, through failures, *)
(* concurrent sweeps, crashes and restarts.                                 *)
THEOREM PublishedIsWholeAlways == Spec => []PublishedIsWhole
<1>1. SafetyInv => PublishedIsWhole
  BY DEF SafetyInv
<1> QED BY <1>1, SafetyInvariant, PTL

(* The token in a completed record is accepted until the record's expiry,   *)
(* except between the sweeper's revoking the tokens and its dropping the    *)
(* record (cleanup.go removeJob).                                           *)
THEOREM TokenHonouredAlways == Spec => []TokenHonoured
<1>1. TypeOK /\ SafetyInv => TokenHonoured
  <2> SUFFICES ASSUME TypeOK, SafetyInv, NEW j \in Jobs, jobs[j].status = "completed",
                      now <= jobs[j].expiresAt, ~Dropping(j)
               PROVE  Validate(j, jobs[j].downloadToken)
    BY DEF TokenHonoured
  <2>1. jobs[j].downloadToken = j /\ Granted(tokens, j, jobs[j].expiresAt)
    BY DEF SafetyInv, TokenStage
  <2>2. now \in Int /\ jobs[j].expiresAt \in Int /\ \A e \in tokens : e.expiresAt \in Int
    BY DEF TypeOK, StoreTypeOK, TokensTypeOK, TokenEntry, Job
  <2> QED BY <2>1, <2>2 DEF Granted, Validate
<1> QED BY <1>1, SafetyInvariant, PTL

-------------------------------------------------------------------------------
(* Stored records and the workers' copies *)

Records == (\A j \in Jobs : RecordSound(jobs[j])) /\ \A w \in Workers : CopyInStep(w)

(* An ID without a record is sound: nothing is counted.                     *)
LEMMA NoJobSound == ASSUME now \in Nat PROVE RecordSound(NoJob) /\ NoJob.status = "none"
BY DEF RecordSound, NoJob, ZeroTime

(* After a step of worker w, it is enough to look at w and its own job.     *)
LEMMA RecordsOfOthers ==
  ASSUME TypeOK, Ownership, Records, NEW w \in Workers, wid[w] \in Jobs, now' = now,
         OnlyWorker(w), OnlyRecord(wid[w]),
         RecordSound(jobs'[wid[w]]),
         wpc'[w] \in Busy => wid'[w] = wid[w] /\ CopyInStep(w)'
  PROVE  Records'
<1>t. /\ wid \in [Workers -> Jobs \cup {None}]
      /\ \A v \in Workers : wpc[v] \in Busy <=> wid[v] # None
  BY DEF TypeOK, ServiceTypeOK, WorkerTypeOK
<1>1. ASSUME NEW j \in Jobs PROVE RecordSound(jobs[j])'
  <2>1. CASE j = wid[w]
    BY <2>1 DEF RecordSound
  <2>2. CASE j # wid[w]
    BY <2>2 DEF Records, RecordSound, OnlyRecord
  <2> QED BY <2>1, <2>2
<1>2. ASSUME NEW v \in Workers PROVE CopyInStep(v)'
  <2>1. CASE v = w
    BY <2>1 DEF CopyInStep
  <2>2. CASE v # w
    <3>1. wpc'[v] = wpc[v] /\ wid'[v] = wid[v] /\ cur'[v] = cur[v] /\ doneAt'[v] = doneAt[v]
      BY <2>2 DEF OnlyWorker
    <3>2. wpc[v] \in Busy => jobs'[wid[v]] = jobs[wid[v]]
      BY <1>t, <2>2, NoneAssumption DEF Ownership, OneOwner, OnlyRecord
    <3>3. CopyInStep(v)
      BY DEF Records
    <3> QED BY <3>1, <3>2, <3>3 DEF CopyInStep, RecordSound
  <2> QED BY <2>1, <2>2
<1> QED BY <1>1, <1>2 DEF Records

(* What a worker stores for its job: the fields of its copy, but for the    *)
(* status and, in completeJob, token and expiry.                            *)
LEMMA StatusFields ==
  ASSUME NEW r \in Job, NEW st \in JobStatus, NEW q, q = [r EXCEPT !.status = st]
  PROVE  /\ q.status = st /\ q.totalFiles = r.totalFiles /\ q.processedFiles = r.processedFiles
         /\ q.createdAt = r.createdAt /\ q.expiresAt = r.expiresAt
BY DEF Job

(* One more file keeps a record sound that still lacks one.                 *)
LEMMA NextFileSound ==
  ASSUME NEW r, NEW q, RecordSound(r), r.status = "processing",
         r.processedFiles \in Nat, r.totalFiles \in Nat, r.processedFiles < r.totalFiles,
         q.status = r.status, q.totalFiles = r.totalFiles,
         q.processedFiles = r.processedFiles + 1,
         q.createdAt = r.createdAt, q.expiresAt = r.expiresAt
  PROVE  RecordSound(q)
BY DEF RecordSound

(* The total of the manifest keeps a record sound that counts no file yet.  *)
LEMMA TotalSound ==
  ASSUME NEW r, NEW q, RecordSound(r), r.status \notin {"none", "completed"},
         r.processedFiles = 0, q.totalFiles \in Nat, q.status = r.status,
         q.processedFiles = r.processedFiles,
         q.createdAt = r.createdAt, q.expiresAt = r.expiresAt
  PROVE  RecordSound(q)
BY DEF RecordSound

(* Every step of ProcessJob keeps record and copy in agreement.             *)
LEMMA RecordsProcess ==
  ASSUME TypeOK, Ownership, Stages, TokenStage, Records, NEW w \in Workers, ProcessStep(w)
  PROVE  Records'
<1>t. /\ StoreTypeOK /\ WorkerTypeOK /\ cur[w] \in Job /\ doneAt[w] \in Nat /\ now \in Nat
      /\ wpc[w] \in Busy => wid[w] \in Jobs /\ jobs[wid[w]] \in Job
  BY DEF TypeOK, ServiceTypeOK, StoreTypeOK, WorkerTypeOK
<1>n. now' = now
  BY DEF ProcessStep, GetJob, MarkProcessing, BuildManifest, RecordTotals, CreateTemp,
         WriteFile, CloseArchive, GenerateFails, Publish, PublishFails, Discard,
         FailJob, IssueToken, CompleteJob
<1>f. wpc[w] \in Busy /\ wid[w] \in Jobs /\ OnlyWorker(w) /\ OnlyRecord(wid[w])
  BY ProcessFrame
<1>s. WorkerStage(w) /\ CopyInStep(w) /\ RecordSound(jobs[wid[w]])
  BY <1>f DEF Stages, Records
<1> SUFFICES /\ RecordSound(jobs'[wid[w]])
             /\ wpc'[w] \in Busy => wid'[w] = wid[w] /\ CopyInStep(w)'
  BY <1>n, <1>f, RecordsOfOthers
<1>k. UNCHANGED jobs => RecordSound(jobs'[wid[w]])
  BY <1>s DEF RecordSound
<1>e. RecordSound(cur[w])' <=> RecordSound(cur'[w])
  BY <1>n DEF RecordSound
<1>u. ASSUME NEW pc, NEW rec, Exists(wid[w]), UpdateOrReturn(w, pc, rec)
      PROVE  jobs'[wid[w]] = rec /\ wpc'[w] = pc /\ wid' = wid /\ cur'[w] = rec
  <2>1. StoreUpdate(wid[w], rec) /\ GoTo(w, pc, rec)
    BY <1>u DEF UpdateOrReturn
  <2>2. jobs'[wid[w]] = rec
    BY <1>t, <1>f, <1>u, <2>1, UpdateFrame DEF Exists
  <2>3. wpc'[w] = pc /\ wid' = wid /\ cur'[w] = rec
    BY <1>t, <2>1, GoToFrame
  <2> QED BY <2>2, <2>3
<1> USE <1>t, <1>n, <1>f, <1>s, <1>k, <1>e, PCs
<1>1. CASE GetJob(w)
  <2>1. CASE Exists(wid[w])
    <3>1. /\ jobs' = jobs /\ GoTo(w, "mark", jobs[wid[w]]) /\ jobs[wid[w]].status = "queued"
      BY <1>1, <2>1, StageSets DEF GetJob, Exists, WorkerStage
    <3>2. /\ wpc'[w] = "mark" /\ wid' = wid /\ cur'[w] = jobs[wid[w]]
      BY ONLY <1>t, <3>1, w \in Workers, GoToFrame
    <3> QED BY <3>1, <3>2 DEF CopyInStep, RecordSound
  <2>2. CASE ~Exists(wid[w])
    BY <1>1, <2>2, ReturnFrame DEF GetJob
  <2> QED BY <2>1, <2>2
<1>2. CASE MarkProcessing(w)
  <2> DEFINE q == [cur[w] EXCEPT !.status = "processing"]
  <2>0. /\ q.status = "processing" /\ q.totalFiles = cur[w].totalFiles
        /\ q.processedFiles = cur[w].processedFiles
        /\ q.createdAt = cur[w].createdAt /\ q.expiresAt = cur[w].expiresAt
    BY StatusFields DEF JobStatus
  <2>1. UpdateOrReturn(w, "manifest", q) /\ wpc[w] = "mark"
    BY <1>2 DEF MarkProcessing
  <2> HIDE DEF q
  <2>2. RecordSound(q) /\ q.processedFiles = 0
    BY <2>0, <2>1 DEF CopyInStep, RecordSound
  <2>3. CASE Exists(wid[w])
    <3>1. /\ jobs'[wid[w]] = q /\ wpc'[w] = "manifest" /\ wid' = wid /\ cur'[w] = q
      BY <1>u, <2>1, <2>3
    <3> QED BY <2>0, <2>2, <3>1 DEF CopyInStep, RecordSound
  <2>4. CASE ~Exists(wid[w])
    <3>1. jobs' = jobs /\ Return(w)
      BY <2>1, <2>4 DEF UpdateOrReturn, StoreUpdate
    <3> QED BY <3>1, ReturnFrame
  <2> QED BY <2>3, <2>4
<1>3. CASE BuildManifest(w)
  <2>0. wpc[w] = "manifest" /\ jobs' = jobs
    BY <1>3 DEF BuildManifest
  <2>1. CASE GoTo(w, "fail", cur[w])
    <3>1. wpc'[w] = "fail" /\ wid' = wid /\ cur'[w] = cur[w]
      BY <2>1, GoToFrame
    <3> QED BY <2>0, <3>1 DEF CopyInStep
  <2>2. ASSUME NEW n \in 0..MaxFiles, GoTo(w, "totals", [cur[w] EXCEPT !.totalFiles = n])
        PROVE  wpc'[w] \in Busy => wid'[w] = wid[w] /\ CopyInStep(w)'
    <3> DEFINE q == [cur[w] EXCEPT !.totalFiles = n]
    <3>1. /\ q.status = cur[w].status /\ q.totalFiles = n
          /\ q.processedFiles = cur[w].processedFiles
          /\ q.createdAt = cur[w].createdAt /\ q.expiresAt = cur[w].expiresAt
      BY DEF Job
    <3>2. wpc'[w] = "totals" /\ wid' = wid /\ cur'[w] = q
      BY <2>2, GoToFrame
    <3> HIDE DEF q
    <3>3. n \in Nat
      BY ONLY n \in 0..MaxFiles, ServiceAssumption
    <3>4. RecordSound(cur[w]) /\ cur[w].status \notin {"none", "completed"}
          /\ cur[w].processedFiles = 0
      BY <2>0 DEF CopyInStep
    <3>5. RecordSound(q)
      BY <3>1, <3>3, <3>4, TotalSound
    <3> QED BY <2>0, <3>1, <3>2, <3>4, <3>5 DEF CopyInStep
  <2> QED BY <1>3, <2>0, <2>1, <2>2 DEF BuildManifest
<1>4. CASE RecordTotals(w)
  <2>1. PICK pc \in {"create", "fail"} : UpdateOrReturn(w, pc, cur[w])
    BY <1>4 DEF RecordTotals
  <2>2. CASE Exists(wid[w])
    <3>1. /\ jobs'[wid[w]] = cur[w] /\ wpc'[w] = pc /\ wid' = wid /\ cur'[w] = cur[w]
      BY <1>u, <2>1, <2>2
    <3> QED BY <1>4, <3>1 DEF RecordTotals, CopyInStep, RecordSound
  <2>3. CASE ~Exists(wid[w])
    <3>1. jobs' = jobs /\ Return(w)
      BY <2>1, <2>3 DEF UpdateOrReturn, StoreUpdate
    <3> QED BY <3>1, ReturnFrame
  <2> QED BY <2>2, <2>3
<1>5. CASE CreateTemp(w) \/ GenerateFails(w) \/ PublishFails(w) \/ Discard(w) \/ IssueToken(w)
  <2>1. /\ jobs' = jobs
        /\ \E pc \in {"write", "discard", "fail", "finish"} :
             /\ GoTo(w, pc, cur[w])
             /\ pc = "finish" => wpc[w] = "issue"
    BY <1>5 DEF CreateTemp, GenerateFails, PublishFails, Discard, IssueToken
  <2>2. wpc[w] # "get"
    BY <1>5 DEF CreateTemp, GenerateFails, PublishFails, Discard, IssueToken
  <2>3. PICK pc \in {"write", "discard", "fail", "finish"} :
          /\ wpc'[w] = pc /\ wid' = wid /\ cur'[w] = cur[w] /\ doneAt' = doneAt
          /\ pc = "finish" => wpc[w] = "issue"
    BY <2>1, GoToFrame
  <2> QED BY <2>1, <2>2, <2>3 DEF CopyInStep
<1>6. CASE WriteFile(w)
  <2> DEFINE q == [cur[w] EXCEPT !.processedFiles = @ + 1]
  <2>0. /\ q.status = cur[w].status /\ q.totalFiles = cur[w].totalFiles
        /\ q.processedFiles = cur[w].processedFiles + 1
        /\ q.createdAt = cur[w].createdAt /\ q.expiresAt = cur[w].expiresAt
    BY DEF Job
  <2>1. /\ StoreUpdate(wid[w], q) /\ GoTo(w, "write", q) /\ wpc[w] = "write"
        /\ cur[w].processedFiles < cur[w].totalFiles
    BY <1>6 DEF WriteFile
  <2> HIDE DEF q
  <2>2. cur[w].processedFiles \in Nat /\ cur[w].totalFiles \in Nat /\ cur[w].status = "processing"
    BY <2>1, StageSets DEF Job, WorkerStage
  <2>3. RecordSound(q)
    <3>1. RecordSound(cur[w])
      BY <2>1 DEF CopyInStep
    <3> QED BY <2>0, <2>1, <2>2, <3>1, NextFileSound
  <2>4. /\ wpc'[w] = "write" /\ wid' = wid /\ cur'[w] = q
        /\ jobs[wid[w]].status = "none" => jobs'[wid[w]] = jobs[wid[w]]
        /\ jobs[wid[w]].status # "none" => jobs'[wid[w]] = q
    <3>1. wpc'[w] = "write" /\ wid' = wid /\ cur'[w] = q
      BY <2>1, GoToFrame
    <3>2. /\ jobs[wid[w]].status = "none" => jobs'[wid[w]] = jobs[wid[w]]
          /\ jobs[wid[w]].status # "none" => jobs'[wid[w]] = q
      BY <2>1, UpdateFrame
    <3> QED BY <3>1, <3>2
  <2> QED BY <2>0, <2>2, <2>3, <2>4 DEF CopyInStep
<1>7. CASE CloseArchive(w)
  <2>1. /\ jobs' = jobs /\ wpc'[w] = "publish" /\ wid' = wid /\ cur'[w] = cur[w]
        /\ cur[w].processedFiles = cur[w].totalFiles /\ wpc[w] = "write"
    BY <1>7, GoToFrame DEF CloseArchive
  <2> QED BY <2>1 DEF CopyInStep
<1>8. CASE Publish(w)
  <2>1. /\ jobs' = jobs /\ wpc'[w] = "issue" /\ wid' = wid /\ cur' = cur
        /\ wpc[w] = "publish" /\ doneAt'[w] = now
    BY <1>8 DEF Publish, WorkerTypeOK
  <2> QED BY <2>1 DEF CopyInStep, RecordSound
<1>9. CASE FailJob(w)
  <2> DEFINE q == [cur[w] EXCEPT !.status = "failed"]
  <2>0. /\ q.status = "failed" /\ q.totalFiles = cur[w].totalFiles
        /\ q.processedFiles = cur[w].processedFiles
        /\ q.createdAt = cur[w].createdAt /\ q.expiresAt = cur[w].expiresAt
    BY StatusFields DEF JobStatus
  <2>1. StoreUpdate(wid[w], q) /\ wpc[w] = "fail" /\ wpc'[w] = "idle"
    BY <1>9, ReturnFrame DEF FailJob
  <2> HIDE DEF q
  <2>2. RecordSound(q)
    BY <2>0, <2>1 DEF CopyInStep, RecordSound
  <2> QED BY <2>1, <2>2, UpdateFrame
<1>10. CASE CompleteJob(w)
  <2>0. /\ CompletedJob(w).status = "completed"
        /\ CompletedJob(w).totalFiles = cur[w].totalFiles
        /\ CompletedJob(w).processedFiles = cur[w].processedFiles
        /\ CompletedJob(w).createdAt = cur[w].createdAt
    BY DEF Job, CompletedJob
  <2>1. StoreUpdate(wid[w], CompletedJob(w)) /\ wpc[w] = "finish" /\ wpc'[w] = "idle"
    BY <1>10, ReturnFrame DEF CompleteJob
  <2>2. RecordSound(CompletedJob(w))
    BY <2>0, <2>1 DEF CopyInStep, RecordSound, Job
  <2> QED BY <2>1, <2>2, UpdateFrame
<1> QED BY <1>1, <1>2, <1>3, <1>4, <1>5, <1>6, <1>7, <1>8, <1>9, <1>10 DEF ProcessStep

(* Steps that move no worker inside ProcessJob and at most remove records.  *)
LEMMA RecordsKept ==
  ASSUME TypeOK, Records, now' \in Nat, now' >= now,
         \A v \in Workers : wpc'[v] \in Busy \ {"get"} =>
           wpc'[v] = wpc[v] /\ wid'[v] = wid[v] /\ cur'[v] = cur[v] /\ doneAt'[v] = doneAt[v],
         \A j \in Jobs : jobs'[j] = jobs[j] \/ jobs'[j] = NoJob
  PROVE  Records'
<1>t. /\ now \in Nat /\ jobs \in [Jobs -> Job] /\ cur \in [Workers -> Job]
      /\ \A v \in Workers : wpc[v] \in Busy => wid[v] \in Jobs
  BY DEF TypeOK, StoreTypeOK, ServiceTypeOK, WorkerTypeOK
<1>0. ASSUME NEW r \in Job, RecordSound(r) PROVE RecordSound(r)'
  <2>1. r.createdAt \in Nat /\ r.createdAt <= now
    BY <1>0 DEF RecordSound, Job
  <2>2. r.createdAt <= now'
    BY ONLY <1>t, <2>1, now' \in Nat, now' >= now
  <2> QED BY ONLY <1>0, <2>2 DEF RecordSound
<1>n. RecordSound(NoJob)' /\ NoJob.status = "none"
  BY <1>0, <1>t, NoJobSound, NoJobType
<1>1. ASSUME NEW j \in Jobs PROVE RecordSound(jobs[j])'
  <2>1. CASE jobs'[j] = jobs[j]
    <3>1. PICK r \in Job : r = jobs[j] /\ RecordSound(r)
      BY <1>t DEF Records
    <3>2. RecordSound(r)' /\ jobs'[j] = r
      BY <1>0, <2>1, <3>1
    <3> QED BY <3>2 DEF RecordSound
  <2>2. CASE jobs'[j] = NoJob
    BY <1>n, <2>2 DEF RecordSound
  <2> QED BY <2>1, <2>2
<1>2. ASSUME NEW v \in Workers, wpc'[v] \in Busy \ {"get"} PROVE CopyInStep(v)'
  <2>1. /\ wpc'[v] = wpc[v] /\ wid'[v] = wid[v] /\ cur'[v] = cur[v] /\ doneAt'[v] = doneAt[v]
        /\ wid[v] \in Jobs /\ CopyInStep(v)
    BY <1>t, <1>2 DEF Records
  <2>2. jobs'[wid[v]] = jobs[wid[v]] \/ jobs'[wid[v]].status = "none"
    BY <1>n, <2>1
  <2>3. RecordSound(cur[v])'
    BY <1>0, <1>t, <1>2, <2>1 DEF CopyInStep, RecordSound
  <2> QED BY <1>2, <2>1, <2>2, <2>3 DEF CopyInStep
<1> QED BY <1>1, <1>2 DEF Records, CopyInStep

(* Every step of the system keeps records and copies in agreement.          *)
LEMMA RecordsStep ==
  ASSUME TypeOK, Ownership, Stages, TokenStage, Records, [Next]_vars
  PROVE  Records'
<1>t. /\ now \in Nat /\ jobs \in [Jobs -> Job] /\ wpc \in [Workers -> WorkerPC]
      /\ wid \in [Workers -> Jobs \cup {None}]
      /\ \A v \in Workers : wpc[v] \in Busy <=> wid[v] # None
  BY DEF TypeOK, StoreTypeOK, ServiceTypeOK, WorkerTypeOK
<1>1. ASSUME NEW j \in Jobs, CreateRecord(j) PROVE Records'
  <2>1. /\ jobs' = [jobs EXCEPT ![j] = QueuedJob] /\ UNCHANGED <<now, wpc, wid, cur, doneAt>>
        /\ req[j] # "accepted"
    BY <1>1 DEF CreateRecord, StoreCreate
  <2>2. RecordSound(QueuedJob)
    BY <1>t DEF QueuedJob, NoJob, RecordSound, ZeroTime
  <2>3. \A v \in Workers : wpc[v] \in Busy => jobs'[wid[v]] = jobs[wid[v]]
    BY <1>t, <2>1 DEF Ownership, FreshIDs
  <2>4. ASSUME NEW k \in Jobs PROVE RecordSound(jobs[k])'
    <3>1. jobs'[k] = QueuedJob \/ jobs'[k] = jobs[k]
      BY <1>t, <2>1
    <3>2. RecordSound(jobs'[k])
      BY <2>2, <3>1 DEF Records
    <3> QED BY <2>1, <3>2 DEF RecordSound
  <2>5. ASSUME NEW v \in Workers PROVE CopyInStep(v)'
    <3>1. /\ wpc'[v] = wpc[v] /\ wid'[v] = wid[v] /\ cur'[v] = cur[v] /\ doneAt'[v] = doneAt[v]
          /\ CopyInStep(v) /\ (wpc[v] \in Busy => jobs'[wid[v]] = jobs[wid[v]])
      BY <2>1, <2>3 DEF Records
    <3>2. RecordSound(cur[v])' <=> RecordSound(cur[v])
      BY <2>1 DEF RecordSound
    <3> QED BY <3>1, <3>2 DEF CopyInStep
  <2> QED BY <2>4, <2>5 DEF Records
<1>2. ASSUME NEW j \in Jobs, Handler(j), ~CreateRecord(j) PROVE Records'
  <2>1. UNCHANGED <<now, workerVars>>
    BY <1>2 DEF Handler, BeginCreate, VerifyFails, CreateRecord, Enqueue, RollBack
  <2>2. \A k \in Jobs : jobs'[k] = jobs[k] \/ jobs'[k] = NoJob
    BY <1>t, <1>2 DEF Handler, BeginCreate, VerifyFails, Enqueue, RollBack, StoreDelete
  <2>3. now' \in Nat /\ now' >= now
    BY <1>t, <2>1
  <2> QED BY <2>1, <2>2, <2>3, RecordsKept
<1>3. ASSUME NEW w \in Workers, Dequeue(w) \/ WorkerStops(w) PROVE Records'
  <2>1. /\ UNCHANGED <<now, jobs, cur, doneAt>>
        /\ \A v \in Workers : wpc'[v] \in Busy \ {"get"} => wpc'[v] = wpc[v] /\ wid'[v] = wid[v]
    <3>1. UNCHANGED <<now, jobs, cur, doneAt>>
      BY <1>3 DEF Dequeue, WorkerStops
    <3>2. /\ \A v \in Workers \ {w} : wpc'[v] = wpc[v] /\ wid'[v] = wid[v]
          /\ wpc'[w] \in {"get", "stopped"}
      BY <1>t, <1>3 DEF Dequeue, WorkerStops
    <3> QED BY <3>1, <3>2, PCs
  <2>2. now' \in Nat /\ now' >= now
    BY <1>t, <2>1
  <2> QED BY <2>1, <2>2, RecordsKept
<1>4. CASE Sweeper
  <2>1. \A j \in Jobs : jobs'[j] = jobs[j] \/ jobs'[j] = NoJob
    <3>1. CASE DropRecord
      BY <1>t, <3>1 DEF DropRecord, StoreDelete
    <3>2. CASE ~DropRecord
      BY <1>4, <3>2 DEF Sweeper, SweepStep, SweepList, SweepSelect, CleanupStops, SweepEnds,
         RevokeTokens, ListArchives, ListArchivesFails, RemoveArchive, RemoveOrphan
    <3> QED BY <3>1, <3>2
  <2>2. UNCHANGED <<now, workerVars>>
    BY <1>4 DEF Sweeper, SweepStep, SweepList, SweepSelect, CleanupStops, SweepEnds, RevokeTokens,
       DropRecord, ListArchives, ListArchivesFails, RemoveArchive, RemoveOrphan
  <2>3. now' \in Nat /\ now' >= now
    BY <1>t, <2>2
  <2> QED BY <2>1, <2>2, <2>3, RecordsKept
<1>5. CASE Clock
  <2>1. now' \in Nat /\ now' >= now /\ UNCHANGED <<jobs, workerVars>>
    BY <1>t, <1>5 DEF Clock, Tick
  <2> QED BY <2>1, RecordsKept
<1>6. CASE UNCHANGED vars \/ StopAccepting \/ CancelShutdown \/ ShutdownTimeout
           \/ WorkersDone \/ CleanupDone \/ ServerShutdown \/ ServeFails
  <2>1. UNCHANGED <<now, jobs, workerVars>>
    BY <1>6 DEF StopAccepting, CancelShutdown, ShutdownTimeout, WorkersDone, CleanupDone,
       ServerShutdown, ServeFails
  <2>2. now' \in Nat /\ now' >= now
    BY <1>t, <2>1
  <2> QED BY <2>1, <2>2, RecordsKept
<1>7. CASE PoolCloses \/ Crash \/ Boot
  <2>1. /\ now' = now /\ \A v \in Workers : wpc'[v] \notin Busy
        /\ \A j \in Jobs : jobs'[j] = jobs[j] \/ jobs'[j] = NoJob
    BY <1>7, PCs DEF PoolCloses, Crash, ProcessEnds, Boot
  <2>2. now' \in Nat /\ now' >= now
    BY <1>t, <2>1
  <2> QED BY <2>1, <2>2, RecordsKept
<1> QED BY <1>1, <1>2, <1>3, <1>4, <1>5, <1>6, <1>7, RecordsProcess
        DEF Next, Shutdown, Handler, Worker

-------------------------------------------------------------------------------
(* What a step of ProcessJob stores counts no fewer files than the worker's *)
(* copy, and dates the job as the copy does until completeJob sets the      *)
(* expiry.                                                                  *)
LEMMA StoredByWorker ==
  ASSUME TypeOK, NEW w \in Workers, ProcessStep(w), jobs'[wid[w]] # jobs[wid[w]]
  PROVE  /\ wpc[w] \in Busy \ {"get"}
         /\ jobs'[wid[w]].processedFiles >= cur[w].processedFiles
         /\ jobs'[wid[w]].createdAt = cur[w].createdAt
         /\ \/ jobs'[wid[w]].expiresAt = cur[w].expiresAt
            \/ wpc[w] = "finish" /\ jobs'[wid[w]].expiresAt = doneAt[w] + Expiry
<1>t. /\ StoreTypeOK /\ cur[w] \in Job /\ doneAt[w] \in Nat /\ cur[w].processedFiles \in Nat
  BY DEF TypeOK, ServiceTypeOK, WorkerTypeOK, Job
<1>f. wid[w] \in Jobs /\ wpc[w] \in Busy
  BY ProcessFrame
<1>1. ASSUME NEW rec, StoreUpdate(wid[w], rec) PROVE jobs'[wid[w]] = rec
  BY <1>t, <1>f, <1>1, UpdateFrame
<1>2. CASE MarkProcessing(w) \/ FailJob(w)
  <2>1. PICK st \in JobStatus : StoreUpdate(wid[w], [cur[w] EXCEPT !.status = st])
    BY <1>2 DEF MarkProcessing, FailJob, UpdateOrReturn, JobStatus
  <2>2. wpc[w] # "get"
    BY <1>2 DEF MarkProcessing, FailJob
  <2> QED BY <1>t, <1>f, <1>1, <2>1, <2>2, StatusFields
<1>3. CASE RecordTotals(w)
  <2>1. StoreUpdate(wid[w], cur[w]) /\ wpc[w] = "totals"
    BY <1>3 DEF RecordTotals, UpdateOrReturn
  <2>2. jobs'[wid[w]] = cur[w]
    BY <1>1, <2>1
  <2> QED BY ONLY <1>t, <1>f, <2>1, <2>2
<1>4. CASE WriteFile(w)
  <2> DEFINE q == [cur[w] EXCEPT !.processedFiles = @ + 1]
  <2>1. /\ q.processedFiles = cur[w].processedFiles + 1
        /\ q.createdAt = cur[w].createdAt /\ q.expiresAt = cur[w].expiresAt
    BY <1>t DEF Job
  <2>2. jobs'[wid[w]] = q /\ wpc[w] # "get"
    BY <1>1, <1>4 DEF WriteFile
  <2> HIDE DEF q
  <2> QED BY ONLY <1>t, <1>f, <2>1, <2>2
<1>5. CASE CompleteJob(w)
  <2>1. /\ CompletedJob(w).processedFiles = cur[w].processedFiles
        /\ CompletedJob(w).createdAt = cur[w].createdAt
        /\ CompletedJob(w).expiresAt = doneAt[w] + Expiry
    BY <1>t DEF Job, CompletedJob
  <2>2. jobs'[wid[w]] = CompletedJob(w) /\ wpc[w] = "finish"
    BY <1>1, <1>5 DEF CompleteJob
  <2> QED BY ONLY <1>t, <1>f, <2>1, <2>2
<1>6. CASE GetJob(w) \/ BuildManifest(w) \/ CreateTemp(w) \/ CloseArchive(w) \/ GenerateFails(w)
           \/ Publish(w) \/ PublishFails(w) \/ Discard(w) \/ IssueToken(w)
  BY <1>6 DEF GetJob, BuildManifest, CreateTemp, CloseArchive, GenerateFails, Publish,
     PublishFails, Discard, IssueToken
<1> QED BY <1>2, <1>3, <1>4, <1>5, <1>6 DEF ProcessStep

(* A deadline counted from a later moment is not nearer.                    *)
LEMMA LaterDeadline ==
  ASSUME NEW a \in Nat, NEW b \in Nat, NEW e \in Nat, a <= b
  PROVE  a + e >= a + e /\ b + e >= a + e
OBVIOUS

(* One step moves no record back. *)
Advances ==
  \A j \in Jobs : Exists(j) /\ jobs'[j].status # "none" =>
    /\ jobs'[j].processedFiles >= jobs[j].processedFiles
    /\ Deadline(jobs'[j]) >= Deadline(jobs[j])

(* No step of the system moves a record back.                               *)
LEMMA AdvanceStep ==
  ASSUME TypeOK, Ownership, Stages, Records, [Next]_vars
  PROVE  Advances
<1>t. jobs \in [Jobs -> Job] /\ \A j \in Jobs : jobs[j].processedFiles \in Nat /\ Deadline(jobs[j]) \in Int
  BY TimeAssumption DEF TypeOK, StoreTypeOK, Job, Deadline
<1>0. ASSUME \A j \in Jobs : jobs'[j] = jobs[j] \/ jobs'[j].status = "none" \/ ~Exists(j)
      PROVE  Advances
  BY <1>0, <1>t DEF Advances
<1>1. ASSUME NEW w \in Workers, ProcessStep(w) PROVE Advances
  <2>1. /\ wid[w] \in Jobs /\ wpc[w] \in Busy /\ OnlyRecord(wid[w])
        /\ cur[w] \in Job /\ doneAt[w] \in Nat
    BY <1>1, ProcessFrame DEF TypeOK, ServiceTypeOK, WorkerTypeOK
  <2>2. ASSUME jobs'[wid[w]] # jobs[wid[w]], Exists(wid[w])
        PROVE  /\ jobs'[wid[w]].processedFiles >= jobs[wid[w]].processedFiles
               /\ Deadline(jobs'[wid[w]]) >= Deadline(jobs[wid[w]])
    <3>1. CopyInStep(w) /\ RecordSound(jobs[wid[w]]) /\ jobs[wid[w]].status # "completed"
      BY <2>1, StageSets DEF Records, Stages, WorkerStage
    <3>2. /\ jobs[wid[w]].processedFiles = cur[w].processedFiles
          /\ jobs[wid[w]].createdAt = cur[w].createdAt
          /\ jobs[wid[w]].expiresAt = ZeroTime /\ cur[w].expiresAt = ZeroTime
          /\ wpc[w] = "finish" => cur[w].createdAt <= doneAt[w]
      BY <1>1, <2>2, <3>1, StoredByWorker DEF CopyInStep, RecordSound, Exists
    <3>3. cur[w].createdAt \in Nat /\ cur[w].processedFiles \in Nat
      BY <2>1 DEF Job
    <3>4. /\ jobs'[wid[w]].processedFiles >= cur[w].processedFiles
          /\ jobs'[wid[w]].createdAt = cur[w].createdAt
          /\ \/ jobs'[wid[w]].expiresAt = cur[w].expiresAt
             \/ wpc[w] = "finish" /\ jobs'[wid[w]].expiresAt = doneAt[w] + Expiry
      BY <1>1, <2>2, StoredByWorker
    <3>5. Deadline(jobs[wid[w]]) = cur[w].createdAt + Expiry
      BY <3>2 DEF Deadline
    <3>p. jobs'[wid[w]].processedFiles >= jobs[wid[w]].processedFiles
      BY <3>2, <3>4
    <3>6. CASE jobs'[wid[w]].expiresAt = ZeroTime
      <4>1. Deadline(jobs'[wid[w]]) = cur[w].createdAt + Expiry
        BY <3>4, <3>6 DEF Deadline
      <4>2. cur[w].createdAt <= cur[w].createdAt
        BY <3>3
      <4> QED BY <3>3, <3>5, <3>p, <4>1, <4>2, LaterDeadline, TimeAssumption
    <3>7. CASE jobs'[wid[w]].expiresAt # ZeroTime
      <4>1. Deadline(jobs'[wid[w]]) = doneAt[w] + Expiry /\ cur[w].createdAt <= doneAt[w]
        BY <3>2, <3>4, <3>7 DEF Deadline
      <4> QED BY <2>1, <3>3, <3>5, <3>p, <4>1, LaterDeadline, TimeAssumption
    <3> QED BY <3>6, <3>7
  <2>3. ASSUME NEW j \in Jobs, Exists(j)
        PROVE  /\ jobs'[j].processedFiles >= jobs[j].processedFiles
               /\ Deadline(jobs'[j]) >= Deadline(jobs[j])
    <3>1. CASE jobs'[j] = jobs[j]
      BY <1>t, <3>1
    <3>2. CASE jobs'[j] # jobs[j]
      <4>1. j = wid[w]
        BY <2>1, <3>2 DEF OnlyRecord
      <4> QED BY <2>2, <2>3, <3>2, <4>1
    <3> QED BY <3>1, <3>2
  <2> QED BY <2>3 DEF Advances
<1>2. ASSUME NEW j \in Jobs, Handler(j) PROVE Advances
  <2>1. CASE CreateRecord(j)
    <3>1. ~Exists(j) /\ \A k \in Jobs \ {j} : jobs'[k] = jobs[k]
      BY <1>t, <2>1 DEF CreateRecord, StoreCreate, Stages, RecordStage, Exists
    <3> QED BY <1>0, <3>1
  <2>2. CASE RollBack(j)
    <3>1. jobs'[j].status = "none" /\ \A k \in Jobs \ {j} : jobs'[k] = jobs[k]
      BY <1>t, <2>2 DEF RollBack, StoreDelete, NoJob
    <3> QED BY <1>0, <3>1
  <2>3. CASE BeginCreate(j) \/ VerifyFails(j) \/ Enqueue(j)
    <3>1. jobs' = jobs
      BY <2>3 DEF BeginCreate, VerifyFails, Enqueue
    <3> QED BY <1>0, <3>1
  <2> QED BY <1>2, <2>1, <2>2, <2>3 DEF Handler
<1>3. CASE Sweeper
  <2>1. CASE DropRecord
    <3>1. \A k \in Jobs : jobs'[k] = jobs[k] \/ jobs'[k].status = "none"
      BY <1>t, <2>1 DEF DropRecord, StoreDelete, NoJob
    <3> QED BY <1>0, <3>1
  <2>2. CASE ~DropRecord
    <3>1. jobs' = jobs
      BY <1>3, <2>2 DEF Sweeper, SweepStep, SweepList, SweepSelect, CleanupStops, SweepEnds,
         RevokeTokens, ListArchives, ListArchivesFails, RemoveArchive, RemoveOrphan
    <3> QED BY <1>0, <3>1
  <2> QED BY <2>1, <2>2
<1>4. CASE PoolCloses \/ Crash
  <2>1. \A k \in Jobs : jobs'[k].status = "none"
    BY <1>4 DEF PoolCloses, Crash, ProcessEnds, NoJob
  <2> QED BY <1>0, <2>1
<1>5. CASE UNCHANGED vars \/ Clock \/ StopAccepting \/ CancelShutdown \/ ShutdownTimeout \/ WorkersDone
           \/ CleanupDone \/ ServerShutdown \/ ServeFails \/ Boot
  BY <1>0, <1>5 DEF Clock, StopAccepting, CancelShutdown, ShutdownTimeout, WorkersDone,
     CleanupDone, ServerShutdown, ServeFails, Boot
<1>6. ASSUME NEW w \in Workers, Dequeue(w) \/ WorkerStops(w) PROVE Advances
  BY <1>0, <1>6 DEF Dequeue, WorkerStops
<1> QED BY <1>1, <1>2, <1>3, <1>4, <1>5, <1>6 DEF Next, Shutdown, Worker
================================================================================
