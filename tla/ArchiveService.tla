---------------------------- MODULE ArchiveService ----------------------------
(***************************************************************************)
(* internal/service/archive.go and internal/worker/worker.go: CreateJob,   *)
(* run by HTTP handlers, puts job IDs on a bounded queue; each worker of   *)
(* the pool takes one ID at a time and runs ProcessJob on it. Every access *)
(* to shared state (job store, token map, disk, queue) is a step of its    *)
(* own; between two steps any other goroutine may run.                     *)
(***************************************************************************)
EXTENDS JobStore, DownloadTokens, ArchiveFiles, Sequences

CONSTANTS
  QueueSize,   \* cfg.Archive.QueueSize
  MaxFiles     \* bound on the files of one manifest

ASSUME ServiceAssumption == QueueSize \in Nat \ {0} /\ MaxFiles \in Nat

VARIABLES
  accepting,   \* s.accepting
  queue,       \* s.queue, a buffered channel of job IDs
  req,         \* progress of the CreateJob call that draws this job ID
  wpc,         \* where each worker is in loop and ProcessJob
  wid,         \* jobID of the running ProcessJob
  cur,         \* its j: the worker's own copy of the job
  doneAt       \* completeJob's now

serviceVars == <<accepting, queue, req, wpc, wid, cur, doneAt>>
workerVars == <<wpc, wid, cur, doneAt>>

(* idle: not called; checked: past the accepting check; recorded: in the    *)
(* store; accepted: 202 sent; rejected: rolled back or cut off.             *)
ReqState == {"idle", "checked", "recorded", "accepted", "rejected"}

Busy == {"get", "mark", "manifest", "totals", "create", "write", "publish",
         "discard", "fail", "issue", "finish"}
WorkerPC == Busy \cup {"idle", "stopped"}

ServiceInit ==
  /\ accepting = TRUE
  /\ queue = <<>>
  /\ req = [j \in Jobs |-> "idle"]
  /\ wpc = [w \in Workers |-> "idle"]
  /\ wid = [w \in Workers |-> None]
  /\ cur = [w \in Workers |-> NoJob]
  /\ doneAt = [w \in Workers |-> 0]

(* A worker has a job exactly while it runs ProcessJob. *)
WorkerTypeOK ==
  /\ wpc \in [Workers -> WorkerPC]
  /\ wid \in [Workers -> Jobs \cup {None}]
  /\ cur \in [Workers -> Job]
  /\ doneAt \in [Workers -> Nat]
  /\ \A w \in Workers : wpc[w] \in Busy <=> wid[w] # None

ServiceTypeOK ==
  /\ accepting \in BOOLEAN
  /\ queue \in Seq(Jobs)
  /\ req \in [Jobs -> ReqState]
  /\ WorkerTypeOK

-------------------------------------------------------------------------------
(* CreateJob. A call is named by the ID it will draw, so IDs are never      *)
(* drawn twice. Calls refused before the ID is drawn leave no trace.        *)

handlerFrame == <<workerVars, accepting, tokens, disk, faults, now, ctxDone>>

(* s.accepting.Load() and the validation of the request. *)
BeginCreate(j) ==
  /\ accepting
  /\ req[j] = "idle"
  /\ req' = [req EXCEPT ![j] = "checked"]
  /\ UNCHANGED <<jobs, queue, handlerFrame>>

(* FolderExists fails or finds no folder. *)
VerifyFails(j) ==
  /\ req[j] = "checked"
  /\ req' = [req EXCEPT ![j] = "idle"]
  /\ UNCHANGED <<jobs, queue, handlerFrame>>

QueuedJob == [NoJob EXCEPT !.status = "queued", !.createdAt = now]

CreateRecord(j) ==
  /\ req[j] = "checked"
  /\ StoreCreate(j, QueuedJob)
  /\ req' = [req EXCEPT ![j] = "recorded"]
  /\ UNCHANGED <<queue, handlerFrame>>

(* select { case s.queue <- j.ID: } *)
Enqueue(j) ==
  /\ req[j] = "recorded"
  /\ Len(queue) < QueueSize
  /\ queue' = Append(queue, j)
  /\ req' = [req EXCEPT ![j] = "accepted"]
  /\ UNCHANGED <<jobs, handlerFrame>>

(* Mutant: the record stays in the store. *)
RollBackKeepsRecord(j) ==
  /\ req[j] = "recorded"
  /\ Len(queue) = QueueSize
  /\ req' = [req EXCEPT ![j] = "rejected"]
  /\ UNCHANGED <<jobs, queue, handlerFrame>>

(* select { default: } with the record rolled back; ErrQueueFull. *)
RollBack(j) ==
  /\ req[j] = "recorded"
  /\ Len(queue) = QueueSize
  /\ StoreDelete(j)
  /\ req' = [req EXCEPT ![j] = "rejected"]
  /\ UNCHANGED <<queue, handlerFrame>>

-------------------------------------------------------------------------------
(* Pool.loop: a select between the shutdown context and the queue, which Go *)
(* resolves at random when both are ready.                                  *)

workerFrame == <<accepting, req, now, ctxDone>>

(* Mutant: the ID stays in the queue. *)
DequeuePeek(w) ==
  /\ wpc[w] = "idle"
  /\ queue # <<>>
  /\ wpc' = [wpc EXCEPT ![w] = "get"]
  /\ wid' = [wid EXCEPT ![w] = Head(queue)]
  /\ UNCHANGED <<queue, cur, doneAt, jobs, tokens, disk, faults, workerFrame>>

Dequeue(w) ==
  /\ wpc[w] = "idle"
  /\ queue # <<>>
  /\ queue' = Tail(queue)
  /\ wpc' = [wpc EXCEPT ![w] = "get"]
  /\ wid' = [wid EXCEPT ![w] = Head(queue)]
  /\ UNCHANGED <<cur, doneAt, jobs, tokens, disk, faults, workerFrame>>

(* Mutant: the shutdown context also ends a running ProcessJob. *)
WorkerAbandons(w) ==
  /\ wpc[w] \notin {"stopped"}
  /\ ctxDone
  /\ wpc' = [wpc EXCEPT ![w] = "stopped"]
  /\ wid' = [wid EXCEPT ![w] = None]
  /\ UNCHANGED <<queue, cur, doneAt, jobs, tokens, disk, faults, workerFrame>>

WorkerStops(w) ==
  /\ wpc[w] = "idle"
  /\ ctxDone
  /\ wpc' = [wpc EXCEPT ![w] = "stopped"]
  /\ UNCHANGED <<queue, wid, cur, doneAt, jobs, tokens, disk, faults, workerFrame>>

(* Mutant: the job ID outlives ProcessJob. *)
ReturnKeepsID(w) ==
  /\ wpc' = [wpc EXCEPT ![w] = "idle"]
  /\ cur' = [cur EXCEPT ![w] = NoJob]
  /\ doneAt' = [doneAt EXCEPT ![w] = 0]
  /\ UNCHANGED wid

(* ProcessJob returns to the loop. *)
Return(w) ==
  /\ wpc' = [wpc EXCEPT ![w] = "idle"]
  /\ wid' = [wid EXCEPT ![w] = None]
  /\ cur' = [cur EXCEPT ![w] = NoJob]
  /\ doneAt' = [doneAt EXCEPT ![w] = 0]

(* The worker goes on with its copy j = rec. *)
GoTo(w, pc, rec) ==
  /\ wpc' = [wpc EXCEPT ![w] = pc]
  /\ cur' = [cur EXCEPT ![w] = rec]
  /\ UNCHANGED <<wid, doneAt>>

(* s.jobs.Update(ctx, j) with j = rec: on ErrNotFound ProcessJob returns,   *)
(* otherwise it goes on at pc.                                              *)
UpdateOrReturn(w, pc, rec) ==
  /\ StoreUpdate(wid[w], rec)
  /\ IF Exists(wid[w]) THEN GoTo(w, pc, rec) ELSE Return(w)

-------------------------------------------------------------------------------
(* ProcessJob *)

GetJob(w) ==
  /\ wpc[w] = "get"
  /\ IF Exists(wid[w]) THEN GoTo(w, "mark", jobs[wid[w]]) ELSE Return(w)
  /\ UNCHANGED <<queue, jobs, tokens, disk, faults, workerFrame>>

MarkProcessing(w) ==
  /\ wpc[w] = "mark"
  /\ UpdateOrReturn(w, "manifest", [cur[w] EXCEPT !.status = "processing"])
  /\ UNCHANGED <<queue, tokens, disk, faults, workerFrame>>

(* buildManifest: some number of files, or a database error. *)
BuildManifest(w) ==
  /\ wpc[w] = "manifest"
  /\ \/ \E n \in 0..MaxFiles : GoTo(w, "totals", [cur[w] EXCEPT !.totalFiles = n])
     \/ GoTo(w, "fail", cur[w])
  /\ UNCHANGED <<queue, jobs, tokens, disk, faults, workerFrame>>

(* Update with the totals, then the size limit. *)
RecordTotals(w) ==
  /\ wpc[w] = "totals"
  /\ \E pc \in {"create", "fail"} : UpdateOrReturn(w, pc, cur[w])
  /\ UNCHANGED <<queue, tokens, disk, faults, workerFrame>>

CreateTemp(w) ==
  /\ wpc[w] = "create"
  /\ \/ FilesCreate(wid[w]) /\ GoTo(w, "write", cur[w])
     \/ UNCHANGED disk /\ GoTo(w, "fail", cur[w])
  /\ UNCHANGED <<queue, jobs, tokens, faults, workerFrame>>

(* Mutant: onProgress counts in a copy of its own. *)
WriteFileLosesCount(w) ==
  /\ wpc[w] = "write"
  /\ cur[w].processedFiles < cur[w].totalFiles
  /\ StoreUpdate(wid[w], [cur[w] EXCEPT !.processedFiles = @ + 1]) /\ GoTo(w, "write", cur[w])
  /\ UNCHANGED <<queue, tokens, disk, faults, workerFrame>>

(* Generate adds one file and onProgress stores the count; an Update that   *)
(* finds no record is only logged.                                          *)
WriteFile(w) ==
  /\ wpc[w] = "write"
  /\ cur[w].processedFiles < cur[w].totalFiles
  /\ LET rec == [cur[w] EXCEPT !.processedFiles = @ + 1]
     IN  StoreUpdate(wid[w], rec) /\ GoTo(w, "write", rec)
  /\ UNCHANGED <<queue, tokens, disk, faults, workerFrame>>

(* Mutant: generation stops one file short. *)
CloseEarly(w) ==
  /\ wpc[w] = "write"
  /\ cur[w].processedFiles + 1 >= cur[w].totalFiles
  /\ FilesClose(wid[w])
  /\ GoTo(w, "publish", cur[w])
  /\ UNCHANGED <<queue, jobs, tokens, faults, workerFrame>>

(* Generate has written everything; the archive and the file are closed.    *)
CloseArchive(w) ==
  /\ wpc[w] = "write"
  /\ cur[w].processedFiles = cur[w].totalFiles
  /\ FilesClose(wid[w])
  /\ GoTo(w, "publish", cur[w])
  /\ UNCHANGED <<queue, jobs, tokens, faults, workerFrame>>

(* Mutant: the error of Generate is ignored. *)
GenerateErrorIgnored(w) ==
  /\ wpc[w] = "write"
  /\ GoTo(w, "publish", cur[w])
  /\ UNCHANGED <<queue, jobs, tokens, disk, faults, workerFrame>>

(* Generate or Close fails: a storage server, the size cap, the disk.       *)
GenerateFails(w) ==
  /\ wpc[w] = "write"
  /\ GoTo(w, "discard", cur[w])
  /\ UNCHANGED <<queue, jobs, tokens, disk, faults, workerFrame>>

(* RenameTemp succeeds and completeJob reads the clock. *)
Publish(w) ==
  /\ wpc[w] = "publish"
  /\ RenameTemp(wid[w])
  /\ wpc' = [wpc EXCEPT ![w] = "issue"]
  /\ doneAt' = [doneAt EXCEPT ![w] = now]
  /\ UNCHANGED <<wid, cur, queue, jobs, tokens, faults, workerFrame>>

(* Mutant: a failed rename leaves the temp file. *)
PublishFailsKeepsTemp(w) ==
  /\ wpc[w] = "publish"
  /\ GoTo(w, "fail", cur[w])
  /\ UNCHANGED <<queue, jobs, tokens, disk, faults, workerFrame>>

(* RenameTemp fails: always without a temp file, sometimes with one.        *)
PublishFails(w) ==
  /\ wpc[w] = "publish"
  /\ GoTo(w, "discard", cur[w])
  /\ UNCHANGED <<queue, jobs, tokens, disk, faults, workerFrame>>

(* _ = s.files.Delete(j.ID) *)
Discard(w) ==
  /\ wpc[w] = "discard"
  /\ FilesDelete(wid[w]) \/ FilesDeleteFails(wid[w])
  /\ GoTo(w, "fail", cur[w])
  /\ UNCHANGED <<queue, jobs, tokens, workerFrame>>

(* Mutant: the failure is logged and not stored. *)
FailSilently(w) ==
  /\ wpc[w] = "fail"
  /\ Return(w)
  /\ UNCHANGED <<queue, jobs, tokens, disk, faults, workerFrame>>

FailJob(w) ==
  /\ wpc[w] = "fail"
  /\ StoreUpdate(wid[w], [cur[w] EXCEPT !.status = "failed"])
  /\ Return(w)
  /\ UNCHANGED <<queue, tokens, disk, faults, workerFrame>>

(* Mutant: the token is issued with a shorter lifetime than the job. *)
IssueShortToken(w) ==
  /\ wpc[w] = "issue"
  /\ \/ Issue(wid[w], wid[w], Expiry - 1) /\ GoTo(w, "finish", cur[w])
     \/ UNCHANGED tokens /\ GoTo(w, "fail", cur[w])
  /\ UNCHANGED <<queue, jobs, disk, faults, workerFrame>>

IssueToken(w) ==
  /\ wpc[w] = "issue"
  /\ \/ Issue(wid[w], wid[w], Expiry) /\ GoTo(w, "finish", cur[w])
     \/ UNCHANGED tokens /\ GoTo(w, "fail", cur[w])
  /\ UNCHANGED <<queue, jobs, disk, faults, workerFrame>>

(* Mutant: ExpiresAt is the completion time itself. *)
CompletedNoTTL(w) ==
  [cur[w] EXCEPT !.status = "completed", !.downloadToken = wid[w], !.expiresAt = doneAt[w]]

CompletedJob(w) ==
  [cur[w] EXCEPT !.status = "completed", !.downloadToken = wid[w],
                 !.expiresAt = doneAt[w] + Expiry]

CompleteJob(w) ==
  /\ wpc[w] = "finish"
  /\ StoreUpdate(wid[w], CompletedJob(w))
  /\ Return(w)
  /\ UNCHANGED <<queue, tokens, disk, faults, workerFrame>>

ProcessStep(w) ==
  \/ GetJob(w) \/ MarkProcessing(w) \/ BuildManifest(w) \/ RecordTotals(w)
  \/ CreateTemp(w) \/ WriteFile(w) \/ CloseArchive(w) \/ GenerateFails(w)
  \/ Publish(w) \/ PublishFails(w) \/ Discard(w) \/ FailJob(w)
  \/ IssueToken(w) \/ CompleteJob(w)
===============================================================================
