----------------------------- MODULE ArchiveSystem -----------------------------
(***************************************************************************)
(* The whole process of cmd/server/main.go: the service with its request   *)
(* handlers and workers, the sweeper, the clock, the graceful-shutdown     *)
(* sequence, and processes that end (in order or by a crash) and start     *)
(* again over the same archive directory.                                  *)
(***************************************************************************)
EXTENDS ArchiveService, Cleanup

CONSTANT MaxExits   \* bound on the times the process ends

ASSUME ExitsAssumption == MaxExits \in Nat

VARIABLES
  phase,      \* where main.go's run and shutdown are
  timedOut,   \* the ShutdownTimeout context has expired
  exits       \* how often the process has ended

lifeVars == <<phase, timedOut, exits>>
vars == <<now, ctxDone, jobs, tokens, disk, faults, serviceVars, cleanupVars, lifeVars>>

Phase == {"running", "stopping", "draining", "cleanup", "closing", "releasing", "down"}

Init ==
  /\ now = 0 /\ ctxDone = FALSE
  /\ StoreInit /\ TokensInit /\ FilesInit /\ ServiceInit /\ CleanupInit
  /\ phase = "running" /\ timedOut = FALSE /\ exits = 0

(* Every variable has its type. *)
TypeOK ==
  /\ now \in Nat /\ ctxDone \in BOOLEAN
  /\ StoreTypeOK /\ TokensTypeOK /\ FilesTypeOK /\ ServiceTypeOK /\ CleanupTypeOK
  /\ phase \in Phase /\ timedOut \in BOOLEAN /\ exits \in Nat

-------------------------------------------------------------------------------
(* shutdown *)

memory == <<jobs, tokens, disk, faults>>

(* The signal arrives; archiveService.StopAccepting(). *)
StopAccepting ==
  /\ phase = "running"
  /\ exits < MaxExits
  /\ phase' = "stopping"
  /\ accepting' = FALSE
  /\ UNCHANGED <<now, ctxDone, memory, queue, req, workerVars, cleanupVars, timedOut, exits>>

CancelShutdown ==
  /\ phase = "stopping"
  /\ phase' = "draining"
  /\ ctxDone' = TRUE
  /\ UNCHANGED <<now, memory, serviceVars, cleanupVars, timedOut, exits>>

(* The ShutdownTimeout deadline passes. *)
ShutdownTimeout ==
  /\ phase \in {"stopping", "draining", "cleanup", "closing"}
  /\ ~timedOut
  /\ timedOut' = TRUE
  /\ UNCHANGED <<now, ctxDone, memory, serviceVars, cleanupVars, phase, exits>>

(* Mutant: the pool is not waited for. *)
WorkersNotAwaited ==
  /\ phase = "draining"
  /\ phase' = "cleanup"
  /\ UNCHANGED <<now, ctxDone, memory, serviceVars, cleanupVars, timedOut, exits>>

(* The selects on workersDone and on cleanupDone. *)
WorkersDone ==
  /\ phase = "draining"
  /\ (\A w \in Workers : wpc[w] = "stopped") \/ timedOut
  /\ phase' = "cleanup"
  /\ UNCHANGED <<now, ctxDone, memory, serviceVars, cleanupVars, timedOut, exits>>

CleanupDone ==
  /\ phase = "cleanup"
  /\ spc = "stopped" \/ timedOut
  /\ phase' = "closing"
  /\ UNCHANGED <<now, ctxDone, memory, serviceVars, cleanupVars, timedOut, exits>>

(* The process is gone: its memory with it, the directory stays. A request  *)
(* that had not drawn its ID leaves no trace.                               *)
ProcessEnds ==
  /\ phase' = "down" /\ timedOut' = FALSE /\ exits' = exits + 1
  /\ jobs' = [j \in Jobs |-> NoJob]
  /\ tokens' = {}
  /\ accepting' = FALSE /\ ctxDone' = TRUE /\ queue' = <<>>
  /\ req' = [j \in Jobs |-> CASE req[j] = "checked" -> "idle"
                              [] req[j] = "recorded" -> "rejected"
                              [] OTHER -> req[j]]
  /\ wpc' = [w \in Workers |-> "stopped"]
  /\ wid' = [w \in Workers |-> None]
  /\ cur' = [w \in Workers |-> NoJob]
  /\ doneAt' = [w \in Workers |-> 0]
  /\ spc' = "stopped" /\ snapshot' = [j \in Jobs |-> NoJob]
  /\ doomed' = {} /\ tracked' = {} /\ victim' = None /\ orphans' = {}
  /\ UNCHANGED <<now, disk, faults>>

(* httpServer.Shutdown(ctx) waits for the handlers; then run returns and    *)
(* its deferred calls begin.                                                *)
ServerShutdown ==
  /\ phase = "closing"
  /\ (\A j \in Jobs : req[j] \notin {"checked", "recorded"}) \/ timedOut
  /\ phase' = "releasing"
  /\ UNCHANGED <<now, ctxDone, memory, serviceVars, cleanupVars, timedOut, exits>>

(* The HTTP server fails: run returns at once, and its deferred             *)
(* cancelShutdown runs.                                                     *)
ServeFails ==
  /\ phase = "running"
  /\ exits < MaxExits
  /\ phase' = "releasing"
  /\ ctxDone' = TRUE
  /\ UNCHANGED <<now, memory, serviceVars, cleanupVars, timedOut, exits>>

(* buildManifest and FolderExists hold a connection of the database pool.   *)
Querying == (\E w \in Workers : wpc[w] = "manifest") \/ \E j \in Jobs : req[j] = "checked"

(* Mutant: the jobs in progress are waited for once more, without a limit.  *)
PoolClosesAfterJobs ==
  /\ phase = "releasing"
  /\ \A w \in Workers : wpc[w] \in {"idle", "stopped"}
  /\ ProcessEnds

(* defer dbPool.Close(): blocks until every connection is returned; then    *)
(* main returns and the process ends with its goroutines.                   *)
PoolCloses ==
  /\ phase = "releasing"
  /\ ~Querying
  /\ ProcessEnds

(* A crash or a kill. *)
Crash ==
  /\ phase # "down"
  /\ exits < MaxExits
  /\ ProcessEnds

(* A new process starts over the same directory. *)
Boot ==
  /\ phase = "down"
  /\ phase' = "running"
  /\ accepting' = TRUE /\ ctxDone' = FALSE
  /\ wpc' = [w \in Workers |-> "idle"]
  /\ wid' = [w \in Workers |-> None]
  /\ spc' = "start"
  /\ UNCHANGED <<now, memory, queue, req, cur, doneAt, snapshot, doomed,
                 tracked, victim, orphans, timedOut, exits>>

-------------------------------------------------------------------------------
(* Connections that are open when Serve fails stay served. A create begun   *)
(* while the pool is being closed fails in FolderExists at once, and leaves *)
(* no trace; a job dequeued then fails at the step "manifest" (the model    *)
(* lets it also succeed: its query may have begun before).                  *)
Handler(j) ==
  /\ \/ phase # "releasing" /\ BeginCreate(j)
     \/ VerifyFails(j) \/ CreateRecord(j) \/ Enqueue(j) \/ RollBack(j)
  /\ UNCHANGED <<cleanupVars, lifeVars>>

Worker(w) ==
  /\ Dequeue(w) \/ WorkerStops(w) \/ ProcessStep(w)
  /\ UNCHANGED <<cleanupVars, lifeVars>>

Sweeper ==
  /\ SweepList \/ SweepStep \/ CleanupStops
  /\ UNCHANGED <<serviceVars, lifeVars>>

Clock == Tick /\ UNCHANGED <<memory, serviceVars, cleanupVars, lifeVars>>

Shutdown == CancelShutdown \/ WorkersDone \/ CleanupDone \/ ServerShutdown \/ PoolCloses

Next ==
  \/ \E j \in Jobs : Handler(j)
  \/ \E w \in Workers : Worker(w)
  \/ Sweeper
  \/ Clock
  \/ StopAccepting \/ ServeFails \/ Shutdown \/ ShutdownTimeout \/ Crash \/ Boot

Spec == Init /\ [][Next]_vars

-------------------------------------------------------------------------------
(* Safety *)

InQueue(j) == \E i \in 1..Len(queue) : queue[i] = j

(* A job ID is in at most one place: the queue channel holds it at most     *)
(* once, no two workers run ProcessJob on it, and none runs a job that is   *)
(* still queued. So "<id>.zip.tmp" has one writer (service/archive.go       *)
(* CreateJob enqueues once, worker.go loop receives).                       *)
OneOwner ==
  /\ \A i, k \in 1..Len(queue) : queue[i] = queue[k] => i = k
  /\ \A v, w \in Workers : wid[v] = wid[w] /\ wid[v] # None => v = w
  /\ \A w \in Workers : wid[w] # None => ~InQueue(wid[w])

(* ProcessJob before and after the job is marked "processing". *)
Early == {"get", "mark"}
Late == Busy \ Early

(* No accepted job is stranded: a queued record that was answered with 202  *)
(* is in the queue or with a worker that has not marked it yet, and a       *)
(* "processing" record always has a worker that will end it (every return   *)
(* of ProcessJob has updated the record or found it removed).               *)
NoLostJob ==
  \A j \in Jobs :
    /\ jobs[j].status = "queued" /\ req[j] = "accepted" =>
         InQueue(j) \/ \E w \in Workers : wid[w] = j /\ wpc[w] \in Early
    /\ jobs[j].status = "processing" =>
         \E w \in Workers : wid[w] = j /\ wpc[w] \in Late

(* A final archive path never holds a partial archive, whatever the sweeper *)
(* unlinks, however generation fails and whenever the process dies          *)
(* (storage.go: only after RenameTemp is the archive safe to expose).       *)
PublishedIsWhole == \A j \in Jobs : disk[j].final # "partial"

(* The sweeper has revoked j's tokens and is about to drop its record. *)
Dropping(j) == spc = "drop" /\ victim = j

(* While a completed record is shown to clients, the token in it is accepted *)
(* up to the record's ExpiresAt (completeJob issues before it publishes the *)
(* record), except between two steps of removeJob: it revokes the tokens    *)
(* and then drops the record. RemovedAreExpired shows that the record may   *)
(* be unexpired then.                                                       *)
TokenHonoured ==
  \A j \in Jobs :
    jobs[j].status = "completed" /\ now <= jobs[j].expiresAt /\ ~Dropping(j) =>
      Validate(j, jobs[j].downloadToken)

(* A completed job has archived every file of its manifest, and the record  *)
(* counts no file that is not in the manifest (onProgress, generateArchive).*)
ProgressIsTrue ==
  \A j \in Jobs :
    /\ jobs[j].processedFiles <= jobs[j].totalFiles
    /\ jobs[j].status = "completed" => jobs[j].processedFiles = jobs[j].totalFiles

(* As long as no removal has failed and no process has died, a temp file    *)
(* has a worker that will rename or delete it: no error path of             *)
(* generateArchive leaves one behind.                                       *)
NoStrayTemp ==
  faults = 0 /\ exits = 0 =>
    \A j \in Jobs : HasTemp(j) =>
      \E w \in Workers : wid[w] = j /\ wpc[w] \in {"write", "publish", "discard"}

(* A shutdown whose timeout has not expired closes the server only when no  *)
(* job is half done (main.go waits for the pool; README "In-flight jobs are *)
(* allowed to finish").                                                     *)
DrainedBeforeClose ==
  phase \in {"cleanup", "closing"} /\ ~timedOut =>
    \A j \in Jobs : jobs[j].status # "processing"

(* A stored record only moves forward: progress never goes back and the     *)
(* moment from which the sweeper may remove the job never comes nearer,     *)
(* although a worker overwrites the record with its own older copy.         *)
RecordsAdvance ==
  [][\A j \in Jobs : Exists(j) /\ jobs'[j].status # "none" =>
       /\ jobs'[j].processedFiles >= jobs[j].processedFiles
       /\ Deadline(jobs'[j]) >= Deadline(jobs[j])]_vars

(* The state of a job in the abstract lifecycle. *)
LifecycleState ==
  [j \in Jobs |-> IF Exists(j) THEN jobs[j].status
                  ELSE IF req[j] \in {"idle", "checked"} THEN "absent" ELSE "gone"]

LC == INSTANCE JobLifecycle WITH state <- LifecycleState

(* The service implements JobLifecycle: no status is skipped or revisited,  *)
(* and a removed record never comes back through a worker's late Update.    *)
Lifecycle == LC!Spec

(* A worker between Create and the use of Generate's result assumes of      *)
(* Generate only what Generation promises (generateArchive): what Generator *)
(* shows of Generate is enough for the properties of the whole system.      *)
InCall(w) == wpc[w] \in {"write", "publish"}
GW(w) == INSTANCE Generation WITH
           state <- IF wpc[w] = "write" THEN "writing"
                    ELSE IF wpc[w] = "publish" THEN "done" ELSE "idle",
           added <- IF InCall(w) THEN cur[w].processedFiles ELSE 0,
           total <- IF InCall(w) THEN cur[w].totalFiles ELSE 0
RelyOnPromise ==
  /\ \A w \in Workers : GW(w)!Init
  /\ [][\A w \in Workers : [GW(w)!Next]_(GW(w)!vars)]_vars

(* A creation refused because the queue is full, or cut off with the        *)
(* process, leaves nothing behind: no record a client or a sweep could      *)
(* find, no queue entry, no worker, no token, no file (CreateJob's roll     *)
(* back, which races the sweeper and the end of the process).               *)
RefusedLeavesNothing ==
  \A j \in Jobs : req[j] = "rejected" =>
    /\ jobs[j] = NoJob /\ disk[j] = NoFiles /\ ~InQueue(j)
    /\ \A w \in Workers : wid[w] # j
    /\ \A e \in tokens : e.jobID # j

-------------------------------------------------------------------------------
(* The inductive strengthening of the safety invariants. *)

(* An ID that was not handed over to the queue is nowhere. *)
FreshIDs ==
  \A j \in Jobs : req[j] # "accepted" => ~InQueue(j) /\ \A w \in Workers : wid[w] # j

(* Where a job is in its pipeline decides its stored status and the status  *)
(* in its worker's copy.                                                    *)
RecordStage ==
  \A j \in Jobs :
    /\ req[j] \in {"idle", "checked", "rejected"} => jobs[j].status = "none"
    /\ req[j] = "recorded" \/ InQueue(j) => jobs[j].status \in {"none", "queued"}

WorkerStage(w) ==
  /\ wpc[w] \in Early => jobs[wid[w]].status \in {"none", "queued"}
  /\ wpc[w] \in Late =>
       jobs[wid[w]].status \in {"none", "processing"} /\ cur[w].status = "processing"

(* A temp file is whole when its writer is about to rename it. *)
ReadyToPublish ==
  \A w \in Workers : wpc[w] = "publish" => disk[wid[w]].tmp # "partial"

(* The token a worker is about to publish outlives the expiry it will       *)
(* publish, unless the job is being removed under it.                       *)
Granted(T, j, t) == \E e \in T : e.tok = j /\ e.jobID = j /\ t <= e.expiresAt

TokenStage ==
  /\ \A w \in Workers : wpc[w] \in {"issue", "finish"} => doneAt[w] <= now
  /\ \A w \in Workers : wpc[w] = "finish" =>
       \/ Granted(tokens, wid[w], doneAt[w] + Expiry)
       \/ jobs[wid[w]].status = "none" \/ Dropping(wid[w])
  /\ \A j \in Jobs : jobs[j].status = "completed" =>
       /\ jobs[j].downloadToken = j
       /\ Granted(tokens, j, jobs[j].expiresAt) \/ Dropping(j)

(* Between two processes nothing runs and nothing is remembered. *)
DownIsQuiet ==
  phase = "down" =>
    /\ ~accepting /\ spc = "stopped" /\ \A w \in Workers : wpc[w] = "stopped"
    /\ \A j \in Jobs : jobs[j].status = "none" /\ req[j] \notin {"checked", "recorded"}

SafetyInv ==
  /\ OneOwner /\ FreshIDs /\ RecordStage /\ NoLostJob
  /\ \A w \in Workers : WorkerStage(w)
  /\ PublishedIsWhole /\ ReadyToPublish
  /\ TokenStage /\ DownIsQuiet

(* A second layer, inductive on top of SafetyInv. *)

(* A stored record counts no file too many, all of them when it is          *)
(* completed, none while it is queued, and has no expiry before it is       *)
(* completed.                                                               *)
RecordSound(rec) ==
  /\ rec.status = "none" => rec = NoJob
  /\ rec.processedFiles <= rec.totalFiles /\ rec.createdAt <= now
  /\ rec.status = "queued" => rec.processedFiles = 0
  /\ IF rec.status = "completed" THEN rec.processedFiles = rec.totalFiles
                                 ELSE rec.expiresAt = ZeroTime

(* A worker's copy of its job is a sound record too, and the stored record, *)
(* unless the sweeper has removed it, counts and dates the same.            *)
CopyInStep(w) ==
  LET rec == jobs[wid[w]] IN
  wpc[w] \in Busy \ {"get"} =>
    /\ RecordSound(cur[w]) /\ cur[w].status \notin {"none", "completed"}
    /\ rec.status # "none" =>
         rec.processedFiles = cur[w].processedFiles /\ rec.createdAt = cur[w].createdAt
    /\ wpc[w] \in {"mark", "manifest", "totals", "create"} => cur[w].processedFiles = 0
    /\ wpc[w] \in {"publish", "issue", "finish"} => cur[w].processedFiles = cur[w].totalFiles
    /\ wpc[w] \in {"issue", "finish"} => cur[w].createdAt <= doneAt[w]

(* Nothing is written under an ID that was not handed over to the queue. *)
NoTrace ==
  \A j \in Jobs : req[j] # "accepted" =>
    disk[j] = NoFiles /\ \A e \in tokens : e.jobID # j

(* The pool has stopped when shutdown goes on without a timeout. *)
PoolStopped ==
  phase \in {"cleanup", "closing"} /\ ~timedOut => \A w \in Workers : wpc[w] = "stopped"

HistoryInv ==
  /\ \A j \in Jobs : RecordSound(jobs[j])
  /\ \A w \in Workers : CopyInStep(w)
  /\ NoTrace /\ PoolStopped

-------------------------------------------------------------------------------
(* Liveness *)

(* ProcessJob waits on others: the queries of buildManifest and the bodies  *)
(* Generate streams run on context.Background() without a timeout (the      *)
(* storage client bounds only the response headers).                        *)
Streaming(w) == wpc[w] \in {"manifest", "write"}

(* Goroutines that can run are scheduled, the ticker keeps firing, time     *)
(* passes, and a process that ended is started again by its supervisor.     *)
(* Nothing is assumed of clients, of faults, of the database and the        *)
(* storage servers, or of which case a select picks.                        *)
Fairness ==
  /\ \A w \in Workers : WF_vars(~Streaming(w) /\ Worker(w))
  /\ WF_vars(Sweeper) /\ WF_vars(Clock)
  /\ WF_vars(Shutdown) /\ WF_vars(ShutdownTimeout) /\ WF_vars(Boot)

FairSpec == Spec /\ Fairness

(* Every query and every body ends, with a result or with an error. *)
StreamsEnd == \A w \in Workers : WF_vars(Streaming(w) /\ Worker(w))

(* Every database query ends, with a result or with an error. *)
QueriesEnd ==
  /\ \A w \in Workers : WF_vars(wpc[w] = "manifest" /\ Worker(w))
  /\ \A j \in Jobs : WF_vars(req[j] = "checked" /\ Handler(j))

(* Every job answered with 202 ends: completed, failed, or its record is    *)
(* gone (expired, or lost with the process), provided that the database and *)
(* the storage servers answer. No client watches forever. A job queued as   *)
(* the workers leave is lost with the process, and counts as ended here.    *)
JobsSettle ==
  StreamsEnd =>
    \A j \in Jobs : req[j] = "accepted" ~> jobs[j].status \in Terminal \cup {"none"}

(* Every file whose job has no record, from a crash, a failed removal or a  *)
(* worker that published after the sweeper removed its job, is deleted      *)
(* (cleanup.go: "eventually removed"). A process that cannot end because of *)
(* a query, see PoolCloses, has stopped sweeping.                           *)
DiskReclaimed ==
  QueriesEnd => \A j \in Jobs : disk[j] # NoFiles /\ ~Exists(j) ~> disk[j] = NoFiles

(* Every record is removed once its deadline has passed, also when its      *)
(* worker hangs on a storage server forever. The deadline of a job that     *)
(* completes moves; one at the clock's bound never passes.                  *)
ExpiredRemoved ==
  QueriesEnd =>
    \A j \in Jobs : Exists(j) /\ Deadline(jobs[j]) < MaxTime ~>
                      ~Exists(j) \/ Deadline(jobs[j]) >= MaxTime

(* A shutdown that has begun, or the failure of the HTTP server, ends the   *)
(* process although a storage server never ends a body or the sweeper goes  *)
(* on sweeping, provided that the database answers: every wait of shutdown  *)
(* also waits on ctx.Done, and the deferred calls of run wait for nothing   *)
(* but queries (dbPool.Close).                                              *)
ShutdownEnds == QueriesEnd => (phase \in {"stopping", "releasing"} ~> phase = "down")

-------------------------------------------------------------------------------
(* Statements of the code's comments and of the README that the code does   *)
(* not keep; TLC shows how each one fails.                                  *)

(* cleanup.go: sweep "deletes any archive file on disk that has no matching *)
(* job record": the file it deletes as an orphan has no record.             *)
OrphansHaveNoRecord ==
  [][\A j \in Jobs : spc = "orphans" /\ j \in orphans \ orphans' => ~Exists(j)]_vars

(* cleanup.go: Cleanup "removes expired archive jobs": the record removeJob *)
(* drops is of an expired job. README: ARCHIVE_EXPIRY is the lifetime of a  *)
(* finished archive and its download token.                                 *)
RemovedAreExpired ==
  [][\A j \in Jobs : Dropping(j) /\ spc' = "remove" /\ Exists(j) => IsExpired(jobs[j])]_vars

(* cleanup.go: removing a job removes its download tokens: a token in the   *)
(* map belongs to a job that has a record or is still being processed.      *)
TokensHaveJobs ==
  \A e \in tokens : Exists(e.jobID) \/ \E w \in Workers : wid[w] = e.jobID
================================================================================
