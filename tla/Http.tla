---------------------------------- MODULE Http ----------------------------------
(***************************************************************************)
(* The reading side of the service over ArchiveSystem:                     *)
(* internal/handler/download.go and internal/handler/sse.go, one download  *)
(* and one event stream at a time, and httpServer.Shutdown waiting for     *)
(* both. Each handler reads the shared stores one after the other.         *)
(***************************************************************************)
EXTENDS ArchiveSystem

VARIABLES
  dpc,    \* where Download is
  djob,   \* its jobID
  dtok,   \* its tok
  epc,    \* where Events is
  ejob,   \* its jobID
  told,   \* the event that ended the last stream
  shown   \* lastProgress of an open stream

downloadVars == <<dpc, djob, dtok>>
eventVars == <<epc, ejob, told, shown>>
readers == <<downloadVars, eventVars>>
httpVars == <<vars, readers>>

(* The listener is open: httpServer.Shutdown closes it first. *)
Listening == phase \notin {"closing", "releasing", "down"}

(* model.ProgressEvent, in files *)
Progress(rec) == [processedFiles |-> rec.processedFiles, totalFiles |-> rec.totalFiles]

HttpInit ==
  /\ Init
  /\ dpc = "idle" /\ djob = None /\ dtok = None
  /\ epc = "closed" /\ ejob = None /\ told = "none"
  /\ shown = Progress(NoJob)

(* Types, and a handler at work has a job. *)
HttpTypeOK ==
  /\ dpc \in {"idle", "validate", "open", "body"} /\ epc \in {"closed", "open"}
  /\ djob \in Jobs \cup {None} /\ dtok \in Jobs \cup {None} /\ ejob \in Jobs \cup {None}
  /\ told \in {"none", "completed", "failed", "gone"}
  /\ shown \in [processedFiles : Nat, totalFiles : Nat]
  /\ dpc # "idle" => djob # None
  /\ epc = "open" => ejob # None

-------------------------------------------------------------------------------
(* Download *)

(* The handler writes its status and returns; each status has one place. *)
Respond == dpc' = "idle" /\ djob' = None /\ dtok' = None

(* The token must be there (401); then GetJob (404) and the status (409). *)
DownloadGet(j, tok) ==
  /\ dpc = "idle" /\ Listening
  /\ IF tok # None /\ jobs[j].status = "completed"
     THEN dpc' = "validate" /\ djob' = j /\ dtok' = tok
     ELSE Respond
  /\ UNCHANGED <<vars, eventVars>>

(* 401 *)
DownloadValidate ==
  /\ dpc = "validate"
  /\ IF Validate(djob, dtok)
     THEN dpc' = "open" /\ UNCHANGED <<djob, dtok>>
     ELSE Respond
  /\ UNCHANGED <<vars, eventVars>>

(* OpenArchive (500); ServeContent then streams from the open file (200). *)
DownloadOpen ==
  /\ dpc = "open"
  /\ IF disk[djob].final # "none"
     THEN dpc' = "body" /\ UNCHANGED <<djob, dtok>>
     ELSE Respond
  /\ UNCHANGED <<vars, eventVars>>

(* The client has read the body, or has gone. *)
DownloadEnds == dpc = "body" /\ Respond /\ UNCHANGED <<vars, eventVars>>

-------------------------------------------------------------------------------
(* Events *)

(* The stream returns; with it goes lastProgress. *)
Close(verdict) == epc' = "closed" /\ told' = verdict /\ shown' = Progress(NoJob)

(* Mutant: a stream that has sent some progress sends no more. *)
SendOnce(j) ==
  IF jobs[j].status \in Terminal
  THEN Close(jobs[j].status)
  ELSE /\ epc' = "open" /\ told' = "none"
       /\ IF epc = "open" THEN UNCHANGED shown ELSE shown' = Progress(jobs[j])

(* send: a terminal status ends the stream, any other sends the progress    *)
(* unless it is the one last sent.                                          *)
Send(j) ==
  IF jobs[j].status \in Terminal
  THEN Close(jobs[j].status)
  ELSE epc' = "open" /\ told' = "none" /\ shown' = Progress(jobs[j])

(* Mutant: a stream is opened on a job that is not known. *)
EventsConnectUnknown(j) ==
  /\ epc = "closed" /\ Listening
  /\ ejob' = j /\ Send(j)
  /\ UNCHANGED <<vars, downloadVars>>

(* GetJob on connect: 404 leaves no trace; otherwise the current state is sent. *)
EventsConnect(j) ==
  /\ epc = "closed" /\ Listening /\ Exists(j)
  /\ ejob' = j /\ Send(j)
  /\ UNCHANGED <<vars, downloadVars>>

(* Mutant: a record that is gone is polled for again. *)
EventsPollRetries ==
  /\ epc = "open"
  /\ IF Exists(ejob) THEN Send(ejob) ELSE UNCHANGED <<epc, told, shown>>
  /\ UNCHANGED <<ejob, vars, downloadVars>>

(* A tick of the poll interval. *)
EventsPoll ==
  /\ epc = "open"
  /\ IF Exists(ejob) THEN Send(ejob) ELSE Close("gone")
  /\ UNCHANGED <<ejob, vars, downloadVars>>

(* The stream ends without a verdict. *)
EventsReturn == epc = "open" /\ Close(told) /\ UNCHANGED <<ejob, vars, downloadVars>>

(* r.Context().Done() *)
EventsDisconnect == EventsReturn

(* h.shutdown.Done() *)
EventsShutdown == ctxDone /\ EventsReturn

-------------------------------------------------------------------------------
(* Mutant: Shutdown waits for the handlers without a limit. *)
HttpShutdownNoLimit ==
  /\ ServerShutdown /\ dpc = "idle" /\ epc = "closed"
  /\ UNCHANGED readers

(* httpServer.Shutdown(ctx) waits for downloads and streams too. *)
HttpShutdown ==
  /\ ServerShutdown
  /\ (dpc = "idle" /\ epc = "closed") \/ timedOut
  /\ UNCHANGED readers

(* The rest of the process, as far as it goes on. *)
SystemStep ==
  /\ \/ \E j \in Jobs : Handler(j)
     \/ \E w \in Workers : Worker(w)
     \/ Sweeper \/ Clock \/ Boot
     \/ StopAccepting \/ CancelShutdown \/ ShutdownTimeout \/ WorkersDone \/ CleanupDone
     \/ ServeFails
  /\ UNCHANGED readers

(* Connections end with the process. *)
HttpEnds ==
  /\ PoolCloses \/ Crash
  /\ Respond /\ Close(told) /\ UNCHANGED ejob

Download ==
  \/ \E j \in Jobs, tok \in Jobs \cup {None} : DownloadGet(j, tok)
  \/ DownloadValidate \/ DownloadOpen \/ DownloadEnds

Events ==
  \/ \E j \in Jobs : EventsConnect(j)
  \/ EventsPoll \/ EventsDisconnect \/ EventsShutdown

HttpNext == SystemStep \/ Download \/ Events \/ HttpShutdown \/ HttpEnds

HttpSpec == HttpInit /\ [][HttpNext]_httpVars

(* As in ArchiveSystem, and the ticker of a stream and its shutdown case    *)
(* are served. Clients connect, leave and stop reading as they like, and a  *)
(* worker may hang on the database or a storage server.                     *)
HttpFairness ==
  /\ \A w \in Workers : WF_vars(~Streaming(w) /\ Worker(w))
  /\ WF_vars(Sweeper) /\ WF_vars(Clock)
  /\ WF_vars(CancelShutdown \/ WorkersDone \/ CleanupDone \/ PoolCloses)
  /\ WF_vars(ShutdownTimeout)
  /\ WF_httpVars(HttpShutdown)
  /\ WF_httpVars(EventsPoll) /\ WF_httpVars(EventsShutdown)

HttpFairSpec == HttpSpec /\ HttpFairness

-------------------------------------------------------------------------------
(* What a stream told its client stays true: a job reported completed or    *)
(* failed does not change its outcome, and one reported as no longer        *)
(* available never reappears, although its worker may still be running      *)
(* (sse.go Events against ProcessJob and removeJob).                        *)
VerdictStands ==
  told # "none" => jobs[ejob].status \in {told, "none"} /\ (told = "gone" => ~Exists(ejob))

(* The inductive form, on the abstract lifecycle: an open stream watches a  *)
(* job that was once created, so one without a record is gone for good, and *)
(* the state a verdict named is only ever left for "gone" (sse.go Events    *)
(* sends a verdict after its read of the store, not with it).               *)
WatchedAdvances ==
  /\ epc = "open" => told = "none" /\ LifecycleState[ejob] # "absent"
  /\ told # "none" => ejob \in Jobs /\ LifecycleState[ejob] \in {told, "gone"}

(* The inductive invariant of the handlers.                                 *)
HttpInv == HttpTypeOK /\ WatchedAdvances

(* A stream ends, also when the worker of its job hangs forever or the     *)
(* job's record is removed under it: at the latest the expiry of the job    *)
(* ends it (sse.go Events against sweep; deadlines at the clock's bound     *)
(* never pass).                                                             *)
StreamEnds ==
  epc = "open" /\ (Exists(ejob) => Deadline(jobs[ejob]) < MaxTime) ~> epc = "closed"

(* A client that never finishes reading its download does not keep the      *)
(* process alive: httpServer.Shutdown is bounded by the shutdown timeout    *)
(* (main.go shutdown), and a server that failed is not waited for at all.   *)
HttpShutdownEnds == QueriesEnd => (phase \in {"stopping", "releasing"} ~> phase = "down")

(* A client that watches a job sees its progress: what the record counts is *)
(* sent, or the stream ends, also when the worker then hangs (sse.go send   *)
(* drops an event only if it equals the last one).                          *)
ProgressShown ==
  \A n \in 1..MaxFiles :
    epc = "open" /\ jobs[ejob].processedFiles = n ~>
      shown.processedFiles >= n \/ epc = "closed"

(* download.go: Download responds 401, 404 or 409 "and otherwise serves the *)
(* archive": with a token that is still valid opening it does not fail.     *)
OtherwiseServed ==
  [][dpc = "open" /\ dpc' = "idle" /\ UNCHANGED vars => ~Validate(djob, dtok)]_httpVars
================================================================================
