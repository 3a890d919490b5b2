----------------------------- MODULE ArchiveModel -----------------------------
(***************************************************************************)
(* The domain types of internal/model/archive.go and the two pieces of     *)
(* process-wide state every goroutine of the service reads: the clock      *)
(* (time.Now) and the shutdown context of cmd/server/main.go.              *)
(***************************************************************************)
EXTENDS Integers, FiniteSets

CONSTANTS
  Jobs,      \* job IDs: every uuid.NewString() a behaviour may draw
  Workers,   \* goroutines of the worker pool (ARCHIVE_WORKERS)
  None,      \* "no job ID", "no token"
  Expiry,    \* cfg.Archive.Expiry, in clock ticks
  MaxTime    \* bound of the clock

ASSUME NoneAssumption == None \notin Jobs
ASSUME TimeAssumption == Expiry \in Nat /\ MaxTime \in Nat

VARIABLES
  now,       \* the clock
  ctxDone    \* shutdownCtx has been cancelled

(* time.Time{}: the zero time, before every reading of the clock. *)
ZeroTime == -1

(* JobStatusExpired is declared by the code and never assigned; "none" marks *)
(* an ID without an entry in the store.                                      *)
JobStatus == {"queued", "processing", "completed", "failed"}
Terminal == {"completed", "failed"}

(* The fields of model.Job a decision depends on. A download token is named  *)
(* after the job it was drawn for: 256 random bits never repeat, and a job   *)
(* ID is processed at most once.                                             *)
Job ==
  [status : JobStatus \cup {"none"}, totalFiles : Nat, processedFiles : Nat,
   downloadToken : Jobs \cup {None}, createdAt : Nat, expiresAt : Int]

NoJob ==
  [status |-> "none", totalFiles |-> 0, processedFiles |-> 0,
   downloadToken |-> None, createdAt |-> 0, expiresAt |-> ZeroTime]

Tick ==
  /\ now < MaxTime
  /\ now' = now + 1
  /\ UNCHANGED ctxDone
===============================================================================
