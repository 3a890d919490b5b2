------------------------------- MODULE JobStore -------------------------------
(***************************************************************************)
(* internal/job/store.go: the in-memory map from job ID to job. Every      *)
(* method holds the mutex for its whole body and copies the job in and out *)
(* (Clone), so each is one atomic step and readers keep stale copies.      *)
(***************************************************************************)
EXTENDS ArchiveModel

VARIABLE jobs

StoreInit == jobs = [j \in Jobs |-> NoJob]

StoreTypeOK == jobs \in [Jobs -> Job]

(* `_, exists := s.jobs[id]` *)
Exists(j) == jobs[j].status # "none"

(* Create refuses an ID that is already present. *)
StoreCreate(j, rec) == ~Exists(j) /\ jobs' = [jobs EXCEPT ![j] = rec]

(* Mutant: an Update that puts a missing job back. *)
StoreUpsert(j, rec) == jobs' = [jobs EXCEPT ![j] = rec]

(* Update replaces a present job and refuses (ErrNotFound) a missing one. *)
StoreUpdate(j, rec) == jobs' = IF Exists(j) THEN [jobs EXCEPT ![j] = rec] ELSE jobs

(* Deleting an unknown job is not an error. *)
StoreDelete(j) == jobs' = [jobs EXCEPT ![j] = NoJob]
===============================================================================
