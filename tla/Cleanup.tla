-------------------------------- MODULE Cleanup --------------------------------
(***************************************************************************)
(* internal/worker/cleanup.go: the sweeper. One sweep lists the job store, *)
(* removes the expired jobs of that snapshot, lists the archive directory  *)
(* and deletes every file whose ID the snapshot does not hold. The ticker  *)
(* only decides when the next sweep starts: any moment.                    *)
(***************************************************************************)
EXTENDS JobStore, DownloadTokens, ArchiveFiles

VARIABLES
  spc,       \* where the sweeper is
  snapshot,  \* the copies List returned
  doomed,    \* expired jobs of the snapshot still to be removed
  tracked,   \* the other jobs of the snapshot
  victim,    \* removeJob's jobID
  orphans    \* untracked IDs on disk still to be deleted

cleanupVars == <<spc, snapshot, doomed, tracked, victim, orphans>>

SweepPC == {"start", "idle", "listed", "remove", "revoke", "drop", "orphans", "stopped"}

CleanupInit ==
  /\ spc = "start" /\ snapshot = [j \in Jobs |-> NoJob]
  /\ doomed = {} /\ tracked = {} /\ victim = None /\ orphans = {}

CleanupTypeOK ==
  /\ spc \in SweepPC
  /\ snapshot \in [Jobs -> Job]
  /\ doomed \subseteq Jobs
  /\ tracked \subseteq Jobs
  /\ victim \in Jobs \cup {None}
  /\ orphans \subseteq Jobs

(* ExpiresAt, or CreatedAt + ttlFallback (the same Expiry) when unset. *)
Deadline(rec) ==
  IF rec.expiresAt = ZeroTime THEN rec.createdAt + Expiry ELSE rec.expiresAt

(* Mutant: no fallback for jobs without ExpiresAt. *)
IsExpiredNoFallback(rec) ==
  rec.status # "none" /\ rec.expiresAt # ZeroTime /\ now > rec.expiresAt

IsExpired(rec) == rec.status # "none" /\ now > Deadline(rec)

cleanupFrame == <<now, ctxDone>>

(* Run sweeps once when it starts, then at every tick. *)
SweepList ==
  /\ spc \in {"start", "idle"}
  /\ spc' = "listed"
  /\ snapshot' = jobs
  /\ UNCHANGED <<doomed, tracked, victim, orphans, jobs, tokens, disk, faults, cleanupFrame>>

(* now := time.Now() and the isExpired tests, which only read the snapshot. *)
SweepSelect ==
  /\ spc = "listed"
  /\ spc' = "remove"
  /\ doomed' = {j \in Jobs : IsExpired(snapshot[j])}
  /\ tracked' = {j \in Jobs : snapshot[j].status # "none" /\ ~IsExpired(snapshot[j])}
  /\ snapshot' = [j \in Jobs |-> NoJob]
  /\ UNCHANGED <<victim, orphans, jobs, tokens, disk, faults, cleanupFrame>>

(* removeJob: files, tokens, record; a failed file deletion is logged.      *)
RemoveArchive(j) ==
  /\ spc = "remove"
  /\ j \in doomed
  /\ FilesDelete(j) \/ FilesDeleteFails(j)
  /\ spc' = "revoke"
  /\ victim' = j
  /\ UNCHANGED <<snapshot, doomed, tracked, orphans, jobs, tokens, cleanupFrame>>

RevokeTokens ==
  /\ spc = "revoke"
  /\ Revoke(victim)
  /\ spc' = "drop"
  /\ UNCHANGED <<snapshot, doomed, tracked, victim, orphans, jobs, disk, faults, cleanupFrame>>

DropRecord ==
  /\ spc = "drop"
  /\ StoreDelete(victim)
  /\ spc' = "remove"
  /\ doomed' = doomed \ {victim}
  /\ victim' = None
  /\ UNCHANGED <<snapshot, tracked, orphans, tokens, disk, faults, cleanupFrame>>

(* c.files.ListJobIDs() *)
ListArchives ==
  /\ spc = "remove"
  /\ doomed = {}
  /\ spc' = "orphans"
  /\ orphans' = OnDisk \ tracked
  /\ tracked' = {}
  /\ UNCHANGED <<snapshot, doomed, victim, jobs, tokens, disk, faults, cleanupFrame>>

(* The directory cannot be read: the sweep ends. *)
ListArchivesFails ==
  /\ spc = "remove"
  /\ doomed = {}
  /\ faults < MaxFaults
  /\ faults' = faults + 1
  /\ spc' = "idle"
  /\ tracked' = {}
  /\ UNCHANGED <<snapshot, doomed, victim, orphans, jobs, tokens, disk, cleanupFrame>>

RemoveOrphan(j) ==
  /\ spc = "orphans"
  /\ j \in orphans
  /\ FilesDelete(j) \/ FilesDeleteFails(j)
  /\ orphans' = orphans \ {j}
  /\ UNCHANGED <<spc, snapshot, doomed, tracked, victim, jobs, tokens, cleanupFrame>>

SweepEnds ==
  /\ spc = "orphans"
  /\ orphans = {}
  /\ spc' = "idle"
  /\ UNCHANGED <<snapshot, doomed, tracked, victim, orphans, jobs, tokens, disk, faults, cleanupFrame>>

(* The select of Run, between two sweeps. *)
CleanupStops ==
  /\ spc = "idle"
  /\ ctxDone
  /\ spc' = "stopped"
  /\ UNCHANGED <<snapshot, doomed, tracked, victim, orphans, jobs, tokens, disk, faults, cleanupFrame>>

SweepStep ==
  \/ SweepSelect \/ RevokeTokens \/ DropRecord \/ ListArchives
  \/ ListArchivesFails \/ SweepEnds
  \/ \E j \in Jobs : RemoveArchive(j) \/ RemoveOrphan(j)
================================================================================
