----------------------------- MODULE ArchiveFiles -----------------------------
(***************************************************************************)
(* internal/storage/local.go: per job one "<id>.zip.tmp" and one           *)
(* "<id>.zip" in the archive directory. The directory is the only state    *)
(* that survives the process.                                              *)
(*                                                                         *)
(* Delete removes the temp path, then the final one. The only operation of *)
(* another goroutine that could fall between the two removals with an      *)
(* effect is RenameTemp, and whichever side of the first removal it falls  *)
(* on, the file ends up removed or the rename fails; so Delete is one step.*)
(***************************************************************************)
EXTENDS ArchiveModel

CONSTANT MaxFaults   \* bound on removals and directory reads that fail

ASSUME FaultsAssumption == MaxFaults \in Nat

VARIABLES disk, faults

(* "partial": an archive the writer has not finished and closed. *)
Content == {"none", "partial", "whole"}
Files == [tmp : Content, final : Content]
NoFiles == [tmp |-> "none", final |-> "none"]

FilesInit == disk = [j \in Jobs |-> NoFiles] /\ faults = 0

FilesTypeOK == disk \in [Jobs -> Files] /\ faults \in Nat

(* os.OpenFile(temp, O_CREATE|O_WRONLY|O_TRUNC) *)
FilesCreate(j) == disk' = [disk EXCEPT ![j].tmp = "partial"]

(* Writing and closing reach the directory entry only while it exists: an  *)
(* unlinked temp file is written through its descriptor and then lost.     *)
FilesClose(j) ==
  disk' = [disk EXCEPT ![j].tmp = IF @ = "none" THEN "none" ELSE "whole"]

HasTemp(j) == disk[j].tmp # "none"

(* os.Rename: replaces the final path, fails when there is no temp path.   *)
RenameTemp(j) ==
  HasTemp(j) /\ disk' = [disk EXCEPT ![j] = [tmp |-> "none", final |-> @.tmp]]

FilesDelete(j) == disk' = [disk EXCEPT ![j] = NoFiles] /\ UNCHANGED faults

(* os.Remove fails on the temp path (nothing is removed) or on the final   *)
(* one (the temp path is gone already).                                    *)
FilesDeleteFails(j) ==
  /\ faults < MaxFaults
  /\ faults' = faults + 1
  /\ \/ UNCHANGED disk
     \/ disk' = [disk EXCEPT ![j].tmp = "none"]

(* Mutant: temp files are not listed. *)
OnDiskFinal == {j \in Jobs : disk[j].final # "none"}

(* ListJobIDs: the IDs with a temp or a final file. *)
OnDisk == {j \in Jobs : disk[j] # NoFiles}
===============================================================================
