-------------------------------- MODULE Requests --------------------------------
(***************************************************************************)
(* One request to POST /internal/archives, from requireAPIToken of         *)
(* internal/server/server.go through Create of internal/handler/archive.go *)
(* and the checks of CreateJob, to the entry that Generate writes for one  *)
(* file of the folder. What the queue, the workers and the database do     *)
(* meanwhile is in ArchiveSystem and Manifest.                             *)
(***************************************************************************)
EXTENDS ArchivePath

CONSTANTS
  RequestNames,   \* archive_name values of requests
  StoredNames,    \* names of folders and files in the database
  MaxDepth        \* names on the way to a file

ASSUME RequestsAssumption ==
  RequestNames \subseteq Seq(Nat) /\ StoredNames \subseteq Seq(Nat) /\ MaxDepth \in Nat

VARIABLES
  pc,      \* where the request is
  code,    \* the status of the response, 0 before it
  name,    \* archive_name: as sent, then as validated
  stored,  \* the names on the way to the file, from the root folder on
  path,    \* ArchivePath of the file
  entry    \* the path of the archive entry

job == <<stored, path, entry>>
vars == <<pc, code, name, job>>

Init ==
  /\ name \in RequestNames
  /\ pc = "auth" /\ code = 0 /\ stored = <<>> /\ path = <<>> /\ entry = <<>>

(* Types; a response ends a request that has not been accepted. *)
TypeOK ==
  /\ pc \in {"auth", "decode", "check", "verify", "queue", "manifest", "sanitize",
             "refused", "failed", "written"}
  /\ code \in {0, 202, 400, 401, 404, 500, 503}
  /\ name \in Seq(Nat) /\ path \in Seq(Nat) /\ stored \in Seq(Seq(Nat)) /\ entry \in Seq(Seq(Nat))
  /\ pc = "refused" <=> code \notin {0, 202}
  /\ pc \in {"manifest", "sanitize", "failed", "written"} <=> code = 202

(* Mutant: no return after writeError. *)
RefuseGoesOn(c) == code' = c /\ UNCHANGED <<pc, name, job>>

(* writeError, and the handler returns. *)
Refuse(c) == pc' = "refused" /\ code' = c /\ UNCHANGED <<name, job>>

GoOn(next) == pc' = next /\ UNCHANGED <<code, name, job>>

(* X-API-Token matches or does not. *)
RequireAPIToken == pc = "auth" /\ (GoOn("decode") \/ Refuse(401))

(* json.Decode of at most maxCreateBodyBytes. *)
Decode == pc = "decode" /\ (GoOn("check") \/ Refuse(400))

(* CreateJob up to its validations: 503 while shutting down, 400 for a bad  *)
(* root_folder_id, archive_name or export_type.                             *)
CheckRequest ==
  /\ pc = "check"
  /\ \/ Refuse(503)
     \/ Refuse(400)
     \/ LET valid == ValidateArchiveName(name) IN
          /\ valid.ok
          /\ pc' = "verify" /\ name' = valid.value /\ UNCHANGED <<code, job>>

(* FolderExists: an error, no such folder, or the folder. *)
VerifyFolder == pc = "verify" /\ (Refuse(500) \/ Refuse(404) \/ GoOn("queue"))

(* The queue is full, or has room: 202. *)
QueueJob ==
  /\ pc = "queue"
  /\ \/ Refuse(503)
     \/ pc' = "manifest" /\ code' = 202 /\ UNCHANGED <<name, job>>

(* The archive_path of the query. *)
Join(p, s) == p \o <<Sep>> \o s
Joined(segs) == FoldLeft(Join, Head(segs), Tail(segs))

(* buildManifest: a file of the root folder or of a subfolder, rebased. *)
RebaseFile ==
  /\ pc = "manifest"
  /\ \E n \in 2..MaxDepth : stored' \in [1..n -> StoredNames]
  /\ path' = RebaseArchivePath(Joined(stored'), ArchiveRootDir(name))
  /\ pc' = "sanitize"
  /\ UNCHANGED <<code, name, entry>>

(* Generate: the path becomes an entry, or the job fails. *)
SanitizeFile ==
  /\ pc = "sanitize"
  /\ LET result == SanitizeArchivePath(path) IN
       IF result.ok
       THEN pc' = "written" /\ entry' = result.value
       ELSE pc' = "failed" /\ UNCHANGED entry
  /\ UNCHANGED <<code, name, stored, path>>

Next ==
  \/ RequireAPIToken \/ Decode \/ CheckRequest \/ VerifyFolder \/ QueueJob
  \/ RebaseFile \/ SanitizeFile

Spec == Init /\ [][Next]_vars

-------------------------------------------------------------------------------
(* An entry is a relative path inside the archive: no segment is empty or a *)
(* dot segment, and none holds a separator of any system or a NUL, whatever *)
(* names the database holds (zip.go sanitizeArchivePath). Nor does it begin *)
(* with a drive letter, but for one exception to the "no drive letters" of  *)
(* that function's comment and of the README: the test looks at the path    *)
(* before path.Clean does, so a name that comes first only because Clean    *)
(* drops the ones before it is not tested.                                  *)
EntriesInside ==
  pc = "written" =>
    /\ entry # <<>>
    /\ \A i \in 1..Len(entry) :
         /\ entry[i] \notin {<<>>, <<Dot>>, DotDot}
         /\ ~Has(entry[i], Sep) /\ ~Has(entry[i], Backslash) /\ ~Has(entry[i], Nul)
    /\ DriveLetter(Head(entry)) => Head(entry) # Head(Split(Normalize(path)))

(* Files and folders with plain names. *)
Plain ==
  \A i \in 1..Len(stored) :
    stored[i] \notin {<<>>, <<Dot>>, DotDot} /\ \A c \in {Nul, Sep, Backslash} : ~Has(stored[i], c)

RootDir == IF ArchiveRootDir(name) = <<>> THEN Head(stored) ELSE ArchiveRootDir(name)

(* Every file is packed under one directory, named after the archive        *)
(* without its extension, or after the folder when nothing of that is left, *)
(* and nothing else of its path changes: the four functions on the way from *)
(* the request to the entry agree on names. The exception is a colon as     *)
(* second character of the directory, which validateArchiveName accepts and *)
(* sanitizeArchivePath refuses.                                             *)
EntryIsChosenPath ==
  pc \in {"failed", "written"} /\ Plain /\ ~DriveLetter(RootDir) =>
    pc = "written" /\ entry = <<RootDir>> \o Tail(stored)

(* The inductive invariant: past its checks a request has a name that       *)
(* validateArchiveName would leave as it is; what buildManifest and         *)
(* Generate make of it depends on that name and the stored ones only.       *)
RequestInv ==
  /\ TypeOK
  /\ pc \notin {"auth", "decode", "check", "refused"} => ValidateArchiveName(name) = Ok(name)
  /\ pc \in {"sanitize", "failed", "written"} =>
       /\ Len(stored) \in 2..MaxDepth /\ \A i \in 1..Len(stored) : stored[i] \in StoredNames
       /\ path = RebaseArchivePath(Joined(stored), ArchiveRootDir(name))
  /\ pc = "failed" => ~SanitizeArchivePath(path).ok
  /\ pc = "written" => SanitizeArchivePath(path) = Ok(entry)
================================================================================
