-------------------------------- MODULE Manifest --------------------------------
(***************************************************************************)
(* buildManifest of internal/service/archive.go over the queries of        *)
(* internal/repository/archive.go: the folder tree in one query, the files *)
(* page by page in further ones, no transaction around them, while other   *)
(* programs change the database. Names and paths are sequences of          *)
(* character codes, because what they share as strings is what can go      *)
(* wrong; the database and Go order them alike.                            *)
(***************************************************************************)
EXTENDS ArchivePath, FiniteSets

CONSTANTS
  Root,          \* the root folder of the job
  Subfolders,    \* the other folders
  Files,         \* file IDs, naturals: they are ordered
  Names,         \* names of folders and files
  RootDirs,      \* possible results of archiveRootDir
  PageSize,      \* filesPageSize
  MaxChanges     \* bound on the changes to the database during one read

ASSUME ManifestAssumption ==
  /\ Root \notin Subfolders /\ IsFiniteSet(Subfolders)
  /\ Files \subseteq Nat /\ IsFiniteSet(Files)
  /\ PageSize \in Nat \ {0} /\ MaxChanges \in Nat
  /\ Names \subseteq Seq(Nat \ {Sep}) \ {<<>>}
  /\ RootDirs \subseteq Seq(Nat)

VARIABLES
  folder,    \* the rows of folders
  file,      \* the rows of files
  changes,   \* changes made so far
  pc,        \* where buildManifest is
  folders,   \* the result of GetFolderTree
  files,     \* the pages read so far; in the end the files of the manifest
  cursor,    \* cursorPath and cursorFileID, <<>> when nil
  stable     \* history: files whose listing has not changed since the tree was read

database == <<folder, file, changes>>
reader == <<pc, folders, files, cursor>>
vars == <<database, reader, stable>>

-------------------------------------------------------------------------------
(* The database *)

Folders == Subfolders \cup {Root}

(* Undeleted rows, or Gone; a file without a version, or of another user    *)
(* than its folder, is as good as gone.                                     *)
Gone == [live |-> FALSE]
FolderRow == [live : {TRUE}, parent : Folders, name : Names] \cup {Gone}
FileRow == [live : {TRUE}, folder : Folders, name : Names] \cup {Gone}

(* The recursive part of folder_tree, by depth. *)
TreeLevel[n \in Nat] ==
  IF n = 0
  THEN {[id |-> d, path |-> folder[d].name] : d \in {d \in {Root} : folder[d].live}}
  ELSE {[id |-> c[1], path |-> c[2].path \o <<Sep>> \o folder[c[1]].name] :
          c \in {d \in Subfolders \X TreeLevel[n - 1] :
                   folder[d[1]].live /\ folder[d[1]].parent = d[2].id}}

FolderTree == UNION {TreeLevel[n] : n \in 0..Cardinality(Subfolders)}

(* The files of resolved. *)
Resolved ==
  {[id |-> e[1], path |-> e[2].path \o <<Sep>> \o file[e[1]].name] :
     e \in {d \in Files \X FolderTree : file[d[1]].live /\ file[d[1]].folder = d[2].id}}

(* p < q, character by character. *)
PathLess(p, q) ==
  \E i \in 1..Len(q) :
    /\ i <= Len(p) + 1
    /\ \A k \in 1..(i - 1) : p[k] = q[k]
    /\ i <= Len(p) => p[i] < q[i]

(* ORDER BY archive_path, file_id *)
RowLess(a, b) == PathLess(a.path, b.path) \/ (a.path = b.path /\ a.id < b.id)

(* Mutant: the cursor itself is read again. *)
AfterOrAt(e, c) == ~RowLess(e, c)

(* (archive_path, file_id) > (cursor) *)
After(e, c) == RowLess(c, e)

Ascending(s) == \A i, k \in 1..Len(s) : i < k => RowLess(s[i], s[k])

(* All the rows, in order. *)
Ordered(rows) == CHOOSE s \in [1..Cardinality(rows) -> rows] : Ascending(s)

(* WHERE cursor IS NULL OR ... > cursor ORDER BY archive_path, file_id LIMIT $4 *)
PageAfter(c) ==
  LET rows == {e \in Resolved : c = <<>> \/ After(e, c[1])}
      ordered == Ordered(rows)
  IN  SubSeq(ordered, 1, IF Len(ordered) < PageSize THEN Len(ordered) ELSE PageSize)

-------------------------------------------------------------------------------
(* computeEmptyFolders *)

HasPrefix(p, s) == Len(s) <= Len(p) /\ SubSeq(p, 1, Len(s)) = s

(* sort.SearchStrings on the sorted paths, then one prefix test: only the   *)
(* smallest path that is not before the target is looked at.                *)
HasPathFrom(paths, target) ==
  \E p \in paths :
    /\ ~PathLess(p, target)
    /\ \A q \in paths : ~PathLess(q, target) => ~PathLess(q, p)
    /\ HasPrefix(p, target)

(* Mutant: the separator is left out of the target. *)
HasFileByPrefix(paths, prefix) == HasPathFrom(paths, prefix)

HasFileInSubtree(paths, prefix) == HasPathFrom(paths, prefix \o <<Sep>>)

ComputeEmptyFolders(ds, fs) ==
  LET paths == {fs[i].path : i \in 1..Len(fs)}
  IN  {d \in ds : ~HasFileInSubtree(paths, d.path)}

Rebased(e, dir) == [e EXCEPT !.path = RebaseArchivePath(e.path, dir)]

(* The Files and EmptyFolders of the manifest, for a result of archiveRootDir. *)
ManifestFiles(dir) == [i \in 1..Len(files) |-> Rebased(files[i], dir)]
EmptyFolders(dir) == ComputeEmptyFolders({Rebased(d, dir) : d \in folders}, ManifestFiles(dir))

-------------------------------------------------------------------------------
Init ==
  /\ folder \in [Folders -> FolderRow]
  /\ folder[Root].live => folder[Root].parent = Root
  /\ file \in [Files -> FileRow]
  /\ changes = 0
  /\ pc = "tree" /\ folders = {} /\ files = <<>> /\ cursor = <<>>
  /\ stable = {}

GetFolderTree ==
  /\ pc = "tree"
  /\ folders' = FolderTree
  /\ pc' = "page"
  /\ stable' = Resolved
  /\ UNCHANGED <<database, files, cursor>>

(* Mutant: the cursor is the first row of the page. *)
CursorAtHead ==
  /\ pc = "page"
  /\ LET page == PageAfter(cursor) IN
       /\ files' = files \o page
       /\ IF Len(page) < PageSize
          THEN pc' = "done" /\ UNCHANGED cursor
          ELSE cursor' = <<Head(page)>> /\ UNCHANGED pc
  /\ UNCHANGED <<database, folders, stable>>

(* Mutant: a full page passes for the last one. *)
StopAtFullPage ==
  /\ pc = "page"
  /\ files' = files \o PageAfter(cursor)
  /\ pc' = "done"
  /\ UNCHANGED <<database, folders, cursor, stable>>

(* One turn of the loop of GetFilesForFolderTree. *)
GetFilesPage ==
  /\ pc = "page"
  /\ LET page == PageAfter(cursor) IN
       /\ files' = files \o page
       /\ IF Len(page) < PageSize
          THEN pc' = "done" /\ UNCHANGED cursor
          ELSE cursor' = <<Last(page)>> /\ UNCHANGED pc
  /\ UNCHANGED <<database, folders, stable>>

(* A query fails: buildManifest returns its error. *)
QueryFails ==
  /\ pc \in {"tree", "page"}
  /\ pc' = "failed"
  /\ UNCHANGED <<database, folders, files, cursor, stable>>

(* Another program changes one row: creates, renames, moves or deletes. The *)
(* root stays where it is in the tree.                                      *)
Change ==
  /\ pc = "page"
  /\ changes < MaxChanges
  /\ changes' = changes + 1
  /\ \/ \E d \in Folders, r \in FolderRow :
          /\ d = Root /\ r.live => r.parent = Root
          /\ folder' = [folder EXCEPT ![d] = r] /\ UNCHANGED file
     \/ \E f \in Files, r \in FileRow :
          file' = [file EXCEPT ![f] = r] /\ UNCHANGED folder
  /\ stable' = stable \cap Resolved'
  /\ UNCHANGED reader

Next == GetFolderTree \/ GetFilesPage \/ QueryFails \/ Change

Spec == Init /\ [][Next]_vars

-------------------------------------------------------------------------------
(* A file whose path did not change while the pages were read is in the     *)
(* manifest exactly once, whatever happened to the rows around it: keyset   *)
(* pages, unlike pages by offset, do not shift (repository/archive.go       *)
(* GetFilesForFolderTree).                                                  *)
StableFilesOnce ==
  pc = "done" => \A e \in stable :
    \E i \in 1..Len(files) : files[i] = e /\ \A k \in 1..Len(files) : files[k].id = e.id => k = i

(* No two entries of the manifest are the same file under the same path,    *)
(* and the pages are in order across their boundaries, although each is a   *)
(* query of its own (the cursor of GetFilesForFolderTree).                  *)
PagesAscend == Ascending(files)

(* With PagesAscend inductive: what the reader keeps, and that every file   *)
(* not touched so far was read, under its only path, or comes after the     *)
(* cursor, which is the last row read (GetFilesForFolderTree's loop).       *)
Row == [id : Files, path : Seq(Nat)]
Listed(e) == \E i \in 1..Len(files) : files[i] = e
ReadInv ==
  /\ folder \in [Folders -> FolderRow] /\ file \in [Files -> FileRow]
  /\ pc \in {"tree", "page", "done", "failed"}
  /\ folders \subseteq [id : Folders, path : Seq(Nat)] /\ files \in Seq(Row)
  /\ pc = "tree" => files = <<>>
  /\ pc \in {"tree", "page"} => cursor = IF files = <<>> THEN <<>> ELSE <<Last(files)>>
  /\ stable \subseteq Resolved
  /\ \A e \in stable :
       /\ \A k \in 1..Len(files) : files[k].id = e.id => files[k] = e
       /\ pc = "page" => Listed(e) \/ cursor = <<>> \/ After(e, cursor[1])
       /\ pc = "done" => Listed(e)

(* The binary search finds what a scan by path segments would: a folder is  *)
(* listed as empty exactly when no file of the manifest is below it, also   *)
(* beside folders and files whose name continues its own (service/          *)
(* archive.go computeEmptyFolders after rebaseArchivePath).                 *)
EmptyFoldersExact ==
  pc = "done" =>
    \A d \in folders, dir \in RootDirs :
      Rebased(d, dir) \in EmptyFolders(dir) <=>
        ~ \E i \in 1..Len(files) :
            LET p == ManifestFiles(dir)[i].path  r == Rebased(d, dir).path
            IN  Len(p) > Len(r) /\ p[Len(r) + 1] = Sep /\ \A k \in 1..Len(r) : p[k] = r[k]

================================================================================
