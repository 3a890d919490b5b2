------------------------------- MODULE ArchivePath -------------------------------
(***************************************************************************)
(* The string functions behind the names of archives and of their entries: *)
(* validateArchiveName, archiveRootDir and rebaseArchivePath of            *)
(* internal/service/archive.go, sanitizeArchivePath of                     *)
(* internal/archive/zip.go. A string is a sequence of characters of one    *)
(* byte each, given by their codes; Ext stands for "zip" or "tar" in any   *)
(* case.                                                                   *)
(***************************************************************************)
EXTENDS Integers, Sequences, SequencesExt

CONSTANT MaxName   \* the 255 of archiveNamePattern

ASSUME NameAssumption == MaxName \in Nat \ {0}

Nul == 0
Space == 32
Dot == 46
Sep == 47
Colon == 58
Backslash == 92
Ext == 122

(* The results of the functions that may fail. *)
Ok(v) == [ok |-> TRUE, value |-> v]
Error == [ok |-> FALSE]

DotDot == <<Dot, Dot>>

Has(s, c) == \E i \in 1..Len(s) : s[i] = c

(* strings.TrimSpace *)
TrimSpace(s) ==
  LET inner == {i \in 1..Len(s) : s[i] # Space} IN
  IF inner = {} THEN <<>>
  ELSE SubSeq(s, CHOOSE i \in inner : \A k \in inner : i <= k,
                 CHOOSE i \in inner : \A k \in inner : i >= k)

ValidateArchiveName(raw) ==
  LET name == TrimSpace(raw) IN
  IF /\ name # <<>> /\ Len(name) <= MaxName
     /\ ~Has(name, Sep) /\ ~Has(name, Backslash) /\ ~Has(name, Nul)
     /\ name \notin {<<Dot>>, DotDot}
  THEN Ok(name) ELSE Error

(* Mutant: what is left of the name is not looked at. *)
RootDirUnchecked(archiveName) ==
  IF Len(archiveName) >= 2 /\ IsSuffix(<<Dot, Ext>>, archiveName)
  THEN TrimSpace(SubSeq(archiveName, 1, Len(archiveName) - 2))
  ELSE archiveName

ArchiveRootDir(archiveName) ==
  LET name == TrimSpace(archiveName)
      stem == IF IsSuffix(<<Dot, Ext>>, name)
              THEN TrimSpace(SubSeq(name, 1, Len(name) - 2)) ELSE name
  IN  IF stem \in {<<Dot>>, DotDot} THEN <<>> ELSE stem

(* rebaseArchivePath: the first segment is replaced by root. *)
RebaseArchivePath(p, root) ==
  LET seps == {i \in 1..Len(p) : p[i] = Sep} IN
  IF root = <<>> THEN p
  ELSE IF seps = {} THEN root
  ELSE root \o SubSeq(p, CHOOSE i \in seps : \A k \in seps : i <= k, Len(p))

-------------------------------------------------------------------------------
(* strings.Split(p, "/"): a separator begins a new segment. *)
SplitAt(segs, c) ==
  IF c = Sep THEN Append(segs, <<>>) ELSE [segs EXCEPT ![Len(segs)] = Append(@, c)]
Split(p) == FoldLeft(SplitAt, <<<<>>>>, p)

(* path.Clean of a relative path, as its segments; <<>> is ".". *)
Resolve(segs, s) ==
  IF s \in {<<>>, <<Dot>>} THEN segs
  ELSE IF s = DotDot /\ segs # <<>> /\ Last(segs) # DotDot THEN Front(segs)
  ELSE Append(segs, s)
ResolveAll(segs) == FoldLeft(Resolve, <<>>, segs)
Clean(p) == ResolveAll(Split(p))

(* Mutant: backslashes stay. *)
NormalizeNothing(p) == p

(* strings.ReplaceAll(p, "\\", "/") *)
Normalize(p) == [i \in 1..Len(p) |-> IF p[i] = Backslash THEN Sep ELSE p[i]]

(* A Windows drive letter, as sanitizeArchivePath knows it. *)
DriveLetter(s) == Len(s) >= 2 /\ s[2] = Colon

(* The cleaned path, as its segments. *)
SanitizeArchivePath(p) ==
  LET normalized == Normalize(p)
      cleaned == Clean(normalized)
  IN  IF \/ p = <<>>
         \/ Has(normalized, Nul)
         \/ DriveLetter(normalized)
         \/ normalized[1] = Sep
         \/ cleaned = <<>>
         \/ \E i \in 1..Len(cleaned) : cleaned[i] \in {<<>>, <<Dot>>, DotDot}
      THEN Error ELSE Ok(cleaned)
================================================================================
