------------------------------- MODULE Generator -------------------------------
(***************************************************************************)
(* internal/archive/zip.go: Generate writes the files of a manifest, one   *)
(* entry each, into a ZIP or TAR archive under a byte limit, after the     *)
(* total of the declared sizes has passed ProcessJob's own check. Each     *)
(* file is fetched by internal/client/storage.go. Declared sizes come from *)
(* the database, contents from a storage server that may serve another     *)
(* size, or hang. Contents are byte counts; int64 arithmetic wraps.        *)
(***************************************************************************)
EXTENDS Integers, Sequences, FiniteSetsExt, SequencesExt

CONSTANTS
  MaxInt,          \* math.MaxInt64
  MaxSizeBytes,    \* cfg.Archive.MaxSizeBytes, validated to be positive
  RequestTimeout,  \* cfg.Storage.RequestTimeout, not validated
  MaxCount         \* bound on the files of a manifest

ASSUME GeneratorAssumption ==
  /\ MaxInt \in Nat /\ MaxSizeBytes \in 1..MaxInt /\ MaxCount \in Nat
  /\ RequestTimeout \in Int

VARIABLES
  files,           \* manifest.Files: declared size, and what will be served
  exportType,      \* "zip" or "tar"
  pc,
  next,            \* index of the file being added
  processedBytes,  \* int64
  entries,         \* bytes written to each entry so far
  progress,        \* onProgress's last processedFiles
  open             \* response bodies that are not closed

vars == <<files, exportType, pc, next, processedBytes, entries, progress, open>>

(* int64 wraps around. *)
Int64(n) == ((n + MaxInt + 1) % (2 * (MaxInt + 1))) - (MaxInt + 1)

File == [fileSize : 0..MaxInt, served : 0..MaxInt]

PC == {"check", "fetch", "connect", "headers", "drain", "create", "copy", "dirs", "ok", "failed"}

(* Bytes of the sequence of counts s, as int64 sums them up. *)
Total64(s) == FoldLeft(LAMBDA a, b : Int64(a + b), 0, s)
Total(s) == FoldLeft(LAMBDA a, b : a + b, 0, s)

(* buildManifest adds up the declared sizes and ProcessJob refuses a total  *)
(* over the limit before Generate runs.                                     *)
DeclaredTotal == Total64([i \in DOMAIN files |-> files[i].fileSize])

Init ==
  /\ files \in UNION {[1..n -> File] : n \in 0..MaxCount}
  /\ exportType \in {"zip", "tar"}
  /\ pc = IF DeclaredTotal > MaxSizeBytes THEN "failed" ELSE "check"
  /\ next = 1 /\ processedBytes = 0 /\ entries = <<>> /\ progress = 0 /\ open = 0

(* Types; in particular the int64 running total of Generate never wraps.   *)
TypeOK ==
  /\ \A i \in DOMAIN files : files[i] \in File
  /\ exportType \in {"zip", "tar"} /\ pc \in PC
  /\ next \in 1..Len(files) + 1 /\ progress \in 0..Len(files) /\ open \in 0..1
  /\ processedBytes \in 0..MaxSizeBytes + 1
  /\ \A i \in DOMAIN entries : entries[i] \in 0..MaxInt

frame == <<files, exportType>>
counts == <<next, processedBytes, entries, progress>>

(* The declared size would pass the limit. *)
OverLimit == Int64(processedBytes + files[next].fileSize) > MaxSizeBytes

(* Top of the loop: the path is sane and the declared size fits. *)
CheckFile ==
  /\ pc = "check" /\ next <= Len(files)
  /\ pc' = IF OverLimit THEN "failed" ELSE "fetch"
  /\ UNCHANGED <<counts, open, frame>>

(* Mutant: the error of a step is dropped and Generate returns nil. *)
StepFailsSilently ==
  /\ pc \in {"check", "dirs"}
  /\ pc' = "ok"
  /\ UNCHANGED <<counts, open, frame>>

(* The path does not survive sanitizeArchivePath, a directory entry or the  *)
(* final Close fails.                                                       *)
StepFails ==
  /\ pc \in {"check", "dirs"}
  /\ pc' = "failed"
  /\ UNCHANGED <<counts, open, frame>>

-------------------------------------------------------------------------------
(* httpStorageClient.Get *)

(* The server is known and the request can be built, or neither. *)
FindServer ==
  /\ pc = "fetch"
  /\ pc' \in {"connect", "failed"}
  /\ UNCHANGED <<counts, open, frame>>

(* A connection is dialled and TLS set up, or taken from the pool. *)
Connect ==
  /\ pc = "connect"
  /\ pc' \in {"headers", "failed"}
  /\ UNCHANGED <<counts, open, frame>>

(* Mutant: a client without a timeout. *)
NoHeaderTimeout == FALSE /\ UNCHANGED vars

(* Mutant: a timeout starts the archive again from its first file. *)
TimeoutRestarts ==
  /\ pc = "headers"
  /\ pc' = "check"
  /\ next' = 1 /\ processedBytes' = 0 /\ entries' = <<>> /\ progress' = 0
  /\ UNCHANGED <<open, frame>>

(* ResponseHeaderTimeout, counted from the moment the request is sent; the  *)
(* transport sets no timer for one that is not positive.                    *)
HeaderTimeout ==
  /\ RequestTimeout > 0
  /\ pc = "headers"
  /\ pc' = "failed"
  /\ UNCHANGED <<counts, open, frame>>

(* The headers arrive: a 2xx response is handed to writeFile. *)
Headers ==
  /\ pc = "headers"
  /\ pc' \in {"create", "drain"}
  /\ open' = open + 1
  /\ UNCHANGED <<counts, frame>>

(* Any other response is drained, up to a limit, and closed. *)
Drain ==
  /\ pc = "drain"
  /\ pc' = "failed"
  /\ open' = open - 1
  /\ UNCHANGED <<counts, frame>>

-------------------------------------------------------------------------------
(* writeFile *)

(* tar.Writer: a new header, a directory or Close first flushes, which      *)
(* fails when the last entry got fewer bytes than its header declared.      *)
TarShort ==
  exportType = "tar" /\ entries # <<>> /\ Last(entries) < files[Len(entries)].fileSize

(* Mutant: the body is left to the copy to close. *)
CreateFailsOpen ==
  /\ pc = "create"
  /\ pc' = "failed"
  /\ UNCHANGED <<counts, open, frame>>

(* CreateFile writes the entry's header. *)
CreateEntry ==
  /\ pc = "create" /\ ~TarShort
  /\ pc' = "copy" /\ entries' = Append(entries, 0)
  /\ UNCHANGED <<next, processedBytes, progress, open, frame>>

(* It fails, after a short TAR entry always; defer body.Close(). *)
CreateFails ==
  /\ pc = "create"
  /\ pc' = "failed"
  /\ open' = open - 1
  /\ UNCHANGED <<counts, frame>>

(* Mutant: the limit leaves no room to notice one byte too many. *)
CopyLimitExact == Max({0, Int64(MaxSizeBytes - processedBytes)})

(* io.LimitReader(body, g.MaxSizeBytes-*processedBytes+1); nothing is read  *)
(* under a limit of zero or less.                                           *)
CopyLimit == Max({0, Int64(MaxSizeBytes - processedBytes + 1)})

(* What io.CopyBuffer moves into the entry; tar.Writer stops at the         *)
(* declared size with ErrWriteTooLong.                                      *)
Copied == Min({files[next].served, CopyLimit})
TooLong == exportType = "tar" /\ Copied > files[next].fileSize

SetLast(s, n) == [s EXCEPT ![Len(s)] = n]

(* writeFile after the header, and the end of the loop body. *)
CopyBody ==
  /\ pc = "copy" /\ open' = open - 1
  /\ IF TooLong
     THEN /\ entries' = SetLast(entries, files[next].fileSize)
          /\ pc' = "failed"
          /\ UNCHANGED <<processedBytes, progress, next>>
     ELSE /\ entries' = SetLast(entries, Copied)
          /\ processedBytes' = Int64(processedBytes + Copied)
          /\ IF processedBytes' > MaxSizeBytes
             THEN pc' = "failed" /\ UNCHANGED <<progress, next>>
             ELSE pc' = "check" /\ progress' = progress + 1 /\ next' = next + 1
  /\ UNCHANGED frame

(* Mutant: what is written before a failure is not limited. *)
CopyFailsUnlimited ==
  /\ pc = "copy" /\ ~TooLong
  /\ \E n \in 0..files[next].served : entries' = SetLast(entries, n)
  /\ pc' = "failed" /\ open' = open - 1
  /\ UNCHANGED <<next, processedBytes, progress, frame>>

(* The body breaks off, or the archive cannot be written, after n bytes.    *)
CopyFails ==
  /\ pc = "copy" /\ ~TooLong
  /\ \E n \in 0..Copied : entries' = SetLast(entries, n)
  /\ pc' = "failed" /\ open' = open - 1
  /\ UNCHANGED <<next, processedBytes, progress, frame>>

(* The loop is over. *)
FilesDone ==
  /\ pc = "check" /\ next > Len(files)
  /\ pc' = "dirs"
  /\ UNCHANGED <<counts, open, frame>>

(* Mutant: the error of aw.Close() is ignored. *)
FinishUnchecked ==
  /\ pc = "dirs"
  /\ pc' = "ok"
  /\ UNCHANGED <<counts, open, frame>>

(* Empty folders and aw.Close(). *)
Finish ==
  /\ pc = "dirs"
  /\ pc' = IF TarShort THEN "failed" ELSE "ok"
  /\ UNCHANGED <<counts, open, frame>>

Next ==
  \/ CheckFile \/ FindServer \/ Connect \/ Headers \/ CreateEntry \/ CopyBody
  \/ FilesDone \/ Finish
  \/ StepFails \/ HeaderTimeout \/ Drain \/ CreateFails \/ CopyFails

Spec == Init /\ [][Next]_vars

(* Generate goes on where it can, and timers fire. Nothing is assumed of    *)
(* the storage servers.                                                     *)
FairSpec ==
  /\ Spec
  /\ WF_vars(CheckFile \/ FindServer \/ FilesDone \/ Finish)
  /\ WF_vars(CreateEntry \/ CreateFails) /\ WF_vars(HeaderTimeout)

-------------------------------------------------------------------------------
(* The contents of an archive never pass the limit by more than the one     *)
(* byte that reveals the excess, even when a server serves more than the    *)
(* database declares or the int64 sums of declared sizes wrap around; and a *)
(* finished archive is within the limit (NewGenerator: "defense in depth"). *)
CapHolds ==
  /\ Total(entries) <= MaxSizeBytes + 1
  /\ pc = "ok" => Total(entries) <= MaxSizeBytes

(* writeFile "fetches a single file from storage and streams it into a new  *)
(* archive entry": when Generate succeeds every file of the manifest has    *)
(* its entry and holds all that was served, and progress counted them all.  *)
SuccessIsComplete ==
  pc = "ok" => /\ entries = [i \in DOMAIN files |-> files[i].served]
               /\ progress = Len(files)

(* README: for TAR a server must "return exactly file_size bytes", "a       *)
(* mismatch fails the entry": a finished TAR has the declared sizes.        *)
TarSizesMatch ==
  pc = "ok" /\ exportType = "tar" => \A i \in DOMAIN files : entries[i] = files[i].fileSize

(* Whichever step fails, no response body is left open: outside writeFile   *)
(* and the draining of an error response none is (writeFile's deferred      *)
(* Close, Get for other statuses). A body left open keeps its connection.   *)
BodiesClosed == open = IF pc \in {"drain", "create", "copy"} THEN 1 ELSE 0

(* What the properties above rest on, inductive with TypeOK and             *)
(* BodiesClosed: the place in the loop of Generate decides what the archive *)
(* holds. Files before the current one are whole (their copies are not cut  *)
(* off unless the limit itself wraps, then all are empty) and no TAR entry  *)
(* is longer than declared; TAR entries before the last have been flushed.  *)
LoopInv ==
  /\ files \in Seq(File) /\ entries \in Seq(0..MaxInt)
  /\ progress = next - 1
  /\ pc \in {"fetch", "connect", "headers", "drain", "create", "copy"} => next <= Len(files)
  /\ pc \in {"dirs", "ok"} => next = Len(files) + 1
  /\ processedBytes = 0 \/ MaxSizeBytes < MaxInt
  /\ Total(entries) <= MaxSizeBytes + 1
  /\ pc # "failed" =>
       /\ Len(entries) = IF pc = "copy" THEN next ELSE next - 1
       /\ pc = "copy" => entries[next] = 0
       /\ processedBytes = Total(entries) /\ processedBytes <= MaxSizeBytes
       /\ \A i \in 1..(next - 1) :
            /\ MaxSizeBytes < MaxInt => entries[i] = files[i].served
            /\ exportType = "tar" => entries[i] <= files[i].fileSize
       /\ exportType = "tar" => \A i \in 1..(Len(entries) - 1) : entries[i] = files[i].fileSize
       /\ pc = "ok" => ~TarShort

(* The inductive invariant of Generate.                                     *)
GenerateInv == TypeOK /\ BodiesClosed /\ LoopInv

(* Generate keeps Generation's promise: it reports every file once, when it *)
(* is in the archive, and succeeds after the last one only (onProgress in   *)
(* the loop of Generate). A file that fails is never reported, whatever     *)
(* ProgressFunc's comment "(or fails)" says: Generate returns the error.    *)
Failed == pc = "failed"
G == INSTANCE Generation WITH
       state <- IF Failed THEN "idle" ELSE IF pc = "ok" THEN "done" ELSE "writing",
       added <- IF Failed THEN 0 ELSE progress,
       total <- IF Failed THEN 0 ELSE Len(files)
KeepsPromise == G!Spec

(* Connections are set up or refused, and bodies end. *)
ServersProceed == WF_vars(Connect) /\ WF_vars(Drain) /\ WF_vars(CopyBody \/ CopyFails)

(* Generate returns although a storage server takes a request and never     *)
(* answers it (NewHTTPStorageClient's requestTimeout), provided that it     *)
(* accepts connections and ends the bodies it begins and that the timeout   *)
(* is positive, which config.go's validate does not require.                *)
GenerateReturns == ServersProceed /\ RequestTimeout > 0 => <>(pc \in {"ok", "failed"})
================================================================================
