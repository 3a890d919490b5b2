# A TLA+ model of the YFS Archive API

The service packs a folder of a file system (tree and metadata in PostgreSQL,
contents on storage servers) into one ZIP or TAR archive. A client asks for an
archive, watches its progress, and downloads it with a token until it expires.
Everything but the archive files lives in the memory of one process.

## Inventory

| Part | State | Operations | Model |
|---|---|---|---|
| `service/archive.go` | `accepting`, bounded `queue` | `CreateJob` (HTTP goroutines), `ProcessJob` (workers) | `ArchiveService` |
| | one manifest | `buildManifest`, `computeEmptyFolders` | `Manifest` |
| `job/store.go` | map from ID to job | `Create`, `Get`, `Update`, `Delete`, `List`, each under a mutex, copying | `JobStore` |
| `worker/worker.go` | the worker goroutines | `loop`: select between shutdown and queue | `ArchiveService` |
| `worker/cleanup.go` | one sweeper goroutine | `sweep`, `removeJob` | `Cleanup` |
| `storage/local.go` | `<id>.zip.tmp`, `<id>.zip` | `Create`, `RenameTemp`, `Delete`, `ListJobIDs` | `ArchiveFiles` |
| `token/token.go` | map from token to job and expiry | `Issue`, `Validate`, `Revoke` | `DownloadTokens` |
| `cmd/server/main.go` | contexts, deferred calls | start, ordered shutdown with a timeout | `Startup`, `ArchiveSystem` |
| `archive/zip.go` | running totals of one archive, open bodies | `Generate`, `writeFile` | `Generator`, `Generation` |
| | | `sanitizeArchivePath` | `ArchivePath` |
| `client/storage.go` | one request per file | `Get` and its timeout | `Generator` |
| `repository/archive.go` | external database | folder tree, files page by page | `Manifest` |
| `repository/postgres.go`, `storage_server.go` | the pool | `NewPool`, `Close`, `ListServers` | `Startup`, `ArchiveSystem` |
| `handler/download.go`, `handler/sse.go` | one goroutine per request | `Download`, `Events` | `Http` |
| `handler/archive.go`, `handler.go` | one request | `Create`, statuses | `Requests` |
| `server/server.go` | none that changes | `requireAPIToken` | `Requests` |
| `config/`, `logger/` | the configuration | `Load`, `validate`, `New` | `Startup` |
| `model/archive.go` | types | | `ArchiveModel` |

Hard behaviours: request handlers, workers and the sweeper share four stores
(records, queue, tokens, directory) with no lock across two of them; the
sweeper works on a snapshot; workers overwrite records with their own copies;
shutdown races all of them against a timeout; after a restart only the
directory is left; the database changes between the queries of one manifest;
storage servers hang or serve other sizes than declared. `PROJECT.json` lists
each hazard at its line.

What correctness means here: a job has one owner and is never stranded; a final
file is always a whole archive; a published token works until the published
expiry, or until the sweeper removes its job; records only move forward and never come back; disk and records are
eventually reclaimed; shutdown drains, and ends; the size cap holds and a
finished archive is complete; the manifest lists what did not change exactly
once; entries have the path the client chose; a failed start leaves nothing
open.

## Modules

- `ArchiveModel`: constants, the clock `now`, the shutdown context `ctxDone`,
  the job record. A download token is named by the job it is drawn for.
- `JobStore`, `DownloadTokens`, `ArchiveFiles`: one operator per method, each
  an atomic step, because the code holds the store's mutex (or makes one system
  call). `ArchiveFiles` says why `Delete`, two calls, may be one step.
- `ArchiveService`: `CreateJob` is `BeginCreate`, `VerifyFails`,
  `CreateRecord`, `Enqueue`, `RollBack`; a request is named by the ID it will
  draw. A worker is at `wpc[w]`, with job ID `wid[w]` and its own copy `cur[w]`
  of the record; `GetJob` to `CompleteJob` are the accesses of `ProcessJob` to
  shared state, in their order, with their error paths.
- `Cleanup`: `SweepList` (the snapshot), `SweepSelect`, then per expired job
  `RemoveArchive`, `RevokeTokens`, `DropRecord`, then `ListArchives` and
  `RemoveOrphan`. The first sweep starts with the process.
- `ArchiveSystem`: the composition, shutdown, a failing HTTP server (open
  connections stay served), the deferred closing of the database pool (a create
  begun then fails at once), crash and restart, and all properties
  of the composed system.
- `JobLifecycle`: the abstract specification of a job: absent, queued,
  processing, completed or failed, gone. `ArchiveSystem` implements it under
  the mapping `LifecycleState`.
- `Generation`: the contract between a worker and `Generate`: files are added
  and reported one at a time, success means all of them. `Generator` implements
  it (`KeepsPromise`), and every worker of `ArchiveSystem` stays within it
  (`RelyOnPromise`): this is how the two models fit together.
- `Generator`: one run of `Generate` with the storage client's `Get`. Files are
  pairs of a declared size (from the database) and a served size (from the
  storage server); int64 arithmetic wraps at `MaxInt`; `open` counts response
  bodies.
- `ArchivePath`: the functions on names and paths, on sequences of codes of
  one-byte characters: `validateArchiveName`, `archiveRootDir`, `rebaseArchivePath`,
  `sanitizeArchivePath`. The code of `z` stands for the letters of an extension.
- `Requests`: one `POST /internal/archives`, from the API token through
  decoding, validation, folder check and queue to its status, and on to the
  entry of one file of its job.
- `Manifest`: `buildManifest` over the database. `GetFolderTree` is one query,
  each `GetFilesPage` another; `Change` is any other program changing one row
  between them. `stable` is a history variable.
- `Startup`: `run` from `config.Load` to its return. A variable of the
  environment is unset, malformed, or one of a few values; `open` and
  `deferred` are what is set up and what will release it. While it serves, the
  process is `ArchiveSystem`.
- `Http`: the readers over `ArchiveSystem`. `Download` is `DownloadGet`,
  `DownloadValidate`, `DownloadOpen`, `DownloadEnds`, one step per store it
  reads; `Events` is `EventsConnect`, `EventsPoll`, `EventsDisconnect`,
  `EventsShutdown`, and `shown` the progress last sent. `HttpShutdown` is
  `httpServer.Shutdown`, which waits for both up to the timeout. One of each at
  a time: readers change nothing that another reader sees.
- `ArchiveTypeProofs`, `ArchiveSafetyProofs`, `ArchiveHistoryProofs`: lemmas
  and theorems about the composed system and its readers, each module on the
  one before. `GeneratorProofs`, `ManifestProofs`, `RequestsProofs`,
  `StartupProofs`: about the module each is named after. `NatInduction`:
  induction over naturals and sequences, and what a fold computes, in a form
  the provers can use.
- `MCArchive`, `MCHttp`, `MCGenerator`, `MCManifest`, `MCRequests`,
  `MCStartup`: the modules TLC runs.

Definitions whose comment begins with "Mutant" are wrong variants of the
definition that follows; no specification uses them. They record, for every
property, a plausible mistake in the code that the property would catch.

## Runs

| Run | Instance | Shows |
|---|---|---|
| `pool` | 2 jobs, 2 workers, queue of 1, sweeper, clock 0..2, expiry 1 | `TypeOK`, `OneOwner`, `NoLostJob`, `PublishedIsWhole`, `TokenHonoured`, `ProgressIsTrue`, `NoStrayTemp`, `RefusedLeavesNothing`, `RecordsAdvance`, `Lifecycle` |
| `restart` | 2 jobs, 1 worker, expiry 0, one shutdown, server failure or crash and a restart | `SafetyInv` and `HistoryInv` (the inductive invariants) |
| `live` | 1 job, 1 worker, one storage fault, one exit as above, fairness | `RelyOnPromise`, `JobsSettle`, `DiskReclaimed`, `ExpiredRemoved`, `ShutdownEnds` |
| `generate` | up to 2 files, int64 of -6..5, limit 4, ZIP and TAR, fairness | `CapHolds`, `SuccessIsComplete`, `TarSizesMatch`, `BodiesClosed`, `GenerateInv`, `GenerateReturns`, `KeepsPromise` |
| `http` | 1 job, 1 worker, one download, one stream, one exit as above, fairness | `VerdictStands`, `DrainedBeforeClose`, `HttpInv`, `StreamEnds`, `HttpShutdownEnds`, `ProgressShown` |
| `manifest` | 2 folders, 3 files, pages of 2, 2 changes | `PagesAscend`, `StableFilesOnce`, `EmptyFoldersExact`, `ReadInv` |
| `requests` | names of up to 5 characters of 6 kinds (`MaxName` 4), paths of 2 or 3 stored names (`MaxDepth` 3) | `EntriesInside`, `EntryIsChosenPath`, `RequestInv` |
| `startup` | environments that differ from the least one in up to 3 variables, a signal at any time, fairness | `ReleasedInReverse`, `StartupInv`, `SignalEndsStart` |
| `orphans`, `expired`, `tokens`, `served` | small instances | a statement of the documentation that the code does not keep |

Bounds. Two jobs and two workers are the fewest that compete for a job, a queue
slot and a sweep; a queue of one is full with one job waiting. A manifest of at
most one file separates an archive with files missing from a finished one and
from an empty one. A clock that passes the expiry once lets jobs expire in
every stage. `restart` has expiry 0 so that one tick suffices. One fault and
one exit can each hit any step; the safety proofs lift these bounds. In
`generate` the limit is one below the largest integer, so sums wrap in every
position, and sizes range over all non-negative values. The names of `manifest`
are `a` and `a-`: `-` sorts before `/`, so a name falls between a folder and
its contents, and two files may have one path. Three files in pages of two end
in a short page or, after a full one, in an empty one. `requests` has one name
longer than the limit. In `startup` two variables interact at most
(`LOG_OUTPUT` and `LOG_FILE`). `generate`, `manifest`, `requests` and `startup`
may stop (`CHECK_DEADLOCK FALSE`): the function they model returns.

`SafetyInv`, `HistoryInv`, `GenerateInv`, `ReadInv`, `RequestInv`, `StartupInv`
and `HttpInv` are the inductive invariants of the proofs; TLC checks them
beside the properties that follow from them.

Symmetry is used only in runs of invariants and safety properties.

Fairness (`live`). Weak fairness of each worker outside the database queries
and the streaming of file bodies, of the sweeper, the clock, the shutdown
sequence, its timeout, and the restart: runnable goroutines are scheduled, the
ticker fires, a supervisor restarts the process. Queries and bodies run on
`context.Background()`, and the storage client's timeout covers only the
response headers, so a worker may hang in them forever. `DiskReclaimed` and
`ExpiredRemoved` say what they still guarantee then; `JobsSettle` states as its
premise that queries and bodies end (`StreamsEnd`), and `ShutdownEnds` and
`HttpShutdownEnds` that queries do (`QueriesEnd`), since closing the database
pool waits for them. `ShutdownEnds` and `HttpShutdownEnds` also start where the
HTTP server fails and `run` returns past `shutdown`. Each premise stands in the property itself.
Nothing is assumed of clients, of faults, or of which ready case a `select`
picks. The clock is bounded, so `ExpiredRemoved` and `StreamEnds` speak of
deadlines before its bound. `http` adds that a stream's poll
ticker and its shutdown case are served, which needs that its few small events
fit the connection's buffers or are read (the server sets no write timeout).
Nothing is assumed of the reader of a download.

Fairness (`generate`): `Generate`'s own steps and the header timeout.
`GenerateReturns` has as its premises `ServersProceed` (connections are
established or refused, and bodies end) and a positive `RequestTimeout`. `startup`: the steps of `run` that do
not wait for the database, `Ping` with its timeout among them; neither the list
of servers nor the release of the pool is assumed to end.

## Findings

- `orphans`: the sweep lists the store first and the directory later. A job
  recorded in between has a file the sweep takes for an orphan and deletes;
  the job then fails at its rename.
- `expired`: a job whose fallback deadline (creation + expiry) has passed and
  which completes between `List` and `removeJob` is removed with a fresh
  `ExpiresAt`.
- `tokens`: a job removed while it is being processed still gets a token, which
  no later sweep revokes.
- `served`: the sweeper deletes the file before it revokes the token, so a
  download with a token that is still valid is answered 500. In the trace it is one
  of the jobs `expired` describes, removed before its published expiry.

Other places where the code does less than a comment suggests are premises or
exceptions of the properties, so that each property says exactly what holds:

- `SuccessIsComplete` is checked, and proved, with a size limit below the largest
  int64. At that limit the limit of the copy wraps (`CopyLimit`) and ZIP entries are empty.
- `ShutdownEnds` and `HttpShutdownEnds` assume that queries end: the deferred
  `dbPool.Close()` waits for them, and `SERVER_SHUTDOWN_TIMEOUT` does not bound it.
- `DrainedBeforeClose` covers jobs that a worker takes after
  `cancelShutdown()`: the `select` in `loop` may still choose the queue.
- `GenerateReturns` assumes that connections are established or refused: the
  storage client's timeout starts after dialling and the TLS handshake. It also
  assumes that `STORAGE_REQUEST_TIMEOUT` is positive: `validate` does not look at
  it, and the transport sets no timer otherwise.
- `TokenHonoured` excepts the moment between two steps of `removeJob`: the tokens
  are revoked, the record is still shown. As `expired` shows, the record need not
  be expired then.
- `JobsSettle` counts a job as ended when its record is lost with the process: a
  job queued as the workers leave is never processed.
- `KeepsPromise` has a failed archive report nothing: `ProgressFunc`'s comment
  (`zip.go:36`) says it is invoked after a file is written "(or fails)", but
  `Generate` returns the error instead.
- `StableFilesOnce` speaks of files whose path did not change: a rename or move
  across the cursor loses or repeats a file, and a folder renamed after the tree
  was read is packed empty beside its files.
- `EntryIsChosenPath` excepts a directory with `:` as second character:
  `validateArchiveName` accepts it, `sanitizeArchivePath` refuses it.
- `EntriesInside` says that no entry begins with a drive letter that was first in
  the path before it was cleaned. The comment of `sanitizeArchivePath` and the
  repository's README (line 66) promise none at all; but the test comes before
  `path.Clean`, which can drop what stands before such a name (`./`, or a name
  followed by `..`).
- `Startup` ends in `panicked` when `ARCHIVE_CLEANUP_INTERVAL` is not positive,
  and for no other setting: `validate` does not look at it, and `time.NewTicker`
  panics.

## Proofs

### The service

For every set of jobs and workers and every value of the bounds:

- `TypeCorrect`: `Spec => []TypeOK`.
- `SafetyInvariant`: `Spec => [](TypeOK /\ SafetyInv)`, and from it
  `OneOwnerAlways`, `NoLostJobAlways`, `PublishedIsWholeAlways` and
  `TokenHonouredAlways`.
- `HistoryInvariant`: `HistoryInv` holds too, and from it `ProgressIsTrueAlways`,
  `RefusedLeavesNothingAlways`, `DrainedBeforeCloseAlways` and the action
  property `RecordsAdvanceAlways`.
- `NoStrayTempAlways`: every temp file has its writer while no removal has failed.
- `LifecycleImplemented`: `Spec => Lifecycle`, the refinement of `JobLifecycle`.
- `PromiseSuffices`: `Spec => RelyOnPromise`, the workers' use of `Generation`.
- `HttpImplementsSystem`: `HttpSpec => Spec`, so all of the above holds while
  clients download and watch (`HttpDrainedBeforeClose` is one instance);
  `HttpInvariant` and `VerdictStandsAlways`.

Assumptions: `None` is no job, the bounds are naturals, the queue has room for
one job (validated by `config.go`), and `Expiry` is not negative (which
`config.go` does not validate; a negative lifetime has no use).

The first four properties are not inductive. `OneOwner` needs `FreshIDs` (an ID
not yet handed over is nowhere). `NoLostJob` needs `RecordStage` and
`WorkerStage`: the place of a job in the pipeline decides its stored status, so
that no step can mark a job another worker has. `PublishedIsWhole` needs
`ReadyToPublish`: a worker about to rename has closed its file, or the sweeper
has unlinked it, and by `OneOwner` no other worker truncates it. `TokenHonoured`
needs `TokenStage`: from `issue` to `finish` the token outlives the expiry about
to be published unless the sweeper is removing the job. `DownIsQuiet` says
nothing runs between processes. `ArchiveTypeProofs` proves types, the first two
parts and frame lemmas (a step of a worker touches its own job only),
`ArchiveSafetyProofs` the rest and the theorems; each has a lemma per group of
actions.

`HistoryInv` is a second layer on top. A worker overwrites the stored record
with its copy, so what records say depends on the copies: `CopyInStep` says a
copy is sound and counts and dates the same as the stored record unless that is
gone, and `RecordSound` what a record may say. `NoTrace` and `PoolStopped` carry
`RefusedLeavesNothing` and `DrainedBeforeClose`. The layer uses `OneOwner`: no
other worker writes the record. `ArchiveSafetyProofs` proves the first two
conjuncts and that records advance, `ArchiveHistoryProofs` the rest, the
theorems and the refinements: each step of the system is a step or a stutter of
`JobLifecycle` for every job (`SafetyInv` gives the stored status a worker
overwrites), and of `Generation` for every worker (`CopyInStep` gives that
nothing is counted before the first file). `NoStrayTemp` is inductive relative
to `SafetyInv`: a restart begins with nothing running (`DownIsQuiet`).

`VerdictStands` speaks of a stream that was closed long ago, so it is proved
from the refinement: `WatchedAdvances` ties what the stream told to the state of
the job in `JobLifecycle`, where no step leads back.

### The generator

For every limit, every int64 width and manifests of any length:
`GenerateInvariant` (`GenerateInv`: `TypeOK`, `BodiesClosed` and `LoopInv`), and
from it `CapHoldsAlways`, `SuccessIsCompleteAlways`, `TarSizesMatchAlways`,
`BodiesClosedAlways` and the refinement `PromiseKept`. With `PromiseSuffices`
this closes the argument that the workers' view of `Generate` is right.

`LoopInv` says what the archive holds at each place of the loop. Sums wrap, so
the step needs that the running total never does: it is a sum of bytes actually
copied, and each copy is limited to one byte more than the limit leaves (to none
where that number itself wraps).
`SuccessIsCompleteAlways` has the hypothesis `MaxSizeBytes < MaxInt`; at the
largest int64 the code truncates (see above), the other theorems hold there too.

### The manifest

For every finite set of folders and files, all names without a separator, every
page size, and any number of changes between the queries: `ReadInvariant`,
`PagesAscendAlways`, `StableFilesOnceAlways`, `EmptyFoldersExactAlways`.

The order of rows is shown to be a strict total order, so a query's `ORDER BY`
has a result (`Ordered`), and a page leaves out only rows after its last one. A
folder has one parent and the root has none in the tree, so it is at one level
with one path, and the listing holds a file once. `ReadInv` adds the cursor:
every file not touched so far was read or lies after the cursor, which is the
last row read. It is inductive together with `PagesAscend`. For
`EmptyFoldersExact`, what lies in order between a prefix and a path that
continues it continues the prefix as well; so the one path the binary search
looks at decides.

### Requests

For every set of requested and of stored names over all characters, names of any
length, every limit on names and every depth: `RequestInvariant`,
`EntriesInsideAlways`, `EntryIsChosenPathAlways`.

`RequestInv` says that a name past its checks passes them again (`TrimSpace` is
idempotent, `TrimLaws`), and that path and entry are what the functions make of
it and the stored names. `EntriesInside` then needs only what characters can
reach a segment: `SplitLaws` and `ResolveLaws` carry the alphabet of the path
through `Split` and `Clean`; and for the drive letter, that the first segment of
a path begins the path (`SplitDriveLetter`). `EntryIsChosenPath` needs what the functions do to
each other. Splitting undoes joining (`SplitJoined`), for any number of names
without a separator. What the first name is joined to does not depend on it and
begins with a separator (`JoinTail`), so rebasing replaces that name and nothing
else (`RebaseJoined`). What is left of an accepted name is plain or empty
(`RootDirPlain`). `Clean` leaves plain segments alone (`ResolvePlain`).

The only assumptions are that names are sequences of naturals and the bound on
the depth is a natural.

### Startup

For every set of environments whose numbers are unset, refused by the parsers,
or integers (`EnvironmentsAssumption`): `StartupInvariant`,
`StartupTypeCorrect`, `ReleasedInReverseAlways`. `StartupInv` adds two parts to
the types. `OpenIsDeferred`: the deferred calls are a prefix of `Order`, and what
is open is what they release, except for the pool between its creation and
`Ping`. `PanicsOnInterval`: the process has panicked exactly when its sweeper has
started with a cleanup interval that is not positive.

### Induction

What the recursive `TreeLevel` and the folds `Total`, `Split`, `ResolveAll` and
`Joined` compute is proved by induction stated over sets: a set of naturals with
0 and, with every number, the next one is `Nat` (`Induction`, from the
well-foundedness of the order), and a set of sequences with the empty one and,
with every sequence, each longer by one is all of them (`SeqInduction`).

`TreeLevel` and `FoldLeft` are each a function that a `CHOOSE` picks, so one must
exist. For folds this is proved once, with the step as a function from values
to functions from elements (`FoldExists`); `FoldsTo` says that a value is reached
by such steps, and `FoldsEmpty`, `FoldsTyped` and `FoldsAppend` are the laws of a
fold. `TotalFolds`, `SplitFolds`, `ResolveFolds` and `JoinFolds` unfold the four
definitions and show that they are such folds.

### Only model-checked

Liveness (out of the prover's reach): `JobsSettle`, `DiskReclaimed`,
`ExpiredRemoved`, `ShutdownEnds`, `GenerateReturns`, `StreamEnds`,
`HttpShutdownEnds`, `ProgressShown`, `SignalEndsStart`. Every invariant, action
property and refinement of the passing runs is proved.

## Not modelled

- Routing, CORS, request logging, response bodies and headers, MIME types and
  extensions of files: no state and no decision that outlives a request.
- The content of files, hashes, and the choice of the latest file version: a
  version is part of the row, contents are byte counts.
- UUID and `export_type` formats: a request with a bad one gets 400, like one
  with a bad name.
- The collation of the database. `Manifest` orders strings by character codes,
  as Go does. Under another collation the pages still use one order throughout,
  and `computeEmptyFolders` sorts for itself.
- Characters of several bytes. The limit on names counts characters, the
  drive-letter test of `sanitizeArchivePath` looks at the second byte, so a name
  that begins with a longer character passes it whatever follows.
- `DATABASE_MAX_CONNS`, ports and timeouts of the server: passed on to libraries.
- Redirects and transparent retries of the HTTP client.
