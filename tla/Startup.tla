-------------------------------- MODULE Startup --------------------------------
(***************************************************************************)
(* run of cmd/server/main.go: the configuration is loaded from the         *)
(* environment (internal/config/config.go), then log, signal handler,      *)
(* database pool, archive directory, storage servers, workers, sweeper and *)
(* listener are set up in turn, and what was set up is released by the     *)
(* deferred calls on every way out. A signal may come at any time. The     *)
(* service itself, while it serves and shuts down, is ArchiveSystem.       *)
(***************************************************************************)
EXTENDS Integers, Sequences, SequencesExt

CONSTANTS
  Unset,         \* a variable that is not set or empty
  Malformed,     \* a value that strconv or time.ParseDuration refuses
  Environments   \* the environments of the process

VARIABLES
  env,        \* the process environment
  cfg,        \* the Config that Load returns
  pc,         \* where run is
  open,       \* what is set up
  deferred,   \* the deferred calls, innermost last
  signalled,  \* rootCtx is cancelled
  sweeper     \* the sweeper's goroutine

vars == <<env, cfg, pc, open, deferred, signalled, sweeper>>

Required == {"DATABASE_URL", "SELF_API_TOKEN", "ARCHIVE_TEMP_DIR"}
Strings == Required \cup {"SERVER_PUBLIC_BASE_URL", "LOG_LEVEL", "LOG_OUTPUT", "LOG_FILE"}
Positive == {"ARCHIVE_MAX_SIZE_BYTES", "ARCHIVE_WORKERS", "ARCHIVE_QUEUE_SIZE"}

(* Durations that validate does not look at and other parts rely on: the    *)
(* sweeper's ticker, ArchiveModel's Expiry, Generator's RequestTimeout.     *)
Durations == {"ARCHIVE_CLEANUP_INTERVAL", "ARCHIVE_EXPIRY", "STORAGE_REQUEST_TIMEOUT"}

(* "OTHER" stands for the numbers, durations and switches that neither the  *)
(* validation nor a modelled step looks at.                                 *)
Numbers == Positive \cup Durations \cup {"OTHER"}
Keys == Strings \cup Numbers

(* strconv and time.ParseDuration return integers or refuse. *)
Parsed(e) == \A k \in Numbers : e[k] \in {Unset, Malformed} \/ e[k] \in Int

ASSUME EnvironmentsAssumption == \A e \in Environments : Parsed(e)

(* Values of strings: 0 is the default, empty except for LOG_LEVEL (info)   *)
(* and LOG_OUTPUT (stdout); 1 is a good value, for LOG_OUTPUT "file"; 2 is  *)
(* a bad one: no absolute http(s) URL, no level, no output.                 *)
Good == 1
Bad == 2

(* getString, getInt, getInt64, getBool and getDuration; the defaults of    *)
(* numbers are positive.                                                    *)
Default(k) == IF k \in Strings THEN 0 ELSE 1
Get(k) == IF env[k] = Unset THEN Default(k) ELSE env[k]

(* Mutant: zero passes for a positive number. *)
ValidateAllowsZero(c) ==
  /\ \A k \in Required : c[k] # 0
  /\ \A k \in Positive : c[k] >= 0
  /\ c["SERVER_PUBLIC_BASE_URL"] # Bad
  /\ c["LOG_OUTPUT"] = Good => c["LOG_FILE"] # 0

Validate(c) ==
  /\ \A k \in Required : c[k] # 0
  /\ \A k \in Positive : c[k] > 0
  /\ c["SERVER_PUBLIC_BASE_URL"] # Bad
  /\ c["LOG_OUTPUT"] = Good => c["LOG_FILE"] # 0

PC == {"load", "logger", "signals", "pool", "ping", "storage", "servers", "start", "listen",
       "serving", "unwind", "exited", "killed", "panicked"}
Ended == {"exited", "killed", "panicked"}

(* What run sets up and defers the release of, in order. *)
Order == <<"log", "signals", "pool", "workers">>

Init ==
  /\ env \in Environments
  /\ cfg = [k \in Keys |-> 0] /\ pc = "load"
  /\ open = {} /\ deferred = <<>> /\ signalled = FALSE /\ sweeper = "absent"

(* Types; past Load the limits are in the ranges that ArchiveModel and      *)
(* Generator assume of their constants (config.go validate). Durations may  *)
(* be zero or negative.                                                     *)
TypeOK ==
  /\ pc \in PC /\ signalled \in BOOLEAN /\ sweeper \in {"absent", "starting", "sweeping"}
  /\ open \subseteq Range(Order) /\ Range(deferred) \subseteq Range(Order)
  /\ pc \notin {"load", "killed", "exited", "unwind"} => \A k \in Positive : cfg[k] \in Nat \ {0}

-------------------------------------------------------------------------------
GoOn(next) == pc' = next /\ UNCHANGED <<env, cfg, open, deferred, signalled, sweeper>>

(* return err: the deferred calls run. *)
Fail == GoOn("unwind")

(* r is set up and its release deferred; the sweeper starts after the       *)
(* workers.                                                                 *)
Acquire(r, next) ==
  /\ open' = open \cup {r} /\ deferred' = Append(deferred, r)
  /\ pc' = next
  /\ sweeper' = IF r = "workers" THEN "starting" ELSE sweeper
  /\ UNCHANGED <<env, cfg, signalled>>

(* config.Load; a .env file that cannot be read ends it too. *)
Load ==
  /\ pc = "load"
  /\ \/ Fail
     \/ /\ \A k \in Numbers : env[k] # Malformed
        /\ LET c == [k \in Keys |-> Get(k)] IN Validate(c) /\ cfg' = c
        /\ pc' = "logger"
        /\ UNCHANGED <<env, open, deferred, signalled, sweeper>>

(* logger.New *)
NewLogger ==
  /\ pc = "logger"
  /\ IF Bad \in {cfg["LOG_LEVEL"], cfg["LOG_OUTPUT"]} THEN Fail ELSE Acquire("log", "signals")

(* signal.NotifyContext *)
NotifyContext == pc = "signals" /\ Acquire("signals", "pool")

(* NewPool up to NewWithConfig. *)
NewPool ==
  /\ pc = "pool"
  /\ \/ Fail
     \/ /\ open' = open \cup {"pool"} /\ pc' = "ping"
        /\ UNCHANGED <<env, cfg, deferred, signalled, sweeper>>

(* Ping fails, after 10 seconds or a signal at the latest: NewPool closes   *)
(* the pool itself.                                                         *)
PingFails ==
  /\ pc = "ping"
  /\ open' = open \ {"pool"} /\ pc' = "unwind"
  /\ UNCHANGED <<env, cfg, deferred, signalled, sweeper>>

PingSucceeds == pc = "ping" /\ Acquire("pool", "storage")

(* NewLocalArchiveStorage *)
NewStorage == pc = "storage" /\ (GoOn("servers") \/ Fail)

(* ListServers answers, in its own time. *)
ListServers == pc = "servers" /\ (GoOn("start") \/ Fail)

(* Mutant: the query runs on context.Background(). *)
QueryNotCancelled == FALSE /\ UNCHANGED vars

(* It runs on rootCtx. *)
ListCancelled == pc = "servers" /\ signalled /\ Fail

(* The workers and the sweeper start; cancelShutdown is deferred. *)
StartWorkers == pc = "start" /\ Acquire("workers", "listen")

(* The sweeper's goroutine begins with time.NewTicker, which panics on an   *)
(* interval that is not positive.                                           *)
SweeperStarts ==
  /\ sweeper = "starting" /\ pc \notin Ended
  /\ sweeper' = "sweeping"
  /\ pc' = IF cfg["ARCHIVE_CLEANUP_INTERVAL"] > 0 THEN pc ELSE "panicked"
  /\ UNCHANGED <<env, cfg, open, deferred, signalled>>

Listen == pc = "listen" /\ (GoOn("serving") \/ Fail)

(* The select at the end of run: shutdown(), or Serve has failed. *)
Stop == pc = "serving" /\ signalled /\ Fail
ServeFails == pc = "serving" /\ Fail

(* Mutant: they run first to last. *)
ReleaseForward ==
  /\ pc = "unwind" /\ deferred # <<>>
  /\ open' = open \ {Head(deferred)} /\ deferred' = Tail(deferred)
  /\ UNCHANGED <<env, cfg, pc, signalled, sweeper>>

(* Deferred calls run last to first: cancelShutdown, dbPool.Close, stop,    *)
(* logCloser.Close.                                                         *)
Release ==
  /\ pc = "unwind" /\ deferred # <<>>
  /\ open' = open \ {Last(deferred)} /\ deferred' = Front(deferred)
  /\ UNCHANGED <<env, cfg, pc, signalled, sweeper>>

Return == pc = "unwind" /\ deferred = <<>> /\ GoOn("exited")

(* SIGINT or SIGTERM: cancels rootCtx, or kills the process where no        *)
(* handler is installed.                                                    *)
Signal ==
  /\ ~signalled /\ pc \notin Ended
  /\ signalled' = TRUE
  /\ pc' = IF "signals" \in open THEN pc ELSE "killed"
  /\ UNCHANGED <<env, cfg, open, deferred, sweeper>>

Proceed ==
  \/ Load \/ NewLogger \/ NotifyContext \/ NewPool \/ PingFails \/ PingSucceeds
  \/ NewStorage \/ ListCancelled \/ StartWorkers \/ Listen \/ Stop \/ Return

Next == Proceed \/ ListServers \/ SweeperStarts \/ ServeFails \/ Release \/ Signal

(* run goes on where it does not wait for the database: Ping has a timeout. *)
(* Releasing the pool may wait for queries, so Release is not fair.         *)
Spec == Init /\ [][Next]_vars /\ WF_vars(Proceed)

-------------------------------------------------------------------------------
(* On every way out of run everything that was set up is released, and      *)
(* always in reverse: workers are told to stop before the pool they query   *)
(* is closed, and the log is closed last (the deferred calls of main.go,    *)
(* NewPool's own error path).                                               *)
ReleasedInReverse ==
  /\ pc = "exited" => open = {}
  /\ \A i, j \in 1..Len(Order) : i < j /\ Order[j] \in open => Order[i] \in open

(* The inductive form: the deferred calls are always a prefix of Order, as  *)
(* long as run has come, and what is open is what they will release, except *)
(* for the pool between NewWithConfig and Ping (main.go run, NewPool). The  *)
(* sweeper, which can end the process from its own goroutine, runs only     *)
(* once everything is set up.                                               *)
Reached(p) ==
  IF p \in {"load", "logger", "exited"} THEN 0
  ELSE IF p = "signals" THEN 1
  ELSE IF p \in {"pool", "ping"} THEN 2
  ELSE IF p \in {"storage", "servers", "start"} THEN 3 ELSE 4

OpenIsDeferred ==
  /\ Parsed(env)
  /\ \E n \in 0..Len(Order) :
       /\ deferred = SubSeq(Order, 1, n)
       /\ pc \in {"unwind", "killed", "panicked"} \/ n = Reached(pc)
  /\ open = Range(deferred) \cup (IF pc = "ping" THEN {"pool"} ELSE {})
  /\ sweeper # "absent" =>
       /\ pc \in {"listen", "serving", "unwind"} \cup Ended
       /\ \A k \in Positive : cfg[k] \in Nat \ {0}

(* The process panics on one setting only, a cleanup interval that is not   *)
(* positive, which validate lets pass and NewTicker does not: a process     *)
(* whose sweeper has begun to sweep has a positive one (cleanup.go Run).    *)
PanicsOnInterval ==
  pc = "panicked" <=> sweeper = "sweeping" /\ ~(cfg["ARCHIVE_CLEANUP_INTERVAL"] > 0)

(* The inductive invariant of run: a validated configuration, deferred      *)
(* calls that hold exactly what is open, and no panic but the ticker's.     *)
StartupInv == TypeOK /\ OpenIsDeferred /\ PanicsOnInterval

(* A signal ends a start that hangs: main.go's rootCtx is "used for         *)
(* one-shot startup calls", so a database that does not answer keeps no     *)
(* process from stopping.                                                   *)
SignalEndsStart == signalled ~> pc \in {"unwind"} \cup Ended
================================================================================
