----------------------------- MODULE StartupProofs -----------------------------
(***************************************************************************)
(* Startup for every set of environments: the deferred calls are a prefix  *)
(* of Order and hold exactly what is open, so that every way out of run    *)
(* releases it in reverse.                                                 *)
(***************************************************************************)
EXTENDS Startup, SequenceTheorems, TLAPS

Resources == {"log", "signals", "pool", "workers"}

(* The four releases run defers.                                            *)
LEMMA OrderFacts ==
  /\ Order \in Seq(Resources) /\ Len(Order) = 4
  /\ Order[1] = "log" /\ Order[2] = "signals" /\ Order[3] = "pool" /\ Order[4] = "workers"
<1>1. Len(Order) = 4
  BY DEF Order
<1>2. Order[1] = "log" /\ Order[2] = "signals" /\ Order[3] = "pool" /\ Order[4] = "workers"
  BY DEF Order
<1>3. Order \in [1..4 -> Resources]
  BY DEF Order, Resources
<1>4. Order \in Seq(Resources)
  BY <1>3, SeqDef, 4 \in Nat, Zenon
<1> QED BY <1>1, <1>2, <1>4

(* The elements of a prefix of Order.                                       *)
LEMMA PrefixFacts ==
  ASSUME NEW n \in 0..4
  PROVE  /\ SubSeq(Order, 1, n) \in Seq(Resources) /\ Len(SubSeq(Order, 1, n)) = n
         /\ \A i \in 1..n : SubSeq(Order, 1, n)[i] = Order[i]
         /\ Range(SubSeq(Order, 1, n)) = {Order[i] : i \in 1..n}
<1>0. \A i \in 1..4 : Order[i] \in Resources
  BY OrderFacts, ElementOfSeq
<1>1. /\ SubSeq(Order, 1, n) \in Seq(Resources) /\ Len(SubSeq(Order, 1, n)) = n
      /\ \A i \in 1..n : SubSeq(Order, 1, n)[i] = Order[i]
  BY <1>0, OrderFacts, SubSeqProperties
<1>2. DOMAIN SubSeq(Order, 1, n) = 1..n
  BY <1>1
<1> QED BY <1>1, <1>2 DEF Range

(* A prefix is determined by its length and its elements.                   *)
LEMMA IsPrefixOfOrder ==
  ASSUME NEW s \in Seq(Resources), NEW n \in 0..4, Len(s) = n, \A i \in 1..n : s[i] = Order[i]
  PROVE  s = SubSeq(Order, 1, n)
BY PrefixFacts, SeqEqual

(* Deferring the next release makes the prefix longer.                      *)
LEMMA Defers ==
  ASSUME NEW n \in 0..3
  PROVE  Append(SubSeq(Order, 1, n), Order[n + 1]) = SubSeq(Order, 1, n + 1)
<1> DEFINE s == SubSeq(Order, 1, n)
           t == Append(s, Order[n + 1])
<1>1. s \in Seq(Resources) /\ Len(s) = n /\ \A i \in 1..n : s[i] = Order[i]
  BY PrefixFacts
<1>2. Order[n + 1] \in Resources
  BY n + 1 \in 1..4, OrderFacts, ElementOfSeq
<1> HIDE DEF s
<1>3. t \in Seq(Resources) /\ Len(t) = n + 1 /\ \A i \in 1..(n + 1) : t[i] = Order[i]
  BY <1>1, <1>2, AppendProperties
<1> HIDE DEF t
<1>4. PICK m \in 0..4 : m = n + 1
  OBVIOUS
<1>5. t = SubSeq(Order, 1, m)
  BY <1>3, <1>4, IsPrefixOfOrder
<1> QED BY <1>4, <1>5 DEF t, s

(* Running the innermost release makes it shorter.                          *)
LEMMA Undefers ==
  ASSUME NEW n \in 1..4
  PROVE  /\ Front(SubSeq(Order, 1, n)) = SubSeq(Order, 1, n - 1)
         /\ Last(SubSeq(Order, 1, n)) = Order[n]
<1> DEFINE s == SubSeq(Order, 1, n)
           t == Front(s)
<1>1. s \in Seq(Resources) /\ Len(s) = n /\ \A i \in 1..n : s[i] = Order[i]
  BY PrefixFacts
<1> HIDE DEF s
<1>2. t \in Seq(Resources) /\ Len(t) = n - 1 /\ \A i \in 1..(n - 1) : t[i] = s[i]
  BY <1>1 DEF Front
<1>3. Last(s) = Order[n]
  BY <1>1 DEF Last
<1> HIDE DEF t
<1>4. PICK m \in 0..4 : m = n - 1
  OBVIOUS
<1>5. t = SubSeq(Order, 1, m)
  BY <1>1, <1>2, <1>4, IsPrefixOfOrder
<1> QED BY <1>3, <1>4, <1>5 DEF t, s

(* The resources of a prefix, listed.                                       *)
LEMMA Held ==
  /\ Range(SubSeq(Order, 1, 0)) = {}
  /\ Range(SubSeq(Order, 1, 1)) = {"log"}
  /\ Range(SubSeq(Order, 1, 2)) = {"log", "signals"}
  /\ Range(SubSeq(Order, 1, 3)) = {"log", "signals", "pool"}
  /\ Range(SubSeq(Order, 1, 4)) = {"log", "signals", "pool", "workers"}
<1> DEFINE H(n) == {Order[i] : i \in 1..n}
<1>1. \A n \in 0..4 : Range(SubSeq(Order, 1, n)) = H(n)
  BY PrefixFacts
<1>2. H(0) = {} /\ H(1) = {"log"} /\ H(2) = {"log", "signals"}
      /\ H(3) = {"log", "signals", "pool"} /\ H(4) = {"log", "signals", "pool", "workers"}
  BY OrderFacts
<1> HIDE DEF H
<1> QED BY <1>1, <1>2

(* How far run has come, and what it has set up.                            *)
LEMMA Stage ==
  ASSUME OpenIsDeferred
  PROVE  \E n \in 0..4 :
           /\ deferred = SubSeq(Order, 1, n)
           /\ pc \in {"unwind", "killed", "panicked"} \/ n = Reached(pc)
           /\ open = Range(SubSeq(Order, 1, n)) \cup (IF pc = "ping" THEN {"pool"} ELSE {})
BY OrderFacts DEF OpenIsDeferred

(* The same, the other way round.                                           *)
LEMMA StageNext ==
  ASSUME NEW n \in 0..4, deferred' = SubSeq(Order, 1, n),
         pc' \in {"unwind", "killed", "panicked"} \/ n = Reached(pc'),
         open' = Range(SubSeq(Order, 1, n)) \cup (IF pc' = "ping" THEN {"pool"} ELSE {}),
         Parsed(env'),
         sweeper' # "absent" => /\ pc' \in {"listen", "serving", "unwind"} \cup Ended
                                /\ \A k \in Positive : cfg'[k] \in Nat \ {0}
  PROVE  OpenIsDeferred'
BY OrderFacts DEF OpenIsDeferred, Reached, Parsed

(* A step that only moves run on, within what it has set up or to its       *)
(* deferred calls.                                                          *)
LEMMA GoesOn ==
  ASSUME OpenIsDeferred, NEW next, GoOn(next), pc # "ping", next # "ping",
         next \in {"unwind", "killed", "panicked"} \/
           (pc \notin {"unwind", "killed", "panicked"} /\ Reached(next) = Reached(pc)),
         sweeper # "absent" => next \in {"listen", "serving", "unwind"} \cup Ended
  PROVE  OpenIsDeferred'
<1>1. PICK n \in 0..4 : /\ deferred = SubSeq(Order, 1, n)
                        /\ pc \in {"unwind", "killed", "panicked"} \/ n = Reached(pc)
                        /\ open = Range(SubSeq(Order, 1, n))
  BY Stage
<1>2. /\ pc' = next /\ deferred' = deferred /\ open' = open /\ env' = env
      /\ cfg' = cfg /\ sweeper' = sweeper
  BY DEF GoOn
<1>3. Parsed(env) /\ (sweeper # "absent" => \A k \in Positive : cfg[k] \in Nat \ {0})
  BY DEF OpenIsDeferred
<1> QED BY <1>1, <1>2, <1>3, StageNext

(* A step that sets up the next resource and defers its release.            *)
LEMMA Acquires ==
  ASSUME OpenIsDeferred, NEW r, NEW next, Acquire(r, next), NEW n \in 0..3,
         deferred = SubSeq(Order, 1, n), r = Order[n + 1], Reached(next) = n + 1,
         next # "ping", sweeper = "absent",
         open \cup {r} = Range(SubSeq(Order, 1, n)) \cup {r},
         r = "workers" => next = "listen" /\ \A k \in Positive : cfg[k] \in Nat \ {0}
  PROVE  OpenIsDeferred'
<1>1. PICK m \in 0..4 : m = n + 1
  OBVIOUS
<1>2. deferred' = SubSeq(Order, 1, m)
  BY <1>1, Defers DEF Acquire
<1>3. Range(SubSeq(Order, 1, m)) = Range(SubSeq(Order, 1, n)) \cup {r}
  <2>1. /\ Range(SubSeq(Order, 1, m)) = {Order[i] : i \in 1..m}
        /\ Range(SubSeq(Order, 1, n)) = {Order[i] : i \in 1..n}
    BY PrefixFacts
  <2>2. 1..m = (1..n) \cup {n + 1}
    BY <1>1
  <2> QED BY <2>1, <2>2
<1>4. open' = Range(SubSeq(Order, 1, m)) /\ pc' = next /\ env' = env /\ cfg' = cfg
  BY <1>3 DEF Acquire
<1>5. Parsed(env')
  BY <1>4 DEF OpenIsDeferred
<1>6. sweeper' # "absent" => r = "workers"
  BY DEF Acquire
<1> QED BY <1>1, <1>2, <1>4, <1>5, <1>6, StageNext DEF Ended

(* The numbers that Load lets through are positive (config.go validate).    *)
LEMMA LoadedPositive ==
  ASSUME Parsed(env), Load, pc' # "unwind"
  PROVE  \A k \in Positive : cfg'[k] \in Nat \ {0}
<1> DEFINE c == [k \in Keys |-> Get(k)]
<1>1. /\ \A k \in Numbers : env[k] # Malformed
      /\ Validate(c) /\ cfg' = c
  BY DEF Load, Fail, GoOn
<1> SUFFICES ASSUME NEW k \in Positive PROVE c[k] \in Nat \ {0}
  BY <1>1
<1>2. k \in Numbers /\ k \in Keys /\ k \notin Strings
  BY DEF Numbers, Keys, Positive, Strings, Required
<1>3. c[k] = Get(k) /\ c[k] > 0
  BY <1>1, <1>2 DEF Validate
<1>4. Get(k) \in Int
  BY <1>1, <1>2 DEF Get, Default, Parsed
<1> QED BY <1>3, <1>4

(* Every step of run, a signal and the sweeper's start keep the deferred    *)
(* calls and the open resources in step.                                    *)
LEMMA StartupStep ==
  ASSUME TypeOK, OpenIsDeferred, [Next]_vars
  PROVE  OpenIsDeferred'
<1>0. PICK n \in 0..4 :
        /\ deferred = SubSeq(Order, 1, n)
        /\ pc \in {"unwind", "killed", "panicked"} \/ n = Reached(pc)
        /\ open = Range(SubSeq(Order, 1, n)) \cup (IF pc = "ping" THEN {"pool"} ELSE {})
  BY Stage
<1>s. /\ Parsed(env)
      /\ sweeper # "absent" => /\ pc \in {"listen", "serving", "unwind"} \cup Ended
                               /\ \A k \in Positive : cfg[k] \in Nat \ {0}
  BY DEF OpenIsDeferred
<1>1. CASE Fail /\ pc # "ping"
  BY <1>1, GoesOn DEF Fail
<1>2. CASE Load /\ ~Fail
  <2>1. /\ pc = "load" /\ pc' = "logger" /\ UNCHANGED <<env, open, deferred, sweeper>>
    BY <1>2 DEF Load
  <2>2. sweeper = "absent" /\ n = 0
    BY <1>0, <1>s, <2>1 DEF Ended, Reached
  <2> QED BY <1>0, <1>s, <2>1, <2>2, StageNext DEF Reached
<1>3. CASE NewLogger /\ ~Fail
  <2>1. pc = "logger" /\ Acquire("log", "signals")
    BY <1>3 DEF NewLogger
  <2>2. sweeper = "absent" /\ n = 0
    BY <1>0, <1>s, <2>1 DEF Ended, Reached
  <2> QED BY <1>0, <2>1, <2>2, OrderFacts, Acquires DEF Reached
<1>4. CASE NotifyContext
  <2>1. pc = "signals" /\ Acquire("signals", "pool")
    BY <1>4 DEF NotifyContext
  <2>2. sweeper = "absent" /\ n = 1
    BY <1>0, <1>s, <2>1 DEF Ended, Reached
  <2> QED BY <1>0, <2>1, <2>2, OrderFacts, Acquires DEF Reached
<1>5. CASE NewPool /\ ~Fail
  <2>1. /\ pc = "pool" /\ pc' = "ping" /\ open' = open \cup {"pool"}
        /\ UNCHANGED <<env, cfg, deferred, sweeper>>
    BY <1>5 DEF NewPool
  <2>2. sweeper = "absent" /\ n = 2
    BY <1>0, <1>s, <2>1 DEF Ended, Reached
  <2> QED BY <1>0, <1>s, <2>1, <2>2, StageNext DEF Reached
<1>6. CASE PingFails
  <2>1. /\ pc = "ping" /\ pc' = "unwind" /\ open' = open \ {"pool"}
        /\ UNCHANGED <<env, cfg, deferred, sweeper>>
    BY <1>6 DEF PingFails
  <2>2. sweeper = "absent" /\ n = 2
    BY <1>0, <1>s, <2>1 DEF Ended, Reached
  <2>3. open' = Range(SubSeq(Order, 1, 2))
    BY <1>0, <2>1, <2>2, Held
  <2> QED BY <1>0, <1>s, <2>1, <2>2, <2>3, StageNext
<1>7. CASE PingSucceeds
  <2>1. pc = "ping" /\ Acquire("pool", "storage")
    BY <1>7 DEF PingSucceeds
  <2>2. sweeper = "absent" /\ n = 2
    BY <1>0, <1>s, <2>1 DEF Ended, Reached
  <2>3. open \cup {"pool"} = Range(SubSeq(Order, 1, n)) \cup {"pool"}
    BY <1>0, <2>1
  <2> QED BY <1>0, <2>1, <2>2, <2>3, OrderFacts, Acquires DEF Reached
<1>8. CASE (NewStorage \/ ListServers \/ Listen) /\ ~Fail
  <2>1. \/ pc = "storage" /\ GoOn("servers")
        \/ pc = "servers" /\ GoOn("start")
        \/ pc = "listen" /\ GoOn("serving")
    BY <1>8 DEF NewStorage, ListServers, Listen
  <2> QED BY <1>s, <2>1, GoesOn DEF Reached, Ended
<1>9. CASE StartWorkers
  <2>1. pc = "start" /\ Acquire("workers", "listen")
    BY <1>9 DEF StartWorkers
  <2>2. sweeper = "absent" /\ n = 3
    BY <1>0, <1>s, <2>1 DEF Ended, Reached
  <2>3. \A k \in Positive : cfg[k] \in Nat \ {0}
    BY <2>1 DEF TypeOK
  <2> QED BY <1>0, <2>1, <2>2, <2>3, OrderFacts, Acquires DEF Reached
<1>10. CASE SweeperStarts
  <2>1. /\ sweeper = "starting" /\ pc' \in {pc, "panicked"}
        /\ UNCHANGED <<env, cfg, open, deferred>>
    BY <1>10 DEF SweeperStarts
  <2>2. pc # "ping"
    BY <1>s, <2>1 DEF Ended
  <2> QED BY <1>0, <1>s, <2>1, <2>2, StageNext DEF Ended
<1>11. CASE Release
  <2>1. /\ pc = "unwind" /\ deferred # <<>> /\ open' = open \ {Last(deferred)}
        /\ deferred' = Front(deferred) /\ UNCHANGED <<env, cfg, pc, sweeper>>
    BY <1>11 DEF Release
  <2>2. n \in 1..4
    BY <1>0, <2>1, PrefixFacts, EmptySeq
  <2>3. deferred' = SubSeq(Order, 1, n - 1) /\ open' = Range(SubSeq(Order, 1, n)) \ {Order[n]}
    BY <1>0, <2>1, <2>2, Undefers
  <2>4. open' = Range(SubSeq(Order, 1, n - 1))
    <3>1. CASE n = 1  BY <2>3, <3>1, Held, OrderFacts
    <3>2. CASE n = 2  BY <2>3, <3>2, Held, OrderFacts
    <3>3. CASE n = 3  BY <2>3, <3>3, Held, OrderFacts
    <3>4. CASE n = 4  BY <2>3, <3>4, Held, OrderFacts
    <3> QED BY <2>2, <3>1, <3>2, <3>3, <3>4
  <2>5. PICK m \in 0..4 : m = n - 1
    BY <2>2
  <2> QED BY <1>s, <2>1, <2>3, <2>4, <2>5, StageNext
<1>12. CASE Return
  <2>1. pc = "unwind" /\ deferred = <<>> /\ GoOn("exited")
    BY <1>12 DEF Return
  <2>2. n = 0
    BY <1>0, <2>1, PrefixFacts, EmptySeq
  <2>3. pc' = "exited" /\ UNCHANGED <<env, cfg, open, deferred, sweeper>>
    BY <2>1 DEF GoOn
  <2> QED BY <1>0, <1>s, <2>1, <2>2, <2>3, StageNext DEF Reached, Ended
<1>13. CASE Signal
  <2>1. /\ pc \notin Ended /\ pc' = IF "signals" \in open THEN pc ELSE "killed"
        /\ UNCHANGED <<env, cfg, open, deferred, sweeper>>
    BY <1>13 DEF Signal
  <2>2. pc = "ping" => "signals" \in open
    BY <1>0, Held DEF Reached
  <2> QED BY <1>0, <1>s, <2>1, <2>2, StageNext DEF Ended
<1>14. CASE UNCHANGED vars
  BY <1>14 DEF vars, OpenIsDeferred, Reached, Parsed
<1>15. Load \/ NewLogger \/ NewPool \/ NewStorage \/ ListServers \/ ListCancelled \/ Listen
         \/ Stop \/ ServeFails => pc # "ping"
  BY DEF Load, NewLogger, NewPool, NewStorage, ListServers, ListCancelled, Listen, Stop, ServeFails
<1>16. CASE ListCancelled \/ Stop \/ ServeFails
  BY <1>1, <1>15, <1>16 DEF ListCancelled, Stop, ServeFails
<1> QED BY <1>1, <1>2, <1>3, <1>4, <1>5, <1>6, <1>7, <1>8, <1>9, <1>10, <1>11, <1>12, <1>13,
           <1>14, <1>15, <1>16 DEF Next, Proceed

(* What is open or deferred is one of the four.                             *)
LEMMA OpenInOrder ==
  ASSUME OpenIsDeferred
  PROVE  open \subseteq Range(Order) /\ Range(deferred) \subseteq Range(Order)
<1>1. PICK n \in 0..4 :
        /\ deferred = SubSeq(Order, 1, n)
        /\ open = Range(SubSeq(Order, 1, n)) \cup (IF pc = "ping" THEN {"pool"} ELSE {})
  BY Stage
<1>2. Range(SubSeq(Order, 1, n)) = {Order[i] : i \in 1..n}
  BY PrefixFacts
<1>3. DOMAIN Order = 1..4
  BY OrderFacts
<1>4. Range(Order) = {Order[i] : i \in 1..4}
  BY <1>3 DEF Range
<1> QED BY <1>1, <1>2, <1>4, OrderFacts

(* The types are kept, and past Load the configuration stays validated      *)
(* until run returns, also when the sweeper panics while run unwinds.       *)
LEMMA StartupTypeStep ==
  ASSUME TypeOK, OpenIsDeferred, OpenIsDeferred', [Next]_vars
  PROVE  TypeOK'
<1>1. (open \subseteq Range(Order) /\ Range(deferred) \subseteq Range(Order))'
  BY OpenInOrder, PTL
<1>2. /\ pc' \in PC /\ signalled' \in BOOLEAN
      /\ sweeper' \in {"absent", "starting", "sweeping"}
  BY DEF TypeOK, Next, Proceed, vars, Load, NewLogger, NotifyContext, NewPool, PingFails,
     PingSucceeds, NewStorage, ListCancelled, StartWorkers, Listen, Stop, Return, ListServers,
     SweeperStarts, ServeFails, Release, Signal, Fail, GoOn, Acquire, PC
<1>3. ASSUME pc' \notin {"load", "killed", "exited", "unwind"}
      PROVE  \A k \in Positive : cfg'[k] \in Nat \ {0}
  <2>1. CASE Load
    BY <1>3, <2>1, LoadedPositive DEF OpenIsDeferred
  <2>2. CASE SweeperStarts
    BY <2>2 DEF SweeperStarts, OpenIsDeferred
  <2>3. CASE ~Load /\ ~SweeperStarts
    <3>1. cfg' = cfg /\ pc \notin {"load", "killed", "exited", "unwind"}
      BY <1>3, <2>3 DEF Next, Proceed, vars, NewLogger, NotifyContext, NewPool, PingFails,
         PingSucceeds, NewStorage, ListCancelled, StartWorkers, Listen, Stop, Return, ListServers,
         ServeFails, Release, Signal, Fail, GoOn, Acquire, Ended
    <3> QED BY <3>1 DEF TypeOK
  <2> QED BY <2>1, <2>2, <2>3
<1> QED BY <1>1, <1>2, <1>3 DEF TypeOK

(* The configuration the sweeper started with is the one it runs with.      *)
LEMMA PanicStep ==
  ASSUME PanicsOnInterval, OpenIsDeferred, [Next]_vars
  PROVE  PanicsOnInterval'
<1>0. sweeper # "absent" => pc \in {"listen", "serving", "unwind"} \cup Ended
  BY DEF OpenIsDeferred
<1>1. CASE Load \/ StartWorkers
  <2>1. pc' # "panicked" /\ sweeper' # "sweeping"
    BY <1>0, <1>1 DEF Load, StartWorkers, Fail, GoOn, Acquire, Ended
  <2> QED BY <2>1 DEF PanicsOnInterval
<1>2. CASE SweeperStarts
  <2>1. pc # "panicked" /\ cfg' = cfg /\ sweeper' = "sweeping"
        /\ pc' = IF cfg["ARCHIVE_CLEANUP_INTERVAL"] > 0 THEN pc ELSE "panicked"
    BY <1>2 DEF SweeperStarts, Ended
  <2> QED BY <2>1 DEF PanicsOnInterval
<1>3. CASE ~Load /\ ~StartWorkers /\ ~SweeperStarts
  <2>1. cfg' = cfg /\ sweeper' = sweeper /\ (pc' = "panicked" <=> pc = "panicked")
    BY <1>3 DEF Next, Proceed, vars, NewLogger, NotifyContext, NewPool, PingFails,
       PingSucceeds, NewStorage, ListCancelled, Listen, Stop, Return, ListServers,
       ServeFails, Release, Signal, Fail, GoOn, Acquire, Ended
  <2> QED BY <2>1 DEF PanicsOnInterval
<1> QED BY <1>1, <1>2, <1>3

(* For every environment and every moment of a signal: types, a validated   *)
(* configuration, deferred calls that hold exactly what is open, and a      *)
(* panic on a cleanup interval that is not positive and on nothing else.    *)
THEOREM StartupInvariant == Spec => []StartupInv
<1>1. Init => OpenIsDeferred
  <2> SUFFICES ASSUME Init PROVE OpenIsDeferred
    OBVIOUS
  <2>1. deferred = SubSeq(Order, 1, 0) /\ Range(deferred) = {}
    <3>1. deferred = <<>>
      BY DEF Init
    <3>2. SubSeq(Order, 1, 0) = <<>>
      BY SubSeqEmpty
    <3> QED BY <3>1, <3>2, Held
  <2>2. Parsed(env) /\ pc = "load" /\ open = {} /\ sweeper = "absent"
    BY EnvironmentsAssumption DEF Init
  <2>3. Reached(pc) = 0 /\ 0 \in 0..Len(Order)
    BY <2>2, OrderFacts DEF Reached
  <2> HIDE DEF Init
  <2> QED BY <2>1, <2>2, <2>3 DEF OpenIsDeferred
<1>2. Init => TypeOK
  BY <1>1, OpenInOrder DEF Init, TypeOK, PC
<1>3. Init => PanicsOnInterval
  BY DEF Init, PanicsOnInterval
<1>4. TypeOK /\ OpenIsDeferred /\ [Next]_vars => (TypeOK /\ OpenIsDeferred)'
  BY StartupStep, StartupTypeStep
<1>5. PanicsOnInterval /\ OpenIsDeferred /\ [Next]_vars => PanicsOnInterval'
  BY PanicStep
<1> QED BY <1>1, <1>2, <1>3, <1>4, <1>5, PTL DEF Spec, StartupInv

(* Past Load the positive settings are positive numbers, as ArchiveModel    *)
(* and Generator assume of their constants (config.go validate).            *)
THEOREM StartupTypeCorrect == Spec => []TypeOK
BY StartupInvariant, PTL DEF StartupInv

(* Every way out of run releases all that was set up, last to first         *)
(* (main.go's deferred calls and NewPool's own error path).                 *)
THEOREM ReleasedInReverseAlways == Spec => []ReleasedInReverse
<1>1. OpenIsDeferred => ReleasedInReverse
  <2> SUFFICES ASSUME OpenIsDeferred PROVE ReleasedInReverse
    OBVIOUS
  <2>1. PICK n \in 0..4 :
          /\ pc \in {"unwind", "killed", "panicked"} \/ n = Reached(pc)
          /\ open = Range(SubSeq(Order, 1, n)) \cup (IF pc = "ping" THEN {"pool"} ELSE {})
    BY Stage
  <2>2. pc = "exited" => n = 0 /\ open = {}
    BY <2>1, Held DEF Reached
  <2>3. pc = "ping" => n = 2
    BY <2>1 DEF Reached
  <2>4. open \in {{}, {"log"}, {"log", "signals"}, {"log", "signals", "pool"},
                  {"log", "signals", "pool", "workers"}}
    BY <2>1, <2>3, Held
  <2> QED BY <2>2, <2>4, OrderFacts DEF ReleasedInReverse
<1> QED BY <1>1, StartupInvariant, PTL DEF StartupInv
================================================================================
