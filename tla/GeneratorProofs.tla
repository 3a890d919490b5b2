----------------------------- MODULE GeneratorProofs -----------------------------
(***************************************************************************)
(* Generate for every manifest, limit and size of an int64: what its       *)
(* archives hold, and that it keeps the promise of Generation.             *)
(***************************************************************************)
EXTENDS Generator, NatInduction, SequenceTheorems, TLAPS

-------------------------------------------------------------------------------
(* Sums *)

Adding == [a \in Nat |-> [b \in Nat |-> a + b]]

(* Total adds up along the sequence.                                        *)
LEMMA TotalFolds ==
  ASSUME NEW s \in Seq(Nat)
  PROVE  FoldsTo(Nat, Nat, Adding, 0, s, Total(s))
<1>n. PICK n \in Nat : n = Len(s) /\ s \in [1..n -> Nat]
  OBVIOUS
<1> DEFINE Sums(F) ==
      F = [T \in SUBSET DOMAIN s |-> IF T = {} THEN 0 ELSE F[T \ {Max(T)}] + s[Max(T)]]
<1>a. Adding \in [Nat -> [Nat -> Nat]] /\ \A a, b \in Nat : Adding[a][b] = a + b
  BY DEF Adding
<1>1. PICK E \in [SUBSET (1..n) -> Nat] : Folds(Adding, 0, s, E)
  BY <1>n, <1>a, FoldExists
<1>2. Sums(E)
  <2>1. ASSUME NEW T \in SUBSET (1..n), T # {}
        PROVE  E[T \ {Max(T)}] \in Nat /\ s[Max(T)] \in Nat
    <3>1. Max(T) \in 1..n /\ T \ {Max(T)} \in SUBSET (1..n)
      BY <2>1, MaxIndex
    <3> QED BY <1>n, <1>1, <3>1
  <2> QED BY <1>n, <1>a, <1>1, <2>1 DEF Folds
<1> DEFINE F == CHOOSE F : Sums(F)
<1>3. Sums(F)
  BY <1>2
<1>4. Total(s) = F[1..n]
  BY <1>n DEF Total, FoldLeft, MapThenFoldSet
<1> HIDE DEF F
<1>5. F[1..0] = 0
  BY <1>n, <1>3, Beginnings
<1>6. ASSUME NEW k \in 1..n, F[1..(k - 1)] \in Nat
      PROVE  F[1..k] = Adding[F[1..(k - 1)]][s[k]]
  <2>1. 1..k \in SUBSET (1..n) /\ 1..k # {} /\ Max(1..k) = k /\ (1..k) \ {k} = 1..(k - 1)
    BY Beginnings
  <2>2. F[1..k] = F[1..(k - 1)] + s[k]
    BY <1>n, <1>3, <2>1
  <2> QED BY <1>n, <1>a, <1>6, <2>2
<1>7. Walks(Nat, Nat, Adding, 0, n, s, F)
  BY ONLY <1>n, 0 \in Nat, <1>a, <1>5, <1>6 DEF Walks
<1> QED BY <1>n, <1>4, <1>7 DEF FoldsTo

(* An empty archive holds no bytes.                                         *)
LEMMA TotalEmpty == Total(<<>>) = 0
<1>1. <<>> \in Seq(Nat)
  OBVIOUS
<1>2. FoldsTo(Nat, Nat, Adding, 0, <<>>, Total(<<>>))
  BY ONLY <1>1, TotalFolds
<1> QED BY ONLY <1>2, FoldsEmpty

(* A new entry adds its bytes to the total.                                 *)
LEMMA TotalAppend ==
  ASSUME NEW s \in Seq(Nat), NEW x \in Nat
  PROVE  Total(Append(s, x)) = Total(s) + x /\ Total(s) \in Nat
<1>1. s \in Seq(Nat) /\ Append(s, x) \in Seq(Nat) /\ x \in Nat
  OBVIOUS
<1>2. FoldsTo(Nat, Nat, Adding, 0, s, Total(s))
  BY ONLY <1>1, TotalFolds
<1>3. FoldsTo(Nat, Nat, Adding, 0, Append(s, x), Total(Append(s, x)))
  BY ONLY <1>1, TotalFolds
<1>4. Total(s) \in Nat /\ Total(Append(s, x)) = Adding[Total(s)][x]
  BY ONLY <1>1, <1>2, <1>3, FoldsAppend
<1> QED BY <1>4 DEF Adding

(* The last entry is written: its bytes replace those it had.               *)
LEMMA TotalSetLast ==
  ASSUME NEW s \in Seq(Nat), s # <<>>, NEW x \in Nat
  PROVE  /\ SetLast(s, x) \in Seq(Nat) /\ Len(SetLast(s, x)) = Len(s)
         /\ \A i \in 1..Len(s) : SetLast(s, x)[i] = IF i = Len(s) THEN x ELSE s[i]
         /\ Total(SetLast(s, x)) = Total(s) - s[Len(s)] + x
<1> DEFINE f == [i \in 1..(Len(s) - 1) |-> s[i]]
<1>1. Len(s) \in Nat /\ Len(s) >= 1 /\ s[Len(s)] \in Nat
  OBVIOUS
<1>2. f \in Seq(Nat) /\ Len(f) = Len(s) - 1
  BY <1>1
<1>3. s = Append(f, s[Len(s)])
  BY <1>1, <1>2
<1>4. SetLast(s, x) = Append(f, x)
  BY <1>1, <1>2 DEF SetLast
<1>5. /\ SetLast(s, x) \in Seq(Nat) /\ Len(SetLast(s, x)) = Len(s)
      /\ \A i \in 1..Len(s) : SetLast(s, x)[i] = IF i = Len(s) THEN x ELSE s[i]
  BY <1>1 DEF SetLast
<1> HIDE DEF f
<1>6. Total(s) = Total(f) + s[Len(s)] /\ Total(f) \in Nat
  BY <1>1, <1>2, <1>3, TotalAppend
<1>7. Total(SetLast(s, x)) = Total(f) + x
  BY <1>2, <1>4, TotalAppend
<1> QED BY <1>1, <1>5, <1>6, <1>7

-------------------------------------------------------------------------------
(* int64 arithmetic and the limit of a copy *)

(* A number in the range of int64 is kept.                                  *)
LEMMA Int64Keeps ==
  ASSUME NEW n \in -(MaxInt + 1)..MaxInt PROVE Int64(n) = n
<1>1. MaxInt \in Nat
  BY GeneratorAssumption
<1> DEFINE x == n + MaxInt + 1
           m == 2 * (MaxInt + 1)
<1>2. x \in Nat /\ m \in Nat \ {0} /\ x < m
  BY <1>1
<1>3. \A a \in Nat, b \in Nat \ {0} : a < b => a % b = a
  OBVIOUS
<1>4. x % m = x
  <2> HIDE DEF x, m
  <2> QED BY <1>2, <1>3
<1> QED BY <1>1, <1>4 DEF Int64

(* One more than the largest int64 wraps around to the smallest.            *)
LEMMA Int64Wraps == Int64(MaxInt + 1) = -(MaxInt + 1)
<1>1. MaxInt \in Nat
  BY GeneratorAssumption
<1> DEFINE x == MaxInt + 1 + MaxInt + 1
           m == 2 * (MaxInt + 1)
<1>2. x = m /\ m \in Nat \ {0}
  BY <1>1
<1>3. \A b \in Nat \ {0} : b % b = 0
  OBVIOUS
<1>4. x % m = 0
  <2> HIDE DEF x, m
  <2> QED BY <1>2, <1>3
<1> QED BY <1>1, <1>4 DEF Int64

(* Max and Min of two numbers.                                              *)
LEMMA MaxMinOfTwo ==
  ASSUME NEW a \in Int, NEW b \in Int
  PROVE  Max({a, b}) = (IF a >= b THEN a ELSE b) /\ Min({a, b}) = (IF a <= b THEN a ELSE b)
<1>1. \E x \in {a, b} : \A y \in {a, b} : x >= y
  OBVIOUS
<1>2. Max({a, b}) \in {a, b} /\ \A y \in {a, b} : Max({a, b}) >= y
  BY <1>1 DEF Max
<1>3. \E x \in {a, b} : \A y \in {a, b} : x =< y
  OBVIOUS
<1>4. Min({a, b}) \in {a, b} /\ \A y \in {a, b} : Min({a, b}) =< y
  BY <1>3 DEF Min
<1> QED BY <1>2, <1>4

(* The running total is within the limit, and zero when the limit of a copy *)
(* would wrap.                                                              *)
Running == processedBytes \in 0..MaxSizeBytes /\ (processedBytes = 0 \/ MaxSizeBytes < MaxInt)

(* The limit of a copy leaves room for one byte too many, unless it wraps.  *)
LEMMA CopyLimitIs ==
  ASSUME Running
  PROVE  CopyLimit = IF MaxSizeBytes < MaxInt THEN MaxSizeBytes - processedBytes + 1 ELSE 0
<1>1. MaxInt \in Nat /\ MaxSizeBytes \in 1..MaxInt /\ processedBytes \in 0..MaxSizeBytes
  BY GeneratorAssumption DEF Running
<1>2. CASE MaxSizeBytes < MaxInt
  <2>1. MaxSizeBytes - processedBytes + 1 \in -(MaxInt + 1)..MaxInt
    BY <1>1, <1>2
  <2>2. Int64(MaxSizeBytes - processedBytes + 1) = MaxSizeBytes - processedBytes + 1
    BY <2>1, Int64Keeps
  <2>3. MaxSizeBytes - processedBytes + 1 \in Int /\ MaxSizeBytes - processedBytes + 1 > 0 /\ 0 \in Int
    BY <1>1
  <2> QED BY <1>2, <2>2, <2>3, MaxMinOfTwo DEF CopyLimit
<1>3. CASE ~(MaxSizeBytes < MaxInt)
  <2>1. MaxSizeBytes - processedBytes + 1 = MaxInt + 1
    BY <1>1, <1>3 DEF Running
  <2>2. Int64(MaxSizeBytes - processedBytes + 1) = -(MaxInt + 1)
    BY <2>1, Int64Wraps
  <2>3. -(MaxInt + 1) \in Int /\ -(MaxInt + 1) < 0 /\ 0 \in Int
    BY <1>1
  <2> QED BY <1>3, <2>2, <2>3, MaxMinOfTwo DEF CopyLimit
<1> QED BY <1>2, <1>3

(* What a copy moves, and that the running total does not wrap.             *)
LEMMA CopiedIs ==
  ASSUME Running, files[next] \in File
  PROVE  /\ Copied \in 0..MaxInt /\ processedBytes + Copied \in 0..MaxSizeBytes + 1
         /\ Int64(processedBytes + Copied) = processedBytes + Copied
         /\ processedBytes + Copied = 0 \/ MaxSizeBytes < MaxInt
         /\ MaxSizeBytes < MaxInt /\ processedBytes + Copied <= MaxSizeBytes =>
              Copied = files[next].served
<1>1. MaxInt \in Nat /\ MaxSizeBytes \in 1..MaxInt /\ processedBytes \in 0..MaxSizeBytes
  BY GeneratorAssumption DEF Running
<1>2. files[next].served \in 0..MaxInt
  BY DEF File
<1>3. CopyLimit = IF MaxSizeBytes < MaxInt THEN MaxSizeBytes - processedBytes + 1 ELSE 0
  BY CopyLimitIs
<1>4. CopyLimit \in Nat
  BY <1>1, <1>3
<1>5. Copied = IF files[next].served <= CopyLimit THEN files[next].served ELSE CopyLimit
  <2>1. files[next].served \in Int /\ CopyLimit \in Int
    BY <1>1, <1>2, <1>4
  <2> QED BY <2>1, MaxMinOfTwo DEF Copied
<1>6. CASE MaxSizeBytes < MaxInt
  <2>1. Copied \in 0..MaxInt /\ processedBytes + Copied \in 0..MaxSizeBytes + 1
    BY <1>1, <1>2, <1>3, <1>5, <1>6
  <2>2. processedBytes + Copied \in -(MaxInt + 1)..MaxInt
    BY <1>1, <2>1, <1>6
  <2>3. processedBytes + Copied <= MaxSizeBytes => Copied = files[next].served
    BY <1>1, <1>2, <1>3, <1>5, <1>6
  <2> QED BY <1>6, <2>1, <2>2, <2>3, Int64Keeps
<1>7. CASE ~(MaxSizeBytes < MaxInt)
  <2>1. processedBytes = 0 /\ Copied = 0
    BY <1>2, <1>3, <1>5, <1>7 DEF Running
  <2>2. processedBytes + Copied = 0 /\ 0 \in -(MaxInt + 1)..MaxInt
    BY <1>1, <2>1
  <2> QED BY <1>1, <1>7, <2>1, <2>2, Int64Keeps
<1> QED BY <1>6, <1>7

-------------------------------------------------------------------------------
(* The invariant *)

(* Types that the steps use.                                                *)
LEMMA InvTypes ==
  ASSUME GenerateInv
  PROVE  /\ MaxInt \in Nat /\ MaxSizeBytes \in Nat /\ MaxSizeBytes <= MaxInt
         /\ files \in Seq(File) /\ Len(files) \in Nat /\ next \in 1..Len(files) + 1
         /\ entries \in Seq(0..MaxInt) /\ entries \in Seq(Nat) /\ Len(entries) \in Nat
         /\ processedBytes \in Nat /\ progress \in Nat /\ open \in 0..1
         /\ pc \in {"fetch", "connect", "headers", "drain", "create", "copy"} =>
              next \in 1..Len(files) /\ files[next] \in File
<1>1. MaxInt \in Nat /\ MaxSizeBytes \in Nat /\ MaxSizeBytes <= MaxInt
  BY GeneratorAssumption
<1>2. files \in Seq(File) /\ Len(files) \in Nat /\ next \in 1..Len(files) + 1
  BY DEF GenerateInv, TypeOK, LoopInv
<1>3. entries \in Seq(0..MaxInt)
  BY DEF GenerateInv, LoopInv
<1>4. entries \in Seq(Nat) /\ Len(entries) \in Nat
  BY <1>1, <1>3
<1>5. processedBytes \in Nat /\ progress \in Nat /\ open \in 0..1
  BY <1>1, <1>2 DEF GenerateInv, TypeOK
<1>6. pc \in {"fetch", "connect", "headers", "drain", "create", "copy"} =>
              next \in 1..Len(files) /\ files[next] \in File
  BY <1>2 DEF GenerateInv, LoopInv
<1> QED BY <1>1, <1>2, <1>3, <1>4, <1>5, <1>6

(* Elements of a sequence.                                                  *)
LEMMA SeqElements ==
  ASSUME NEW S, NEW s \in Seq(S)
  PROVE  DOMAIN s = 1..Len(s) /\ \A i \in 1..Len(s) : s[i] \in S
OBVIOUS

(* A sequence is a sequence over any set that its elements are in.          *)
LEMMA TypedSeq ==
  ASSUME NEW S, NEW T, NEW s \in Seq(T), \A i \in 1..Len(s) : s[i] \in S
  PROVE  s \in Seq(S)
OBVIOUS

(* The files and the limit at the start.                                    *)
LEMMA InitInv == Init => GenerateInv
<1> SUFFICES ASSUME Init PROVE GenerateInv
  OBVIOUS
<1>1. PICK n \in 0..MaxCount : files \in [1..n -> File]
  BY DEF Init
<1>2. n \in Nat /\ files \in Seq(File) /\ Len(files) = n
  BY <1>1, GeneratorAssumption
<1>3. /\ next = 1 /\ processedBytes = 0 /\ entries = <<>> /\ progress = 0 /\ open = 0
      /\ pc \in {"failed", "check"} /\ exportType \in {"zip", "tar"}
  BY DEF Init
<1>4. MaxInt \in Nat /\ MaxSizeBytes \in Nat
  BY GeneratorAssumption
<1>5. TypeOK
  BY <1>2, <1>3, <1>4 DEF TypeOK, PC
<1>6. BodiesClosed
  BY <1>3 DEF BodiesClosed
<1>7. Total(entries) = 0 /\ entries \in Seq(0..MaxInt) /\ Len(entries) = 0
  BY <1>3, TotalEmpty
<1>8. LoopInv
  BY <1>2, <1>3, <1>4, <1>7 DEF LoopInv
<1> QED BY <1>5, <1>6, <1>8 DEF GenerateInv

(* A step that only moves on.                                               *)
LEMMA MovesOn ==
  ASSUME GenerateInv, UNCHANGED <<counts, frame>>, pc' \in PC, open' \in 0..1, BodiesClosed',
         pc # "failed" \/ pc' = "failed",
         pc' # "failed" => (pc = "copy" <=> pc' = "copy"),
         pc' \in {"fetch", "connect", "headers", "drain", "create", "copy"} => next <= Len(files),
         pc' \in {"dirs", "ok"} => next = Len(files) + 1,
         pc' = "ok" => ~TarShort
  PROVE  GenerateInv'
<1> USE DEF counts, frame
<1>1. TypeOK'
  BY DEF GenerateInv, TypeOK
<1>2. LoopInv'
  <2>1. /\ entries' = entries /\ files' = files /\ next' = next /\ progress' = progress
        /\ processedBytes' = processedBytes /\ exportType' = exportType
    OBVIOUS
  <2>2. TarShort' <=> TarShort
    BY <2>1 DEF TarShort
  <2> QED BY <2>1, <2>2 DEF GenerateInv, LoopInv
<1> QED BY <1>1, <1>2 DEF GenerateInv

(* CreateFile: the entry begins empty.                                      *)
LEMMA InvCreateEntry ==
  ASSUME GenerateInv, CreateEntry
  PROVE  GenerateInv'
<1>1. /\ pc = "create" /\ pc' = "copy" /\ ~TarShort /\ entries' = Append(entries, 0)
      /\ next' = next /\ processedBytes' = processedBytes /\ progress' = progress /\ open' = open
      /\ files' = files /\ exportType' = exportType
  BY DEF CreateEntry, frame
<1>2. /\ MaxInt \in Nat /\ entries \in Seq(0..MaxInt) /\ entries \in Seq(Nat)
      /\ Len(entries) \in Nat /\ next \in 1..Len(files)
  BY <1>1, InvTypes
<1>3. Len(entries) = next - 1
  BY <1>1 DEF GenerateInv, LoopInv
<1>4. /\ entries' \in Seq(0..MaxInt) /\ Len(entries') = next /\ entries'[next] = 0
      /\ \A i \in 1..(next - 1) : entries'[i] = entries[i]
  BY <1>1, <1>2, <1>3, AppendProperties
<1>5. Total(entries') = Total(entries)
  <2>1. Total(entries') = Total(entries) + 0 /\ Total(entries) \in Nat
    BY <1>1, <1>2, TotalAppend
  <2> QED BY <2>1
<1>6. TypeOK'
  <2>1. \A i \in DOMAIN entries' : entries'[i] \in 0..MaxInt
    <3>1. PICK e : e = entries'
      BY Zenon
    <3>2. e \in Seq(0..MaxInt)
      BY ONLY <1>4, <3>1, Zenon
    <3>3. DOMAIN e = 1..Len(e) /\ \A i \in 1..Len(e) : e[i] \in 0..MaxInt
      BY ONLY <3>2, SeqElements
    <3> QED BY ONLY <3>1, <3>3, Zenon
  <2> QED BY <1>1, <2>1 DEF GenerateInv, TypeOK, PC
<1>7. BodiesClosed'
  BY <1>1 DEF GenerateInv, BodiesClosed
<1>8. exportType = "tar" => \A i \in 1..(next - 1) : entries[i] = files[i].fileSize
  <2> SUFFICES ASSUME exportType = "tar", NEW i \in 1..(next - 1)
               PROVE  entries[i] = files[i].fileSize
    OBVIOUS
  <2>1. i \in 1..Len(entries) /\ entries # <<>> /\ i \in 1..Len(files)
    BY <1>2, <1>3
  <2>2. CASE i < Len(entries)
    BY <1>1, <2>1, <2>2 DEF GenerateInv, LoopInv
  <2>3. CASE i = Len(entries)
    <3>1. ~(entries[i] < files[i].fileSize)
      BY <1>1, <2>1, <2>3 DEF TarShort, Last
    <3>2. entries[i] <= files[i].fileSize
      BY <1>1 DEF GenerateInv, LoopInv
    <3>3. entries[i] \in 0..MaxInt /\ files[i].fileSize \in 0..MaxInt
      <4>1. files[i] \in File
        BY <2>1, InvTypes, SeqElements
      <4>2. entries[i] \in 0..MaxInt
        BY <1>2, <2>1, SeqElements
      <4> QED BY <4>1, <4>2 DEF File
    <3> QED BY <1>2, <3>1, <3>2, <3>3
  <2> QED BY <1>2, <2>1, <2>2, <2>3
<1>9. LoopInv'
  <2>1. /\ processedBytes = Total(entries) /\ processedBytes <= MaxSizeBytes
        /\ Total(entries) <= MaxSizeBytes + 1 /\ progress = next - 1
        /\ processedBytes = 0 \/ MaxSizeBytes < MaxInt
        /\ files \in Seq(File)
    BY <1>1 DEF GenerateInv, LoopInv
  <2>2. \A i \in 1..(next - 1) :
            /\ MaxSizeBytes < MaxInt => entries'[i] = files[i].served
            /\ exportType = "tar" => entries'[i] <= files[i].fileSize
    BY <1>1, <1>4 DEF GenerateInv, LoopInv
  <2>3. exportType = "tar" => \A i \in 1..(next - 1) : entries'[i] = files[i].fileSize
    BY <1>4, <1>8
  <2> QED BY <1>1, <1>2, <1>4, <1>5, <2>1, <2>2, <2>3 DEF LoopInv
<1> QED BY <1>6, <1>7, <1>9 DEF GenerateInv

(* What is written to the last entry counts in the total.                   *)
LEMMA LastWritten ==
  ASSUME GenerateInv, pc = "copy", NEW n \in 0..MaxInt, n <= Copied
  PROVE  /\ SetLast(entries, n) \in Seq(0..MaxInt) /\ Len(SetLast(entries, n)) = next
         /\ SetLast(entries, n)[next] = n
         /\ \A i \in 1..(next - 1) : SetLast(entries, n)[i] = entries[i]
         /\ Total(SetLast(entries, n)) = processedBytes + n
         /\ Total(SetLast(entries, n)) <= MaxSizeBytes + 1
<1>1. /\ MaxInt \in Nat /\ MaxSizeBytes \in Nat /\ entries \in Seq(0..MaxInt) /\ entries \in Seq(Nat)
      /\ next \in 1..Len(files) /\ files[next] \in File
  BY InvTypes
<1>2. /\ Len(entries) = next /\ entries[next] = 0 /\ Running
      /\ processedBytes = Total(entries)
  BY InvTypes DEF GenerateInv, LoopInv, Running
<1>3. entries # <<>> /\ n \in Nat /\ next \in Nat
  BY <1>1, <1>2
<1> DEFINE e == SetLast(entries, n)
<1>4. /\ e \in Seq(Nat) /\ Len(e) = next
      /\ \A i \in 1..next : e[i] = IF i = next THEN n ELSE entries[i]
      /\ Total(e) = Total(entries) - 0 + n
  BY <1>1, <1>2, <1>3, TotalSetLast
<1> HIDE DEF e
<1>5. \A i \in 1..Len(e) : e[i] \in 0..MaxInt
  BY <1>1, <1>2, <1>4
<1>6. e \in Seq(0..MaxInt)
  BY <1>4, <1>5, TypedSeq
<1>7. Copied \in 0..MaxInt /\ processedBytes + Copied \in 0..MaxSizeBytes + 1 /\ processedBytes \in Nat
  BY <1>1, <1>2, CopiedIs, InvTypes
<1>8. Total(e) = processedBytes + n /\ Total(e) <= MaxSizeBytes + 1
  BY <1>1, <1>2, <1>4, <1>7
<1> QED BY <1>1, <1>4, <1>6, <1>8 DEF e

(* A copy that ends in an error leaves an archive within the limit.         *)
LEMMA InvCopyEnds ==
  ASSUME GenerateInv, pc = "copy", pc' = "failed", open' = open - 1, UNCHANGED <<next, progress, frame>>,
         NEW n \in 0..MaxInt, n <= Copied, entries' = SetLast(entries, n),
         processedBytes' \in 0..MaxSizeBytes + 1, processedBytes' = 0 \/ MaxSizeBytes < MaxInt
  PROVE  GenerateInv'
<1>1. entries' \in Seq(0..MaxInt) /\ Total(entries') <= MaxSizeBytes + 1
  BY LastWritten
<1>2. next' = next /\ progress' = progress /\ files' = files /\ exportType' = exportType
  BY DEF frame
<1>3. open' = 0
  BY DEF GenerateInv, BodiesClosed
<1>4. TypeOK'
  <2>1. \A i \in DOMAIN entries' : entries'[i] \in 0..MaxInt
    BY <1>1, SeqElements
  <2> QED BY <1>2, <1>3, <2>1 DEF GenerateInv, TypeOK, PC
<1>5. BodiesClosed'
  BY <1>3 DEF BodiesClosed
<1>6. LoopInv'
  BY <1>1, <1>2 DEF GenerateInv, LoopInv
<1> QED BY <1>4, <1>5, <1>6 DEF GenerateInv

(* A file is whole: the loop goes on with the next one.                     *)
LEMMA InvCopyWhole ==
  ASSUME GenerateInv, pc = "copy", ~TooLong, pc' = "check", open' = open - 1, UNCHANGED frame,
         entries' = SetLast(entries, Copied), processedBytes' = processedBytes + Copied,
         processedBytes' <= MaxSizeBytes, progress' = progress + 1, next' = next + 1
  PROVE  GenerateInv'
<1>1. /\ MaxInt \in Nat /\ MaxSizeBytes \in Nat /\ processedBytes \in Nat /\ progress \in Nat
      /\ next \in 1..Len(files) /\ files[next] \in File /\ files \in Seq(File)
  BY InvTypes
<1>2. progress = next - 1 /\ Running
  BY <1>1 DEF GenerateInv, LoopInv, Running
<1>3. /\ Copied \in 0..MaxInt /\ processedBytes + Copied \in 0..MaxSizeBytes + 1
      /\ processedBytes + Copied = 0 \/ MaxSizeBytes < MaxInt
      /\ MaxSizeBytes < MaxInt => Copied = files[next].served
  BY <1>1, <1>2, CopiedIs
<1>4. /\ entries' \in Seq(0..MaxInt) /\ Len(entries') = next /\ entries'[next] = Copied
      /\ \A i \in 1..(next - 1) : entries'[i] = entries[i]
      /\ Total(entries') = processedBytes + Copied /\ Total(entries') <= MaxSizeBytes + 1
  BY <1>1, <1>3, LastWritten, SMTT(30)
<1>5. files' = files /\ exportType' = exportType
  BY DEF frame
<1>6. open' = 0
  BY DEF GenerateInv, BodiesClosed
<1>7. TypeOK'
  <2>1. \A i \in DOMAIN entries' : entries'[i] \in 0..MaxInt
    BY <1>4, SeqElements
  <2>2. next' \in 1..Len(files) + 1 /\ progress' \in 0..Len(files)
    BY <1>1, <1>2
  <2> QED BY <1>3, <1>5, <1>6, <2>1, <2>2 DEF GenerateInv, TypeOK, PC
<1>8. BodiesClosed'
  BY <1>6 DEF BodiesClosed
<1>9. \A i \in 1..next :
        /\ MaxSizeBytes < MaxInt => entries'[i] = files[i].served
        /\ exportType = "tar" => entries'[i] <= files[i].fileSize
  <2> SUFFICES ASSUME NEW i \in 1..next
               PROVE  /\ MaxSizeBytes < MaxInt => entries'[i] = files[i].served
                      /\ exportType = "tar" => entries'[i] <= files[i].fileSize
    OBVIOUS
  <2>1. CASE i = next
    <3>1. exportType = "tar" => ~(Copied > files[next].fileSize)
      BY DEF TooLong
    <3>2. files[next].fileSize \in 0..MaxInt
      BY <1>1 DEF File
    <3> QED BY <1>1, <1>3, <1>4, <2>1, <3>1, <3>2
  <2>2. CASE i \in 1..(next - 1)
    BY <1>4, <2>2 DEF GenerateInv, LoopInv
  <2> QED BY <1>1, <2>1, <2>2
<1>10. exportType = "tar" => \A i \in 1..(next - 1) : entries'[i] = files[i].fileSize
  <2>1. Len(entries) = next
    BY DEF GenerateInv, LoopInv
  <2> QED BY <1>4, <2>1 DEF GenerateInv, LoopInv
<1>11. next' - 1 = next /\ progress' = next' - 1
  BY <1>1, <1>2
<1>12. LoopInv'
  BY <1>1, <1>3, <1>4, <1>5, <1>9, <1>10, <1>11 DEF LoopInv
<1> QED BY <1>7, <1>8, <1>12 DEF GenerateInv

(* The rest of writeFile.                                                   *)
LEMMA InvCopyBody ==
  ASSUME GenerateInv, CopyBody
  PROVE  GenerateInv'
<1>1. pc = "copy" /\ open' = open - 1 /\ UNCHANGED frame
  BY DEF CopyBody
<1>2. /\ MaxInt \in Nat /\ MaxSizeBytes \in Nat /\ processedBytes \in Nat
      /\ files[next] \in File /\ Running
  BY <1>1, InvTypes DEF GenerateInv, LoopInv, Running
<1>3. /\ Copied \in 0..MaxInt /\ processedBytes + Copied \in 0..MaxSizeBytes + 1
      /\ Int64(processedBytes + Copied) = processedBytes + Copied
      /\ processedBytes + Copied = 0 \/ MaxSizeBytes < MaxInt
  BY <1>2, CopiedIs
<1>4. CASE TooLong
  <2>1. /\ entries' = SetLast(entries, files[next].fileSize) /\ pc' = "failed"
        /\ UNCHANGED <<processedBytes, progress, next>>
    BY <1>4 DEF CopyBody
  <2>2. files[next].fileSize \in 0..MaxInt /\ files[next].fileSize <= Copied
    BY <1>2, <1>3, <1>4 DEF TooLong, File
  <2>3. processedBytes' \in 0..MaxSizeBytes + 1 /\ (processedBytes' = 0 \/ MaxSizeBytes < MaxInt)
    BY <1>2, <2>1 DEF Running
  <2> QED BY <1>1, <2>1, <2>2, <2>3, InvCopyEnds
<1>5. CASE ~TooLong /\ processedBytes' > MaxSizeBytes
  <2>1. /\ entries' = SetLast(entries, Copied) /\ pc' = "failed"
        /\ processedBytes' = processedBytes + Copied /\ UNCHANGED <<progress, next>>
    BY <1>3, <1>5 DEF CopyBody
  <2>2. Copied <= Copied
    BY <1>3
  <2> QED BY <1>1, <1>3, <2>1, <2>2, InvCopyEnds
<1>6. CASE ~TooLong /\ ~(processedBytes' > MaxSizeBytes)
  <2>1. /\ entries' = SetLast(entries, Copied) /\ pc' = "check"
        /\ processedBytes' = processedBytes + Copied
        /\ progress' = progress + 1 /\ next' = next + 1
    BY <1>3, <1>6 DEF CopyBody
  <2>2. processedBytes' <= MaxSizeBytes
    BY <1>2, <1>3, <1>6, <2>1
  <2> QED BY <1>1, <1>6, <2>1, <2>2, InvCopyWhole
<1> QED BY <1>4, <1>5, <1>6

(* Every step of Generate keeps the invariant.                              *)
LEMMA InvStep == GenerateInv /\ [Next]_vars => GenerateInv'
<1> SUFFICES ASSUME GenerateInv, [Next]_vars PROVE GenerateInv'
  OBVIOUS
<1> USE DEF counts, frame
<1>t. open \in 0..1 /\ open = IF pc \in {"drain", "create", "copy"} THEN 1 ELSE 0
  BY InvTypes DEF GenerateInv, BodiesClosed
<1>1. CASE CheckFile
  BY <1>1, <1>t, MovesOn DEF CheckFile, PC, BodiesClosed
<1>2. CASE FindServer \/ Connect
  <2>1. next <= Len(files)
    BY <1>2 DEF FindServer, Connect, GenerateInv, LoopInv
  <2> QED BY <1>2, <1>t, <2>1, MovesOn DEF FindServer, Connect, PC, BodiesClosed
<1>3. CASE Headers
  <2>1. next <= Len(files)
    BY <1>3 DEF Headers, GenerateInv, LoopInv
  <2> QED BY <1>3, <1>t, <2>1, MovesOn DEF Headers, PC, BodiesClosed
<1>4. CASE CreateEntry
  BY <1>4, InvCreateEntry
<1>5. CASE CopyBody
  BY <1>5, InvCopyBody
<1>6. CASE FilesDone
  <2>1. next = Len(files) + 1
    BY <1>6, InvTypes DEF FilesDone
  <2> QED BY <1>6, <1>t, <2>1, MovesOn DEF FilesDone, PC, BodiesClosed
<1>7. CASE Finish
  <2>1. next = Len(files) + 1
    BY <1>7 DEF Finish, GenerateInv, LoopInv
  <2> QED BY <1>7, <1>t, <2>1, MovesOn DEF Finish, PC, BodiesClosed
<1>8. CASE StepFails \/ HeaderTimeout \/ Drain \/ CreateFails
  BY <1>8, <1>t, MovesOn DEF StepFails, HeaderTimeout, Drain, CreateFails, PC, BodiesClosed
<1>9. CASE CopyFails
  <2>1. PICK n \in 0..Copied : entries' = SetLast(entries, n)
    BY <1>9 DEF CopyFails
  <2>2. /\ pc = "copy" /\ pc' = "failed" /\ open' = open - 1
        /\ UNCHANGED <<next, processedBytes, progress, frame>>
    BY <1>9 DEF CopyFails
  <2>3. Running /\ files[next] \in File /\ MaxInt \in Nat /\ MaxSizeBytes \in Nat
    BY <2>2, InvTypes, SMTT(30) DEF GenerateInv, LoopInv, Running
  <2>4. Copied \in 0..MaxInt
    BY <2>3, CopiedIs
  <2>5. n \in 0..MaxInt /\ n <= Copied
    BY <2>3, <2>4
  <2>6. processedBytes' \in 0..MaxSizeBytes + 1 /\ (processedBytes' = 0 \/ MaxSizeBytes < MaxInt)
    BY <2>2, <2>3 DEF Running
  <2> QED BY <2>1, <2>2, <2>5, <2>6, InvCopyEnds
<1>10. CASE UNCHANGED vars
  <2>1. TypeOK' /\ BodiesClosed'
    BY <1>10 DEF vars, GenerateInv, TypeOK, BodiesClosed
  <2>2. LoopInv'
    BY <1>10 DEF vars, GenerateInv, LoopInv, TarShort
  <2> QED BY <2>1, <2>2 DEF GenerateInv
<1> QED BY <1>1, <1>2, <1>3, <1>4, <1>5, <1>6, <1>7, <1>8, <1>9, <1>10 DEF Next

-------------------------------------------------------------------------------
(* Types, open bodies and what the archive holds, at every step of Generate *)
(* for every manifest and limit; the int64 running total never wraps.       *)
THEOREM GenerateInvariant == Spec => []GenerateInv
BY InitInv, InvStep, PTL DEF Spec

(* An archive never passes the limit by more than one byte, and a finished  *)
(* one not at all, whatever the servers serve and however the sum of the    *)
(* declared sizes wraps (Generate, writeFile).                              *)
THEOREM CapHoldsAlways == Spec => []CapHolds
<1>1. GenerateInv => CapHolds
  BY DEF GenerateInv, LoopInv, CapHolds
<1> QED BY <1>1, GenerateInvariant, PTL

(* When Generate succeeds every file is in the archive as it was served,    *)
(* for every limit but the largest int64, at which the limit of the copy    *)
(* wraps (writeFile).                                                       *)
THEOREM SuccessIsCompleteAlways ==
  ASSUME MaxSizeBytes < MaxInt PROVE Spec => []SuccessIsComplete
<1>1. GenerateInv => SuccessIsComplete
  <2> SUFFICES ASSUME GenerateInv, pc = "ok"
               PROVE  entries = [i \in DOMAIN files |-> files[i].served] /\ progress = Len(files)
    BY DEF SuccessIsComplete
  <2>1. next = Len(files) + 1 /\ progress = next - 1 /\ Len(entries) = next - 1
    BY DEF GenerateInv, LoopInv
  <2>2. files \in Seq(File) /\ entries \in Seq(Nat) /\ Len(files) \in Nat
    BY InvTypes
  <2>3. Len(entries) = Len(files) /\ progress = Len(files)
    BY <2>1, <2>2
  <2>4. \A i \in 1..Len(files) : entries[i] = files[i].served
    BY <2>1, <2>2 DEF GenerateInv, LoopInv
  <2>5. DOMAIN files = 1..Len(files) /\ DOMAIN entries = 1..Len(files)
    BY <2>2, <2>3
  <2>6. entries = [i \in 1..Len(entries) |-> entries[i]]
    BY <2>2
  <2> QED BY <2>3, <2>4, <2>5, <2>6
<1> QED BY <1>1, GenerateInvariant, PTL

(* A finished TAR has entries of exactly the declared sizes: what is too    *)
(* long fails at once, what is too short at the next header or at the end.  *)
THEOREM TarSizesMatchAlways == Spec => []TarSizesMatch
<1>1. GenerateInv => TarSizesMatch
  <2> SUFFICES ASSUME GenerateInv, pc = "ok", exportType = "tar", NEW i \in DOMAIN files
               PROVE  entries[i] = files[i].fileSize
    BY DEF TarSizesMatch
  <2>1. next = Len(files) + 1 /\ Len(entries) = next - 1 /\ ~TarShort
    BY DEF GenerateInv, LoopInv
  <2>2. files \in Seq(File) /\ entries \in Seq(Nat) /\ Len(files) \in Nat /\ MaxInt \in Nat
    BY InvTypes
  <2>3. i \in 1..Len(files) /\ Len(entries) = Len(files) /\ files[i] \in File /\ entries[i] \in Nat
    BY <2>1, <2>2, SeqElements
  <2>4. entries[i] <= files[i].fileSize
    BY <2>1, <2>2, <2>3 DEF GenerateInv, LoopInv
  <2>5. CASE i < Len(entries)
    BY <2>2, <2>3, <2>5 DEF GenerateInv, LoopInv
  <2>6. CASE i = Len(entries)
    <3>1. ~(entries[i] < files[i].fileSize)
      BY <2>1, <2>2, <2>3, <2>6 DEF TarShort, Last
    <3>2. files[i].fileSize \in Nat
      BY <2>2, <2>3 DEF File
    <3> QED BY <2>3, <2>4, <3>1, <3>2
  <2> QED BY <2>2, <2>3, <2>5, <2>6
<1> QED BY <1>1, GenerateInvariant, PTL

(* No response body stays open outside writeFile and the draining of an     *)
(* error response.                                                          *)
THEOREM BodiesClosedAlways == Spec => []BodiesClosed
BY GenerateInvariant, PTL DEF GenerateInv

-------------------------------------------------------------------------------
(* The refinement of Generation *)

(* Every way to fail ends the call.                                         *)
LEMMA CallFails ==
  ASSUME pc # "failed", pc' = "failed" PROVE G!Next
BY DEF G!Next, G!End, Failed

(* A step that neither fails, succeeds nor reports a file stutters.         *)
LEMMA CallGoesOn ==
  ASSUME pc \notin {"ok", "failed"}, pc' \notin {"ok", "failed"}, UNCHANGED <<progress, files>>
  PROVE  UNCHANGED G!vars
BY DEF G!vars, Failed

(* Generate implements Generation: each step of its loop, of the storage    *)
(* client and of writeFile is a step of the call or a stutter.              *)
THEOREM PromiseKept == Spec => KeepsPromise
<1>1. Init => G!Init
  <2> SUFFICES ASSUME Init PROVE G!Init
    OBVIOUS
  <2>1. files \in Seq(File) /\ Len(files) \in Nat
    BY InitInv, InvTypes
  <2> QED BY <2>1 DEF Init, G!Init, Failed
<1>2. GenerateInv /\ [Next]_vars => [G!Next]_(G!vars)
  <2> SUFFICES ASSUME GenerateInv, [Next]_vars PROVE [G!Next]_(G!vars)
    OBVIOUS
  <2> USE DEF counts, frame
  <2>1. CASE CheckFile \/ FindServer \/ Connect
    BY <2>1, CallFails, CallGoesOn DEF CheckFile, FindServer, Connect
  <2>2. CASE Headers \/ CreateEntry \/ FilesDone
    BY <2>2, CallGoesOn DEF Headers, CreateEntry, FilesDone
  <2>3. CASE StepFails \/ HeaderTimeout \/ Drain \/ CreateFails \/ CopyFails
    BY <2>3, CallFails DEF StepFails, HeaderTimeout, Drain, CreateFails, CopyFails
  <2>4. CASE CopyBody
    <3>1. CASE pc' = "failed"
      BY <2>4, <3>1, CallFails DEF CopyBody
    <3>2. CASE pc' # "failed"
      <4>1. pc = "copy" /\ pc' = "check" /\ progress' = progress + 1 /\ files' = files
        BY <2>4, <3>2 DEF CopyBody
      <4>2. progress < Len(files)
        BY <4>1, InvTypes DEF GenerateInv, LoopInv
      <4>3. G!AddFile
        BY <4>1, <4>2 DEF G!AddFile, Failed
      <4> QED BY <4>3 DEF G!Next
    <3> QED BY <3>1, <3>2
  <2>5. CASE Finish
    <3>1. CASE pc' = "failed"
      BY <2>5, <3>1, CallFails DEF Finish
    <3>2. CASE pc' # "failed"
      <4>1. pc = "dirs" /\ pc' = "ok" /\ progress' = progress /\ files' = files
        BY <2>5, <3>2 DEF Finish
      <4>2. progress = Len(files)
        BY <4>1, InvTypes DEF GenerateInv, LoopInv
      <4>3. G!Succeed
        BY <4>1, <4>2 DEF G!Succeed, Failed
      <4> QED BY <4>3 DEF G!Next
    <3> QED BY <3>1, <3>2
  <2>6. CASE UNCHANGED vars
    BY <2>6 DEF vars, G!vars, Failed
  <2> QED BY <2>1, <2>2, <2>3, <2>4, <2>5, <2>6 DEF Next
<1>3. Spec => []GenerateInv
  BY GenerateInvariant, PTL
<1> QED BY <1>1, <1>2, <1>3, PTL DEF Spec, KeepsPromise, G!Spec
================================================================================
