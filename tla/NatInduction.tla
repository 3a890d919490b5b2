------------------------------ MODULE NatInduction ------------------------------
(***************************************************************************)
(* Induction over the naturals as a statement about sets, from the         *)
(* well-foundedness of their order, and what FoldLeft computes: with the   *)
(* step as a function A, its values on the beginnings of the sequence.     *)
(***************************************************************************)
EXTENDS Integers, Sequences, FiniteSetsExt, WellFoundedInduction, TLAPS

(* Every nonempty set of naturals has a least element.                      *)
LEMMA Least ==
  ASSUME NEW T \in SUBSET Nat, T # {}
  PROVE  \E x \in T : \A y \in T : x <= y
<1> DEFINE R == {p \in Nat \X Nat : p[1] < p[2]}
<1>1. IsWellFoundedOn(R, Nat)
  BY NatLessThanWellFounded DEF OpToRel
<1> HIDE DEF R
<1>2. PICK x \in T : \A y \in T : ~(<<y, x>> \in R)
  BY <1>1, WFMin
<1>3. ASSUME NEW a \in Nat, NEW b \in Nat, a < b PROVE <<a, b>> \in R
  <2> DEFINE q == <<a, b>>
  <2>1. q \in Nat \X Nat /\ q[1] = a /\ q[2] = b
    OBVIOUS
  <2> HIDE DEF q
  <2>2. q \in R
    BY <2>1, <1>3 DEF R
  <2> QED BY <2>2 DEF q
<1>4. ASSUME NEW y \in T PROVE x <= y
  <2>1. <<y, x>> \notin R
    BY <1>2
  <2>2. y < x => <<y, x>> \in R
    BY <1>3
  <2> QED BY <2>1, <2>2
<1> QED BY <1>4

(* A set of naturals that holds 0 and with every number the next holds all. *)
LEMMA Induction ==
  ASSUME NEW P \in SUBSET Nat, 0 \in P, \A n \in P : n + 1 \in P
  PROVE  P = Nat
<1>1. SUFFICES ASSUME Nat \ P # {} PROVE FALSE
  OBVIOUS
<1>2. PICK x \in Nat \ P : \A y \in Nat \ P : x <= y
  <2>1. Nat \ P \in SUBSET Nat
    OBVIOUS
  <2> QED BY <1>1, <2>1, Least
<1>3. x # 0 /\ x - 1 \in Nat
  BY <1>2
<1>4. x - 1 \in P
  BY <1>2, <1>3
<1>5. (x - 1) + 1 \in P
  BY <1>4
<1> QED BY <1>2, <1>3, <1>5

-------------------------------------------------------------------------------
(* Folds *)

(* Max of a nonempty set of indexes. *)
LEMMA MaxIndex ==
  ASSUME NEW n \in Nat, NEW T \in SUBSET (1..n), T # {}
  PROVE  Max(T) \in T /\ \A y \in T : Max(T) >= y
<1> DEFINE U == {u \in 0..n : n - u \in T}
<1>1. U \in SUBSET Nat
  OBVIOUS
<1>2. PICK t \in T : TRUE
  OBVIOUS
<1>3. n - t \in U
  <2>1. t \in 1..n /\ n - t \in 0..n /\ n - (n - t) = t
    OBVIOUS
  <2> QED BY <2>1
<1>4. PICK u \in U : \A v \in U : u <= v
  BY <1>1, <1>3, Least
<1>5. n - u \in T /\ u \in 0..n
  BY <1>4
<1>6. ASSUME NEW y \in T PROVE n - u >= y
  <2>1. y \in 1..n /\ n - y \in 0..n /\ n - (n - y) = y
    OBVIOUS
  <2>2. n - y \in U
    BY <2>1
  <2>3. u <= n - y
    BY <1>4, <2>2
  <2> QED BY <1>5, <2>1, <2>3
<1>7. \E x \in T : \A y \in T : x >= y
  BY <1>5, <1>6
<1> QED BY <1>7 DEF Max

(* The greatest index of a set that holds n. *)
LEMMA MaxIs ==
  ASSUME NEW n \in Nat, NEW T \in SUBSET (1..n), n \in T
  PROVE  Max(T) = n
<1>1. Max(T) \in T /\ Max(T) >= n
  BY MaxIndex
<1>2. Max(T) \in 1..n
  BY <1>1
<1> QED BY <1>1, <1>2

(* A set of indexes without the last.                                       *)
LEMMA StaysBelow ==
  ASSUME NEW k \in Nat, NEW T \in SUBSET (1..k+1), k + 1 \notin T
  PROVE  T \in SUBSET (1..k)
<1>1. ASSUME NEW x \in T PROVE x \in 1..k
  <2>1. x \in 1..k+1 /\ x # k + 1
    BY <1>1
  <2> QED BY <2>1
<1> QED BY <1>1

(* F is the function that MapThenFoldSet looks up, for the step A.          *)
Folds(A, base, s, F) ==
  F = [T \in SUBSET DOMAIN s |-> IF T = {} THEN base ELSE A[F[T \ {Max(T)}]][s[Max(T)]]]

(* There is such a function, for every step and every sequence.             *)
LEMMA FoldExists ==
  ASSUME NEW X, NEW Y, NEW A \in [X -> [Y -> X]], NEW base \in X, NEW n \in Nat
  PROVE  \A s \in [1..n -> Y] : \E F \in [SUBSET (1..n) -> X] : Folds(A, base, s, F)
<1> DEFINE Holds(k) == \A s \in [1..k -> Y] : \E F \in [SUBSET (1..k) -> X] : Folds(A, base, s, F)
           P == {k \in Nat : Holds(k)}
<1>a. \A x \in X : \A y \in Y : A[x][y] \in X
  OBVIOUS
<1>1. Holds(0)
  <2> SUFFICES ASSUME NEW s \in [1..0 -> Y]
               PROVE  \E F \in [SUBSET (1..0) -> X] : Folds(A, base, s, F)
    OBVIOUS
  <2> DEFINE F == [T \in SUBSET (1..0) |-> base]
  <2>1. F \in [SUBSET (1..0) -> X]
    OBVIOUS
  <2>2. Folds(A, base, s, F)
    <3>1. \A T \in SUBSET (1..0) : T = {}
      OBVIOUS
    <3> QED BY <3>1 DEF Folds
  <2> QED BY <2>1, <2>2
<1>2. ASSUME NEW k \in Nat, Holds(k) PROVE Holds(k + 1)
  <2>1. k \in Nat /\ Holds(k)
    BY <1>2
  <2> SUFFICES ASSUME NEW s \in [1..k+1 -> Y]
               PROVE  \E F \in [SUBSET (1..k+1) -> X] : Folds(A, base, s, F)
    OBVIOUS
  <2> DEFINE r == [i \in 1..k |-> s[i]]
  <2>2. r \in [1..k -> Y]
    BY <2>1
  <2>3. PICK F \in [SUBSET (1..k) -> X] : Folds(A, base, r, F)
    BY <2>1, <2>2
  <2> DEFINE E == [T \in SUBSET (1..k+1) |->
                     IF k + 1 \in T THEN A[F[T \ {k + 1}]][s[k + 1]] ELSE F[T]]
  <2>4. \A T \in SUBSET (1..k+1) : k + 1 \notin T => T \in SUBSET (1..k)
    BY <2>1, StaysBelow
  <2>5. \A T \in SUBSET (1..k+1) : T \ {k + 1} \in SUBSET (1..k)
    BY ONLY k \in Nat
  <2>6. E \in [SUBSET (1..k+1) -> X]
    <3>1. s[k + 1] \in Y
      BY <2>1
    <3>2. \A V \in SUBSET (1..k) : F[V] \in X
      BY <2>3
    <3>3. ASSUME NEW T \in SUBSET (1..k+1)
          PROVE  (IF k + 1 \in T THEN A[F[T \ {k + 1}]][s[k + 1]] ELSE F[T]) \in X
      BY <1>a, <2>4, <2>5, <3>1, <3>2
    <3> QED BY <3>3
  <2>7. ASSUME NEW T \in SUBSET (1..k+1)
        PROVE  E[T] = IF T = {} THEN base ELSE A[E[T \ {Max(T)}]][s[Max(T)]]
    <3>1. \A V \in SUBSET (1..k) : F[V] = IF V = {} THEN base ELSE A[F[V \ {Max(V)}]][r[Max(V)]]
      BY <2>1, <2>2, <2>3 DEF Folds
    <3>2. CASE k + 1 \in T
      <4>1. Max(T) = k + 1
        BY <2>1, <3>2, MaxIs
      <4>2. E[T \ {k + 1}] = F[T \ {k + 1}]
        BY <2>5
      <4>3. E[T] = A[F[T \ {k + 1}]][s[k + 1]]
        BY <3>2
      <4> QED BY <3>2, <4>1, <4>2, <4>3
    <3>3. CASE k + 1 \notin T
      <4>1. T \in SUBSET (1..k) /\ E[T] = F[T]
        BY <3>3, <2>4
      <4>2. CASE T = {}
        BY <4>1, <4>2, <3>1
      <4>3. CASE T # {}
        <5>1. Max(T) \in T
          BY <2>1, <4>1, <4>3, MaxIndex
        <5>2. r[Max(T)] = s[Max(T)]
          BY <4>1, <5>1
        <5>3. T \ {Max(T)} \in SUBSET (1..k+1) /\ T \ {Max(T)} \in SUBSET (1..k) /\ k + 1 \notin T \ {Max(T)}
          BY <4>1, <3>3
        <5>4. E[T \ {Max(T)}] = F[T \ {Max(T)}]
          BY <5>3
        <5> QED BY <3>1, <4>1, <4>3, <5>2, <5>4
      <4> QED BY <4>2, <4>3
    <3> QED BY <3>2, <3>3
  <2> HIDE DEF E
  <2>8. Folds(A, base, s, E)
    BY <2>6, <2>7 DEF Folds
  <2> QED BY <2>6, <2>8
<1> HIDE DEF Holds
<1>3. P = Nat
  <2>1. P \in SUBSET Nat /\ 0 \in P /\ \A k \in P : k + 1 \in P
    BY <1>1, <1>2
  <2> HIDE DEF P
  <2> QED BY <2>1, Induction
<1>4. Holds(n)
  BY <1>3
<1> QED BY <1>4 DEF Holds

(* The sets of indexes on the way of a fold.                                *)
LEMMA Beginnings ==
  ASSUME NEW n \in Nat
  PROVE  /\ 1..0 = {} /\ {} \in SUBSET (1..n)
         /\ \A k \in 1..n : /\ 1..k \in SUBSET (1..n) /\ 1..k # {}
                            /\ Max(1..k) = k /\ (1..k) \ {k} = 1..(k - 1)
<1>1. 1..0 = {} /\ {} \in SUBSET (1..n)
  OBVIOUS
<1>2. ASSUME NEW k \in 1..n
      PROVE  1..k \in SUBSET (1..n) /\ 1..k # {} /\ Max(1..k) = k /\ (1..k) \ {k} = 1..(k - 1)
  <2>1. 1..k \in SUBSET (1..n) /\ 1..k \in SUBSET (1..k) /\ k \in 1..k /\ k \in Nat
    OBVIOUS
  <2>2. Max(1..k) = k
    BY <2>1, MaxIs
  <2>3. (1..k) \ {k} = 1..(k - 1)
    BY <2>1
  <2> QED BY <2>1, <2>2, <2>3
<1> QED BY <1>1, <1>2

(* F takes the step A along s, as long as it stays in X.                    *)
Walks(X, Y, A, base, n, s, F) ==
  /\ A \in [X -> [Y -> X]] /\ base \in X /\ n \in Nat /\ s \in [1..n -> Y]
  /\ F[1..0] = base
  /\ \A k \in 1..n : F[1..(k - 1)] \in X => F[1..k] = A[F[1..(k - 1)]][s[k]]

(* It stays there.                                                          *)
LEMMA WalkTyped ==
  ASSUME NEW X, NEW Y, NEW A, NEW base, NEW n, NEW s, NEW F, Walks(X, Y, A, base, n, s, F)
  PROVE  n \in Nat /\ \A k \in 0..n : F[1..k] \in X
<1>a. A \in [X -> [Y -> X]] /\ base \in X /\ n \in Nat /\ s \in [1..n -> Y] /\ F[1..0] = base
  BY DEF Walks
<1> DEFINE P == {k \in Nat : k <= n => F[1..k] \in X}
<1>1. 0 \in P
  BY <1>a
<1>2. ASSUME NEW k \in P PROVE k + 1 \in P
  <2> SUFFICES ASSUME k + 1 <= n PROVE F[1..(k + 1)] \in X
    OBVIOUS
  <2>1. k \in Nat /\ F[1..k] \in X
    BY <1>a
  <2>2. k + 1 \in 1..n /\ (k + 1) - 1 = k
    BY <1>a, <2>1
  <2>3. F[1..(k + 1)] = A[F[1..k]][s[k + 1]]
    BY <2>1, <2>2 DEF Walks
  <2>4. s[k + 1] \in Y
    BY <1>a, <2>2
  <2> QED BY <1>a, <2>1, <2>3, <2>4
<1>3. P = Nat
  BY <1>1, <1>2, Induction
<1> HIDE DEF P
<1>4. ASSUME NEW k \in 0..n PROVE F[1..k] \in X
  <2>1. k \in P
    BY <1>3
  <2> QED BY <2>1 DEF P
<1> QED BY <1>a, <1>4

(* One element more is one step more.                                       *)
LEMMA WalkAppend ==
  ASSUME NEW X, NEW Y, NEW A, NEW base, NEW n, NEW m, NEW s, NEW t, NEW F, NEW E,
         Walks(X, Y, A, base, n, s, F), Walks(X, Y, A, base, m, t, E), m = n + 1,
         \A i \in 1..n : t[i] = s[i]
  PROVE  F[1..n] \in X /\ E[1..m] = A[F[1..n]][t[m]]
<1>f. n \in Nat /\ \A k \in 0..n : F[1..k] \in X
  BY WalkTyped
<1> DEFINE P == {k \in Nat : k <= n => E[1..k] = F[1..k]}
<1>1. 0 \in P
  BY DEF Walks
<1>2. ASSUME NEW k \in P PROVE k + 1 \in P
  <2> SUFFICES ASSUME k + 1 <= n PROVE E[1..(k + 1)] = F[1..(k + 1)]
    OBVIOUS
  <2>1. k \in Nat /\ E[1..k] = F[1..k] /\ F[1..k] \in X
    BY <1>f
  <2>2. k + 1 \in 1..n /\ k + 1 \in 1..m /\ (k + 1) - 1 = k
    BY <1>f, <2>1
  <2>3. F[1..(k + 1)] = A[F[1..k]][s[k + 1]]
    BY <2>1, <2>2 DEF Walks
  <2>4. E[1..(k + 1)] = A[E[1..k]][t[k + 1]]
    BY <2>1, <2>2 DEF Walks
  <2>5. t[k + 1] = s[k + 1]
    BY <2>2
  <2> QED BY <2>1, <2>3, <2>4, <2>5
<1>3. P = Nat
  BY <1>1, <1>2, Induction
<1> HIDE DEF P
<1>4. E[1..n] = F[1..n] /\ F[1..n] \in X
  BY <1>3, <1>f DEF P
<1>5. m \in 1..m /\ m - 1 = n
  BY <1>f
<1>6. E[1..m] = A[E[1..n]][t[m]]
  BY <1>4, <1>5 DEF Walks
<1> QED BY <1>4, <1>6

(* v is where the steps A along s lead.                                     *)
FoldsTo(X, Y, A, base, s, v) ==
  \E F : Walks(X, Y, A, base, Len(s), s, F) /\ v = F[1..Len(s)]

(* No step leads nowhere.                                                   *)
LEMMA FoldsEmpty ==
  ASSUME NEW X, NEW Y, NEW A, NEW base, NEW v, FoldsTo(X, Y, A, base, <<>>, v)
  PROVE  v = base
<1>1. Len(<<>>) = 0
  OBVIOUS
<1>2. PICK F : Walks(X, Y, A, base, 0, <<>>, F) /\ v = F[1..0]
  BY <1>1 DEF FoldsTo
<1> QED BY <1>2 DEF Walks

(* The steps stay in X.                                                     *)
LEMMA FoldsTyped ==
  ASSUME NEW X, NEW Y, NEW A, NEW base, NEW s, NEW v, FoldsTo(X, Y, A, base, s, v)
  PROVE  v \in X
<1>1. PICK F : Walks(X, Y, A, base, Len(s), s, F) /\ v = F[1..Len(s)]
  BY DEF FoldsTo
<1>2. PICK n : n = Len(s)
  OBVIOUS
<1>3. n \in Nat /\ \A k \in 0..n : F[1..k] \in X
  BY ONLY <1>1, <1>2, WalkTyped
<1> QED BY <1>1, <1>2, <1>3

(* The steps stay in X, and one element more is one step more.              *)
LEMMA FoldsAppend ==
  ASSUME NEW X, NEW Y, NEW A, NEW base, NEW s \in Seq(Y), NEW x \in Y, NEW v, NEW w,
         FoldsTo(X, Y, A, base, s, v), FoldsTo(X, Y, A, base, Append(s, x), w)
  PROVE  v \in X /\ w = A[v][x]
<1>1. PICK n \in Nat : n = Len(s)
  OBVIOUS
<1>2. PICK t : t = Append(s, x)
  OBVIOUS
<1>3. PICK m \in Nat : m = n + 1
  BY <1>1
<1>4. Len(t) = m /\ t[m] = x /\ \A i \in 1..n : t[i] = s[i]
  BY <1>1, <1>2, <1>3
<1>5. PICK F : Walks(X, Y, A, base, n, s, F) /\ v = F[1..n]
  BY <1>1 DEF FoldsTo
<1>6. PICK E : Walks(X, Y, A, base, m, t, E) /\ w = E[1..m]
  BY <1>2, <1>4 DEF FoldsTo
<1>7. F[1..n] \in X /\ E[1..m] = A[F[1..n]][t[m]]
  BY ONLY <1>3, <1>4, <1>5, <1>6, WalkAppend
<1> QED BY <1>4, <1>5, <1>6, <1>7

(* Induction over sequences that grow at their end.                         *)
LEMMA SeqInduction ==
  ASSUME NEW Y, NEW P \in SUBSET Seq(Y), <<>> \in P,
         \A s \in P, x \in Y : Append(s, x) \in P
  PROVE  P = Seq(Y)
<1> DEFINE Q == {n \in Nat : \A s \in Seq(Y) : Len(s) = n => s \in P}
<1>1. 0 \in Q
  OBVIOUS
<1>2. ASSUME NEW n \in Q PROVE n + 1 \in Q
  <2> SUFFICES ASSUME NEW s \in Seq(Y), Len(s) = n + 1 PROVE s \in P
    OBVIOUS
  <2> DEFINE f == [i \in 1..n |-> s[i]]
  <2>1. n \in Nat /\ f \in Seq(Y) /\ Len(f) = n /\ s[n + 1] \in Y
    OBVIOUS
  <2>2. s = Append(f, s[n + 1])
    BY <2>1
  <2> HIDE DEF f
  <2>3. f \in P
    BY <2>1
  <2> QED BY <2>1, <2>2, <2>3
<1>3. Q = Nat
  BY <1>1, <1>2, Induction
<1> HIDE DEF Q
<1>4. ASSUME NEW s \in Seq(Y) PROVE s \in P
  <2>1. Len(s) \in Q
    BY <1>3
  <2> QED BY <2>1 DEF Q
<1> QED BY <1>4
================================================================================
