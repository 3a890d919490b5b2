----------------------------- MODULE ManifestProofs -----------------------------
(***************************************************************************)
(* buildManifest for every folder tree, every set of files and names,      *)
(* every page size and every sequence of changes between the queries.      *)
(***************************************************************************)
EXTENDS Manifest, NatInduction, FiniteSetTheorems, FunctionTheorems, SequenceTheorems, TLAPS

-------------------------------------------------------------------------------
(* The order of rows *)

Path == Seq(Nat)
Entry == [id : Nat, path : Path]

(* No path comes before itself.                                             *)
LEMMA PathIrreflexive ==
  ASSUME NEW p \in Path
  PROVE  ~PathLess(p, p)
BY DEF PathLess, Path

(* The order of paths is transitive.                                        *)
LEMMA PathTransitive ==
  ASSUME NEW p \in Path, NEW q \in Path, NEW r \in Path, PathLess(p, q), PathLess(q, r)
  PROVE  PathLess(p, r)
<1>t. /\ Len(p) \in Nat /\ Len(q) \in Nat /\ Len(r) \in Nat
      /\ \A i \in 1..Len(p) : p[i] \in Nat
      /\ \A i \in 1..Len(q) : q[i] \in Nat
      /\ \A i \in 1..Len(r) : r[i] \in Nat
  BY DEF Path
<1>1. PICK i \in 1..Len(q) : /\ i <= Len(p) + 1
                             /\ \A k \in 1..(i - 1) : p[k] = q[k]
                             /\ i <= Len(p) => p[i] < q[i]
  BY DEF PathLess
<1>2. PICK j \in 1..Len(r) : /\ j <= Len(q) + 1
                             /\ \A k \in 1..(j - 1) : q[k] = r[k]
                             /\ j <= Len(q) => q[j] < r[j]
  BY DEF PathLess
<1>3. CASE i <= j
  <2>1. i \in 1..Len(r) /\ \A k \in 1..(i - 1) : p[k] = r[k]
    BY <1>t, <1>1, <1>2, <1>3
  <2>2. i <= Len(p) => p[i] < r[i]
    BY <1>t, <1>1, <1>2, <1>3
  <2> QED BY <1>1, <2>1, <2>2 DEF PathLess
<1>4. CASE j < i
  <2>1. j \in 1..Len(r) /\ j <= Len(p) + 1 /\ \A k \in 1..(j - 1) : p[k] = r[k]
    BY <1>t, <1>1, <1>2, <1>4
  <2>2. j <= Len(p) => p[j] < r[j]
    BY <1>t, <1>1, <1>2, <1>4
  <2> QED BY <2>1, <2>2 DEF PathLess
<1> QED BY <1>3, <1>4

(* Of two different paths one comes first: they differ at some index, or    *)
(* one is a proper prefix of the other.                                     *)
LEMMA PathTotal ==
  ASSUME NEW p \in Path, NEW q \in Path, p # q
  PROVE  PathLess(p, q) \/ PathLess(q, p)
<1>t. /\ Len(p) \in Nat /\ Len(q) \in Nat
      /\ \A i \in 1..Len(p) : p[i] \in Nat
      /\ \A i \in 1..Len(q) : q[i] \in Nat
  BY DEF Path
<1> DEFINE D == {i \in 1..(Len(p) + Len(q)) : i <= Len(p) /\ i <= Len(q) => p[i] # q[i]}
<1>1. D \in SUBSET Nat
  BY <1>t
<1>2. CASE D = {}
  <2>1. Len(p) = Len(q)
    <3>1. ASSUME Len(p) < Len(q) PROVE FALSE
      <4>1. Len(p) + 1 \in D
        BY <1>t, <3>1
      <4> QED BY <1>2, <4>1
    <3>2. ASSUME Len(q) < Len(p) PROVE FALSE
      <4>1. Len(q) + 1 \in D
        BY <1>t, <3>2
      <4> QED BY <1>2, <4>1
    <3> QED BY <1>t, <3>1, <3>2
  <2>2. \A i \in 1..Len(p) : p[i] = q[i]
    BY <1>t, <1>2, <2>1
  <2>3. p = q
    BY <2>1, <2>2, SeqEqual DEF Path
  <2> QED BY <2>3
<1>3. CASE D # {}
  <2>1. PICK i \in D : \A y \in D : i <= y
    BY <1>1, <1>3, Least
  <2>2. i \in 1..(Len(p) + Len(q)) /\ (i <= Len(p) /\ i <= Len(q) => p[i] # q[i])
    BY <2>1
  <2>3. ASSUME NEW k \in 1..(i - 1) PROVE k <= Len(p) /\ k <= Len(q) /\ p[k] = q[k]
    <3>1. k \in 1..(Len(p) + Len(q)) /\ k < i
      BY <1>t, <2>2
    <3>2. k \notin D
      BY <2>1, <2>2, <3>1
    <3> QED BY <3>1, <3>2
  <2>4. i <= Len(p) + 1 /\ i <= Len(q) + 1
    <3>1. CASE i = 1
      BY <1>t, <3>1
    <3>2. CASE i # 1
      <4>1. i - 1 \in 1..(i - 1)
        BY <2>2, <3>2
      <4> QED BY <1>t, <2>2, <2>3, <4>1
    <3> QED BY <3>1, <3>2
  <2> HIDE DEF D
  <2>5. i <= Len(p) \/ i <= Len(q)
    <3> SUFFICES ASSUME i > Len(p), i > Len(q) PROVE FALSE
      BY <1>t, <2>2
    <3>1. Len(p) = Len(q) /\ Len(p) = i - 1
      BY <1>t, <2>2, <2>4
    <3>2. \A k \in 1..Len(p) : p[k] = q[k]
      BY <2>3, <3>1
    <3> QED BY <3>1, <3>2, SeqEqual DEF Path
  <2>6. CASE i <= Len(q) /\ (i <= Len(p) => p[i] < q[i])
    <3>1. i \in 1..Len(q) /\ i <= Len(p) + 1 /\ (\A k \in 1..(i - 1) : p[k] = q[k])
      BY <1>t, <2>2, <2>3, <2>4, <2>6
    <3> QED BY <2>6, <3>1 DEF PathLess
  <2>7. CASE i <= Len(p) /\ (i <= Len(q) => q[i] < p[i])
    <3>1. i \in 1..Len(p) /\ i <= Len(q) + 1 /\ (\A k \in 1..(i - 1) : q[k] = p[k])
      BY <1>t, <2>2, <2>3, <2>4, <2>7
    <3> QED BY <2>7, <3>1 DEF PathLess
  <2> QED BY <1>t, <2>2, <2>5, <2>6, <2>7
<1> QED BY <1>2, <1>3

(* Rows are strictly and totally ordered by path, then by file ID.          *)
LEMMA RowOrder ==
  /\ \A a \in Entry : ~RowLess(a, a)
  /\ \A a, b, c \in Entry : RowLess(a, b) /\ RowLess(b, c) => RowLess(a, c)
  /\ \A a, b \in Entry : a = b \/ RowLess(a, b) \/ RowLess(b, a)
<1>t. \A a \in Entry : a.id \in Nat /\ a.path \in Path /\ a = [id |-> a.id, path |-> a.path]
  BY DEF Entry
<1>1. \A a \in Entry : ~RowLess(a, a)
  BY <1>t, PathIrreflexive DEF RowLess
<1>2. ASSUME NEW a \in Entry, NEW b \in Entry, NEW c \in Entry, RowLess(a, b), RowLess(b, c)
      PROVE  RowLess(a, c)
  <2>1. PathLess(a.path, b.path) /\ PathLess(b.path, c.path) => PathLess(a.path, c.path)
    BY <1>t, PathTransitive
  <2> QED BY <1>t, <1>2, <2>1 DEF RowLess
<1>3. ASSUME NEW a \in Entry, NEW b \in Entry PROVE a = b \/ RowLess(a, b) \/ RowLess(b, a)
  <2>1. a.path = b.path \/ PathLess(a.path, b.path) \/ PathLess(b.path, a.path)
    BY <1>t, PathTotal
  <2>2. a.id = b.id /\ a.path = b.path => a = b
    BY <1>t
  <2> QED BY <1>t, <2>1, <2>2 DEF RowLess
<1> QED BY <1>1, <1>2, <1>3

-------------------------------------------------------------------------------
(* The ordered rows *)

(* A row more has its place in an ascending sequence.                       *)
LEMMA Insert ==
  ASSUME NEW S \in SUBSET Entry, NEW x \in Entry, x \notin S, NEW n \in Nat,
         NEW s \in [1..n -> S], Len(s) = n, Ascending(s)
  PROVE  \E t \in [1..(n + 1) -> S \cup {x}] : Ascending(t)
<1>t. /\ \A i \in 1..n : s[i] \in Entry /\ s[i] # x
      /\ \A i, k \in 1..n : i < k => RowLess(s[i], s[k])
  BY DEF Ascending
<1> DEFINE D == {i \in 1..(n + 1) : i <= n => RowLess(x, s[i])}
<1>1. D \in SUBSET Nat /\ n + 1 \in D
  OBVIOUS
<1>2. PICK p \in D : \A y \in D : p <= y
  BY <1>1, Least
<1>3. p \in 1..(n + 1) /\ (p <= n => RowLess(x, s[p]))
  BY <1>2
<1>4. ASSUME NEW i \in 1..n, i < p PROVE RowLess(s[i], x)
  <2>1. i \notin D
    BY <1>2, <1>3, <1>4
  <2>2. ~RowLess(x, s[i])
    BY <2>1
  <2> QED BY <1>t, <2>2, RowOrder
<1>5. ASSUME NEW i \in 1..n, p <= i PROVE RowLess(x, s[i])
  <2>1. CASE i = p
    BY <1>3, <2>1
  <2>2. CASE p < i
    <3>1. p \in 1..n /\ RowLess(x, s[p]) /\ RowLess(s[p], s[i])
      BY <1>t, <1>3, <2>2
    <3> QED BY <1>t, <3>1, RowOrder
  <2> QED BY <1>3, <1>5, <2>1, <2>2
<1> HIDE DEF D
<1> DEFINE t == [i \in 1..(n + 1) |-> IF i < p THEN s[i] ELSE IF i = p THEN x ELSE s[i - 1]]
<1>6. \A i \in 1..(n + 1) : /\ i < p => i \in 1..n /\ t[i] = s[i]
                            /\ i = p => t[i] = x
                            /\ i > p => i - 1 \in 1..n /\ p <= i - 1 /\ t[i] = s[i - 1]
  BY <1>3
<1>7. t \in [1..(n + 1) -> S \cup {x}] /\ Len(t) = n + 1
  BY <1>3, <1>6
<1> HIDE DEF t
<1>8. ASSUME NEW i \in 1..(n + 1), NEW k \in 1..(n + 1), i < k PROVE RowLess(t[i], t[k])
  <2>1. CASE k < p
    <3>1. i \in 1..n /\ k \in 1..n /\ t[i] = s[i] /\ t[k] = s[k]
      BY <1>3, <1>6, <1>8, <2>1
    <3> QED BY <1>t, <1>8, <3>1
  <2>2. CASE k = p
    <3>1. i \in 1..n /\ i < p /\ t[i] = s[i] /\ t[k] = x
      BY <1>3, <1>6, <1>8, <2>2
    <3> QED BY <1>4, <3>1
  <2>3. CASE i < p /\ p < k
    <3>1. RowLess(t[i], x) /\ RowLess(x, t[k]) /\ t[i] \in Entry /\ t[k] \in Entry
      BY <1>t, <1>4, <1>5, <1>6, <2>3
    <3> QED BY <3>1, RowOrder
  <2>4. CASE i = p
    <3>1. k - 1 \in 1..n /\ p <= k - 1 /\ t[k] = s[k - 1] /\ t[i] = x
      BY <1>3, <1>6, <1>8, <2>4
    <3> QED BY <1>5, <3>1
  <2>5. CASE p < i
    <3>1. i - 1 \in 1..n /\ k - 1 \in 1..n /\ i - 1 < k - 1 /\ t[i] = s[i - 1] /\ t[k] = s[k - 1]
      BY <1>3, <1>6, <1>8, <2>5
    <3> QED BY <1>t, <3>1
  <2> QED BY <1>3, <1>8, <2>1, <2>2, <2>3, <2>4, <2>5
<1>9. Ascending(t)
  BY <1>7, <1>8 DEF Ascending
<1> QED BY <1>7, <1>9

(* The length of a function on an interval is the interval's.               *)
LEMMA LenOfRows ==
  ASSUME NEW n \in Nat, NEW S, NEW s \in [1..n -> S]
  PROVE  Len(s) = n /\ s \in Seq(S)
OBVIOUS

(* Every finite set of rows can be put in order.                            *)
LEMMA CanOrder ==
  ASSUME NEW S \in SUBSET Entry, IsFiniteSet(S)
  PROVE  \E s \in [1..Cardinality(S) -> S] : Ascending(s)
<1> DEFINE Holds(n) == \A T \in SUBSET Entry : IsFiniteSet(T) /\ Cardinality(T) = n =>
                         \E s \in [1..n -> T] : Ascending(s)
           P == {n \in Nat : Holds(n)}
<1>1. Holds(0)
  <2> SUFFICES ASSUME NEW T \in SUBSET Entry PROVE \E s \in [1..0 -> T] : Ascending(s)
    OBVIOUS
  <2> DEFINE s == [i \in 1..0 |-> i]
  <2>1. s \in [1..0 -> T]
    OBVIOUS
  <2>2. Len(s) = 0
    OBVIOUS
  <2> HIDE DEF s
  <2>3. Ascending(s)
    BY <2>2 DEF Ascending
  <2> QED BY <2>1, <2>3
<1>2. ASSUME NEW n \in Nat, Holds(n) PROVE Holds(n + 1)
  <2> SUFFICES ASSUME NEW T \in SUBSET Entry, IsFiniteSet(T), Cardinality(T) = n + 1
               PROVE  \E s \in [1..(n + 1) -> T] : Ascending(s)
    OBVIOUS
  <2>1. PICK x \in T : TRUE
    BY FS_EmptySet
  <2> DEFINE U == T \ {x}
  <2>2. U \in SUBSET Entry /\ IsFiniteSet(U) /\ Cardinality(U) = n /\ U \cup {x} = T
    <3>1. IsFiniteSet(U) /\ Cardinality(U) = (n + 1) - 1
      BY <2>1, FS_RemoveElement
    <3>2. (n + 1) - 1 = n
      OBVIOUS
    <3> QED BY <3>1, <3>2
  <2>3. x \notin U /\ x \in Entry
    OBVIOUS
  <2> HIDE DEF U
  <2>4. PICK s \in [1..n -> U] : Ascending(s)
    BY <1>2, <2>2
  <2>5. Len(s) = n
    BY LenOfRows
  <2> QED BY <2>2, <2>3, <2>4, <2>5, Insert
<1>3. P \in SUBSET Nat /\ 0 \in P /\ \A n \in P : n + 1 \in P
  <2> HIDE DEF Holds
  <2> QED BY <1>1, <1>2
<1> HIDE DEF P
<1>4. P = Nat
  BY <1>3, Induction
<1>5. Cardinality(S) \in Nat
  BY FS_CardinalityType
<1>6. Holds(Cardinality(S))
  <2> HIDE DEF Holds
  <2> QED BY <1>4, <1>5 DEF P
<1> QED BY <1>6

(* What ORDER BY returns: all the rows, ascending.                          *)
LEMMA OrderedRows ==
  ASSUME NEW S \in SUBSET Entry, IsFiniteSet(S)
  PROVE  /\ Ordered(S) \in Seq(S) /\ Ascending(Ordered(S))
         /\ \A e \in S : \E i \in 1..Len(Ordered(S)) : Ordered(S)[i] = e
<1> DEFINE n == Cardinality(S)
           s == Ordered(S)
<1>1. n \in Nat
  BY FS_CardinalityType
<1>2. s \in [1..n -> S] /\ Ascending(s)
  BY CanOrder DEF Ordered
<1>3. Len(s) = n /\ s \in Seq(S)
  BY <1>1, <1>2, LenOfRows
<1> HIDE DEF s, n
<1>4. \A i, k \in 1..n : s[i] = s[k] => i = k
  <2> SUFFICES ASSUME NEW i \in 1..n, NEW k \in 1..n, s[i] = s[k], i < k PROVE FALSE
    BY <1>1
  <2>1. RowLess(s[i], s[k]) /\ s[i] \in Entry
    BY <1>2, <1>3 DEF Ascending
  <2> QED BY <2>1, RowOrder
<1>5. s \in Injection(1..n, S)
  BY <1>2, <1>4 DEF Injection, IsInjective
<1>6. IsFiniteSet(1..n) /\ Cardinality(1..n) = n
  BY <1>1, FS_Interval
<1>7. s \in Surjection(1..n, S)
  BY <1>5, <1>6, FS_Injection DEF n
<1> QED BY <1>2, <1>3, <1>7 DEF Surjection, s

-------------------------------------------------------------------------------
(* The folder tree *)

Below(x, d) == [id |-> d, path |-> x.path \o <<Sep>> \o folder[d].name]
IsChild(x, d) == folder[d].live /\ folder[d].parent = x.id
Top == {[id |-> d, path |-> folder[d].name] : d \in {d \in {Root} : folder[d].live}}
Children(X) == {[id |-> c[1], path |-> c[2].path \o <<Sep>> \o folder[c[1]].name] :
                  c \in {d \in Subfolders \X X : folder[d[1]].live /\ folder[d[1]].parent = d[2].id}}

(* The children of a level are the live rows whose parent is in it.         *)
LEMMA ChildrenAre ==
  ASSUME NEW X, NEW e \in Children(X)
  PROVE  \E d \in Subfolders, x \in X : IsChild(x, d) /\ e = Below(x, d)
<1>1. PICK c \in {d \in Subfolders \X X : folder[d[1]].live /\ folder[d[1]].parent = d[2].id} :
        e = [id |-> c[1], path |-> c[2].path \o <<Sep>> \o folder[c[1]].name]
  BY DEF Children
<1>2. c[1] \in Subfolders /\ c[2] \in X /\ IsChild(c[2], c[1])
  BY <1>1 DEF IsChild
<1>3. e = Below(c[2], c[1])
  BY <1>1 DEF Below
<1> QED BY <1>2, <1>3

(* The query of folder_tree up to a depth, one level from the one above.    *)
IsTree(n, f) ==
  /\ f \in [0..n -> {Top} \cup {Children(f[k]) : k \in 0..n}]
  /\ f[0] = Top
  /\ \A k \in 1..n : f[k] = Children(f[k - 1])

(* Every depth has such a function.                                         *)
LEMMA TreeExists ==
  ASSUME NEW n \in Nat
  PROVE  \E f : IsTree(n, f)
<1> DEFINE Holds(k) == \E f : IsTree(k, f)
           P == {k \in Nat : Holds(k)}
<1>1. Holds(0)
  <2> DEFINE f == [k \in 0..0 |-> Top]
  <2>1. f \in [0..0 -> {Top} \cup {Children(f[k]) : k \in 0..0}] /\ f[0] = Top
    OBVIOUS
  <2>2. \A k \in 1..0 : FALSE
    OBVIOUS
  <2> HIDE DEF f
  <2>3. IsTree(0, f)
    BY <2>1, <2>2 DEF IsTree
  <2> QED BY <2>3
<1>2. ASSUME NEW k \in Nat, Holds(k) PROVE Holds(k + 1)
  <2>1. PICK f : IsTree(k, f)
    BY <1>2
  <2> DEFINE g == [i \in 0..(k + 1) |-> IF i <= k THEN f[i] ELSE Children(f[k])]
  <2>2. \A i \in 0..k : g[i] = f[i]
    OBVIOUS
  <2>3. g[k + 1] = Children(f[k]) /\ DOMAIN g = 0..(k + 1)
        /\ g = [i \in 0..(k + 1) |-> g[i]]
    OBVIOUS
  <2> HIDE DEF g
  <2>4. g[0] = Top
    BY <2>1, <2>2 DEF IsTree
  <2>5. ASSUME NEW i \in 1..(k + 1) PROVE g[i] = Children(g[i - 1])
    <3>1. CASE i \in 1..k
      <4>1. i \in 0..k /\ i - 1 \in 0..k
        BY <3>1
      <4> QED BY <2>1, <2>2, <3>1, <4>1 DEF IsTree
    <3>2. CASE i = k + 1
      <4>1. i - 1 = k /\ k \in 0..k
        BY <3>2
      <4> QED BY <2>2, <2>3, <3>2, <4>1
    <3> QED BY <3>1, <3>2
  <2>6. ASSUME NEW i \in 0..(k + 1)
        PROVE  g[i] \in {Top} \cup {Children(g[j]) : j \in 0..(k + 1)}
    <3>1. CASE i = 0
      BY <2>4, <3>1
    <3>2. CASE i # 0
      <4>1. i \in 1..(k + 1) /\ i - 1 \in 0..(k + 1)
        BY <3>2
      <4> QED BY <2>5, <4>1
    <3> QED BY <3>1, <3>2
  <2>7. IsTree(k + 1, g)
    BY <2>3, <2>4, <2>5, <2>6 DEF IsTree
  <2> QED BY <2>7
<1> HIDE DEF Holds
<1>3. P \in SUBSET Nat /\ 0 \in P /\ \A k \in P : k + 1 \in P
  BY <1>1, <1>2
<1> HIDE DEF P
<1>4. P = Nat
  BY <1>3, Induction
<1>5. Holds(n)
  BY <1>4 DEF P
<1> QED BY <1>5 DEF Holds

(* Two of them agree as far as both go.                                     *)
LEMMA TreesAgree ==
  ASSUME NEW n \in Nat, NEW m \in Nat, NEW f, NEW g, IsTree(n, f), IsTree(m, g),
         NEW i \in Nat, i <= n, i <= m
  PROVE  f[i] = g[i]
<1> DEFINE Holds(k) == k <= n /\ k <= m => f[k] = g[k]
           P == {k \in Nat : Holds(k)}
<1>1. Holds(0)
  BY DEF IsTree
<1>2. ASSUME NEW k \in Nat, Holds(k) PROVE Holds(k + 1)
  <2> SUFFICES ASSUME k + 1 <= n, k + 1 <= m PROVE f[k + 1] = g[k + 1]
    OBVIOUS
  <2>1. k + 1 \in 1..n /\ k + 1 \in 1..m /\ (k + 1) - 1 = k /\ k <= n /\ k <= m
    OBVIOUS
  <2>2. f[k + 1] = Children(f[(k + 1) - 1]) /\ g[k + 1] = Children(g[(k + 1) - 1])
    BY <2>1 DEF IsTree
  <2> QED BY <1>2, <2>1, <2>2
<1> HIDE DEF Holds
<1>3. P \in SUBSET Nat /\ 0 \in P /\ \A k \in P : k + 1 \in P
  BY <1>1, <1>2
<1> HIDE DEF P
<1>4. P = Nat
  BY <1>3, Induction
<1>5. Holds(i)
  BY <1>4 DEF P
<1> QED BY <1>5 DEF Holds

(* What the recursive definition of TreeLevel means.                        *)
LEMMA TreeDef ==
  TreeLevel = CHOOSE f : f = [n \in Nat |-> IF n = 0 THEN Top ELSE Children(f[n - 1])]
BY DEF TreeLevel, Top, Children

(* The levels exist: the root, and below a level the children of its rows.  *)
LEMMA TreeLevels ==
  /\ TreeLevel[0] = Top
  /\ \A n \in Nat : TreeLevel[n + 1] = Children(TreeLevel[n])
<1> DEFINE F(n) == CHOOSE f : IsTree(n, f)
           h == [n \in Nat |-> F(n)[n]]
<1>1. \A n \in Nat : IsTree(n, F(n))
  BY TreeExists
<1> HIDE DEF F
<1>2. h[0] = Top
  BY <1>1 DEF IsTree
<1>3. ASSUME NEW n \in Nat PROVE h[n + 1] = Children(h[n])
  <2>1. PICK m \in Nat : m = n + 1
    OBVIOUS
  <2>2. h[m] = F(m)[m] /\ h[n] = F(n)[n]
    OBVIOUS
  <2>3. IsTree(m, F(m)) /\ IsTree(n, F(n))
    BY <1>1
  <2>4. F(m)[n] = F(n)[n]
    BY <2>1, <2>3, TreesAgree
  <2>5. F(m)[m] = Children(F(m)[m - 1])
    <3>1. m \in 1..m
      BY <2>1
    <3> QED BY <2>3, <3>1 DEF IsTree
  <2>6. m - 1 = n
    BY <2>1
  <2> QED BY <2>1, <2>2, <2>4, <2>5, <2>6
<1>4. h = [n \in Nat |-> h[n]]
  OBVIOUS
<1> HIDE DEF h
<1>5. ASSUME NEW n \in Nat PROVE h[n] = IF n = 0 THEN Top ELSE Children(h[n - 1])
  <2>1. CASE n = 0
    BY <1>2, <2>1
  <2>2. CASE n # 0
    <3>1. n - 1 \in Nat /\ (n - 1) + 1 = n
      BY <2>2
    <3>2. h[(n - 1) + 1] = Children(h[n - 1])
      BY <1>3, <3>1
    <3> QED BY <2>2, <3>1, <3>2
  <2> QED BY <2>1, <2>2
<1>6. h = [n \in Nat |-> IF n = 0 THEN Top ELSE Children(h[n - 1])]
  BY <1>4, <1>5
<1>7. TreeLevel = [n \in Nat |-> IF n = 0 THEN Top ELSE Children(TreeLevel[n - 1])]
  BY <1>6, TreeDef
<1>8. \A n \in Nat : n + 1 \in Nat /\ n + 1 # 0 /\ (n + 1) - 1 = n
  OBVIOUS
<1>9. ASSUME NEW n \in Nat PROVE TreeLevel[n + 1] = Children(TreeLevel[n])
  <2>1. TreeLevel[n + 1] = Children(TreeLevel[(n + 1) - 1])
    BY <1>7, <1>8
  <2> QED BY <1>8, <2>1
<1> QED BY <1>7, <1>9

(* The name in a live row of folders is a path of its own.                  *)
LEMMA FolderNames ==
  ASSUME folder \in [Folders -> FolderRow], NEW d \in Folders, folder[d].live
  PROVE  folder[d].name \in Path
<1>1. folder[d] \in FolderRow /\ folder[d] # Gone
  BY DEF Gone
<1>2. folder[d].name \in Names
  BY <1>1 DEF FolderRow
<1> QED BY <1>2, ManifestAssumption DEF Path

(* A path continued by a name is a path.                                    *)
LEMMA JoinPaths ==
  ASSUME NEW p \in Path, NEW q \in Path
  PROVE  p \o <<Sep>> \o q \in Path
BY DEF Path, Sep

(* Every level holds folders and paths, none but the first holds the root.  *)
LEMMA LevelTypes ==
  ASSUME folder \in [Folders -> FolderRow], NEW n \in Nat
  PROVE  /\ TreeLevel[n] \subseteq [id : Folders, path : Path]
         /\ n # 0 => \A e \in TreeLevel[n] : e.id \in Subfolders
<1> DEFINE Holds(k) == TreeLevel[k] \subseteq [id : Folders, path : Path]
           P == {k \in Nat : Holds(k)}
<1>1. Holds(0)
  <2>1. Root \in Folders
    BY DEF Folders
  <2> QED BY <2>1, TreeLevels, FolderNames DEF Top
<1>2. ASSUME NEW k \in Nat, Holds(k) PROVE Holds(k + 1)
  <2>1. TreeLevel[k + 1] = Children(TreeLevel[k])
    BY TreeLevels
  <2>2. ASSUME NEW e \in TreeLevel[k + 1] PROVE e \in [id : Folders, path : Path]
    <3>1. PICK d \in Subfolders, x \in TreeLevel[k] : IsChild(x, d) /\ e = Below(x, d)
      BY <2>1, ChildrenAre
    <3>2. d \in Folders /\ folder[d].name \in Path /\ x.path \in Path
      BY <1>2, <3>1, FolderNames DEF Folders, IsChild
    <3>3. x.path \o <<Sep>> \o folder[d].name \in Path
      BY <3>2, JoinPaths
    <3> QED BY <3>1, <3>2, <3>3 DEF Below
  <2> QED BY <2>2
<1> HIDE DEF Holds
<1>3. P \in SUBSET Nat /\ 0 \in P /\ \A k \in P : k + 1 \in P
  BY <1>1, <1>2
<1> HIDE DEF P
<1>4. P = Nat
  BY <1>3, Induction
<1>5. Holds(n)
  BY <1>4 DEF P
<1>6. ASSUME n # 0, NEW e \in TreeLevel[n] PROVE e.id \in Subfolders
  <2>1. PICK m \in Nat : n = m + 1
    <3>1. n - 1 \in Nat /\ n = (n - 1) + 1
      BY <1>6
    <3> QED BY <3>1
  <2>2. e \in Children(TreeLevel[m])
    BY <1>6, <2>1, TreeLevels
  <2>3. PICK d \in Subfolders, x \in TreeLevel[m] : e = Below(x, d)
    BY <2>2, ChildrenAre
  <2> QED BY <2>3 DEF Below
<1> QED BY <1>5, <1>6 DEF Holds

(* A folder is in the tree once: its one parent decides level and path.     *)
LEMMA LevelsUnique ==
  ASSUME folder \in [Folders -> FolderRow], NEW n \in Nat, NEW m \in Nat,
         NEW a \in TreeLevel[n], NEW b \in TreeLevel[m], a.id = b.id
  PROVE  a = b /\ n = m
<1> DEFINE Holds(k) == \A l \in Nat : \A x \in TreeLevel[k], y \in TreeLevel[l] :
                         x.id = y.id => x = y /\ k = l
           P == {k \in Nat : Holds(k)}
<1>0. ASSUME NEW x \in TreeLevel[0] PROVE x = [id |-> Root, path |-> folder[Root].name]
  BY TreeLevels DEF Top
<1>r. Root \notin Subfolders
  BY ManifestAssumption
<1>1. Holds(0)
  <2> SUFFICES ASSUME NEW l \in Nat, NEW x \in TreeLevel[0], NEW y \in TreeLevel[l], x.id = y.id
               PROVE  x = y /\ 0 = l
    OBVIOUS
  <2>1. x.id = Root
    BY <1>0
  <2>2. l = 0
    BY <1>r, <2>1, LevelTypes
  <2> QED BY <1>0, <2>2
<1>2. ASSUME NEW k \in Nat, Holds(k) PROVE Holds(k + 1)
  <2> SUFFICES ASSUME NEW l \in Nat, NEW x \in TreeLevel[k + 1], NEW y \in TreeLevel[l],
                      x.id = y.id
               PROVE  x = y /\ k + 1 = l
    OBVIOUS
  <2>1. PICK d \in Subfolders, u \in TreeLevel[k] : IsChild(u, d) /\ x = Below(u, d)
    BY ChildrenAre, TreeLevels
  <2>2. x.id = d
    BY <2>1 DEF Below
  <2>3. ASSUME l = 0 PROVE FALSE
    <3>1. y \in TreeLevel[0]
      BY <2>3
    <3>2. y.id = Root
      BY <1>0, <3>1
    <3> QED BY <1>r, <2>2, <3>2
  <2>4. PICK j \in Nat : l = j + 1
    <3>1. l - 1 \in Nat /\ l = (l - 1) + 1
      BY <2>3
    <3> QED BY <3>1
  <2>5. PICK c \in Subfolders, v \in TreeLevel[j] : IsChild(v, c) /\ y = Below(v, c)
    BY <2>4, ChildrenAre, TreeLevels
  <2>6. c = d
    BY <2>2, <2>5 DEF Below
  <2>7. u.id = v.id
    BY <2>1, <2>5, <2>6 DEF IsChild
  <2>8. u = v /\ k = j
    BY <1>2, <2>7
  <2> QED BY <2>1, <2>4, <2>5, <2>6, <2>8
<1> HIDE DEF Holds
<1>3. P \in SUBSET Nat /\ 0 \in P /\ \A k \in P : k + 1 \in P
  BY <1>1, <1>2
<1> HIDE DEF P
<1>4. P = Nat
  BY <1>3, Induction
<1>5. Holds(n)
  BY <1>4 DEF P
<1> QED BY <1>5 DEF Holds

(* The tree: typed rows, one for a folder.                                  *)
LEMMA FolderTreeRows ==
  ASSUME folder \in [Folders -> FolderRow]
  PROVE  /\ FolderTree \subseteq [id : Folders, path : Path]
         /\ \A a, b \in FolderTree : a.id = b.id => a = b
<1>1. Cardinality(Subfolders) \in Nat
  BY ManifestAssumption, FS_CardinalityType
<1>2. \A n \in 0..Cardinality(Subfolders) : n \in Nat
  BY <1>1
<1>3. ASSUME NEW a \in FolderTree PROVE \E n \in Nat : a \in TreeLevel[n]
  BY <1>2 DEF FolderTree
<1>4. FolderTree \subseteq [id : Folders, path : Path]
  BY <1>3, LevelTypes
<1>5. ASSUME NEW a \in FolderTree, NEW b \in FolderTree, a.id = b.id PROVE a = b
  BY <1>3, <1>5, LevelsUnique
<1> QED BY <1>4, <1>5

(* The listing of files: typed rows, one for a file, finitely many.         *)
LEMMA ResolvedRows ==
  ASSUME folder \in [Folders -> FolderRow], file \in [Files -> FileRow]
  PROVE  /\ Resolved \subseteq Row /\ Resolved \subseteq Entry
         /\ \A a, b \in Resolved : a.id = b.id => a = b
         /\ IsFiniteSet(Resolved)
<1>1. ASSUME NEW e \in Resolved
      PROVE  \E f \in Files, d \in FolderTree :
               /\ file[f].live /\ file[f].folder = d.id
               /\ e = [id |-> f, path |-> d.path \o <<Sep>> \o file[f].name]
  <2>1. PICK c \in {d \in Files \X FolderTree : file[d[1]].live /\ file[d[1]].folder = d[2].id} :
          e = [id |-> c[1], path |-> c[2].path \o <<Sep>> \o file[c[1]].name]
    BY <1>1 DEF Resolved
  <2>2. c[1] \in Files /\ c[2] \in FolderTree /\ file[c[1]].live /\ file[c[1]].folder = c[2].id
    BY <2>1
  <2> QED BY <2>1, <2>2
<1>2. ASSUME NEW e \in Resolved PROVE e \in Row
  <2>1. PICK f \in Files, d \in FolderTree :
          /\ file[f].live
          /\ e = [id |-> f, path |-> d.path \o <<Sep>> \o file[f].name]
    BY <1>1
  <2>2. file[f] \in FileRow /\ file[f] # Gone
    BY <2>1 DEF Gone
  <2>3. file[f].name \in Names
    BY <2>2 DEF FileRow
  <2>4. file[f].name \in Path /\ d.path \in Path
    BY <2>3, ManifestAssumption, FolderTreeRows DEF Path
  <2>5. d.path \o <<Sep>> \o file[f].name \in Path
    BY <2>4, JoinPaths
  <2> QED BY <2>1, <2>5 DEF Row, Path
<1>3. Row \subseteq Entry
  BY ManifestAssumption DEF Row, Entry, Path
<1>4. ASSUME NEW a \in Resolved, NEW b \in Resolved, a.id = b.id PROVE a = b
  <2>1. PICK f \in Files, d \in FolderTree :
          /\ file[f].folder = d.id
          /\ a = [id |-> f, path |-> d.path \o <<Sep>> \o file[f].name]
    BY <1>1
  <2>2. PICK g \in Files, c \in FolderTree :
          /\ file[g].folder = c.id
          /\ b = [id |-> g, path |-> c.path \o <<Sep>> \o file[g].name]
    BY <1>1
  <2>3. f = g
    BY <1>4, <2>1, <2>2
  <2>4. d = c
    BY <2>1, <2>2, <2>3, FolderTreeRows
  <2> QED BY <2>1, <2>2, <2>3, <2>4
<1>5. IsFiniteSet(Resolved)
  <2> DEFINE h == [e \in Resolved |-> e.id]
  <2>1. h \in [Resolved -> Files]
    BY <1>2 DEF Row
  <2>2. h \in Injection(Resolved, Files)
    BY <1>4, <2>1 DEF Injection, IsInjective
  <2> QED BY <2>2, ManifestAssumption, FS_Injection
<1> QED BY <1>2, <1>3, <1>4, <1>5

--------------------------------------------------------------------------------
(* Pages *)

(* The rows of a query with the cursor c. *)
RowsAfter(c) == {e \in Resolved : c = <<>> \/ After(e, c[1])}

(* One page: in order, of rows after the cursor, and what it leaves out is  *)
(* after its last row; a page that is not full leaves nothing out.          *)
LEMMA PageRows ==
  ASSUME folder \in [Folders -> FolderRow], file \in [Files -> FileRow], NEW c
  PROVE  /\ PageAfter(c) \in Seq(RowsAfter(c)) /\ PageAfter(c) \in Seq(Row)
         /\ Ascending(PageAfter(c))
         /\ Len(PageAfter(c)) <= PageSize
         /\ \A e \in RowsAfter(c) :
              \/ \E i \in 1..Len(PageAfter(c)) : PageAfter(c)[i] = e
              \/ Len(PageAfter(c)) = PageSize /\ After(e, Last(PageAfter(c)))
<1> DEFINE rows == RowsAfter(c)
           s == Ordered(rows)
           n == IF Len(s) < PageSize THEN Len(s) ELSE PageSize
           page == SubSeq(s, 1, n)
<1>1. PageAfter(c) = page
  BY DEF PageAfter, RowsAfter
<1>2. rows \subseteq Row /\ rows \subseteq Entry /\ IsFiniteSet(rows)
  <2>1. rows \subseteq Resolved
    BY DEF RowsAfter
  <2> QED BY <2>1, ResolvedRows, FS_Subset
<1> HIDE DEF rows
<1>3. /\ s \in Seq(rows) /\ Ascending(s)
      /\ \A e \in rows : \E i \in 1..Len(s) : s[i] = e
  BY <1>2, OrderedRows
<1> HIDE DEF s
<1>p. PageSize \in Nat \ {0}
  BY ManifestAssumption
<1>4. n \in 0..Len(s) /\ n <= PageSize /\ (n < PageSize => n = Len(s))
  BY <1>3, <1>p
<1> HIDE DEF n
<1>5. page \in Seq(rows) /\ Len(page) = n /\ \A i \in 1..n : page[i] = s[i]
  BY <1>3, <1>4
<1> HIDE DEF page
<1>6. page \in Seq(Row)
  BY <1>2, <1>5
<1>l. Len(s) \in Nat /\ n \in Nat /\ \A i \in 1..n : i \in 1..Len(s)
  BY <1>3, <1>4
<1>7. Ascending(page)
  <2> SUFFICES ASSUME NEW i \in 1..n, NEW k \in 1..n, i < k PROVE RowLess(page[i], page[k])
    BY <1>5 DEF Ascending
  <2>1. RowLess(s[i], s[k])
    BY <1>3, <1>l DEF Ascending
  <2> QED BY <1>5, <2>1
<1>8. ASSUME NEW e \in rows, ~ \E i \in 1..Len(page) : page[i] = e
      PROVE  Len(page) = PageSize /\ After(e, Last(page))
  <2>1. PICK i \in 1..Len(s) : s[i] = e
    BY <1>3
  <2>2. i > n /\ n = PageSize
    <3>1. i \notin 1..n
      BY <1>5, <1>8, <2>1
    <3> QED BY <1>4, <1>l, <1>p, <2>1, <3>1
  <2>3. n \in 1..Len(s) /\ Last(page) = s[n]
    BY <1>4, <1>5, <1>p, <2>2 DEF Last
  <2>4. RowLess(s[n], s[i])
    BY <1>3, <2>2, <2>3 DEF Ascending
  <2> QED BY <1>5, <2>1, <2>2, <2>3, <2>4 DEF After
<1> QED BY <1>1, <1>4, <1>5, <1>6, <1>7, <1>8 DEF rows

(* Rows continued by rows that are all after them are rows in order.        *)
LEMMA AscendingAppend ==
  ASSUME NEW s \in Seq(Entry), NEW t \in Seq(Entry), Ascending(s), Ascending(t),
         s # <<>> => \A i \in 1..Len(t) : After(t[i], Last(s))
  PROVE  Ascending(s \o t)
<1> DEFINE u == s \o t
<1>1. /\ u \in Seq(Entry) /\ Len(u) = Len(s) + Len(t)
      /\ \A i \in 1..Len(s) : u[i] = s[i]
      /\ \A i \in 1..Len(u) : i > Len(s) => i - Len(s) \in 1..Len(t) /\ u[i] = t[i - Len(s)]
  OBVIOUS
<1> HIDE DEF u
<1>2. SUFFICES ASSUME NEW i \in 1..Len(u), NEW k \in 1..Len(u), i < k PROVE RowLess(u[i], u[k])
  BY DEF Ascending, u
<1>3. CASE k <= Len(s)
  <2>1. i \in 1..Len(s) /\ k \in 1..Len(s)
    BY <1>1, <1>2, <1>3
  <2> QED BY <1>1, <1>2, <2>1 DEF Ascending
<1>4. CASE i > Len(s)
  <2>1. k > Len(s) /\ i - Len(s) < k - Len(s)
    BY <1>1, <1>2, <1>4
  <2> QED BY <1>1, <1>2, <1>4, <2>1 DEF Ascending
<1>5. CASE i <= Len(s) /\ k > Len(s)
  <2>1. i \in 1..Len(s) /\ Len(s) \in 1..Len(s) /\ s # <<>> /\ Last(s) = s[Len(s)]
    BY <1>1, <1>2, <1>5 DEF Last
  <2>2. k - Len(s) \in 1..Len(t) /\ u[k] = t[k - Len(s)] /\ u[i] = s[i]
    BY <1>1, <1>5, <2>1
  <2>3. RowLess(s[Len(s)], u[k])
    BY <2>1, <2>2 DEF After
  <2>4. CASE i = Len(s)
    BY <2>2, <2>3, <2>4
  <2>5. CASE i < Len(s)
    <3>1. RowLess(s[i], s[Len(s)])
      BY <2>1, <2>5 DEF Ascending
    <3>2. s[i] \in Entry /\ s[Len(s)] \in Entry /\ u[k] \in Entry
      BY <1>1, <2>1
    <3> QED BY <2>2, <2>3, <3>1, <3>2, RowOrder
  <2> QED BY <1>1, <1>2, <2>1, <2>4, <2>5
<1> QED BY <1>1, <1>2, <1>3, <1>4, <1>5

--------------------------------------------------------------------------------
(* The reader *)

(* The listing is a function of the rows.                                   *)
LEMMA SameRowsSameListing ==
  ASSUME UNCHANGED <<folder, file>>
  PROVE  Resolved' = Resolved
<1> DEFINE Holds(k) == TreeLevel'[k] = TreeLevel[k]
           P == {k \in Nat : Holds(k)}
<1>t. (/\ TreeLevel[0] = Top
       /\ \A n \in Nat : TreeLevel[n + 1] = Children(TreeLevel[n]))'
  BY TreeLevels, PTL
<1>1. Holds(0)
  <2>1. Top' = Top
    BY DEF Top
  <2> QED BY <1>t, <2>1, TreeLevels
<1>2. ASSUME NEW k \in Nat, Holds(k) PROVE Holds(k + 1)
  <2>1. Children(TreeLevel[k])' = Children(TreeLevel[k])
    BY <1>2 DEF Children
  <2> QED BY <1>t, <2>1, TreeLevels
<1> HIDE DEF Holds
<1>3. P \in SUBSET Nat /\ 0 \in P /\ \A k \in P : k + 1 \in P
  BY <1>1, <1>2
<1> HIDE DEF P
<1>4. P = Nat
  BY <1>3, Induction
<1>5. \A n \in Nat : TreeLevel'[n] = TreeLevel[n]
  BY <1>4 DEF P, Holds
<1>6. \A n \in 0..Cardinality(Subfolders) : n \in Nat
  BY ManifestAssumption, FS_CardinalityType
<1>7. FolderTree' = FolderTree
  BY <1>5, <1>6 DEF FolderTree
<1> QED BY <1>7 DEF Resolved

(* One page.                                                                *)
LEMMA PageStep ==
  ASSUME ReadInv, PagesAscend, GetFilesPage
  PROVE  ReadInv' /\ PagesAscend'
<1> DEFINE page == PageAfter(cursor)
<1>1. /\ page \in Seq(RowsAfter(cursor)) /\ page \in Seq(Row)
      /\ Ascending(page)
      /\ Len(page) <= PageSize
      /\ \A e \in RowsAfter(cursor) :
           \/ \E i \in 1..Len(page) : page[i] = e
           \/ Len(page) = PageSize /\ After(e, Last(page))
  BY PageRows DEF ReadInv
<1>2. /\ pc = "page" /\ files' = files \o page
      /\ IF Len(page) < PageSize
         THEN pc' = "done" /\ UNCHANGED cursor
         ELSE cursor' = <<Last(page)>> /\ UNCHANGED pc
      /\ UNCHANGED <<folder, file, folders, stable>>
  BY DEF GetFilesPage, database
<1> HIDE DEF page
<1>3. Resolved' = Resolved
  BY <1>2, SameRowsSameListing
<1>4. /\ files \in Seq(Row) /\ files' \in Seq(Row) /\ Len(files') = Len(files) + Len(page)
      /\ Len(files) \in Nat /\ Len(page) \in Nat
      /\ \A i \in 1..Len(files) : i \in 1..Len(files') /\ files'[i] = files[i]
      /\ \A i \in 1..Len(page) : Len(files) + i \in 1..Len(files') /\ files'[Len(files) + i] = page[i]
      /\ \A i \in 1..Len(files') :
           \/ i \in 1..Len(files)
           \/ i - Len(files) \in 1..Len(page) /\ files'[i] = page[i - Len(files)]
  <2>1. files \in Seq(Row) /\ Len(files) \in Nat /\ Len(page) \in Nat
    BY <1>1 DEF ReadInv
  <2> QED BY ONLY <1>1, <1>2, <2>1
<1>5. ASSUME NEW e, Listed(e) \/ \E i \in 1..Len(page) : page[i] = e PROVE Listed(e)'
  BY <1>4, <1>5 DEF Listed
<1>6. PageSize \in Nat \ {0}
  BY ManifestAssumption
<1>7. ASSUME pc' = "page" PROVE files' # <<>> /\ Last(files') = Last(page) /\ cursor' = <<Last(page)>>
  <2>1. Len(page) >= PageSize /\ cursor' = <<Last(page)>>
    BY <1>2, <1>4, <1>6, <1>7
  <2>2. Len(page) \in 1..Len(page) /\ Len(files') # 0
    BY <1>4, <1>6, <2>1
  <2> QED BY <1>4, <2>1, <2>2 DEF Last
<1>8. ASSUME NEW e \in stable
      PROVE  /\ \A k \in 1..Len(files') : files'[k].id = e.id => files'[k] = e
             /\ pc' = "page" => Listed(e)' \/ cursor' = <<>> \/ After(e, cursor'[1])
             /\ pc' = "done" => Listed(e)'
  <2>1. e \in Resolved
    BY DEF ReadInv
  <2>2. ASSUME NEW k \in 1..Len(files'), files'[k].id = e.id PROVE files'[k] = e
    <3>1. CASE k \in 1..Len(files)
      BY <1>4, <2>2, <3>1 DEF ReadInv
    <3>2. CASE k - Len(files) \in 1..Len(page) /\ files'[k] = page[k - Len(files)]
      <4>1. files'[k] \in Resolved
        BY <1>1, <3>2 DEF RowsAfter
      <4> QED BY <2>1, <2>2, <4>1, ResolvedRows DEF ReadInv
    <3> QED BY <1>4, <3>1, <3>2
  <2>3. Listed(e) \/ e \in RowsAfter(cursor)
    BY <1>2, <2>1 DEF ReadInv, RowsAfter
  <2>4. Listed(e)' \/ (Len(page) = PageSize /\ After(e, Last(page)))
    BY <1>1, <1>5, <2>3
  <2>5. pc' = "page" => Listed(e)' \/ After(e, cursor'[1])
    BY <1>7, <2>4
  <2>6. pc' = "done" => Listed(e)'
    <3>1. pc' = "done" => Len(page) < PageSize
      BY <1>2
    <3> QED BY <1>6, <2>4, <3>1
  <2> QED BY <2>2, <2>5, <2>6
<1>9. PagesAscend'
  <2>1. ASSUME files # <<>>, NEW i \in 1..Len(page) PROVE After(page[i], Last(files))
    <3>1. cursor = <<Last(files)>>
      BY <1>2, <2>1 DEF ReadInv
    <3>2. page[i] \in RowsAfter(cursor)
      BY <1>1
    <3> QED BY <3>1, <3>2 DEF RowsAfter
  <2>2. Row \subseteq Entry
    BY ManifestAssumption DEF Row, Entry, Path
  <2>3. files \in Seq(Entry) /\ page \in Seq(Entry)
    BY <1>1, <1>4, <2>2
  <2>4. Ascending(files \o page)
    BY <1>1, <2>1, <2>3, AscendingAppend DEF PagesAscend
  <2> QED BY <1>2, <2>4 DEF PagesAscend, Ascending
<1>10. pc' \in {"page", "done"}
  BY <1>2
<1> QED BY <1>2, <1>3, <1>4, <1>7, <1>8, <1>9, <1>10 DEF ReadInv

(* Every step of the program, and every change beside it, keeps both.       *)
LEMMA ReadStep ==
  ASSUME ReadInv, PagesAscend, [Next]_vars
  PROVE  ReadInv' /\ PagesAscend'
<1>1. CASE GetFolderTree
  <2>1. /\ pc = "tree" /\ pc' = "page" /\ folders' = FolderTree /\ stable' = Resolved
        /\ UNCHANGED <<folder, file, files, cursor>>
    BY <1>1 DEF GetFolderTree, database
  <2>2. Resolved' = Resolved
    BY <2>1, SameRowsSameListing
  <2>3. FolderTree \subseteq [id : Folders, path : Seq(Nat)]
    BY FolderTreeRows DEF ReadInv, Path
  <2>4. files = <<>> /\ Len(files) = 0 /\ cursor = <<>>
    BY <2>1 DEF ReadInv
  <2> QED BY <2>1, <2>2, <2>3, <2>4 DEF ReadInv, PagesAscend, Ascending
<1>2. CASE GetFilesPage
  BY <1>2, PageStep
<1>3. CASE QueryFails
  <2>1. pc' = "failed" /\ UNCHANGED <<folder, file, folders, files, cursor, stable>>
    BY <1>3 DEF QueryFails, database
  <2>2. Resolved' = Resolved
    BY <2>1, SameRowsSameListing
  <2> QED BY <2>1, <2>2 DEF ReadInv, PagesAscend, Ascending
<1>4. CASE Change
  <2>1. stable' = stable \cap Resolved' /\ UNCHANGED <<pc, folders, files, cursor>>
    BY <1>4 DEF Change, reader
  <2>2. folder' \in [Folders -> FolderRow] /\ file' \in [Files -> FileRow]
    BY <1>4 DEF Change, ReadInv
  <2>3. \A e : Listed(e)' <=> Listed(e)
    BY <2>1 DEF Listed
  <2> QED BY <2>1, <2>2, <2>3 DEF ReadInv, PagesAscend, Ascending
<1>5. CASE UNCHANGED vars
  <2>1. UNCHANGED <<folder, file, pc, folders, files, cursor, stable>>
    BY <1>5 DEF vars, database, reader
  <2>2. Resolved' = Resolved
    BY <2>1, SameRowsSameListing
  <2>3. \A e : Listed(e)' <=> Listed(e)
    BY <2>1 DEF Listed
  <2> QED BY <2>1, <2>2, <2>3 DEF ReadInv, PagesAscend, Ascending
<1> QED BY <1>1, <1>2, <1>3, <1>4, <1>5 DEF Next

(* The inductive invariant of the read: GetFilesForFolderTree's loop with   *)
(* the database changing between its queries.                               *)
THEOREM ReadInvariant == Spec => [](ReadInv /\ PagesAscend)
<1>1. Init => ReadInv /\ PagesAscend
  <2> SUFFICES ASSUME Init PROVE ReadInv /\ PagesAscend
    OBVIOUS
  <2>1. files = <<>> /\ Len(files) = 0 /\ files \in Seq(Row)
    BY DEF Init
  <2> QED BY <2>1 DEF Init, ReadInv, PagesAscend, Ascending
<1>2. ReadInv /\ PagesAscend /\ [Next]_vars => (ReadInv /\ PagesAscend)'
  BY ReadStep
<1> QED BY <1>1, <1>2, PTL DEF Spec

(* The pages are in order across their boundaries, and no row is read       *)
(* twice, whatever the page size and the changes (GetFilesForFolderTree).   *)
THEOREM PagesAscendAlways == Spec => []PagesAscend
BY ReadInvariant, PTL

(* A file left alone while the pages are read is in the manifest exactly    *)
(* once (GetFilesForFolderTree, keyset pages without a transaction).        *)
THEOREM StableFilesOnceAlways == Spec => []StableFilesOnce
<1>1. ReadInv /\ PagesAscend => StableFilesOnce
  <2> SUFFICES ASSUME ReadInv, PagesAscend, pc = "done", NEW e \in stable
               PROVE  \E i \in 1..Len(files) :
                        files[i] = e /\ \A k \in 1..Len(files) : files[k].id = e.id => k = i
    BY DEF StableFilesOnce
  <2>1. PICK i \in 1..Len(files) : files[i] = e
    BY DEF ReadInv, Listed
  <2>2. e \in Entry
    BY ResolvedRows DEF ReadInv
  <2>3. ASSUME NEW k \in 1..Len(files), files[k].id = e.id PROVE k = i
    <3>1. files[k] = e
      BY <2>3 DEF ReadInv
    <3>2. ~RowLess(e, e)
      BY <2>2, RowOrder
    <3>3. ~(i < k) /\ ~(k < i)
      BY <2>1, <3>1, <3>2 DEF PagesAscend, Ascending
    <3>4. i \in Int /\ k \in Int
      OBVIOUS
    <3> QED BY ONLY <3>3, <3>4
  <2> QED BY <2>1, <2>3
<1> QED BY <1>1, ReadInvariant, PTL

--------------------------------------------------------------------------------
(* Empty folders *)

(* A prefix, position by position.                                          *)
LEMMA PrefixMeans ==
  ASSUME NEW p \in Path, NEW t \in Path
  PROVE  HasPrefix(p, t) <=> Len(t) <= Len(p) /\ \A k \in 1..Len(t) : p[k] = t[k]
<1>1. ASSUME Len(t) <= Len(p)
      PROVE  SubSeq(p, 1, Len(t)) \in Path /\ Len(SubSeq(p, 1, Len(t))) = Len(t)
             /\ \A k \in 1..Len(t) : SubSeq(p, 1, Len(t))[k] = p[k]
  BY <1>1 DEF Path
<1>2. ASSUME Len(t) <= Len(p), \A k \in 1..Len(t) : p[k] = t[k] PROVE SubSeq(p, 1, Len(t)) = t
  <2> DEFINE s == SubSeq(p, 1, Len(t))
  <2>1. s \in Path /\ Len(s) = Len(t) /\ \A k \in 1..Len(t) : s[k] = t[k]
    BY <1>1, <1>2
  <2> HIDE DEF s
  <2>2. s \in Seq(Nat) /\ t \in Seq(Nat) /\ Len(s) = Len(t) /\ \A k \in 1..Len(s) : s[k] = t[k]
    BY <2>1 DEF Path
  <2>3. s = t
    BY <2>2, SeqEqual
  <2> QED BY <2>3 DEF s
<1> QED BY <1>1, <1>2 DEF HasPrefix

(* A path that continues t does not come before it.                         *)
LEMMA PrefixNotBefore ==
  ASSUME NEW p \in Path, NEW t \in Path, HasPrefix(p, t)
  PROVE  ~PathLess(p, t)
<1>1. /\ Len(t) <= Len(p) /\ \A k \in 1..Len(t) : p[k] = t[k]
      /\ Len(t) \in Nat /\ Len(p) \in Nat /\ \A k \in 1..Len(t) : t[k] \in Nat
  BY PrefixMeans DEF Path
<1> QED BY <1>1 DEF PathLess

(* What lies between t and a path that continues t continues t as well.     *)
LEMMA PrefixInterval ==
  ASSUME NEW t \in Path, NEW m \in Path, NEW p \in Path,
         HasPrefix(p, t), ~PathLess(m, t), ~PathLess(p, m)
  PROVE  HasPrefix(m, t)
<1>1. /\ Len(t) <= Len(p) /\ \A k \in 1..Len(t) : p[k] = t[k]
      /\ Len(t) \in Nat /\ Len(p) \in Nat /\ Len(m) \in Nat
  BY PrefixMeans DEF Path
<1>2. CASE m = p
  BY <1>2
<1>3. CASE m # p
  <2>1. PathLess(m, p)
    BY <1>3, PathTotal
  <2>2. PICK i \in 1..Len(p) : /\ i <= Len(m) + 1
                               /\ \A k \in 1..(i - 1) : m[k] = p[k]
                               /\ i <= Len(m) => m[i] < p[i]
    BY <2>1 DEF PathLess
  <2>3. i > Len(t)
    <3> SUFFICES ASSUME i <= Len(t) PROVE PathLess(m, t)
      BY <1>1
    <3>1. i \in 1..Len(t) /\ \A k \in 1..(i - 1) : k \in 1..Len(t)
      BY <1>1
    <3>2. \A k \in 1..(i - 1) : m[k] = t[k]
      BY <1>1, <2>2, <3>1
    <3>3. i <= Len(m) => m[i] < t[i]
      BY <1>1, <2>2, <3>1
    <3> QED BY <2>2, <3>1, <3>2, <3>3 DEF PathLess
  <2>4. Len(t) <= Len(m) /\ \A k \in 1..Len(t) : k \in 1..(i - 1)
    BY <1>1, <2>2, <2>3
  <2>5. \A k \in 1..Len(t) : m[k] = t[k]
    BY <1>1, <2>2, <2>4
  <2> QED BY <2>4, <2>5, PrefixMeans
<1> QED BY <1>2, <1>3

(* A listed, finite, nonempty family of paths has a first one.              *)
LEMMA FirstPath ==
  ASSUME NEW n \in Nat, NEW f \in [1..n -> Path], NEW I \in SUBSET (1..n), I # {}
  PROVE  \E j \in I : \A k \in I : ~PathLess(f[k], f[j])
<1> DEFINE S == {e \in Entry : e.id \in I /\ e.path = f[e.id]}
           h == [e \in S |-> e.id]
           s == Ordered(S)
<1>i. \A k \in I : k \in 1..n /\ k \in Nat /\ f[k] \in Path
  OBVIOUS
<1>1. \A k \in I : [id |-> k, path |-> f[k]] \in S
  BY <1>i DEF Entry
<1>2. \A e \in S : e \in Entry /\ e.id \in I /\ e.path = f[e.id]
  OBVIOUS
<1>3. \A a, b \in S : a.id = b.id => a = b
  BY <1>2 DEF Entry
<1> HIDE DEF S
<1>4. IsFiniteSet(S)
  <2>1. h \in [S -> I]
    BY <1>2
  <2>2. h \in Injection(S, I)
    BY <1>3, <2>1 DEF Injection, IsInjective
  <2>3. IsFiniteSet(1..n)
    BY FS_Interval
  <2>4. IsFiniteSet(I)
    BY <2>3, FS_Subset
  <2> QED BY <2>2, <2>4, FS_Injection
<1>5. /\ s \in Seq(S) /\ Ascending(s)
      /\ \A e \in S : \E i \in 1..Len(s) : s[i] = e
  BY <1>2, <1>4, OrderedRows
<1> HIDE DEF s
<1>6. 1 \in 1..Len(s)
  <2>1. PICK i \in 1..Len(s) : TRUE
    BY <1>1, <1>5
  <2>2. Len(s) \in Nat
    BY <1>5
  <2> QED BY ONLY <2>1, <2>2
<1>7. s[1] \in S
  BY <1>5, <1>6
<1>8. ASSUME NEW k \in I PROVE ~PathLess(f[k], f[s[1].id])
  <2>1. PICK i \in 1..Len(s) : s[i] = [id |-> k, path |-> f[k]]
    BY <1>1, <1>5
  <2>2. s[1].path = f[s[1].id] /\ s[1].path \in Path /\ f[k] \in Path
    BY <1>2, <1>7, <1>i DEF Entry
  <2>3. CASE i = 1
    BY <2>1, <2>2, <2>3, PathIrreflexive
  <2>4. CASE i # 1
    <3>1. RowLess(s[1], s[i])
      BY <1>5, <1>6, <2>4 DEF Ascending
    <3>2. PathLess(s[1].path, f[k]) \/ s[1].path = f[k]
      BY <2>1, <3>1 DEF RowLess
    <3> QED BY <2>2, <3>2, PathIrreflexive, PathTransitive
  <2> QED BY <2>3, <2>4
<1> QED BY <1>2, <1>7, <1>8

(* The binary search decides whether some path continues the target.        *)
LEMMA SearchFinds ==
  ASSUME NEW n \in Nat, NEW f \in [1..n -> Path], NEW t \in Path
  PROVE  HasPathFrom({f[i] : i \in 1..n}, t) <=> \E i \in 1..n : HasPrefix(f[i], t)
<1>1. ASSUME NEW i \in 1..n, HasPrefix(f[i], t) PROVE HasPathFrom({f[k] : k \in 1..n}, t)
  <2> DEFINE I == {k \in 1..n : ~PathLess(f[k], t)}
  <2>1. i \in I
    BY <1>1, PrefixNotBefore
  <2>2. PICK j \in I : \A k \in I : ~PathLess(f[k], f[j])
    BY <2>1, FirstPath
  <2>3. HasPrefix(f[j], t)
    BY <1>1, <2>1, <2>2, PrefixInterval
  <2> QED BY <2>2, <2>3 DEF HasPathFrom
<1>2. ASSUME HasPathFrom({f[k] : k \in 1..n}, t) PROVE \E i \in 1..n : HasPrefix(f[i], t)
  BY <1>2 DEF HasPathFrom
<1> QED BY <1>1, <1>2

(* A rebased path is a path.                                                *)
LEMMA RebaseTypes ==
  ASSUME NEW p \in Path, NEW root \in Path
  PROVE  RebaseArchivePath(p, root) \in Path
<1> DEFINE seps == {i \in 1..Len(p) : p[i] = Sep}
           first == CHOOSE i \in seps : \A k \in seps : i <= k
<1>1. CASE seps = {} \/ root = <<>>
  BY <1>1 DEF RebaseArchivePath
<1>2. CASE seps # {} /\ root # <<>>
  <2>1. seps \in SUBSET Nat
    BY DEF Path
  <2>2. \E i \in seps : \A k \in seps : i <= k
    BY <1>2, <2>1, Least
  <2>3. first \in seps
    BY <2>2
  <2>4. RebaseArchivePath(p, root) = root \o SubSeq(p, first, Len(p))
    BY <1>2 DEF RebaseArchivePath
  <2> HIDE DEF first
  <2>5. first \in 1..Len(p)
    BY <2>3
  <2>6. SubSeq(p, first, Len(p)) \in Seq(Nat)
    BY <2>5 DEF Path
  <2> QED BY <2>4, <2>6 DEF Path
<1> QED BY <1>1, <1>2

(* Computed on rebased paths with a binary search, the empty folders are    *)
(* exactly the folders with no file below them (computeEmptyFolders).       *)
THEOREM EmptyFoldersExactAlways == Spec => []EmptyFoldersExact
<1>1. ReadInv => EmptyFoldersExact
  <2> SUFFICES ASSUME ReadInv, NEW d \in folders, NEW dir \in RootDirs
               PROVE  Rebased(d, dir) \in EmptyFolders(dir) <=>
                        ~ \E i \in 1..Len(files) :
                            LET p == ManifestFiles(dir)[i].path  r == Rebased(d, dir).path
                            IN  Len(p) > Len(r) /\ p[Len(r) + 1] = Sep /\ \A k \in 1..Len(r) : p[k] = r[k]
    BY DEF EmptyFoldersExact
  <2> DEFINE n == Len(files)
             r == Rebased(d, dir).path
             f == [i \in 1..n |-> ManifestFiles(dir)[i].path]
             t == r \o <<Sep>>
  <2>1. dir \in Path /\ n \in Nat /\ files \in Seq(Row)
    BY ManifestAssumption DEF ReadInv, Path
  <2>2. r \in Path
    <3>1. d \in [id : Folders, path : Path]
      BY DEF ReadInv, Path
    <3> QED BY <2>1, <3>1, RebaseTypes DEF Rebased
  <2>3. f \in [1..n -> Path]
    <3>1. ASSUME NEW i \in 1..n PROVE f[i] \in Path
      <4>0. files[i] \in Row
        BY <2>1
      <4>1. files[i] \in [id : Files, path : Path]
        BY ONLY <4>0 DEF Row, Path
      <4>2. f[i] = Rebased(files[i], dir).path
        BY DEF ManifestFiles
      <4>3. Rebased(files[i], dir).path = RebaseArchivePath(files[i].path, dir)
        BY <4>1 DEF Rebased
      <4> QED BY <2>1, <4>1, <4>2, <4>3, RebaseTypes
    <3> QED BY <3>1
  <2>4. Rebased(d, dir) \in EmptyFolders(dir) <=> ~HasPathFrom({f[i] : i \in 1..n}, t)
    <3>1. Len(ManifestFiles(dir)) = n
      BY <2>1 DEF ManifestFiles
    <3>2. {ManifestFiles(dir)[i].path : i \in 1..n} = {f[i] : i \in 1..n}
      OBVIOUS
    <3> QED BY <3>1, <3>2 DEF EmptyFolders, ComputeEmptyFolders, HasFileInSubtree
  <2> HIDE DEF r
  <2>5. t \in Path /\ Len(t) = Len(r) + 1 /\ Len(r) \in Nat /\ t[Len(r) + 1] = Sep
        /\ \A k \in 1..Len(r) : t[k] = r[k]
    BY <2>2 DEF Path, Sep
  <2> HIDE DEF t, f
  <2>6. Rebased(d, dir) \in EmptyFolders(dir) <=> ~ \E i \in 1..n : HasPrefix(f[i], t)
    BY <2>1, <2>3, <2>4, <2>5, SearchFinds
  <2>7. ASSUME NEW i \in 1..n
        PROVE  HasPrefix(f[i], t) <=>
                 Len(f[i]) > Len(r) /\ f[i][Len(r) + 1] = Sep /\ \A k \in 1..Len(r) : f[i][k] = r[k]
    <3>1. f[i] \in Path /\ Len(f[i]) \in Nat
      BY <2>3 DEF Path
    <3>2. HasPrefix(f[i], t) <=> Len(t) <= Len(f[i]) /\ \A k \in 1..Len(t) : f[i][k] = t[k]
      BY <2>5, <3>1, PrefixMeans
    <3>3. \A k : k \in 1..Len(t) <=> k \in 1..Len(r) \/ k = Len(r) + 1
      BY <2>5
    <3>4. Len(t) <= Len(f[i]) <=> Len(f[i]) > Len(r)
      BY <2>5, <3>1
    <3> QED BY <2>5, <3>2, <3>3, <3>4
  <2> QED BY <2>6, <2>7 DEF f, r
<1> QED BY <1>1, ReadInvariant, PTL

================================================================================
