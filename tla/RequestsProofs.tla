----------------------------- MODULE RequestsProofs -----------------------------
(***************************************************************************)
(* The names of archives and entries for every request and every name in   *)
(* the database: what splitting, joining, cleaning, trimming and rebasing  *)
(* do to each other, and from that the safety properties of Requests.      *)
(***************************************************************************)
EXTENDS Requests, NatInduction, SequenceTheorems, TLAPS

-------------------------------------------------------------------------------
(* strings.Split *)

(* The segments a path over C and the separator splits into.                *)
Segs(C) == {s \in Seq(Seq(C)) : s # <<>>}
Splitting(C) == [segs \in Segs(C) |-> [c \in C \cup {Sep} |-> SplitAt(segs, c)]]

(* A character begins a segment or is added to the last one.                *)
LEMMA SplitAtTypes ==
  ASSUME NEW C, NEW segs \in Segs(C), NEW c \in C \cup {Sep}
  PROVE  SplitAt(segs, c) \in Segs(C)
<1>1. segs \in Seq(Seq(C)) /\ segs # <<>> /\ Len(segs) \in Nat /\ Len(segs) >= 1
  BY DEF Segs
<1>2. CASE c = Sep
  <2>1. <<>> \in Seq(C)
    OBVIOUS
  <2>2. Append(segs, <<>>) \in Seq(Seq(C)) /\ Append(segs, <<>>) # <<>>
    BY <1>1, <2>1, AppendProperties
  <2> QED BY <1>2, <2>2 DEF Segs, SplitAt
<1>3. CASE c # Sep
  <2> DEFINE w == Append(segs[Len(segs)], c)
             t == [segs EXCEPT ![Len(segs)] = w]
  <2>1. w \in Seq(C)
    <3>1. segs[Len(segs)] \in Seq(C) /\ c \in C
      BY <1>1, <1>3
    <3> QED BY <3>1, AppendProperties
  <2>2. SplitAt(segs, c) = t
    BY <1>3 DEF SplitAt
  <2> HIDE DEF w
  <2>3. t \in Seq(Seq(C)) /\ Len(t) = Len(segs)
    BY <1>1, <2>1
  <2>4. t # <<>>
    BY <1>1, <2>3
  <2> QED BY <2>2, <2>3, <2>4 DEF Segs
<1> QED BY <1>2, <1>3

(* Split takes these steps along the path.                                  *)
LEMMA SplitFolds ==
  ASSUME NEW C, NEW p \in Seq(C \cup {Sep})
  PROVE  FoldsTo(Segs(C), C \cup {Sep}, Splitting(C), <<<<>>>>, p, Split(p))
<1>n. PICK n \in Nat : n = Len(p) /\ p \in [1..n -> C \cup {Sep}]
  OBVIOUS
<1> DEFINE base == <<<<>>>>
           Steps(F) == F = [T \in SUBSET DOMAIN p |->
                              IF T = {} THEN base ELSE SplitAt(F[T \ {Max(T)}], p[Max(T)])]
<1>a. /\ Splitting(C) \in [Segs(C) -> [C \cup {Sep} -> Segs(C)]]
      /\ \A a \in Segs(C), b \in C \cup {Sep} : Splitting(C)[a][b] = SplitAt(a, b)
  BY SplitAtTypes DEF Splitting
<1>b. base \in Segs(C)
  <2>1. <<>> \in Seq(C)
    OBVIOUS
  <2> QED BY <2>1 DEF Segs
<1>1. PICK E \in [SUBSET (1..n) -> Segs(C)] : Folds(Splitting(C), base, p, E)
  <2> HIDE DEF base
  <2>1. Splitting(C) \in [Segs(C) -> [C \cup {Sep} -> Segs(C)]]
    BY ONLY <1>a, Zenon
  <2>2. \A s \in [1..n -> C \cup {Sep}] :
          \E F \in [SUBSET (1..n) -> Segs(C)] : Folds(Splitting(C), base, s, F)
    BY ONLY <1>b, <2>1, n \in Nat, FoldExists, Zenon
  <2> QED BY ONLY <1>n, <2>2, Zenon
<1>2. Steps(E)
  <2> HIDE DEF base
  <2>1. ASSUME NEW T \in SUBSET (1..n), T # {}
        PROVE  E[T \ {Max(T)}] \in Segs(C) /\ p[Max(T)] \in C \cup {Sep}
    <3>1. Max(T) \in 1..n /\ T \ {Max(T)} \in SUBSET (1..n)
      BY <2>1, MaxIndex, Zenon
    <3> QED BY <1>n, <1>1, <3>1
  <2> QED BY <1>n, <1>a, <1>1, <2>1, Zenon DEF Folds
<1> DEFINE F == CHOOSE F : Steps(F)
<1>3. Steps(F)
  BY <1>2, Zenon
<1>4. Split(p) = F[1..n]
  BY <1>n DEF Split, FoldLeft, MapThenFoldSet
<1> HIDE DEF F, base
<1>5. F[1..0] = base
  BY <1>n, <1>3, Beginnings
<1>6. ASSUME NEW k \in 1..n, F[1..(k - 1)] \in Segs(C)
      PROVE  F[1..k] = Splitting(C)[F[1..(k - 1)]][p[k]]
  <2>1. 1..k \in SUBSET (1..n) /\ 1..k # {} /\ Max(1..k) = k /\ (1..k) \ {k} = 1..(k - 1)
    BY Beginnings
  <2>2. F[1..k] = SplitAt(F[1..(k - 1)], p[k])
    BY <1>n, <1>3, <2>1, Zenon
  <2> QED BY <1>n, <1>a, <1>6, <2>2
<1>7. Walks(Segs(C), C \cup {Sep}, Splitting(C), base, n, p, F)
  BY ONLY <1>n, <1>a, <1>b, <1>5, <1>6, Zenon DEF Walks
<1>8. FoldsTo(Segs(C), C \cup {Sep}, Splitting(C), base, p, Split(p))
  BY ONLY <1>n, <1>4, <1>7 DEF FoldsTo
<1> QED BY ONLY <1>8 DEF base

(* What it splits into, and one character at a time.                        *)
LEMMA SplitLaws ==
  ASSUME NEW C, NEW p \in Seq(C \cup {Sep})
  PROVE  /\ Split(p) \in Seq(Seq(C)) /\ Split(p) # <<>>
         /\ \A c \in C \cup {Sep} : Split(Append(p, c)) = SplitAt(Split(p), c)
<1>1. FoldsTo(Segs(C), C \cup {Sep}, Splitting(C), <<<<>>>>, p, Split(p))
  BY SplitFolds
<1>2. Split(p) \in Segs(C)
  BY ONLY <1>1, FoldsTyped
<1>3. ASSUME NEW c \in C \cup {Sep} PROVE Split(Append(p, c)) = SplitAt(Split(p), c)
  <2>1. p \in Seq(C \cup {Sep}) /\ Append(p, c) \in Seq(C \cup {Sep}) /\ c \in C \cup {Sep}
    OBVIOUS
  <2>2. FoldsTo(Segs(C), C \cup {Sep}, Splitting(C), <<<<>>>>, Append(p, c), Split(Append(p, c)))
    BY ONLY <2>1, SplitFolds, Zenon
  <2>3. Split(Append(p, c)) = Splitting(C)[Split(p)][c]
    BY ONLY <1>1, <2>1, <2>2, FoldsAppend
  <2> QED BY <1>2, <2>3 DEF Splitting
<1> QED BY <1>2, <1>3 DEF Segs

(* Nothing splits into one empty segment.                                   *)
LEMMA SplitEmpty == Split(<<>>) = <<<<>>>>
<1>1. <<>> \in Seq({} \cup {Sep})
  OBVIOUS
<1>2. FoldsTo(Segs({}), {} \cup {Sep}, Splitting({}), <<<<>>>>, <<>>, Split(<<>>))
  BY ONLY <1>1, SplitFolds, Zenon
<1> QED BY ONLY <1>2, FoldsEmpty

(* The first segment is where the path begins, all of it when there is no   *)
(* other one.                                                               *)
LEMMA SplitFirst ==
  ASSUME NEW p \in Seq(Nat)
  PROVE  /\ Split(p) \in Seq(Seq(Nat)) /\ Split(p) # <<>>
         /\ Len(Split(p)[1]) <= Len(p)
         /\ \A i \in 1..Len(Split(p)[1]) : Split(p)[1][i] = p[i]
<1> DEFINE Begins(s, q) ==
             /\ s \in Seq(Seq(Nat)) /\ Len(s) >= 1 /\ (Len(s) = 1 => s[1] = q)
             /\ Len(s[1]) <= Len(q) /\ \A i \in 1..Len(s[1]) : s[1][i] = q[i]
           P == {q \in Seq(Nat) : Begins(Split(q), q)}
<1>n. Nat \cup {Sep} = Nat
  BY DEF Sep
<1>b. ASSUME NEW s \in Seq(Seq(Nat)), NEW q \in Seq(Nat), NEW f \in Seq(Nat), f = s[1],
             Len(s) >= 1, Len(s) = 1 => f = q, Len(f) <= Len(q), \A i \in 1..Len(f) : f[i] = q[i]
      PROVE  Begins(s, q)
  BY <1>b, Zenon
<1> HIDE DEF Begins
<1>1. <<>> \in P
  <2>1. Begins(<<<<>>>>, <<>>)
    <3>1. PICK e, s : e = <<>> /\ s = <<e>>
      BY Zenon
    <3>2. e \in Seq(Nat) /\ Len(e) = 0
      BY ONLY <3>1
    <3>3. s \in Seq(Seq(Nat)) /\ Len(s) = 1 /\ s[1] = e
      BY <3>1, <3>2
    <3>4. Len(s) >= 1 /\ Len(e) <= Len(e)
      BY <3>2, <3>3
    <3>5. Begins(s, e)
      BY ONLY <1>b, <3>2, <3>3, <3>4, Zenon
    <3> QED BY ONLY <3>1, <3>5, Zenon
  <2> QED BY <2>1, SplitEmpty
<1>2. ASSUME NEW q \in P, NEW c \in Nat PROVE Append(q, c) \in P
  <2>0. q \in Seq(Nat) /\ Begins(Split(q), q)
    OBVIOUS
  <2>1. PICK s : s = Split(q)
    BY Zenon
  <2>2. Split(Append(q, c)) = SplitAt(s, c)
    BY ONLY <1>n, <2>0, <2>1, c \in Nat, SplitLaws
  <2>3. /\ s \in Seq(Seq(Nat)) /\ Len(s) \in Nat /\ Len(s) >= 1 /\ s[1] \in Seq(Nat)
        /\ Len(s) = 1 => s[1] = q
        /\ Len(s[1]) <= Len(q) /\ \A i \in 1..Len(s[1]) : s[1][i] = q[i]
    BY <2>0, <2>1 DEF Begins
  <2>a. PICK a : a = Append(q, c)
    BY Zenon
  <2>4. a \in Seq(Nat) /\ Len(a) = Len(q) + 1 /\ \A i \in 1..Len(q) : a[i] = q[i]
    BY ONLY <2>0, <2>a, c \in Nat, AppendProperties
  <2>f. PICK f \in Seq(Nat) : f = s[1]
    BY <2>3, Zenon
  <2>l. Len(f) \in Nat /\ Len(q) \in Nat /\ Len(f) <= Len(q) /\ Len(a) = Len(q) + 1
    BY <2>0, <2>3, <2>4, <2>f
  <2>m. Len(f) <= Len(a) /\ 1..Len(f) \subseteq 1..Len(q)
    BY ONLY <2>l
  <2>i. \A i \in 1..Len(s[1]) : s[1][i] = a[i]
    BY ONLY <2>3, <2>4, <2>f, <2>m, Zenon
  <2>5. CASE c = Sep
    <3>1. PICK t : t = Append(s, <<>>)
      BY Zenon
    <3>2. t \in Seq(Seq(Nat)) /\ Len(t) = Len(s) + 1 /\ t[1] = s[1]
      BY ONLY <2>3, <3>1, <<>> \in Seq(Nat), AppendProperties
    <3>3. SplitAt(s, c) = t
      BY ONLY <2>5, <3>1 DEF SplitAt
    <3>4. Begins(t, a)
      <4>0. PICK n \in Nat : n = Len(s)
        BY <2>3, Zenon
      <4>1. n >= 1 /\ Len(t) = n + 1
        BY ONLY <2>3, <3>2, <4>0, Zenon
      <4>2. Len(t) >= 1 /\ Len(t) # 1
        BY ONLY <4>0, <4>1
      <4>3. Len(s[1]) <= Len(a)
        BY ONLY <2>f, <2>m, Zenon
      <4> QED BY ONLY <1>b, <2>3, <2>4, <2>i, <3>2, <4>2, <4>3, Zenon
    <3> QED BY ONLY <2>2, <2>4, <2>a, <3>3, <3>4
  <2>6. CASE c # Sep
    <3>1. PICK w, t : w = Append(s[Len(s)], c) /\ t = [s EXCEPT ![Len(s)] = w]
      BY Zenon
    <3>2. s[Len(s)] \in Seq(Nat) /\ w \in Seq(Nat)
      BY ONLY <2>3, <3>1, c \in Nat, AppendProperties
    <3>3. t \in Seq(Seq(Nat)) /\ Len(t) = Len(s) /\ t # <<>>
          /\ t[1] = IF Len(s) = 1 THEN w ELSE s[1]
      BY ONLY <2>3, <3>1, <3>2
    <3>4. SplitAt(s, c) = t
      BY ONLY <2>6, <3>1 DEF SplitAt
    <3>5. Begins(t, a)
      <4>1. CASE Len(s) = 1
        <5>1. t[1] = a
          BY ONLY <2>3, <2>a, <3>1, <3>3, <4>1
        <5>2. Len(t) >= 1 /\ Len(a) <= Len(a)
          BY <2>3, <2>4, <3>3
        <5> QED BY ONLY <1>b, <2>4, <3>3, <5>1, <5>2, Zenon
      <4>2. CASE Len(s) # 1
        <5>1. Len(t) >= 1 /\ Len(t) # 1 /\ Len(s[1]) <= Len(a) /\ t[1] = s[1]
          BY ONLY <2>3, <2>f, <2>m, <3>3, <4>2, Zenon
        <5> QED BY ONLY <1>b, <2>3, <2>4, <2>i, <3>3, <5>1, Zenon
      <4> QED BY ONLY <4>1, <4>2
    <3> QED BY ONLY <2>2, <2>4, <2>a, <3>4, <3>5
  <2> QED BY ONLY <2>5, <2>6
<1>3. P = Seq(Nat)
  <2>1. P \in SUBSET Seq(Nat)
    OBVIOUS
  <2> HIDE DEF P
  <2> QED BY <1>1, <1>2, <2>1, SeqInduction, Zenon
<1>4. Begins(Split(p), p)
  BY <1>3
<1> QED BY <1>4 DEF Begins

(* A path that does not begin with a drive letter has none in its first     *)
(* segment.                                                                 *)
LEMMA SplitDriveLetter ==
  ASSUME NEW p \in Seq(Nat), ~DriveLetter(p)
  PROVE  ~DriveLetter(Head(Split(p)))
<1>1. PICK s : s = Split(p)
  BY Zenon
<1>2. /\ s \in Seq(Seq(Nat)) /\ s # <<>> /\ Len(s[1]) <= Len(p)
      /\ \A i \in 1..Len(s[1]) : s[1][i] = p[i]
  BY ONLY <1>1, p \in Seq(Nat), SplitFirst
<1>3. Head(s) = s[1] /\ s[1] \in Seq(Nat)
  BY ONLY <1>2
<1> QED BY <1>1, <1>2, <1>3 DEF DriveLetter

-------------------------------------------------------------------------------
(* path.Clean *)

Resolving(C) == [segs \in Seq(Seq(C)) |-> [s \in Seq(C) |-> Resolve(segs, s)]]

(* A segment is dropped, drops the one before it or is added.               *)
LEMMA ResolveTypes ==
  ASSUME NEW C, NEW segs \in Seq(Seq(C)), NEW s \in Seq(C)
  PROVE  Resolve(segs, s) \in Seq(Seq(C))
<1>1. Append(segs, s) \in Seq(Seq(C))
  BY AppendProperties
<1>2. segs # <<>> => Front(segs) \in Seq(Seq(C))
  <2> SUFFICES ASSUME segs # <<>> PROVE SubSeq(segs, 1, Len(segs) - 1) \in Seq(Seq(C))
    BY DEF Front
  <2>1. Len(segs) \in Nat /\ Len(segs) >= 1
    OBVIOUS
  <2>2. \A i \in 1..(Len(segs) - 1) : segs[i] \in Seq(C)
    BY <2>1
  <2> QED BY <2>1, <2>2
<1> QED BY <1>1, <1>2 DEF Resolve

(* ResolveAll takes these steps along the segments.                         *)
LEMMA ResolveFolds ==
  ASSUME NEW C, NEW p \in Seq(Seq(C))
  PROVE  FoldsTo(Seq(Seq(C)), Seq(C), Resolving(C), <<>>, p, ResolveAll(p))
<1>n. PICK n \in Nat : n = Len(p) /\ p \in [1..n -> Seq(C)]
  OBVIOUS
<1> DEFINE base == <<>>
           Steps(F) == F = [T \in SUBSET DOMAIN p |->
                              IF T = {} THEN base ELSE Resolve(F[T \ {Max(T)}], p[Max(T)])]
<1>a. /\ Resolving(C) \in [Seq(Seq(C)) -> [Seq(C) -> Seq(Seq(C))]]
      /\ \A a \in Seq(Seq(C)), b \in Seq(C) : Resolving(C)[a][b] = Resolve(a, b)
  BY ResolveTypes DEF Resolving
<1>b. base \in Seq(Seq(C))
  OBVIOUS
<1>1. PICK E \in [SUBSET (1..n) -> Seq(Seq(C))] : Folds(Resolving(C), base, p, E)
  <2> HIDE DEF base
  <2>1. Resolving(C) \in [Seq(Seq(C)) -> [Seq(C) -> Seq(Seq(C))]]
    BY ONLY <1>a
  <2>2. \A s \in [1..n -> Seq(C)] :
          \E F \in [SUBSET (1..n) -> Seq(Seq(C))] : Folds(Resolving(C), base, s, F)
    BY ONLY <1>b, <2>1, n \in Nat, FoldExists, Zenon
  <2> QED BY ONLY <1>n, <2>2, Zenon
<1>2. Steps(E)
  <2> HIDE DEF base
  <2>1. ASSUME NEW T \in SUBSET (1..n), T # {}
        PROVE  E[T \ {Max(T)}] \in Seq(Seq(C)) /\ p[Max(T)] \in Seq(C)
    <3>1. Max(T) \in 1..n /\ T \ {Max(T)} \in SUBSET (1..n)
      BY <2>1, MaxIndex, Zenon
    <3> QED BY <1>n, <1>1, <3>1
  <2> QED BY <1>n, <1>a, <1>1, <2>1, Zenon DEF Folds
<1> DEFINE F == CHOOSE F : Steps(F)
<1>3. Steps(F)
  BY <1>2, Zenon
<1>4. ResolveAll(p) = F[1..n]
  BY <1>n DEF ResolveAll, FoldLeft, MapThenFoldSet
<1> HIDE DEF F, base
<1>5. F[1..0] = base
  BY <1>n, <1>3, Beginnings
<1>6. ASSUME NEW k \in 1..n, F[1..(k - 1)] \in Seq(Seq(C))
      PROVE  F[1..k] = Resolving(C)[F[1..(k - 1)]][p[k]]
  <2>1. 1..k \in SUBSET (1..n) /\ 1..k # {} /\ Max(1..k) = k /\ (1..k) \ {k} = 1..(k - 1)
    BY Beginnings, Zenon
  <2>2. F[1..k] = Resolve(F[1..(k - 1)], p[k])
    BY <1>n, <1>3, <2>1, Zenon
  <2> QED BY <1>n, <1>a, <1>6, <2>2, Zenon
<1>7. Walks(Seq(Seq(C)), Seq(C), Resolving(C), base, n, p, F)
  BY ONLY <1>n, <1>a, <1>b, <1>5, <1>6 DEF Walks
<1>8. FoldsTo(Seq(Seq(C)), Seq(C), Resolving(C), base, p, ResolveAll(p))
  BY ONLY <1>n, <1>4, <1>7 DEF FoldsTo
<1> QED BY ONLY <1>8 DEF base

(* What it resolves to, and one segment at a time.                          *)
LEMMA ResolveLaws ==
  ASSUME NEW C, NEW p \in Seq(Seq(C))
  PROVE  /\ ResolveAll(p) \in Seq(Seq(C))
         /\ \A s \in Seq(C) : ResolveAll(Append(p, s)) = Resolve(ResolveAll(p), s)
<1>1. FoldsTo(Seq(Seq(C)), Seq(C), Resolving(C), <<>>, p, ResolveAll(p))
  BY ResolveFolds
<1>2. ResolveAll(p) \in Seq(Seq(C))
  BY ONLY <1>1, FoldsTyped
<1>3. ASSUME NEW s \in Seq(C) PROVE ResolveAll(Append(p, s)) = Resolve(ResolveAll(p), s)
  <2>1. p \in Seq(Seq(C)) /\ Append(p, s) \in Seq(Seq(C)) /\ s \in Seq(C)
    BY AppendProperties
  <2>2. FoldsTo(Seq(Seq(C)), Seq(C), Resolving(C), <<>>, Append(p, s), ResolveAll(Append(p, s)))
    BY ONLY <2>1, ResolveFolds, Zenon
  <2>3. ResolveAll(Append(p, s)) = Resolving(C)[ResolveAll(p)][s]
    BY ONLY <1>1, <2>1, <2>2, FoldsAppend
  <2> QED BY <1>2, <2>3 DEF Resolving
<1> QED BY <1>2, <1>3

(* Nothing stays nothing.                                                   *)
LEMMA ResolveEmpty == ResolveAll(<<>>) = <<>>
<1>1. <<>> \in Seq(Seq({}))
  OBVIOUS
<1>2. FoldsTo(Seq(Seq({})), Seq({}), Resolving({}), <<>>, <<>>, ResolveAll(<<>>))
  BY ONLY <1>1, ResolveFolds, Zenon
<1> QED BY ONLY <1>2, FoldsEmpty

-------------------------------------------------------------------------------
(* The archive_path of the query *)

JoinFrom(h, t) == FoldLeft(Join, h, t)
Joining(C) == [p \in Seq(C \cup {Sep}) |-> [s \in Seq(C \cup {Sep}) |-> Join(p, s)]]

(* Joining takes these steps along the names.                               *)
LEMMA JoinFolds ==
  ASSUME NEW C, NEW h \in Seq(C \cup {Sep}), NEW p \in Seq(Seq(C \cup {Sep}))
  PROVE  FoldsTo(Seq(C \cup {Sep}), Seq(C \cup {Sep}), Joining(C), h, p, JoinFrom(h, p))
<1> DEFINE D == C \cup {Sep}
<1>n. PICK n \in Nat : n = Len(p) /\ p \in [1..n -> Seq(D)]
  OBVIOUS
<1> DEFINE Steps(F) == F = [T \in SUBSET DOMAIN p |->
                              IF T = {} THEN h ELSE Join(F[T \ {Max(T)}], p[Max(T)])]
<1>a. /\ Joining(C) \in [Seq(D) -> [Seq(D) -> Seq(D)]]
      /\ \A a \in Seq(D), b \in Seq(D) : Joining(C)[a][b] = Join(a, b)
  <2>1. ASSUME NEW a \in Seq(D), NEW b \in Seq(D) PROVE Join(a, b) \in Seq(D)
    <3>1. <<Sep>> \in Seq(D)
      OBVIOUS
    <3> HIDE DEF D
    <3>2. a \o <<Sep>> \in Seq(D)
      BY <3>1, ConcatProperties
    <3> QED BY <3>2, ConcatProperties DEF Join
  <2> QED BY <2>1, Zenon DEF Joining
<1>b. h \in Seq(D)
  OBVIOUS
<1> HIDE DEF D
<1>1. PICK E \in [SUBSET (1..n) -> Seq(D)] : Folds(Joining(C), h, p, E)
  BY ONLY <1>n, <1>a, <1>b, FoldExists, Zenon
<1>2. Steps(E)
  <2>1. ASSUME NEW T \in SUBSET (1..n), T # {}
        PROVE  E[T \ {Max(T)}] \in Seq(D) /\ p[Max(T)] \in Seq(D)
    <3>1. Max(T) \in 1..n /\ T \ {Max(T)} \in SUBSET (1..n)
      BY <2>1, MaxIndex, Zenon
    <3> QED BY <1>n, <1>1, <3>1
  <2> QED BY <1>n, <1>a, <1>1, <2>1, Zenon DEF Folds
<1> DEFINE F == CHOOSE F : Steps(F)
<1>3. Steps(F)
  BY <1>2, Zenon
<1>4. JoinFrom(h, p) = F[1..n]
  BY <1>n DEF JoinFrom, FoldLeft, MapThenFoldSet
<1> HIDE DEF F
<1>5. F[1..0] = h
  BY <1>n, <1>3, Beginnings
<1>6. ASSUME NEW k \in 1..n, F[1..(k - 1)] \in Seq(D)
      PROVE  F[1..k] = Joining(C)[F[1..(k - 1)]][p[k]]
  <2>1. 1..k \in SUBSET (1..n) /\ 1..k # {} /\ Max(1..k) = k /\ (1..k) \ {k} = 1..(k - 1)
    BY Beginnings, Zenon
  <2>2. F[1..k] = Join(F[1..(k - 1)], p[k])
    BY <1>n, <1>3, <2>1, Zenon
  <2> QED BY <1>n, <1>a, <1>6, <2>2, Zenon
<1>7. Walks(Seq(D), Seq(D), Joining(C), h, n, p, F)
  BY ONLY <1>n, <1>a, <1>b, <1>5, <1>6 DEF Walks
<1>8. FoldsTo(Seq(D), Seq(D), Joining(C), h, p, JoinFrom(h, p))
  BY ONLY <1>n, <1>4, <1>7 DEF FoldsTo
<1> QED BY ONLY <1>8 DEF D

(* What is joined is a path.                                                *)
LEMMA JoinTypes ==
  ASSUME NEW C, NEW h \in Seq(C \cup {Sep}), NEW p \in Seq(Seq(C \cup {Sep}))
  PROVE  JoinFrom(h, p) \in Seq(C \cup {Sep})
<1>1. FoldsTo(Seq(C \cup {Sep}), Seq(C \cup {Sep}), Joining(C), h, p, JoinFrom(h, p))
  BY JoinFolds
<1> QED BY ONLY <1>1, FoldsTyped

(* One name is what it is.                                                  *)
LEMMA JoinEmpty ==
  ASSUME NEW C, NEW h \in Seq(C \cup {Sep})
  PROVE  JoinFrom(h, <<>>) = h
<1>1. h \in Seq(C \cup {Sep}) /\ <<>> \in Seq(Seq(C \cup {Sep}))
  OBVIOUS
<1>2. FoldsTo(Seq(C \cup {Sep}), Seq(C \cup {Sep}), Joining(C), h, <<>>, JoinFrom(h, <<>>))
  BY ONLY <1>1, JoinFolds, Zenon
<1> QED BY ONLY <1>2, FoldsEmpty

(* One name more is joined.                                                 *)
LEMMA JoinAppend ==
  ASSUME NEW C, NEW h \in Seq(C \cup {Sep}), NEW p \in Seq(Seq(C \cup {Sep})),
         NEW s \in Seq(C \cup {Sep})
  PROVE  JoinFrom(h, Append(p, s)) = Join(JoinFrom(h, p), s)
<1> DEFINE D == C \cup {Sep}
<1>1. h \in Seq(D) /\ p \in Seq(Seq(D)) /\ s \in Seq(D)
  OBVIOUS
<1>2. Append(p, s) \in Seq(Seq(D))
  <2> HIDE DEF D
  <2> QED BY <1>1, AppendProperties
<1>3. FoldsTo(Seq(D), Seq(D), Joining(C), h, p, JoinFrom(h, p))
  BY ONLY <1>1, JoinFolds, Zenon
<1>4. FoldsTo(Seq(D), Seq(D), Joining(C), h, Append(p, s), JoinFrom(h, Append(p, s)))
  BY ONLY <1>1, <1>2, JoinFolds, Zenon
<1>5. JoinFrom(h, p) \in Seq(D) /\ JoinFrom(h, Append(p, s)) = Joining(C)[JoinFrom(h, p)][s]
  BY ONLY <1>1, <1>3, <1>4, FoldsAppend
<1> QED BY <1>1, <1>5 DEF Joining

-------------------------------------------------------------------------------
(* Splitting undoes joining *)

(* The last element is replaced.                                            *)
LEMMA ExceptLast ==
  ASSUME NEW S, NEW s \in Seq(S), NEW a \in S, NEW b \in S
  PROVE  [Append(s, a) EXCEPT ![Len(s) + 1] = b] = Append(s, b)
<1> DEFINE t == Append(s, a)
           u == Append(s, b)
           n == Len(s) + 1
           v == [t EXCEPT ![n] = b]
<1>1. /\ t \in Seq(S) /\ Len(t) = n /\ \A i \in 1..Len(s) : t[i] = s[i]
      /\ u \in Seq(S) /\ Len(u) = n /\ u[n] = b /\ \A i \in 1..Len(s) : u[i] = s[i]
      /\ Len(s) \in Nat /\ n \in 1..n
  BY AppendProperties
<1> HIDE DEF t, u
<1>2. v \in Seq(S) /\ Len(v) = n /\ \A i \in 1..n : v[i] = IF i = n THEN b ELSE t[i]
  BY ONLY <1>1, b \in S, ExceptSeq
<1>3. \A i \in 1..n : i = n \/ i \in 1..Len(s)
  BY ONLY <1>1
<1>4. \A i \in 1..n : v[i] = u[i]
  BY ONLY <1>1, <1>2, <1>3
<1> HIDE DEF v, n
<1>5. v = u
  BY ONLY <1>1, <1>2, <1>4, SeqEqual
<1> QED BY <1>5 DEF v, u, t, n

(* An element can be added at the end first.                                *)
LEMMA ConcatAppend ==
  ASSUME NEW S, NEW s \in Seq(S), NEW t \in Seq(S), NEW x \in S
  PROVE  s \o Append(t, x) = Append(s \o t, x)
<1>1. s \o t \in Seq(S) /\ <<x>> \in Seq(S)
  BY ConcatProperties
<1>2. Append(t, x) = t \o <<x>> /\ Append(s \o t, x) = (s \o t) \o <<x>>
  BY <1>1, AppendIsConcat
<1> QED BY <1>1, <1>2, ConcatAssociative

Cat(s, t) == s \o t

(* It is associative.                                                       *)
LEMMA CatLaws ==
  ASSUME NEW S, NEW s \in Seq(S), NEW t \in Seq(S), NEW u \in Seq(S)
  PROVE  Cat(s, t) \in Seq(S) /\ Cat(Cat(s, t), u) = Cat(s, Cat(t, u))
<1>1. s \o t \in Seq(S)
  BY ConcatProperties
<1>2. (s \o t) \o u = s \o (t \o u)
  BY ConcatAssociative
<1> QED BY <1>1, <1>2 DEF Cat

(* What comes before stays before.                                          *)
LEMMA JoinConcat ==
  ASSUME NEW D, Sep \in D, NEW a \in Seq(D), NEW b \in Seq(D), NEW c \in Seq(D)
  PROVE  Join(Cat(a, b), c) = Cat(a, Join(b, c))
<1>1. PICK e \in Seq(D) : e = <<Sep>>
  <2>1. <<Sep>> \in Seq(D)
    OBVIOUS
  <2> QED BY <2>1, Zenon
<1>2. \A s, t, u \in Seq(D) : Cat(s, t) \in Seq(D) /\ Cat(Cat(s, t), u) = Cat(s, Cat(t, u))
  BY CatLaws
<1>3. \A s, t : Join(s, t) = Cat(Cat(s, e), t)
  BY <1>1 DEF Join, Cat
<1> QED BY <1>2, <1>3

(* A character is added to the last segment.                                *)
LEMMA SplitAtLast ==
  ASSUME NEW C, Sep \notin C, NEW segs \in Seq(Seq(C)), NEW u \in Seq(C), NEW c \in C
  PROVE  SplitAt(Append(segs, u), c) = Append(segs, Append(u, c))
<1>1. PICK v \in Seq(C) : v = Append(u, c)
  BY AppendProperties, Zenon
<1>2. Len(Append(segs, u)) = Len(segs) + 1 /\ Append(segs, u)[Len(segs) + 1] = u
  BY AppendProperties
<1>3. SplitAt(Append(segs, u), c) = [Append(segs, u) EXCEPT ![Len(segs) + 1] = v]
  BY <1>1, <1>2 DEF SplitAt
<1>4. [Append(segs, u) EXCEPT ![Len(segs) + 1] = v] = Append(segs, v)
  BY ExceptLast
<1> QED BY <1>1, <1>3, <1>4

(* Characters other than the separator stay in the segment that was begun.  *)
LEMMA SplitWord ==
  ASSUME NEW C, Sep \notin C, NEW p \in Seq(C \cup {Sep}), NEW segs \in Seq(Seq(C)),
         Split(p) = Append(segs, <<>>), NEW w \in Seq(C)
  PROVE  Split(p \o w) = Append(segs, w)
<1> DEFINE P == {u \in Seq(C) : Split(p \o u) = Append(segs, u)}
<1>1. <<>> \in P
  <2>1. p \o <<>> = p
    BY ConcatEmptySeq
  <2> QED BY <2>1
<1>2. ASSUME NEW u \in P, NEW c \in C PROVE Append(u, c) \in P
  <2>1. u \in Seq(C) /\ Split(p \o u) = Append(segs, u) /\ Append(u, c) \in Seq(C)
    OBVIOUS
  <2>2. p \o u \in Seq(C \cup {Sep})
    <3>1. u \in Seq(C \cup {Sep})
      BY <2>1
    <3> QED BY <3>1, ConcatProperties
  <2>3. p \o Append(u, c) = Append(p \o u, c)
    <3>1. u \in Seq(C \cup {Sep}) /\ c \in C \cup {Sep}
      BY <2>1
    <3> QED BY <3>1, ConcatAppend
  <2>4. Split(Append(p \o u, c)) = SplitAt(Split(p \o u), c)
    BY <2>2, SplitLaws, Zenon
  <2>5. SplitAt(Append(segs, u), c) = Append(segs, Append(u, c))
    BY <2>1, SplitAtLast
  <2> QED BY <2>1, <2>3, <2>4, <2>5, Zenon
<1>3. P = Seq(C)
  <2> HIDE DEF P
  <2>1. P \in SUBSET Seq(C)
    BY DEF P
  <2> QED BY <1>1, <1>2, <2>1, SeqInduction, Zenon
<1> QED BY <1>3

(* Names without separators come back from the path they are joined to.     *)
LEMMA SplitJoined ==
  ASSUME NEW C, Sep \notin C, NEW h \in Seq(C), NEW t \in Seq(Seq(C))
  PROVE  Split(JoinFrom(h, t)) = <<h>> \o t
<1> DEFINE D == C \cup {Sep}
           P == {u \in Seq(Seq(C)) : Split(JoinFrom(h, u)) = <<h>> \o u}
<1>h. h \in Seq(D) /\ \A w \in Seq(C) : w \in Seq(D)
  OBVIOUS
<1>1. <<>> \in P
  <2>1. <<>> \in Seq(Seq(D)) /\ <<>> \in Seq(Seq(C)) /\ <<>> \in Seq(D)
    OBVIOUS
  <2>2. JoinFrom(h, <<>>) = h
    BY ONLY <1>h, JoinEmpty, Zenon
  <2>3. Split(<<>>) = Append(<<>>, <<>>)
    BY SplitEmpty
  <2>4. Split(<<>> \o h) = Append(<<>>, h)
    BY <2>1, <2>3, SplitWord, Zenon
  <2>5. <<>> \o h = h /\ Append(<<>>, h) = <<h>> \o <<>>
    OBVIOUS
  <2> QED BY <2>1, <2>2, <2>4, <2>5
<1>2. ASSUME NEW u \in P, NEW w \in Seq(C) PROVE Append(u, w) \in P
  <2> DEFINE J == JoinFrom(h, u)
  <2>1. u \in Seq(Seq(C)) /\ Split(J) = <<h>> \o u /\ Append(u, w) \in Seq(Seq(C))
    BY AppendProperties
  <2>2. u \in Seq(Seq(D))
    <3>1. Seq(C) \subseteq Seq(D)
      BY <1>h
    <3> QED BY <2>1, <3>1, SeqMonotonic
  <2>w. w \in Seq(D)
    BY <1>h
  <2>3. J \in Seq(D) /\ JoinFrom(h, Append(u, w)) = Join(J, w)
    <3>1. J \in Seq(D)
      BY ONLY <1>h, <2>2, JoinTypes, Zenon
    <3>2. JoinFrom(h, Append(u, w)) = Join(J, w)
      BY ONLY <1>h, <2>2, <2>w, JoinAppend, Zenon
    <3> QED BY <3>1, <3>2
  <2> HIDE DEF J
  <2>4. Split(Append(J, Sep)) = SplitAt(Split(J), Sep)
    BY <2>3, SplitLaws, Zenon
  <2>5. Split(Append(J, Sep)) = Append(<<h>> \o u, <<>>)
    BY <2>1, <2>4 DEF SplitAt
  <2>6. <<h>> \o u \in Seq(Seq(C))
    <3>1. <<h>> \in Seq(Seq(C))
      OBVIOUS
    <3> QED BY <2>1, <3>1, ConcatProperties
  <2>7. Append(J, Sep) \in Seq(D)
    BY <2>3
  <2>8. Split(Append(J, Sep) \o w) = Append(<<h>> \o u, w)
    BY <2>5, <2>6, <2>7, SplitWord, Zenon
  <2>9. Join(J, w) = Append(J, Sep) \o w
    BY <2>3 DEF Join
  <2>10. Append(<<h>> \o u, w) = <<h>> \o Append(u, w)
    <3>1. <<h>> \in Seq(Seq(C))
      OBVIOUS
    <3> QED BY <2>1, <3>1, ConcatAppend
  <2> QED BY <2>1, <2>3, <2>8, <2>9, <2>10, Zenon
<1>3. P = Seq(Seq(C))
  <2> HIDE DEF P
  <2>1. P \in SUBSET Seq(Seq(C))
    BY DEF P
  <2> QED BY <1>1, <1>2, <2>1, SeqInduction, Zenon
<1> QED BY <1>3

(* What the first name is joined to does not depend on it, and begins with  *)
(* a separator.                                                             *)
LEMMA JoinTail ==
  ASSUME NEW C, NEW h \in Seq(C \cup {Sep}), NEW t \in Seq(Seq(C \cup {Sep}))
  PROVE  /\ JoinFrom(h, t) = Cat(h, JoinFrom(<<>>, t))
         /\ JoinFrom(<<>>, t) \in Seq(C \cup {Sep})
         /\ t # <<>> => JoinFrom(<<>>, t) # <<>> /\ JoinFrom(<<>>, t)[1] = Sep
<1> DEFINE D == C \cup {Sep}
           Begins(u) == u # <<>> => JoinFrom(<<>>, u) # <<>> /\ JoinFrom(<<>>, u)[1] = Sep
           P == {u \in Seq(Seq(D)) : JoinFrom(h, u) = Cat(h, JoinFrom(<<>>, u)) /\ Begins(u)}
<1>h. h \in Seq(D) /\ <<>> \in Seq(D) /\ <<>> \in Seq(Seq(D)) /\ t \in Seq(Seq(D)) /\ Sep \in D
  OBVIOUS
<1>j. ASSUME NEW g \in Seq(D), NEW v \in Seq(Seq(D)), NEW w \in Seq(D)
      PROVE  JoinFrom(g, Append(v, w)) = Join(JoinFrom(g, v), w)
  <2>1. g \in Seq(C \cup {Sep}) /\ v \in Seq(Seq(C \cup {Sep})) /\ w \in Seq(C \cup {Sep})
    OBVIOUS
  <2> QED BY ONLY <2>1, JoinAppend, ZenonT(40)
<1>1. <<>> \in P
  <2>1. JoinFrom(h, <<>>) = h /\ JoinFrom(<<>>, <<>>) = <<>>
    BY ONLY <1>h, JoinEmpty, Zenon
  <2>2. Cat(h, <<>>) = h
    BY ConcatEmptySeq DEF Cat
  <2> QED BY <1>h, <2>1, <2>2
<1>2. ASSUME NEW u \in P, NEW w \in Seq(D) PROVE Append(u, w) \in P
  <2> DEFINE J == JoinFrom(<<>>, u)
  <2>1. u \in Seq(Seq(D)) /\ JoinFrom(h, u) = Cat(h, J) /\ Begins(u) /\ Append(u, w) \in Seq(Seq(D))
    <3> HIDE DEF D
    <3> QED BY AppendProperties
  <2>w. w \in Seq(D) /\ u \in Seq(Seq(D))
    OBVIOUS
  <2>2. J \in Seq(D) /\ JoinFrom(<<>>, Append(u, w)) = Join(J, w)
    <3>0. <<>> \in Seq(D) /\ u \in Seq(Seq(D)) /\ w \in Seq(D)
      BY ONLY <1>h, <2>w
    <3>1. J \in Seq(D)
      BY ONLY <3>0, JoinTypes, Zenon
    <3>2. JoinFrom(<<>>, Append(u, w)) = Join(J, w)
      BY ONLY <3>0, <1>j
    <3> QED BY <3>1, <3>2
  <2>3. JoinFrom(h, Append(u, w)) = Join(Cat(h, J), w)
    <3>0. h \in Seq(D) /\ u \in Seq(Seq(D)) /\ w \in Seq(D)
      BY ONLY <1>h, <2>w
    <3>1. JoinFrom(h, Append(u, w)) = Join(JoinFrom(h, u), w)
      BY ONLY <3>0, <1>j
    <3> QED BY <2>1, <3>1
  <2>e. u = <<>> => J = <<>>
    BY ONLY <1>h, JoinEmpty, Zenon
  <2>b. u # <<>> => J # <<>> /\ J[1] = Sep
    BY <2>1
  <2> HIDE DEF J, D
  <2>4. Join(Cat(h, J), w) = Cat(h, Join(J, w))
    <3>1. Sep \in D /\ h \in Seq(D) /\ J \in Seq(D) /\ w \in Seq(D)
      BY ONLY <1>h, <2>2, <2>w
    <3> QED BY ONLY <3>1, JoinConcat
  <2>5. Join(J, w) # <<>> /\ Join(J, w)[1] = Sep
    <3>1. CASE u = <<>>
      BY <2>e, <3>1, <1>h DEF Join
    <3>2. CASE u # <<>>
      BY <2>b, <2>2, <3>2, <1>h DEF Join
    <3> QED BY <3>1, <3>2
  <2> QED BY <2>1, <2>2, <2>3, <2>4, <2>5
<1>3. P = Seq(Seq(D))
  <2> HIDE DEF P, D
  <2>1. P \in SUBSET Seq(Seq(D))
    BY DEF P
  <2> QED BY <1>1, <1>2, <2>1, SeqInduction, Zenon
<1>4. t \in P
  BY <1>3, <1>h
<1>5. JoinFrom(<<>>, t) \in Seq(D)
  BY ONLY <1>h, JoinTypes, Zenon
<1> QED BY <1>4, <1>5

-------------------------------------------------------------------------------
(* rebaseArchivePath *)

(* The first of two paths that a separator divides is replaced.             *)
LEMMA RebaseConcat ==
  ASSUME NEW D, NEW h \in Seq(D), NEW u \in Seq(D), ~Has(h, Sep), u # <<>>, u[1] = Sep,
         NEW root, root # <<>>
  PROVE  RebaseArchivePath(Cat(h, u), root) = Cat(root, u)
<1>1. PICK p \in Seq(D) : p = h \o u
  BY ConcatProperties, Zenon
<1>2. /\ Len(p) = Len(h) + Len(u) /\ Len(h) \in Nat /\ Len(u) \in Nat /\ Len(u) >= 1
      /\ \A i \in 1..Len(p) : p[i] = IF i <= Len(h) THEN h[i] ELSE u[i - Len(h)]
  <2>1. Len(u) \in Nat /\ Len(u) >= 1 /\ Len(h) \in Nat
    OBVIOUS
  <2>2. Len(p) = Len(h) + Len(u)
    BY <1>1, ConcatProperties
  <2>3. \A i \in 1..Len(p) : p[i] = IF i <= Len(h) THEN h[i] ELSE u[i - Len(h)]
    BY <1>1, <2>2, ConcatProperties
  <2> QED BY <2>1, <2>2, <2>3
<1> DEFINE seps == {i \in 1..Len(p) : p[i] = Sep}
           n == Len(h) + 1
<1>3. n \in seps /\ n \in Nat
  <2>1. n \in 1..Len(p) /\ ~(n <= Len(h)) /\ n - Len(h) = 1
    BY <1>2
  <2> QED BY <1>2, <2>1
<1>4. \A k \in seps : n <= k /\ k \in Nat
  <2> SUFFICES ASSUME NEW k \in 1..Len(p), p[k] = Sep, k <= Len(h) PROVE FALSE
    BY <1>2
  <2>1. k \in 1..Len(h) /\ h[k] = Sep
    BY <1>2
  <2> QED BY <2>1 DEF Has
<1> HIDE DEF n
<1>5. (CHOOSE i \in seps : \A k \in seps : i <= k) = n
  <2> HIDE DEF seps
  <2>1. \A i \in seps : (\A k \in seps : i <= k) => i = n
    BY <1>3, <1>4
  <2> QED BY <1>3, <1>4, <2>1, Zenon
<1>6. SubSeq(p, n, Len(p)) = u
  <2>1. \A i \in n..Len(p) : p[i] \in D
    BY <1>1, <1>2 DEF n
  <2>2. Len(p) \in Nat /\ n <= Len(p) /\ Len(p) - n + 1 = Len(u)
    BY <1>2 DEF n
  <2>3. /\ SubSeq(p, n, Len(p)) \in Seq(D) /\ Len(SubSeq(p, n, Len(p))) = Len(u)
        /\ \A i \in 1..Len(u) : SubSeq(p, n, Len(p))[i] = p[n + i - 1]
    BY <1>3, <2>1, <2>2, SubSeqProperties
  <2>4. \A i \in 1..Len(u) : p[n + i - 1] = u[i]
    <3> SUFFICES ASSUME NEW i \in 1..Len(u) PROVE p[n + i - 1] = u[i]
      OBVIOUS
    <3>1. PICK j : j = n + i - 1
      OBVIOUS
    <3>2. j \in 1..Len(p) /\ ~(j <= Len(h)) /\ j - Len(h) = i
      BY <1>2, <3>1 DEF n
    <3> QED BY <1>2, <3>1, <3>2
  <2> QED BY <2>3, <2>4, SeqEqual, Zenon
<1>7. RebaseArchivePath(p, root) = root \o SubSeq(p, n, Len(p))
  BY <1>3, <1>5, Zenon DEF RebaseArchivePath
<1> QED BY <1>1, <1>6, <1>7 DEF Cat

(* Rebasing joined names replaces the first of them.                        *)
LEMMA RebaseJoined ==
  ASSUME NEW C, Sep \notin C, NEW h \in Seq(C), NEW t \in Seq(Seq(C)), t # <<>>,
         NEW root \in Seq(C), root # <<>>
  PROVE  RebaseArchivePath(JoinFrom(h, t), root) = JoinFrom(root, t)
<1> DEFINE u == JoinFrom(<<>>, t)
<1>1. PICK D : D = C \cup {Sep}
  BY Zenon
<1>2. h \in Seq(D) /\ root \in Seq(D) /\ Seq(C) \subseteq Seq(D)
  BY <1>1, SeqMonotonic
<1>3. t \in Seq(Seq(D))
  BY <1>2, SeqMonotonic
<1>4. /\ JoinFrom(h, t) = Cat(h, u) /\ JoinFrom(root, t) = Cat(root, u)
      /\ u \in Seq(D) /\ u # <<>> /\ u[1] = Sep
  BY ONLY <1>1, <1>2, <1>3, t # <<>>, JoinTail, Zenon
<1>5. ~Has(h, Sep)
  BY DEF Has
<1> QED BY ONLY <1>2, <1>4, <1>5, root # <<>>, RebaseConcat

(* A rebased path is a path.                                                *)
LEMMA RebaseTypes ==
  ASSUME NEW p \in Seq(Nat), NEW root \in Seq(Nat)
  PROVE  RebaseArchivePath(p, root) \in Seq(Nat)
<1> DEFINE seps == {i \in 1..Len(p) : p[i] = Sep}
           first == CHOOSE i \in seps : \A k \in seps : i <= k
<1>1. CASE seps = {} \/ root = <<>>
  BY <1>1 DEF RebaseArchivePath
<1>2. CASE seps # {} /\ root # <<>>
  <2>1. \E i \in seps : \A k \in seps : i <= k
    <3>1. seps \in SUBSET Nat
      OBVIOUS
    <3> QED BY <1>2, <3>1, Least, Zenon
  <2>2. first \in seps
    BY <2>1, Zenon
  <2>3. RebaseArchivePath(p, root) = root \o SubSeq(p, first, Len(p))
    BY <1>2, Zenon DEF RebaseArchivePath
  <2> HIDE DEF first
  <2>4. SubSeq(p, first, Len(p)) \in Seq(Nat)
    BY <2>2
  <2> QED BY <2>3, <2>4, ConcatProperties
<1> QED BY <1>1, <1>2

-------------------------------------------------------------------------------
(* Plain names *)

PlainChar == Nat \ {Nul, Sep, Backslash}
PlainName == {s \in Seq(PlainChar) : s \notin {<<>>, <<Dot>>, DotDot}}

(* Which names are plain.                                                   *)
LEMMA PlainMeans ==
  ASSUME NEW s \in Seq(Nat)
  PROVE  s \in Seq(PlainChar) <=> ~Has(s, Nul) /\ ~Has(s, Sep) /\ ~Has(s, Backslash)
<1>1. ASSUME s \in Seq(PlainChar) PROVE ~Has(s, Nul) /\ ~Has(s, Sep) /\ ~Has(s, Backslash)
  BY <1>1 DEF Has, PlainChar
<1>2. ASSUME ~Has(s, Nul), ~Has(s, Sep), ~Has(s, Backslash) PROVE s \in Seq(PlainChar)
  <2>1. \A i \in 1..Len(s) : s[i] \in PlainChar
    BY <1>2 DEF Has, PlainChar
  <2>2. Len(s) \in Nat /\ s = [i \in 1..Len(s) |-> s[i]]
    OBVIOUS
  <2> QED BY <2>1, <2>2
<1> QED BY <1>1, <1>2

(* path.Clean leaves plain names alone.                                     *)
LEMMA ResolvePlain ==
  ASSUME NEW segs \in Seq(PlainName)
  PROVE  ResolveAll(segs) = segs
<1> DEFINE P == {s \in Seq(PlainName) : ResolveAll(s) = s}
<1>0. PlainName \subseteq Seq(PlainChar)
  BY DEF PlainName
<1>1. <<>> \in P
  BY ResolveEmpty
<1>2. ASSUME NEW s \in P, NEW x \in PlainName PROVE Append(s, x) \in P
  <2>1. s \in Seq(PlainName) /\ ResolveAll(s) = s /\ Append(s, x) \in Seq(PlainName)
    BY AppendProperties
  <2>2. s \in Seq(Seq(PlainChar)) /\ x \in Seq(PlainChar)
    BY <1>0, <2>1, SeqMonotonic
  <2>3. ResolveAll(Append(s, x)) = Resolve(s, x)
    BY <2>1, <2>2, ResolveLaws
  <2>4. Resolve(s, x) = Append(s, x)
    BY DEF Resolve, PlainName
  <2> QED BY <2>1, <2>3, <2>4
<1>3. P = Seq(PlainName)
  <2> HIDE DEF P
  <2>1. P \in SUBSET Seq(PlainName)
    BY DEF P
  <2> QED BY <1>1, <1>2, <2>1, SeqInduction, Zenon
<1> QED BY <1>3

-------------------------------------------------------------------------------
(* strings.TrimSpace and validateArchiveName *)

(* Every nonempty set of indices of a sequence has a last element.          *)
LEMMA Greatest ==
  ASSUME NEW n \in Nat, NEW T \in SUBSET (1..n), T # {}
  PROVE  \E x \in T : \A y \in T : x >= y
<1> DEFINE U == {n - y : y \in T}
<1>1. U \in SUBSET Nat /\ U # {}
  <2>1. \A y \in T : n - y \in Nat
    OBVIOUS
  <2> QED BY <2>1, Zenon
<1>2. PICK z \in U : \A y \in U : z <= y
  BY <1>1, Least, Zenon
<1>3. PICK x \in T : z = n - x
  OBVIOUS
<1>4. ASSUME NEW y \in T PROVE x >= y
  <2>1. n - y \in U
    OBVIOUS
  <2>2. n - x <= n - y
    BY <1>2, <1>3, <2>1
  <2> QED BY <2>2
<1> QED BY <1>4

(* A sequence that neither begins nor ends with a space stays as it is.     *)
LEMMA TrimmedStays ==
  ASSUME NEW s \in Seq(Nat), s # <<>>, s[1] # Space, s[Len(s)] # Space
  PROVE  TrimSpace(s) = s
<1> DEFINE inner == {i \in 1..Len(s) : s[i] # Space}
           n == Len(s)
<1>1. n \in Nat /\ n >= 1 /\ 1 \in inner /\ n \in inner
  OBVIOUS
<1>2. \A k \in inner : k \in Nat /\ 1 <= k /\ k <= n
  BY <1>1
<1>3. TrimSpace(s) = SubSeq(s, CHOOSE i \in inner : \A k \in inner : i <= k,
                               CHOOSE i \in inner : \A k \in inner : i >= k)
  BY <1>1, Zenon DEF TrimSpace
<1>4. (CHOOSE i \in inner : \A k \in inner : i <= k) = 1
  <2> HIDE DEF inner, n
  <2>1. \A i \in inner : (\A k \in inner : i <= k) => i = 1
    BY <1>1, <1>2
  <2> QED BY <1>1, <1>2, <2>1, Zenon
<1>5. (CHOOSE i \in inner : \A k \in inner : i >= k) = n
  <2> HIDE DEF inner, n
  <2>1. \A i \in inner : (\A k \in inner : i >= k) => i = n
    BY <1>1, <1>2
  <2>2. \A k \in inner : n >= k
    BY <1>1, <1>2
  <2> QED BY <1>1, <2>1, <2>2, Zenon
<1>6. SubSeq(s, 1, n) = s
  BY SubSeqFull
<1> QED BY <1>3, <1>4, <1>5, <1>6

(* What is left is part of the sequence, and is empty or neither begins nor *)
(* ends with a space.                                                       *)
LEMMA TrimLaws ==
  ASSUME NEW D \in SUBSET Nat, NEW s \in Seq(D)
  PROVE  /\ TrimSpace(s) \in Seq(D)
         /\ TrimSpace(TrimSpace(s)) = TrimSpace(s)
<1> DEFINE inner == {i \in 1..Len(s) : s[i] # Space}
           i1 == CHOOSE i \in inner : \A k \in inner : i <= k
           i2 == CHOOSE i \in inner : \A k \in inner : i >= k
<1>0. Len(s) \in Nat /\ inner \in SUBSET (1..Len(s)) /\ inner \in SUBSET Nat
  OBVIOUS
<1>1. CASE inner = {}
  <2>1. TrimSpace(s) = <<>>
    BY <1>1 DEF TrimSpace
  <2>2. TrimSpace(<<>>) = <<>>
    BY DEF TrimSpace
  <2> QED BY <2>1, <2>2
<1>2. CASE inner # {}
  <2>1. i1 \in inner /\ \A k \in inner : i1 <= k
    <3>1. \E i \in inner : \A k \in inner : i <= k
      BY <1>0, <1>2, Least, Zenon
    <3> QED BY <3>1
  <2>2. i2 \in inner
    <3>1. \E i \in inner : \A k \in inner : i >= k
      BY <1>0, <1>2, Greatest, Zenon
    <3> QED BY <3>1, Zenon
  <2>3. TrimSpace(s) = SubSeq(s, i1, i2)
    BY <1>2, Zenon DEF TrimSpace
  <2> HIDE DEF i1, i2
  <2>4. i1 \in 1..Len(s) /\ i2 \in 1..Len(s) /\ i1 <= i2 /\ s[i1] # Space /\ s[i2] # Space
    BY <2>1, <2>2
  <2> DEFINE t == SubSeq(s, i1, i2)
  <2>5. /\ t \in Seq(D) /\ Len(t) = i2 - i1 + 1
        /\ \A i \in 1..(i2 - i1 + 1) : t[i] = s[i1 + i - 1]
    <3>1. \A i \in i1..i2 : s[i] \in D
      BY <2>4
    <3> QED BY <2>4, <3>1, SubSeqProperties
  <2> HIDE DEF t
  <2>6. t # <<>> /\ t[1] # Space /\ t[Len(t)] # Space
    <3>1. Len(t) \in Nat /\ Len(t) >= 1 /\ i1 + 1 - 1 = i1 /\ i1 + Len(t) - 1 = i2
      BY <2>4, <2>5
    <3>2. t[1] = s[i1] /\ t[Len(t)] = s[i2]
      BY <2>4, <2>5, <3>1
    <3> QED BY <2>4, <3>1, <3>2
  <2>7. t \in Seq(Nat)
    BY <2>5, SeqMonotonic, Zenon
  <2>8. TrimSpace(t) = t
    BY <2>6, <2>7, TrimmedStays
  <2> QED BY <2>3, <2>5, <2>8 DEF t
<1> QED BY <1>1, <1>2

(* A name that is accepted is plain and would be accepted again.            *)
LEMMA ValidatedTwice ==
  ASSUME NEW s \in Seq(Nat), NEW v, ValidateArchiveName(s).ok, v = ValidateArchiveName(s).value
  PROVE  v \in Seq(Nat) /\ ValidateArchiveName(v) = Ok(v)
<1> DEFINE t == TrimSpace(s)
<1>1. t \in Seq(Nat) /\ TrimSpace(t) = t
  BY TrimLaws
<1> DEFINE good == /\ t # <<>> /\ Len(t) <= MaxName
                   /\ ~Has(t, Sep) /\ ~Has(t, Backslash) /\ ~Has(t, Nul)
                   /\ t \notin {<<Dot>>, DotDot}
<1>2. ValidateArchiveName(s) = IF good THEN Ok(t) ELSE Error
  BY DEF ValidateArchiveName
<1>3. ValidateArchiveName(t) = IF good THEN Ok(t) ELSE Error
  BY <1>1 DEF ValidateArchiveName
<1> HIDE DEF good, t
<1>4. good
  BY <1>2 DEF Error
<1>5. v = t
  BY <1>2, <1>4 DEF Ok
<1> QED BY <1>1, <1>3, <1>4, <1>5

(* What acceptance means.                                                   *)
LEMMA ValidMeans ==
  ASSUME NEW s \in Seq(Nat), ValidateArchiveName(s) = Ok(s)
  PROVE  TrimSpace(s) = s /\ s \in PlainName
<1> DEFINE t == TrimSpace(s)
           good == /\ t # <<>> /\ Len(t) <= MaxName
                   /\ ~Has(t, Sep) /\ ~Has(t, Backslash) /\ ~Has(t, Nul)
                   /\ t \notin {<<Dot>>, DotDot}
<1>1. ValidateArchiveName(s) = IF good THEN Ok(t) ELSE Error
  BY DEF ValidateArchiveName
<1>2. good => ~Has(t, Sep) /\ ~Has(t, Backslash) /\ ~Has(t, Nul) /\ t \notin {<<>>, <<Dot>>, DotDot}
  OBVIOUS
<1> HIDE DEF good, t
<1>3. good
  <2>1. Ok(s).ok /\ ~Error.ok
    BY DEF Ok, Error
  <2> QED BY <1>1, <2>1
<1>4. t = s
  <2>1. Ok(t).value = t /\ Ok(s).value = s
    BY DEF Ok
  <2> QED BY <1>1, <1>3, <2>1
<1>5. s \in Seq(PlainChar)
  BY <1>2, <1>3, <1>4, PlainMeans
<1> QED BY <1>2, <1>3, <1>4, <1>5 DEF t, PlainName

(* The directory in the archive is nothing or a plain name.                 *)
LEMMA RootDirPlain ==
  ASSUME NEW s \in Seq(Nat), ValidateArchiveName(s) = Ok(s)
  PROVE  /\ ArchiveRootDir(s) \in Seq(PlainChar)
         /\ ArchiveRootDir(s) # <<>> => ArchiveRootDir(s) \in PlainName
<1>1. TrimSpace(s) = s /\ s \in Seq(PlainChar)
  BY ValidMeans DEF PlainName
<1> DEFINE cut == SubSeq(s, 1, Len(s) - 2)
           stem == IF IsSuffix(<<Dot, Ext>>, s) THEN TrimSpace(cut) ELSE s
<1>2. cut \in Seq(PlainChar)
  <2>1. Len(s) \in Nat /\ 1 \in Int /\ Len(s) - 2 \in Int
    OBVIOUS
  <2>2. \A i \in 1..(Len(s) - 2) : s[i] \in PlainChar
    BY <1>1, <2>1
  <2> QED BY <2>1, <2>2, SubSeqProperties
<1>3. stem \in Seq(PlainChar)
  <2> HIDE DEF cut
  <2>1. PlainChar \in SUBSET Nat
    BY DEF PlainChar
  <2>2. TrimSpace(cut) \in Seq(PlainChar)
    BY <1>2, <2>1, TrimLaws
  <2> QED BY <1>1, <2>2
<1>4. ArchiveRootDir(s) = IF stem \in {<<Dot>>, DotDot} THEN <<>> ELSE stem
  BY <1>1 DEF ArchiveRootDir
<1> HIDE DEF stem
<1> QED BY <1>3, <1>4 DEF PlainName

-------------------------------------------------------------------------------
(* sanitizeArchivePath *)

(* The normalized path has no backslash and the length of the path.         *)
LEMMA NormalizeLaws ==
  ASSUME NEW p \in Seq(Nat)
  PROVE  Normalize(p) \in Seq(Nat) /\ Len(Normalize(p)) = Len(p) /\ ~Has(Normalize(p), Backslash)
<1>1. Sep \in Nat /\ Sep # Backslash
  BY DEF Sep, Backslash
<1>2. Len(p) \in Nat /\ \A i \in 1..Len(p) : Normalize(p)[i] \in Nat /\ Normalize(p)[i] # Backslash
  BY <1>1 DEF Normalize
<1>3. Normalize(p) \in Seq(Nat) /\ Len(Normalize(p)) = Len(p)
  BY <1>1, <1>2 DEF Normalize
<1> QED BY <1>2, <1>3 DEF Has

(* An accepted path is cleaned, and every segment of it is plain.           *)
LEMMA SanitizedPlain ==
  ASSUME NEW p \in Seq(Nat), SanitizeArchivePath(p).ok
  PROVE  /\ SanitizeArchivePath(p) = Ok(Clean(Normalize(p)))
         /\ Clean(Normalize(p)) \in Seq(PlainName) /\ Clean(Normalize(p)) # <<>>
         /\ Normalize(p) \in Seq(Nat) /\ ~DriveLetter(Normalize(p))
<1> DEFINE q == Normalize(p)
           c == Clean(q)
           bad == \/ p = <<>>
                  \/ Has(q, Nul)
                  \/ DriveLetter(q)
                  \/ q[1] = Sep
                  \/ c = <<>>
                  \/ \E i \in 1..Len(c) : c[i] \in {<<>>, <<Dot>>, DotDot}
<1>1. SanitizeArchivePath(p) = IF bad THEN Error ELSE Ok(c)
  BY DEF SanitizeArchivePath
<1>2. ~bad => ~Has(q, Nul) /\ ~DriveLetter(q) /\ c # <<>> /\ \A i \in 1..Len(c) : c[i] \notin {<<>>, <<Dot>>, DotDot}
  OBVIOUS
<1>3. q \in Seq(Nat) /\ ~Has(q, Backslash)
  BY NormalizeLaws
<1> HIDE DEF bad, q
<1>4. ~bad
  BY <1>1 DEF Error
<1>5. q \in Seq(PlainChar \cup {Sep})
  <2>1. \A i \in 1..Len(q) : q[i] \in PlainChar \cup {Sep}
    BY <1>2, <1>3, <1>4 DEF Has, PlainChar
  <2>2. Len(q) \in Nat /\ q = [i \in 1..Len(q) |-> q[i]]
    BY <1>3
  <2> QED BY <2>1, <2>2
<1>6. c \in Seq(Seq(PlainChar))
  BY <1>5, SplitLaws, ResolveLaws DEF Clean
<1> HIDE DEF c
<1>7. c \in Seq(PlainName)
  <2>1. \A i \in 1..Len(c) : c[i] \in PlainName
    BY <1>2, <1>4, <1>6 DEF PlainName
  <2>2. Len(c) \in Nat /\ c = [i \in 1..Len(c) |-> c[i]]
    BY <1>6
  <2> QED BY <2>1, <2>2
<1> QED BY <1>1, <1>2, <1>3, <1>4, <1>7 DEF c, q

(* Plain names that are joined are the segments of the entry, unless the    *)
(* second character of the first is a colon.                                *)
LEMMA SanitizeJoined ==
  ASSUME NEW r \in PlainName, NEW t \in Seq(PlainName), t # <<>>,
         ~DriveLetter(r)
  PROVE  SanitizeArchivePath(JoinFrom(r, t)) = Ok(<<r>> \o t)
<1> DEFINE p == JoinFrom(r, t)
           u == JoinFrom(<<>>, t)
           c == <<r>> \o t
<1>1. PICK D : D = PlainChar \cup {Sep}
  BY Zenon
<1>2. r \in Seq(PlainChar) /\ PlainName \subseteq Seq(PlainChar) /\ Seq(PlainChar) \subseteq Seq(D)
  BY <1>1, SeqMonotonic DEF PlainName
<1>3. t \in Seq(Seq(PlainChar)) /\ t \in Seq(Seq(D)) /\ r \in Seq(D)
  <2>1. t \in Seq(Seq(PlainChar))
    BY <1>2, SeqMonotonic
  <2> QED BY <1>2, <2>1, SeqMonotonic
<1>4. p \in Seq(D) /\ p = Cat(r, u) /\ u \in Seq(D) /\ u # <<>> /\ u[1] = Sep
  BY ONLY <1>1, <1>3, t # <<>>, JoinTail, JoinTypes, Zenon
<1>5. Sep \notin PlainChar
  BY DEF PlainChar
<1>6. Split(p) = c
  BY ONLY <1>2, <1>3, <1>5, SplitJoined
<1> HIDE DEF p, u
<1>7. c \in Seq(PlainName) /\ c # <<>>
  <2>1. <<r>> \in Seq(PlainName) /\ Len(<<r>>) = 1
    OBVIOUS
  <2>2. c \in Seq(PlainName) /\ Len(c) = 1 + Len(t) /\ Len(t) \in Nat
    BY <2>1, ConcatProperties
  <2> QED BY <2>2
<1> HIDE DEF c
<1>8. Clean(p) = c
  BY <1>6, <1>7, ResolvePlain DEF Clean
<1>9. D \in SUBSET Nat /\ Backslash \notin D /\ Nul \notin D
  BY <1>1 DEF PlainChar, Sep, Backslash, Nul
<1>10. Normalize(p) = p
  BY <1>4, <1>9 DEF Normalize
<1>11. ~Has(p, Nul)
  BY <1>4, <1>9 DEF Has
<1>12. /\ Len(r) \in Nat /\ Len(r) >= 1 /\ Len(u) \in Nat /\ Len(u) >= 1
       /\ p \in Seq(D) /\ Len(p) = Len(r) + Len(u)
       /\ \A i \in 1..Len(p) : p[i] = IF i <= Len(r) THEN r[i] ELSE u[i - Len(r)]
  <2>1. Len(r) \in Nat /\ Len(r) >= 1 /\ Len(u) \in Nat /\ Len(u) >= 1
    BY <1>2, <1>4 DEF PlainName
  <2>2. Len(r \o u) = Len(r) + Len(u)
        /\ \A i \in 1..(Len(r) + Len(u)) : (r \o u)[i] = IF i <= Len(r) THEN r[i] ELSE u[i - Len(r)]
    BY <1>3, <1>4, ConcatProperties
  <2>3. p = r \o u
    BY <1>4 DEF Cat
  <2>4. Len(p) = Len(r) + Len(u)
    BY ONLY <2>2, <2>3
  <2>5. \A i \in 1..Len(p) : p[i] = IF i <= Len(r) THEN r[i] ELSE u[i - Len(r)]
    BY ONLY <2>2, <2>3, <2>4
  <2> QED BY ONLY <1>4, <2>1, <2>4, <2>5
<1>13. p # <<>> /\ p[1] # Sep
  <2>1. p[1] = r[1] /\ r[1] \in PlainChar
    BY <1>2, <1>12
  <2> QED BY <1>5, <1>12, <2>1
<1>14. ~DriveLetter(p)
  <2>1. CASE Len(r) >= 2
    BY <1>12, <2>1 DEF DriveLetter
  <2>2. CASE Len(r) = 1
    BY <1>4, <1>12, <2>2 DEF DriveLetter, Sep, Colon
  <2>3. Len(r) = 1 \/ Len(r) >= 2
    <3>1. PICK n \in Nat : n = Len(r) /\ n >= 1
      BY ONLY <1>12
    <3>2. n = 1 \/ n >= 2
      BY ONLY <3>1
    <3> QED BY ONLY <3>1, <3>2
  <2> QED BY ONLY <2>1, <2>2, <2>3
<1>15. \A i \in 1..Len(c) : c[i] \notin {<<>>, <<Dot>>, DotDot}
  BY <1>7 DEF PlainName
<1>16. SanitizeArchivePath(p) = Ok(c)
  BY <1>7, <1>8, <1>10, <1>11, <1>13, <1>14, <1>15 DEF SanitizeArchivePath
<1> QED BY <1>16 DEF p, c

-------------------------------------------------------------------------------
(* The request *)

(* The names on the way to a file are joined to a path.                     *)
LEMMA JoinedTypes ==
  ASSUME NEW s \in Seq(Seq(Nat)), s # <<>>
  PROVE  Joined(s) = JoinFrom(Head(s), Tail(s)) /\ Joined(s) \in Seq(Nat)
<1>1. Head(s) \in Seq(Nat) /\ Tail(s) \in Seq(Seq(Nat))
  BY HeadTailProperties
<1>2. Nat \cup {Sep} = Nat
  BY DEF Sep
<1>3. JoinFrom(Head(s), Tail(s)) \in Seq(Nat)
  BY <1>1, <1>2, JoinTypes, Zenon
<1> QED BY <1>3 DEF Joined, JoinFrom

(* A request that is refused keeps the invariant.                           *)
LEMMA RefuseKeeps ==
  ASSUME RequestInv, NEW c \in {400, 401, 404, 500, 503}, Refuse(c),
         pc \in {"auth", "decode", "check", "verify", "queue"}
  PROVE  RequestInv'
BY DEF RequestInv, TypeOK, Refuse, job

(* A request that goes on keeps the invariant.                              *)
LEMMA GoOnKeeps ==
  ASSUME RequestInv, NEW next, GoOn(next),
         \/ pc = "auth" /\ next = "decode"
         \/ pc = "decode" /\ next = "check"
         \/ pc = "verify" /\ next = "queue"
  PROVE  RequestInv'
BY DEF RequestInv, TypeOK, GoOn, job

(* The invariant holds when a request comes in.                             *)
LEMMA RequestInit == Init => RequestInv
BY RequestsAssumption DEF Init, RequestInv, TypeOK

(* Every step keeps it.                                                     *)
LEMMA RequestNext == RequestInv /\ [Next]_vars => RequestInv'
<1> SUFFICES ASSUME RequestInv, [Next]_vars PROVE RequestInv'
  OBVIOUS
<1>1. CASE RequireAPIToken
  BY <1>1, RefuseKeeps, GoOnKeeps DEF RequireAPIToken
<1>2. CASE Decode
  BY <1>2, RefuseKeeps, GoOnKeeps DEF Decode
<1>3. CASE CheckRequest
  <2>1. CASE Refuse(503) \/ Refuse(400)
    BY <1>3, <2>1, RefuseKeeps DEF CheckRequest
  <2>2. CASE /\ ValidateArchiveName(name).ok
             /\ pc' = "verify" /\ name' = ValidateArchiveName(name).value /\ UNCHANGED <<code, job>>
    <3>1. name \in Seq(Nat) /\ pc = "check"
      BY <1>3 DEF RequestInv, TypeOK, CheckRequest
    <3>2. name' \in Seq(Nat) /\ ValidateArchiveName(name') = Ok(name')
      BY <2>2, <3>1, ValidatedTwice
    <3> QED BY <2>2, <3>1, <3>2 DEF RequestInv, TypeOK, job
  <2> QED BY <1>3, <2>1, <2>2 DEF CheckRequest
<1>4. CASE VerifyFolder
  BY <1>4, RefuseKeeps, GoOnKeeps DEF VerifyFolder
<1>5. CASE QueueJob
  <2>1. CASE Refuse(503)
    BY <1>5, <2>1, RefuseKeeps DEF QueueJob
  <2>2. CASE pc' = "manifest" /\ code' = 202 /\ UNCHANGED <<name, job>>
    BY <1>5, <2>2 DEF QueueJob, RequestInv, TypeOK, job
  <2> QED BY <1>5, <2>1, <2>2 DEF QueueJob
<1>6. CASE RebaseFile
  <2>1. pc = "manifest" /\ pc' = "sanitize" /\ UNCHANGED <<code, name, entry>>
        /\ path' = RebaseArchivePath(Joined(stored'), ArchiveRootDir(name))
    BY <1>6 DEF RebaseFile
  <2>2. PICK n \in 2..MaxDepth : stored' \in [1..n -> StoredNames]
    BY <1>6 DEF RebaseFile
  <2>3. /\ stored' \in Seq(Seq(Nat)) /\ stored' # <<>> /\ Len(stored') = n
        /\ \A i \in 1..n : stored'[i] \in StoredNames
    BY <2>2, RequestsAssumption
  <2>4. name \in Seq(Nat) /\ ValidateArchiveName(name) = Ok(name)
    BY <2>1 DEF RequestInv, TypeOK
  <2>5. ArchiveRootDir(name) \in Seq(Nat)
    <3>1. PlainChar \subseteq Nat
      BY DEF PlainChar
    <3> QED BY <2>4, <3>1, RootDirPlain, SeqMonotonic, Zenon
  <2>6. path' \in Seq(Nat)
    BY <2>1, <2>3, <2>5, JoinedTypes, RebaseTypes
  <2> QED BY <2>1, <2>2, <2>3, <2>6 DEF RequestInv, TypeOK
<1>7. CASE SanitizeFile
  <2>1. pc = "sanitize" /\ UNCHANGED <<code, name, stored, path>> /\ path \in Seq(Nat)
    BY <1>7 DEF SanitizeFile, RequestInv, TypeOK
  <2>2. CASE SanitizeArchivePath(path).ok
    <3>1. pc' = "written" /\ entry' = SanitizeArchivePath(path).value
      BY <1>7, <2>2 DEF SanitizeFile
    <3>2. /\ SanitizeArchivePath(path) = Ok(Clean(Normalize(path)))
          /\ Clean(Normalize(path)) \in Seq(PlainName)
      BY <2>1, <2>2, SanitizedPlain
    <3>3. entry' = Clean(Normalize(path)) /\ SanitizeArchivePath(path) = Ok(entry')
      BY <3>1, <3>2 DEF Ok
    <3>4. PlainName \subseteq Seq(Nat)
      BY SeqMonotonic DEF PlainName, PlainChar
    <3>5. entry' \in Seq(Seq(Nat))
      BY <3>2, <3>3, <3>4, SeqMonotonic
    <3> QED BY <2>1, <3>1, <3>3, <3>5 DEF RequestInv, TypeOK
  <2>3. CASE ~SanitizeArchivePath(path).ok
    <3>1. pc' = "failed" /\ UNCHANGED entry
      BY <1>7, <2>3 DEF SanitizeFile
    <3> QED BY <2>1, <2>3, <3>1 DEF RequestInv, TypeOK
  <2> QED BY <2>2, <2>3
<1>8. CASE UNCHANGED vars
  BY <1>8 DEF vars, job, RequestInv, TypeOK
<1> QED BY <1>1, <1>2, <1>3, <1>4, <1>5, <1>6, <1>7, <1>8 DEF Next

(* Whatever names requests carry and the database holds, a request past its *)
(* checks has a name that validateArchiveName leaves as it is, and its path *)
(* and entry are what the functions make of that name and the stored ones.  *)
THEOREM RequestInvariant == Spec => []RequestInv
<1> QED BY RequestInit, RequestNext, PTL DEF Spec

(* No entry leaves the archive or holds a separator or a NUL, for names of  *)
(* any length over all characters, and none begins with a drive letter that *)
(* was not brought to the front by cleaning (zip.go sanitizeArchivePath).   *)
THEOREM EntriesInsideAlways == Spec => []EntriesInside
<1>1. RequestInv => EntriesInside
  <2> SUFFICES ASSUME RequestInv, pc = "written"
               PROVE  /\ entry # <<>>
                      /\ \A i \in 1..Len(entry) :
                           /\ entry[i] \notin {<<>>, <<Dot>>, DotDot}
                           /\ ~Has(entry[i], Sep) /\ ~Has(entry[i], Backslash) /\ ~Has(entry[i], Nul)
                      /\ DriveLetter(Head(entry)) => Head(entry) # Head(Split(Normalize(path)))
    BY DEF EntriesInside
  <2>1. path \in Seq(Nat) /\ SanitizeArchivePath(path) = Ok(entry)
    BY DEF RequestInv, TypeOK
  <2>2. Ok(entry).ok /\ Ok(entry).value = entry
    BY DEF Ok
  <2>3. SanitizeArchivePath(path).ok
    BY ONLY <2>1, <2>2
  <2>4. /\ SanitizeArchivePath(path) = Ok(Clean(Normalize(path)))
        /\ Clean(Normalize(path)) \in Seq(PlainName) /\ Clean(Normalize(path)) # <<>>
        /\ Normalize(path) \in Seq(Nat) /\ ~DriveLetter(Normalize(path))
    BY ONLY <2>1, <2>3, SanitizedPlain
  <2>5. entry \in Seq(PlainName) /\ entry # <<>>
    <3>1. Ok(Clean(Normalize(path))).value = Clean(Normalize(path))
      BY DEF Ok
    <3> QED BY ONLY <2>1, <2>2, <2>4, <3>1
  <2>6. ASSUME NEW i \in 1..Len(entry)
        PROVE  /\ entry[i] \notin {<<>>, <<Dot>>, DotDot}
               /\ ~Has(entry[i], Sep) /\ ~Has(entry[i], Backslash) /\ ~Has(entry[i], Nul)
    <3>1. PICK s : s = entry[i]
      OBVIOUS
    <3>2. s \in PlainName
      BY <2>5, <3>1
    <3>3. s \in Seq(PlainChar) /\ s \notin {<<>>, <<Dot>>, DotDot}
      BY ONLY <3>2 DEF PlainName
    <3>4. s \in Seq(Nat)
      BY ONLY <3>3, SeqMonotonic DEF PlainChar
    <3> QED BY ONLY <3>1, <3>3, <3>4, PlainMeans
  <2>7. ~DriveLetter(Head(Split(Normalize(path))))
    BY ONLY <2>4, SplitDriveLetter
  <2>8. DriveLetter(Head(entry)) => Head(entry) # Head(Split(Normalize(path)))
    BY ONLY <2>7, Zenon
  <2> QED BY ONLY <2>5, <2>6, <2>8
<1> QED BY <1>1, RequestInvariant, PTL

(* Plain names reach the archive as they are stored, under one directory    *)
(* named after the archive, at any depth: splitting undoes the joining of   *)
(* the query, and trimming, cutting, rebasing and cleaning change nothing   *)
(* else (archive.go archiveRootDir and rebaseArchivePath, zip.go).          *)
THEOREM EntryIsChosenPathAlways == Spec => []EntryIsChosenPath
<1>1. RequestInv => EntryIsChosenPath
  <2> SUFFICES ASSUME RequestInv, pc \in {"failed", "written"}, Plain,
                      ~DriveLetter(RootDir)
               PROVE  pc = "written" /\ entry = <<RootDir>> \o Tail(stored)
    BY DEF EntryIsChosenPath
  <2>1. /\ name \in Seq(Nat) /\ ValidateArchiveName(name) = Ok(name)
        /\ stored \in Seq(Seq(Nat)) /\ Len(stored) \in 2..MaxDepth
        /\ path = RebaseArchivePath(Joined(stored), ArchiveRootDir(name))
        /\ pc = "failed" => ~SanitizeArchivePath(path).ok
        /\ pc = "written" => SanitizeArchivePath(path) = Ok(entry)
    BY DEF RequestInv, TypeOK
  <2>2. stored \in Seq(PlainName)
    <3>1. ASSUME NEW i \in 1..Len(stored) PROVE stored[i] \in PlainName
      <4>1. PICK s \in Seq(Nat) : s = stored[i]
        BY <2>1
      <4>2. s \notin {<<>>, <<Dot>>, DotDot} /\ ~Has(s, Nul) /\ ~Has(s, Sep) /\ ~Has(s, Backslash)
        BY <4>1 DEF Plain
      <4>3. s \in Seq(PlainChar)
        BY <4>2, PlainMeans
      <4> QED BY <4>1, <4>2, <4>3 DEF PlainName
    <3>2. Len(stored) \in Nat /\ stored = [i \in 1..Len(stored) |-> stored[i]]
      BY <2>1
    <3> QED BY <3>1, <3>2
  <2>3. PICK h, t : h = Head(stored) /\ t = Tail(stored)
    BY Zenon
  <2>4. h \in PlainName /\ t \in Seq(PlainName) /\ t # <<>>
    <3>1. Len(stored) \in Nat /\ Len(stored) >= 2 /\ stored # <<>>
      BY <2>1
    <3>2. Len(t) = Len(stored) - 1 /\ h \in PlainName /\ t \in Seq(PlainName)
      BY ONLY <2>2, <2>3, <3>1, HeadTailProperties
    <3> QED BY <3>1, <3>2
  <2>5. Joined(stored) = JoinFrom(h, t)
    <3>1. stored # <<>>
      BY <2>1
    <3> QED BY <2>1, <2>3, <3>1, JoinedTypes
  <2>6. path = JoinFrom(RootDir, t) /\ RootDir \in PlainName
    <3>1. CASE ArchiveRootDir(name) = <<>>
      <4>1. RootDir = h
        BY <2>3, <3>1 DEF RootDir
      <4>2. path = Joined(stored)
        BY <2>1, <3>1 DEF RebaseArchivePath
      <4> QED BY <2>4, <2>5, <4>1, <4>2
    <3>2. CASE ArchiveRootDir(name) # <<>>
      <4>1. RootDir = ArchiveRootDir(name)
        BY <3>2 DEF RootDir
      <4>2. RootDir \in PlainName /\ RootDir # <<>>
        BY <2>1, <3>2, <4>1, RootDirPlain
      <4>3. h \in Seq(PlainChar) /\ t \in Seq(Seq(PlainChar)) /\ RootDir \in Seq(PlainChar)
        BY <2>4, <4>2, SeqMonotonic DEF PlainName
      <4>4. Sep \notin PlainChar
        BY DEF PlainChar
      <4>5. RebaseArchivePath(JoinFrom(h, t), RootDir) = JoinFrom(RootDir, t)
        BY ONLY <2>4, <4>2, <4>3, <4>4, RebaseJoined
      <4> QED BY <2>1, <2>5, <4>1, <4>2, <4>5
    <3> QED BY <3>1, <3>2
  <2>7. SanitizeArchivePath(path) = Ok(<<RootDir>> \o t)
    BY ONLY <2>4, <2>6, ~DriveLetter(RootDir), SanitizeJoined
  <2>8. SanitizeArchivePath(path).ok
    BY <2>7 DEF Ok
  <2>9. pc = "written"
    BY <2>1, <2>8
  <2>10. entry = <<RootDir>> \o t
    <3>1. PICK x : x = <<RootDir>> \o t
      BY Zenon
    <3>2. Ok(entry) = Ok(x)
      BY ONLY <2>1, <2>7, <2>9, <3>1
    <3>3. Ok(entry).value = entry /\ Ok(x).value = x
      BY DEF Ok
    <3>4. entry = x
      BY ONLY <3>2, <3>3
    <3> QED BY ONLY <3>1, <3>4
  <2> QED BY <2>3, <2>9, <2>10
<1> QED BY <1>1, RequestInvariant, PTL
================================================================================
