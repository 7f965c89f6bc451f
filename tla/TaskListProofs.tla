--------------------------- MODULE TaskListProofs ---------------------------
(***************************************************************************)
(* Proofs about module TaskList, for any number of threads and lists and   *)
(* any finite set of tasks: the lists stay well linked, and the operations *)
(* implement those on the sequences of module TaskQueue.                   *)
(***************************************************************************)
EXTENDS TaskList, FiniteSetTheorems, SequenceTheorems, WellFoundedInduction, TLAPS

-----------------------------------------------------------------------------
(* Walks.                                                                  *)

\* A set of numbers has a least one.
LEMMA LeastNumber ==
  ASSUME NEW S \in SUBSET Nat, S # {}
  PROVE  \E n \in S : \A m \in S : ~(m < n)
<1>1. \E n \in S : \A m \in S : ~(<<m, n>> \in OpToRel(<, Nat))
  BY NatLessThanWellFounded, WFMin
<1> QED BY <1>1 DEF OpToRel

\* One more hop than the walks of w.
Hop(w, n, nx, t) ==
  [p \in Ptrs |-> IF p = NULL THEN <<>>
                  ELSE IF p = t \/ n = 0 THEN <<p>>
                  ELSE <<p>> \o w[n - 1][nx[p]]]

\* The recursive definition of Walks has a solution.
LEMMA WalksUnfold ==
  ASSUME NEW nx, NEW t, NEW N \in Nat, N = Cardinality(Tasks)
  PROVE  Walks(nx, t) = [n \in 0 .. N |-> Hop(Walks(nx, t), n, nx, t)]
<1> DEFINE Solves(f, n) == f = [m \in 0 .. n |-> Hop(f, m, nx, t)]
           Bad == {n \in Nat : ~\E f : Solves(f, n)}
<1>1. ASSUME NEW f, NEW g, NEW m \in Nat, m # 0 => f[m - 1] = g[m - 1]
      PROVE  Hop(f, m, nx, t) = Hop(g, m, nx, t)
  BY <1>1 DEF Hop
<1>2. ASSUME NEW n \in Bad, \A m \in Bad : ~(m < n) PROVE  FALSE
  <2>1. CASE n = 0
    <3> DEFINE f == [m \in 0 .. 0 |-> Hop(<<>>, m, nx, t)]
    <3>1. \A m \in 0 .. 0 : Hop(f, m, nx, t) = Hop(<<>>, m, nx, t)  BY <1>1
    <3>2. Solves(f, 0)  BY <3>1
    <3> HIDE DEF f, Solves
    <3> QED BY <1>2, <2>1, <3>2
  <2>2. CASE n # 0
    <3>1. n \in Nat /\ n - 1 \in Nat /\ n - 1 < n  BY <1>2, <2>2
    <3>2. n - 1 \notin Bad  BY <1>2, <3>1
    <3>3. PICK g : Solves(g, n - 1)
      <4> HIDE DEF Solves
      <4> QED BY <3>1, <3>2
    <3> DEFINE f == [m \in 0 .. n |-> IF m = n THEN Hop(g, n, nx, t) ELSE g[m]]
    <3>4. ASSUME NEW m \in 0 .. n PROVE  f[m] = Hop(f, m, nx, t)
      <4>1. m \in Nat /\ (m # 0 => m - 1 \in 0 .. n /\ m - 1 # n)  BY <3>1
      <4>2. m # 0 => f[m - 1] = g[m - 1]  BY <4>1
      <4>3. Hop(f, m, nx, t) = Hop(g, m, nx, t)
        <5> HIDE DEF f
        <5> QED BY <1>1, <4>1, <4>2
      <4>4. m # n => m \in 0 .. n - 1  BY <3>1
      <4>5. m # n => g[m] = Hop(g, m, nx, t)  BY <3>3, <4>4
      <4> QED BY <4>3, <4>5
    <3>5. Solves(f, n)
      <4>1. f = [m \in 0 .. n |-> f[m]]  OBVIOUS
      <4> HIDE DEF f
      <4> QED BY <3>4, <4>1
    <3> HIDE DEF f, Solves
    <3> QED BY <1>2, <3>5
  <2> QED BY <2>1, <2>2
<1>3. Bad = {}
  <2> HIDE DEF Bad
  <2>1. Bad \in SUBSET Nat  BY DEF Bad
  <2> QED BY <1>2, <2>1, LeastNumber
<1>4. PICK f : Solves(f, N)
  <2> HIDE DEF Solves
  <2> QED BY <1>3
<1>5. Walks(nx, t) = CHOOSE w : w = [n \in 0 .. N |-> Hop(w, n, nx, t)]
  BY DEF Walks, Hop
<1> QED BY <1>4, <1>5

\* A walk meets every task at most once.
LEMMA WalkFits ==
  ASSUME NEW nx, NEW s, NEW h, NEW t, IsWalk(nx, s, h, t)
  PROVE  /\ s \in Seq(Tasks) /\ Len(s) \in Nat /\ Len(s) > 0
         /\ Cardinality(Tasks) \in Nat /\ Len(s) <= Cardinality(Tasks)
         /\ \A i \in 1 .. Len(s) : s[i] \in Tasks
         /\ h \in Tasks /\ t \in Tasks
<1>1. s \in Seq(Tasks) /\ s # <<>>  BY DEF IsWalk
<1>2. Len(s) \in Nat /\ s \in [1 .. Len(s) -> Tasks]  BY <1>1, LenProperties
<1>3. Len(s) > 0  BY <1>1, <1>2, EmptySeq
<1>4. \A i \in 1 .. Len(s) : s[i] \in Tasks  BY <1>2
<1>5. h \in Tasks /\ t \in Tasks
  <2>1. 1 \in 1 .. Len(s) /\ Len(s) \in 1 .. Len(s)  BY <1>2, <1>3
  <2> QED BY <1>4, <2>1 DEF IsWalk
<1>6. s \in Injection(1 .. Len(s), Tasks)
  BY <1>2 DEF IsWalk, Injection, IsInjective
<1>7. Cardinality(1 .. Len(s)) <= Cardinality(Tasks)
  BY <1>6, TasksAssumption, FS_Injection
<1>8. Cardinality(1 .. Len(s)) = Len(s)
  <2>1. 1 \in Int /\ Len(s) \in Int  BY <1>2
  <2>2. Cardinality(1 .. Len(s)) = IF 1 > Len(s) THEN 0 ELSE Len(s) - 1 + 1
    BY <2>1, FS_Interval
  <2> QED BY <1>2, <1>3, <2>2
<1>9. Cardinality(Tasks) \in Nat  BY TasksAssumption, FS_CardinalityType
<1> QED BY <1>1, <1>2, <1>3, <1>4, <1>5, <1>7, <1>8, <1>9

\* Following the pointers finds the walk.
LEMMA WalkIsFound ==
  ASSUME NEW nx, NEW s, NEW h, NEW t, IsWalk(nx, s, h, t)
  PROVE  Walks(nx, t)[Cardinality(Tasks)][h] = s
<1> DEFINE N == Cardinality(Tasks)
           L == Len(s)
           w == Walks(nx, t)
           Rest(d) == SubSeq(s, L - d, L)
           Bad == {d \in 0 .. L - 1 : \E n \in 0 .. N : n >= d /\ w[n][s[L - d]] # Rest(d)}
<1>1. /\ s \in Seq(Tasks) /\ L \in Nat /\ L > 0 /\ N \in Nat /\ L <= N
      /\ \A i \in 1 .. L : s[i] \in Tasks
  BY WalkFits
<1>2. /\ s[1] = h /\ s[L] = t
      /\ \A i \in 1 .. L - 1 : nx[s[i]] = s[i + 1]
      /\ \A i, j \in 1 .. L : s[i] = s[j] => i = j
  BY DEF IsWalk
<1>3. w = [n \in 0 .. N |-> Hop(w, n, nx, t)]  BY <1>1, WalksUnfold
<1> HIDE DEF N, L, w
<1>4. ASSUME NEW n \in 0 .. N, NEW p \in Tasks
      PROVE  w[n][p] = IF p = t \/ n = 0 THEN <<p>> ELSE <<p>> \o w[n - 1][nx[p]]
  <2>1. w[n] = Hop(w, n, nx, t)  BY <1>3
  <2>2. p \in Ptrs /\ p # NULL  BY NULLAssumption DEF Ptrs
  <2> QED BY <2>1, <2>2 DEF Hop
<1>5. ASSUME NEW d \in 0 .. L - 1
      PROVE  /\ Rest(d) \in Seq(Tasks) /\ Len(Rest(d)) = d + 1
             /\ \A i \in 1 .. d + 1 : Rest(d)[i] = s[L - d + i - 1]
  <2>1. \A i \in L - d .. L : s[i] \in Tasks  BY <1>1
  <2>2. L - d \in 1 .. L + 1 /\ L \in L - d - 1 .. L /\ L - d <= L
        /\ L - (L - d) + 1 = d + 1 /\ L - d \in Int /\ L \in Int
    BY <1>1
  <2>3. /\ Rest(d) \in Seq(Tasks)
        /\ Len(Rest(d)) = IF L - d <= L THEN L - (L - d) + 1 ELSE 0
        /\ \A i \in 1 .. L - (L - d) + 1 : Rest(d)[i] = s[L - d + i - 1]
    BY <1>1, <2>1, <2>2, SubSeqProperties
  <2> HIDE DEF Rest
  <2> QED BY <2>2, <2>3
<1> HIDE DEF Rest
<1>6. ASSUME NEW d \in Bad, \A m \in Bad : ~(m < d) PROVE  FALSE
  <2>1. d \in 0 .. L - 1 /\ L - d \in 1 .. L  BY <1>1, <1>6
  <2>2. PICK n \in 0 .. N : n >= d /\ w[n][s[L - d]] # Rest(d)  BY <1>6
  <2>3. s[L - d] \in Tasks  BY <1>1, <2>1
  <2>4. CASE d = 0
    <3>1. w[n][s[L - d]] = <<s[L - d]>>
      <4>1. L - d = L  BY <1>1, <2>4
      <4> QED BY <1>2, <1>4, <2>3, <4>1
    <3>2. Len(Rest(d)) = 1 /\ Rest(d)[1] = s[L - d] /\ Rest(d) \in Seq(Tasks)
      <4>1. 1 \in 1 .. d + 1 /\ L - d + 1 - 1 = L - d /\ d + 1 = 1  BY <1>1, <2>4
      <4> QED BY <1>5, <2>1, <4>1
    <3>3. Rest(d) = <<s[L - d]>>
      <4>1. <<s[L - d]>> \in Seq(Tasks) /\ Len(<<s[L - d]>>) = 1
            /\ <<s[L - d]>>[1] = s[L - d]
        BY <2>3
      <4>2. \A i \in 1 .. Len(Rest(d)) : Rest(d)[i] = <<s[L - d]>>[i]  BY <3>2, <4>1
      <4> QED BY <3>2, <4>1, <4>2, SeqEqual
    <3> QED BY <2>2, <3>1, <3>3
  <2>5. CASE d # 0
    <3>1. /\ L - d \in 1 .. L - 1 /\ L - d # L /\ L \in 1 .. L
          /\ L - d + 1 = L - (d - 1) /\ d - 1 \in 0 .. L - 1 /\ d - 1 < d
      BY <1>1, <2>1, <2>5
    <3>2. s[L - d] # t  BY <1>2, <2>1, <3>1
    <3>3. nx[s[L - d]] = s[L - (d - 1)]  BY <1>2, <3>1
    <3>4. n # 0 /\ n - 1 \in 0 .. N /\ n - 1 >= d - 1  BY <1>1, <2>1, <2>2, <2>5
    <3>5. w[n][s[L - d]] = <<s[L - d]>> \o w[n - 1][s[L - (d - 1)]]
      BY <1>4, <2>3, <3>2, <3>3, <3>4
    <3>6. w[n - 1][s[L - (d - 1)]] = Rest(d - 1)  BY <1>6, <3>1, <3>4
    <3> DEFINE u == <<s[L - d]>>
               v == Rest(d - 1)
    <3>7. /\ u \in Seq(Tasks) /\ Len(u) = 1 /\ u[1] = s[L - d]
          /\ v \in Seq(Tasks) /\ Len(v) = d
          /\ \A i \in 1 .. d : v[i] = s[L - (d - 1) + i - 1]
      <4>1. d - 1 + 1 = d  BY <2>1
      <4>2. /\ v \in Seq(Tasks) /\ Len(v) = d - 1 + 1
            /\ \A i \in 1 .. d - 1 + 1 : v[i] = s[L - (d - 1) + i - 1]
        BY <1>5, <3>1
      <4> QED BY <2>3, <4>1, <4>2
    <3> HIDE DEF u, v
    <3>8. /\ u \o v \in Seq(Tasks) /\ Len(u \o v) = 1 + d
          /\ \A i \in 1 .. 1 + d : (u \o v)[i] = IF i <= 1 THEN u[i] ELSE v[i - 1]
      <4>1. u \in Seq(Tasks) /\ v \in Seq(Tasks)  BY <3>7
      <4>2. /\ u \o v \in Seq(Tasks) /\ Len(u \o v) = Len(u) + Len(v)
            /\ \A i \in 1 .. Len(u) + Len(v) :
                 (u \o v)[i] = IF i <= Len(u) THEN u[i] ELSE v[i - Len(u)]
        BY <4>1, ConcatProperties
      <4>3. Len(u) = 1 /\ Len(v) = d  BY <3>7
      <4> QED BY <4>2, <4>3
    <3>9. ASSUME NEW i \in 1 .. 1 + d PROVE  (u \o v)[i] = Rest(d)[i]
      <4>1. i \in 1 .. d + 1 /\ d \in Nat  BY <2>1
      <4>2. Rest(d)[i] = s[L - d + i - 1]  BY <1>5, <2>1, <4>1
      <4>3. CASE i = 1
        <5>1. L - d + i - 1 = L - d  BY <1>1, <2>1, <4>3
        <5> QED BY <3>7, <3>8, <4>2, <4>3, <5>1
      <4>4. CASE i # 1
        <5>1. i - 1 \in 1 .. d /\ ~(i <= 1)  BY <4>1, <4>4
        <5>2. (u \o v)[i] = v[i - 1]  BY <3>8, <5>1
        <5>3. v[i - 1] = s[L - (d - 1) + (i - 1) - 1]  BY <3>7, <5>1
        <5>4. L - (d - 1) + (i - 1) - 1 = L - d + i - 1  BY <1>1, <2>1, <4>1
        <5> QED BY <4>2, <5>2, <5>3, <5>4
      <4> QED BY <4>3, <4>4
    <3>10. u \o v = Rest(d)
      <4>1. Rest(d) \in Seq(Tasks) /\ Len(Rest(d)) = 1 + d  BY <1>5, <2>1
      <4> QED BY <3>8, <3>9, <4>1, SeqEqual
    <3> QED BY <2>2, <3>5, <3>6, <3>10 DEF u, v
  <2> QED BY <2>4, <2>5
<1>7. Bad = {}
  <2>1. Bad \in SUBSET Nat  BY <1>1
  <2> HIDE DEF Bad
  <2> QED BY <1>6, <2>1, LeastNumber
<1>8. w[N][h] = Rest(L - 1)
  <2>1. L - 1 \in 0 .. L - 1 /\ N \in 0 .. N /\ N >= L - 1 /\ L - (L - 1) = 1  BY <1>1
  <2> QED BY <1>2, <1>7, <2>1
<1>9. Rest(L - 1) = s
  <2>1. /\ L - 1 \in 0 .. L - 1 /\ L - 1 + 1 = L
        /\ \A i \in 1 .. L : L - (L - 1) + i - 1 = i
    BY <1>1
  <2>2. Rest(L - 1) \in Seq(Tasks) /\ Len(Rest(L - 1)) = L
        /\ \A i \in 1 .. L : Rest(L - 1)[i] = s[i]
    BY <1>5, <2>1
  <2>3. L = Len(s)  BY DEF L
  <2> QED BY <1>1, <2>2, <2>3, SeqEqual
<1> QED BY <1>8, <1>9 DEF w, N

\* So a walk is the path, and the only one.
LEMMA PathIsWalk ==
  ASSUME NEW nx, NEW s, NEW h, NEW t, IsWalk(nx, s, h, t)
  PROVE  Path(nx, h, t) = s /\ Linked(nx, h, t) /\ h # NULL /\ t # NULL
<1>1. h # NULL /\ t # NULL  BY WalkFits, NULLAssumption
<1>2. Path(nx, h, t) = s  BY <1>1, WalkIsFound DEF Path
<1> QED BY <1>1, <1>2 DEF Linked

LEMMA NoPath ==
  ASSUME NEW nx, NEW h, NEW t, h = NULL \/ t = NULL
  PROVE  Path(nx, h, t) = <<>> /\ Linked(nx, h, t)
BY DEF Path, Linked

-----------------------------------------------------------------------------
(* Where a task is in sequences that are joined or cut.                    *)

LEMMA InConcat ==
  ASSUME NEW s \in Seq(Tasks), NEW u \in Seq(Tasks), NEW t
  PROVE  In(t, s \o u) <=> In(t, s) \/ In(t, u)
<1>1. Len(s) \in Nat /\ Len(u) \in Nat  BY LenProperties
<1>2. /\ Len(s \o u) = Len(s) + Len(u)
      /\ \A i \in 1 .. Len(s) + Len(u) :
           (s \o u)[i] = IF i <= Len(s) THEN s[i] ELSE u[i - Len(s)]
  BY ConcatProperties
<1>3. ASSUME In(t, s \o u) PROVE  In(t, s) \/ In(t, u)
  <2>1. PICK i \in 1 .. Len(s) + Len(u) : (s \o u)[i] = t  BY <1>2, <1>3 DEF In
  <2>2. CASE i <= Len(s)
    <3>1. i \in 1 .. Len(s) /\ s[i] = t  BY <1>1, <1>2, <2>1, <2>2
    <3> QED BY <3>1 DEF In
  <2>3. CASE ~(i <= Len(s))
    <3>1. i - Len(s) \in 1 .. Len(u) /\ u[i - Len(s)] = t  BY <1>1, <1>2, <2>1, <2>3
    <3> QED BY <3>1 DEF In
  <2> QED BY <2>2, <2>3
<1>4. ASSUME In(t, s) PROVE  In(t, s \o u)
  <2>1. PICK i \in 1 .. Len(s) : s[i] = t  BY <1>4 DEF In
  <2>2. i \in 1 .. Len(s \o u) /\ (s \o u)[i] = t  BY <1>1, <1>2, <2>1
  <2> QED BY <2>2 DEF In
<1>5. ASSUME In(t, u) PROVE  In(t, s \o u)
  <2>1. PICK i \in 1 .. Len(u) : u[i] = t  BY <1>5 DEF In
  <2> DEFINE k == Len(s) + i
  <2>2. k \in 1 .. Len(s) + Len(u) /\ ~(k <= Len(s)) /\ k - Len(s) = i  BY <1>1, <2>1
  <2> HIDE DEF k
  <2>3. (s \o u)[k] = t  BY <1>2, <2>1, <2>2
  <2> QED BY <1>2, <2>2, <2>3 DEF In
<1> QED BY <1>3, <1>4, <1>5

LEMMA InOne == \A t, p : In(t, <<p>>) <=> t = p
BY DEF In

LEMMA InEmpty == \A t : ~In(t, <<>>)
BY DEF In

LEMMA InTail ==
  ASSUME NEW s \in Seq(Tasks), s # <<>>, NEW t, In(t, Tail(s))
  PROVE  In(t, s)
<1>1. Len(s) \in Nat  BY LenProperties
<1>2. Len(Tail(s)) = Len(s) - 1 /\ \A i \in 1 .. Len(Tail(s)) : Tail(s)[i] = s[i + 1]
  BY HeadTailProperties
<1>3. PICK i \in 1 .. Len(Tail(s)) : Tail(s)[i] = t  BY DEF In
<1>4. i + 1 \in 1 .. Len(s) /\ s[i + 1] = t  BY <1>1, <1>2, <1>3
<1> QED BY <1>4 DEF In

-----------------------------------------------------------------------------
(* Operations on walks.                                                    *)

LEMMA WalkEnds ==
  ASSUME NEW nx, NEW s, NEW h, NEW t, IsWalk(nx, s, h, t)
  PROVE  In(h, s) /\ In(t, s)
<1>1. Len(s) \in Nat /\ Len(s) > 0  BY WalkFits
<1>2. 1 \in 1 .. Len(s) /\ Len(s) \in 1 .. Len(s)  BY <1>1
<1> QED BY <1>2 DEF In, IsWalk

LEMMA WalkOne ==
  ASSUME NEW nx, NEW t \in Tasks
  PROVE  IsWalk(nx, <<t>>, t, t)
BY DEF IsWalk

\* The pointers of tasks that are not on the walk, or at its end, do not matter.
LEMMA WalkKept ==
  ASSUME NEW nx \in [Tasks -> Ptrs], NEW s, NEW h, NEW t, IsWalk(nx, s, h, t),
         NEW p, NEW q, p = t \/ ~In(p, s)
  PROVE  IsWalk([nx EXCEPT ![p] = q], s, h, t)
<1>1. Len(s) \in Nat /\ Len(s) > 0 /\ \A i \in 1 .. Len(s) : s[i] \in Tasks  BY WalkFits
<1>2. ASSUME NEW i \in 1 .. Len(s) - 1 PROVE  [nx EXCEPT ![p] = q][s[i]] = s[i + 1]
  <2>1. i \in 1 .. Len(s) /\ Len(s) \in 1 .. Len(s) /\ i # Len(s)  BY <1>1
  <2>2. s[i] # p  BY <2>1 DEF IsWalk, In
  <2>3. s[i] \in Tasks  BY <1>1, <2>1
  <2> QED BY <2>2, <2>3 DEF IsWalk
<1> QED BY <1>2 DEF IsWalk

\* A walk is continued by another one that begins where it points to.
LEMMA WalkJoined ==
  ASSUME NEW nx, NEW s, NEW h, NEW t, IsWalk(nx, s, h, t),
         NEW u, NEW h2, NEW t2, IsWalk(nx, u, h2, t2),
         nx[t] = h2, Apart(s, u)
  PROVE  IsWalk(nx, s \o u, h, t2)
<1> DEFINE c == s \o u
<1>1. /\ s \in Seq(Tasks) /\ Len(s) \in Nat /\ Len(s) > 0
      /\ \A i \in 1 .. Len(s) : s[i] \in Tasks
  BY WalkFits
<1>2. u \in Seq(Tasks) /\ Len(u) \in Nat /\ Len(u) > 0  BY WalkFits
<1>3. /\ c \in Seq(Tasks) /\ Len(c) = Len(s) + Len(u)
      /\ \A i \in 1 .. Len(s) + Len(u) : c[i] = IF i <= Len(s) THEN s[i] ELSE u[i - Len(s)]
  BY <1>1, <1>2, ConcatProperties
<1> HIDE DEF c
<1>4. /\ \A i \in 1 .. Len(s) : c[i] = s[i]
      /\ \A i \in 1 .. Len(c) : i > Len(s) => i - Len(s) \in 1 .. Len(u) /\ c[i] = u[i - Len(s)]
  <2>1. Len(c) = Len(s) + Len(u) /\ Len(s) \in Nat /\ Len(u) \in Nat  BY <1>1, <1>2, <1>3
  <2>2. ASSUME NEW i \in 1 .. Len(s) PROVE  c[i] = s[i]
    <3>1. i \in 1 .. Len(s) + Len(u) /\ i <= Len(s)  BY <2>1
    <3> QED BY <1>3, <3>1
  <2>3. ASSUME NEW i \in 1 .. Len(c), i > Len(s)
        PROVE  i - Len(s) \in 1 .. Len(u) /\ c[i] = u[i - Len(s)]
    <3>1. i \in 1 .. Len(s) + Len(u) /\ ~(i <= Len(s)) /\ i - Len(s) \in 1 .. Len(u)
      BY <2>1, <2>3
    <3> QED BY <1>3, <3>1
  <2> QED BY <2>2, <2>3
<1>5. c # <<>>
  <2>1. Len(c) # 0  BY <1>1, <1>2, <1>3
  <2> QED BY <1>3, <2>1, EmptySeq
<1>6. c[1] = h
  <2>1. 1 \in 1 .. Len(s)  BY <1>1
  <2> QED BY <1>4, <2>1 DEF IsWalk
<1>7. c[Len(c)] = t2
  <2>1. Len(c) \in 1 .. Len(c) /\ Len(c) > Len(s) /\ Len(c) - Len(s) = Len(u)
    BY <1>1, <1>2, <1>3
  <2> QED BY <1>4, <2>1 DEF IsWalk
<1>8. ASSUME NEW i \in 1 .. Len(c) - 1 PROVE  nx[c[i]] = c[i + 1]
  <2>1. i \in 1 .. Len(c) /\ i + 1 \in 1 .. Len(c) /\ i \in Nat  BY <1>1, <1>2, <1>3
  <2>2. CASE i < Len(s)
    <3>1. i \in 1 .. Len(s) - 1 /\ i \in 1 .. Len(s) /\ i + 1 \in 1 .. Len(s)
      BY <1>1, <2>1, <2>2
    <3> QED BY <1>4, <3>1 DEF IsWalk
  <2>3. CASE i = Len(s)
    <3>1. i \in 1 .. Len(s) /\ i + 1 > Len(s) /\ i + 1 - Len(s) = 1  BY <1>1, <2>1, <2>3
    <3>2. c[i] = t /\ c[i + 1] = h2  BY <1>4, <2>1, <2>3, <3>1 DEF IsWalk
    <3> QED BY <3>2
  <2>4. CASE i > Len(s)
    <3>1. i + 1 > Len(s) /\ i - Len(s) \in 1 .. Len(u) - 1 /\ i + 1 - Len(s) = i - Len(s) + 1
      BY <1>1, <1>2, <1>3, <2>1, <2>4
    <3>2. c[i] = u[i - Len(s)] /\ c[i + 1] = u[i - Len(s) + 1]  BY <1>4, <2>1, <2>4, <3>1
    <3>3. nx[u[i - Len(s)]] = u[i - Len(s) + 1]  BY <3>1 DEF IsWalk
    <3> QED BY <3>2, <3>3
  <2> QED BY <1>1, <2>1, <2>2, <2>3, <2>4
<1>9. ASSUME NEW i \in 1 .. Len(c), NEW j \in 1 .. Len(c), c[i] = c[j] PROVE  i = j
  <2>1. ASSUME NEW a \in 1 .. Len(c), NEW b \in 1 .. Len(c), a <= Len(s), b > Len(s)
        PROVE  c[a] # c[b]
    <3>1. a \in 1 .. Len(s)  BY <1>1, <2>1
    <3>2. c[a] = s[a] /\ s[a] \in Tasks /\ In(s[a], s)  BY <1>1, <1>4, <3>1 DEF In
    <3>3. In(c[b], u)  BY <1>4, <2>1 DEF In
    <3> QED BY <3>2, <3>3 DEF Apart
  <2>2. CASE i <= Len(s) /\ j <= Len(s)
    <3>1. i \in 1 .. Len(s) /\ j \in 1 .. Len(s)  BY <1>1, <2>2
    <3> QED BY <1>4, <1>9, <3>1 DEF IsWalk
  <2>3. CASE i > Len(s) /\ j > Len(s)
    <3>1. i - Len(s) = j - Len(s)  BY <1>4, <1>9, <2>3 DEF IsWalk
    <3> QED BY <1>1, <1>2, <1>3, <3>1
  <2> QED BY <1>1, <1>2, <1>3, <1>9, <2>1, <2>2, <2>3
<1>10. IsWalk(nx, c, h, t2)  BY <1>3, <1>5, <1>6, <1>7, <1>8, <1>9 DEF IsWalk
<1> QED BY <1>10 DEF c

\* pop_front: the rest of a walk, which its first task is not on.
LEMMA WalkPopped ==
  ASSUME NEW nx, NEW s, NEW h, NEW t, IsWalk(nx, s, h, t)
  PROVE  /\ Head(s) = h /\ s # <<>>
         /\ \A p \in Tasks : In(p, Tail(s)) => In(p, s) /\ p # h
         /\ h = t => Tail(s) = <<>>
         /\ h # t => IsWalk(nx, Tail(s), nx[h], t)
<1> DEFINE r == Tail(s)
<1>1. s \in Seq(Tasks) /\ Len(s) \in Nat /\ Len(s) > 0 /\ s # <<>>  BY WalkFits DEF IsWalk
<1>2. /\ r \in Seq(Tasks) /\ Len(r) = Len(s) - 1
      /\ \A i \in 1 .. Len(r) : r[i] = s[i + 1]
  BY <1>1, HeadTailProperties
<1>3. Head(s) = h  BY <1>1 DEF IsWalk
<1> HIDE DEF r
<1>4. ASSUME NEW p \in Tasks, In(p, r) PROVE  In(p, s) /\ p # h
  <2>1. PICK i \in 1 .. Len(r) : r[i] = p  BY <1>4 DEF In
  <2>2. i + 1 \in 1 .. Len(s) /\ s[i + 1] = p /\ 1 \in 1 .. Len(s) /\ i + 1 # 1
    BY <1>1, <1>2, <2>1
  <2> QED BY <2>2 DEF In, IsWalk
<1>5. ASSUME h = t PROVE  r = <<>>
  <2>1. 1 \in 1 .. Len(s) /\ Len(s) \in 1 .. Len(s)  BY <1>1
  <2>2. Len(s) = 1  BY <1>5, <2>1 DEF IsWalk
  <2>3. Len(r) = 0  BY <1>2, <2>2
  <2> QED BY <1>2, <2>3, EmptySeq
<1>6. ASSUME h # t PROVE  IsWalk(nx, r, nx[h], t)
  <2>1. Len(s) # 1  BY <1>6 DEF IsWalk
  <2>2. Len(r) \in Nat /\ Len(r) > 0 /\ 1 \in 1 .. Len(r) /\ Len(r) \in 1 .. Len(r)
        /\ 1 \in 1 .. Len(s) - 1 /\ Len(r) + 1 = Len(s)
    BY <1>1, <1>2, <2>1
  <2>3. r # <<>>  BY <1>2, <2>2, EmptySeq
  <2>4. r[1] = nx[h] /\ r[Len(r)] = t
    <3>1. r[1] = s[1 + 1] /\ nx[s[1]] = s[1 + 1]  BY <1>2, <2>2 DEF IsWalk
    <3>2. r[Len(r)] = s[Len(s)]  BY <1>2, <2>2
    <3> QED BY <3>1, <3>2 DEF IsWalk
  <2>5. ASSUME NEW i \in 1 .. Len(r) - 1 PROVE  nx[r[i]] = r[i + 1]
    <3>1. i \in 1 .. Len(r) /\ i + 1 \in 1 .. Len(r) /\ i + 1 \in 1 .. Len(s) - 1
      BY <1>1, <1>2
    <3>2. r[i] = s[i + 1] /\ r[i + 1] = s[i + 1 + 1]  BY <1>2, <3>1
    <3> QED BY <3>1, <3>2 DEF IsWalk
  <2>6. ASSUME NEW i \in 1 .. Len(r), NEW j \in 1 .. Len(r), r[i] = r[j] PROVE  i = j
    <3>1. i + 1 \in 1 .. Len(s) /\ j + 1 \in 1 .. Len(s)  BY <1>1, <1>2
    <3>2. s[i + 1] = s[j + 1]  BY <1>2, <2>6
    <3>3. i + 1 = j + 1  BY <3>1, <3>2 DEF IsWalk
    <3> QED BY <3>3
  <2> QED BY <1>2, <2>3, <2>4, <2>5, <2>6 DEF IsWalk
<1> QED BY <1>1, <1>3, <1>4, <1>5, <1>6 DEF r
-----------------------------------------------------------------------------
(* Types and the mutexes.                                                  *)

\* The variables' types, without the mutexes.
Typed ==
  /\ head \in [Lists -> Ptrs] /\ tail \in [Lists -> Ptrs]
  /\ next \in [Tasks -> Ptrs]
  /\ raw_mutex \in [Lists -> Threads \cup {NULL}]
  /\ mine \in [Threads -> [head : Ptrs, tail : Ptrs]]
  /\ pc \in [Threads -> PCs] /\ at \in [Threads -> Lists]

\* One thread at most has locked a list.
Exclusive ==
  \A x \in Threads, l \in Lists : raw_mutex[l] = x <=> pc[x] # "idle" /\ at[x] = l

LEMMA TypeParts == TypeOK <=> Typed /\ Exclusive
BY DEF TypeOK, Typed, Exclusive

LEMMA AppendTypes ==
  ASSUME Typed, NEW x \in Threads, NEW list \in [head : Ptrs, tail : Ptrs],
         AppendMine(x, list)
  PROVE  /\ next' \in [Tasks -> Ptrs]
         /\ mine' \in [Threads -> [head : Ptrs, tail : Ptrs]]
<1>1. mine[x] \in [head : Ptrs, tail : Ptrs]  BY DEF Typed
<1>2. mine' \in [Threads -> [head : Ptrs, tail : Ptrs]]
  <2>1. [head |-> IF mine[x].tail = NULL THEN list.head ELSE mine[x].head, tail |-> list.tail]
          \in [head : Ptrs, tail : Ptrs]
    BY <1>1
  <2> QED BY <2>1 DEF AppendMine, Typed
<1>3. next' \in [Tasks -> Ptrs]  BY DEF AppendMine, set_next, Typed
<1> QED BY <1>2, <1>3

LEMMA PopTypes ==
  ASSUME Typed, NEW list \in [head : Ptrs, tail : Ptrs], list.head # NULL
  PROVE  PopPtrs(list) \in [head : Ptrs, tail : Ptrs]
<1>1. list.head \in Tasks  BY DEF Ptrs
<1>2. next[list.head] \in Ptrs /\ NULL \in Ptrs  BY <1>1 DEF Typed, Ptrs
<1> QED BY <1>2 DEF PopPtrs, EmptyList

LEMMA NullIsPtr ==
  /\ NULL \in Ptrs /\ NULL \notin Threads /\ EmptyList \in [head : Ptrs, tail : Ptrs]
  /\ EmptyList.head = NULL /\ EmptyList.tail = NULL
BY NULLAssumption DEF Ptrs, EmptyList

LEMMA TypedStep ==
  ASSUME TypeOK, [Next]_vars
  PROVE  Typed'
<1> USE TypeParts, NullIsPtr
<1>1. ASSUME NEW x \in Threads, NEW t \in Tasks, NewTask(x, t) PROVE  Typed'
  <2>1. JustOne(t) \in [head : Ptrs, tail : Ptrs]  BY DEF JustOne, Ptrs
  <2> QED BY <1>1, <2>1, AppendTypes DEF NewTask, Typed
<1>2. ASSUME NEW x \in Threads, NEW l \in Lists, NEW op \in Ops, Lock(x, l, op)
      PROVE  Typed'
  BY <1>2 DEF Lock, Typed, PCs
<1>3. ASSUME NEW x \in Threads, NextMine(x) PROVE  Typed'
  <2>1. mine[x] \in [head : Ptrs, tail : Ptrs] /\ mine[x].head # NULL
    BY <1>3 DEF NextMine, Typed
  <2>2. PopPtrs(mine[x]) \in [head : Ptrs, tail : Ptrs]  BY <2>1, PopTypes
  <2>3. mine' = [mine EXCEPT ![x] = PopPtrs(mine[x])]  BY <1>3 DEF NextMine
  <2> QED BY <1>3, <2>2, <2>3 DEF NextMine, Typed
<1>4. ASSUME NEW x \in Threads, PushBackBatch(x) PROVE  Typed'
  <2>1. mine[x].head \in Ptrs /\ at[x] \in Lists  BY DEF Typed
  <2>2. head' \in [Lists -> Ptrs] /\ next' \in [Tasks -> Ptrs]
    BY <1>4, <2>1 DEF PushBackBatch, set_next, Typed
  <2> QED BY <1>4, <2>2 DEF PushBackBatch, Goto, Typed, PCs
<1>5. ASSUME NEW x \in Threads, SetTail(x) PROVE  Typed'
  <2>1. mine[x].tail \in Ptrs /\ at[x] \in Lists  BY DEF Typed
  <2> QED BY <1>5, <2>1 DEF SetTail, Unlock, Typed, PCs
<1>6. ASSUME NEW x \in Threads, PushFrontBatch(x) PROVE  Typed'
  <2>1. mine[x].tail \in Ptrs /\ at[x] \in Lists /\ head[at[x]] \in Ptrs  BY DEF Typed
  <2>2. tail' \in [Lists -> Ptrs] /\ next' \in [Tasks -> Ptrs]
    BY <1>6, <2>1 DEF PushFrontBatch, set_next, Typed
  <2> QED BY <1>6, <2>2 DEF PushFrontBatch, Goto, Typed, PCs
<1>7. ASSUME NEW x \in Threads, SetHead(x) PROVE  Typed'
  <2>1. mine[x].head \in Ptrs /\ at[x] \in Lists  BY DEF Typed
  <2> QED BY <1>7, <2>1 DEF SetHead, Unlock, Typed, PCs
<1>8. ASSUME NEW x \in Threads, TakeFront(x) PROVE  Typed'
  <2> DEFINE l == at[x]
             list == [head |-> head[l], tail |-> tail[l]]
  <2>1. l \in Lists /\ head[l] \in Ptrs /\ tail[l] \in Ptrs  BY DEF Typed
  <2>2. pc' \in [Threads -> PCs] /\ raw_mutex' \in [Lists -> Threads \cup {NULL}]
    BY <1>8, <2>1 DEF TakeFront, Unlock, Goto, Typed, PCs
  <2>3. CASE head[l] = NULL  BY <1>8, <2>2, <2>3 DEF TakeFront, is_empty, Typed
  <2>4. CASE head[l] # NULL
    <3>1. list \in [head : Ptrs, tail : Ptrs] /\ list.head # NULL  BY <2>1, <2>4
    <3>2. PopPtrs(list) \in [head : Ptrs, tail : Ptrs]  BY <3>1, PopTypes
    <3>3. JustOne(head[l]) \in [head : Ptrs, tail : Ptrs]  BY <2>1 DEF JustOne
    <3>4. /\ head' = [head EXCEPT ![l] = PopPtrs(list).head]
          /\ mine' = [mine EXCEPT ![x] = JustOne(head[l])]
          /\ UNCHANGED <<tail, next, at>>
      BY <1>8, <2>4 DEF TakeFront, is_empty
    <3>5. head' \in [Lists -> Ptrs] /\ mine' \in [Threads -> [head : Ptrs, tail : Ptrs]]
      BY <3>2, <3>3, <3>4 DEF Typed
    <3> QED BY <2>2, <3>4, <3>5 DEF Typed
  <2> QED BY <2>3, <2>4
<1>9. ASSUME NEW x \in Threads, TakeAll(x) PROVE  Typed'
  <2> DEFINE l == at[x]
             list == [head |-> head[l], tail |-> tail[l]]
  <2>1. l \in Lists /\ list \in [head : Ptrs, tail : Ptrs]  BY DEF Typed
  <2>2. pc' \in [Threads -> PCs] /\ raw_mutex' \in [Lists -> Threads \cup {NULL}]
    BY <1>9, <2>1 DEF TakeAll, Unlock, Goto, Typed, PCs
  <2>3. CASE head[l] = NULL  BY <1>9, <2>2, <2>3 DEF TakeAll, is_empty, Typed
  <2>4. CASE head[l] # NULL
    <3>1. head' = [head EXCEPT ![l] = NULL] /\ AppendMine(x, list) /\ UNCHANGED <<tail, at>>
      BY <1>9, <2>4 DEF TakeAll, is_empty
    <3> QED BY <2>1, <2>2, <3>1, AppendTypes DEF Typed
  <2> QED BY <2>3, <2>4
<1>10. ASSUME NEW x \in Threads, ClearTail(x) PROVE  Typed'
  <2>1. at[x] \in Lists  BY DEF Typed
  <2> QED BY <1>10, <2>1 DEF ClearTail, Unlock, Typed, PCs
<1>11. CASE UNCHANGED vars  BY <1>11 DEF vars, Typed
<1> QED BY <1>1, <1>2, <1>3, <1>4, <1>5, <1>6, <1>7, <1>8, <1>9, <1>10, <1>11 DEF Next

LEMMA LockedStep ==
  ASSUME TypeOK, NEW x \in Threads, pc[x] # "idle", UNCHANGED at,
         \/ Unlock(x)
         \/ \E where \in PCs \ {"idle"} : Goto(x, where)
  PROVE  Exclusive'
<1> USE TypeParts, NullIsPtr
<1>1. at[x] \in Lists /\ raw_mutex[at[x]] = x  BY DEF Exclusive, Typed
<1> SUFFICES ASSUME NEW y \in Threads, NEW l \in Lists
             PROVE  raw_mutex'[l] = y <=> pc'[y] # "idle" /\ at'[y] = l
  BY DEF Exclusive
<1>2. CASE Unlock(x)  BY <1>1, <1>2 DEF Unlock, Exclusive, Typed
<1>3. CASE \E where \in PCs \ {"idle"} : Goto(x, where)
  BY <1>1, <1>3 DEF Goto, Exclusive, Typed
<1> QED BY <1>2, <1>3

LEMMA ExclusiveStep ==
  ASSUME TypeOK, [Next]_vars
  PROVE  Exclusive'
<1> USE TypeParts, NullIsPtr
<1>1. ASSUME UNCHANGED <<raw_mutex, pc, at>> PROVE  Exclusive'  BY <1>1 DEF Exclusive
<1>2. ASSUME NEW x \in Threads, NEW l \in Lists, NEW op \in Ops, Lock(x, l, op)
      PROVE  Exclusive'
  <2>1. op # "idle"  BY DEF Ops
  <2>2. raw_mutex[l] = NULL /\ pc[x] = "idle"  BY <1>2 DEF Lock, MayLock
  <2> SUFFICES ASSUME NEW y \in Threads, NEW m \in Lists
               PROVE  raw_mutex'[m] = y <=> pc'[y] # "idle" /\ at'[y] = m
    BY DEF Exclusive
  <2> QED BY <1>2, <2>1, <2>2 DEF Lock, Exclusive, Typed
<1>3. ASSUME NEW x \in Threads,
             PushBackBatch(x) \/ SetTail(x) \/ PushFrontBatch(x) \/ SetHead(x)
             \/ TakeFront(x) \/ TakeAll(x) \/ ClearTail(x)
      PROVE  Exclusive'
  <2>1. {"set_tail", "set_head", "clear_tail"} \subseteq PCs \ {"idle"}  BY DEF PCs
  <2>2. pc[x] # "idle" /\ UNCHANGED at
    BY <1>3
    DEF PushBackBatch, SetTail, PushFrontBatch, SetHead, TakeFront, TakeAll, ClearTail
  <2>3. Unlock(x) \/ Goto(x, "set_tail") \/ Goto(x, "set_head") \/ Goto(x, "clear_tail")
    BY <1>3
    DEF PushBackBatch, SetTail, PushFrontBatch, SetHead, TakeFront, TakeAll, ClearTail
  <2> QED BY <2>1, <2>2, <2>3, LockedStep
<1>4. ASSUME NEW x \in Threads, NEW t \in Tasks, NewTask(x, t) PROVE  Exclusive'
  BY <1>1, <1>4 DEF NewTask
<1>5. ASSUME NEW x \in Threads, NextMine(x) PROVE  Exclusive'  BY <1>1, <1>5 DEF NextMine
<1>6. CASE UNCHANGED vars  BY <1>1, <1>6 DEF vars
<1> QED BY <1>2, <1>3, <1>4, <1>5, <1>6 DEF Next
-----------------------------------------------------------------------------
(* What a step does to the sequences of the lists.                         *)

LEMMA PathKept ==
  ASSUME NEW nx \in [Tasks -> Ptrs], NEW h, NEW t, Linked(nx, h, t),
         NEW p, NEW q, p = t \/ ~In(p, Path(nx, h, t))
  PROVE  /\ Path([nx EXCEPT ![p] = q], h, t) = Path(nx, h, t)
         /\ Linked([nx EXCEPT ![p] = q], h, t)
<1>1. CASE h = NULL \/ t = NULL  BY <1>1, NoPath
<1>2. CASE h # NULL /\ t # NULL
  <2>1. IsWalk(nx, Path(nx, h, t), h, t)  BY <1>2 DEF Linked
  <2>2. IsWalk([nx EXCEPT ![p] = q], Path(nx, h, t), h, t)  BY <2>1, WalkKept
  <2> QED BY <2>2, PathIsWalk
<1> QED BY <1>1, <1>2

LEMMA PathSeq ==
  ASSUME NEW nx, NEW h, NEW t, Linked(nx, h, t)
  PROVE  /\ Path(nx, h, t) \in Seq(Tasks)
         /\ Path(nx, h, t) # <<>> <=> h # NULL /\ t # NULL
<1>1. CASE h = NULL \/ t = NULL
  <2>1. Path(nx, h, t) = <<>> /\ <<>> \in Seq(Tasks)  BY <1>1, NoPath
  <2> QED BY <1>1, <2>1
<1>2. CASE h # NULL /\ t # NULL  BY <1>2 DEF Linked, IsWalk
<1> QED BY <1>1, <1>2

\* The lists as they were before the step, along the pointers after it.
Kept ==
  /\ \A l \in Lists : /\ Path(next', head[l], tail[l]) = Contents(l)
                      /\ Linked(next', head[l], tail[l])
  /\ \A x \in Threads : /\ Path(next', mine[x].head, mine[x].tail) = Hand(x)
                        /\ Linked(next', mine[x].head, mine[x].tail)

LEMMA NextSame ==
  ASSUME AllLinked, UNCHANGED next
  PROVE  Kept
BY DEF Kept, AllLinked, Contents, Hand

\* set_next of the last task of a list changes no list.
LEMMA TailPointerFree ==
  ASSUME Typed, AllLinked, AllApart, NEW l \in Lists, head[l] # NULL, tail[l] # NULL,
         NEW q, set_next(tail[l], q)
  PROVE  Kept
<1> DEFINE p == tail[l]
<1>1. next' = [next EXCEPT ![p] = q] /\ next \in [Tasks -> Ptrs]  BY DEF set_next, Typed
<1>2. In(p, Contents(l)) /\ p \in Tasks
  <2>1. IsWalk(next, Contents(l), head[l], tail[l])  BY DEF AllLinked, Linked, Contents
  <2> QED BY <2>1, WalkEnds, WalkFits
<1> HIDE DEF p
<1>3. ASSUME NEW m \in Lists
      PROVE  /\ Path(next', head[m], tail[m]) = Contents(m)
             /\ Linked(next', head[m], tail[m])
  <2>1. p = tail[m] \/ ~In(p, Path(next, head[m], tail[m]))
    BY <1>2 DEF AllApart, Apart, Contents, p
  <2>2. Linked(next, head[m], tail[m])  BY DEF AllLinked
  <2>3. /\ Path([next EXCEPT ![p] = q], head[m], tail[m]) = Path(next, head[m], tail[m])
        /\ Linked([next EXCEPT ![p] = q], head[m], tail[m])
    BY <1>1, <2>1, <2>2, PathKept
  <2> QED BY <1>1, <2>3 DEF Contents
<1>4. ASSUME NEW x \in Threads
      PROVE  /\ Path(next', mine[x].head, mine[x].tail) = Hand(x)
             /\ Linked(next', mine[x].head, mine[x].tail)
  <2>1. ~In(p, Path(next, mine[x].head, mine[x].tail))
    BY <1>2 DEF AllApart, Apart, Hand, p
  <2>2. Linked(next, mine[x].head, mine[x].tail)  BY DEF AllLinked
  <2> DEFINE a == mine[x].head
             b == mine[x].tail
  <2>3. /\ Path([next EXCEPT ![p] = q], a, b) = Path(next, a, b)
        /\ Linked([next EXCEPT ![p] = q], a, b)
    BY <1>1, <2>1, <2>2, PathKept
  <2> QED BY <1>1, <2>3 DEF Hand
<1> QED BY <1>3, <1>4 DEF Kept

LEMMA TailPointerMine ==
  ASSUME Typed, AllLinked, AllApart, NEW x \in Threads,
         mine[x].head # NULL, mine[x].tail # NULL, NEW q, set_next(mine[x].tail, q)
  PROVE  Kept
<1> DEFINE p == mine[x].tail
<1>1. next' = [next EXCEPT ![p] = q] /\ next \in [Tasks -> Ptrs]  BY DEF set_next, Typed
<1>2. In(p, Hand(x)) /\ p \in Tasks
  <2>1. IsWalk(next, Hand(x), mine[x].head, mine[x].tail)  BY DEF AllLinked, Linked, Hand
  <2> QED BY <2>1, WalkEnds, WalkFits
<1> HIDE DEF p
<1>3. ASSUME NEW m \in Lists
      PROVE  /\ Path(next', head[m], tail[m]) = Contents(m)
             /\ Linked(next', head[m], tail[m])
  <2>1. ~In(p, Path(next, head[m], tail[m]))
    BY <1>2 DEF AllApart, Apart, Contents, p
  <2>2. Linked(next, head[m], tail[m])  BY DEF AllLinked
  <2>3. /\ Path([next EXCEPT ![p] = q], head[m], tail[m]) = Path(next, head[m], tail[m])
        /\ Linked([next EXCEPT ![p] = q], head[m], tail[m])
    BY <1>1, <2>1, <2>2, PathKept
  <2> QED BY <1>1, <2>3 DEF Contents
<1>4. ASSUME NEW y \in Threads
      PROVE  /\ Path(next', mine[y].head, mine[y].tail) = Hand(y)
             /\ Linked(next', mine[y].head, mine[y].tail)
  <2>1. p = mine[y].tail \/ ~In(p, Path(next, mine[y].head, mine[y].tail))
    BY <1>2 DEF AllApart, Apart, Hand, p
  <2>2. Linked(next, mine[y].head, mine[y].tail)  BY DEF AllLinked
  <2> DEFINE a == mine[y].head
             b == mine[y].tail
  <2>3. /\ Path([next EXCEPT ![p] = q], a, b) = Path(next, a, b)
        /\ Linked([next EXCEPT ![p] = q], a, b)
    BY <1>1, <2>1, <2>2, PathKept
  <2> QED BY <1>1, <2>3 DEF Hand
<1> QED BY <1>3, <1>4 DEF Kept

\* A step turns list l into q and what thread x has in hand into h.
Moves(x, l, q, h) ==
  /\ \A m \in Lists : Contents(m)' = IF m = l THEN q ELSE Contents(m)
  /\ \A y \in Threads : Hand(y)' = IF y = x THEN h ELSE Hand(y)

LEMMA KeptMoves ==
  ASSUME Kept, NEW x \in Threads, NEW l \in Lists, NEW q, NEW h,
         \A m \in Lists : m # l => head'[m] = head[m] /\ tail'[m] = tail[m],
         \A y \in Threads : y # x => mine'[y] = mine[y],
         Path(next', head'[l], tail'[l]) = q, Linked(next', head'[l], tail'[l]),
         Path(next', mine'[x].head, mine'[x].tail) = h,
         Linked(next', mine'[x].head, mine'[x].tail)
  PROVE  Moves(x, l, q, h) /\ AllLinked'
<1>1. \A m \in Lists : Contents(m)' = IF m = l THEN q ELSE Contents(m)
  BY DEF Kept, Contents
<1>2. \A y \in Threads : Hand(y)' = IF y = x THEN h ELSE Hand(y)
  BY DEF Kept, Hand
<1>3. AllLinked'  BY DEF Kept, AllLinked
<1> QED BY <1>1, <1>2, <1>3 DEF Moves

\* No list is changed.
LEMMA KeptSame ==
  ASSUME Kept, UNCHANGED <<head, tail, mine>>, NEW x \in Threads, NEW l \in Lists
  PROVE  Moves(x, l, Contents(l), Hand(x)) /\ AllLinked'
<1>1. /\ Path(next', head'[l], tail'[l]) = Contents(l) /\ Linked(next', head'[l], tail'[l])
      /\ Path(next', mine'[x].head, mine'[x].tail) = Hand(x)
      /\ Linked(next', mine'[x].head, mine'[x].tail)
  BY DEF Kept
<1> QED BY <1>1, KeptMoves

\* push_back_batch on what a thread has in hand.
LEMMA AppendEffect ==
  ASSUME Typed, AllLinked, AllApart, NEW x \in Threads,
         Paired(mine[x].head, mine[x].tail),
         NEW list, NEW u, IsWalk(next, u, list.head, list.tail), Apart(Hand(x), u),
         AppendMine(x, list)
  PROVE  /\ Kept /\ \A y \in Threads : y # x => mine'[y] = mine[y]
         /\ Path(next', mine'[x].head, mine'[x].tail) = Hand(x) \o u
         /\ Linked(next', mine'[x].head, mine'[x].tail)
<1>1. /\ mine'[x].head = (IF mine[x].tail = NULL THEN list.head ELSE mine[x].head)
      /\ mine'[x].tail = list.tail
      /\ \A y \in Threads : y # x => mine'[y] = mine[y]
  BY DEF AppendMine, Typed
<1>2. u \in Seq(Tasks)  BY DEF IsWalk
<1>3. CASE mine[x].tail = NULL
  <2>1. UNCHANGED next  BY <1>3 DEF AppendMine
  <2>2. Kept  BY <2>1, NextSame
  <2>3. Hand(x) = <<>>  BY <1>3, NoPath DEF Hand
  <2>4. Hand(x) \o u = u  BY <1>2, <2>3, ConcatEmptySeq
  <2>5. IsWalk(next', u, mine'[x].head, mine'[x].tail)  BY <1>1, <1>3, <2>1
  <2> QED BY <1>1, <2>2, <2>4, <2>5, PathIsWalk
<1>4. CASE mine[x].tail # NULL
  <2>1. mine[x].head # NULL /\ set_next(mine[x].tail, list.head)
    BY <1>4 DEF AppendMine, Paired
  <2>2. Kept  BY <1>4, <2>1, TailPointerMine
  <2>3. IsWalk(next, Hand(x), mine[x].head, mine[x].tail)
    BY <1>4, <2>1 DEF AllLinked, Linked, Hand
  <2>4. IsWalk(next', Hand(x), mine[x].head, mine[x].tail)
    BY <1>4, <2>1, <2>2 DEF Kept, Linked
  <2>5. mine[x].tail \in Tasks /\ In(mine[x].tail, Hand(x))  BY <2>3, WalkEnds, WalkFits
  <2>6. next' = [next EXCEPT ![mine[x].tail] = list.head] /\ next \in [Tasks -> Ptrs]
    BY <2>1 DEF set_next, Typed
  <2>7. ~In(mine[x].tail, u)  BY <2>5 DEF Apart
  <2>8. IsWalk(next', u, list.head, list.tail)  BY <2>6, <2>7, WalkKept
  <2>9. next'[mine[x].tail] = list.head  BY <2>5, <2>6
  <2>10. IsWalk(next', Hand(x) \o u, mine[x].head, list.tail)
    BY <2>4, <2>8, <2>9, WalkJoined
  <2>11. mine'[x].head = mine[x].head /\ mine'[x].tail = list.tail  BY <1>1, <1>4
  <2>12. IsWalk(next', Hand(x) \o u, mine'[x].head, mine'[x].tail)  BY <2>10, <2>11
  <2>13. /\ Path(next', mine'[x].head, mine'[x].tail) = Hand(x) \o u
         /\ Linked(next', mine'[x].head, mine'[x].tail)
    BY <2>12, PathIsWalk
  <2> QED BY <1>1, <2>2, <2>13
<1> QED BY <1>3, <1>4

LEMMA InvParts ==
  ASSUME IInv, NEW x \in Threads
  PROVE  /\ Typed /\ Exclusive /\ AllLinked /\ AllApart /\ Halfway(x)
         /\ at[x] \in Lists /\ Paired(mine[x].head, mine[x].tail)
         /\ mine[x] \in [head : Ptrs, tail : Ptrs]
BY TypeParts DEF IInv, WellLinked, InBetween, Typed, Halfway

LEMMA NewTaskEffect ==
  ASSUME IInv, NEW x \in Threads, NEW t \in Tasks, NewTask(x, t)
  PROVE  Moves(x, at[x], Contents(at[x]), Hand(x) \o <<t>>) /\ AllLinked'
<1>1. JustOne(t).head = t /\ JustOne(t).tail = t  BY DEF JustOne
<1>2. IsWalk(next, <<t>>, JustOne(t).head, JustOne(t).tail)  BY <1>1, WalkOne
<1>3. Apart(Hand(x), <<t>>)  BY InOne DEF Apart, NewTask, Free
<1>4. AppendMine(x, JustOne(t)) /\ UNCHANGED <<head, tail>>  BY DEF NewTask
<1>5. /\ Kept /\ \A y \in Threads : y # x => mine'[y] = mine[y]
      /\ Path(next', mine'[x].head, mine'[x].tail) = Hand(x) \o <<t>>
      /\ Linked(next', mine'[x].head, mine'[x].tail)
  BY <1>2, <1>3, <1>4, InvParts, AppendEffect
<1>6. /\ Path(next', head'[at[x]], tail'[at[x]]) = Contents(at[x])
      /\ Linked(next', head'[at[x]], tail'[at[x]])
  BY <1>4, <1>5, InvParts DEF Kept
<1> QED BY <1>4, <1>5, <1>6, InvParts, KeptMoves

\* pop_front of a list leaves the pointers to the rest of its tasks.
LEMMA PopEffect ==
  ASSUME NEW list \in [head : Ptrs, tail : Ptrs], list.head # NULL, list.tail # NULL,
         Linked(next, list.head, list.tail)
  PROVE  /\ Path(next, PopPtrs(list).head, PopPtrs(list).tail)
              = Tail(Path(next, list.head, list.tail))
         /\ Linked(next, PopPtrs(list).head, PopPtrs(list).tail)
         /\ PopPtrs(list) = EmptyList <=> list.head = list.tail
         /\ list.head # list.tail => PopPtrs(list).head # NULL /\ PopPtrs(list).tail = list.tail
<1> DEFINE s == Path(next, list.head, list.tail)
<1>1. IsWalk(next, s, list.head, list.tail)  BY DEF Linked
<1>2. CASE list.head = list.tail
  <2>1. PopPtrs(list) = EmptyList  BY <1>2 DEF PopPtrs
  <2>2. Tail(s) = <<>>  BY <1>1, <1>2, WalkPopped
  <2> QED BY <1>2, <2>1, <2>2, NoPath, NullIsPtr
<1>3. CASE list.head # list.tail
  <2>1. PopPtrs(list).head = next[list.head] /\ PopPtrs(list).tail = list.tail
    BY <1>3 DEF PopPtrs
  <2>2. IsWalk(next, Tail(s), next[list.head], list.tail)  BY <1>1, <1>3, WalkPopped
  <2>3. /\ Path(next, next[list.head], list.tail) = Tail(s)
        /\ Linked(next, next[list.head], list.tail) /\ next[list.head] # NULL
    <3> HIDE DEF s
    <3> QED BY <2>2, PathIsWalk
  <2>4. PopPtrs(list) # EmptyList  BY <2>1, NullIsPtr
  <2> QED BY <1>3, <2>1, <2>3, <2>4
<1> QED BY <1>2, <1>3

LEMMA NextMineEffect ==
  ASSUME IInv, NEW x \in Threads, NextMine(x)
  PROVE  /\ Moves(x, at[x], Contents(at[x]), Tail(Hand(x))) /\ AllLinked'
         /\ Hand(x) # <<>>
<1>1. /\ mine[x].head # NULL /\ mine' = [mine EXCEPT ![x] = PopPtrs(mine[x])]
      /\ UNCHANGED <<head, tail, next>>
  BY DEF NextMine
<1>2. mine[x].tail # NULL /\ Linked(next, mine[x].head, mine[x].tail)
  BY <1>1, InvParts DEF Paired, AllLinked
<1>3. mine'[x] = PopPtrs(mine[x]) /\ \A y \in Threads : y # x => mine'[y] = mine[y]
  BY <1>1, InvParts DEF Typed
<1>4. /\ Path(next, PopPtrs(mine[x]).head, PopPtrs(mine[x]).tail) = Tail(Hand(x))
      /\ Linked(next, PopPtrs(mine[x]).head, PopPtrs(mine[x]).tail)
  BY <1>1, <1>2, InvParts, PopEffect DEF Hand
<1>5. Kept  BY <1>1, InvParts, NextSame
<1>6. /\ Path(next', mine'[x].head, mine'[x].tail) = Tail(Hand(x))
      /\ Linked(next', mine'[x].head, mine'[x].tail)
  BY <1>1, <1>3, <1>4
<1>7. /\ Path(next', head'[at[x]], tail'[at[x]]) = Contents(at[x])
      /\ Linked(next', head'[at[x]], tail'[at[x]])
  BY <1>1, <1>5, InvParts DEF Kept
<1>8. Hand(x) # <<>>  BY <1>1, <1>2, PathSeq DEF Hand
<1> QED BY <1>1, <1>3, <1>5, <1>6, <1>7, <1>8, InvParts, KeptMoves

LEMMA LockEffect ==
  ASSUME IInv, NEW x \in Threads, NEW l \in Lists, NEW op \in Ops, Lock(x, l, op)
  PROVE  Moves(x, at[x], Contents(at[x]), Hand(x)) /\ AllLinked'
<1>1. Kept /\ UNCHANGED <<head, tail, mine>>  BY InvParts, NextSame DEF Lock
<1> QED BY <1>1, InvParts, KeptSame

LEMMA PushBackEffect ==
  ASSUME IInv, NEW x \in Threads, PushBackBatch(x)
  PROVE  Moves(x, at[x], Contents(at[x]), Hand(x)) /\ AllLinked'
<1> DEFINE l == at[x]
<1>1. l \in Lists /\ Paired(head[l], tail[l]) /\ UNCHANGED <<tail, mine>>
  BY InvParts DEF PushBackBatch, Halfway, Ops
<1>2. CASE tail[l] = NULL
  <2>1. head' = [head EXCEPT ![l] = mine[x].head] /\ UNCHANGED next
    BY <1>2 DEF PushBackBatch
  <2>2. Kept  BY <2>1, InvParts, NextSame
  <2>3. \A m \in Lists : m # l => head'[m] = head[m] /\ tail'[m] = tail[m]
    BY <1>1, <2>1, InvParts DEF Typed
  <2>4. /\ Path(next', head'[l], tail'[l]) = Contents(l)
        /\ Linked(next', head'[l], tail'[l])
    BY <1>1, <1>2, NoPath DEF Contents
  <2>5. /\ Path(next', mine'[x].head, mine'[x].tail) = Hand(x)
        /\ Linked(next', mine'[x].head, mine'[x].tail)
    BY <1>1, <2>2 DEF Kept
  <2> QED BY <1>1, <2>2, <2>3, <2>4, <2>5, KeptMoves
<1>3. CASE tail[l] # NULL
  <2>1. set_next(tail[l], mine[x].head) /\ UNCHANGED head /\ head[l] # NULL
    BY <1>1, <1>3 DEF PushBackBatch, Paired
  <2>2. Kept  BY <1>1, <1>3, <2>1, InvParts, TailPointerFree
  <2> QED BY <1>1, <2>1, <2>2, KeptSame
<1> QED BY <1>2, <1>3

LEMMA PushFrontEffect ==
  ASSUME IInv, NEW x \in Threads, PushFrontBatch(x)
  PROVE  Moves(x, at[x], Contents(at[x]), Hand(x)) /\ AllLinked'
<1> DEFINE l == at[x]
<1>1. /\ l \in Lists /\ Paired(head[l], tail[l]) /\ UNCHANGED <<head, mine>>
      /\ mine[x].head # NULL /\ mine[x].tail # NULL
  BY InvParts DEF PushFrontBatch, Halfway, Ops, Paired
<1>2. CASE head[l] = NULL
  <2>1. tail' = [tail EXCEPT ![l] = mine[x].tail] /\ UNCHANGED next
    BY <1>2 DEF PushFrontBatch, is_empty
  <2>2. Kept  BY <2>1, InvParts, NextSame
  <2>3. \A m \in Lists : m # l => head'[m] = head[m] /\ tail'[m] = tail[m]
    BY <1>1, <2>1, InvParts DEF Typed
  <2>4. /\ Path(next', head'[l], tail'[l]) = Contents(l)
        /\ Linked(next', head'[l], tail'[l])
    BY <1>1, <1>2, NoPath DEF Contents
  <2>5. /\ Path(next', mine'[x].head, mine'[x].tail) = Hand(x)
        /\ Linked(next', mine'[x].head, mine'[x].tail)
    BY <1>1, <2>2 DEF Kept
  <2> QED BY <1>1, <2>2, <2>3, <2>4, <2>5, KeptMoves
<1>3. CASE head[l] # NULL
  <2>1. set_next(mine[x].tail, head[l]) /\ UNCHANGED tail
    BY <1>3 DEF PushFrontBatch, is_empty, LinkLast
  <2>2. Kept  BY <1>1, <2>1, InvParts, TailPointerMine
  <2> QED BY <1>1, <2>1, <2>2, KeptSame
<1> QED BY <1>2, <1>3

\* What is left in the hands of a thread that has handed over its tasks.
LEMMA EmptyHand ==
  ASSUME Typed, NEW x \in Threads, mine' = [mine EXCEPT ![x] = EmptyList]
  PROVE  /\ Path(next', mine'[x].head, mine'[x].tail) = <<>>
         /\ Linked(next', mine'[x].head, mine'[x].tail)
         /\ \A y \in Threads : y # x => mine'[y] = mine[y]
<1>1. mine'[x] = EmptyList /\ \A y \in Threads : y # x => mine'[y] = mine[y]  BY DEF Typed
<1>2. mine'[x].head = NULL  BY <1>1, NullIsPtr
<1> QED BY <1>1, <1>2, NoPath

LEMMA SetTailEffect ==
  ASSUME IInv, NEW x \in Threads, SetTail(x)
  PROVE  /\ Moves(x, at[x], Contents(at[x]) \o Hand(x), <<>>) /\ AllLinked'
         /\ Hand(x) # <<>>
<1> DEFINE l == at[x]
<1>1. /\ l \in Lists /\ mine[x].head # NULL /\ mine[x].tail # NULL
      /\ tail' = [tail EXCEPT ![l] = mine[x].tail]
      /\ mine' = [mine EXCEPT ![x] = EmptyList] /\ UNCHANGED <<head, next>>
      /\ \/ tail[l] = NULL /\ head[l] = mine[x].head
         \/ tail[l] # NULL /\ head[l] # NULL /\ next[tail[l]] = mine[x].head
  BY InvParts DEF SetTail, Halfway, Paired
<1>2. Kept  BY <1>1, InvParts, NextSame
<1>3. tail'[l] = mine[x].tail /\ head'[l] = head[l]
      /\ \A m \in Lists : m # l => head'[m] = head[m] /\ tail'[m] = tail[m]
  BY <1>1, InvParts DEF Typed
<1>4. IsWalk(next, Hand(x), mine[x].head, mine[x].tail)
  BY <1>1, InvParts DEF AllLinked, Linked, Hand
<1>5. Hand(x) # <<>> /\ Hand(x) \in Seq(Tasks)  BY <1>4 DEF IsWalk
<1>6. IsWalk(next, Contents(l) \o Hand(x), head[l], mine[x].tail)
  <2>1. CASE tail[l] = NULL
    <3>1. Contents(l) = <<>>  BY <2>1, NoPath DEF Contents
    <3>2. Contents(l) \o Hand(x) = Hand(x)  BY <1>5, <3>1, ConcatEmptySeq
    <3> QED BY <1>1, <1>4, <2>1, <3>2
  <2>2. CASE tail[l] # NULL
    <3>1. IsWalk(next, Contents(l), head[l], tail[l])
      BY <1>1, <2>2, InvParts DEF AllLinked, Linked, Contents
    <3>2. Apart(Contents(l), Hand(x)) /\ next[tail[l]] = mine[x].head
      BY <1>1, <2>2, InvParts DEF AllApart
    <3> QED BY <1>4, <3>1, <3>2, WalkJoined
  <2> QED BY <2>1, <2>2
<1>7. IsWalk(next', Contents(l) \o Hand(x), head'[l], tail'[l])  BY <1>1, <1>3, <1>6
<1>8. /\ Path(next', head'[l], tail'[l]) = Contents(l) \o Hand(x)
      /\ Linked(next', head'[l], tail'[l])
  <2> DEFINE c == Contents(l) \o Hand(x)
             h == head'[l]
             t == tail'[l]
  <2>1. IsWalk(next', c, h, t)  BY <1>7
  <2> HIDE DEF c, h, t
  <2>2. Path(next', h, t) = c /\ Linked(next', h, t)  BY <2>1, PathIsWalk
  <2> QED BY <2>2 DEF c, h, t
<1>9. /\ Path(next', mine'[x].head, mine'[x].tail) = <<>>
      /\ Linked(next', mine'[x].head, mine'[x].tail)
      /\ \A y \in Threads : y # x => mine'[y] = mine[y]
  BY <1>1, InvParts, EmptyHand
<1> QED BY <1>1, <1>2, <1>3, <1>5, <1>8, <1>9, KeptMoves

LEMMA SetHeadEffect ==
  ASSUME IInv, NEW x \in Threads, SetHead(x)
  PROVE  /\ Moves(x, at[x], Hand(x) \o Contents(at[x]), <<>>) /\ AllLinked'
         /\ Hand(x) # <<>>
<1> DEFINE l == at[x]
<1>1. /\ l \in Lists /\ mine[x].head # NULL /\ mine[x].tail # NULL
      /\ head' = [head EXCEPT ![l] = mine[x].head]
      /\ mine' = [mine EXCEPT ![x] = EmptyList] /\ UNCHANGED <<tail, next>>
      /\ \/ head[l] = NULL /\ tail[l] = mine[x].tail
         \/ head[l] # NULL /\ tail[l] # NULL /\ next[mine[x].tail] = head[l]
  BY InvParts DEF SetHead, Halfway, Paired
<1>2. Kept  BY <1>1, InvParts, NextSame
<1>3. head'[l] = mine[x].head /\ tail'[l] = tail[l]
      /\ \A m \in Lists : m # l => head'[m] = head[m] /\ tail'[m] = tail[m]
  BY <1>1, InvParts DEF Typed
<1>4. IsWalk(next, Hand(x), mine[x].head, mine[x].tail)
  BY <1>1, InvParts DEF AllLinked, Linked, Hand
<1>5. Hand(x) # <<>> /\ Hand(x) \in Seq(Tasks)  BY <1>4 DEF IsWalk
<1>6. IsWalk(next, Hand(x) \o Contents(l), mine[x].head, tail[l])
  <2>1. CASE head[l] = NULL
    <3>1. Contents(l) = <<>>  BY <2>1, NoPath DEF Contents
    <3>2. Hand(x) \o Contents(l) = Hand(x)  BY <1>5, <3>1, ConcatEmptySeq
    <3> QED BY <1>1, <1>4, <2>1, <3>2
  <2>2. CASE head[l] # NULL
    <3>1. IsWalk(next, Contents(l), head[l], tail[l])
      BY <1>1, <2>2, InvParts DEF AllLinked, Linked, Contents
    <3>2. Apart(Hand(x), Contents(l)) /\ next[mine[x].tail] = head[l]
      BY <1>1, <2>2, InvParts DEF AllApart, Apart
    <3> QED BY <1>4, <3>1, <3>2, WalkJoined
  <2> QED BY <2>1, <2>2
<1>7. IsWalk(next', Hand(x) \o Contents(l), head'[l], tail'[l])  BY <1>1, <1>3, <1>6
<1>8. /\ Path(next', head'[l], tail'[l]) = Hand(x) \o Contents(l)
      /\ Linked(next', head'[l], tail'[l])
  <2> DEFINE c == Hand(x) \o Contents(l)
             h == head'[l]
             t == tail'[l]
  <2>1. IsWalk(next', c, h, t)  BY <1>7
  <2> HIDE DEF c, h, t
  <2>2. Path(next', h, t) = c /\ Linked(next', h, t)  BY <2>1, PathIsWalk
  <2> QED BY <2>2 DEF c, h, t
<1>9. /\ Path(next', mine'[x].head, mine'[x].tail) = <<>>
      /\ Linked(next', mine'[x].head, mine'[x].tail)
      /\ \A y \in Threads : y # x => mine'[y] = mine[y]
  BY <1>1, InvParts, EmptyHand
<1> QED BY <1>1, <1>2, <1>3, <1>5, <1>8, <1>9, KeptMoves

LEMMA TakeFrontEffect ==
  ASSUME IInv, NEW x \in Threads, TakeFront(x), head[at[x]] # NULL
  PROVE  /\ Moves(x, at[x], Tail(Contents(at[x])), <<head[at[x]]>>) /\ AllLinked'
         /\ Contents(at[x]) # <<>> /\ Head(Contents(at[x])) = head[at[x]] /\ Hand(x) = <<>>
         /\ head'[at[x]] = NULL <=> head[at[x]] = tail[at[x]]
<1> DEFINE l == at[x]
           list == [head |-> head[l], tail |-> tail[l]]
<1>1. /\ l \in Lists /\ head[l] # NULL /\ tail[l] # NULL /\ mine[x].head = NULL
      /\ Linked(next, head[l], tail[l]) /\ head[l] \in Tasks
  <2>1. l \in Lists /\ head[l] # NULL /\ tail[l] # NULL /\ mine[x].head = NULL
    BY InvParts DEF TakeFront, Halfway, Paired, Ops
  <2> QED BY <2>1, InvParts DEF AllLinked, Typed, Ptrs
<1>2. /\ list \in [head : Ptrs, tail : Ptrs] /\ list.head = head[l] /\ list.tail = tail[l]
  BY <1>1, InvParts DEF Typed
<1>3. /\ head' = [head EXCEPT ![l] = PopPtrs(list).head]
      /\ mine' = [mine EXCEPT ![x] = JustOne(head[l])] /\ UNCHANGED <<tail, next>>
  BY <1>1 DEF TakeFront, is_empty
<1>4. Kept  BY <1>3, InvParts, NextSame
<1>5. head'[l] = PopPtrs(list).head /\ tail'[l] = tail[l]
      /\ \A m \in Lists : m # l => head'[m] = head[m] /\ tail'[m] = tail[m]
  BY <1>1, <1>3, InvParts DEF Typed
<1>6. mine'[x].head = head[l] /\ mine'[x].tail = head[l]
      /\ \A y \in Threads : y # x => mine'[y] = mine[y]
  BY <1>3, InvParts DEF Typed, JustOne
<1>7. /\ Path(next, PopPtrs(list).head, PopPtrs(list).tail) = Tail(Contents(l))
      /\ Linked(next, PopPtrs(list).head, PopPtrs(list).tail)
      /\ PopPtrs(list) = EmptyList <=> head[l] = tail[l]
      /\ head[l] # tail[l] => PopPtrs(list).head # NULL /\ PopPtrs(list).tail = tail[l]
  <2> HIDE DEF list
  <2>1. list.head # NULL /\ list.tail # NULL /\ Linked(next, list.head, list.tail)
    BY <1>1, <1>2
  <2> QED BY <1>2, <2>1, PopEffect DEF Contents
<1>8. head'[l] = NULL <=> head[l] = tail[l]
  <2> HIDE DEF list
  <2> QED BY <1>5, <1>7, NullIsPtr
<1>9. /\ Path(next', head'[l], tail'[l]) = Tail(Contents(l))
      /\ Linked(next', head'[l], tail'[l])
  <2> HIDE DEF list
  <2>1. CASE head[l] = tail[l]
    <3>1. Path(next, PopPtrs(list).head, PopPtrs(list).tail) = <<>>
      BY <1>7, <2>1, NoPath, NullIsPtr
    <3> QED BY <1>7, <1>8, <2>1, <3>1, NoPath
  <2>2. CASE head[l] # tail[l]  BY <1>3, <1>5, <1>7, <2>2
  <2> QED BY <2>1, <2>2
<1>10. /\ Path(next', mine'[x].head, mine'[x].tail) = <<head[l]>>
       /\ Linked(next', mine'[x].head, mine'[x].tail)
  <2>1. IsWalk(next', <<head[l]>>, mine'[x].head, mine'[x].tail)  BY <1>1, <1>6, WalkOne
  <2> QED BY <2>1, PathIsWalk
<1>11. Contents(l) # <<>> /\ Head(Contents(l)) = head[l]
  <2>1. IsWalk(next, Contents(l), head[l], tail[l])  BY <1>1 DEF Linked, Contents
  <2> QED BY <2>1, WalkPopped
<1>12. Hand(x) = <<>>  BY <1>1, NoPath DEF Hand
<1>13. Moves(x, l, Tail(Contents(l)), <<head[l]>>) /\ AllLinked'
  BY <1>1, <1>4, <1>5, <1>6, <1>9, <1>10, KeptMoves
<1> QED BY <1>8, <1>11, <1>12, <1>13

LEMMA TakeAllEffect ==
  ASSUME IInv, NEW x \in Threads, TakeAll(x), head[at[x]] # NULL
  PROVE  /\ Moves(x, at[x], <<>>, Hand(x) \o Contents(at[x])) /\ AllLinked'
         /\ Contents(at[x]) # <<>>
<1> DEFINE l == at[x]
           list == [head |-> head[l], tail |-> tail[l]]
<1>1. l \in Lists /\ head[l] # NULL /\ tail[l] # NULL
  BY InvParts DEF TakeAll, Halfway, Paired, Ops
<1>2. head' = [head EXCEPT ![l] = NULL] /\ AppendMine(x, list) /\ UNCHANGED tail
  BY DEF TakeAll, is_empty
<1>3. head'[l] = NULL /\ \A m \in Lists : m # l => head'[m] = head[m] /\ tail'[m] = tail[m]
  BY <1>1, <1>2, InvParts DEF Typed
<1>4. IsWalk(next, Contents(l), head[l], tail[l])
  BY <1>1, InvParts DEF AllLinked, Linked, Contents
<1>5. IsWalk(next, Contents(l), list.head, list.tail)  BY <1>4
<1>6. Apart(Hand(x), Contents(l))  BY <1>1, InvParts DEF AllApart, Apart
<1>7. /\ Kept /\ \A y \in Threads : y # x => mine'[y] = mine[y]
      /\ Path(next', mine'[x].head, mine'[x].tail) = Hand(x) \o Contents(l)
      /\ Linked(next', mine'[x].head, mine'[x].tail)
  <2> HIDE DEF list
  <2> QED BY <1>2, <1>5, <1>6, InvParts, AppendEffect
<1>8. Path(next', head'[l], tail'[l]) = <<>> /\ Linked(next', head'[l], tail'[l])
  BY <1>3, NoPath
<1>9. Contents(l) # <<>>  BY <1>4 DEF IsWalk
<1> QED BY <1>1, <1>3, <1>7, <1>8, <1>9, KeptMoves

LEMMA ClearTailEffect ==
  ASSUME IInv, NEW x \in Threads, ClearTail(x)
  PROVE  Moves(x, at[x], Contents(at[x]), Hand(x)) /\ AllLinked'
<1> DEFINE l == at[x]
<1>1. /\ l \in Lists /\ head[l] = NULL /\ UNCHANGED <<head, mine, next>>
      /\ tail' = [tail EXCEPT ![l] = NULL]
  BY InvParts DEF ClearTail, Halfway
<1>2. Kept  BY <1>1, InvParts, NextSame
<1>3. \A m \in Lists : m # l => head'[m] = head[m] /\ tail'[m] = tail[m]
  BY <1>1, InvParts DEF Typed
<1>4. Path(next', head'[l], tail'[l]) = Contents(l) /\ Linked(next', head'[l], tail'[l])
  BY <1>1, NoPath DEF Contents
<1>5. /\ Path(next', mine'[x].head, mine'[x].tail) = Hand(x)
      /\ Linked(next', mine'[x].head, mine'[x].tail)
  BY <1>1, <1>2 DEF Kept
<1> QED BY <1>1, <1>2, <1>3, <1>4, <1>5, KeptMoves

-----------------------------------------------------------------------------
(* The invariant.                                                          *)

\* Tasks that move between one list and one thread stay apart from all others.
LEMMA ApartMoves ==
  ASSUME AllApart, NEW x \in Threads, NEW l \in Lists, NEW q, NEW h, Moves(x, l, q, h),
         \A t \in Tasks : In(t, q) \/ In(t, h)
                            => In(t, Contents(l)) \/ In(t, Hand(x)) \/ Free(t),
         Apart(q, h)
  PROVE  AllApart'
<1>1. \A m \in Lists : Contents(m)' = IF m = l THEN q ELSE Contents(m)  BY DEF Moves
<1>2. \A y \in Threads : Hand(y)' = IF y = x THEN h ELSE Hand(y)  BY DEF Moves
<1>3. ASSUME NEW m \in Lists, m # l, NEW t \in Tasks, In(t, q) \/ In(t, h)
      PROVE  ~In(t, Contents(m))
  BY <1>3 DEF AllApart, Apart, Free
<1>4. ASSUME NEW y \in Threads, y # x, NEW t \in Tasks, In(t, q) \/ In(t, h)
      PROVE  ~In(t, Hand(y))
  BY <1>4 DEF AllApart, Apart, Free
<1>5. ASSUME NEW m \in Lists, NEW y \in Threads PROVE  Apart(Contents(m)', Hand(y)')
  BY <1>1, <1>2, <1>3, <1>4 DEF AllApart, Apart
<1>6. ASSUME NEW m \in Lists, NEW n \in Lists, m # n
      PROVE  Apart(Contents(m)', Contents(n)')
  BY <1>1, <1>3, <1>6 DEF AllApart, Apart
<1>7. ASSUME NEW y \in Threads, NEW z \in Threads, y # z PROVE  Apart(Hand(y)', Hand(z)')
  BY <1>2, <1>4, <1>7 DEF AllApart, Apart
<1> QED BY <1>5, <1>6, <1>7 DEF AllApart, Apart

LEMMA ApartStep ==
  ASSUME IInv, [Next]_vars
  PROVE  AllLinked' /\ AllApart'
<1>1. ASSUME NEW x \in Threads, Moves(x, at[x], Contents(at[x]), Hand(x))
      PROVE  AllApart'
  <2>1. Apart(Contents(at[x]), Hand(x))  BY InvParts DEF AllApart
  <2> QED BY <1>1, <2>1, InvParts, ApartMoves
<1>2. ASSUME NEW x \in Threads
      PROVE  /\ Contents(at[x]) \in Seq(Tasks) /\ Hand(x) \in Seq(Tasks)
             /\ \A t \in Tasks : ~(In(t, Contents(at[x])) /\ In(t, Hand(x)))
  BY <1>2, InvParts, PathSeq DEF AllLinked, Contents, Hand, AllApart, Apart
<1>3. ASSUME NEW x \in Threads, NEW t \in Tasks, NewTask(x, t)
      PROVE  AllLinked' /\ AllApart'
  <2>1. Moves(x, at[x], Contents(at[x]), Hand(x) \o <<t>>) /\ AllLinked'
    BY <1>3, NewTaskEffect
  <2>2. Free(t) /\ at[x] \in Lists /\ <<t>> \in Seq(Tasks)  BY <1>3, InvParts DEF NewTask
  <2>3. \A p \in Tasks : In(p, Hand(x) \o <<t>>) <=> In(p, Hand(x)) \/ p = t
    BY <1>2, <2>2, InConcat, InOne
  <2>4. Apart(Contents(at[x]), Hand(x) \o <<t>>)  BY <1>2, <2>2, <2>3 DEF Apart, Free
  <2> QED BY <2>1, <2>2, <2>3, <2>4, InvParts, ApartMoves
<1>4. ASSUME NEW x \in Threads, NEW l \in Lists, NEW op \in Ops, Lock(x, l, op)
      PROVE  AllLinked' /\ AllApart'
  BY <1>1, <1>4, LockEffect
<1>5. ASSUME NEW x \in Threads, NextMine(x) PROVE  AllLinked' /\ AllApart'
  <2>1. Moves(x, at[x], Contents(at[x]), Tail(Hand(x))) /\ AllLinked' /\ Hand(x) # <<>>
    BY <1>5, NextMineEffect
  <2>2. \A p \in Tasks : In(p, Tail(Hand(x))) => In(p, Hand(x))  BY <1>2, <2>1, InTail
  <2>3. Apart(Contents(at[x]), Tail(Hand(x)))  BY <1>2, <2>2 DEF Apart
  <2> QED BY <2>1, <2>2, <2>3, InvParts, ApartMoves
<1>6. ASSUME NEW x \in Threads, PushBackBatch(x) PROVE  AllLinked' /\ AllApart'
  BY <1>1, <1>6, PushBackEffect
<1>7. ASSUME NEW x \in Threads, SetTail(x) PROVE  AllLinked' /\ AllApart'
  <2>1. Moves(x, at[x], Contents(at[x]) \o Hand(x), <<>>) /\ AllLinked'
    BY <1>7, SetTailEffect
  <2>2. \A p \in Tasks : /\ In(p, Contents(at[x]) \o Hand(x))
                              <=> In(p, Contents(at[x])) \/ In(p, Hand(x))
                         /\ ~In(p, <<>>)
    BY <1>2, InConcat, InEmpty
  <2>3. Apart(Contents(at[x]) \o Hand(x), <<>>)  BY <2>2 DEF Apart
  <2> QED BY <2>1, <2>2, <2>3, InvParts, ApartMoves
<1>8. ASSUME NEW x \in Threads, PushFrontBatch(x) PROVE  AllLinked' /\ AllApart'
  BY <1>1, <1>8, PushFrontEffect
<1>9. ASSUME NEW x \in Threads, SetHead(x) PROVE  AllLinked' /\ AllApart'
  <2>1. Moves(x, at[x], Hand(x) \o Contents(at[x]), <<>>) /\ AllLinked'
    BY <1>9, SetHeadEffect
  <2>2. \A p \in Tasks : /\ In(p, Hand(x) \o Contents(at[x]))
                              <=> In(p, Hand(x)) \/ In(p, Contents(at[x]))
                         /\ ~In(p, <<>>)
    BY <1>2, InConcat, InEmpty
  <2>3. Apart(Hand(x) \o Contents(at[x]), <<>>)  BY <2>2 DEF Apart
  <2> QED BY <2>1, <2>2, <2>3, InvParts, ApartMoves
<1>10. ASSUME NEW x \in Threads, TakeFront(x) PROVE  AllLinked' /\ AllApart'
  <2>1. CASE head[at[x]] = NULL
    <3>1. UNCHANGED <<head, tail, mine, next>>  BY <1>10, <2>1 DEF TakeFront, is_empty
    <3>2. Moves(x, at[x], Contents(at[x]), Hand(x)) /\ AllLinked'
      BY <3>1, InvParts, NextSame, KeptSame
    <3> QED BY <1>1, <3>2
  <2>2. CASE head[at[x]] # NULL
    <3> DEFINE l == at[x]
               h == head[l]
    <3>1. /\ Moves(x, l, Tail(Contents(l)), <<h>>) /\ AllLinked' /\ Contents(l) # <<>>
      BY <1>10, <2>2, TakeFrontEffect
    <3>2. IsWalk(next, Contents(l), h, tail[l])
      BY <1>10, <2>2, InvParts
      DEF TakeFront, Halfway, Paired, Ops, AllLinked, Linked, Contents
    <3>3. /\ \A p \in Tasks : In(p, Tail(Contents(l))) => In(p, Contents(l)) /\ p # h
          /\ In(h, Contents(l))
      BY <3>2, WalkPopped, WalkEnds
    <3>4. \A p \in Tasks : In(p, <<h>>) <=> p = h  BY InOne
    <3>5. Apart(Tail(Contents(l)), <<h>>)  BY <3>3, <3>4 DEF Apart
    <3> QED BY <3>1, <3>3, <3>4, <3>5, InvParts, ApartMoves
  <2> QED BY <2>1, <2>2
<1>11. ASSUME NEW x \in Threads, TakeAll(x) PROVE  AllLinked' /\ AllApart'
  <2>1. CASE head[at[x]] = NULL
    <3>1. UNCHANGED <<head, tail, mine, next>>  BY <1>11, <2>1 DEF TakeAll, is_empty
    <3>2. Moves(x, at[x], Contents(at[x]), Hand(x)) /\ AllLinked'
      BY <3>1, InvParts, NextSame, KeptSame
    <3> QED BY <1>1, <3>2
  <2>2. CASE head[at[x]] # NULL
    <3>1. Moves(x, at[x], <<>>, Hand(x) \o Contents(at[x])) /\ AllLinked'
      BY <1>11, <2>2, TakeAllEffect
    <3>2. \A p \in Tasks : /\ In(p, Hand(x) \o Contents(at[x]))
                                <=> In(p, Hand(x)) \/ In(p, Contents(at[x]))
                           /\ ~In(p, <<>>)
      BY <1>2, InConcat, InEmpty
    <3>3. Apart(<<>>, Hand(x) \o Contents(at[x]))  BY <3>2 DEF Apart
    <3> QED BY <3>1, <3>2, <3>3, InvParts, ApartMoves
  <2> QED BY <2>1, <2>2
<1>12. ASSUME NEW x \in Threads, ClearTail(x) PROVE  AllLinked' /\ AllApart'
  BY <1>1, <1>12, ClearTailEffect
<1>13. CASE UNCHANGED vars
  BY <1>13 DEF vars, IInv, WellLinked, AllLinked, AllApart, Contents, Hand
<1> QED BY <1>3, <1>4, <1>5, <1>6, <1>7, <1>8, <1>9, <1>10, <1>11, <1>12, <1>13 DEF Next

Holds(x, l) == pc[x] # "idle" /\ at[x] = l

\* A step of thread x changes the pointers of the list it has locked, its private
\* list, and the next pointer of one task of these.
Frame(x) ==
  /\ \A y \in Threads : y # x => mine'[y] = mine[y] /\ pc'[y] = pc[y] /\ at'[y] = at[y]
  /\ \A l \in Lists : ~Holds(x, l) => head'[l] = head[l] /\ tail'[l] = tail[l]
  /\ \A p \in Tasks : \/ next'[p] = next[p]
                      \/ In(p, Hand(x))
                      \/ pc[x] # "idle" /\ In(p, Contents(at[x]))

\* The operation that thread x is in goes on as it should, and it unlocks a list
\* whose head and tail agree.
Onward(x) ==
  /\ Halfway(x)'
  /\ \A l \in Lists : raw_mutex'[l] = NULL /\ Holds(x, l) => Paired(head'[l], tail'[l])

LEMMA InvStepOf ==
  ASSUME IInv, NEW x \in Threads, Frame(x), Onward(x), Typed', Exclusive',
         AllLinked', AllApart',
         \A l \in Lists : raw_mutex'[l] = NULL => raw_mutex[l] \in {NULL, x}
  PROVE  IInv'
<1>1. ASSUME NEW l \in Lists, raw_mutex'[l] = NULL
      PROVE  head'[l] = NULL <=> tail'[l] = NULL
  <2>1. CASE Holds(x, l)  BY <1>1, <2>1 DEF Onward, Paired
  <2>2. CASE ~Holds(x, l)
    <3>1. raw_mutex[l] # x  BY <2>2, InvParts DEF Exclusive, Holds
    <3>2. raw_mutex[l] = NULL  BY <1>1, <3>1
    <3> QED BY <2>2, <3>2 DEF Frame, IInv, WellLinked
  <2> QED BY <2>1, <2>2
<1>2. ASSUME NEW y \in Threads PROVE  Halfway(y)'
  <2>1. CASE y = x  BY <2>1 DEF Onward
  <2>2. CASE y # x
    <3>1. mine'[y] = mine[y] /\ pc'[y] = pc[y] /\ at'[y] = at[y]  BY <2>2 DEF Frame
    <3>2. CASE pc[y] = "idle"
      <4>1. Paired(mine'[y].head, mine'[y].tail)  BY <3>1, InvParts
      <4> QED BY <3>1, <3>2, <4>1 DEF Halfway, Ops
    <3>3. CASE pc[y] # "idle"
      <4> DEFINE l == at[y]
      <4>1. l \in Lists /\ ~Holds(x, l)
        BY <2>2, <3>3, InvParts DEF Exclusive, Holds
      <4>2. head'[l] = head[l] /\ tail'[l] = tail[l]  BY <4>1 DEF Frame
      <4>3. head[l] # NULL /\ tail[l] # NULL => next'[tail[l]] = next[tail[l]]
        <5> SUFFICES ASSUME head[l] # NULL, tail[l] # NULL
                     PROVE  next'[tail[l]] = next[tail[l]]
          OBVIOUS
        <5>1. IsWalk(next, Contents(l), head[l], tail[l])
          BY <4>1, InvParts DEF AllLinked, Linked, Contents
        <5>2. tail[l] \in Tasks /\ In(tail[l], Contents(l))  BY <5>1, WalkFits, WalkEnds
        <5>3. ~In(tail[l], Hand(x))  BY <4>1, <5>2, InvParts DEF AllApart, Apart
        <5>4. pc[x] # "idle" => ~In(tail[l], Contents(at[x]))
          BY <4>1, <5>2, InvParts DEF AllApart, Apart, Holds
        <5> QED BY <5>2, <5>3, <5>4 DEF Frame
      <4>4. mine[y].head # NULL => next'[mine[y].tail] = next[mine[y].tail]
        <5> SUFFICES ASSUME mine[y].head # NULL
                     PROVE  next'[mine[y].tail] = next[mine[y].tail]
          OBVIOUS
        <5>1. IsWalk(next, Hand(y), mine[y].head, mine[y].tail)
          BY InvParts DEF AllLinked, Linked, Hand, Paired
        <5>2. mine[y].tail \in Tasks /\ In(mine[y].tail, Hand(y))
          BY <5>1, WalkFits, WalkEnds
        <5>3. ~In(mine[y].tail, Hand(x))  BY <2>2, <5>2, InvParts DEF AllApart, Apart
        <5>4. ~In(mine[y].tail, Contents(at[x]))  BY <5>2, InvParts DEF AllApart, Apart
        <5> QED BY <5>2, <5>3, <5>4 DEF Frame
      <4>5. Halfway(y)  BY InvParts
      <4> QED BY <3>1, <4>2, <4>3, <4>4, <4>5 DEF Halfway
    <3> QED BY <3>2, <3>3
  <2> QED BY <2>1, <2>2
<1> QED BY <1>1, <1>2, TypeParts DEF IInv, WellLinked, InBetween, TypeOK, Typed, Exclusive

LEMMA StepGoesOn ==
  ASSUME IInv, Typed', Exclusive', AllLinked', AllApart', NEW x \in Threads
  PROVE  /\ \A t \in Tasks : NewTask(x, t) => IInv'
         /\ \A l \in Lists, op \in Ops : Lock(x, l, op) => IInv'
         /\ NextMine(x) \/ PushBackBatch(x) \/ SetTail(x) \/ PushFrontBatch(x) \/ SetHead(x)
            \/ TakeFront(x) \/ TakeAll(x) \/ ClearTail(x) => IInv'
<1> DEFINE l == at[x]
<1>0. /\ Typed /\ Exclusive /\ l \in Lists
      /\ Halfway(x) /\ Paired(mine[x].head, mine[x].tail)
      /\ mine[x] \in [head : Ptrs, tail : Ptrs]
  BY InvParts
<1>1. mine[x].head # NULL => mine[x].tail # NULL /\ In(mine[x].tail, Hand(x))
  <2> SUFFICES ASSUME mine[x].head # NULL
               PROVE  mine[x].tail # NULL /\ In(mine[x].tail, Hand(x))
    OBVIOUS
  <2>1. mine[x].tail # NULL  BY <1>0 DEF Paired
  <2>2. IsWalk(next, Hand(x), mine[x].head, mine[x].tail)
    BY <2>1, InvParts DEF AllLinked, Linked, Hand
  <2> QED BY <2>1, <2>2, WalkEnds
<1>2. head[l] # NULL /\ tail[l] # NULL => In(tail[l], Contents(l)) /\ In(head[l], Contents(l))
  <2> SUFFICES ASSUME head[l] # NULL, tail[l] # NULL
               PROVE  In(tail[l], Contents(l)) /\ In(head[l], Contents(l))
    OBVIOUS
  <2>1. IsWalk(next, Contents(l), head[l], tail[l])
    BY InvParts DEF AllLinked, Linked, Contents
  <2> QED BY <2>1, WalkEnds
<1>3. ASSUME NEW list, AppendMine(x, list), list.head # NULL, list.tail # NULL
      PROVE  /\ Paired(mine'[x].head, mine'[x].tail)
             /\ \A y \in Threads : y # x => mine'[y] = mine[y]
             /\ \A p \in Tasks : next'[p] = next[p] \/ In(p, Hand(x))
  <2>1. /\ mine'[x].head = (IF mine[x].tail = NULL THEN list.head ELSE mine[x].head)
        /\ mine'[x].tail = list.tail
        /\ \A y \in Threads : y # x => mine'[y] = mine[y]
    BY <1>0, <1>3 DEF AppendMine, Typed
  <2>2. Paired(mine'[x].head, mine'[x].tail)  BY <1>0, <1>3, <2>1 DEF Paired
  <2>3. ASSUME NEW p \in Tasks PROVE  next'[p] = next[p] \/ In(p, Hand(x))
    BY <1>0, <1>1, <1>3 DEF AppendMine, set_next, Typed, Paired
  <2> QED BY <2>1, <2>2, <2>3
<1>4. ASSUME NEW t \in Tasks, NewTask(x, t) PROVE  IInv'
  <2>1. /\ AppendMine(x, JustOne(t)) /\ UNCHANGED <<head, tail, raw_mutex, pc, at>>
        /\ pc[x] = "idle" /\ JustOne(t).head # NULL /\ JustOne(t).tail # NULL
    BY <1>4, NULLAssumption DEF NewTask, JustOne
  <2>2. Frame(x)  BY <1>3, <2>1 DEF Frame
  <2>3. Halfway(x)'  BY <1>3, <2>1 DEF Halfway, Ops
  <2>4. Onward(x)  BY <2>1, <2>3 DEF Onward, Holds
  <2> QED BY <2>1, <2>2, <2>4, InvStepOf
<1>5. ASSUME NEW m \in Lists, NEW op \in Ops, Lock(x, m, op) PROVE  IInv'
  <2>1. /\ UNCHANGED <<head, tail, next, mine>> /\ pc[x] = "idle" /\ raw_mutex[m] = NULL
        /\ raw_mutex' = [raw_mutex EXCEPT ![m] = x] /\ Wanted(x, op)
        /\ at'[x] = m /\ pc'[x] = op
        /\ \A y \in Threads : y # x => at'[y] = at[y] /\ pc'[y] = pc[y]
    BY <1>0, <1>5 DEF Lock, MayLock, Typed
  <2>2. Frame(x)  BY <2>1 DEF Frame
  <2>3. Paired(head[m], tail[m])  BY <2>1 DEF IInv, WellLinked, Paired
  <2>4. op \in {"push_back_batch", "push_front_batch"} => mine[x].head # NULL
    BY <2>1 DEF Wanted
  <2>5. op = "pop_front" => mine[x].head = NULL  BY <2>1 DEF Wanted
  <2>6. Halfway(x)'  BY <1>0, <2>1, <2>3, <2>4, <2>5 DEF Halfway, Ops
  <2>7. Onward(x)  BY <2>1, <2>6 DEF Onward, Holds
  <2>8. \A k \in Lists : raw_mutex'[k] = NULL => raw_mutex[k] \in {NULL, x}
    BY <1>0, <2>1 DEF Typed
  <2> QED BY <2>2, <2>7, <2>8, InvStepOf
<1>6. ASSUME NextMine(x) PROVE  IInv'
  <2>1. /\ mine[x].head # NULL /\ pc[x] = "idle"
        /\ UNCHANGED <<head, tail, next, raw_mutex, pc, at>>
        /\ mine'[x] = PopPtrs(mine[x]) /\ \A y \in Threads : y # x => mine'[y] = mine[y]
    BY <1>0, <1>6 DEF NextMine, Typed
  <2>2. Frame(x)  BY <2>1 DEF Frame
  <2>3. Paired(PopPtrs(mine[x]).head, PopPtrs(mine[x]).tail)
    <3>1. mine[x].tail # NULL /\ Linked(next, mine[x].head, mine[x].tail)
      BY <1>1, <2>1, InvParts DEF AllLinked
    <3> QED BY <1>0, <1>1, <2>1, <3>1, PopEffect, NullIsPtr DEF Paired
  <2>4. Halfway(x)'  BY <2>1, <2>3 DEF Halfway, Ops
  <2>5. Onward(x)  BY <2>1, <2>4 DEF Onward, Holds
  <2> QED BY <2>1, <2>2, <2>5, InvStepOf
<1>7. ASSUME pc[x] # "idle", UNCHANGED at, Unlock(x) \/ \E where \in PCs : Goto(x, where)
      PROVE  /\ Holds(x, l) /\ \A m \in Lists : m # l => ~Holds(x, m)
             /\ \A y \in Threads : y # x => pc'[y] = pc[y]
             /\ \A m \in Lists : raw_mutex'[m] = NULL => raw_mutex[m] \in {NULL, x}
             /\ raw_mutex[l] # NULL
  BY <1>0, <1>7, NullIsPtr DEF Holds, Unlock, Goto, Typed, Exclusive
<1>8. {"set_tail", "set_head", "clear_tail"} \subseteq PCs  BY DEF PCs
<1>9. ASSUME PushBackBatch(x) PROVE  IInv'
  <2>1. /\ pc[x] = "push_back_batch" /\ Goto(x, "set_tail")
        /\ UNCHANGED <<tail, mine, at, raw_mutex>>
        /\ pc'[x] = "set_tail" /\ mine[x].head # NULL /\ Paired(head[l], tail[l])
    BY <1>0, <1>9 DEF PushBackBatch, Goto, Typed, Halfway, Ops
  <2>2. /\ Holds(x, l) /\ \A m \in Lists : m # l => ~Holds(x, m)
        /\ \A y \in Threads : y # x => pc'[y] = pc[y]
        /\ \A m \in Lists : raw_mutex'[m] = NULL => raw_mutex[m] \in {NULL, x}
        /\ raw_mutex[l] # NULL
    BY <1>7, <1>8, <2>1
  <2>3. CASE tail[l] = NULL
    <3>1. /\ head'[l] = mine[x].head /\ UNCHANGED next
          /\ \A m \in Lists : m # l => head'[m] = head[m]
      BY <1>0, <1>9, <2>3 DEF PushBackBatch, Typed
    <3>2. Frame(x)  BY <2>1, <2>2, <3>1 DEF Frame
    <3>3. Halfway(x)'  BY <1>0, <2>1, <2>3, <3>1 DEF Halfway, Ops
    <3>4. Onward(x)  BY <2>1, <2>2, <3>3 DEF Onward
    <3> QED BY <2>2, <3>2, <3>4, InvStepOf
  <2>4. CASE tail[l] # NULL
    <3>1. next' = [next EXCEPT ![tail[l]] = mine[x].head] /\ UNCHANGED head /\ head[l] # NULL
      BY <1>9, <2>1, <2>4 DEF PushBackBatch, set_next, Paired
    <3>2. tail[l] \in Tasks /\ next'[tail[l]] = mine[x].head
          /\ \A p \in Tasks : p # tail[l] => next'[p] = next[p]
      BY <1>0, <2>4, <3>1 DEF Typed, Ptrs
    <3>3. In(tail[l], Contents(l)) /\ pc[x] # "idle"  BY <1>2, <2>1, <2>4, <3>1
    <3>4. Frame(x)  BY <2>1, <2>2, <3>1, <3>2, <3>3 DEF Frame
    <3>5. Halfway(x)'  BY <1>0, <2>1, <2>4, <3>1, <3>2 DEF Halfway, Ops
    <3>6. Onward(x)  BY <2>1, <2>2, <3>5 DEF Onward
    <3> QED BY <2>2, <3>4, <3>6, InvStepOf
  <2> QED BY <2>3, <2>4
<1>10. ASSUME PushFrontBatch(x) PROVE  IInv'
  <2>1. /\ pc[x] = "push_front_batch" /\ Goto(x, "set_head")
        /\ UNCHANGED <<head, mine, at, raw_mutex>>
        /\ pc'[x] = "set_head" /\ mine[x].head # NULL /\ Paired(head[l], tail[l])
    BY <1>0, <1>10 DEF PushFrontBatch, Goto, Typed, Halfway, Ops
  <2>2. /\ Holds(x, l) /\ \A m \in Lists : m # l => ~Holds(x, m)
        /\ \A y \in Threads : y # x => pc'[y] = pc[y]
        /\ \A m \in Lists : raw_mutex'[m] = NULL => raw_mutex[m] \in {NULL, x}
        /\ raw_mutex[l] # NULL
    BY <1>7, <1>8, <2>1
  <2>3. CASE head[l] = NULL
    <3>1. /\ tail'[l] = mine[x].tail /\ UNCHANGED next
          /\ \A m \in Lists : m # l => tail'[m] = tail[m]
      BY <1>0, <1>10, <2>3 DEF PushFrontBatch, is_empty, Typed
    <3>2. Frame(x)  BY <2>1, <2>2, <3>1 DEF Frame
    <3>3. Halfway(x)'  BY <1>0, <2>1, <2>3, <3>1 DEF Halfway, Ops
    <3>4. Onward(x)  BY <2>1, <2>2, <3>3 DEF Onward
    <3> QED BY <2>2, <3>2, <3>4, InvStepOf
  <2>4. CASE head[l] # NULL
    <3>1. /\ next' = [next EXCEPT ![mine[x].tail] = head[l]] /\ UNCHANGED tail
          /\ tail[l] # NULL /\ mine[x].tail # NULL
      BY <1>0, <1>10, <2>1, <2>4 DEF PushFrontBatch, is_empty, LinkLast, set_next, Paired
    <3>2. mine[x].tail \in Tasks /\ next'[mine[x].tail] = head[l]
          /\ \A p \in Tasks : p # mine[x].tail => next'[p] = next[p]
      BY <1>0, <3>1 DEF Typed, Ptrs
    <3>3. In(mine[x].tail, Hand(x))  BY <1>1, <2>1
    <3>4. Frame(x)  BY <2>1, <2>2, <3>1, <3>2, <3>3 DEF Frame
    <3>5. Halfway(x)'  BY <1>0, <2>1, <2>4, <3>1, <3>2 DEF Halfway, Ops
    <3>6. Onward(x)  BY <2>1, <2>2, <3>5 DEF Onward
    <3> QED BY <2>2, <3>4, <3>6, InvStepOf
  <2> QED BY <2>3, <2>4
<1>11. ASSUME SetTail(x) PROVE  IInv'
  <2>1. /\ pc[x] = "set_tail" /\ Unlock(x) /\ UNCHANGED <<head, next, at>>
        /\ pc'[x] = "idle"
        /\ tail'[l] = mine[x].tail /\ \A m \in Lists : m # l => tail'[m] = tail[m]
        /\ mine'[x] = EmptyList /\ \A y \in Threads : y # x => mine'[y] = mine[y]
        /\ mine[x].head # NULL /\ head[l] # NULL /\ mine[x].tail # NULL
    BY <1>0, <1>1, <1>11 DEF SetTail, Unlock, Typed, Halfway
  <2>2. /\ Holds(x, l) /\ \A m \in Lists : m # l => ~Holds(x, m)
        /\ \A y \in Threads : y # x => pc'[y] = pc[y]
        /\ \A m \in Lists : raw_mutex'[m] = NULL => raw_mutex[m] \in {NULL, x}
        /\ raw_mutex[l] # NULL
    BY <1>7, <1>8, <2>1
  <2>3. Frame(x)  BY <2>1, <2>2 DEF Frame
  <2>4. Paired(mine'[x].head, mine'[x].tail) /\ Paired(head'[l], tail'[l])
    BY <2>1, NullIsPtr DEF Paired
  <2>5. Halfway(x)'  BY <2>1, <2>4 DEF Halfway, Ops
  <2>6. Onward(x)  BY <2>2, <2>4, <2>5 DEF Onward
  <2> QED BY <2>2, <2>3, <2>6, InvStepOf
<1>12. ASSUME SetHead(x) PROVE  IInv'
  <2>1. /\ pc[x] = "set_head" /\ Unlock(x) /\ UNCHANGED <<tail, next, at>>
        /\ pc'[x] = "idle"
        /\ head'[l] = mine[x].head /\ \A m \in Lists : m # l => head'[m] = head[m]
        /\ mine'[x] = EmptyList /\ \A y \in Threads : y # x => mine'[y] = mine[y]
        /\ mine[x].head # NULL /\ tail[l] # NULL
    BY <1>0, <1>1, <1>12 DEF SetHead, Unlock, Typed, Halfway
  <2>2. /\ Holds(x, l) /\ \A m \in Lists : m # l => ~Holds(x, m)
        /\ \A y \in Threads : y # x => pc'[y] = pc[y]
        /\ \A m \in Lists : raw_mutex'[m] = NULL => raw_mutex[m] \in {NULL, x}
        /\ raw_mutex[l] # NULL
    BY <1>7, <1>8, <2>1
  <2>3. Frame(x)  BY <2>1, <2>2 DEF Frame
  <2>4. Paired(mine'[x].head, mine'[x].tail) /\ Paired(head'[l], tail'[l])
    BY <2>1, NullIsPtr DEF Paired
  <2>5. Halfway(x)'  BY <2>1, <2>4 DEF Halfway, Ops
  <2>6. Onward(x)  BY <2>2, <2>4, <2>5 DEF Onward
  <2> QED BY <2>2, <2>3, <2>6, InvStepOf
<1>13. ASSUME TakeFront(x) PROVE  IInv'
  <2>1. /\ pc[x] = "pop_front" /\ UNCHANGED <<tail, next, at>> /\ Paired(head[l], tail[l])
        /\ Unlock(x) \/ Goto(x, "clear_tail")
    BY <1>0, <1>13 DEF TakeFront, Halfway, Ops
  <2>2. /\ Holds(x, l) /\ \A m \in Lists : m # l => ~Holds(x, m)
        /\ \A y \in Threads : y # x => pc'[y] = pc[y]
        /\ \A m \in Lists : raw_mutex'[m] = NULL => raw_mutex[m] \in {NULL, x}
        /\ raw_mutex[l] # NULL
    BY <1>7, <1>8, <2>1
  <2>3. CASE head[l] = NULL
    <3>1. Unlock(x) /\ UNCHANGED <<head, mine>> /\ pc'[x] = "idle"
      BY <1>0, <1>13, <2>3 DEF TakeFront, is_empty, Unlock, Typed
    <3>2. Frame(x)  BY <2>1, <2>2, <3>1 DEF Frame
    <3>3. Halfway(x)'  BY <1>0, <2>1, <3>1 DEF Halfway, Ops
    <3>4. Onward(x)  BY <2>1, <2>2, <3>1, <3>3 DEF Onward
    <3> QED BY <2>2, <3>2, <3>4, InvStepOf
  <2>4. CASE head[l] # NULL
    <3> DEFINE after == PopPtrs([head |-> head[l], tail |-> tail[l]])
    <3>1. /\ head'[l] = after.head /\ \A m \in Lists : m # l => head'[m] = head[m]
          /\ mine'[x] = JustOne(head[l]) /\ \A y \in Threads : y # x => mine'[y] = mine[y]
          /\ IF after = EmptyList THEN Goto(x, "clear_tail") ELSE Unlock(x)
      BY <1>0, <1>13, <2>4 DEF TakeFront, is_empty, Typed
    <3>2. head'[l] = NULL <=> head[l] = tail[l]  BY <1>13, <2>4, TakeFrontEffect
    <3>3. head[l] # tail[l] => after # EmptyList
      <4>1. head[l] # tail[l] => after.head # NULL  BY <3>1, <3>2
      <4> HIDE DEF after
      <4> QED BY <4>1, NullIsPtr
    <3>4. Frame(x)  BY <2>1, <2>2, <3>1 DEF Frame
    <3>5. Paired(mine'[x].head, mine'[x].tail)  BY <3>1 DEF JustOne, Paired
    <3>6. CASE head[l] = tail[l]
      <4>1. after = EmptyList  BY <3>6 DEF PopPtrs
      <4>2. Goto(x, "clear_tail")  BY <3>1, <4>1
      <4>3. pc'[x] = "clear_tail" /\ UNCHANGED raw_mutex  BY <1>0, <4>2 DEF Goto, Typed
      <4>4. Halfway(x)'  BY <2>1, <3>2, <3>5, <3>6, <4>3 DEF Halfway, Ops
      <4>5. Onward(x)  BY <2>2, <4>3, <4>4 DEF Onward
      <4> QED BY <2>2, <3>4, <4>5, InvStepOf
    <3>7. CASE head[l] # tail[l]
      <4>1. Unlock(x)  BY <3>1, <3>3, <3>7
      <4>2. pc'[x] = "idle"  BY <1>0, <4>1 DEF Unlock, Typed
      <4>3. Halfway(x)'  BY <2>1, <3>5, <4>2 DEF Halfway, Ops
      <4>4. Paired(head'[l], tail'[l])  BY <2>1, <2>4, <3>2, <3>7 DEF Paired
      <4>5. Onward(x)  BY <2>2, <4>3, <4>4 DEF Onward
      <4> QED BY <2>2, <3>4, <4>5, InvStepOf
    <3> QED BY <3>6, <3>7
  <2> QED BY <2>3, <2>4
<1>14. ASSUME TakeAll(x) PROVE  IInv'
  <2>1. /\ pc[x] = "pop_all" /\ UNCHANGED <<tail, at>> /\ Paired(head[l], tail[l])
        /\ Unlock(x) \/ Goto(x, "clear_tail")
    BY <1>0, <1>14 DEF TakeAll, Halfway, Ops
  <2>2. /\ Holds(x, l) /\ \A m \in Lists : m # l => ~Holds(x, m)
        /\ \A y \in Threads : y # x => pc'[y] = pc[y]
        /\ \A m \in Lists : raw_mutex'[m] = NULL => raw_mutex[m] \in {NULL, x}
        /\ raw_mutex[l] # NULL
    BY <1>7, <1>8, <2>1
  <2>3. CASE head[l] = NULL
    <3>1. Unlock(x) /\ UNCHANGED <<head, mine, next>> /\ pc'[x] = "idle"
      BY <1>0, <1>14, <2>3 DEF TakeAll, is_empty, Unlock, Typed
    <3>2. Frame(x)  BY <2>1, <2>2, <3>1 DEF Frame
    <3>3. Halfway(x)'  BY <1>0, <2>1, <3>1 DEF Halfway, Ops
    <3>4. Onward(x)  BY <2>1, <2>2, <3>1, <3>3 DEF Onward
    <3> QED BY <2>2, <3>2, <3>4, InvStepOf
  <2>4. CASE head[l] # NULL
    <3> DEFINE list == [head |-> head[l], tail |-> tail[l]]
    <3>1. /\ head'[l] = NULL /\ \A m \in Lists : m # l => head'[m] = head[m]
          /\ AppendMine(x, list) /\ pc'[x] = "clear_tail" /\ UNCHANGED raw_mutex
      BY <1>0, <1>14, <2>4 DEF TakeAll, is_empty, Goto, Typed
    <3>2. list.head # NULL /\ list.tail # NULL  BY <2>1, <2>4 DEF Paired
    <3>3. /\ Paired(mine'[x].head, mine'[x].tail)
          /\ \A y \in Threads : y # x => mine'[y] = mine[y]
          /\ \A p \in Tasks : next'[p] = next[p] \/ In(p, Hand(x))
      <4> HIDE DEF list
      <4> QED BY <1>3, <3>1, <3>2
    <3>4. Frame(x)  BY <2>1, <2>2, <3>1, <3>3 DEF Frame
    <3>5. Halfway(x)'  BY <2>1, <3>1, <3>3 DEF Halfway, Ops
    <3>6. Onward(x)  BY <2>2, <3>1, <3>5 DEF Onward
    <3> QED BY <2>2, <3>4, <3>6, InvStepOf
  <2> QED BY <2>3, <2>4
<1>15. ASSUME ClearTail(x) PROVE  IInv'
  <2>1. /\ pc[x] = "clear_tail" /\ Unlock(x) /\ UNCHANGED <<head, next, mine, at>>
        /\ pc'[x] = "idle" /\ head[l] = NULL
        /\ tail'[l] = NULL /\ \A m \in Lists : m # l => tail'[m] = tail[m]
    BY <1>0, <1>15 DEF ClearTail, Unlock, Typed, Halfway
  <2>2. /\ Holds(x, l) /\ \A m \in Lists : m # l => ~Holds(x, m)
        /\ \A y \in Threads : y # x => pc'[y] = pc[y]
        /\ \A m \in Lists : raw_mutex'[m] = NULL => raw_mutex[m] \in {NULL, x}
        /\ raw_mutex[l] # NULL
    BY <1>7, <1>8, <2>1
  <2>3. Frame(x)  BY <2>1, <2>2 DEF Frame
  <2>4. Halfway(x)'  BY <1>0, <2>1 DEF Halfway, Ops
  <2>5. Paired(head'[l], tail'[l])  BY <2>1 DEF Paired
  <2>6. Onward(x)  BY <2>2, <2>4, <2>5 DEF Onward
  <2> QED BY <2>2, <2>3, <2>6, InvStepOf
<1> QED BY <1>4, <1>5, <1>6, <1>9, <1>10, <1>11, <1>12, <1>13, <1>14, <1>15

LEMMA InvStep == IInv /\ [Next]_vars => IInv'
<1> SUFFICES ASSUME IInv, [Next]_vars PROVE  IInv'  OBVIOUS
<1>1. TypeOK  BY DEF IInv
<1>2. Typed' /\ Exclusive'  BY <1>1, TypedStep, ExclusiveStep
<1>3. AllLinked' /\ AllApart'  BY ApartStep
<1>4. CASE Next  BY <1>2, <1>3, <1>4, StepGoesOn DEF Next
<1>5. CASE UNCHANGED vars
  BY <1>5 DEF vars, IInv, TypeOK, WellLinked, AllLinked, AllApart, Contents, Hand,
              InBetween, Halfway
<1> QED BY <1>4, <1>5

LEMMA InitInv == Init => IInv
<1> SUFFICES ASSUME Init PROVE  IInv  OBVIOUS
<1> USE NullIsPtr
<1>1. /\ \A l \in Lists : head[l] = NULL /\ tail[l] = NULL /\ raw_mutex[l] = NULL
      /\ \A x \in Threads : mine[x].head = NULL /\ mine[x].tail = NULL /\ pc[x] = "idle"
  BY DEF Init
<1>2. TypeOK
  <2>1. Typed  BY DEF Init, Typed, PCs
  <2>2. Exclusive  BY <1>1 DEF Exclusive
  <2> QED BY <2>1, <2>2, TypeParts
<1>3. /\ \A l \in Lists : Contents(l) = <<>> /\ Linked(next, head[l], tail[l])
      /\ \A x \in Threads : Hand(x) = <<>> /\ Linked(next, mine[x].head, mine[x].tail)
  BY <1>1, NoPath DEF Contents, Hand
<1>4. WellLinked  BY <1>1, <1>3, InEmpty DEF WellLinked, AllLinked, AllApart, Apart
<1>5. InBetween  BY <1>1 DEF InBetween, Halfway, Paired, Ops
<1> QED BY <1>2, <1>4, <1>5 DEF IInv

-----------------------------------------------------------------------------
\* The inductive invariant: types and mutexes, well linked lists, and what the
\* operation that each thread is in has written so far.
THEOREM Invariance == Spec => []IInv
<1> QED BY InitInv, InvStep, PTL DEF Spec

\* Every variable stays within its type, and a SyncTaskList is only locked by the
\* one thread that is between lock() and the drop of its guard.
THEOREM TypeCorrect == Spec => []TypeOK
<1>1. IInv => TypeOK  BY DEF IInv
<1> QED BY <1>1, Invariance, PTL

\* However tasks move between any number of lists with stale next pointers in
\* them, every list leads from its head to its tail without a repetition, and
\* no task is on two lists.
THEOREM ListsWellLinked == Spec => []WellLinked
<1>1. IInv => WellLinked  BY DEF IInv
<1> QED BY <1>1, Invariance, PTL

\* Between the two writes of a push, or of the pop of the last task, the list has
\* exactly the pointers that the second write completes, whoever else runs.
THEOREM HalfwayPointers == Spec => []InBetween
<1>1. IInv => InBetween  BY DEF IInv
<1> QED BY <1>1, Invariance, PTL

-----------------------------------------------------------------------------
(* The refinement.                                                         *)

\* A step that moves tasks as an operation of TaskQueue does.
LEMMA MovesBecome ==
  ASSUME NEW x \in Threads, NEW l \in Lists, NEW q, NEW h, Moves(x, l, q, h)
  PROVE  /\ AllContents' = [AllContents EXCEPT ![l] = q]
         /\ AllHands' = [AllHands EXCEPT ![x] = h]
<1>1. \A m \in Lists : Contents(m)' = IF m = l THEN q ELSE Contents(m)  BY DEF Moves
<1>2. \A y \in Threads : Hand(y)' = IF y = x THEN h ELSE Hand(y)  BY DEF Moves
<1> QED BY <1>1, <1>2 DEF AllContents, AllHands

LEMMA QueueStep ==
  ASSUME IInv, [Next]_vars
  PROVE  [Queues!Next]_<<AllContents, AllHands>>
<1>1. ASSUME NEW x \in Threads
      PROVE  /\ at[x] \in Lists /\ AllContents[at[x]] = Contents(at[x])
             /\ AllHands[x] = Hand(x)
             /\ Hand(x) \in Seq(Tasks)
  BY <1>1, InvParts, PathSeq DEF AllContents, AllHands, AllLinked, Hand
<1>2. ASSUME NEW x \in Threads, Moves(x, at[x], Contents(at[x]), Hand(x))
      PROVE  UNCHANGED <<AllContents, AllHands>>
  <2>1. /\ AllContents' = [AllContents EXCEPT ![at[x]] = Contents(at[x])]
        /\ AllHands' = [AllHands EXCEPT ![x] = Hand(x)]
    BY <1>1, <1>2, MovesBecome
  <2> QED BY <1>1, <2>1 DEF AllContents, AllHands
<1>3. ASSUME NEW x \in Threads, NEW q, Moves(x, at[x], Contents(at[x]), q)
      PROVE  UNCHANGED AllContents /\ AllHands' = [AllHands EXCEPT ![x] = q]
  <2>1. /\ AllContents' = [AllContents EXCEPT ![at[x]] = Contents(at[x])]
        /\ AllHands' = [AllHands EXCEPT ![x] = q]
    BY <1>1, <1>3, MovesBecome
  <2> QED BY <1>1, <2>1 DEF AllContents
<1>4. ASSUME NEW x \in Threads, NEW t \in Tasks, NewTask(x, t) PROVE  Queues!Next
  <2>1. UNCHANGED AllContents /\ AllHands' = [AllHands EXCEPT ![x] = Hand(x) \o <<t>>]
    BY <1>3, <1>4, NewTaskEffect
  <2>2. Append(Hand(x), t) = Hand(x) \o <<t>>  BY <1>1, AppendIsConcat
  <2>3. Queues!push_back(x, t)  BY <1>1, <2>1, <2>2 DEF Queues!push_back
  <2> QED BY <2>3 DEF Queues!Next
<1>5. ASSUME NEW x \in Threads, NEW l \in Lists, NEW op \in Ops, Lock(x, l, op)
      PROVE  UNCHANGED <<AllContents, AllHands>>
  BY <1>2, <1>5, LockEffect
<1>6. ASSUME NEW x \in Threads, NextMine(x) PROVE  Queues!Next
  <2>1. /\ UNCHANGED AllContents /\ AllHands' = [AllHands EXCEPT ![x] = Tail(Hand(x))]
        /\ Hand(x) # <<>>
    BY <1>3, <1>6, NextMineEffect
  <2>2. Queues!into_iter(x)  BY <1>1, <2>1 DEF Queues!into_iter
  <2> QED BY <2>2 DEF Queues!Next
<1>7. ASSUME NEW x \in Threads, PushBackBatch(x) PROVE  UNCHANGED <<AllContents, AllHands>>
  BY <1>2, <1>7, PushBackEffect
<1>8. ASSUME NEW x \in Threads, SetTail(x) PROVE  Queues!Next
  <2>1. /\ AllContents' = [AllContents EXCEPT ![at[x]] = Contents(at[x]) \o Hand(x)]
        /\ AllHands' = [AllHands EXCEPT ![x] = <<>>] /\ Hand(x) # <<>>
    <3> DEFINE q == Contents(at[x]) \o Hand(x)
    <3>1. Moves(x, at[x], q, <<>>) /\ Hand(x) # <<>>  BY <1>8, SetTailEffect
    <3> HIDE DEF q
    <3>2. AllContents' = [AllContents EXCEPT ![at[x]] = q]
          /\ AllHands' = [AllHands EXCEPT ![x] = <<>>]
      BY <1>1, <3>1, MovesBecome
    <3> QED BY <3>1, <3>2 DEF q
  <2>2. Queues!push_back_batch(x, at[x])
    BY <1>1, <2>1 DEF Queues!push_back_batch, Queues!Become
  <2> QED BY <1>1, <2>2 DEF Queues!Next
<1>9. ASSUME NEW x \in Threads, PushFrontBatch(x) PROVE  UNCHANGED <<AllContents, AllHands>>
  BY <1>2, <1>9, PushFrontEffect
<1>10. ASSUME NEW x \in Threads, SetHead(x) PROVE  Queues!Next
  <2>1. /\ AllContents' = [AllContents EXCEPT ![at[x]] = Hand(x) \o Contents(at[x])]
        /\ AllHands' = [AllHands EXCEPT ![x] = <<>>] /\ Hand(x) # <<>>
    <3> DEFINE q == Hand(x) \o Contents(at[x])
    <3>1. Moves(x, at[x], q, <<>>) /\ Hand(x) # <<>>  BY <1>10, SetHeadEffect
    <3> HIDE DEF q
    <3>2. AllContents' = [AllContents EXCEPT ![at[x]] = q]
          /\ AllHands' = [AllHands EXCEPT ![x] = <<>>]
      BY <1>1, <3>1, MovesBecome
    <3> QED BY <3>1, <3>2 DEF q
  <2>2. Queues!push_front_batch(x, at[x])
    BY <1>1, <2>1 DEF Queues!push_front_batch, Queues!Become
  <2> QED BY <1>1, <2>2 DEF Queues!Next
<1>11. ASSUME NEW x \in Threads, UNCHANGED <<head, tail, mine, next>>
       PROVE  UNCHANGED <<AllContents, AllHands>>
  BY <1>11 DEF AllContents, AllHands, Contents, Hand
<1>12. ASSUME NEW x \in Threads, TakeFront(x)
       PROVE  Queues!Next \/ UNCHANGED <<AllContents, AllHands>>
  <2>1. CASE head[at[x]] = NULL  BY <1>11, <1>12, <2>1 DEF TakeFront, is_empty
  <2>2. CASE head[at[x]] # NULL
    <3>1. /\ Moves(x, at[x], Tail(Contents(at[x])), <<Head(Contents(at[x]))>>)
          /\ Contents(at[x]) # <<>> /\ Hand(x) = <<>>
      BY <1>12, <2>2, TakeFrontEffect
    <3>2. /\ AllContents' = [AllContents EXCEPT ![at[x]] = Tail(Contents(at[x]))]
          /\ AllHands' = [AllHands EXCEPT ![x] = <<Head(Contents(at[x]))>>]
      <4> DEFINE q == Tail(Contents(at[x]))
                 h == <<Head(Contents(at[x]))>>
      <4>1. Moves(x, at[x], q, h)  BY <3>1
      <4> HIDE DEF q, h
      <4>2. AllContents' = [AllContents EXCEPT ![at[x]] = q]
            /\ AllHands' = [AllHands EXCEPT ![x] = h]
        BY <1>1, <4>1, MovesBecome
      <4> QED BY <4>2 DEF q, h
    <3>3. Queues!pop_front(x, at[x])
      BY <1>1, <3>1, <3>2 DEF Queues!pop_front, Queues!Become
    <3> QED BY <1>1, <3>3 DEF Queues!Next
  <2> QED BY <2>1, <2>2
<1>13. ASSUME NEW x \in Threads, TakeAll(x)
       PROVE  Queues!Next \/ UNCHANGED <<AllContents, AllHands>>
  <2>1. CASE head[at[x]] = NULL  BY <1>11, <1>13, <2>1 DEF TakeAll, is_empty
  <2>2. CASE head[at[x]] # NULL
    <3>1. /\ AllContents' = [AllContents EXCEPT ![at[x]] = <<>>]
          /\ AllHands' = [AllHands EXCEPT ![x] = Hand(x) \o Contents(at[x])]
          /\ Contents(at[x]) # <<>>
      <4> DEFINE h == Hand(x) \o Contents(at[x])
      <4>1. Moves(x, at[x], <<>>, h) /\ Contents(at[x]) # <<>>
        BY <1>13, <2>2, TakeAllEffect
      <4> HIDE DEF h
      <4>2. AllContents' = [AllContents EXCEPT ![at[x]] = <<>>]
            /\ AllHands' = [AllHands EXCEPT ![x] = h]
        BY <1>1, <4>1, MovesBecome
      <4> QED BY <4>1, <4>2 DEF h
    <3>2. Queues!pop_all(x, at[x])  BY <1>1, <3>1 DEF Queues!pop_all, Queues!Become
    <3> QED BY <1>1, <3>2 DEF Queues!Next
  <2> QED BY <2>1, <2>2
<1>14. ASSUME NEW x \in Threads, ClearTail(x) PROVE  UNCHANGED <<AllContents, AllHands>>
  BY <1>2, <1>14, ClearTailEffect
<1>15. CASE UNCHANGED vars
  BY <1>15 DEF vars, AllContents, AllHands, Contents, Hand
<1>16. CASE Next
  BY <1>4, <1>5, <1>6, <1>7, <1>8, <1>9, <1>10, <1>12, <1>13, <1>14, <1>16 DEF Next
<1> QED BY <1>15, <1>16

\* The intrusive lists implement the sequences of module TaskQueue: each operation
\* takes effect at one of its writes, as its comment says.
THEOREM ListsAreQueues == Spec => QueueSpec
<1>1. Init => Queues!Init
  <2> SUFFICES ASSUME Init PROVE  Queues!Init  OBVIOUS
  <2>1. /\ \A l \in Lists : head[l] = NULL
        /\ \A x \in Threads : mine[x].head = NULL
    BY NullIsPtr DEF Init
  <2>2. (\A l \in Lists : Contents(l) = <<>>) /\ (\A x \in Threads : Hand(x) = <<>>)
    BY <2>1, NoPath DEF Contents, Hand
  <2> QED BY <2>2 DEF Queues!Init, AllContents, AllHands
<1> QED BY <1>1, QueueStep, Invariance, PTL DEF Spec, QueueSpec, Queues!Spec
=============================================================================
