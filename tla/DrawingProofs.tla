---------------------------- MODULE DrawingProofs ----------------------------
(***************************************************************************)
(* What holds of the drawing of every board, for any tree of modules, any   *)
(* parts, pins and nets, and whatever the packer does:                      *)
(*                                                                          *)
(*   - the room a tool is offered is free (SpaceCorrect): who is passed in  *)
(*     the sweep stays passed;                                              *)
(*   - a save-all changes nothing but the part that moved (MovesCorrect):   *)
(*     the packer's stubs and boxes are the file's;                         *)
(*   - every pin has a label or a wire (PinsCorrect): a net that is wired   *)
(*     is a trunk with taps that end on it, and the stubs that are dropped  *)
(*     get their labels back;                                               *)
(*   - wires can be drawn (WiresCorrect): a chain is one line of straight   *)
(*     edges, and hops are pieces of an edge, one behind the other.         *)
(*                                                                          *)
(* First come the facts about numbers, sequences and folds that these need. *)
(***************************************************************************)
EXTENDS Drawing, FiniteSetTheorems, SequenceTheorems, WellFoundedInduction, TLAPS

-----------------------------------------------------------------------------
(* Induction and recursion *)

\* Any naturals have a smallest.
LEMMA Smallest == ASSUME NEW S \in SUBSET Nat, S # {} PROVE \E n \in S : \A m \in S : n <= m
<1> DEFINE R == {p \in Nat \X Nat : p[1] < p[2]}
<1>1. IsWellFoundedOn(R, Nat)
  BY NatLessThanWellFounded DEF OpToRel
<1>2. PICK n \in S : \A m \in S : ~(<<m, n>> \in R)
  <2> HIDE DEF R
  <2> QED BY <1>1, WFMin
<1>3. ASSUME NEW m \in S PROVE n <= m
  <2>1. <<m, n>> \notin R
    BY <1>2
  <2>2. ~(m < n)
    BY <2>1
  <2> QED BY <2>2
<1> QED BY <1>3

\* What holds of zero and from each number to the next holds of all.
LEMMA Upward ==
    ASSUME NEW P, 0 \in P, \A n \in Nat : n \in P => n + 1 \in P
    PROVE  Nat \subseteq P
<1>1. SUFFICES ASSUME NEW k \in Nat, k \notin P PROVE FALSE
  OBVIOUS
<1>2. PICK n \in Nat \ P : \A m \in Nat \ P : n <= m
  BY <1>1, Smallest
<1>3. n # 0 /\ n - 1 \in Nat
  BY <1>2
<1>4. n - 1 \in P
  BY <1>2, <1>3
<1> QED BY <1>2, <1>3, <1>4

\* ... and what holds of the empty set, and of a set if it does of the set without the
\* one a fold takes from it, of every finite set.
LEMMA Bysets ==
    ASSUME NEW S, IsFiniteSet(S), NEW P,
           NEW pick, \A s \in SUBSET S : s # {} => pick[s] \in s,
           {} \in P, \A s \in SUBSET S : s # {} /\ s \ {pick[s]} \in P => s \in P
    PROVE  SUBSET S \subseteq P
<1> DEFINE Q == {n \in Nat : \A s \in SUBSET S : Cardinality(s) = n => s \in P}
<1>1. \A s \in SUBSET S : IsFiniteSet(s) /\ Cardinality(s) \in Nat
  BY FS_Subset, FS_CardinalityType
<1>2. 0 \in Q
  BY <1>1, FS_EmptySet
<1>3. ASSUME NEW n \in Nat, n \in Q PROVE n + 1 \in Q
  <2>1. SUFFICES ASSUME NEW s \in SUBSET S, Cardinality(s) = n + 1 PROVE s \in P
    OBVIOUS
  <2>2. s # {} /\ pick[s] \in s
    <3> HIDE DEF Q
    <3>1. Cardinality({}) = 0
      BY FS_EmptySet
    <3>2. n + 1 # 0
      OBVIOUS
    <3>3. s # {}
      BY <2>1, <3>1, <3>2
    <3> QED BY <3>3
  <2>3. Cardinality(s \ {pick[s]}) = n
    <3>1. IsFiniteSet(s)
      BY <1>1
    <3>2. Cardinality(s \ {pick[s]}) = Cardinality(s) - 1
      BY <2>2, <3>1, FS_RemoveElement
    <3> QED BY <2>1, <3>2
  <2>4. s \ {pick[s]} \in P
    BY <1>3, <2>3
  <2> QED BY <2>2, <2>4
<1>4. Nat \subseteq Q
  <2> HIDE DEF Q
  <2> QED BY <1>2, <1>3, Upward
<1> QED BY <1>1, <1>4

\* step computes a function on D from what it is at smaller ranks.
IsRecursion(D, V, rank, K, step) ==
    /\ V # {} /\ K \in Nat /\ rank \in [D -> Nat] /\ \A x \in D : rank[x] <= K
    /\ step \in [D \X [D -> V] -> V]
    /\ \A x \in D, f, g \in [D -> V] :
          (\A y \in D : rank[y] < rank[x] => f[y] = g[y]) => step[<<x, f>>] = step[<<x, g>>]

\* A function defined by recursion towards smaller ranks exists.
LEMMA RecursionExists ==
    ASSUME NEW D, NEW V, NEW rank, NEW K, NEW step, IsRecursion(D, V, rank, K, step)
    PROVE  \E f \in [D -> V] : \A x \in D : f[x] = step[<<x, f>>]
<1> USE DEF IsRecursion
<1> DEFINE A(k) == {f \in [D -> V] : \A x \in D : rank[x] < k => f[x] = step[<<x, f>>]}
           T == {k \in Nat : A(k) # {}}
<1>1. 0 \in T
  <2>1. PICK v \in V : TRUE
    OBVIOUS
  <2>2. [x \in D |-> v] \in A(0)
    OBVIOUS
  <2> QED BY <2>2
<1>2. ASSUME NEW k \in Nat, k \in T PROVE k + 1 \in T
  <2>1. PICK f \in A(k) : TRUE
    BY <1>2
  <2> DEFINE g == [x \in D |-> step[<<x, f>>]]
  <2>2. g \in [D -> V]
    OBVIOUS
  <2>3. ASSUME NEW x \in D, rank[x] < k + 1 PROVE g[x] = step[<<x, g>>]
    <3>1. \A y \in D : rank[y] < rank[x] => f[y] = g[y]
      BY <2>1, <2>3
    <3>2. step[<<x, f>>] = step[<<x, g>>]
      <4> HIDE DEF g
      <4> QED BY <3>1, <2>1, <2>2
    <3> QED BY <3>2
  <2>4. g \in A(k + 1)
    <3> HIDE DEF g
    <3> QED BY <2>2, <2>3
  <2> HIDE DEF A
  <2> QED BY <2>4
<1>3. K + 1 \in T
  <2> HIDE DEF T
  <2> QED BY <1>1, <1>2, Upward
<1>4. PICK f \in A(K + 1) : TRUE
  BY <1>3
<1> QED BY <1>4

-----------------------------------------------------------------------------
(* Orders *)

Precede(S, R, i) == {j \in S : <<j, i>> \in R}

IsOrder(S, R) ==
    /\ \A i \in S : <<i, i>> \notin R
    /\ \A i, j, k \in S : <<i, j>> \in R /\ <<j, k>> \in R => <<i, k>> \in R
    /\ \A i, j \in S : i = j \/ <<i, j>> \in R \/ <<j, i>> \in R

\* In a finite order somebody has any number of others before them.
LEMMA NthExists ==
    ASSUME NEW S, IsFiniteSet(S), NEW R, IsOrder(S, R), NEW n \in 0..Cardinality(S) - 1
    PROVE  \E i \in S : Cardinality(Precede(S, R, i)) = n
<1> DEFINE N == Cardinality(S)
           c(i) == Cardinality(Precede(S, R, i))
           f == [i \in S |-> c(i)]
<1>1. N \in Nat
  BY FS_CardinalityType
<1>2. ASSUME NEW i \in S
      PROVE  /\ IsFiniteSet(Precede(S, R, i)) /\ c(i) \in Nat /\ c(i) <= N - 1
             /\ IsFiniteSet(Precede(S, R, i) \union {i})
             /\ Cardinality(Precede(S, R, i) \union {i}) = c(i) + 1
  <2>1. Precede(S, R, i) \subseteq S \ {i}
    BY DEF Precede, IsOrder
  <2>2. IsFiniteSet(S \ {i}) /\ Cardinality(S \ {i}) = N - 1
    BY FS_RemoveElement
  <2>3. IsFiniteSet(Precede(S, R, i)) /\ Cardinality(Precede(S, R, i)) <= N - 1
    BY <2>1, <2>2, FS_Subset
  <2>4. Cardinality(Precede(S, R, i)) \in Nat
    BY <2>3, FS_CardinalityType
  <2>5. i \notin Precede(S, R, i)
    BY <2>1
  <2>6. /\ IsFiniteSet(Precede(S, R, i) \union {i})
        /\ Cardinality(Precede(S, R, i) \union {i}) = Cardinality(Precede(S, R, i)) + 1
    BY <2>3, <2>5, FS_AddElement
  <2> QED BY <1>1, <2>3, <2>4, <2>6
<1>3. ASSUME NEW i \in S, NEW j \in S, <<i, j>> \in R
      PROVE  c(i) + 1 <= c(j)
  <2>1. Precede(S, R, i) \union {i} \subseteq Precede(S, R, j)
    BY <1>3 DEF Precede, IsOrder
  <2>2. IsFiniteSet(Precede(S, R, j))
    BY <1>2
  <2>3. Cardinality(Precede(S, R, i) \union {i}) <= Cardinality(Precede(S, R, j))
    BY <2>1, <2>2, FS_Subset
  <2>4. Cardinality(Precede(S, R, i) \union {i}) = c(i) + 1
    BY <1>2
  <2> QED BY <2>3, <2>4
<1> HIDE DEF N, c
<1>4. f \in [S -> 0..N - 1]
  <2>1. ASSUME NEW i \in S PROVE c(i) \in 0..N - 1
    <3>1. c(i) \in Nat /\ c(i) <= N - 1
      BY <1>2
    <3> QED BY <1>1, <3>1
  <2> QED BY <2>1
<1>5. \A i, j \in S : f[i] = f[j] => i = j
  <2> SUFFICES ASSUME NEW i \in S, NEW j \in S, f[i] = f[j], i # j PROVE FALSE
    OBVIOUS
  <2>1. <<i, j>> \in R \/ <<j, i>> \in R
    BY DEF IsOrder
  <2>2. c(i) = c(j) /\ c(i) \in Nat
    BY <1>2
  <2> QED BY <1>3, <2>1, <2>2
<1>6. f \in Injection(S, 0..N - 1)
  <2> HIDE DEF f
  <2> QED BY <1>4, <1>5 DEF Injection, IsInjective
<1>7. IsFiniteSet(0..N - 1) /\ Cardinality(0..N - 1) = N
  BY <1>1, FS_Interval
<1>8. f \in Surjection(S, 0..N - 1)
  <2> HIDE DEF f
  <2> QED BY <1>6, <1>7, FS_Injection DEF N
<1>9. PICK i \in S : f[i] = n
  <2> HIDE DEF f
  <2> QED BY <1>8 DEF Surjection, N
<1> QED BY <1>9 DEF c

\* Who has nobody before them is before all others, and who has all but one before them
\* is behind them.
LEMMA Outermost ==
    ASSUME NEW S, IsFiniteSet(S), NEW R, IsOrder(S, R), NEW i \in S
    PROVE  /\ Cardinality(Precede(S, R, i)) = 0 => \A j \in S \ {i} : <<i, j>> \in R
           /\ Cardinality(Precede(S, R, i)) = Cardinality(S) - 1 => \A j \in S \ {i} : <<j, i>> \in R
<1>1. Precede(S, R, i) \subseteq S \ {i}
  BY DEF Precede, IsOrder
<1>2. IsFiniteSet(S \ {i}) /\ Cardinality(S \ {i}) = Cardinality(S) - 1
  BY FS_RemoveElement
<1>3. ASSUME Cardinality(Precede(S, R, i)) = 0 PROVE \A j \in S \ {i} : <<i, j>> \in R
  <2>1. IsFiniteSet(Precede(S, R, i))
    BY <1>1, <1>2, FS_Subset
  <2>2. Precede(S, R, i) = {}
    BY <1>3, <2>1, FS_EmptySet
  <2> QED BY <2>2 DEF Precede, IsOrder
<1>4. ASSUME Cardinality(Precede(S, R, i)) = Cardinality(S) - 1
      PROVE  \A j \in S \ {i} : <<j, i>> \in R
  <2>1. Precede(S, R, i) = S \ {i}
    BY <1>1, <1>2, <1>4, FS_Subset
  <2> QED BY <2>1 DEF Precede
<1> QED BY <1>3, <1>4

-----------------------------------------------------------------------------
(* Sequences put together *)

\* FlattenSeq goes through the sequences one by one.
LEMMA FlattenIs ==
    ASSUME NEW E, NEW ss \in Seq(Seq(E)), ss # <<>>
    PROVE  \E f \in [1..Len(ss) -> Seq(E)] :
              /\ f[1] = ss[1] /\ \A i \in 2..Len(ss) : f[i] = f[i - 1] \o ss[i]
              /\ FlattenSeq(ss) = f[Len(ss)]
<1> DEFINE D == 1..Len(ss)
           V == Seq(E)
           rank == [i \in D |-> i]
           step == [p \in D \X [D -> V] |-> IF p[1] = 1 THEN ss[1] ELSE p[2][p[1] - 1] \o ss[p[1]]]
           F(f) == [i \in D |-> IF i = 1 THEN ss[i] ELSE f[i - 1] \o ss[i]]
<1>1. Len(ss) \in Nat /\ Len(ss) >= 1 /\ \A i \in D : ss[i] \in V
  OBVIOUS
<1>2. \A x \in D : x # 1 => x - 1 \in D
  BY <1>1
<1>3. V # {}
  <2>1. <<>> \in V
    OBVIOUS
  <2> QED BY <2>1
<1>4. rank \in [D -> Nat] /\ \A x \in D : rank[x] <= Len(ss)
  OBVIOUS
<1>5. step \in [D \X [D -> V] -> V]
  <2>1. ASSUME NEW x \in D, NEW f \in [D -> V]
        PROVE  (IF x = 1 THEN ss[1] ELSE f[x - 1] \o ss[x]) \in V
    <3>1. CASE x = 1
      BY <1>1, <3>1
    <3>2. CASE x # 1
      <4>1. f[x - 1] \in V /\ ss[x] \in V
        BY <1>1, <1>2, <3>2
      <4> QED BY <3>2, <4>1
    <3> QED BY <3>1, <3>2
  <2> HIDE DEF D, V
  <2> QED BY <2>1
<1>6. ASSUME NEW x \in D, NEW f \in [D -> V], NEW g \in [D -> V],
             \A y \in D : rank[y] < rank[x] => f[y] = g[y]
      PROVE  step[<<x, f>>] = step[<<x, g>>]
  <2>1. x # 1 => f[x - 1] = g[x - 1]
    BY <1>2, <1>6
  <2> QED BY <2>1
<1>7. PICK f \in [D -> V] : \A x \in D : f[x] = step[<<x, f>>]
  <2> HIDE DEF D, V, rank, step
  <2>1. IsRecursion(D, V, rank, Len(ss), step)
    BY <1>1, <1>3, <1>4, <1>5, <1>6 DEF IsRecursion
  <2> QED BY <2>1, RecursionExists
<1>8. f = F(f)
  <2>1. \A x \in D : f[x] = IF x = 1 THEN ss[x] ELSE f[x - 1] \o ss[x]
    <3> HIDE DEF D, V
    <3> QED BY <1>7
  <2> HIDE DEF D, V
  <2> QED BY <2>1
<1> DEFINE g == CHOOSE h : h = F(h)
<1>9. g = F(g)
  <2> HIDE DEF F
  <2> QED BY <1>8
<1>10. FlattenSeq(ss) = g[Len(ss)]
  BY <1>1 DEF FlattenSeq
<1> HIDE DEF g
<1>11. /\ DOMAIN g = D
       /\ \A i \in D : g[i] = IF i = 1 THEN ss[i] ELSE g[i - 1] \o ss[i]
  BY <1>9
<1>12. \A i \in D : g[i] \in V
  <2> DEFINE P == {k \in Nat : k + 1 \in D => g[k + 1] \in V}
  <2>1. 0 \in P
    <3>1. 1 \in D /\ 0 + 1 = 1
      BY <1>1
    <3>2. g[1] \in V
      BY <1>1, <1>11, <3>1
    <3> QED BY <3>1, <3>2
  <2>2. ASSUME NEW k \in Nat, k \in P PROVE k + 1 \in P
    <3> SUFFICES ASSUME k + 2 \in D PROVE g[k + 2] \in V
      OBVIOUS
    <3>1. k + 1 \in D /\ k + 2 # 1 /\ (k + 2) - 1 = k + 1
      OBVIOUS
    <3>2. g[k + 2] = g[k + 1] \o ss[k + 2]
      BY <1>11, <3>1
    <3>3. g[k + 1] \in V /\ ss[k + 2] \in V
      BY <1>1, <2>2, <3>1
    <3> QED BY <3>2, <3>3
  <2>3. Nat \subseteq P
    <3> HIDE DEF P
    <3> QED BY <2>1, <2>2, Upward
  <2>4. ASSUME NEW i \in D PROVE g[i] \in V
    <3>1. i - 1 \in Nat /\ (i - 1) + 1 = i
      OBVIOUS
    <3> QED BY <2>3, <3>1
  <2> QED BY <2>4
<1>13. g \in [D -> V]
  BY <1>9, <1>11, <1>12
<1>14. g[1] = ss[1]
  <2>1. 1 \in D
    BY <1>1
  <2> HIDE DEF D
  <2> QED BY <1>11, <2>1
<1>15. ASSUME NEW i \in 2..Len(ss) PROVE g[i] = g[i - 1] \o ss[i]
  <2>1. i \in D /\ i # 1
    OBVIOUS
  <2> HIDE DEF D
  <2> QED BY <1>11, <2>1
<1> QED BY <1>10, <1>13, <1>14, <1>15

Segments == [from : Places, to : Places, hop : BOOLEAN]

IsPath(s, a, b) ==
    /\ s \in Seq(Segments)
    /\ s = <<>> => a = b
    /\ s # <<>> => s[1].from = a /\ s[Len(s)].to = b
    /\ \A i \in 1..Len(s) - 1 : s[i].to = s[i + 1].from

\* Paths that meet make a path.
LEMMA PathsJoin ==
    ASSUME NEW s, NEW t, NEW a, NEW b, NEW c, IsPath(s, a, b), IsPath(t, b, c)
    PROVE  IsPath(s \o t, a, c) /\ Range(s \o t) = Range(s) \union Range(t)
<1> DEFINE u == s \o t
<1>1. s \in Seq(Segments) /\ t \in Seq(Segments)
  BY DEF IsPath
<1>2. /\ u \in Seq(Segments) /\ Len(u) = Len(s) + Len(t)
      /\ \A i \in 1..Len(s) + Len(t) : u[i] = IF i <= Len(s) THEN s[i] ELSE t[i - Len(s)]
  BY <1>1, ConcatProperties
<1>3. Len(s) \in Nat /\ Len(t) \in Nat /\ DOMAIN s = 1..Len(s) /\ DOMAIN t = 1..Len(t) /\ DOMAIN u = 1..Len(u)
  BY <1>1, <1>2, LenProperties
<1> HIDE DEF u
<1>4. \A i \in 1..Len(s) : u[i] = s[i]
  BY <1>2, <1>3
<1>5. \A i \in 1..Len(t) : u[Len(s) + i] = t[i]
  BY <1>2, <1>3
<1>6. CASE s = <<>>
  <2>1. u = t
    BY <1>1, <1>6, ConcatEmptySeq DEF u
  <2>2. Range(s) = {}
    BY <1>6 DEF Range
  <2> QED BY <1>6, <2>1, <2>2 DEF IsPath, u
<1>7. CASE t = <<>>
  <2>1. u = s
    BY <1>1, <1>7, ConcatEmptySeq DEF u
  <2>2. Range(t) = {}
    BY <1>7 DEF Range
  <2> QED BY <1>7, <2>1, <2>2 DEF IsPath, u
<1>8. CASE s # <<>> /\ t # <<>>
  <2>1. Len(s) >= 1 /\ Len(t) >= 1
    BY <1>1, <1>8, EmptySeq
  <2>2. u # <<>> /\ u[1].from = a /\ u[Len(u)].to = c
    <3>1. u[1] = s[1] /\ u[Len(u)] = t[Len(t)]
      BY <1>2, <1>3, <1>4, <1>5, <2>1
    <3>2. Len(u) # 0
      BY <1>2, <1>3, <2>1
    <3> QED BY <1>8, <3>1, <3>2, EmptySeq DEF IsPath
  <2>3. ASSUME NEW i \in 1..Len(u) - 1 PROVE u[i].to = u[i + 1].from
    <3>1. CASE i < Len(s)
      <4>1. i \in 1..Len(s) - 1 /\ i \in 1..Len(s) /\ i + 1 \in 1..Len(s)
        BY <1>3, <3>1
      <4> QED BY <1>4, <4>1 DEF IsPath
    <3>2. CASE i = Len(s)
      <4>1. u[i] = s[Len(s)] /\ u[i + 1] = t[1]
        BY <1>3, <1>4, <1>5, <2>1, <3>2
      <4> QED BY <1>8, <4>1 DEF IsPath
    <3>3. CASE i > Len(s)
      <4>1. PICK j \in 1..Len(t) - 1 : i = Len(s) + j
        <5>1. i - Len(s) \in 1..Len(t) - 1 /\ i = Len(s) + (i - Len(s))
          BY <1>2, <1>3, <3>3
        <5> QED BY <5>1
      <4>2. j \in 1..Len(t) /\ j + 1 \in 1..Len(t) /\ i + 1 = Len(s) + (j + 1)
        BY <1>3, <4>1
      <4>3. u[i] = t[j] /\ u[i + 1] = t[j + 1]
        BY <1>5, <4>1, <4>2
      <4> QED BY <4>3 DEF IsPath
    <3>4. i \in Int
      OBVIOUS
    <3>5. i < Len(s) \/ i = Len(s) \/ i > Len(s)
      <4>1. Len(s) \in Int
        BY <1>3
      <4> DEFINE n == Len(s)
      <4> HIDE DEF n
      <4>2. i < n \/ i = n \/ i > n
        BY <3>4, <4>1 DEF n
      <4> QED BY <4>2 DEF n
    <3> QED BY <3>1, <3>2, <3>3, <3>5
  <2>4. IsPath(u, a, c)
    BY <1>2, <2>2, <2>3 DEF IsPath
  <2>5. Range(u) = Range(s) \union Range(t)
    <3>1. Range(u) \subseteq Range(s) \union Range(t)
      <4> SUFFICES ASSUME NEW i \in 1..Len(u) PROVE u[i] \in Range(s) \union Range(t)
        BY <1>3 DEF Range
      <4>1. CASE i <= Len(s)
        <5>1. i \in 1..Len(s)
          BY <1>3, <4>1
        <5> QED BY <1>3, <1>4, <5>1 DEF Range
      <4>2. CASE i > Len(s)
        <5>1. i - Len(s) \in 1..Len(t) /\ i = Len(s) + (i - Len(s))
          BY <1>2, <1>3, <4>2
        <5>2. u[i] = t[i - Len(s)]
          BY <1>5, <5>1
        <5> QED BY <1>3, <5>1, <5>2 DEF Range
      <4> QED BY <1>3, <4>1, <4>2
    <3>2. Range(s) \subseteq Range(u)
      <4>1. \A i \in 1..Len(s) : i \in 1..Len(u)
        BY <1>2, <1>3
      <4> QED BY <1>3, <1>4, <4>1 DEF Range
    <3>3. Range(t) \subseteq Range(u)
      <4>1. \A i \in 1..Len(t) : Len(s) + i \in 1..Len(u)
        BY <1>2, <1>3
      <4> QED BY <1>3, <1>5, <4>1 DEF Range
    <3> QED BY <3>1, <3>2, <3>3
  <2> QED BY <2>4, <2>5 DEF u
<1> QED BY <1>6, <1>7, <1>8

\* A sequence of paths from point to point is flattened to one.
LEMMA FlattenPath ==
    ASSUME NEW ss \in Seq(Seq(Segments)), ss # <<>>, NEW v,
           \A i \in 1..Len(ss) : IsPath(ss[i], v[i], v[i + 1])
    PROVE  /\ IsPath(FlattenSeq(ss), v[1], v[Len(ss) + 1])
           /\ \A e : e \in Range(FlattenSeq(ss)) <=> \E i \in 1..Len(ss) : e \in Range(ss[i])
<1>1. PICK f \in [1..Len(ss) -> Seq(Segments)] :
         /\ f[1] = ss[1] /\ \A i \in 2..Len(ss) : f[i] = f[i - 1] \o ss[i]
         /\ FlattenSeq(ss) = f[Len(ss)]
  BY FlattenIs
<1>2. Len(ss) \in Nat /\ Len(ss) >= 1
  BY EmptySeq
<1> DEFINE Good(k) == /\ IsPath(f[k], v[1], v[k + 1])
                      /\ \A e : e \in Range(f[k]) <=> \E i \in 1..k : e \in Range(ss[i])
           P == {k \in Nat : k + 1 \in 1..Len(ss) => Good(k + 1)}
<1>3. Good(1)
  <2>1. 1..1 = {1} /\ 1 + 1 = 2
    OBVIOUS
  <2>2. IsPath(ss[1], v[1], v[1 + 1])
    BY <1>2
  <2>3. f[1] = ss[1]
    BY <1>1
  <2> QED BY <2>1, <2>2, <2>3
<1>4. ASSUME NEW k \in Nat, k \in P PROVE k + 1 \in P
  <2> HIDE DEF Good
  <2> SUFFICES ASSUME k + 2 \in 1..Len(ss) PROVE Good(k + 2)
    <3>1. (k + 1) + 1 = k + 2
      OBVIOUS
    <3> QED BY <3>1
  <2>1. /\ k + 1 \in 1..Len(ss) /\ k + 2 \in 2..Len(ss) /\ (k + 2) - 1 = k + 1 /\ (k + 1) + 1 = k + 2
    BY <1>2
  <2>2. Good(k + 1)
    BY <1>4, <2>1
  <2> USE DEF Good
  <2>3. f[k + 2] = f[k + 1] \o ss[k + 2]
    BY <1>1, <2>1
  <2>4. IsPath(ss[k + 2], v[k + 2], v[(k + 2) + 1])
    BY <2>1
  <2>5. IsPath(f[k + 1], v[1], v[k + 2])
    BY <2>1, <2>2
  <2>6. /\ IsPath(f[k + 1] \o ss[k + 2], v[1], v[(k + 2) + 1])
        /\ Range(f[k + 1] \o ss[k + 2]) = Range(f[k + 1]) \union Range(ss[k + 2])
    BY <2>4, <2>5, PathsJoin
  <2>7. ASSUME NEW e
        PROVE  e \in Range(f[k + 2]) <=> \E i \in 1..k + 2 : e \in Range(ss[i])
    <3>1. e \in Range(f[k + 2]) <=> e \in Range(f[k + 1]) \/ e \in Range(ss[k + 2])
      BY <2>3, <2>6
    <3>2. e \in Range(f[k + 1]) <=> \E i \in 1..k + 1 : e \in Range(ss[i])
      BY <2>2
    <3>3. \A i \in 1..k + 2 : i \in 1..k + 1 \/ i = k + 2
      OBVIOUS
    <3>4. k + 2 \in 1..k + 2 /\ \A i \in 1..k + 1 : i \in 1..k + 2
      OBVIOUS
    <3> QED BY <3>1, <3>2, <3>3, <3>4
  <2> QED BY <2>3, <2>6, <2>7
<1>5. Nat \subseteq P
  <2>1. 0 \in P
    <3>1. 0 + 1 = 1
      OBVIOUS
    <3> HIDE DEF Good
    <3> QED BY <1>3, <3>1
  <2> HIDE DEF P
  <2> QED BY <1>4, <2>1, Upward
<1>6. Good(Len(ss))
  <2>1. Len(ss) - 1 \in Nat /\ (Len(ss) - 1) + 1 = Len(ss) /\ Len(ss) \in 1..Len(ss)
    BY <1>2
  <2> HIDE DEF Good
  <2> QED BY <1>5, <2>1
<1> QED BY <1>1, <1>6

Step(a, b) == [from |-> a, to |-> b, hop |-> FALSE]

\* The edges through points (edges_of, route.rs:265) lead from the first to the last, over
\* those that differ from the one before.
LEMMA EdgesOfIs ==
    ASSUME NEW vs \in Seq(Places), Len(vs) >= 2
    PROVE  /\ IsPath(EdgesOf(vs), vs[1], vs[Len(vs)])
           /\ \A e : e \in Range(EdgesOf(vs)) <=>
                        \E i \in 1..Len(vs) - 1 : vs[i] # vs[i + 1] /\ e = Step(vs[i], vs[i + 1])
<1> DEFINE n == Len(vs) - 1
           L(i) == Leg(vs[i], vs[i + 1])
           ss == [i \in 1..n |-> L(i)]
<1>1. Len(vs) \in Nat /\ \A i \in 1..Len(vs) : vs[i] \in Places
  BY ElementOfSeq, LenProperties
<1>2. ASSUME NEW i \in 1..n
      PROVE  /\ IsPath(L(i), vs[i], vs[i + 1])
             /\ \A e : e \in Range(L(i)) <=> vs[i] # vs[i + 1] /\ e = Step(vs[i], vs[i + 1])
  <2>1. vs[i] \in Places /\ vs[i + 1] \in Places
    BY <1>1
  <2>2. CASE vs[i] = vs[i + 1]
    <3>1. Leg(vs[i], vs[i + 1]) = <<>>
      BY <2>2 DEF Leg
    <3>2. IsPath(<<>>, vs[i], vs[i + 1])
      BY <2>2 DEF IsPath
    <3>3. Range(<<>>) = {}
      BY DEF Range
    <3> QED BY <2>2, <3>1, <3>2, <3>3
  <2>3. CASE vs[i] # vs[i + 1]
    <3> DEFINE e == Step(vs[i], vs[i + 1])
    <3>1. e \in Segments
      BY <2>1 DEF Segments, Step
    <3>2. Leg(vs[i], vs[i + 1]) = <<e>>
      BY <2>3 DEF Leg, Step
    <3>3. IsPath(<<e>>, vs[i], vs[i + 1])
      BY <3>1 DEF IsPath, Step
    <3>4. Range(<<e>>) = {e}
      <4>1. DOMAIN <<e>> = {1} /\ <<e>>[1] = e
        OBVIOUS
      <4> HIDE DEF e
      <4> QED BY <4>1 DEF Range
    <3> QED BY <2>3, <3>2, <3>3, <3>4
  <2> QED BY <2>2, <2>3
<1>3. ss \in Seq(Seq(Segments)) /\ Len(ss) = n /\ ss # <<>> /\ n \in Nat
  <2> DEFINE E == Seq(Segments)
  <2>1. \A i \in 1..n : L(i) \in E
    BY <1>2 DEF IsPath
  <2>2. n \in Nat /\ n # 0
    BY <1>1
  <2>3. ss = [i \in 1..n |-> L(i)]
    OBVIOUS
  <2> HIDE DEF n, L, E, ss
  <2>4. ss \in Seq(E) /\ Len(ss) = n
    BY <2>1, <2>2, <2>3
  <2>5. ss # <<>>
    BY <2>2, <2>4
  <2> QED BY <2>2, <2>4, <2>5 DEF E
<1>4. \A i \in 1..n : ss[i] = L(i)
  OBVIOUS
<1>5. EdgesOf(vs) = FlattenSeq(ss)
  BY DEF EdgesOf
<1>6. n + 1 = Len(vs)
  BY <1>1
<1> HIDE DEF ss, L, n
<1>7. \A i \in 1..Len(ss) : IsPath(ss[i], vs[i], vs[i + 1])
  BY <1>2, <1>3, <1>4
<1>8. /\ IsPath(FlattenSeq(ss), vs[1], vs[Len(ss) + 1])
      /\ \A e : e \in Range(FlattenSeq(ss)) <=> \E i \in 1..Len(ss) : e \in Range(ss[i])
  BY <1>3, <1>7, FlattenPath
<1>9. ASSUME NEW e
      PROVE  e \in Range(FlattenSeq(ss)) <=>
                        \E i \in 1..n : vs[i] # vs[i + 1] /\ e = Step(vs[i], vs[i + 1])
  <2>1. e \in Range(FlattenSeq(ss)) <=> \E i \in 1..n : e \in Range(ss[i])
    BY <1>3, <1>8
  <2>2. \A i \in 1..n : e \in Range(ss[i]) <=> vs[i] # vs[i + 1] /\ e = Step(vs[i], vs[i + 1])
    BY <1>2, <1>4
  <2> QED BY <2>1, <2>2
<1> QED BY <1>3, <1>5, <1>8, <1>6, <1>9 DEF n

-----------------------------------------------------------------------------
(* Folds over a set *)

\* Of finitely many one is the furthest.
LEMMA Furthest ==
    ASSUME NEW S, IsFiniteSet(S), S # {}, NEW g, \A x \in S : g[x] \in Int
    PROVE  \E x \in S : \A y \in S : g[y] <= g[x]
<1> DEFINE P == {s \in SUBSET S : s = {} \/ \E x \in s : \A y \in s : g[y] <= g[x]}
           pick == [s \in SUBSET S |-> CHOOSE x \in s : TRUE]
<1>1. \A s \in SUBSET S : s # {} => pick[s] \in s
  OBVIOUS
<1>2. {} \in P
  OBVIOUS
<1>3. ASSUME NEW s \in SUBSET S, s # {}, s \ {pick[s]} \in P PROVE s \in P
  <2> DEFINE o == pick[s]
  <2>1. o \in s
    BY <1>1, <1>3
  <2> HIDE DEF pick
  <2>2. CASE s \ {o} = {}
    <3>1. \A y \in s : y = o
      BY <2>2
    <3>2. g[o] \in Int
      BY <2>1
    <3> HIDE DEF o
    <3>3. g[o] <= g[o]
      BY <3>2
    <3> QED BY <2>1, <3>1, <3>3
  <2>3. CASE \E x \in s \ {o} : \A y \in s \ {o} : g[y] <= g[x]
    <3>1. PICK x \in s \ {o} : \A y \in s \ {o} : g[y] <= g[x]
      BY <2>3
    <3>2. g[o] \in Int /\ g[x] \in Int /\ \A y \in s : g[y] \in Int
      BY <2>1
    <3> HIDE DEF o
    <3>3. CASE g[o] <= g[x]
      BY <3>1, <3>3
    <3>4. CASE g[x] < g[o]
      <4>1. \A y \in s : g[y] <= g[o]
        BY <3>1, <3>2, <3>4
      <4> QED BY <2>1, <4>1
    <3> QED BY <3>2, <3>3, <3>4
  <2> QED BY <1>3, <2>2, <2>3
<1>4. SUBSET S \subseteq P
  <2> HIDE DEF P, pick
  <2> QED BY <1>1, <1>2, <1>3, Bysets
<1> QED BY <1>4

\* The ends of a set of numbers.
LEMMA MaxIs ==
    ASSUME NEW S \in SUBSET Int, IsFiniteSet(S), S # {}
    PROVE  Max(S) \in S /\ \A y \in S : y <= Max(S)
<1> DEFINE g == [x \in S |-> x]
<1>1. \E x \in S : \A y \in S : g[y] <= g[x]
  <2>1. \A x \in S : g[x] \in Int
    OBVIOUS
  <2> HIDE DEF g
  <2> QED BY <2>1, Furthest
<1>2. \E x \in S : \A y \in S : x >= y
  BY <1>1
<1>3. Max(S) \in S /\ \A y \in S : Max(S) >= y
  BY <1>2 DEF Max
<1> HIDE DEF g
<1>4. Max(S) \in Int
  BY <1>3
<1> QED BY <1>3, <1>4

\* The least of a set of numbers.
LEMMA MinIs ==
    ASSUME NEW S \in SUBSET Int, IsFiniteSet(S), S # {}
    PROVE  Min(S) \in S /\ \A y \in S : Min(S) <= y
<1> DEFINE g == [x \in S |-> -x]
<1>1. \E x \in S : \A y \in S : g[y] <= g[x]
  <2>1. \A x \in S : g[x] \in Int
    OBVIOUS
  <2> HIDE DEF g
  <2> QED BY <2>1, Furthest
<1>2. \E x \in S : \A y \in S : x <= y
  BY <1>1
<1>3. Min(S) \in S /\ \A y \in S : Min(S) <= y
  BY <1>2 DEF Min
<1> QED BY <1>3

\* Of two it is one of them.
LEMMA PairEnds ==
    ASSUME NEW a \in Int, NEW b \in Int
    PROVE  /\ Max({a, b}) = IF a <= b THEN b ELSE a
           /\ Min({a, b}) = IF a <= b THEN a ELSE b
<1>1. \A x, y \in {a, b} : (\A z \in {a, b} : x >= z) /\ (\A z \in {a, b} : y >= z) => x = y
  OBVIOUS
<1>2. \A x, y \in {a, b} : (\A z \in {a, b} : x <= z) /\ (\A z \in {a, b} : y <= z) => x = y
  OBVIOUS
<1>3. \E x \in {a, b} : \A z \in {a, b} : x >= z
  OBVIOUS
<1>4. \E x \in {a, b} : \A z \in {a, b} : x <= z
  OBVIOUS
<1>5. Max({a, b}) \in {a, b} /\ \A z \in {a, b} : Max({a, b}) >= z
  BY <1>3 DEF Max
<1>6. Min({a, b}) \in {a, b} /\ \A z \in {a, b} : Min({a, b}) <= z
  BY <1>4 DEF Min
<1> QED BY <1>5, <1>6

\* An image of a finite set is finite.
LEMMA ImageFinite ==
    ASSUME NEW S, IsFiniteSet(S), NEW f
    PROVE  IsFiniteSet({f[x] : x \in S})
<1> DEFINE T == {f[x] : x \in S}
           g == [x \in S |-> f[x]]
<1>1. g \in Surjection(S, T)
  BY DEF Surjection
<1> HIDE DEF g
<1> QED BY <1>1, FS_Surjection

IsFold(S, V, base, op, pick) ==
    /\ IsFiniteSet(S) /\ base \in V /\ op \in [S \X V -> V]
    /\ \A s \in SUBSET S : s # {} => pick[s] \in s

FoldsTo(f, S, V, base, op, pick) ==
    /\ f \in [SUBSET S -> V]
    /\ \A s \in SUBSET S : f[s] = IF s = {} THEN base ELSE op[<<pick[s], f[s \ {pick[s]}]>>]

\* A fold of a finite set by functions exists.
LEMMA FoldExists ==
    ASSUME NEW S, NEW V, NEW base, NEW op, NEW pick, IsFold(S, V, base, op, pick)
    PROVE  \E f : FoldsTo(f, S, V, base, op, pick)
<1> USE DEF IsFold
<1> DEFINE D == SUBSET S
           rank == [s \in D |-> Cardinality(s)]
           stp(s, f) == IF s = {} THEN base ELSE op[<<pick[s], f[s \ {pick[s]}]>>]
           step == [p \in D \X [D -> V] |-> stp(p[1], p[2])]
<1>1. \A s \in D : IsFiniteSet(s) /\ Cardinality(s) \in Nat /\ Cardinality(s) <= Cardinality(S)
  BY FS_Subset, FS_CardinalityType
<1>2. Cardinality(S) \in Nat
  BY FS_CardinalityType
<1>3. \A s \in D : s # {} => pick[s] \in S /\ s \ {pick[s]} \in D /\ rank[s \ {pick[s]}] < rank[s]
  <2> SUFFICES ASSUME NEW s \in D, s # {}
               PROVE  pick[s] \in S /\ s \ {pick[s]} \in D /\ rank[s \ {pick[s]}] < rank[s]
    OBVIOUS
  <2>1. pick[s] \in s
    OBVIOUS
  <2>2. Cardinality(s \ {pick[s]}) = Cardinality(s) - 1
    BY <1>1, <2>1, FS_RemoveElement
  <2>3. Cardinality(s \ {pick[s]}) < Cardinality(s)
    BY <1>1, <2>2
  <2> QED BY <2>1, <2>3
<1>4. rank \in [D -> Nat] /\ \A s \in D : rank[s] <= Cardinality(S)
  BY <1>1
<1> HIDE DEF D, rank
<1>5. \A s \in D, f \in [D -> V] : stp(s, f) \in V
  BY <1>3
<1>6. step \in [D \X [D -> V] -> V]
  <2> HIDE DEF stp
  <2> QED BY <1>5
<1>7. ASSUME NEW s \in D, NEW f \in [D -> V], NEW g \in [D -> V],
             \A t \in D : rank[t] < rank[s] => f[t] = g[t]
      PROVE  step[<<s, f>>] = step[<<s, g>>]
  <2>1. stp(s, f) = stp(s, g)
    BY <1>3, <1>7
  <2> HIDE DEF stp
  <2> QED BY <2>1
<1>8. \A s \in D, f \in [D -> V] : step[<<s, f>>] = stp(s, f)
  <2> HIDE DEF stp
  <2> QED OBVIOUS
<1>9. IsRecursion(D, V, rank, Cardinality(S), step)
  <2> HIDE DEF step
  <2> QED BY <1>2, <1>4, <1>6, <1>7 DEF IsRecursion
<1>10. PICK f \in [D -> V] : \A s \in D : f[s] = step[<<s, f>>]
  <2> HIDE DEF step
  <2> QED BY <1>9, RecursionExists
<1>11. \A s \in D : f[s] = stp(s, f)
  <2> HIDE DEF step, stp
  <2> QED BY <1>8, <1>10
<1> QED BY <1>11 DEF D, FoldsTo

-----------------------------------------------------------------------------
(* The sweep for empty space *)

Directions == {"top", "bottom", "left", "right"}

Past(o, r, dir, pad) == IF Overlap(r, Padded(o, pad)) THEN Push(r, o, dir, pad) ELSE r

\* Places are pairs of integers.
LEMMA PlacesAre ==
    /\ \A a, b \in Int : <<a, b>> \in Places
    /\ \A p \in Places : p[1] \in Int /\ p[2] \in Int /\ p = <<p[1], p[2]>>
    /\ \A p \in Places, c \in Int : [p EXCEPT ![1] = c] = <<c, p[2]>> /\ [p EXCEPT ![2] = c] = <<p[1], c>>
BY DEF Places

\* A rectangle by its corners.
LEMMA RectsAre ==
    ASSUME NEW r \in Rects
    PROVE  /\ r.lo \in Places /\ r.hi \in Places
           /\ r.lo[1] \in Int /\ r.lo[2] \in Int /\ r.hi[1] \in Int /\ r.hi[2] \in Int
           /\ r = [lo |-> r.lo, hi |-> r.hi]
BY PlacesAre DEF Rects

\* A push moves one side to where it is to be and the other after it.
LEMMA PushIs ==
    ASSUME NEW r \in Rects, NEW o \in Rects, NEW dir \in Directions, NEW pad \in Int
    PROVE  LET i == Axis(dir)
               p == Push(r, o, dir, pad)
               size == r.hi[i] - r.lo[i]
           IN  /\ p \in Rects /\ i \in {1, 2}
               /\ \A j \in {1, 2} \ {i} : p.lo[j] = r.lo[j] /\ p.hi[j] = r.hi[j]
               /\ p.hi[i] = p.lo[i] + size
               /\ IF Backward(dir)
                  THEN p.lo[i] = IF o.lo[i] - pad - size <= r.lo[i] THEN o.lo[i] - pad - size ELSE r.lo[i]
                  ELSE p.lo[i] = IF o.hi[i] + pad <= r.lo[i] THEN r.lo[i] ELSE o.hi[i] + pad
<1> DEFINE i == Axis(dir)
           size == r.hi[i] - r.lo[i]
           lo == IF Backward(dir) THEN Min({o.lo[i] - pad - size, r.lo[i]})
                                  ELSE Max({o.hi[i] + pad, r.lo[i]})
<1>1. i \in {1, 2}
  BY DEF Axis
<1>2. /\ r.lo \in Places /\ r.hi \in Places /\ r.lo[i] \in Int /\ r.hi[i] \in Int
      /\ o.lo[i] \in Int /\ o.hi[i] \in Int
  BY <1>1, RectsAre
<1>3. size \in Int /\ o.lo[i] - pad - size \in Int /\ o.hi[i] + pad \in Int
  BY <1>2
<1>4. /\ lo \in Int
      /\ IF Backward(dir)
         THEN lo = IF o.lo[i] - pad - size <= r.lo[i] THEN o.lo[i] - pad - size ELSE r.lo[i]
         ELSE lo = IF o.hi[i] + pad <= r.lo[i] THEN r.lo[i] ELSE o.hi[i] + pad
  <2>1. CASE Backward(dir)
    <3>1. Min({o.lo[i] - pad - size, r.lo[i]}) = IF o.lo[i] - pad - size <= r.lo[i] THEN o.lo[i] - pad - size ELSE r.lo[i]
      <4> HIDE DEF size, i
      <4> QED BY <1>2, <1>3, PairEnds
    <3> HIDE DEF size, i
    <3> QED BY <1>2, <1>3, <2>1, <3>1
  <2>2. CASE ~Backward(dir)
    <3>1. Max({o.hi[i] + pad, r.lo[i]}) = IF o.hi[i] + pad <= r.lo[i] THEN r.lo[i] ELSE o.hi[i] + pad
      <4> HIDE DEF size, i
      <4> QED BY <1>2, <1>3, PairEnds
    <3> HIDE DEF size, i
    <3> QED BY <1>2, <1>3, <2>2, <3>1
  <2> QED BY <2>1, <2>2
<1>5. Push(r, o, dir, pad) = [lo |-> [r.lo EXCEPT ![i] = lo], hi |-> [r.hi EXCEPT ![i] = lo + size]]
  BY DEF Push
<1>6. lo + size \in Int
  BY <1>3, <1>4
<1> DEFINE a == [r.lo EXCEPT ![i] = lo]
           b == [r.hi EXCEPT ![i] = lo + size]
<1>7. /\ a \in Places /\ b \in Places /\ a[i] = lo /\ b[i] = lo + size
      /\ \A j \in {1, 2} \ {i} : a[j] = r.lo[j] /\ b[j] = r.hi[j]
  <2> HIDE DEF lo, size, i
  <2>1. CASE i = 1
    <3>1. a = <<lo, r.lo[2]>> /\ b = <<lo + size, r.hi[2]>>
      BY <1>2, <1>4, <1>6, <2>1, PlacesAre
    <3> HIDE DEF a, b
    <3> QED BY <1>2, <1>4, <1>6, <2>1, <3>1, PlacesAre
  <2>2. CASE i = 2
    <3>1. a = <<r.lo[1], lo>> /\ b = <<r.hi[1], lo + size>>
      BY <1>2, <1>4, <1>6, <2>2, PlacesAre
    <3> HIDE DEF a, b
    <3> QED BY <1>2, <1>4, <1>6, <2>2, <3>1, PlacesAre
  <2> QED BY <1>1, <2>1, <2>2
<1> DEFINE p == Push(r, o, dir, pad)
<1>8. p = [lo |-> a, hi |-> b]
  BY <1>5
<1> HIDE DEF p, a, b, lo, size, i
<1>9. p.lo = a /\ p.hi = b /\ p \in Rects
  BY <1>7, <1>8 DEF Rects
<1>10. /\ p \in Rects /\ i \in {1, 2}
       /\ \A j \in {1, 2} \ {i} : p.lo[j] = r.lo[j] /\ p.hi[j] = r.hi[j]
       /\ p.hi[i] = p.lo[i] + size
       /\ IF Backward(dir)
          THEN p.lo[i] = IF o.lo[i] - pad - size <= r.lo[i] THEN o.lo[i] - pad - size ELSE r.lo[i]
          ELSE p.lo[i] = IF o.hi[i] + pad <= r.lo[i] THEN r.lo[i] ELSE o.hi[i] + pad
  BY <1>1, <1>4, <1>7, <1>9
<1> QED BY <1>10 DEF p, size, i

\* A push past an obstacle clears it, and keeps clear of those that come no later.
LEMMA PastClears ==
    ASSUME NEW r \in Rects, NEW x \in Rects, NEW dir \in Directions, NEW pad \in Int
    PROVE  /\ Past(x, r, dir, pad) \in Rects
           /\ ~Overlap(Past(x, r, dir, pad), Padded(x, pad))
           /\ \A o \in Rects : ~Nearer(x, o, dir) /\ ~Overlap(r, Padded(o, pad))
                 => ~Overlap(Past(x, r, dir, pad), Padded(o, pad))
<1>1. CASE ~Overlap(r, Padded(x, pad))
  BY <1>1 DEF Past
<1>2. CASE Overlap(r, Padded(x, pad))
  <2> DEFINE i == Axis(dir)
             p == Push(r, x, dir, pad)
             size == r.hi[i] - r.lo[i]
  <2>1. Past(x, r, dir, pad) = p
    BY <1>2 DEF Past
  <2>2. /\ p \in Rects /\ i \in {1, 2}
        /\ \A j \in {1, 2} \ {i} : p.lo[j] = r.lo[j] /\ p.hi[j] = r.hi[j]
        /\ p.hi[i] = p.lo[i] + size
        /\ IF Backward(dir)
           THEN p.lo[i] = IF x.lo[i] - pad - size <= r.lo[i] THEN x.lo[i] - pad - size ELSE r.lo[i]
           ELSE p.lo[i] = IF x.hi[i] + pad <= r.lo[i] THEN r.lo[i] ELSE x.hi[i] + pad
    BY PushIs
  <2>3. \A o \in Rects, q \in Rects :
           Overlap(q, Padded(o, pad)) <=>
             \A j \in {1, 2} : q.lo[j] < o.hi[j] + pad /\ o.lo[j] - pad < q.hi[j]
    BY DEF Overlap, Padded
  <2>4. \A j \in {1, 2} : r.lo[j] < x.hi[j] + pad /\ x.lo[j] - pad < r.hi[j]
    BY <1>2, <2>3
  <2>5. \A o \in Rects : \A j \in {1, 2} : o.lo[j] \in Int /\ o.hi[j] \in Int
    BY RectsAre
  <2>6. \A o \in Rects : ~Nearer(x, o, dir) <=>
           IF Backward(dir) THEN ~(x.lo[i] > o.lo[i]) ELSE ~(x.lo[i] < o.lo[i])
    BY DEF Nearer
  <2> HIDE DEF p, i
  <2>7. ~Overlap(p, Padded(x, pad))
    <3>1. r.lo[i] < x.hi[i] + pad /\ x.lo[i] - pad < r.hi[i]
      BY <2>2, <2>4
    <3>2. p.lo[i] \in Int /\ p.hi[i] \in Int /\ r.lo[i] \in Int /\ r.hi[i] \in Int /\ x.lo[i] \in Int /\ x.hi[i] \in Int
      BY <2>2, <2>5
    <3>3. ~(p.lo[i] < x.hi[i] + pad /\ x.lo[i] - pad < p.hi[i])
      BY <2>2, <3>1, <3>2
    <3> QED BY <2>2, <2>3, <3>3
  <2>8. ASSUME NEW o \in Rects, ~Nearer(x, o, dir), ~Overlap(r, Padded(o, pad))
        PROVE  ~Overlap(p, Padded(o, pad))
    <3>1. PICK j \in {1, 2} : ~(r.lo[j] < o.hi[j] + pad /\ o.lo[j] - pad < r.hi[j])
      BY <2>3, <2>8
    <3>2. CASE j # i
      <4>1. p.lo[j] = r.lo[j] /\ p.hi[j] = r.hi[j]
        BY <2>2, <3>2
      <4> QED BY <2>2, <2>3, <3>1, <4>1
    <3>3. CASE j = i
      <4>1. r.lo[i] < x.hi[i] + pad /\ x.lo[i] - pad < r.hi[i]
        BY <2>2, <2>4
      <4>2. /\ p.lo[i] \in Int /\ p.hi[i] \in Int /\ r.lo[i] \in Int /\ r.hi[i] \in Int
            /\ x.lo[i] \in Int /\ x.hi[i] \in Int /\ o.lo[i] \in Int /\ o.hi[i] \in Int
        BY <2>2, <2>5
      <4>3. CASE Backward(dir)
        <5>1. ~(x.lo[i] > o.lo[i])
          BY <2>6, <2>8, <4>3
        <5>2. ~(p.lo[i] < o.hi[i] + pad /\ o.lo[i] - pad < p.hi[i])
          BY <2>2, <3>1, <3>3, <4>1, <4>2, <4>3, <5>1
        <5> QED BY <2>2, <2>3, <5>2
      <4>4. CASE ~Backward(dir)
        <5>1. ~(x.lo[i] < o.lo[i])
          BY <2>6, <2>8, <4>4
        <5>2. ~(p.lo[i] < o.hi[i] + pad /\ o.lo[i] - pad < p.hi[i])
          BY <2>2, <3>1, <3>3, <4>1, <4>2, <4>4, <5>1
        <5> QED BY <2>2, <2>3, <5>2
      <4> QED BY <4>3, <4>4
    <3> QED BY <3>2, <3>3
  <2> QED BY <2>1, <2>2, <2>7, <2>8
<1> QED BY <1>1, <1>2

SweepFar(T, dir) == CHOOSE o \in T : \A x \in T : ~Nearer(o, x, dir)

SweepOnce(S, base, dir, pad, f) ==
    [s \in SUBSET S |->
        IF s = {} THEN base ELSE Past(SweepFar(s, dir), f[s \ {SweepFar(s, dir)}], dir, pad)]

\* A sweep past finitely many obstacles ends clear of them all.
LEMMA SweepIsClear ==
    ASSUME NEW S \in SUBSET Rects, IsFiniteSet(S), NEW dir \in Directions, NEW pad \in Int,
           NEW base \in Rects, NEW g, g = CHOOSE f : f = SweepOnce(S, base, dir, pad, f)
    PROVE  \A o \in S : ~Overlap(g[S], Padded(o, pad))
<1> DEFINE past(o, r) == Past(o, r, dir, pad)
           far(T) == SweepFar(T, dir)
           F(f) == SweepOnce(S, base, dir, pad, f)
<1> USE DEF SweepOnce, SweepFar
<1>1. \A o, r : past(o, r) = Past(o, r, dir, pad)
  OBVIOUS
<1>2. base \in Rects
  OBVIOUS
<1>3. \A s \in SUBSET S : s # {} => far(s) \in s /\ \A x \in s : ~Nearer(far(s), x, dir)
  <2> SUFFICES ASSUME NEW s \in SUBSET S, s # {} PROVE \E o \in s : \A x \in s : ~Nearer(o, x, dir)
    OBVIOUS
  <2> DEFINE i == Axis(dir)
             h == [o \in s |-> IF Backward(dir) THEN -o.lo[i] ELSE o.lo[i]]
  <2>1. i \in {1, 2}
    BY DEF Axis
  <2>2. \A o \in s : o.lo[i] \in Int
    BY <2>1, RectsAre
  <2>3. \A o \in s : h[o] \in Int
    BY <2>2
  <2>4. IsFiniteSet(s)
    BY FS_Subset
  <2>5. PICK o \in s : \A x \in s : h[x] <= h[o]
    <3> HIDE DEF h
    <3> QED BY <2>3, <2>4, Furthest
  <2>6. \A x \in s : ~Nearer(o, x, dir)
    <3> SUFFICES ASSUME NEW x \in s PROVE ~Nearer(o, x, dir)
      OBVIOUS
    <3>1. h[x] <= h[o] /\ o.lo[i] \in Int /\ x.lo[i] \in Int
      BY <2>2, <2>5
    <3>2. CASE Backward(dir)
      BY <3>1, <3>2 DEF Nearer
    <3>3. CASE ~Backward(dir)
      BY <3>1, <3>3 DEF Nearer
    <3> QED BY <3>2, <3>3
  <2> QED BY <2>6
<1> DEFINE pick == [s \in SUBSET S |-> far(s)]
           op == [p \in S \X Rects |-> past(p[1], p[2])]
<1>4. op \in [S \X Rects -> Rects]
  <2>1. \A o \in S, r \in Rects : past(o, r) \in Rects
    BY <1>1, PastClears
  <2> HIDE DEF past
  <2> QED BY <2>1
<1>5. \A s \in SUBSET S : s # {} => pick[s] \in s
  BY <1>3
<1> HIDE DEF past, far, SweepFar
<1>6. PICK f \in [SUBSET S -> Rects] :
         \A s \in SUBSET S : f[s] = IF s = {} THEN base ELSE op[<<pick[s], f[s \ {pick[s]}]>>]
  <2> HIDE DEF op, pick
  <2> HIDE DEF op, pick
  <2>1. IsFold(S, Rects, base, op, pick)
    BY <1>2, <1>4, <1>5 DEF IsFold
  <2>2. PICK f : FoldsTo(f, S, Rects, base, op, pick)
    BY <2>1, FoldExists
  <2> QED BY <2>2 DEF FoldsTo
<1>7. f = F(f)
  <2> USE DEF past, far
  <2>1. ASSUME NEW s \in SUBSET S
        PROVE  f[s] = IF s = {} THEN base ELSE past(far(s), f[s \ {far(s)}])
    <3>1. CASE s = {}
      BY <1>6, <3>1
    <3>2. CASE s # {}
      <4>1. far(s) \in S /\ f[s \ {far(s)}] \in Rects
        BY <1>3, <3>2
      <4>2. op[<<far(s), f[s \ {far(s)}]>>] = past(far(s), f[s \ {far(s)}])
        BY <4>1
      <4>3. pick[s] = far(s)
        OBVIOUS
      <4> HIDE DEF op, pick
      <4>4. f[s] = op[<<pick[s], f[s \ {pick[s]}]>>]
        BY <1>6, <3>2
      <4> QED BY <3>2, <4>2, <4>3, <4>4
    <3> QED BY <3>1, <3>2
  <2> HIDE DEF past, far
  <2> QED BY <2>1 DEF past, far
<1>8. g = F(g)
  <2>1. g = CHOOSE h : h = F(h)
    OBVIOUS
  <2> HIDE DEF F
  <2> QED BY <1>7, <2>1
<1>9. \A s \in SUBSET S : g[s] = IF s = {} THEN base ELSE past(far(s), g[s \ {far(s)}])
  BY <1>8 DEF past, far
<1> DEFINE P == {s \in SUBSET S : g[s] \in Rects /\ \A o \in s : ~Overlap(g[s], Padded(o, pad))}
<1>10. {} \in P
  BY <1>2, <1>9
<1>11. ASSUME NEW s \in SUBSET S, s # {}, s \ {pick[s]} \in P PROVE s \in P
  <2> DEFINE x == far(s)
             r == g[s \ {x}]
  <2>1. x \in s /\ x \in Rects /\ \A o \in s : ~Nearer(x, o, dir)
    BY <1>3, <1>11
  <2>2. r \in Rects /\ \A o \in s \ {x} : ~Overlap(r, Padded(o, pad))
    BY <1>11
  <2>3. g[s] = Past(x, r, dir, pad)
    BY <1>1, <1>9, <1>11
  <2> HIDE DEF x, r
  <2>4. g[s] \in Rects /\ ~Overlap(g[s], Padded(x, pad))
    BY <2>1, <2>2, <2>3, PastClears
  <2>5. \A o \in s \ {x} : ~Overlap(g[s], Padded(o, pad))
    <3> SUFFICES ASSUME NEW o \in s \ {x} PROVE ~Overlap(g[s], Padded(o, pad))
      OBVIOUS
    <3>1. o \in Rects /\ ~Nearer(x, o, dir) /\ ~Overlap(r, Padded(o, pad))
      BY <2>1, <2>2
    <3>2. \A q \in Rects : ~Nearer(x, q, dir) /\ ~Overlap(r, Padded(q, pad))
                => ~Overlap(Past(x, r, dir, pad), Padded(q, pad))
      BY <2>1, <2>2, PastClears
    <3> QED BY <2>3, <3>1, <3>2
  <2> QED BY <2>4, <2>5
<1>12. SUBSET S \subseteq P
  <2> HIDE DEF P, pick
  <2> QED BY <1>5, <1>10, <1>11, Bysets
<1> QED BY <1>12

-----------------------------------------------------------------------------
(* What the assumptions say *)

\* The module tree is finite, and no component is a module.
LEMMA TreeIs ==
    /\ "root" \in Modules /\ IsFiniteSet(Comps) /\ IsFiniteSet(Modules)
    /\ \A n \in Comps : n \notin Modules
    /\ \A m \in Modules : \A i \in DOMAIN Tree[m] : Tree[m][i] \in Nodes /\ Tree[m][i] # "root"
    /\ \A m \in Modules : Tree[m] \in Seq(Nodes \ {"root"})
<1>1. IsFiniteSet(Comps) /\ IsFiniteSet(Modules)
  BY TreeAssumption, FS_Subset DEF Nodes
<1>2. ASSUME NEW m \in Modules, NEW i \in DOMAIN Tree[m] PROVE Tree[m][i] \in Nodes /\ Tree[m][i] # "root"
  <2>1. Tree[m] \in Seq(Nodes \ {"root"})
    BY TreeAssumption
  <2>2. Tree[m][i] \in Nodes \ {"root"}
    BY <2>1, ElementOfSeq, LenProperties
  <2> QED BY <2>2
<1> QED BY <1>1, <1>2, TreeAssumption

\* What is in or under a node.
LEMMA UnderIs ==
    /\ \A n \in Nodes : Under[n] \subseteq Comps
    /\ \A n \in Comps : Under[n] = {n}
    /\ \A m \in Modules : Under[m] = UNION {Under[Tree[m][i]] : i \in DOMAIN Tree[m]}
<1> DEFINE V == SUBSET Comps
           body(n, f) == IF n \in Comps THEN {n} ELSE UNION {f[Tree[n][i]] : i \in DOMAIN Tree[n]}
           F(f) == [n \in Nodes |-> body(n, f)]
           step == [p \in Nodes \X [Nodes -> V] |-> body(p[1], p[2])]
<1>1. PICK depth \in [Modules -> 0..Cardinality(Modules)] :
         \A m \in Modules : \A i \in DOMAIN Tree[m] : Tree[m][i] \in Modules => depth[Tree[m][i]] < depth[m]
  BY TreeAssumption
<1> DEFINE rank == [n \in Nodes |-> IF n \in Comps THEN 0 ELSE depth[n] + 1]
           K == Cardinality(Modules) + 1
<1>2. Cardinality(Modules) \in Nat
  BY TreeIs, FS_CardinalityType
<1>3. \A n \in Nodes : n \in Comps \/ n \in Modules
  BY DEF Nodes
<1>4. rank \in [Nodes -> Nat] /\ \A n \in Nodes : rank[n] <= K
  <2>1. \A m \in Modules : depth[m] \in Nat /\ depth[m] <= Cardinality(Modules)
    BY <1>1, <1>2
  <2> QED BY <1>2, <1>3, <2>1
<1>5. \A n \in Nodes : n \notin Comps => n \in Modules /\ \A i \in DOMAIN Tree[n] : Tree[n][i] \in Nodes /\ rank[Tree[n][i]] < rank[n]
  <2> SUFFICES ASSUME NEW n \in Nodes, n \notin Comps, NEW i \in DOMAIN Tree[n]
               PROVE  n \in Modules /\ Tree[n][i] \in Nodes /\ rank[Tree[n][i]] < rank[n]
    BY <1>3
  <2>1. n \in Modules /\ Tree[n][i] \in Nodes
    BY <1>3, TreeIs
  <2>2. rank[n] = depth[n] + 1 /\ depth[n] \in Nat
    BY <1>1, <1>2, <2>1
  <2>3. CASE Tree[n][i] \in Comps
    BY <2>1, <2>2, <2>3
  <2>4. CASE Tree[n][i] \notin Comps
    <3>1. Tree[n][i] \in Modules
      BY <1>3, <2>1, <2>4
    <3>2. depth[Tree[n][i]] < depth[n] /\ depth[Tree[n][i]] \in Nat
      BY <1>1, <1>2, <2>1, <3>1
    <3>3. rank[Tree[n][i]] = depth[Tree[n][i]] + 1
      BY <2>1, <2>4
    <3> HIDE DEF rank
    <3> QED BY <2>1, <2>2, <3>2, <3>3
  <2> QED BY <2>3, <2>4
<1> HIDE DEF rank
<1>6. \A n \in Nodes, f \in [Nodes -> V] : body(n, f) \in V
  <2> SUFFICES ASSUME NEW n \in Nodes, NEW f \in [Nodes -> V] PROVE body(n, f) \in V
    OBVIOUS
  <2>1. CASE n \in Comps
    BY <2>1
  <2>2. CASE n \notin Comps
    <3>1. \A i \in DOMAIN Tree[n] : f[Tree[n][i]] \in V
      BY <1>5, <2>2
    <3> QED BY <2>2, <3>1
  <2> QED BY <2>1, <2>2
<1>7. step \in [Nodes \X [Nodes -> V] -> V]
  <2> HIDE DEF body, V
  <2> QED BY <1>6
<1>8. ASSUME NEW n \in Nodes, NEW f \in [Nodes -> V], NEW g \in [Nodes -> V],
             \A t \in Nodes : rank[t] < rank[n] => f[t] = g[t]
      PROVE  step[<<n, f>>] = step[<<n, g>>]
  <2>1. n \notin Comps => \A i \in DOMAIN Tree[n] : f[Tree[n][i]] = g[Tree[n][i]]
    BY <1>5, <1>8
  <2>2. body(n, f) = body(n, g)
    <3>1. CASE n \in Comps
      BY <3>1
    <3>2. CASE n \notin Comps
      <4>1. {f[Tree[n][i]] : i \in DOMAIN Tree[n]} = {g[Tree[n][i]] : i \in DOMAIN Tree[n]}
        BY <2>1, <3>2
      <4> QED BY <3>2, <4>1
    <3> QED BY <3>1, <3>2
  <2> HIDE DEF body, V
  <2> QED BY <2>2
<1>9. \A n \in Nodes, f \in [Nodes -> V] : step[<<n, f>>] = body(n, f)
  <2> HIDE DEF body, V
  <2> QED OBVIOUS
<1>10. IsRecursion(Nodes, V, rank, K, step)
  <2>1. V # {} /\ K \in Nat
    <3>1. {} \in V
      OBVIOUS
    <3>2. K \in Nat
      BY <1>2
    <3> HIDE DEF V, K
    <3> QED BY <3>1, <3>2
  <2> HIDE DEF step, V, K
  <2> QED BY <1>4, <1>7, <1>8, <2>1 DEF IsRecursion
<1>11. PICK f \in [Nodes -> V] : \A n \in Nodes : f[n] = step[<<n, f>>]
  <2> HIDE DEF step, V, K
  <2> QED BY <1>10, RecursionExists
<1> HIDE DEF step
<1>12. f = F(f)
  <2>1. \A n \in Nodes : f[n] = body(n, f)
    BY <1>9, <1>11
  <2> HIDE DEF body, V
  <2> QED BY <2>1
<1> DEFINE g == CHOOSE h : h = F(h)
<1>13. g = F(g)
  <2> HIDE DEF F
  <2> QED BY <1>12
<1>14. Under = g
  BY DEF Under
<1> HIDE DEF g
<1>15. \A n \in Nodes : Under[n] = body(n, Under)
  <2>1. \A n \in Nodes : g[n] = body(n, g)
    <3> HIDE DEF body
    <3> QED BY <1>13
  <2> HIDE DEF body
  <2> QED BY <1>14, <2>1
<1> DEFINE P == {k \in Nat : \A n \in Nodes : rank[n] < k => Under[n] \in V}
<1>16. 0 \in P
  BY <1>4
<1>17. ASSUME NEW k \in Nat, k \in P PROVE k + 1 \in P
  <2> SUFFICES ASSUME NEW n \in Nodes, rank[n] < k + 1 PROVE Under[n] \in V
    OBVIOUS
  <2>1. CASE n \in Comps
    <3>1. Under[n] = {n}
      BY <1>15, <2>1
    <3> QED BY <2>1, <3>1
  <2>2. CASE n \notin Comps
    <3>1. \A i \in DOMAIN Tree[n] : Tree[n][i] \in Nodes /\ rank[Tree[n][i]] < k
      BY <1>4, <1>5, <2>2
    <3>2. \A i \in DOMAIN Tree[n] : Under[Tree[n][i]] \in V
      BY <1>17, <3>1
    <3>3. Under[n] = UNION {Under[Tree[n][i]] : i \in DOMAIN Tree[n]}
      BY <1>15, <2>2
    <3> QED BY <3>2, <3>3
  <2> QED BY <2>1, <2>2
<1>18. \A n \in Nodes : Under[n] \in V
  <2>1. Nat \subseteq P
    <3> HIDE DEF P
    <3> QED BY <1>16, <1>17, Upward
  <2>2. K + 1 \in P /\ \A n \in Nodes : rank[n] < K + 1
    BY <1>2, <1>4, <2>1
  <2> QED BY <2>2
<1>19. \A n \in Comps : Under[n] = {n}
  <2>1. \A n \in Comps : n \in Nodes
    BY DEF Nodes
  <2> QED BY <1>15, <2>1
<1>20. \A m \in Modules : Under[m] = UNION {Under[Tree[m][i]] : i \in DOMAIN Tree[m]}
  <2>1. \A m \in Modules : m \in Nodes /\ m \notin Comps
    BY TreeIs DEF Nodes
  <2> QED BY <1>15, <2>1
<1> QED BY <1>18, <1>19, <1>20

-----------------------------------------------------------------------------
(* How a part is drawn *)

Dirs == {<<1, 0>>, <<-1, 0>>, <<0, 1>>, <<0, -1>>}
Terminals == [pin : Pins, pos : Places, dir : Dirs]

\* There are finitely many pins and nets, and each pin is one of its part's.
LEMMA PinsAre ==
    /\ IsFiniteSet(Pins) /\ IsFiniteSet(Nets) /\ IsFiniteSet(DOMAIN PortOrder) /\ DOMAIN PortOrder \subseteq Nat
    /\ \A i \in DOMAIN PortOrder : PortOrder[i] \in Pins
    /\ \A p \in Pins : p[1] \in Comps /\ p = <<p[1], p[2]>> /\ \E k \in DOMAIN PinNames[p[1]] : PinNames[p[1]][k] = p[2]
    /\ \A c \in Comps : Len(PinNames[c]) \in Nat /\ DOMAIN PinNames[c] = 1..Len(PinNames[c])
    /\ Len(NetOrder) \in Nat /\ DOMAIN NetOrder = 1..Len(NetOrder)
<1>1. PortOrder \in Seq(Comps \X STRING) /\ NetOrder \in Seq(Nets) /\ \A c \in Comps : PinNames[c] \in Seq(STRING)
  BY PinsAssumption, GeometryAssumption
<1>2. /\ DOMAIN PortOrder = 1..Len(PortOrder) /\ Len(PortOrder) \in Nat
      /\ DOMAIN NetOrder = 1..Len(NetOrder) /\ Len(NetOrder) \in Nat
      /\ \A c \in Comps : Len(PinNames[c]) \in Nat /\ DOMAIN PinNames[c] = 1..Len(PinNames[c])
  BY <1>1, LenProperties
<1>3. IsFiniteSet(DOMAIN PortOrder) /\ IsFiniteSet(DOMAIN NetOrder)
  BY <1>2, FS_Interval
<1>4. IsFiniteSet(Pins)
  BY <1>3, ImageFinite DEF Pins
<1>5. IsFiniteSet(Nets)
  <2>1. Nets = {NetOrder[i] : i \in DOMAIN NetOrder}
    BY <1>1, <1>2, GeometryAssumption, ElementOfSeq
  <2> QED BY <1>3, <2>1, ImageFinite
<1>6. \A p \in Pins : p \in Comps \X STRING
  BY <1>1, <1>2, ElementOfSeq DEF Pins
<1>7. \A p \in Pins : p[1] \in Comps /\ p = <<p[1], p[2]>>
  BY <1>6
<1>8. \A p \in Pins : \E k \in DOMAIN PinNames[p[1]] : PinNames[p[1]][k] = p[2]
  BY PinsAssumption
<1>9. \A i \in DOMAIN PortOrder : PortOrder[i] \in Pins
  BY DEF Pins
<1> QED BY <1>2, <1>3, <1>4, <1>5, <1>7, <1>8, <1>9

\* A node holds only parts that are there; a part holds itself.
LEMMA PartsAre ==
    ASSUME TypeOK
    PROVE  /\ IsFiniteSet(parts) /\ parts \subseteq Comps
           /\ \A n \in Nodes : Holds(n) \subseteq parts /\ IsFiniteSet(Holds(n))
           /\ \A c \in parts : Holds(c) = {c}
<1>1. IsFiniteSet(parts) /\ parts \subseteq Comps
  BY TreeIs, FS_Subset DEF TypeOK
<1>2. \A n \in Nodes : Holds(n) \subseteq parts /\ IsFiniteSet(Holds(n))
  <2> SUFFICES ASSUME NEW n \in Nodes PROVE Holds(n) \subseteq parts /\ IsFiniteSet(Holds(n))
    OBVIOUS
  <2>1. Holds(n) \subseteq parts
    BY DEF Holds
  <2> QED BY <1>1, <2>1, FS_Subset
<1>3. \A c \in parts : Holds(c) = {c}
  BY <1>1, UnderIs DEF Holds
<1> QED BY <1>1, <1>2, <1>3

\* Each part has a place, a look and a size (compute_layout).
LEMMA LooksAre ==
    ASSUME TypeOK, NEW c \in parts
    PROVE  /\ Center(c) \in Places /\ Look(c) \in {"chip"} \union Orients
           /\ Look(c) = "chip" <=> c \notin Symbolic
           /\ Size(c) \in Places /\ Size(c)[1] >= 0 /\ Size(c)[2] >= 0
<1>1. c \in Comps
  BY DEF TypeOK
<1>2. AllAuthored => authored[c] \in Positions
  BY <1>1 DEF TypeOK, AllAuthored
<1>3. Center(c) \in Places
  <2>1. CASE AllAuthored
    BY <1>2, <2>1 DEF Center, Positions
  <2>2. CASE ~AllAuthored
    <3>1. packed \in [at : [Comps -> Places], box : [Modules \ {"root"} -> Rects]]
      BY GeometryAssumption DEF TypeOK
    <3>2. packed.at \in [Comps -> Places]
      BY <3>1
    <3> QED BY <1>1, <2>2, <3>2 DEF Center
  <2> QED BY <2>1, <2>2
<1>4. Upright(c) \in Orients
  BY DEF Upright, Orients
<1>5. c \in Symbolic => Look(c) \in Orients
  <2>1. AllAuthored => authored[c].rot \in Orients
    BY <1>2 DEF Positions
  <2> QED BY <1>4, <2>1 DEF Look
<1>6. "chip" \notin Orients
  BY DEF Orients
<1>7. Look(c) \in {"chip"} \union Orients /\ (Look(c) = "chip" <=> c \notin Symbolic)
  <2>1. c \notin Symbolic => Look(c) = "chip"
    BY DEF Look
  <2> QED BY <1>5, <1>6, <2>1
<1>8. LeftCount(c) \in Nat /\ ChipSize(c) \in Places /\ ChipSize(c)[1] >= 0 /\ ChipSize(c)[2] >= 72
  <2>1. Len(PinNames[c]) \in Nat
    BY <1>1, PinsAre
  <2>2. LeftCount(c) \in Nat
    <3> DEFINE n == Len(PinNames[c])
    <3>1. LeftCount(c) = (n + 1) \div 2 /\ n \in Nat
      BY <2>1 DEF LeftCount
    <3> HIDE DEF n
    <3>2. (n + 1) \div 2 \in Int /\ (n + 1) \div 2 >= 0
      BY <3>1
    <3> QED BY <3>1, <3>2
  <2>3. ChipWidth \in Nat
    BY GeometryAssumption
  <2> DEFINE h == Max({72, 24 * LeftCount(c) + 48})
  <2>4. h \in Int /\ h >= 72
    BY <2>2, PairEnds
  <2>5. ChipSize(c) = <<ChipWidth, h>>
    BY DEF ChipSize
  <2> HIDE DEF h
  <2> QED BY <2>2, <2>3, <2>4, <2>5, PlacesAre
<1>9. Size(c) \in Places /\ Size(c)[1] >= 0 /\ Size(c)[2] >= 0
  <2>1. SymbolSize(Look(c)) \in {<<72, 78>>, <<108, 72>>}
    BY DEF SymbolSize
  <2>2. SymbolSize(Look(c)) \in Places /\ SymbolSize(Look(c))[1] >= 0 /\ SymbolSize(Look(c))[2] >= 0
    <3> DEFINE z == SymbolSize(Look(c))
    <3>1. <<72, 78>> \in Places /\ <<108, 72>> \in Places
      BY PlacesAre
    <3>2. z = <<72, 78>> \/ z = <<108, 72>>
      BY <2>1
    <3> HIDE DEF z
    <3>3. CASE z = <<72, 78>>
      <4>1. z[1] = 72 /\ z[2] = 78
        BY <3>3
      <4> QED BY <3>1, <3>3, <4>1 DEF z
    <3>4. CASE z = <<108, 72>>
      <4>1. z[1] = 108 /\ z[2] = 72
        BY <3>4
      <4> QED BY <3>1, <3>4, <4>1 DEF z
    <3> QED BY <3>2, <3>3, <3>4
  <2>3. ChipSize(c)[2] >= 0
    <3>1. ChipSize(c)[2] \in Int
      BY <1>8, PlacesAre
    <3> QED BY <1>8, <3>1
  <2>4. CASE Look(c) = "chip"
    BY <1>8, <2>3, <2>4 DEF Size
  <2>5. CASE Look(c) # "chip"
    BY <2>2, <2>5 DEF Size
  <2> QED BY <2>4, <2>5
<1> QED BY <1>3, <1>7, <1>9

\* A pin is at a place of its part, and its wire leaves it along an axis (glyph_layout_at).
LEMMA OffsetsAre ==
    ASSUME TypeOK, NEW c \in parts, NEW i \in DOMAIN PinNames[c]
    PROVE  PinOffset(c, i) \in Places /\ Direction(c, i) \in Dirs
<1>1. c \in Comps /\ Look(c) \in {"chip"} \union Orients
  BY LooksAre DEF TypeOK
<1>2. PinOffset(c, i) \in Places
  <2>1. CASE Look(c) = "chip"
    <3> DEFINE n == Len(PinNames[c])
               left == LeftCount(c)
               row  == IF i <= left THEN i ELSE i - left
               rows == IF i <= left THEN left ELSE n - left
               h    == ChipSize(c)[2]
    <3>1. n \in Nat /\ i \in 1..n
      BY <1>1, PinsAre
    <3>2. left \in Nat /\ left <= n
      <4>1. left = (n + 1) \div 2
        BY DEF LeftCount
      <4> HIDE DEF left, n
      <4>2. CASE n = 0
        BY <3>1, <4>2
      <4>3. CASE n # 0
        BY <3>1, <4>1, <4>3
      <4> QED BY <4>2, <4>3
    <3>3. ChipWidth \in Nat
      BY GeometryAssumption
    <3>4. h \in Int
      <4>1. Max({72, 24 * LeftCount(c) + 48}) \in Int
        BY <3>2, PairEnds
      <4> QED BY <4>1 DEF ChipSize
    <3> HIDE DEF n, left, h
    <3>5. row \in Int /\ rows \in Nat
      BY <3>1, <3>2
    <3> HIDE DEF row, rows
    <3>6. (h * row) \div (rows + 1) \in Int
      <4>1. h * row \in Int /\ rows + 1 \in Int /\ rows + 1 > 0
        BY <3>4, <3>5
      <4> QED BY <4>1
    <3>7. h \div 2 \in Int /\ ChipWidth \div 2 \in Int
      BY <3>3, <3>4
    <3>8. ChipPin(c, i) = <<IF i <= left THEN -(ChipWidth \div 2) ELSE ChipWidth \div 2, (h * row) \div (rows + 1) - h \div 2>>
      BY DEF ChipPin, row, rows, left, h, n
    <3>9. ChipPin(c, i) \in Places
      BY <3>6, <3>7, <3>8, PlacesAre
    <3> QED BY <2>1, <3>9 DEF PinOffset
  <2>2. CASE Look(c) # "chip"
    <3>1. Look(c) \in Orients
      BY <1>1, <2>2
    <3>2. FirstPin[Look(c)] \in {<<-36, 0>>, <<36, 0>>, <<0, -36>>, <<0, 36>>}
      BY <3>1 DEF FirstPin, Orients
    <3> DEFINE first == FirstPin[Look(c)]
    <3>3. first \in Places /\ <<-first[1], -first[2]>> \in Places
      BY <3>2, PlacesAre
    <3> QED BY <2>2, <3>3 DEF PinOffset
  <2> QED BY <2>1, <2>2
<1>3. Direction(c, i) \in Dirs
  BY DEF Direction, Dirs
<1> QED BY <1>2, <1>3

\* A pin of a part that is there is a terminal of the router (stub_terminal).
LEMMA TerminalsAre ==
    ASSUME TypeOK, NEW p \in Pins, p[1] \in parts
    PROVE  Terminal(p) \in Terminals /\ Terminal(p).pin = p
<1> DEFINE c == p[1]
           i == CHOOSE k \in DOMAIN PinNames[c] : PinNames[c][k] = p[2]
           at == PinOffset(c, i)
<1>1. i \in DOMAIN PinNames[c]
  BY PinsAre
<1>2. at \in Places /\ Direction(c, i) \in Dirs
  <2> HIDE DEF i
  <2> QED BY <1>1, OffsetsAre
<1>3. Center(c) \in Places
  BY LooksAre
<1>4. Terminal(p) = [pin |-> p, pos |-> <<Center(c)[1] + at[1], Center(c)[2] + at[2]>>, dir |-> Direction(c, i)]
  BY DEF Terminal
<1> HIDE DEF i, at
<1>5. <<Center(c)[1] + at[1], Center(c)[2] + at[2]>> \in Places
  BY <1>2, <1>3, PlacesAre
<1> QED BY <1>2, <1>4, <1>5 DEF Terminals

-----------------------------------------------------------------------------
(* What is in the way *)

\* The box around some rectangles is one.
LEMMA BoundsAre ==
    ASSUME NEW S \in SUBSET Rects, IsFiniteSet(S), S # {}
    PROVE  Bounds(S) \in Rects
<1>1. /\ \A i \in {1, 2} : {r.lo[i] : r \in S} \subseteq Int /\ {r.hi[i] : r \in S} \subseteq Int
      /\ \A i \in {1, 2} : {r.lo[i] : r \in S} # {} /\ {r.hi[i] : r \in S} # {}
  BY RectsAre
<1>2. ASSUME NEW i \in {1, 2} PROVE IsFiniteSet({r.lo[i] : r \in S}) /\ IsFiniteSet({r.hi[i] : r \in S})
  <2> DEFINE f == [r \in S |-> r.lo[i]]
             g == [r \in S |-> r.hi[i]]
  <2>1. {f[r] : r \in S} = {r.lo[i] : r \in S} /\ {g[r] : r \in S} = {r.hi[i] : r \in S}
    OBVIOUS
  <2> HIDE DEF f, g
  <2>2. IsFiniteSet({f[r] : r \in S})
    BY ImageFinite
  <2>3. IsFiniteSet({g[r] : r \in S})
    BY ImageFinite
  <2> QED BY <2>1, <2>2, <2>3
<1>3. \A i \in {1, 2} : Min({r.lo[i] : r \in S}) \in Int /\ Max({r.hi[i] : r \in S}) \in Int
  <2> SUFFICES ASSUME NEW i \in {1, 2} PROVE Min({r.lo[i] : r \in S}) \in Int /\ Max({r.hi[i] : r \in S}) \in Int
    OBVIOUS
  <2> DEFINE A == {r.lo[i] : r \in S}
             B == {r.hi[i] : r \in S}
  <2>1. A \in SUBSET Int /\ B \in SUBSET Int /\ A # {} /\ B # {} /\ IsFiniteSet(A) /\ IsFiniteSet(B)
    BY <1>1, <1>2
  <2> HIDE DEF A, B
  <2>2. Min(A) \in A /\ Max(B) \in B
    BY <2>1, MinIs, MaxIs
  <2>3. Min(A) \in Int /\ Max(B) \in Int
    BY <2>1, <2>2
  <2> QED BY <2>3 DEF A, B
<1> DEFINE a == Min({r.lo[1] : r \in S})
           b == Min({r.lo[2] : r \in S})
           c == Max({r.hi[1] : r \in S})
           d == Max({r.hi[2] : r \in S})
<1>4. a \in Int /\ b \in Int /\ c \in Int /\ d \in Int
  BY <1>3
<1>5. Bounds(S) = [lo |-> <<a, b>>, hi |-> <<c, d>>]
  BY DEF Bounds
<1> HIDE DEF a, b, c, d
<1> QED BY <1>4, <1>5, PlacesAre DEF Rects

\* The body of a part is a rectangle.
LEMMA BodyRectIs ==
    ASSUME TypeOK, NEW c \in parts
    PROVE  BodyRect(c) \in Rects
<1>1. Center(c) \in Places /\ Size(c) \in Places
  BY LooksAre
<1>2. \A a, b \in Places : Around(a, b) \in Rects
  <2> SUFFICES ASSUME NEW a \in Places, NEW b \in Places PROVE Around(a, b) \in Rects
    OBVIOUS
  <2>1. a[1] \in Int /\ a[2] \in Int /\ b[1] \div 2 \in Int /\ b[2] \div 2 \in Int
    BY PlacesAre
  <2>2. /\ <<a[1] - b[1] \div 2, a[2] - b[2] \div 2>> \in Places
        /\ <<a[1] + b[1] \div 2, a[2] + b[2] \div 2>> \in Places
    BY <2>1, PlacesAre
  <2> QED BY <2>2 DEF Around, Rects
<1> QED BY <1>1, <1>2 DEF BodyRect

\* A box is drawn around a module that holds something, and is a rectangle.
LEMMA BoxesAre ==
    ASSUME TypeOK, NEW m \in Boxes
    PROVE  m \in Modules \ {"root"} /\ Holds(m) # {} /\ BoxRect(m) \in Rects
<1>1. m \in Modules \ {"root"} /\ Holds(m) # {}
  BY DEF Boxes, DerivedBoxes, AuthoredBoxes
<1>2. CASE AllAuthored
  <2> DEFINE S == {BodyRect(c) : c \in Holds(m)}
             f == [c \in Holds(m) |-> BodyRect(c)]
  <2>1. Holds(m) \subseteq parts /\ IsFiniteSet(Holds(m))
    BY <1>1, PartsAre DEF Nodes
  <2>2. {f[c] : c \in Holds(m)} = S
    OBVIOUS
  <2>3. S \in SUBSET Rects /\ S # {}
    BY <1>1, <2>1, BodyRectIs
  <2> HIDE DEF f, S
  <2>4. IsFiniteSet(S)
    BY <2>1, <2>2, ImageFinite
  <2> DEFINE b == Bounds(S)
  <2>5. b \in Rects
    BY <2>3, <2>4, BoundsAre
  <2>6. BoxRect(m) = [lo |-> <<b.lo[1] - 60, b.lo[2] - 96>>, hi |-> <<b.hi[1] + 60, b.hi[2] + 60>>]
    BY <1>2 DEF BoxRect, S
  <2> HIDE DEF b
  <2>7. <<b.lo[1] - 60, b.lo[2] - 96>> \in Places /\ <<b.hi[1] + 60, b.hi[2] + 60>> \in Places
    BY <2>5, RectsAre, PlacesAre
  <2> QED BY <1>1, <2>6, <2>7 DEF Rects
<1>3. CASE ~AllAuthored
  <2>1. packed \in [at : [Comps -> Places], box : [Modules \ {"root"} -> Rects]]
    BY GeometryAssumption DEF TypeOK
  <2>2. packed.box \in [Modules \ {"root"} -> Rects]
    BY <2>1
  <2> QED BY <1>1, <1>3, <2>2 DEF BoxRect
<1> QED BY <1>2, <1>3

\* A net label takes up a rectangle (label_boxes, layout_check.rs:496).
LEMMA LabelRectIs ==
    ASSUME NEW n \in Nets, NEW t \in Terminals
    PROVE  LabelRect(n, t) \in Rects
<1> DEFINE far == LabelNear + LabelLen[n]
           half(i) == (IF i = 2 THEN LabelHeight ELSE LabelLen[n]) \div 2
           a(i) == IF t.dir[i] = 0 THEN t.pos[i] - half(i) ELSE t.pos[i] + t.dir[i] * LabelNear
           b(i) == IF t.dir[i] = 0 THEN t.pos[i] + half(i)
                   ELSE t.pos[i] + t.dir[i] * (IF i = 1 THEN far ELSE LabelNear + LabelHeight)
           span(i) == IF t.dir[i] = 0
                      THEN LET h == (IF i = 2 THEN LabelHeight ELSE LabelLen[n]) \div 2
                           IN  {t.pos[i] - h, t.pos[i] + h}
                      ELSE {t.pos[i] + t.dir[i] * LabelNear,
                            t.pos[i] + t.dir[i] * (IF i = 1 THEN far ELSE LabelNear + LabelHeight)}
<1>1. LabelNear \in Int /\ LabelHeight \in Int /\ LabelLen[n] \in Int
  BY GeometryAssumption
<1>2. \A i \in {1, 2} : t.dir[i] \in {-1, 0, 1} /\ t.pos[i] \in Int
  <2>1. t.dir \in Dirs /\ t.pos \in Places
    BY DEF Terminals
  <2> QED BY <2>1, PlacesAre DEF Dirs
<1>3. \A i \in {1, 2} : half(i) \in Int
  BY <1>1
<1>4. \A i \in {1, 2} : a(i) \in Int /\ b(i) \in Int
  <2> HIDE DEF half
  <2> QED BY <1>1, <1>2, <1>3
<1>5. \A i \in {1, 2} : span(i) = {a(i), b(i)}
  OBVIOUS
<1>6. LabelRect(n, t) = [lo |-> <<Min(span(1)), Min(span(2))>>, hi |-> <<Max(span(1)), Max(span(2))>>]
  BY DEF LabelRect
<1> HIDE DEF a, b, span
<1>7. \A i \in {1, 2} : Min(span(i)) \in Int /\ Max(span(i)) \in Int
  <2> SUFFICES ASSUME NEW i \in {1, 2} PROVE Min({a(i), b(i)}) \in Int /\ Max({a(i), b(i)}) \in Int
    BY <1>5
  <2>1. a(i) \in Int /\ b(i) \in Int
    BY <1>4
  <2> QED BY <2>1, PairEnds
<1>8. <<Min(span(1)), Min(span(2))>> \in Places /\ <<Max(span(1)), Max(span(2))>> \in Places
  BY <1>7, PlacesAre
<1> QED BY <1>6, <1>8 DEF Rects

\* What find_empty_space has to keep clear of is finite.
LEMMA ObstaclesAre ==
    ASSUME TypeOK
    PROVE  Obstacles \in SUBSET Rects /\ IsFiniteSet(Obstacles)
<1> DEFINE A == {BodyRect(c) : c \in parts}
           B == {BoxRect(m) : m \in Boxes}
           C == SeenLabels(Routes)
<1>1. A \subseteq Rects /\ IsFiniteSet(A)
  <2> DEFINE f == [c \in parts |-> BodyRect(c)]
  <2>1. {f[c] : c \in parts} = A /\ IsFiniteSet(parts)
    BY PartsAre
  <2>2. A \subseteq Rects
    BY BodyRectIs
  <2> HIDE DEF f, A
  <2> QED BY <2>1, <2>2, ImageFinite
<1>2. B \subseteq Rects /\ IsFiniteSet(B)
  <2> DEFINE f == [m \in Boxes |-> BoxRect(m)]
  <2>1. {f[m] : m \in Boxes} = B
    OBVIOUS
  <2>2. Boxes \subseteq Modules
    BY BoxesAre
  <2>3. IsFiniteSet(Boxes)
    BY <2>2, TreeIs, FS_Subset
  <2>4. B \subseteq Rects
    BY BoxesAre
  <2> HIDE DEF f, B
  <2> QED BY <2>1, <2>3, <2>4, ImageFinite
<1>3. C \subseteq Rects /\ IsFiniteSet(C)
  <2> DEFINE f == [x \in Nets \X Pins |-> LabelRect(x[1], Terminal(x[2]))]
             D == {f[x] : x \in Nets \X Pins}
  <2>1. IsFiniteSet(D)
    <3>1. IsFiniteSet(Nets \X Pins)
      BY PinsAre, FS_Product
    <3> HIDE DEF f
    <3> QED BY <3>1, ImageFinite
  <2>2. \A n \in Nets : \A p \in PortSet(n) : p \in Pins /\ p[1] \in parts
    <3> SUFFICES ASSUME NEW n \in Nets, NEW i \in DOMAIN Ports(n) PROVE Ports(n)[i] \in Pins /\ Ports(n)[i][1] \in parts
      BY DEF PortSet
    <3>1. i \in DOMAIN PortOrder /\ Ports(n)[i] = PortOrder[i] /\ IsPort(PortOrder[i], n)
      BY DEF Ports, RestrictValues, Restrict
    <3> QED BY <3>1, PinsAre DEF IsPort
  <2>3. ASSUME NEW r \in C PROVE r \in D /\ r \in Rects
    <3>1. PICK n \in Nets : r \in {LabelRect(n, Terminal(p)) : p \in PortSet(n)}
      BY <2>3 DEF SeenLabels
    <3>2. PICK p \in PortSet(n) : r = LabelRect(n, Terminal(p))
      BY <3>1
    <3>3. p \in Pins /\ p[1] \in parts
      BY <2>2
    <3>4. <<n, p>> \in Nets \X Pins /\ f[<<n, p>>] = r
      BY <3>2, <3>3
    <3>5. r \in D
      <4> HIDE DEF f
      <4> QED BY <3>4
    <3>6. r \in Rects
      BY <3>2, <3>3, TerminalsAre, LabelRectIs
    <3> QED BY <3>5, <3>6
  <2> HIDE DEF C, D
  <2>4. C \in SUBSET D /\ C \subseteq Rects
    BY <2>3
  <2> QED BY <2>1, <2>4, FS_Subset
<1>4. Obstacles = A \union B \union C
  BY DEF Obstacles
<1> HIDE DEF A, B, C
<1>5. IsFiniteSet(A \union B) /\ IsFiniteSet((A \union B) \union C)
  <2>1. IsFiniteSet(A \union B)
    BY <1>1, <1>2, FS_Union
  <2> QED BY <1>3, <2>1, FS_Union
<1> QED BY <1>1, <1>2, <1>3, <1>4, <1>5

\* What find_empty_space returns is clear of all that is in the way.
LEMMA SpaceIsClear ==
    ASSUME TypeOK PROVE FoundSpaceIsFree
<1> DEFINE S == Obstacles
<1>1. S \in SUBSET Rects /\ IsFiniteSet(S)
  BY ObstaclesAre
<1> HIDE DEF S
<1>2. ASSUME NEW dir \in Directions, NEW anchor \in {None} \union parts \union Boxes, S # {}
      PROVE  IsFree(EmptySpace(<<240, 120>>, dir, 24, anchor, S), S)
  <2> DEFINE size == <<240, 120>>
             holds == IF anchor = None THEN S
                      ELSE {BodyRect(c) : c \in Holds(anchor)}
                             \union (IF anchor \in Boxes THEN {BoxRect(anchor)} ELSE {})
             ab    == Bounds(holds)
             start == [lo |-> ab.lo, hi |-> <<ab.lo[1] + size[1], ab.lo[2] + size[2]>>]
             base  == Push(start, ab, dir, 24)
  <2>1. holds \in SUBSET Rects /\ IsFiniteSet(holds) /\ holds # {}
    <3>1. CASE anchor = None
      BY <1>1, <1>2, <3>1
    <3>2. CASE anchor # None
      <4> DEFINE A == {BodyRect(c) : c \in Holds(anchor)}
                 B == IF anchor \in Boxes THEN {BoxRect(anchor)} ELSE {}
                 f == [c \in Holds(anchor) |-> BodyRect(c)]
      <4>1. anchor \in Nodes /\ Holds(anchor) # {}
        <5>1. CASE anchor \in parts
          BY <5>1, PartsAre DEF Nodes
        <5>2. CASE anchor \in Boxes
          BY <5>2, BoxesAre DEF Nodes
        <5> QED BY <1>2, <3>2, <5>1, <5>2
      <4>2. Holds(anchor) \subseteq parts /\ IsFiniteSet(Holds(anchor))
        BY <4>1, PartsAre
      <4>3. A \subseteq Rects /\ A # {} /\ A = {f[c] : c \in Holds(anchor)}
        BY <4>1, <4>2, BodyRectIs
      <4>4. B \subseteq Rects /\ IsFiniteSet(B)
        <5>1. IsFiniteSet({}) /\ IsFiniteSet({BoxRect(anchor)})
          BY FS_EmptySet, FS_Singleton
        <5> QED BY <5>1, BoxesAre
      <4>5. holds = A \union B
        BY <3>2
      <4> HIDE DEF A, B, f, holds
      <4>6. IsFiniteSet(A)
        BY <4>2, <4>3, ImageFinite
      <4> QED BY <4>3, <4>4, <4>5, <4>6, FS_Union
    <3> QED BY <3>1, <3>2
  <2>2. ab \in Rects
    <3> HIDE DEF holds
    <3> QED BY <2>1, BoundsAre
  <2>3. start \in Rects
    <3> HIDE DEF ab
    <3>1. size[1] \in Int /\ size[2] \in Int
      OBVIOUS
    <3>2. ab.lo \in Places /\ ab.lo[1] \in Int /\ ab.lo[2] \in Int
      BY <2>2, RectsAre
    <3> HIDE DEF size
    <3>3. <<ab.lo[1] + size[1], ab.lo[2] + size[2]>> \in Places
      BY <3>1, <3>2, PlacesAre
    <3> QED BY <3>2, <3>3 DEF Rects
  <2>4. base \in Rects
    <3> HIDE DEF start, ab
    <3> QED BY <2>2, <2>3, PushIs
  <2> DEFINE g == CHOOSE f : f = SweepOnce(S, base, dir, 24, f)
  <2>5. EmptySpace(size, dir, 24, anchor, S) = g[S]
    <3>1. EmptySpace(size, dir, 24, anchor, S) =
             (CHOOSE f : f = [s \in SUBSET S |->
                IF s = {} THEN base
                ELSE LET x == SweepFar(s, dir) IN Past(x, f[s \ {x}], dir, 24)])[S]
      BY DEF EmptySpace, MapThenFoldSet, SweepFar, Past
    <3> QED BY <3>1 DEF SweepOnce
  <2> HIDE DEF base, g
  <2>6. g = CHOOSE f : f = SweepOnce(S, base, dir, 24, f)
    BY DEF g
  <2>7. \A o \in S : ~Overlap(g[S], Padded(o, 24))
    BY <1>1, <2>4, <2>6, SweepIsClear
  <2> QED BY <2>5, <2>7 DEF IsFree
<1>3. ASSUME NEW dir \in Directions, NEW anchor, S = {}
      PROVE  IsFree(EmptySpace(<<240, 120>>, dir, 24, anchor, S), S)
  BY <1>3 DEF IsFree
<1> QED BY <1>2, <1>3 DEF FoundSpaceIsFree, SpaceIsFree, Directions, S

-----------------------------------------------------------------------------
(* Types *)

\* merge_positions writes positions.
LEMMA MergedIs ==
    ASSUME TypeOK, NEW moved \in SUBSET Comps, NEW at \in Places, NEW turn \in BOOLEAN
    PROVE  Merged(moved, at, turn) \in [Comps -> Positions \union {None}]
<1> DEFINE rot(c) == IF authored[c] # None THEN authored[c].rot ELSE DerivedRotation(c)
           to(c) == CASE c \in moved -> [at |-> at, rot |-> IF turn THEN Turned[rot(c)] ELSE rot(c)]
                      [] c \in parts \ moved /\ authored[c] = None -> [at |-> Center(c), rot |-> rot(c)]
                      [] OTHER -> authored[c]
<1>1. ASSUME NEW c \in Comps PROVE rot(c) \in Orients
  <2>1. authored[c] # None => authored[c].rot \in Orients
    BY DEF TypeOK, Positions
  <2>2. DerivedRotation(c) \in Orients
    BY DEF DerivedRotation, Upright, Orients
  <2> QED BY <2>1, <2>2
<1>2. \A r \in Orients : Turned[r] \in Orients
  BY DEF Turned, Orients
<1> HIDE DEF rot
<1>3. ASSUME NEW c \in Comps PROVE to(c) \in Positions \union {None}
  <2>1. CASE c \in moved
    BY <1>1, <1>2, <2>1 DEF Positions
  <2>2. CASE c \notin moved /\ c \in parts /\ authored[c] = None
    <3>1. Center(c) \in Places
      BY <2>2, LooksAre
    <3> QED BY <1>1, <2>2, <3>1 DEF Positions
  <2>3. CASE c \notin moved /\ ~(c \in parts /\ authored[c] = None)
    BY <2>3 DEF TypeOK
  <2> QED BY <2>1, <2>2, <2>3
<1>4. Merged(moved, at, turn) = [c \in Comps |-> to(c)]
  BY DEF Merged, rot
<1> HIDE DEF to
<1> QED BY <1>3, <1>4

\* The boards there are to begin with have the types of the code's.
LEMMA TypeStart == Init => TypeOK
<1> SUFFICES ASSUME Init PROVE TypeOK
  OBVIOUS
<1>1. PICK b \in Boards : parts = b.parts /\ net = b.net /\ authored = b.authored /\ packed = b.packed
  BY DEF Init
<1>2. b \in [parts : SUBSET Comps, net : [Pins -> Nets \union {None}],
             authored : [Comps -> Positions \union {None}], packed : Packings]
  BY GeometryAssumption
<1>3. edits = 0 /\ MaxEdits \in Nat
  BY GeometryAssumption DEF Init
<1> QED BY <1>1, <1>2, <1>3 DEF TypeOK

\* No edit writes anything else.
LEMMA TypeStep == TypeOK /\ [Next]_vars => TypeOK'
<1> SUFFICES ASSUME TypeOK, [Next]_vars PROVE TypeOK'
  OBVIOUS
<1>1. Edited => edits' \in 0..MaxEdits
  BY GeometryAssumption DEF TypeOK, Edited
<1>2. Repacked => packed' \in Packings
  BY DEF Repacked, TypeOK
<1>3. ASSUME NEW c \in Comps, NEW at \in Places, NEW turn \in BOOLEAN, SavePositions(c, at, turn) PROVE TypeOK'
  <2>1. Merged({c}, at, turn) \in [Comps -> Positions \union {None}]
    BY MergedIs
  <2> QED BY <1>1, <1>3, <2>1 DEF SavePositions, TypeOK
<1>4. \A c \in parts : c \in Comps /\ Center(c) \in Places
  BY LooksAre DEF TypeOK
<1>5. \A at \in Spots : at \in Places
  BY GeometryAssumption
<1>6. ASSUME NEW c \in parts, Rotate(c) PROVE TypeOK'
  BY <1>3, <1>4, <1>6 DEF Rotate
<1>7. ASSUME NEW c \in parts, RemoveInstance(c) PROVE TypeOK'
  BY <1>1, <1>2, <1>7 DEF RemoveInstance, TypeOK
<1>8. ASSUME NEW c \in parts, NEW at \in Spots, Move(c, at) PROVE TypeOK'
  BY <1>3, <1>4, <1>5, <1>8 DEF Move
<1>9. ASSUME NEW c \in Comps \ parts, AddUnplaced(c) PROVE TypeOK'
  BY <1>1, <1>2, <1>9 DEF AddUnplaced, TypeOK
<1>10. ASSUME NEW c \in Comps \ parts, NEW at \in Spots, NEW built \in BOOLEAN, Place(c, at, built) PROVE TypeOK'
  <2> DEFINE a == IF built THEN Merged({}, at, FALSE) ELSE authored
  <2>1. a \in [Comps -> Positions \union {None}]
    <3>1. Merged({}, at, FALSE) \in [Comps -> Positions \union {None}]
      BY <1>5, MergedIs
    <3> QED BY <3>1 DEF TypeOK
  <2>2. [at |-> at, rot |-> "right"] \in Positions
    BY <1>5 DEF Positions, Orients
  <2>3. authored' = [a EXCEPT ![c] = [at |-> at, rot |-> "right"]]
    BY <1>10 DEF Place
  <2> HIDE DEF a
  <2>4. authored' \in [Comps -> Positions \union {None}]
    BY <2>1, <2>2, <2>3
  <2> QED BY <1>1, <1>2, <1>10, <2>4 DEF Place, TypeOK
<1>11. ASSUME NEW p \in Pins, NEW n \in Nets, Rewire(p, n) PROVE TypeOK'
  BY <1>1, <1>2, <1>11 DEF Rewire, TypeOK
<1>12. CASE UNCHANGED vars
  BY <1>12 DEF vars, TypeOK
<1> QED BY <1>6, <1>7, <1>8, <1>9, <1>10, <1>11, <1>12 DEF Next

\* Type correctness: whatever edits are made, a board holds known parts, pins on known nets, and
\* for each part a position or none (Positions of positions.rs, the layout of compute_layout).
THEOREM TypeCorrect == Spec => []TypeOK
BY TypeStart, TypeStep, PTL DEF Spec

\* find_empty_space keeps its promise of a spot "padding away from everything" (layout_check.rs:338)
\* on every board: the one greedy sweep (layout_check.rs:454-480) ends clear of all of the obstacles.
THEOREM SpaceCorrect == Spec => []FoundSpaceIsFree
BY TypeCorrect, SpaceIsClear, PTL

-----------------------------------------------------------------------------
(* Siblings *)

IsKids(kids) ==
    /\ IsFiniteSet(DOMAIN kids) /\ DOMAIN kids \subseteq Nat
    /\ \A i \in DOMAIN kids : kids[i] \in Nodes /\ Holds(kids[i]) # {}
    /\ \A i, j \in DOMAIN kids : i # j => Holds(kids[i]) \intersect Holds(kids[j]) = {}

\* A module holds what its children hold, and no two of them the same part.
LEMMA HoldsIs ==
    ASSUME TypeOK
    PROVE  /\ \A m \in Modules : Holds(m) = UNION {Holds(Tree[m][i]) : i \in DOMAIN Tree[m]}
           /\ \A m \in Modules : \A i, j \in DOMAIN Tree[m] :
                 i # j => Holds(Tree[m][i]) \intersect Holds(Tree[m][j]) = {}
           /\ \A c \in Comps : Holds(c) \subseteq {c} /\ (Holds(c) # {} => c \in parts)
<1>1. ASSUME NEW m \in Modules PROVE Holds(m) = UNION {Holds(Tree[m][i]) : i \in DOMAIN Tree[m]}
  <2>1. Under[m] = UNION {Under[Tree[m][i]] : i \in DOMAIN Tree[m]}
    BY UnderIs
  <2>2. ASSUME NEW c \in Holds(m) PROVE c \in UNION {Holds(Tree[m][i]) : i \in DOMAIN Tree[m]}
    BY <2>1, <2>2 DEF Holds
  <2>3. ASSUME NEW c \in UNION {Holds(Tree[m][i]) : i \in DOMAIN Tree[m]} PROVE c \in Holds(m)
    BY <2>1, <2>3 DEF Holds
  <2> QED BY <2>2, <2>3
<1>2. \A m \in Modules : \A i, j \in DOMAIN Tree[m] :
                 i # j => Holds(Tree[m][i]) \intersect Holds(Tree[m][j]) = {}
  BY SiblingsAssumption DEF Holds
<1>3. \A c \in Comps : Holds(c) \subseteq {c} /\ (Holds(c) # {} => c \in parts)
  BY UnderIs DEF Holds
<1> QED BY <1>1, <1>2, <1>3

\* The children that are drawn (drawable_children) are those that hold something.
LEMMA ChildrenAre ==
    ASSUME TypeOK, NEW m \in Modules
    PROVE  /\ IsFiniteSet(DOMAIN Children(m)) /\ DOMAIN Children(m) \subseteq DOMAIN Tree[m] /\ DOMAIN Tree[m] \subseteq Nat
           /\ DOMAIN Children(m) = {i \in DOMAIN Tree[m] : Holds(Tree[m][i]) # {}}
           /\ \A i \in DOMAIN Children(m) : /\ Children(m)[i] = Tree[m][i] /\ Children(m)[i] \in Nodes \ {"root"}
                                            /\ Holds(Children(m)[i]) # {}
           /\ \A i, j \in DOMAIN Children(m) :
                 i # j => Holds(Children(m)[i]) \intersect Holds(Children(m)[j]) = {}
           /\ Holds(m) = UNION {Holds(Children(m)[i]) : i \in DOMAIN Children(m)}
<1>1. DOMAIN Tree[m] = 1..Len(Tree[m]) /\ Len(Tree[m]) \in Nat
  BY TreeIs, LenProperties
<1>2. IsFiniteSet(DOMAIN Tree[m]) /\ DOMAIN Tree[m] \subseteq Nat
  BY <1>1, FS_Interval
<1>3. Children(m) = [i \in {x \in DOMAIN Tree[m] : Holds(Tree[m][x]) # {}} |-> Tree[m][i]]
  BY DEF Children, RestrictValues, Restrict, Drawable
<1>4. /\ DOMAIN Children(m) = {i \in DOMAIN Tree[m] : Holds(Tree[m][i]) # {}}
      /\ \A i \in DOMAIN Children(m) : Children(m)[i] = Tree[m][i]
  BY <1>3
<1>5. IsFiniteSet(DOMAIN Children(m))
  BY <1>2, <1>4, FS_Subset
<1>6. \A i \in DOMAIN Tree[m] : Tree[m][i] \in Nodes \ {"root"}
  BY TreeIs
<1>7. \A i, j \in DOMAIN Children(m) :
                 i # j => Holds(Children(m)[i]) \intersect Holds(Children(m)[j]) = {}
  BY <1>4, HoldsIs
<1>8. Holds(m) = UNION {Holds(Children(m)[i]) : i \in DOMAIN Children(m)}
  <2>1. Holds(m) = UNION {Holds(Tree[m][i]) : i \in DOMAIN Tree[m]}
    BY HoldsIs
  <2>2. ASSUME NEW c \in Holds(m) PROVE c \in UNION {Holds(Children(m)[i]) : i \in DOMAIN Children(m)}
    <3>1. PICK i \in DOMAIN Tree[m] : c \in Holds(Tree[m][i])
      BY <2>1
    <3>2. i \in DOMAIN Children(m) /\ c \in Holds(Children(m)[i])
      BY <1>4, <3>1
    <3> QED BY <3>2
  <2>3. ASSUME NEW c \in UNION {Holds(Children(m)[i]) : i \in DOMAIN Children(m)} PROVE c \in Holds(m)
    BY <1>4, <2>1
  <2> QED BY <2>2, <2>3
<1> QED BY <1>2, <1>4, <1>5, <1>6, <1>7, <1>8

\* Whether a module is drawn as what it holds does not change what it holds.
LEMMA HoistedIs ==
    ASSUME TypeOK, NEW n \in Nodes
    PROVE  /\ Hoisted(n) \in Nodes /\ Holds(Hoisted(n)) = Holds(n)
           /\ n \in Comps => Hoisted(n) = n
           /\ n \in Modules /\ Hoisted(n) # n => \E c \in parts : Holds(n) = {c} /\ Hoisted(n) = c
<1>1. CASE n \in Modules /\ Cardinality(Holds(n)) = 1
  <2>1. PICK c : Holds(n) = {c}
    BY <1>1, PartsAre, FS_Singleton
  <2>2. c \in parts /\ c \in Comps
    BY <2>1, PartsAre
  <2>3. Hoisted(n) = c
    BY <1>1, <2>1 DEF Hoisted
  <2>4. Holds(c) = {c}
    BY <2>2, PartsAre
  <2> QED BY <1>1, <2>1, <2>2, <2>3, <2>4, TreeIs DEF Nodes
<1>2. CASE ~(n \in Modules /\ Cardinality(Holds(n)) = 1)
  <2>1. Hoisted(n) = n
    BY <1>2 DEF Hoisted
  <2> QED BY <2>1
<1> QED BY <1>1, <1>2

\* A module drawn as its only child holds what that holds (rail_kids_of).
LEMMA UnwrappedIs ==
    ASSUME TypeOK, NEW n \in Nodes
    PROVE  /\ Unwrapped(n) \in Nodes /\ Holds(Unwrapped(n)) = Holds(n)
           /\ n \in Comps => Unwrapped(n) = n
<1> DEFINE those == {i \in DOMAIN Tree[n] : Drawable(Tree[n][i])}
           child == IF those = {} THEN None ELSE Tree[n][Min(those)]
<1>1. Unwrapped(n) = IF n \in Modules /\ Cardinality(DOMAIN Children(n)) = 1 /\ child \in Comps THEN child ELSE n
  BY DEF Unwrapped, FirstOf
<1> HIDE DEF child
<1>2. CASE n \in Modules /\ Cardinality(DOMAIN Children(n)) = 1 /\ child \in Comps
  <2>1. PICK x : DOMAIN Children(n) = {x}
    BY <1>2, ChildrenAre, FS_Singleton
  <2>2. those = {x} /\ x \in Nat
    BY <1>2, <2>1, ChildrenAre DEF Drawable
  <2>3. Min(those) = x
    BY <2>2 DEF Min
  <2>4. child = Tree[n][x]
    BY <2>2, <2>3 DEF child
  <2>5. Holds(n) = Holds(child)
    <3>1. Holds(n) = UNION {Holds(Children(n)[i]) : i \in {x}}
      BY <1>2, <2>1, ChildrenAre
    <3>2. Children(n)[x] = child
      BY <1>2, <2>1, <2>4, ChildrenAre
    <3>3. UNION {Holds(Children(n)[i]) : i \in {x}} = Holds(Children(n)[x])
      OBVIOUS
    <3> QED BY <3>1, <3>2, <3>3
  <2> QED BY <1>1, <1>2, <2>5, TreeIs DEF Nodes
<1>3. CASE ~(n \in Modules /\ Cardinality(DOMAIN Children(n)) = 1 /\ child \in Comps)
  <2>1. Unwrapped(n) = n
    BY <1>1, <1>3
  <2> QED BY <2>1
<1>4. n \in Comps => Unwrapped(n) = n
  BY <1>1, TreeIs
<1> QED BY <1>2, <1>3, <1>4

\* Either path sees siblings that share no part.
LEMMA KidsAre ==
    ASSUME TypeOK, NEW m \in Modules
    PROVE  IsKids(DerivedKids(m)) /\ IsKids(AuthoredKids(m))
<1> DEFINE ch == Children(m)
<1>1. DerivedKids(m) = [i \in DOMAIN ch |-> Hoisted(ch[i])] /\ AuthoredKids(m) = [i \in DOMAIN ch |-> Unwrapped(ch[i])]
  BY DEF DerivedKids, AuthoredKids, Each
<1>2. /\ IsFiniteSet(DOMAIN ch) /\ DOMAIN ch \subseteq Nat
      /\ \A i \in DOMAIN ch : ch[i] \in Nodes /\ Holds(ch[i]) # {}
      /\ \A i, j \in DOMAIN ch : i # j => Holds(ch[i]) \intersect Holds(ch[j]) = {}
  BY ChildrenAre
<1> HIDE DEF ch
<1>3. IsKids(DerivedKids(m))
  BY <1>1, <1>2, HoistedIs DEF IsKids
<1>4. IsKids(AuthoredKids(m))
  BY <1>1, <1>2, UnwrappedIs DEF IsKids
<1> QED BY <1>3, <1>4

-----------------------------------------------------------------------------
(* Stubs *)

IsRole(role) == (\A k \in Modules : role[k] = "flow") /\ (\A k \in Comps : role[k] \in {"flow", RailRole(k)})

\* A list has a first place.
LEMMA FirstIs ==
    ASSUME NEW D, IsFiniteSet(D), D \subseteq Nat, D # {}
    PROVE  Min(D) \in D /\ Min(D) \in Nat
<1>1. Min(D) \in D
  BY MinIs
<1> QED BY <1>1

\* The owner of a pin is the sibling that holds its part.
LEMMA OwnerIs ==
    ASSUME NEW kids, IsKids(kids), NEW p
    PROVE  /\ Owner(kids, p) # None =>
                 \E i \in DOMAIN kids : Owner(kids, p) = kids[i] /\ p[1] \in Holds(kids[i])
           /\ (\E i \in DOMAIN kids : p[1] \in Holds(kids[i])) => Owner(kids, p) # None
<1> DEFINE D == {i \in DOMAIN kids : p[1] \in Holds(kids[i])}
<1>1. Owner(kids, p) = IF D = {} THEN None ELSE kids[Min(D)]
  BY DEF Owner, FirstOf
<1>2. IsFiniteSet(D) /\ D \subseteq Nat
  BY FS_Subset DEF IsKids
<1>3. D # {} => Min(D) \in D
  <2> HIDE DEF D
  <2> QED BY <1>2, FirstIs
<1>4. \A i \in DOMAIN kids : kids[i] # None
  BY PinsAssumption DEF IsKids
<1> QED BY <1>1, <1>3, <1>4

\* A partner is another sibling of a wanted role, with a pin on the passive's signal net
\* (rail_partition, layout.rs:450).
LEMMA PartnerIs ==
    ASSUME NEW kids, IsKids(kids), NEW role, NEW k, NEW roles, Partner(kids, role, k, roles) # None
    PROVE  /\ SignalNet(k) # None
           /\ \E i \in DOMAIN kids :
                 /\ Partner(kids, role, k, roles) = kids[i] /\ kids[i] # k /\ role[kids[i]] \in roles
                 /\ \E p \in Pins : IsPort(p, SignalNet(k)) /\ p[1] \in Holds(kids[i])
<1> DEFINE serves(p) == IsPort(p, SignalNet(k)) /\ Owner(kids, p) # None /\ Owner(kids, p) # k /\ role[Owner(kids, p)] \in roles
           D == {j \in DOMAIN PortOrder : serves(PortOrder[j])}
           p == PortOrder[Min(D)]
<1>1. SignalNet(k) # None
  BY DEF Partner
<1>2. Partner(kids, role, k, roles) = IF (IF D = {} THEN None ELSE p) = None THEN None ELSE Owner(kids, p)
  BY <1>1 DEF Partner, FirstOf
<1>3. D # {}
  BY <1>2
<1>4. IsFiniteSet(D) /\ D \subseteq Nat
  BY PinsAre, FS_Subset
<1>5. Min(D) \in D
  <2> HIDE DEF D
  <2> QED BY <1>3, <1>4, FirstIs
<1>6. p \in Pins /\ serves(p)
  BY <1>5, PinsAre
<1>7. p # None
  BY <1>6, PinsAssumption
<1>8. Partner(kids, role, k, roles) = Owner(kids, p)
  BY <1>2, <1>3, <1>7
<1>9. PICK i \in DOMAIN kids : Owner(kids, p) = kids[i] /\ p[1] \in Holds(kids[i])
  BY <1>6, OwnerIs
<1> HIDE DEF p
<1> QED BY <1>1, <1>6, <1>8, <1>9

\* A passive serves with a pin of its own that is on no rail.
LEMMA SignalIs ==
    ASSUME NEW c \in Comps
    PROVE  /\ SignalPin(c) # None =>
                 /\ SignalPin(c) \in Pins /\ SignalPin(c)[1] = c
                 /\ KindOf(SignalPin(c)) \notin {"Power", "Ground"}
                 /\ \E i \in DOMAIN PinNames[c] : SignalPin(c) = <<c, PinNames[c][i]>>
           /\ (\E i \in DOMAIN PinNames[c] : KindOf(<<c, PinNames[c][i]>>) \notin {"Power", "Ground"}) => SignalPin(c) # None
<1> DEFINE s == [i \in DOMAIN PinNames[c] |-> <<c, PinNames[c][i]>>]
           D == {i \in DOMAIN s : KindOf(s[i]) \notin {"Power", "Ground"}}
<1>1. SignalPin(c) = IF D = {} THEN None ELSE s[Min(D)]
  BY DEF SignalPin, FirstOf
<1>2. DOMAIN s = DOMAIN PinNames[c] /\ \A i \in DOMAIN PinNames[c] : s[i] = <<c, PinNames[c][i]>> /\ s[i] \in Pins
  BY PinsAssumption
<1>3. IsFiniteSet(D) /\ D \subseteq Nat
  <2>1. DOMAIN s \subseteq Nat /\ IsFiniteSet(DOMAIN s)
    BY <1>2, PinsAre, FS_Interval
  <2> QED BY <2>1, FS_Subset
<1>4. D # {} => Min(D) \in D
  <2> HIDE DEF D
  <2> QED BY <1>3, FirstIs
<1>5. \A i \in DOMAIN PinNames[c] : s[i] # None /\ s[i][1] = c
  BY <1>2, PinsAssumption
<1> HIDE DEF s
<1>6. D = {i \in DOMAIN PinNames[c] : KindOf(<<c, PinNames[c][i]>>) \notin {"Power", "Ground"}}
  BY <1>2
<1> QED BY <1>1, <1>2, <1>4, <1>5, <1>6

\* An attached passive is wired to a pin of its partner on its signal net (partition_stubs).
LEMMA ServedIs ==
    ASSUME NEW k, NEW q \in Pins, NEW o, IsPort(q, SignalNet(k)), q[1] # k, q[1] \in Holds(o)
    PROVE  /\ Served(k, o) \in Pins /\ IsPort(Served(k, o), SignalNet(k))
           /\ Served(k, o)[1] # k /\ Served(k, o)[1] \in Holds(o)
<1> DEFINE D == {j \in DOMAIN PortOrder : IsPort(PortOrder[j], SignalNet(k)) /\ PortOrder[j][1] # k /\ PortOrder[j][1] \in Holds(o)}
<1>1. Served(k, o) = IF D = {} THEN None ELSE PortOrder[Min(D)]
  BY DEF Served, FirstOf
<1>2. D # {}
  BY DEF Pins
<1>3. IsFiniteSet(D) /\ D \subseteq Nat
  BY PinsAre, FS_Subset
<1>4. Min(D) \in D
  <2> HIDE DEF D
  <2> QED BY <1>2, <1>3, FirstIs
<1> QED BY <1>1, <1>2, <1>4, PinsAre

\* A stub joins two pins of different parts that are on one net.
IsStub(s) ==
    /\ s = <<s[1], s[2]>> /\ s[1] \in Pins /\ s[2] \in Pins /\ s[1][1] # s[2][1]
    /\ s[1][1] \in parts /\ s[2][1] \in parts /\ net[s[1]] = net[s[2]] /\ net[s[1]] \in Nets

\* What partition_stubs makes of siblings are stubs.
LEMMA StubsOfAre ==
    ASSUME TypeOK, NEW kids, IsKids(kids), NEW role, IsRole(role), NEW s \in StubsOf(kids, role)
    PROVE  IsStub(s)
<1>1. \A i \in DOMAIN kids : kids[i] \in Comps => kids[i] \in parts /\ Holds(kids[i]) = {kids[i]}
  BY HoldsIs, PartsAre DEF IsKids
<1>2. \A k \in Nodes : role[k] # "flow" => k \in Comps /\ k \notin Modules /\ role[k] = RailRole(k)
  BY TreeIs DEF IsRole, Nodes
<1>3. \A k \in Comps : SignalNet(k) # None => /\ SignalPin(k) # None /\ net[SignalPin(k)] = SignalNet(k)
                                              /\ SignalNet(k) \in Nets
  <2> SUFFICES ASSUME NEW k \in Comps, SignalNet(k) # None
               PROVE  SignalPin(k) # None /\ net[SignalPin(k)] = SignalNet(k) /\ SignalNet(k) \in Nets
    OBVIOUS
  <2>1. SignalPin(k) # None /\ SignalNet(k) = net[SignalPin(k)]
    BY DEF SignalNet
  <2>2. SignalPin(k) \in Pins
    BY <2>1, SignalIs
  <2>3. net[SignalPin(k)] \in Nets \union {None}
    BY <2>2 DEF TypeOK
  <2> QED BY <2>1, <2>3
<1>4. ASSUME NEW a \in Attached(kids, role), s = <<SignalPin(a[1]), Served(a[1], a[2])>> PROVE IsStub(s)
  <2> DEFINE partner == [i \in DOMAIN kids |->
                           IF IsRail(role[kids[i]]) THEN Partner(kids, role, kids[i], {"flow"}) ELSE None]
  <2>1. PICK i \in DOMAIN kids : partner[i] # None /\ a = <<kids[i], partner[i]>>
    BY DEF Attached
  <2> DEFINE k == kids[i]
  <2>2. IsRail(role[k]) /\ partner[i] = Partner(kids, role, k, {"flow"}) /\ Partner(kids, role, k, {"flow"}) # None
    BY <2>1
  <2>3. k \in Comps /\ k \in parts /\ Holds(k) = {k}
    BY <1>1, <1>2, <2>2 DEF IsRail, IsKids
  <2>4. PICK j \in DOMAIN kids : /\ partner[i] = kids[j] /\ kids[j] # k
                                 /\ \E p \in Pins : IsPort(p, SignalNet(k)) /\ p[1] \in Holds(kids[j])
    BY <2>2, PartnerIs
  <2>5. SignalNet(k) # None
    BY <2>2, PartnerIs
  <2>6. PICK p \in Pins : IsPort(p, SignalNet(k)) /\ p[1] \in Holds(kids[j])
    BY <2>4
  <2>7. p[1] # k
    BY <2>3, <2>4, <2>6 DEF IsKids
  <2>8. a[1] = k /\ a[2] = kids[j]
    BY <2>1, <2>4
  <2>9. /\ Served(k, kids[j]) \in Pins /\ IsPort(Served(k, kids[j]), SignalNet(k)) /\ Served(k, kids[j])[1] # k
    BY <2>6, <2>7, ServedIs
  <2>10. SignalPin(k) \in Pins /\ SignalPin(k)[1] = k /\ net[SignalPin(k)] = SignalNet(k) /\ SignalNet(k) \in Nets
    BY <1>3, <2>3, <2>5, SignalIs
  <2>11. s[1] = SignalPin(k) /\ s[2] = Served(k, kids[j]) /\ s = <<s[1], s[2]>>
    BY <1>4, <2>8
  <2> HIDE DEF k
  <2> QED BY <2>3, <2>9, <2>10, <2>11 DEF IsStub, IsPort
<1>5. ASSUME NEW att, NEW f \in Fused(kids, role, att), s = <<SignalPin(f[1]), SignalPin(f[2])>> PROVE IsStub(s)
  <2> DEFINE loose(k, r) == role[k] = r /\ k \notin att
             partner == [i \in DOMAIN kids |->
                           IF loose(kids[i], "pullup") THEN Partner(kids, role, kids[i], {"pullup", "pulldown"}) ELSE None]
  <2>1. PICK i \in DOMAIN kids : partner[i] # None /\ loose(partner[i], "pulldown") /\ f = <<kids[i], partner[i]>>
    BY DEF Fused
  <2> DEFINE k == kids[i]
  <2>2. role[k] = "pullup" /\ partner[i] = Partner(kids, role, k, {"pullup", "pulldown"}) /\ partner[i] # None
    BY <2>1
  <2>3. PICK j \in DOMAIN kids : /\ partner[i] = kids[j] /\ kids[j] # k
                                 /\ \E p \in Pins : IsPort(p, SignalNet(k)) /\ p[1] \in Holds(kids[j])
    BY <2>2, PartnerIs
  <2> DEFINE d == kids[j]
  <2>4. role[d] = "pulldown" /\ f[1] = k /\ f[2] = d /\ d # k
    BY <2>1, <2>3
  <2>5. SignalNet(k) # None
    BY <2>2, PartnerIs
  <2>6. PICK p \in Pins : IsPort(p, SignalNet(k)) /\ p[1] \in Holds(d)
    BY <2>3
  <2>7. k \in Comps /\ k \in parts /\ d \in Comps /\ d \in parts /\ Holds(d) = {d} /\ RailRole(d) = "pulldown"
    BY <1>1, <1>2, <2>2, <2>4 DEF IsKids
  <2> HIDE DEF k, d, partner
  <2>8. /\ SignalPin(k) \in Pins /\ SignalPin(k)[1] = k /\ net[SignalPin(k)] = SignalNet(k) /\ SignalNet(k) \in Nets
        /\ KindOf(SignalPin(k)) \notin {"Power", "Ground"}
    BY <1>3, <2>5, <2>7, SignalIs
  <2>9. p[1] = d /\ net[p] = SignalNet(k) /\ KindOf(p) \notin {"Power", "Ground"}
    <3>1. p[1] = d /\ net[p] = SignalNet(k)
      BY <2>6, <2>7 DEF IsPort
    <3>2. KindOf(p) = KindOf(SignalPin(k))
      BY <2>8, <3>1 DEF KindOf
    <3> QED BY <2>8, <3>1, <3>2
  <2>10. PICK x \in DOMAIN PinNames[d] : p = <<d, PinNames[d][x]>>
    BY <2>9, PinsAre
  <2>11. SignalPin(d) # None
    BY <2>7, <2>9, <2>10, SignalIs
  <2>12. PICK y \in DOMAIN PinNames[d] : SignalPin(d) = <<d, PinNames[d][y]>>
    BY <2>7, <2>11, SignalIs
  <2>13. SignalPin(d) \in Pins /\ SignalPin(d)[1] = d /\ KindOf(SignalPin(d)) \notin {"Power", "Ground"}
    BY <2>7, <2>11, SignalIs
  <2>14. SignalPin(d) = p
    <3>1. Len(PinNames[d]) = 2 /\ DOMAIN PinNames[d] = 1..2
      BY <2>7, PinsAre DEF RailRole
    <3>2. \E z \in {1, 2} : KindOf(<<d, PinNames[d][z]>>) \in {"Power", "Ground"}
      BY <2>7 DEF RailRole
    <3>3. x \in {1, 2} /\ y \in {1, 2}
      BY <2>10, <2>12, <3>1
    <3> QED BY <2>9, <2>10, <2>12, <2>13, <3>2, <3>3
  <2>15. s[1] = SignalPin(k) /\ s[2] = SignalPin(d) /\ s = <<s[1], s[2]>>
    BY <1>5, <2>4
  <2> QED BY <2>4, <2>7, <2>8, <2>9, <2>13, <2>14, <2>15 DEF IsStub
<1> QED BY <1>4, <1>5 DEF StubsOf

\* Modules are flow on either path, and a component is flow or what its rails make of it.
LEMMA RolesAre == IsRole(DerivedRole) /\ IsRole(AuthoredRole)
BY TreeIs DEF IsRole, DerivedRole, AuthoredRole, Nodes

\* So are all the stubs of a board.
LEMMA StubsAre ==
    ASSUME TypeOK, NEW s \in Stubs
    PROVE  IsStub(s)
<1>1. CASE s \in AuthoredStubs
  <2>1. PICK m \in Modules : s \in StubsOf(AuthoredKids(m), AuthoredRole)
    BY <1>1 DEF AuthoredStubs
  <2> QED BY <2>1, KidsAre, RolesAre, StubsOfAre
<1>2. CASE s \in DerivedStubs
  <2>1. PICK m \in Modules : s \in StubsOf(DerivedKids(m), DerivedRole)
    BY <1>2 DEF DerivedStubs
  <2> QED BY <2>1, KidsAre, RolesAre, StubsOfAre
<1> QED BY <1>1, <1>2 DEF Stubs

-----------------------------------------------------------------------------
(* Moves *)

SameBoard == parts' = parts /\ net' = net

\* The stubs and boxes of a board that is placed in the file follow from its parts and nets.
LEMMA SameIs ==
    ASSUME SameBoard
    PROVE  /\ AuthoredStubs' = AuthoredStubs /\ AuthoredBoxes' = AuthoredBoxes
           /\ \A c : Upright(c)' = Upright(c) /\ DerivedRotation(c)' = DerivedRotation(c)
<1> USE DEF SameBoard
<1>1. \A p : KindOf(p)' = KindOf(p)
  BY DEF KindOf
<1>2. \A c : RailRole(c)' = RailRole(c)
  BY <1>1 DEF RailRole
<1>3. \A c : Upright(c)' = Upright(c)
  BY <1>1, <1>2 DEF Upright
<1>4. \A c : DerivedRotation(c)' = DerivedRotation(c)
  BY <1>2, <1>3 DEF DerivedRotation
<1>5. \A c : SignalPin(c)' = SignalPin(c)
  BY DEF SignalPin, FirstOf, KindOf
<1>6. \A k : SignalNet(k)' = SignalNet(k)
  BY <1>5 DEF SignalNet
<1>7. \A n : Holds(n)' = Holds(n)
  BY DEF Holds
<1>8. \A n : Children(n)' = Children(n)
  BY <1>7 DEF Children, RestrictValues, Restrict, Drawable
<1>9. \A n : Unwrapped(n)' = Unwrapped(n)
  BY <1>7, <1>8 DEF Unwrapped, FirstOf, Drawable
<1>10. \A m : AuthoredKids(m)' = AuthoredKids(m)
  BY <1>8, <1>9 DEF AuthoredKids, Each
<1>11. AuthoredRole' = AuthoredRole
  BY <1>2 DEF AuthoredRole
<1>12. \A kids, p : Owner(kids, p)' = Owner(kids, p)
  BY <1>7 DEF Owner, FirstOf
<1>13. \A p, n : IsPort(p, n)' = IsPort(p, n)
  BY DEF IsPort
<1>14. \A kids, k, roles : Partner(kids, AuthoredRole, k, roles)' = Partner(kids, AuthoredRole, k, roles)
  BY <1>6, <1>11, <1>12 DEF Partner, FirstOf, IsPort
<1>15. \A kids : Attached(kids, AuthoredRole)' = Attached(kids, AuthoredRole)
  BY <1>11, <1>14 DEF Attached
<1>16. \A k, o : Served(k, o)' = Served(k, o)
  BY <1>6, <1>7 DEF Served, FirstOf, IsPort
<1>17. \A kids : StubsOf(kids, AuthoredRole)' = StubsOf(kids, AuthoredRole)
  <2> SUFFICES ASSUME NEW kids PROVE StubsOf(kids, AuthoredRole)' = StubsOf(kids, AuthoredRole)
    OBVIOUS
  <2> DEFINE taken == {a[1] : a \in Attached(kids, AuthoredRole)}
  <2>1. {<<SignalPin(a[1]), Served(a[1], a[2])>> : a \in Attached(kids, AuthoredRole)}'
           = {<<SignalPin(a[1]), Served(a[1], a[2])>> : a \in Attached(kids, AuthoredRole)}
    BY <1>5, <1>15, <1>16
  <2>2. taken' = taken
    BY <1>15
  <2>3. Fused(kids, AuthoredRole, taken)' = Fused(kids, AuthoredRole, taken)
    <3> HIDE DEF taken
    <3> QED BY <1>11, <1>14, <2>2 DEF Fused
  <2>4. {<<SignalPin(f[1]), SignalPin(f[2])>> : f \in Fused(kids, AuthoredRole, taken)}'
           = {<<SignalPin(f[1]), SignalPin(f[2])>> : f \in Fused(kids, AuthoredRole, taken)}
    BY <1>5, <2>3
  <2> QED BY <2>1, <2>4 DEF StubsOf
<1>18. AuthoredStubs' = AuthoredStubs
  BY <1>10, <1>17 DEF AuthoredStubs
<1>19. AuthoredBoxes' = AuthoredBoxes
  BY <1>7, <1>9 DEF AuthoredBoxes
<1> QED BY <1>3, <1>4, <1>18, <1>19

\* A module of one child has no stubs.
LEMMA LoneStubs ==
    ASSUME NEW kids, IsKids(kids), \A i, j \in DOMAIN kids : i = j, NEW role
    PROVE  StubsOf(kids, role) = {}
<1>1. \A k, roles : (\E i \in DOMAIN kids : kids[i] = k) => Partner(kids, role, k, roles) = None
  BY PartnerIs
<1>2. Attached(kids, role) = {}
  BY <1>1 DEF Attached
<1>3. \A att : Fused(kids, role, att) = {}
  BY <1>1 DEF Fused
<1> QED BY <1>2, <1>3 DEF StubsOf

\* Roles that agree on the siblings give the same stubs.
LEMMA RolesAgree ==
    ASSUME NEW kids, IsKids(kids), NEW role, NEW other, \A i \in DOMAIN kids : role[kids[i]] = other[kids[i]]
    PROVE  StubsOf(kids, role) = StubsOf(kids, other)
<1>1. ASSUME NEW k, NEW roles PROVE Partner(kids, role, k, roles) = Partner(kids, other, k, roles)
  <2> DEFINE serves(r, p) == /\ IsPort(p, SignalNet(k)) /\ Owner(kids, p) # None /\ Owner(kids, p) # k
                             /\ r[Owner(kids, p)] \in roles
             D(r) == {j \in DOMAIN PortOrder : serves(r, PortOrder[j])}
             first(r) == IF D(r) = {} THEN None ELSE PortOrder[Min(D(r))]
             P(r) == IF SignalNet(k) = None THEN None ELSE IF first(r) = None THEN None ELSE Owner(kids, first(r))
  <2>1. Partner(kids, role, k, roles) = P(role) /\ Partner(kids, other, k, roles) = P(other)
    BY DEF Partner, FirstOf
  <2>2. \A p : serves(role, p) <=> serves(other, p)
    BY OwnerIs
  <2>3. D(role) = D(other)
    <3> HIDE DEF serves
    <3> QED BY <2>2
  <2>4. first(role) = first(other)
    <3> HIDE DEF D
    <3> QED BY <2>3
  <2>5. P(role) = P(other)
    <3> HIDE DEF first
    <3> QED BY <2>4
  <2> QED BY <2>1, <2>5
<1>2. Attached(kids, role) = Attached(kids, other)
  BY <1>1 DEF Attached
<1>3. ASSUME NEW att PROVE Fused(kids, role, att) = Fused(kids, other, att)
  <2> DEFINE loose(r, k, x) == r[k] = x /\ k \notin att
             partner(r) == [i \in DOMAIN kids |->
                              IF loose(r, kids[i], "pullup") THEN Partner(kids, r, kids[i], {"pullup", "pulldown"}) ELSE None]
             fused(r) == {<<kids[i], partner(r)[i]>> :
                            i \in {j \in DOMAIN kids :
                                     /\ partner(r)[j] # None /\ loose(r, partner(r)[j], "pulldown")
                                     /\ \A h \in DOMAIN kids : h < j => partner(r)[h] # partner(r)[j]}}
  <2>1. Fused(kids, role, att) = fused(role) /\ Fused(kids, other, att) = fused(other)
    BY DEF Fused
  <2>2. partner(role) = partner(other)
    BY <1>1
  <2>3. \A i \in DOMAIN kids : partner(role)[i] # None => \E j \in DOMAIN kids : partner(role)[i] = kids[j]
    BY PartnerIs
  <2>4. \A i \in DOMAIN kids : partner(role)[i] # None =>
           (loose(role, partner(role)[i], "pulldown") <=> loose(other, partner(role)[i], "pulldown"))
    <3> HIDE DEF partner
    <3> QED BY <2>3
  <2>5. fused(role) = fused(other)
    <3> HIDE DEF partner, loose
    <3> QED BY <2>2, <2>4
  <2> QED BY <2>1, <2>5
<1> QED BY <1>2, <1>3 DEF StubsOf

\* On a board that both paths see the same the packer's stubs and boxes are the file's.
LEMMA BothSeeTheSame ==
    ASSUME TypeOK, Uniform
    PROVE  DerivedStubs = AuthoredStubs /\ DerivedBoxes = AuthoredBoxes
<1>1. DerivedBoxes = AuthoredBoxes
  BY DEF Uniform, DerivedBoxes, AuthoredBoxes
<1>2. \A n \in Nodes \ {"root"} : Hoisted(n) = Unwrapped(n)
  BY HoistedIs, UnwrappedIs DEF Uniform, Nodes
<1>3. \A m \in Modules : DerivedKids(m) = AuthoredKids(m)
  <2> SUFFICES ASSUME NEW m \in Modules PROVE DerivedKids(m) = AuthoredKids(m)
    OBVIOUS
  <2>1. \A i \in DOMAIN Children(m) : Hoisted(Children(m)[i]) = Unwrapped(Children(m)[i])
    BY <1>2, ChildrenAre
  <2> QED BY <2>1 DEF DerivedKids, AuthoredKids, Each
<1>4. \A m \in Modules : StubsOf(DerivedKids(m), DerivedRole) = StubsOf(AuthoredKids(m), AuthoredRole)
  <2> SUFFICES ASSUME NEW m \in Modules
               PROVE  StubsOf(DerivedKids(m), DerivedRole) = StubsOf(AuthoredKids(m), AuthoredRole)
    OBVIOUS
  <2> DEFINE kids == AuthoredKids(m)
  <2>1. IsKids(kids)
    BY KidsAre
  <2> HIDE DEF kids
  <2>2. \A i \in DOMAIN kids : DerivedRole[kids[i]] = AuthoredRole[kids[i]]
    <3> SUFFICES ASSUME NEW i \in DOMAIN kids PROVE DerivedRole[kids[i]] = AuthoredRole[kids[i]]
      OBVIOUS
    <3>1. kids[i] \in Nodes /\ Holds(kids[i]) # {}
      BY <2>1 DEF IsKids
    <3>2. CASE kids[i] \in Modules
      BY <3>1, <3>2 DEF DerivedRole, AuthoredRole
    <3>3. CASE kids[i] \notin Modules
      <4>1. kids[i] \in parts
        BY <3>1, <3>3, HoldsIs DEF Nodes
      <4>2. RailRole(kids[i]) = "flow" \/ kids[i] \in Symbolic
        BY <4>1 DEF Uniform
      <4> QED BY <3>1, <3>3, <4>2 DEF DerivedRole, AuthoredRole
    <3> QED BY <3>2, <3>3
  <2>3. StubsOf(kids, DerivedRole) = StubsOf(kids, AuthoredRole)
    BY <2>1, <2>2, RolesAgree
  <2> QED BY <1>3, <2>3 DEF kids
<1>5. \A m \in Modules : Hoisted(m) # m => StubsOf(AuthoredKids(m), AuthoredRole) = {}
  <2> SUFFICES ASSUME NEW m \in Modules, Hoisted(m) # m PROVE StubsOf(AuthoredKids(m), AuthoredRole) = {}
    OBVIOUS
  <2>1. PICK c \in parts : Holds(m) = {c}
    BY HoistedIs DEF Nodes
  <2> DEFINE kids == AuthoredKids(m)
  <2>2. IsKids(kids)
    BY KidsAre
  <2>3. \A i \in DOMAIN kids : Holds(kids[i]) = {c}
    <3> SUFFICES ASSUME NEW i \in DOMAIN kids PROVE Holds(kids[i]) = {c}
      OBVIOUS
    <3>1. i \in DOMAIN Children(m) /\ kids[i] = Unwrapped(Children(m)[i])
      BY DEF AuthoredKids, Each
    <3>2. Holds(kids[i]) = Holds(Children(m)[i]) /\ Holds(Children(m)[i]) # {}
      BY <3>1, ChildrenAre, UnwrappedIs
    <3>3. Holds(Children(m)[i]) \subseteq Holds(m)
      <4>1. Holds(m) = UNION {Holds(Children(m)[x]) : x \in DOMAIN Children(m)}
        BY ChildrenAre
      <4> QED BY <3>1, <4>1
    <3> QED BY <2>1, <3>2, <3>3
  <2> HIDE DEF kids
  <2>4. \A i, j \in DOMAIN kids : i = j
    BY <2>2, <2>3 DEF IsKids
  <2>5. StubsOf(kids, AuthoredRole) = {}
    BY <2>2, <2>4, LoneStubs
  <2> QED BY <2>5 DEF kids
<1>6. ASSUME NEW s \in DerivedStubs PROVE s \in AuthoredStubs
  <2>1. PICK m \in Modules : s \in StubsOf(DerivedKids(m), DerivedRole)
    BY <1>6 DEF DerivedStubs
  <2> QED BY <1>4, <2>1 DEF AuthoredStubs
<1>7. ASSUME NEW s \in AuthoredStubs PROVE s \in DerivedStubs
  <2>1. PICK m \in Modules : s \in StubsOf(AuthoredKids(m), AuthoredRole)
    BY <1>7 DEF AuthoredStubs
  <2>2. Hoisted(m) = m /\ s \in StubsOf(DerivedKids(m), DerivedRole)
    BY <1>4, <1>5, <2>1
  <2> QED BY <2>2 DEF DerivedStubs
<1> QED BY <1>1, <1>6, <1>7

KeepsTheDrawing ==
    (authored' # authored /\ parts' = parts /\ net' = net /\ Uniform /\ (AllAuthored \/ NoneAuthored)) =>
       LET gone   == {c \in parts : Center(c)' # Center(c)}
           turned == {c \in parts : Look(c)' # Look(c)}
       IN  /\ Cardinality(gone \union turned) <= 1 /\ gone \intersect turned = {}
           /\ Stubs' = Stubs /\ Boxes' = Boxes

\* A save-all of a board that both paths see the same.
LEMMA SaveKeeps ==
    ASSUME TypeOK, Uniform, AllAuthored \/ NoneAuthored, NEW c \in parts, NEW at \in Places, NEW turn \in BOOLEAN,
           SavePositions(c, at, turn)
    PROVE  /\ \A d \in parts \ {c} : Center(d)' = Center(d) /\ Look(d)' = Look(d)
           /\ turn = FALSE => Look(c)' = Look(c)
           /\ at = Center(c) => Center(c)' = Center(c)
           /\ Stubs' = Stubs /\ Boxes' = Boxes
<1>1. SameBoard /\ authored' = Merged({c}, at, turn) /\ packed' = packed
  BY DEF SavePositions, SameBoard
<1> DEFINE rot(d) == IF authored[d] # None THEN authored[d].rot ELSE DerivedRotation(d)
<1>2. parts \subseteq Comps
  BY DEF TypeOK
<1>3. ASSUME NEW d \in parts \ {c}
      PROVE  authored'[d] = IF authored[d] = None THEN [at |-> Center(d), rot |-> rot(d)] ELSE authored[d]
  BY <1>1, <1>2 DEF Merged
<1>4. authored'[c] = [at |-> at, rot |-> IF turn THEN Turned[rot(c)] ELSE rot(c)]
  BY <1>1, <1>2 DEF Merged
<1>5. authored' \in [Comps -> Positions \union {None}]
  BY <1>1, <1>2, MergedIs
<1>6. AllAuthored'
  <2>1. ASSUME NEW d \in parts PROVE authored'[d] # None
    <3>1. CASE d = c
      <4>1. rot(c) \in Orients /\ \A r \in Orients : Turned[r] \in Orients
        <5>1. authored[c] # None => authored[c].rot \in Orients
          BY <1>2 DEF TypeOK, Positions
        <5>2. DerivedRotation(c) \in Orients
          BY DEF DerivedRotation, Upright, Orients
        <5>3. \A r \in Orients : Turned[r] \in Orients
          BY DEF Turned, Orients
        <5> QED BY <5>1, <5>2, <5>3
      <4>2. authored'[c] \in Positions
        <5> HIDE DEF rot
        <5> QED BY <1>4, <4>1 DEF Positions
      <4> QED BY <3>1, <4>2, GeometryAssumption
    <3>2. CASE d # c /\ authored[d] # None
      BY <1>3, <3>2
    <3>3. CASE d # c /\ authored[d] = None
      <4>1. Center(d) \in Places /\ rot(d) \in Orients
        BY <3>3, LooksAre DEF DerivedRotation, Upright, Orients
      <4>2. authored'[d] \in Positions
        <5>1. authored'[d] = [at |-> Center(d), rot |-> rot(d)]
          BY <1>3, <3>3
        <5> HIDE DEF rot
        <5> QED BY <4>1, <5>1 DEF Positions
      <4> QED BY <4>2, GeometryAssumption
    <3> QED BY <3>1, <3>2, <3>3
  <2>2. parts' = parts /\ parts # {}
    BY <1>1 DEF SameBoard
  <2> QED BY <2>1, <2>2 DEF AllAuthored
<1>7. \A d : Center(d)' = authored'[d].at
  BY <1>6 DEF Center
<1>8. \A d : Look(d)' = IF d \notin Symbolic THEN "chip" ELSE authored'[d].rot
  BY <1>6 DEF Look
<1>9. Stubs' = AuthoredStubs /\ Boxes' = AuthoredBoxes
  BY <1>1, <1>6, SameIs DEF Stubs, Boxes
<1>10. Stubs = AuthoredStubs /\ Boxes = AuthoredBoxes
  BY BothSeeTheSame DEF Stubs, Boxes
<1>11. \A d \in parts : d \in Symbolic => Look(d) = rot(d)
  <2> SUFFICES ASSUME NEW d \in parts, d \in Symbolic PROVE Look(d) = rot(d)
    OBVIOUS
  <2>1. CASE AllAuthored
    BY <2>1 DEF AllAuthored, Look
  <2>2. CASE ~AllAuthored
    <3>1. authored[d] = None /\ Look(d) = Upright(d)
      BY <2>2 DEF NoneAuthored, Look
    <3>2. DerivedRotation(d) = Upright(d)
      BY DEF DerivedRotation
    <3> QED BY <3>1, <3>2
  <2> QED BY <2>1, <2>2
<1>12. ASSUME NEW d \in parts \ {c} PROVE Center(d)' = Center(d) /\ Look(d)' = Look(d)
  <2>1. CASE authored[d] # None
    <3>1. AllAuthored /\ authored'[d] = authored[d]
      BY <1>3, <2>1 DEF NoneAuthored
    <3> QED BY <1>7, <1>8, <3>1 DEF Center, Look
  <2>2. CASE authored[d] = None
    <3>1. authored'[d] = [at |-> Center(d), rot |-> rot(d)]
      BY <1>3, <2>2
    <3>2. authored'[d].at = Center(d) /\ authored'[d].rot = rot(d)
      <4> HIDE DEF rot
      <4> QED BY <3>1
    <3>3. Center(d)' = Center(d)
      BY <1>7, <3>2
    <3>4. Look(d)' = Look(d)
      <4> HIDE DEF rot
      <4>1. CASE d \in Symbolic
        BY <1>8, <1>11, <3>2, <4>1
      <4>2. CASE d \notin Symbolic
        BY <1>8, <4>2 DEF Look
      <4> QED BY <4>1, <4>2
    <3> QED BY <3>3, <3>4
  <2> QED BY <2>1, <2>2
<1>13. ASSUME turn = FALSE PROVE Look(c)' = Look(c)
  <2>1. authored'[c].rot = rot(c)
    <3> HIDE DEF rot
    <3> QED BY <1>4, <1>13
  <2> HIDE DEF rot
  <2>2. CASE c \in Symbolic
    BY <1>8, <1>11, <2>1, <2>2
  <2>3. CASE c \notin Symbolic
    BY <1>8, <2>3 DEF Look
  <2> QED BY <2>2, <2>3
<1>14. ASSUME at = Center(c) PROVE Center(c)' = Center(c)
  <2>1. authored'[c].at = at
    <3> HIDE DEF rot
    <3> QED BY <1>4
  <2> QED BY <1>7, <1>14, <2>1
<1> QED BY <1>9, <1>10, <1>12, <1>13, <1>14

\* Each step keeps the drawing, but for the part that moved.
LEMMA MovesKeep == TypeOK /\ [Next]_vars => [KeepsTheDrawing]_vars
<1> SUFFICES ASSUME TypeOK, Next, authored' # authored, parts' = parts, net' = net, Uniform, AllAuthored \/ NoneAuthored
             PROVE  KeepsTheDrawing
  BY DEF KeepsTheDrawing, vars
<1> DEFINE gone   == {d \in parts : Center(d)' # Center(d)}
           turned == {d \in parts : Look(d)' # Look(d)}
<1>1. PICK c \in parts : Rotate(c) \/ \E at \in Spots : Move(c, at)
  BY DEF Next, RemoveInstance, AddUnplaced, Place, Rewire
<1>2. c \in Comps /\ Center(c) \in Places /\ Spots \subseteq Places
  BY LooksAre, GeometryAssumption DEF TypeOK
<1>3. /\ gone \subseteq {c} /\ turned \subseteq {c} /\ gone \intersect turned = {}
      /\ Stubs' = Stubs /\ Boxes' = Boxes
  <2>1. CASE Rotate(c)
    <3>1. SavePositions(c, Center(c), TRUE)
      BY <2>1 DEF Rotate
    <3>2. /\ \A d \in parts \ {c} : Center(d)' = Center(d) /\ Look(d)' = Look(d)
          /\ Center(c)' = Center(c)
          /\ Stubs' = Stubs /\ Boxes' = Boxes
      BY <1>2, <3>1, SaveKeeps
    <3> QED BY <3>2
  <2>2. CASE \E at \in Spots : Move(c, at)
    <3>1. PICK at \in Places : SavePositions(c, at, FALSE)
      BY <1>2, <2>2 DEF Move
    <3>2. /\ \A d \in parts \ {c} : Center(d)' = Center(d) /\ Look(d)' = Look(d)
          /\ Look(c)' = Look(c)
          /\ Stubs' = Stubs /\ Boxes' = Boxes
      BY <3>1, SaveKeeps
    <3> QED BY <3>2
  <2> QED BY <1>1, <2>1, <2>2
<1>4. Cardinality(gone \union turned) <= 1
  <2> DEFINE S == gone \union turned
  <2>1. S \in SUBSET {c}
    BY <1>3
  <2> HIDE DEF S
  <2>2. IsFiniteSet({c}) /\ Cardinality({c}) = 1
    BY FS_Singleton
  <2>3. Cardinality(S) <= Cardinality({c})
    BY <2>1, <2>2, FS_Subset
  <2> QED BY <2>2, <2>3 DEF S
<1> QED BY <1>3, <1>4 DEF KeepsTheDrawing

\* A save-all does not change the drawing (tests/demo_build.rs:176): a move writes the place of every
\* part (merge_positions, positions.rs:118-192), and the path that reads the file draws what the packer
\* drew, but for the part that moved, on every board that both paths see the same.
THEOREM MovesCorrect == Spec => MovesKeepTheDrawing
BY TypeCorrect, MovesKeep, PTL DEF Spec, MovesKeepTheDrawing, KeepsTheDrawing

-----------------------------------------------------------------------------
(* Edges *)

IsStraight(e) == (e.from[1] = e.to[1]) # (e.from[2] = e.to[2])
At(e, d) == <<e.from[1] + d * Ahead(e)[1], e.from[2] + d * Ahead(e)[2]>>

\* An edge by its ends.
LEMMA SegmentsAre ==
    ASSUME NEW e \in Segments
    PROVE  /\ e.from \in Places /\ e.to \in Places /\ e.hop \in BOOLEAN
           /\ \A k \in {1, 2} : e.from[k] \in Int /\ e.to[k] \in Int
           /\ \A k \in {1, 2} : /\ Low(e, k) = IF e.from[k] <= e.to[k] THEN e.from[k] ELSE e.to[k]
                                /\ High(e, k) = IF e.from[k] <= e.to[k] THEN e.to[k] ELSE e.from[k]
<1>1. e.from \in Places /\ e.to \in Places /\ e.hop \in BOOLEAN
  BY DEF Segments
<1>2. \A k \in {1, 2} : e.from[k] \in Int /\ e.to[k] \in Int
  BY <1>1, PlacesAre
<1>3. ASSUME NEW k \in {1, 2}
      PROVE  /\ Low(e, k) = IF e.from[k] <= e.to[k] THEN e.from[k] ELSE e.to[k]
             /\ High(e, k) = IF e.from[k] <= e.to[k] THEN e.to[k] ELSE e.from[k]
  BY <1>2, PairEnds DEF Low, High
<1> QED BY <1>1, <1>2, <1>3

\* An edge that is straight runs up or down one of the axes.
Runs(e, i, j, up) ==
    /\ i \in {1, 2} /\ j \in {1, 2} /\ i # j /\ (Level(e) <=> i = 1) /\ up \in BOOLEAN
    /\ Length(e) \in Int /\ Length(e) > 0
    /\ e.to[j] = e.from[j]
    /\ e.to[i] = IF up THEN e.from[i] + Length(e) ELSE e.from[i] - Length(e)
    /\ \A d \in Int : /\ At(e, d) \in Places /\ At(e, d)[j] = e.from[j]
                      /\ At(e, d)[i] = IF up THEN e.from[i] + d ELSE e.from[i] - d
    /\ \A p \in Places : Along(e, p) = IF up THEN p[i] - e.from[i] ELSE e.from[i] - p[i]
    /\ Low(e, j) = e.from[j] /\ High(e, j) = e.from[j]
    /\ Low(e, i) = (IF up THEN e.from[i] ELSE e.to[i]) /\ High(e, i) = IF up THEN e.to[i] ELSE e.from[i]

\* Every straight edge does.
LEMMA EdgeRuns ==
    ASSUME NEW e \in Segments, IsStraight(e)
    PROVE  \E i, j \in {1, 2}, up \in BOOLEAN : Runs(e, i, j, up)
<1> DEFINE x == e.from[1]
           y == e.from[2]
           u == e.to[1]
           v == e.to[2]
<1>1. x \in Int /\ y \in Int /\ u \in Int /\ v \in Int
  BY SegmentsAre
<1>2. \A a, b \in Int : Sign(b - a) = IF a = b THEN 0 ELSE IF b < a THEN -1 ELSE 1
  BY DEF Sign
<1>3. Ahead(e) = <<Sign(u - x), Sign(v - y)>>
  BY DEF Ahead
<1>4. /\ Low(e, 1) = (IF x <= u THEN x ELSE u) /\ High(e, 1) = (IF x <= u THEN u ELSE x)
      /\ Low(e, 2) = (IF y <= v THEN y ELSE v) /\ High(e, 2) = (IF y <= v THEN v ELSE y)
  BY SegmentsAre
<1>5. Length(e) = High(e, 1) - Low(e, 1) + High(e, 2) - Low(e, 2)
  BY DEF Length
<1>6. (x = u) # (y = v) /\ (Level(e) <=> y = v)
  BY DEF IsStraight, Level
<1>7. \A d \in Int : At(e, d) = <<x + d * Ahead(e)[1], y + d * Ahead(e)[2]>>
  BY DEF At
<1>8. \A p \in Places : Along(e, p) = (p[1] - x) * Ahead(e)[1] + (p[2] - y) * Ahead(e)[2]
  BY DEF Along
<1>9. CASE y = v /\ x < u
  <2>1. Ahead(e)[1] = 1 /\ Ahead(e)[2] = 0
    BY <1>1, <1>2, <1>3, <1>9
  <2>2. \A d \in Int : At(e, d) = <<x + d, y>>
    BY <1>1, <1>7, <2>1
  <2>3. \A p \in Places : Along(e, p) = p[1] - x
    BY <1>1, <1>8, <2>1, PlacesAre
  <2>4. Length(e) = u - x
    BY <1>1, <1>4, <1>5, <1>9
  <2>5. Runs(e, 1, 2, TRUE)
    <3>1. \A d \in Int : At(e, d) \in Places /\ At(e, d)[1] = x + d /\ At(e, d)[2] = y
      BY <1>1, <2>2, PlacesAre
    <3> QED BY <1>1, <1>4, <1>6, <1>9, <2>3, <2>4, <3>1 DEF Runs
  <2> QED BY <2>5
<1>10. CASE y = v /\ u < x
  <2>1. Ahead(e)[1] = -1 /\ Ahead(e)[2] = 0
    BY <1>1, <1>2, <1>3, <1>10
  <2>2. \A d \in Int : At(e, d) = <<x - d, y>>
    BY <1>1, <1>7, <2>1
  <2>3. \A p \in Places : Along(e, p) = x - p[1]
    BY <1>1, <1>8, <2>1, PlacesAre
  <2>4. Length(e) = x - u
    BY <1>1, <1>4, <1>5, <1>10
  <2>5. Runs(e, 1, 2, FALSE)
    <3>1. \A d \in Int : At(e, d) \in Places /\ At(e, d)[1] = x - d /\ At(e, d)[2] = y
      <4> SUFFICES ASSUME NEW d \in Int PROVE At(e, d) \in Places /\ At(e, d)[1] = x - d /\ At(e, d)[2] = y
        OBVIOUS
      <4>1. x - d \in Int /\ At(e, d) = <<x - d, y>>
        BY <1>1, <2>2
      <4> HIDE DEF x, y
      <4> QED BY <1>1, <4>1, PlacesAre
    <3> QED BY <1>1, <1>4, <1>6, <1>10, <2>3, <2>4, <3>1 DEF Runs
  <2> QED BY <2>5
<1>11. CASE x = u /\ y < v
  <2>1. Ahead(e)[1] = 0 /\ Ahead(e)[2] = 1
    BY <1>1, <1>2, <1>3, <1>11
  <2>2. \A d \in Int : At(e, d) = <<x, y + d>>
    BY <1>1, <1>7, <2>1
  <2>3. \A p \in Places : Along(e, p) = p[2] - y
    BY <1>1, <1>8, <2>1, PlacesAre
  <2>4. Length(e) = v - y
    BY <1>1, <1>4, <1>5, <1>11
  <2>5. Runs(e, 2, 1, TRUE)
    <3>1. \A d \in Int : At(e, d) \in Places /\ At(e, d)[2] = y + d /\ At(e, d)[1] = x
      BY <1>1, <2>2, PlacesAre
    <3> QED BY <1>1, <1>4, <1>6, <1>11, <2>3, <2>4, <3>1 DEF Runs
  <2> QED BY <2>5
<1>12. CASE x = u /\ v < y
  <2>1. Ahead(e)[1] = 0 /\ Ahead(e)[2] = -1
    BY <1>1, <1>2, <1>3, <1>12
  <2>2. \A d \in Int : At(e, d) = <<x, y - d>>
    BY <1>1, <1>7, <2>1
  <2>3. \A p \in Places : Along(e, p) = y - p[2]
    BY <1>1, <1>8, <2>1, PlacesAre
  <2>4. Length(e) = y - v
    BY <1>1, <1>4, <1>5, <1>12
  <2>5. Runs(e, 2, 1, FALSE)
    <3>1. \A d \in Int : At(e, d) \in Places /\ At(e, d)[2] = y - d /\ At(e, d)[1] = x
      BY <1>1, <2>2, PlacesAre
    <3> QED BY <1>1, <1>4, <1>6, <1>12, <2>3, <2>4, <3>1 DEF Runs
  <2> QED BY <2>5
<1>13. (y = v /\ x < u) \/ (y = v /\ u < x) \/ (x = u /\ y < v) \/ (x = u /\ v < y)
  BY <1>1, <1>6
<1> QED BY <1>9, <1>10, <1>11, <1>12, <1>13

-----------------------------------------------------------------------------
(* Pieces of an edge *)

IsPiece(q, e, a, b) ==
    /\ a \in Int /\ b \in Int /\ 0 <= a /\ a < b /\ b <= Length(e)
    /\ q = Piece(e, a, b, q.hop) /\ q.hop \in BOOLEAN

InBox(p, e) == \A k \in {1, 2} : Low(e, k) <= p[k] /\ p[k] <= High(e, k)

\* A piece of an edge is straight, lies on the edge, and covers it between its ends.
LEMMA PieceIs ==
    ASSUME NEW e \in Segments, NEW i, NEW j, NEW up, Runs(e, i, j, up), NEW q, NEW a, NEW b, IsPiece(q, e, a, b)
    PROVE  /\ q \in Segments /\ IsStraight(q) /\ (Level(q) <=> Level(e))
           /\ q.from = At(e, a) /\ q.to = At(e, b)
           /\ \A k \in {1, 2} : Low(e, k) <= Low(q, k) /\ High(q, k) <= High(e, k)
           /\ \A p \in Places : InBox(p, e) /\ a <= Along(e, p) /\ Along(e, p) <= b => InBox(p, q)
           /\ \A p \in Places : Low(q, i) < p[i] /\ p[i] < High(q, i) =>
                 /\ a < Along(e, p) /\ Along(e, p) < b
                 /\ Along(e, p) - a <= HOP => q.from[i] - p[i] \in -HOP..HOP
                 /\ b - Along(e, p) <= HOP => q.to[i] - p[i] \in -HOP..HOP
<1>1. q.from = At(e, a) /\ q.to = At(e, b) /\ q.hop \in BOOLEAN /\ q = [from |-> At(e, a), to |-> At(e, b), hop |-> q.hop]
  BY DEF IsPiece, Piece, At
<1>2. a \in Int /\ b \in Int /\ 0 <= a /\ a < b /\ b <= Length(e)
  BY DEF IsPiece
<1>3. At(e, a) \in Places /\ At(e, b) \in Places
  BY <1>2 DEF Runs
<1>4. q \in Segments
  BY <1>1, <1>3 DEF Segments
<1> DEFINE x == e.from[i]
           y == e.from[j]
           n == Length(e)
<1>5. x \in Int /\ y \in Int /\ n \in Int /\ n > 0 /\ i \in {1, 2} /\ j \in {1, 2} /\ i # j /\ up \in BOOLEAN /\ (Level(e) <=> i = 1)
  BY SegmentsAre DEF Runs
<1>6. /\ q.from[i] = IF up THEN x + a ELSE x - a
      /\ q.to[i] = IF up THEN x + b ELSE x - b
      /\ q.from[j] = y /\ q.to[j] = y
  BY <1>1, <1>2 DEF Runs
<1>7. /\ Low(q, i) = (IF q.from[i] <= q.to[i] THEN q.from[i] ELSE q.to[i])
      /\ High(q, i) = (IF q.from[i] <= q.to[i] THEN q.to[i] ELSE q.from[i])
      /\ Low(q, j) = (IF q.from[j] <= q.to[j] THEN q.from[j] ELSE q.to[j])
      /\ High(q, j) = (IF q.from[j] <= q.to[j] THEN q.to[j] ELSE q.from[j])
  BY <1>4, <1>5, SegmentsAre
<1>8. /\ Low(e, j) = y /\ High(e, j) = y
      /\ Low(e, i) = (IF up THEN x ELSE x - n) /\ High(e, i) = IF up THEN x + n ELSE x
      /\ \A p \in Places : Along(e, p) = IF up THEN p[i] - x ELSE x - p[i]
  BY DEF Runs
<1>9. q.from[i] # q.to[i] /\ q.from[j] = q.to[j]
  BY <1>2, <1>5, <1>6
<1>10. Level(q) <=> q.from[2] = q.to[2]
  BY DEF Level
<1> HIDE DEF x, y, n
<1>11. /\ Low(q, j) = y /\ High(q, j) = y
       /\ Low(q, i) = (IF up THEN x + a ELSE x - b) /\ High(q, i) = IF up THEN x + b ELSE x - a
  BY <1>2, <1>5, <1>6, <1>7
<1>12. n = Length(e)
  BY DEF n
<1>13. \A k \in {1, 2} : k = i \/ k = j
  BY <1>5
<1>14. IsStraight(q) /\ (Level(q) <=> Level(e))
  BY <1>5, <1>9, <1>10 DEF IsStraight
<1>15. \A k \in {1, 2} : Low(e, k) <= Low(q, k) /\ High(q, k) <= High(e, k)
  <2>1. Low(e, i) <= Low(q, i) /\ High(q, i) <= High(e, i)
    BY <1>2, <1>5, <1>8, <1>11, <1>12
  <2>2. Low(e, j) <= Low(q, j) /\ High(q, j) <= High(e, j)
    BY <1>5, <1>8, <1>11
  <2> QED BY <1>13, <2>1, <2>2
<1>16. ASSUME NEW p \in Places, InBox(p, e), a <= Along(e, p), Along(e, p) <= b PROVE InBox(p, q)
  <2>1. p[i] \in Int /\ p[j] \in Int
    BY <1>5, PlacesAre
  <2>2. Low(e, j) <= p[j] /\ p[j] <= High(e, j)
    BY <1>5, <1>16 DEF InBox
  <2>3. Low(q, j) <= p[j] /\ p[j] <= High(q, j)
    BY <1>8, <1>11, <2>2
  <2>4. Low(q, i) <= p[i] /\ p[i] <= High(q, i)
    BY <1>2, <1>5, <1>8, <1>11, <1>16, <2>1
  <2> QED BY <1>13, <2>3, <2>4 DEF InBox
<1>17. ASSUME NEW p \in Places, Low(q, i) < p[i], p[i] < High(q, i)
       PROVE  /\ a < Along(e, p) /\ Along(e, p) < b
              /\ Along(e, p) - a <= HOP => q.from[i] - p[i] \in -HOP..HOP
              /\ b - Along(e, p) <= HOP => q.to[i] - p[i] \in -HOP..HOP
  <2>1. p[i] \in Int
    BY <1>5, PlacesAre
  <2>2. CASE up
    <3>1. Along(e, p) = p[i] - x /\ q.from[i] = x + a /\ q.to[i] = x + b /\ x + a < p[i] /\ p[i] < x + b
      BY <1>6, <1>8, <1>11, <1>17, <2>2
    <3> QED BY <1>2, <1>5, <2>1, <3>1 DEF HOP
  <2>3. CASE ~up
    <3>1. Along(e, p) = x - p[i] /\ q.from[i] = x - a /\ q.to[i] = x - b /\ x - b < p[i] /\ p[i] < x - a
      BY <1>6, <1>8, <1>11, <1>17, <2>3
    <3> QED BY <1>2, <1>5, <2>1, <3>1 DEF HOP
  <2> QED BY <2>2, <2>3
<1> QED BY <1>1, <1>4, <1>14, <1>15, <1>16, <1>17

-----------------------------------------------------------------------------
(* Hops *)

Cuts == [out : Seq(Segments), cursor : Int]

\* What has been cut up from the start of an edge to the cursor.
CutOk(e, s, st) ==
    /\ st \in Cuts /\ 0 <= st.cursor /\ st.cursor < Length(e)
    /\ IsPath(st.out, e.from, At(e, st.cursor))
    /\ \A q \in Range(st.out) : \E a, b \in Int :
          /\ IsPiece(q, e, a, b) /\ b <= st.cursor
          /\ ~q.hop => (\E d \in s : b <= d) /\ \A d \in s : a < d /\ d < b => d - a <= HOP
    /\ \A t \in Int : 0 <= t /\ t < st.cursor =>
          \E q \in Range(st.out) : \E a, b \in Int : IsPiece(q, e, a, b) /\ a <= t /\ t <= b
    /\ \A d \in s : d <= st.cursor + 9 \/ d + 9 >= Length(e)

\* A piece is a segment between two places on its edge.
LEMMA PieceType ==
    ASSUME NEW e \in Segments, NEW i, NEW j, NEW up, Runs(e, i, j, up), NEW a \in Int, NEW b \in Int, NEW hop \in BOOLEAN
    PROVE  /\ Piece(e, a, b, hop) \in Segments /\ Piece(e, a, b, hop).hop = hop
           /\ Piece(e, a, b, hop).from = At(e, a) /\ Piece(e, a, b, hop).to = At(e, b)
<1>1. Piece(e, a, b, hop) = [from |-> At(e, a), to |-> At(e, b), hop |-> hop]
  BY DEF Piece, At
<1>2. At(e, a) \in Places /\ At(e, b) \in Places
  BY DEF Runs
<1> QED BY <1>1, <1>2 DEF Segments

\* Two edges that meet are a path.
LEMMA TwoSteps ==
    ASSUME NEW p \in Segments, NEW q \in Segments, p.to = q.from
    PROVE  IsPath(<<p, q>>, p.from, q.to) /\ Range(<<p, q>>) = {p, q} /\ <<p, q>> \in Seq(Segments)
<1> DEFINE s == <<p, q>>
<1>1. s \in Seq(Segments) /\ Len(s) = 2 /\ s[1] = p /\ s[2] = q /\ DOMAIN s = {1, 2} /\ s # <<>>
  OBVIOUS
<1> HIDE DEF s
<1>2. IsPath(s, p.from, q.to)
  BY <1>1 DEF IsPath
<1>3. Range(s) = {p, q}
  BY <1>1 DEF Range
<1> QED BY <1>1, <1>2, <1>3 DEF s

\* So is one.
LEMMA OneStep ==
    ASSUME NEW p \in Segments
    PROVE  IsPath(<<p>>, p.from, p.to) /\ Range(<<p>>) = {p} /\ <<p>> \in Seq(Segments)
<1> DEFINE s == <<p>>
<1>1. s \in Seq(Segments) /\ Len(s) = 1 /\ s[1] = p /\ DOMAIN s = {1} /\ s # <<>>
  OBVIOUS
<1> HIDE DEF s
<1>2. IsPath(s, p.from, p.to)
  BY <1>1 DEF IsPath
<1>3. Range(s) = {p}
  BY <1>1 DEF Range
<1> QED BY <1>1, <1>2, <1>3 DEF s

\* Distances on an edge start at its one end and end at the other.
LEMMA StartsAt ==
    ASSUME NEW e \in Segments, NEW i, NEW j, NEW up, Runs(e, i, j, up)
    PROVE  At(e, 0) = e.from /\ At(e, Length(e)) = e.to
<1>1. /\ At(e, 0) \in Places /\ At(e, Length(e)) \in Places /\ e.from \in Places /\ e.to \in Places
      /\ \A k \in {1, 2} : k = i \/ k = j
  BY SegmentsAre DEF Runs
<1>2. At(e, 0)[i] = e.from[i] /\ At(e, 0)[j] = e.from[j]
  BY SegmentsAre DEF Runs
<1>3. At(e, Length(e))[i] = e.to[i] /\ At(e, Length(e))[j] = e.to[j]
  BY SegmentsAre DEF Runs
<1>4. \A p, q \in Places : p[1] = q[1] /\ p[2] = q[2] => p = q
  BY PlacesAre
<1> QED BY <1>1, <1>2, <1>3, <1>4

\* One more cut, further on than all before, leaves it well cut up.
LEMMA CutStep ==
    ASSUME NEW e \in Segments, NEW i, NEW j, NEW up, Runs(e, i, j, up), NEW s \in SUBSET Int, NEW d \in Int,
           \A x \in s : x <= d, NEW st, CutOk(e, s, st)
    PROVE  CutOk(e, s \union {d}, Cut(e, st, d))
<1> DEFINE c == st.cursor
           n == Length(e)
<1>1. c \in Int /\ st.out \in Seq(Segments) /\ 0 <= c /\ c < n /\ n \in Int
  BY DEF CutOk, Cuts, Runs
<1>2. HOP \div 2 = 9
  BY DEF HOP
<1>3. CASE d - 9 <= c \/ d + 9 >= n
  <2>1. Cut(e, st, d) = st
    BY <1>2, <1>3 DEF Cut
  <2>2. d <= c + 9 \/ d + 9 >= n
    BY <1>1, <1>3
  <2>3. \A x \in s \union {d} : x <= st.cursor + 9 \/ x + 9 >= Length(e)
    BY <2>2 DEF CutOk
  <2>4. ASSUME NEW q \in Range(st.out)
        PROVE  \E a, b \in Int :
                  /\ IsPiece(q, e, a, b) /\ b <= st.cursor
                  /\ ~q.hop => (\E x \in s \union {d} : b <= x) /\ \A x \in s \union {d} : a < x /\ x < b => x - a <= HOP
    <3>1. PICK a, b \in Int :
            /\ IsPiece(q, e, a, b) /\ b <= st.cursor
            /\ ~q.hop => (\E x \in s : b <= x) /\ \A x \in s : a < x /\ x < b => x - a <= HOP
      BY DEF CutOk
    <3>2. ~q.hop => b <= d
      <4> SUFFICES ASSUME ~q.hop PROVE b <= d
        OBVIOUS
      <4>1. PICK x \in s : b <= x
        BY <3>1
      <4> QED BY <4>1
    <3>3. ~q.hop => \A x \in s \union {d} : a < x /\ x < b => x - a <= HOP
      BY <3>1, <3>2
    <3> QED BY <3>1, <3>3
  <2> QED BY <2>1, <2>3, <2>4 DEF CutOk
<1>4. CASE ~(d - 9 <= c \/ d + 9 >= n)
  <2> DEFINE p == Piece(e, c, d - 9, FALSE)
             q == Piece(e, d - 9, d + 9, TRUE)
             out == st.out \o <<p, q>>
             new == [out |-> out, cursor |-> d + 9]
  <2>1. Cut(e, st, d) = new
    BY <1>2, <1>4 DEF Cut
  <2>2. c < d - 9 /\ d - 9 \in Int /\ d + 9 \in Int /\ d + 9 < n /\ d - 9 < d + 9
    BY <1>1, <1>4
  <2> HIDE DEF c, n
  <2>3. p \in Segments /\ p.hop = FALSE /\ p.from = At(e, c) /\ p.to = At(e, d - 9)
    <3>1. c \in Int /\ FALSE \in BOOLEAN
      BY <1>1
    <3> QED BY <2>2, <3>1, PieceType
  <2>4. q \in Segments /\ q.hop = TRUE /\ q.from = At(e, d - 9) /\ q.to = At(e, d + 9)
    <3>1. d - 9 \in Int /\ d + 9 \in Int /\ TRUE \in BOOLEAN
      BY <2>2
    <3> QED BY <3>1, PieceType
  <2>5. /\ p \in Segments /\ q \in Segments /\ p.hop = FALSE /\ q.hop = TRUE
        /\ p.from = At(e, c) /\ p.to = At(e, d - 9) /\ q.from = At(e, d - 9) /\ q.to = At(e, d + 9)
    BY <2>3, <2>4
  <2>6. p = Piece(e, c, d - 9, p.hop) /\ q = Piece(e, d - 9, d + 9, q.hop)
    BY <2>5
  <2> HIDE DEF p, q
  <2>7. 0 <= d - 9 /\ d - 9 <= n
    BY <1>1, <2>2
  <2>8. d + 9 <= n
    BY <1>1, <2>2
  <2>9. IsPiece(p, e, c, d - 9)
    BY <1>1, <2>2, <2>5, <2>6, <2>7 DEF IsPiece, n
  <2>10. IsPiece(q, e, d - 9, d + 9)
    BY <1>1, <2>2, <2>5, <2>6, <2>7, <2>8 DEF IsPiece, n
  <2>11. IsPiece(p, e, c, d - 9) /\ IsPiece(q, e, d - 9, d + 9)
    BY <2>9, <2>10
  <2>12. IsPath(<<p, q>>, At(e, c), At(e, d + 9)) /\ Range(<<p, q>>) = {p, q}
    BY <2>5, TwoSteps
  <2>13. IsPath(st.out, e.from, At(e, c))
    BY DEF CutOk, c
  <2>14. IsPath(out, e.from, At(e, d + 9)) /\ Range(out) = Range(st.out) \union {p, q}
    BY <2>12, <2>13, PathsJoin
  <2> HIDE DEF out
  <2>15. new.out = out /\ new.cursor = d + 9 /\ new \in Cuts
    BY <2>2, <2>14 DEF Cuts, IsPath
  <2> HIDE DEF new
  <2>16. ASSUME NEW r \in Range(out)
        PROVE  \E a, b \in Int :
                  /\ IsPiece(r, e, a, b) /\ b <= d + 9
                  /\ ~r.hop => (\E x \in s \union {d} : b <= x) /\ \A x \in s \union {d} : a < x /\ x < b => x - a <= HOP
    <3>1. CASE r \in Range(st.out)
      <4>1. PICK a, b \in Int :
              /\ IsPiece(r, e, a, b) /\ b <= c
              /\ ~r.hop => (\E x \in s : b <= x) /\ \A x \in s : a < x /\ x < b => x - a <= HOP
        BY <3>1 DEF CutOk, c
      <4>2. b <= d + 9 /\ ~(d < b)
        BY <1>1, <2>2, <4>1 DEF c
      <4> QED BY <4>1, <4>2
    <3>2. CASE r = p
      <4>1. \A x \in s : x <= c + 9 \/ x + 9 >= n
        BY DEF CutOk, c, n
      <4>2. ASSUME NEW x \in s \union {d}, c < x, x < d - 9 PROVE x - c <= HOP
        <5>1. x \in s /\ x \in Int
          BY <4>2
        <5>2. x <= c + 9
          BY <1>1, <2>2, <4>1, <4>2, <5>1
        <5> QED BY <1>1, <5>1, <5>2 DEF HOP, c
      <4>3. d - 9 <= d /\ d - 9 <= d + 9
        OBVIOUS
      <4>4. c \in Int
        BY <1>1 DEF c
      <4> QED BY <2>2, <2>11, <3>2, <4>2, <4>3, <4>4
    <3>3. CASE r = q
      <4>1. d + 9 <= d + 9
        OBVIOUS
      <4> QED BY <2>2, <2>5, <2>11, <3>3, <4>1
    <3> QED BY <2>14, <3>1, <3>2, <3>3
  <2>17. ASSUME NEW t \in Int, 0 <= t, t < d + 9
         PROVE  \E r \in Range(out) : \E a, b \in Int : IsPiece(r, e, a, b) /\ a <= t /\ t <= b
    <3>1. CASE t < c
      <4>1. PICK r \in Range(st.out) : \E a, b \in Int : IsPiece(r, e, a, b) /\ a <= t /\ t <= b
        BY <2>17, <3>1 DEF CutOk, c
      <4> QED BY <2>14, <4>1
    <3>2. CASE c <= t /\ t <= d - 9
      <4>1. c \in Int
        BY <1>1 DEF c
      <4> QED BY <2>2, <2>11, <2>14, <3>2, <4>1
    <3>3. CASE d - 9 <= t
      <4>1. t <= d + 9
        BY <2>2, <2>17
      <4> QED BY <2>2, <2>11, <2>14, <3>3, <4>1
    <3>4. t < c \/ (c <= t /\ t <= d - 9) \/ d - 9 <= t
      BY <1>1, <2>2 DEF c
    <3> QED BY <3>1, <3>2, <3>3, <3>4
  <2>18. ASSUME NEW x \in s \union {d} PROVE x <= d + 9 + 9
    BY <2>2
  <2>19. 0 <= d + 9
    BY <1>1, <2>2 DEF c
  <2>20. new.cursor < Length(e)
    BY <2>2, <2>15 DEF n
  <2>21. IsPath(new.out, e.from, At(e, new.cursor))
    BY <2>14, <2>15
  <2>22. \A x \in s \union {d} : x <= new.cursor + 9 \/ x + 9 >= Length(e)
    <3>1. \A x \in s \union {d} : x <= new.cursor + 9
      BY <2>15, <2>18
    <3> QED BY <3>1
  <2>23. CutOk(e, s \union {d}, new)
    <3> DEFINE u == s \union {d}
               m == d + 9
    <3>1. \A r \in Range(new.out) : \E a, b \in Int :
                  /\ IsPiece(r, e, a, b) /\ b <= new.cursor
                  /\ ~r.hop => (\E x \in u : b <= x) /\ \A x \in u : a < x /\ x < b => x - a <= HOP
      BY <2>15, <2>16
    <3>2. \A t \in Int : 0 <= t /\ t < new.cursor =>
             \E r \in Range(new.out) : \E a, b \in Int : IsPiece(r, e, a, b) /\ a <= t /\ t <= b
      BY <2>15, <2>17
    <3>3. new \in Cuts /\ 0 <= new.cursor
      BY <2>15, <2>19
    <3> HIDE DEF u
    <3>4. \A x \in u : x <= new.cursor + 9 \/ x + 9 >= Length(e)
      BY <2>22 DEF u
    <3>5. CutOk(e, u, new)
      BY <2>20, <2>21, <3>1, <3>2, <3>3, <3>4 DEF CutOk
    <3> QED BY <3>5 DEF u
  <2> QED BY <2>1, <2>23
<1> QED BY <1>3, <1>4

CutOnce(e, S, f) ==
    [s \in SUBSET S |-> IF s = {} THEN [out |-> <<>>, cursor |-> 0] ELSE Cut(e, f[s \ {Max(s)}], Max(s))]

Numbers(S) == S \in SUBSET Int

\* An edge is cut from its start on.
LEMMA CutUpIs ==
    ASSUME NEW e \in Segments, NEW i, NEW j, NEW up, Runs(e, i, j, up), NEW S, Numbers(S), IsFiniteSet(S)
    PROVE  CutOk(e, S, CutUp(e, S))
<1> DEFINE base == [out |-> <<>>, cursor |-> 0]
           F(f) == CutOnce(e, S, f)
           pick == [s \in SUBSET S |-> Max(s)]
           cut(d, st) == Cut(e, st, d)
           op == [p \in S \X Cuts |-> cut(p[1], p[2])]
           g == CHOOSE f : f = F(f)
<1>1. CutUp(e, S) = g[S]
  <2>1. CutUp(e, S) =
           (CHOOSE f : f = [s \in SUBSET S |->
              IF s = {} THEN [out |-> <<>>, cursor |-> 0]
              ELSE LET x == Max(s) IN Cut(e, f[s \ {x}], x)])[S]
    BY DEF CutUp, MapThenFoldSet
  <2> QED BY <2>1 DEF CutOnce
<1>2. base \in Cuts /\ base.out = <<>> /\ base.cursor = 0
  BY DEF Cuts
<1>3. \A s \in SUBSET S : s # {} => Max(s) \in s /\ \A x \in s : x <= Max(s)
  <2> SUFFICES ASSUME NEW s \in SUBSET S, s # {} PROVE Max(s) \in s /\ \A x \in s : x <= Max(s)
    OBVIOUS
  <2>1. s \in SUBSET Int /\ IsFiniteSet(s)
    BY FS_Subset DEF Numbers
  <2> QED BY <2>1, MaxIs
<1>4. op \in [S \X Cuts -> Cuts]
  <2>1. ASSUME NEW d \in S, NEW st \in Cuts PROVE cut(d, st) \in Cuts
    <3>1. d \in Int /\ d - HOP \div 2 \in Int /\ d + HOP \div 2 \in Int /\ st.cursor \in Int /\ st.out \in Seq(Segments)
      BY DEF HOP, Cuts, Numbers
    <3> DEFINE p == Piece(e, st.cursor, d - HOP \div 2, FALSE)
               q == Piece(e, d - HOP \div 2, d + HOP \div 2, TRUE)
    <3>2. p \in Segments
      BY <3>1, PieceType
    <3>3. q \in Segments
      BY <3>1, PieceType
    <3>4. Cut(e, st, d) = st \/ Cut(e, st, d) = [out |-> st.out \o <<p, q>>, cursor |-> d + HOP \div 2]
      BY DEF Cut
    <3> HIDE DEF p, q
    <3>5. st.out \o <<p, q>> \in Seq(Segments)
      BY <3>1, <3>2, <3>3
    <3>6. CASE Cut(e, st, d) = st
      BY <3>6
    <3>7. CASE Cut(e, st, d) = [out |-> st.out \o <<p, q>>, cursor |-> d + HOP \div 2]
      <4> DEFINE k == d + HOP \div 2
                 o == st.out \o <<p, q>>
      <4>1. k \in Int /\ o \in Seq(Segments) /\ Cut(e, st, d) = [out |-> o, cursor |-> k]
        BY <3>1, <3>5, <3>7
      <4> HIDE DEF k, o
      <4> QED BY <4>1 DEF Cuts
    <3> QED BY <3>4, <3>6, <3>7
  <2> HIDE DEF cut
  <2> QED BY <2>1
<1>5. \A s \in SUBSET S : s # {} => pick[s] \in s
  BY <1>3
<1> HIDE DEF base
<1>6. PICK f \in [SUBSET S -> Cuts] :
         \A s \in SUBSET S : f[s] = IF s = {} THEN base ELSE op[<<pick[s], f[s \ {pick[s]}]>>]
  <2> HIDE DEF op, pick
  <2>1. IsFold(S, Cuts, base, op, pick)
    BY <1>2, <1>4, <1>5 DEF IsFold
  <2>2. PICK f : FoldsTo(f, S, Cuts, base, op, pick)
    BY <2>1, FoldExists
  <2> QED BY <2>2 DEF FoldsTo
<1>7. f = F(f)
  <2>1. ASSUME NEW s \in SUBSET S
        PROVE  f[s] = IF s = {} THEN base ELSE Cut(e, f[s \ {Max(s)}], Max(s))
    <3>1. CASE s = {}
      BY <1>6, <3>1
    <3>2. CASE s # {}
      <4>1. Max(s) \in S /\ f[s \ {Max(s)}] \in Cuts
        BY <1>3, <3>2
      <4>2. op[<<Max(s), f[s \ {Max(s)}]>>] = Cut(e, f[s \ {Max(s)}], Max(s))
        BY <4>1
      <4>3. pick[s] = Max(s)
        OBVIOUS
      <4> HIDE DEF op, pick
      <4>4. f[s] = op[<<pick[s], f[s \ {pick[s]}]>>]
        BY <1>6, <3>2
      <4> QED BY <3>2, <4>2, <4>3, <4>4
    <3> QED BY <3>1, <3>2
  <2> QED BY <2>1 DEF CutOnce, base
<1>8. g = F(g)
  <2> HIDE DEF F
  <2> QED BY <1>7
<1>9. \A s \in SUBSET S : g[s] = IF s = {} THEN base ELSE Cut(e, g[s \ {Max(s)}], Max(s))
  BY <1>8 DEF CutOnce, base
<1> DEFINE P == {s \in SUBSET S : CutOk(e, s, g[s])}
<1>10. {} \in P
  <2>1. g[{}] = base
    BY <1>9
  <2>2. IsPath(<<>>, e.from, At(e, 0))
    BY StartsAt DEF IsPath
  <2>3. Range(<<>>) = {}
    BY DEF Range
  <2>4. Length(e) > 0
    BY DEF Runs
  <2>5. CutOk(e, {}, base)
    BY <1>2, <2>2, <2>3, <2>4 DEF CutOk
  <2> QED BY <2>1, <2>5
<1>11. ASSUME NEW s \in SUBSET S, s # {}, s \ {pick[s]} \in P PROVE s \in P
  <2> DEFINE d == Max(s)
             t == s \ {d}
  <2>1. d \in s /\ d \in Int /\ t \in SUBSET Int /\ \A x \in t : x <= d
    BY <1>3, <1>11 DEF Numbers
  <2>2. CutOk(e, t, g[t])
    BY <1>11
  <2>3. g[s] = Cut(e, g[t], d)
    BY <1>9, <1>11
  <2>4. s = t \union {d}
    BY <2>1
  <2> HIDE DEF d, t, g
  <2>5. CutOk(e, t \union {d}, Cut(e, g[t], d))
    BY <2>1, <2>2, CutStep
  <2> QED BY <2>3, <2>4, <2>5
<1>12. SUBSET S \subseteq P
  <2> HIDE DEF P, pick, F, g, op, cut
  <2>1. IsFiniteSet(S) /\ {} \in P
    BY <1>10
  <2>2. \A s \in SUBSET S : s # {} /\ s \ {pick[s]} \in P => s \in P
    BY <1>11
  <2> QED BY <1>5, <2>1, <2>2, Bysets
<1> QED BY <1>1, <1>12

\* What becomes of an edge where wires cross it: pieces of it, one behind the other, that
\* cover it, and no piece but a hop goes far over a cut.
IsSplit(s, e, ds) ==
    /\ IsPath(s, e.from, e.to) /\ s # <<>>
    /\ \A q \in Range(s) : \E a, b \in Int :
          /\ IsPiece(q, e, a, b)
          /\ ~q.hop => \A d \in ds : a < d /\ d < b => d - a <= HOP \/ b - d <= HOP
    /\ \A t \in Int : 0 <= t /\ t <= Length(e) =>
          \E q \in Range(s) : \E a, b \in Int : IsPiece(q, e, a, b) /\ a <= t /\ t <= b

\* split_edge (route.rs:490-532) does that to an edge.
LEMMA SplitIs ==
    ASSUME NEW e \in Segments, NEW i, NEW j, NEW up, Runs(e, i, j, up), NEW cuts \in SUBSET Places, IsFiniteSet(cuts)
    PROVE  IsSplit(SplitEdge(e, cuts), e, {Along(e, p) : p \in cuts})
<1> DEFINE ds == {Along(e, p) : p \in cuts}
           st == CutUp(e, ds)
           n == Length(e)
           c == st.cursor
           q == Piece(e, c, n, FALSE)
           s == st.out \o <<q>>
<1>1. n \in Int /\ i \in {1, 2} /\ e.from[i] \in Int
  BY SegmentsAre DEF Runs
<1>2. ds \in SUBSET Int
  <2>1. ASSUME NEW p \in Places PROVE Along(e, p) \in Int
    <3>1. p[i] \in Int /\ Along(e, p) = IF up THEN p[i] - e.from[i] ELSE e.from[i] - p[i]
      BY <1>1, PlacesAre DEF Runs
    <3> QED BY <1>1, <3>1
  <2> QED BY <2>1
<1>3. IsFiniteSet(ds)
  <2> DEFINE f == [p \in cuts |-> Along(e, p)]
  <2>1. IsFiniteSet({f[p] : p \in cuts})
    <3> HIDE DEF f
    <3> QED BY ImageFinite
  <2>2. {f[p] : p \in cuts} = ds
    OBVIOUS
  <2> QED BY <2>1, <2>2
<1>4. CutOk(e, ds, st)
  <2> HIDE DEF ds
  <2> QED BY <1>2, <1>3, CutUpIs DEF Numbers
<1> HIDE DEF ds, st
<1>5. c \in Int /\ 0 <= c /\ c < n /\ st.out \in Seq(Segments) /\ IsPath(st.out, e.from, At(e, c))
  BY <1>4 DEF CutOk, Cuts
<1>6. q \in Segments /\ q.hop = FALSE /\ q.from = At(e, c) /\ q.to = At(e, n)
  BY <1>1, <1>5, PieceType
<1>7. At(e, n) = e.to
  BY StartsAt
<1>8. [q EXCEPT !.to = e.to] = q
  <2> HIDE DEF q
  <2> QED BY <1>6, <1>7 DEF Segments
<1>9. SplitEdge(e, cuts) = s
  <2>1. SplitEdge(e, cuts) = Append(st.out, [q EXCEPT !.to = e.to])
    BY <1>5 DEF SplitEdge, ds, st
  <2> HIDE DEF q
  <2> QED BY <1>5, <1>6, <1>8, <2>1, AppendIsConcat
<1>10. q = Piece(e, c, n, q.hop)
  BY <1>6
<1> HIDE DEF q
<1>11. IsPath(<<q>>, At(e, c), e.to) /\ Range(<<q>>) = {q} /\ <<q>> \in Seq(Segments)
  BY <1>6, <1>7, OneStep
<1>12. IsPath(s, e.from, e.to) /\ Range(s) = Range(st.out) \union {q}
  BY <1>5, <1>11, PathsJoin
<1>13. s # <<>>
  <2>1. q \in Range(s)
    BY <1>12
  <2> HIDE DEF s
  <2> QED BY <2>1 DEF Range
<1>14. IsPiece(q, e, c, n)
  <2>1. n <= n
    BY <1>1
  <2> QED BY <1>1, <1>5, <1>6, <1>10, <2>1 DEF IsPiece
<1> HIDE DEF s
<1>15. ASSUME NEW r \in Range(s)
       PROVE  \E a, b \in Int :
                  /\ IsPiece(r, e, a, b)
                  /\ ~r.hop => \A d \in ds : a < d /\ d < b => d - a <= HOP \/ b - d <= HOP
  <2>1. CASE r \in Range(st.out)
    <3>1. PICK a, b \in Int :
              /\ IsPiece(r, e, a, b) /\ b <= st.cursor
              /\ ~r.hop => (\E x \in ds : b <= x) /\ \A x \in ds : a < x /\ x < b => x - a <= HOP
      BY <1>4, <2>1 DEF CutOk
    <3> QED BY <3>1
  <2>2. CASE r = q
    <3>1. \A d \in ds : d <= c + 9 \/ d + 9 >= n
      BY <1>4 DEF CutOk
    <3>2. ASSUME NEW d \in ds, c < d, d < n PROVE d - c <= HOP \/ n - d <= HOP
      <4>1. d \in Int /\ (d <= c + 9 \/ d + 9 >= n)
        BY <1>2, <3>1
      <4> HIDE DEF c, n
      <4> QED BY <1>1, <1>5, <4>1 DEF HOP
    <3> QED BY <1>1, <1>5, <1>14, <2>2, <3>2
  <2> QED BY <1>12, <2>1, <2>2
<1>16. ASSUME NEW t \in Int, 0 <= t, t <= n
       PROVE  \E r \in Range(s) : \E a, b \in Int : IsPiece(r, e, a, b) /\ a <= t /\ t <= b
  <2>1. CASE t < c
    <3>1. PICK r \in Range(st.out) : \E a, b \in Int : IsPiece(r, e, a, b) /\ a <= t /\ t <= b
      BY <1>4, <1>16, <2>1 DEF CutOk
    <3> QED BY <1>12, <3>1
  <2>2. CASE c <= t
    BY <1>1, <1>5, <1>12, <1>14, <1>16, <2>2
  <2> HIDE DEF c
  <2>3. t < c \/ c <= t
    BY <1>5
  <2> QED BY <2>1, <2>2, <2>3 DEF c
<1> QED BY <1>9, <1>12, <1>13, <1>15, <1>16 DEF IsSplit, ds

-----------------------------------------------------------------------------
(* Crossings *)

\* There are finitely many crossings.
LEMMA CrossingsAre ==
    ASSUME NEW e \in Segments, NEW others \in SUBSET Segments, IsFiniteSet(others)
    PROVE  Crossings(e, others) \in SUBSET Places /\ IsFiniteSet(Crossings(e, others))
<1>1. ASSUME NEW h \in Segments, NEW v \in Segments PROVE Meeting(h, v) \in Places
  <2>1. v.from[1] \in Int /\ h.from[2] \in Int
    BY SegmentsAre
  <2> QED BY <2>1, PlacesAre DEF Meeting
<1>2. CASE Level(e)
  <2> DEFINE S == {x \in others : ~Level(x) /\ Meets(e, x)}
             f == [o \in S |-> Meeting(e, o)]
  <2>1. IsFiniteSet(S)
    BY FS_Subset
  <2>2. Crossings(e, others) = {Meeting(e, o) : o \in S}
    BY <1>2 DEF Crossings
  <2>3. {f[o] : o \in S} = {Meeting(e, o) : o \in S}
    OBVIOUS
  <2>4. \A o \in S : Meeting(e, o) \in Places
    BY <1>1
  <2> HIDE DEF S, f
  <2>5. IsFiniteSet({f[o] : o \in S})
    BY <2>1, ImageFinite
  <2> QED BY <2>2, <2>3, <2>4, <2>5
<1>3. CASE ~Level(e)
  <2> DEFINE S == {x \in others : Level(x) /\ Meets(x, e)}
             f == [o \in S |-> Meeting(o, e)]
  <2>1. IsFiniteSet(S)
    BY FS_Subset
  <2>2. Crossings(e, others) = {Meeting(o, e) : o \in S}
    BY <1>3 DEF Crossings
  <2>3. {f[o] : o \in S} = {Meeting(o, e) : o \in S}
    OBVIOUS
  <2>4. \A o \in S : Meeting(o, e) \in Places
    BY <1>1
  <2> HIDE DEF S, f
  <2>5. IsFiniteSet({f[o] : o \in S})
    BY <2>1, ImageFinite
  <2> QED BY <2>2, <2>3, <2>4, <2>5
<1> QED BY <1>2, <1>3

\* A part of an edge.
Within(q, e) ==
    /\ q \in Segments /\ IsStraight(q) /\ (Level(q) <=> Level(e))
    /\ \A k \in {1, 2} : Low(e, k) <= Low(q, k) /\ High(q, k) <= High(e, k)

\* A level edge has one height, an upright one one column.
LEMMA LevelEdges ==
    ASSUME NEW e \in Segments, IsStraight(e)
    PROVE  /\ Level(e) => Low(e, 2) = e.from[2] /\ High(e, 2) = e.from[2]
           /\ ~Level(e) => Low(e, 1) = e.from[1] /\ High(e, 1) = e.from[1]
           /\ \A k \in {1, 2} : /\ Low(e, k) \in Int /\ High(e, k) \in Int /\ e.from[k] \in Int /\ e.to[k] \in Int
                                /\ Low(e, k) <= e.from[k] /\ e.from[k] <= High(e, k)
                                /\ Low(e, k) <= e.to[k] /\ e.to[k] <= High(e, k)
<1>1. \A k \in {1, 2} : /\ Low(e, k) = IF e.from[k] <= e.to[k] THEN e.from[k] ELSE e.to[k]
                        /\ High(e, k) = IF e.from[k] <= e.to[k] THEN e.to[k] ELSE e.from[k]
                        /\ e.from[k] \in Int /\ e.to[k] \in Int
  BY SegmentsAre
<1>2. ASSUME NEW k \in {1, 2}
      PROVE  /\ Low(e, k) \in Int /\ High(e, k) \in Int /\ e.from[k] \in Int /\ e.to[k] \in Int
             /\ Low(e, k) <= e.from[k] /\ e.from[k] <= High(e, k)
             /\ Low(e, k) <= e.to[k] /\ e.to[k] <= High(e, k)
  BY <1>1
<1>3. (Level(e) => e.to[2] = e.from[2]) /\ (~Level(e) => e.to[1] = e.from[1])
  BY DEF IsStraight, Level
<1> QED BY <1>1, <1>2, <1>3

\* Where parts of two edges cross, the edges do, at the same place.
LEMMA PartsCross ==
    ASSUME NEW e \in Segments, IsStraight(e), NEW o \in Segments, IsStraight(o),
           NEW q, Within(q, e), NEW r, Within(r, o), NEW at \in Crossings(q, {r}), NEW others, o \in others
    PROVE  /\ at \in Crossings(e, others)
           /\ \E i \in {1, 2} : (Level(e) <=> i = 1) /\ Low(q, i) < at[i] /\ at[i] < High(q, i)
<1>1. q \in Segments /\ IsStraight(q) /\ r \in Segments /\ IsStraight(r) /\ (Level(q) <=> Level(e)) /\ (Level(r) <=> Level(o))
  BY DEF Within
<1>2. \A k \in {1, 2} : Low(e, k) <= Low(q, k) /\ High(q, k) <= High(e, k) /\ Low(o, k) <= Low(r, k) /\ High(r, k) <= High(o, k)
  BY DEF Within
<1> DEFINE Ints(x) == \A k \in {1, 2} : /\ Low(x, k) \in Int /\ High(x, k) \in Int /\ x.from[k] \in Int
                                        /\ Low(x, k) <= x.from[k] /\ x.from[k] <= High(x, k)
<1>3. Ints(e) /\ Ints(o) /\ Ints(q) /\ Ints(r)
  BY <1>1, LevelEdges
<1>4. CASE Level(e)
  <2>1. Level(q) /\ ~Level(r) /\ Meets(q, r) /\ at = Meeting(q, r)
    BY <1>1, <1>4 DEF Crossings
  <2>2. ~Level(o)
    BY <1>1, <2>1
  <2>3. /\ Low(e, 2) = e.from[2] /\ High(e, 2) = e.from[2] /\ Low(q, 2) = q.from[2] /\ High(q, 2) = q.from[2]
        /\ Low(o, 1) = o.from[1] /\ High(o, 1) = o.from[1] /\ Low(r, 1) = r.from[1] /\ High(r, 1) = r.from[1]
    BY <1>1, <1>4, <2>1, <2>2, LevelEdges
  <2>4. q.from[2] = e.from[2] /\ r.from[1] = o.from[1]
    BY <1>2, <1>3, <2>3
  <2>5. Meeting(e, o) = at
    BY <2>1, <2>4 DEF Meeting
  <2>6. /\ Low(q, 1) < r.from[1] /\ r.from[1] < High(q, 1)
        /\ Low(r, 2) < q.from[2] /\ q.from[2] < High(r, 2)
    BY <2>1 DEF Meets
  <2>7. Meets(e, o)
    <3>1. Low(e, 1) < o.from[1] /\ o.from[1] < High(e, 1)
      BY <1>2, <1>3, <2>4, <2>6
    <3>2. Low(o, 2) < e.from[2] /\ e.from[2] < High(o, 2)
      BY <1>2, <1>3, <2>4, <2>6
    <3> QED BY <3>1, <3>2 DEF Meets
  <2>8. at \in Crossings(e, others)
    BY <1>4, <2>2, <2>5, <2>7 DEF Crossings
  <2>9. at[1] = r.from[1]
    BY <2>1 DEF Meeting
  <2> QED BY <1>4, <2>6, <2>8, <2>9
<1>5. CASE ~Level(e)
  <2>1. ~Level(q) /\ Level(r) /\ Meets(r, q) /\ at = Meeting(r, q)
    BY <1>1, <1>5 DEF Crossings
  <2>2. Level(o)
    BY <1>1, <2>1
  <2>3. /\ Low(e, 1) = e.from[1] /\ High(e, 1) = e.from[1] /\ Low(q, 1) = q.from[1] /\ High(q, 1) = q.from[1]
        /\ Low(o, 2) = o.from[2] /\ High(o, 2) = o.from[2] /\ Low(r, 2) = r.from[2] /\ High(r, 2) = r.from[2]
    BY <1>1, <1>5, <2>1, <2>2, LevelEdges
  <2>4. q.from[1] = e.from[1] /\ r.from[2] = o.from[2]
    BY <1>2, <1>3, <2>3
  <2>5. Meeting(o, e) = at
    BY <2>1, <2>4 DEF Meeting
  <2>6. /\ Low(r, 1) < q.from[1] /\ q.from[1] < High(r, 1)
        /\ Low(q, 2) < r.from[2] /\ r.from[2] < High(q, 2)
    BY <2>1 DEF Meets
  <2>7. Meets(o, e)
    <3>1. Low(o, 1) < e.from[1] /\ e.from[1] < High(o, 1)
      BY <1>2, <1>3, <2>4, <2>6
    <3>2. Low(e, 2) < o.from[2] /\ o.from[2] < High(e, 2)
      BY <1>2, <1>3, <2>4, <2>6
    <3> QED BY <3>1, <3>2 DEF Meets
  <2>8. at \in Crossings(e, others)
    BY <1>5, <2>2, <2>5, <2>7 DEF Crossings
  <2>9. at[2] = r.from[2]
    BY <2>1 DEF Meeting
  <2> QED BY <1>5, <2>6, <2>8, <2>9
<1> QED BY <1>4, <1>5

\* A piece of an edge after the hops over other wires are cut in.
PieceOver(q, e, others) ==
    /\ Within(q, e)
    /\ ~q.hop => \A at \in Crossings(e, others), i \in {1, 2} :
          (Level(e) <=> i = 1) /\ Low(q, i) < at[i] /\ at[i] < High(q, i) =>
              \E end \in {q.from[i], q.to[i]} : end - at[i] \in -HOP..HOP

HopsOver(s, e, others) ==
    /\ IsPath(s, e.from, e.to) /\ s # <<>>
    /\ \A q \in Range(s) : PieceOver(q, e, others)
    /\ \A p \in Places : InBox(p, e) => \E q \in Range(s) : InBox(p, q)

HoppedEdge(e, others) == IF Crossings(e, others) = {} THEN <<e>> ELSE SplitEdge(e, Crossings(e, others))

\* split_crossings (route.rs:442-479) makes such pieces of an edge.
LEMMA HoppedEdgeIs ==
    ASSUME NEW e \in Segments, IsStraight(e), NEW others \in SUBSET Segments, IsFiniteSet(others)
    PROVE  HopsOver(HoppedEdge(e, others), e, others)
<1> DEFINE at == Crossings(e, others)
           s == HoppedEdge(e, others)
<1>1. at \in SUBSET Places /\ IsFiniteSet(at)
  BY CrossingsAre
<1>2. CASE at = {}
  <2>1. s = <<e>>
    BY <1>2 DEF HoppedEdge
  <2>2. IsPath(<<e>>, e.from, e.to) /\ Range(<<e>>) = {e} /\ <<e>> # <<>>
    <3>1. IsPath(<<e>>, e.from, e.to) /\ Range(<<e>>) = {e}
      BY OneStep
    <3> QED BY <3>1
  <2>3. \A k \in {1, 2} : Low(e, k) \in Int /\ High(e, k) \in Int
    BY LevelEdges
  <2>4. \A k \in {1, 2} : Low(e, k) <= Low(e, k) /\ High(e, k) <= High(e, k)
    BY <2>3
  <2>5. PieceOver(e, e, others)
    BY <1>2, <2>4 DEF PieceOver, Within
  <2>6. HopsOver(<<e>>, e, others)
    <3> DEFINE z == <<e>>
    <3> HIDE DEF z
    <3>1. IsPath(z, e.from, e.to) /\ Range(z) = {e} /\ z # <<>>
      BY <2>2 DEF z
    <3>2. HopsOver(z, e, others)
      BY <2>5, <3>1 DEF HopsOver
    <3> QED BY <3>2 DEF z
  <2> QED BY <2>1, <2>6
<1>3. CASE at # {}
  <2> DEFINE ds == {Along(e, p) : p \in at}
  <2>1. PICK i, j \in {1, 2}, up \in BOOLEAN : Runs(e, i, j, up)
    BY EdgeRuns
  <2>2. s = SplitEdge(e, at)
    BY <1>3 DEF HoppedEdge
  <2> HIDE DEF s, at
  <2>3. IsSplit(s, e, ds)
    BY <1>1, <2>1, <2>2, SplitIs
  <2>4. i \in {1, 2} /\ (Level(e) <=> i = 1)
    BY <2>1 DEF Runs
  <2>5. ASSUME NEW q \in Range(s) PROVE PieceOver(q, e, others)
    <3>1. PICK a, b \in Int :
            /\ IsPiece(q, e, a, b)
            /\ ~q.hop => \A d \in ds : a < d /\ d < b => d - a <= HOP \/ b - d <= HOP
      BY <2>3 DEF IsSplit
    <3> HIDE DEF ds
    <3>2. Within(q, e)
      BY <2>1, <3>1, PieceIs DEF Within
    <3>3. ASSUME ~q.hop, NEW p \in at, NEW k \in {1, 2}, Level(e) <=> k = 1, Low(q, k) < p[k], p[k] < High(q, k)
          PROVE  \E end \in {q.from[k], q.to[k]} : end - p[k] \in -HOP..HOP
      <4>1. k = i
        BY <2>4, <3>3
      <4>2. p \in Places /\ Along(e, p) \in ds
        BY <1>1 DEF ds
      <4>3. /\ a < Along(e, p) /\ Along(e, p) < b
            /\ Along(e, p) - a <= HOP => q.from[i] - p[i] \in -HOP..HOP
            /\ b - Along(e, p) <= HOP => q.to[i] - p[i] \in -HOP..HOP
        BY <2>1, <3>1, <3>3, <4>1, <4>2, PieceIs
      <4>4. Along(e, p) - a <= HOP \/ b - Along(e, p) <= HOP
        BY <3>1, <3>3, <4>2, <4>3
      <4> QED BY <4>1, <4>3, <4>4
    <3> QED BY <3>2, <3>3 DEF PieceOver, at
  <2>6. ASSUME NEW p \in Places, InBox(p, e) PROVE \E q \in Range(s) : InBox(p, q)
    <3> DEFINE t == Along(e, p)
               n == Length(e)
    <3>1. t \in Int /\ 0 <= t /\ t <= n
      <4>1. p[i] \in Int /\ e.from[i] \in Int /\ n \in Int
        BY <2>4, PlacesAre, SegmentsAre, <2>1 DEF Runs
      <4>2. /\ t = (IF up THEN p[i] - e.from[i] ELSE e.from[i] - p[i])
            /\ Low(e, i) = (IF up THEN e.from[i] ELSE e.from[i] - n)
            /\ High(e, i) = IF up THEN e.from[i] + n ELSE e.from[i]
        BY <2>1 DEF Runs
      <4>3. Low(e, i) <= p[i] /\ p[i] <= High(e, i)
        BY <2>4, <2>6 DEF InBox
      <4> HIDE DEF t, n
      <4> QED BY <4>1, <4>2, <4>3
    <3>2. PICK q \in Range(s) : \E a, b \in Int : IsPiece(q, e, a, b) /\ a <= t /\ t <= b
      BY <2>3, <3>1 DEF IsSplit
    <3>3. PICK a, b \in Int : IsPiece(q, e, a, b) /\ a <= t /\ t <= b
      BY <3>2
    <3>4. InBox(p, q)
      BY <2>1, <2>6, <3>3, PieceIs
    <3> QED BY <3>4
  <2>7. IsPath(s, e.from, e.to) /\ s # <<>>
    BY <2>3 DEF IsSplit
  <2> QED BY <2>5, <2>6, <2>7 DEF HopsOver, s
<1> QED BY <1>2, <1>3

-----------------------------------------------------------------------------
(* Chains *)

\* A chain is one line of straight edges.
IsLine(c, a, b) ==
    /\ c = [edges |-> c.edges, ports |-> c.ports]
    /\ IsPath(c.edges, a, b) /\ c.edges # <<>>
    /\ \A e \in Range(c.edges) : IsStraight(e)

\* A chain stays one line from end to end when hops are cut in, and covers what it covered.
LEMMA HoppingIs ==
    ASSUME NEW c, NEW a, NEW b, IsLine(c, a, b), NEW others \in SUBSET Segments, IsFiniteSet(others)
    PROVE  /\ IsLine(Hopping(c, others), a, b) /\ Hopping(c, others).ports = c.ports
           /\ \A q \in Range(Hopping(c, others).edges) : \E e \in Range(c.edges) : PieceOver(q, e, others)
           /\ \A p \in Places, e \in Range(c.edges) : InBox(p, e) =>
                 \E q \in Range(Hopping(c, others).edges) : InBox(p, q)
<1> DEFINE es == c.edges
           n == Len(es)
           h(e) == HoppedEdge(e, others)
           ss == [i \in DOMAIN es |-> h(es[i])]
           v == [i \in 1..n + 1 |-> IF i <= n THEN es[i].from ELSE es[n].to]
           out == FlattenSeq(ss)
<1>1. es \in Seq(Segments) /\ es # <<>> /\ \A i \in 1..n - 1 : es[i].to = es[i + 1].from
  BY DEF IsLine, IsPath
<1>2. es[1].from = a /\ es[n].to = b
  BY <1>1 DEF IsLine, IsPath
<1>3. n \in Nat /\ n >= 1 /\ DOMAIN es = 1..n /\ \A i \in 1..n : es[i] \in Segments /\ es[i] \in Range(es)
  BY <1>1, EmptySeq DEF Range
<1>4. \A i \in 1..n : IsStraight(es[i])
  BY <1>3 DEF IsLine
<1>5. Hopping(c, others) = [c EXCEPT !.edges = out]
  BY DEF Hopping, HoppedEdge
<1> HIDE DEF es
<1>6. ASSUME NEW i \in 1..n PROVE HopsOver(h(es[i]), es[i], others)
  BY <1>3, <1>4, HoppedEdgeIs
<1>7. \A i \in 1..n : ss[i] = h(es[i]) /\ h(es[i]) \in Seq(Segments)
  BY <1>3, <1>6 DEF HopsOver, IsPath
<1>8. ss \in Seq(Seq(Segments)) /\ Len(ss) = n /\ ss # <<>>
  <2> DEFINE E == Seq(Segments)
  <2>1. \A i \in 1..n : h(es[i]) \in E
    BY <1>7
  <2>2. ss = [i \in 1..n |-> h(es[i])]
    BY <1>3
  <2> HIDE DEF h, E, ss, n
  <2>3. ss \in Seq(E) /\ Len(ss) = n
    BY <1>3, <2>1, <2>2
  <2>4. ss # <<>>
    BY <1>3, <2>3
  <2> QED BY <2>3, <2>4 DEF E
<1>9. /\ v[1] = a /\ v[n + 1] = b
      /\ \A i \in 1..n : v[i] = es[i].from /\ v[i + 1] = es[i].to
  <2>1. 1 \in 1..n + 1 /\ 1 <= n /\ n + 1 \in 1..n + 1 /\ ~(n + 1 <= n)
    BY <1>3
  <2>2. v[1] = a
    BY <1>2, <2>1 DEF es
  <2>3. v[n + 1] = b
    BY <1>2, <2>1 DEF es
  <2>4. ASSUME NEW i \in 1..n PROVE v[i] = es[i].from /\ v[i + 1] = es[i].to
    <3>1. i \in 1..n + 1 /\ i <= n /\ i + 1 \in 1..n + 1
      BY <1>3
    <3>2. CASE i = n
      <4>1. ~(i + 1 <= n)
        BY <3>2, <1>3
      <4> QED BY <3>1, <3>2, <4>1
    <3>3. CASE i # n
      <4>1. i + 1 <= n /\ i \in 1..n - 1
        <5> HIDE DEF n
        <5>1. i \in Nat /\ n \in Nat /\ 1 <= i /\ i <= n
          BY <1>3
        <5>2. i + 1 <= n /\ i <= n - 1
          BY <3>3, <5>1
        <5> QED BY <1>3, <5>1, <5>2
      <4> QED BY <1>1, <3>1, <4>1 DEF es
    <3> QED BY <3>2, <3>3
  <2> QED BY <2>2, <2>3, <2>4
<1> HIDE DEF ss, v, h
<1>10. \A i \in 1..Len(ss) : IsPath(ss[i], v[i], v[i + 1])
  BY <1>6, <1>7, <1>8, <1>9 DEF HopsOver
<1>11. /\ IsPath(out, v[1], v[Len(ss) + 1])
       /\ \A e : e \in Range(out) <=> \E i \in 1..Len(ss) : e \in Range(ss[i])
  BY <1>8, <1>10, FlattenPath
<1>12. IsPath(out, a, b)
  BY <1>8, <1>9, <1>11
<1>13. \A q : q \in Range(out) <=> \E i \in 1..n : q \in Range(h(es[i]))
  BY <1>7, <1>8, <1>11
<1>14. ASSUME NEW q \in Range(out) PROVE \E e \in Range(es) : PieceOver(q, e, others)
  <2>1. PICK i \in 1..n : q \in Range(h(es[i]))
    BY <1>13
  <2> QED BY <1>3, <1>6, <2>1 DEF HopsOver
<1>15. ASSUME NEW p \in Places, NEW e \in Range(es), InBox(p, e) PROVE \E q \in Range(out) : InBox(p, q)
  <2>1. PICK i \in 1..n : e = es[i]
    BY <1>3 DEF Range
  <2>2. PICK q \in Range(h(es[i])) : InBox(p, q)
    BY <1>6, <1>15, <2>1 DEF HopsOver
  <2>3. q \in Range(out)
    BY <1>13, <2>2
  <2> QED BY <2>2, <2>3
<1>16. out # <<>>
  <2>1. h(es[1]) # <<>> /\ h(es[1]) \in Seq(Segments) /\ 1 \in 1..n
    BY <1>3, <1>6, <1>7 DEF HopsOver
  <2>2. h(es[1])[1] \in Range(h(es[1]))
    <3> DEFINE x == h(es[1])
    <3> HIDE DEF x
    <3>1. x # <<>> /\ x \in Seq(Segments)
      BY <2>1 DEF x
    <3>2. 1 \in DOMAIN x
      BY <3>1
    <3>3. x[1] \in Range(x)
      BY <3>2 DEF Range
    <3> QED BY <3>3 DEF x
  <2>3. h(es[1])[1] \in Range(out)
    BY <1>13, <2>1, <2>2
  <2>4. Range(<<>>) = {}
    BY DEF Range
  <2> QED BY <2>3, <2>4
<1> DEFINE k == Hopping(c, others)
<1> HIDE DEF out
<1>17. k = [edges |-> out, ports |-> c.ports]
  BY <1>5 DEF IsLine
<1>18. k.edges = out /\ k.ports = c.ports /\ k = [edges |-> k.edges, ports |-> k.ports]
  BY <1>17
<1> HIDE DEF k
<1>19. IsLine(k, a, b)
  <2>1. \A q \in Range(out) : IsStraight(q)
    BY <1>14 DEF PieceOver, Within
  <2> QED BY <1>12, <1>16, <1>18, <2>1 DEF IsLine
<1> QED BY <1>14, <1>15, <1>18, <1>19 DEF k, es

-----------------------------------------------------------------------------
(* The chains of the router *)

Aligned(p, q) == p[1] = q[1] \/ p[2] = q[2]

\* An edge between places that are in line is straight.
LEMMA StepIs ==
    ASSUME NEW p \in Places, NEW q \in Places, p # q, Aligned(p, q)
    PROVE  Step(p, q) \in Segments /\ IsStraight(Step(p, q))
<1>1. Step(p, q) \in Segments /\ Step(p, q).from = p /\ Step(p, q).to = q
  BY DEF Step, Segments
<1>2. p[1] = q[1] /\ p[2] = q[2] => p = q
  BY PlacesAre
<1> QED BY <1>1, <1>2 DEF Aligned, IsStraight

\* chain_through (route.rs:250-263) makes one line through points that are in line.
LEMMA LineThrough ==
    ASSUME NEW vs \in Seq(Places), Len(vs) >= 2, vs[1] # vs[2], \A i \in 1..Len(vs) - 1 : Aligned(vs[i], vs[i + 1]),
           NEW c, NEW ports, c = [edges |-> EdgesOf(vs), ports |-> ports]
    PROVE  /\ IsLine(c, vs[1], vs[Len(vs)]) /\ c.ports = ports
           /\ \A i \in 1..Len(vs) - 1 : vs[i] # vs[i + 1] => Step(vs[i], vs[i + 1]) \in Range(c.edges)
<1> DEFINE es == EdgesOf(vs)
           n == Len(vs)
<1>1. /\ IsPath(es, vs[1], vs[n])
      /\ \A e : e \in Range(es) <=> \E i \in 1..n - 1 : vs[i] # vs[i + 1] /\ e = Step(vs[i], vs[i + 1])
  BY EdgesOfIs
<1>2. n \in Nat /\ \A i \in 1..n : vs[i] \in Places
  BY ElementOfSeq, LenProperties
<1> HIDE DEF es, n
<1>3. 1 \in 1..n - 1
  BY <1>2 DEF n
<1>4. Step(vs[1], vs[2]) \in Range(es)
  <2>1. 1 + 1 = 2
    OBVIOUS
  <2> QED BY <1>1, <1>3, <2>1
<1>5. es # <<>>
  <2>1. Range(<<>>) = {}
    BY DEF Range
  <2> QED BY <1>4, <2>1
<1>6. \A e \in Range(es) : IsStraight(e)
  <2> SUFFICES ASSUME NEW e \in Range(es) PROVE IsStraight(e)
    OBVIOUS
  <2>1. PICK i \in 1..n - 1 : vs[i] # vs[i + 1] /\ e = Step(vs[i], vs[i + 1])
    BY <1>1
  <2>2. vs[i] \in Places /\ vs[i + 1] \in Places
    BY <1>2
  <2>3. Aligned(vs[i], vs[i + 1])
    BY DEF n
  <2> QED BY <2>1, <2>2, <2>3, StepIs
<1>7. c = [edges |-> es, ports |-> ports]
  BY DEF es
<1>8. c.edges = es /\ c.ports = ports /\ c = [edges |-> c.edges, ports |-> c.ports]
  BY <1>7
<1>9. IsLine(c, vs[1], vs[n])
  BY <1>1, <1>5, <1>6, <1>8 DEF IsLine
<1> QED BY <1>1, <1>8, <1>9 DEF n

\* A wire leaves its pin straight, by a stub (Terminal::exit).
LEMMA ExitIs ==
    ASSUME NEW t \in Terminals
    PROVE  /\ t.pos \in Places /\ Exit(t) \in Places /\ Aligned(t.pos, Exit(t)) /\ t.pos # Exit(t)
           /\ t.dir[2] = 0 => Exit(t)[2] = t.pos[2]
           /\ Exit(t)[1] \in Int /\ Exit(t)[2] \in Int /\ t.pos[1] \in Int /\ t.pos[2] \in Int
           /\ t.dir \in Dirs /\ t.dir[1] \in Int /\ t.dir[2] \in Int
<1>1. t.pos \in Places /\ t.dir \in Dirs
  BY DEF Terminals
<1>2. t.pos[1] \in Int /\ t.pos[2] \in Int
  BY <1>1, PlacesAre
<1>3. Exit(t) = <<t.pos[1] + 24 * t.dir[1], t.pos[2] + 24 * t.dir[2]>>
  BY DEF Exit, STUB
<1>4. \/ t.dir[1] = 1 /\ t.dir[2] = 0
      \/ t.dir[1] = -1 /\ t.dir[2] = 0
      \/ t.dir[1] = 0 /\ t.dir[2] = 1
      \/ t.dir[1] = 0 /\ t.dir[2] = -1
  BY <1>1 DEF Dirs
<1> DEFINE x == t.pos[1]
           y == t.pos[2]
           u == t.dir[1]
           v == t.dir[2]
<1> HIDE DEF x, y, u, v
<1>5. Exit(t) = <<x + 24 * u, y + 24 * v>>
  BY <1>3 DEF x, y, u, v
<1>6. u \in Int /\ v \in Int /\ x \in Int /\ y \in Int /\ ((u = 0 /\ v # 0) \/ (u # 0 /\ v = 0))
  BY <1>2, <1>4 DEF x, y, u, v
<1>7. x + 24 * u \in Int /\ y + 24 * v \in Int
  BY <1>6
<1>8. Exit(t) \in Places /\ Exit(t)[1] = x + 24 * u /\ Exit(t)[2] = y + 24 * v
  BY <1>5, <1>7, PlacesAre
<1>9. (x + 24 * u = x /\ y + 24 * v # y /\ v # 0) \/ (x + 24 * u # x /\ y + 24 * v = y)
  BY <1>6
<1>10. t.pos # Exit(t) /\ Aligned(t.pos, Exit(t))
  BY <1>8, <1>9 DEF Aligned, x, y
<1>11. v = 0 => y + 24 * v = y
  BY <1>6
<1> QED BY <1>1, <1>2, <1>6, <1>7, <1>8, <1>10, <1>11 DEF x, y, u, v

IsBend(p, mids, q) ==
    /\ mids \in Seq(Places)
    /\ mids = <<>> => Aligned(p, q)
    /\ mids # <<>> => Aligned(p, mids[1]) /\ Aligned(mids[Len(mids)], q)
    /\ \A i \in 1..Len(mids) - 1 : Aligned(mids[i], mids[i + 1])

\* A chain between two pins is one line, with the stubs and the bends in it.
LEMMA ThroughIs ==
    ASSUME NEW a \in Terminals, NEW b \in Terminals, NEW mids, IsBend(Exit(a), mids, Exit(b)),
           NEW c, c = ChainThrough(a, b, mids)
    PROVE  /\ IsLine(c, a.pos, b.pos) /\ c.ports = {a.pin, b.pin}
           /\ Step(a.pos, Exit(a)) \in Range(c.edges)
           /\ mids = <<>> /\ Exit(a) # Exit(b) => Step(Exit(a), Exit(b)) \in Range(c.edges)
           /\ Len(mids) = 2 /\ mids[1] # mids[2] => Step(mids[1], mids[2]) \in Range(c.edges)
<1> DEFINE m == Len(mids)
           u == <<a.pos, Exit(a)>>
           w == <<Exit(b), b.pos>>
           vs == u \o mids \o w
<1>1. mids \in Seq(Places) /\ m \in Nat /\ \A i \in 1..m : mids[i] \in Places
  BY ElementOfSeq, LenProperties DEF IsBend
<1>2. u \in Seq(Places) /\ w \in Seq(Places) /\ Len(u) = 2 /\ Len(w) = 2 /\ u[1] = a.pos /\ u[2] = Exit(a) /\ w[1] = Exit(b) /\ w[2] = b.pos
  BY ExitIs
<1> HIDE DEF u, w, m
<1>3. /\ u \o mids \in Seq(Places) /\ Len(u \o mids) = m + 2
      /\ \A i \in 1..m + 2 : (u \o mids)[i] = IF i <= 2 THEN u[i] ELSE mids[i - 2]
  <2>1. /\ u \o mids \in Seq(Places) /\ Len(u \o mids) = Len(u) + Len(mids)
        /\ \A i \in 1..Len(u) + Len(mids) : (u \o mids)[i] = IF i <= Len(u) THEN u[i] ELSE mids[i - Len(u)]
    BY <1>1, <1>2, ConcatProperties
  <2>2. Len(u) = 2 /\ Len(mids) = m /\ Len(u) + Len(mids) = m + 2
    BY <1>1, <1>2 DEF m
  <2> QED BY <2>1, <2>2
<1>4. /\ vs \in Seq(Places) /\ Len(vs) = m + 4
      /\ \A i \in 1..m + 4 : vs[i] = IF i <= m + 2 THEN (u \o mids)[i] ELSE w[i - (m + 2)]
  <2> DEFINE z == u \o mids
  <2>1. z \in Seq(Places) /\ Len(z) = m + 2
    BY <1>3
  <2> HIDE DEF z
  <2>2. /\ z \o w \in Seq(Places) /\ Len(z \o w) = Len(z) + Len(w)
        /\ \A i \in 1..Len(z) + Len(w) : (z \o w)[i] = IF i <= Len(z) THEN z[i] ELSE w[i - Len(z)]
    BY <1>2, <2>1, ConcatProperties
  <2>3. Len(z) = m + 2 /\ Len(z) + Len(w) = m + 4
    BY <1>1, <1>2, <2>1
  <2>4. /\ z \o w \in Seq(Places) /\ Len(z \o w) = m + 4
        /\ \A i \in 1..m + 4 : (z \o w)[i] = IF i <= m + 2 THEN z[i] ELSE w[i - (m + 2)]
    BY <2>2, <2>3
  <2> QED BY <2>4 DEF z
<1> HIDE DEF vs
<1>5. vs[1] = a.pos /\ vs[2] = Exit(a) /\ vs[m + 3] = Exit(b) /\ vs[m + 4] = b.pos
  <2>1. vs[1] = a.pos /\ vs[2] = Exit(a)
    <3>1. 1 \in 1..m + 4 /\ 2 \in 1..m + 4 /\ 1 \in 1..m + 2 /\ 2 \in 1..m + 2 /\ 1 <= m + 2 /\ 2 <= m + 2
      BY <1>1
    <3>2. vs[1] = (u \o mids)[1] /\ vs[2] = (u \o mids)[2]
      BY <1>4, <3>1
    <3>3. (u \o mids)[1] = u[1] /\ (u \o mids)[2] = u[2]
      BY <1>3, <3>1
    <3> QED BY <1>2, <3>2, <3>3
  <2>2. m + 3 \in 1..m + 4 /\ m + 4 \in 1..m + 4 /\ ~(m + 3 <= m + 2) /\ ~(m + 4 <= m + 2) /\ (m + 3) - (m + 2) = 1 /\ (m + 4) - (m + 2) = 2
    BY <1>1
  <2>3. vs[m + 3] = w[1] /\ vs[m + 4] = w[2]
    BY <1>4, <2>2
  <2> QED BY <1>2, <2>1, <2>3
<1>6. \A i \in 1..m : vs[i + 2] = mids[i]
  <2> SUFFICES ASSUME NEW i \in 1..m PROVE vs[i + 2] = mids[i]
    OBVIOUS
  <2>1. i + 2 \in 1..m + 4 /\ i + 2 \in 1..m + 2 /\ i + 2 <= m + 2 /\ ~(i + 2 <= 2) /\ (i + 2) - 2 = i
    BY <1>1
  <2> QED BY <1>3, <1>4, <2>1
<1>7. ASSUME NEW i \in 1..Len(vs) - 1 PROVE Aligned(vs[i], vs[i + 1])
  <2>1. i \in 1..m + 3
    BY <1>1, <1>4
  <2>2. CASE i = 1
    BY <1>5, <2>2, ExitIs
  <2>3. CASE i = 2 /\ m = 0
    <3>1. mids = <<>>
      BY <1>1, <2>3, EmptySeq DEF m
    <3>2. i + 1 = m + 3
      BY <2>3
    <3> QED BY <1>5, <2>3, <3>1, <3>2 DEF IsBend
  <2>4. CASE i = 2 /\ m # 0
    <3>1. mids # <<>> /\ 1 \in 1..m /\ i + 1 = 1 + 2
      BY <1>1, <2>4, EmptySeq DEF m
    <3>2. vs[i + 1] = mids[1]
      BY <1>6, <3>1
    <3> QED BY <1>5, <2>4, <3>1, <3>2 DEF IsBend
  <2>5. CASE i > 2 /\ i < m + 2
    <3>1. PICK j \in 1..m - 1 : i = j + 2
      <4>1. i - 2 \in 1..m - 1 /\ i = (i - 2) + 2
        BY <1>1, <2>1, <2>5
      <4> QED BY <4>1
    <3>2. j \in 1..m /\ j + 1 \in 1..m /\ i + 1 = (j + 1) + 2
      BY <1>1, <3>1
    <3>3. vs[i] = mids[j] /\ vs[i + 1] = mids[j + 1]
      BY <1>6, <3>1, <3>2
    <3> QED BY <3>1, <3>3 DEF IsBend, m
  <2>6. CASE i > 2 /\ i = m + 2
    <3>1. m \in 1..m /\ i + 1 = m + 3 /\ mids # <<>>
      BY <1>1, <2>1, <2>6, EmptySeq DEF m
    <3>2. vs[i] = mids[m] /\ vs[i + 1] = Exit(b)
      BY <1>5, <1>6, <2>6, <3>1
    <3> QED BY <3>1, <3>2 DEF IsBend, m
  <2>7. CASE i = m + 3
    <3>1. i + 1 = m + 4
      BY <1>1, <2>7
    <3>2. Aligned(b.pos, Exit(b))
      BY ExitIs
    <3>3. vs[i] = Exit(b) /\ vs[i + 1] = b.pos
      BY <1>5, <2>7, <3>1
    <3> QED BY <3>2, <3>3 DEF Aligned
  <2>8. \/ i = 1 \/ (i = 2 /\ m = 0) \/ (i = 2 /\ m # 0) \/ (i > 2 /\ i < m + 2)
        \/ (i > 2 /\ i = m + 2) \/ i = m + 3
    BY <1>1, <2>1
  <2> QED BY <2>2, <2>3, <2>4, <2>5, <2>6, <2>7, <2>8
<1>8. c = [edges |-> EdgesOf(vs), ports |-> {a.pin, b.pin}]
  BY DEF ChainThrough, vs, u, w
<1>9. Len(vs) >= 2 /\ vs[1] # vs[2]
  BY <1>1, <1>4, <1>5, ExitIs
<1>10. /\ IsLine(c, vs[1], vs[Len(vs)]) /\ c.ports = {a.pin, b.pin}
       /\ \A i \in 1..Len(vs) - 1 : vs[i] # vs[i + 1] => Step(vs[i], vs[i + 1]) \in Range(c.edges)
  BY <1>4, <1>7, <1>8, <1>9, LineThrough
<1>11. \A i \in 1..m + 3 : i \in 1..Len(vs) - 1
  BY <1>1, <1>4
<1>12. Step(a.pos, Exit(a)) \in Range(c.edges)
  <2>1. 1 \in 1..m + 3 /\ 1 + 1 = 2
    BY <1>1
  <2> QED BY <1>5, <1>9, <1>10, <1>11, <2>1
<1>13. mids = <<>> /\ Exit(a) # Exit(b) => Step(Exit(a), Exit(b)) \in Range(c.edges)
  <2> SUFFICES ASSUME mids = <<>>, Exit(a) # Exit(b) PROVE Step(Exit(a), Exit(b)) \in Range(c.edges)
    OBVIOUS
  <2>1. m = 0
    BY DEF m
  <2>2. 2 \in 1..m + 3 /\ 2 + 1 = m + 3
    BY <2>1
  <2> QED BY <1>5, <1>10, <1>11, <2>2
<1>14. Len(mids) = 2 /\ mids[1] # mids[2] => Step(mids[1], mids[2]) \in Range(c.edges)
  <2> SUFFICES ASSUME m = 2, mids[1] # mids[2] PROVE Step(mids[1], mids[2]) \in Range(c.edges)
    BY DEF m
  <2>1. 3 \in 1..m + 3 /\ 1 \in 1..m /\ 2 \in 1..m /\ 1 + 2 = 3 /\ 2 + 2 = 4 /\ 3 + 1 = 4
    OBVIOUS
  <2>2. vs[3] = mids[1] /\ vs[4] = mids[2]
    BY <1>6, <2>1
  <2> QED BY <1>10, <1>11, <2>1, <2>2
<1> QED BY <1>4, <1>5, <1>10, <1>12, <1>13, <1>14

\* A tap is one line from its pin to its foot.
LEMMA TapIs ==
    ASSUME NEW t \in Terminals, NEW at \in Places, Aligned(Exit(t), at)
    PROVE  IsLine(Tap(t, at), t.pos, at) /\ Tap(t, at).ports = {t.pin}
<1> DEFINE vs == <<t.pos, Exit(t), at>>
           c == Tap(t, at)
<1>1. vs \in Seq(Places) /\ Len(vs) = 3 /\ vs[1] = t.pos /\ vs[2] = Exit(t) /\ vs[3] = at
  BY ExitIs
<1>2. c = [edges |-> EdgesOf(vs), ports |-> {t.pin}]
  BY DEF Tap
<1> HIDE DEF vs, c
<1>3. ASSUME NEW i \in 1..Len(vs) - 1 PROVE Aligned(vs[i], vs[i + 1])
  <2>1. i = 1 \/ i = 2
    BY <1>1
  <2>2. Aligned(vs[1], vs[2]) /\ Aligned(vs[2], vs[3])
    BY <1>1, ExitIs
  <2>3. CASE i = 1
    <3>1. i + 1 = 2
      BY <2>3
    <3> QED BY <2>2, <2>3, <3>1
  <2>4. CASE i = 2
    <3>1. i + 1 = 3
      BY <2>4
    <3> QED BY <2>2, <2>4, <3>1
  <2> QED BY <2>1, <2>3, <2>4
<1>4. vs[1] # vs[2] /\ Len(vs) >= 2
  BY <1>1, ExitIs
<1>5. IsLine(c, vs[1], vs[Len(vs)]) /\ c.ports = {t.pin}
  BY <1>1, <1>2, <1>3, <1>4, LineThrough
<1> QED BY <1>1, <1>5 DEF c

\* Rounding to the grid gives whole numbers.
LEMMA RoundIs == \A s \in Int : RoundHalf(s) \in Int /\ RoundGrid(s) \in Int
<1>1. \A s \in Int : RoundHalf(s) \in Int
  <2> SUFFICES ASSUME NEW s \in Int PROVE RoundHalf(s) \in Int
    OBVIOUS
  <2>1. (s + 6) \div 12 \in Int /\ (6 - s) \div 12 \in Int
    OBVIOUS
  <2>2. 6 * ((s + 6) \div 12) \in Int /\ -(6 * ((6 - s) \div 12)) \in Int
    BY <2>1
  <2> QED BY <2>2 DEF RoundHalf
<1>2. \A s \in Int : 2 * s \in Int
  OBVIOUS
<1> QED BY <1>1, <1>2 DEF RoundGrid

\* The bends of route_pair (route.rs:293-327) are in line with the exits and each other.
LEMMA BendsAre ==
    ASSUME NEW a \in Terminals, NEW b \in Terminals
    PROVE  IsBend(Exit(a), Bends(a, b), Exit(b))
<1> DEFINE ea == Exit(a)
           eb == Exit(b)
           vertical == a.dir[2] # 0 \/ b.dir[2] # 0
           facing   == a.dir[1] * (eb[1] - ea[1]) >= 0
           past  == IF a.dir[1] > 0 THEN RoundGrid(Max({ea[1], eb[1]}) + STUB)
                                    ELSE RoundGrid(Min({ea[1], eb[1]}) - STUB)
           mid   == RoundHalf(ea[1] + eb[1])
           above == RoundGrid(Min({ea[2], eb[2]}) - 4 * STUB)
           s == Bends(a, b)
<1>1. ea \in Places /\ eb \in Places /\ \A k \in {1, 2} : ea[k] \in Int /\ eb[k] \in Int
  BY ExitIs
<1>2. past \in Int /\ mid \in Int /\ above \in Int
  <2> HIDE DEF ea, eb
  <2>1. \A k \in {1, 2} : Max({ea[k], eb[k]}) \in Int /\ Min({ea[k], eb[k]}) \in Int
    <3> SUFFICES ASSUME NEW k \in {1, 2} PROVE Max({ea[k], eb[k]}) \in Int /\ Min({ea[k], eb[k]}) \in Int
      OBVIOUS
    <3>1. ea[k] \in Int /\ eb[k] \in Int
      BY <1>1
    <3>2. {ea[k], eb[k]} \subseteq Int
      BY <3>1
    <3> QED BY <3>1, <3>2, PairEnds
  <2>2. Max({ea[1], eb[1]}) + 24 \in Int /\ Min({ea[1], eb[1]}) - 24 \in Int /\ ea[1] + eb[1] \in Int /\ Min({ea[2], eb[2]}) - 96 \in Int
    BY <1>1, <2>1
  <2>3. 4 * STUB = 96 /\ STUB = 24
    BY DEF STUB
  <2> QED BY <2>2, <2>3, RoundIs
<1>3. s = CASE vertical -> << <<ea[1], eb[2]>> >>
            [] ~vertical /\ a.dir = b.dir -> << <<past, ea[2]>>, <<past, eb[2]>> >>
            [] ~vertical /\ a.dir # b.dir /\ facing /\ ea[2] = eb[2] -> <<>>
            [] ~vertical /\ a.dir # b.dir /\ facing /\ ea[2] # eb[2] ->
                << <<mid, ea[2]>>, <<mid, eb[2]>> >>
            [] OTHER -> << <<ea[1], above>>, <<eb[1], above>> >>
  BY DEF Bends
<1> HIDE DEF s, ea, eb, vertical, facing, past, mid, above
<1>4. \/ s = << <<ea[1], eb[2]>> >>
      \/ s = << <<past, ea[2]>>, <<past, eb[2]>> >>
      \/ s = <<>> /\ ea[2] = eb[2]
      \/ s = << <<mid, ea[2]>>, <<mid, eb[2]>> >>
      \/ s = << <<ea[1], above>>, <<eb[1], above>> >>
  <2>1. CASE vertical
    BY <1>3, <2>1
  <2>2. CASE ~vertical /\ a.dir = b.dir
    BY <1>3, <2>2
  <2>3. CASE ~vertical /\ a.dir # b.dir /\ facing /\ ea[2] = eb[2]
    BY <1>3, <2>3
  <2>4. CASE ~vertical /\ a.dir # b.dir /\ facing /\ ea[2] # eb[2]
    BY <1>3, <2>4
  <2>5. CASE ~vertical /\ a.dir # b.dir /\ ~facing
    BY <1>3, <2>5
  <2> QED BY <2>1, <2>2, <2>3, <2>4, <2>5
<1>5. ASSUME NEW p \in Places, s = <<p>>, Aligned(ea, p), Aligned(p, eb) PROVE IsBend(ea, s, eb)
  <2>1. s \in Seq(Places) /\ Len(s) = 1 /\ s[1] = p /\ s # <<>>
    BY <1>5
  <2>2. 1..Len(s) - 1 = {}
    BY <2>1
  <2> QED BY <1>5, <2>1, <2>2 DEF IsBend
<1>6. ASSUME NEW p \in Places, NEW q \in Places, s = <<p, q>>, Aligned(ea, p), Aligned(p, q), Aligned(q, eb)
      PROVE  IsBend(ea, s, eb)
  <2>1. s \in Seq(Places) /\ Len(s) = 2 /\ s[1] = p /\ s[2] = q /\ s # <<>>
    BY <1>6
  <2>2. 1..Len(s) - 1 = {1} /\ 1 + 1 = 2
    BY <2>1
  <2> QED BY <1>6, <2>1, <2>2 DEF IsBend
<1>7. CASE s = << <<ea[1], eb[2]>> >>
  <2> DEFINE p == <<ea[1], eb[2]>>
  <2>1. p \in Places /\ p[1] = ea[1] /\ p[2] = eb[2]
    BY <1>1, PlacesAre
  <2> HIDE DEF p
  <2>2. Aligned(ea, p) /\ Aligned(p, eb)
    BY <2>1 DEF Aligned
  <2> QED BY <1>5, <1>7, <2>1, <2>2 DEF p, s, ea, eb
<1>8. ASSUME NEW x \in Int, s = << <<x, ea[2]>>, <<x, eb[2]>> >> PROVE IsBend(ea, s, eb)
  <2> DEFINE p == <<x, ea[2]>>
             q == <<x, eb[2]>>
  <2>1. p \in Places /\ q \in Places /\ p[1] = q[1] /\ p[2] = ea[2] /\ q[2] = eb[2]
    BY <1>1, PlacesAre
  <2> HIDE DEF p, q
  <2>2. Aligned(ea, p) /\ Aligned(p, q) /\ Aligned(q, eb)
    BY <2>1 DEF Aligned
  <2> QED BY <1>6, <1>8, <2>1, <2>2 DEF p, q
<1>9. CASE s = << <<ea[1], above>>, <<eb[1], above>> >>
  <2> DEFINE p == <<ea[1], above>>
             q == <<eb[1], above>>
  <2>1. p \in Places /\ q \in Places /\ p[2] = q[2] /\ p[1] = ea[1] /\ q[1] = eb[1]
    BY <1>1, <1>2, PlacesAre
  <2> HIDE DEF p, q
  <2>2. Aligned(ea, p) /\ Aligned(p, q) /\ Aligned(q, eb)
    BY <2>1 DEF Aligned
  <2> QED BY <1>6, <1>9, <2>1, <2>2 DEF p, q, s, ea, eb
<1>10. CASE s = <<>> /\ ea[2] = eb[2]
  <2>1. Len(s) = 0 /\ s \in Seq(Places)
    BY <1>10
  <2>2. 1..Len(s) - 1 = {}
    BY <2>1
  <2>3. IsBend(ea, s, eb)
    BY <1>10, <2>1, <2>2 DEF IsBend, Aligned
  <2> QED BY <2>3 DEF s, ea, eb
<1>11. IsBend(ea, s, eb)
  BY <1>2, <1>4, <1>7, <1>8, <1>9, <1>10 DEF s, ea, eb
<1> QED BY <1>11 DEF s, ea, eb

\* route_pair makes one line between its two pins.
LEMMA RoutePairIs ==
    ASSUME NEW a \in Terminals, NEW b \in Terminals
    PROVE  IsLine(RoutePair(a, b), a.pos, b.pos) /\ RoutePair(a, b).ports = {a.pin, b.pin}
<1>1. RoutePair(a, b) = ChainThrough(a, b, Bends(a, b))
  BY DEF RoutePair
<1> QED BY <1>1, BendsAre, ThroughIs

-----------------------------------------------------------------------------
(* The pins of a trunk in their order *)

AreTerms(terms) ==
    /\ IsFiniteSet(DOMAIN terms) /\ DOMAIN terms \subseteq Nat /\ \A i \in DOMAIN terms : terms[i] \in Terminals

\* The pins can be counted from left to right: the first exit is leftmost, the last rightmost.
LEMMA LeftNthIs ==
    ASSUME NEW terms, AreTerms(terms), NEW n \in 1..Cardinality(DOMAIN terms)
    PROVE  /\ LeftNth(terms, n) \in DOMAIN terms
           /\ n = 1 => \A j \in DOMAIN terms : Exit(terms[LeftNth(terms, n)])[1] <= Exit(terms[j])[1]
           /\ n = Cardinality(DOMAIN terms) => \A j \in DOMAIN terms : Exit(terms[j])[1] <= Exit(terms[LeftNth(terms, n)])[1]
           /\ n # 1 => LeftNth(terms, n) # LeftNth(terms, 1)
<1> DEFINE D == DOMAIN terms
           N == Cardinality(D)
           R == {p \in D \X D : LeftOf(terms, p[1], p[2])}
           x(i) == Exit(terms[i])[1]
<1>1. IsFiniteSet(D) /\ D \subseteq Nat /\ \A i \in D : x(i) \in Int
  BY ExitIs DEF AreTerms
<1>2. N \in Nat
  BY <1>1, FS_CardinalityType
<1> HIDE DEF D, x, N
<1>3. \A i, j \in D : <<i, j>> \in R <=> x(i) < x(j) \/ (x(i) = x(j) /\ i < j)
  BY DEF LeftOf, x
<1> HIDE DEF R
<1>4. IsOrder(D, R)
  <2>1. \A i \in D : <<i, i>> \notin R
    <3> SUFFICES ASSUME NEW i \in D PROVE ~(x(i) < x(i)) /\ ~(i < i)
      BY <1>3
    <3>1. x(i) \in Int /\ i \in Int
      BY <1>1
    <3> QED BY <3>1
  <2>2. ASSUME NEW i \in D, NEW j \in D, NEW k \in D, <<i, j>> \in R, <<j, k>> \in R PROVE <<i, k>> \in R
    <3>1. x(i) \in Int /\ x(j) \in Int /\ x(k) \in Int /\ i \in Int /\ j \in Int /\ k \in Int
      BY <1>1
    <3> QED BY <1>3, <2>2, <3>1
  <2>3. ASSUME NEW i \in D, NEW j \in D PROVE i = j \/ <<i, j>> \in R \/ <<j, i>> \in R
    <3>1. x(i) \in Int /\ x(j) \in Int /\ i \in Int /\ j \in Int
      BY <1>1
    <3> QED BY <1>3, <3>1
  <2> QED BY <2>1, <2>2, <2>3 DEF IsOrder
<1>5. \A i \in D : {j \in D : LeftOf(terms, j, i)} = Precede(D, R, i)
  BY DEF Precede, R
<1>6. ASSUME NEW m \in 1..N
      PROVE  LeftNth(terms, m) \in D /\ Cardinality(Precede(D, R, LeftNth(terms, m))) = m - 1
  <2>1. m - 1 \in 0..N - 1
    BY <1>2
  <2>2. \E i \in D : Cardinality(Precede(D, R, i)) = m - 1
    BY <1>1, <1>4, <2>1, NthExists DEF N
  <2>3. \E i \in D : Cardinality({j \in D : LeftOf(terms, j, i)}) = m - 1
    BY <1>5, <2>2
  <2>4. LeftNth(terms, m) \in D /\ Cardinality({j \in D : LeftOf(terms, j, LeftNth(terms, m))}) = m - 1
    BY <2>3 DEF LeftNth, D
  <2> QED BY <1>5, <2>4
<1> DEFINE f == LeftNth(terms, n)
<1>7. n \in 1..N /\ n \in Nat
  BY DEF N, D
<1>8. f \in D /\ Cardinality(Precede(D, R, f)) = n - 1
  BY <1>6, <1>7
<1> HIDE DEF f
<1>9. ASSUME n = 1, NEW j \in D PROVE x(f) <= x(j)
  <2>1. Cardinality(Precede(D, R, f)) = 0
    BY <1>8, <1>9
  <2>2. j = f \/ <<f, j>> \in R
    BY <1>1, <1>4, <1>8, <2>1, Outermost
  <2>3. x(f) \in Int /\ x(j) \in Int
    BY <1>1, <1>8
  <2> QED BY <1>3, <1>8, <2>2, <2>3
<1>10. ASSUME n = N, NEW j \in D PROVE x(j) <= x(f)
  <2>1. Cardinality(Precede(D, R, f)) = Cardinality(D) - 1
    BY <1>8, <1>10 DEF N
  <2>2. j = f \/ <<j, f>> \in R
    BY <1>1, <1>4, <1>8, <2>1, Outermost
  <2>3. x(f) \in Int /\ x(j) \in Int
    BY <1>1, <1>8
  <2> QED BY <1>3, <1>8, <2>2, <2>3
<1>11. ASSUME n # 1 PROVE f # LeftNth(terms, 1)
  <2>1. 1 \in 1..N
    BY <1>2, <1>7
  <2>2. Cardinality(Precede(D, R, LeftNth(terms, 1))) = 1 - 1
    BY <1>6, <2>1
  <2>3. n - 1 # 1 - 1
    BY <1>7, <1>11
  <2> QED BY <1>8, <2>2, <2>3
<1> QED BY <1>8, <1>9, <1>10, <1>11 DEF f, D, N, x

\* They can be counted from the top: the first is the topmost, the last the lowest.
LEMMA AboveNthIs ==
    ASSUME NEW terms, AreTerms(terms), NEW n \in 1..Cardinality(DOMAIN terms)
    PROVE  /\ AboveNth(terms, n) \in DOMAIN terms
           /\ n = 1 => \A j \in DOMAIN terms : terms[AboveNth(terms, n)].pos[2] <= terms[j].pos[2]
           /\ n = Cardinality(DOMAIN terms) => \A j \in DOMAIN terms : terms[j].pos[2] <= terms[AboveNth(terms, n)].pos[2]
           /\ n # 1 => AboveNth(terms, n) # AboveNth(terms, 1)
<1> DEFINE D == DOMAIN terms
           N == Cardinality(D)
           R == {p \in D \X D : Above(terms, p[1], p[2])}
           x(i) == terms[i].pos[1]
           y(i) == terms[i].pos[2]
<1>1. IsFiniteSet(D) /\ D \subseteq Nat /\ \A i \in D : x(i) \in Int /\ y(i) \in Int
  BY ExitIs DEF AreTerms
<1>2. N \in Nat
  BY <1>1, FS_CardinalityType
<1> HIDE DEF D, x, y, N
<1>3. \A i, j \in D : <<i, j>> \in R <=> y(i) < y(j) \/ (y(i) = y(j) /\ (x(i) < x(j) \/ (x(i) = x(j) /\ i < j)))
  BY DEF Above, x, y
<1> HIDE DEF R
<1>4. IsOrder(D, R)
  <2>1. \A i \in D : <<i, i>> \notin R
    <3> SUFFICES ASSUME NEW i \in D PROVE ~(x(i) < x(i)) /\ ~(y(i) < y(i)) /\ ~(i < i)
      BY <1>3
    <3>1. x(i) \in Int /\ y(i) \in Int /\ i \in Int
      BY <1>1
    <3> QED BY <3>1
  <2>2. ASSUME NEW i \in D, NEW j \in D, NEW k \in D, <<i, j>> \in R, <<j, k>> \in R PROVE <<i, k>> \in R
    <3>1. /\ x(i) \in Int /\ x(j) \in Int /\ x(k) \in Int /\ i \in Int /\ j \in Int /\ k \in Int
          /\ y(i) \in Int /\ y(j) \in Int /\ y(k) \in Int
      BY <1>1
    <3> QED BY <1>3, <2>2, <3>1
  <2>3. ASSUME NEW i \in D, NEW j \in D PROVE i = j \/ <<i, j>> \in R \/ <<j, i>> \in R
    <3>1. x(i) \in Int /\ x(j) \in Int /\ y(i) \in Int /\ y(j) \in Int /\ i \in Int /\ j \in Int
      BY <1>1
    <3> QED BY <1>3, <3>1
  <2> QED BY <2>1, <2>2, <2>3 DEF IsOrder
<1>5. \A i \in D : {j \in D : Above(terms, j, i)} = Precede(D, R, i)
  BY DEF Precede, R
<1>6. ASSUME NEW m \in 1..N
      PROVE  AboveNth(terms, m) \in D /\ Cardinality(Precede(D, R, AboveNth(terms, m))) = m - 1
  <2>1. m - 1 \in 0..N - 1
    BY <1>2
  <2>2. \E i \in D : Cardinality(Precede(D, R, i)) = m - 1
    BY <1>1, <1>4, <2>1, NthExists DEF N
  <2>3. \E i \in D : Cardinality({j \in D : Above(terms, j, i)}) = m - 1
    BY <1>5, <2>2
  <2>4. AboveNth(terms, m) \in D /\ Cardinality({j \in D : Above(terms, j, AboveNth(terms, m))}) = m - 1
    BY <2>3 DEF AboveNth, D
  <2> QED BY <1>5, <2>4
<1> DEFINE f == AboveNth(terms, n)
<1>7. n \in 1..N /\ n \in Nat
  BY DEF N, D
<1>8. f \in D /\ Cardinality(Precede(D, R, f)) = n - 1
  BY <1>6, <1>7
<1> HIDE DEF f
<1>9. ASSUME n = 1, NEW j \in D PROVE y(f) <= y(j)
  <2>1. Cardinality(Precede(D, R, f)) = 0
    BY <1>8, <1>9
  <2>2. j = f \/ <<f, j>> \in R
    BY <1>1, <1>4, <1>8, <2>1, Outermost
  <2>3. y(f) \in Int /\ y(j) \in Int
    BY <1>1, <1>8
  <2> QED BY <1>3, <1>8, <2>2, <2>3
<1>10. ASSUME n = N, NEW j \in D PROVE y(j) <= y(f)
  <2>1. Cardinality(Precede(D, R, f)) = Cardinality(D) - 1
    BY <1>8, <1>10 DEF N
  <2>2. j = f \/ <<j, f>> \in R
    BY <1>1, <1>4, <1>8, <2>1, Outermost
  <2>3. y(f) \in Int /\ y(j) \in Int
    BY <1>1, <1>8
  <2> QED BY <1>3, <1>8, <2>2, <2>3
<1>11. ASSUME n # 1 PROVE f # AboveNth(terms, 1)
  <2>1. 1 \in 1..N
    BY <1>2, <1>7
  <2>2. Cardinality(Precede(D, R, AboveNth(terms, 1))) = 1 - 1
    BY <1>6, <2>1
  <2>3. n - 1 # 1 - 1
    BY <1>7, <1>11
  <2> QED BY <1>8, <2>2, <2>3
<1> QED BY <1>8, <1>9, <1>10, <1>11 DEF f, D, N, y

-----------------------------------------------------------------------------
(* Routes *)

\* A trunk from one of the pins to another, the others tapped in to it.
Tapped(tap, terms, main) ==
    \E i \in DOMAIN terms, foot \in Places :
        /\ IsLine(tap, terms[i].pos, foot) /\ tap.ports = {terms[i].pin}
        /\ (\A j \in DOMAIN terms : terms[j].dir[2] = 0) => \E e \in Range(main.edges) : InBox(foot, e)

\* A line between two of the pins, with all others tapped in.
Joins(r, terms, f, l, m) ==
    /\ f # l /\ r.main = {m}
    /\ IsLine(m, terms[f].pos, terms[l].pos) /\ m.ports = {terms[f].pin, terms[l].pin}
    /\ \A tap \in r.taps : Tapped(tap, terms, m)
    /\ \A i \in DOMAIN terms : i = f \/ i = l \/ \E tap \in r.taps : tap.ports = {terms[i].pin}

IsRoute(r, terms) ==
    /\ r = [main |-> r.main, taps |-> r.taps, junctions |-> r.junctions, partial |-> FALSE]
    /\ \E f, l \in DOMAIN terms, m \in r.main : Joins(r, terms, f, l, m)

\* A place in line with two others and between them is on the edge that joins these.
LEMMA BetweenEnds ==
    ASSUME NEW p \in Places, NEW q \in Places, NEW at \in Places,
           NEW i \in {1, 2}, NEW j \in {1, 2}, i # j, p[j] = at[j], q[j] = at[j],
           (p[i] <= at[i] /\ at[i] <= q[i]) \/ (q[i] <= at[i] /\ at[i] <= p[i])
    PROVE  p # q => InBox(at, Step(p, q))
<1> SUFFICES ASSUME p # q PROVE InBox(at, Step(p, q))
  OBVIOUS
<1> DEFINE e == Step(p, q)
<1>1. e \in Segments /\ e.from = p /\ e.to = q
  BY DEF Step, Segments
<1> HIDE DEF e
<1>2. \A k \in {1, 2} : /\ Low(e, k) = (IF p[k] <= q[k] THEN p[k] ELSE q[k])
                        /\ High(e, k) = (IF p[k] <= q[k] THEN q[k] ELSE p[k])
                        /\ p[k] \in Int /\ q[k] \in Int /\ at[k] \in Int
  BY <1>1, SegmentsAre, PlacesAre
<1>3. Low(e, j) <= at[j] /\ at[j] <= High(e, j)
  BY <1>2
<1>4. Low(e, i) <= at[i] /\ at[i] <= High(e, i)
  BY <1>2
<1>5. \A k \in {1, 2} : k = i \/ k = j
  OBVIOUS
<1> QED BY <1>3, <1>4, <1>5 DEF InBox, e

\* route_trunk (route.rs:344-370) on one level: every other pin's foot is on the trunk.
LEMMA LevelTrunkIs ==
    ASSUME NEW terms, AreTerms(terms), Cardinality(DOMAIN terms) >= 2,
           \A i, j \in DOMAIN terms : Exit(terms[i])[2] = Exit(terms[j])[2]
    PROVE  IsRoute(LevelTrunk(terms), terms)
<1> DEFINE D == DOMAIN terms
           N == Cardinality(D)
           f == LeftNth(terms, 1)
           l == LeftNth(terms, N)
           x(i) == Exit(terms[i])
           feet == [i \in D |-> x(i)]
           inner == D \ {f, l}
           m == ChainThrough(terms[f], terms[l], <<>>)
           r == LevelTrunk(terms)
<1>1. N \in Nat /\ 1 \in 1..N /\ N \in 1..N /\ N # 1
  BY FS_CardinalityType DEF AreTerms
<1>2. r = [main |-> {m}, taps |-> {Tap(terms[i], feet[i]) : i \in inner},
           junctions |-> {feet[i] : i \in inner}, partial |-> FALSE]
  BY DEF LevelTrunk, TrunkBetween
<1>3. f \in D /\ l \in D /\ f # l
  BY <1>1, LeftNthIs
<1>4. \A j \in D : x(f)[1] <= x(j)[1] /\ x(j)[1] <= x(l)[1]
  BY <1>1, LeftNthIs
<1>5. \A i \in D : terms[i] \in Terminals /\ x(i) \in Places
  BY ExitIs DEF AreTerms
<1> HIDE DEF f, l, r, N, m
<1>6. \A i, j \in D : x(i)[2] = x(j)[2]
  OBVIOUS
<1>7. IsBend(x(f), <<>>, x(l))
  <2>1. <<>> \in Seq(Places) /\ 1..Len(<<>>) - 1 = {}
    OBVIOUS
  <2>2. Aligned(x(f), x(l))
    BY <1>3, <1>6 DEF Aligned
  <2> QED BY <2>1, <2>2 DEF IsBend
<1>8. /\ IsLine(m, terms[f].pos, terms[l].pos) /\ m.ports = {terms[f].pin, terms[l].pin}
      /\ Step(terms[f].pos, x(f)) \in Range(m.edges)
      /\ x(f) # x(l) => Step(x(f), x(l)) \in Range(m.edges)
  BY <1>3, <1>5, <1>7, ThroughIs DEF m
<1>9. ASSUME NEW i \in D PROVE \E e \in Range(m.edges) : InBox(x(i), e)
  <2>1. CASE x(f) # x(l)
    <3>1. InBox(x(i), Step(x(f), x(l)))
      BY <1>3, <1>4, <1>5, <1>6, <2>1, BetweenEnds
    <3> QED BY <1>8, <2>1, <3>1
  <2>2. CASE x(f) = x(l)
    <3>1. x(i) = x(f)
      <4>1. x(i)[1] \in Int /\ x(f)[1] \in Int /\ x(f)[1] <= x(i)[1] /\ x(i)[1] <= x(f)[1]
        BY <1>3, <1>4, <1>5, <2>2, PlacesAre
      <4>2. x(i)[1] = x(f)[1] /\ x(i)[2] = x(f)[2]
        BY <1>3, <1>6, <4>1
      <4> QED BY <1>3, <1>5, <4>2, PlacesAre
    <3> DEFINE p == terms[f].pos
               q == x(f)
    <3>2. p \in Places /\ q \in Places /\ p # q /\ Aligned(p, q)
      BY <1>3, <1>5, ExitIs
    <3> HIDE DEF p, q, x
    <3>3. \A k \in {1, 2} : p[k] \in Int /\ q[k] \in Int
      BY <3>2, PlacesAre
    <3>4. InBox(q, Step(p, q))
      <4>1. \A k \in {1, 2} : (p[k] <= q[k] /\ q[k] <= q[k]) \/ (q[k] <= q[k] /\ q[k] <= p[k])
        BY <3>3
      <4>2. CASE p[1] = q[1]
        BY <3>2, <4>1, <4>2, BetweenEnds
      <4>3. CASE p[2] = q[2]
        BY <3>2, <4>1, <4>3, BetweenEnds
      <4> QED BY <3>2, <4>2, <4>3 DEF Aligned
    <3> QED BY <1>8, <3>1, <3>4 DEF p, q
  <2> QED BY <2>1, <2>2
<1>10. r.main = {m} /\ r.taps = {Tap(terms[i], feet[i]) : i \in inner}
       /\ r = [main |-> r.main, taps |-> r.taps, junctions |-> r.junctions, partial |-> FALSE]
  BY <1>2
<1>11. ASSUME NEW tap \in r.taps PROVE Tapped(tap, terms, m)
  <2>1. PICK i \in inner : tap = Tap(terms[i], x(i))
    BY <1>10
  <2>2. Aligned(x(i), x(i))
    BY DEF Aligned
  <2>3. IsLine(tap, terms[i].pos, x(i)) /\ tap.ports = {terms[i].pin}
    BY <1>5, <2>1, <2>2, TapIs
  <2> QED BY <1>5, <1>9, <2>3 DEF Tapped
<1>12. ASSUME NEW i \in D, i # f, i # l PROVE \E tap \in r.taps : tap.ports = {terms[i].pin}
  <2>1. i \in inner /\ Tap(terms[i], x(i)) \in r.taps
    BY <1>10, <1>12
  <2>2. Aligned(x(i), x(i))
    BY DEF Aligned
  <2>3. Tap(terms[i], x(i)).ports = {terms[i].pin}
    BY <1>5, <2>2, TapIs
  <2> QED BY <2>1, <2>3
<1>13. \A tap \in r.taps : Tapped(tap, terms, m)
  BY <1>11
<1>14. \A i \in D : i = f \/ i = l \/ \E tap \in r.taps : tap.ports = {terms[i].pin}
  BY <1>12
<1>15. /\ f \in D /\ l \in D /\ m \in r.main /\ f # l /\ r.main = {m}
       /\ IsLine(m, terms[f].pos, terms[l].pos) /\ m.ports = {terms[f].pin, terms[l].pin}
  BY <1>3, <1>8, <1>10
<1>16. r = [main |-> r.main, taps |-> r.taps, junctions |-> r.junctions, partial |-> FALSE]
  BY <1>10
<1> HIDE DEF r, m, f, l
<1>17. IsRoute(r, terms)
  <2>1. f \in DOMAIN terms /\ l \in DOMAIN terms /\ m \in r.main
    BY <1>15 DEF D
  <2>2. \A i \in DOMAIN terms : i = f \/ i = l \/ \E tap \in r.taps : tap.ports = {terms[i].pin}
    BY <1>14 DEF D
  <2>3. Joins(r, terms, f, l, m)
    BY <1>13, <1>15, <2>2 DEF Joins
  <2> HIDE DEF D
  <2> QED BY <1>16, <2>1, <2>3 DEF IsRoute
<1> QED BY <1>17 DEF r

\* route_trunk (route.rs:372-409) along a column: every other pin's foot is on the trunk, unless
\* a pin has an upright exit.
LEMMA VerticalTrunkIs ==
    ASSUME NEW terms, AreTerms(terms), Cardinality(DOMAIN terms) >= 2,
           ~\A i, j \in DOMAIN terms : Exit(terms[i])[2] = Exit(terms[j])[2]
    PROVE  IsRoute(VerticalTrunk(terms), terms)
<1> DEFINE D == DOMAIN terms
           N == Cardinality(D)
           xAt(k) == Exit(terms[LeftNth(terms, k)])[1]
           x == RoundHalf(IF N % 2 = 1 THEN 2 * xAt(N \div 2 + 1) ELSE xAt(N \div 2) + xAt(N \div 2 + 1))
           f == AboveNth(terms, 1)
           l == AboveNth(terms, N)
           y(i) == Exit(terms[i])[2]
           foot(i) == <<x, y(i)>>
           feet == [i \in D |-> foot(i)]
           inner == D \ {f, l}
           m == ChainThrough(terms[f], terms[l], <<foot(f), foot(l)>>)
           r == VerticalTrunk(terms)
<1>1. N \in Nat /\ N >= 2 /\ 1 \in 1..N /\ N \in 1..N /\ N # 1
  BY FS_CardinalityType DEF AreTerms
<1>2. r = [main |-> {m}, taps |-> {Tap(terms[i], feet[i]) : i \in inner},
           junctions |-> {feet[i] : i \in inner}, partial |-> FALSE]
  BY DEF VerticalTrunk, TrunkBetween
<1>3. f \in D /\ l \in D /\ f # l
  BY <1>1, AboveNthIs
<1>4. \A j \in D : terms[f].pos[2] <= terms[j].pos[2] /\ terms[j].pos[2] <= terms[l].pos[2]
  BY <1>1, AboveNthIs
<1>5. \A i \in D : terms[i] \in Terminals
  BY DEF AreTerms
<1>6. x \in Int
  <2>1. \A k \in 1..N : xAt(k) \in Int
    BY <1>5, LeftNthIs, ExitIs
  <2> HIDE DEF N, xAt
  <2>2. N \div 2 \in 1..N /\ N \div 2 + 1 \in 1..N
    BY <1>1
  <2>3. xAt(N \div 2) \in Int /\ xAt(N \div 2 + 1) \in Int
    BY <2>1, <2>2
  <2>4. 2 * xAt(N \div 2 + 1) \in Int /\ xAt(N \div 2) + xAt(N \div 2 + 1) \in Int
    BY <2>3
  <2> QED BY <2>4, RoundIs
<1> HIDE DEF f, l, r, N, m, x, xAt
<1>7. \A i \in D : foot(i) \in Places /\ foot(i)[1] = x /\ foot(i)[2] = y(i) /\ y(i) \in Int /\ Aligned(Exit(terms[i]), foot(i))
  <2> SUFFICES ASSUME NEW i \in D
               PROVE  foot(i) \in Places /\ foot(i)[1] = x /\ foot(i)[2] = y(i) /\ y(i) \in Int /\ Aligned(Exit(terms[i]), foot(i))
    OBVIOUS
  <2>1. y(i) \in Int
    BY <1>5, ExitIs
  <2>2. foot(i) \in Places /\ foot(i)[1] = x /\ foot(i)[2] = y(i)
    BY <1>6, <2>1, PlacesAre
  <2> QED BY <2>1, <2>2 DEF Aligned
<1> HIDE DEF foot
<1>8. IsBend(Exit(terms[f]), <<foot(f), foot(l)>>, Exit(terms[l]))
  <2> DEFINE s == <<foot(f), foot(l)>>
  <2>1. s \in Seq(Places) /\ Len(s) = 2 /\ s[1] = foot(f) /\ s[2] = foot(l) /\ s # <<>>
    BY <1>3, <1>7
  <2> HIDE DEF s
  <2>2. 1..Len(s) - 1 = {1} /\ 1 + 1 = 2
    BY <2>1
  <2>3. Aligned(foot(f), foot(l)) /\ Aligned(Exit(terms[f]), foot(f)) /\ Aligned(foot(l), Exit(terms[l]))
    BY <1>3, <1>7 DEF Aligned
  <2>4. IsBend(Exit(terms[f]), s, Exit(terms[l]))
    BY <2>1, <2>2, <2>3 DEF IsBend
  <2> QED BY <2>4 DEF s
<1>9. /\ IsLine(m, terms[f].pos, terms[l].pos) /\ m.ports = {terms[f].pin, terms[l].pin}
      /\ foot(f) # foot(l) => Step(foot(f), foot(l)) \in Range(m.edges)
  <2> DEFINE s == <<foot(f), foot(l)>>
  <2>1. Len(s) = 2 /\ s[1] = foot(f) /\ s[2] = foot(l) /\ m = ChainThrough(terms[f], terms[l], s)
    BY DEF m
  <2>2. IsBend(Exit(terms[f]), s, Exit(terms[l])) /\ terms[f] \in Terminals /\ terms[l] \in Terminals
    BY <1>3, <1>5, <1>8
  <2> HIDE DEF s
  <2> QED BY <2>1, <2>2, ThroughIs
<1>10. ASSUME \A j \in D : terms[j].dir[2] = 0, NEW i \in D PROVE \E e \in Range(m.edges) : InBox(foot(i), e)
  <2>1. \A j \in D : y(j) = terms[j].pos[2]
    BY <1>5, <1>10, ExitIs
  <2>2. \A j \in D : y(f) <= y(j) /\ y(j) <= y(l)
    BY <1>3, <1>4, <2>1
  <2>3. foot(f) # foot(l)
    <3> SUFFICES ASSUME y(f) = y(l) PROVE FALSE
      BY <1>3, <1>7
    <3>1. \A j \in D : y(j) = y(f)
      <4> SUFFICES ASSUME NEW j \in D PROVE y(j) = y(f)
        OBVIOUS
      <4>1. y(j) \in Int /\ y(f) \in Int /\ y(f) <= y(j) /\ y(j) <= y(f)
        BY <1>3, <1>7, <2>2
      <4> QED BY <4>1
    <3> QED BY <3>1
  <2>4. InBox(foot(i), Step(foot(f), foot(l)))
    BY <1>3, <1>7, <2>2, <2>3, BetweenEnds
  <2> QED BY <1>9, <2>3, <2>4
<1>11. r.main = {m} /\ r.taps = {Tap(terms[i], feet[i]) : i \in inner}
       /\ r = [main |-> r.main, taps |-> r.taps, junctions |-> r.junctions, partial |-> FALSE]
  BY <1>2
<1>12. ASSUME NEW tap \in r.taps PROVE Tapped(tap, terms, m)
  <2>1. PICK i \in inner : tap = Tap(terms[i], foot(i))
    BY <1>11
  <2>2. IsLine(tap, terms[i].pos, foot(i)) /\ tap.ports = {terms[i].pin}
    BY <1>5, <1>7, <2>1, TapIs
  <2> QED BY <1>7, <1>10, <2>2 DEF Tapped
<1>13. ASSUME NEW i \in D, i # f, i # l PROVE \E tap \in r.taps : tap.ports = {terms[i].pin}
  <2>1. i \in inner /\ Tap(terms[i], foot(i)) \in r.taps
    BY <1>11, <1>13
  <2>2. Tap(terms[i], foot(i)).ports = {terms[i].pin}
    BY <1>5, <1>7, TapIs
  <2> QED BY <2>1, <2>2
<1>14. \A tap \in r.taps : Tapped(tap, terms, m)
  BY <1>12
<1>15. \A i \in D : i = f \/ i = l \/ \E tap \in r.taps : tap.ports = {terms[i].pin}
  BY <1>13
<1>16. /\ f \in D /\ l \in D /\ m \in r.main /\ f # l /\ r.main = {m}
       /\ IsLine(m, terms[f].pos, terms[l].pos) /\ m.ports = {terms[f].pin, terms[l].pin}
  BY <1>3, <1>9, <1>11
<1>17. r = [main |-> r.main, taps |-> r.taps, junctions |-> r.junctions, partial |-> FALSE]
  BY <1>11
<1> HIDE DEF r, m, f, l
<1>18. IsRoute(r, terms)
  <2>1. f \in DOMAIN terms /\ l \in DOMAIN terms /\ m \in r.main
    BY <1>16 DEF D
  <2>2. \A i \in DOMAIN terms : i = f \/ i = l \/ \E tap \in r.taps : tap.ports = {terms[i].pin}
    BY <1>15 DEF D
  <2>3. Joins(r, terms, f, l, m)
    BY <1>14, <1>16, <2>2 DEF Joins
  <2> HIDE DEF D
  <2> QED BY <1>17, <2>1, <2>3 DEF IsRoute
<1> QED BY <1>18 DEF r

\* A net that route_nets wires is a trunk with taps, or a line between two pins.
LEMMA RouteNetIs ==
    ASSUME NEW terms, AreTerms(terms), Cardinality(DOMAIN terms) >= 2
    PROVE  IsRoute(RouteNet(terms), terms)
<1> DEFINE D == DOMAIN terms
<1>1. IsFiniteSet(D) /\ D \subseteq Nat /\ \A i \in D : terms[i] \in Terminals
  BY DEF AreTerms
<1>2. CASE Cardinality(D) = 2
  <2> DEFINE f == Min(D)
             l == Max(D)
             m == RoutePair(terms[f], terms[l])
             r == RouteNet(terms)
  <2>1. D # {}
    <3>1. Cardinality({}) = 0
      BY FS_EmptySet
    <3> QED BY <1>2, <3>1
  <2>2. f \in D /\ l \in D /\ \A i \in D : f <= i /\ i <= l
    <3>1. D \in SUBSET Int
      BY <1>1
    <3> HIDE DEF D
    <3> QED BY <1>1, <2>1, <3>1, MinIs, MaxIs
  <2>3. f # l
    <3> SUFFICES ASSUME f = l PROVE FALSE
      OBVIOUS
    <3> HIDE DEF f, l
    <3>1. D = {f}
      <4> SUFFICES ASSUME NEW i \in D PROVE i = f
        BY <2>2
      <4>1. i \in Int /\ f \in Int /\ f <= i /\ i <= f
        BY <1>1, <2>2
      <4> QED BY <4>1
    <3>2. Cardinality({f}) = 1
      BY FS_Singleton
    <3> HIDE DEF D
    <3> QED BY <1>2, <3>1, <3>2
  <2>4. \A i \in D : i = f \/ i = l
    <3> HIDE DEF f, l, D
    <3>1. IsFiniteSet(D \ {f}) /\ Cardinality(D \ {f}) = Cardinality(D) - 1
      BY <1>1, <2>2, FS_RemoveElement
    <3>2. IsFiniteSet((D \ {f}) \ {l}) /\ Cardinality((D \ {f}) \ {l}) = Cardinality(D \ {f}) - 1
      BY <2>2, <2>3, <3>1, FS_RemoveElement
    <3>3. Cardinality((D \ {f}) \ {l}) = 0
      BY <1>2, <3>1, <3>2
    <3>4. (D \ {f}) \ {l} = {}
      BY <3>2, <3>3, FS_EmptySet
    <3> QED BY <3>4
  <2>5. r = [main |-> {m}, taps |-> {}, junctions |-> {}, partial |-> FALSE]
    BY <1>2 DEF RouteNet
  <2>6. IsLine(m, terms[f].pos, terms[l].pos) /\ m.ports = {terms[f].pin, terms[l].pin}
    BY <1>1, <2>2, RoutePairIs
  <2> HIDE DEF f, l, m, r
  <2>7. r.main = {m} /\ r.taps = {} /\ r = [main |-> r.main, taps |-> r.taps, junctions |-> r.junctions, partial |-> FALSE]
    BY <2>5
  <2>8. IsRoute(r, terms)
    BY <2>2, <2>3, <2>4, <2>6, <2>7 DEF IsRoute, Joins
  <2> QED BY <2>8 DEF r
<1>3. CASE Cardinality(D) # 2
  <2>1. RouteNet(terms) = RouteTrunk(terms)
    BY <1>3 DEF RouteNet
  <2> QED BY <2>1, LevelTrunkIs, VerticalTrunkIs DEF RouteTrunk
<1> QED BY <1>2, <1>3

-----------------------------------------------------------------------------
(* The wires of a net *)

\* A net lists each of its pins once.
LEMMA PortsAre ==
    ASSUME TypeOK, NEW n \in Nets
    PROVE  /\ DOMAIN Ports(n) \subseteq DOMAIN PortOrder
           /\ \A i \in DOMAIN Ports(n) : Ports(n)[i] = PortOrder[i] /\ Ports(n)[i] \in Pins /\ Ports(n)[i][1] \in parts
           /\ \A i, j \in DOMAIN Ports(n) : Ports(n)[i] = Ports(n)[j] => i = j
<1>1. DOMAIN Ports(n) \subseteq DOMAIN PortOrder
  BY DEF Ports, RestrictValues, Restrict
<1>2. \A i \in DOMAIN Ports(n) : Ports(n)[i] = PortOrder[i] /\ IsPort(PortOrder[i], n)
  BY DEF Ports, RestrictValues, Restrict
<1>3. \A i \in DOMAIN Ports(n) : Ports(n)[i] \in Pins /\ Ports(n)[i][1] \in parts
  BY <1>1, <1>2, PinsAre DEF IsPort
<1>4. \A i, j \in DOMAIN Ports(n) : Ports(n)[i] = Ports(n)[j] => i = j
  BY <1>1, <1>2, PinsAssumption
<1> QED BY <1>1, <1>2, <1>3, <1>4

\* The terminals of a net (route.rs:227-248) are its pins.
LEMMA TermsAre ==
    ASSUME TypeOK, NEW n \in Nets
    PROVE  /\ AreTerms(Terms(n)) /\ DOMAIN Terms(n) = DOMAIN Ports(n)
           /\ \A i \in DOMAIN Terms(n) : /\ Terms(n)[i].pin = Ports(n)[i]
                                         /\ Terms(n)[i] = Terminal(Terms(n)[i].pin)
           /\ \A i, j \in DOMAIN Terms(n) : Terms(n)[i].pin = Terms(n)[j].pin => i = j
<1>1. DOMAIN Terms(n) = DOMAIN Ports(n) /\ \A i \in DOMAIN Terms(n) : Terms(n)[i] = Terminal(Ports(n)[i])
  BY DEF Terms
<1>2. \A i \in DOMAIN Terms(n) : Terms(n)[i] \in Terminals /\ Terms(n)[i].pin = Ports(n)[i]
  BY <1>1, PortsAre, TerminalsAre
<1>3. IsFiniteSet(DOMAIN Terms(n)) /\ DOMAIN Terms(n) \subseteq Nat
  BY <1>1, PortsAre, PinsAre, FS_Subset
<1>4. AreTerms(Terms(n))
  BY <1>2, <1>3 DEF AreTerms
<1>5. \A i, j \in DOMAIN Terms(n) : Terms(n)[i].pin = Terms(n)[j].pin => i = j
  BY <1>1, <1>2, PortsAre
<1> QED BY <1>1, <1>2, <1>4, <1>5

Posts(pins) == {Terminal(p).pos : p \in pins}

\* A wire goes from a pin of its, and to the other one if it has two.
IsWire(c) == \E a, b : IsLine(c, a, b) /\ a \in Posts(c.ports) /\ (Cardinality(c.ports) = 2 => b \in Posts(c.ports))

IsWiring(r, n) ==
    /\ r = [main |-> r.main, taps |-> r.taps, junctions |-> r.junctions, partial |-> r.partial]
    /\ r.partial \in BOOLEAN /\ IsFiniteSet(Chains(r))
    /\ \A c \in Chains(r) : IsWire(c) /\ ChainClear(c, Bodies)
    /\ r.partial => r.main = {} /\ \A c \in r.taps : \A p \in c.ports : c.ports \ {p} # {}
    /\ ~r.partial => IsRoute(r, Terms(n))

\* The stubs of a net are wires between two of its pins.
LEMMA StubWiresAre ==
    ASSUME TypeOK, NEW n \in Nets
    PROVE  /\ IsFiniteSet(StubWires(n))
           /\ \A c \in StubWires(n) : IsWire(c) /\ \A p \in c.ports : c.ports \ {p} # {}
<1>1. Stubs \subseteq Pins \X Pins
  BY StubsAre DEF IsStub
<1>2. IsFiniteSet(Stubs)
  BY <1>1, PinsAre, FS_Product, FS_Subset
<1> DEFINE S == {t \in Stubs : net[t[1]] = n}
           f == [s \in S |-> RoutePair(Terminal(s[1]), Terminal(s[2]))]
<1>3. StubWires(n) = {f[s] : s \in S}
  BY DEF StubWires
<1>4. IsFiniteSet(S)
  BY <1>2, FS_Subset
<1>5. IsFiniteSet({f[s] : s \in S})
  <2> HIDE DEF S, f
  <2> QED BY <1>4, ImageFinite
<1>6. ASSUME NEW s \in S, NEW c, c = RoutePair(Terminal(s[1]), Terminal(s[2]))
      PROVE  IsWire(c) /\ \A p \in c.ports : c.ports \ {p} # {}
  <2>1. s[1] \in Pins /\ s[2] \in Pins /\ s[1][1] # s[2][1] /\ s[1][1] \in parts /\ s[2][1] \in parts
    BY StubsAre DEF IsStub
  <2> DEFINE a == Terminal(s[1])
             b == Terminal(s[2])
  <2>2. a \in Terminals /\ b \in Terminals /\ a.pin = s[1] /\ b.pin = s[2]
    BY <2>1, TerminalsAre
  <2>3. IsLine(c, a.pos, b.pos) /\ c.ports = {s[1], s[2]}
    BY <1>6, <2>2, RoutePairIs
  <2>4. a.pos \in Posts(c.ports) /\ b.pos \in Posts(c.ports)
    BY <2>3 DEF Posts
  <2>5. IsWire(c)
    BY <2>3, <2>4 DEF IsWire
  <2>6. s[1] # s[2]
    BY <2>1
  <2> QED BY <2>3, <2>5, <2>6
<1> QED BY <1>3, <1>5, <1>6

\* The chains of a route are wires.
LEMMA RouteWires ==
    ASSUME TypeOK, NEW n \in Nets, NEW r, IsRoute(r, Terms(n)), IsFiniteSet(r.taps)
    PROVE  IsFiniteSet(Chains(r)) /\ \A c \in Chains(r) : IsWire(c)
<1>1. PICK f, l \in DOMAIN Terms(n), m \in r.main :
          /\ f # l /\ r.main = {m}
          /\ IsLine(m, Terms(n)[f].pos, Terms(n)[l].pos) /\ m.ports = {Terms(n)[f].pin, Terms(n)[l].pin}
          /\ \A tap \in r.taps : Tapped(tap, Terms(n), m)
  BY DEF IsRoute, Joins
<1>2. IsFiniteSet({m} \union r.taps)
  BY FS_Singleton, FS_Union
<1>3. Chains(r) = {m} \union r.taps
  BY <1>1 DEF Chains
<1>4. \A i \in DOMAIN Terms(n) : Terms(n)[i].pos = Terminal(Terms(n)[i].pin).pos
  BY TermsAre
<1>5. IsWire(m)
  <2>1. Terms(n)[f].pos \in Posts(m.ports) /\ Terms(n)[l].pos \in Posts(m.ports)
    BY <1>1, <1>4 DEF Posts
  <2> QED BY <1>1, <2>1 DEF IsWire
<1>6. ASSUME NEW tap \in r.taps PROVE IsWire(tap)
  <2>1. PICK i \in DOMAIN Terms(n), foot \in Places : IsLine(tap, Terms(n)[i].pos, foot) /\ tap.ports = {Terms(n)[i].pin}
    BY <1>1 DEF Tapped
  <2>2. Terms(n)[i].pos \in Posts(tap.ports)
    BY <1>4, <2>1 DEF Posts
  <2>3. Cardinality(tap.ports) # 2
    <3>1. Cardinality({Terms(n)[i].pin}) = 1
      BY FS_Singleton
    <3> QED BY <2>1, <3>1
  <2> QED BY <2>1, <2>2, <2>3 DEF IsWire
<1> QED BY <1>2, <1>3, <1>5, <1>6

\* There are finitely many taps.
LEMMA TapsFinite ==
    ASSUME NEW terms, AreTerms(terms)
    PROVE  IsFiniteSet(RouteNet(terms).taps)
<1> DEFINE D == DOMAIN terms
<1>1. IsFiniteSet(D)
  BY DEF AreTerms
<1>2. ASSUME NEW S \in SUBSET D, NEW feet PROVE IsFiniteSet({Tap(terms[i], feet[i]) : i \in S})
  <2> DEFINE f == [i \in S |-> Tap(terms[i], feet[i])]
  <2>1. IsFiniteSet(S)
    BY <1>1, FS_Subset
  <2>2. {f[i] : i \in S} = {Tap(terms[i], feet[i]) : i \in S}
    OBVIOUS
  <2>3. IsFiniteSet({f[i] : i \in S})
    <3> HIDE DEF f
    <3> QED BY <2>1, ImageFinite
  <2> QED BY <2>2, <2>3
<1>3. \E S \in SUBSET D : \E feet : LevelTrunk(terms).taps = {Tap(terms[i], feet[i]) : i \in S}
  <2> DEFINE f == LeftNth(terms, 1)
             l == LeftNth(terms, Cardinality(D))
             feet == [i \in D |-> Exit(terms[i])]
  <2>1. LevelTrunk(terms).taps = {Tap(terms[i], feet[i]) : i \in D \ {f, l}}
    BY DEF LevelTrunk, TrunkBetween
  <2>2. D \ {f, l} \in SUBSET D
    OBVIOUS
  <2> HIDE DEF f, l, feet
  <2> QED BY <2>1, <2>2
<1>4. \E S \in SUBSET D : \E feet : VerticalTrunk(terms).taps = {Tap(terms[i], feet[i]) : i \in S}
  <2> DEFINE f == AboveNth(terms, 1)
             N == Cardinality(D)
             l == AboveNth(terms, N)
             xAt(k) == Exit(terms[LeftNth(terms, k)])[1]
             x == RoundHalf(IF N % 2 = 1 THEN 2 * xAt(N \div 2 + 1) ELSE xAt(N \div 2) + xAt(N \div 2 + 1))
             feet == [i \in D |-> <<x, Exit(terms[i])[2]>>]
  <2>1. VerticalTrunk(terms).taps = {Tap(terms[i], feet[i]) : i \in D \ {f, l}}
    BY DEF VerticalTrunk, TrunkBetween
  <2>2. D \ {f, l} \in SUBSET D
    OBVIOUS
  <2> HIDE DEF f, l, feet
  <2> QED BY <2>1, <2>2
<1>5. RouteNet(terms).taps \in {{}, LevelTrunk(terms).taps, VerticalTrunk(terms).taps}
  BY DEF RouteNet, RouteTrunk
<1> QED BY <1>2, <1>3, <1>4, <1>5, FS_EmptySet

\* Whatever route_nets drops for a body in the way (route.rs:121-138), what is left is a wiring.
LEMMA UnhoppedIs ==
    ASSUME TypeOK, NEW n \in Nets
    PROVE  IsWiring(Unhopped(n), n)
<1> DEFINE t == Terms(n)
           route == RouteNet(t)
<1>1. ASSUME NEW S \in SUBSET StubWires(n), NEW r, r = Partly(S)
      PROVE  IsWiring(r, n)
  <2> DEFINE T == {c \in S : ChainClear(c, Bodies)}
  <2>1. r = [main |-> {}, taps |-> T, junctions |-> {}, partial |-> TRUE]
    BY <1>1 DEF Partly
  <2>2. IsFiniteSet(T)
    BY StubWiresAre, FS_Subset
  <2>3. \A c \in T : ChainClear(c, Bodies) /\ IsWire(c) /\ \A p \in c.ports : c.ports \ {p} # {}
    BY StubWiresAre
  <2> HIDE DEF T
  <2>4. /\ r.main = {} /\ r.taps = T /\ r.partial = TRUE
        /\ r = [main |-> r.main, taps |-> r.taps, junctions |-> r.junctions, partial |-> r.partial]
    BY <2>1
  <2>5. Chains(r) = T
    BY <2>4 DEF Chains
  <2> QED BY <2>2, <2>3, <2>4, <2>5 DEF IsWiring
<1>2. CASE ~ShouldRoute(n, t)
  <2>1. Unhopped(n) = Partly(StubWires(n))
    BY <1>2 DEF Unhopped
  <2> QED BY <1>1, <2>1
<1>3. CASE ShouldRoute(n, t) /\ ~\A c \in Chains(route) : ChainClear(c, Bodies)
  <2>1. Unhopped(n) = Partly({})
    BY <1>3 DEF Unhopped, Wholly
  <2> QED BY <1>1, <2>1
<1>4. CASE ShouldRoute(n, t) /\ \A c \in Chains(route) : ChainClear(c, Bodies)
  <2>1. Unhopped(n) = route
    BY <1>4 DEF Unhopped, Wholly
  <2>2. Cardinality(DOMAIN t) >= 2
    BY <1>4 DEF ShouldRoute
  <2>3. IsRoute(route, t) /\ IsFiniteSet(route.taps)
    BY <2>2, TermsAre, RouteNetIs, TapsFinite
  <2> HIDE DEF route
  <2>4. IsFiniteSet(Chains(route)) /\ \A c \in Chains(route) : IsWire(c)
    BY <2>3, RouteWires
  <2>5. route.partial = FALSE /\ route = [main |-> route.main, taps |-> route.taps, junctions |-> route.junctions, partial |-> FALSE]
    BY <2>3 DEF IsRoute
  <2> QED BY <1>4, <2>1, <2>3, <2>4, <2>5 DEF IsWiring
<1> QED BY <1>2, <1>3, <1>4

-----------------------------------------------------------------------------
(* The nets one after the other *)

Rank(n) == CHOOSE i \in DOMAIN NetOrder : NetOrder[i] = n
EdgesIn(n) == UNION {Edges(c) : c \in Chains(Unhopped(n))}
Before(n) == UNION {EdgesIn(m) : m \in {x \in Nets : Rank(x) < Rank(n)}}

\* Each net has its rank in the order of the names.
LEMMA RanksAre ==
    /\ \A i \in DOMAIN NetOrder : NetOrder[i] \in Nets /\ Rank(NetOrder[i]) = i
    /\ DOMAIN NetOrder \subseteq Nat
<1>1. \A i \in DOMAIN NetOrder : NetOrder[i] \in Nets
  BY GeometryAssumption, ElementOfSeq, PinsAre
<1>2. ASSUME NEW i \in DOMAIN NetOrder PROVE Rank(NetOrder[i]) = i
  <2>1. Rank(NetOrder[i]) \in DOMAIN NetOrder /\ NetOrder[Rank(NetOrder[i])] = NetOrder[i]
    BY DEF Rank
  <2> QED BY <2>1, GeometryAssumption
<1> QED BY <1>1, <1>2, PinsAre

\* The edges of a line are straight, and finitely many.
LEMMA EdgesAre ==
    ASSUME NEW c, NEW a, NEW b, IsLine(c, a, b)
    PROVE  /\ Edges(c) = Range(c.edges) /\ Edges(c) \in SUBSET Segments /\ IsFiniteSet(Edges(c))
           /\ \A e \in Edges(c) : IsStraight(e)
<1> DEFINE s == c.edges
<1>1. s \in Seq(Segments) /\ \A e \in Range(s) : IsStraight(e)
  BY DEF IsLine, IsPath
<1>2. Edges(c) = Range(s) /\ Edges(c) = {s[i] : i \in DOMAIN s}
  BY DEF Edges, Range
<1> HIDE DEF s
<1>3. DOMAIN s = 1..Len(s) /\ Len(s) \in Nat /\ \A i \in DOMAIN s : s[i] \in Segments
  BY <1>1, LenProperties, ElementOfSeq
<1>4. IsFiniteSet(DOMAIN s)
  BY <1>3, FS_Interval
<1>5. IsFiniteSet({s[i] : i \in DOMAIN s})
  BY <1>4, ImageFinite
<1>6. Edges(c) \subseteq Segments
  BY <1>2, <1>3
<1> QED BY <1>1, <1>2, <1>5, <1>6 DEF s

\* So are those of all nets that come before one.
LEMMA BeforeIs ==
    ASSUME TypeOK, NEW n \in Nets
    PROVE  /\ Before(n) \in SUBSET Segments /\ IsFiniteSet(Before(n)) /\ \A e \in Before(n) : IsStraight(e)
<1>1. ASSUME NEW m \in Nets, NEW c \in Chains(Unhopped(m))
      PROVE  Edges(c) \in SUBSET Segments /\ IsFiniteSet(Edges(c)) /\ \A e \in Edges(c) : IsStraight(e)
  <2>1. IsWire(c)
    BY UnhoppedIs DEF IsWiring
  <2>2. PICK a, b : IsLine(c, a, b)
    BY <2>1 DEF IsWire
  <2> QED BY <2>2, EdgesAre
<1>2. ASSUME NEW m \in Nets
      PROVE  EdgesIn(m) \in SUBSET Segments /\ IsFiniteSet(EdgesIn(m)) /\ \A e \in EdgesIn(m) : IsStraight(e)
  <2> DEFINE C == Chains(Unhopped(m))
             f == [c \in C |-> Edges(c)]
             S == {Edges(c) : c \in C}
  <2>1. IsFiniteSet(C)
    BY UnhoppedIs DEF IsWiring
  <2>2. {f[c] : c \in C} = S
    OBVIOUS
  <2>3. IsFiniteSet({f[c] : c \in C})
    <3> HIDE DEF f, C
    <3> QED BY <2>1, ImageFinite
  <2>4. \A T \in S : T \in SUBSET Segments /\ IsFiniteSet(T) /\ \A e \in T : IsStraight(e)
    BY <1>1
  <2>5. EdgesIn(m) = UNION S
    BY DEF EdgesIn
  <2>6. IsFiniteSet(S)
    BY <2>2, <2>3
  <2> HIDE DEF S
  <2>7. IsFiniteSet(UNION S)
    BY <2>4, <2>6, FS_UNION
  <2> QED BY <2>4, <2>5, <2>7
<1>3. QED
  <2> DEFINE M == {x \in Nets : Rank(x) < Rank(n)}
             f == [m \in M |-> EdgesIn(m)]
             S == {EdgesIn(m) : m \in M}
  <2>1. IsFiniteSet(M)
    BY PinsAre, FS_Subset
  <2>2. {f[m] : m \in M} = S
    OBVIOUS
  <2>3. IsFiniteSet({f[m] : m \in M})
    <3> HIDE DEF f, M
    <3> QED BY <2>1, ImageFinite
  <2>4. \A T \in S : T \in SUBSET Segments /\ IsFiniteSet(T) /\ \A e \in T : IsStraight(e)
    BY <1>2
  <2>5. Before(n) = UNION S
    BY DEF Before
  <2>6. IsFiniteSet(S)
    BY <2>2, <2>3
  <2> HIDE DEF S
  <2>7. IsFiniteSet(UNION S)
    BY <2>4, <2>6, FS_UNION
  <2> QED BY <2>4, <2>5, <2>7

Over(S, others) == {Hopping(c, others) : c \in S}

\* Hops are all that split_crossings changes of a net.
LEMMA RoutesAre ==
    ASSUME TypeOK, NEW n \in Nets
    PROVE  LET u == Unhopped(n) IN
           Routes[n] = [main |-> Over(u.main, Before(n)), taps |-> Over(u.taps, Before(n)),
                        junctions |-> u.junctions, partial |-> u.partial]
<1> DEFINE u == Unhopped(n)
           r == [u EXCEPT !.main = Over(u.main, Before(n)), !.taps = Over(u.taps, Before(n))]
<1>1. u = [main |-> u.main, taps |-> u.taps, junctions |-> u.junctions, partial |-> u.partial]
  BY UnhoppedIs DEF IsWiring
<1>2. Routes[n] = r
  <2> DEFINE w == [m \in Nets |-> Unhopped(m)]
             rank(m) == CHOOSE i \in DOMAIN NetOrder : NetOrder[i] = m
             edges(m) == UNION {Edges(c) : c \in Chains(w[m])}
             before(m) == UNION {edges(k) : k \in {x \in Nets : rank(x) < rank(m)}}
  <2>1. Routes = [m \in Nets |-> [w[m] EXCEPT !.main = {Hopping(c, before(m)) : c \in @},
                                              !.taps = {Hopping(c, before(m)) : c \in @}]]
    BY DEF Routes, Hopped
  <2>2. \A m \in Nets : w[m] = Unhopped(m) /\ rank(m) = Rank(m)
    BY DEF Rank
  <2>3. \A m \in Nets : edges(m) = EdgesIn(m)
    BY DEF EdgesIn
  <2>4. before(n) = Before(n)
    <3> HIDE DEF edges, rank, w
    <3>1. {x \in Nets : rank(x) < rank(n)} = {x \in Nets : Rank(x) < Rank(n)}
      BY <2>2
    <3> DEFINE M == {x \in Nets : Rank(x) < Rank(n)}
    <3>2. {edges(k) : k \in M} = {EdgesIn(k) : k \in M}
      BY <2>3
    <3>3. before(n) = UNION {edges(k) : k \in M}
      BY <3>1
    <3> HIDE DEF M
    <3>4. Before(n) = UNION {EdgesIn(k) : k \in M}
      BY DEF Before, M
    <3> QED BY <3>2, <3>3, <3>4
  <2> HIDE DEF before
  <2>5. Routes[n] = [w[n] EXCEPT !.main = {Hopping(c, before(n)) : c \in @},
                                 !.taps = {Hopping(c, before(n)) : c \in @}]
    <3> HIDE DEF w
    <3> QED BY <2>1
  <2>6. w[n] = u
    OBVIOUS
  <2> HIDE DEF w, u
  <2>7. Routes[n] = [u EXCEPT !.main = {Hopping(c, Before(n)) : c \in u.main},
                              !.taps = {Hopping(c, Before(n)) : c \in u.taps}]
    BY <1>1, <2>4, <2>5, <2>6
  <2> QED BY <2>7 DEF Over
<1> HIDE DEF u
<1>3. r = [main |-> Over(u.main, Before(n)), taps |-> Over(u.taps, Before(n)),
           junctions |-> u.junctions, partial |-> u.partial]
  <2> DEFINE a == Over(u.main, Before(n))
             b == Over(u.taps, Before(n))
             j == u.junctions
             q == u.partial
             m == u.main
             t == u.taps
  <2>1. u = [main |-> m, taps |-> t, junctions |-> j, partial |-> q]
    BY <1>1
  <2>2. r = [u EXCEPT !.main = a, !.taps = b]
    OBVIOUS
  <2> HIDE DEF a, b, j, q, m, t, r
  <2>3. r = [main |-> a, taps |-> b, junctions |-> j, partial |-> q]
    BY <2>1, <2>2
  <2> QED BY <2>3 DEF a, b, j, q
<1> QED BY <1>2, <1>3 DEF u

\* Every pin is drawn.
LEMMA PinsDrawn ==
    ASSUME TypeOK PROVE EveryPinIsDrawn
<1> SUFFICES ASSUME NEW n \in Nets, \A p \in PortSet(n) : Terminal(p).dir[2] = 0,
                    NEW p \in PortSet(n) \ Labelled(n, Routes[n])
             PROVE  \/ \E c \in Chains(Routes[n]) : p \in c.ports /\ c.ports \ {p} # {}
                    \/ \E tap \in Routes[n].taps, c \in Routes[n].main :
                          p \in tap.ports /\ OnChain(Last(tap.edges).to, c)
  BY DEF EveryPinIsDrawn, IsDrawn
<1> DEFINE u == Unhopped(n)
           r == Routes[n]
           B == Before(n)
           t == Terms(n)
<1>1. r = [main |-> Over(u.main, B), taps |-> Over(u.taps, B), junctions |-> u.junctions, partial |-> u.partial]
  BY RoutesAre
<1>2. IsWiring(u, n)
  BY UnhoppedIs
<1>3. B \in SUBSET Segments /\ IsFiniteSet(B)
  BY BeforeIs
<1> HIDE DEF u, B
<1>4. r.main = Over(u.main, B) /\ r.taps = Over(u.taps, B) /\ r.partial = u.partial
  BY <1>1
<1>5. ASSUME NEW c \in Chains(u)
      PROVE  Hopping(c, B) \in Chains(r) /\ Hopping(c, B).ports = c.ports
  <2>1. Hopping(c, B) \in Chains(r)
    BY <1>4 DEF Chains, Over
  <2>2. IsWire(c)
    BY <1>2 DEF IsWiring
  <2>3. PICK a, b : IsLine(c, a, b)
    BY <2>2 DEF IsWire
  <2>4. Hopping(c, B).ports = c.ports
    BY <1>3, <2>3, HoppingIs
  <2> QED BY <2>1, <2>4
<1>6. p \in PortSet(n) /\ (r.partial => p \in UNION {c.ports : c \in r.taps})
  BY DEF Labelled, Covered
<1> HIDE DEF r
<1>7. CASE u.partial
  <2>1. PICK d \in r.taps : p \in d.ports
    BY <1>4, <1>6, <1>7
  <2>2. PICK c \in u.taps : d = Hopping(c, B)
    BY <1>4 DEF Over
  <2>3. c \in Chains(u)
    BY DEF Chains
  <2>4. d \in Chains(r) /\ d.ports = c.ports
    BY <1>5, <2>2, <2>3
  <2>5. c.ports \ {p} # {}
    BY <1>2, <1>7, <2>1, <2>4 DEF IsWiring
  <2> QED BY <2>1, <2>4, <2>5 DEF r
<1>8. CASE ~u.partial
  <2>1. IsRoute(u, t)
    BY <1>2, <1>8 DEF IsWiring
  <2>2. PICK f, l \in DOMAIN t, m \in u.main :
          /\ f # l /\ u.main = {m}
          /\ IsLine(m, t[f].pos, t[l].pos) /\ m.ports = {t[f].pin, t[l].pin}
          /\ \A tap \in u.taps : Tapped(tap, t, m)
          /\ \A i \in DOMAIN t : i = f \/ i = l \/ \E tap \in u.taps : tap.ports = {t[i].pin}
    BY <2>1 DEF IsRoute, Joins
  <2>3. PICK i \in DOMAIN t : p = t[i].pin
    BY <1>6, TermsAre DEF PortSet
  <2>4. t[f].pin # t[l].pin
    BY <2>2, TermsAre
  <2>5. CASE i = f \/ i = l
    <3>1. m \in Chains(u)
      BY <2>2 DEF Chains
    <3>2. p \in m.ports /\ m.ports \ {p} # {}
      BY <2>2, <2>3, <2>4, <2>5
    <3> QED BY <1>5, <3>1, <3>2 DEF r
  <2>6. CASE i # f /\ i # l
    <3>1. PICK tap \in u.taps : tap.ports = {p}
      BY <2>2, <2>3, <2>6
    <3>2. PICK k \in DOMAIN t, foot \in Places :
            /\ IsLine(tap, t[k].pos, foot)
            /\ (\A j \in DOMAIN t : t[j].dir[2] = 0) => \E e \in Range(m.edges) : InBox(foot, e)
      BY <2>2 DEF Tapped
    <3>3. \A j \in DOMAIN t : t[j].dir[2] = 0
      <4> SUFFICES ASSUME NEW j \in DOMAIN t PROVE t[j].dir[2] = 0
        OBVIOUS
      <4>1. t[j].pin \in PortSet(n) /\ t[j] = Terminal(t[j].pin)
        BY TermsAre DEF PortSet
      <4> QED BY <4>1
    <3>4. PICK e \in Range(m.edges) : InBox(foot, e)
      BY <3>2, <3>3
    <3> DEFINE d == Hopping(tap, B)
               c == Hopping(m, B)
    <3>5. d \in r.taps /\ c \in r.main
      BY <1>4, <2>2 DEF Over
    <3>6. IsLine(d, t[k].pos, foot) /\ d.ports = {p}
      BY <1>3, <3>1, <3>2, HoppingIs
    <3>7. PICK q \in Range(c.edges) : InBox(foot, q)
      BY <1>3, <2>2, <3>4, HoppingIs
    <3> HIDE DEF d, c
    <3>8. q \in Edges(c)
      BY DEF Edges, Range
    <3>9. Last(d.edges).to = foot
      BY <3>6 DEF IsLine, IsPath, Last
    <3>10. OnChain(Last(d.edges).to, c)
      BY <3>7, <3>8, <3>9 DEF OnChain, InBox
    <3> QED BY <3>5, <3>6, <3>10 DEF r
  <2> QED BY <2>5, <2>6
<1> QED BY <1>2, <1>7, <1>8 DEF IsWiring

\* Whatever wires the router drops and labels it covers (circuit_json.rs:554-600, route.rs:100-140),
\* no pin of any board is left without a sign of its net: its label, a wire to another pin, or a tap
\* that ends on the trunk. Nets with an upright exit are left out: there a tap may miss the trunk.
THEOREM PinsCorrect == Spec => []EveryPinIsDrawn
BY TypeCorrect, PinsDrawn, PTL

-----------------------------------------------------------------------------
(* Wires that can be drawn *)

\* A part of an edge enters no body that the edge does not enter (chain_clear, route.rs:148-183).
LEMMA PartsEnter ==
    ASSUME TypeOK, NEW e \in Segments, IsStraight(e), NEW q, Within(q, e), NEW body \in Bodies, ~Enters(e, body)
    PROVE  ~Enters(q, body)
<1> SUFFICES ASSUME Enters(q, body) PROVE Enters(e, body)
  OBVIOUS
<1>1. q \in Segments /\ IsStraight(q) /\ \A k \in {1, 2} : Low(e, k) <= Low(q, k) /\ High(q, k) <= High(e, k)
  BY DEF Within
<1>2. \A k \in {1, 2} : Low(e, k) \in Int /\ High(e, k) \in Int /\ Low(q, k) \in Int /\ High(q, k) \in Int
  BY <1>1, LevelEdges
<1>3. \A k \in {1, 2} : body.center[k] \in Int /\ body.size[k] \in Int
  <2>1. PICK p \in parts : body = [center |-> Center(p), size |-> Size(p)]
    BY DEF Bodies
  <2>2. body.center \in Places /\ body.size \in Places
    BY <2>1, LooksAre
  <2> QED BY <2>2, PlacesAre
<1> SUFFICES ASSUME NEW k \in {1, 2}
             PROVE  /\ Low(e, k) < body.center[k] + body.size[k] \div 2 - MARGIN
                    /\ High(e, k) > body.center[k] - body.size[k] \div 2 + MARGIN
  BY DEF Enters
<1> DEFINE a == body.center[k] + body.size[k] \div 2 - MARGIN
           b == body.center[k] - body.size[k] \div 2 + MARGIN
<1>4. a \in Int /\ b \in Int
  BY <1>3 DEF MARGIN
<1>5. Low(q, k) < a /\ High(q, k) > b
  BY DEF Enters
<1> HIDE DEF a, b
<1>6. Low(e, k) < a /\ High(e, k) > b
  BY <1>1, <1>2, <1>4, <1>5
<1> QED BY <1>6 DEF a, b

\* Each chain that is drawn is one that the router made, with hops cut in.
LEMMA WiresAre ==
    ASSUME TypeOK, NEW n \in Nets, NEW c \in Chains(Routes[n])
    PROVE  \E d \in Chains(Unhopped(n)) : \E a, b :
              /\ c = Hopping(d, Before(n)) /\ c.ports = d.ports
              /\ IsLine(d, a, b) /\ IsLine(c, a, b)
              /\ a \in Posts(c.ports) /\ (Cardinality(c.ports) = 2 => b \in Posts(c.ports))
              /\ \A q \in Edges(c) : \E e \in Edges(d) : PieceOver(q, e, Before(n))
<1> DEFINE u == Unhopped(n)
           r == Routes[n]
           B == Before(n)
<1>1. r = [main |-> Over(u.main, B), taps |-> Over(u.taps, B), junctions |-> u.junctions, partial |-> u.partial]
  BY RoutesAre
<1>2. IsWiring(u, n)
  BY UnhoppedIs
<1>3. B \in SUBSET Segments /\ IsFiniteSet(B)
  BY BeforeIs
<1> HIDE DEF u, B
<1>4. r.main = Over(u.main, B) /\ r.taps = Over(u.taps, B)
  BY <1>1
<1>5. PICK d \in Chains(u) : c = Hopping(d, B)
  BY <1>4 DEF Chains, Over
<1>6. IsWire(d)
  BY <1>2 DEF IsWiring
<1>7. PICK a, b : IsLine(d, a, b) /\ a \in Posts(d.ports) /\ (Cardinality(d.ports) = 2 => b \in Posts(d.ports))
  BY <1>6 DEF IsWire
<1>8. /\ IsLine(c, a, b) /\ c.ports = d.ports
      /\ \A q \in Range(c.edges) : \E e \in Range(d.edges) : PieceOver(q, e, B)
  BY <1>3, <1>5, <1>7, HoppingIs
<1>9. Edges(c) = Range(c.edges) /\ Edges(d) = Range(d.edges)
  BY DEF Edges, Range
<1>10. \A q \in Edges(c) : \E e \in Edges(d) : PieceOver(q, e, B)
  BY <1>8, <1>9
<1> QED BY <1>5, <1>7, <1>8, <1>10 DEF u, B

\* Each is one polyline of straight pieces, starts at a pin of its, and is clear of the bodies.
LEMMA EachDrawable ==
    ASSUME TypeOK, NEW n \in Nets, NEW c \in Chains(Routes[n])
    PROVE  WireIsDrawable(c, {Terminal(p).pos : p \in c.ports}, Bodies)
<1> DEFINE es == c.edges
<1>1. PICK d \in Chains(Unhopped(n)) : \E a, b :
              /\ IsLine(d, a, b) /\ IsLine(c, a, b)
              /\ a \in Posts(c.ports) /\ (Cardinality(c.ports) = 2 => b \in Posts(c.ports))
              /\ \A q \in Edges(c) : \E e \in Edges(d) : PieceOver(q, e, Before(n))
  BY WiresAre
<1>2. PICK a, b :
              /\ IsLine(d, a, b) /\ IsLine(c, a, b)
              /\ a \in Posts(c.ports) /\ (Cardinality(c.ports) = 2 => b \in Posts(c.ports))
              /\ \A q \in Edges(c) : \E e \in Edges(d) : PieceOver(q, e, Before(n))
  BY <1>1
<1>3. /\ es \in Seq(Segments) /\ es # <<>> /\ es[1].from = a /\ es[Len(es)].to = b
      /\ \A i \in 1..Len(es) - 1 : es[i].to = es[i + 1].from
  BY <1>2 DEF IsLine, IsPath
<1>4. \A i \in DOMAIN es : IsStraight(es[i])
  BY <1>2 DEF IsLine, Range
<1>5. ChainClear(d, Bodies)
  BY UnhoppedIs DEF IsWiring
<1>6. ChainClear(c, Bodies)
  <2> SUFFICES ASSUME NEW q \in Edges(c), NEW body \in Bodies PROVE ~Enters(q, body)
    BY DEF ChainClear
  <2>1. PICK e \in Edges(d) : PieceOver(q, e, Before(n))
    BY <1>2
  <2>2. ~Enters(e, body)
    BY <1>5 DEF ChainClear
  <2>3. e \in Segments /\ IsStraight(e)
    BY <1>2, EdgesAre
  <2> QED BY <2>1, <2>2, <2>3, PartsEnter DEF PieceOver
<1>7. Head(es).from = a /\ Last(es).to = b
  BY <1>3 DEF Last
<1> HIDE DEF es
<1>8. /\ \A i \in DOMAIN es : (es[i].from[1] = es[i].to[1]) # (es[i].from[2] = es[i].to[2])
      /\ \A i \in 1..Len(es) - 1 : es[i].to = es[i + 1].from
  BY <1>3, <1>4 DEF IsStraight
<1>9. Head(es).from \in Posts(c.ports) /\ (Cardinality(c.ports) = 2 => Last(es).to \in Posts(c.ports))
  BY <1>2, <1>7
<1> QED BY <1>6, <1>8, <1>9 DEF WireIsDrawable, Posts, es

\* A later net's wire over an earlier one's has a hop there, or a corner or a hop near by.
LEMMA EachHopped ==
    ASSUME TypeOK, NEW i \in DOMAIN NetOrder, NEW j \in DOMAIN NetOrder, i < j,
           NEW c \in Chains(Routes[NetOrder[j]]), NEW d \in Chains(Routes[NetOrder[i]]),
           NEW e \in Edges(c), NEW o \in Edges(d)
    PROVE  CrossingIsHopped(e, o)
<1> SUFFICES ASSUME ~e.hop, ~o.hop, NEW at \in Crossings(e, {o})
             PROVE  \E k \in {1, 2} : \E end \in {e.from[k], e.to[k]} : Level(e) = (k = 1) /\ end - at[k] \in -HOP..HOP
  BY DEF CrossingIsHopped
<1> DEFINE m == NetOrder[i]
           n == NetOrder[j]
           B == Before(n)
<1>1. m \in Nets /\ n \in Nets /\ Rank(m) < Rank(n)
  BY RanksAre
<1>2. PICK c0 \in Chains(Unhopped(n)) :
          /\ \E a, b : IsLine(c0, a, b)
          /\ \A q \in Edges(c) : \E x \in Edges(c0) : PieceOver(q, x, B)
  BY <1>1, WiresAre
<1>3. PICK d0 \in Chains(Unhopped(m)) :
          /\ \E a, b : IsLine(d0, a, b)
          /\ \A q \in Edges(d) : \E x \in Edges(d0) : PieceOver(q, x, Before(m))
  BY <1>1, WiresAre
<1>4. PICK e0 \in Edges(c0) : PieceOver(e, e0, B)
  BY <1>2
<1>5. PICK o0 \in Edges(d0) : PieceOver(o, o0, Before(m))
  BY <1>3
<1>6. e0 \in Segments /\ IsStraight(e0) /\ o0 \in Segments /\ IsStraight(o0)
  BY <1>2, <1>3, EdgesAre
<1>7. o0 \in B
  <2>1. o0 \in EdgesIn(m)
    BY <1>3, <1>5 DEF EdgesIn
  <2> QED BY <1>1, <2>1 DEF Before
<1>8. Within(e, e0) /\ Within(o, o0)
  BY <1>4, <1>5 DEF PieceOver
<1> HIDE DEF B, m, n
<1>9. /\ at \in Crossings(e0, B)
      /\ \E k \in {1, 2} : (Level(e0) <=> k = 1) /\ Low(e, k) < at[k] /\ at[k] < High(e, k)
  BY <1>6, <1>7, <1>8, PartsCross
<1>10. PICK k \in {1, 2} : (Level(e0) <=> k = 1) /\ Low(e, k) < at[k] /\ at[k] < High(e, k)
  BY <1>9
<1>11. PICK end \in {e.from[k], e.to[k]} : end - at[k] \in -HOP..HOP
  BY <1>4, <1>9, <1>10 DEF PieceOver
<1>12. Level(e) = (k = 1)
  BY <1>8, <1>10 DEF Within, Level
<1> QED BY <1>11, <1>12

\* Together: what the router hands on can be drawn.
LEMMA WiresDrawable ==
    ASSUME TypeOK PROVE WiresAreDrawable
<1> DEFINE w == [n \in Nets |-> Chains(Routes[n])]
<1>1. \A n \in Nets : w[n] = Chains(Routes[n])
  OBVIOUS
<1> HIDE DEF w
<1>2. ASSUME NEW n \in Nets, NEW c \in w[n] PROVE WireIsDrawable(c, {Terminal(p).pos : p \in c.ports}, Bodies)
  BY <1>1, EachDrawable
<1>3. ASSUME NEW i \in DOMAIN NetOrder, NEW j \in DOMAIN NetOrder, i < j,
             NEW c \in w[NetOrder[j]], NEW d \in w[NetOrder[i]], NEW e \in Edges(c), NEW o \in Edges(d)
      PROVE  CrossingIsHopped(e, o)
  <2>1. c \in Chains(Routes[NetOrder[j]]) /\ d \in Chains(Routes[NetOrder[i]])
    BY <1>1, RanksAre
  <2> QED BY <1>3, <2>1, EachHopped
<1>4. AreDrawable(w, Bodies)
  BY <1>2, <1>3 DEF AreDrawable
<1> QED BY <1>4 DEF WiresAreDrawable, w

\* What the renderer and the reader count on (docs/decisions/0001, route.rs:12-16) holds on every board:
\* a wire is one polyline of level and upright pieces that keeps off every body after split_edge has cut
\* the hops in (route.rs:490-532), and a later net's wire crosses an earlier one's with a hop, unless a
\* corner or another hop is too close.
THEOREM WiresCorrect == Spec => []WiresAreDrawable
BY TypeCorrect, WiresDrawable, PTL

=============================================================================
